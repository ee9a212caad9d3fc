-------------------------- MODULE ReadDispatchProofs --------------------------
(***************************************************************************)
(* Cursors never widen what a caller may read, and following them collects  *)
(* one listing exactly: the properties of module ReadDispatch, for any      *)
(* operations, targets, regions, page sizes and lengths of the lists.       *)
(***************************************************************************)
EXTENDS ReadDispatch, SequenceTheorems, FiniteSetTheorems, TLAPS

Source == Ops \X Targets \X Origins
IsWalk(w) == w = [sources |-> w.sources, next |-> w.next, got |-> w.got, clean |-> w.clean, done |-> w.done]

DispatchTypes ==
  /\ origin \in Origins
  /\ listing \in [Targets -> Seq(Nat)]
  /\ call \in [Callers -> Request \cup {None}]
  /\ DOMAIN walk = Callers /\ walk = [t \in Callers |-> walk[t]] /\ \A t \in Callers : IsWalk(walk[t])

\* Records are numbered in the order they were made, and only the oldest goes.
Consecutive ==
  \A x \in Targets : \A i, j \in DOMAIN listing[x] : listing[x][i] + j = listing[x][j] + i

\* A continuation on the wire passed validate_for in the region it was sent to,
\* and asks what its cursor was bound to; a restart drops the calls.
CallBound(r) ==
  r.cursor # None =>
    /\ r.cursor.op = r.op /\ r.cursor.origin = origin /\ r.cursor.mode = Pagination[r.op]
    /\ r.cursor.target = r.target /\ r.cursor.limit = r.limit

\* The cursor of a walk is bound to the source of all its pages.
WalkBound(w) ==
  \/ w.sources = {} /\ w.next = None /\ ~w.clean
  \/ \E s \in Source :
       /\ w.sources = {s}
       /\ w.next # None => w.next.op = s[1] /\ w.next.target = s[2] /\ w.next.origin = s[3]

\* The cursor c stands behind the first m records of a list.
Behind(c, all, m) ==
  IF Pagination[c.op] = "PageLimit" THEN m = (c.value - 1) * c.limit ELSE m >= 1 /\ all[m] = c.value

\* A walk over records that stay has the records up to its cursor, and all of
\* them when there is no cursor.
Reached(w, all) ==
  \E m \in 0..Len(all) :
    /\ w.got = SubSeq(all, 1, m)
    /\ w.done => m = Len(all)
    /\ w.next # None => m < Len(all) /\ Behind(w.next, all, m)

CallsBound == \A t \in Callers : call[t] # None => CallBound(call[t])
WalksBound == \A t \in Callers : WalkBound(walk[t])
WalksReached ==
  \A t \in Callers : walk[t].clean => \A s \in walk[t].sources : Reached(walk[t], listing[s[2]])

DispatchInv == DispatchTypes /\ Consecutive /\ CallsBound /\ WalksBound /\ WalksReached

-----------------------------------------------------------------------------
(* The page Mist answers with *)

\* The pages before the page k.
LEMMA PageNumber == \A k, l \in Nat : (k + 1 - 1) * l = k * l /\ (1 <= k => (k - 1) * l + l = k * l)
<1> SUFFICES ASSUME NEW k \in Nat, NEW l \in Nat
             PROVE  (k + 1 - 1) * l = k * l /\ (1 <= k => (k - 1) * l + l = k * l)
  OBVIOUS
<1>1. k + 1 - 1 = k
  OBVIOUS
<1> QED
  BY <1>1

\* A cursor that stands behind m records gets the page after them.
LEMMA SkippedExact ==
  ASSUME DispatchTypes, Consecutive, NEW r \in Request, Pagination[r.op] # "None",
         NEW m \in 0..Len(listing[r.target]),
         r.cursor = None => m = 0,
         r.cursor # None =>
           r.cursor.op = r.op /\ r.cursor.limit = r.limit /\ Behind(r.cursor, listing[r.target], m)
  PROVE  Skipped(r) = m
<1> DEFINE all == listing[r.target]
<1>1. CASE r.cursor = None
  BY <1>1 DEF Skipped
<1>2. CASE r.cursor # None /\ Pagination[r.op] = "PageLimit"
  BY <1>2 DEF Skipped, Start, Behind
<1>3. CASE r.cursor # None /\ Pagination[r.op] # "PageLimit"
  <2> DEFINE seen(k) == \A i \in 1..Len(all) : all[i] <= Start(r) <=> i <= k
  <2>1. all \in Seq(Nat) /\ Len(all) \in Nat /\ DOMAIN all = 1..Len(all)
    BY DEF DispatchTypes, Request
  <2>2. m \in 1..Len(all) /\ all[m] = Start(r)
    BY <1>3, <2>1 DEF Behind, Start
  <2>3. ASSUME NEW i \in 1..Len(all) PROVE all[i] <= all[m] <=> i <= m
    <3>1. all[i] \in Nat /\ all[m] \in Nat
      BY <2>1, <2>2
    <3>2. all[i] + m = all[m] + i
      BY <2>1, <2>2 DEF Consecutive, Request
    <3> QED
      BY <3>1, <3>2, <2>2
  <2>4. seen(m)
    BY <2>2, <2>3
  <2>5. ASSUME NEW k \in 0..Len(all), seen(k) PROVE k = m
    <3>1. m <= k
      BY <2>1, <2>2, <2>4, <2>5
    <3>2. k <= m
      <4>1. CASE k = 0
        BY <4>1, <2>2
      <4>2. CASE k # 0
        <5>1. k \in 1..Len(all)
          BY <4>2, <2>1
        <5> QED
          BY <5>1, <2>4, <2>5
      <4> QED
        BY <4>1, <4>2
    <3> QED
      BY <3>1, <3>2, <2>1
  <2>6. Skipped(r) = CHOOSE k \in 0..Len(all) : seen(k)
    BY <1>3 DEF Skipped
  <2> HIDE DEF seen, all
  <2> QED
    BY <2>4, <2>5, <2>6 DEF all
<1> QED
  BY <1>1, <1>2, <1>3

\* The cursor of the next page stands behind this page, and there is none just
\* when this page is the last (derive_next_cursor).
LEMMA PageCut ==
  ASSUME DispatchTypes, Consecutive, NEW r \in Request,
         NEW m \in 0..Len(listing[r.target]),
         r.cursor = None => m = 0,
         r.cursor # None =>
           /\ r.cursor.op = r.op /\ r.cursor.limit = r.limit /\ r.cursor.mode = Pagination[r.op]
           /\ m < Len(listing[r.target]) /\ Behind(r.cursor, listing[r.target], m)
  PROVE  \E e \in m..Len(listing[r.target]) :
           /\ PageOf(r) = SubSeq(listing[r.target], m + 1, e)
           /\ NextValue(r) = None => e = Len(listing[r.target])
           /\ NextValue(r) # None =>
                /\ NextValue(r) \in Nat /\ e < Len(listing[r.target])
                /\ Pagination[r.op] \in {"PageLimit", "SearchAfter"}
                /\ IF Pagination[r.op] = "PageLimit" THEN e = (NextValue(r) - 1) * r.limit
                   ELSE e >= 1 /\ listing[r.target][e] = NextValue(r)
<1> DEFINE all == listing[r.target]
           n == Len(all)
<1>1. all \in Seq(Nat) /\ n \in Nat /\ DOMAIN all = 1..n /\ m \in Nat /\ m <= n
  BY DEF DispatchTypes, Request
<1>2. r.limit \in Nat /\ r.limit >= 1 /\ r.op \in Ops
  BY DispatchAssumption DEF Request
<1>3. Pagination[r.op] \in {"PageLimit", "SearchAfter", "None"}
  BY <1>2, DispatchAssumption
<1>4. CASE Pagination[r.op] = "None"
  <2>1. r.cursor = None
    BY <1>4 DEF Request, Cursor
  <2>2. PageOf(r) = SubSeq(all, 1, n)
    BY <1>1, <1>4, SubSeqFull DEF PageOf
  <2>3. NextValue(r) = None
    BY <1>4 DEF NextValue
  <2> QED
    BY <1>1, <2>1, <2>2, <2>3
<1> DEFINE e == IF m + r.limit < n THEN m + r.limit ELSE n
<1>5. e \in m..n /\ e \in Nat
  BY <1>1, <1>2
<1>6. Pagination[r.op] # "None" => PageOf(r) = SubSeq(all, m + 1, e)
  BY SkippedExact DEF PageOf
<1>7. CASE Pagination[r.op] = "PageLimit"
  <2> DEFINE k == IF r.cursor = None THEN 1 ELSE r.cursor.value
  <2>1. k \in Nat /\ 1 <= k
    BY DispatchAssumption DEF Request, Cursor
  <2>2. m + r.limit = k * r.limit
    <3>1. m = (k - 1) * r.limit
      BY <1>2, <1>7 DEF Behind
    <3> QED
      BY <3>1, <2>1, <1>2, PageNumber
  <2>3. NextValue(r) = IF k * r.limit >= n THEN None ELSE k + 1
    BY <1>7 DEF NextValue
  <2>4. CASE k * r.limit >= n
    <3>1. e = n /\ NextValue(r) = None
      BY <2>2, <2>3, <2>4, <1>1, <1>2
    <3> QED
      BY <1>5, <1>6, <1>7, <3>1
  <2>5. CASE ~(k * r.limit >= n)
    <3>1. e = k * r.limit /\ e < n /\ NextValue(r) = k + 1
      BY <2>2, <2>3, <2>5, <1>1, <1>2
    <3>2. k + 1 # None
      BY <2>1, DispatchAssumption
    <3>3. e = (NextValue(r) - 1) * r.limit
      BY <3>1, <2>1, <1>2, PageNumber
    <3>4. NextValue(r) \in Nat
      BY <3>1, <2>1
    <3> QED
      BY <1>5, <1>6, <1>7, <3>1, <3>2, <3>3, <3>4
  <2> QED
    BY <2>4, <2>5
<1>8. CASE Pagination[r.op] = "SearchAfter"
  <2> DEFINE page == SubSeq(all, m + 1, e)
  <2>1. page \in Seq(Nat) /\ Len(page) = e - m /\ \A i \in 1..(e - m) : page[i] = all[m + i]
    <3>1. \A i \in (m + 1)..e : i \in 1..n /\ all[i] \in Nat
      BY <1>1, <1>5
    <3>2. /\ page \in Seq(Nat) /\ Len(page) = IF m + 1 <= e THEN e - (m + 1) + 1 ELSE 0
          /\ \A i \in 1..(e - (m + 1) + 1) : page[i] = all[m + 1 + i - 1]
      <4>1. m + 1 \in Int /\ e \in Int
        BY <1>1, <1>5
      <4> HIDE DEF e, n, all
      <4> QED
        BY <3>1, <4>1, SubSeqProperties
    <3> HIDE DEF page, all, e, n
    <3>3. e - (m + 1) + 1 = e - m /\ (IF m + 1 <= e THEN e - (m + 1) + 1 ELSE 0) = e - m
      BY <1>1, <1>5
    <3>4. \A i \in 1..(e - m) : m + 1 + i - 1 = m + i
      BY <1>1, <1>5
    <3> QED
      BY <3>2, <3>3, <3>4
  <2>2. NextValue(r) = IF page = <<>> \/ page[Len(page)] = all[n] THEN None ELSE page[Len(page)]
    BY <1>6, <1>8 DEF NextValue
  <2>3. CASE e = n
    <3>1. NextValue(r) = None
      <4>1. CASE m = n
        BY <4>1, <2>1, <2>2, <2>3, <1>1
      <4>2. CASE m < n
        <5>1. page[Len(page)] = all[n]
          <6> HIDE DEF page, all, e
          <6>1. e - m \in 1..(e - m) /\ m + (e - m) = n
            BY <4>2, <2>3, <1>1, <1>5
          <6> QED
            BY <6>1, <2>1
        <5> QED
          BY <5>1, <2>2
      <4> QED
        BY <4>1, <4>2, <1>1
    <3> QED
      BY <1>5, <1>6, <1>8, <2>3, <3>1
  <2>4. CASE e # n
    <3>1. e < n /\ m < e /\ e \in 1..n
      BY <2>4, <1>1, <1>2
    <3>2. page # <<>> /\ page[Len(page)] = all[e]
      <4> HIDE DEF page, all, e, n
      <4>1. e - m \in 1..(e - m) /\ m + (e - m) = e
        BY <3>1, <1>1, <1>5
      <4> QED
        BY <4>1, <2>1
    <3>3. all[e] \in Nat /\ all[n] \in Nat /\ all[e] + n = all[n] + e
      <4>1. e \in DOMAIN all /\ n \in DOMAIN all
        BY <3>1, <1>1
      <4>2. r.target \in Targets
        BY DEF Request
      <4>3. all[e] + n = all[n] + e
        BY <4>1, <4>2 DEF Consecutive
      <4> HIDE DEF e, all
      <4>4. all[e] \in Nat /\ all[n] \in Nat
        BY <3>1, <1>1
      <4> QED
        BY <4>3, <4>4
    <3>4. all[e] # all[n]
      BY <3>1, <3>3, <1>1
    <3>5. NextValue(r) = all[e]
      BY <3>2, <3>4, <2>2
    <3>6. NextValue(r) \in Nat /\ NextValue(r) # None
      BY <3>3, <3>5, DispatchAssumption
    <3> QED
      BY <1>5, <1>6, <1>8, <3>1, <3>5, <3>6, SMTT(40)
  <2> QED
    BY <2>3, <2>4
<1> QED
  BY <1>3, <1>4, <1>7, <1>8

-----------------------------------------------------------------------------
(* The history of a walk *)

\* A caller that has no walk breaks no bound on walks.
LEMMA NoWalkHeld == IsWalk(NoWalk) /\ WalkBound(NoWalk) /\ ~NoWalk.clean
  BY DEF NoWalk, IsWalk, WalkBound

\* A response starts a walk, extends it by the page behind its cursor, or ends
\* it; what it leaves behind is bound and exact.
LEMMA FollowedHeld ==
  ASSUME DispatchInv, NEW t \in Callers, call[t] # None
  PROVE  LET w == Followed(t, call[t]) IN
         /\ IsWalk(w) /\ WalkBound(w)
         /\ w.clean => \A s \in w.sources : Reached(w, listing[s[2]])
<1> USE DEF DispatchInv
<1> DEFINE r == call[t]
           w == walk[t]
           v == Followed(t, r)
           all == listing[r.target]
           source == <<r.op, r.target, origin>>
<1>1. r \in Request /\ CallBound(r) /\ IsWalk(w) /\ WalkBound(w)
  BY DEF DispatchTypes, CallsBound, WalksBound
<1>2. source \in Source /\ r.op \in Ops /\ r.target \in Targets /\ origin \in Origins
  BY <1>1 DEF Source, DispatchTypes, Request
<1>3. all \in Seq(Nat) /\ Len(all) \in Nat
  BY <1>2 DEF DispatchTypes
<1>4. r.limit \in Nat
  BY <1>1, DispatchAssumption DEF Request
\* What every page does for a walk that stands behind m records.
<1>5. ASSUME NEW m \in 0..Len(all), r.cursor = None => m = 0,
             r.cursor # None => m < Len(all) /\ Behind(r.cursor, all, m)
      PROVE  \E e \in m..Len(all) :
               /\ PageOf(r) = SubSeq(all, m + 1, e)
               /\ NextCursor(r) = None => e = Len(all)
               /\ NextCursor(r) # None => e < Len(all) /\ Behind(NextCursor(r), all, e)
  <2>1. PICK e \in m..Len(all) :
           /\ PageOf(r) = SubSeq(all, m + 1, e)
           /\ NextValue(r) = None => e = Len(all)
           /\ NextValue(r) # None =>
                /\ NextValue(r) \in Nat /\ e < Len(all)
                /\ Pagination[r.op] \in {"PageLimit", "SearchAfter"}
                /\ IF Pagination[r.op] = "PageLimit" THEN e = (NextValue(r) - 1) * r.limit
                   ELSE e >= 1 /\ all[e] = NextValue(r)
    BY <1>1, <1>5, PageCut DEF CallBound
  <2>2. CASE NextValue(r) = None
    <3>1. NextCursor(r) = None
      BY <2>2 DEF NextCursor
    <3> QED
      BY <2>1, <2>2, <3>1
  <2>3. CASE NextValue(r) # None
    <3>1. NextCursor(r) \in CursorShape /\ NextCursor(r).op = r.op
          /\ NextCursor(r).value = NextValue(r) /\ NextCursor(r).limit = r.limit
      BY <2>1, <2>3, <1>2, <1>4 DEF NextCursor, CursorShape
    <3>2. NextCursor(r) # None
      BY <3>1, DispatchAssumption
    <3>3. Behind(NextCursor(r), all, e)
      BY <2>1, <2>3, <3>1 DEF Behind
    <3> QED
      BY <2>1, <2>3, <3>2, <3>3
  <2> QED
    BY <2>2, <2>3
<1>6. NextCursor(r) # None =>
        NextCursor(r).op = r.op /\ NextCursor(r).target = r.target /\ NextCursor(r).origin = origin
  BY DEF NextCursor
<1>7. CASE r.cursor = None
  <2>1. v = [sources |-> {source}, next |-> NextCursor(r), got |-> PageOf(r),
             clean |-> TRUE, done |-> NextCursor(r) = None]
    BY <1>7 DEF Followed
  <2>2. IsWalk(v) /\ WalkBound(v)
    BY <2>1, <1>2, <1>6 DEF IsWalk, WalkBound
  <2>3. PICK e \in 0..Len(all) :
           /\ PageOf(r) = SubSeq(all, 1, e)
           /\ NextCursor(r) = None => e = Len(all)
           /\ NextCursor(r) # None => e < Len(all) /\ Behind(NextCursor(r), all, e)
    BY <1>3, <1>5, <1>7
  <2>4. v.sources = {source} /\ source[2] = r.target /\ v.got = PageOf(r) /\ v.next = NextCursor(r)
    BY <2>1
  <2> HIDE DEF v, all, source
  <2>5. v.done => NextCursor(r) = None
    BY <2>1, Zenon
  <2>6. Reached(v, all)
    BY <2>3, <2>4, <2>5 DEF Reached
  <2> QED
    BY <2>2, <2>4, <2>6 DEF all, v
<1>8. CASE r.cursor # None /\ r.cursor = w.next
  <2>1. v = [sources |-> w.sources \cup {source}, next |-> NextCursor(r), got |-> w.got \o PageOf(r),
             clean |-> w.clean, done |-> NextCursor(r) = None]
    BY <1>8 DEF Followed
  <2>2. w.sources = {source}
    <3>1. PICK s \in Source : w.sources = {s} /\ r.cursor.op = s[1] /\ r.cursor.target = s[2]
                             /\ r.cursor.origin = s[3]
      BY <1>1, <1>8 DEF WalkBound
    <3>2. s = source
      BY <1>1, <1>8, <3>1 DEF CallBound, Source
    <3> QED
      BY <3>1, <3>2
  <2>3. /\ v.sources = {source} /\ source[2] = r.target
        /\ v.got = w.got \o PageOf(r) /\ v.next = NextCursor(r)
    <3> HIDE DEF v, w
    <3> QED
      BY <2>1, <2>2
  <2>4. v.done => NextCursor(r) = None
    <3> HIDE DEF v, w, source
    <3> QED
      BY <2>1, Zenon
  <2>5. IsWalk(v) /\ WalkBound(v)
    BY <2>1, <2>3, <1>2, <1>6 DEF IsWalk, WalkBound
  <2>6. ASSUME w.clean PROVE Reached(v, all)
    <3> HIDE DEF v, source
    <3>1. Reached(w, all)
      BY <2>2, <2>3, <2>6 DEF WalksReached
    <3>2. PICK m \in 0..Len(all) : w.got = SubSeq(all, 1, m) /\ m < Len(all) /\ Behind(w.next, all, m)
      BY <1>8, <3>1 DEF Reached
    <3>3. PICK e \in m..Len(all) :
             /\ PageOf(r) = SubSeq(all, m + 1, e)
             /\ NextCursor(r) = None => e = Len(all)
             /\ NextCursor(r) # None => e < Len(all) /\ Behind(NextCursor(r), all, e)
      BY <1>5, <1>8, <3>2
    <3>4. w.got \o PageOf(r) = SubSeq(all, 1, e)
      <4>1. 1 \in 1..(Len(all) + 1) /\ m \in (1 - 1)..Len(all)
        BY <1>3
      <4> HIDE DEF all, w, r
      <4> QED
        BY <1>3, <3>2, <3>3, <4>1, ConcatAdjacentSubSeq
    <3>5. e \in 0..Len(all)
      BY <1>3
    <3> QED
      BY <2>3, <2>4, <3>3, <3>4, <3>5 DEF Reached
  <2>7. v.clean = w.clean
    BY <2>1
  <2> HIDE DEF v, w, source
  <2> QED
    BY <2>3, <2>5, <2>6, <2>7 DEF all, v
<1>9. CASE r.cursor # None /\ r.cursor # w.next
  <2>1. v = NoWalk
    BY <1>9 DEF Followed
  <2> QED
    BY <2>1, NoWalkHeld
<1> QED
  BY <1>7, <1>8, <1>9

-----------------------------------------------------------------------------
(* Every step keeps the invariant *)

\* At first there is no request and no walk.
LEMMA InitHeld == Init => DispatchInv
<1> SUFFICES ASSUME Init PROVE DispatchInv
  OBVIOUS
<1>1. PICK n \in 0..MaxItems : listing = [x \in Targets |-> [i \in 1..n |-> i]]
  BY DEF Init
<1>2. n \in Nat
  BY DispatchAssumption
<1>3. listing \in [Targets -> Seq(Nat)]
  BY <1>1, <1>2
<1>4. \A t \in Callers : walk[t] = NoWalk
  BY DEF Init
<1>5. DispatchTypes
  BY <1>3, <1>4, NoWalkHeld DEF Init, DispatchTypes
<1>6. Consecutive
  BY <1>1, <1>2 DEF Consecutive
<1>7. CallsBound
  BY DEF Init, CallsBound
<1>8. WalksBound /\ WalksReached
  BY <1>4, NoWalkHeld DEF WalksBound, WalksReached
<1> QED
  BY <1>5, <1>6, <1>7, <1>8 DEF DispatchInv

\* A request that leaves is bound to its cursor (dispatch_catalogued_read).
LEMMA DispatchHeld ==
  ASSUME DispatchInv, NEW t \in Callers, NEW op \in Ops, NEW target, NEW limit, NEW cursor \in Cursor \cup {None},
         target # None => target \in Targets,
         cursor # None => cursor.target = target /\ cursor.limit = limit,
         Dispatch(t, op, target, limit, cursor)
  PROVE  DispatchInv'
<1> DEFINE r == [op |-> op, target |-> target, limit |-> limit, cursor |-> cursor]
<1>1. r \in Request
  BY DEF Dispatch, Request, ValidatePageLimit
<1>2. call' = [call EXCEPT ![t] = r] /\ UNCHANGED <<origin, listing, walk>>
  BY DEF Dispatch
<1>3. r.cursor # None => r.cursor.op = r.op /\ r.cursor.origin = origin /\ r.cursor.mode = Pagination[r.op]
                         /\ r.cursor.target = r.target /\ r.cursor.limit = r.limit
  BY DEF Dispatch, ValidateFor
<1> HIDE DEF r
<1>4. DispatchTypes'
  BY <1>1, <1>2 DEF DispatchInv, DispatchTypes
<1>5. CallsBound'
  BY <1>1, <1>2, <1>3 DEF DispatchInv, DispatchTypes, CallsBound, CallBound
<1> QED
  BY <1>2, <1>4, <1>5 DEF DispatchInv, Consecutive, WalksBound, WalksReached

\* A first page carries no cursor.
LEMMA ReadHeld == ASSUME DispatchInv, NEW t \in Callers, Read(t) PROVE DispatchInv'
<1>1. PICK op \in Ops, path \in Targets, limit \in Limits : Dispatch(t, op, TargetFor(op, path), limit, None)
  BY DEF Read
<1>2. TargetFor(op, path) # None => TargetFor(op, path) \in Targets
  BY DEF TargetFor
<1> QED
  BY <1>1, <1>2, DispatchHeld

\* A continuation takes target and limit from its cursor.
LEMMA ContinueHeld == ASSUME DispatchInv, NEW t \in Callers, Continue(t) PROVE DispatchInv'
<1>1. PICK op \in Ops, c \in Cursor : Dispatch(t, op, c.target, c.limit, c)
  BY DEF Continue
<1>2. c.target \in Targets
  BY DEF Cursor
<1> QED
  BY <1>1, <1>2, DispatchHeld

\* An answer ends the call and moves the caller's own walk, or leaves it.
LEMMA RespondHeld == ASSUME DispatchInv, NEW t \in Callers, Respond(t) PROVE DispatchInv'
<1> USE DEF DispatchInv
<1>1. call' = [call EXCEPT ![t] = None] /\ UNCHANGED <<origin, listing>>
  BY DEF Respond
<1>2. CallsBound' /\ Consecutive'
  BY <1>1 DEF DispatchTypes, CallsBound, CallBound, Consecutive
<1>3. CASE UNCHANGED walk
  BY <1>1, <1>2, <1>3 DEF DispatchTypes, WalksBound, WalksReached
<1>4. CASE walk' = [walk EXCEPT ![t] = Followed(t, call[t])]
  <2> DEFINE v == Followed(t, call[t])
  <2>1. IsWalk(v) /\ WalkBound(v) /\ (v.clean => \A s \in v.sources : Reached(v, listing[s[2]]))
    BY FollowedHeld DEF Respond
  <2> HIDE DEF v
  <2>2. walk' = [q \in Callers |-> IF q = t THEN v ELSE walk[q]]
    BY <1>4 DEF DispatchTypes, v
  <2>3. DispatchTypes'
    BY <1>1, <2>1, <2>2 DEF DispatchTypes
  <2>4. WalksBound' /\ WalksReached'
    BY <1>1, <2>1, <2>2 DEF WalksBound, WalksReached
  <2> QED
    BY <1>2, <2>3, <2>4
<1> QED
  BY <1>3, <1>4 DEF Respond

\* Records that change make the walks over them unclean; the rest keep their list.
LEMMA RecordsChangeHeld == ASSUME DispatchInv, NEW x \in Targets, RecordsChange(x) PROVE DispatchInv'
<1> USE DEF DispatchInv
<1> DEFINE all == listing[x]
           n == Len(all)
           newest == IF all = <<>> THEN 0 ELSE all[n]
<1>1. all \in Seq(Nat) /\ n \in Nat /\ DOMAIN all = 1..n
  BY DEF DispatchTypes
<1>2. UNCHANGED <<origin, call>>
  BY DEF RecordsChange
<1>3. /\ listing'[x] \in Seq(Nat)
      /\ \A i, j \in DOMAIN listing'[x] : listing'[x][i] + j = listing'[x][j] + i
      /\ listing' = [listing EXCEPT ![x] = listing'[x]]
  <2>0. \A i, j \in 1..n : all[i] \in Nat /\ all[i] + j = all[j] + i
    BY <1>1, SMTT(40) DEF Consecutive
  <2>1. CASE listing' = [listing EXCEPT ![x] = Append(all, newest + 1)]
    <3> DEFINE more == Append(all, newest + 1)
    <3>1. newest \in Nat /\ more \in Seq(Nat) /\ Len(more) = n + 1 /\ DOMAIN more = 1..(n + 1)
      BY <1>1, <2>0
    <3>2. \A i \in 1..(n + 1) : more[i] = IF i = n + 1 THEN newest + 1 ELSE all[i]
      BY <1>1, <3>1
    <3>3. ASSUME NEW i \in 1..n PROVE newest + 1 + i = all[i] + (n + 1)
      <4>1. n \in 1..n /\ all # <<>>
        BY <1>1
      <4>2. newest = all[n] /\ all[n] \in Nat /\ all[i] \in Nat /\ all[i] + n = all[n] + i
        BY <4>1, <2>0
      <4> HIDE DEF all, n, newest
      <4> QED
        BY <4>2, <1>1, SMTT(40)
    <3>4. listing'[x] = more
      BY <2>1 DEF DispatchTypes
    <3> HIDE DEF more, all, n, newest
    <3>5. ASSUME NEW i \in 1..(n + 1), NEW j \in 1..(n + 1) PROVE more[i] + j = more[j] + i
      <4>1. n \in Nat /\ newest \in Nat
        BY <1>1, <3>1
      <4>2. CASE i = n + 1 /\ j = n + 1
        BY <4>2
      <4>3. CASE i = n + 1 /\ j # n + 1
        <5>1. j \in 1..n
          BY <4>1, <4>3
        <5> QED
          BY <4>1, <4>3, <5>1, <3>2, <3>3, <2>0
      <4>4. CASE i # n + 1 /\ j = n + 1
        <5>1. i \in 1..n
          BY <4>1, <4>4
        <5> QED
          BY <4>1, <4>4, <5>1, <3>2, <3>3, <2>0
      <4>5. CASE i # n + 1 /\ j # n + 1
        <5>1. i \in 1..n /\ j \in 1..n
          BY <4>1, <4>5
        <5> QED
          BY <4>5, <5>1, <3>2, <2>0
      <4> QED
        BY <4>2, <4>3, <4>4, <4>5
    <3>6. listing' = [listing EXCEPT ![x] = listing'[x]]
      BY <2>1, <3>4, Zenon DEF more
    <3> QED
      BY <3>1, <3>4, <3>5, <3>6, Zenon
  <2>2. CASE all # <<>> /\ listing' = [listing EXCEPT ![x] = Tail(all)]
    <3>1. Tail(all) \in Seq(Nat) /\ Len(Tail(all)) = n - 1 /\ \A i \in 1..(n - 1) : Tail(all)[i] = all[i + 1]
      BY <1>1, <2>2
    <3>2. listing'[x] = Tail(all)
      BY <2>2 DEF DispatchTypes
    <3>3. ASSUME NEW i \in 1..(n - 1), NEW j \in 1..(n - 1) PROVE Tail(all)[i] + j = Tail(all)[j] + i
      <4>1. all[i + 1] + (j + 1) = all[j + 1] + (i + 1) /\ all[i + 1] \in Nat /\ all[j + 1] \in Nat
        BY <2>0, <1>1
      <4>2. Tail(all)[i] = all[i + 1] /\ Tail(all)[j] = all[j + 1]
        BY <3>1
      <4>3. \A a, b, c, d \in Nat : a + (d + 1) = b + (c + 1) => a + d = b + c
        OBVIOUS
      <4>4. i \in Nat /\ j \in Nat
        BY <1>1
      <4> HIDE DEF all, n
      <4>5. all[i + 1] + j = all[j + 1] + i
        BY <4>1, <4>3, <4>4
      <4> QED
        BY <4>2, <4>5
    <3>4. DOMAIN Tail(all) = 1..(n - 1)
      BY <3>1
    <3> HIDE DEF all, n
    <3>5. listing' = [listing EXCEPT ![x] = listing'[x]]
      BY <2>2, <3>2, Zenon
    <3> QED
      BY <3>1, <3>2, <3>3, <3>4, <3>5, Zenon
  <2> QED
    BY <2>1, <2>2 DEF RecordsChange
<1>4. listing' \in [Targets -> Seq(Nat)] /\ \A y \in Targets : y # x => listing'[y] = listing[y]
  BY <1>3 DEF DispatchTypes
<1>5. Consecutive'
  <2> SUFFICES ASSUME NEW y \in Targets, NEW i \in DOMAIN listing'[y], NEW j \in DOMAIN listing'[y]
               PROVE  listing'[y][i] + j = listing'[y][j] + i
    BY DEF Consecutive
  <2>1. CASE y = x
    BY <1>3, <2>1
  <2>2. CASE y # x
    <3>1. listing'[y] = listing[y]
      BY <1>4, <2>2
    <3>2. i \in DOMAIN listing[y] /\ j \in DOMAIN listing[y]
      BY <3>1
    <3>3. listing[y][i] + j = listing[y][j] + i
      BY <3>2 DEF Consecutive
    <3> QED
      BY <3>1, <3>3
  <2> QED
    BY <2>1, <2>2
<1>6. ASSUME NEW t \in Callers
      PROVE  /\ IsWalk(walk'[t]) /\ walk'[t].sources = walk[t].sources /\ walk'[t].next = walk[t].next
             /\ ~walk[t].clean => ~walk'[t].clean
             /\ walk'[t].clean => walk'[t] = walk[t] /\ \A s \in walk[t].sources : s[2] # x
  <2>1. walk'[t] = IF \A s \in walk[t].sources : s[2] # x THEN walk[t] ELSE [walk[t] EXCEPT !.clean = FALSE]
    BY DEF RecordsChange
  <2>2. IsWalk(walk[t])
    BY DEF DispatchTypes
  <2>3. CASE \A s \in walk[t].sources : s[2] # x
    BY <2>1, <2>2, <2>3
  <2>4. CASE ~\A s \in walk[t].sources : s[2] # x
    <3>1. walk'[t] = [sources |-> walk[t].sources, next |-> walk[t].next, got |-> walk[t].got,
                      clean |-> FALSE, done |-> walk[t].done]
      BY <2>1, <2>2, <2>4 DEF IsWalk
    <3> QED
      BY <3>1 DEF IsWalk
  <2> QED
    BY <2>3, <2>4
<1>7. DispatchTypes'
  BY <1>2, <1>4, <1>6 DEF RecordsChange, DispatchTypes
<1>8. CallsBound'
  BY <1>2 DEF CallsBound, CallBound
<1>9. WalksBound'
  BY <1>6 DEF WalksBound, WalkBound
<1>10. WalksReached'
  <2> SUFFICES ASSUME NEW t \in Callers, walk'[t].clean, NEW s \in walk'[t].sources
               PROVE  Reached(walk'[t], listing'[s[2]])
    BY DEF WalksReached
  <2>1. walk'[t] = walk[t] /\ s[2] # x /\ walk[t].clean /\ s \in walk[t].sources
    BY <1>6
  <2>2. s[2] \in Targets
    BY <2>1 DEF WalksBound, WalkBound, Source
  <2>3. listing'[s[2]] = listing[s[2]] /\ Reached(walk[t], listing[s[2]])
    BY <1>4, <2>1, <2>2 DEF WalksReached
  <2> QED
    BY <2>1, <2>3
<1> QED
  BY <1>5, <1>7, <1>8, <1>9, <1>10

\* A reload, a site refresh or a restart drops calls at most.
LEMMA ReconfigureHeld ==
  ASSUME DispatchInv, Reconfigure \/ (\E t \in Callers : ReloadTokens(t)) \/ UNCHANGED vars
  PROVE  DispatchInv'
<1> USE DEF DispatchInv
<1>1. UNCHANGED <<listing, walk>>
  BY DEF Reconfigure, ReloadTokens, vars
<1>2. CASE UNCHANGED <<origin, call>>
  BY <1>1, <1>2 DEF DispatchTypes, Consecutive, CallsBound, CallBound, WalksBound, WalksReached
<1>3. CASE origin' \in Origins /\ call' = [t \in Callers |-> None]
  BY <1>1, <1>3 DEF DispatchTypes, Consecutive, CallsBound, WalksBound, WalksReached
<1> QED
  BY <1>2, <1>3 DEF Reconfigure, ReloadTokens, vars

-----------------------------------------------------------------------------
(* Theorems *)

\* DispatchInv holds in every reachable state.
THEOREM DispatchInductive == Spec => []DispatchInv
<1>1. DispatchInv /\ [Next]_vars => DispatchInv'
  BY ReadHeld, ContinueHeld, RespondHeld, RecordsChangeHeld, ReconfigureHeld DEF Next
<1> QED
  BY <1>1, InitHeld, PTL DEF Spec

\* Whatever cursor a caller presents, and however its token, the site map and
\* the region changed since the cursor was issued, a request leaves only with
\* what the caller is entitled to at that moment.
THEOREM PagesReauthorised == Spec => EveryPageReauthorised
<1>1. ASSUME DispatchInv, [Next]_vars, NEW t \in Callers, call[t] = None, call'[t] # None
      PROVE  Entitled(t, call'[t])
  <2>1. ASSUME NEW q \in Callers, NEW op \in Ops, NEW target, NEW limit, NEW cursor,
               Dispatch(q, op, target, limit, cursor)
        PROVE  Entitled(t, call'[t])
    <3>1. t = q
      BY <1>1, <2>1 DEF Dispatch, DispatchInv, DispatchTypes
    <3>2. call'[t] = [op |-> op, target |-> target, limit |-> limit, cursor |-> cursor]
      <4>1. call' = [call EXCEPT ![t] =
                       [op |-> op, target |-> target, limit |-> limit, cursor |-> cursor]]
        BY <2>1, <3>1, Zenon DEF Dispatch
      <4>2. t \in DOMAIN call
        BY <1>1 DEF DispatchInv, DispatchTypes
      <4> QED
        BY <4>1, <4>2, Zenon
    <3>3. call'[t].op = op /\ call'[t].target = target
      BY <3>2
    <3> QED
      BY <2>1, <3>1, <3>3 DEF Dispatch, Authorised, AuthorizeGrant, InScope, InProfile, Entitled
  <2>2. ASSUME NEW q \in Callers, Respond(q) PROVE FALSE
    BY <1>1, <2>2 DEF Respond, DispatchInv, DispatchTypes
  <2>3. ASSUME NEW q \in Callers, Read(q) PROVE Entitled(t, call'[t])
    BY <2>1, <2>3 DEF Read
  <2>4. ASSUME NEW q \in Callers, Continue(q) PROVE Entitled(t, call'[t])
    BY <2>1, <2>4 DEF Continue
  <2>5. ASSUME Reconfigure PROVE FALSE
    BY <1>1, <2>5 DEF Reconfigure
  <2> QED
    BY <1>1, <2>2, <2>3, <2>4, <2>5 DEF Next, RecordsChange, ReloadTokens, vars
<1>2. DispatchInv /\ [Next]_vars =>
        [\A t \in Callers : call[t] = None /\ call'[t] # None => Entitled(t, call'[t])]_vars
  BY <1>1
<1> QED
  BY <1>2, DispatchInductive, PTL DEF Spec, EveryPageReauthorised

\* Pages collected by following cursors come from one operation, one target and
\* one region: a cursor that outlives a restart into another region is refused.
THEOREM OneSource == Spec => []WalkHasOneSource
<1>1. ASSUME DispatchInv, NEW t \in Callers PROVE Cardinality(walk[t].sources) <= 1
  <2>1. walk[t].sources = {} \/ \E s \in Source : walk[t].sources = {s}
    BY <1>1 DEF DispatchInv, WalksBound, WalkBound
  <2>2. Cardinality(walk[t].sources) \in {0, 1}
    BY <2>1, FS_Singleton, FS_EmptySet
  <2> QED
    BY <2>2
<1>2. DispatchInv => WalkHasOneSource
  BY <1>1 DEF WalkHasOneSource
<1> QED
  BY <1>2, DispatchInductive, PTL

\* A finished walk over records that stayed has every record once and in order,
\* for every page size and every length of the list.
THEOREM WalksExact == Spec => []WalkExact
<1>1. DispatchInv => WalkExact
  <2> SUFFICES ASSUME DispatchInv, NEW t \in Callers, walk[t].done, walk[t].clean, NEW s \in walk[t].sources
               PROVE  walk[t].got = listing[s[2]]
    BY DEF WalkExact
  <2>1. Reached(walk[t], listing[s[2]])
    BY DEF DispatchInv, WalksReached
  <2>2. s[2] \in Targets
    BY DEF DispatchInv, WalksBound, WalkBound, Source
  <2>3. listing[s[2]] \in Seq(Nat)
    BY <2>2 DEF DispatchInv, DispatchTypes
  <2>4. walk[t].got = SubSeq(listing[s[2]], 1, Len(listing[s[2]]))
    BY <2>1 DEF Reached
  <2> QED
    BY <2>3, <2>4, SubSeqFull
<1> QED
  BY <1>1, DispatchInductive, PTL
=============================================================================
