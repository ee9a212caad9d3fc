------------------------- MODULE SiteDiscoveryProofs -------------------------
(***************************************************************************)
(* What a discovery pass installs, for any organizations, any tenants that  *)
(* change at any moment, any page size and any cap.                        *)
(***************************************************************************)
EXTENDS SiteDiscovery, SequenceTheorems, FiniteSetTheorems, TLAPS

DiscoveryTypes ==
  /\ pc \in {"page", "install", "wait"}
  /\ org \in 1..Len(AllowedOrgs)
  /\ page \in 1..MAX_PAGES_PER_ORG
  /\ found \subseteq Sites /\ IsFiniteSet(found)
  /\ DOMAIN tenant = OrgSet

\* A listing has each entry once, and only entries of its organization.
TenantsOwn ==
  \A o \in OrgSet :
    /\ tenant[o] \in Seq(Sites)
    /\ \A i \in 1..Len(tenant[o]) : OrgOf[tenant[o][i]] = o
    /\ \A i, j \in 1..Len(tenant[o]) : tenant[o][i] = tenant[o][j] => i = j

\* The snapshot is still the map in force when the pass installs: nothing else
\* writes the map.
SnapshotHeld == pass = "refresh" /\ pc # "wait" => previous = known

First(o, n) == {tenant[o][j] : j \in 1..n}

\* An organization to come has nothing in the map yet.
ToCome(o) == Of(found, o) = {}

\* The one being listed has the valid entries of the full pages so far.
Underway(o) ==
  o \notin changed =>
    /\ (page - 1) * PAGE_LIMIT <= Len(tenant[o])
    /\ Of(found, o) = First(o, (page - 1) * PAGE_LIMIT) \ Invalid

\* One that is through has its list.
Through(o) == o \notin incomplete \cup changed /\ WithinPages(o) => Of(found, o) = Listed(o)

ScanHeld ==
  \A i \in 1..Len(AllowedOrgs) :
    /\ pc = "page" /\ i > org => ToCome(AllowedOrgs[i])
    /\ pc = "page" /\ i = org => Underway(AllowedOrgs[i])
    /\ pc = "install" \/ (pc = "page" /\ i < org) => Through(AllowedOrgs[i])

DiscoveryInv == DiscoveryTypes /\ TenantsOwn /\ SnapshotHeld /\ ScanHeld

-----------------------------------------------------------------------------
(* Listings and their pages *)

\* Where a page begins and ends.
LEMMA PageEdges == \A k, l \in Nat : 1 <= k => (k - 1) * l \in Nat /\ (k - 1) * l + l = k * l /\ k * l \in Nat
<1> SUFFICES ASSUME NEW k \in Nat, NEW l \in Nat, 1 <= k
             PROVE  (k - 1) * l \in Nat /\ (k - 1) * l + l = k * l /\ k * l \in Nat
  OBVIOUS
<1>1. k - 1 \in Nat
  OBVIOUS
<1>2. \A m \in Nat : m * l \in Nat
  OBVIOUS
<1> QED
  BY <1>1, <1>2

\* The first n entries of a listing, each there once, are n sites.
LEMMA FirstCounted ==
  ASSUME TenantsOwn, NEW o \in OrgSet, NEW n \in 0..Len(tenant[o])
  PROVE  IsFiniteSet(First(o, n)) /\ Cardinality(First(o, n)) = n /\ First(o, n) \subseteq Sites
<1> DEFINE f == [j \in 1..n |-> tenant[o][j]]
<1>1. tenant[o] \in Seq(Sites) /\ Len(tenant[o]) \in Nat /\ n \in Nat
  BY DEF TenantsOwn
<1>2. \A j \in 1..n : tenant[o][j] \in Sites
  BY <1>1
<1>3. f \in Surjection(1..n, First(o, n))
  BY DEF Surjection, First
<1>4. f \in Injection(1..n, First(o, n))
  BY <1>1, <1>3 DEF Surjection, Injection, IsInjective, TenantsOwn
<1>5. IsFiniteSet(1..n) /\ Cardinality(1..n) = n
  BY <1>1, FS_Interval
<1>6. IsFiniteSet(First(o, n)) /\ Cardinality(First(o, n)) = n
  BY <1>3, <1>4, <1>5, FS_Surjection
<1> QED
  BY <1>2, <1>6 DEF First

Entries(e) == {e[j] : j \in 1..Len(e)}

\* A page has sites of its organization, and continues the pages before it.
LEMMA PageEntries ==
  ASSUME TenantsOwn, NEW o \in OrgSet, NEW k \in Nat, 1 <= k
  PROVE  LET e == Page(o, k)
             a == (k - 1) * PAGE_LIMIT
             b == IF k * PAGE_LIMIT < Len(tenant[o]) THEN k * PAGE_LIMIT ELSE Len(tenant[o]) IN
         /\ Len(e) \in Nat /\ Entries(e) \subseteq Of(Sites, o) /\ IsFiniteSet(Entries(e))
         /\ a <= Len(tenant[o]) =>
              /\ b \in a..Len(tenant[o]) /\ Len(e) = b - a
              /\ First(o, b) = First(o, a) \cup Entries(e)
<1> DEFINE T == tenant[o]
           n == Len(T)
           a == (k - 1) * PAGE_LIMIT
           b == IF k * PAGE_LIMIT < n THEN k * PAGE_LIMIT ELSE n
           e == Page(o, k)
<1>1. T \in Seq(Sites) /\ n \in Nat
  BY DEF TenantsOwn
<1>2. a \in Nat /\ k * PAGE_LIMIT \in Nat /\ a + PAGE_LIMIT = k * PAGE_LIMIT
  BY PageEdges, DiscoveryAssumption
<1>3. b \in Nat /\ b <= n
  BY <1>1, <1>2
<1>4. e = SubSeq(T, a + 1, b)
  BY DEF Page
<1> HIDE DEF a, b, e, n
<1>5. \A i \in (a + 1)..b : T[i] \in Of(Sites, o)
  <2> SUFFICES ASSUME NEW i \in (a + 1)..b PROVE T[i] \in Of(Sites, o)
    OBVIOUS
  <2>1. i \in 1..n
    BY <1>2, <1>3, <1>1
  <2> QED
    BY <2>1, <1>1 DEF TenantsOwn, Of, n
<1>6. /\ e \in Seq(Of(Sites, o))
      /\ Len(e) = IF a + 1 <= b THEN b - (a + 1) + 1 ELSE 0
      /\ \A i \in 1..(b - (a + 1) + 1) : e[i] = T[a + 1 + i - 1]
  <2>1. a + 1 \in Int /\ b \in Int
    BY <1>2, <1>3
  <2> HIDE DEF T
  <2> QED
    BY <2>1, <1>4, <1>5, SubSeqProperties
<1>7. Len(e) \in Nat /\ Entries(e) \subseteq Of(Sites, o)
  BY <1>6 DEF Entries
<1>8. IsFiniteSet(Entries(e))
  <2> DEFINE f == [j \in 1..Len(e) |-> e[j]]
  <2>1. f \in Surjection(1..Len(e), Entries(e))
    BY DEF Surjection, Entries
  <2>2. IsFiniteSet(1..Len(e))
    BY <1>7, FS_Interval
  <2> QED
    BY <2>1, <2>2, FS_Surjection
<1>9. ASSUME a <= n PROVE b \in a..n /\ Len(e) = b - a /\ First(o, b) = First(o, a) \cup Entries(e)
  <2>1. b \in a..n
    BY <1>1, <1>2, <1>3, <1>9, DiscoveryAssumption DEF b
  <2>2. Len(e) = b - a /\ \A i \in 1..(b - a) : e[i] = T[a + i]
    <3>1. b - (a + 1) + 1 = b - a /\ \A i \in 1..(b - a) : a + 1 + i - 1 = a + i
      BY <1>2, <1>3, <2>1
    <3>2. Len(e) = b - a
      BY <1>2, <1>3, <1>6, <2>1
    <3> QED
      BY <1>6, <3>1, <3>2
  <2>3. Entries(e) = {T[a + i] : i \in 1..(b - a)}
    BY <2>2 DEF Entries
  <2>4. \A j \in 1..b : j \in 1..a \/ (j - a \in 1..(b - a) /\ j = a + (j - a))
    BY <1>2, <1>3, <2>1
  <2>5. \A i \in 1..(b - a) : a + i \in 1..b
    BY <1>2, <1>3, <2>1
  <2>6. \A j \in 1..a : j \in 1..b
    BY <1>2, <1>3, <2>1
  <2>7. First(o, b) \subseteq First(o, a) \cup Entries(e)
    BY <2>3, <2>4 DEF First
  <2>8. First(o, a) \cup Entries(e) \subseteq First(o, b)
    BY <2>3, <2>5, <2>6 DEF First
  <2> QED
    BY <2>1, <2>2, <2>7, <2>8
<1> QED
  BY <1>7, <1>8, <1>9 DEF a, b, e, n

\* What a page inserts: its entries but for those that are skipped, all of them
\* unless the cap stops it.
LEMMA InsertedEntries ==
  ASSUME NEW e, Len(e) \in Nat, IsFiniteSet(Entries(e)), IsFiniteSet(found)
  PROVE  /\ Inserted(e) \subseteq Entries(e) /\ IsFiniteSet(Inserted(e))
         /\ Fits(e, Len(e)) =>
              /\ found \cup Inserted(e) = found \cup (Entries(e) \ Invalid)
              /\ Cardinality(found \cup Inserted(e)) <= MAX_TOTAL_SITES
<1>1. \A i \in 0..Len(e) : Fresh(e, i) \subseteq Fresh(e, Len(e))
  BY DEF Fresh
<1>2. Fresh(e, Len(e)) = Entries(e) \ (Invalid \cup found)
  BY DEF Fresh, Entries
<1>3. Inserted(e) \subseteq Fresh(e, Len(e))
  BY <1>1 DEF Inserted
<1>4. Inserted(e) \subseteq Entries(e) /\ IsFiniteSet(Inserted(e))
  BY <1>2, <1>3, FS_Subset
<1>5. ASSUME Fits(e, Len(e))
      PROVE  /\ found \cup Inserted(e) = found \cup (Entries(e) \ Invalid)
             /\ Cardinality(found \cup Inserted(e)) <= MAX_TOTAL_SITES
  <2>1. Inserted(e) = Fresh(e, Len(e))
    BY <1>3, <1>5 DEF Inserted
  <2>2. found \cup Inserted(e) = found \cup (Entries(e) \ Invalid)
    BY <2>1, <1>2
  <2>3. found \cap Inserted(e) = {}
    BY <2>1, <1>2
  <2>4. Cardinality(found \cup Inserted(e)) = Cardinality(found) + Cardinality(Inserted(e)) - Cardinality({})
    BY <2>3, <1>4, FS_Union
  <2>5. Cardinality(Inserted(e)) <= MAX_TOTAL_SITES - Cardinality(found)
    BY <1>5, <2>1 DEF Fits
  <2>6. Cardinality({}) = 0 /\ Cardinality(found) \in Nat /\ Cardinality(Inserted(e)) \in Nat
    BY <1>4, FS_EmptySet, FS_CardinalityType
  <2> QED
    BY <2>2, <2>4, <2>5, <2>6, DiscoveryAssumption
<1> QED
  BY <1>4, <1>5

-----------------------------------------------------------------------------
(* Every step keeps the invariant *)

\* The position i of an organization in the list is the organization.
LEMMA Positions ==
  /\ Len(AllowedOrgs) \in Nat /\ 1 <= Len(AllowedOrgs)
  /\ \A i \in 1..Len(AllowedOrgs) : AllowedOrgs[i] \in OrgSet
  /\ \A i, j \in 1..Len(AllowedOrgs) : AllowedOrgs[i] = AllowedOrgs[j] => i = j
  /\ \A o \in OrgSet : \E i \in 1..Len(AllowedOrgs) : AllowedOrgs[i] = o
  /\ 1 \in 1..MAX_PAGES_PER_ORG
<1>1. AllowedOrgs \in Seq(OrgSet) /\ AllowedOrgs # <<>>
  BY DiscoveryAssumption
<1>2. Len(AllowedOrgs) \in Nat /\ 1 <= Len(AllowedOrgs) /\ DOMAIN AllowedOrgs = 1..Len(AllowedOrgs)
  BY <1>1
<1>3. MAX_PAGES_PER_ORG # 0
  BY DiscoveryAssumption
<1> QED
  BY <1>2, <1>3, DiscoveryAssumption DEF OrgSet

\* Before its first page an organization has nothing.
LEMMA EmptyStart ==
  /\ (1 - 1) * PAGE_LIMIT = 0
  /\ \A o : First(o, (1 - 1) * PAGE_LIMIT) = {}
  BY DiscoveryAssumption DEF First

\* The first pass begins with nothing found.
LEMMA InitHeld == Init => DiscoveryInv
<1> SUFFICES ASSUME Init PROVE DiscoveryInv
  OBVIOUS
<1> USE DEF Init
<1>1. DiscoveryTypes
  BY Positions, FS_EmptySet DEF DiscoveryTypes
<1>2. TenantsOwn
  <2> SUFFICES ASSUME NEW o \in OrgSet
               PROVE  /\ tenant[o] \in Seq(Sites)
                      /\ \A i \in 1..Len(tenant[o]) : OrgOf[tenant[o][i]] = o
                      /\ \A i, j \in 1..Len(tenant[o]) : tenant[o][i] = tenant[o][j] => i = j
    BY DEF TenantsOwn
  <2>1. PICK S \in SUBSET Sites : tenant[o] \in SetToSeqs(S)
    OBVIOUS
  <2>2. /\ tenant[o] \in [1..Cardinality(S) -> S]
        /\ \A i, j \in 1..Cardinality(S) : i # j => tenant[o][i] # tenant[o][j]
    BY <2>1 DEF SetToSeqs
  <2>3. Cardinality(S) \in Nat
    BY FS_Subset, FS_CardinalityType, DiscoveryAssumption
  <2>4. tenant[o] \in Seq(Sites) /\ Len(tenant[o]) = Cardinality(S)
    BY <2>2, <2>3
  <2>5. \A i \in 1..Len(tenant[o]) : OrgOf[tenant[o][i]] = o
    BY <2>4 DEF Of, Range
  <2> QED
    BY <2>2, <2>4, <2>5
<1>3. SnapshotHeld
  BY DEF SnapshotHeld
<1>4. ScanHeld
  <2>1. \A o \in OrgSet : Of(found, o) = {}
    BY DEF Of
  <2>2. ASSUME NEW o \in OrgSet PROVE Underway(o)
    BY <1>2, <2>1, EmptyStart DEF TenantsOwn, Underway
  <2>3. pc = "page" /\ org = 1 /\ Len(AllowedOrgs) \in Nat
    BY Positions
  <2> QED
    BY <2>1, <2>2, <2>3, Positions DEF ScanHeld, ToCome
<1> QED
  BY <1>1, <1>2, <1>3, <1>4 DEF DiscoveryInv

\* What is left when an organization is through and the pass moves on: the
\* others have what they had, and the next one has nothing yet.
LEMMA MovedOn ==
  ASSUME DiscoveryInv, pc = "page", NextOrg, UNCHANGED <<tenant, changed>>,
         NEW here \in OrgSet, here = AllowedOrgs[org],
         \A q \in OrgSet \ {here} : Of(found', q) = Of(found, q),
         incomplete \subseteq incomplete',
         found' \subseteq Sites, IsFiniteSet(found'),
         Through(here)'
  PROVE  DiscoveryTypes' /\ ScanHeld'
<1> USE DEF DiscoveryInv
<1>1. org \in 1..Len(AllowedOrgs) /\ Len(AllowedOrgs) \in Nat
  BY Positions DEF DiscoveryTypes
<1>2. \/ org < Len(AllowedOrgs) /\ org' = org + 1 /\ page' = 1 /\ pc' = "page"
      \/ org = Len(AllowedOrgs) /\ pc' = "install" /\ org' = org /\ page' = page
  BY <1>1 DEF NextOrg
<1>3. DiscoveryTypes'
  BY <1>1, <1>2, Positions DEF DiscoveryTypes
<1>4. ASSUME NEW i \in 1..Len(AllowedOrgs), i < org PROVE Through(AllowedOrgs[i])'
  <2>1. Through(AllowedOrgs[i])
    BY <1>4 DEF ScanHeld
  <2>2. Of(found', AllowedOrgs[i]) = Of(found, AllowedOrgs[i])
    BY <1>1, <1>4, Positions
  <2> QED
    BY <2>1, <2>2 DEF Through, WithinPages, Listed
<1>5. ASSUME NEW i \in 1..Len(AllowedOrgs), i > org PROVE ToCome(AllowedOrgs[i])'
  <2>1. ToCome(AllowedOrgs[i])
    BY <1>5 DEF ScanHeld
  <2>2. Of(found', AllowedOrgs[i]) = Of(found, AllowedOrgs[i])
    BY <1>1, <1>5, Positions
  <2> QED
    BY <2>1, <2>2 DEF ToCome
<1>6. ASSUME page' = 1, NEW o \in OrgSet, ToCome(o)' PROVE Underway(o)'
  <2>1. (page' - 1) * PAGE_LIMIT = 0
    BY <1>6, EmptyStart
  <2>2. Len(tenant'[o]) >= 0
    BY DEF TenantsOwn
  <2>3. {tenant'[o][j] : j \in 1..0} = {}
    OBVIOUS
  <2> QED
    BY <1>6, <2>1, <2>2, <2>3 DEF Underway, ToCome, First
<1>7. CASE org < Len(AllowedOrgs) /\ org' = org + 1 /\ page' = 1 /\ pc' = "page"
  <2> SUFFICES ASSUME NEW i \in 1..Len(AllowedOrgs)
               PROVE  /\ i > org' => ToCome(AllowedOrgs[i])'
                      /\ i = org' => Underway(AllowedOrgs[i])'
                      /\ i < org' => Through(AllowedOrgs[i])'
    BY <1>3, <1>7 DEF ScanHeld
  <2>1. CASE i < org
    BY <1>1, <1>4, <1>7, <2>1
  <2>2. CASE i = org
    <3>1. AllowedOrgs[i] = here /\ i < org'
      BY <1>1, <1>7, <2>2
    <3> QED
      BY <3>1, <1>7, <1>1, <2>2
  <2>3. CASE i > org
    BY <1>1, <1>5, <1>6, <1>7, <2>3, Positions
  <2> QED
    BY <1>1, <2>1, <2>2, <2>3
<1>8. CASE org = Len(AllowedOrgs) /\ pc' = "install"
  <2> SUFFICES ASSUME NEW i \in 1..Len(AllowedOrgs) PROVE Through(AllowedOrgs[i])'
    BY <1>3, <1>8 DEF ScanHeld
  <2>1. CASE i < org
    BY <1>4, <2>1
  <2>2. CASE i = org
    <3>1. AllowedOrgs[i] = here
      BY <2>2
    <3> QED
      BY <3>1
  <2> QED
    BY <1>1, <1>8, <2>1, <2>2
<1> QED
  BY <1>2, <1>3, <1>7, <1>8

\* The page bound is reached by a listing of valid entries only when the cap is:
\* MAX_PAGES_PER_ORG full pages are more sites than the map may have.
LEMMA CapComesFirst ==
  ASSUME TenantsOwn, NEW o \in OrgSet, NEW b \in 0..Len(tenant[o]), NEW S, IsFiniteSet(S),
         Range(tenant[o]) \cap Invalid = {}, First(o, b) \ Invalid \subseteq S,
         Cardinality(S) <= MAX_TOTAL_SITES
  PROVE  b < MAX_PAGES_PER_ORG * PAGE_LIMIT
<1>1. IsFiniteSet(First(o, b)) /\ Cardinality(First(o, b)) = b
  BY FirstCounted
<1>2. First(o, b) \subseteq Range(tenant[o])
  <2>1. tenant[o] \in Seq(Sites) /\ Len(tenant[o]) \in Nat /\ DOMAIN tenant[o] = 1..Len(tenant[o])
    BY DEF TenantsOwn
  <2>2. \A j \in 1..b : j \in DOMAIN tenant[o]
    BY <2>1
  <2> QED
    BY <2>2 DEF First, Range
<1>3. First(o, b) \in SUBSET S
  BY <1>2
<1>4. b <= Cardinality(S) /\ Cardinality(S) \in Nat /\ b \in Nat
  BY <1>1, <1>3, FS_Subset, FS_CardinalityType
<1>5. MAX_PAGES_PER_ORG * PAGE_LIMIT \in Nat
  BY PageEdges, DiscoveryAssumption, Positions
<1> QED
  BY <1>4, <1>5, DiscoveryAssumption

\* What a page does to the map: the organization gets the valid entries, unless
\* the cap stops it, and no other organization gets or loses any.
LEMMA PageInserted ==
  ASSUME DiscoveryInv, NEW o \in OrgSet, o = AllowedOrgs[org], pc = "page",
         found' = found \cup Inserted(Page(o, page))
  PROVE  /\ found' \subseteq Sites /\ IsFiniteSet(found')
         /\ \A q \in OrgSet \ {o} : Of(found', q) = Of(found, q)
         /\ Len(Page(o, page)) \in Nat
         /\ Fits(Page(o, page), Len(Page(o, page))) =>
              /\ Of(found', o) = Of(found, o) \cup (Entries(Page(o, page)) \ Invalid)
              /\ Cardinality(found') <= MAX_TOTAL_SITES
<1> USE DEF DiscoveryInv
<1> DEFINE e == Page(o, page)
<1>1. page \in Nat /\ 1 <= page /\ found \subseteq Sites /\ IsFiniteSet(found)
  BY DiscoveryAssumption DEF DiscoveryTypes
<1>2. Len(e) \in Nat /\ Entries(e) \subseteq Of(Sites, o) /\ IsFiniteSet(Entries(e))
  BY <1>1, PageEntries
<1> HIDE DEF e
<1>3. /\ Inserted(e) \subseteq Entries(e) /\ IsFiniteSet(Inserted(e))
      /\ Fits(e, Len(e)) =>
           /\ found \cup Inserted(e) = found \cup (Entries(e) \ Invalid)
           /\ Cardinality(found \cup Inserted(e)) <= MAX_TOTAL_SITES
  BY <1>1, <1>2, InsertedEntries
<1>4. found' = found \cup Inserted(e)
  BY DEF e
<1>5. found' \subseteq Sites /\ IsFiniteSet(found')
  <2>1. IsFiniteSet(found \cup Inserted(e))
    BY <1>1, <1>3, FS_Union
  <2>2. Inserted(e) \subseteq Sites
    BY <1>2, <1>3 DEF Of
  <2> QED
    BY <1>1, <1>4, <2>1, <2>2
<1>6. \A q \in OrgSet \ {o} : Of(found', q) = Of(found, q)
  BY <1>2, <1>3, <1>4 DEF Of
<1>7. Fits(e, Len(e)) => Of(found', o) = Of(found, o) \cup (Entries(e) \ Invalid)
  BY <1>2, <1>3, <1>4 DEF Of
<1> QED
  BY <1>2, <1>3, <1>4, <1>5, <1>6, <1>7 DEF e

\* One page: the organization is cut off at the cap, or it is through with the
\* exact list, or its next page is due.
LEMMA FetchPageHeld == ASSUME DiscoveryInv, FetchPage PROVE DiscoveryInv'
<1> USE DEF DiscoveryInv
<1>1. PICK o \in OrgSet : o = AllowedOrgs[org]
  BY Positions DEF DiscoveryTypes
<1> DEFINE e == Page(o, page)
           T == tenant[o]
           a == (page - 1) * PAGE_LIMIT
           b == IF page * PAGE_LIMIT < Len(T) THEN page * PAGE_LIMIT ELSE Len(T)
<1>2. /\ pc = "page" /\ found' = found \cup Inserted(e)
      /\ UNCHANGED <<known, pass, previous, tenant, changed>>
  BY <1>1 DEF FetchPage
<1>3. /\ found' \subseteq Sites /\ IsFiniteSet(found')
      /\ \A q \in OrgSet \ {o} : Of(found', q) = Of(found, q)
      /\ Fits(e, Len(e)) =>
           Of(found', o) = Of(found, o) \cup (Entries(e) \ Invalid) /\ Cardinality(found') <= MAX_TOTAL_SITES
  BY <1>1, <1>2, PageInserted
<1>4. /\ page \in Nat /\ 1 <= page /\ page <= MAX_PAGES_PER_ORG /\ MAX_PAGES_PER_ORG \in Nat
      /\ T \in Seq(Sites) /\ Len(T) \in Nat /\ PAGE_LIMIT \in Nat /\ 1 <= PAGE_LIMIT
  BY DiscoveryAssumption DEF DiscoveryTypes, TenantsOwn
<1>5. a \in Nat /\ a + PAGE_LIMIT = page * PAGE_LIMIT /\ page * PAGE_LIMIT \in Nat
  BY <1>4, PageEdges
<1>6. a <= Len(T) => b \in a..Len(T) /\ Len(e) = b - a /\ First(o, b) = First(o, a) \cup Entries(e)
  BY <1>4, PageEntries
<1>7. o \notin changed => a <= Len(T) /\ Of(found, o) = First(o, a) \ Invalid
  BY <1>1, <1>2, Positions DEF ScanHeld, Underway, DiscoveryTypes
<1>8. o \notin changed /\ Fits(e, Len(e)) => Of(found', o) = First(o, b) \ Invalid
  BY <1>3, <1>6, <1>7
<1>9. TenantsOwn' /\ SnapshotHeld'
  <2>1. pc' \in {"page", "install"}
    BY <1>2 DEF FetchPage, NextOrg
  <2> QED
    BY <1>2, <2>1 DEF TenantsOwn, SnapshotHeld
<1>10. CASE ~Fits(e, Len(e))
  <2>1. incomplete' = incomplete \cup {o} /\ NextOrg
    BY <1>1, <1>10 DEF FetchPage
  <2>2. Through(o)'
    BY <2>1 DEF Through
  <2> QED
    BY <1>1, <1>2, <1>3, <1>9, <2>1, <2>2, MovedOn
<1>11. CASE Fits(e, Len(e)) /\ LastPage(e)
  <2>1. incomplete' = incomplete /\ NextOrg
    BY <1>1, <1>11 DEF FetchPage
  <2>2. ASSUME o \notin changed, WithinPages(o) PROVE b = Len(T)
    <3> SUFFICES ASSUME b # Len(T) PROVE FALSE
      OBVIOUS
    <3>1. b = page * PAGE_LIMIT /\ page * PAGE_LIMIT < Len(T)
      OBVIOUS
    <3>2. Len(e) = PAGE_LIMIT
      BY <1>4, <1>5, <1>6, <1>7, <2>2, <3>1
    <3>3. page = MAX_PAGES_PER_ORG
      BY <1>4, <1>11, <3>2 DEF LastPage
    <3>4. Range(T) \cap Invalid = {}
      BY <1>4, <1>5, <2>2, <3>1, <3>3 DEF WithinPages
    <3>5. b \in 0..Len(T)
      BY <1>4, <1>5, <3>1
    <3>6. First(o, b) \ Invalid \subseteq found'
      BY <1>8, <1>11, <2>2 DEF Of
    <3>7. b < MAX_PAGES_PER_ORG * PAGE_LIMIT
      BY <1>3, <1>11, <3>4, <3>5, <3>6, CapComesFirst
    <3> QED
      BY <1>5, <3>1, <3>3, <3>7
  <2>3. First(o, Len(T)) = Range(T)
    BY <1>4 DEF First, Range
  <2>4. Through(o)'
    BY <1>2, <1>8, <1>11, <2>2, <2>3 DEF Through, WithinPages, Listed
  <2> QED
    BY <1>1, <1>2, <1>3, <1>9, <2>1, <2>4, MovedOn
<1>12. CASE Fits(e, Len(e)) /\ ~LastPage(e)
  <2>1. page' = page + 1 /\ UNCHANGED <<org, pc, incomplete>>
    BY <1>1, <1>12 DEF FetchPage
  <2>2. Len(e) \in Nat /\ ~(Len(e) < PAGE_LIMIT) /\ page # MAX_PAGES_PER_ORG
    BY <1>1, <1>2, <1>12, PageInserted DEF LastPage
  <2>3. DiscoveryTypes'
    BY <1>2, <1>3, <1>4, <2>1, <2>2 DEF DiscoveryTypes
  <2>4. (page' - 1) * PAGE_LIMIT = page * PAGE_LIMIT
    <3>1. page' - 1 = page
      BY <1>4, <2>1
    <3> QED
      BY <3>1
  <2>5. o \notin changed => b = page * PAGE_LIMIT
    BY <1>4, <1>5, <1>6, <1>7, <2>2
  <2>6. Underway(o)'
    <3> SUFFICES ASSUME o \notin changed'
                 PROVE  /\ (page' - 1) * PAGE_LIMIT <= Len(tenant'[o])
                        /\ Of(found', o) = {tenant'[o][j] : j \in 1..((page' - 1) * PAGE_LIMIT)} \ Invalid
      BY DEF Underway, First
    <3>1. b = page * PAGE_LIMIT /\ b <= Len(T)
      BY <1>2, <1>6, <1>7, <2>5
    <3>2. Of(found', o) = First(o, page * PAGE_LIMIT) \ Invalid
      BY <1>2, <1>8, <1>12, <3>1
    <3> QED
      BY <1>2, <2>4, <3>1, <3>2 DEF First
  <2>7. ScanHeld'
    <3> SUFFICES ASSUME NEW i \in 1..Len(AllowedOrgs)
                 PROVE  /\ i > org => ToCome(AllowedOrgs[i])'
                        /\ i = org => Underway(AllowedOrgs[i])'
                        /\ i < org => Through(AllowedOrgs[i])'
      BY <1>2, <2>1 DEF ScanHeld
    <3>1. org \in 1..Len(AllowedOrgs)
      BY DEF DiscoveryTypes
    <3>2. CASE i = org
      <4>1. AllowedOrgs[i] = o
        BY <1>1, <3>2
      <4> QED
        BY <3>1, <3>2, <4>1, <2>6, Positions
    <3>3. CASE i # org
      <4>1. Of(found', AllowedOrgs[i]) = Of(found, AllowedOrgs[i])
        BY <1>1, <1>3, <3>1, <3>3, Positions
      <4>2. i > org => ToCome(AllowedOrgs[i])
        BY <1>2 DEF ScanHeld
      <4>3. i < org => Through(AllowedOrgs[i])
        BY <1>2 DEF ScanHeld
      <4> QED
        BY <1>2, <2>1, <3>3, <4>1, <4>2, <4>3 DEF ToCome, Through, WithinPages, Listed
    <3> QED
      BY <3>2, <3>3
  <2> QED
    BY <1>9, <2>3, <2>7
<1> QED
  BY <1>10, <1>11, <1>12

\* A failure marks the organization; what its pages inserted stays.
LEMMA FetchFailsHeld == ASSUME DiscoveryInv, FetchFails PROVE DiscoveryInv'
<1> USE DEF DiscoveryInv
<1>1. PICK o \in OrgSet : o = AllowedOrgs[org]
  BY Positions DEF DiscoveryTypes
<1>2. /\ pc = "page" /\ NextOrg /\ incomplete' = incomplete \cup {o}
      /\ UNCHANGED <<known, pass, previous, found, tenant, changed>>
  BY <1>1 DEF FetchFails
<1>3. Through(o)'
  BY <1>2 DEF Through
<1>4. DiscoveryTypes' /\ ScanHeld'
  BY <1>1, <1>2, <1>3, MovedOn DEF DiscoveryTypes
<1>5. pc' \in {"page", "install"}
  BY <1>2 DEF NextOrg
<1> QED
  BY <1>2, <1>4, <1>5 DEF TenantsOwn, SnapshotHeld

\* The pass ends with a map; until the next one nothing is scanned.
LEMMA InstallHeld == ASSUME DiscoveryInv, Install PROVE DiscoveryInv'
  BY DEF DiscoveryInv, Install, scan, DiscoveryTypes, TenantsOwn, SnapshotHeld, ScanHeld

\* A new pass has nothing yet.
LEMMA StartRefreshHeld == ASSUME DiscoveryInv, StartRefresh PROVE DiscoveryInv'
<1> USE DEF DiscoveryInv, StartRefresh
<1>1. DiscoveryTypes'
  BY Positions, FS_EmptySet DEF DiscoveryTypes
<1>2. TenantsOwn' /\ SnapshotHeld'
  BY DEF TenantsOwn, SnapshotHeld
<1>3. ScanHeld'
  <2>1. \A o \in OrgSet : ToCome(o)'
    BY DEF ToCome, Of
  <2>2. ASSUME NEW o \in OrgSet PROVE Underway(o)'
    <3>1. (page' - 1) * PAGE_LIMIT = 0
      BY EmptyStart
    <3>2. Len(tenant'[o]) >= 0
      BY <1>2 DEF TenantsOwn
    <3>3. {tenant'[o][j] : j \in 1..0} = {}
      OBVIOUS
    <3> QED
      BY <2>1, <3>1, <3>2, <3>3 DEF Underway, ToCome, First
  <2> SUFFICES ASSUME NEW i \in 1..Len(AllowedOrgs)
               PROVE  ToCome(AllowedOrgs[i])' /\ Underway(AllowedOrgs[i])' /\ ~(i < org')
    BY DEF ScanHeld
  <2> QED
    BY <2>1, <2>2, Positions
<1> QED
  BY <1>1, <1>2, <1>3

\* A part of a listing.
LEMMA Part ==
  ASSUME NEW T \in Seq(Sites), NEW m \in 1..(Len(T) + 1), NEW n \in 0..Len(T), m <= n + 1
  PROVE  /\ SubSeq(T, m, n) \in Seq(Sites)
         /\ Len(SubSeq(T, m, n)) = n - m + 1
         /\ \A i \in 1..(n - m + 1) : SubSeq(T, m, n)[i] = T[m + i - 1]
<1>1. Len(T) \in Nat /\ \A i \in 1..Len(T) : T[i] \in Sites
  OBVIOUS
<1>2. m \in Int /\ n \in Int /\ m..n \subseteq 1..Len(T)
  BY <1>1
<1>3. (IF m <= n THEN n - m + 1 ELSE 0) = n - m + 1
  BY <1>1
<1> QED
  BY <1>1, <1>2, <1>3, SubSeqProperties

\* Two listings, one after the other.
LEMMA Joined ==
  ASSUME NEW A \in Seq(Sites), NEW B \in Seq(Sites), NEW X, X = A \o B
  PROVE  /\ X \in Seq(Sites)
         /\ Len(X) = Len(A) + Len(B)
         /\ \A i \in 1..(Len(A) + Len(B)) : X[i] = IF i <= Len(A) THEN A[i] ELSE B[i - Len(A)]
  BY ConcatProperties

\* InsertAt moves what follows up by one.
LEMMA Inserting ==
  ASSUME NEW T \in Seq(Sites), NEW s \in Sites, NEW p \in 1..(Len(T) + 1), NEW U, U = InsertAt(T, p, s)
  PROVE  /\ U \in Seq(Sites) /\ Len(U) = Len(T) + 1
         /\ \A i \in 1..(Len(T) + 1) : U[i] = IF i < p THEN T[i] ELSE IF i = p THEN s ELSE T[i - 1]
<1> DEFINE A == SubSeq(T, 1, p - 1)
           B == SubSeq(T, p, Len(T))
           M == <<s>>
           X == A \o M
<1>1. Len(T) \in Nat /\ p \in Nat /\ p - 1 \in 0..Len(T) /\ 1 \in 1..(Len(T) + 1) /\ Len(T) \in 0..Len(T)
  OBVIOUS
<1>2. A \in Seq(Sites) /\ Len(A) = p - 1 /\ \A i \in 1..(p - 1) : A[i] = T[i]
  <2>1. /\ A \in Seq(Sites) /\ Len(A) = (p - 1) - 1 + 1
        /\ \A i \in 1..((p - 1) - 1 + 1) : A[i] = T[1 + i - 1]
    BY <1>1, Part
  <2> HIDE DEF A
  <2> QED
    BY <1>1, <2>1
<1>3. /\ B \in Seq(Sites) /\ Len(B) = Len(T) - p + 1
      /\ \A i \in 1..(Len(T) - p + 1) : B[i] = T[p + i - 1]
  BY <1>1, Part
<1>4. M \in Seq(Sites) /\ Len(M) = 1 /\ M[1] = s
  OBVIOUS
<1>5. U = X \o B
  BY DEF InsertAt
<1> HIDE DEF A, B, M
<1>6. /\ X \in Seq(Sites) /\ Len(X) = Len(A) + Len(M)
      /\ \A i \in 1..(Len(A) + Len(M)) : X[i] = IF i <= Len(A) THEN A[i] ELSE M[i - Len(A)]
  BY <1>2, <1>4, Joined, ZenonT(40)
<1> HIDE DEF X
<1>7. Len(X) = p /\ \A i \in 1..p : X[i] = IF i < p THEN T[i] ELSE s
  BY <1>1, <1>2, <1>4, <1>6
<1>8. /\ U \in Seq(Sites) /\ Len(U) = Len(X) + Len(B)
      /\ \A i \in 1..(Len(X) + Len(B)) : U[i] = IF i <= Len(X) THEN X[i] ELSE B[i - Len(X)]
  <2>1. X \in Seq(Sites) /\ B \in Seq(Sites)
    BY <1>3, <1>6
  <2> QED BY <2>1, <1>5, Joined
<1>9. ASSUME NEW i \in 1..(Len(T) + 1)
      PROVE  U[i] = IF i < p THEN T[i] ELSE IF i = p THEN s ELSE T[i - 1]
  <2>1. CASE i <= p
    BY <1>1, <1>3, <1>7, <1>8, <2>1
  <2>2. CASE i > p
    <3>1. i - p \in 1..(Len(T) - p + 1) /\ p + (i - p) - 1 = i - 1
      BY <1>1, <2>2
    <3> QED
      BY <1>1, <1>3, <1>7, <1>8, <2>2, <3>1, SMTT(40)
  <2> QED
    BY <1>1, <2>1, <2>2
<1> QED
  BY <1>1, <1>3, <1>7, <1>8, <1>9

\* RemoveAt moves what follows down by one.
LEMMA Removing ==
  ASSUME NEW T \in Seq(Sites), NEW p \in 1..Len(T), NEW U, U = RemoveAt(T, p)
  PROVE  /\ U \in Seq(Sites) /\ Len(U) = Len(T) - 1
         /\ \A i \in 1..(Len(T) - 1) : U[i] = IF i < p THEN T[i] ELSE T[i + 1]
<1> DEFINE A == SubSeq(T, 1, p - 1)
           B == SubSeq(T, p + 1, Len(T))
<1>1. /\ Len(T) \in Nat /\ p \in Nat /\ p - 1 \in 0..Len(T) /\ 1 \in 1..(Len(T) + 1)
      /\ Len(T) \in 0..Len(T) /\ p + 1 \in 1..(Len(T) + 1)
  OBVIOUS
<1>2. A \in Seq(Sites) /\ Len(A) = p - 1 /\ \A i \in 1..(p - 1) : A[i] = T[i]
  <2>1. /\ A \in Seq(Sites) /\ Len(A) = (p - 1) - 1 + 1
        /\ \A i \in 1..((p - 1) - 1 + 1) : A[i] = T[1 + i - 1]
    BY <1>1, Part
  <2> HIDE DEF A
  <2> QED
    BY <1>1, <2>1
<1>3. B \in Seq(Sites) /\ Len(B) = Len(T) - p /\ \A i \in 1..(Len(T) - p) : B[i] = T[p + i]
  <2>1. /\ B \in Seq(Sites) /\ Len(B) = Len(T) - (p + 1) + 1
        /\ \A i \in 1..(Len(T) - (p + 1) + 1) : B[i] = T[(p + 1) + i - 1]
    BY <1>1, Part
  <2> HIDE DEF B
  <2> QED
    BY <1>1, <2>1
<1>4. U = A \o B
  BY DEF RemoveAt
<1> HIDE DEF A, B
<1>5. /\ U \in Seq(Sites) /\ Len(U) = Len(A) + Len(B)
      /\ \A i \in 1..(Len(A) + Len(B)) : U[i] = IF i <= Len(A) THEN A[i] ELSE B[i - Len(A)]
  BY <1>2, <1>3, <1>4, Joined, ZenonT(40)
<1>6. Len(A) + Len(B) = Len(T) - 1
  BY <1>1, <1>2, <1>3
<1>7. ASSUME NEW i \in 1..(Len(T) - 1) PROVE U[i] = IF i < p THEN T[i] ELSE T[i + 1]
  <2>1. U[i] = IF i <= p - 1 THEN A[i] ELSE B[i - (p - 1)]
    BY <1>2, <1>5, <1>6
  <2>2. CASE i < p
    BY <1>1, <1>2, <2>1, <2>2
  <2>3. CASE i >= p
    <3>1. i - (p - 1) \in 1..(Len(T) - p) /\ p + (i - (p - 1)) = i + 1
      BY <1>1, <2>3
    <3>2. B[i - (p - 1)] = T[p + (i - (p - 1))]
      BY <1>3, <3>1
    <3> QED
      BY <1>1, <2>1, <2>3, <3>1, <3>2
  <2> QED
    BY <1>1, <2>2, <2>3
<1> QED
  BY <1>5, <1>6, <1>7

\* A listing with an entry added or removed is still one of its organization.
LEMMA ListingChanged ==
  ASSUME NEW o \in OrgSet, NEW T \in Seq(Sites),
         \A i \in 1..Len(T) : OrgOf[T[i]] = o,
         \A i, j \in 1..Len(T) : T[i] = T[j] => i = j,
         NEW U,
         \/ \E s \in Of(Sites, o) \ Range(T), p \in 1..(Len(T) + 1) : U = InsertAt(T, p, s)
         \/ \E p \in DOMAIN T : U = RemoveAt(T, p)
  PROVE  /\ U \in Seq(Sites)
         /\ \A i \in 1..Len(U) : OrgOf[U[i]] = o
         /\ \A i, j \in 1..Len(U) : U[i] = U[j] => i = j
<1>1. Len(T) \in Nat /\ DOMAIN T = 1..Len(T) /\ \A i \in 1..Len(T) : T[i] \in Sites
  OBVIOUS
<1>2. CASE \E s \in Of(Sites, o) \ Range(T), p \in 1..(Len(T) + 1) : U = InsertAt(T, p, s)
  <2>1. PICK s \in Of(Sites, o) \ Range(T), p \in 1..(Len(T) + 1) : U = InsertAt(T, p, s)
    BY <1>2
  <2>2. s \in Sites /\ OrgOf[s] = o /\ \A i \in 1..Len(T) : T[i] # s
    BY <1>1 DEF Of, Range
  <2>3. \A i \in 1..(Len(T) + 1) : (i < p => i \in 1..Len(T)) /\ (i > p => i - 1 \in 1..Len(T))
    BY <1>1
  <2>4. /\ U \in Seq(Sites) /\ Len(U) = Len(T) + 1
        /\ \A i \in 1..(Len(T) + 1) : U[i] = IF i < p THEN T[i] ELSE IF i = p THEN s ELSE T[i - 1]
    BY <2>1, <2>2, Inserting, SMTT(40)
  <2>5. \A i \in 1..Len(U) : OrgOf[U[i]] = o
    BY <1>1, <2>2, <2>3, <2>4
  <2>6. ASSUME NEW i \in 1..Len(U), NEW j \in 1..Len(U), U[i] = U[j] PROVE i = j
    BY <1>1, <2>2, <2>3, <2>4, <2>6
  <2> QED
    BY <2>4, <2>5, <2>6
<1>3. CASE \E p \in DOMAIN T : U = RemoveAt(T, p)
  <2>1. PICK p \in 1..Len(T) : U = RemoveAt(T, p)
    BY <1>1, <1>3
  <2>2. \A i \in 1..(Len(T) - 1) : i \in 1..Len(T) /\ i + 1 \in 1..Len(T)
    BY <1>1
  <2>3. /\ U \in Seq(Sites) /\ Len(U) = Len(T) - 1
        /\ \A i \in 1..(Len(T) - 1) : U[i] = IF i < p THEN T[i] ELSE T[i + 1]
    BY ONLY T \in Seq(Sites), <2>1, Removing, SMTT(40)
  <2>4. ASSUME NEW i \in 1..Len(U) PROVE OrgOf[U[i]] = o
    <3>1. U[i] = T[i] \/ U[i] = T[i + 1]
      BY <2>3
    <3> QED
      BY <2>2, <2>3, <3>1
  <2>5. ASSUME NEW i \in 1..Len(U), NEW j \in 1..Len(U), U[i] = U[j] PROVE i = j
    BY <1>1, <2>2, <2>3, <2>5
  <2> QED
    BY <2>3, <2>4, <2>5
<1> QED
  BY <1>2, <1>3

\* A tenant that changes is marked, and no other one is touched.
LEMMA TenantChangeHeld == ASSUME DiscoveryInv, NEW o \in OrgSet, TenantChange(o) PROVE DiscoveryInv'
<1> USE DEF DiscoveryInv
<1>1. /\ changed' = changed \cup {o}
      /\ UNCHANGED <<known, pc, pass, previous, org, page, found, incomplete>>
  BY DEF TenantChange, scan
<1>2. /\ \/ \E s \in Of(Sites, o) \ Range(tenant[o]), p \in 1..(Len(tenant[o]) + 1) :
              tenant'[o] = InsertAt(tenant[o], p, s)
         \/ \E p \in DOMAIN tenant[o] : tenant'[o] = RemoveAt(tenant[o], p)
      /\ \A q \in OrgSet \ {o} : tenant'[q] = tenant[q]
      /\ DOMAIN tenant' = OrgSet
  BY DEF TenantChange, DiscoveryTypes
<1>3. TenantsOwn'
  <2>1. /\ tenant'[o] \in Seq(Sites)
        /\ \A i \in 1..Len(tenant'[o]) : OrgOf[tenant'[o][i]] = o
        /\ \A i, j \in 1..Len(tenant'[o]) : tenant'[o][i] = tenant'[o][j] => i = j
    BY <1>2, ListingChanged DEF TenantsOwn
  <2> QED
    BY <1>2, <2>1 DEF TenantsOwn
<1>4. DiscoveryTypes' /\ SnapshotHeld'
  BY <1>1, <1>2 DEF DiscoveryTypes, SnapshotHeld
<1>5. ASSUME NEW q \in OrgSet
      PROVE  (ToCome(q) => ToCome(q)') /\ (Underway(q) => Underway(q)') /\ (Through(q) => Through(q)')
  <2>1. CASE q = o
    BY <1>1, <2>1 DEF ToCome, Underway, Through
  <2>2. CASE q # o
    <3>1. tenant'[q] = tenant[q]
      BY <1>2, <2>2
    <3> QED
      BY <1>1, <3>1, <2>2 DEF ToCome, Underway, Through, First, WithinPages, Listed
  <2> QED
    BY <2>1, <2>2
<1>6. ScanHeld'
  <2> SUFFICES ASSUME NEW i \in 1..Len(AllowedOrgs)
               PROVE  /\ pc = "page" /\ i > org => ToCome(AllowedOrgs[i])'
                      /\ pc = "page" /\ i = org => Underway(AllowedOrgs[i])'
                      /\ pc = "install" \/ (pc = "page" /\ i < org) => Through(AllowedOrgs[i])'
    BY <1>1 DEF ScanHeld
  <2>1. AllowedOrgs[i] \in OrgSet
    BY Positions
  <2> QED
    BY <1>5, <2>1 DEF ScanHeld
<1> QED
  BY <1>3, <1>4, <1>6

\* A step of none of the actions changes nothing the invariant names.
LEMMA StutterHeld == ASSUME DiscoveryInv, UNCHANGED vars PROVE DiscoveryInv'
<1> USE DEF DiscoveryInv
<1>1. /\ UNCHANGED <<known, pc, pass, previous, org, page, found, incomplete, tenant, changed>>
  BY DEF vars, scan
<1>2. DiscoveryTypes' /\ TenantsOwn' /\ SnapshotHeld'
  BY <1>1 DEF DiscoveryTypes, TenantsOwn, SnapshotHeld
<1>3. ASSUME NEW q \in OrgSet
      PROVE  (ToCome(q) => ToCome(q)') /\ (Underway(q) => Underway(q)') /\ (Through(q) => Through(q)')
  BY <1>1 DEF ToCome, Underway, Through, First, WithinPages, Listed
<1>4. ScanHeld'
  <2> SUFFICES ASSUME NEW i \in 1..Len(AllowedOrgs)
               PROVE  /\ pc = "page" /\ i > org => ToCome(AllowedOrgs[i])'
                      /\ pc = "page" /\ i = org => Underway(AllowedOrgs[i])'
                      /\ pc = "install" \/ (pc = "page" /\ i < org) => Through(AllowedOrgs[i])'
    BY <1>1 DEF ScanHeld
  <2>1. AllowedOrgs[i] \in OrgSet
    BY Positions
  <2> QED
    BY <1>3, <2>1 DEF ScanHeld
<1> QED
  BY <1>2, <1>4

-----------------------------------------------------------------------------
(* Theorems *)

\* DiscoveryInv holds in every reachable state.
THEOREM DiscoveryInductive == Spec => []DiscoveryInv
<1>1. DiscoveryInv /\ [Next]_vars => DiscoveryInv'
  BY FetchPageHeld, FetchFailsHeld, InstallHeld, StartRefreshHeld, TenantChangeHeld, StutterHeld DEF Next, Pass
<1> QED
  BY <1>1, InitHeld, PTL DEF Spec

\* A refresh changes no entry of an organization that failed or was truncated,
\* whatever was inserted before it failed (merge_refresh): the snapshot it
\* keeps is still the map in force.
THEOREM FailedOrgsKept == Spec => FailedOrgKeepsSites
<1>1. ASSUME DiscoveryInv, [Next]_vars, pc = "install", pass = "refresh", NEW o \in incomplete
      PROVE  Of(known', o) = Of(known, o)
  <2>1. CASE UNCHANGED known
    BY <2>1
  <2>2. CASE Install
    <3>1. previous = known
      BY <1>1 DEF DiscoveryInv, SnapshotHeld
    <3>2. known' = known \/ known' = MergeRefresh
      BY <1>1, <2>2 DEF Install
    <3> QED
      BY <3>1, <3>2 DEF MergeRefresh, Of
  <2> QED
    BY <1>1, <2>1, <2>2 DEF Next, Pass, FetchPage, FetchFails, StartRefresh, TenantChange, vars
<1>2. DiscoveryInv /\ [Next]_vars =>
        [pc = "install" /\ pass = "refresh" => \A o \in incomplete : Of(known', o) = Of(known, o)]_vars
  BY <1>1
<1> QED
  BY <1>2, DiscoveryInductive, PTL DEF Spec, FailedOrgKeepsSites

\* Every organization that a pass completed, and whose tenant stayed as it was
\* meanwhile, has exactly the sites that Mist lists, for every page size and
\* however the listing ends at a page boundary; a listing of valid entries is
\* never cut by the page bound, since the cap comes first.
THEOREM CompletedExact == Spec => CompletePassExact
<1>1. ASSUME DiscoveryInv, [Next]_vars, pc = "install", pc' = "wait", ~oversized',
             NEW o \in OrgSet \ (incomplete \cup changed), WithinPages(o)
      PROVE  Of(known', o) = Listed(o)
  <2>1. Install
    BY <1>1 DEF Next, Pass, FetchPage, FetchFails, StartRefresh, TenantChange, vars
  <2>2. known' = found \/ known' = MergeRefresh
    BY <1>1, <2>1 DEF Install
  <2>3. Of(known', o) = Of(found, o)
    BY <2>2 DEF MergeRefresh, Of
  <2>4. PICK i \in 1..Len(AllowedOrgs) : AllowedOrgs[i] = o
    BY Positions
  <2>5. Through(o)
    BY <1>1, <2>4 DEF DiscoveryInv, ScanHeld
  <2> QED
    BY <1>1, <2>3, <2>5 DEF Through
<1>2. DiscoveryInv /\ [Next]_vars =>
        [pc = "install" /\ pc' = "wait" /\ ~oversized' =>
           \A o \in OrgSet \ (incomplete \cup changed) : WithinPages(o) => Of(known', o) = Listed(o)]_vars
  BY <1>1
<1> QED
  BY <1>2, DiscoveryInductive, PTL DEF Spec, CompletePassExact
=============================================================================
