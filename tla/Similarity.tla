----------------------------- MODULE Similarity -----------------------------
(***************************************************************************)
(* Suggestions for an unknown operation id: server/similarity.rs.           *)
(*                                                                         *)
(* An id is a sequence of letters, a letter is its Unicode code point.  The *)
(* distance counts letters, the lengths it is set in relation to and the    *)
(* suffix count bytes of UTF-8.  Which ids hold a command token or a device *)
(* token is given; scores are exact fractions where the code has floating   *)
(* point.                                                                  *)
(***************************************************************************)
EXTENDS Integers, Sequences, FiniteSetsExt, SequencesExt

CONSTANTS
  Catalogued, Unknown,     \* ids in the catalog, ids callers ask for
  LowerCase,               \* words with capitals -> what to_lowercase makes of them
  HasCmd, HasDevice,       \* ids with such a token
  MAX_SUGGESTIONS,         \* 3 in the code
  SuffixLength,            \* bytes of the suffixes that are compared, 5 in the code
  SuffixDistance           \* 2 in the code

VARIABLES similarPc, unknownId, suggestions

similarVars == <<similarPc, unknownId, suggestions>>

Least(a, b) == IF a <= b THEN a ELSE b
Most(a, b) == IF a >= b THEN a ELSE b

\* str::to_lowercase: it may change how many letters and bytes there are.
Folded(s) == IF s \in DOMAIN LowerCase THEN LowerCase[s] ELSE s

\* str::len: a letter takes one byte, and one more from each of the code points
\* 80, 800 and 10000 (hexadecimal) on.
Bytes(s) == Cardinality({b \in (1..Len(s)) \X {0, 128, 2048, 65536} : s[b[1]] >= b[2]})
MaxLen(u, c) == Most(Bytes(u), Bytes(c))

\* levenshtein_distance: cell[<<i, j>>] is curr_row[j] of round i, and
\* cell[<<i - 1, j>>] is prev_row[j]; the swap makes one the other.
Cells(x, y) ==
  LET cell[p \in (0..Len(x)) \X (0..Len(y))] ==
        LET i == p[1]
            j == p[2] IN
        IF i = 0 THEN j ELSE IF j = 0 THEN i
        ELSE Least(cell[<<i - 1, j>>] + 1,
               Least(cell[<<i, j - 1>>] + 1,
                     cell[<<i - 1, j - 1>>] + IF x[i] = y[j] THEN 0 ELSE 1)) IN
  cell
LevenshteinDistance(a, b) ==
  LET x == Folded(a)
      y == Folded(b) IN
  Cells(x, y)[<<Len(x), Len(y)>>]

\* The tails of a lowercased id that are SuffixLength bytes long: there is one,
\* unless the id is shorter or the cut falls inside a letter.  An id that is
\* shorter is its own suffix; str indexing panics on a cut inside a letter.
Tails(s) == {t \in Suffixes(s) : Bytes(t) = SuffixLength}
Sliceable(s) == Bytes(s) < SuffixLength \/ Tails(s) # {}
Suffix(s) == IF Tails(s) # {} THEN CHOOSE t \in Tails(s) : TRUE ELSE s

\* token_similarity_boost, in twentieths.
TokenSimilarityBoost(u, c) ==
  LET cmd == {u, c} \subseteq HasCmd
      device == {u, c} \subseteq HasDevice IN
  (IF cmd THEN 2 ELSE 0) + (IF device THEN 2 ELSE 0) + (IF cmd /\ device THEN 3 ELSE 0) +
  (IF LevenshteinDistance(Suffix(Folded(u)), Suffix(Folded(c))) <= SuffixDistance THEN 2 ELSE 0)

CommonPrefix(u, c) ==
  LET x == Folded(u)
      y == Folded(c) IN
  Max({n \in 0..Least(Len(x), Len(y)) : SubSeq(x, 1, n) = SubSeq(y, 1, n)})

\* similarity_score, as [num, den]: distance over length, less half the shared
\* prefix over length, less the boost; never below zero.
SimilarityScore(u, c) ==
  LET len == MaxLen(u, c)
      num == 20 * LevenshteinDistance(u, c) - 10 * CommonPrefix(u, c) - TokenSimilarityBoost(u, c) * len IN
  [num |-> IF num > 0 THEN num ELSE 0, den |-> 20 * len]

Better(s, t) == s.num * t.den < t.num * s.den

\* Ids in the order of their bytes.
IdBefore(a, b) ==
  \E n \in 1..Len(b) :
    /\ Len(a) >= n - 1 /\ \A i \in 1..(n - 1) : a[i] = b[i]
    /\ Len(a) = n - 1 \/ a[n] < b[n]

\* The same letters, but for their case: not a candidate, and neither is what
\* takes more edits than 65% of its bytes.
Candidate(u, c) ==
  LET d == LevenshteinDistance(u, c) IN d # 0 /\ 100 * d <= 65 * MaxLen(u, c)

\* Mutant of Ranked: by id only.
RankedById(u, a, b) == IdBefore(a, b)

Ranked(u, a, b) ==
  \/ Better(SimilarityScore(u, a), SimilarityScore(u, b))
  \/ ~Better(SimilarityScore(u, b), SimilarityScore(u, a)) /\ IdBefore(a, b)

\* find_similar_operations: the candidates, each in the place that the number of
\* those that rank before it gives, and of these the first three.
Candidates(u) == {c \in Catalogued : Candidate(u, c)}
Place(u, c) == Cardinality({d \in Candidates(u) : Ranked(u, d, c)})
FindSimilarOperations(u) ==
  [i \in 1..Least(Cardinality(Candidates(u)), MAX_SUGGESTIONS) |->
     LET c == CHOOSE c \in Candidates(u) : Place(u, c) = i - 1 IN
     [id |-> c, distance |-> LevenshteinDistance(u, c)]]

\* Letters are numbers, and there are only so many ids.
ASSUME WordsAssumption ==
  /\ Catalogued \subseteq Seq(Nat) /\ IsFiniteSet(Catalogued) /\ Unknown \subseteq Seq(Nat)
  /\ \A s \in DOMAIN LowerCase : LowerCase[s] \in Seq(Nat)
  /\ {MAX_SUGGESTIONS, SuffixLength, SuffixDistance} \subseteq Nat

SimilarInit ==
  /\ similarPc = "asked" /\ unknownId \in Unknown \ Catalogued
  /\ suggestions = <<>>

\* A score is computed for every catalogued id but those that differ in case
\* only, and with it both suffixes.
Scorable(u) ==
  \A c \in Catalogued :
    LevenshteinDistance(u, c) # 0 => Sliceable(Folded(u)) /\ Sliceable(Folded(c))

\* The suggestions for the error of an unknown operation.
Suggest ==
  /\ similarPc = "asked"
  /\ Scorable(unknownId)
  /\ suggestions' = FindSimilarOperations(unknownId)
  /\ similarPc' = "answered"
  /\ UNCHANGED unknownId

\* A cut inside a letter: the call unwinds, with neither suggestions nor error.
Panic ==
  /\ similarPc = "asked"
  /\ ~Scorable(unknownId)
  /\ similarPc' = "panicked"
  /\ UNCHANGED <<unknownId, suggestions>>

SimilarNext == Suggest \/ Panic
SimilarSpec == SimilarInit /\ [][SimilarNext]_similarVars

-----------------------------------------------------------------------------
(* Properties *)

\* The words one insertion, deletion or replacement away from s.
OneEdit(s, letters) ==
  {RemoveAt(s, i) : i \in DOMAIN s} \cup
  {InsertAt(s, i, c) : i \in 1..(Len(s) + 1), c \in letters} \cup
  {ReplaceAt(s, i, c) : i \in DOMAIN s, c \in letters}

\* What k edits make of a, with letters of `letters` and no word longer than `longest`.
Within(a, letters, longest) ==
  LET within[k \in Nat] ==
        IF k = 0 THEN {a}
        ELSE within[k - 1] \cup
             {w \in UNION {OneEdit(s, letters) : s \in within[k - 1]} : Len(w) <= longest} IN
  within

\* The least number of edits that lead from a to b, found by making them.
EditDistance(a, b) ==
  LET longer == Most(Len(a), Len(b)) IN
  Min({k \in 0..longer : b \in Within(a, Range(b), longer)[k]})

Ascii(s) == \A i \in DOMAIN s : s[i] < 128

\* In an answer, no catalogued id within the ratio that scores better than a
\* suggested one is left out, nor any while there is room for it; only an id
\* that is the unknown one in other case is (find_similar_operations).  The
\* distance that is reported is the least number of edits.  An id goes without
\* answer only if it, or one in the catalog, is not ASCII in lower case.
BestSuggested ==
  /\ similarPc = "answered" =>
       LET edit(c) == EditDistance(Folded(unknownId), Folded(c))
           chosen  == {suggestions[i].id : i \in DOMAIN suggestions} IN
       /\ \A i \in DOMAIN suggestions : suggestions[i].distance = edit(suggestions[i].id)
       /\ \A c \in Catalogued \ chosen :
            \/ edit(c) = 0
            \/ 100 * edit(c) > 65 * MaxLen(unknownId, c)
            \/ /\ Len(suggestions) = MAX_SUGGESTIONS
               /\ \A s \in chosen : ~Better(SimilarityScore(unknownId, c), SimilarityScore(unknownId, s))
  /\ similarPc = "panicked" => \E s \in Catalogued \cup {unknownId} : ~Ascii(Folded(s))
=============================================================================
