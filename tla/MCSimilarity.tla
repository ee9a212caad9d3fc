---------------------------- MODULE MCSimilarity ----------------------------
(* Constants of Similarity for MCParts: words over a and b, and with some    *)
(* letters that make them longer or shorter in UTF-8 or in lower case.      *)
EXTENDS Similarity, TLC

\* a, b, k, A, an e with an acute accent, and a dotted capital I and the Kelvin
\* sign, which become an i with a combining dot and a k.
la == 97
lb == 98
lk == 107
uA == 65
eAcute == 233
dottedI == 304
Kelvin == 8490

WordsOver(letters, longest) == UNION {[1..n -> letters] : n \in 0..longest}

MCUnknown ==
  WordsOver({la, lb, uA}, 4) \cup WordsOver({la, lk, eAcute, dottedI, Kelvin}, 2)
    \cup WordsOver({la, eAcute, Kelvin}, 3)

\* Letter by letter: no word here has a capital sigma, the one letter whose
\* lower case depends on its place.
LowerOf(letter) ==
  CASE letter = uA -> <<la>> [] letter = dottedI -> <<105, 775>> [] letter = Kelvin -> <<lk>>
    [] OTHER -> <<letter>>
LowerTable == [s \in MCUnknown |-> FlattenSeq([i \in DOMAIN s |-> LowerOf(s[i])])]
MCLowerCase == LowerTable

MCCatalogued ==
  {<<la, lb>>, <<la, lb, lb>>, <<la, la, lb, lb>>, <<lb, lb>>, <<lb, la, lb, lb>>, <<la, lk>>}
MCHasCmd == {<<la, lb>>, <<lb, lb>>, <<la, la>>}
MCHasDevice == {<<lb, lb>>, <<la, la>>, <<la, lb, lb>>}
=============================================================================
