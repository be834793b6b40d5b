------------------------------- MODULE Lists -------------------------------
(***************************************************************************)
(* What the models say of lists: what is in them, list comprehension, and  *)
(* a loop over a list.  Select and FoldList are recursive functions over   *)
(* the positions, so that their lemmas (ListProofs) can be proved;         *)
(* SelectSeq and FoldLeft take operators.                                  *)
(***************************************************************************)
EXTENDS Naturals, Sequences

Elements(s) == {s[n] : n \in DOMAIN s}
Distinct(s) == \A m, n \in DOMAIN s : s[m] = s[n] => m = n

\* The slices s[:n] and s[n:].
Take(s, n) == SubSeq(s, 1, IF n < Len(s) THEN n ELSE Len(s))
Drop(s, n) == SubSeq(s, n + 1, Len(s))

\* [x for x in s if x in T].
Select(s, T) ==
    LET Chosen[n \in 0 .. Len(s)] ==
            IF n = 0 THEN <<>>
            ELSE IF s[n] \in T THEN Append(Chosen[n - 1], s[n])
            ELSE Chosen[n - 1]
    IN  Chosen[Len(s)]

\* for x in s: d = step[x][d], from base.
FoldList(s, step, base) ==
    LET After[n \in 0 .. Len(s)] ==
            IF n = 0 THEN base ELSE step[s[n]][After[n - 1]]
    IN  After[Len(s)]

\* Lists of lists: what they hold, and whether they hold anything twice.
Held(l) == UNION {Elements(l[n]) : n \in DOMAIN l}
Apart(l) ==
    \A m, n \in DOMAIN l : \A i \in DOMAIN l[m], j \in DOMAIN l[n] :
        l[m][i] = l[n][j] => m = n /\ i = j
=============================================================================
