----------------------------- MODULE ListProofs -----------------------------
(***************************************************************************)
(* Lemmas about Lists, and the two principles that they and the proofs     *)
(* about recursive functions rest on.  Both speak of sets and functions    *)
(* where the library's theorems speak of operators.                        *)
(***************************************************************************)
EXTENDS Lists, Integers, FiniteSets, WellFoundedInduction, TLAPS

\* A set of natural numbers has a least element.
LEMMA LeastNatural ==
    ASSUME NEW T, T \subseteq Nat, T # {}
    PROVE  \E m \in T : \A n \in T : m <= n
<1>1. PICK m \in T : \A n \in T : ~(<<n, m>> \in OpToRel(<, Nat))
    BY WFMin, NatLessThanWellFounded
<1>2. ASSUME NEW n \in T PROVE m <= n
    <2>1. ~(<<n, m>> \in OpToRel(<, Nat))
        BY <1>1
    <2>2. <<n, m>> \in Nat \X Nat /\ <<n, m>>[1] = n /\ <<n, m>>[2] = m
        OBVIOUS
    <2>3. ~(n < m)
        BY <2>1, <2>2 DEF OpToRel
    <2> QED
        BY <2>3
<1> QED
    BY <1>2

\* Induction up to N: I is the set of the numbers that have the property.
Inductive(I, N) == 0 \in I /\ \A n \in 1 .. N : n - 1 \in I => n \in I

LEMMA InductionUpTo ==
    ASSUME NEW I, NEW N \in Nat, Inductive(I, N)
    PROVE  \A n \in 0 .. N : n \in I
<1> DEFINE T == {n \in 0 .. N : n \notin I}
<1> SUFFICES ASSUME T # {} PROVE FALSE
    OBVIOUS
<1>1. PICK m \in T : \A n \in T : m <= n
    <2>1. T \subseteq Nat
        OBVIOUS
    <2> HIDE DEF T
    <2> QED
        BY <2>1, LeastNatural
<1>2. m \in 1 .. N /\ m - 1 \in 0 .. N /\ ~(m <= m - 1)
    BY <1>1 DEF Inductive
<1>3. m - 1 \in I
    BY <1>1, <1>2
<1> QED
    BY <1>1, <1>2, <1>3 DEF Inductive

\* A function defined by recursion over the numbers up to N exists: step[n] makes
\* the n-th value of the one before.
Recursive(F, N, base, step) == F[0] = base /\ \A n \in 1 .. N : F[n] = step[n][F[n - 1]]

LEMMA RecursionUpTo ==
    ASSUME NEW N \in Nat, NEW D, NEW base \in D, NEW step \in [1 .. N -> [D -> D]]
    PROVE  \E F \in [0 .. N -> D] : Recursive(F, N, base, step)
<1> DEFINE I == {n \in 0 .. N : \E F \in [0 .. n -> D] : Recursive(F, n, base, step)}
<1>1. 0 \in I
    <2>1. /\ [i \in 0 .. 0 |-> base] \in [0 .. 0 -> D]
          /\ Recursive([i \in 0 .. 0 |-> base], 0, base, step)
        BY DEF Recursive
    <2> QED
        BY <2>1
<1>2. ASSUME NEW n \in 1 .. N, n - 1 \in I PROVE n \in I
    <2>1. PICK G \in [0 .. n - 1 -> D] : Recursive(G, n - 1, base, step)
        BY <1>2
    <2> DEFINE F == [i \in 0 .. n |-> IF i = n THEN step[n][G[n - 1]] ELSE G[i]]
    <2>2. step[n] \in [D -> D] /\ G[n - 1] \in D
        BY <2>1
    <2>3. F \in [0 .. n -> D]
        BY <2>1, <2>2
    <2>4. F[0] = base
        BY <2>1 DEF Recursive
    <2>5. ASSUME NEW m \in 1 .. n PROVE F[m] = step[m][F[m - 1]]
        <3>1. F[m - 1] = G[m - 1]
            BY <2>5
        <3>2. CASE m = n
            BY <3>1, <3>2
        <3>3. CASE m # n
            <4>1. m \in 1 .. n - 1 /\ F[m] = G[m]
                BY <3>3, <2>5
            <4> QED
                BY <2>1, <3>1, <4>1 DEF Recursive
        <3> QED
            BY <3>2, <3>3
    <2>6. Recursive(F, n, base, step)
        BY <2>4, <2>5 DEF Recursive
    <2> HIDE DEF F
    <2> QED
        BY <2>3, <2>6
<1> HIDE DEF I
<1>3. Inductive(I, N)
    BY <1>1, <1>2 DEF Inductive
<1>4. N \in I
    BY <1>3, InductionUpTo
<1> QED
    BY <1>4 DEF I

\* Select is the function its definition asks for.
LEMMA SelectRecursion ==
    ASSUME NEW S, NEW s \in Seq(S), NEW T
    PROVE  \E F : /\ Select(s, T) = F[Len(s)]
                  /\ F[0] = <<>>
                  /\ \A n \in 1 .. Len(s) :
                        F[n] = IF s[n] \in T THEN Append(F[n - 1], s[n]) ELSE F[n - 1]
<1> DEFINE Body(F) == [n \in 0 .. Len(s) |->
                          IF n = 0 THEN <<>>
                          ELSE IF s[n] \in T THEN Append(F[n - 1], s[n]) ELSE F[n - 1]]
           C == CHOOSE F : F = Body(F)
<1>1. ASSUME NEW F
      PROVE  /\ Body(F) = [n \in 0 .. Len(s) |-> Body(F)[n]]
             /\ Body(F)[0] = <<>>
             /\ \A n \in 1 .. Len(s) :
                   Body(F)[n] = IF s[n] \in T THEN Append(F[n - 1], s[n]) ELSE F[n - 1]
    <2>1. Len(s) \in Nat
        OBVIOUS
    <2>2. \A n \in 1 .. Len(s) : n \in 0 .. Len(s) /\ n # 0
        BY <2>1
    <2> QED
        BY <2>1, <2>2
<1>2. \E F : F = Body(F)
    <2> DEFINE step == [n \in 1 .. Len(s) |->
                           [t \in Seq(S) |-> IF s[n] \in T THEN Append(t, s[n]) ELSE t]]
               D == Seq(S)
               base == <<>>
    <2>1. base \in D /\ step \in [1 .. Len(s) -> [D -> D]] /\ Len(s) \in Nat
        OBVIOUS
    <2> HIDE DEF step, D, base, Body
    <2>2. PICK F \in [0 .. Len(s) -> D] : Recursive(F, Len(s), base, step)
        BY <2>1, RecursionUpTo
    <2>3. ASSUME NEW n \in 1 .. Len(s) PROVE F[n] = Body(F)[n]
        <3>1. F[n - 1] \in D
            OBVIOUS
        <3>2. step[n][F[n - 1]] = IF s[n] \in T THEN Append(F[n - 1], s[n]) ELSE F[n - 1]
            BY <3>1 DEF step, D
        <3> QED
            BY <1>1, <2>2, <3>2 DEF Recursive
    <2>4. F[0] = Body(F)[0]
        BY <1>1, <2>2 DEF Recursive, base
    <2>5. \A n \in 0 .. Len(s) : n = 0 \/ n \in 1 .. Len(s)
        BY <2>1
    <2>6. F = Body(F)
        BY <1>1, <2>3, <2>4, <2>5
    <2> QED
        BY <2>6
<1>3. Select(s, T) = C[Len(s)]
    BY DEF Select
<1> HIDE DEF Body
<1>4. C = Body(C)
    BY <1>2
<1> HIDE DEF C
<1> QED
    BY <1>1, <1>3, <1>4

\* A selection has the elements of the list that are in T, each as often.
LEMMA SelectLemma ==
    ASSUME NEW S, NEW s \in Seq(S), NEW T
    PROVE  /\ Select(s, T) \in Seq(S)
           /\ Elements(Select(s, T)) = Elements(s) \cap T
           /\ Distinct(s) => Distinct(Select(s, T))
<1>1. PICK F : /\ Select(s, T) = F[Len(s)]
               /\ F[0] = <<>>
               /\ \A n \in 1 .. Len(s) :
                     F[n] = IF s[n] \in T THEN Append(F[n - 1], s[n]) ELSE F[n - 1]
    BY SelectRecursion
<1> DEFINE Upto(n) == {s[m] : m \in 1 .. n}
           I == {n \in Nat : /\ F[n] \in Seq(S)
                             /\ Elements(F[n]) = Upto(n) \cap T
                             /\ Distinct(s) => Distinct(F[n])}
<1>2. 0 \in I
    <2>1. /\ <<>> \in Seq(S) /\ Elements(<<>>) = {} /\ Distinct(<<>>)
          /\ Upto(0) = {}
        BY DEF Elements, Distinct
    <2> QED
        BY <1>1, <2>1
<1>3. ASSUME NEW n \in 1 .. Len(s), n - 1 \in I PROVE n \in I
    <2>1. Upto(n) = Upto(n - 1) \cup {s[n]}
        OBVIOUS
    <2>2. s[n] \in S
        OBVIOUS
    <2>3. CASE s[n] \notin T
        BY <1>1, <1>3, <2>1, <2>3
    <2>4. CASE s[n] \in T
        <3> DEFINE t == F[n - 1]
                   u == F[n]
        <3>1. /\ t \in Seq(S) /\ Elements(t) = Upto(n - 1) \cap T
              /\ Distinct(s) => Distinct(t)
            BY <1>3
        <3>2. u = Append(t, s[n])
            BY <1>1, <2>4
        <3> HIDE DEF t, u
        <3>3. /\ u \in Seq(S) /\ DOMAIN u = DOMAIN t \cup {Len(t) + 1} /\ u[Len(t) + 1] = s[n]
              /\ \A m \in DOMAIN t : u[m] = t[m]
            BY <2>2, <3>1, <3>2
        <3>4. Elements(u) = Upto(n) \cap T
            BY <2>1, <2>4, <3>1, <3>3 DEF Elements
        <3>5. ASSUME Distinct(s) PROVE Distinct(u)
            <4>1. s[n] \notin Upto(n - 1)
                BY <3>5 DEF Distinct
            <4>2. s[n] \notin Elements(t)
                BY <3>1, <4>1
            <4> QED
                BY <3>1, <3>3, <3>5, <4>2 DEF Distinct, Elements
        <3> QED
            BY <3>3, <3>4, <3>5 DEF u
    <2> QED
        BY <2>3, <2>4
<1> HIDE DEF I
<1>4. Len(s) \in Nat
    OBVIOUS
<1>5. Len(s) \in I
    <2>1. Inductive(I, Len(s))
        BY <1>2, <1>3 DEF Inductive
    <2> QED
        BY <1>4, <2>1, InductionUpTo
<1>6. Upto(Len(s)) = Elements(s)
    BY DEF Elements
<1> QED
    BY <1>1, <1>5, <1>6 DEF I

\* A list is its first n elements and the rest.
LEMMA TakeDropLemma ==
    ASSUME NEW S, NEW s \in Seq(S), NEW n \in Nat
    PROVE  /\ Take(s, n) \in Seq(S) /\ Drop(s, n) \in Seq(S)
           /\ Elements(Take(s, n)) \cup Elements(Drop(s, n)) = Elements(s)
           /\ Distinct(s) => Distinct(Take(s, n))
<1> DEFINE k == IF n < Len(s) THEN n ELSE Len(s)
           t == Take(s, n)
           d == Drop(s, n)
<1>1. Len(s) \in Nat /\ k \in 0 .. Len(s) /\ k <= n
    OBVIOUS
<1>2. t \in Seq(S) /\ Len(t) = k /\ \A m \in 1 .. k : t[m] = s[m]
    BY <1>1 DEF Take
<1>3. CASE n < Len(s)
    <2>1. /\ d \in Seq(S) /\ Len(d) = Len(s) - n
          /\ \A m \in 1 .. Len(s) - n : d[m] = s[m + n]
        BY <1>3 DEF Drop
    <2>2. \A m \in 1 .. Len(s) : m \in 1 .. n \/ (m - n \in 1 .. Len(s) - n /\ d[m - n] = s[m])
        BY <1>3, <2>1
    <2> HIDE DEF t, d
    <2>3. \A m \in 1 .. Len(s) - n : m + n \in 1 .. Len(s)
        BY <1>3, <1>1
    <2>4. DOMAIN s = 1 .. Len(s) /\ DOMAIN t = 1 .. n /\ DOMAIN d = 1 .. Len(s) - n
        BY <1>1, <1>2, <1>3, <2>1
    <2>5. Elements(t) \subseteq Elements(s)
        BY <1>1, <1>2, <1>3, <2>4 DEF Elements
    <2>6. Elements(d) \subseteq Elements(s)
        BY <2>1, <2>3, <2>4 DEF Elements
    <2>7. Elements(s) \subseteq Elements(t) \cup Elements(d)
        <3> SUFFICES ASSUME NEW m \in 1 .. Len(s) PROVE s[m] \in Elements(t) \cup Elements(d)
            BY <2>4 DEF Elements
        <3> QED
            BY <1>2, <1>3, <2>2, <2>4 DEF Elements
    <2>8. Distinct(s) => Distinct(t)
        BY <1>1, <1>2, <1>3, <2>4 DEF Distinct
    <2> QED
        BY <1>2, <2>1, <2>5, <2>6, <2>7, <2>8 DEF t, d
<1>4. CASE ~(n < Len(s))
    <2>1. t = s
        BY <1>1, <1>2, <1>4
    <2>2. d = <<>>
        BY <1>1, <1>4 DEF Drop
    <2>3. Elements(<<>>) = {} /\ <<>> \in Seq(S)
        BY DEF Elements
    <2> QED
        BY <2>1, <2>2, <2>3
<1> QED
    BY <1>3, <1>4

LEMMA LenConcatLemma ==
    ASSUME NEW S, NEW s \in Seq(S), NEW t \in Seq(S)
    PROVE  Len(s \o t) = Len(s) + Len(t)
OBVIOUS

\* The elements of two lists in a row.
LEMMA ConcatLemma ==
    ASSUME NEW S, NEW s \in Seq(S), NEW t \in Seq(S)
    PROVE  /\ s \o t \in Seq(S)
           /\ Elements(s \o t) = Elements(s) \cup Elements(t)
           /\ (Distinct(s) /\ Distinct(t) /\ Elements(s) \cap Elements(t) = {})
                 => Distinct(s \o t)
<1> DEFINE u == s \o t
<1>1. /\ u \in Seq(S) /\ Len(u) = Len(s) + Len(t) /\ Len(s) \in Nat /\ Len(t) \in Nat
      /\ \A m \in 1 .. Len(s) : u[m] = s[m]
      /\ \A m \in 1 .. Len(t) : u[m + Len(s)] = t[m]
    OBVIOUS
<1> HIDE DEF u
<1>2. /\ DOMAIN u = 1 .. Len(s) + Len(t) /\ DOMAIN s = 1 .. Len(s) /\ DOMAIN t = 1 .. Len(t)
    BY <1>1
<1>3. \A m \in DOMAIN u : \/ m \in DOMAIN s /\ u[m] = s[m]
                          \/ m - Len(s) \in DOMAIN t /\ u[m] = t[m - Len(s)]
    <2> SUFFICES ASSUME NEW m \in DOMAIN u
                 PROVE  \/ m \in DOMAIN s /\ u[m] = s[m]
                        \/ m - Len(s) \in DOMAIN t /\ u[m] = t[m - Len(s)]
        OBVIOUS
    <2>1. CASE m <= Len(s)
        BY <1>1, <1>2, <2>1
    <2>2. CASE ~(m <= Len(s))
        <3>1. m - Len(s) \in 1 .. Len(t) /\ (m - Len(s)) + Len(s) = m
            BY <1>1, <1>2, <2>2
        <3> QED
            BY <1>1, <1>2, <3>1
    <2> QED
        BY <2>1, <2>2
<1>4. \A m \in DOMAIN s : m \in DOMAIN u
    BY <1>1, <1>2
<1>5. \A m \in DOMAIN t : m + Len(s) \in DOMAIN u
    BY <1>1, <1>2
<1>6. Elements(u) = Elements(s) \cup Elements(t)
    <2>1. Elements(u) \subseteq Elements(s) \cup Elements(t)
        BY <1>3 DEF Elements
    <2>2. Elements(s) \subseteq Elements(u)
        BY <1>1, <1>2, <1>4 DEF Elements
    <2>3. Elements(t) \subseteq Elements(u)
        BY <1>1, <1>2, <1>5 DEF Elements
    <2> QED
        BY <2>1, <2>2, <2>3
<1>7. ASSUME Distinct(s), Distinct(t), Elements(s) \cap Elements(t) = {} PROVE Distinct(u)
    <2> SUFFICES ASSUME NEW m \in DOMAIN u, NEW n \in DOMAIN u, u[m] = u[n] PROVE m = n
        BY DEF Distinct
    <2>1. \A i \in DOMAIN s, j \in DOMAIN t : s[i] # t[j]
        BY <1>7 DEF Elements
    <2>2. CASE m \in DOMAIN s /\ u[m] = s[m]
        <3>1. n \in DOMAIN s /\ u[n] = s[n]
            BY <1>3, <2>1, <2>2
        <3> QED
            BY <1>7, <2>2, <3>1 DEF Distinct
    <2>3. CASE m - Len(s) \in DOMAIN t /\ u[m] = t[m - Len(s)]
        <3>1. n - Len(s) \in DOMAIN t /\ u[n] = t[n - Len(s)]
            BY <1>3, <2>1, <2>3
        <3>2. m - Len(s) = n - Len(s)
            BY <1>7, <2>3, <3>1 DEF Distinct
        <3> QED
            BY <1>1, <1>2, <3>2
    <2> QED
        BY <1>3, <2>2, <2>3
<1> QED
    BY <1>1, <1>6, <1>7 DEF u

\* The first element and the others.
LEMMA HeadTailLemma ==
    ASSUME NEW S, NEW s \in Seq(S), s # <<>>
    PROVE  /\ Head(s) \in S /\ Tail(s) \in Seq(S)
           /\ Elements(s) = {Head(s)} \cup Elements(Tail(s))
           /\ Distinct(s) => Distinct(Tail(s)) /\ Head(s) \notin Elements(Tail(s))
<1> DEFINE t == Tail(s)
<1>1. /\ t \in Seq(S) /\ Len(t) = Len(s) - 1 /\ Len(s) \in Nat /\ Len(s) > 0
      /\ \A m \in 1 .. Len(s) - 1 : t[m] = s[m + 1]
      /\ Head(s) = s[1]
    OBVIOUS
<1> HIDE DEF t
<1>2. DOMAIN s = 1 .. Len(s) /\ DOMAIN t = 1 .. Len(s) - 1 /\ 1 \in DOMAIN s
    BY <1>1
<1>3. \A m \in DOMAIN t : m + 1 \in DOMAIN s /\ m + 1 # 1 /\ t[m] = s[m + 1]
    BY <1>1, <1>2
<1>4. \A m \in DOMAIN s : m = 1 \/ (m - 1 \in DOMAIN t /\ t[m - 1] = s[m])
    BY <1>1, <1>2
<1>5. Elements(s) = {Head(s)} \cup Elements(t)
    <2>1. Elements(s) \subseteq {Head(s)} \cup Elements(t)
        BY <1>1, <1>4 DEF Elements
    <2>2. {Head(s)} \cup Elements(t) \subseteq Elements(s)
        BY <1>1, <1>2, <1>3 DEF Elements
    <2> QED
        BY <2>1, <2>2
<1>6. ASSUME Distinct(s) PROVE Distinct(t) /\ Head(s) \notin Elements(t)
    <2>1. ASSUME NEW m \in DOMAIN t, NEW n \in DOMAIN t, t[m] = t[n] PROVE m = n
        <3>1. m + 1 = n + 1
            BY <1>3, <1>6, <2>1 DEF Distinct
        <3> QED
            BY <1>2, <3>1
    <2>2. \A m \in DOMAIN t : t[m] # Head(s)
        BY <1>1, <1>2, <1>3, <1>6 DEF Distinct
    <2> QED
        BY <2>1, <2>2 DEF Distinct, Elements
<1>7. Head(s) \in S
    BY <1>1, <1>2
<1> QED
    BY <1>1, <1>5, <1>6, <1>7 DEF t

\* FoldList is the function its definition asks for.
After(F, s, step, base) == F[0] = base /\ \A n \in 1 .. Len(s) : F[n] = step[s[n]][F[n - 1]]

LEMMA FoldRecursion ==
    ASSUME NEW S, NEW s \in Seq(S), NEW D, NEW step \in [S -> [D -> D]], NEW base \in D
    PROVE  \E F : FoldList(s, step, base) = F[Len(s)] /\ After(F, s, step, base)
<1> DEFINE Body(F) == [n \in 0 .. Len(s) |-> IF n = 0 THEN base ELSE step[s[n]][F[n - 1]]]
           C == CHOOSE F : F = Body(F)
<1>1. ASSUME NEW F
      PROVE  /\ Body(F) = [n \in 0 .. Len(s) |-> Body(F)[n]]
             /\ Body(F)[0] = base
             /\ \A n \in 1 .. Len(s) : Body(F)[n] = step[s[n]][F[n - 1]]
    <2>1. Len(s) \in Nat
        OBVIOUS
    <2>2. \A n \in 1 .. Len(s) : n \in 0 .. Len(s) /\ n # 0
        BY <2>1
    <2> QED
        BY <2>1, <2>2
<1>2. \E F : F = Body(F)
    <2> DEFINE at == [n \in 1 .. Len(s) |-> step[s[n]]]
    <2>1. at \in [1 .. Len(s) -> [D -> D]] /\ Len(s) \in Nat
        OBVIOUS
    <2>2. \A n \in 1 .. Len(s) : at[n] = step[s[n]]
        OBVIOUS
    <2> HIDE DEF at, Body
    <2>3. PICK F \in [0 .. Len(s) -> D] : Recursive(F, Len(s), base, at)
        BY <2>1, RecursionUpTo
    <2>4. ASSUME NEW n \in 1 .. Len(s) PROVE F[n] = Body(F)[n]
        BY <1>1, <2>2, <2>3 DEF Recursive
    <2>5. F[0] = Body(F)[0]
        BY <1>1, <2>3 DEF Recursive
    <2>6. \A n \in 0 .. Len(s) : n = 0 \/ n \in 1 .. Len(s)
        BY <2>1
    <2>7. F = Body(F)
        BY <1>1, <2>4, <2>5, <2>6
    <2> QED
        BY <2>7
<1>3. FoldList(s, step, base) = C[Len(s)]
    BY DEF FoldList
<1> HIDE DEF Body
<1>4. C = Body(C)
    BY <1>2
<1> HIDE DEF C
<1> QED
    BY <1>1, <1>3, <1>4 DEF After

\* A loop invariant: inv[n] holds the values there may be after n elements.
Preserves(s, step, inv) == \A n \in 1 .. Len(s) : \A d \in inv[n - 1] : step[s[n]][d] \in inv[n]

LEMMA FoldLemma ==
    ASSUME NEW S, NEW s \in Seq(S), NEW D, NEW step \in [S -> [D -> D]], NEW base \in D,
           NEW inv, base \in inv[0], Preserves(s, step, inv)
    PROVE  FoldList(s, step, base) \in inv[Len(s)]
<1>1. PICK F : FoldList(s, step, base) = F[Len(s)] /\ After(F, s, step, base)
    BY FoldRecursion
<1> DEFINE I == {n \in Nat : F[n] \in inv[n]}
<1>2. Len(s) \in Nat
    OBVIOUS
<1>3. 0 \in I
    BY <1>1 DEF After
<1>4. ASSUME NEW n \in 1 .. Len(s), n - 1 \in I PROVE n \in I
    BY <1>1, <1>4 DEF After, Preserves
<1> HIDE DEF I
<1>5. Inductive(I, Len(s))
    BY <1>3, <1>4 DEF Inductive
<1>6. Len(s) \in I
    BY <1>2, <1>5, InductionUpTo
<1> QED
    BY <1>1, <1>6 DEF I

(***************************************************************************)
(* Lists of lists.                                                         *)
(***************************************************************************)
\* One more list.
LEMMA AppendHeldLemma ==
    ASSUME NEW S, NEW l \in Seq(Seq(S)), NEW c \in Seq(S),
           Apart(l), Distinct(c), Elements(c) \cap Held(l) = {}
    PROVE  /\ Append(l, c) \in Seq(Seq(S))
           /\ Held(Append(l, c)) = Held(l) \cup Elements(c)
           /\ Apart(Append(l, c))
<1> DEFINE k == Append(l, c)
           N == Len(l) + 1
<1>1. /\ k \in Seq(Seq(S)) /\ DOMAIN k = DOMAIN l \cup {N} /\ k[N] = c /\ N \notin DOMAIN l
      /\ \A n \in DOMAIN l : k[n] = l[n]
    OBVIOUS
<1> HIDE DEF k, N
<1>2. Held(k) = Held(l) \cup Elements(c)
    BY <1>1 DEF Held
<1>3. ASSUME NEW m \in DOMAIN k, NEW n \in DOMAIN k, NEW i \in DOMAIN k[m], NEW j \in DOMAIN k[n],
             k[m][i] = k[n][j]
      PROVE  m = n /\ i = j
    <2>1. CASE m = N /\ n = N
        BY <1>1, <1>3, <2>1 DEF Distinct
    <2>2. CASE m \in DOMAIN l /\ n \in DOMAIN l
        BY <1>1, <1>3, <2>2 DEF Apart
    <2>3. ASSUME NEW a \in DOMAIN l, NEW x \in DOMAIN l[a], NEW y \in DOMAIN c
          PROVE  l[a][x] # c[y]
        <3>1. l[a][x] \in Held(l) /\ c[y] \in Elements(c)
            BY DEF Held, Elements
        <3> QED
            BY <3>1
    <2>4. CASE (m = N /\ n \in DOMAIN l) \/ (m \in DOMAIN l /\ n = N)
        BY <1>1, <1>3, <2>3, <2>4
    <2> QED
        BY <1>1, <2>1, <2>2, <2>4
<1> QED
    BY <1>1, <1>2, <1>3 DEF Apart, k

\* One of the lists becomes longer.
Extended(k, l, p, c) == k = [l EXCEPT ![p] = @ \o c]

LEMMA ExtendHeldLemma ==
    ASSUME NEW S, NEW l \in Seq(Seq(S)), NEW c \in Seq(S), NEW p \in DOMAIN l,
           Apart(l), Distinct(c), Elements(c) \cap Held(l) = {},
           NEW k, Extended(k, l, p, c)
    PROVE  k \in Seq(Seq(S)) /\ Held(k) = Held(l) \cup Elements(c) /\ Apart(k)
<1> DEFINE u == l[p] \o c
<1>1. l[p] \in Seq(S) /\ Elements(l[p]) \subseteq Held(l) /\ Distinct(l[p])
    BY DEF Held, Apart, Distinct
<1>2. u \in Seq(S) /\ Elements(u) = Elements(l[p]) \cup Elements(c) /\ Distinct(u)
    <2>1. Elements(l[p]) \cap Elements(c) = {}
        BY <1>1
    <2> QED
        BY <1>1, <2>1, ConcatLemma
<1>3. k = [l EXCEPT ![p] = u]
    BY DEF Extended
<1> HIDE DEF u
<1>4. /\ k \in Seq(Seq(S)) /\ DOMAIN k = DOMAIN l /\ k[p] = u
      /\ \A n \in DOMAIN l : n # p => k[n] = l[n]
    BY <1>2, <1>3
<1>5. Held(k) = Held(l) \cup Elements(c)
    <2>1. \A n \in DOMAIN l : Elements(k[n]) \subseteq Elements(l[n]) \cup Elements(c)
        BY <1>2, <1>4
    <2>2. \A n \in DOMAIN l : Elements(l[n]) \subseteq Elements(k[n])
        BY <1>2, <1>4
    <2>3. Elements(c) \subseteq Elements(k[p])
        BY <1>2, <1>4
    <2>4. Held(k) \subseteq Held(l) \cup Elements(c)
        BY <1>4, <2>1 DEF Held
    <2>5. Held(l) \subseteq Held(k)
        BY <1>4, <2>2 DEF Held
    <2>6. Elements(c) \subseteq Held(k)
        BY <1>4, <2>3 DEF Held
    <2> QED
        BY <2>4, <2>5, <2>6
<1>6. \A m, n \in DOMAIN l : m # n => Elements(l[m]) \cap Elements(l[n]) = {}
    BY DEF Apart, Elements
<1>7. \A n \in DOMAIN l : Elements(l[n]) \cap Elements(c) = {}
    BY DEF Held
<1>8. \A m, n \in DOMAIN k : m # n => Elements(k[m]) \cap Elements(k[n]) = {}
    BY <1>2, <1>4, <1>6, <1>7
<1>9. ASSUME NEW n \in DOMAIN k PROVE Distinct(k[n])
    <2>1. n # p => Distinct(l[n])
        BY <1>4 DEF Apart, Distinct
    <2> QED
        BY <1>2, <1>4, <2>1
<1>10. ASSUME NEW m \in DOMAIN k, NEW n \in DOMAIN k, NEW i \in DOMAIN k[m], NEW j \in DOMAIN k[n],
              k[m][i] = k[n][j]
       PROVE  m = n /\ i = j
    <2>1. k[m][i] \in Elements(k[m]) /\ k[n][j] \in Elements(k[n])
        BY DEF Elements
    <2>2. m = n
        BY <1>8, <1>10, <2>1
    <2>3. Distinct(k[m])
        BY <1>9
    <2> QED
        BY <1>10, <2>2, <2>3 DEF Distinct
<1>11. Apart(k)
    BY <1>10 DEF Apart
<1> QED
    BY <1>4, <1>5, <1>11

\* Two lists of lists in a row.
LEMMA ConcatHeldLemma ==
    ASSUME NEW S, NEW l \in Seq(Seq(S)), NEW k \in Seq(Seq(S)),
           Apart(l), Apart(k), Held(l) \cap Held(k) = {}
    PROVE  /\ l \o k \in Seq(Seq(S))
           /\ Held(l \o k) = Held(l) \cup Held(k)
           /\ Apart(l \o k)
<1> DEFINE u == l \o k
           L == Len(l)
<1>1. /\ u \in Seq(Seq(S)) /\ L \in Nat /\ Len(k) \in Nat /\ Len(u) = L + Len(k)
      /\ \A m \in 1 .. L : u[m] = l[m]
      /\ \A m \in 1 .. Len(k) : u[m + L] = k[m]
      /\ DOMAIN l = 1 .. L /\ DOMAIN k = 1 .. Len(k) /\ DOMAIN u = 1 .. Len(u)
    OBVIOUS
<1> HIDE DEF u, L
<1>2. ASSUME NEW m \in DOMAIN u
      PROVE  \/ m \in DOMAIN l /\ u[m] = l[m]
             \/ m - L \in DOMAIN k /\ u[m] = k[m - L]
    <2>1. CASE m <= L
        BY <1>1, <2>1
    <2>2. CASE ~(m <= L)
        <3>1. m - L \in 1 .. Len(k) /\ (m - L) + L = m
            BY <1>1, <2>2
        <3> QED
            BY <1>1, <3>1
    <2> QED
        BY <2>1, <2>2
<1>3. \A m \in DOMAIN l : m \in DOMAIN u /\ u[m] = l[m]
    BY <1>1
<1>4. \A m \in DOMAIN k : m + L \in DOMAIN u /\ u[m + L] = k[m]
    BY <1>1
<1>5. Held(u) = Held(l) \cup Held(k)
    <2>1. Held(u) \subseteq Held(l) \cup Held(k)
        BY <1>2 DEF Held
    <2>2. Held(l) \subseteq Held(u)
        BY <1>3 DEF Held
    <2>3. Held(k) \subseteq Held(u)
        BY <1>4 DEF Held
    <2> QED
        BY <2>1, <2>2, <2>3
<1>6. ASSUME NEW m \in DOMAIN l, NEW n \in DOMAIN k, NEW i \in DOMAIN l[m], NEW j \in DOMAIN k[n]
      PROVE  l[m][i] # k[n][j]
    <2>1. l[m][i] \in Held(l) /\ k[n][j] \in Held(k)
        BY DEF Held, Elements
    <2> QED
        BY <2>1
<1>7. ASSUME NEW m \in DOMAIN u, NEW n \in DOMAIN u, NEW i \in DOMAIN u[m], NEW j \in DOMAIN u[n],
             u[m][i] = u[n][j]
      PROVE  m = n /\ i = j
    <2>1. CASE m \in DOMAIN l /\ u[m] = l[m]
        <3>1. n \in DOMAIN l /\ u[n] = l[n]
            BY <1>2, <1>6, <1>7, <2>1
        <3> QED
            BY <1>7, <2>1, <3>1 DEF Apart
    <2>2. CASE m - L \in DOMAIN k /\ u[m] = k[m - L]
        <3>1. n - L \in DOMAIN k /\ u[n] = k[n - L]
            BY <1>2, <1>6, <1>7, <2>2
        <3>2. m - L = n - L /\ i = j
            BY <1>7, <2>2, <3>1 DEF Apart
        <3> QED
            BY <1>1, <3>2
    <2> QED
        BY <1>2, <2>1, <2>2
<1> QED
    BY <1>1, <1>5, <1>7 DEF Apart, u
=============================================================================
