----------------------------- MODULE Recursion -----------------------------
(***************************************************************************)
(* Induction and recursion over the natural numbers, with sets and         *)
(* functions in the place of operators, so that the provers can            *)
(* instantiate them.                                                       *)
(***************************************************************************)
EXTENDS Naturals, WellFoundedInduction, TLAPS

\* A set of naturals that contains 0 and is closed under successor is Nat.
LEMMA NatInduct ==
  ASSUME NEW P, 0 \in P, \A n \in Nat : n \in P => n + 1 \in P
  PROVE  \A n \in Nat : n \in P
  <1> SUFFICES ASSUME Nat \ P # {} PROVE FALSE
    OBVIOUS
  <1> DEFINE R == {ss \in Nat \X Nat : ss[1] < ss[2]}
  <1>1. IsWellFoundedOn(R, Nat)
    BY NatLessThanWellFounded DEF OpToRel
  <1>2. \A x, y \in Nat : y < x => <<y, x>> \in R
    OBVIOUS
  <1> HIDE DEF R
  <1>3. \E x \in Nat \ P : \A y \in Nat \ P : ~(<<y, x>> \in R)
    BY <1>1, WFMin
  <1>4. PICK x \in Nat \ P : \A y \in Nat \ P : ~(y < x)
    BY <1>2, <1>3
  <1>5. x # 0 /\ x - 1 \in Nat /\ x - 1 < x
    BY <1>4
  <1>6. x - 1 \in P
    BY <1>4, <1>5
  <1>7. (x - 1) + 1 \in P
    BY <1>5, <1>6
  <1> QED BY <1>4, <1>5, <1>7

\* What a recursion from b by step computes up to n.
Upto(g, n, S, b, step) ==
  /\ g \in [0..n -> S]
  /\ g[0] = b
  /\ \A k \in 0..n : k < n => g[k + 1] = step[k][g[k]]

\* Every step can be taken.
LEMMA UptoExists ==
  ASSUME NEW S, NEW b \in S, NEW step \in [Nat -> [S -> S]]
  PROVE  \A n \in Nat : \E g : Upto(g, n, S, b, step)
  <1> DEFINE P == {n \in Nat : \E g : Upto(g, n, S, b, step)}
  <1>1. 0 \in P
    <2>1. Upto([k \in 0..0 |-> b], 0, S, b, step)
      BY DEF Upto
    <2> QED BY <2>1
  <1>2. ASSUME NEW n \in Nat, n \in P PROVE n + 1 \in P
    <2>1. PICK g : Upto(g, n, S, b, step)
      BY <1>2
    <2> DEFINE h == [k \in 0..(n + 1) |-> IF k = n + 1 THEN step[n][g[n]] ELSE g[k]]
    <2>2. \A k \in 0..n : h[k] = g[k] /\ g[k] \in S
      BY <2>1 DEF Upto
    <2>3. h[n + 1] = step[n][g[n]] /\ step[n][g[n]] \in S
      BY <2>1 DEF Upto
    <2>4. h \in [0..(n + 1) -> S]
      <3>1. \A k \in 0..(n + 1) : k \in 0..n \/ k = n + 1
        OBVIOUS
      <3>2. \A k \in 0..(n + 1) : h[k] \in S
        BY <2>2, <2>3, <3>1
      <3> QED BY <3>2
    <2>5. ASSUME NEW k \in 0..(n + 1), k < n + 1 PROVE h[k + 1] = step[k][h[k]]
      <3>1. CASE k = n
        BY <2>2, <2>3, <3>1
      <3>2. CASE k < n
        <4>1. k \in 0..n /\ k + 1 \in 0..n
          BY <2>5, <3>2
        <4> QED BY <2>1, <2>2, <3>2, <4>1 DEF Upto
      <3> QED BY <2>5, <3>1, <3>2
    <2>6. h[0] = b
      BY <2>1, <2>2 DEF Upto
    <2> HIDE DEF h
    <2>7. Upto(h, n + 1, S, b, step)
      BY <2>4, <2>5, <2>6 DEF Upto
    <2> QED BY <2>7
  <1> HIDE DEF P
  <1>3. \A n \in Nat : n \in P
    BY <1>1, <1>2, NatInduct
  <1> QED BY <1>3 DEF P

\* Two of them agree as far as both go.
LEMMA UptoAgree ==
  ASSUME NEW S, NEW b \in S, NEW step \in [Nat -> [S -> S]],
         NEW n \in Nat, NEW g, Upto(g, n, S, b, step),
         NEW m \in Nat, NEW h, Upto(h, m, S, b, step)
  PROVE  \A k \in Nat : k <= n /\ k <= m => g[k] = h[k]
  <1> DEFINE P == {k \in Nat : k <= n /\ k <= m => g[k] = h[k]}
  <1>1. 0 \in P
    BY DEF Upto
  <1>2. ASSUME NEW k \in Nat, k \in P PROVE k + 1 \in P
    <2> SUFFICES ASSUME k + 1 <= n, k + 1 <= m PROVE g[k + 1] = h[k + 1]
      OBVIOUS
    <2>1. k \in 0..n /\ k \in 0..m /\ k < n /\ k < m
      OBVIOUS
    <2>2. g[k] = h[k]
      BY <1>2, <2>1
    <2> QED BY <2>1, <2>2 DEF Upto
  <1> HIDE DEF P
  <1>3. \A k \in Nat : k \in P
    BY <1>1, <1>2, NatInduct
  <1> QED BY <1>3 DEF P

\* f is b at 0, and goes on by step.
RecursionOf(f, S, b, step) ==
  /\ f \in [Nat -> S]
  /\ f[0] = b
  /\ \A n \in Nat : f[n + 1] = step[n][f[n]]

\* A function of the naturals is defined by its value at 0 and a step.
LEMMA NatRecursion ==
  ASSUME NEW S, NEW b \in S, NEW step \in [Nat -> [S -> S]]
  PROVE  \E f : RecursionOf(f, S, b, step)
  <1> DEFINE G(n) == CHOOSE g : Upto(g, n, S, b, step)
             F == [n \in Nat |-> G(n)[n]]
  <1>1. \A n \in Nat : Upto(G(n), n, S, b, step)
    BY UptoExists
  <1> HIDE DEF G
  <1>2. F \in [Nat -> S] /\ F[0] = b
    BY <1>1 DEF Upto
  <1>3. ASSUME NEW n \in Nat PROVE F[n + 1] = step[n][F[n]]
    <2>1. Upto(G(n), n, S, b, step) /\ Upto(G(n + 1), n + 1, S, b, step)
      BY <1>1
    <2>2. G(n + 1)[n] = G(n)[n]
      BY <2>1, UptoAgree
    <2>3. G(n + 1)[n + 1] = step[n][G(n + 1)[n]]
      BY <2>1 DEF Upto
    <2> QED BY <2>2, <2>3
  <1> HIDE DEF F
  <1>4. RecursionOf(F, S, b, step)
    BY <1>2, <1>3 DEF RecursionOf
  <1> QED BY <1>4
=============================================================================
