------------------------------ MODULE Recursion -----------------------------
(***************************************************************************)
(* What a recursive function is: T[e \in Dom] == Body(p, T, e) is the      *)
(* function that the equation describes, with values that are Fit, if Body *)
(* looks at T on members of Dom of lower rank only and makes a fit value   *)
(* of fit ones.  Where it looks may depend on the values it has seen.  To  *)
(* be instantiated with the domain, the rank and the body of a recursive   *)
(* function of the model, and with what is claimed of its values; p stands *)
(* for the parameters of the operator the function is local to.            *)
(***************************************************************************)
EXTENDS Naturals, FiniteSetsExt, WellFoundedInduction, NaturalsInduction, TLAPS

CONSTANTS Dom(_), Rank(_, _), Body(_, _, _), Fit(_, _, _)

(* t and u agree on the members of Dom(p) whose rank is below n *)
Agree(p, t, u, n) == \A d \in Dom(p) : Rank(p, d) < n => t[d] = u[d]

FitBelow(p, t, n) == \A d \in Dom(p) : Rank(p, d) < n => Fit(p, d, t[d])

LooksDown(p) ==
  \A e \in Dom(p) :
    /\ Rank(p, e) \in Nat
    /\ \A t, u : FitBelow(p, t, Rank(p, e)) /\ Agree(p, t, u, Rank(p, e)) =>
                   Body(p, t, e) = Body(p, u, e) /\ Fit(p, e, Body(p, t, e))

Defined(p) == CHOOSE T : T = [e \in Dom(p) |-> Body(p, T, e)]

(* t satisfies the equation below n *)
Solves(p, t, n) == \A e \in Dom(p) : Rank(p, e) < n => t[e] = Body(p, t, e)

(* A fold over a sequence is a function of sets of positions, which looks  *)
(* at the set without its greatest member.                                 *)
Rest(s) == s \ {Max(s)}

FoldsOver(p, n) ==
  /\ Dom(p) = SUBSET (1 .. n)
  /\ \A s \in Dom(p) : Rank(p, s) = IF s = {} THEN 0 ELSE Max(s)
  /\ \A s \in Dom(p) : \A t, u :
       (s # {} => t[Rest(s)] = u[Rest(s)] /\ Fit(p, Rest(s), t[Rest(s)])) =>
         Body(p, t, s) = Body(p, u, s) /\ Fit(p, s, Body(p, t, s))

-----------------------------------------------------------------------------
LEMMA Induction ==
  ASSUME NEW S \in SUBSET Nat, \A n \in Nat : (\A m \in Nat : m < n => m \in S) => n \in S
  PROVE  S = Nat
<1> DEFINE Less == {ns \in Nat \X Nat : ns[1] < ns[2]}
<1>1. IsWellFoundedOn(Less, Nat)
  BY NatLessThanWellFounded DEF OpToRel
<1>2. SUFFICES ASSUME S # Nat PROVE FALSE
  OBVIOUS
<1>3. PICK n \in Nat \ S : \A m \in Nat \ S : ~(<<m, n>> \in Less)
  <2>1. Nat \ S # {} /\ Nat \ S \subseteq Nat
    BY <1>2
  <2> HIDE DEF Less
  <2> QED
    BY <1>1, <2>1, WFMin
<1> QED
  BY <1>3

(* Max of some of the first n numbers is one of them.                      *)
LEMMA Greatest ==
  ASSUME NEW n \in Nat, NEW S \in SUBSET (1 .. n), S # {}
  PROVE  Max(S) \in S /\ \A y \in S : Max(S) >= y
<1> DEFINE Above == {m \in Nat : \A k \in Nat : k + m = n /\ (\E s \in S : s > k) =>
                       \E x \in S : \A y \in S : x >= y}
<1>1. ASSUME NEW m \in Nat, \A l \in Nat : l < m => l \in Above
      PROVE  m \in Above
  <2> SUFFICES ASSUME NEW k \in Nat, k + m = n, NEW s \in S, s > k
               PROVE  \E x \in S : \A y \in S : x >= y
    OBVIOUS
  <2>1. CASE \E t \in S : t > k + 1
    <3>1. m - 1 \in Nat /\ m - 1 < m /\ k + 1 \in Nat /\ (k + 1) + (m - 1) = n
      OBVIOUS
    <3>2. m - 1 \in Above
      BY <1>1, <3>1
    <3> QED
      BY <2>1, <3>1, <3>2
  <2>2. CASE ~ \E t \in S : t > k + 1
    BY <2>2
  <2> QED
    BY <2>1, <2>2
<1>2. Above = Nat
  <2> HIDE DEF Above
  <2>1. \A m \in Nat : (\A l \in Nat : l < m => l \in Above) => m \in Above
    BY <1>1
  <2>2. Above \in SUBSET Nat
    BY DEF Above
  <2> QED
    BY <2>1, <2>2, Induction
<1>3. n \in Above
  <2> HIDE DEF Above
  <2> QED
    BY <1>2
<1>4. 0 + n = n /\ 0 \in Nat /\ \E s \in S : s > 0
  <2> HIDE DEF Above
  <2>1. PICK s : s \in S
    OBVIOUS
  <2>2. s \in 1 .. n
    BY <2>1
  <2>3. s > 0
    BY <2>2
  <2> QED
    BY <2>1, <2>3
<1>5. \E x \in S : \A y \in S : x >= y
  BY <1>3, <1>4
<1> QED
  BY <1>5 DEF Max

(* A set of numbers has a least member.                                    *)
LEMMA Least ==
  ASSUME NEW S \in SUBSET Nat, S # {}
  PROVE  Min(S) \in S /\ \A y \in S : Min(S) <= y
<1>1. \E m \in S : \A y \in S : m <= y
  <2> SUFFICES ASSUME ~ \E m \in S : \A y \in S : m <= y PROVE FALSE
    OBVIOUS
  <2> DEFINE T == Nat \ S
  <2>1. ASSUME NEW n \in Nat, \A m \in Nat : m < n => m \in T
        PROVE  n \in T
    BY <2>1
  <2>2. T = Nat
    <3> HIDE DEF T
    <3>1. T \in SUBSET Nat
      BY DEF T
    <3> QED
      BY <2>1, <3>1, Induction
  <2> QED
    BY <2>2
<1> QED
  BY <1>1 DEF Min

(* the first n positions, and the set before it                            *)
LEMMA Prefix ==
  ASSUME NEW n \in Nat, n > 0
  PROVE  1 .. n # {} /\ Max(1 .. n) = n /\ Rest(1 .. n) = 1 .. n-1
<1> DEFINE m == Max(1 .. n)
<1>1. n \in 1 .. n
  OBVIOUS
<1>2. m \in 1 .. n /\ m >= n
  BY <1>1, Greatest
<1> HIDE DEF m
<1>3. m = n
  BY <1>2
<1> QED
  BY <1>1, <1>3 DEF Rest, m

LEMMA Folding ==
  ASSUME NEW p, NEW n \in Nat, FoldsOver(p, n)
  PROVE  LooksDown(p)
<1>1. ASSUME NEW s \in Dom(p), s # {}
      PROVE  /\ Max(s) \in 1 .. n /\ Rank(p, s) = Max(s)
             /\ Rest(s) \in Dom(p) /\ Rank(p, Rest(s)) < Rank(p, s)
  <2> DEFINE m == Max(s)
             r == Rest(s)
  <2>1. s \in SUBSET (1 .. n) /\ Rank(p, s) = m
    BY <1>1 DEF FoldsOver
  <2>2. m \in s /\ \A y \in s : m >= y
    BY <1>1, <2>1, Greatest
  <2>3. r = s \ {m} /\ r \in SUBSET (1 .. n) /\ r \in Dom(p)
    BY <2>1 DEF Rest, FoldsOver
  <2>4. Rank(p, r) = IF r = {} THEN 0 ELSE Max(r)
    BY <2>3 DEF FoldsOver
  <2>5. r # {} => Max(r) \in r
    BY <2>3, Greatest
  <2> DEFINE x == Max(r)
  <2> HIDE DEF m, r, x
  <2>6. ASSUME r = {} PROVE Rank(p, r) < m
    BY <2>1, <2>2, <2>4, <2>6
  <2>7. ASSUME r # {} PROVE Rank(p, r) < m
    <3>1. Rank(p, r) = x /\ x \in r
      BY <2>4, <2>5, <2>7 DEF x
    <3>2. x \in 1 .. n /\ m \in 1 .. n /\ m >= x /\ x # m
      BY <2>1, <2>2, <2>3, <3>1
    <3> QED
      BY <3>1, <3>2
  <2>8. m \in 1 .. n
    BY <2>1, <2>2
  <2> QED
    BY <2>1, <2>3, <2>6, <2>7, <2>8 DEF m, r
<1>2. ASSUME NEW s \in Dom(p) PROVE Rank(p, s) \in Nat
  <2>1. CASE s = {}
    BY <2>1 DEF FoldsOver
  <2>2. CASE s # {}
    BY <1>1, <2>2
  <2> QED
    BY <2>1, <2>2
<1>3. ASSUME NEW s \in Dom(p), NEW t, NEW u,
             FitBelow(p, t, Rank(p, s)), Agree(p, t, u, Rank(p, s))
      PROVE  Body(p, t, s) = Body(p, u, s) /\ Fit(p, s, Body(p, t, s))
  <2>1. s # {} => t[Rest(s)] = u[Rest(s)] /\ Fit(p, Rest(s), t[Rest(s)])
    BY <1>1, <1>3 DEF FitBelow, Agree
  <2> QED
    BY <2>1 DEF FoldsOver
<1> QED
  BY <1>2, <1>3 DEF LooksDown

LEMMA SolutionFits ==
  ASSUME NEW p, LooksDown(p), NEW n \in Nat, NEW t, Solves(p, t, n)
  PROVE  FitBelow(p, t, n)
<1> DEFINE S == {m \in Nat : m <= n => FitBelow(p, t, m)}
<1>1. ASSUME NEW m \in Nat, \A k \in Nat : k < m => k \in S
      PROVE  m \in S
  <2> SUFFICES ASSUME m <= n, NEW d \in Dom(p), Rank(p, d) < m
               PROVE  Fit(p, d, t[d])
    BY DEF FitBelow
  <2>1. Rank(p, d) \in Nat /\ Rank(p, d) <= n /\ Rank(p, d) < n
    BY DEF LooksDown
  <2>2. FitBelow(p, t, Rank(p, d)) /\ Agree(p, t, t, Rank(p, d))
    BY <1>1, <2>1 DEF Agree
  <2>3. Fit(p, d, Body(p, t, d))
    BY <2>2 DEF LooksDown
  <2> QED
    BY <2>1, <2>3 DEF Solves
<1>2. S \in SUBSET Nat
  OBVIOUS
<1>3. S = Nat
  <2> HIDE DEF S
  <2> QED
    BY <1>1, <1>2, Induction
<1> QED
  BY <1>3

LEMMA Approximation ==
  ASSUME NEW p, LooksDown(p), NEW n \in Nat
  PROVE  \E t : Solves(p, t, n)
<1> DEFINE S == {m \in Nat : \E t : Solves(p, t, m)}
<1>1. ASSUME NEW m \in Nat, \A k \in Nat : k < m => k \in S
      PROVE  m \in S
  <2>1. CASE m = 0
    <3>1. \A e \in Dom(p) : ~(Rank(p, e) < 0)
      BY DEF LooksDown
    <3> QED
      BY <2>1, <3>1 DEF Solves
  <2>2. CASE m # 0
    <3>1. m - 1 \in Nat /\ m - 1 < m
      BY <2>2
    <3>2. PICK t : Solves(p, t, m - 1)
      BY <1>1, <3>1
    <3> DEFINE u == [e \in Dom(p) |-> Body(p, t, e)]
    <3>3. ASSUME NEW e \in Dom(p), Rank(p, e) < m
          PROVE  u[e] = Body(p, u, e)
      <4>1. ASSUME NEW d \in Dom(p), Rank(p, d) < Rank(p, e)
            PROVE  t[d] = u[d]
        <5>1. Rank(p, d) \in Nat /\ Rank(p, e) \in Nat
          BY DEF LooksDown
        <5>2. Rank(p, d) < m - 1
          BY <3>3, <4>1, <5>1
        <5>3. t[d] = Body(p, t, d)
          BY <3>2, <5>2 DEF Solves
        <5> QED
          BY <5>3
      <4> HIDE DEF u
      <4>2. Agree(p, t, u, Rank(p, e))
        BY <4>1 DEF Agree
      <4>4. FitBelow(p, t, Rank(p, e))
        <5>1. FitBelow(p, t, m - 1)
          BY <3>1, <3>2, SolutionFits
        <5>2. \A d \in Dom(p) : Rank(p, d) < Rank(p, e) => Rank(p, d) < m - 1
          BY <3>3 DEF LooksDown
        <5> QED
          BY <5>1, <5>2 DEF FitBelow
      <4>3. Body(p, t, e) = Body(p, u, e)
        BY <4>2, <4>4 DEF LooksDown
      <4> QED
        BY <4>3 DEF u
    <3> HIDE DEF u
    <3>4. Solves(p, u, m)
      BY <3>3 DEF Solves
    <3> QED
      BY <3>4
  <2> QED
    BY <2>1, <2>2
<1>2. S \in SUBSET Nat
  OBVIOUS
<1>3. S = Nat
  <2> HIDE DEF S
  <2> QED
    BY <1>1, <1>2, Induction
<1> QED
  BY <1>3

LEMMA Uniqueness ==
  ASSUME NEW p, LooksDown(p), NEW n \in Nat, NEW t, NEW u, Solves(p, t, n), Solves(p, u, n)
  PROVE  Agree(p, t, u, n)
<1> DEFINE S == {m \in Nat : m <= n => Agree(p, t, u, m)}
<1>1. ASSUME NEW m \in Nat, \A k \in Nat : k < m => k \in S
      PROVE  m \in S
  <2> SUFFICES ASSUME m <= n, NEW d \in Dom(p), Rank(p, d) < m
               PROVE  t[d] = u[d]
    BY DEF Agree
  <2>1. Rank(p, d) \in Nat /\ Rank(p, d) <= n /\ Rank(p, d) < n
    BY DEF LooksDown
  <2>2. Agree(p, t, u, Rank(p, d))
    BY <1>1, <2>1
  <2>3. FitBelow(p, t, Rank(p, d))
    BY <2>1, SolutionFits DEF FitBelow, LooksDown
  <2>4. Body(p, t, d) = Body(p, u, d)
    BY <2>2, <2>3 DEF LooksDown
  <2> QED
    BY <2>1, <2>4 DEF Solves
<1>2. S \in SUBSET Nat
  OBVIOUS
<1>3. S = Nat
  <2> HIDE DEF S
  <2> QED
    BY <1>1, <1>2, Induction
<1> QED
  BY <1>3

-----------------------------------------------------------------------------
(* A recursive function satisfies its equation, and its values fit.        *)
THEOREM Unfolding ==
  \A p : LooksDown(p) => /\ Defined(p) = [e \in Dom(p) |-> Body(p, Defined(p), e)]
                         /\ \A e \in Dom(p) : Fit(p, e, Defined(p)[e])
<1> SUFFICES ASSUME NEW p, LooksDown(p)
             PROVE  /\ Defined(p) = [e \in Dom(p) |-> Body(p, Defined(p), e)]
                    /\ \A e \in Dom(p) : Fit(p, e, Defined(p)[e])
  OBVIOUS
<1> DEFINE A(n) == CHOOSE t : Solves(p, t, n)
           T == [e \in Dom(p) |-> A(Rank(p, e) + 1)[e]]
<1>1. \A n \in Nat : Solves(p, A(n), n)
  BY Approximation
<1> HIDE DEF A
<1>2. ASSUME NEW e \in Dom(p)
      PROVE  T[e] = Body(p, T, e)
  <2> DEFINE r == Rank(p, e)
             t == A(r + 1)
  <2>1. r \in Nat /\ r + 1 \in Nat /\ r < r + 1
    BY DEF LooksDown
  <2>2. ASSUME NEW d \in Dom(p), Rank(p, d) < r
        PROVE  t[d] = T[d]
    <3> DEFINE k == Rank(p, d) + 1
    <3>1. k \in Nat /\ Rank(p, d) < k /\ k <= r + 1 /\ Rank(p, d) \in Nat
      BY <2>1, <2>2 DEF LooksDown
    <3>2. Solves(p, A(k), k) /\ Solves(p, t, r + 1)
      BY <1>1, <2>1, <3>1
    <3>3. Solves(p, t, k)
      <4>1. \A c \in Dom(p) : Rank(p, c) < k => Rank(p, c) < r + 1
        BY <2>1, <3>1 DEF LooksDown
      <4> HIDE DEF t, k, r
      <4> QED
        BY <3>2, <4>1 DEF Solves
    <3>4. Agree(p, A(k), t, k)
      <4> HIDE DEF t, k, r
      <4> QED
        BY <3>1, <3>2, <3>3, Uniqueness
    <3>5. A(k)[d] = t[d]
      <4> HIDE DEF t, k, r
      <4> QED
        BY <3>1, <3>4 DEF Agree, k
    <3> QED
      BY <3>5
  <2>3. Body(p, t, e) = Body(p, T, e)
    <3>1. Agree(p, t, T, r)
      <4> HIDE DEF t, T, r
      <4> QED
        BY <2>2 DEF Agree
    <3>2. FitBelow(p, t, r)
      <4>1. Solves(p, t, r + 1) /\ \A d \in Dom(p) : Rank(p, d) \in Nat
        BY <1>1, <2>1 DEF LooksDown
      <4> HIDE DEF t
      <4>2. FitBelow(p, t, r + 1)
        BY <2>1, <4>1, SolutionFits
      <4> QED
        BY <2>1, <4>1, <4>2 DEF FitBelow
    <3> HIDE DEF t, T
    <3> QED
      BY <3>1, <3>2 DEF LooksDown
  <2>4. t[e] = Body(p, t, e)
    <3>1. Solves(p, t, r + 1)
      BY <1>1, <2>1
    <3> HIDE DEF t
    <3> QED
      BY <2>1, <3>1 DEF Solves
  <2> QED
    BY <2>3, <2>4
<1>3. T = [e \in Dom(p) |-> Body(p, T, e)]
  <2> DEFINE B == [e \in Dom(p) |-> Body(p, T, e)]
  <2>1. \A e \in Dom(p) : T[e] = B[e]
    BY <1>2
  <2>2. T = B
    BY <2>1
  <2> QED
    BY <2>2
<1> DEFINE D == Defined(p)
<1>4. D = [e \in Dom(p) |-> Body(p, D, e)]
  <2> HIDE DEF T
  <2> QED
    BY <1>3 DEF Defined
<1> HIDE DEF D
<1>5. ASSUME NEW e \in Dom(p)
      PROVE  Fit(p, e, D[e])
  <2>1. Rank(p, e) \in Nat /\ Rank(p, e) + 1 \in Nat /\ Rank(p, e) < Rank(p, e) + 1
    BY DEF LooksDown
  <2>2. Solves(p, D, Rank(p, e) + 1)
    <3>1. \A d \in Dom(p) : D[d] = Body(p, D, d)
      BY <1>4
    <3> QED
      BY <3>1 DEF Solves
  <2>3. FitBelow(p, D, Rank(p, e) + 1)
    BY <2>1, <2>2, SolutionFits
  <2> QED
    BY <2>1, <2>3 DEF FitBelow
<1> QED
  BY <1>4, <1>5 DEF D
=============================================================================
