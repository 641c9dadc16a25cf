---------------------------- MODULE SyntaxProofs ----------------------------
(***************************************************************************)
(* Lemmas about stacks kept as sequences, the nesting of a body, its loops *)
(* and expressions, shared by the proofs about Sema and CodeGen.           *)
(***************************************************************************)
EXTENDS Syntax, SequenceTheorems, FiniteSetTheorems, WellFoundedInduction, TLAPS

(* IsSeq is being a sequence, whatever of *)
LEMMA SeqOfAnything ==
  ASSUME NEW S, NEW s \in Seq(S)
  PROVE  IsSeq(s)
<1>1. s \in [1 .. Len(s) -> S] /\ Len(s) \in Nat /\ DOMAIN s = 1 .. Len(s)
  BY LenProperties
<1>2. s \in [1 .. Len(s) -> Range(s)]
  BY <1>1 DEF Range
<1> QED
  BY <1>1, <1>2, SeqDef DEF IsSeq

LEMMA SeqBasics ==
  ASSUME NEW s, IsSeq(s)
  PROVE  /\ Len(s) \in Nat
         /\ DOMAIN s = 1 .. Len(s)
         /\ s = << >> <=> Len(s) = 0
<1> DEFINE R == Range(s)
<1>1. s \in Seq(R)
  BY DEF IsSeq
<1>2. Len(s) \in Nat /\ DOMAIN s = 1 .. Len(s)
  BY <1>1, LenProperties
<1>3. s # << >> => Len(s) \in Nat \ {0}
  BY <1>1, EmptySeq
<1>4. s = << >> => Len(s) = 0
  BY EmptySeq
<1> QED
  BY <1>2, <1>3, <1>4

(* a stack's push *)
LEMMA StackPush ==
  ASSUME NEW s, IsSeq(s), NEW v
  PROVE  /\ IsSeq(Append(s, v))
         /\ Len(Append(s, v)) = Len(s) + 1
         /\ \A i \in 1 .. Len(s) : Append(s, v)[i] = s[i]
         /\ Append(s, v)[Len(s) + 1] = v
<1> DEFINE R == Range(s) \cup {v}
<1>1. s \in Seq(R)
  BY SeqMonotonic DEF IsSeq
<1>2. v \in R
  OBVIOUS
<1> HIDE DEF R
<1>3. /\ Append(s, v) \in Seq(R)
      /\ Len(Append(s, v)) = Len(s) + 1
      /\ \A i \in 1 .. Len(s) : Append(s, v)[i] = s[i]
      /\ Append(s, v)[Len(s) + 1] = v
  BY <1>1, <1>2, AppendProperties
<1>4. IsSeq(Append(s, v))
  BY <1>3, SeqOfAnything
<1> QED
  BY <1>3, <1>4

(* a stack's pop *)
LEMMA StackPop ==
  ASSUME NEW s, IsSeq(s), s # << >>
  PROVE  /\ IsSeq(Front(s))
         /\ Len(Front(s)) = Len(s) - 1
         /\ \A i \in 1 .. Len(s) - 1 : Front(s)[i] = s[i]
<1> DEFINE R == Range(s)
<1>1. s \in Seq(R)
  BY DEF IsSeq
<1> HIDE DEF R
<1>2. Len(s) \in Nat \ {0}
  BY <1>1, EmptySeq
<1>3. \A i \in 1 .. Len(s) - 1 : s[i] \in R
  BY <1>1, <1>2, ElementOfSeq
<1>4. /\ Front(s) \in Seq(R)
      /\ Len(Front(s)) = Len(s) - 1
      /\ \A i \in 1 .. Len(s) - 1 : Front(s)[i] = s[i]
  <2>1. /\ SubSeq(s, 1, Len(s) - 1) \in Seq(R)
        /\ Len(SubSeq(s, 1, Len(s) - 1)) = IF 1 <= Len(s) - 1 THEN Len(s) - 1 - 1 + 1 ELSE 0
        /\ \A i \in 1 .. Len(s) - 1 - 1 + 1 : SubSeq(s, 1, Len(s) - 1)[i] = s[1 + i - 1]
    BY <1>2, <1>3, SubSeqProperties
  <2>2. Front(s) = SubSeq(s, 1, Len(s) - 1)
    BY DEF Front
  <2>3. \A n \in Nat \ {0} :
          /\ (IF 1 <= n - 1 THEN n - 1 - 1 + 1 ELSE 0) = n - 1
          /\ n - 1 - 1 + 1 = n - 1
          /\ \A i \in 1 .. n - 1 : 1 + i - 1 = i
    OBVIOUS
  <2> QED
    BY <1>2, <2>1, <2>2, <2>3
<1>5. IsSeq(Front(s))
  BY <1>4, SeqOfAnything
<1> QED
  BY <1>4, <1>5

(* replacing an entry of a stack *)
LEMMA StackSet ==
  ASSUME NEW s, IsSeq(s), NEW i \in 1 .. Len(s), NEW v
  PROVE  /\ IsSeq([s EXCEPT ![i] = v])
         /\ Len([s EXCEPT ![i] = v]) = Len(s)
         /\ \A j \in 1 .. Len(s) : [s EXCEPT ![i] = v][j] = IF j = i THEN v ELSE s[j]
<1> DEFINE R == Range(s) \cup {v}
<1>1. s \in Seq(R)
  BY SeqMonotonic DEF IsSeq
<1>2. v \in R
  OBVIOUS
<1> HIDE DEF R
<1>3. /\ [s EXCEPT ![i] = v] \in Seq(R)
      /\ Len([s EXCEPT ![i] = v]) = Len(s)
      /\ \A j \in 1 .. Len(s) : [s EXCEPT ![i] = v][j] = IF j = i THEN v ELSE s[j]
  BY <1>1, <1>2, ExceptSeq
<1>4. IsSeq([s EXCEPT ![i] = v])
  BY <1>3, SeqOfAnything
<1> QED
  BY <1>3, <1>4

LEMMA EmptyStack == IsSeq(<< >>) /\ Len(<< >>) = 0
  BY EmptySeq, SeqOfAnything

LEMMA OneEntryStack ==
  ASSUME NEW v
  PROVE  IsSeq(<<v>>) /\ Len(<<v>>) = 1 /\ <<v>>[1] = v
<1>1. <<v>> \in Seq({v}) /\ Len(<<v>>) = 1 /\ <<v>>[1] = v
  OBVIOUS
<1> QED
  BY <1>1, SeqOfAnything

(* one sequence after another *)
LEMMA Concatenation ==
  ASSUME NEW s, IsSeq(s), NEW t, IsSeq(t)
  PROVE  IsSeq(s \o t) /\ Len(s \o t) = Len(s) + Len(t)
<1> DEFINE R == Range(s) \cup Range(t)
<1>1. s \in Seq(R) /\ t \in Seq(R)
  BY SeqMonotonic DEF IsSeq
<1> HIDE DEF R
<1>2. s \o t \in Seq(R) /\ Len(s \o t) = Len(s) + Len(t)
  BY <1>1, ConcatProperties
<1> QED
  BY <1>2, SeqOfAnything

LEMMA ThreeEntries ==
  ASSUME NEW a, NEW b, NEW c
  PROVE  IsSeq(<<a, b, c>>) /\ Len(<<a, b, c>>) = 3
<1>1. <<a, b, c>> \in Seq({a, b, c}) /\ Len(<<a, b, c>>) = 3
  OBVIOUS
<1> QED
  BY <1>1, SeqOfAnything

-----------------------------------------------------------------------------
LEMMA BeforeFirst ==
  ASSUME NEW body, NEW kinds
  PROVE  Before(body, 1, kinds) = {}
  BY DEF Before

LEMMA BeforeFinite ==
  ASSUME NEW body, NEW p \in Int, NEW kinds
  PROVE  IsFiniteSet(Before(body, p, kinds))
<1>1. IsFiniteSet(1 .. p-1)
  BY FS_Interval
<1>2. Before(body, p, kinds) \subseteq 1 .. p-1
  BY DEF Before
<1> QED
  BY <1>1, <1>2, FS_Subset

(* one node more *)
LEMMA BeforeNext ==
  ASSUME NEW body, IsSeq(body), NEW p \in 1 .. Len(body), NEW kinds
  PROVE  Cardinality(Before(body, p + 1, kinds)) =
           Cardinality(Before(body, p, kinds)) + IF body[p].k \in kinds THEN 1 ELSE 0
<1>0. Len(body) \in Nat
  BY SeqBasics
<1> DEFINE B == Before(body, p, kinds)
<1>1. IsFiniteSet(B) /\ Cardinality(B) \in Nat
  BY BeforeFinite, FS_CardinalityType
<1>2. CASE body[p].k \in kinds
  <2>1. Before(body, p + 1, kinds) = B \cup {p} /\ p \notin B
    BY <1>0, <1>2 DEF Before
  <2> HIDE DEF B
  <2>2. Cardinality(B \cup {p}) = Cardinality(B) + 1
    BY <1>1, <2>1, FS_AddElement
  <2> QED
    BY <1>2, <2>1, <2>2 DEF B
<1>3. CASE body[p].k \notin kinds
  <2>1. Before(body, p + 1, kinds) = B
    BY <1>0, <1>3 DEF Before
  <2> QED
    BY <1>1, <1>3, <2>1
<1> QED
  BY <1>2, <1>3

LEMMA DepthAtStart ==
  ASSUME NEW body
  PROVE  LoopDepth(body, 1) = 0 /\ BlockDepth(body, 1) = 0
  BY BeforeFirst, FS_EmptySet DEF LoopDepth, BlockDepth

LEMMA DepthType ==
  ASSUME NEW body, NEW p \in Int
  PROVE  LoopDepth(body, p) \in Int /\ BlockDepth(body, p) \in Int
<1>1. \A kinds : Cardinality(Before(body, p, kinds)) \in Nat
  BY BeforeFinite, FS_CardinalityType
<1> QED
  BY <1>1 DEF LoopDepth, BlockDepth

(* How a node changes the depth of what follows it.                        *)
LEMMA DepthNext ==
  ASSUME NEW body, IsSeq(body), NEW p \in 1 .. Len(body)
  PROVE  /\ LoopDepth(body, p + 1) = LoopDepth(body, p)
              + IF body[p].k = "while" THEN 1 ELSE IF body[p].k = "endwhile" THEN -1 ELSE 0
         /\ BlockDepth(body, p + 1) = BlockDepth(body, p)
              + IF body[p].k \in {"if", "while"} THEN 1
                ELSE IF body[p].k \in {"endif", "endwhile"} THEN -1 ELSE 0
<1>0. p \in Int /\ p + 1 \in Int
  BY SeqBasics
<1>1. \A kinds : /\ Cardinality(Before(body, p, kinds)) \in Nat
                 /\ Cardinality(Before(body, p + 1, kinds)) \in Nat
  BY <1>0, BeforeFinite, FS_CardinalityType
<1>2. \A kinds : Cardinality(Before(body, p + 1, kinds)) =
           Cardinality(Before(body, p, kinds)) + IF body[p].k \in kinds THEN 1 ELSE 0
  BY BeforeNext
<1>3. LoopDepth(body, p + 1) = LoopDepth(body, p)
        + IF body[p].k = "while" THEN 1 ELSE IF body[p].k = "endwhile" THEN -1 ELSE 0
  <2> DEFINE W(q) == Cardinality(Before(body, q, {"while"}))
             E(q) == Cardinality(Before(body, q, {"endwhile"}))
  <2>1. /\ W(p + 1) = W(p) + IF body[p].k = "while" THEN 1 ELSE 0
        /\ E(p + 1) = E(p) + IF body[p].k = "endwhile" THEN 1 ELSE 0
        /\ W(p) \in Nat /\ E(p) \in Nat
    BY <1>1, <1>2
  <2>2. LoopDepth(body, p) = W(p) - E(p) /\ LoopDepth(body, p + 1) = W(p + 1) - E(p + 1)
    BY DEF LoopDepth
  <2> HIDE DEF W, E
  <2> QED
    BY <2>1, <2>2
<1>4. BlockDepth(body, p + 1) = BlockDepth(body, p)
        + IF body[p].k \in {"if", "while"} THEN 1
          ELSE IF body[p].k \in {"endif", "endwhile"} THEN -1 ELSE 0
  <2> DEFINE O(q) == Cardinality(Before(body, q, {"if", "while"}))
             C(q) == Cardinality(Before(body, q, {"endif", "endwhile"}))
  <2>1. /\ O(p + 1) = O(p) + IF body[p].k \in {"if", "while"} THEN 1 ELSE 0
        /\ C(p + 1) = C(p) + IF body[p].k \in {"endif", "endwhile"} THEN 1 ELSE 0
        /\ O(p) \in Nat /\ C(p) \in Nat
    BY <1>1, <1>2
  <2>2. BlockDepth(body, p) = O(p) - C(p) /\ BlockDepth(body, p + 1) = O(p + 1) - C(p + 1)
    BY DEF BlockDepth
  <2> HIDE DEF O, C
  <2> QED
    BY <2>1, <2>2
<1> QED
  BY <1>3, <1>4

-----------------------------------------------------------------------------
(* the least and the greatest of some numbers *)
LEMMA LeastNumber ==
  ASSUME NEW S \in SUBSET Nat, S # {}
  PROVE  Min(S) \in S /\ \A n \in S : Min(S) <= n
<1> DEFINE Less == {ns \in Nat \X Nat : ns[1] < ns[2]}
<1>1. IsWellFoundedOn(Less, Nat)
  BY NatLessThanWellFounded DEF OpToRel
<1>4. \A a, b \in Nat : a < b => <<a, b>> \in Less
  OBVIOUS
<1> HIDE DEF Less
<1>2. PICK m \in S : \A n \in S : ~(<<n, m>> \in Less)
  BY <1>1, WFMin
<1>3. \A n \in S : m <= n
  <2> SUFFICES ASSUME NEW n \in S PROVE m <= n
    OBVIOUS
  <2>1. m \in Nat /\ n \in Nat /\ ~(n < m)
    BY <1>2, <1>4
  <2> QED
    BY <2>1
<1> QED
  BY <1>3 DEF Min

LEMMA GreatestNumber ==
  ASSUME NEW k \in Nat, NEW S \in SUBSET (0 .. k), S # {}
  PROVE  Max(S) \in S /\ \A n \in S : n <= Max(S)
<1> DEFINE R == {k - n : n \in S}
<1>1. R \in SUBSET Nat /\ R # {}
  OBVIOUS
<1> HIDE DEF R
<1>2. PICK r \in R : \A n \in R : r <= n
  BY <1>1, LeastNumber
<1>3. PICK m \in S : r = k - m
  BY <1>2 DEF R
<1>4. \A n \in S : n <= m
  <2> SUFFICES ASSUME NEW n \in S PROVE n <= m
    OBVIOUS
  <2>1. k - m <= k - n
    BY <1>2, <1>3 DEF R
  <2> QED
    BY <2>1
<1>5. \E x \in S : \A y \in S : x >= y
  BY <1>4
<1>6. Max(S) \in S /\ \A n \in S : Max(S) >= n
  BY <1>5 DEF Max
<1> QED
  BY <1>6

(* the site of a parameter is negative *)
LEMMA ParamSites ==
  ASSUME NEW params, IsSeq(params), NEW x
  PROVE  /\ ParamSite(params, x) \in Int
         /\ ParamSite(params, x) <= 0
         /\ ParamSite(params, x) # NoSite <=> \E k \in DOMAIN params : params[k].x = x
<1> DEFINE ks == {k \in 1 .. Len(params) : params[k].x = x}
<1>1. DOMAIN params = 1 .. Len(params) /\ Len(params) \in Nat
  BY SeqBasics
<1>2. CASE ks = {}
  BY <1>1, <1>2 DEF ParamSite, NoSite
<1>3. CASE ks # {}
  <2>1. ks \in SUBSET Nat
    BY <1>1
  <2>2. Min(ks) \in ks
    <3> HIDE DEF ks
    <3> QED
      BY <1>3, <2>1, LeastNumber
  <2>3. Min(ks) \in Nat /\ Min(ks) > 0
    BY <1>1, <2>2
  <2>4. ParamSite(params, x) = -Min(ks)
    BY <1>3 DEF ParamSite
  <2> QED
    BY <1>1, <2>2, <2>3, <2>4 DEF NoSite
<1> QED
  BY <1>2, <1>3

-----------------------------------------------------------------------------
(* Sequences, and what flattening makes of them.                           *)

(* when the equation is all that is asked of a recursive function          *)
Anything(p, e, v) == TRUE

(* The recursion in FlattenSeq, over the positions of a sequence.          *)
FlatDom(p) == 1 .. Len(p)
FlatRank(p, i) == i
FlatBody(p, f, i) == IF i = 1 THEN p[i] ELSE f[i-1] \o p[i]
Flat == INSTANCE Recursion WITH Dom <- FlatDom, Rank <- FlatRank, Body <- FlatBody, Fit <- Anything

LEMMA RangeOf ==
  ASSUME NEW s, IsSeq(s)
  PROVE  /\ \A v : v \in Range(s) <=> \E i \in 1 .. Len(s) : s[i] = v
         /\ \A i \in 1 .. Len(s) : s[i] \in Range(s)
  BY SeqBasics DEF Range

LEMMA RangeOfConcatenation ==
  ASSUME NEW s, IsSeq(s), NEW t, IsSeq(t)
  PROVE  IsSeq(s \o t) /\ Range(s \o t) = Range(s) \cup Range(t)
<1> DEFINE R == Range(s) \cup Range(t)
<1>1. s \in Seq(R) /\ t \in Seq(R)
  BY SeqMonotonic DEF IsSeq
<1> HIDE DEF R
<1>2. s \o t \in Seq(R)
  BY <1>1
<1>3. IsSeq(s \o t)
  BY <1>2, SeqOfAnything
<1>4. /\ Len(s \o t) = Len(s) + Len(t)
      /\ \A i \in 1 .. Len(s) + Len(t) : (s \o t)[i] = IF i <= Len(s) THEN s[i] ELSE t[i - Len(s)]
  BY <1>1, ConcatProperties
<1>5. Len(s) \in Nat /\ Len(t) \in Nat
  BY SeqBasics
<1>6. ASSUME NEW v \in Range(s \o t) PROVE v \in Range(s) \cup Range(t)
  <2>1. PICK i \in 1 .. Len(s) + Len(t) : (s \o t)[i] = v
    BY <1>3, <1>4, RangeOf
  <2>2. CASE i <= Len(s)
    BY <1>4, <1>5, <2>1, <2>2, RangeOf
  <2>3. CASE ~(i <= Len(s))
    <3>1. i - Len(s) \in 1 .. Len(t)
      BY <1>5, <2>3
    <3> QED
      BY <1>4, <2>1, <2>3, <3>1, RangeOf
  <2> QED
    BY <2>2, <2>3
<1>7. ASSUME NEW v \in Range(s) PROVE v \in Range(s \o t)
  <2>1. PICK i \in 1 .. Len(s) : s[i] = v
    BY RangeOf
  <2>2. i \in 1 .. Len(s) + Len(t) /\ i <= Len(s)
    BY <1>5
  <2> QED
    BY <1>3, <1>4, <2>1, <2>2, RangeOf
<1>8. ASSUME NEW v \in Range(t) PROVE v \in Range(s \o t)
  <2>1. PICK i \in 1 .. Len(t) : t[i] = v
    BY RangeOf
  <2>2. i + Len(s) \in 1 .. Len(s) + Len(t) /\ ~(i + Len(s) <= Len(s)) /\ (i + Len(s)) - Len(s) = i
    BY <1>5
  <2> QED
    BY <1>3, <1>4, <2>1, <2>2, RangeOf
<1> QED
  BY <1>3, <1>6, <1>7, <1>8

LEMMA RangeOfOne ==
  ASSUME NEW v
  PROVE  IsSeq(<<v>>) /\ Range(<<v>>) = {v}
<1>1. IsSeq(<<v>>) /\ Len(<<v>>) = 1 /\ <<v>>[1] = v
  BY OneEntryStack
<1> DEFINE s == <<v>>
<1> HIDE DEF s
<1>2. \A u : u \in Range(s) <=> \E i \in 1 .. 1 : s[i] = u
  BY <1>1, RangeOf DEF s
<1>3. \A u : u \in Range(s) <=> u = v
  BY <1>1, <1>2 DEF s
<1> QED
  BY <1>1, <1>3 DEF s

LEMMA RangeOfTwo ==
  ASSUME NEW u, NEW v
  PROVE  IsSeq(<<u, v>>) /\ Range(<<u, v>>) = {u, v} /\ Len(<<u, v>>) = 2
<1>1. <<u, v>> \in Seq({u, v}) /\ Len(<<u, v>>) = 2 /\ <<u, v>>[1] = u /\ <<u, v>>[2] = v
  OBVIOUS
<1> DEFINE s == <<u, v>>
<1> HIDE DEF s
<1>2. IsSeq(s)
  BY <1>1, SeqOfAnything DEF s
<1>3. \A w : w \in Range(s) <=> \E i \in 1 .. 2 : s[i] = w
  BY <1>1, <1>2, RangeOf DEF s
<1>4. \A w : w \in Range(s) <=> w \in {u, v}
  BY <1>1, <1>3 DEF s
<1> QED
  BY <1>1, <1>2, <1>4 DEF s

LEMMA RangeOfNothing == IsSeq(<< >>) /\ Range(<< >>) = {}
<1> DEFINE s == << >>
<1>1. IsSeq(s) /\ Len(s) = 0
  BY EmptyStack
<1> HIDE DEF s
<1> QED
  BY <1>1, RangeOf DEF s

(* the first k sequences of ss, flattened *)
Flattened(ss, k) == IF k = 0 THEN << >> ELSE Flat!Defined(ss)[k]

LEMMA ConcatEmpty ==
  ASSUME NEW s, IsSeq(s)
  PROVE  s \o << >> = s /\ << >> \o s = s
<1>1. s \in Seq(Range(s))
  BY DEF IsSeq
<1> QED
  BY <1>1, ConcatEmptySeq

LEMMA ConcatTwice ==
  ASSUME NEW s, IsSeq(s), NEW t, IsSeq(t), NEW u, IsSeq(u)
  PROVE  (s \o t) \o u = s \o (t \o u)
<1> DEFINE R == Range(s) \cup Range(t) \cup Range(u)
<1>1. s \in Seq(R) /\ t \in Seq(R) /\ u \in Seq(R)
  BY SeqMonotonic DEF IsSeq
<1> HIDE DEF R
<1> QED
  BY <1>1, ConcatAssociative

LEMMA FlattenedIs ==
  ASSUME NEW ss, IsSeq(ss), \A k \in 1 .. Len(ss) : IsSeq(ss[k])
  PROVE  /\ FlattenSeq(ss) = Flattened(ss, Len(ss))
         /\ Flattened(ss, 0) = << >>
         /\ \A k \in 1 .. Len(ss) : Flattened(ss, k) = Flattened(ss, k-1) \o ss[k]
<1>1. Len(ss) \in Nat
  BY SeqBasics
<1> DEFINE f == Flat!Defined(ss)
<1>2. Flat!LooksDown(ss)
  <2>1. ASSUME NEW i \in 1 .. Len(ss), NEW t, NEW u, Flat!Agree(ss, t, u, i)
        PROVE  FlatBody(ss, t, i) = FlatBody(ss, u, i)
    <3>1. CASE i = 1
      BY <3>1 DEF FlatBody
    <3>2. CASE i # 1
      <4>1. i - 1 \in 1 .. Len(ss) /\ i - 1 < i
        BY <1>1, <3>2
      <4>2. t[i-1] = u[i-1]
        BY <2>1, <4>1 DEF Flat!Agree, FlatDom, FlatRank
      <4> QED
        BY <4>2 DEF FlatBody
    <3> QED
      BY <3>1, <3>2
  <2> QED
    BY <1>1, <2>1 DEF Flat!LooksDown, FlatDom, FlatRank, Anything
<1>3. f = [i \in FlatDom(ss) |-> FlatBody(ss, f, i)]
  BY <1>2, Flat!Unfolding
<1>4. FlattenSeq(ss) = Flattened(ss, Len(ss))
  <2>1. CASE Len(ss) = 0
    BY <2>1, SeqBasics DEF FlattenSeq, Flattened
  <2>2. CASE Len(ss) # 0
    <3>1. FlattenSeq(ss) = f[Len(ss)]
      BY <2>2 DEF FlattenSeq, Flat!Defined, FlatDom, FlatBody
    <3> QED
      BY <2>2, <3>1 DEF Flattened
  <2> QED
    BY <2>1, <2>2
<1>5. \A k : Flattened(ss, k) = IF k = 0 THEN << >> ELSE f[k]
  BY DEF Flattened
<1> HIDE DEF f
<1>6. \A i \in 1 .. Len(ss) : f[i] = IF i = 1 THEN ss[i] ELSE f[i-1] \o ss[i]
  <2> DEFINE g == [i \in FlatDom(ss) |-> FlatBody(ss, f, i)]
  <2>1. \A i \in 1 .. Len(ss) : g[i] = IF i = 1 THEN ss[i] ELSE f[i-1] \o ss[i]
    BY DEF FlatDom, FlatBody
  <2> HIDE DEF g
  <2>2. f = g
    BY <1>3 DEF g
  <2> QED
    BY <2>1, <2>2
<1>7. ASSUME NEW k \in 1 .. Len(ss)
      PROVE  Flattened(ss, k) = Flattened(ss, k-1) \o ss[k]
  <2>1. CASE k = 1
    <3>1. << >> \o ss[k] = ss[k]
      BY ConcatEmpty
    <3>2. Flattened(ss, k-1) = << >>
      <4>1. k - 1 = 0
        BY <2>1
      <4> QED
        BY <1>5, <4>1
    <3>3. Flattened(ss, k) = ss[k]
      BY <1>5, <1>6, <2>1
    <3> QED
      BY <3>1, <3>2, <3>3
  <2>2. CASE k # 1
    <3>1. k - 1 # 0 /\ k # 0
      BY <1>1, <2>2
    <3> QED
      BY <1>5, <1>6, <2>2, <3>1
  <2> QED
    BY <2>1, <2>2
<1>8. Flattened(ss, 0) = << >>
  BY <1>5
<1> QED
  BY <1>4, <1>7, <1>8

(* Whatever grows by ss, one sequence after another, is ss flattened.      *)
LEMMA FlattenedGrows ==
  ASSUME NEW ss, IsSeq(ss), \A k \in 1 .. Len(ss) : IsSeq(ss[k]),
         NEW g, g[0] = << >>, \A k \in 1 .. Len(ss) : g[k] = g[k-1] \o ss[k]
  PROVE  FlattenSeq(ss) = g[Len(ss)] /\ \A k \in 0 .. Len(ss) : g[k] = Flattened(ss, k) /\ IsSeq(g[k])
<1>1. Len(ss) \in Nat
  BY SeqBasics
<1> DEFINE S == {n \in Nat : n <= Len(ss) => g[n] = Flattened(ss, n) /\ IsSeq(g[n])}
<1>2. ASSUME NEW n \in Nat, \A m \in Nat : m < n => m \in S
      PROVE  n \in S
  <2> SUFFICES ASSUME n <= Len(ss) PROVE g[n] = Flattened(ss, n) /\ IsSeq(g[n])
    OBVIOUS
  <2>1. CASE n = 0
    BY <2>1, FlattenedIs, EmptyStack
  <2>2. CASE n # 0
    <3>1. n - 1 \in Nat /\ n - 1 < n /\ n - 1 <= Len(ss) /\ n \in 1 .. Len(ss)
      BY <1>1, <2>2
    <3>2. g[n-1] = Flattened(ss, n-1) /\ IsSeq(g[n-1])
      BY <1>2, <3>1
    <3>3. g[n] = g[n-1] \o ss[n] /\ Flattened(ss, n) = Flattened(ss, n-1) \o ss[n] /\ IsSeq(ss[n])
      BY <3>1, FlattenedIs
    <3> QED
      BY <3>2, <3>3, Concatenation
  <2> QED
    BY <2>1, <2>2
<1>3. S = Nat
  <2>1. S \in SUBSET Nat
    OBVIOUS
  <2> HIDE DEF S
  <2> QED
    BY <1>2, <2>1, Flat!Induction
<1>4. ASSUME NEW k \in 0 .. Len(ss) PROVE g[k] = Flattened(ss, k) /\ IsSeq(g[k])
  <2>1. k \in S /\ k <= Len(ss)
    BY <1>1, <1>3
  <2> QED
    BY <2>1
<1>5. Len(ss) \in 0 .. Len(ss)
  BY <1>1
<1>6. g[Len(ss)] = Flattened(ss, Len(ss))
  BY <1>4, <1>5
<1> QED
  BY <1>4, <1>6, FlattenedIs

LEMMA FlattenedSeqs ==
  ASSUME NEW ss, IsSeq(ss), \A k \in 1 .. Len(ss) : IsSeq(ss[k])
  PROVE  IsSeq(FlattenSeq(ss)) /\ \A k \in 0 .. Len(ss) : IsSeq(Flattened(ss, k))
<1> DEFINE g == [k \in 0 .. Len(ss) |-> Flattened(ss, k)]
<1>1. Len(ss) \in Nat
  BY SeqBasics
<1>2. g[0] = << >> /\ \A k \in 1 .. Len(ss) : g[k] = g[k-1] \o ss[k]
  <2>1. g[0] = << >>
    <3>1. 0 \in 0 .. Len(ss)
      BY <1>1
    <3> QED
      BY <3>1, FlattenedIs
  <2>2. ASSUME NEW k \in 1 .. Len(ss) PROVE g[k] = g[k-1] \o ss[k]
    <3>1. k \in 0 .. Len(ss) /\ k - 1 \in 0 .. Len(ss)
      BY <1>1
    <3> QED
      BY <3>1, FlattenedIs
  <2> QED
    BY <2>1, <2>2
<1> HIDE DEF g
<1>3. \A k \in 0 .. Len(ss) : g[k] = Flattened(ss, k) /\ IsSeq(g[k])
  BY <1>2, FlattenedGrows
<1>4. Len(ss) \in 0 .. Len(ss)
  BY <1>1
<1> QED
  BY <1>3, <1>4, FlattenedIs

(* Flattening sequences one of which alone is not empty gives that one.    *)
LEMMA FlattenOne ==
  ASSUME NEW ss, IsSeq(ss), NEW b \in 1 .. Len(ss), NEW m, IsSeq(m),
         \A k \in 1 .. Len(ss) : ss[k] = IF k = b THEN m ELSE << >>
  PROVE  FlattenSeq(ss) = m
<1> DEFINE g == [k \in 0 .. Len(ss) |-> IF k < b THEN << >> ELSE m]
<1>1. Len(ss) \in Nat
  BY SeqBasics
<1>2. \A k \in 1 .. Len(ss) : IsSeq(ss[k])
  BY EmptyStack
<1>3. g[0] = << >>
  BY <1>1
<1>4. ASSUME NEW k \in 1 .. Len(ss) PROVE g[k] = g[k-1] \o ss[k]
  <2>1. /\ g[k] = IF k < b THEN << >> ELSE m
        /\ g[k-1] = IF k-1 < b THEN << >> ELSE m
    BY <1>1
  <2> HIDE DEF g
  <2>2. m \o << >> = m /\ << >> \o m = m /\ << >> \o << >> = << >>
    BY ConcatEmpty, EmptyStack
  <2>3. CASE k < b
    <3>1. k - 1 < b /\ k # b
      BY <2>3
    <3> QED
      BY <2>1, <2>2, <2>3, <3>1
  <2>4. CASE k = b
    <3>1. k - 1 < b /\ ~(k < b)
      BY <2>4
    <3> QED
      BY <2>1, <2>2, <2>4, <3>1
  <2>5. CASE k > b
    <3>1. ~(k - 1 < b) /\ ~(k < b) /\ k # b
      BY <2>5
    <3> QED
      BY <2>1, <2>2, <3>1
  <2>6. k < b \/ k = b \/ k > b
    BY <1>1
  <2> QED
    BY <2>3, <2>4, <2>5, <2>6
<1>5. Len(ss) \in 0 .. Len(ss) /\ ~(Len(ss) < b)
  BY <1>1
<1>6. g[Len(ss)] = m
  BY <1>5
<1> HIDE DEF g
<1> QED
  BY <1>2, <1>3, <1>4, <1>6, FlattenedGrows

LEMMA FlattenNothing == FlattenSeq(<< >>) = << >>
<1> DEFINE s == << >>
<1>1. IsSeq(s) /\ Len(s) = 0
  BY EmptyStack
<1> HIDE DEF s
<1>2. \A k \in 1 .. Len(s) : IsSeq(s[k])
  BY <1>1
<1>3. FlattenSeq(s) = << >>
  BY <1>1, <1>2, FlattenedIs
<1> QED
  BY <1>3 DEF s

LEMMA FlattenJoined ==
  ASSUME NEW ss, IsSeq(ss), \A k \in 1 .. Len(ss) : IsSeq(ss[k]),
         NEW ts, IsSeq(ts), \A k \in 1 .. Len(ts) : IsSeq(ts[k])
  PROVE  FlattenSeq(ss \o ts) = FlattenSeq(ss) \o FlattenSeq(ts)
<1> DEFINE us == ss \o ts
           l == Len(ss)
           n == Len(ts)
           g == [k \in 0 .. l + n |-> IF k <= l THEN Flattened(ss, k)
                                      ELSE FlattenSeq(ss) \o Flattened(ts, k - l)]
<1>1. l \in Nat /\ n \in Nat
  BY SeqBasics
<1>2. IsSeq(us) /\ Len(us) = l + n /\ \A i \in 1 .. l + n : us[i] = IF i <= l THEN ss[i] ELSE ts[i - l]
  <2> DEFINE R == Range(ss) \cup Range(ts)
  <2>1. ss \in Seq(R) /\ ts \in Seq(R)
    BY SeqMonotonic DEF IsSeq
  <2> HIDE DEF R
  <2> QED
    BY <2>1, ConcatProperties, Concatenation
<1> HIDE DEF us
<1>3. IsSeq(FlattenSeq(ss)) /\ FlattenSeq(ss) \o << >> = FlattenSeq(ss)
      /\ FlattenSeq(ss) = Flattened(ss, l) /\ FlattenSeq(ts) = Flattened(ts, n)
      /\ Flattened(ss, 0) = << >> /\ Flattened(ts, 0) = << >>
      /\ \A k \in 0 .. n : IsSeq(Flattened(ts, k))
  BY FlattenedIs, FlattenedSeqs, ConcatEmpty
<1>9. \A k \in 1 .. l : Flattened(ss, k) = Flattened(ss, k-1) \o ss[k]
  BY FlattenedIs
<1>10. \A k \in 1 .. n : Flattened(ts, k) = Flattened(ts, k-1) \o ts[k]
  BY FlattenedIs
<1>4. ASSUME NEW k \in 1 .. l + n PROVE IsSeq(us[k]) /\ g[k] = g[k-1] \o us[k]
  <2>1. /\ g[k] = IF k <= l THEN Flattened(ss, k) ELSE FlattenSeq(ss) \o Flattened(ts, k - l)
        /\ g[k-1] = IF k-1 <= l THEN Flattened(ss, k-1) ELSE FlattenSeq(ss) \o Flattened(ts, (k-1) - l)
    BY <1>1
  <2> HIDE DEF g
  <2>2. CASE k <= l
    <3>1. k \in 1 .. l /\ k - 1 <= l
      <4> HIDE DEF l, n
      <4> QED
        BY <1>1, <2>2
    <3>2. g[k] = Flattened(ss, k) /\ g[k-1] = Flattened(ss, k-1)
      BY <2>1, <2>2, <3>1
    <3>3. us[k] = ss[k] /\ IsSeq(ss[k])
      BY <1>2, <2>2, <3>1
    <3> QED
      BY <1>9, <3>1, <3>2, <3>3
  <2>3. CASE k > l
    <3>1. k - l \in 1 .. n /\ ~(k <= l) /\ (k - l) - 1 = (k - 1) - l /\ (k - l) - 1 \in 0 .. n
      <4> HIDE DEF l, n
      <4> QED
        BY <1>1, <2>3
    <3> DEFINE j == k - l
    <3>2. us[k] = ts[j] /\ IsSeq(ts[j]) /\ g[k] = FlattenSeq(ss) \o Flattened(ts, j)
      BY <1>2, <2>1, <3>1
    <3>3. g[k-1] = FlattenSeq(ss) \o Flattened(ts, j - 1)
      <4>1. CASE k - 1 <= l
        <5>1. k - 1 = l /\ j - 1 = 0
          BY <1>1, <2>3, <4>1
        <5> QED
          BY <1>3, <2>1, <4>1, <5>1
      <4>2. CASE ~(k - 1 <= l)
        BY <2>1, <3>1, <4>2
      <4> QED
        BY <4>1, <4>2
    <3>4. Flattened(ts, j) = Flattened(ts, j - 1) \o ts[j] /\ IsSeq(Flattened(ts, j - 1))
      <4>2. \A i \in 0 .. n : IsSeq(Flattened(ts, i))
        BY <1>3
      <4>3. j \in 1 .. n /\ j - 1 \in 0 .. n
        BY <3>1
      <4> HIDE DEF j, n
      <4> QED
        BY <1>10, <4>2, <4>3
    <3>5. IsSeq(FlattenSeq(ss))
      BY <1>3
    <3> HIDE DEF j
    <3>6. (FlattenSeq(ss) \o Flattened(ts, j - 1)) \o ts[j] = FlattenSeq(ss) \o (Flattened(ts, j - 1) \o ts[j])
      <4> DEFINE a == FlattenSeq(ss)   b == Flattened(ts, j - 1)   c == ts[j]
      <4>1. IsSeq(a) /\ IsSeq(b) /\ IsSeq(c)
        BY <3>2, <3>4, <3>5
      <4> HIDE DEF a, b, c
      <4>2. (a \o b) \o c = a \o (b \o c)
        BY <4>1, ConcatTwice
      <4> QED
        BY <4>2 DEF a, b, c
    <3> QED
      BY <3>2, <3>3, <3>4, <3>6
  <2>4. k <= l \/ k > l
    <3> HIDE DEF l, n
    <3> QED
      BY <1>1
  <2> QED
    BY <2>2, <2>3, <2>4
<1>5. g[0] = << >>
  BY <1>1, <1>3
<1>6. g[l + n] = FlattenSeq(ss) \o FlattenSeq(ts)
  <2>1. CASE n = 0
    <3>1. l + n = l
      BY <1>1, <2>1
    <3>2. g[l + n] = Flattened(ss, l)
      BY <1>1, <3>1
    <3> QED
      BY <1>3, <2>1, <3>2
  <2>2. CASE n # 0
    <3>1. ~(l + n <= l) /\ (l + n) - l = n /\ l + n \in 0 .. l + n
      BY <1>1, <2>2
    <3>2. g[l + n] = FlattenSeq(ss) \o Flattened(ts, n)
      BY <3>1
    <3> QED
      BY <1>3, <3>2
  <2> QED
    BY <2>1, <2>2
<1> HIDE DEF g
<1>7. FlattenSeq(us) = g[Len(us)]
  BY <1>2, <1>4, <1>5, FlattenedGrows
<1> QED
  BY <1>2, <1>6, <1>7 DEF us
(* Flattening makes a sequence of the elements of the sequences.           *)
LEMMA Flattening ==
  ASSUME NEW ss, IsSeq(ss), \A k \in 1 .. Len(ss) : IsSeq(ss[k])
  PROVE  /\ IsSeq(FlattenSeq(ss))
         /\ \A v \in Range(FlattenSeq(ss)) : \E k \in 1 .. Len(ss) : v \in Range(ss[k])
<1> DEFINE f(n) == Flattened(ss, n)
           Good(n) == \A v \in Range(f(n)) : \E k \in 1 .. Len(ss) : v \in Range(ss[k])
           S == {n \in Nat : n <= Len(ss) => Good(n)}
<1>1. Len(ss) \in Nat
  BY SeqBasics
<1>2. ASSUME NEW n \in Nat, \A m \in Nat : m < n => m \in S
      PROVE  n \in S
  <2> SUFFICES ASSUME n <= Len(ss) PROVE Good(n)
    OBVIOUS
  <2>1. CASE n = 0
    BY <2>1, FlattenedIs, RangeOfNothing
  <2>2. CASE n # 0
    <3>1. n - 1 \in Nat /\ n - 1 < n /\ n - 1 <= Len(ss) /\ n \in 1 .. Len(ss) /\ n - 1 \in 0 .. Len(ss)
      BY <1>1, <2>2
    <3>2. Good(n - 1)
      BY <1>2, <3>1
    <3>3. f(n) = f(n - 1) \o ss[n] /\ IsSeq(f(n - 1)) /\ IsSeq(ss[n])
      BY <3>1, FlattenedIs, FlattenedSeqs
    <3>4. Range(f(n)) = Range(f(n - 1)) \cup Range(ss[n])
      BY <3>3, RangeOfConcatenation
    <3> QED
      BY <3>1, <3>2, <3>4
  <2> QED
    BY <2>1, <2>2
<1>3. S = Nat
  <2>1. S \in SUBSET Nat
    OBVIOUS
  <2> HIDE DEF S
  <2> QED
    BY <1>2, <2>1, Flat!Induction
<1>4. Good(Len(ss))
  BY <1>1, <1>3
<1> QED
  BY <1>4, FlattenedIs, FlattenedSeqs

LEMMA Mapped ==
  ASSUME NEW vs, IsSeq(vs), NEW m, m = [i \in DOMAIN vs |-> m[i]]
  PROVE  IsSeq(m) /\ Len(m) = Len(vs)
<1>1. DOMAIN vs = 1 .. Len(vs) /\ Len(vs) \in Nat
  BY SeqBasics
<1>2. m \in [1 .. Len(vs) -> Range(m)]
  BY <1>1 DEF Range
<1>3. m \in Seq(Range(m)) /\ Len(m) = Len(vs)
  BY <1>1, <1>2
<1> QED
  BY <1>3 DEF IsSeq

-----------------------------------------------------------------------------
(* The loops around a position.                                            *)

OpenLoops(body, p) ==
  {w \in 1 .. p-1 : body[w].k = "while" /\ \A q \in w+1 .. p-1 : ~EndsList(body, w+1, q)}

(* LoopDepth numbers the open loops from the outside in.                   *)
LoopsNest(body, p) ==
  LET D(q) == LoopDepth(body, q)
  IN  /\ \A w \in OpenLoops(body, p) :
           /\ D(w) \in 0 .. D(p) - 1
           /\ \A q \in w+1 .. p : BlockDepth(body, q) > BlockDepth(body, w)
      /\ \A w, v \in OpenLoops(body, p) : w < v => D(w) < D(v)
      /\ \A k \in 0 .. D(p) - 1 : \E w \in OpenLoops(body, p) : D(w) = k

LEMMA LoopsNestAtStart ==
  ASSUME NEW body
  PROVE  LoopsNest(body, 1)
<1>1. OpenLoops(body, 1) = {}
  BY DEF OpenLoops
<1>2. LoopDepth(body, 1) = 0
  BY DepthAtStart
<1>3. \A k \in 0 .. LoopDepth(body, 1) - 1 : FALSE
  BY <1>2
<1> QED
  BY <1>1, <1>3 DEF LoopsNest

LEMMA OpenLoopsNext ==
  ASSUME NEW body, NEW p \in Nat \ {0}
  PROVE  OpenLoops(body, p + 1) =
           {w \in OpenLoops(body, p) : ~EndsList(body, w+1, p)}
             \cup IF body[p].k = "while" THEN {p} ELSE {}
<1> DEFINE O == {w \in OpenLoops(body, p) : ~EndsList(body, w+1, p)}
                  \cup IF body[p].k = "while" THEN {p} ELSE {}
<1>1. (p + 1) - 1 = p
  OBVIOUS
<1>2. ASSUME NEW w \in 1 .. p
      PROVE  w \in OpenLoops(body, p + 1) <=> w \in O
  <2>1. CASE w = p
    <3>1. \A q \in w+1 .. p : FALSE
      BY <2>1
    <3>2. p \notin OpenLoops(body, p)
      BY DEF OpenLoops
    <3> QED
      BY <1>1, <2>1, <3>1, <3>2 DEF OpenLoops
  <2>2. CASE w # p
    <3>1. w \in 1 .. p-1 /\ (w+1 .. p) = (w+1 .. p-1) \cup {p}
      BY <2>2
    <3> QED
      BY <1>1, <2>2, <3>1 DEF OpenLoops
  <2> QED
    BY <2>1, <2>2
<1>3. OpenLoops(body, p + 1) \subseteq 1 .. p
  BY <1>1 DEF OpenLoops
<1>4. O \subseteq 1 .. p
  BY DEF OpenLoops
<1> HIDE DEF O
<1>5. OpenLoops(body, p + 1) = O
  BY <1>2, <1>3, <1>4
<1> QED
  BY <1>5 DEF O

(* A loop around p that p would close is open at p.                        *)
LEMMA OpenerIsOpen ==
  ASSUME NEW body, IsSeq(body), WellNested(body), NEW p \in 1 .. Len(body), NEW o \in 1 .. p-1,
         BlockFrom(body, o, p), body[o].k = "while"
  PROVE  o \in OpenLoops(body, p)
<1> DEFINE B(q) == BlockDepth(body, q)
<1>1. Len(body) \in Nat /\ p \in Int /\ o \in Int /\ o \in 1 .. Len(body)
  BY SeqBasics
<1>2. \A q \in Int : B(q) \in Int
  BY DepthType
<1>3. B(p) = B(o) + 1 /\ \A q \in o+1 .. p-1 : B(q) > B(o)
  BY DEF BlockFrom
<1>4. B(o+1) = B(o) + 1
  BY <1>1, DepthNext
<1>5. ASSUME NEW q \in o+1 .. p-1, EndsList(body, o+1, q)
      PROVE  FALSE
  <2>1. q \in 1 .. Len(body) /\ q \in Int /\ B(q) \in Int /\ B(o) \in Int
    <3>1. q \in 1 .. Len(body) /\ q \in Int
      BY <1>1
    <3> QED
      BY <1>1, <1>2, <3>1
  <2>2. body[q].k \in {"else", "endif", "endwhile"} /\ B(q) = B(o) + 1
    BY <1>4, <1>5 DEF EndsList
  <2>3. PICK u \in 1 .. q-1 :
          /\ BlockFrom(body, u, q)
          /\ body[u].k = IF body[q].k = "endwhile" THEN "while" ELSE "if"
    BY <2>1, <2>2 DEF WellNested, Closes
  <2>4. u \in Int /\ B(u) \in Int /\ B(q) = B(u) + 1 /\ \A v \in u+1 .. q-1 : B(v) > B(u)
    BY <1>2, <2>3 DEF BlockFrom
  <2>5. B(q+1) = B(q) - 1 \/ body[q].k # "endwhile"
    <3>1. B(q+1) = B(q) + IF body[q].k \in {"if", "while"} THEN 1
                          ELSE IF body[q].k \in {"endif", "endwhile"} THEN -1 ELSE 0
      BY <2>1, DepthNext
    <3> HIDE DEF B
    <3> QED
      BY <2>1, <3>1
  <2> HIDE DEF B
  <2>6. B(u) = B(o)
    BY <2>1, <2>2, <2>4
  <2>7. ~(u < o)
    <3>1. u < o => o \in u+1 .. q-1
      BY <1>1, <2>4
    <3> QED
      BY <2>1, <2>4, <2>6, <3>1
  <2>8. ~(o < u)
    <3>1. o < u => u \in o+1 .. p-1
      BY <1>1, <2>4
    <3> QED
      BY <1>3, <2>1, <2>6, <3>1
  <2>9. u = o
    BY <1>1, <2>4, <2>7, <2>8
  <2>10. body[q].k = "endwhile"
    BY <2>3, <2>9
  <2>11. B(q+1) = B(o)
    BY <2>1, <2>2, <2>5, <2>10
  <2>12. CASE q + 1 = p
    BY <1>3, <2>1, <2>11, <2>12
  <2>13. CASE q + 1 # p
    <3>1. q + 1 \in o+1 .. p-1
      BY <1>1, <2>1, <2>13
    <3> QED
      BY <1>3, <2>1, <2>11, <3>1
  <2> QED
    BY <2>12, <2>13
<1> QED
  BY <1>5 DEF OpenLoops

(* What ends at p: no loop, or the innermost one.                          *)
LEMMA LoopEnds ==
  ASSUME NEW body, IsSeq(body), WellNested(body), NEW p \in 1 .. Len(body), LoopsNest(body, p),
         NEW w \in OpenLoops(body, p)
  PROVE  EndsList(body, w+1, p) <=> body[p].k = "endwhile" /\ LoopDepth(body, w) = LoopDepth(body, p) - 1
<1> DEFINE B(q) == BlockDepth(body, q)
           D(q) == LoopDepth(body, q)
<1>1. Len(body) \in Nat /\ p \in Nat \ {0}
  BY SeqBasics
<1>2. \A q \in Int : B(q) \in Int /\ D(q) \in Int
  BY DepthType
<1>3. /\ w \in 1 .. p-1 /\ body[w].k = "while" /\ w \in 1 .. Len(body) /\ w \in Int
      /\ \A q \in w+1 .. p-1 : ~EndsList(body, w+1, q)
  BY <1>1 DEF OpenLoops
<1>4. B(w+1) = B(w) + 1
  BY <1>3, DepthNext
<1>5. EndsList(body, w+1, p) <=> body[p].k \in {"else", "endif", "endwhile"} /\ B(p) = B(w) + 1
  BY <1>4 DEF EndsList
<1>6. \A q \in w+1 .. p : B(q) > B(w)
  BY DEF LoopsNest
<1>7. /\ D(w) \in 0 .. D(p) - 1
      /\ \A v \in OpenLoops(body, p) : /\ w < v => D(w) < D(v)
                                       /\ v < w => D(v) < D(w)
                                       /\ D(v) \in 0 .. D(p) - 1
                                       /\ \A q \in v+1 .. p : B(q) > B(v)
      /\ \A k \in 0 .. D(p) - 1 : \E v \in OpenLoops(body, p) : D(v) = k
  BY DEF LoopsNest
<1>8. CASE body[p].k \notin {"else", "endif", "endwhile"}
  BY <1>5, <1>8
<1>9. CASE body[p].k \in {"else", "endif", "endwhile"}
  <2>1. Closes(body, p)
    BY <1>9 DEF WellNested
  <2>2. PICK o \in 1 .. p-1 :
          /\ BlockFrom(body, o, p)
          /\ body[o].k = IF body[p].k = "endwhile" THEN "while" ELSE "if"
    BY <2>1 DEF Closes
  <2>3. /\ o \in Int /\ p \in Int /\ B(p) = B(o) + 1 /\ B(o) \in Int /\ B(p) \in Int /\ B(w) \in Int
        /\ \A q \in o+1 .. p-1 : B(q) > B(o)
    BY <1>2, <1>3, <2>2 DEF BlockFrom
  <2>4. body[p].k = "endwhile" => D(p) > 0 /\ o \in OpenLoops(body, p)
    BY <2>1, <2>2, OpenerIsOpen DEF Closes
  <2>5. D(p) \in Int /\ D(w) \in Int
    BY <1>2, <1>3, <2>3
  <2> HIDE DEF B, D
  <2>6. B(p) = B(w) + 1 <=> w = o
    <3>1. ASSUME B(w) = B(o) PROVE w = o
      <4>1. ~(w < o)
        <5>1. w < o => o \in w+1 .. p
          BY <1>3, <2>3
        <5> QED
          BY <1>6, <2>3, <3>1, <5>1
      <4>2. ~(o < w)
        <5>1. o < w => w \in o+1 .. p-1
          BY <1>3, <2>3
        <5> QED
          BY <2>3, <3>1, <5>1
      <4> QED
        BY <1>3, <2>3, <4>1, <4>2
    <3> QED
      BY <2>3, <3>1
  <2>7. CASE body[p].k # "endwhile"
    <3>1. w # o
      BY <1>3, <2>2, <2>7
    <3> QED
      BY <1>5, <1>9, <2>6, <2>7, <3>1
  <2>8. CASE body[p].k = "endwhile"
    <3>1. D(p) > 0 /\ o \in OpenLoops(body, p)
      BY <2>4, <2>8
    <3>2. PICK v \in OpenLoops(body, p) : D(v) = D(p) - 1
      <4>1. D(p) - 1 \in 0 .. D(p) - 1
        BY <2>5, <3>1
      <4> QED
        BY <1>7, <4>1
    <3>3. v \in 1 .. p-1 /\ v \in Int
      BY <1>1 DEF OpenLoops
    <3>4. B(p) > B(v) /\ B(v) \in Int
      <4>1. p \in v+1 .. p
        BY <1>1, <3>3
      <4> QED
        BY <1>2, <1>7, <3>3, <4>1 DEF B
    <3>5. ~(o < v)
      <4>1. o < v => v \in o+1 .. p-1
        BY <2>3, <3>3
      <4> QED
        BY <2>3, <3>4, <4>1
    <3>6. D(w) = D(p) - 1 <=> w = v
      <4>1. ASSUME D(w) = D(p) - 1 PROVE w = v
        <5>1. ~(w < v) /\ ~(v < w)
          BY <1>7, <2>5, <3>2, <4>1
        <5> QED
          BY <1>3, <3>3, <5>1
      <4> QED
        BY <3>2, <4>1
    <3>7. o = v
      <4>1. ~(v < o)
        <5>1. v < o => D(v) < D(o)
          <6>1. \A u1, u2 \in OpenLoops(body, p) : u1 < u2 => D(u1) < D(u2)
            BY DEF LoopsNest, D
          <6> QED
            BY <3>1, <6>1
        <5>2. D(o) \in 0 .. D(p) - 1
          BY <1>7, <3>1
        <5> QED
          BY <2>5, <3>2, <5>1, <5>2
      <4> QED
        BY <2>3, <3>3, <3>5, <4>1
    <3> QED
      BY <1>5, <1>9, <2>6, <2>8, <3>6, <3>7 DEF B, D
  <2> QED
    BY <2>7, <2>8 DEF D
<1> QED
  BY <1>8, <1>9

LEMMA LoopsNestNext ==
  ASSUME NEW body, IsSeq(body), WellNested(body), NEW p \in 1 .. Len(body), LoopsNest(body, p),
         LoopDepth(body, p) >= 0
  PROVE  LoopsNest(body, p + 1)
<1> DEFINE B(q) == BlockDepth(body, q)
           D(q) == LoopDepth(body, q)
           O == OpenLoops(body, p)
           N == OpenLoops(body, p + 1)
<1>1. Len(body) \in Nat /\ p \in Nat \ {0}
  BY SeqBasics
<1>2. \A q \in Int : B(q) \in Int /\ D(q) \in Int
  BY DepthType
<1>3. N = {w \in O : ~EndsList(body, w+1, p)} \cup IF body[p].k = "while" THEN {p} ELSE {}
  BY <1>1, OpenLoopsNext
<1>4. /\ D(p+1) = D(p) + IF body[p].k = "while" THEN 1 ELSE IF body[p].k = "endwhile" THEN -1 ELSE 0
      /\ B(p+1) = B(p) + IF body[p].k \in {"if", "while"} THEN 1
                         ELSE IF body[p].k \in {"endif", "endwhile"} THEN -1 ELSE 0
  BY DepthNext
<1>5. \A w \in O : EndsList(body, w+1, p) <=> body[p].k = "endwhile" /\ D(w) = D(p) - 1
  BY LoopEnds
<1>6. \A w \in O : w \in 1 .. p-1 /\ w \in Int /\ body[w].k = "while" /\ B(w+1) = B(w) + 1
  <2> SUFFICES ASSUME NEW w \in O PROVE w \in 1 .. p-1 /\ w \in Int /\ body[w].k = "while" /\ B(w+1) = B(w) + 1
    OBVIOUS
  <2>1. w \in 1 .. p-1 /\ body[w].k = "while"
    BY DEF OpenLoops
  <2>2. w \in 1 .. Len(body) /\ w \in Int
    BY <1>1, <2>1
  <2> QED
    BY <2>1, <2>2, DepthNext
<1>7. /\ \A w \in O : D(w) \in 0 .. D(p) - 1 /\ \A q \in w+1 .. p : B(q) > B(w)
      /\ \A w, v \in O : w < v => D(w) < D(v)
      /\ \A k \in 0 .. D(p) - 1 : \E w \in O : D(w) = k
      /\ D(p) >= 0 /\ D(p) \in Int /\ B(p) \in Int /\ B(p+1) \in Int
  BY <1>1, <1>2 DEF LoopsNest
<1>8. \A w \in O : EndsList(body, w+1, p) <=> body[p].k \in {"else", "endif", "endwhile"} /\ B(p) = B(w) + 1
  BY <1>6 DEF EndsList
<1> HIDE DEF B, D, O, N
<1>9. ASSUME NEW w \in N, w # p
      PROVE  /\ w \in O /\ D(w) \in 0 .. D(p+1) - 1
             /\ \A q \in w+1 .. p+1 : B(q) > B(w)
  <2>1. w \in O /\ ~EndsList(body, w+1, p)
    BY <1>3, <1>9
  <2>2. D(w) \in 0 .. D(p+1) - 1
    BY <1>4, <1>5, <1>7, <2>1
  <2>3. B(p+1) > B(w)
    <3>1. B(p) > B(w) /\ B(w) \in Int
      <4>1. w \in Int /\ p \in w+1 .. p
        BY <1>1, <1>6, <2>1
      <4> QED
        BY <1>2, <1>7, <2>1, <4>1
    <3>2. CASE body[p].k \in {"endif", "endwhile"}
      <4>1. B(p) # B(w) + 1
        BY <1>8, <2>1, <3>2
      <4>2. B(p+1) = B(p) - 1
        BY <1>4, <1>7, <3>2
      <4> QED
        BY <1>7, <3>1, <4>1, <4>2
    <3>3. CASE body[p].k \notin {"endif", "endwhile"}
      <4>1. B(p+1) >= B(p)
        BY <1>4, <1>7, <3>3
      <4> QED
        BY <1>7, <3>1, <4>1
    <3> QED
      BY <3>2, <3>3
  <2>4. \A q \in w+1 .. p+1 : q \in w+1 .. p \/ q = p+1
    BY <1>1, <1>6, <2>1
  <2> QED
    BY <1>7, <2>1, <2>2, <2>3, <2>4
<1>10. ASSUME p \in N
       PROVE  /\ body[p].k = "while" /\ D(p) \in 0 .. D(p+1) - 1
              /\ \A q \in p+1 .. p+1 : B(q) > B(p)
  <2>1. body[p].k = "while"
    <3>1. p \notin O
      BY <1>1, <1>6
    <3> QED
      BY <1>3, <1>10, <3>1
  <2>2. D(p+1) = D(p) + 1 /\ B(p+1) = B(p) + 1
    BY <1>4, <1>7, <2>1
  <2>3. \A q \in p+1 .. p+1 : q = p+1
    BY <1>1
  <2> QED
    BY <1>7, <2>1, <2>2, <2>3
<1>11. \A w, v \in N : w < v => D(w) < D(v)
  <2> SUFFICES ASSUME NEW w \in N, NEW v \in N, w < v PROVE D(w) < D(v)
    OBVIOUS
  <2>1. w # p
    <3>1. v = p \/ v \in 1 .. p-1
      BY <1>6, <1>9
    <3> QED
      BY <1>1, <3>1
  <2>2. CASE v = p
    <3>1. body[p].k = "while" /\ w \in O
      BY <1>9, <1>10, <2>1, <2>2
    <3> QED
      BY <1>7, <2>2, <3>1
  <2>3. CASE v # p
    BY <1>7, <1>9, <2>1, <2>3
  <2> QED
    BY <2>2, <2>3
<1>12. \A k \in 0 .. D(p+1) - 1 : \E w \in N : D(w) = k
  <2> SUFFICES ASSUME NEW k \in 0 .. D(p+1) - 1 PROVE \E w \in N : D(w) = k
    OBVIOUS
  <2>1. CASE body[p].k = "while" /\ k = D(p)
    BY <1>3, <2>1
  <2>2. CASE ~(body[p].k = "while" /\ k = D(p))
    <3>1. k \in 0 .. D(p) - 1 /\ (body[p].k = "endwhile" => k # D(p) - 1)
      BY <1>4, <1>7, <2>2
    <3>2. PICK w \in O : D(w) = k
      BY <1>7, <3>1
    <3>3. ~EndsList(body, w+1, p)
      BY <1>5, <3>1, <3>2
    <3> QED
      BY <1>3, <3>2, <3>3
  <2> QED
    BY <2>1, <2>2
<1> QED
  BY <1>9, <1>10, <1>11, <1>12 DEF LoopsNest, B, D, N

LEMMA LoopsNested ==
  ASSUME NEW body, IsSeq(body), WellNested(body)
  PROVE  \A p \in 1 .. Len(body) + 1 : LoopsNest(body, p) /\ LoopDepth(body, p) >= 0
<1> DEFINE Good1(p) == LoopsNest(body, p) /\ LoopDepth(body, p) >= 0
           S == {n \in Nat : n \in 1 .. Len(body) + 1 => Good1(n)}
<1>1. Len(body) \in Nat
  BY SeqBasics
<1>2. ASSUME NEW n \in Nat, \A m \in Nat : m < n => m \in S
      PROVE  n \in S
  <2> SUFFICES ASSUME n \in 1 .. Len(body) + 1 PROVE Good1(n)
    OBVIOUS
  <2>1. CASE n = 1
    BY <2>1, LoopsNestAtStart, DepthAtStart
  <2>2. CASE n # 1
    <3> DEFINE p == n - 1
    <3>1. p \in Nat /\ p < n /\ p \in 1 .. Len(body) /\ p \in 1 .. Len(body) + 1 /\ p + 1 = n /\ p \in Int
      BY <1>1, <2>2
    <3>2. Good1(p)
      BY <1>2, <3>1
    <3> HIDE DEF p
    <3>3. LoopsNest(body, p + 1)
      BY <3>1, <3>2, LoopsNestNext
    <3>4. /\ LoopDepth(body, p + 1) = LoopDepth(body, p)
               + IF body[p].k = "while" THEN 1 ELSE IF body[p].k = "endwhile" THEN -1 ELSE 0
          /\ LoopDepth(body, p) \in Int
      BY <3>1, DepthNext, DepthType
    <3>5. body[p].k = "endwhile" => LoopDepth(body, p) > 0
      BY <3>1 DEF WellNested, Closes
    <3>6. LoopDepth(body, p + 1) >= 0
      BY <3>2, <3>4, <3>5
    <3> QED
      BY <3>1, <3>3, <3>6
  <2> QED
    BY <2>1, <2>2
<1>3. S = Nat
  <2>1. S \in SUBSET Nat
    OBVIOUS
  <2> HIDE DEF S
  <2> QED
    BY <1>2, <2>1, Flat!Induction
<1>4. \A p \in 1 .. Len(body) + 1 : p \in S
  BY <1>1, <1>3
<1> QED
  BY <1>4

-----------------------------------------------------------------------------
(* Expressions, by their depth.                                            *)

(* the expressions less deep than e *)
Simpler(e) == {d \in Exprs : Depth[d] < Depth[e]}

LEMMA Operands ==
  ASSUME NEW e \in Exprs
  PROVE  /\ Depth[e] \in Nat
         /\ e.k = "unary" => e.r \in Simpler(e)
         /\ e.k = "bin" => e.l \in Simpler(e) /\ e.r \in Simpler(e)
         /\ e.k = "bin" /\ e.l.k = "index" => e.l.a \in Simpler(e) /\ e.l.i \in Simpler(e)
         /\ e.k = "call" => IsSeq(e.args) /\ \A i \in DOMAIN e.args : e.args[i] \in Simpler(e)
         /\ e.k = "arraylit" => IsSeq(e.elems) /\ \A i \in DOMAIN e.elems : e.elems[i] \in Simpler(e)
         /\ e.k = "index" => e.a \in Simpler(e) /\ e.i \in Simpler(e)
<1>1. \A c \in Exprs : Depth[c] \in Nat /\ \A d \in Children(c) : d \in Simpler(c)
  BY ExprsAssumption DEF Simpler
<1>2. e.k = "unary" => e.r \in Simpler(e)
  BY <1>1 DEF Children
<1>3. e.k = "bin" => e.l \in Simpler(e) /\ e.r \in Simpler(e)
  BY <1>1 DEF Children
<1>4. ASSUME e.k = "bin", e.l.k = "index"
      PROVE  e.l.a \in Simpler(e) /\ e.l.i \in Simpler(e)
  <2>1. e.l \in Exprs /\ Depth[e.l] < Depth[e]
    BY <1>3, <1>4 DEF Simpler
  <2>2. e.l.a \in Simpler(e.l) /\ e.l.i \in Simpler(e.l)
    BY <1>1, <1>4, <2>1 DEF Children
  <2> QED
    BY <1>1, <2>1, <2>2 DEF Simpler
<1>5. e.k = "call" => IsSeq(e.args) /\ \A i \in DOMAIN e.args : e.args[i] \in Simpler(e)
  BY <1>1, ExprsAssumption DEF Children, Range
<1>6. e.k = "arraylit" => IsSeq(e.elems) /\ \A i \in DOMAIN e.elems : e.elems[i] \in Simpler(e)
  BY <1>1, ExprsAssumption DEF Children, Range
<1>7. e.k = "index" => e.a \in Simpler(e) /\ e.i \in Simpler(e)
  BY <1>1 DEF Children
<1> QED
  BY <1>1, <1>2, <1>3, <1>4, <1>5, <1>6, <1>7

(* What holds of an expression if it holds of all less deep ones holds of  *)
(* every expression.                                                       *)
LEMMA OnExpressions ==
  ASSUME NEW T, \A e \in Exprs : Simpler(e) \subseteq T => e \in T
  PROVE  Exprs \subseteq T
<1> DEFINE S == {n \in Nat : \A e \in Exprs : Depth[e] = n => e \in T}
<1>1. ASSUME NEW n \in Nat, \A m \in Nat : m < n => m \in S
      PROVE  n \in S
  <2> SUFFICES ASSUME NEW e \in Exprs, Depth[e] = n PROVE e \in T
    OBVIOUS
  <2>1. ASSUME NEW d \in Simpler(e) PROVE d \in T
    <3>1. d \in Exprs /\ Depth[d] \in Nat /\ Depth[d] < n
      BY <2>1, ExprsAssumption DEF Simpler
    <3> QED
      BY <1>1, <3>1
  <2> QED
    BY <2>1
<1>2. S = Nat
  <2>1. S \in SUBSET Nat
    OBVIOUS
  <2> HIDE DEF S
  <2> QED
    BY <1>1, <2>1, Flat!Induction
<1> QED
  BY <1>2, ExprsAssumption
=============================================================================
