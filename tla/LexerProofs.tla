----------------------------- MODULE LexerProofs ----------------------------
(***************************************************************************)
(* Proofs about Lexer for every set of texts: reading a character at a     *)
(* time, with one character of lookahead, it finds the longest lexemes.    *)
(***************************************************************************)
EXTENDS Lexer, SequenceTheorems, FiniteSetTheorems, WellFoundedInduction, TLAPS

-----------------------------------------------------------------------------
(* Characters: the classes are disjoint.                                   *)
Chars == Blanks \cup Letters \cup Digits \cup OneCharKinds

LEMMA FiguresAre ==
  /\ Digits = {"0", "1", "2", "3", "4", "5", "6", "7", "8", "9"}
  /\ \A c \in Digits : \E d \in 1 .. 10 : Figures[d] = c
<1>1. /\ DOMAIN Figures = 1 .. 10
      /\ Figures[1] = "0" /\ Figures[2] = "1" /\ Figures[3] = "2" /\ Figures[4] = "3" /\ Figures[5] = "4"
      /\ Figures[6] = "5" /\ Figures[7] = "6" /\ Figures[8] = "7" /\ Figures[9] = "8" /\ Figures[10] = "9"
  BY DEF Figures
<1>2. \A d \in 1 .. 10 : d \in {1, 2, 3, 4, 5, 6, 7, 8, 9, 10}
  OBVIOUS
<1> QED
  BY <1>1, <1>2 DEF Digits, Range

LEMMA Classes ==
  /\ NUL \notin Blanks \cup Letters \cup Digits \cup OneCharKinds \cup {"/", "*", "&", "|"}
  /\ Blanks \cap (Letters \cup Digits \cup OneCharKinds \cup {"/", "*", "&", "|"}) = {}
  /\ Letters \cap (Digits \cup OneCharKinds \cup {"/", "*", "&", "|"}) = {}
  /\ Digits \cap (OneCharKinds \cup {"/", "*", "&", "|"}) = {}
  /\ "/" \in OneCharKinds /\ "*" \in OneCharKinds /\ NewLine \in Blanks
BY FiguresAre DEF NUL, Blanks, NewLine, Letters, OneCharKinds

LEMMA PairsAre ==
  \A c, d : <<c, d>> \in TwoCharKinds =>
    /\ c \in OneCharKinds \cup {"&", "|"} /\ c \notin Blanks \cup Letters \cup Digits
    /\ c # NUL /\ d # NUL /\ d \notin Digits
    /\ <<c, d>> \notin {<<"/", "/">>, <<"/", "*">>}
<1> SUFFICES ASSUME NEW c, NEW d, <<c, d>> \in TwoCharKinds
             PROVE  /\ c \in OneCharKinds \cup {"&", "|"}
                    /\ c # NUL /\ d # NUL /\ d \notin Digits
                    /\ <<c, d>> \notin {<<"/", "/">>, <<"/", "*">>}
  BY Classes
<1>1. /\ c \in {"+", "-", "*", "/", "%", "!", "&", "|", "=", "<", ">"}
      /\ d \in {"=", ">", "&", "|"}
  BY DEF TwoCharKinds
<1> QED
  BY <1>1, FiguresAre DEF NUL, OneCharKinds

-----------------------------------------------------------------------------
(* Stretches of a text.                                                    *)
LEMMA Stretch ==
  ASSUME NEW t \in Seq(STRING), NEW p \in 1 .. Len(t), NEW q \in p .. Len(t)
  PROVE  /\ SubSeq(t, p, q) \in Seq(STRING)
         /\ Len(SubSeq(t, p, q)) = q - p + 1
         /\ DOMAIN SubSeq(t, p, q) = 1 .. q - p + 1
         /\ \A k \in 1 .. q - p + 1 : SubSeq(t, p, q)[k] = t[p + k - 1]
         /\ \A k \in p .. q : k - p + 1 \in 1 .. q - p + 1 /\ SubSeq(t, p, q)[k - p + 1] = t[k]
         /\ SubSeq(t, p, q) # << >> /\ SubSeq(t, p, q)[1] = t[p]
<1> DEFINE s == SubSeq(t, p, q)
<1>1. Len(t) \in Nat /\ p \in Nat /\ q \in Nat /\ 1 <= p /\ p <= q /\ q <= Len(t)
  OBVIOUS
<1>2. s \in Seq(STRING) /\ Len(s) = q - p + 1 /\ \A k \in 1 .. q - p + 1 : s[k] = t[p + k - 1]
  BY <1>1, SubSeqProperties
<1> HIDE DEF s
<1>3. DOMAIN s = 1 .. q - p + 1
  BY <1>2
<1>4. ASSUME NEW k \in p .. q PROVE k - p + 1 \in 1 .. q - p + 1 /\ s[k - p + 1] = t[k]
  <2>1. k - p + 1 \in 1 .. q - p + 1 /\ p + (k - p + 1) - 1 = k
    BY <1>1
  <2> QED
    BY <1>2, <2>1
<1>5. s # << >> /\ s[1] = t[p]
  <2>1. 1 \in 1 .. q - p + 1 /\ p + 1 - 1 = p
    BY <1>1
  <2>2. Len(s) # 0
    BY <1>1, <1>2
  <2> QED
    BY <1>2, <2>1, <2>2
<1> QED
  BY <1>2, <1>3, <1>4, <1>5 DEF s

(* What the language of lexemes says of the stretch p .. q.                *)
LEMMA Shapes ==
  ASSUME NEW t \in Seq(STRING), NEW p \in 1 .. Len(t), NEW q \in p .. Len(t)
  PROVE  LET s == SubSeq(t, p, q)
         IN  /\ IsBlank(s) <=> q = p /\ t[p] \in Blanks
             /\ IsLineComment(s) <=> q > p /\ t[p] = "/" /\ t[p+1] = "/" /\ \A k \in p .. q : t[k] # NewLine
             /\ IsBlockComment(s) <=> /\ q > p /\ t[p] = "/" /\ t[p+1] = "*"
                                      /\ \A k \in p+3 .. q : t[k-1] = "*" /\ t[k] = "/" => k = q
             /\ IsWord(s) <=> t[p] \in Letters /\ \A k \in p .. q : t[k] \in Letters \cup Digits
             /\ IsNumber(s) <=> \A k \in p .. q : t[k] \in Digits
             /\ IsOneChar(s) <=> q = p /\ t[p] \in OneCharKinds
             /\ IsTwoChars(s) <=> q = p+1 /\ <<t[p], t[p+1]>> \in TwoCharKinds
             /\ Len(s) = 1 <=> q = p
<1> DEFINE s == SubSeq(t, p, q)
           n == q - p + 1
<1>1. Len(t) \in Nat /\ p \in Nat /\ q \in Nat /\ 1 <= p /\ p <= q /\ q <= Len(t)
  OBVIOUS
<1>2. /\ Len(s) = n /\ DOMAIN s = 1 .. n /\ s # << >> /\ s[1] = t[p]
      /\ \A k \in 1 .. n : s[k] = t[p + k - 1]
      /\ \A k \in p .. q : k - p + 1 \in 1 .. n /\ s[k - p + 1] = t[k]
  BY Stretch
<1> HIDE DEF s
<1>3. Len(s) = 1 <=> q = p
  BY <1>1, <1>2
<1>4. q > p => s[2] = t[p+1] /\ 2 \in 1 .. n
  BY <1>1, <1>2
<1>5. \A c : c \in Range(s) <=> \E k \in p .. q : t[k] = c
  <2>1. ASSUME NEW c \in Range(s) PROVE \E k \in p .. q : t[k] = c
    <3>1. PICK k \in 1 .. n : s[k] = c
      BY <1>2 DEF Range
    <3>2. p + k - 1 \in p .. q /\ t[p + k - 1] = c
      BY <1>1, <1>2, <3>1
    <3> QED
      BY <3>2
  <2>2. ASSUME NEW k \in p .. q PROVE t[k] \in Range(s)
    BY <1>2 DEF Range
  <2> QED
    BY <2>1, <2>2
<1>6. IsBlank(s) <=> q = p /\ t[p] \in Blanks
  BY <1>2, <1>3 DEF IsBlank
<1>7. IsLineComment(s) <=> q > p /\ t[p] = "/" /\ t[p+1] = "/" /\ \A k \in p .. q : t[k] # NewLine
  BY <1>1, <1>2, <1>4, <1>5 DEF IsLineComment
<1>8. IsBlockComment(s) <=> /\ q > p /\ t[p] = "/" /\ t[p+1] = "*"
                            /\ \A k \in p+3 .. q : t[k-1] = "*" /\ t[k] = "/" => k = q
  <2>1. (\A k \in DOMAIN s : EndsComment(s, k) => k = Len(s)) <=>
          \A k \in p+3 .. q : t[k-1] = "*" /\ t[k] = "/" => k = q
    <3>1. ASSUME \A k \in DOMAIN s : EndsComment(s, k) => k = Len(s),
                 NEW k \in p+3 .. q, t[k-1] = "*", t[k] = "/"
          PROVE  k = q
      <4> DEFINE j == k - p + 1
      <4>1. j \in 1 .. n /\ j >= 4 /\ s[j] = t[k]
        BY <1>1, <1>2
      <4>2. j - 1 = (k - 1) - p + 1 /\ k - 1 \in p .. q
        BY <1>1
      <4>3. s[j-1] = t[k-1]
        BY <1>2, <4>2
      <4>4. j = Len(s)
        BY <1>2, <3>1, <4>1, <4>3 DEF EndsComment
      <4> QED
        BY <1>1, <1>2, <4>4
    <3>2. ASSUME \A k \in p+3 .. q : t[k-1] = "*" /\ t[k] = "/" => k = q,
                 NEW j \in DOMAIN s, EndsComment(s, j)
          PROVE  j = Len(s)
      <4> DEFINE k == p + j - 1
      <4>1. j \in 1 .. n /\ j >= 4 /\ s[j-1] = "*" /\ s[j] = "/"
        BY <1>2, <3>2 DEF EndsComment
      <4>2. k \in p+3 .. q /\ j - 1 \in 1 .. n /\ p + (j - 1) - 1 = k - 1
        BY <1>1, <4>1
      <4>3. t[k] = "/" /\ t[k-1] = "*"
        BY <1>2, <4>1, <4>2
      <4>4. k = q
        BY <3>2, <4>2, <4>3
      <4> QED
        BY <1>1, <1>2, <4>1, <4>4
    <3> QED
      BY <3>1, <3>2
  <2>2. IsBlockComment(s) <=> q > p /\ t[p] = "/" /\ t[p+1] = "*" /\ \A k \in DOMAIN s : EndsComment(s, k) => k = Len(s)
    BY <1>1, <1>2, <1>4 DEF IsBlockComment
  <2> QED
    BY <2>1, <2>2
<1>9. IsWord(s) <=> t[p] \in Letters /\ \A k \in p .. q : t[k] \in Letters \cup Digits
  BY <1>2, <1>5 DEF IsWord
<1>10. IsNumber(s) <=> \A k \in p .. q : t[k] \in Digits
  BY <1>2, <1>5 DEF IsNumber
<1>11. IsOneChar(s) <=> q = p /\ t[p] \in OneCharKinds
  BY <1>2, <1>3 DEF IsOneChar
<1>12. IsTwoChars(s) <=> q = p+1 /\ <<t[p], t[p+1]>> \in TwoCharKinds
  <2>1. Len(s) = 2 <=> q = p + 1
    BY <1>1, <1>2
  <2> QED
    BY <1>1, <1>2, <1>4, <2>1 DEF IsTwoChars
<1> QED
  BY <1>3, <1>6, <1>7, <1>8, <1>9, <1>10, <1>11, <1>12 DEF s

(* A lexeme of more than one character.                                    *)
LEMMA LexemeAt ==
  ASSUME NEW t \in Seq(STRING), NEW p \in 1 .. Len(t), NEW q \in p+1 .. Len(t),
         IsLexeme(SubSeq(t, p, q))
  PROVE  \/ t[p] = "/" /\ t[p+1] = "/" /\ \A k \in p .. q : t[k] # NewLine
         \/ /\ t[p] = "/" /\ t[p+1] = "*"
            /\ \A k \in p+3 .. q : t[k-1] = "*" /\ t[k] = "/" => k = q
         \/ t[p] \in Letters /\ \A k \in p .. q : t[k] \in Letters \cup Digits
         \/ \A k \in p .. q : t[k] \in Digits
         \/ q = p + 1 /\ <<t[p], t[p+1]>> \in TwoCharKinds
<1> DEFINE s == SubSeq(t, p, q)
<1>1. q \in p .. Len(t) /\ q # p
  OBVIOUS
<1>2. /\ IsBlank(s) => q = p
      /\ IsLineComment(s) => t[p] = "/" /\ t[p+1] = "/" /\ \A k \in p .. q : t[k] # NewLine
      /\ IsBlockComment(s) => /\ t[p] = "/" /\ t[p+1] = "*"
                              /\ \A k \in p+3 .. q : t[k-1] = "*" /\ t[k] = "/" => k = q
      /\ IsWord(s) => t[p] \in Letters /\ \A k \in p .. q : t[k] \in Letters \cup Digits
      /\ IsNumber(s) => \A k \in p .. q : t[k] \in Digits
      /\ IsTwoChars(s) => q = p + 1 /\ <<t[p], t[p+1]>> \in TwoCharKinds
      /\ Len(s) = 1 => q = p
  BY <1>1, Shapes
<1>3. \/ IsBlank(s) \/ IsLineComment(s) \/ IsBlockComment(s) \/ IsWord(s) \/ IsNumber(s)
      \/ IsTwoChars(s) \/ Len(s) = 1
  BY DEF IsLexeme, Separates
<1> HIDE DEF s
<1> QED
  BY <1>1, <1>2, <1>3

-----------------------------------------------------------------------------
(* The recursion in Begins, over the positions of a text.                  *)
StartDom(t) == 1 .. Len(t)
StartRank(t, q) == q
StartBody(t, f, q) == q = 1 \/ \E r \in 1 .. q-1 : f[r] /\ Longest(t, r) = q-1
StartFit(t, q, v) == TRUE
Start == INSTANCE Recursion WITH Dom <- StartDom, Rank <- StartRank, Body <- StartBody, Fit <- StartFit

LEMMA MaxOf ==
  ASSUME NEW n \in Nat, NEW S \in SUBSET (1 .. n), S # {}
  PROVE  Max(S) \in S /\ \A y \in S : Max(S) >= y
BY Start!Greatest DEF Start!Max, Max

LEMMA MinOf ==
  ASSUME NEW S \in SUBSET Nat, S # {}
  PROVE  Min(S) \in S /\ \A y \in S : Min(S) <= y
BY Start!Least DEF Start!Min, Min

(* A stretch begins somewhere if the one before it ends there.             *)
LEMMA BeginsAt ==
  ASSUME NEW t, Len(t) \in Nat, NEW q \in 1 .. Len(t)
  PROVE  Begins(t)[q] <=> q = 1 \/ \E r \in 1 .. q-1 : Begins(t)[r] /\ Longest(t, r) = q-1
<1> DEFINE D == Start!Defined(t)
<1>1. Start!LooksDown(t)
  <2>1. ASSUME NEW e \in 1 .. Len(t), NEW f, NEW g, Start!Agree(t, f, g, e)
        PROVE  StartBody(t, f, e) = StartBody(t, g, e)
    <3>1. \A r \in 1 .. e-1 : f[r] = g[r]
      BY <2>1 DEF Start!Agree, StartDom, StartRank
    <3> QED
      BY <3>1 DEF StartBody
  <2> QED
    BY <2>1 DEF Start!LooksDown, StartDom, StartRank, StartFit
<1>2. D = [e \in StartDom(t) |-> StartBody(t, D, e)]
  BY <1>1, Start!Unfolding
<1>3. Begins(t) = D
  BY Zenon DEF Begins, Start!Defined, StartDom, StartBody
<1> HIDE DEF D
<1>4. D[q] = StartBody(t, D, q)
  BY <1>2 DEF StartDom
<1> QED
  BY <1>3, <1>4 DEF StartBody

LEMMA LongestIn ==
  ASSUME NEW t \in Seq(STRING), NEW p \in 1 .. Len(t)
  PROVE  /\ Longest(t, p) \in p .. Len(t)
         /\ IsLexeme(Lexeme(t, p))
         /\ \A r \in p .. Len(t) : IsLexeme(SubSeq(t, p, r)) => r <= Longest(t, p)
<1> DEFINE ends == {q \in p .. Len(t) : IsLexeme(SubSeq(t, p, q))}
<1>1. Len(t) \in Nat /\ ends \in SUBSET (1 .. Len(t))
  OBVIOUS
<1>2. p \in ends
  <2>1. p \in p .. Len(t)
    OBVIOUS
  <2>2. Len(SubSeq(t, p, p)) = 1
    BY <2>1, Stretch
  <2> QED
    BY <2>1, <2>2 DEF IsLexeme
<1> DEFINE m == Max(ends)
<1>3. m \in ends /\ \A r \in ends : m >= r
  <2> HIDE DEF ends
  <2> QED
    BY <1>1, <1>2, MaxOf
<1>4. Longest(t, p) = m
  BY DEF Longest
<1> HIDE DEF m
<1> QED
  BY <1>3, <1>4 DEF Lexeme

LEMMA LongestIs ==
  ASSUME NEW t \in Seq(STRING), NEW p \in 1 .. Len(t), NEW q \in p .. Len(t),
         IsLexeme(SubSeq(t, p, q)), \A r \in q+1 .. Len(t) : ~IsLexeme(SubSeq(t, p, r))
  PROVE  Longest(t, p) = q /\ Lexeme(t, p) = SubSeq(t, p, q)
<1>1. /\ Longest(t, p) \in p .. Len(t) /\ IsLexeme(SubSeq(t, p, Longest(t, p)))
      /\ q <= Longest(t, p)
  BY LongestIn DEF Lexeme
<1>2. Longest(t, p) \notin q+1 .. Len(t)
  BY <1>1
<1> QED
  BY <1>1, <1>2 DEF Lexeme

-----------------------------------------------------------------------------
(* What counts of the text, and what peek() sees of it.                    *)
LEMMA TextIs ==
  ASSUME src \in Seq(STRING)
  PROVE  /\ Text \in Seq(STRING) /\ Len(Text) \in Nat /\ Len(Text) <= Len(src)
         /\ \A q \in 1 .. Len(Text) : CharAt(q) = Text[q] /\ src[q] = Text[q] /\ Text[q] # NUL
         /\ CharAt(Len(Text) + 1) = NUL
<1> DEFINE nuls == {q \in DOMAIN src : src[q] = NUL}
<1>1. Len(src) \in Nat /\ DOMAIN src = 1 .. Len(src)
  OBVIOUS
<1>2. CASE nuls = {}
  <2>1. Text = src
    BY <1>2 DEF Text
  <2> QED
    BY <1>1, <1>2, <2>1 DEF CharAt
<1>3. CASE nuls # {}
  <2> DEFINE m == Min(nuls)
  <2>1. m \in nuls /\ \A q \in nuls : m <= q
    <3>1. nuls \in SUBSET Nat
      BY <1>1
    <3> HIDE DEF nuls
    <3> QED
      BY <1>3, <3>1, MinOf
  <2>2. Text = SubSeq(src, 1, m - 1)
    BY <1>3 DEF Text
  <2> HIDE DEF m
  <2>3. m \in 1 .. Len(src) /\ src[m] = NUL /\ \A q \in 1 .. m - 1 : src[q] # NUL
    BY <1>1, <2>1
  <2>4. /\ Text \in Seq(STRING) /\ Len(Text) = m - 1
        /\ \A q \in 1 .. m - 1 : Text[q] = src[q]
    <3>1. \A q \in 1 .. m - 1 : src[q] \in STRING
      BY <1>1, <2>3
    <3>2. m - 1 \in Int /\ 1 \in Int /\ (1 <= m - 1 => (m - 1) - 1 + 1 = m - 1) /\ (~(1 <= m - 1) => m - 1 = 0)
      BY <2>3
    <3>3. /\ Text \in Seq(STRING)
          /\ Len(Text) = IF 1 <= m - 1 THEN (m - 1) - 1 + 1 ELSE 0
          /\ \A q \in 1 .. (m - 1) - 1 + 1 : Text[q] = src[1 + q - 1]
      BY <2>2, <3>1, <3>2, SubSeqProperties
    <3> QED
      BY <2>3, <3>2, <3>3
  <2>5. Len(Text) + 1 = m
    BY <2>3, <2>4
  <2> QED
    BY <1>1, <2>3, <2>4, <2>5 DEF CharAt
<1> QED
  BY <1>2, <1>3

(* Where a while loop that passes characters stops: at the first that ends *)
(* the run, or behind what counts of the text.                             *)
StopSet(p, D) == {r \in p .. Len(src) + 1 : CharAt(r) = NUL \/ r \in D}

LEMMA RunEnds ==
  ASSUME src \in Seq(STRING), NEW p \in 1 .. Len(Text) + 1, NEW D, NEW q, q = Min(StopSet(p, D))
  PROVE  /\ q \in p .. Len(Text) + 1
         /\ q <= Len(Text) => q \in D /\ CharAt(q) # NUL
         /\ q = Len(Text) + 1 => CharAt(q) = NUL
         /\ \A r \in p .. q - 1 : r \notin D
<1> DEFINE S == StopSet(p, D)
<1>1. /\ Len(Text) \in Nat /\ Len(Text) <= Len(src) /\ Len(src) \in Nat
      /\ CharAt(Len(Text) + 1) = NUL /\ \A r \in 1 .. Len(Text) : CharAt(r) # NUL
  BY TextIs
<1>2. Len(Text) + 1 \in S /\ S \in SUBSET Nat
  BY <1>1 DEF StopSet
<1>3. q \in S /\ \A r \in S : q <= r
  <2>1. q = Min(S)
    OBVIOUS
  <2> HIDE DEF S
  <2> QED
    BY <1>2, <2>1, MinOf
<1>4. q \in p .. Len(Text) + 1
  BY <1>1, <1>2, <1>3 DEF StopSet
<1>5. q <= Len(Text) => q \in D /\ CharAt(q) # NUL
  BY <1>1, <1>3, <1>4 DEF StopSet
<1>6. \A r \in p .. q - 1 : r \notin D
  <2> SUFFICES ASSUME NEW r \in p .. q - 1, r \in D PROVE FALSE
    OBVIOUS
  <2>1. r \in S /\ ~(q <= r)
    BY <1>1, <1>4 DEF StopSet
  <2> QED
    BY <1>3, <2>1
<1> QED
  BY <1>1, <1>4, <1>5, <1>6

-----------------------------------------------------------------------------
(* Lines and columns.                                                      *)
Breaks(t, p) == {q \in 1 .. p-1 : t[q] = NewLine}

LEMMA BreaksIn ==
  ASSUME NEW t, NEW p \in Nat, p > 0
  PROVE  /\ Position(t, p) = <<1 + Cardinality(Breaks(t, p)), p - Max(Breaks(t, p) \cup {0})>>
         /\ IsFiniteSet(Breaks(t, p)) /\ Cardinality(Breaks(t, p)) \in 0 .. p-1
         /\ Max(Breaks(t, p) \cup {0}) \in 0 .. p-1
         /\ Max(Breaks(t, p) \cup {0}) \in Breaks(t, p) \cup {0}
         /\ \A q \in Breaks(t, p) : q <= Max(Breaks(t, p) \cup {0})
<1> DEFINE B == Breaks(t, p)
           m == Max(B \cup {0})
<1>1. Position(t, p) = <<1 + Cardinality(B), p - m>>
  BY DEF Position, Breaks
<1>2. B \subseteq 1 .. p-1 /\ p - 1 \in Nat
  BY DEF Breaks
<1>3. IsFiniteSet(1 .. p-1) /\ Cardinality(1 .. p-1) = p - 1
  BY <1>2, FS_Interval
<1>4. IsFiniteSet(B) /\ Cardinality(B) \in Nat /\ Cardinality(B) <= p - 1
  <2>1. IsFiniteSet(B) /\ Cardinality(B) <= Cardinality(1 .. p-1)
    BY <1>2, <1>3, FS_Subset
  <2>2. Cardinality(B) \in Nat
    BY <2>1, FS_CardinalityType
  <2> QED
    BY <1>3, <2>1, <2>2
<1>5. \E x \in B \cup {0} : \A y \in B \cup {0} : x >= y
  <2>1. CASE B = {}
    BY <2>1
  <2>2. CASE B # {}
    <3>1. Max(B) \in B /\ \A y \in B : Max(B) >= y
      BY <1>2, <2>2, MaxOf
    <3> DEFINE x == Max(B)
    <3> HIDE DEF x, B
    <3>2. x \in B /\ \A y \in B : x >= y
      BY <3>1 DEF x
    <3>3. x >= 0
      BY <1>2, <3>2
    <3> QED
      BY <3>2, <3>3
  <2> QED
    BY <2>1, <2>2
<1>6. m \in B \cup {0} /\ \A y \in B \cup {0} : m >= y
  BY <1>5 DEF Max
<1> HIDE DEF m, B
<1>7. m \in 0 .. p-1 /\ \A q \in B : q <= m
  BY <1>2, <1>6
<1> QED
  BY <1>1, <1>2, <1>4, <1>6, <1>7 DEF m, B

(* One character on, the position changes as get() changes it.             *)
LEMMA PositionNext ==
  ASSUME NEW t, NEW p \in Nat, p > 0
  PROVE  Position(t, p + 1) = AfterChar(Position(t, p), t[p])
<1> DEFINE B == Breaks(t, p)
           N == Breaks(t, p + 1)
           m == Max(B \cup {0})
           n == Max(N \cup {0})
<1>1. /\ Position(t, p) = <<1 + Cardinality(B), p - m>>
      /\ IsFiniteSet(B) /\ Cardinality(B) \in Nat
      /\ m \in 0 .. p-1 /\ m \in B \cup {0} /\ \A q \in B : q <= m
  <2>1. /\ Position(t, p) = <<1 + Cardinality(B), p - m>>
        /\ IsFiniteSet(B) /\ Cardinality(B) \in 0 .. p-1
        /\ m \in 0 .. p-1 /\ m \in B \cup {0} /\ \A q \in B : q <= m
    BY BreaksIn
  <2> HIDE DEF B, m
  <2>2. Cardinality(B) \in Nat
    BY <2>1
  <2> QED
    BY <2>1, <2>2
<1>2. /\ Position(t, p + 1) = <<1 + Cardinality(N), (p + 1) - n>>
      /\ n \in 0 .. p /\ n \in N \cup {0} /\ \A q \in N : q <= n
  <2>1. p + 1 \in Nat /\ p + 1 > 0 /\ (p + 1) - 1 = p
    OBVIOUS
  <2> HIDE DEF B, m
  <2> QED
    BY <2>1, BreaksIn
<1>3. B \subseteq 1 .. p-1
  BY DEF Breaks
<1>4. N = IF t[p] = NewLine THEN B \cup {p} ELSE B
  BY DEF Breaks
<1> HIDE DEF B, N, m, n
<1>5. CASE t[p] = NewLine
  <2>1. p \notin B /\ N = B \cup {p}
    BY <1>3, <1>4, <1>5
  <2>2. Cardinality(N) = Cardinality(B) + 1
    BY <1>1, <2>1, FS_AddElement
  <2>3. n = p
    BY <1>2, <2>1
  <2> QED
    BY <1>1, <1>2, <1>5, <2>2, <2>3 DEF AfterChar
<1>6. CASE t[p] # NewLine
  <2>1. N = B
    BY <1>4, <1>6
  <2>2. n = m
    BY <1>4, <1>6 DEF n, m
  <2> QED
    BY <1>1, <1>2, <1>6, <2>1, <2>2 DEF AfterChar
<1> QED
  BY <1>5, <1>6

(* The recursion in the fold of AfterChar; p holds where it begins, the    *)
(* characters, and the text and the position they are from.                *)
LineDom(p) == SUBSET DOMAIN p[2]
LineRank(p, s) == IF s = {} THEN 0 ELSE Max(s)
LineBody(p, f, s) == IF s = {} THEN p[1] ELSE AfterChar(f[s \ {Max(s)}], p[2][Max(s)])
LineFit(p, s, at) == \A k \in 0 .. Len(p[2]) : s = 1 .. k => at = Position(p[3], p[4] + k)
Line == INSTANCE Recursion WITH Dom <- LineDom, Rank <- LineRank, Body <- LineBody, Fit <- LineFit

LEMMA LineFold ==
  ASSUME NEW p
  PROVE  FoldLeft(AfterChar, p[1], p[2]) = Line!Defined(p)[DOMAIN p[2]]
BY Zenon DEF FoldLeft, MapThenFoldSet, Line!Defined, LineDom, LineBody

LEMMA GetChars ==
  ASSUME NEW t, NEW from \in Nat, from > 0, NEW chars \in Seq(STRING),
         \A k \in 1 .. Len(chars) : chars[k] = t[from + k - 1]
  PROVE  FoldLeft(AfterChar, Position(t, from), chars) = Position(t, from + Len(chars))
<1> DEFINE p == <<Position(t, from), chars, t, from>>
<1>1. p[1] = Position(t, from) /\ p[2] = chars /\ p[3] = t /\ p[4] = from
  OBVIOUS
<1> HIDE DEF p
<1>2. Len(chars) \in Nat /\ DOMAIN chars = 1 .. Len(chars)
  OBVIOUS
<1>3. ASSUME NEW s \in LineDom(p), NEW f, NEW g,
             s # {} => f[Line!Rest(s)] = g[Line!Rest(s)] /\ LineFit(p, Line!Rest(s), f[Line!Rest(s)])
      PROVE  LineBody(p, f, s) = LineBody(p, g, s) /\ LineFit(p, s, LineBody(p, f, s))
  <2>1. CASE s = {}
    <3>1. \A k \in 0 .. Len(chars) : s = 1 .. k => k = 0
      BY <1>2, <2>1
    <3>2. from + 0 = from
      OBVIOUS
    <3> QED
      BY <1>1, <2>1, <3>1, <3>2 DEF LineBody, LineFit
  <2>2. CASE s # {}
    <3> DEFINE r == Line!Rest(s)
    <3>1. /\ f[r] = g[r] /\ LineFit(p, r, f[r])
          /\ LineBody(p, f, s) = AfterChar(f[r], chars[Max(s)]) /\ LineBody(p, g, s) = AfterChar(g[r], chars[Max(s)])
      BY <1>1, <1>3, <2>2 DEF LineBody, Line!Rest, Line!Max, Max
    <3>2. ASSUME NEW k \in 0 .. Len(chars), s = 1 .. k
          PROVE  AfterChar(f[r], chars[Max(s)]) = Position(t, from + k)
      <4>1. k \in Nat /\ k > 0 /\ k - 1 \in 0 .. Len(chars) /\ k \in 1 .. Len(chars)
        BY <1>2, <2>2, <3>2
      <4>2. r = 1 .. k - 1 /\ Max(s) = k
        BY <3>2, <4>1, Line!Prefix DEF Line!Max, Max
      <4>3. f[r] = Position(t, from + (k - 1))
        BY <1>1, <3>1, <4>1, <4>2 DEF LineFit
      <4> HIDE DEF r
      <4> DEFINE q == from + (k - 1)
      <4>4. chars[k] = t[q] /\ q \in Nat /\ q > 0 /\ q + 1 = from + k
        <5>1. q = from + k - 1 /\ q \in Nat /\ q > 0 /\ q + 1 = from + k
          BY <4>1
        <5> HIDE DEF q
        <5> QED
          BY <4>1, <5>1
      <4> HIDE DEF q
      <4> QED
        BY <4>2, <4>3, <4>4, PositionNext DEF q
    <3> QED
      BY <1>1, <3>1, <3>2 DEF LineFit
  <2> QED
    BY <2>1, <2>2
<1>4. Line!FoldsOver(p, Len(chars))
  BY <1>1, <1>2, <1>3 DEF Line!FoldsOver, LineDom, LineRank, Line!Max, Max
<1>5. Line!LooksDown(p)
  BY <1>2, <1>4, Line!Folding
<1> DEFINE at == Line!Defined(p)[DOMAIN p[2]]
<1>6. LineFit(p, DOMAIN p[2], at)
  BY <1>5, Line!Unfolding DEF LineDom
<1>7. FoldLeft(AfterChar, p[1], p[2]) = at
  BY LineFold
<1> HIDE DEF at
<1>8. at = Position(t, from + Len(chars))
  <2>1. Len(chars) \in 0 .. Len(p[2]) /\ DOMAIN p[2] = 1 .. Len(chars)
    BY <1>1, <1>2
  <2>2. at = Position(p[3], p[4] + Len(chars))
    BY <1>6, <2>1 DEF LineFit
  <2> QED
    BY <1>1, <2>2
<1>9. FoldLeft(AfterChar, p[1], p[2]) = FoldLeft(AfterChar, Position(t, from), chars)
  BY <1>1
<1> QED
  BY <1>7, <1>8, <1>9

-----------------------------------------------------------------------------
(* What the longest lexeme at a place is, by the characters there.         *)
LEMMA LongestBlank ==
  ASSUME NEW t \in Seq(STRING), NEW p \in 1 .. Len(t), t[p] \in Blanks
  PROVE  /\ Longest(t, p) = p /\ Separates(Lexeme(t, p)) /\ ~IsNumber(Lexeme(t, p))
<1>1. Len(t) \in Nat /\ p \in p .. Len(t)
  OBVIOUS
<1>2. IsBlank(SubSeq(t, p, p)) /\ ~IsNumber(SubSeq(t, p, p))
  <2>1. p \in p .. p /\ t[p] \notin Digits
    BY Classes
  <2>2. IsBlank(SubSeq(t, p, p))
    BY <1>1, Shapes
  <2>3. IsNumber(SubSeq(t, p, p)) => t[p] \in Digits
    BY <1>1, <2>1, Shapes
  <2> QED
    BY <2>1, <2>2, <2>3
<1>3. \A r \in p+1 .. Len(t) : ~IsLexeme(SubSeq(t, p, r))
  <2> SUFFICES ASSUME NEW r \in p+1 .. Len(t), IsLexeme(SubSeq(t, p, r)) PROVE FALSE
    OBVIOUS
  <2>1. r \in p+1 .. Len(t) /\ r # p /\ t[p] # "/" /\ p \in p .. r
    BY <1>1, Classes
  <2>2. t[p] \notin Letters /\ t[p] \notin Digits /\ \A d : <<t[p], d>> \notin TwoCharKinds
    BY Classes, PairsAre
  <2> QED
    BY <2>1, <2>2, LexemeAt
<1>4. Longest(t, p) = p /\ Lexeme(t, p) = SubSeq(t, p, p)
  <2>1. IsLexeme(SubSeq(t, p, p))
    BY <1>2 DEF IsLexeme, Separates
  <2> QED
    BY <1>1, <1>3, <2>1, LongestIs
<1> QED
  BY <1>2, <1>4 DEF Separates

LEMMA LongestLineComment ==
  ASSUME NEW t \in Seq(STRING), NEW p \in 1 .. Len(t), NEW e \in p+1 .. Len(t),
         t[p] = "/", t[p+1] = "/", \A k \in p .. e : t[k] # NewLine,
         e < Len(t) => t[e+1] = NewLine
  PROVE  Longest(t, p) = e /\ Separates(Lexeme(t, p)) /\ ~IsNumber(Lexeme(t, p))
<1>1. Len(t) \in Nat /\ e \in p .. Len(t) /\ e > p /\ p \in p .. e
  OBVIOUS
<1>2. "/" \notin Blanks /\ "/" \notin Letters /\ "/" \notin Digits /\ "/" # "*"
  BY Classes
<1>3. IsLineComment(SubSeq(t, p, e)) /\ ~IsNumber(SubSeq(t, p, e))
  <2>1. IsLineComment(SubSeq(t, p, e))
    BY <1>1, Shapes
  <2>2. IsNumber(SubSeq(t, p, e)) => t[p] \in Digits
    BY <1>1, Shapes
  <2> QED
    BY <1>2, <2>1, <2>2
<1>4. ASSUME NEW r \in e+1 .. Len(t), IsLexeme(SubSeq(t, p, r)) PROVE FALSE
  <2>1. r \in p+1 .. Len(t) /\ r # p /\ r # p + 1 /\ p \in p .. r /\ e + 1 \in p .. r /\ t[e+1] = NewLine
    BY <1>1
  <2>2. \/ t[p] = "/" /\ t[p+1] = "/" /\ \A k \in p .. r : t[k] # NewLine
        \/ /\ t[p] = "/" /\ t[p+1] = "*"
           /\ \A k \in p+3 .. r : t[k-1] = "*" /\ t[k] = "/" => k = r
        \/ t[p] \in Letters /\ \A k \in p .. r : t[k] \in Letters \cup Digits
        \/ \A k \in p .. r : t[k] \in Digits
        \/ r = p + 1 /\ <<t[p], t[p+1]>> \in TwoCharKinds
    BY <1>4, <2>1, LexemeAt
  <2> QED
    BY <1>2, <2>1, <2>2
<1>5. IsLexeme(SubSeq(t, p, e))
  BY <1>3 DEF IsLexeme, Separates
<1>6. Longest(t, p) = e /\ Lexeme(t, p) = SubSeq(t, p, e)
  BY <1>1, <1>4, <1>5, LongestIs
<1> QED
  BY <1>3, <1>6 DEF Separates

LEMMA LongestBlockComment ==
  ASSUME NEW t \in Seq(STRING), NEW p \in 1 .. Len(t), NEW e \in p+1 .. Len(t),
         t[p] = "/", t[p+1] = "*",
         \A k \in p+3 .. e : t[k-1] = "*" /\ t[k] = "/" => k = e,
         e < Len(t) => e >= p+3 /\ t[e-1] = "*" /\ t[e] = "/"
  PROVE  Longest(t, p) = e /\ Separates(Lexeme(t, p)) /\ ~IsNumber(Lexeme(t, p))
<1>1. Len(t) \in Nat /\ e \in p .. Len(t) /\ e > p /\ p \in p .. e
  OBVIOUS
<1>2. "/" \notin Blanks /\ "/" \notin Letters /\ "/" \notin Digits /\ "/" # "*"
  BY Classes
<1>3. IsBlockComment(SubSeq(t, p, e)) /\ ~IsNumber(SubSeq(t, p, e))
  <2>1. IsBlockComment(SubSeq(t, p, e))
    BY <1>1, Shapes
  <2>2. IsNumber(SubSeq(t, p, e)) => t[p] \in Digits
    BY <1>1, Shapes
  <2> QED
    BY <1>2, <2>1, <2>2
<1>4. ASSUME NEW r \in e+1 .. Len(t), IsLexeme(SubSeq(t, p, r)) PROVE FALSE
  <2>1. /\ r \in p+1 .. Len(t) /\ r # p /\ r # p + 1 /\ p \in p .. r
        /\ e \in p+3 .. r /\ e # r /\ t[e-1] = "*" /\ t[e] = "/"
    BY <1>1
  <2>2. \/ t[p] = "/" /\ t[p+1] = "/" /\ \A k \in p .. r : t[k] # NewLine
        \/ /\ t[p] = "/" /\ t[p+1] = "*"
           /\ \A k \in p+3 .. r : t[k-1] = "*" /\ t[k] = "/" => k = r
        \/ t[p] \in Letters /\ \A k \in p .. r : t[k] \in Letters \cup Digits
        \/ \A k \in p .. r : t[k] \in Digits
        \/ r = p + 1 /\ <<t[p], t[p+1]>> \in TwoCharKinds
    BY <1>4, <2>1, LexemeAt
  <2> QED
    BY <1>2, <2>1, <2>2
<1>5. IsLexeme(SubSeq(t, p, e))
  BY <1>3 DEF IsLexeme, Separates
<1>6. Longest(t, p) = e /\ Lexeme(t, p) = SubSeq(t, p, e)
  BY <1>1, <1>4, <1>5, LongestIs
<1> QED
  BY <1>3, <1>6 DEF Separates

LEMMA LongestWord ==
  ASSUME NEW t \in Seq(STRING), NEW p \in 1 .. Len(t), NEW e \in p .. Len(t),
         t[p] \in Letters, \A k \in p .. e : t[k] \in Letters \cup Digits,
         e < Len(t) => t[e+1] \notin Letters \cup Digits
  PROVE  /\ Longest(t, p) = e /\ Lexeme(t, p) = SubSeq(t, p, e)
         /\ ~Separates(Lexeme(t, p)) /\ IsWord(Lexeme(t, p)) /\ ~IsNumber(Lexeme(t, p))
<1>1. Len(t) \in Nat /\ p \in p .. e
  OBVIOUS
<1>2. t[p] \notin Blanks /\ t[p] # "/" /\ t[p] \notin Digits /\ \A d : <<t[p], d>> \notin TwoCharKinds
  BY Classes, PairsAre
<1>3. IsWord(SubSeq(t, p, e)) /\ ~IsNumber(SubSeq(t, p, e)) /\ ~Separates(SubSeq(t, p, e))
  BY <1>1, <1>2, Shapes DEF Separates
<1>4. ASSUME NEW r \in e+1 .. Len(t), IsLexeme(SubSeq(t, p, r)) PROVE FALSE
  <2>1. r \in p+1 .. Len(t) /\ r # p /\ p \in p .. r /\ e + 1 \in p .. r /\ t[e+1] \notin Letters \cup Digits
    BY <1>1
  <2>2. \/ t[p] = "/" /\ t[p+1] = "/" /\ \A k \in p .. r : t[k] # NewLine
        \/ /\ t[p] = "/" /\ t[p+1] = "*"
           /\ \A k \in p+3 .. r : t[k-1] = "*" /\ t[k] = "/" => k = r
        \/ t[p] \in Letters /\ \A k \in p .. r : t[k] \in Letters \cup Digits
        \/ \A k \in p .. r : t[k] \in Digits
        \/ r = p + 1 /\ <<t[p], t[p+1]>> \in TwoCharKinds
    BY <1>4, <2>1, LexemeAt
  <2> QED
    BY <1>2, <2>1, <2>2
<1>5. IsLexeme(SubSeq(t, p, e))
  BY <1>3 DEF IsLexeme
<1>6. Longest(t, p) = e /\ Lexeme(t, p) = SubSeq(t, p, e)
  BY <1>1, <1>4, <1>5, LongestIs
<1> QED
  BY <1>3, <1>6

LEMMA LongestNumber ==
  ASSUME NEW t \in Seq(STRING), NEW p \in 1 .. Len(t), NEW e \in p .. Len(t),
         \A k \in p .. e : t[k] \in Digits, e < Len(t) => t[e+1] \notin Digits
  PROVE  /\ Longest(t, p) = e /\ Lexeme(t, p) = SubSeq(t, p, e)
         /\ ~Separates(Lexeme(t, p)) /\ ~IsWord(Lexeme(t, p)) /\ IsNumber(Lexeme(t, p))
<1>1. Len(t) \in Nat /\ p \in p .. e
  OBVIOUS
<1>2. t[p] \notin Blanks /\ t[p] # "/" /\ t[p] \notin Letters /\ \A d : <<t[p], d>> \notin TwoCharKinds
  BY <1>1, Classes, PairsAre
<1>3. ~IsWord(SubSeq(t, p, e)) /\ IsNumber(SubSeq(t, p, e)) /\ ~Separates(SubSeq(t, p, e))
  BY <1>1, <1>2, Shapes DEF Separates
<1>4. ASSUME NEW r \in e+1 .. Len(t), IsLexeme(SubSeq(t, p, r)) PROVE FALSE
  <2>1. r \in p+1 .. Len(t) /\ r # p /\ p \in p .. r /\ e + 1 \in p .. r /\ t[e+1] \notin Digits
    BY <1>1
  <2>2. \/ t[p] = "/" /\ t[p+1] = "/" /\ \A k \in p .. r : t[k] # NewLine
        \/ /\ t[p] = "/" /\ t[p+1] = "*"
           /\ \A k \in p+3 .. r : t[k-1] = "*" /\ t[k] = "/" => k = r
        \/ t[p] \in Letters /\ \A k \in p .. r : t[k] \in Letters \cup Digits
        \/ \A k \in p .. r : t[k] \in Digits
        \/ r = p + 1 /\ <<t[p], t[p+1]>> \in TwoCharKinds
    BY <1>4, <2>1, LexemeAt
  <2> QED
    BY <1>2, <2>1, <2>2
<1>5. IsLexeme(SubSeq(t, p, e))
  BY <1>3 DEF IsLexeme
<1>6. Longest(t, p) = e /\ Lexeme(t, p) = SubSeq(t, p, e)
  BY <1>1, <1>4, <1>5, LongestIs
<1> QED
  BY <1>3, <1>6

LEMMA LongestTwoChars ==
  ASSUME NEW t \in Seq(STRING), NEW p \in 1 .. Len(t), p + 1 \in 1 .. Len(t),
         <<t[p], t[p+1]>> \in TwoCharKinds
  PROVE  /\ Longest(t, p) = p + 1 /\ ~Separates(Lexeme(t, p)) /\ ~IsNumber(Lexeme(t, p))
         /\ \A at : View(Lexeme(t, p), at) = <<t[p] \o t[p+1], "", at>>
<1>1. Len(t) \in Nat /\ p + 1 \in p .. Len(t) /\ p \in p .. p + 1
  OBVIOUS
<1>2. /\ t[p] \notin Blanks \cup Letters \cup Digits
      /\ <<t[p], t[p+1]>> \notin {<<"/", "/">>, <<"/", "*">>}
  BY PairsAre
<1>3. ~(t[p] = "/" /\ t[p+1] \in {"/", "*"})
  BY <1>2
<1> DEFINE s == SubSeq(t, p, p + 1)
<1>4. /\ IsTwoChars(s) /\ ~IsWord(s) /\ ~IsNumber(s) /\ ~IsOneChar(s) /\ ~Separates(s)
      /\ s[1] = t[p] /\ s[2] = t[p+1]
  <2>1. IsTwoChars(s) /\ ~IsWord(s) /\ ~IsNumber(s) /\ ~IsOneChar(s) /\ ~Separates(s)
    BY <1>1, <1>2, <1>3, Shapes DEF Separates
  <2>2. p + 1 - p + 1 = 2 /\ 2 \in 1 .. p + 1 - p + 1 /\ p + 2 - 1 = p + 1
    BY <1>1
  <2>3. s[1] = t[p] /\ s[2] = t[p+1]
    BY <1>1, <2>2, Stretch
  <2> QED
    BY <2>1, <2>3
<1>5. ASSUME NEW r \in p+1+1 .. Len(t), IsLexeme(SubSeq(t, p, r)) PROVE FALSE
  <2>1. r \in p+1 .. Len(t) /\ r # p /\ r # p + 1 /\ p \in p .. r
    BY <1>1
  <2> QED
    BY <1>2, <1>3, <1>5, <2>1, LexemeAt
<1>6. IsLexeme(s)
  BY <1>4 DEF IsLexeme
<1>7. Longest(t, p) = p + 1 /\ Lexeme(t, p) = s
  BY <1>1, <1>5, <1>6, LongestIs
<1> HIDE DEF s
<1>8. KindOf(s) = t[p] \o t[p+1]
  BY <1>4 DEF KindOf
<1> QED
  BY <1>4, <1>7, <1>8 DEF View

LEMMA LongestOneChar ==
  ASSUME NEW t \in Seq(STRING), NEW p \in 1 .. Len(t),
         t[p] \notin Blanks \cup Letters \cup Digits,
         p < Len(t) => <<t[p], t[p+1]>> \notin TwoCharKinds \cup {<<"/", "/">>, <<"/", "*">>}
  PROVE  /\ Longest(t, p) = p /\ ~Separates(Lexeme(t, p)) /\ ~IsNumber(Lexeme(t, p))
         /\ \A at : View(Lexeme(t, p), at) = <<IF t[p] \in OneCharKinds THEN t[p] ELSE ";", "", at>>
<1>1. Len(t) \in Nat /\ p \in p .. Len(t) /\ p \in p .. p
  OBVIOUS
<1> DEFINE s == SubSeq(t, p, p)
<1>2. /\ ~IsTwoChars(s) /\ ~IsWord(s) /\ ~IsNumber(s) /\ (IsOneChar(s) <=> t[p] \in OneCharKinds)
      /\ ~Separates(s) /\ Len(s) = 1 /\ s[1] = t[p]
  <2>1. /\ ~IsTwoChars(s) /\ ~IsWord(s) /\ ~IsNumber(s) /\ (IsOneChar(s) <=> t[p] \in OneCharKinds)
        /\ ~Separates(s) /\ Len(s) = 1
    BY <1>1, Shapes DEF Separates
  <2>2. s[1] = t[p]
    BY <1>1, Stretch
  <2> QED
    BY <2>1, <2>2
<1>3. ASSUME NEW r \in p+1 .. Len(t), IsLexeme(SubSeq(t, p, r)) PROVE FALSE
  <2>1. r \in p+1 .. Len(t) /\ r # p /\ p \in p .. r /\ p < Len(t)
    BY <1>1
  <2>2. ~(t[p] = "/" /\ t[p+1] \in {"/", "*"}) /\ <<t[p], t[p+1]>> \notin TwoCharKinds
    BY <2>1
  <2> QED
    BY <1>3, <2>1, <2>2, LexemeAt
<1>4. IsLexeme(s)
  BY <1>2 DEF IsLexeme
<1>5. Longest(t, p) = p /\ Lexeme(t, p) = s
  BY <1>1, <1>3, <1>4, LongestIs
<1> HIDE DEF s
<1>6. KindOf(s) = IF t[p] \in OneCharKinds THEN t[p] ELSE ";"
  BY <1>2 DEF KindOf
<1> QED
  BY <1>2, <1>5, <1>6 DEF View

-----------------------------------------------------------------------------
(* The recursion in FlattenSeq, over the positions of a sequence.          *)
FlatDom(ss) == 1 .. Len(ss)
FlatRank(ss, k) == k
FlatBody(ss, f, k) == IF k = 1 THEN ss[k] ELSE f[k-1] \o ss[k]
FlatFit(ss, k, v) == \A S : (\A n \in 1 .. Len(ss) : ss[n] \in Seq(S)) => v \in Seq(S)
Flat == INSTANCE Recursion WITH Dom <- FlatDom, Rank <- FlatRank, Body <- FlatBody, Fit <- FlatFit

(* What the lexemes that begin at the first k positions owe the parser.    *)
Pieces(t) == [p \in 1 .. Len(t) |-> Views(t, Begins(t), p)]
Known(t, k) == IF k = 0 THEN << >> ELSE Flat!Defined(Pieces(t))[k]
Owed(t, p) == View(Lexeme(t, p), Position(t, p))
AllOwed(t) == {Owed(t, p) : p \in 1 .. Len(t)}

LEMMA KnownIs ==
  ASSUME NEW t \in Seq(STRING)
  PROVE  /\ Known(t, 0) = << >>
         /\ \A k \in 0 .. Len(t) : Known(t, k) \in Seq(AllOwed(t))
         /\ \A k \in 1 .. Len(t) :
              Known(t, k) = IF Begins(t)[k] /\ ~Separates(Lexeme(t, k))
                              THEN Append(Known(t, k-1), Owed(t, k)) ELSE Known(t, k-1)
         /\ FlattenSeq(Pieces(t)) = Known(t, Len(t))
<1> DEFINE ss == Pieces(t)
           S == AllOwed(t)
           F == Flat!Defined(ss)
<1>1. Len(t) \in Nat
  OBVIOUS
<1>2. /\ Len(ss) = Len(t)
      /\ \A k \in 1 .. Len(t) : ss[k] = IF Begins(t)[k] /\ ~Separates(Lexeme(t, k)) THEN << Owed(t, k) >> ELSE << >>
      /\ \A k \in 1 .. Len(t) : Owed(t, k) \in S
  BY <1>1 DEF Pieces, Views, Owed, AllOwed
<1>3. Len(t) = 0 => ss = << >>
  BY DEF Pieces
<1> HIDE DEF ss, S, F
<1>4. ASSUME NEW k \in 1 .. Len(t) PROVE ss[k] \in Seq(S)
  <2> DEFINE v == Owed(t, k)
  <2>1. v \in S /\ (ss[k] = << v >> \/ ss[k] = << >>)
    BY <1>2
  <2> HIDE DEF v
  <2>2. << v >> \in Seq(S)
    BY <2>1
  <2>3. << >> \in Seq(S)
    OBVIOUS
  <2> QED
    BY <2>1, <2>2, <2>3
<1>5. Flat!LooksDown(ss)
  <2>1. ASSUME NEW k \in 1 .. Len(t), NEW f, NEW g, Flat!FitBelow(ss, f, k), Flat!Agree(ss, f, g, k)
        PROVE  FlatBody(ss, f, k) = FlatBody(ss, g, k) /\ FlatFit(ss, k, FlatBody(ss, f, k))
    <3>1. CASE k = 1
      BY <1>2, <3>1 DEF FlatBody, FlatFit
    <3>2. CASE k # 1
      <4>1. k - 1 \in 1 .. Len(t) /\ k - 1 < k
        BY <3>2
      <4>2. f[k-1] = g[k-1] /\ FlatFit(ss, k-1, f[k-1])
        BY <1>2, <2>1, <4>1 DEF Flat!Agree, Flat!FitBelow, FlatDom, FlatRank
      <4>3. ASSUME NEW R, \A n \in 1 .. Len(ss) : ss[n] \in Seq(R)
            PROVE  f[k-1] \o ss[k] \in Seq(R)
        <5>1. f[k-1] \in Seq(R) /\ ss[k] \in Seq(R)
          BY <1>2, <4>2, <4>3 DEF FlatFit
        <5> QED
          BY <5>1
      <4> QED
        BY <3>2, <4>2, <4>3 DEF FlatBody, FlatFit
    <3> QED
      BY <3>1, <3>2
  <2> QED
    BY <1>2, <2>1 DEF Flat!LooksDown, FlatDom, FlatRank
<1>6. /\ F = [k \in FlatDom(ss) |-> FlatBody(ss, F, k)]
      /\ \A k \in FlatDom(ss) : FlatFit(ss, k, F[k])
  BY <1>5, Flat!Unfolding DEF F
<1>7. \A k \in 1 .. Len(t) : F[k] = (IF k = 1 THEN ss[k] ELSE F[k-1] \o ss[k]) /\ F[k] \in Seq(S)
  <2> SUFFICES ASSUME NEW k \in 1 .. Len(t)
               PROVE  F[k] = (IF k = 1 THEN ss[k] ELSE F[k-1] \o ss[k]) /\ F[k] \in Seq(S)
    OBVIOUS
  <2>1. k \in FlatDom(ss)
    BY <1>2 DEF FlatDom
  <2>2. F[k] = FlatBody(ss, F, k)
    BY <1>6, <2>1
  <2>3. F[k] \in Seq(S)
    BY <1>2, <1>4, <1>6, <2>1 DEF FlatFit
  <2> QED
    BY <2>2, <2>3 DEF FlatBody
<1>8. \A k \in Nat : Known(t, k) = IF k = 0 THEN << >> ELSE F[k]
  BY DEF Known, F, ss
<1>9. ASSUME NEW k \in 0 .. Len(t) PROVE Known(t, k) \in Seq(S)
  <2>1. CASE k = 0
    <3>1. Known(t, k) = << >>
      BY <1>8, <2>1
    <3>2. << >> \in Seq(S)
      OBVIOUS
    <3> QED
      BY <3>1, <3>2
  <2>2. CASE k # 0
    <3>1. k \in 1 .. Len(t) /\ k \in Nat
      BY <2>2
    <3>2. F[k] \in Seq(S)
      BY <1>7, <3>1
    <3>3. Known(t, k) = F[k]
      BY <1>8, <2>2, <3>1
    <3> QED
      BY <3>2, <3>3
  <2> QED
    BY <2>1, <2>2
<1>10. ASSUME NEW k \in 1 .. Len(t)
       PROVE  Known(t, k) = IF Begins(t)[k] /\ ~Separates(Lexeme(t, k))
                              THEN Append(Known(t, k-1), Owed(t, k)) ELSE Known(t, k-1)
  <2>1. k - 1 \in 0 .. Len(t) /\ Known(t, k-1) \in Seq(S) /\ k # 0
    BY <1>9
  <2>2. Known(t, k) = Known(t, k-1) \o ss[k]
    <3>1. CASE k = 1
      <4>1. F[k] = ss[k]
        BY <1>7, <3>1
      <4>2. Known(t, k) = F[k]
        BY <1>8, <3>1
      <4>3. Known(t, k-1) = << >>
        BY <1>8, <3>1
      <4>4. ss[k] \in Seq(S)
        BY <1>4
      <4> DEFINE u == ss[k]
      <4> HIDE DEF u
      <4>5. << >> \o u = u
        BY <4>4 DEF u
      <4> QED
        BY <4>1, <4>2, <4>3, <4>5 DEF u
    <3>2. CASE k # 1
      <4>1. F[k] = F[k-1] \o ss[k]
        BY <1>7, <3>2
      <4>2. k \in Nat /\ k - 1 \in Nat /\ k # 0 /\ k - 1 # 0
        BY <3>2
      <4>3. Known(t, k) = F[k] /\ Known(t, k-1) = F[k-1]
        BY <1>8, <4>2
      <4> QED
        BY <4>1, <4>3
    <3> QED
      BY <3>1, <3>2
  <2> DEFINE K == Known(t, k-1)
             v == Owed(t, k)
  <2>3. K \in Seq(S) /\ v \in S
    BY <1>2, <2>1
  <2> HIDE DEF K, v
  <2>4. K \o << >> = K /\ K \o << v >> = Append(K, v)
    BY <2>3
  <2> QED
    BY <1>2, <2>2, <2>4 DEF K, v
<1>11. FlattenSeq(ss) = Known(t, Len(t))
  <2>1. CASE Len(t) = 0
    <3>1. FlattenSeq(ss) = ss
      BY <1>2, <2>1 DEF FlattenSeq
    <3> QED
      BY <1>3, <1>8, <2>1, <3>1
  <2>2. CASE Len(t) # 0
    <3>1. FlattenSeq(ss) = F[Len(ss)]
      BY <1>2, <2>2 DEF FlattenSeq, F, Flat!Defined, FlatDom, FlatBody
    <3> QED
      BY <1>1, <1>2, <1>8, <2>2, <3>1
  <2> QED
    BY <2>1, <2>2
<1> QED
  BY <1>1, <1>8, <1>9, <1>10, <1>11 DEF ss, S

(* What is owed for the first positions comes first.                       *)
LEMMA KnownFirst ==
  ASSUME NEW t \in Seq(STRING), NEW j \in 0 .. Len(t), NEW k \in j .. Len(t)
  PROVE  Len(Known(t, j)) <= Len(Known(t, k)) /\ \A n \in 1 .. Len(Known(t, j)) : Known(t, k)[n] = Known(t, j)[n]
<1> DEFINE Before(m) == /\ Len(Known(t, j)) <= Len(Known(t, m))
                        /\ \A n \in 1 .. Len(Known(t, j)) : Known(t, m)[n] = Known(t, j)[n]
           S == {m \in Nat : j <= m /\ m <= Len(t) => Before(m)}
<1>1. ASSUME NEW m \in Nat, \A l \in Nat : l < m => l \in S
      PROVE  m \in S
  <2> SUFFICES ASSUME j <= m, m <= Len(t) PROVE Before(m)
    OBVIOUS
  <2>1. CASE m = j
    <3>1. Known(t, j) \in Seq(AllOwed(t))
      BY KnownIs
    <3> QED
      BY <2>1, <3>1
  <2>2. CASE m # j
    <3>1. m - 1 \in Nat /\ m - 1 < m /\ j <= m - 1 /\ m - 1 <= Len(t) /\ m \in 1 .. Len(t) /\ m - 1 \in 0 .. Len(t)
      BY <2>2
    <3>2. Before(m - 1)
      BY <1>1, <3>1
    <3> DEFINE J == Known(t, j)
               K == Known(t, m - 1)
               v == Owed(t, m)
    <3>3. /\ J \in Seq(AllOwed(t)) /\ K \in Seq(AllOwed(t)) /\ v \in AllOwed(t)
          /\ Known(t, m) = Append(K, v) \/ Known(t, m) = K
      <4>1. v \in AllOwed(t)
        BY <3>1 DEF AllOwed
      <4> QED
        BY <3>1, <4>1, KnownIs
    <3>4. Len(J) <= Len(K) /\ \A n \in 1 .. Len(J) : K[n] = J[n]
      BY <3>2
    <3> HIDE DEF J, K, v
    <3>5. Len(J) <= Len(Append(K, v)) /\ \A n \in 1 .. Len(J) : Append(K, v)[n] = J[n]
      BY <3>3, <3>4
    <3>6. Len(J) <= Len(Known(t, m)) /\ \A n \in 1 .. Len(J) : Known(t, m)[n] = J[n]
      BY <3>3, <3>4, <3>5
    <3> QED
      BY <3>6 DEF J
  <2> QED
    BY <2>1, <2>2
<1>2. S = Nat
  <2>1. S \in SUBSET Nat
    OBVIOUS
  <2> HIDE DEF S
  <2> QED
    BY <1>1, <2>1, Start!Induction
<1>3. k \in S /\ j <= k /\ k <= Len(t)
  <2> HIDE DEF S
  <2> QED
    BY <1>2
<1> QED
  BY <1>3

(* Where nothing begins, nothing is owed.                                  *)
LEMMA KnownGap ==
  ASSUME NEW t \in Seq(STRING), NEW j \in 0 .. Len(t), NEW k \in j .. Len(t),
         \A r \in j+1 .. k : ~Begins(t)[r]
  PROVE  Known(t, k) = Known(t, j)
<1> DEFINE S == {m \in Nat : j <= m /\ m <= k => Known(t, m) = Known(t, j)}
<1>1. ASSUME NEW m \in Nat, \A l \in Nat : l < m => l \in S
      PROVE  m \in S
  <2> SUFFICES ASSUME j <= m, m <= k, m # j PROVE Known(t, m) = Known(t, j)
    OBVIOUS
  <2>1. m - 1 \in Nat /\ m - 1 < m /\ j <= m - 1 /\ m - 1 <= k /\ m \in 1 .. Len(t) /\ m \in j+1 .. k
    OBVIOUS
  <2>2. Known(t, m - 1) = Known(t, j)
    BY <1>1, <2>1
  <2>3. Known(t, m) = Known(t, m - 1)
    BY <2>1, KnownIs
  <2> QED
    BY <2>2, <2>3
<1>2. S = Nat
  <2>1. S \in SUBSET Nat
    OBVIOUS
  <2> HIDE DEF S
  <2> QED
    BY <1>1, <2>1, Start!Induction
<1>3. k \in S /\ j <= k /\ k <= k
  <2> HIDE DEF S
  <2> QED
    BY <1>2
<1> QED
  BY <1>3

(* The recursion in the fold of ValueOf.                                   *)
FigureOf(c) == CHOOSE d \in 1 .. 10 : Figures[d] = c
ValueDom(chars) == SUBSET DOMAIN chars
ValueRank(chars, s) == IF s = {} THEN 0 ELSE Max(s)
ValueBody(chars, f, s) == IF s = {} THEN 0 ELSE 10 * f[s \ {Max(s)}] + FigureOf(chars[Max(s)]) - 1
ValueFit(chars, s, n) == n \in Nat
Val == INSTANCE Recursion WITH Dom <- ValueDom, Rank <- ValueRank, Body <- ValueBody, Fit <- ValueFit

LEMMA ValueFold ==
  ASSUME NEW chars
  PROVE  ValueOf(chars) = Val!Defined(chars)[DOMAIN chars]
BY Zenon DEF ValueOf, FoldLeft, MapThenFoldSet, Val!Defined, ValueDom, ValueBody, FigureOf

LEMMA ValueType ==
  ASSUME NEW chars \in Seq(STRING), \A k \in 1 .. Len(chars) : chars[k] \in Digits
  PROVE  ValueOf(chars) \in Nat
<1>1. Len(chars) \in Nat /\ DOMAIN chars = 1 .. Len(chars)
  OBVIOUS
<1>2. \A c \in Digits : FigureOf(c) \in 1 .. 10
  BY FiguresAre DEF FigureOf
<1>3. ASSUME NEW s \in ValueDom(chars), NEW f, NEW g,
             s # {} => f[Val!Rest(s)] = g[Val!Rest(s)] /\ ValueFit(chars, Val!Rest(s), f[Val!Rest(s)])
      PROVE  ValueBody(chars, f, s) = ValueBody(chars, g, s) /\ ValueFit(chars, s, ValueBody(chars, f, s))
  <2>1. CASE s = {}
    BY <2>1 DEF ValueBody, ValueFit
  <2>2. CASE s # {}
    <3> DEFINE r == Val!Rest(s)
               d == FigureOf(chars[Max(s)])
    <3>1. /\ f[r] = g[r] /\ f[r] \in Nat
          /\ ValueBody(chars, f, s) = 10 * f[r] + d - 1 /\ ValueBody(chars, g, s) = 10 * g[r] + d - 1
      BY <1>3, <2>2 DEF ValueBody, ValueFit, Val!Rest, Val!Max, Max
    <3>2. d \in 1 .. 10
      <4>1. Max(s) \in s
        BY <1>1, <2>2, MaxOf DEF ValueDom
      <4> DEFINE m == Max(s)
      <4> HIDE DEF m
      <4>2. m \in 1 .. Len(chars)
        BY <1>1, <4>1 DEF m, ValueDom
      <4> QED
        BY <1>2, <4>2 DEF m
    <3> HIDE DEF r, d
    <3>3. 10 * f[r] + d - 1 \in Nat
      BY <3>1, <3>2
    <3> QED
      BY <3>1, <3>3 DEF ValueFit
  <2> QED
    BY <2>1, <2>2
<1>4. Val!FoldsOver(chars, Len(chars))
  BY <1>1, <1>3 DEF Val!FoldsOver, ValueDom, ValueRank, Val!Max, Max
<1>5. Val!LooksDown(chars)
  BY <1>1, <1>4, Val!Folding
<1> DEFINE n == Val!Defined(chars)[DOMAIN chars]
<1>6. ValueFit(chars, DOMAIN chars, n)
  BY <1>5, Val!Unfolding DEF ValueDom
<1>7. ValueOf(chars) = n
  BY ValueFold
<1> QED
  BY <1>6, <1>7 DEF ValueFit

-----------------------------------------------------------------------------
(* The invariant: the next character begins a lexeme, the lexemes before   *)
(* it are the tokens so far, and each literal among them fits.             *)
Seen(ts) == [n \in DOMAIN ts |-> <<ts[n].k, ts[n].x, <<ts[n].line, ts[n].col>>>>]
EofAt(t) == <<"eof", "", Position(t, Len(t) + 1)>>

At(t, p) ==
  /\ p \in 1 .. Len(t) + 1
  /\ p <= Len(t) => Begins(t)[p]
  /\ \A r \in 1 .. p-1 : Begins(t)[r] => Longest(t, r) < p

TooLarge(t, p) == IsNumber(Lexeme(t, p)) /\ ValueOf(Lexeme(t, p)) > MaxInt

Lexed(t, p, ts, st) ==
  /\ At(t, p)
  /\ \E S : ts \in Seq(S)
  /\ st \in {"lexing", "done", "aborted"}
  /\ st # "done" => Seen(ts) = Known(t, p - 1)
  /\ st = "done" => p = Len(t) + 1 /\ Seen(ts) = Append(Known(t, Len(t)), EofAt(t))
  /\ st = "aborted" => p <= Len(t) /\ TooLarge(t, p)
  /\ \A r \in 1 .. p-1 : Begins(t)[r] => ~TooLarge(t, r)

LInv ==
  /\ src \in Texts
  /\ <<line, col>> = Position(Text, i)
  /\ Lexed(Text, i, toks, status)

(* Nothing begins within a lexeme, and the next one begins behind it.      *)
LEMMA NextAt ==
  ASSUME NEW t \in Seq(STRING), NEW p \in 1 .. Len(t), At(t, p)
  PROVE  /\ Longest(t, p) \in p .. Len(t)
         /\ At(t, Longest(t, p) + 1)
         /\ \A r \in p+1 .. Longest(t, p) : ~Begins(t)[r]
<1> DEFINE e == Longest(t, p)
<1>1. e \in p .. Len(t) /\ Len(t) \in Nat
  BY LongestIn
<1>2. Begins(t)[p]
  BY DEF At
<1>3. \A r \in p+1 .. e : ~Begins(t)[r]
  <2> DEFINE R == {r \in p+1 .. e : Begins(t)[r]}
  <2> SUFFICES ASSUME R # {} PROVE FALSE
    OBVIOUS
  <2> DEFINE m == Min(R)
  <2>1. m \in R /\ \A r \in R : m <= r
    <3>1. R \in SUBSET Nat
      BY <1>1
    <3> HIDE DEF R
    <3> QED
      BY <3>1, MinOf
  <2> HIDE DEF m
  <2>2. m \in p+1 .. e /\ Begins(t)[m] /\ m \in 1 .. Len(t) /\ m # 1
    BY <1>1, <2>1
  <2>3. PICK r \in 1 .. m-1 : Begins(t)[r] /\ Longest(t, r) = m-1
    BY <1>1, <2>2, BeginsAt
  <2>4. CASE r < p
    <3>1. Longest(t, r) < p
      BY <2>3, <2>4 DEF At
    <3> QED
      BY <2>2, <2>3, <3>1
  <2>5. CASE r = p
    BY <1>1, <2>2, <2>3, <2>5
  <2>6. CASE r > p
    <3>1. r \in R /\ ~(m <= r)
      BY <1>1, <2>2, <2>3, <2>6
    <3> QED
      BY <2>1, <3>1
  <2> QED
    BY <2>2, <2>3, <2>4, <2>5, <2>6
<1> HIDE DEF e
<1>4. e + 1 \in 1 .. Len(t) + 1
  BY <1>1
<1>5. e + 1 <= Len(t) => Begins(t)[e + 1]
  <2> SUFFICES ASSUME e + 1 <= Len(t) PROVE Begins(t)[e + 1]
    OBVIOUS
  <2>1. e + 1 \in 1 .. Len(t) /\ p \in 1 .. (e + 1) - 1 /\ Longest(t, p) = (e + 1) - 1
    BY <1>1 DEF e
  <2> DEFINE q == e + 1
  <2> HIDE DEF q
  <2>2. q \in 1 .. Len(t) /\ p \in 1 .. q - 1 /\ Longest(t, p) = q - 1
    BY <2>1 DEF q
  <2>3. Begins(t)[q]
    BY <1>1, <1>2, <2>2, BeginsAt
  <2> QED
    BY <2>3 DEF q
<1>6. ASSUME NEW r \in 1 .. (e + 1) - 1, Begins(t)[r] PROVE Longest(t, r) < e + 1
  <2>1. CASE r < p
    <3>1. r \in 1 .. Len(t) /\ Longest(t, r) < p
      BY <1>1, <1>6, <2>1 DEF At
    <3>2. Longest(t, r) \in r .. Len(t)
      BY <3>1, LongestIn
    <3> QED
      BY <1>1, <3>1, <3>2
  <2>2. CASE r = p
    BY <1>1, <2>2 DEF e
  <2>3. CASE r > p
    BY <1>1, <1>3, <1>6, <2>3
  <2> QED
    BY <2>1, <2>2, <2>3
<1> QED
  BY <1>1, <1>3, <1>4, <1>5, <1>6 DEF At, e

LEMMA SeenMore ==
  ASSUME NEW S, NEW ts \in Seq(S), NEW tok
  PROVE  /\ Append(ts, tok) \in Seq(S \cup {tok})
         /\ \A R : Seen(ts) \in Seq(R) =>
              Seen(Append(ts, tok)) = Append(Seen(ts), <<tok.k, tok.x, <<tok.line, tok.col>>>>)
<1> DEFINE us == Append(ts, tok)
           v == <<tok.k, tok.x, <<tok.line, tok.col>>>>
           n == Len(ts)
<1>1. n \in Nat /\ DOMAIN ts = 1 .. n
  OBVIOUS
<1>2. /\ us \in Seq(S \cup {tok}) /\ Len(us) = n + 1 /\ DOMAIN us = 1 .. n + 1
      /\ us[n+1] = tok /\ \A k \in 1 .. n : us[k] = ts[k]
  <2>1. ts \in Seq(S \cup {tok})
    OBVIOUS
  <2> QED
    BY <2>1
<1> HIDE DEF us, v
<1>3. /\ Seen(us) = [k \in 1 .. n + 1 |-> <<us[k].k, us[k].x, <<us[k].line, us[k].col>>>>]
      /\ Seen(ts) = [k \in 1 .. n |-> <<ts[k].k, ts[k].x, <<ts[k].line, ts[k].col>>>>]
  BY <1>1, <1>2 DEF Seen
<1> DEFINE A == Seen(us)
           B == Seen(ts)
<1>4. /\ A = [k \in 1 .. n + 1 |-> A[k]] /\ A[n+1] = v /\ \A k \in 1 .. n : A[k] = B[k]
      /\ B = [k \in 1 .. n |-> B[k]] /\ Len(B) = n
  <2>1. n + 1 \in 1 .. n + 1 /\ \A k \in 1 .. n : k \in 1 .. n + 1
    BY <1>1
  <2>2. A[n+1] = <<us[n+1].k, us[n+1].x, <<us[n+1].line, us[n+1].col>>>>
    BY <1>3, <2>1
  <2>3. A[n+1] = v
    BY <1>2, <2>2 DEF v
  <2>4. \A k \in 1 .. n : A[k] = B[k]
    BY <1>2, <1>3, <2>1
  <2>5. Len(B) = n
    BY <1>1, <1>3
  <2>6. A = [k \in 1 .. n + 1 |-> A[k]] /\ B = [k \in 1 .. n |-> B[k]]
    BY <1>3
  <2> QED
    BY <2>3, <2>4, <2>5, <2>6
<1> HIDE DEF A, B
<1>5. ASSUME NEW R, B \in Seq(R) PROVE A = Append(B, v)
  <2> DEFINE D == Append(B, v)
  <2>1. /\ Len(D) = n + 1 /\ D \in Seq(R \cup {v}) /\ D[n+1] = v
        /\ \A k \in 1 .. n : D[k] = B[k]
    <3>1. B \in Seq(R \cup {v})
      BY <1>5
    <3> QED
      BY <1>4, <3>1
  <2> HIDE DEF D
  <2>2. D = [k \in 1 .. n + 1 |-> D[k]]
    BY <2>1
  <2>3. \A k \in 1 .. n + 1 : A[k] = D[k]
    <3>1. \A k \in 1 .. n + 1 : k = n + 1 \/ k \in 1 .. n
      BY <1>1
    <3> QED
      BY <1>4, <2>1, <3>1
  <2>4. A = D
    BY <1>4, <2>2, <2>3
  <2> QED
    BY <2>4 DEF D
<1> QED
  BY <1>2, <1>5 DEF us, v, A, B

(* Behind a lexeme, the invariant holds if what it owes has been paid.     *)
LEMMA Turn ==
  ASSUME NEW t \in Seq(STRING), NEW p \in 1 .. Len(t), NEW ts, Lexed(t, p, ts, "lexing"), ~TooLarge(t, p),
         NEW q, q = Longest(t, p) + 1
  PROVE  /\ Separates(Lexeme(t, p)) => Lexed(t, q, ts, "lexing")
         /\ ~Separates(Lexeme(t, p)) =>
              \A tok : <<tok.k, tok.x, <<tok.line, tok.col>>>> = Owed(t, p) => Lexed(t, q, Append(ts, tok), "lexing")
<1>1. At(t, p) /\ Seen(ts) = Known(t, p - 1) /\ \A r \in 1 .. p-1 : Begins(t)[r] => ~TooLarge(t, r)
  BY DEF Lexed
<1>2. PICK S : ts \in Seq(S)
  BY DEF Lexed
<1>3. q - 1 = Longest(t, p) /\ q - 1 \in p .. Len(t) /\ At(t, q) /\ \A r \in p+1 .. q-1 : ~Begins(t)[r]
  <2> DEFINE e == Longest(t, p)
  <2>1. e \in p .. Len(t) /\ At(t, e + 1) /\ \A r \in p+1 .. e : ~Begins(t)[r]
    BY <1>1, NextAt
  <2> HIDE DEF e
  <2>2. q = e + 1 /\ q - 1 = e
    BY <2>1 DEF e
  <2> QED
    BY <2>1, <2>2 DEF e
<1>4. \A r \in 1 .. q-1 : Begins(t)[r] => ~TooLarge(t, r)
  <2>1. \A r \in 1 .. q-1 : r \in 1 .. p-1 \/ r = p \/ r \in p+1 .. q-1
    BY <1>3
  <2> QED
    BY <1>1, <1>3, <2>1
<1>5. Known(t, q - 1) = Known(t, p) /\ Begins(t)[p]
  <2>1. p \in 0 .. Len(t)
    OBVIOUS
  <2> DEFINE e == q - 1
  <2>2. e \in p .. Len(t) /\ \A r \in p+1 .. e : ~Begins(t)[r]
    BY <1>3
  <2> HIDE DEF e
  <2>3. Known(t, e) = Known(t, p)
    BY <2>1, <2>2, KnownGap
  <2> QED
    BY <1>1, <2>3 DEF e, At
<1>6. Known(t, p) = IF ~Separates(Lexeme(t, p)) THEN Append(Known(t, p - 1), Owed(t, p)) ELSE Known(t, p - 1)
  BY <1>5, KnownIs
<1>7. ASSUME Separates(Lexeme(t, p)) PROVE Lexed(t, q, ts, "lexing")
  <2>1. Seen(ts) = Known(t, q - 1)
    BY <1>1, <1>5, <1>6, <1>7
  <2> QED
    BY <1>2, <1>3, <1>4, <2>1 DEF Lexed
<1>8. ASSUME ~Separates(Lexeme(t, p)), NEW tok, <<tok.k, tok.x, <<tok.line, tok.col>>>> = Owed(t, p)
      PROVE  Lexed(t, q, Append(ts, tok), "lexing")
  <2>1. Known(t, p - 1) \in Seq(AllOwed(t))
    <3>1. p - 1 \in 0 .. Len(t)
      OBVIOUS
    <3> QED
      BY <3>1, KnownIs
  <2>2. Append(ts, tok) \in Seq(S \cup {tok}) /\ Seen(Append(ts, tok)) = Append(Seen(ts), Owed(t, p))
    BY <1>1, <1>2, <1>8, <2>1, SeenMore
  <2>3. Seen(Append(ts, tok)) = Known(t, q - 1)
    BY <1>1, <1>5, <1>6, <1>8, <2>2
  <2> QED
    BY <1>3, <1>4, <2>2, <2>3 DEF Lexed
<1> QED
  BY <1>7, <1>8

-----------------------------------------------------------------------------
(* The characters ahead, and what reading them does.                       *)
LEMMA Ahead ==
  ASSUME LInv
  PROVE  /\ src \in Seq(STRING) /\ Text \in Seq(STRING) /\ Len(Text) \in Nat /\ Len(Text) <= Len(src)
         /\ i \in 1 .. Len(Text) + 1 /\ i \in Nat
         /\ i <= Len(Text) => C = Text[i] /\ C # NUL
         /\ i = Len(Text) + 1 <=> C = NUL
         /\ i < Len(Text) => CharAt(i+1) = Text[i+1] /\ CharAt(i+1) # NUL
         /\ i = Len(Text) => CharAt(i+1) = NUL
<1>1. src \in Seq(STRING) /\ i \in 1 .. Len(Text) + 1
  BY LexerAssumption DEF LInv, Lexed, At
<1>2. /\ Text \in Seq(STRING) /\ Len(Text) \in Nat /\ Len(Text) <= Len(src)
      /\ \A q \in 1 .. Len(Text) : CharAt(q) = Text[q] /\ Text[q] # NUL
      /\ CharAt(Len(Text) + 1) = NUL
  BY <1>1, TextIs
<1> QED
  BY <1>1, <1>2 DEF C

LEMMA SameStretch ==
  ASSUME LInv, NEW e \in i .. Len(Text)
  PROVE  SubSeq(src, i, e) = SubSeq(Text, i, e)
<1>1. /\ src \in Seq(STRING) /\ Text \in Seq(STRING) /\ Len(Text) \in Nat /\ Len(Text) <= Len(src) /\ Len(src) \in Nat
      /\ i \in 1 .. Len(Text) /\ e \in i .. Len(Text) /\ i \in 1 .. Len(src) /\ e \in i .. Len(src)
  BY Ahead
<1>2. \A q \in 1 .. Len(Text) : src[q] = Text[q]
  BY <1>1, TextIs
<1> DEFINE a == SubSeq(src, i, e)
           b == SubSeq(Text, i, e)
           n == e - i + 1
<1>3. a \in Seq(STRING) /\ DOMAIN a = 1 .. n /\ \A k \in 1 .. n : a[k] = src[i + k - 1]
  BY <1>1, Stretch
<1>4. b \in Seq(STRING) /\ DOMAIN b = 1 .. n /\ \A k \in 1 .. n : b[k] = Text[i + k - 1]
  BY <1>1, Stretch
<1> HIDE DEF a, b
<1>5. \A k \in 1 .. n : a[k] = b[k]
  <2>1. \A k \in 1 .. n : i + k - 1 \in 1 .. Len(Text)
    BY <1>1
  <2> QED
    BY <1>2, <1>3, <1>4, <2>1
<1>6. a = [k \in 1 .. n |-> a[k]] /\ b = [k \in 1 .. n |-> b[k]]
  BY <1>3, <1>4
<1>7. a = b
  BY <1>5, <1>6
<1> QED
  BY <1>7 DEF a, b

LEMMA Moves ==
  ASSUME LInv, NEW q, q - 1 \in i .. Len(Text), q \in Nat, GetTo(q)
  PROVE  i' = q /\ <<line', col'>> = Position(Text, q)
<1>1. /\ Text \in Seq(STRING) /\ Len(Text) \in Nat /\ i \in Nat /\ i > 0 /\ i \in 1 .. Len(Text)
      /\ <<line, col>> = Position(Text, i)
  BY Ahead DEF LInv
<1> DEFINE e == q - 1
           s == SubSeq(src, i, e)
           at == FoldLeft(AfterChar, <<line, col>>, s)
<1>2. s = SubSeq(Text, i, e)
  BY SameStretch
<1>3. s \in Seq(STRING) /\ Len(s) = e - i + 1 /\ \A k \in 1 .. e - i + 1 : s[k] = Text[i + k - 1]
  BY <1>1, <1>2, Stretch
<1> HIDE DEF s
<1>4. at = Position(Text, i + Len(s))
  BY <1>1, <1>3, GetChars
<1>5. i + Len(s) = q
  BY <1>1, <1>3
<1>6. i' = q /\ line' = at[1] /\ col' = at[2]
  BY DEF GetTo, s
<1>7. \E a, b : Position(Text, q) = <<a, b>>
  BY DEF Position
<1> HIDE DEF at
<1> QED
  BY <1>4, <1>5, <1>6, <1>7

LEMMA Passing ==
  ASSUME LInv, status = "lexing", i <= Len(Text),
         Separates(Lexeme(Text, i)), ~IsNumber(Lexeme(Text, i)),
         NEW q, q = Longest(Text, i) + 1, GetTo(q), UNCHANGED <<src, toks, status>>
  PROVE  LInv'
<1>1. Text \in Seq(STRING) /\ i \in 1 .. Len(Text) /\ Lexed(Text, i, toks, "lexing") /\ ~TooLarge(Text, i)
  BY Ahead DEF LInv, TooLarge
<1>2. Lexed(Text, q, toks, "lexing")
  BY <1>1, Turn
<1>3. q - 1 \in i .. Len(Text) /\ q \in Nat
  <2>1. Longest(Text, i) \in i .. Len(Text)
    BY <1>1, LongestIn
  <2> QED
    BY <1>1, <2>1
<1>4. i' = q /\ <<line', col'>> = Position(Text, q)
  BY <1>3, Moves
<1>5. Text' = Text /\ src' \in Texts
  BY DEF Text, LInv
<1> QED
  BY <1>2, <1>4, <1>5 DEF LInv

LEMMA Emitting ==
  ASSUME LInv, status = "lexing", i <= Len(Text),
         ~Separates(Lexeme(Text, i)), ~TooLarge(Text, i),
         NEW q, q = Longest(Text, i) + 1, NEW kind, NEW lexeme, NEW value,
         <<kind, lexeme, Position(Text, i)>> = Owed(Text, i), Emit(q, kind, lexeme, value)
  PROVE  LInv'
<1>1. Text \in Seq(STRING) /\ i \in 1 .. Len(Text) /\ Lexed(Text, i, toks, "lexing")
  BY Ahead DEF LInv
<1> DEFINE tok == Token(kind, lexeme, value, <<line, col>>)
<1>2. <<tok.k, tok.x, <<tok.line, tok.col>>>> = Owed(Text, i)
  BY DEF Token, LInv
<1>3. GetTo(q) /\ toks' = Append(toks, tok) /\ src' = src /\ status' = "lexing"
  BY DEF Emit
<1> HIDE DEF tok
<1>4. Lexed(Text, q, Append(toks, tok), "lexing")
  BY <1>1, <1>2, Turn
<1>5. q - 1 \in i .. Len(Text) /\ q \in Nat
  <2>1. Longest(Text, i) \in i .. Len(Text)
    BY <1>1, LongestIn
  <2> QED
    BY <1>1, <2>1
<1>6. i' = q /\ <<line', col'>> = Position(Text, q)
  BY <1>3, <1>5, Moves
<1>7. Text' = Text /\ src' \in Texts
  BY <1>3 DEF Text, LInv
<1> QED
  BY <1>3, <1>4, <1>6, <1>7 DEF LInv

-----------------------------------------------------------------------------
(* One step lemma per action.                                              *)
LEMMA SkipBlankStep ==
  ASSUME LInv, SkipBlank
  PROVE  LInv'
<1>1. i <= Len(Text) /\ Text[i] \in Blanks /\ Text \in Seq(STRING) /\ i \in 1 .. Len(Text) /\ status = "lexing"
  BY Ahead, Classes DEF SkipBlank
<1>2. Longest(Text, i) = i /\ Separates(Lexeme(Text, i)) /\ ~IsNumber(Lexeme(Text, i))
  BY <1>1, LongestBlank
<1>3. GetTo(i + 1) /\ UNCHANGED <<src, toks, status>>
  BY DEF SkipBlank
<1> QED
  BY <1>1, <1>2, <1>3, Passing

LEMMA SkipLineCommentStep ==
  ASSUME LInv, SkipLineComment
  PROVE  LInv'
<1>1. /\ src \in Seq(STRING) /\ Text \in Seq(STRING) /\ Len(Text) \in Nat /\ Len(Text) <= Len(src) /\ i \in Nat
      /\ i \in 1 .. Len(Text) /\ i + 1 \in 1 .. Len(Text) /\ i \in 1 .. Len(Text) + 1
      /\ Text[i] = "/" /\ Text[i+1] = "/" /\ status = "lexing"
  <2>1. C = "/" /\ CharAt(i+1) = "/" /\ status = "lexing"
    BY DEF SkipLineComment, Pair
  <2>2. C # NUL /\ CharAt(i+1) # NUL
    BY <2>1, Classes
  <2> QED
    BY <2>1, <2>2, Ahead
<1>a. \A k \in 1 .. Len(Text) : src[k] = Text[k]
  BY <1>1, TextIs
<1> DEFINE D == {r \in Nat : src[r] = NewLine}
           R == StopSet(i, D)
           q == RunEnd(i, LAMBDA r : src[r] = NewLine)
<1>2. q = Min(R)
  <2>1. R = {r \in i .. Len(src) + 1 : CharAt(r) = NUL \/ src[r] = NewLine}
    BY <1>1 DEF StopSet
  <2>2. q = Min({r \in i .. Len(src) + 1 : CharAt(r) = NUL \/ src[r] = NewLine})
    BY DEF RunEnd
  <2> HIDE DEF R, q
  <2> QED
    BY <2>1, <2>2
<1>3. /\ q \in i .. Len(Text) + 1
      /\ q <= Len(Text) => q \in D /\ CharAt(q) # NUL
      /\ q = Len(Text) + 1 => CharAt(q) = NUL
      /\ \A r \in i .. q - 1 : r \notin D
  <2> HIDE DEF D, q
  <2> QED
    BY <1>1, <1>2, RunEnds
<1> DEFINE e == q - 1
<1>4. GetTo(q) /\ UNCHANGED <<src, toks, status>>
  BY DEF SkipLineComment
<1> HIDE DEF q
<1>5. q # i /\ q # i + 1
  <2>1. i \notin D /\ i + 1 \notin D
    BY <1>1, <1>a DEF NewLine
  <2> HIDE DEF D
  <2> QED
    BY <1>1, <1>3, <2>1
<1>6. e \in i+1 .. Len(Text) /\ q = e + 1
  BY <1>1, <1>3, <1>5
<1>7. \A k \in i .. e : Text[k] # NewLine
  <2>1. \A k \in i .. e : k \in i .. q - 1 /\ k \in 1 .. Len(Text) /\ k \in Nat
    BY <1>1, <1>6
  <2> QED
    BY <1>3, <1>a, <2>1
<1>8. e < Len(Text) => Text[e+1] = NewLine
  <2> SUFFICES ASSUME e < Len(Text) PROVE Text[e+1] = NewLine
    OBVIOUS
  <2>1. e + 1 = q /\ q <= Len(Text) /\ q \in 1 .. Len(Text)
    BY <1>1, <1>6
  <2> QED
    BY <1>3, <1>a, <2>1
<1> HIDE DEF e
<1>9. Longest(Text, i) = e /\ Separates(Lexeme(Text, i)) /\ ~IsNumber(Lexeme(Text, i))
  BY <1>1, <1>6, <1>7, <1>8, LongestLineComment
<1> QED
  BY <1>1, <1>4, <1>6, <1>9, Passing

LEMMA SkipBlockCommentStep ==
  ASSUME LInv, SkipBlockComment
  PROVE  LInv'
<1>1. /\ src \in Seq(STRING) /\ Text \in Seq(STRING) /\ Len(Text) \in Nat /\ Len(Text) <= Len(src) /\ i \in Nat
      /\ i \in 1 .. Len(Text) /\ i + 1 \in 1 .. Len(Text) /\ i + 2 \in 1 .. Len(Text) + 1 /\ i + 2 \in Nat
      /\ Text[i] = "/" /\ Text[i+1] = "*" /\ status = "lexing"
  <2>1. C = "/" /\ CharAt(i+1) = "*" /\ status = "lexing"
    BY DEF SkipBlockComment, Pair
  <2>2. C # NUL /\ CharAt(i+1) # NUL
    BY <2>1, Classes
  <2> QED
    BY <2>1, <2>2, Ahead
<1>a. /\ \A k \in 1 .. Len(Text) : src[k] = Text[k] /\ CharAt(k) = Text[k] /\ CharAt(k) # NUL
      /\ CharAt(Len(Text) + 1) = NUL /\ NUL # "/"
  BY <1>1, TextIs DEF NUL
<1> DEFINE D == {r \in Nat : src[r] = "*" /\ CharAt(r+1) = "/"}
           R == StopSet(i + 2, D)
           q == RunEnd(i + 2, StarSlash)
<1>2. q = Min(R)
  <2>1. R = {r \in i + 2 .. Len(src) + 1 : CharAt(r) = NUL \/ (src[r] = "*" /\ CharAt(r+1) = "/")}
    BY <1>1 DEF StopSet
  <2>2. q = Min({r \in i + 2 .. Len(src) + 1 : CharAt(r) = NUL \/ (src[r] = "*" /\ CharAt(r+1) = "/")})
    BY DEF RunEnd, StarSlash
  <2> HIDE DEF R, q
  <2> QED
    BY <2>1, <2>2
<1>3. /\ q \in i + 2 .. Len(Text) + 1
      /\ q <= Len(Text) => q \in D /\ CharAt(q) # NUL
      /\ q = Len(Text) + 1 => CharAt(q) = NUL
      /\ \A r \in i + 2 .. q - 1 : r \notin D
  <2> HIDE DEF D, q
  <2> QED
    BY <1>1, <1>2, RunEnds
<1> DEFINE e == (IF CharAt(q) = NUL THEN q ELSE q + 2) - 1
<1>4. GetTo(e + 1) /\ UNCHANGED <<src, toks, status>>
  <2> DEFINE f == IF CharAt(q) = NUL THEN q ELSE q + 2
  <2>1. GetTo(f) /\ UNCHANGED <<src, toks, status>>
    BY DEF SkipBlockComment, CommentEnd
  <2>2. f = e + 1
    <3> HIDE DEF q
    <3> QED
      BY <1>1, <1>3
  <2> HIDE DEF e, f
  <2> QED
    BY <2>1, <2>2
<1> HIDE DEF q
<1>5. /\ e \in i+1 .. Len(Text)
      /\ \A k \in i+3 .. e : Text[k-1] = "*" /\ Text[k] = "/" => k = e
      /\ e < Len(Text) => e >= i+3 /\ Text[e-1] = "*" /\ Text[e] = "/"
  <2>1. \A r \in i+2 .. q-1 : r + 1 <= Len(Text) => ~(Text[r] = "*" /\ Text[r+1] = "/")
    <3> SUFFICES ASSUME NEW r \in i+2 .. q-1, r + 1 <= Len(Text), Text[r] = "*", Text[r+1] = "/"
                 PROVE  FALSE
      OBVIOUS
    <3>1. r \in 1 .. Len(Text) /\ r + 1 \in 1 .. Len(Text) /\ r \in Nat
      BY <1>1, <1>3
    <3>2. r \in D
      BY <1>a, <3>1
    <3> QED
      BY <1>3, <3>2
  <2>2. CASE CharAt(q) = NUL
    <3>1. q = Len(Text) + 1 /\ e = Len(Text)
      BY <1>1, <1>3, <2>2
    <3>2. ASSUME NEW k \in i+3 .. e, Text[k-1] = "*", Text[k] = "/" PROVE FALSE
      <4>1. k - 1 \in i+2 .. q-1 /\ (k - 1) + 1 = k /\ k <= Len(Text)
        BY <1>1, <3>1
      <4> DEFINE r == k - 1
      <4> HIDE DEF r
      <4>2. r \in i+2 .. q-1 /\ r + 1 = k
        BY <4>1 DEF r
      <4> QED
        BY <2>1, <3>2, <4>1, <4>2 DEF r
    <3> QED
      BY <1>1, <3>1, <3>2
  <2>3. CASE CharAt(q) # NUL
    <3>1. q \in i+2 .. Len(Text) /\ src[q] = "*" /\ CharAt(q+1) = "/" /\ e = q + 1
      BY <1>1, <1>3, <2>3
    <3>2. q \in 1 .. Len(Text) /\ q + 1 <= Len(Text) /\ q + 1 \in 1 .. Len(Text)
      <4>1. q # Len(Text)
        BY <1>a, <3>1
      <4> QED
        BY <1>1, <3>1, <4>1
    <3>3. Text[q] = "*" /\ Text[q+1] = "/" /\ e - 1 = q /\ e >= i+3 /\ e \in i+1 .. Len(Text)
      BY <1>1, <1>a, <3>1, <3>2
    <3>4. ASSUME NEW k \in i+3 .. e, Text[k-1] = "*", Text[k] = "/", k # e PROVE FALSE
      <4>1. k - 1 \in i+2 .. q-1 /\ (k - 1) + 1 = k /\ k <= Len(Text)
        BY <1>1, <3>1, <3>2, <3>4
      <4> DEFINE r == k - 1
      <4> HIDE DEF r
      <4>2. r \in i+2 .. q-1 /\ r + 1 = k
        BY <4>1 DEF r
      <4> QED
        BY <2>1, <3>4, <4>1, <4>2 DEF r
    <3> QED
      BY <3>1, <3>3, <3>4
  <2> QED
    BY <2>2, <2>3
<1> HIDE DEF e
<1>6. Longest(Text, i) = e /\ Separates(Lexeme(Text, i)) /\ ~IsNumber(Lexeme(Text, i))
  BY <1>1, <1>5, LongestBlockComment
<1> QED
  BY <1>1, <1>4, <1>6, Passing

LEMMA IdentOrKwStep ==
  ASSUME LInv, IdentOrKw
  PROVE  LInv'
<1>1. /\ src \in Seq(STRING) /\ Text \in Seq(STRING) /\ Len(Text) \in Nat /\ Len(Text) <= Len(src) /\ i \in Nat
      /\ i \in 1 .. Len(Text) /\ i \in 1 .. Len(Text) + 1 /\ Text[i] \in Letters /\ status = "lexing"
  BY Ahead, Classes DEF IdentOrKw
<1>a. \A k \in 1 .. Len(Text) : src[k] = Text[k]
  BY <1>1, TextIs
<1> DEFINE D == {r \in Nat : src[r] \notin Letters \cup Digits}
           R == StopSet(i, D)
           q == RunEnd(i, LAMBDA r : src[r] \notin Letters \cup Digits)
<1>2. q = Min(R)
  <2>1. R = {r \in i .. Len(src) + 1 : CharAt(r) = NUL \/ src[r] \notin Letters \cup Digits}
    BY <1>1 DEF StopSet
  <2>2. q = Min({r \in i .. Len(src) + 1 : CharAt(r) = NUL \/ src[r] \notin Letters \cup Digits})
    BY DEF RunEnd
  <2> HIDE DEF R, q
  <2> QED
    BY <2>1, <2>2
<1>3. /\ q \in i .. Len(Text) + 1
      /\ q <= Len(Text) => q \in D /\ CharAt(q) # NUL
      /\ q = Len(Text) + 1 => CharAt(q) = NUL
      /\ \A r \in i .. q - 1 : r \notin D
  <2> HIDE DEF D, q
  <2> QED
    BY <1>1, <1>2, RunEnds
<1> DEFINE e == q - 1
           s == Glue(SubSeq(src, i, q - 1))
           kind == IF s \in Keywords THEN s ELSE "ident"
<1>4. Emit(q, kind, s, 0)
  BY DEF IdentOrKw
<1> HIDE DEF q
<1>5. q # i
  <2>1. i \notin D
    BY <1>1, <1>a
  <2> HIDE DEF D
  <2> QED
    BY <1>1, <1>3, <2>1
<1>6. e \in i .. Len(Text) /\ q = e + 1
  BY <1>1, <1>3, <1>5
<1>7. \A k \in i .. e : Text[k] \in Letters \cup Digits
  <2>1. \A k \in i .. e : k \in i .. q - 1 /\ k \in 1 .. Len(Text) /\ k \in Nat
    BY <1>1, <1>6
  <2> QED
    BY <1>3, <1>a, <2>1
<1>8. e < Len(Text) => Text[e+1] \notin Letters \cup Digits
  <2> SUFFICES ASSUME e < Len(Text) PROVE Text[e+1] \notin Letters \cup Digits
    OBVIOUS
  <2>1. e + 1 = q /\ q <= Len(Text) /\ q \in 1 .. Len(Text)
    BY <1>1, <1>6
  <2> QED
    BY <1>3, <1>a, <2>1
<1>b. SubSeq(src, i, e) = SubSeq(Text, i, e)
  BY <1>6, SameStretch
<1> DEFINE x == Lexeme(Text, i)
<1>9. /\ Longest(Text, i) = e /\ x = SubSeq(Text, i, e)
      /\ ~Separates(x) /\ IsWord(x) /\ ~IsNumber(x)
  <2> HIDE DEF e
  <2> QED
    BY <1>1, <1>6, <1>7, <1>8, LongestWord
<1>10. Owed(Text, i) = <<kind, s, Position(Text, i)>>
  <2>1. s = Glue(x)
    BY <1>9, <1>b
  <2> HIDE DEF s, x
  <2>2. KindOf(x) = kind
    <3>1. ~IsTwoChars(x) /\ ~IsOneChar(x)
      BY <1>9, PairsAre, Classes DEF IsWord, IsTwoChars, IsOneChar
    <3> QED
      BY <1>9, <2>1, <3>1 DEF KindOf
  <2> HIDE DEF kind
  <2> QED
    BY <1>9, <2>1, <2>2 DEF Owed, View, x
<1> HIDE DEF e, s, kind
<1> QED
  BY <1>1, <1>4, <1>6, <1>9, <1>10, Emitting DEF TooLarge, x

LEMMA NumberStep ==
  ASSUME LInv, Number
  PROVE  LInv'
<1>1. /\ src \in Seq(STRING) /\ Text \in Seq(STRING) /\ Len(Text) \in Nat /\ Len(Text) <= Len(src) /\ i \in Nat
      /\ i \in 1 .. Len(Text) /\ i \in 1 .. Len(Text) + 1 /\ Text[i] \in Digits /\ status = "lexing"
  BY Ahead, Classes DEF Number
<1>a. \A k \in 1 .. Len(Text) : src[k] = Text[k]
  BY <1>1, TextIs
<1> DEFINE D == {r \in Nat : src[r] \notin Digits}
           R == StopSet(i, D)
           q == RunEnd(i, LAMBDA r : src[r] \notin Digits)
<1>2. q = Min(R)
  <2>1. R = {r \in i .. Len(src) + 1 : CharAt(r) = NUL \/ src[r] \notin Digits}
    BY <1>1 DEF StopSet
  <2>2. q = Min({r \in i .. Len(src) + 1 : CharAt(r) = NUL \/ src[r] \notin Digits})
    BY DEF RunEnd
  <2> HIDE DEF R, q
  <2> QED
    BY <2>1, <2>2
<1>3. /\ q \in i .. Len(Text) + 1
      /\ q <= Len(Text) => q \in D /\ CharAt(q) # NUL
      /\ q = Len(Text) + 1 => CharAt(q) = NUL
      /\ \A r \in i .. q - 1 : r \notin D
  <2> HIDE DEF D, q
  <2> QED
    BY <1>1, <1>2, RunEnds
<1> DEFINE e == q - 1
           chars == SubSeq(src, i, q - 1)
           v == ValueOf(chars)
           s == Glue(chars)
<1>4. \/ Converts(v) /\ Emit(q, "int", s, v)
      \/ ~Converts(v) /\ status' = "aborted" /\ UNCHANGED <<src, i, line, col, toks>>
  BY DEF Number
<1> HIDE DEF q
<1>5. q # i
  <2>1. i \notin D
    BY <1>1, <1>a
  <2> HIDE DEF D
  <2> QED
    BY <1>1, <1>3, <2>1
<1>6. e \in i .. Len(Text) /\ q = e + 1
  BY <1>1, <1>3, <1>5
<1>7. \A k \in i .. e : Text[k] \in Digits
  <2>1. \A k \in i .. e : k \in i .. q - 1 /\ k \in 1 .. Len(Text) /\ k \in Nat
    BY <1>1, <1>6
  <2> QED
    BY <1>3, <1>a, <2>1
<1>8. e < Len(Text) => Text[e+1] \notin Digits
  <2> SUFFICES ASSUME e < Len(Text) PROVE Text[e+1] \notin Digits
    OBVIOUS
  <2>1. e + 1 = q /\ q <= Len(Text) /\ q \in 1 .. Len(Text)
    BY <1>1, <1>6
  <2> QED
    BY <1>3, <1>a, <2>1
<1>b. SubSeq(src, i, e) = SubSeq(Text, i, e)
  BY <1>6, SameStretch
<1> DEFINE x == Lexeme(Text, i)
<1>9. /\ Longest(Text, i) = e /\ x = SubSeq(Text, i, e)
      /\ ~Separates(x) /\ ~IsWord(x) /\ IsNumber(x)
  <2> HIDE DEF e
  <2> QED
    BY <1>1, <1>6, <1>7, <1>8, LongestNumber
<1>c. v = ValueOf(x) /\ s = Glue(x) /\ v \in Nat
  <2>1. chars = x
    BY <1>9, <1>b
  <2>2. x \in Seq(STRING) /\ \A k \in 1 .. Len(x) : x[k] \in Digits
    <3> HIDE DEF e, x
    <3>1. x \in Seq(STRING) /\ Len(x) = e - i + 1 /\ \A k \in 1 .. e - i + 1 : x[k] = Text[i + k - 1]
      BY <1>1, <1>6, <1>9, Stretch
    <3>2. \A k \in 1 .. e - i + 1 : i + k - 1 \in i .. e
      BY <1>1, <1>6
    <3> QED
      BY <1>7, <3>1, <3>2
  <2> HIDE DEF chars, x
  <2> QED
    BY <2>1, <2>2, ValueType
<1> HIDE DEF v, s, chars
<1>10. Owed(Text, i) = <<"int", s, Position(Text, i)>>
  <2>1. ~IsTwoChars(x) /\ ~IsOneChar(x)
    <3>1. x[1] = Text[i]
      <4> HIDE DEF e, x
      <4> QED
        BY <1>1, <1>6, <1>9, Stretch
    <3> QED
      BY <1>1, <3>1, PairsAre, Classes DEF IsTwoChars, IsOneChar
  <2>2. KindOf(x) = "int"
    <3> HIDE DEF x
    <3> QED
      BY <1>9, <2>1 DEF KindOf
  <2>3. View(x, Position(Text, i)) = <<"int", s, Position(Text, i)>>
    <3> HIDE DEF x
    <3> QED
      BY <1>9, <1>c, <2>2 DEF View
  <2> QED
    BY <2>3 DEF Owed
<1>11. CASE Converts(v) /\ Emit(q, "int", s, v)
  <2>1. v <= MaxInt
    BY <1>11 DEF Converts
  <2>2. ~TooLarge(Text, i)
    BY <1>c, <2>1, LexerAssumption DEF TooLarge
  <2> HIDE DEF e
  <2> QED
    BY <1>1, <1>6, <1>9, <1>10, <1>11, <2>2, Emitting
<1>12. CASE ~Converts(v) /\ status' = "aborted" /\ UNCHANGED <<src, i, line, col, toks>>
  <2>1. v > MaxInt
    BY <1>12, <1>c, LexerAssumption DEF Converts
  <2>2. TooLarge(Text, i)
    BY <1>9, <1>c, <2>1 DEF TooLarge
  <2>3. Lexed(Text, i, toks, "aborted")
    BY <1>1, <2>2 DEF LInv, Lexed
  <2>4. Text' = Text
    BY <1>12 DEF Text
  <2> QED
    BY <1>12, <2>3, <2>4 DEF LInv
<1> QED
  BY <1>4, <1>11, <1>12

LEMMA TwoCharsStep ==
  ASSUME LInv, TwoChars
  PROVE  LInv'
<1>1. /\ Text \in Seq(STRING) /\ i \in 1 .. Len(Text) /\ i + 1 \in 1 .. Len(Text) /\ i \in Nat /\ status = "lexing"
      /\ C = Text[i] /\ CharAt(i+1) = Text[i+1] /\ <<Text[i], Text[i+1]>> \in TwoCharKinds
  <2>1. <<C, CharAt(i+1)>> \in TwoCharKinds /\ status = "lexing"
    BY DEF TwoChars, Pair
  <2>2. C # NUL /\ CharAt(i+1) # NUL
    BY <2>1, PairsAre
  <2> QED
    BY <2>1, <2>2, Ahead
<1>2. /\ Longest(Text, i) = i + 1 /\ ~Separates(Lexeme(Text, i)) /\ ~IsNumber(Lexeme(Text, i))
      /\ View(Lexeme(Text, i), Position(Text, i)) = <<Text[i] \o Text[i+1], "", Position(Text, i)>>
  BY <1>1, LongestTwoChars
<1>3. Emit(i + 2, C \o CharAt(i+1), "", 0)
  BY DEF TwoChars
<1>4. <<C \o CharAt(i+1), "", Position(Text, i)>> = Owed(Text, i)
  BY <1>1, <1>2 DEF Owed
<1>5. i + 2 = Longest(Text, i) + 1 /\ i <= Len(Text)
  <2>1. Longest(Text, i) = i + 1
    BY <1>2
  <2>2. i <= Len(Text) /\ i \in Nat
    BY <1>1
  <2> QED
    BY <2>1, <2>2
<1>6. ~TooLarge(Text, i)
  BY <1>2 DEF TooLarge
<1> QED
  BY <1>1, <1>2, <1>3, <1>4, <1>5, <1>6, Emitting

(* A character that begins nothing longer.                                 *)
LEMMA OneCharLexed ==
  ASSUME LInv, C # NUL, C \notin Blanks \cup Letters \cup Digits, Pair \notin TwoCharKinds, ~CommentAhead
  PROVE  /\ i <= Len(Text) /\ i + 1 = Longest(Text, i) + 1
         /\ ~Separates(Lexeme(Text, i)) /\ ~TooLarge(Text, i)
         /\ Owed(Text, i) = <<IF C \in OneCharKinds THEN C ELSE ";", "", Position(Text, i)>>
<1>1. /\ Text \in Seq(STRING) /\ i \in 1 .. Len(Text) /\ i \in Nat /\ Len(Text) \in Nat
      /\ C = Text[i] /\ (i < Len(Text) => CharAt(i+1) = Text[i+1])
  BY Ahead
<1>2. Text[i] \notin Blanks \cup Letters \cup Digits
  BY <1>1
<1>3. i < Len(Text) => <<Text[i], Text[i+1]>> \notin TwoCharKinds \cup {<<"/", "/">>, <<"/", "*">>}
  BY <1>1 DEF Pair, CommentAhead
<1>4. /\ Longest(Text, i) = i /\ ~Separates(Lexeme(Text, i)) /\ ~IsNumber(Lexeme(Text, i))
      /\ View(Lexeme(Text, i), Position(Text, i))
           = <<IF Text[i] \in OneCharKinds THEN Text[i] ELSE ";", "", Position(Text, i)>>
  BY <1>1, <1>2, <1>3, LongestOneChar
<1>5. i <= Len(Text) /\ i + 1 = Longest(Text, i) + 1
  <2>1. i <= Len(Text)
    BY Ahead
  <2> QED
    BY <1>4, <2>1
<1>6. ~TooLarge(Text, i)
  BY <1>4 DEF TooLarge
<1>7. Owed(Text, i) = <<IF C \in OneCharKinds THEN C ELSE ";", "", Position(Text, i)>>
  BY <1>1, <1>4 DEF Owed
<1> QED
  BY <1>4, <1>5, <1>6, <1>7

LEMMA OneCharStep ==
  ASSUME LInv, OneChar
  PROVE  LInv'
<1>1. C \in OneCharKinds /\ Pair \notin TwoCharKinds /\ ~CommentAhead /\ Emit(i + 1, C, "", 0) /\ status = "lexing"
  BY DEF OneChar
<1>2. C # NUL /\ C \notin Blanks \cup Letters \cup Digits
  BY <1>1, Classes
<1>3. /\ i <= Len(Text) /\ i + 1 = Longest(Text, i) + 1
      /\ ~Separates(Lexeme(Text, i)) /\ ~TooLarge(Text, i)
      /\ <<C, "", Position(Text, i)>> = Owed(Text, i)
  BY <1>1, <1>2, OneCharLexed
<1> QED
  BY <1>1, <1>3, Emitting

LEMMA UnknownStep ==
  ASSUME LInv, Unknown
  PROVE  LInv'
<1>1. /\ C \notin {NUL} \cup Blanks \cup Letters \cup Digits \cup OneCharKinds
      /\ Pair \notin TwoCharKinds /\ Emit(i + 1, ";", "", 0) /\ status = "lexing"
  BY DEF Unknown
<1>2. ~CommentAhead /\ C # NUL /\ C \notin Blanks \cup Letters \cup Digits
  BY <1>1, Classes DEF Pair, CommentAhead
<1>3. /\ i <= Len(Text) /\ i + 1 = Longest(Text, i) + 1
      /\ ~Separates(Lexeme(Text, i)) /\ ~TooLarge(Text, i)
      /\ <<";", "", Position(Text, i)>> = Owed(Text, i)
  BY <1>1, <1>2, OneCharLexed
<1> QED
  BY <1>1, <1>3, Emitting

LEMMA EndStep ==
  ASSUME LInv, End
  PROVE  LInv'
<1>1. /\ Text \in Seq(STRING) /\ Len(Text) \in Nat /\ i = Len(Text) + 1 /\ status = "lexing"
      /\ <<line, col>> = Position(Text, i) /\ Lexed(Text, i, toks, "lexing")
  BY Ahead DEF End, LInv
<1> DEFINE tok == Token("eof", "", 0, <<line, col>>)
<1>2. <<tok.k, tok.x, <<tok.line, tok.col>>>> = EofAt(Text)
  BY <1>1 DEF Token, EofAt
<1>3. toks' = Append(toks, tok) /\ status' = "done" /\ UNCHANGED <<src, i, line, col>>
  BY DEF End
<1> HIDE DEF tok
<1>4. Seen(toks) = Known(Text, Len(Text)) /\ Known(Text, Len(Text)) \in Seq(AllOwed(Text))
  <2>1. i - 1 = Len(Text) /\ Len(Text) \in 0 .. Len(Text)
    BY <1>1
  <2> QED
    BY <1>1, <2>1, KnownIs DEF Lexed
<1>5. PICK S : toks \in Seq(S)
  BY <1>1 DEF Lexed
<1>6. /\ Append(toks, tok) \in Seq(S \cup {tok})
      /\ Seen(Append(toks, tok)) = Append(Known(Text, Len(Text)), EofAt(Text))
  BY <1>2, <1>4, <1>5, SeenMore
<1>7. Lexed(Text, i, Append(toks, tok), "done")
  BY <1>1, <1>6 DEF Lexed
<1>8. Text' = Text
  BY <1>3 DEF Text
<1> QED
  BY <1>1, <1>3, <1>7, <1>8 DEF LInv

LEMMA Unchanged ==
  ASSUME LInv, UNCHANGED vars
  PROVE  LInv'
<1>1. /\ src' = src /\ i' = i /\ line' = line /\ col' = col /\ toks' = toks /\ status' = status
  BY DEF vars
<1>2. Text' = Text
  BY <1>1 DEF Text
<1> QED
  BY <1>1, <1>2 DEF LInv

LEMMA InitLInv == Init => LInv
<1> SUFFICES ASSUME Init PROVE LInv
  OBVIOUS
<1>1. src \in Texts /\ src \in Seq(STRING) /\ i = 1 /\ line = 1 /\ col = 1 /\ toks = << >> /\ status = "lexing"
  BY LexerAssumption DEF Init
<1>2. Text \in Seq(STRING) /\ Len(Text) \in Nat
  BY <1>1, TextIs
<1> DEFINE t == Text
<1> HIDE DEF t
<1>3. t \in Seq(STRING) /\ Len(t) \in Nat
  BY <1>2 DEF t
<1>4. Position(t, 1) = <<1, 1>>
  <2>1. Breaks(t, 1) = {}
    BY DEF Breaks
  <2>2. Cardinality(Breaks(t, 1)) = 0
    BY <2>1, FS_EmptySet
  <2>3. Position(t, 1) = <<1 + Cardinality(Breaks(t, 1)), 1 - Max(Breaks(t, 1) \cup {0})>>
        /\ Max(Breaks(t, 1) \cup {0}) \in Breaks(t, 1) \cup {0}
    <3> DEFINE one == 1
    <3>1. one \in Nat /\ one > 0 /\ one = 1
      OBVIOUS
    <3> HIDE DEF one
    <3>2. /\ Position(t, one) = <<1 + Cardinality(Breaks(t, one)), one - Max(Breaks(t, one) \cup {0})>>
          /\ Max(Breaks(t, one) \cup {0}) \in Breaks(t, one) \cup {0}
      BY <3>1, BreaksIn
    <3> QED
      BY <3>1, <3>2
  <2> DEFINE m == Max(Breaks(t, 1) \cup {0})
  <2>4. m = 0
    BY <2>1, <2>3
  <2> HIDE DEF m
  <2> QED
    BY <2>2, <2>3, <2>4 DEF m
<1>5. At(t, 1)
  <2>1. 1 <= Len(t) => Begins(t)[1]
    BY <1>3, BeginsAt
  <2> QED
    BY <1>3, <2>1 DEF At
<1>6. Seen(<< >>) = << >>
  BY DEF Seen
<1>7. << >> \in Seq({}) /\ Known(t, 1 - 1) = << >>
  BY <1>3, KnownIs
<1>8. Lexed(t, 1, << >>, "lexing")
  BY <1>5, <1>6, <1>7 DEF Lexed
<1> QED
  BY <1>1, <1>4, <1>8 DEF LInv, t

LEMMA StepLInv == LInv /\ [Next]_vars => LInv'
<1> SUFFICES ASSUME LInv, [Next]_vars PROVE LInv'
  OBVIOUS
<1>1. CASE SkipBlank
  BY <1>1, SkipBlankStep
<1>2. CASE SkipLineComment
  BY <1>2, SkipLineCommentStep
<1>3. CASE SkipBlockComment
  BY <1>3, SkipBlockCommentStep
<1>4. CASE IdentOrKw
  BY <1>4, IdentOrKwStep
<1>5. CASE Number
  BY <1>5, NumberStep
<1>6. CASE TwoChars
  BY <1>6, TwoCharsStep
<1>7. CASE OneChar
  BY <1>7, OneCharStep
<1>8. CASE Unknown
  BY <1>8, UnknownStep
<1>9. CASE End
  BY <1>9, EndStep
<1>10. CASE Stopped \/ UNCHANGED vars
  BY <1>10, Unchanged DEF Stopped
<1> QED
  BY <1>1, <1>2, <1>3, <1>4, <1>5, <1>6, <1>7, <1>8, <1>9, <1>10 DEF Next, Lex

THEOREM LexerInvariant == Spec => []LInv
BY InitLInv, StepLInv, PTL DEF Spec

-----------------------------------------------------------------------------
LEMMA LInvTypeOK == LInv => TypeOK
<1> SUFFICES ASSUME LInv PROVE TypeOK
  OBVIOUS
<1>1. /\ i \in 1 .. Len(Text) + 1 /\ Len(Text) \in Nat /\ Len(Text) <= Len(src) /\ Len(src) \in Nat /\ i \in Nat /\ i > 0
  BY Ahead
<1>2. status \in {"lexing", "done", "aborted"} /\ <<line, col>> = Position(Text, i)
  BY DEF LInv, Lexed
<1> DEFINE n == Cardinality(Breaks(Text, i))
           m == Max(Breaks(Text, i) \cup {0})
<1>3. Position(Text, i) = <<1 + n, i - m>> /\ n \in 0 .. i-1 /\ m \in 0 .. i-1
  BY <1>1, BreaksIn
<1> HIDE DEF n, m
<1>4. line = 1 + n /\ col = i - m
  BY <1>2, <1>3
<1>5. line \in 1 .. i /\ col \in 1 .. i
  BY <1>1, <1>3, <1>4
<1>6. i \in 1 .. Len(src) + 1
  BY <1>1
<1> QED
  BY <1>2, <1>5, <1>6 DEF TypeOK

(* Where the lexer stands: within the text, on a line and in a column of   *)
(* its own (peek and get).                                                 *)
THEOREM LexerTypeCorrect == Spec => []TypeOK
BY LexerInvariant, LInvTypeOK, PTL

LEMMA PrefixIs ==
  ASSUME NEW S, NEW s \in Seq(S), NEW u \in Seq(S), Len(s) <= Len(u), \A n \in 1 .. Len(s) : u[n] = s[n]
  PROVE  IsPrefix(s, u)
<1> DEFINE k == Len(s)
           a == SubSeq(s, 1, k)
           b == SubSeq(u, 1, k)
<1>1. k \in Nat /\ k <= Len(u) /\ Len(u) \in Nat
  OBVIOUS
<1>2. CASE k = 0
  <2>1. a = << >> /\ b = << >>
    <3>1. SubSeq(s, 1, 0) = << >> /\ SubSeq(u, 1, 0) = << >>
      OBVIOUS
    <3> QED
      BY <1>2, <3>1
  <2> QED
    BY <1>1, <2>1 DEF IsPrefix
<1>3. CASE k # 0
  <2>1. a = s
    OBVIOUS
  <2>2. b \in Seq(S) /\ Len(b) = k /\ \A n \in 1 .. k : b[n] = u[n]
    BY <1>1
  <2> HIDE DEF b
  <2>3. b = [n \in 1 .. k |-> b[n]] /\ s = [n \in 1 .. k |-> s[n]]
    BY <2>2
  <2>4. b = s
    <3>1. \A n \in 1 .. k : b[n] = s[n]
      BY <2>2
    <3> QED
      BY <2>3, <3>1
  <2> QED
    BY <1>1, <2>1, <2>4 DEF IsPrefix, b
<1> QED
  BY <1>2, <1>3

LEMMA LInvLongestMatch == LInv => LongestMatch
<1> SUFFICES ASSUME LInv PROVE LongestMatch
  OBVIOUS
<1> DEFINE t == Text
           K == Known(t, Len(t))
           v == EofAt(t)
           S == AllOwed(t) \cup {v}
<1>1. t \in Seq(STRING) /\ Len(t) \in Nat /\ i \in 1 .. Len(t) + 1 /\ Lexed(t, i, toks, status)
  BY Ahead DEF LInv
<1>2. K \in Seq(AllOwed(t)) /\ FlattenSeq(Pieces(t)) = K
  BY <1>1, KnownIs
<1>3. Reference = Append(K, v)
  <2>1. Reference = FlattenSeq(Pieces(t)) \o <<v>>
    BY DEF Reference, Pieces, EofAt
  <2> HIDE DEF K, v
  <2> QED
    BY <1>2, <2>1
<1>4. K \in Seq(S) /\ v \in S /\ Append(K, v) \in Seq(S)
  <2> HIDE DEF K, v
  <2> QED
    BY <1>2
<1>5. status = "done" => Seen(toks) = Reference
  BY <1>1, <1>3 DEF Lexed
<1>6. IsPrefix(Seen(toks), Reference)
  <2>1. CASE status = "done"
    <3> DEFINE R == Append(K, v)
    <3>1. R \in Seq(S)
      BY <1>4
    <3> HIDE DEF R
    <3>2. IsPrefix(R, R)
      BY <3>1, PrefixIs
    <3> QED
      BY <1>3, <1>5, <2>1, <3>2 DEF R
  <2>2. CASE status # "done"
    <3> DEFINE k == i - 1
               J == Known(t, k)
    <3>1. k \in 0 .. Len(t) /\ Len(t) \in k .. Len(t) /\ Seen(toks) = J
      BY <1>1, <2>2 DEF Lexed
    <3> HIDE DEF k
    <3>2. Len(J) <= Len(K) /\ \A n \in 1 .. Len(J) : K[n] = J[n]
      <4> HIDE DEF t
      <4> QED
        BY <1>1, <3>1, KnownFirst
    <3>3. J \in Seq(AllOwed(t))
      <4> HIDE DEF t
      <4> QED
        BY <1>1, <3>1, KnownIs
    <3> HIDE DEF J, K, v
    <3>4. J \in Seq(S) /\ Len(J) <= Len(Append(K, v)) /\ \A n \in 1 .. Len(J) : Append(K, v)[n] = J[n]
      BY <1>2, <3>2, <3>3
    <3>5. IsPrefix(J, Append(K, v))
      BY <1>4, <3>4, PrefixIs
    <3> QED
      BY <1>3, <3>1, <3>5 DEF J
  <2> QED
    BY <2>1, <2>2
<1> QED
  BY <1>5, <1>6 DEF LongestMatch, Seen

(* Reading one character at a time, with one more in sight, the lexer      *)
(* finds the longest lexemes of every text (lex, skipWS, identOrKw and     *)
(* number), each at its line and column.                                   *)
THEOREM LexerLongestMatch == Spec => []LongestMatch
BY LexerInvariant, LInvLongestMatch, PTL

LEMMA LInvLiteralsFit == LInv => LiteralsFit
<1> SUFFICES ASSUME LInv PROVE LiteralsFit
  OBVIOUS
<1> DEFINE t == Text
           fatal == {p \in 1 .. Len(t) : Begins(t)[p] /\ TooLarge(t, p)}
<1>1. Len(t) \in Nat /\ i \in 1 .. Len(t) + 1 /\ i \in Nat /\ Lexed(t, i, toks, status)
  BY Ahead DEF LInv
<1>2. status = "done" => fatal = {}
  <2> SUFFICES ASSUME status = "done", NEW p \in fatal PROVE FALSE
    OBVIOUS
  <2>1. p \in 1 .. i-1 /\ Begins(t)[p] /\ TooLarge(t, p)
    BY <1>1 DEF Lexed
  <2> QED
    BY <1>1, <2>1 DEF Lexed
<1>3. status = "aborted" => fatal # {} /\ i = Min(fatal)
  <2> SUFFICES ASSUME status = "aborted" PROVE fatal # {} /\ i = Min(fatal)
    OBVIOUS
  <2>1. i \in fatal
    <3>1. i <= Len(t) /\ TooLarge(t, i) /\ At(t, i)
      BY <1>1 DEF Lexed
    <3>2. i \in 1 .. Len(t) /\ Begins(t)[i]
      BY <1>1, <3>1 DEF At
    <3> QED
      BY <3>1, <3>2
  <2> DEFINE m == Min(fatal)
  <2>2. m \in fatal /\ m <= i
    <3>1. fatal \in SUBSET Nat
      OBVIOUS
    <3> HIDE DEF fatal
    <3> QED
      BY <2>1, <3>1, MinOf
  <2> HIDE DEF m
  <2>3. ~(m \in 1 .. i-1)
    BY <1>1, <2>2 DEF Lexed
  <2>4. m = i
    BY <1>1, <2>2, <2>3
  <2> QED
    BY <2>1, <2>4 DEF m
<1> QED
  BY <1>2, <1>3 DEF LiteralsFit, TooLarge

(* The process dies of the first literal that is too large, and of nothing *)
(* else (std::stoll in number()).                                          *)
THEOREM LexerLiteralsFit == Spec => []LiteralsFit
BY LexerInvariant, LInvLiteralsFit, PTL
=============================================================================
