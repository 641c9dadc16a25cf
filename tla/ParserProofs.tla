---------------------------- MODULE ParserProofs ----------------------------
(***************************************************************************)
(* For every set of inputs: the blocks the parser is inside of mirror the  *)
(* nodes of the body so far, and all it returns is well nested, which is   *)
(* what the passes behind it assume (ProgramsAssumption).  The parser      *)
(* never leaves its input and takes a token in each step.  And it decides  *)
(* the grammar: what it returns is the one program the tokens stand for,   *)
(* and it fails on those that stand for none.                              *)
(***************************************************************************)
EXTENDS Parser, SyntaxProofs

Opening == {"if", "while"}
Closing == {"else", "endif", "endwhile"}

(* The m-th block in progress, its opening node at o: the body has been    *)
(* deeper than the node ever since, and has an else for it if kind says so.*)
InProgress(body, kind, o, m) ==
  /\ kind \in {"then", "else", "while"}
  /\ o \in 1 .. Len(body)
  /\ body[o].k = IF kind = "while" THEN "while" ELSE "if"
  /\ BlockDepth(body, o) = m - 1
  /\ LoopDepth(body, o) >= 0
  /\ \A q \in o+1 .. Len(body) : BlockDepth(body, q) >= m
  /\ (\E q \in o+1 .. Len(body) : body[q].k = "else" /\ BlockDepth(body, q) = m) <=> kind = "else"

(* the loops around the first statement of the m-th block *)
LoopsIn(body, blocks, m) ==
  IF m = 0 THEN 0
  ELSE LoopDepth(body, blocks[m].at) + IF blocks[m].k = "while" THEN 1 ELSE 0

(* a body parsed so far, and the blocks in progress *)
Nested(body, blocks) ==
  /\ IsSeq(body)
  /\ IsSeq(blocks)
  /\ BlockDepth(body, Len(body) + 1) = Len(blocks)
  /\ LoopDepth(body, Len(body) + 1) = LoopsIn(body, blocks, Len(blocks))
  /\ \A p \in 1 .. Len(body) : body[p].k \in Closing => Closes(body, p)
  /\ \A m \in 1 .. Len(blocks) :
       /\ InProgress(body, blocks[m].k, blocks[m].at, m)
       /\ LoopDepth(body, blocks[m].at) = LoopsIn(body, blocks, m - 1)

-----------------------------------------------------------------------------
(* What comes before a position does not change with the nodes behind it.  *)
LEMMA DepthStable ==
  ASSUME NEW body, IsSeq(body), NEW node, NEW p \in 1 .. Len(body) + 1
  PROVE  /\ BlockDepth(Append(body, node), p) = BlockDepth(body, p)
         /\ LoopDepth(Append(body, node), p) = LoopDepth(body, p)
<1>1. /\ Len(body) \in Nat
      /\ Len(Append(body, node)) = Len(body) + 1
      /\ \A q \in 1 .. Len(body) : Append(body, node)[q] = body[q]
  BY SeqBasics, StackPush
<1>2. \A kinds : Before(Append(body, node), p, kinds) = Before(body, p, kinds)
  <2>1. \A q \in 1 .. p-1 : q <= Len(body) /\ q <= Len(body) + 1 /\ q \in 1 .. Len(body)
    BY <1>1
  <2> QED
    BY <1>1, <2>1 DEF Before
<1> QED
  BY <1>2 DEF BlockDepth, LoopDepth

LEMMA ClosesStable ==
  ASSUME NEW body, IsSeq(body), NEW node, NEW p \in 1 .. Len(body), Closes(body, p)
  PROVE  Closes(Append(body, node), p)
<1> DEFINE new == Append(body, node)
<1>1. /\ Len(body) \in Nat
      /\ \A q \in 1 .. Len(body) : new[q] = body[q]
  BY SeqBasics, StackPush
<1>2. \A q \in 1 .. p : /\ BlockDepth(new, q) = BlockDepth(body, q)
                        /\ LoopDepth(new, q) = LoopDepth(body, q)
                        /\ new[q] = body[q]
  <2>1. \A q \in 1 .. p : q \in 1 .. Len(body) + 1 /\ q \in 1 .. Len(body)
    BY <1>1
  <2> QED
    BY <1>1, <2>1, DepthStable
<1>3. PICK o \in 1 .. p-1 : /\ BlockFrom(body, o, p)
                            /\ body[o].k = IF body[p].k = "endwhile" THEN "while" ELSE "if"
                            /\ HasElse(body, o, p) <=> body[p].k = "endif"
  BY DEF Closes
<1>4. o \in 1 .. p /\ p \in 1 .. p /\ \A q \in o+1 .. p-1 : q \in 1 .. p
  BY <1>1
<1> HIDE DEF new
<1>5. BlockFrom(new, o, p) /\ (HasElse(new, o, p) <=> HasElse(body, o, p))
  BY <1>2, <1>3, <1>4 DEF BlockFrom, HasElse
<1>6. /\ BlockDepth(new, p) > 0
      /\ new[p].k = "endwhile" => LoopDepth(new, p) > 0
  BY <1>2, <1>4 DEF Closes
<1>7. Closes(new, p)
  BY <1>2, <1>3, <1>4, <1>5, <1>6 DEF Closes
<1> QED
  BY <1>7 DEF new

(* The blocks below one still in progress stay as they are.                *)
LEMMA InProgressStable ==
  ASSUME NEW body, IsSeq(body), NEW node, NEW kind, NEW o, NEW m \in Nat,
         InProgress(body, kind, o, m),
         BlockDepth(body, Len(body) + 1) >= m,
         node.k = "else" => BlockDepth(body, Len(body) + 1) > m
  PROVE  /\ InProgress(Append(body, node), kind, o, m)
         /\ LoopDepth(Append(body, node), o) = LoopDepth(body, o)
         /\ Append(body, node)[o] = body[o]
<1> DEFINE new == Append(body, node)
           n == Len(body)
<1>1. /\ n \in Nat
      /\ Len(new) = n + 1
      /\ \A q \in 1 .. n : new[q] = body[q]
      /\ new[n + 1] = node
  BY SeqBasics, StackPush
<1>2. \A q \in 1 .. n + 1 : BlockDepth(new, q) = BlockDepth(body, q) /\ LoopDepth(new, q) = LoopDepth(body, q)
  BY DepthStable
<1>3. o \in 1 .. n /\ o \in 1 .. n + 1
  BY <1>1 DEF InProgress
<1>4. \A q \in o+1 .. n + 1 : q \in 1 .. n + 1 /\ (q = n + 1 \/ (q \in o+1 .. n /\ q \in 1 .. n))
  BY <1>1, <1>3
<1>5. \A q \in o+1 .. n : q \in o+1 .. n + 1 /\ q \in 1 .. n
  BY <1>1, <1>3
<1> HIDE DEF new, n
<1>6. \A q \in o+1 .. n + 1 : BlockDepth(new, q) >= m
  BY <1>2, <1>4 DEF InProgress, n
<1>d. BlockDepth(body, n + 1) \in Int
  BY <1>1, DepthType
<1>7. node.k = "else" => BlockDepth(new, n + 1) # m
  <2>1. BlockDepth(new, n + 1) = BlockDepth(body, n + 1)
    BY <1>1, <1>2
  <2> QED
    BY <1>d, <2>1 DEF n
<1>8. (\E q \in o+1 .. n + 1 : new[q].k = "else" /\ BlockDepth(new, q) = m)
        <=> \E q \in o+1 .. n : body[q].k = "else" /\ BlockDepth(body, q) = m
  <2>1. ASSUME NEW q \in o+1 .. n + 1, new[q].k = "else", BlockDepth(new, q) = m
        PROVE  q \in o+1 .. n /\ body[q].k = "else" /\ BlockDepth(body, q) = m
    BY <1>1, <1>2, <1>4, <1>7, <2>1
  <2>2. ASSUME NEW q \in o+1 .. n, body[q].k = "else", BlockDepth(body, q) = m
        PROVE  q \in o+1 .. n + 1 /\ new[q].k = "else" /\ BlockDepth(new, q) = m
    BY <1>1, <1>2, <1>4, <1>5, <2>2
  <2> QED
    BY <2>1, <2>2
<1>9. InProgress(new, kind, o, m)
  BY <1>1, <1>2, <1>3, <1>6, <1>8 DEF InProgress, n
<1> QED
  BY <1>1, <1>2, <1>3, <1>9 DEF new

(* What a node added does to the depth, if it closes only what it may.     *)
LEMMA Added ==
  ASSUME NEW body, NEW blocks, Nested(body, blocks), NEW node,
         node.k \in Closing => Closes(Append(body, node), Len(body) + 1)
  PROVE  LET new == Append(body, node)
             n == Len(body) + 1
             loops == LoopsIn(body, blocks, Len(blocks))
         IN  /\ IsSeq(new) /\ n \in Nat /\ Len(new) = n /\ new[n] = node
             /\ Len(blocks) \in Nat /\ loops \in Int
             /\ \A p \in 1 .. n : new[p].k \in Closing => Closes(new, p)
             /\ BlockDepth(new, n) = Len(blocks)
             /\ LoopDepth(new, n) = loops
             /\ BlockDepth(new, n + 1) = Len(blocks) + IF node.k \in {"if", "while"} THEN 1
                                         ELSE IF node.k \in {"endif", "endwhile"} THEN -1 ELSE 0
             /\ LoopDepth(new, n + 1) = loops + IF node.k = "while" THEN 1
                                        ELSE IF node.k = "endwhile" THEN -1 ELSE 0
<1> DEFINE new == Append(body, node)
           n == Len(body) + 1
           loops == LoopsIn(body, blocks, Len(blocks))
<1>1. /\ IsSeq(body) /\ IsSeq(blocks)
      /\ IsSeq(new) /\ Len(body) \in Nat /\ Len(new) = n /\ new[n] = node
      /\ \A q \in 1 .. Len(body) : new[q] = body[q]
      /\ Len(blocks) \in Nat
  BY SeqBasics, StackPush DEF Nested
<1>2. BlockDepth(new, n) = Len(blocks) /\ LoopDepth(new, n) = loops /\ loops \in Int
  BY <1>1, DepthStable, DepthType DEF Nested
<1>3. \A p \in 1 .. n : new[p].k \in Closing => Closes(new, p)
  <2> SUFFICES ASSUME NEW p \in 1 .. n, new[p].k \in Closing PROVE Closes(new, p)
    OBVIOUS
  <2>1. CASE p = n
    BY <1>1, <2>1
  <2>2. CASE p # n
    <3>1. p \in 1 .. Len(body)
      BY <1>1, <2>2
    <3> QED
      BY <1>1, <3>1, ClosesStable DEF Nested
  <2> QED
    BY <2>1, <2>2
<1>4. n \in 1 .. Len(new)
  BY <1>1
<1> HIDE DEF new, n, loops
<1>5. /\ BlockDepth(new, n + 1) = BlockDepth(new, n) + IF new[n].k \in {"if", "while"} THEN 1
                                         ELSE IF new[n].k \in {"endif", "endwhile"} THEN -1 ELSE 0
      /\ LoopDepth(new, n + 1) = LoopDepth(new, n) + IF new[n].k = "while" THEN 1
                                        ELSE IF new[n].k = "endwhile" THEN -1 ELSE 0
  BY <1>1, <1>4, DepthNext
<1>6. n \in Nat
  BY <1>1 DEF n
<1> QED
  BY <1>1, <1>2, <1>3, <1>5, <1>6 DEF new, n, loops

(* What it leaves alone: the blocks that the new stack shares with the old.*)
LEMMA Below ==
  ASSUME NEW body, NEW blocks, Nested(body, blocks), NEW node, NEW others,
         NEW k \in Nat, k <= Len(blocks), node.k = "else" => k < Len(blocks),
         \A m \in 1 .. k : others[m] = blocks[m]
  PROVE  LET new == Append(body, node)
         IN  /\ \A m \in 1 .. k : /\ InProgress(new, others[m].k, others[m].at, m)
                                  /\ LoopDepth(new, others[m].at) = LoopsIn(new, others, m - 1)
             /\ LoopsIn(new, others, k) = LoopsIn(body, blocks, k)
<1> DEFINE new == Append(body, node)
<1>1. IsSeq(body) /\ Len(blocks) \in Nat /\ BlockDepth(body, Len(body) + 1) = Len(blocks)
  BY SeqBasics DEF Nested
<1>2. \A m \in 1 .. k : /\ InProgress(new, blocks[m].k, blocks[m].at, m)
                        /\ LoopDepth(new, blocks[m].at) = LoopDepth(body, blocks[m].at)
  <2> TAKE m \in 1 .. k
  <2>1. m \in Nat /\ m \in 1 .. Len(blocks) /\ Len(blocks) >= m /\ (node.k = "else" => Len(blocks) > m)
    BY <1>1
  <2>2. InProgress(body, blocks[m].k, blocks[m].at, m)
    BY <2>1 DEF Nested
  <2> QED
    BY <1>1, <2>1, <2>2, InProgressStable
<1> HIDE DEF new
<1>3. \A m \in 0 .. k : LoopsIn(new, others, m) = LoopsIn(body, blocks, m)
  <2> TAKE m \in 0 .. k
  <2>1. CASE m = 0
    BY <2>1 DEF LoopsIn
  <2>2. CASE m # 0
    <3>1. m \in 1 .. k
      BY <2>2
    <3> QED
      BY <1>2, <2>2, <3>1 DEF LoopsIn
  <2> QED
    BY <2>1, <2>2
<1>4. \A m \in 1 .. k : LoopDepth(new, others[m].at) = LoopsIn(new, others, m - 1)
  <2> TAKE m \in 1 .. k
  <2>1. m - 1 \in 0 .. k /\ m \in 1 .. Len(blocks)
    BY <1>1
  <2>2. LoopDepth(body, blocks[m].at) = LoopsIn(body, blocks, m - 1)
    BY <2>1 DEF Nested
  <2> QED
    BY <1>2, <1>3, <2>1, <2>2
<1>5. k \in 0 .. k
  OBVIOUS
<1> QED
  BY <1>2, <1>3, <1>4, <1>5 DEF new

-----------------------------------------------------------------------------
(* The steps of the parser, as nodes added to the body.                    *)

LEMMA NothingParsed == Nested(<< >>, << >>)
<1>1. IsSeq(<< >>) /\ Len(<< >>) = 0
  BY EmptyStack
<1>2. LoopDepth(<< >>, 0 + 1) = 0 /\ BlockDepth(<< >>, 0 + 1) = 0
  BY DepthAtStart
<1> QED
  BY <1>1, <1>2 DEF Nested, LoopsIn

LEMMA PlainNode ==
  ASSUME NEW body, NEW blocks, Nested(body, blocks), NEW node, node.k \notin Opening \cup Closing
  PROVE  Nested(Append(body, node), blocks)
<1> DEFINE new == Append(body, node)
           n == Len(body) + 1
<1>1. /\ IsSeq(new) /\ n \in Nat /\ Len(new) = n /\ Len(blocks) \in Nat
      /\ \A p \in 1 .. n : new[p].k \in Closing => Closes(new, p)
      /\ BlockDepth(new, n + 1) = Len(blocks)
      /\ LoopDepth(new, n + 1) = LoopsIn(body, blocks, Len(blocks))
  BY Added DEF Opening, Closing
<1>2. node.k # "else" /\ IsSeq(blocks)
  BY DEF Closing, Nested
<1>3. /\ \A m \in 1 .. Len(blocks) : /\ InProgress(new, blocks[m].k, blocks[m].at, m)
                                     /\ LoopDepth(new, blocks[m].at) = LoopsIn(new, blocks, m - 1)
      /\ LoopsIn(new, blocks, Len(blocks)) = LoopsIn(body, blocks, Len(blocks))
  BY <1>1, <1>2, Below
<1> QED
  BY <1>1, <1>2, <1>3 DEF Nested

LEMMA OpeningNode ==
  ASSUME NEW body, NEW blocks, Nested(body, blocks), NEW node, NEW kind \in {"then", "while"},
         node.k = IF kind = "while" THEN "while" ELSE "if"
  PROVE  Nested(Append(body, node), Append(blocks, [k |-> kind, at |-> Len(body) + 1]))
<1> DEFINE new == Append(body, node)
           n == Len(body) + 1
           d == Len(blocks)
           entry == [k |-> kind, at |-> n]
           more == Append(blocks, entry)
<1>1. /\ IsSeq(new) /\ n \in Nat /\ Len(new) = n /\ new[n] = node /\ d \in Nat
      /\ LoopsIn(body, blocks, d) \in Int
      /\ \A p \in 1 .. n : new[p].k \in Closing => Closes(new, p)
      /\ BlockDepth(new, n) = d
      /\ LoopDepth(new, n) = LoopsIn(body, blocks, d)
      /\ BlockDepth(new, n + 1) = d + 1
      /\ LoopDepth(new, n + 1) = LoopsIn(body, blocks, d) + IF kind = "while" THEN 1 ELSE 0
  BY Added DEF Closing
<1>2. /\ IsSeq(more) /\ Len(more) = d + 1
      /\ \A m \in 1 .. d : more[m] = blocks[m]
      /\ more[d + 1] = entry
  BY StackPush DEF Nested
<1>3. node.k # "else" /\ d <= Len(blocks)
  BY <1>1
<1> HIDE DEF more, entry
<1>4. /\ \A m \in 1 .. d : /\ InProgress(new, more[m].k, more[m].at, m)
                           /\ LoopDepth(new, more[m].at) = LoopsIn(new, more, m - 1)
      /\ LoopsIn(new, more, d) = LoopsIn(body, blocks, d)
  <2>1. d \in Nat /\ d <= Len(blocks) /\ (node.k = "else" => d < Len(blocks))
    BY <1>1, <1>3
  <2>2. \A m \in 1 .. d : more[m] = blocks[m]
    BY <1>2
  <2> HIDE DEF d
  <2> QED
    BY <2>1, <2>2, Below
<1>5. LoopsIn(body, blocks, d) >= 0
  <2>1. CASE d = 0
    BY <2>1 DEF LoopsIn
  <2>2. CASE d # 0
    <3>1. d \in 1 .. d
      BY <1>1, <2>2
    <3>2. LoopDepth(body, blocks[d].at) >= 0 /\ blocks[d].at \in 1 .. Len(body)
      BY <3>1 DEF Nested, InProgress
    <3>3. LoopDepth(body, blocks[d].at) \in Int
      BY <3>2, DepthType
    <3> QED
      BY <2>2, <3>2, <3>3 DEF LoopsIn
  <2> QED
    BY <2>1, <2>2
<1> HIDE DEF new, n, d
<1>6. InProgress(new, entry.k, entry.at, d + 1)
  <2>1. n \in 1 .. n /\ n+1 .. n = {} /\ d + 1 - 1 = d
    BY <1>1 DEF n
  <2> QED
    BY <1>1, <1>5, <2>1 DEF InProgress, entry
<1>7. LoopDepth(new, entry.at) = LoopsIn(new, more, d)
  BY <1>1, <1>4 DEF entry
<1>8. \A m \in 1 .. d + 1 : /\ InProgress(new, more[m].k, more[m].at, m)
                            /\ LoopDepth(new, more[m].at) = LoopsIn(new, more, m - 1)
  <2> TAKE m \in 1 .. d + 1
  <2>1. CASE m \in 1 .. d
    BY <1>4, <2>1
  <2>2. CASE m = d + 1
    <3>1. m - 1 = d /\ more[m] = entry
      BY <1>1, <1>2, <2>2
    <3> QED
      BY <1>6, <1>7, <2>2, <3>1
  <2> QED
    BY <1>1, <2>1, <2>2
<1>9. LoopsIn(new, more, d + 1) = LoopDepth(new, n + 1)
  <2>1. d + 1 # 0
    BY <1>1
  <2> QED
    BY <1>1, <1>2, <2>1 DEF LoopsIn, entry
<1> QED
  BY <1>1, <1>2, <1>8, <1>9 DEF Nested, n, d, new, more, entry

(* the nodes that may end the innermost block in progress, by its kind *)
Ends(kind, node) ==
  \/ kind = "while" /\ node.k = "endwhile"
  \/ kind = "then" /\ node.k = "else"
  \/ kind = "else" /\ node.k = "endif"

LEMMA TopBlock ==
  ASSUME NEW body, NEW blocks, Nested(body, blocks), blocks # << >>
  PROVE  LET d == Len(blocks)
             o == blocks[d].at
         IN  /\ d \in Nat /\ d >= 1 /\ d - 1 \in Nat /\ Len(body) \in Nat
             /\ InProgress(body, blocks[d].k, o, d)
             /\ LoopDepth(body, o) = LoopsIn(body, blocks, d - 1)
             /\ LoopDepth(body, o) \in Int
             /\ LoopsIn(body, blocks, d) = LoopDepth(body, o) + IF blocks[d].k = "while" THEN 1 ELSE 0
<1> DEFINE d == Len(blocks)
<1>1. d \in Nat /\ d >= 1 /\ Len(body) \in Nat
  BY SeqBasics DEF Nested
<1>2. d \in 1 .. d /\ d - 1 \in Nat /\ d # 0
  BY <1>1
<1>3. InProgress(body, blocks[d].k, blocks[d].at, d) /\ LoopDepth(body, blocks[d].at) = LoopsIn(body, blocks, d - 1)
  BY <1>2 DEF Nested
<1>4. LoopDepth(body, blocks[d].at) \in Int
  <2>1. blocks[d].at \in Int
    BY <1>1, <1>3 DEF InProgress
  <2> QED
    BY <2>1, DepthType
<1> QED
  BY <1>1, <1>2, <1>3, <1>4 DEF LoopsIn

LEMMA TopCloses ==
  ASSUME NEW body, NEW blocks, Nested(body, blocks), blocks # << >>,
         NEW node, Ends(blocks[Len(blocks)].k, node)
  PROVE  Closes(Append(body, node), Len(body) + 1)
<1> DEFINE new == Append(body, node)
           n == Len(body) + 1
           d == Len(blocks)
           kind == blocks[d].k
           o == blocks[d].at
<1>1. /\ d \in Nat /\ d >= 1 /\ Len(body) \in Nat
      /\ InProgress(body, kind, o, d)
      /\ LoopDepth(body, o) \in Int
      /\ LoopsIn(body, blocks, d) = LoopDepth(body, o) + IF kind = "while" THEN 1 ELSE 0
  BY TopBlock
<1>2. /\ \A q \in 1 .. Len(body) : new[q] = body[q]
      /\ new[n] = node
      /\ \A q \in 1 .. n : BlockDepth(new, q) = BlockDepth(body, q) /\ LoopDepth(new, q) = LoopDepth(body, q)
  BY StackPush, DepthStable DEF Nested
<1>3. BlockDepth(body, n) = d /\ LoopDepth(body, n) = LoopsIn(body, blocks, d)
  BY DEF Nested
<1>4. /\ o \in 1 .. n-1 /\ o \in 1 .. n /\ n \in 1 .. n /\ n-1 = Len(body)
      /\ \A q \in o+1 .. n-1 : q \in 1 .. n /\ q \in 1 .. Len(body)
  BY <1>1 DEF InProgress
<1> HIDE DEF new, n, d, o, kind
<1>5. BlockFrom(new, o, n)
  <2>1. BlockDepth(new, o) = d - 1 /\ BlockDepth(new, n) = d
    BY <1>1, <1>2, <1>3, <1>4 DEF InProgress
  <2>2. \A q \in o+1 .. n-1 : BlockDepth(new, q) >= d
    BY <1>1, <1>2, <1>4 DEF InProgress
  <2>3. \A q \in o+1 .. n-1 : BlockDepth(new, q) \in Int
    BY <1>1, <1>4, DepthType
  <2>4. \A q \in o+1 .. n-1 : BlockDepth(new, q) > BlockDepth(new, o)
    BY <1>1, <2>1, <2>2, <2>3
  <2>5. new[o].k \in {"if", "while"}
    BY <1>1, <1>2, <1>4 DEF InProgress
  <2> QED
    BY <1>1, <2>1, <2>4, <2>5 DEF BlockFrom
<1>6. HasElse(new, o, n) <=> kind = "else"
  <2>1. HasElse(new, o, n) <=> \E q \in o+1 .. n-1 : body[q].k = "else" /\ BlockDepth(body, q) = d
    BY <1>2, <1>3, <1>4 DEF HasElse
  <2> QED
    BY <1>1, <1>4, <2>1 DEF InProgress
<1>7. /\ new[o].k = IF kind = "while" THEN "while" ELSE "if"
      /\ kind = "while" => LoopDepth(new, n) > 0
  BY <1>1, <1>2, <1>3, <1>4 DEF InProgress
<1>8. /\ kind = "while" <=> node.k = "endwhile"
      /\ kind = "else" <=> node.k = "endif"
  <2>1. Ends(kind, node)
    BY DEF kind, d
  <2> QED
    BY <2>1 DEF Ends
<1>9. Closes(new, n)
  <2>1. BlockDepth(new, n) > 0
    BY <1>1, <1>2, <1>3, <1>4
  <2> QED
    BY <1>2, <1>4, <1>5, <1>6, <1>7, <1>8, <2>1 DEF Closes
<1> QED
  BY <1>9 DEF new, n

LEMMA ElseNode ==
  ASSUME NEW body, NEW blocks, Nested(body, blocks), blocks # << >>,
         blocks[Len(blocks)].k = "then", NEW node, node.k = "else"
  PROVE  Nested(Append(body, node), [blocks EXCEPT ![Len(blocks)] = [k |-> "else", at |-> @.at]])
<1> DEFINE new == Append(body, node)
           n == Len(body) + 1
           d == Len(blocks)
           o == blocks[d].at
           entry == [k |-> "else", at |-> o]
           others == [blocks EXCEPT ![d] = entry]
<1>1. /\ d \in Nat /\ d >= 1 /\ d - 1 \in Nat /\ d # 0 /\ Len(body) \in Nat
      /\ InProgress(body, "then", o, d)
      /\ LoopDepth(body, o) = LoopsIn(body, blocks, d - 1)
      /\ LoopsIn(body, blocks, d) = LoopDepth(body, o) /\ LoopDepth(body, o) \in Int
  BY TopBlock
<1>2. Closes(new, n)
  BY TopCloses DEF Ends
<1>3. /\ IsSeq(new) /\ n \in Nat /\ Len(new) = n /\ new[n] = node
      /\ \A p \in 1 .. n : new[p].k \in Closing => Closes(new, p)
      /\ BlockDepth(new, n) = d
      /\ BlockDepth(new, n + 1) = d
      /\ LoopDepth(new, n + 1) = LoopsIn(body, blocks, d)
  BY <1>1, <1>2, Added DEF Closing
<1>4. /\ \A q \in 1 .. Len(body) : new[q] = body[q]
      /\ \A q \in 1 .. n : BlockDepth(new, q) = BlockDepth(body, q) /\ LoopDepth(new, q) = LoopDepth(body, q)
  BY StackPush, DepthStable DEF Nested
<1>5. /\ IsSeq(others) /\ Len(others) = d
      /\ \A m \in 1 .. d-1 : others[m] = blocks[m]
      /\ others[d].k = "else" /\ others[d].at = o
  <2>1. entry.at = o /\ entry.k = "else"
    OBVIOUS
  <2>2. d \in 1 .. d /\ IsSeq(blocks)
    BY <1>1 DEF Nested
  <2> HIDE DEF entry
  <2>4. /\ IsSeq(others) /\ Len(others) = d
        /\ \A m \in 1 .. d : others[m] = IF m = d THEN entry ELSE blocks[m]
    BY <2>2, StackSet
  <2> QED
    BY <1>1, <2>1, <2>2, <2>4
<1>6. /\ \A m \in 1 .. d-1 : /\ InProgress(new, others[m].k, others[m].at, m)
                             /\ LoopDepth(new, others[m].at) = LoopsIn(new, others, m - 1)
      /\ LoopsIn(new, others, d-1) = LoopsIn(body, blocks, d-1)
  <2> DEFINE k == d-1
  <2>1. k \in Nat /\ k <= Len(blocks) /\ (node.k = "else" => k < Len(blocks))
    BY <1>1
  <2>2. \A m \in 1 .. k : others[m] = blocks[m]
    BY <1>5
  <2> HIDE DEF others, k
  <2>3. LET new1 == Append(body, node)
        IN  /\ \A m \in 1 .. k : /\ InProgress(new1, others[m].k, others[m].at, m)
                                 /\ LoopDepth(new1, others[m].at) = LoopsIn(new1, others, m - 1)
            /\ LoopsIn(new1, others, k) = LoopsIn(body, blocks, k)
    BY <2>1, <2>2, Below
  <2> QED
    BY <2>3 DEF k
<1> HIDE DEF new, n, d, o, entry, others
<1>7. o \in 1 .. Len(body) /\ o \in 1 .. n /\ o \in 1 .. n-1 /\ n \in o+1 .. n
  BY <1>1 DEF InProgress, n
<1>8. InProgress(new, "else", o, d)
  <2>1. \A q \in o+1 .. n : BlockDepth(new, q) >= d
    <3> TAKE q \in o+1 .. n
    <3>1. CASE q = n
      BY <1>1, <1>3, <3>1
    <3>2. CASE q # n
      <4>1. q \in o+1 .. Len(body) /\ q \in 1 .. n
        BY <1>1, <1>7, <3>2 DEF n
      <4> QED
        BY <1>1, <1>4, <4>1 DEF InProgress
    <3> QED
      BY <3>1, <3>2
  <2> QED
    BY <1>1, <1>3, <1>4, <1>7, <2>1 DEF InProgress
<1>9. LoopDepth(new, o) = LoopsIn(new, others, d - 1) /\ LoopsIn(new, others, d) = LoopDepth(new, n + 1)
  BY <1>1, <1>3, <1>4, <1>5, <1>6, <1>7 DEF LoopsIn
<1>10. \A m \in 1 .. d : /\ InProgress(new, others[m].k, others[m].at, m)
                         /\ LoopDepth(new, others[m].at) = LoopsIn(new, others, m - 1)
  <2> TAKE m \in 1 .. d
  <2>1. CASE m = d
    BY <1>5, <1>8, <1>9, <2>1
  <2>2. CASE m # d
    <3>1. m \in 1 .. d-1
      BY <1>1, <2>2
    <3> QED
      BY <1>6, <3>1
  <2> QED
    BY <2>1, <2>2
<1> QED
  BY <1>3, <1>5, <1>9, <1>10 DEF Nested, new, n, d, others, entry, o

LEMMA EndNode ==
  ASSUME NEW body, NEW blocks, Nested(body, blocks), blocks # << >>,
         NEW node, Ends(blocks[Len(blocks)].k, node), node.k # "else"
  PROVE  Nested(Append(body, node), Front(blocks))
<1> DEFINE new == Append(body, node)
           n == Len(body) + 1
           d == Len(blocks)
           kind == blocks[d].k
           others == Front(blocks)
<1>1. /\ d \in Nat /\ d >= 1 /\ d - 1 \in Nat
      /\ LoopDepth(body, blocks[d].at) = LoopsIn(body, blocks, d - 1)
      /\ LoopDepth(body, blocks[d].at) \in Int
      /\ LoopsIn(body, blocks, d) = LoopDepth(body, blocks[d].at) + IF kind = "while" THEN 1 ELSE 0
  BY TopBlock
<1>2. Closes(new, n)
  BY TopCloses
<1>3. node.k = (IF kind = "while" THEN "endwhile" ELSE "endif")
  BY DEF Ends
<1>4. /\ IsSeq(new) /\ Len(new) = n
      /\ \A p \in 1 .. n : new[p].k \in Closing => Closes(new, p)
      /\ BlockDepth(new, n + 1) = d + (-1)
      /\ LoopDepth(new, n + 1) = LoopsIn(body, blocks, d) + IF kind = "while" THEN -1 ELSE 0
  BY <1>2, <1>3, Added
<1>5. /\ IsSeq(others) /\ Len(others) = d - 1
      /\ \A m \in 1 .. d-1 : others[m] = blocks[m]
  BY StackPop DEF Nested
<1>6. /\ \A m \in 1 .. d-1 : /\ InProgress(new, others[m].k, others[m].at, m)
                             /\ LoopDepth(new, others[m].at) = LoopsIn(new, others, m - 1)
      /\ LoopsIn(new, others, d-1) = LoopsIn(body, blocks, d-1)
  <2> DEFINE k == d-1
  <2>1. k \in Nat /\ k <= Len(blocks) /\ (node.k = "else" => k < Len(blocks))
    BY <1>1
  <2>2. \A m \in 1 .. k : others[m] = blocks[m]
    BY <1>5
  <2> HIDE DEF others, k
  <2>3. LET new1 == Append(body, node)
        IN  /\ \A m \in 1 .. k : /\ InProgress(new1, others[m].k, others[m].at, m)
                                 /\ LoopDepth(new1, others[m].at) = LoopsIn(new1, others, m - 1)
            /\ LoopsIn(new1, others, k) = LoopsIn(body, blocks, k)
    BY <2>1, <2>2, Below
  <2> QED
    BY <2>3 DEF k
<1> HIDE DEF new, n, d, kind, others
<1>7. BlockDepth(new, n + 1) = d - 1 /\ LoopDepth(new, n + 1) = LoopsIn(new, others, d - 1)
  BY <1>1, <1>4, <1>6
<1> QED
  BY <1>4, <1>5, <1>6, <1>7 DEF Nested, new, n, d, others

LEMMA NothingOpen ==
  ASSUME NEW body, Nested(body, << >>)
  PROVE  WellNested(body)
<1>1. Len(<< >>) = 0
  BY EmptyStack
<1> QED
  BY <1>1 DEF Nested, LoopsIn, WellNested, Closing

-----------------------------------------------------------------------------
(* one and two nodes added *)
LEMMA AddOne ==
  ASSUME NEW s, IsSeq(s), NEW a
  PROVE  s \o <<a>> = Append(s, a)
<1> DEFINE R == Range(s) \cup {a}
<1>1. s \in Seq(R) /\ a \in R
  BY SeqMonotonic DEF IsSeq
<1> HIDE DEF R
<1> QED
  BY <1>1, AppendIsConcat

LEMMA SameStack ==
  ASSUME NEW s, IsSeq(s), NEW t, IsSeq(t), Len(s) = Len(t), \A j \in 1 .. Len(s) : s[j] = t[j]
  PROVE  s = t
<1> DEFINE R == Range(s) \cup Range(t)
<1>1. s \in Seq(R) /\ t \in Seq(R)
  BY SeqMonotonic DEF IsSeq
<1> HIDE DEF R
<1> QED
  BY <1>1, SeqEqual

LEMMA AddTwo ==
  ASSUME NEW s, IsSeq(s), NEW a, NEW b
  PROVE  s \o <<a, b>> = Append(Append(s, a), b)
<1>1. s \o <<a>> = Append(s, a) /\ IsSeq(Append(s, a))
  BY AddOne, StackPush
<1>2. Append(s, a) \o <<b>> = Append(Append(s, a), b)
  BY <1>1, AddOne
<1> DEFINE R == Range(s) \cup Range(<<a>>) \cup Range(<<b>>)
<1>3. /\ IsSeq(<<a>>) /\ Len(<<a>>) = 1 /\ <<a>>[1] = a
      /\ IsSeq(<<b>>)
      /\ IsSeq(<<a, b>>) /\ Len(<<a, b>>) = 2 /\ <<a, b>>[1] = a /\ <<a, b>>[2] = b
  <2>1. <<a, b>> \in Seq({a, b}) /\ Len(<<a, b>>) = 2 /\ <<a, b>>[1] = a /\ <<a, b>>[2] = b
    OBVIOUS
  <2> QED
    BY <2>1, OneEntryStack, SeqOfAnything
<1>4. <<a>> \o <<b>> = <<a, b>>
  <2>1. <<a>> \o <<b>> = Append(<<a>>, b)
    BY <1>3, AddOne
  <2>2. /\ IsSeq(Append(<<a>>, b)) /\ Len(Append(<<a>>, b)) = 2
        /\ Append(<<a>>, b)[1] = a /\ Append(<<a>>, b)[2] = b
    BY <1>3, StackPush
  <2>3. Append(<<a>>, b) = <<a, b>>
    <3>1. \A j \in 1 .. 2 : j = 1 \/ j = 2
      OBVIOUS
    <3> QED
      BY <1>3, <2>2, <3>1, SameStack
  <2> QED
    BY <2>1, <2>3
<1>6. s \in Seq(R) /\ <<a>> \in Seq(R) /\ <<b>> \in Seq(R)
  BY <1>3, SeqMonotonic DEF IsSeq
<1> HIDE DEF R
<1>5. (s \o <<a>>) \o <<b>> = s \o (<<a>> \o <<b>>)
  BY <1>6, ConcatAssociative
<1> QED
  BY <1>1, <1>2, <1>4, <1>5

(* What follows a result that is ok was expected, and stands behind one.   *)
LEMMA Expected ==
  ASSUME NEW r, NEW k, Expect(r, k).ok
  PROVE  r.ok /\ Tok(r.i) = k
  BY DEF Expect, Failed

LEMMA Behind ==
  ASSUME NEW F, NEW r, From(F, r).ok
  PROVE  r.ok
  BY DEF From, Failed

LEMMA Made ==
  ASSUME NEW r, NEW e, With(r, e).ok
  PROVE  r.ok /\ With(r, e).e = e
  BY DEF With, Result, Failed

-----------------------------------------------------------------------------
(* How far the functions of the parser get.                                *)

(* r is fatal, or ends at a token of the input, at j or behind *)
Reaches(r, j) == r.ok => r.i \in DOMAIN toks /\ r.i >= j

LEMMA Positions ==
  ASSUME toks \in Inputs
  PROVE  /\ Len(toks) \in Nat /\ Len(toks) >= 1 /\ DOMAIN toks = 1 .. Len(toks)
         /\ \A j : Tok(j) \notin {"eof", "none"} => j \in DOMAIN toks /\ j+1 \in DOMAIN toks
<1>1. /\ IsSeq(toks) /\ toks # << >>
      /\ \A j \in DOMAIN toks : toks[j].k = "eof" <=> j = Len(toks)
  BY InputsAssumption
<1>2. Len(toks) \in Nat /\ DOMAIN toks = 1 .. Len(toks) /\ Len(toks) # 0
  BY <1>1, SeqBasics
<1>3. \A j : Tok(j) \notin {"eof", "none"} => j \in DOMAIN toks /\ j # Len(toks)
  BY <1>1, <1>2 DEF Tok
<1> QED
  BY <1>2, <1>3

LEMMA Reach ==
  ASSUME toks \in Inputs, NEW j \in Nat
  PROVE  /\ \A r, k : Reaches(r, j) /\ k \notin {"eof", "none"} => Reaches(Expect(r, k), j)
         /\ \A r, e : Reaches(r, j) => Reaches(With(r, e), j)
         /\ \A r, F : Reaches(r, j) /\ (\A m \in DOMAIN toks : Reaches(F[m], m+1)) => Reaches(From(F, r), j)
         /\ \A m, e : m \in DOMAIN toks /\ m >= j => Reaches(Result(e, m), j)
         /\ Reaches(Failed, j)
<1>1. DOMAIN toks \subseteq Nat
  BY Positions
<1>2. Reaches(Failed, j)
  BY DEF Reaches, Failed
<1>3. ASSUME NEW r, NEW k, k \notin {"eof", "none"}, Reaches(r, j)
      PROVE  Reaches(Expect(r, k), j)
  <2>1. CASE r.ok /\ Tok(r.i) = k
    <3>1. r.i \in Nat /\ r.i >= j /\ r.i + 1 \in DOMAIN toks
      BY <1>1, <1>3, <2>1, Positions DEF Reaches
    <3>2. Expect(r, k).i = r.i + 1
      BY <2>1 DEF Expect, Result
    <3> QED
      BY <3>1, <3>2 DEF Reaches
  <2>2. CASE ~(r.ok /\ Tok(r.i) = k)
    BY <1>2, <2>2 DEF Expect
  <2> QED
    BY <2>1, <2>2
<1>4. ASSUME NEW r, NEW e, Reaches(r, j)
      PROVE  Reaches(With(r, e), j)
  BY <1>2, <1>4 DEF Reaches, With, Result
<1>5. ASSUME NEW r, NEW F, Reaches(r, j), \A m \in DOMAIN toks : Reaches(F[m], m+1)
      PROVE  Reaches(From(F, r), j)
  <2>1. CASE r.ok
    <3>1. r.i \in Nat /\ r.i \in DOMAIN toks /\ r.i >= j /\ From(F, r) = F[r.i]
      BY <1>1, <1>5, <2>1 DEF Reaches, From
    <3>2. F[r.i].ok => F[r.i].i \in DOMAIN toks /\ F[r.i].i >= r.i + 1
      BY <1>5, <3>1 DEF Reaches
    <3> QED
      BY <1>1, <3>1, <3>2 DEF Reaches
  <2>2. CASE ~r.ok
    BY <1>2, <2>2 DEF From
  <2> QED
    BY <2>1, <2>2
<1>6. ASSUME NEW m, NEW e, m \in DOMAIN toks, m >= j
      PROVE  Reaches(Result(e, m), j)
  BY <1>6 DEF Reaches, Result
<1> QED
  BY <1>2, <1>3, <1>4, <1>5, <1>6

(* parseType() takes a token at least, and returns a type.                 *)
TypeFit(p, j, r) == Reaches(r, j+1) /\ (r.ok => IsType(r.e))
TypeDom(p) == DOMAIN toks
TypeRank(p, j) == Len(toks) - j
TypeBody(p, T, j) == parseType(T, j)
Types == INSTANCE Recursion WITH Dom <- TypeDom, Rank <- TypeRank, Body <- TypeBody, Fit <- TypeFit

LEMMA OneType ==
  ASSUME toks \in Inputs, NEW j \in DOMAIN toks, NEW T, NEW U,
         \A m \in DOMAIN toks : m > j => T[m] = U[m] /\ TypeFit(0, m, T[m])
  PROVE  parseType(T, j) = parseType(U, j) /\ TypeFit(0, j, parseType(T, j))
<1>1. j \in Nat /\ j+1 \in Nat /\ DOMAIN toks \subseteq Nat
  BY Positions
<1> DEFINE less == Expect(Result(NoType, j+1), "<")
           Elem(F) == Expect(From(F, less), ">")
           Base(F) == IF Tok(j) \in DOMAIN TypeNames THEN Result(TypeNames[Tok(j)], j+1)
                      ELSE IF Tok(j) = "ptr" THEN With(Elem(F), Ptr(Elem(F).e)) ELSE Failed
           size == Expect(Base(T), "[")
           array == Expect(Expect(size, "int"), "]")
<1>2. From(T, less) = From(U, less) /\ Reaches(From(T, less), j+1)
  <2>1. CASE less.ok
    <3>1. less.i = j+2 /\ j+2 \in DOMAIN toks
      BY <1>1, <2>1, Positions DEF Expect, Result, Failed
    <3>2. T[j+2] = U[j+2] /\ Reaches(T[j+2], j+3)
      BY <1>1, <3>1 DEF TypeFit
    <3> HIDE DEF less
    <3> QED
      BY <1>1, <2>1, <3>1, <3>2 DEF From, Reaches
  <2>2. CASE ~less.ok
    <3> HIDE DEF less
    <3> QED
      BY <1>1, <2>2, Reach DEF From
  <2> QED
    BY <2>1, <2>2
<1>3. Base(T) = Base(U) /\ Elem(T) = Elem(U)
  BY <1>2
<1>4. Reaches(Base(T), j+1) /\ (Base(T).ok => IsType(Base(T).e))
  <2>1. CASE Tok(j) \in DOMAIN TypeNames
    <3>1. /\ Tok(j) \in {"i32", "i64", "bool", "void"}
          /\ IsType(TypeNames[Tok(j)])
      BY <2>1 DEF TypeNames, IsType, I32, I64, Bool, Void
    <3>2. j+1 \in DOMAIN toks
      BY <3>1, Positions
    <3>3. Base(T) = Result(TypeNames[Tok(j)], j+1)
      BY <2>1
    <3> HIDE DEF Base
    <3> QED
      BY <1>1, <3>1, <3>2, <3>3, Reach DEF Result
  <2>2. CASE Tok(j) \notin DOMAIN TypeNames /\ Tok(j) = "ptr"
    <3>1. Base(T) = With(Elem(T), Ptr(Elem(T).e)) /\ IsType(Ptr(Elem(T).e))
      BY <2>2 DEF Ptr, IsType
    <3>2. Reaches(Elem(T), j+1)
      BY <1>1, <1>2, Reach
    <3> HIDE DEF Base, Elem
    <3> QED
      BY <1>1, <3>1, <3>2, Reach, Made
  <2>3. CASE Tok(j) \notin DOMAIN TypeNames /\ Tok(j) # "ptr"
    <3>1. Base(T) = Failed
      BY <2>3
    <3>2. ~Failed.ok
      BY DEF Failed
    <3> HIDE DEF Base
    <3> QED
      BY <1>1, <3>1, <3>2, Reach
  <2> QED
    BY <2>1, <2>2, <2>3
<1>5. /\ parseType(T, j) = IF size.ok THEN With(array, Array(Base(T).e, toks[size.i].v)) ELSE Base(T)
      /\ parseType(T, j) = parseType(U, j)
  BY <1>3 DEF parseType
<1> HIDE DEF Base
<1>6. Reaches(array, j+1)
  BY <1>1, <1>4, Reach
<1>7. \A e, v : IsType(Array(e, v))
  BY DEF IsType, Array
<1> HIDE DEF size, array
<1>8. CASE size.ok
  BY <1>1, <1>5, <1>6, <1>7, <1>8, Reach, Made DEF TypeFit
<1>9. CASE ~size.ok
  BY <1>4, <1>5, <1>9 DEF TypeFit
<1> QED
  BY <1>5, <1>8, <1>9

LEMMA TypeCalls ==
  ASSUME toks \in Inputs
  PROVE  \A j \in DOMAIN toks : /\ ParseType[j] = parseType(ParseType, j)
                                /\ Reaches(ParseType[j], j+1)
                                /\ ParseType[j].ok => IsType(ParseType[j].e)
<1>1. ASSUME NEW j \in DOMAIN toks
      PROVE  /\ TypeRank(0, j) \in Nat
             /\ \A t, u : Types!FitBelow(0, t, TypeRank(0, j)) /\ Types!Agree(0, t, u, TypeRank(0, j)) =>
                  TypeBody(0, t, j) = TypeBody(0, u, j) /\ TypeFit(0, j, TypeBody(0, t, j))
  <2>1. \A m \in DOMAIN toks : TypeRank(0, m) \in Nat /\ (m > j => TypeRank(0, m) < TypeRank(0, j))
    BY Positions DEF TypeRank
  <2>2. ASSUME NEW t, NEW u, Types!FitBelow(0, t, TypeRank(0, j)), Types!Agree(0, t, u, TypeRank(0, j))
        PROVE  TypeBody(0, t, j) = TypeBody(0, u, j) /\ TypeFit(0, j, TypeBody(0, t, j))
    <3>1. \A m \in DOMAIN toks : m > j => t[m] = u[m] /\ TypeFit(0, m, t[m])
      BY <2>1, <2>2 DEF Types!FitBelow, Types!Agree, TypeDom
    <3> QED
      BY <3>1, OneType DEF TypeBody
  <2> QED
    BY <2>1, <2>2
<1>2. Types!LooksDown(0)
  BY <1>1 DEF Types!LooksDown, TypeDom
<1> DEFINE T == Types!Defined(0)
<1>3. T = [j \in TypeDom(0) |-> TypeBody(0, T, j)] /\ \A j \in TypeDom(0) : TypeFit(0, j, T[j])
  BY <1>2, Types!Unfolding
<1>4. T = ParseType
  BY DEF Types!Defined, TypeDom, TypeBody, ParseType
<1> HIDE DEF T
<1>5. \A j \in DOMAIN toks : T[j] = parseType(T, j)
  BY <1>3 DEF TypeDom, TypeBody
<1> QED
  BY <1>3, <1>4, <1>5 DEF TypeDom, TypeFit

LEMMA TypesReach ==
  ASSUME toks \in Inputs
  PROVE  \A j \in DOMAIN toks : Reaches(ParseType[j], j+1) /\ (ParseType[j].ok => IsType(ParseType[j].e))
  BY TypeCalls

LEMMA TypeResult ==
  ASSUME toks \in Inputs, NEW r, NEW j, Reaches(r, j), From(ParseType, r).ok
  PROVE  IsType(From(ParseType, r).e)
<1>1. r.ok /\ From(ParseType, r) = ParseType[r.i]
  BY DEF From, Failed
<1> QED
  BY <1>1, TypesReach DEF Reaches

(* E and D return the same, and get on, from every token behind j.         *)
Behaves(E, D, j) ==
  \A n \in 0 .. 8, m \in DOMAIN toks :
    m > j => /\ Level(E, n, m) = Level(D, n, m) /\ Reaches(Level(E, n, m), m + 1)
             /\ E[<<n, TRUE, m>>] = D[<<n, TRUE, m>>] /\ Reaches(E[<<n, TRUE, m>>], m)

BehavesAt(E, D, n, j) == Level(E, n, j) = Level(D, n, j) /\ Reaches(Level(E, n, j), j + 1)

LEMMA LoopReaches ==
  ASSUME toks \in Inputs, NEW j \in DOMAIN toks, NEW E, NEW D, Behaves(E, D, j),
         NEW n \in 0 .. 8, NEW r, NEW m \in Nat, m > j, Reaches(r, m)
  PROVE  Loop(E, n, r) = Loop(D, n, r) /\ Reaches(Loop(E, n, r), m)
<1>1. DOMAIN toks \subseteq Nat
  BY Positions
<1>2. CASE r.ok
  <2>1. r.i \in DOMAIN toks /\ r.i \in Nat /\ r.i >= m /\ r.i > j
    BY <1>1, <1>2 DEF Reaches
  <2>2. E[<<n, TRUE, r.i>>] = D[<<n, TRUE, r.i>>] /\ Reaches(E[<<n, TRUE, r.i>>], r.i)
    BY <2>1 DEF Behaves
  <2>3. Loop(E, n, r) = E[<<n, TRUE, r.i>>] /\ Loop(D, n, r) = D[<<n, TRUE, r.i>>]
    BY <1>2 DEF Loop
  <2> DEFINE more == E[<<n, TRUE, r.i>>]
  <2>4. more = Loop(E, n, r) /\ more = Loop(D, n, r) /\ Reaches(more, r.i)
    BY <2>2, <2>3
  <2> HIDE DEF more
  <2> QED
    BY <1>1, <2>1, <2>4 DEF Reaches
<1>3. CASE ~r.ok
  BY <1>3, Reach DEF Loop
<1> QED
  BY <1>2, <1>3

LEMMA LevelReaches ==
  ASSUME toks \in Inputs, NEW j \in DOMAIN toks, NEW E, NEW D, Behaves(E, D, j),
         NEW n \in 0 .. 8, NEW m \in DOMAIN toks, m > j
  PROVE  Level(E, n, m) = Level(D, n, m) /\ Reaches(Level(E, n, m), m)
<1>1. Level(E, n, m) = Level(D, n, m) /\ Reaches(Level(E, n, m), m+1)
  BY DEF Behaves
<1>2. DOMAIN toks \subseteq Nat
  BY Positions
<1> QED
  BY <1>1, <1>2 DEF Reaches

LEMMA ItemsReach ==
  ASSUME toks \in Inputs, NEW j \in DOMAIN toks, NEW E, NEW D, Behaves(E, D, j), NEW n \in 0 .. 8
  PROVE  parseItems(E, n, j) = parseItems(D, n, j) /\ Reaches(parseItems(E, n, j), j)
<1>1. j \in Nat /\ j+1 \in Nat /\ j+1 > j /\ j+1 >= j
  BY Positions
<1>2. CASE Tok(j) \notin Begins(n)
  <2>1. parseItems(E, n, j) = Result(<< >>, j) /\ parseItems(D, n, j) = Result(<< >>, j)
    BY <1>2 DEF parseItems
  <2> QED
    BY <1>1, <2>1, Reach
<1>3. CASE Tok(j) \in Begins(n)
  <2> DEFINE item(F) == parseItem(F, n, j)
             rest(F) == Loop(F, n, item(F))
  <2>1. Tok(j) \notin {"eof", "none"} /\ n # 7
    <3>1. \A l \in 1 .. 6 : Levels[l] \cap {"eof", "none"} = {}
      <4>1. \A l \in 1 .. 6 : l = 1 \/ l = 2 \/ l = 3 \/ l = 4 \/ l = 5 \/ l = 6
        OBVIOUS
      <4> QED
        BY <4>1 DEF Levels
    <3>2. n = 0 \/ n = 8 \/ n \in 1 .. 6 \/ n = 7
      OBVIOUS
    <3>3. CASE n = 0
      <4>1. Begins(n) = {","}
        BY <3>3 DEF Begins
      <4>2. Tok(j) = "," /\ "," \notin {"eof", "none"}
        BY <1>3, <4>1, Zenon
      <4>3. n # 7
        BY <3>3
      <4> QED
        BY <4>2, <4>3, Zenon
    <3>4. CASE n = 8
      <4>1. Begins(n) = {"["}
        BY <3>4 DEF Begins
      <4> QED
        BY <1>3, <3>4, <4>1
    <3>5. CASE n \in 1 .. 6
      <4>1. n # 0 /\ n # 8 /\ n # 7
        BY <3>5
      <4>2. Begins(n) = Levels[n]
        BY <3>5, <4>1 DEF Begins, Ops
      <4> QED
        BY <1>3, <3>1, <3>5, <4>1, <4>2
    <3>6. CASE n = 7
      <4>1. Begins(n) = {}
        BY <3>6 DEF Begins
      <4> QED
        BY <1>3, <4>1
    <3> QED
      BY <3>2, <3>3, <3>4, <3>5, <3>6
  <2>2. j+1 \in DOMAIN toks
    BY <2>1, Positions
  <2>3. item(E) = item(D) /\ Reaches(item(E), j+1)
    <3>1. CASE n = 0
      BY <1>1, <2>2, <3>1, LevelReaches DEF parseItem
    <3>2. CASE n = 8
      <4>1. Level(E, 0, j+1) = Level(D, 0, j+1) /\ Reaches(Level(E, 0, j+1), j+1)
        BY <1>1, <2>2, LevelReaches
      <4>2. Reaches(Expect(Level(E, 0, j+1), "]"), j+1)
        BY <1>1, <4>1, Reach
      <4> QED
        BY <3>2, <4>1, <4>2 DEF parseItem
    <3>3. CASE n # 0 /\ n # 8
      <4>1. n+1 \in 0 .. 8
        BY <3>3
      <4>2. Level(E, n+1, j+1) = Level(D, n+1, j+1) /\ Reaches(Level(E, n+1, j+1), j+1)
        BY <1>1, <2>2, <4>1, LevelReaches
      <4> QED
        BY <3>3, <4>2 DEF parseItem
    <3> QED
      BY <3>1, <3>2, <3>3
  <2> HIDE DEF item
  <2>4. rest(E) = rest(D) /\ Reaches(rest(E), j+1)
    BY <1>1, <2>3, LoopReaches
  <2> DEFINE taken(F) == <<[op |-> Tok(j), e |-> item(F).e]>> \o rest(F).e
  <2>5. /\ parseItems(E, n, j) = With(rest(E), taken(E))
        /\ parseItems(D, n, j) = With(rest(D), taken(D))
    BY <1>3 DEF parseItems, item
  <2> HIDE DEF rest
  <2>6. taken(E) = taken(D)
    BY <2>3, <2>4
  <2> HIDE DEF taken
  <2>7. Reaches(With(rest(E), taken(E)), j+1)
    BY <1>1, <2>4, Reach
  <2>8. Reaches(parseItems(E, n, j), j)
    BY <1>1, <2>5, <2>7, Positions DEF Reaches
  <2> QED
    BY <2>4, <2>5, <2>6, <2>8
<1> QED
  BY <1>2, <1>3

LEMMA AssignReaches ==
  ASSUME toks \in Inputs, NEW j \in DOMAIN toks, NEW E, NEW D, Behaves(E, D, j), BehavesAt(E, D, 1, j)
  PROVE  parseAssign(E, j) = parseAssign(D, j) /\ Reaches(parseAssign(E, j), j+1)
<1>1. j \in Nat /\ j+1 \in Nat /\ j+1 > j /\ DOMAIN toks \subseteq Nat
  BY Positions
<1> DEFINE target == Level(E, 1, j)
           value(F) == Level(F, 0, target.i + 1)
           whole(F) ==
             IF ~target.ok \/ Tok(target.i) \notin {"="} \cup Compound THEN target
             ELSE IF Tok(target.i) = "=" THEN With(value(F), Bin(target.e, "=", value(F).e))
             ELSE IF target.e.k # "var" THEN Failed
             ELSE With(value(F), Bin(target.e, "=", Bin(target.e, OperatorOf(Tok(target.i)), value(F).e)))
<1>2. parseAssign(E, j) = whole(E) /\ parseAssign(D, j) = whole(D)
  BY DEF parseAssign, BehavesAt
<1>3. Reaches(target, j+1)
  BY DEF BehavesAt
<1> HIDE DEF target
<1>4. CASE ~target.ok \/ Tok(target.i) \notin {"="} \cup Compound
  BY <1>2, <1>3, <1>4
<1>5. CASE target.ok /\ Tok(target.i) \in {"="} \cup Compound
  <2>1. Tok(target.i) \notin {"eof", "none"}
    BY <1>5 DEF Compound
  <2>2. target.i + 1 \in DOMAIN toks /\ target.i + 1 > j /\ target.i + 1 >= j + 1 /\ target.i + 1 \in Nat
    BY <1>1, <1>3, <1>5, <2>1, Positions DEF Reaches
  <2>3. value(E) = value(D) /\ Reaches(value(E), target.i + 1)
    BY <2>2, LevelReaches
  <2>4. Reaches(value(E), j+1)
    <3> HIDE DEF value
    <3> QED
      BY <1>1, <2>2, <2>3 DEF Reaches
  <2> HIDE DEF value
  <2>5. \A e : Reaches(With(value(E), e), j+1) /\ Reaches(Failed, j+1)
    BY <1>1, <2>4, Reach
  <2> QED
    BY <1>2, <1>5, <2>3, <2>5
<1> QED
  BY <1>4, <1>5

LEMMA BinaryReaches ==
  ASSUME toks \in Inputs, NEW j \in DOMAIN toks, NEW E, NEW D, Behaves(E, D, j),
         NEW n \in 1 .. 6, BehavesAt(E, D, n+1, j)
  PROVE  parseBinary(E, n, j) = parseBinary(D, n, j) /\ Reaches(parseBinary(E, n, j), j+1)
<1>1. j \in Nat /\ j+1 \in Nat /\ j+1 > j
  BY Positions
<1> DEFINE first == Level(E, n+1, j)
           others(F) == Loop(F, n, first)
<1>2. Reaches(first, j+1) /\ first = Level(D, n+1, j)
  BY DEF BehavesAt
<1> HIDE DEF first
<1>3. others(E) = others(D) /\ Reaches(others(E), j+1)
  BY <1>1, <1>2, LoopReaches
<1>4. /\ parseBinary(E, n, j) = With(others(E), Grown(n, first.e, others(E).e))
      /\ parseBinary(D, n, j) = With(others(D), Grown(n, first.e, others(D).e))
  BY <1>2 DEF parseBinary, first
<1> HIDE DEF others
<1> QED
  BY <1>1, <1>3, <1>4, Reach

LEMMA UnaryReaches ==
  ASSUME toks \in Inputs, NEW j \in DOMAIN toks, NEW E, NEW D, Behaves(E, D, j), BehavesAt(E, D, 8, j)
  PROVE  parseUnary(E, j) = parseUnary(D, j) /\ Reaches(parseUnary(E, j), j+1)
<1>1. j \in Nat /\ j+1 \in Nat /\ j+1 > j
  BY Positions
<1>2. CASE Tok(j) \in {"!", "-"}
  <2> DEFINE r == Level(E, 7, j+1)
  <2>1. j+1 \in DOMAIN toks
    BY <1>2, Positions
  <2>2. r = Level(D, 7, j+1) /\ Reaches(r, j+1)
    BY <1>1, <2>1, LevelReaches
  <2>3. parseUnary(E, j) = With(r, Unary(Tok(j), r.e)) /\ parseUnary(D, j) = With(r, Unary(Tok(j), r.e))
    BY <1>2, <2>2 DEF parseUnary
  <2> HIDE DEF r
  <2> QED
    BY <1>1, <2>2, <2>3, Reach
<1>3. CASE Tok(j) \notin {"!", "-"}
  BY <1>3 DEF parseUnary, BehavesAt
<1> QED
  BY <1>2, <1>3

LEMMA ListReaches ==
  ASSUME toks \in Inputs, NEW j \in DOMAIN toks, NEW E, NEW D, Behaves(E, D, j),
         NEW m \in DOMAIN toks, m > j, NEW close, close \notin {"eof", "none"}
  PROVE  parseList(E, m, close) = parseList(D, m, close) /\ Reaches(parseList(E, m, close), m)
<1>1. m \in Nat /\ m+1 \in Nat /\ m+1 >= m
  BY Positions
<1>2. CASE Tok(m) = close
  <2>1. m+1 \in DOMAIN toks
    BY <1>2, Positions
  <2>2. \A F : parseList(F, m, close) = Result(<< >>, m+1)
    BY <1>2 DEF parseList
  <2> QED
    BY <1>1, <2>1, <2>2, Reach
<1>3. CASE Tok(m) # close
  <2> DEFINE first == Level(E, 0, m)
             others(F) == Loop(F, 0, first)
             list(F) == Grown(0, <<first.e>>, others(F).e)
  <2>1. first = Level(D, 0, m) /\ Reaches(first, m)
    BY LevelReaches
  <2>2. /\ parseList(E, m, close) = Expect(With(others(E), list(E)), close)
        /\ parseList(D, m, close) = Expect(With(others(D), list(D)), close)
    BY <1>3, <2>1 DEF parseList
  <2> HIDE DEF first
  <2>3. others(E) = others(D) /\ Reaches(others(E), m)
    BY <1>1, <2>1, LoopReaches
  <2> HIDE DEF others
  <2>4. list(E) = list(D)
    BY <2>3
  <2> HIDE DEF list
  <2> QED
    BY <1>1, <2>2, <2>3, <2>4, Reach
<1> QED
  BY <1>2, <1>3

LEMMA PrimaryReaches ==
  ASSUME toks \in Inputs, NEW j \in DOMAIN toks, NEW E, NEW D, Behaves(E, D, j)
  PROVE  parsePrimary(E, j) = parsePrimary(D, j) /\ Reaches(parsePrimary(E, j), j+1)
<1>1. j \in Nat /\ j+1 \in Nat /\ j+1 > j /\ j+2 > j /\ j+2 \in Nat /\ (j+1)+1 = j+2
  BY Positions
<1>2. Tok(j) \in {"ident", "[", "("} \cup LiteralKinds => j+1 \in DOMAIN toks
  BY Positions DEF LiteralKinds
<1>3. Tok(j+1) = "(" => j+2 \in DOMAIN toks
  BY <1>1, Positions
<1>4. CASE Tok(j) = "ident" /\ Tok(j+1) = "("
  <2> DEFINE arguments == parseList(E, j+2, ")")
  <2>1. arguments = parseList(D, j+2, ")") /\ Reaches(arguments, j+2)
    BY <1>1, <1>3, <1>4, ListReaches
  <2>2. parsePrimary(E, j) = With(arguments, Call(toks[j].x, arguments.e))
    BY <1>4 DEF parsePrimary, LiteralKinds
  <2>4. parsePrimary(D, j) = With(arguments, Call(toks[j].x, arguments.e))
    BY <1>4, <2>1 DEF parsePrimary, LiteralKinds
  <2> HIDE DEF arguments
  <2>3. Reaches(parsePrimary(E, j), j+2)
    BY <1>1, <2>1, <2>2, Reach
  <2> QED
    BY <1>1, <2>2, <2>3, <2>4, Positions DEF Reaches
<1>5. CASE Tok(j) = "ident" /\ Tok(j+1) # "("
  <2>1. \A F : parsePrimary(F, j) = Result(Var(toks[j].x), j+1)
    BY <1>5 DEF parsePrimary, LiteralKinds
  <2> QED
    BY <1>1, <1>2, <1>5, <2>1, Reach
<1>6. CASE Tok(j) \in LiteralKinds
  <2>1. \A F : parsePrimary(F, j) = Result(Literal(toks[j]), j+1)
    BY <1>6 DEF parsePrimary, LiteralKinds
  <2> QED
    BY <1>1, <1>2, <1>6, <2>1, Reach
<1>7. CASE Tok(j) = "["
  <2> DEFINE elements == parseList(E, j+1, "]")
  <2>1. elements = parseList(D, j+1, "]") /\ Reaches(elements, j+1)
    BY <1>1, <1>2, <1>7, ListReaches
  <2>2. /\ parsePrimary(E, j) = With(elements, ArrayLit(elements.e))
        /\ parsePrimary(D, j) = With(elements, ArrayLit(elements.e))
    BY <1>7, <2>1 DEF parsePrimary, LiteralKinds
  <2> HIDE DEF elements
  <2> QED
    BY <1>1, <2>1, <2>2, Reach
<1>8. CASE Tok(j) = "("
  <2> DEFINE e == Level(E, 0, j+1)
  <2>1. e = Level(D, 0, j+1) /\ Reaches(e, j+1)
    BY <1>1, <1>2, <1>8, LevelReaches
  <2>2. parsePrimary(E, j) = Expect(e, ")") /\ parsePrimary(D, j) = Expect(e, ")")
    BY <1>8, <2>1 DEF parsePrimary, LiteralKinds
  <2> HIDE DEF e
  <2> QED
    BY <1>1, <2>1, <2>2, Reach
<1>9. CASE Tok(j) \notin {"ident", "[", "("} \cup LiteralKinds
  <2>1. \A F : parsePrimary(F, j) = Failed
    BY <1>9 DEF parsePrimary
  <2> QED
    BY <1>1, <2>1, Reach
<1> QED
  BY <1>4, <1>5, <1>6, <1>7, <1>8, <1>9

LEMMA PostfixReaches ==
  ASSUME toks \in Inputs, NEW j \in DOMAIN toks, NEW E, NEW D, Behaves(E, D, j)
  PROVE  parsePostfix(E, j) = parsePostfix(D, j) /\ Reaches(parsePostfix(E, j), j+1)
<1>1. j \in Nat /\ j+1 \in Nat /\ j+1 > j
  BY Positions
<1> DEFINE primary == parsePrimary(E, j)
           subscripts(F) == Loop(F, 8, primary)
<1>2. primary = parsePrimary(D, j) /\ Reaches(primary, j+1)
  BY PrimaryReaches
<1> HIDE DEF primary
<1>3. subscripts(E) = subscripts(D) /\ Reaches(subscripts(E), j+1)
  BY <1>1, <1>2, LoopReaches
<1>4. /\ parsePostfix(E, j) = With(subscripts(E), Grown(8, primary.e, subscripts(E).e))
      /\ parsePostfix(D, j) = With(subscripts(D), Grown(8, primary.e, subscripts(D).e))
  BY <1>2 DEF parsePostfix, primary
<1> HIDE DEF subscripts
<1> QED
  BY <1>1, <1>3, <1>4, Reach

(* Every function of the parser for expressions returns behind its first   *)
(* token, each of their loops at its first or behind, and none of them     *)
(* looks at a token before or, but for the levels above it, at its own.    *)
LevelFit(p, c, r) == Reaches(r, IF c[2] THEN c[3] ELSE c[3] + 1)
LevelDom(p) == Calls
LevelRank(p, c) == 9 * (Len(toks) - c[3]) + 8 - c[1]
LevelBody(p, E, c) == parseLevel(E, c)
Levelled == INSTANCE Recursion WITH Dom <- LevelDom, Rank <- LevelRank, Body <- LevelBody, Fit <- LevelFit

LEMMA OneLevel ==
  ASSUME toks \in Inputs, NEW n \in 0 .. 8, NEW more \in BOOLEAN, NEW j \in DOMAIN toks, NEW E, NEW D,
         Behaves(E, D, j), \A m \in n+1 .. 8 : BehavesAt(E, D, m, j)
  PROVE  /\ parseLevel(E, <<n, more, j>>) = parseLevel(D, <<n, more, j>>)
         /\ LevelFit(0, <<n, more, j>>, parseLevel(E, <<n, more, j>>))
<1> DEFINE c == <<n, more, j>>
<1>1. c[1] = n /\ c[2] = more /\ c[3] = j
  OBVIOUS
<1> HIDE DEF c
<1>2. CASE more
  <2>1. \A F : parseLevel(F, c) = parseItems(F, n, j)
    BY <1>1, <1>2 DEF parseLevel
  <2>2. parseItems(E, n, j) = parseItems(D, n, j) /\ Reaches(parseItems(E, n, j), j)
    BY ItemsReach
  <2>3. parseLevel(E, c) = parseLevel(D, c) /\ LevelFit(0, c, parseLevel(E, c))
    BY <1>1, <1>2, <2>1, <2>2 DEF LevelFit
  <2> QED
    BY <2>3 DEF c
<1>3. CASE ~more /\ n = 0
  <2>1. \A F : parseLevel(F, c) = parseAssign(F, j)
    BY <1>1, <1>3 DEF parseLevel
  <2>2. 1 \in n+1 .. 8
    BY <1>3
  <2> QED
    BY <1>1, <1>3, <2>1, <2>2, AssignReaches DEF LevelFit, c
<1>4. CASE ~more /\ n \in 1 .. 6
  <2>1. \A F : parseLevel(F, c) = parseBinary(F, n, j)
    BY <1>1, <1>4 DEF parseLevel
  <2>2. n+1 \in n+1 .. 8
    BY <1>4
  <2> QED
    BY <1>1, <1>4, <2>1, <2>2, BinaryReaches DEF LevelFit, c
<1>5. CASE ~more /\ n = 7
  <2>1. \A F : parseLevel(F, c) = parseUnary(F, j)
    BY <1>1, <1>5 DEF parseLevel
  <2>2. 8 \in n+1 .. 8
    BY <1>5
  <2> QED
    BY <1>1, <1>5, <2>1, <2>2, UnaryReaches DEF LevelFit, c
<1>6. CASE ~more /\ n = 8
  <2>1. \A F : parseLevel(F, c) = parsePostfix(F, j)
    BY <1>1, <1>6 DEF parseLevel
  <2> QED
    BY <1>1, <1>6, <2>1, PostfixReaches DEF LevelFit, c
<1>7. n = 0 \/ n \in 1 .. 6 \/ n = 7 \/ n = 8
  OBVIOUS
<1> QED
  BY <1>2, <1>3, <1>4, <1>5, <1>6, <1>7 DEF c

LEMMA LevelCalls ==
  ASSUME toks \in Inputs
  PROVE  \A c \in Calls : /\ ParseLevel[c] = parseLevel(ParseLevel, c)
                           /\ Reaches(ParseLevel[c], IF c[2] THEN c[3] ELSE c[3] + 1)
<1>1. ASSUME NEW c \in Calls
      PROVE  /\ LevelRank(0, c) \in Nat
             /\ \A t, u : Levelled!FitBelow(0, t, LevelRank(0, c)) /\ Levelled!Agree(0, t, u, LevelRank(0, c)) =>
                  LevelBody(0, t, c) = LevelBody(0, u, c) /\ LevelFit(0, c, LevelBody(0, t, c))
  <2>1. PICK n \in 0 .. 8, more \in BOOLEAN, j \in DOMAIN toks : c = <<n, more, j>>
    BY DEF Calls
  <2>2. j \in Nat /\ Len(toks) \in Nat /\ DOMAIN toks = 1 .. Len(toks) /\ j <= Len(toks)
    BY Positions
  <2>3. \A l \in 0 .. 8, b \in BOOLEAN, m \in DOMAIN toks :
          /\ <<l, b, m>> \in Calls
          /\ LevelRank(0, <<l, b, m>>) = 9 * (Len(toks) - m) + 8 - l
    BY DEF Calls, LevelRank
  <2>4. LevelRank(0, c) = 9 * (Len(toks) - j) + 8 - n
    BY <2>1, <2>3
  <2>5. LevelRank(0, c) \in Nat
    BY <2>2, <2>4
  <2>6. ASSUME NEW t, NEW u, Levelled!FitBelow(0, t, LevelRank(0, c)), Levelled!Agree(0, t, u, LevelRank(0, c))
        PROVE  LevelBody(0, t, c) = LevelBody(0, u, c) /\ LevelFit(0, c, LevelBody(0, t, c))
    <3>1. ASSUME NEW l \in 0 .. 8, NEW b \in BOOLEAN, NEW m \in DOMAIN toks, m > j \/ (m = j /\ l > n)
          PROVE  /\ t[<<l, b, m>>] = u[<<l, b, m>>]
                 /\ Reaches(t[<<l, b, m>>], IF b THEN m ELSE m + 1)
      <4> DEFINE d == <<l, b, m>>
      <4>1. d \in Calls /\ LevelRank(0, d) < LevelRank(0, c)
        <5>1. m \in Nat /\ m <= Len(toks)
          BY <2>2
        <5>2. 9 * (Len(toks) - m) + 8 - l < 9 * (Len(toks) - j) + 8 - n
          BY <2>2, <3>1, <5>1
        <5> QED
          BY <2>3, <2>4, <5>2
      <4>2. d[2] = b /\ d[3] = m
        OBVIOUS
      <4> HIDE DEF d
      <4>3. t[d] = u[d] /\ LevelFit(0, d, t[d])
        BY <2>6, <4>1 DEF Levelled!FitBelow, Levelled!Agree, LevelDom
      <4> QED
        BY <4>2, <4>3 DEF LevelFit, d
    <3>2. Behaves(t, u, j)
      <4> SUFFICES ASSUME NEW l \in 0 .. 8, NEW m \in DOMAIN toks, m > j
                   PROVE  /\ Level(t, l, m) = Level(u, l, m) /\ Reaches(Level(t, l, m), m + 1)
                          /\ t[<<l, TRUE, m>>] = u[<<l, TRUE, m>>] /\ Reaches(t[<<l, TRUE, m>>], m)
        BY DEF Behaves
      <4>1. t[<<l, FALSE, m>>] = u[<<l, FALSE, m>>] /\ Reaches(t[<<l, FALSE, m>>], m + 1)
        BY <3>1
      <4>2. t[<<l, TRUE, m>>] = u[<<l, TRUE, m>>] /\ Reaches(t[<<l, TRUE, m>>], m)
        BY <3>1
      <4> QED
        BY <4>1, <4>2 DEF Level
    <3>3. ASSUME NEW m \in n+1 .. 8 PROVE BehavesAt(t, u, m, j)
      <4>1. m \in 0 .. 8 /\ m > n
        OBVIOUS
      <4>2. t[<<m, FALSE, j>>] = u[<<m, FALSE, j>>] /\ Reaches(t[<<m, FALSE, j>>], j + 1)
        BY <3>1, <4>1
      <4> QED
        BY <4>2 DEF BehavesAt, Level
    <3> QED
      BY <2>1, <3>2, <3>3, OneLevel DEF LevelBody
  <2> QED
    BY <2>5, <2>6
<1>2. Levelled!LooksDown(0)
  BY <1>1 DEF Levelled!LooksDown, LevelDom
<1> DEFINE E == Levelled!Defined(0)
<1>3. E = [c \in LevelDom(0) |-> LevelBody(0, E, c)] /\ \A c \in LevelDom(0) : LevelFit(0, c, E[c])
  BY <1>2, Levelled!Unfolding
<1>4. E = ParseLevel
  BY DEF Levelled!Defined, LevelDom, LevelBody, ParseLevel
<1> HIDE DEF E
<1>5. \A c \in Calls : E[c] = parseLevel(E, c)
  BY <1>3 DEF LevelDom, LevelBody
<1> QED
  BY <1>3, <1>4, <1>5 DEF LevelDom, LevelFit

LEMMA ExprsReach ==
  ASSUME toks \in Inputs
  PROVE  \A j \in DOMAIN toks : Reaches(ParseExpr[j], j+1)
<1> SUFFICES ASSUME NEW j \in DOMAIN toks PROVE Reaches(ParseExpr[j], j+1)
  OBVIOUS
<1> DEFINE c == <<0, FALSE, j>>
<1>5. \A l \in 0 .. 8, b \in BOOLEAN, m \in DOMAIN toks : <<l, b, m>> \in Calls
  BY DEF Calls
<1>6. c \in Calls /\ c[2] = FALSE /\ c[3] = j
  <2>1. 0 \in 0 .. 8 /\ FALSE \in BOOLEAN
    OBVIOUS
  <2>2. c \in Calls
    BY <1>5, <2>1
  <2> QED
    BY <2>2
<1>7. ParseExpr[j] = ParseLevel[c]
  BY DEF ParseExpr, Level
<1> HIDE DEF c
<1> QED
  BY <1>6, <1>7, LevelCalls

-----------------------------------------------------------------------------
ParamsNamed(params) ==
  IsSeq(params) /\ \A k \in DOMAIN params : params[k].x \in Names /\ IsType(params[k].ty)

LetsNamed(body) == \A p \in DOMAIN body : body[p].k = "let" => body[p].x \in Names

(* the invariant: what is complete is as it should be, and what is not is  *)
(* on the way there                                                        *)
PInv ==
  /\ toks \in Inputs
  /\ Parsed(prog)
  /\ fn = Func(fn.name, fn.params, fn.ret, fn.body)
  /\ ParamsNamed(fn.params)
  /\ IsType(fn.ret)
  /\ LetsNamed(fn.body)
  /\ Nested(fn.body, open)
  /\ status \in {"program", "params", "ret", "body", "parsed", "fatal"}
  /\ status \in {"program", "params", "ret", "parsed"} => fn.body = << >> /\ open = << >>

(* and the parser is at a token *)
PlacedAt(j) == j \in DOMAIN toks
Placed == PlacedAt(i)

(* names come from identifiers *)
LEMMA Identifiers ==
  ASSUME toks \in Inputs, NEW j, Tok(j) = "ident"
  PROVE  toks[j].x \in Names
  BY InputsAssumption DEF Tok

LEMMA Fresh ==
  /\ NoFunc = Func(NoFunc.name, NoFunc.params, NoFunc.ret, NoFunc.body)
  /\ NoFunc.params = << >> /\ NoFunc.body = << >> /\ IsType(NoFunc.ret)
  /\ ParamsNamed(<< >>) /\ LetsNamed(<< >>)
<1>1. IsSeq(<< >>) /\ DOMAIN << >> = {}
  BY EmptyStack, SeqBasics
<1> QED
  BY <1>1 DEF NoFunc, Func, ParamsNamed, LetsNamed, IsType, Void

LEMMA Start == Init => PInv /\ Placed
<1> SUFFICES ASSUME Init PROVE PInv /\ Placed
  OBVIOUS
<1>1. Parsed(<< >>)
  <2>1. IsSeq(<< >>) /\ DOMAIN << >> = {}
    BY EmptyStack, SeqBasics
  <2> QED
    BY <2>1 DEF Parsed
<1>2. Placed
  BY Positions DEF Init, Placed, PlacedAt
<1> QED
  BY <1>1, <1>2, Fresh, NothingParsed DEF Init, PInv

LEMMA FatalStep == ASSUME PInv, Fatal PROVE PInv'
  BY DEF PInv, Fatal, Parsed

LEMMA LetsAfter ==
  ASSUME NEW body, IsSeq(body), LetsNamed(body), NEW node, node.k = "let" => node.x \in Names
  PROVE  LetsNamed(Append(body, node))
<1>1. /\ DOMAIN Append(body, node) = 1 .. Len(body) + 1 /\ Len(body) \in Nat
      /\ DOMAIN body = 1 .. Len(body)
      /\ \A p \in 1 .. Len(body) : Append(body, node)[p] = body[p]
      /\ Append(body, node)[Len(body) + 1] = node
  BY StackPush, SeqBasics
<1>2. \A p \in 1 .. Len(body) + 1 : p = Len(body) + 1 \/ p \in 1 .. Len(body)
  BY <1>1
<1> QED
  BY <1>1, <1>2 DEF LetsNamed

(* a body with a node more, and the blocks in progress then *)
LEMMA BodyStep ==
  ASSUME PInv, NEW body, LetsNamed(body), Nested(body, open'),
         fn' = [fn EXCEPT !.body = body], status = "body", UNCHANGED <<toks, prog, status>>
  PROVE  PInv'
<1>1. fn' = Func(fn.name, fn.params, fn.ret, body)
  BY DEF PInv, Func
<1>2. /\ fn' = Func(fn'.name, fn'.params, fn'.ret, fn'.body)
      /\ fn'.params = fn.params /\ fn'.ret = fn.ret /\ fn'.body = body
  BY <1>1 DEF Func
<1> QED
  BY <1>2 DEF PInv, Parsed, LetsNamed, ParamsNamed

LEMMA SimpleStep ==
  ASSUME PInv, status = "body", NEW r, Simple(r),
         r.ok => /\ r.e.k \notin Opening \cup Closing
                 /\ r.e.k = "let" => r.e.x \in Names
  PROVE  PInv'
<1>1. CASE ~r.ok
  BY <1>1, FatalStep DEF Simple
<1>2. CASE r.ok /\ Add(<<r.e>>) /\ i' = r.i /\ UNCHANGED <<toks, prog, open, status>>
  <2>1. IsSeq(fn.body) /\ fn.body \o <<r.e>> = Append(fn.body, r.e)
    BY AddOne DEF PInv, Nested
  <2>2. LetsNamed(Append(fn.body, r.e))
    BY <1>2, <2>1, LetsAfter DEF PInv
  <2>3. Nested(Append(fn.body, r.e), open')
    BY <1>2, PlainNode DEF PInv
  <2> QED
    BY <1>2, <2>1, <2>2, <2>3, BodyStep DEF Add
<1> QED
  BY <1>1, <1>2 DEF Simple

LEMMA OpeningStep ==
  ASSUME PInv, status = "body", NEW r, NEW kind \in {"then", "while"}, Opens(r, kind),
         r.ok => r.e.k = IF kind = "while" THEN "while" ELSE "if"
  PROVE  PInv'
<1>1. CASE ~r.ok
  BY <1>1, FatalStep DEF Opens
<1>2. CASE r.ok
  <2>1. IsSeq(fn.body) /\ fn.body \o <<r.e>> = Append(fn.body, r.e)
    BY AddOne DEF PInv, Nested
  <2>2. LetsNamed(Append(fn.body, r.e))
    BY <1>2, <2>1, LetsAfter DEF PInv
  <2>3. Nested(Append(fn.body, r.e), open')
    BY <1>2, OpeningNode DEF PInv, Opens
  <2> QED
    BY <1>2, <2>1, <2>2, <2>3, BodyStep DEF Add, Opens
<1> QED
  BY <1>1, <1>2

LEMMA StatementStep == ASSUME PInv, ParseStmt PROVE PInv'
<1>1. CASE ParseLet
  <2> DEFINE uniq == Tok(i+1) = "unique"
             name == IF uniq THEN Expect(From(ParseType, Expect(After(i+2), "<")), ">") ELSE After(i+1)
             named == With(Expect(name, "ident"), NoType)
             ann == IF named.ok /\ Tok(named.i) = ":" THEN From(ParseType, Expect(named, ":")) ELSE named
             init == ExprThen(Expect(ann, "="), ";")
             r == With(init, [Let(toks[name.i].x, ann.e, init.e) EXCEPT !.uniq = uniq])
  <2>1. Simple(r) /\ status = "body"
    BY <1>1 DEF ParseLet, Ahead
  <2> HIDE DEF name
  <2>2. ASSUME r.ok
        PROVE  r.e.k = "let" /\ r.e.x = toks[name.i].x /\ Tok(name.i) = "ident"
    <3> HIDE DEF init, ann, uniq
    <3>1. init.ok /\ r.e = [Let(toks[name.i].x, ann.e, init.e) EXCEPT !.uniq = uniq]
      BY <2>2 DEF With, Result, Failed
    <3> HIDE DEF r
    <3>2. ann.ok
      BY <3>1, Expected, Behind DEF ExprThen, init
    <3>3. named.ok
      <4> HIDE DEF named
      <4> QED
        BY <3>2, Expected, Behind DEF ann
    <3>4. Expect(name, "ident").ok
      BY <3>3, Made
    <3>5. Tok(name.i) = "ident"
      BY <3>4, Expected
    <3>6. r.e.k = "let" /\ r.e.x = toks[name.i].x
      BY <3>1 DEF Let
    <3> QED
      BY <3>5, <3>6
  <2> HIDE DEF r
  <2>3. r.ok => r.e.k \notin Opening \cup Closing /\ (r.e.k = "let" => r.e.x \in Names)
    BY <2>2, Identifiers DEF Opening, Closing, PInv
  <2> QED
    BY <2>1, <2>3, SimpleStep
<1>2. CASE ParseReturn
  <2> DEFINE e == ExprThen(After(i+1), ";")
             r == IF Tok(i+1) = ";" THEN Result(Return(NoExpr), i+2) ELSE With(e, Return(e.e))
  <2>1. Simple(r) /\ status = "body"
    BY <1>2 DEF ParseReturn, Ahead
  <2> HIDE DEF e
  <2>2. r.ok => r.e.k = "return"
    BY DEF With, Result, Failed, Return
  <2> HIDE DEF r
  <2> QED
    BY <2>1, <2>2, SimpleStep DEF Opening, Closing
<1>3. CASE ParseDefer
  <2> DEFINE e == ExprThen(After(i+1), ";")
             r == With(e, Defer(e.e))
  <2>1. Simple(r) /\ status = "body"
    BY <1>3 DEF ParseDefer, Ahead
  <2> HIDE DEF e
  <2>2. r.ok => r.e.k = "defer"
    BY DEF With, Result, Failed, Defer
  <2> HIDE DEF r
  <2> QED
    BY <2>1, <2>2, SimpleStep DEF Opening, Closing
<1>4. CASE ParseBreak \/ ParseContinue
  <2>1. PICK node \in {Break, Continue} : /\ Simple(With(Expect(After(i+1), ";"), node))
                                          /\ status = "body"
    BY <1>4 DEF ParseBreak, ParseContinue, Ahead
  <2>2. node.k \in {"break", "continue"}
    BY DEF Break, Continue
  <2> QED
    BY <2>1, <2>2, Made, SimpleStep DEF Opening, Closing
<1>5. CASE ParseExprStmt
  <2> DEFINE e == ExprThen(After(i), ";")
             r == With(e, ExprStmt(e.e))
  <2>1. Simple(r) /\ status = "body"
    BY <1>5 DEF ParseExprStmt, StartsExprStmt
  <2> HIDE DEF e
  <2>2. r.ok => r.e.k = "expr"
    BY DEF With, Result, Failed, ExprStmt
  <2> HIDE DEF r
  <2> QED
    BY <2>1, <2>2, SimpleStep DEF Opening, Closing
<1>6. CASE ParseIf
  <2> DEFINE r == With(Header, If(Header.e))
  <2>1. Opens(r, "then") /\ status = "body"
    BY <1>6 DEF ParseIf, Ahead
  <2>2. r.ok => r.e.k = "if"
    BY Made DEF If
  <2> HIDE DEF r
  <2> QED
    BY <2>1, <2>2, OpeningStep
<1>7. CASE ParseWhile
  <2> DEFINE r == With(Header, While(Header.e))
  <2>1. Opens(r, "while") /\ status = "body"
    BY <1>7 DEF ParseWhile, Ahead
  <2>2. r.ok => r.e.k = "while"
    BY Made DEF While
  <2> HIDE DEF r
  <2> QED
    BY <2>1, <2>2, OpeningStep
<1> QED
  BY <1>1, <1>2, <1>3, <1>4, <1>5, <1>6, <1>7 DEF ParseStmt

(* a block's end *)
LEMMA BlockEnd == ASSUME PInv, EndWhileBlock \/ EndElseBlock \/ EndThenBlock \/ ElseBlock PROVE PInv'
<1>1. /\ status = "body" /\ open # << >>
      /\ IsSeq(fn.body) /\ Nested(fn.body, open) /\ LetsNamed(fn.body)
  BY DEF EndWhileBlock, EndElseBlock, EndThenBlock, ElseBlock, AtEndOf, Ahead, PInv, Nested
<1>2. ASSUME NEW node, Ends(open[Len(open)].k, node), node.k \in {"endwhile", "endif"}, Leave(<<node>>)
      PROVE  PInv'
  <2>1. fn.body \o <<node>> = Append(fn.body, node)
    BY <1>1, AddOne
  <2>2. LetsNamed(Append(fn.body, node))
    BY <1>1, <1>2, LetsAfter
  <2>3. Nested(Append(fn.body, node), open')
    BY <1>1, <1>2, EndNode DEF Leave
  <2> QED
    BY <1>1, <1>2, <2>1, <2>2, <2>3, BodyStep DEF Leave, Add
<1>3. CASE EndWhileBlock
  <2>1. EndWhile.k = "endwhile" /\ open[Len(open)].k = "while" /\ Leave(<<EndWhile>>)
    BY <1>3 DEF EndWhileBlock, AtEndOf, EndWhile, Last
  <2> QED
    BY <1>2, <2>1 DEF Ends
<1>4. CASE EndElseBlock
  <2>1. EndIf.k = "endif" /\ open[Len(open)].k = "else" /\ Leave(<<EndIf>>)
    BY <1>4 DEF EndElseBlock, AtEndOf, EndIf, Last
  <2> QED
    BY <1>2, <2>1 DEF Ends
<1> DEFINE withElse == Append(fn.body, Else)
           middle == [open EXCEPT ![Len(open)] = [k |-> "else", at |-> @.at]]
<1>5. ASSUME open[Len(open)].k = "then"
      PROVE  IsSeq(withElse) /\ LetsNamed(withElse) /\ Nested(withElse, middle)
  <2>1. Else.k = "else"
    BY DEF Else
  <2> QED
    BY <1>1, <1>5, <2>1, StackPush, LetsAfter, ElseNode
<1>6. CASE ElseBlock
  <2>1. open[Len(open)].k = "then"
    BY <1>6 DEF ElseBlock, AtEndOf, Last
  <2>2. CASE Fatal
    BY <2>2, FatalStep
  <2>3. CASE /\ Add(<<Else>>)
             /\ open' = middle
             /\ UNCHANGED <<toks, prog, status>>
    <3>1. fn' = [fn EXCEPT !.body = withElse]
      BY <1>1, <2>3, AddOne DEF Add
    <3> QED
      BY <1>1, <1>5, <2>1, <2>3, <3>1, BodyStep
  <2> QED
    BY <1>6, <2>2, <2>3 DEF ElseBlock
<1>7. CASE EndThenBlock
  <2> DEFINE both == Append(withElse, EndIf)
  <2>1. open[Len(open)].k = "then" /\ Leave(<<Else, EndIf>>) /\ EndIf.k = "endif"
    BY <1>7 DEF EndThenBlock, AtEndOf, Last, EndIf
  <2>2. fn' = [fn EXCEPT !.body = both]
    <3>1. fn.body \o <<Else, EndIf>> = both
      BY <1>1, AddTwo
    <3> HIDE DEF both
    <3> QED
      BY <2>1, <3>1 DEF Leave, Add
  <2>3. LetsNamed(both)
    BY <1>5, <2>1, LetsAfter
  <2>4. /\ IsSeq(middle) /\ Len(middle) = Len(open) /\ middle # << >>
        /\ middle[Len(middle)].k = "else"
        /\ Front(middle) = Front(open)
    <3> DEFINE entry == [k |-> "else", at |-> open[Len(open)].at]
    <3>1. Len(open) \in Nat /\ IsSeq(open) /\ Len(open) \in 1 .. Len(open) /\ Len(open) # 0
      BY <1>1, SeqBasics DEF Nested
    <3>2. entry.k = "else"
      OBVIOUS
    <3> HIDE DEF entry
    <3>3. middle = [open EXCEPT ![Len(open)] = entry]
      BY DEF entry
    <3> HIDE DEF middle
    <3>4. /\ IsSeq(middle) /\ Len(middle) = Len(open)
          /\ \A j \in 1 .. Len(open) : middle[j] = IF j = Len(open) THEN entry ELSE open[j]
      <4> DEFINE last == Len(open)
                 set == [open EXCEPT ![last] = entry]
      <4>1. last \in 1 .. Len(open)
        BY <3>1
      <4>2. /\ IsSeq(set) /\ Len(set) = Len(open)
            /\ \A j \in 1 .. Len(open) : set[j] = IF j = last THEN entry ELSE open[j]
        <5> HIDE DEF last
        <5> QED
          BY <3>1, <4>1, StackSet
      <4> QED
        BY <3>3, <4>2
    <3>5. middle # << >>
      BY <3>1, <3>4, SeqBasics
    <3>6. /\ IsSeq(Front(middle)) /\ Len(Front(middle)) = Len(open) - 1
          /\ \A j \in 1 .. Len(open) - 1 : Front(middle)[j] = middle[j]
          /\ IsSeq(Front(open)) /\ Len(Front(open)) = Len(open) - 1
          /\ \A j \in 1 .. Len(open) - 1 : Front(open)[j] = open[j]
      BY <1>1, <3>1, <3>4, <3>5, StackPop
    <3>7. \A j \in 1 .. Len(open) - 1 : Front(middle)[j] = Front(open)[j]
      BY <3>1, <3>4, <3>6
    <3>8. Front(middle) = Front(open)
      BY <3>6, <3>7, SameStack
    <3> QED
      BY <3>1, <3>2, <3>4, <3>5, <3>8
  <2>5. Nested(both, Front(middle))
    BY <1>5, <2>1, <2>4, EndNode DEF Ends
  <2> QED
    BY <1>1, <2>1, <2>2, <2>3, <2>4, <2>5, BodyStep DEF Leave
<1> QED
  BY <1>3, <1>4, <1>6, <1>7

LEMMA FunctionStep ==
  ASSUME PInv, Placed, FuncHeader \/ Parameter \/ ReturnType \/ EndFunction \/ EndProgram
  PROVE  PInv'
<1>1. CASE FuncHeader
  <2>1. CASE Fatal
    BY <2>1, FatalStep
  <2>2. CASE /\ fn' = [NoFunc EXCEPT !.name = toks[i+1].x]
             /\ status' = "ret" \/ status' = "params"
             /\ UNCHANGED <<toks, prog, open>>
    <3>1. /\ fn' = Func(fn'.name, fn'.params, fn'.ret, fn'.body)
          /\ fn'.params = << >> /\ fn'.ret = NoFunc.ret /\ fn'.body = << >>
      BY <2>2 DEF NoFunc, Func
    <3>2. open = << >>
      BY <1>1 DEF FuncHeader, PInv
    <3> QED
      BY <2>2, <3>1, <3>2, Fresh, NothingParsed DEF PInv, Parsed, ParamsNamed, LetsNamed
  <2> QED
    BY <1>1, <2>1, <2>2 DEF FuncHeader
<1>2. CASE Parameter
  <2>1. CASE Fatal
    BY <2>1, FatalStep
  <2>2. CASE ~Fatal
    <3> DEFINE ident == Expect(Result(NoExpr, i), "ident")
               ty == From(ParseType, Expect(ident, ":"))
    <3>1. /\ ty.ok
          /\ fn' = [fn EXCEPT !.params = Append(fn.params, Param(toks[i].x, ty.e))]
          /\ status = "params" /\ status' \in {"params", "ret"}
          /\ UNCHANGED <<toks, prog, open>>
      BY <1>2, <2>2 DEF Parameter
    <3>2. Tok(i) = "ident"
      <4>1. ident.ok
        <5> HIDE DEF ident
        <5> QED
          BY <3>1, Expected, Behind
      <4>2. Tok(Result(NoExpr, i).i) = "ident"
        BY <4>1, Expected
      <4> QED
        BY <4>2 DEF Result
    <3> DEFINE param == Param(toks[i].x, ty.e)
               params == Append(fn.params, param)
    <3>3. param.x \in Names /\ IsType(param.ty)
      <4>1. IsType(ty.e)
        <5>1. toks \in Inputs /\ i \in DOMAIN toks /\ i \in Nat
          BY Positions DEF PInv, Placed, PlacedAt
        <5>2. Reaches(ident, i)
          BY <5>1, Reach
        <5> HIDE DEF ident
        <5> QED
          BY <3>1, <5>1, <5>2, Reach, TypeResult
      <4> HIDE DEF ty
      <4> QED
        BY <3>2, <4>1, Identifiers DEF Param, PInv
    <3> HIDE DEF ty, param
    <3>4. ParamsNamed(params)
      <4>1. /\ IsSeq(params) /\ DOMAIN params = 1 .. Len(fn.params) + 1 /\ Len(fn.params) \in Nat
            /\ DOMAIN fn.params = 1 .. Len(fn.params)
            /\ \A k \in 1 .. Len(fn.params) : params[k] = fn.params[k]
            /\ params[Len(fn.params) + 1] = param
        BY StackPush, SeqBasics DEF PInv, ParamsNamed
      <4>2. \A k \in 1 .. Len(fn.params) + 1 : k = Len(fn.params) + 1 \/ k \in 1 .. Len(fn.params)
        BY <4>1
      <4> HIDE DEF params
      <4> QED
        BY <3>3, <4>1, <4>2 DEF PInv, ParamsNamed
    <3>5. /\ fn' = Func(fn'.name, fn'.params, fn'.ret, fn'.body)
          /\ fn'.params = params /\ fn'.ret = fn.ret /\ fn'.body = fn.body
      <4>1. fn = Func(fn.name, fn.params, fn.ret, fn.body) /\ fn' = [fn EXCEPT !.params = params]
        BY <3>1 DEF PInv, param
      <4> HIDE DEF params
      <4> QED
        BY <4>1 DEF Func
    <3> HIDE DEF params
    <3> QED
      BY <3>1, <3>4, <3>5 DEF PInv, Parsed, ParamsNamed, LetsNamed
  <2> QED
    BY <2>1, <2>2
<1>3. CASE ReturnType
  <2>1. CASE Fatal
    BY <2>1, FatalStep
  <2>2. CASE ~Fatal
    <3> DEFINE close == Expect(Expect(Result(NoExpr, i), ")"), "->")
               ty == From(ParseType, close)
    <3>1. /\ Expect(ty, "{").ok
          /\ fn' = [fn EXCEPT !.ret = Expect(ty, "{").e]
          /\ status' = "body"
          /\ UNCHANGED <<toks, prog, open>>
      BY <1>3, <2>2 DEF ReturnType
    <3>3. IsType(ty.e) /\ Expect(ty, "{").e = ty.e
      <4>1. ty.ok /\ Expect(ty, "{").e = ty.e
        <5> HIDE DEF ty
        <5> QED
          BY <3>1, Expected DEF Expect, Result
      <4>2. toks \in Inputs /\ i \in DOMAIN toks /\ i \in Nat
        BY Positions DEF PInv, Placed, PlacedAt
      <4>3. Reaches(close, i)
        BY <4>2, Reach
      <4> HIDE DEF close
      <4> QED
        BY <4>1, <4>2, <4>3, TypeResult
    <3> HIDE DEF ty
    <3>2. /\ fn' = Func(fn'.name, fn'.params, fn'.ret, fn'.body)
          /\ fn'.params = fn.params /\ fn'.ret = ty.e /\ fn'.body = fn.body
      BY <3>1, <3>3 DEF PInv, Func
    <3> QED
      BY <3>1, <3>2, <3>3 DEF PInv, Parsed, ParamsNamed, LetsNamed
  <2> QED
    BY <2>1, <2>2
<1>4. CASE EndFunction
  <2>1. /\ open = << >> /\ prog' = Append(prog, fn) /\ fn' = NoFunc /\ status' = "program"
        /\ UNCHANGED <<toks, open>>
    BY <1>4 DEF EndFunction
  <2>2. WellNested(fn.body)
    BY <2>1, NothingOpen DEF PInv
  <2>3. Parsed(prog')
    <3>1. /\ IsSeq(prog') /\ DOMAIN prog' = 1 .. Len(prog) + 1 /\ Len(prog) \in Nat
          /\ DOMAIN prog = 1 .. Len(prog)
          /\ \A n \in 1 .. Len(prog) : prog'[n] = prog[n]
          /\ prog'[Len(prog) + 1] = fn
      BY <2>1, StackPush, SeqBasics DEF PInv, Parsed
    <3>2. \A n \in 1 .. Len(prog) + 1 : n = Len(prog) + 1 \/ n \in 1 .. Len(prog)
      BY <3>1
    <3>3. /\ IsSeq(fn.params)
          /\ \A k \in DOMAIN fn.params : fn.params[k].x \in Names /\ IsType(fn.params[k].ty)
          /\ IsType(fn.ret)
          /\ IsSeq(fn.body)
          /\ \A p \in DOMAIN fn.body : fn.body[p].k = "let" => fn.body[p].x \in Names
      BY DEF PInv, ParamsNamed, LetsNamed, Nested
    <3>4. Parsed(prog)
      BY DEF PInv
    <3> QED
      BY <2>2, <3>1, <3>2, <3>3, <3>4 DEF Parsed
  <2> QED
    BY <2>1, <2>3, Fresh, NothingParsed DEF PInv
<1>5. CASE EndProgram
  BY <1>5 DEF EndProgram, PInv, Parsed
<1> QED
  BY <1>1, <1>2, <1>3, <1>4, <1>5

-----------------------------------------------------------------------------
(* Every step of the parser takes a token or is the last, and none goes    *)
(* behind the end of input.                                                *)
Took == Placed' /\ (i' > i \/ status' \in {"parsed", "fatal"})

LEMMA Advance ==
  ASSUME toks \in Inputs, NEW j \in Nat, NEW r, NEW k, k \notin {"eof", "none"}, Reaches(r, j)
  PROVE  Reaches(Expect(r, k), j+1)
<1>1. CASE r.ok /\ Tok(r.i) = k
  <2>1. r.i \in Nat /\ r.i >= j /\ r.i + 1 \in DOMAIN toks
    BY <1>1, Positions DEF Reaches
  <2>2. Expect(r, k).i = r.i + 1
    BY <1>1 DEF Expect, Result
  <2> QED
    BY <2>1, <2>2 DEF Reaches
<1>2. CASE ~(r.ok /\ Tok(r.i) = k)
  BY <1>2 DEF Expect, Failed, Reaches
<1> QED
  BY <1>1, <1>2

LEMMA TookFatal == ASSUME Placed, Fatal PROVE Took
  BY DEF Fatal, Placed, PlacedAt, Took

LEMMA TookOne ==
  ASSUME toks \in Inputs, Placed, Tok(i) \notin {"eof", "none"}, i' = i + 1, toks' = toks
  PROVE  Took
<1>1. i \in Nat /\ i+1 \in DOMAIN toks
  BY Positions DEF Placed, PlacedAt
<1> QED
  BY <1>1 DEF Placed, PlacedAt, Took

LEMMA TookTo ==
  ASSUME toks \in Inputs, Placed, NEW r, r.ok, Reaches(r, i+1), i' = r.i, toks' = toks
  PROVE  Took
<1>1. i \in Nat /\ r.i \in Nat /\ r.i \in DOMAIN toks /\ r.i >= i+1
  BY Positions DEF Placed, PlacedAt, Reaches
<1> QED
  BY <1>1 DEF Placed, PlacedAt, Took

LEMMA TookSimple ==
  ASSUME toks \in Inputs, Placed, NEW r, Simple(r) \/ (\E kind : Opens(r, kind)), Reaches(r, i+1)
  PROVE  Took
<1>1. CASE Fatal
  BY <1>1, TookFatal
<1>2. CASE ~Fatal
  <2>1. r.ok /\ i' = r.i /\ toks' = toks
    BY <1>2 DEF Simple, Opens
  <2> QED
    BY <2>1, TookTo
<1> QED
  BY <1>1, <1>2

LEMMA TakesStatement == ASSUME toks \in Inputs, Placed, ParseStmt PROVE Took
<1>1. i \in Nat /\ i+1 \in Nat /\ i+1 >= i+1 /\ i+2 >= i+1 /\ (i+1) + 1 = i+2 /\ DOMAIN toks \subseteq Nat
  BY Positions DEF Placed, PlacedAt
<1>2. /\ \A m \in DOMAIN toks : Reaches(ParseType[m], m+1)
      /\ \A m \in DOMAIN toks : Reaches(ParseExpr[m], m+1)
  BY TypesReach, ExprsReach
<1>3. \A r, k : Reaches(r, i+1) /\ k \notin {"eof", "none"} => Reaches(ExprThen(r, k), i+1)
  BY <1>1, <1>2, Reach DEF ExprThen
<1>4. Tok(i) \notin {"eof", "none"} => Reaches(After(i+1), i+1)
  BY <1>1, Positions, Reach DEF After
<1>5. CASE ParseLet
  <2> DEFINE uniq == Tok(i+1) = "unique"
             name == IF uniq THEN Expect(From(ParseType, Expect(After(i+2), "<")), ">") ELSE After(i+1)
             named == With(Expect(name, "ident"), NoType)
             ann == IF named.ok /\ Tok(named.i) = ":" THEN From(ParseType, Expect(named, ":")) ELSE named
             init == ExprThen(Expect(ann, "="), ";")
             e == [Let(toks[name.i].x, ann.e, init.e) EXCEPT !.uniq = uniq]
  <2>1. Simple(With(init, e)) /\ Tok(i) = "let"
    BY <1>5 DEF ParseLet, Ahead
  <2>2. Reaches(name, i+1)
    <3>1. CASE uniq
      <4>1. Reaches(After(i+2), i+1)
        <5>1. (i+1) + 1 \in DOMAIN toks /\ (i+1) + 1 = i+2
          BY <1>1, <3>1, Positions
        <5> QED
          BY <1>1, <5>1, Reach DEF After
      <4>2. Reaches(Expect(From(ParseType, Expect(After(i+2), "<")), ">"), i+1)
        BY <1>1, <1>2, <4>1, Reach
      <4> QED
        BY <3>1, <4>2
    <3>2. CASE ~uniq
      BY <1>4, <2>1, <3>2
    <3> QED
      BY <3>1, <3>2
  <2> HIDE DEF name
  <2>3. Reaches(named, i+1)
    BY <1>1, <2>2, Reach
  <2> HIDE DEF named
  <2>4. Reaches(ann, i+1)
    <3>1. Reaches(From(ParseType, Expect(named, ":")), i+1)
      BY <1>1, <1>2, <2>3, Reach
    <3> QED
      BY <2>3, <3>1
  <2> HIDE DEF ann
  <2>5. Reaches(init, i+1)
    <3>1. Reaches(Expect(ann, "="), i+1)
      BY <1>1, <2>4, Reach
    <3> QED
      BY <1>3, <3>1
  <2> HIDE DEF init, e
  <2>6. Reaches(With(init, e), i+1)
    BY <1>1, <2>5, Reach
  <2> QED
    BY <2>1, <2>6, TookSimple
<1>6. CASE ParseReturn
  <2> DEFINE e == ExprThen(After(i+1), ";")
             node == Return(e.e)
             r == IF Tok(i+1) = ";" THEN Result(Return(NoExpr), i+2) ELSE With(e, node)
  <2>1. Simple(r) /\ Tok(i) = "return"
    BY <1>6 DEF ParseReturn, Ahead
  <2>2. Reaches(e, i+1)
    BY <1>3, <1>4, <2>1
  <2> HIDE DEF e, node
  <2>3. Reaches(With(e, node), i+1)
    BY <1>1, <2>2, Reach
  <2>4. Tok(i+1) = ";" => (i+1) + 1 \in DOMAIN toks /\ (i+1) + 1 = i+2
    BY <1>1, Positions
  <2>5. Tok(i+1) = ";" => Reaches(Result(Return(NoExpr), i+2), i+1)
    BY <1>1, <2>4, Reach
  <2>6. Reaches(r, i+1)
    BY <2>3, <2>5
  <2> QED
    BY <2>1, <2>6, TookSimple
<1>7. CASE ParseDefer
  <2> DEFINE e == ExprThen(After(i+1), ";")
             node == Defer(e.e)
  <2>1. Simple(With(e, node)) /\ Tok(i) = "defer"
    BY <1>7 DEF ParseDefer, Ahead
  <2>2. Reaches(e, i+1)
    BY <1>3, <1>4, <2>1
  <2> HIDE DEF e, node
  <2>3. Reaches(With(e, node), i+1)
    BY <1>1, <2>2, Reach
  <2> QED
    BY <2>1, <2>3, TookSimple
<1>8. CASE ParseBreak \/ ParseContinue
  <2>1. PICK node \in {Break, Continue} : /\ Simple(With(Expect(After(i+1), ";"), node))
                                          /\ Tok(i) \in {"break", "continue"}
    BY <1>8 DEF ParseBreak, ParseContinue, Ahead
  <2>2. Reaches(After(i+1), i+1)
    BY <1>4, <2>1
  <2>3. Reaches(With(Expect(After(i+1), ";"), node), i+1)
    BY <1>1, <2>2, Reach
  <2> QED
    BY <2>1, <2>3, TookSimple
<1>9. CASE ParseExprStmt
  <2> DEFINE e == ExprThen(After(i), ";")
             node == ExprStmt(e.e)
  <2>1. Simple(With(e, node))
    BY <1>9 DEF ParseExprStmt
  <2>2. Reaches(e, i+1)
    <3>1. From(ParseExpr, After(i)) = ParseExpr[i]
      BY DEF From, After, Result
    <3> QED
      BY <1>1, <1>2, <3>1, Reach DEF ExprThen, Placed, PlacedAt
  <2> HIDE DEF e, node
  <2>3. Reaches(With(e, node), i+1)
    BY <1>1, <2>2, Reach
  <2> QED
    BY <2>1, <2>3, TookSimple
<1>10. CASE ParseIf \/ ParseWhile
  <2>1. PICK node \in {If(Header.e), While(Header.e)}, kind \in {"then", "while"} :
          Opens(With(Header, node), kind) /\ Tok(i) \in {"if", "while"}
    BY <1>10 DEF ParseIf, ParseWhile, Ahead
  <2>2. Reaches(After(i+1), i+1)
    BY <1>4, <2>1
  <2>3. Reaches(Header, i+1)
    <3>1. Reaches(Expect(After(i+1), "("), i+1)
      BY <1>1, <2>2, Reach
    <3>2. Reaches(ExprThen(Expect(After(i+1), "("), ")"), i+1)
      BY <1>3, <3>1
    <3> QED
      BY <1>1, <3>2, Reach DEF Header
  <2>4. Reaches(With(Header, node), i+1)
    BY <1>1, <2>3, Reach
  <2> QED
    BY <2>1, <2>4, TookSimple
<1> QED
  BY <1>5, <1>6, <1>7, <1>8, <1>9, <1>10 DEF ParseStmt

LEMMA Takes == ASSUME toks \in Inputs, Placed, ParseProgram PROVE Took
<1>1. i \in Nat /\ i+1 \in Nat /\ i+1 >= i+1 /\ i+2 >= i+1 /\ (i+1) + 1 = i+2 /\ DOMAIN toks \subseteq Nat
  BY Positions DEF Placed, PlacedAt
<1>2. \A m \in DOMAIN toks : Reaches(ParseType[m], m+1)
  BY TypesReach
<1>3. Reaches(Result(NoExpr, i), i)
  BY <1>1, Reach DEF Placed, PlacedAt
<1>4. CASE Fatal
  BY <1>4, TookFatal
<1>5. CASE FuncHeader /\ ~Fatal
  <2> DEFINE first == Expect(Result(NoExpr, i), "fn")
             paren == Expect(Expect(first, "ident"), "(")
  <2>1. paren.ok /\ i' = paren.i /\ toks' = toks
    BY <1>5 DEF FuncHeader
  <2>2. Reaches(first, i+1)
    BY <1>1, <1>3, Advance
  <2> HIDE DEF first
  <2>3. Reaches(paren, i+1)
    BY <1>1, <2>2, Reach
  <2> HIDE DEF paren
  <2> QED
    BY <2>1, <2>3, TookTo
<1>6. CASE Parameter /\ ~Fatal
  <2> DEFINE ident == Expect(Result(NoExpr, i), "ident")
             ty == From(ParseType, Expect(ident, ":"))
             more == Tok(ty.i) = ","
  <2>1. /\ ty.ok /\ toks' = toks
        /\ i' = IF more THEN ty.i + 1 ELSE ty.i
    BY <1>6 DEF Parameter
  <2>2. Reaches(ident, i+1)
    BY <1>1, <1>3, Advance
  <2> HIDE DEF ident
  <2>3. Reaches(ty, i+1)
    BY <1>1, <1>2, <2>2, Reach
  <2> HIDE DEF ty
  <2>4. ty.i \in DOMAIN toks /\ ty.i \in Nat /\ ty.i >= i+1
    BY <1>1, <2>1, <2>3 DEF Reaches
  <2>5. "," \notin {"eof", "none"}
    BY Zenon
  <2>6. more => ty.i + 1 \in DOMAIN toks
    BY <2>5, Positions
  <2> HIDE DEF more
  <2>7. i' \in DOMAIN toks /\ i' > i
    <3>1. CASE more
      BY <1>1, <2>1, <2>4, <2>6, <3>1
    <3>2. CASE ~more
      BY <1>1, <2>1, <2>4, <3>2
    <3> QED
      BY <3>1, <3>2
  <2> QED
    BY <2>1, <2>7 DEF Took, Placed, PlacedAt
<1>7. CASE ReturnType /\ ~Fatal
  <2> DEFINE close == Expect(Result(NoExpr, i), ")")
             ty == Expect(From(ParseType, Expect(close, "->")), "{")
  <2>1. ty.ok /\ i' = ty.i /\ toks' = toks
    BY <1>7 DEF ReturnType
  <2>2. Reaches(close, i+1)
    BY <1>1, <1>3, Advance
  <2> HIDE DEF close
  <2>3. Reaches(ty, i+1)
    BY <1>1, <1>2, <2>2, Reach
  <2> HIDE DEF ty
  <2> QED
    BY <2>1, <2>3, TookTo
<1>8. CASE EndProgram
  BY <1>8 DEF EndProgram, Took, Placed, PlacedAt
<1>9. CASE EndFunction \/ EndWhileBlock \/ EndElseBlock \/ EndThenBlock
  <2>1. Tok(i) = "}" /\ i' = i + 1 /\ toks' = toks
    BY <1>9 DEF EndFunction, EndWhileBlock, EndElseBlock, EndThenBlock, AtEndOf, Ahead, Leave
  <2> QED
    BY <2>1, TookOne
<1>10. CASE ElseBlock /\ ~Fatal
  <2> DEFINE r == Expect(After(i+2), "{")
  <2>1. r.ok /\ i' = r.i /\ toks' = toks /\ Tok(i+1) = "else"
    BY <1>10 DEF ElseBlock
  <2>2. (i+1) + 1 \in DOMAIN toks /\ (i+1) + 1 = i+2
    BY <1>1, <2>1, Positions
  <2>3. Reaches(r, i+1)
    BY <1>1, <2>2, Reach DEF After
  <2> HIDE DEF r
  <2> QED
    BY <2>1, <2>3, TookTo
<1>11. CASE ParseStmt
  BY <1>11, TakesStatement
<1>12. CASE EndOfInput
  BY <1>12, TookFatal DEF EndOfInput
<1> QED
  BY <1>4, <1>5, <1>6, <1>7, <1>8, <1>9, <1>10, <1>11, <1>12 DEF ParseProgram, ParseBlock

LEMMA NextPInv == PInv /\ Placed /\ [Next]_vars => PInv' /\ Placed'
<1> SUFFICES ASSUME PInv, Placed, [Next]_vars PROVE PInv' /\ Placed'
  OBVIOUS
<1>6. Placed'
  <2>1. CASE ParseProgram
    BY <2>1, Takes DEF PInv, Took
  <2>2. CASE UNCHANGED vars
    BY <2>2 DEF vars, Placed, PlacedAt
  <2> QED
    BY <2>1, <2>2 DEF Next, Stopped
<1>1. CASE FuncHeader \/ Parameter \/ ReturnType \/ EndFunction \/ EndProgram
  BY <1>1, <1>6, FunctionStep
<1>2. CASE ParseStmt
  BY <1>2, <1>6, StatementStep
<1>3. CASE EndWhileBlock \/ EndElseBlock \/ EndThenBlock \/ ElseBlock
  BY <1>3, <1>6, BlockEnd
<1>4. CASE EndOfInput
  BY <1>4, <1>6, FatalStep DEF EndOfInput
<1>5. CASE UNCHANGED vars
  BY <1>5, <1>6 DEF vars, PInv, Parsed
<1> QED
  BY <1>1, <1>2, <1>3, <1>4, <1>5, <1>6 DEF Next, ParseProgram, ParseBlock, Stopped

THEOREM ParserInvariant == Spec => [](PInv /\ Placed)
  BY Start, NextPInv, PTL DEF Spec

-----------------------------------------------------------------------------
(* Whatever the tokens, every function that parseFunc() returns is         *)
(* complete and well nested, and its names are identifiers: the passes     *)
(* behind the parser get no other programs than ProgramsAssumption says.   *)
THEOREM ParserReturnsParsed == Spec => []ReturnsParsed
<1>1. PInv /\ Placed => ReturnsParsed
  BY DEF PInv, ReturnsParsed
<1> QED
  BY <1>1, ParserInvariant, PTL

(* Wherever the input ends and whatever is in it, the parser stays within  *)
(* it: there is a token at its position, peek() and get() have one to      *)
(* return, and each block in progress has its node in the body.            *)
THEOREM ParserTypeCorrect == Spec => []TypeOK
<1>1. PInv /\ Placed => TypeOK
  <2> SUFFICES ASSUME PInv, Placed PROVE TypeOK
    OBVIOUS
  <2>1. DOMAIN open = 1 .. Len(open)
    BY SeqBasics DEF PInv, Nested
  <2> QED
    BY <2>1 DEF PInv, Placed, PlacedAt, Nested, InProgress, TypeOK
<1> QED
  BY <1>1, ParserInvariant, PTL

(* However the input goes on, each step of the parser takes a token of it  *)
(* or is the last: parseProgram() cannot go round without end.             *)
THEOREM ParserTakesTokens == Spec => TakesTokens
<1>1. PInv /\ Placed /\ [Next]_vars => [i' > i \/ status' \in {"parsed", "fatal"}]_vars
  <2> SUFFICES ASSUME PInv, Placed, ParseProgram
               PROVE  i' > i \/ status' \in {"parsed", "fatal"}
    BY DEF Next, Stopped
  <2> QED
    BY Takes DEF PInv, Took
<1> QED
  BY <1>1, ParserInvariant, PTL DEF Spec, TakesTokens

(* At any moment the calls of parseBlock in progress are the blocks around *)
(* the next statement, each begun at the node recorded for it.             *)
THEOREM ParserBlocks == Spec => []OpenMirrorsBody
<1>1. PInv /\ Placed => OpenMirrorsBody
  <2> SUFFICES ASSUME PInv PROVE OpenMirrorsBody
    OBVIOUS
  <2>1. DOMAIN open = 1 .. Len(open)
    BY SeqBasics DEF PInv, Nested
  <2> QED
    BY <2>1 DEF PInv, Nested, InProgress, OpenMirrorsBody
<1> QED
  BY <1>1, ParserInvariant, PTL

-----------------------------------------------------------------------------
(* The parser decides the grammar (Grammar), to the end of this module: in *)
(* order, what the rules say of types and expressions, member by member;   *)
(* what the loops of the parser make of a head and the links to it, and    *)
(* that each level of expressions, and types, take from a position exactly *)
(* what the grammar has there; the rules for statements, parameters and    *)
(* functions; what can follow each position inside the blocks in progress, *)
(* and how each step of the parser moves through it.                       *)

-----------------------------------------------------------------------------
(* The grammar: what its rules say of the stretches of toks.               *)

(* the types, expressions, statements, parameters and functions that a     *)
(* stretch stands for                                                      *)
Ty(a, b) == TypesIn(toks)[<<a, b>>]
Ex(n, a, b) == ExprsIn(toks)[<<n, a, b>>]
St(a, b) == StmtsIn(toks)[<<a, b>>]
Ps(a, b) == ParamsIn(toks)[<<a, b>>]
Fs(a) == FuncsIn(toks)[a]

(* sets with the same members *)
LEMMA Same ==
  ASSUME NEW A, NEW B, \A x : x \in A <=> x \in B
  PROVE  A = B
  OBVIOUS

(* where a rule looks is inside the stretch *)
LEMMA Within ==
  ASSUME toks \in Inputs, NEW a \in DOMAIN toks, NEW b \in DOMAIN toks
  PROVE  /\ a \in Int /\ b \in Int /\ Len(toks) \in Int /\ Len(toks) + b - a \in Nat
         /\ \A m \in Int : a <= m /\ m <= b => m \in DOMAIN toks
         /\ \A m \in DOMAIN toks : m \in Int /\ Tok(m) = toks[m].k
  BY Positions DEF Tok

(* t is a type of the stretch that is not an array; T says what types the  *)
(* shorter stretches stand for                                             *)
BaseForm(T, t, a, b) ==
  \/ b = a + 1 /\ toks[a].k \in DOMAIN TypeNames /\ t = TypeNames[toks[a].k]
  \/ /\ b > a + 3 /\ toks[a].k = "ptr" /\ toks[a+1].k = "<" /\ toks[b-1].k = ">"
     /\ \E u \in T[<<a+2, b-1>>] : t = Ptr(u)

(* the rule for types, member by member *)
LEMMA InTypes ==
  ASSUME NEW T, NEW a \in Int, NEW b \in Int, NEW t
  PROVE  t \in AnyTypes(toks, T, a, b) <=>
           \/ BaseForm(T, t, a, b)
           \/ /\ b > a + 3 /\ toks[b-3].k = "[" /\ toks[b-2].k = "int" /\ toks[b-1].k = "]"
              /\ \E u : BaseForm(T, u, a, b-3) /\ t = Array(u, toks[b-2].v)
<1>1. \A u : \A c \in Int : u \in BaseTypes(toks, T, a, c) <=> BaseForm(T, u, a, c)
  <2> SUFFICES ASSUME NEW u, NEW c \in Int
               PROVE  u \in BaseTypes(toks, T, a, c) <=> BaseForm(T, u, a, c)
    OBVIOUS
  <2>1. ~(c = a + 1 /\ c > a + 3)
    OBVIOUS
  <2> QED
    BY <2>1 DEF BaseTypes, BaseForm, Is
<1>2. b - 3 \in Int
  OBVIOUS
<1> QED
  BY <1>1, <1>2 DEF AnyTypes, ArrayTypes, Is

(* the recursion of the rule, on the length of the stretch *)
TypeSpans(p) == Spans(p)
TypeLength(p, s) == Len(p) + s[2] - s[1]
TypeRule(p, T, s) == AnyTypes(p, T, s[1], s[2])
TypeGrammar == INSTANCE Recursion WITH Dom <- TypeSpans, Rank <- TypeLength, Body <- TypeRule, Fit <- Anything

(* it looks at shorter stretches only *)
LEMMA SameTypes ==
  ASSUME toks \in Inputs, NEW a \in DOMAIN toks, NEW b \in DOMAIN toks, NEW T, NEW U,
         \A c, d \in DOMAIN toks : d - c < b - a => T[<<c, d>>] = U[<<c, d>>]
  PROVE  AnyTypes(toks, T, a, b) = AnyTypes(toks, U, a, b)
<1>1. /\ a \in Int /\ b \in Int
      /\ \A m \in Int : a <= m /\ m <= b => m \in DOMAIN toks
  BY Within
<1>2. \A t : \A c \in Int : c <= b => (BaseForm(T, t, a, c) <=> BaseForm(U, t, a, c))
  <2> SUFFICES ASSUME NEW t, NEW c \in Int, c <= b, c > a + 3
               PROVE  T[<<a+2, c-1>>] = U[<<a+2, c-1>>]
    BY DEF BaseForm
  <2>1. a+2 \in DOMAIN toks /\ c-1 \in DOMAIN toks /\ (c-1) - (a+2) < b - a
    BY <1>1
  <2> QED
    BY <2>1
<1>3. b - 3 \in Int /\ b - 3 <= b /\ b <= b
  BY <1>1
<1>4. \A t : t \in AnyTypes(toks, T, a, b) <=> t \in AnyTypes(toks, U, a, b)
  <2> SUFFICES ASSUME NEW t
               PROVE  t \in AnyTypes(toks, T, a, b) <=> t \in AnyTypes(toks, U, a, b)
    OBVIOUS
  <2>1. BaseForm(T, t, a, b) <=> BaseForm(U, t, a, b)
    BY <1>1, <1>2, <1>3
  <2>2. \A u : BaseForm(T, u, a, b-3) <=> BaseForm(U, u, a, b-3)
    BY <1>2, <1>3
  <2>3. /\ t \in AnyTypes(toks, T, a, b) <=>
             \/ BaseForm(T, t, a, b)
             \/ /\ b > a + 3 /\ toks[b-3].k = "[" /\ toks[b-2].k = "int" /\ toks[b-1].k = "]"
                /\ \E u : BaseForm(T, u, a, b-3) /\ t = Array(u, toks[b-2].v)
        /\ t \in AnyTypes(toks, U, a, b) <=>
             \/ BaseForm(U, t, a, b)
             \/ /\ b > a + 3 /\ toks[b-3].k = "[" /\ toks[b-2].k = "int" /\ toks[b-1].k = "]"
                /\ \E u : BaseForm(U, u, a, b-3) /\ t = Array(u, toks[b-2].v)
    BY <1>1, InTypes
  <2> QED
    BY <2>1, <2>2, <2>3
<1> QED
  BY <1>4, Same

(* so there is one function that satisfies it, and TypesIn is it *)
LEMMA TypeEquation ==
  ASSUME toks \in Inputs, NEW a \in DOMAIN toks, NEW b \in DOMAIN toks
  PROVE  Ty(a, b) = AnyTypes(toks, TypesIn(toks), a, b)
<1>1. ASSUME NEW s \in TypeSpans(toks)
      PROVE  /\ TypeLength(toks, s) \in Nat
             /\ \A t, u : TypeGrammar!Agree(toks, t, u, TypeLength(toks, s)) =>
                            TypeRule(toks, t, s) = TypeRule(toks, u, s)
  <2>1. PICK c \in DOMAIN toks, d \in DOMAIN toks : s = <<c, d>>
    BY DEF TypeSpans, Spans
  <2>2. s[1] = c /\ s[2] = d
    BY <2>1
  <2>3. TypeLength(toks, s) \in Nat
    BY <2>2, Within DEF TypeLength
  <2>4. ASSUME NEW t, NEW u, TypeGrammar!Agree(toks, t, u, TypeLength(toks, s))
        PROVE  TypeRule(toks, t, s) = TypeRule(toks, u, s)
    <3>1. ASSUME NEW e \in DOMAIN toks, NEW f \in DOMAIN toks, f - e < d - c
          PROVE  t[<<e, f>>] = u[<<e, f>>]
      <4>1. <<e, f>> \in TypeSpans(toks) /\ <<e, f>>[1] = e /\ <<e, f>>[2] = f
        BY DEF TypeSpans, Spans
      <4>2. TypeLength(toks, <<e, f>>) < TypeLength(toks, s)
        <5>1. c \in Int /\ d \in Int /\ e \in Int /\ f \in Int /\ Len(toks) \in Int
          BY Within
        <5> QED
          BY <2>2, <3>1, <4>1, <5>1 DEF TypeLength
      <4> QED
        BY <2>4, <4>1, <4>2 DEF TypeGrammar!Agree
    <3>2. AnyTypes(toks, t, c, d) = AnyTypes(toks, u, c, d)
      BY <3>1, SameTypes
    <3> QED
      BY <2>2, <3>2 DEF TypeRule
  <2> QED
    BY <2>3, <2>4
<1>2. TypeGrammar!LooksDown(toks)
  BY <1>1 DEF TypeGrammar!LooksDown, Anything
<1> DEFINE T == TypeGrammar!Defined(toks)
<1>3. T = [s \in TypeSpans(toks) |-> TypeRule(toks, T, s)]
  BY <1>2, TypeGrammar!Unfolding
<1>4. T = TypesIn(toks)
  BY DEF TypeGrammar!Defined, TypeSpans, TypeRule, TypesIn
<1> HIDE DEF T
<1>5. <<a, b>> \in TypeSpans(toks) /\ <<a, b>>[1] = a /\ <<a, b>>[2] = b
  BY DEF TypeSpans, Spans
<1>6. T[<<a, b>>] = TypeRule(toks, T, <<a, b>>)
  BY <1>3, <1>5
<1> QED
  BY <1>4, <1>5, <1>6 DEF Ty, TypeRule

(* what a stretch stands for as a type *)
BaseOf(t, a, b) ==
  \/ b = a + 1 /\ Tok(a) \in DOMAIN TypeNames /\ t = TypeNames[Tok(a)]
  \/ /\ b > a + 3 /\ Tok(a) = "ptr" /\ Tok(a+1) = "<" /\ Tok(b-1) = ">"
     /\ \E u \in Ty(a+2, b-1) : t = Ptr(u)

(* what a stretch stands for as a type, in words the parser can be held to *)
LEMMA TypeForms ==
  ASSUME toks \in Inputs, NEW a \in DOMAIN toks, NEW b \in DOMAIN toks, NEW t
  PROVE  t \in Ty(a, b) <=>
           \/ BaseOf(t, a, b)
           \/ /\ b > a + 3 /\ Tok(b-3) = "[" /\ Tok(b-2) = "int" /\ Tok(b-1) = "]"
              /\ \E u : BaseOf(u, a, b-3) /\ t = Array(u, toks[b-2].v)
<1>1. /\ a \in Int /\ b \in Int
      /\ \A m \in Int : a <= m /\ m <= b => m \in DOMAIN toks
      /\ \A m \in DOMAIN toks : m \in Int /\ Tok(m) = toks[m].k
  BY Within
<1>2. \A u : \A c \in Int : c <= b => (BaseForm(TypesIn(toks), u, a, c) <=> BaseOf(u, a, c))
  <2> SUFFICES ASSUME NEW u, NEW c \in Int, c <= b
               PROVE  BaseForm(TypesIn(toks), u, a, c) <=> BaseOf(u, a, c)
    OBVIOUS
  <2>1. c > a + 3 => a+1 \in DOMAIN toks /\ c-1 \in DOMAIN toks
    BY <1>1
  <2> QED
    BY <1>1, <2>1 DEF BaseForm, BaseOf, Ty
<1>3. b > a + 3 => b-3 \in DOMAIN toks /\ b-2 \in DOMAIN toks /\ b-1 \in DOMAIN toks
  BY <1>1
<1>4. b - 3 \in Int /\ b - 3 <= b /\ b <= b
  BY <1>1
<1>5. /\ BaseForm(TypesIn(toks), t, a, b) <=> BaseOf(t, a, b)
      /\ \A u : BaseForm(TypesIn(toks), u, a, b-3) <=> BaseOf(u, a, b-3)
  BY <1>1, <1>2, <1>4
<1>6. t \in Ty(a, b) <=>
           \/ BaseForm(TypesIn(toks), t, a, b)
           \/ /\ b > a + 3 /\ toks[b-3].k = "[" /\ toks[b-2].k = "int" /\ toks[b-1].k = "]"
              /\ \E u : BaseForm(TypesIn(toks), u, a, b-3) /\ t = Array(u, toks[b-2].v)
  BY <1>1, InTypes, TypeEquation
<1> QED
  BY <1>1, <1>3, <1>5, <1>6

(* x is an expression of the stretch, by the rule for its level; E says    *)
(* what the parts of the stretch stand for                                 *)
AssignForm(E, x, a, b) ==
  \/ x \in E[<<1, a, b>>]
  \/ \E m \in a+1 .. b-2 : \E l \in E[<<1, a, m>>], r \in E[<<0, m+1, b>>] :
       /\ Tok(m) = "="
       /\ x = Bin(l, "=", r)
  \/ \E m \in a+1 .. b-2 : \E l \in E[<<1, a, m>>], r \in E[<<0, m+1, b>>] :
       /\ Tok(m) \in Compound
       /\ l.k = "var"
       /\ x = Bin(l, "=", Bin(l, OperatorOf(Tok(m)), r))
BinaryForm(E, n, x, a, b) ==
  \/ x \in E[<<n+1, a, b>>]
  \/ \E m \in a+1 .. b-2 : \E l \in E[<<n, a, m>>], r \in E[<<n+1, m+1, b>>] :
       /\ Tok(m) \in Levels[n]
       /\ x = Bin(l, Tok(m), r)
UnaryForm(E, x, a, b) ==
  \/ x \in E[<<8, a, b>>]
  \/ b > a + 1 /\ Tok(a) \in {"!", "-"} /\ \E r \in E[<<7, a+1, b>>] : x = Unary(Tok(a), r)
PrimaryForm(E, x, a, b) ==
  \/ b = a + 1 /\ Tok(a) = "ident" /\ x = Var(toks[a].x)
  \/ b = a + 1 /\ Tok(a) \in LiteralKinds /\ x = Literal(toks[a])
  \/ b > a + 1 /\ Tok(a) = "(" /\ Tok(b-1) = ")" /\ x \in E[<<0, a+1, b-1>>]
  \/ b > a + 1 /\ Tok(a) = "[" /\ Tok(b-1) = "]" /\ \E es \in E[<<9, a+1, b-1>>] : x = ArrayLit(es)
  \/ /\ b > a + 2 /\ Tok(a) = "ident" /\ Tok(a+1) = "(" /\ Tok(b-1) = ")"
     /\ \E es \in E[<<9, a+2, b-1>>] : x = Call(toks[a].x, es)
PostfixForm(E, x, a, b) ==
  \/ PrimaryForm(E, x, a, b)
  \/ \E m \in a+1 .. b-2 : \E l \in E[<<8, a, m>>], e \in E[<<0, m+1, b-1>>] :
       /\ Tok(m) = "[" /\ Tok(b-1) = "]"
       /\ x = Index(l, e)
ListForm(E, x, a, b) ==
  \/ a = b /\ x = << >>
  \/ a # b /\ \E e \in E[<<0, a, b>>] : x = <<e>>
  \/ /\ a # b
     /\ \E m \in a+1 .. b-2 : \E es \in E[<<9, a, m>>], e \in E[<<0, m+1, b>>] :
          /\ Tok(m) = ","
          /\ x = Append(es, e)

ExprForm(E, n, x, a, b) ==
  \/ n = 0 /\ AssignForm(E, x, a, b)
  \/ n \in 1 .. 6 /\ BinaryForm(E, n, x, a, b)
  \/ n = 7 /\ UnaryForm(E, x, a, b)
  \/ n = 8 /\ PostfixForm(E, x, a, b)
  \/ n = 9 /\ ListForm(E, x, a, b)

(* a token that is an expression by itself *)
LEMMA InWords ==
  ASSUME NEW t, NEW x
  PROVE  x \in Words(t) <=> \/ t.k = "ident" /\ x = Var(t.x)
                            \/ t.k \in LiteralKinds /\ x = Literal(t)
<1>1. CASE t.k = "ident"
  BY <1>1 DEF Words, LiteralKinds
<1>2. CASE t.k = "int"
  BY <1>2 DEF Words, LiteralKinds, Literal
<1>3. CASE t.k = "true"
  BY <1>3 DEF Words, LiteralKinds, Literal
<1>4. CASE t.k = "false"
  BY <1>4 DEF Words, LiteralKinds, Literal
<1>5. CASE t.k \notin {"ident", "int", "true", "false"}
  BY <1>5 DEF Words, LiteralKinds
<1> QED
  BY <1>1, <1>2, <1>3, <1>4, <1>5

(* the rules for expressions, member by member *)
LEMMA InExprs ==
  ASSUME toks \in Inputs, NEW a \in DOMAIN toks, NEW b \in DOMAIN toks, NEW E, NEW n \in 0 .. 9, NEW x
  PROVE  x \in Expressions(toks, E, n, a, b) <=> ExprForm(E, n, x, a, b)
<1>1. /\ a \in Int /\ b \in Int
      /\ \A m \in Int : a <= m /\ m <= b => m \in DOMAIN toks
      /\ \A m \in DOMAIN toks : m \in Int /\ Tok(m) = toks[m].k
  BY Within
<1>2. \A m : m \in a+1 .. b-2 => m \in DOMAIN toks /\ Tok(m) = toks[m].k
  BY <1>1
<1>3. /\ Tok(a) = toks[a].k
      /\ b > a + 1 => Tok(b-1) = toks[b-1].k
      /\ b > a + 2 => Tok(a+1) = toks[a+1].k
  BY <1>1
<1>4. \A ks : \A m : m \in Inside(toks, a, b, ks) <=> m \in a+1 .. b-2 /\ Tok(m) \in ks
  BY <1>2 DEF Inside
<1>5. CASE n = 0
  <2>1. x \in Assignments(toks, E, a, b) <=>
          \/ x \in E[<<1, a, b>>]
          \/ \E m \in Inside(toks, a, b, {"="}) : \E l \in E[<<1, a, m>>], r \in E[<<0, m+1, b>>] :
               x = Bin(l, "=", r)
          \/ \E m \in Inside(toks, a, b, Compound) : \E l \in E[<<1, a, m>>], r \in E[<<0, m+1, b>>] :
               l.k = "var" /\ x = Bin(l, "=", Bin(l, OperatorOf(toks[m].k), r))
    <3> DEFINE Plain(m) == {Bin(l, "=", r) : l \in E[<<1, a, m>>], r \in E[<<0, m+1, b>>]}
               Mixed(m) == {Bin(l, "=", Bin(l, OperatorOf(toks[m].k), r)) :
                              l \in {e \in E[<<1, a, m>>] : e.k = "var"}, r \in E[<<0, m+1, b>>]}
    <3>1. \A m : x \in Plain(m) <=> \E l \in E[<<1, a, m>>], r \in E[<<0, m+1, b>>] : x = Bin(l, "=", r)
      OBVIOUS
    <3>2. \A m : x \in Mixed(m) <=>
                   \E l \in E[<<1, a, m>>], r \in E[<<0, m+1, b>>] :
                     l.k = "var" /\ x = Bin(l, "=", Bin(l, OperatorOf(toks[m].k), r))
      OBVIOUS
    <3>3. Assignments(toks, E, a, b) = E[<<1, a, b>>]
                                       \cup (UNION {Plain(m) : m \in Inside(toks, a, b, {"="})})
                                       \cup (UNION {Mixed(m) : m \in Inside(toks, a, b, Compound)})
      BY DEF Assignments
    <3> HIDE DEF Plain, Mixed
    <3> DEFINE Plains == UNION {Plain(m) : m \in Inside(toks, a, b, {"="})}
               Mixeds == UNION {Mixed(m) : m \in Inside(toks, a, b, Compound)}
    <3>5. x \in Plains <=> \E m \in Inside(toks, a, b, {"="}) : x \in Plain(m)
      OBVIOUS
    <3>6. x \in Mixeds <=> \E m \in Inside(toks, a, b, Compound) : x \in Mixed(m)
      OBVIOUS
    <3>7. Assignments(toks, E, a, b) = E[<<1, a, b>>] \cup Plains \cup Mixeds
      BY <3>3, Zenon
    <3> HIDE DEF Plains, Mixeds
    <3>4. x \in Assignments(toks, E, a, b) <=>
            \/ x \in E[<<1, a, b>>]
            \/ \E m \in Inside(toks, a, b, {"="}) : x \in Plain(m)
            \/ \E m \in Inside(toks, a, b, Compound) : x \in Mixed(m)
      BY <3>5, <3>6, <3>7
    <3> QED
      BY <3>1, <3>2, <3>4
  <2>2. x \in Expressions(toks, E, n, a, b) <=> x \in Assignments(toks, E, a, b)
    BY <1>5 DEF Expressions
  <2>3. ExprForm(E, n, x, a, b) <=> AssignForm(E, x, a, b)
    BY <1>5 DEF ExprForm
  <2> DEFINE I == Inside(toks, a, b, {"="})
             J == Inside(toks, a, b, Compound)
             M == a+1 .. b-2
  <2>5. \A m : m \in I <=> m \in M /\ Tok(m) = "="
    BY <1>4
  <2>6. \A m : m \in J <=> m \in M /\ Tok(m) \in Compound
    BY <1>4
  <2>7. \A m \in M : Tok(m) = toks[m].k
    BY <1>2
  <2>8. AssignForm(E, x, a, b) <=>
          \/ x \in E[<<1, a, b>>]
          \/ \E m \in M : \E l \in E[<<1, a, m>>], r \in E[<<0, m+1, b>>] :
               Tok(m) = "=" /\ x = Bin(l, "=", r)
          \/ \E m \in M : \E l \in E[<<1, a, m>>], r \in E[<<0, m+1, b>>] :
               Tok(m) \in Compound /\ l.k = "var" /\ x = Bin(l, "=", Bin(l, OperatorOf(Tok(m)), r))
    BY DEF AssignForm
  <2> HIDE DEF I, J, M
  <2>4. x \in Assignments(toks, E, a, b) <=> AssignForm(E, x, a, b)
    BY <2>1, <2>5, <2>6, <2>7, <2>8 DEF I, J
  <2> QED
    BY <2>2, <2>3, <2>4
<1>6. CASE n \in 1 .. 6
  <2>1. x \in Binaries(toks, E, n, a, b) <=>
          \/ x \in E[<<n+1, a, b>>]
          \/ \E m \in Inside(toks, a, b, Levels[n]) : \E l \in E[<<n, a, m>>], r \in E[<<n+1, m+1, b>>] :
               x = Bin(l, toks[m].k, r)
    <3> DEFINE Split(m) == {Bin(l, toks[m].k, r) : l \in E[<<n, a, m>>], r \in E[<<n+1, m+1, b>>]}
    <3>1. \A m : x \in Split(m) <=> \E l \in E[<<n, a, m>>], r \in E[<<n+1, m+1, b>>] : x = Bin(l, toks[m].k, r)
      OBVIOUS
    <3>2. Binaries(toks, E, n, a, b) = E[<<n+1, a, b>>] \cup (UNION {Split(m) : m \in Inside(toks, a, b, Levels[n])})
      BY DEF Binaries
    <3> HIDE DEF Split
    <3>3. x \in Binaries(toks, E, n, a, b) <=>
            x \in E[<<n+1, a, b>>] \/ \E m \in Inside(toks, a, b, Levels[n]) : x \in Split(m)
      BY <3>2
    <3> QED
      BY <3>1, <3>3
  <2>2. x \in Expressions(toks, E, n, a, b) <=> x \in Binaries(toks, E, n, a, b)
    BY <1>6 DEF Expressions
  <2>3. ExprForm(E, n, x, a, b) <=> BinaryForm(E, n, x, a, b)
    BY <1>6 DEF ExprForm
  <2>4. x \in Binaries(toks, E, n, a, b) <=> BinaryForm(E, n, x, a, b)
    BY <1>2, <1>4, <2>1 DEF BinaryForm
  <2> QED
    BY <2>2, <2>3, <2>4
<1>7. CASE n = 7
  BY <1>3, <1>7 DEF Expressions, ExprForm, Negations, UnaryForm
<1>8. CASE n = 8
  <2>1. x \in Primaries(toks, E, a, b) <=> PrimaryForm(E, x, a, b)
    <3>1. x \in Primaries(toks, E, a, b) <=>
            \/ b = a + 1 /\ x \in Words(toks[a])
            \/ b > a + 1 /\ Tok(a) = "(" /\ Tok(b-1) = ")" /\ x \in E[<<0, a+1, b-1>>]
            \/ b > a + 1 /\ Tok(a) = "[" /\ Tok(b-1) = "]" /\ \E es \in E[<<9, a+1, b-1>>] : x = ArrayLit(es)
            \/ /\ b > a + 2 /\ Tok(a) = "ident" /\ Tok(a+1) = "(" /\ Tok(b-1) = ")"
               /\ \E es \in E[<<9, a+2, b-1>>] : x = Call(toks[a].x, es)
      BY <1>1, <1>3 DEF Primaries, Bracketed, Is
    <3>2. x \in Words(toks[a]) <=> \/ Tok(a) = "ident" /\ x = Var(toks[a].x)
                                   \/ Tok(a) \in LiteralKinds /\ x = Literal(toks[a])
      BY <1>3, InWords
    <3> QED
      BY <3>1, <3>2 DEF PrimaryForm
  <2>2. x \in Subscripts(toks, E, a, b) <=>
          \/ x \in Primaries(toks, E, a, b)
          \/ \E m \in Inside(toks, a, b, {"["}) : \E l \in E[<<8, a, m>>], e \in E[<<0, m+1, b-1>>] :
               b > a /\ toks[b-1].k = "]" /\ x = Index(l, e)
    <3> DEFINE Split(m) == {Index(l, e) : l \in E[<<8, a, m>>], e \in E[<<0, m+1, b-1>>]}
               Where == IF b > a /\ Is(toks, b-1, "]") THEN Inside(toks, a, b, {"["}) ELSE {}
    <3>1. \A m : x \in Split(m) <=> \E l \in E[<<8, a, m>>], e \in E[<<0, m+1, b-1>>] : x = Index(l, e)
      OBVIOUS
    <3>2. Subscripts(toks, E, a, b) = Primaries(toks, E, a, b) \cup (UNION {Split(m) : m \in Where})
      BY DEF Subscripts
    <3>3. \A m : m \in Where <=> m \in Inside(toks, a, b, {"["}) /\ b > a /\ toks[b-1].k = "]"
      BY DEF Is
    <3> HIDE DEF Split, Where
    <3>4. x \in Subscripts(toks, E, a, b) <=> x \in Primaries(toks, E, a, b) \/ \E m \in Where : x \in Split(m)
      BY <3>2
    <3> QED
      BY <3>1, <3>3, <3>4
  <2>3. x \in Expressions(toks, E, n, a, b) <=> x \in Subscripts(toks, E, a, b)
    BY <1>8 DEF Expressions
  <2>4. ExprForm(E, n, x, a, b) <=> PostfixForm(E, x, a, b)
    BY <1>8 DEF ExprForm
  <2>5. \A m \in a+1 .. b-2 : b > a /\ b > a + 1
    BY <1>1
  <2>6. x \in Subscripts(toks, E, a, b) <=> PostfixForm(E, x, a, b)
    <3> DEFINE I == Inside(toks, a, b, {"["})
               M == a+1 .. b-2
    <3>1. \A m : m \in I <=> m \in M /\ Tok(m) = "["
      BY <1>4
    <3>2. \A m \in M : b > a /\ Tok(b-1) = toks[b-1].k
      BY <1>3, <2>5
    <3>3. PostfixForm(E, x, a, b) <=>
            \/ PrimaryForm(E, x, a, b)
            \/ \E m \in M : \E l \in E[<<8, a, m>>], e \in E[<<0, m+1, b-1>>] :
                 Tok(m) = "[" /\ Tok(b-1) = "]" /\ x = Index(l, e)
      BY DEF PostfixForm
    <3> HIDE DEF I, M
    <3> QED
      BY <2>1, <2>2, <3>1, <3>2, <3>3 DEF I
  <2> QED
    BY <2>3, <2>4, <2>6
<1>9. CASE n = 9
  <2>1. x \in Expressions(toks, E, n, a, b) <=> x \in Lists(toks, E, a, b)
    BY <1>9 DEF Expressions
  <2>2. ExprForm(E, n, x, a, b) <=> ListForm(E, x, a, b)
    BY <1>9 DEF ExprForm
  <2>3. a # b => (x \in Lists(toks, E, a, b) <=>
          \/ \E e \in E[<<0, a, b>>] : x = <<e>>
          \/ \E m \in Inside(toks, a, b, {","}) : \E es \in E[<<9, a, m>>], e \in E[<<0, m+1, b>>] :
               x = Append(es, e))
    <3> DEFINE Split(m) == {Append(es, e) : es \in E[<<9, a, m>>], e \in E[<<0, m+1, b>>]}
    <3>1. \A m : x \in Split(m) <=> \E es \in E[<<9, a, m>>], e \in E[<<0, m+1, b>>] : x = Append(es, e)
      OBVIOUS
    <3>2. a # b => Lists(toks, E, a, b) = {<<e>> : e \in E[<<0, a, b>>]}
                                          \cup (UNION {Split(m) : m \in Inside(toks, a, b, {","})})
      BY DEF Lists
    <3> HIDE DEF Split
    <3>3. a # b => (x \in Lists(toks, E, a, b) <=>
            \/ \E e \in E[<<0, a, b>>] : x = <<e>>
            \/ \E m \in Inside(toks, a, b, {","}) : x \in Split(m))
      BY <3>2
    <3> QED
      BY <3>1, <3>3
  <2>4. a = b => (x \in Lists(toks, E, a, b) <=> x = << >>)
    BY DEF Lists
  <2>5. x \in Lists(toks, E, a, b) <=> ListForm(E, x, a, b)
    <3> DEFINE I == Inside(toks, a, b, {","})
               M == a+1 .. b-2
    <3>1. \A m : m \in I <=> m \in M /\ Tok(m) = ","
      BY <1>2 DEF Inside
    <3>2. ListForm(E, x, a, b) <=>
            \/ a = b /\ x = << >>
            \/ a # b /\ \E e \in E[<<0, a, b>>] : x = <<e>>
            \/ a # b /\ \E m \in M : \E es \in E[<<9, a, m>>], e \in E[<<0, m+1, b>>] :
                           Tok(m) = "," /\ x = Append(es, e)
      BY DEF ListForm
    <3> HIDE DEF I, M
    <3> QED
      BY <2>3, <2>4, <3>1, <3>2 DEF I
  <2> QED
    BY <2>1, <2>2, <2>5
<1>10. n = 0 \/ n \in 1 .. 6 \/ n = 7 \/ n = 8 \/ n = 9
  OBVIOUS
<1> QED
  BY <1>5, <1>6, <1>7, <1>8, <1>9, <1>10

(* lists of expressions are sequences *)
ExprSpans(p) == (0 .. 9) \X (DOMAIN p) \X (DOMAIN p)
ExprRank(p, c) == 10 * (Len(p) + c[3] - c[2]) + IF c[1] = 9 THEN 9 ELSE 8 - c[1]
ExprRule(p, E, c) == Expressions(p, E, c[1], c[2], c[3])
ExprFit(p, c, v) == c[1] = 9 => \A es \in v : IsSeq(es)
ExprGrammar == INSTANCE Recursion WITH Dom <- ExprSpans, Rank <- ExprRank, Body <- ExprRule, Fit <- ExprFit

(* T and U agree on what the rule for level n looks at *)
SameFor(T, U, n, a, b) ==
  /\ \A l \in 0 .. 9 : \A c, d \in DOMAIN toks : d - c < b - a => T[<<l, c, d>>] = U[<<l, c, d>>]
  /\ n < 8 => T[<<n+1, a, b>>] = U[<<n+1, a, b>>]
  /\ n = 9 => T[<<0, a, b>>] = U[<<0, a, b>>]

(* they look at shorter stretches, or at a tighter level of the same *)
LEMMA SameExprs ==
  ASSUME toks \in Inputs, NEW a \in DOMAIN toks, NEW b \in DOMAIN toks, NEW n \in 0 .. 9, NEW T, NEW U,
         SameFor(T, U, n, a, b)
  PROVE  Expressions(toks, T, n, a, b) = Expressions(toks, U, n, a, b)
<1>1. /\ a \in Int /\ b \in Int
      /\ \A m \in Int : a <= m /\ m <= b => m \in DOMAIN toks
  BY Within
<1>2. \A l \in 0 .. 9 : \A c, d \in Int :
        a <= c /\ c <= b /\ a <= d /\ d <= b /\ d - c < b - a => T[<<l, c, d>>] = U[<<l, c, d>>]
  BY <1>1 DEF SameFor
<1>3. ASSUME NEW l \in 0 .. 9, NEW m \in a+1 .. b-2
      PROVE  /\ T[<<l, a, m>>] = U[<<l, a, m>>]
             /\ T[<<l, m+1, b>>] = U[<<l, m+1, b>>]
             /\ T[<<l, m+1, b-1>>] = U[<<l, m+1, b-1>>]
  <2>1. m \in Int /\ m+1 \in Int /\ b-1 \in Int
    BY <1>1
  <2>2. /\ a <= a /\ a <= b /\ a <= m /\ m <= b /\ m - a < b - a
        /\ a <= m+1 /\ m+1 <= b /\ b <= b /\ b - (m+1) < b - a
        /\ a <= b-1 /\ b-1 <= b /\ (b-1) - (m+1) < b - a
    BY <1>1
  <2> QED
    BY <1>1, <1>2, <2>1, <2>2
<1>4. ASSUME NEW l \in 0 .. 9, b > a + 1
      PROVE  /\ T[<<l, a+1, b>>] = U[<<l, a+1, b>>]
             /\ T[<<l, a+1, b-1>>] = U[<<l, a+1, b-1>>]
             /\ b > a + 2 => T[<<l, a+2, b-1>>] = U[<<l, a+2, b-1>>]
  <2>1. a+1 \in Int /\ a+2 \in Int /\ b-1 \in Int
    BY <1>1
  <2>2. /\ a <= a+1 /\ a+1 <= b /\ a <= b /\ b <= b /\ b - (a+1) < b - a
        /\ a <= b-1 /\ b-1 <= b /\ (b-1) - (a+1) < b - a
        /\ a <= a+2 /\ a+2 <= b /\ (b-1) - (a+2) < b - a
    BY <1>1, <1>4
  <2> QED
    BY <1>1, <1>2, <2>1, <2>2
<1>5. 0 \in 0 .. 9 /\ 1 \in 0 .. 9 /\ 7 \in 0 .. 9 /\ 8 \in 0 .. 9 /\ 9 \in 0 .. 9
  OBVIOUS
<1>6. \A x : ExprForm(T, n, x, a, b) <=> ExprForm(U, n, x, a, b)
  <2> TAKE x
  <2>1. CASE n = 0
    <3>1. AssignForm(T, x, a, b) <=> AssignForm(U, x, a, b)
      <4>1. T[<<1, a, b>>] = U[<<1, a, b>>]
        BY <2>1 DEF SameFor
      <4> QED
        BY <1>3, <1>5, <4>1 DEF AssignForm
    <3> QED
      BY <2>1, <3>1 DEF ExprForm
  <2>2. CASE n \in 1 .. 6
    <3>1. n \in 0 .. 9 /\ n+1 \in 0 .. 9 /\ n < 8
      BY <2>2
    <3>2. BinaryForm(T, n, x, a, b) <=> BinaryForm(U, n, x, a, b)
      <4>1. T[<<n+1, a, b>>] = U[<<n+1, a, b>>]
        BY <3>1 DEF SameFor
      <4>2. \A m \in a+1 .. b-2 : T[<<n, a, m>>] = U[<<n, a, m>>] /\ T[<<n+1, m+1, b>>] = U[<<n+1, m+1, b>>]
        BY <1>3, <3>1
      <4> QED
        BY <4>1, <4>2 DEF BinaryForm
    <3> QED
      BY <2>2, <3>2 DEF ExprForm
  <2>3. CASE n = 7
    <3>1. UnaryForm(T, x, a, b) <=> UnaryForm(U, x, a, b)
      <4>1. T[<<8, a, b>>] = U[<<8, a, b>>]
        BY <2>3 DEF SameFor
      <4>2. b > a + 1 => T[<<7, a+1, b>>] = U[<<7, a+1, b>>]
        BY <1>4, <1>5
      <4> QED
        BY <4>1, <4>2 DEF UnaryForm
    <3> QED
      BY <2>3, <3>1 DEF ExprForm
  <2>4. CASE n = 8
    <3>1. PrimaryForm(T, x, a, b) <=> PrimaryForm(U, x, a, b)
      <4>1. b > a + 1 => /\ T[<<0, a+1, b-1>>] = U[<<0, a+1, b-1>>]
                         /\ T[<<9, a+1, b-1>>] = U[<<9, a+1, b-1>>]
        BY <1>4, <1>5
      <4>2. b > a + 2 => T[<<9, a+2, b-1>>] = U[<<9, a+2, b-1>>]
        <5>1. b > a + 2 => b > a + 1
          BY <1>1
        <5> QED
          BY <1>4, <1>5, <5>1
      <4> QED
        BY <4>1, <4>2 DEF PrimaryForm
    <3>2. \A m \in a+1 .. b-2 : T[<<8, a, m>>] = U[<<8, a, m>>] /\ T[<<0, m+1, b-1>>] = U[<<0, m+1, b-1>>]
      BY <1>3, <1>5
    <3>3. PostfixForm(T, x, a, b) <=> PostfixForm(U, x, a, b)
      BY <3>1, <3>2 DEF PostfixForm
    <3> QED
      BY <2>4, <3>3 DEF ExprForm
  <2>5. CASE n = 9
    <3>1. ListForm(T, x, a, b) <=> ListForm(U, x, a, b)
      <4>1. T[<<0, a, b>>] = U[<<0, a, b>>]
        BY <2>5 DEF SameFor
      <4>2. \A m \in a+1 .. b-2 : T[<<9, a, m>>] = U[<<9, a, m>>] /\ T[<<0, m+1, b>>] = U[<<0, m+1, b>>]
        BY <1>3, <1>5
      <4> QED
        BY <4>1, <4>2 DEF ListForm
    <3> QED
      BY <2>5, <3>1 DEF ExprForm
  <2>6. n = 0 \/ n \in 1 .. 6 \/ n = 7 \/ n = 8 \/ n = 9
    OBVIOUS
  <2> QED
    BY <2>1, <2>2, <2>3, <2>4, <2>5, <2>6
<1>7. \A x : x \in Expressions(toks, T, n, a, b) <=> x \in Expressions(toks, U, n, a, b)
  BY <1>6, InExprs
<1> QED
  BY <1>7, Same

LEMMA ListsAreSeqs ==
  ASSUME toks \in Inputs, NEW a \in DOMAIN toks, NEW b \in DOMAIN toks, NEW T,
         \A m \in a+1 .. b-2 : \A es \in T[<<9, a, m>>] : IsSeq(es)
  PROVE  \A es \in Expressions(toks, T, 9, a, b) : IsSeq(es)
<1> SUFFICES ASSUME NEW x \in Expressions(toks, T, 9, a, b) PROVE IsSeq(x)
  OBVIOUS
<1>1. ListForm(T, x, a, b)
  <2>1. 9 \in 0 .. 9 /\ 9 # 0 /\ 9 # 7 /\ 9 # 8 /\ 9 \notin 1 .. 6
    OBVIOUS
  <2>2. ExprForm(T, 9, x, a, b)
    BY <2>1, InExprs
  <2> QED
    BY <2>1, <2>2 DEF ExprForm
<1>2. \A e : IsSeq(<<e>>)
  BY OneEntryStack
<1>3. \A s, e : IsSeq(s) => IsSeq(Append(s, e))
  BY StackPush
<1> QED
  BY <1>1, <1>2, <1>3, EmptyStack DEF ListForm

(* so there is one function that satisfies them, and ExprsIn is it *)
LEMMA ExprEquation ==
  ASSUME toks \in Inputs
  PROVE  /\ \A n \in 0 .. 9 : \A a, b \in DOMAIN toks :
              Ex(n, a, b) = Expressions(toks, ExprsIn(toks), n, a, b)
         /\ \A a, b \in DOMAIN toks : \A es \in Ex(9, a, b) : IsSeq(es)
<1>0. Len(toks) \in Nat /\ DOMAIN toks = 1 .. Len(toks)
  BY Positions
<1>s. \A n \in 0 .. 9 : \A a, b \in DOMAIN toks : <<n, a, b>> \in ExprSpans(toks)
  BY DEF ExprSpans
<1>1. ASSUME NEW s \in ExprSpans(toks)
      PROVE  /\ ExprRank(toks, s) \in Nat
             /\ \A t, u : ExprGrammar!FitBelow(toks, t, ExprRank(toks, s))
                          /\ ExprGrammar!Agree(toks, t, u, ExprRank(toks, s)) =>
                            ExprRule(toks, t, s) = ExprRule(toks, u, s) /\ ExprFit(toks, s, ExprRule(toks, t, s))
  <2>1. PICK n \in 0 .. 9, a \in DOMAIN toks, b \in DOMAIN toks : s = <<n, a, b>>
    BY DEF ExprSpans
  <2>2. s[1] = n /\ s[2] = a /\ s[3] = b
    BY <2>1
  <2>i. a \in Int /\ b \in Int /\ a >= 1 /\ b >= 1 /\ a <= Len(toks) /\ b <= Len(toks)
    BY <1>0
  <2>3. ExprRank(toks, s) = 10 * (Len(toks) + b - a) + IF n = 9 THEN 9 ELSE 8 - n
    BY <2>2 DEF ExprRank
  <2>4. ExprRank(toks, s) \in Nat
    BY <1>0, <2>i, <2>3
  <2>5. ASSUME NEW t, NEW u, ExprGrammar!FitBelow(toks, t, ExprRank(toks, s)),
               ExprGrammar!Agree(toks, t, u, ExprRank(toks, s))
        PROVE  ExprRule(toks, t, s) = ExprRule(toks, u, s) /\ ExprFit(toks, s, ExprRule(toks, t, s))
    <3>1. ASSUME NEW l \in 0 .. 9, NEW c \in DOMAIN toks, NEW d \in DOMAIN toks,
                 10 * (Len(toks) + d - c) + (IF l = 9 THEN 9 ELSE 8 - l)
                   < 10 * (Len(toks) + b - a) + (IF n = 9 THEN 9 ELSE 8 - n)
          PROVE  t[<<l, c, d>>] = u[<<l, c, d>>] /\ (l = 9 => \A es \in t[<<l, c, d>>] : IsSeq(es))
      <4> DEFINE q == <<l, c, d>>
      <4>1. q \in ExprSpans(toks) /\ q[1] = l /\ q[2] = c /\ q[3] = d
        BY <1>s
      <4> HIDE DEF q
      <4>2. ExprRank(toks, q) < ExprRank(toks, s)
        BY <2>3, <3>1, <4>1 DEF ExprRank
      <4>3. t[q] = u[q] /\ ExprFit(toks, q, t[q])
        BY <2>5, <4>1, <4>2 DEF ExprGrammar!Agree, ExprGrammar!FitBelow
      <4> QED
        BY <4>1, <4>3 DEF ExprFit, q
    <3>2. ASSUME NEW l \in 0 .. 9, NEW c \in DOMAIN toks, NEW d \in DOMAIN toks, d - c < b - a
          PROVE  t[<<l, c, d>>] = u[<<l, c, d>>] /\ (l = 9 => \A es \in t[<<l, c, d>>] : IsSeq(es))
      <4>1. c \in Int /\ d \in Int
        BY <1>0
      <4>2. 10 * (Len(toks) + d - c) + (IF l = 9 THEN 9 ELSE 8 - l)
                   < 10 * (Len(toks) + b - a) + (IF n = 9 THEN 9 ELSE 8 - n)
        BY <1>0, <2>i, <3>2, <4>1
      <4> QED
        BY <3>1, <4>2
    <3>3. n < 8 => t[<<n+1, a, b>>] = u[<<n+1, a, b>>]
      <4> SUFFICES ASSUME n < 8 PROVE t[<<n+1, a, b>>] = u[<<n+1, a, b>>]
        OBVIOUS
      <4>1. n+1 \in 0 .. 9 /\ n+1 # 9 /\ n # 9
        OBVIOUS
      <4>2. 10 * (Len(toks) + b - a) + (IF n+1 = 9 THEN 9 ELSE 8 - (n+1))
                   < 10 * (Len(toks) + b - a) + (IF n = 9 THEN 9 ELSE 8 - n)
        BY <1>0, <2>i, <4>1
      <4> QED
        BY <3>1, <4>1, <4>2
    <3>4. n = 9 => t[<<0, a, b>>] = u[<<0, a, b>>]
      <4> SUFFICES ASSUME n = 9 PROVE t[<<0, a, b>>] = u[<<0, a, b>>]
        OBVIOUS
      <4>2. 10 * (Len(toks) + b - a) + (IF 0 = 9 THEN 9 ELSE 8 - 0)
                   < 10 * (Len(toks) + b - a) + (IF n = 9 THEN 9 ELSE 8 - n)
        BY <1>0, <2>i
      <4> QED
        BY <3>1, <4>2
    <3>5. SameFor(t, u, n, a, b)
      BY <3>2, <3>3, <3>4 DEF SameFor
    <3>6. Expressions(toks, t, n, a, b) = Expressions(toks, u, n, a, b)
      BY <3>5, SameExprs
    <3>7. n = 9 => \A es \in Expressions(toks, t, 9, a, b) : IsSeq(es)
      <4>1. ASSUME NEW m \in a+1 .. b-2 PROVE \A es \in t[<<9, a, m>>] : IsSeq(es)
        <5>1. m \in DOMAIN toks /\ m - a < b - a
          BY <1>0, <2>i
        <5> QED
          BY <3>2, <5>1
      <4> QED
        BY <4>1, ListsAreSeqs
    <3> QED
      BY <2>2, <3>6, <3>7 DEF ExprRule, ExprFit
  <2> QED
    BY <2>4, <2>5
<1>2. ExprGrammar!LooksDown(toks)
  BY <1>1 DEF ExprGrammar!LooksDown
<1> DEFINE E == ExprGrammar!Defined(toks)
<1>3. E = [s \in ExprSpans(toks) |-> ExprRule(toks, E, s)] /\ \A s \in ExprSpans(toks) : ExprFit(toks, s, E[s])
  BY <1>2, ExprGrammar!Unfolding
<1>4. E = ExprsIn(toks)
  BY DEF ExprGrammar!Defined, ExprSpans, ExprRule, ExprsIn
<1> HIDE DEF E
<1>5. ASSUME NEW n \in 0 .. 9, NEW a \in DOMAIN toks, NEW b \in DOMAIN toks
      PROVE  /\ Ex(n, a, b) = Expressions(toks, ExprsIn(toks), n, a, b)
             /\ n = 9 => \A es \in Ex(n, a, b) : IsSeq(es)
  <2> DEFINE q == <<n, a, b>>
  <2>1. q \in ExprSpans(toks) /\ q[1] = n /\ q[2] = a /\ q[3] = b
    BY <1>s
  <2>2. E[q] = Ex(n, a, b)
    BY <1>4 DEF Ex
  <2> HIDE DEF q
  <2>3. E[q] = ExprRule(toks, E, q) /\ ExprFit(toks, q, E[q])
    BY <1>3, <2>1
  <2> QED
    BY <1>4, <2>1, <2>2, <2>3 DEF ExprRule, ExprFit
<1>6. 9 \in 0 .. 9
  OBVIOUS
<1> QED
  BY <1>5, <1>6

(* a rule of the grammar for each level *)
LEMMA ExprForms ==
  ASSUME toks \in Inputs, NEW a \in DOMAIN toks, NEW b \in DOMAIN toks, NEW x
  PROVE  /\ x \in Ex(0, a, b) <=> AssignForm(ExprsIn(toks), x, a, b)
         /\ \A n \in 1 .. 6 : x \in Ex(n, a, b) <=> BinaryForm(ExprsIn(toks), n, x, a, b)
         /\ x \in Ex(7, a, b) <=> UnaryForm(ExprsIn(toks), x, a, b)
         /\ x \in Ex(8, a, b) <=> PostfixForm(ExprsIn(toks), x, a, b)
         /\ x \in Ex(9, a, b) <=> ListForm(ExprsIn(toks), x, a, b)
<1>1. \A n \in 0 .. 9 : x \in Ex(n, a, b) <=> ExprForm(ExprsIn(toks), n, x, a, b)
  BY ExprEquation, InExprs
<1>2. 0 \in 0 .. 9 /\ 7 \in 0 .. 9 /\ 8 \in 0 .. 9 /\ 9 \in 0 .. 9 /\ \A n \in 1 .. 6 : n \in 0 .. 9
  OBVIOUS
<1>3. \A n \in 1 .. 6 : n # 0 /\ n # 7 /\ n # 8 /\ n # 9
  OBVIOUS
<1>4. \A n \in {0, 7, 8, 9} : n \notin 1 .. 6
  OBVIOUS
<1> QED
  BY <1>1, <1>2, <1>3, <1>4 DEF ExprForm

-----------------------------------------------------------------------------
(* What the loops make of what they take, item by item.                    *)

(* the recursion in the fold of Grown; p holds the level, where it begins  *)
(* and the items                                                           *)
GrowDom(p) == SUBSET DOMAIN p[3]
GrowRank(p, s) == IF s = {} THEN 0 ELSE Max(s)
GrowBody(p, f, s) == IF s = {} THEN p[2] ELSE Grow(p[1], f[s \ {Max(s)}], p[3][Max(s)])
Growing == INSTANCE Recursion WITH Dom <- GrowDom, Rank <- GrowRank, Body <- GrowBody, Fit <- Anything

(* the fold as a recursion over the positions still to be taken *)
LEMMA GrowFold ==
  ASSUME NEW p
  PROVE  Grown(p[1], p[2], p[3]) = Growing!Defined(p)[DOMAIN p[3]]
BY Zenon DEF Grown, FoldLeft, MapThenFoldSet, Growing!Defined, GrowDom, GrowBody

(* after the first k items, and after all *)
GrownBy(p, k) == Growing!Defined(p)[1 .. k]

(* what the fold makes of the first k items is what it makes of one less, and the k-th *)
LEMMA GrowSteps ==
  ASSUME NEW n, NEW l, NEW items, IsSeq(items)
  PROVE  LET p == <<n, l, items>>
         IN  /\ Grown(n, l, items) = GrownBy(p, Len(items))
             /\ GrownBy(p, 0) = l
             /\ \A k \in 1 .. Len(items) : GrownBy(p, k) = Grow(n, GrownBy(p, k-1), items[k])
<1> DEFINE p == <<n, l, items>>
<1>1. p[1] = n /\ p[2] = l /\ p[3] = items
  OBVIOUS
<1>2. Len(items) \in Nat /\ DOMAIN items = 1 .. Len(items)
  BY SeqBasics
<1> HIDE DEF p
<1>3. ASSUME NEW s \in GrowDom(p), NEW f, NEW g, s # {} => f[Growing!Rest(s)] = g[Growing!Rest(s)]
      PROVE  GrowBody(p, f, s) = GrowBody(p, g, s)
  BY <1>3 DEF GrowBody, Growing!Rest, Growing!Max, Max
<1>4. Growing!FoldsOver(p, Len(items))
  BY <1>1, <1>2, <1>3 DEF Growing!FoldsOver, GrowDom, GrowRank, Growing!Max, Max, Anything
<1>5. Growing!LooksDown(p)
  BY <1>2, <1>4, Growing!Folding
<1> DEFINE F == Growing!Defined(p)
<1>6. F = [s \in GrowDom(p) |-> GrowBody(p, F, s)]
  BY <1>5, Growing!Unfolding
<1>7. Grown(n, l, items) = F[1 .. Len(items)]
  BY <1>1, <1>2, GrowFold
<1> HIDE DEF F
<1>8. F[1 .. 0] = l
  <2>1. 1 .. 0 = {} /\ {} \in GrowDom(p)
    BY DEF GrowDom
  <2> QED
    BY <1>1, <1>6, <2>1 DEF GrowBody
<1>9. ASSUME NEW k \in 1 .. Len(items)
      PROVE  F[1 .. k] = Grow(n, F[1 .. k-1], items[k])
  <2> DEFINE s == 1 .. k
  <2>1. s \in GrowDom(p)
    BY <1>1, <1>2 DEF GrowDom
  <2>2. s # {} /\ Max(s) = k /\ s \ {Max(s)} = 1 .. k-1
    <3>1. k \in Nat /\ k > 0
      BY <1>2
    <3> QED
      BY <3>1, Growing!Prefix DEF Growing!Max, Max, Growing!Rest
  <2> HIDE DEF s
  <2>3. F[s] = GrowBody(p, F, s)
    BY <1>6, <2>1
  <2>4. F[s] = Grow(n, F[1 .. k-1], items[k])
    BY <1>1, <2>2, <2>3 DEF GrowBody
  <2> QED
    BY <2>4 DEF s
<1> QED
  BY <1>7, <1>8, <1>9 DEF GrownBy, F, p

LEMMA GrowNothing ==
  ASSUME NEW n, NEW l
  PROVE  Grown(n, l, << >>) = l
<1> DEFINE none == << >>
<1>1. IsSeq(none) /\ Len(none) = 0
  BY EmptyStack
<1> HIDE DEF none
<1>2. Grown(n, l, none) = GrownBy(<<n, l, none>>, Len(none)) /\ GrownBy(<<n, l, none>>, 0) = l
  BY <1>1, GrowSteps
<1> QED
  BY <1>1, <1>2 DEF none

(* a sequence that begins with x *)
LEMMA FirstOf ==
  ASSUME NEW x, NEW s, IsSeq(s)
  PROVE  /\ IsSeq(<<x>> \o s) /\ Len(<<x>> \o s) = Len(s) + 1
         /\ (<<x>> \o s)[1] = x
         /\ \A k \in 1 .. Len(s) : (<<x>> \o s)[k+1] = s[k]
<1> DEFINE R == Range(s) \cup {x}
           o == <<x>>
<1>1. s \in Seq(R) /\ o \in Seq(R) /\ Len(o) = 1 /\ o[1] = x /\ IsSeq(o)
  BY SeqMonotonic, OneEntryStack DEF IsSeq
<1>2. Len(s) \in Nat
  BY SeqBasics
<1> HIDE DEF R, o
<1>3. /\ Len(o \o s) = Len(s) + 1
      /\ \A k \in 1 .. Len(o) : (o \o s)[k] = o[k]
      /\ \A k \in 1 .. Len(s) : (o \o s)[Len(o) + k] = s[k]
  <2>1. /\ Len(o \o s) = Len(o) + Len(s)
        /\ \A k \in 1 .. Len(o) + Len(s) : (o \o s)[k] = IF k <= Len(o) THEN o[k] ELSE s[k - Len(o)]
    BY <1>1, ConcatProperties
  <2> QED
    BY <1>1, <1>2, <2>1
<1>4. IsSeq(o \o s)
  BY <1>1, Concatenation
<1>5. \A k \in 1 .. Len(s) : Len(o) + k = k+1
  BY <1>1, <1>2
<1> QED
  BY <1>1, <1>3, <1>4, <1>5 DEF o

(* the first item can be taken on its own *)
LEMMA GrowMore ==
  ASSUME NEW n, NEW l, NEW x, NEW s, IsSeq(s)
  PROVE  Grown(n, l, <<x>> \o s) = Grown(n, Grow(n, l, x), s)
<1> DEFINE all == <<x>> \o s
           p == <<n, l, all>>
           q == <<n, Grow(n, l, x), s>>
           F(k) == GrownBy(p, k)
           G(k) == GrownBy(q, k)
<1>1. /\ IsSeq(all) /\ Len(all) = Len(s) + 1 /\ Len(s) \in Nat
      /\ all[1] = x /\ \A k \in 1 .. Len(s) : all[k+1] = s[k]
  BY FirstOf, SeqBasics
<1> HIDE DEF all
<1>2. /\ Grown(n, l, all) = F(Len(all))
      /\ F(0) = l
      /\ \A k \in 1 .. Len(all) : F(k) = Grow(n, F(k-1), all[k])
  BY <1>1, GrowSteps
<1>3. /\ Grown(n, Grow(n, l, x), s) = G(Len(s))
      /\ G(0) = Grow(n, l, x)
      /\ \A k \in 1 .. Len(s) : G(k) = Grow(n, G(k-1), s[k])
  BY GrowSteps
<1> HIDE DEF F, G
<1> DEFINE S == {k \in Nat : k <= Len(s) => F(k+1) = G(k)}
<1>4. ASSUME NEW k \in Nat, \A m \in Nat : m < k => m \in S
      PROVE  k \in S
  <2> SUFFICES ASSUME k <= Len(s) PROVE F(k+1) = G(k)
    OBVIOUS
  <2>1. CASE k = 0
    <3>1. 1 \in 1 .. Len(all) /\ 1-1 = 0 /\ 0+1 = 1
      BY <1>1
    <3>2. F(1) = Grow(n, F(0), all[1])
      BY <1>2, <3>1
    <3> QED
      BY <1>1, <1>2, <1>3, <2>1, <3>1, <3>2
  <2>2. CASE k # 0
    <3>1. k-1 \in Nat /\ k-1 < k /\ k-1 <= Len(s) /\ (k-1)+1 = k /\ (k+1)-1 = k
      BY <1>1, <2>2
    <3>2. F(k) = G(k-1)
      BY <1>4, <3>1
    <3>3. k+1 \in 1 .. Len(all) /\ k \in 1 .. Len(s)
      BY <1>1, <2>2
    <3>4. F(k+1) = Grow(n, F(k), all[k+1])
      BY <1>2, <3>1, <3>3
    <3> QED
      BY <1>1, <1>3, <3>2, <3>3, <3>4
  <2> QED
    BY <2>1, <2>2
<1>5. S = Nat
  <2>1. S \in SUBSET Nat
    OBVIOUS
  <2> HIDE DEF S
  <2> QED
    BY <1>4, <2>1, Flat!Induction
<1>6. F(Len(s) + 1) = G(Len(s))
  <2>1. Len(s) \in S
    BY <1>1, <1>5
  <2> QED
    BY <2>1
<1> QED
  BY <1>1, <1>2, <1>3, <1>6 DEF all

-----------------------------------------------------------------------------
(* The functions of the parser, each in terms of what it calls.            *)

Returned(n, j) == Level(ParseLevel, n, j)
Taken(n, j) == ParseLevel[<<n, TRUE, j>>]
ItemAt(n, j) == parseItem(ParseLevel, n, j)

(* what each function of the parser returns, in terms of those it calls *)
LEMMA ExprCalls ==
  ASSUME toks \in Inputs, NEW j \in DOMAIN toks
  PROVE  /\ Returned(0, j) = parseAssign(ParseLevel, j)
         /\ \A n \in 1 .. 6 : Returned(n, j) = parseBinary(ParseLevel, n, j)
         /\ Returned(7, j) = parseUnary(ParseLevel, j)
         /\ Returned(8, j) = parsePostfix(ParseLevel, j)
         /\ \A n \in 0 .. 8 : /\ Taken(n, j) = parseItems(ParseLevel, n, j)
                              /\ Reaches(Taken(n, j), j)
                              /\ Reaches(Returned(n, j), j+1)
<1>1. ASSUME NEW n \in 0 .. 8
      PROVE  /\ Returned(n, j) = parseLevel(ParseLevel, <<n, FALSE, j>>)
             /\ Taken(n, j) = parseItems(ParseLevel, n, j)
             /\ Reaches(Taken(n, j), j)
             /\ Reaches(Returned(n, j), j+1)
  <2> DEFINE c == <<n, FALSE, j>>
             d == <<n, TRUE, j>>
  <2>1. c \in Calls /\ d \in Calls /\ c[2] = FALSE /\ c[3] = j /\ d[1] = n /\ d[2] = TRUE /\ d[3] = j
    BY DEF Calls
  <2>2. Returned(n, j) = ParseLevel[c] /\ Taken(n, j) = ParseLevel[d]
    BY DEF Returned, Taken, Level
  <2>3. parseLevel(ParseLevel, d) = parseItems(ParseLevel, n, j)
    <3> HIDE DEF d
    <3> QED
      BY <2>1 DEF parseLevel
  <2> HIDE DEF d
  <2>4. Taken(n, j) = parseItems(ParseLevel, n, j) /\ Reaches(Taken(n, j), j)
    BY <2>1, <2>2, <2>3, LevelCalls
  <2>5. ParseLevel[c] = parseLevel(ParseLevel, c) /\ Reaches(ParseLevel[c], j+1)
    <3> HIDE DEF c
    <3> QED
      BY <2>1, LevelCalls
  <2> QED
    BY <2>2, <2>4, <2>5
<1>2. \A n : LET c == <<n, FALSE, j>> IN c[1] = n /\ c[2] = FALSE /\ c[3] = j
  OBVIOUS
<1>3. parseLevel(ParseLevel, <<0, FALSE, j>>) = parseAssign(ParseLevel, j)
  BY <1>2 DEF parseLevel
<1>4. \A n \in 1 .. 6 : parseLevel(ParseLevel, <<n, FALSE, j>>) = parseBinary(ParseLevel, n, j)
  <2> TAKE n \in 1 .. 6
  <2> DEFINE c == <<n, FALSE, j>>
  <2>1. c[1] = n /\ c[2] = FALSE /\ c[3] = j /\ n # 0
    OBVIOUS
  <2> HIDE DEF c
  <2>2. parseLevel(ParseLevel, c) = parseBinary(ParseLevel, n, j)
    BY <2>1 DEF parseLevel
  <2> QED
    BY <2>2 DEF c
<1>5. parseLevel(ParseLevel, <<7, FALSE, j>>) = parseUnary(ParseLevel, j)
  BY <1>2 DEF parseLevel
<1>6. parseLevel(ParseLevel, <<8, FALSE, j>>) = parsePostfix(ParseLevel, j)
  BY <1>2 DEF parseLevel
<1>7. 0 \in 0 .. 8 /\ 7 \in 0 .. 8 /\ 8 \in 0 .. 8 /\ \A n \in 1 .. 6 : n \in 0 .. 8
  OBVIOUS
<1> QED
  BY <1>1, <1>3, <1>4, <1>5, <1>6, <1>7

(* what holds of a token if it holds of all behind it, or of all before it *)
LEMMA Backwards ==
  ASSUME toks \in Inputs, NEW S,
         \A j \in DOMAIN toks : (\A m \in DOMAIN toks : m > j => m \in S) => j \in S
  PROVE  \A j \in DOMAIN toks : j \in S
<1> DEFINE R == {k \in Nat : \A j \in DOMAIN toks : Len(toks) - j = k => j \in S}
<1>1. Len(toks) \in Nat /\ DOMAIN toks = 1 .. Len(toks)
  BY Positions
<1>2. ASSUME NEW k \in Nat, \A l \in Nat : l < k => l \in R
      PROVE  k \in R
  <2> SUFFICES ASSUME NEW j \in DOMAIN toks, Len(toks) - j = k PROVE j \in S
    OBVIOUS
  <2>1. ASSUME NEW m \in DOMAIN toks, m > j PROVE m \in S
    <3>1. Len(toks) - m \in Nat /\ Len(toks) - m < k
      BY <1>1, <2>1
    <3> QED
      BY <1>2, <3>1
  <2> QED
    BY <2>1
<1>3. R = Nat
  <2>1. R \in SUBSET Nat
    OBVIOUS
  <2> HIDE DEF R
  <2> QED
    BY <1>2, <2>1, Flat!Induction
<1>4. \A j \in DOMAIN toks : Len(toks) - j \in Nat
  BY <1>1
<1> QED
  BY <1>3, <1>4

(* and the other way round *)
LEMMA Forwards ==
  ASSUME toks \in Inputs, NEW S,
         \A j \in DOMAIN toks : (\A m \in DOMAIN toks : m < j => m \in S) => j \in S
  PROVE  \A j \in DOMAIN toks : j \in S
<1> DEFINE R == {k \in Nat : k \in DOMAIN toks => k \in S}
<1>1. DOMAIN toks \subseteq Nat
  BY Positions
<1>2. ASSUME NEW k \in Nat, \A l \in Nat : l < k => l \in R
      PROVE  k \in R
  BY <1>1, <1>2
<1>3. R = Nat
  <2>1. R \in SUBSET Nat
    OBVIOUS
  <2> HIDE DEF R
  <2> QED
    BY <1>2, <2>1, Flat!Induction
<1> QED
  BY <1>1, <1>3

(* what a loop takes from k on, if it takes anything *)
LEMMA TakenMore ==
  ASSUME toks \in Inputs, NEW n \in 0 .. 8, NEW k \in DOMAIN toks
  PROVE  /\ Tok(k) \notin Begins(n) => Taken(n, k) = Result(<< >>, k)
         /\ Tok(k) \in Begins(n) /\ ItemAt(n, k).ok =>
              Taken(n, k) = With(Taken(n, ItemAt(n, k).i),
                                 <<[op |-> Tok(k), e |-> ItemAt(n, k).e]>> \o Taken(n, ItemAt(n, k).i).e)
         /\ Tok(k) \in Begins(n) /\ ~ItemAt(n, k).ok => ~Taken(n, k).ok
<1> DEFINE item == ItemAt(n, k)
           rest == Loop(ParseLevel, n, item)
<1>1. Taken(n, k) = IF Tok(k) \notin Begins(n) THEN Result(<< >>, k)
                    ELSE With(rest, <<[op |-> Tok(k), e |-> item.e]>> \o rest.e)
  BY ExprCalls DEF parseItems, ItemAt
<1>2. item.ok => rest = Taken(n, item.i)
  BY DEF Loop, Taken
<1>3. ~item.ok => ~rest.ok
  BY DEF Loop, Failed
<1> HIDE DEF item, rest
<1>4. CASE Tok(k) \notin Begins(n)
  BY <1>1, <1>4
<1>5. CASE Tok(k) \in Begins(n) /\ item.ok
  BY <1>1, <1>2, <1>5 DEF item
<1>6. CASE Tok(k) \in Begins(n) /\ ~item.ok
  <2>1. ~Taken(n, k).ok
    BY <1>1, <1>3, <1>6 DEF With, Failed
  <2> QED
    BY <1>6, <2>1 DEF item
<1> QED
  BY <1>4, <1>5, <1>6 DEF item

Looping == (0 .. 6) \cup {8}

LEMMA Loopings ==
  /\ \A n \in Looping : n \in 0 .. 8 /\ (n = 0 \/ n \in 1 .. 6 \/ n = 8)
  /\ \A n \in 1 .. 6 : n \in Looping /\ n+1 \in 0 .. 8 /\ n # 0 /\ n # 8 /\ n \in 0 .. 8
  /\ 0 \in Looping /\ 8 \in Looping /\ 0 \in 0 .. 8 /\ 8 \in 0 .. 8 /\ 0 \notin 1 .. 6 /\ 8 \notin 1 .. 6
  /\ 7 \in 0 .. 8
  BY DEF Looping

LEMMA BeginsWith ==
  Begins(0) = {","} /\ Begins(8) = {"["} /\ \A n \in 1 .. 6 : Begins(n) = Levels[n]
<1>1. Begins(0) = {","}
  BY DEF Begins
<1>2. Begins(8) = {"["}
  BY DEF Begins
<1>3. \A n \in 1 .. 6 : Begins(n) = Levels[n]
  BY DEF Begins, Ops
<1> QED
  BY <1>1, <1>2, <1>3, Zenon

(* where operators, subscripts and further elements begin *)
LEMMA BeginsAt ==
  ASSUME toks \in Inputs, NEW n \in Looping, NEW k, Tok(k) \in Begins(n)
  PROVE  k \in DOMAIN toks /\ k+1 \in DOMAIN toks
<1>1. \A l \in 1 .. 6 : Levels[l] \cap {"eof", "none"} = {}
  <2>1. \A l \in 1 .. 6 : l = 1 \/ l = 2 \/ l = 3 \/ l = 4 \/ l = 5 \/ l = 6
    OBVIOUS
  <2> QED
    BY <2>1 DEF Levels
<1>2. Tok(k) \notin {"eof", "none"}
  <2>1. CASE n = 0
    <3>1. Begins(n) = {","}
      BY <2>1, BeginsWith, Zenon
    <3>2. "," \notin {"eof", "none"}
      BY Zenon
    <3> QED
      BY <3>1, <3>2
  <2>2. CASE n = 8
    <3>1. Begins(n) = {"["}
      BY <2>2, BeginsWith, Zenon
    <3> QED
      BY <3>1
  <2>3. CASE n \in 1 .. 6
    <3>1. Begins(n) = Levels[n]
      BY <2>3, BeginsWith, Zenon
    <3> QED
      BY <1>1, <2>3, <3>1
  <2> QED
    BY <2>1, <2>2, <2>3, Loopings
<1> QED
  BY <1>2, Positions

(* an item takes its operator and a token at least *)
LEMMA ItemReaches ==
  ASSUME toks \in Inputs, NEW n \in Looping, NEW k \in DOMAIN toks, Tok(k) \in Begins(n), ItemAt(n, k).ok
  PROVE  /\ k \in Nat /\ k+1 \in DOMAIN toks
         /\ ItemAt(n, k).i \in DOMAIN toks /\ ItemAt(n, k).i \in Nat /\ ItemAt(n, k).i >= k+2
<1>1. k \in Nat /\ k+1 \in DOMAIN toks /\ k+1 \in Nat /\ (k+1)+1 = k+2 /\ k+2 \in Nat /\ DOMAIN toks \subseteq Nat
  BY BeginsAt, Positions
<1>2. \A l \in 0 .. 8 : Reaches(Returned(l, k+1), k+2)
  BY <1>1, ExprCalls
<1>3. Reaches(ItemAt(n, k), k+2)
  <2>1. CASE n = 0
    BY <1>2, <2>1, Loopings DEF ItemAt, parseItem, Returned
  <2>2. CASE n = 8
    <3>1. Reaches(Expect(Returned(0, k+1), "]"), k+2)
      BY <1>1, <1>2, Loopings, Reach
    <3>2. ItemAt(n, k) = Expect(Returned(0, k+1), "]")
      BY <2>2 DEF ItemAt, parseItem, Returned
    <3> QED
      BY <3>1, <3>2
  <2>3. CASE n \in 1 .. 6
    <3>1. ItemAt(n, k) = Returned(n+1, k+1)
      BY <2>3, Loopings DEF ItemAt, parseItem, Returned
    <3> QED
      BY <1>2, <2>3, <3>1, Loopings
  <2> QED
    BY <2>1, <2>2, <2>3, Loopings
<1> QED
  BY <1>1, <1>3 DEF Reaches

(* what a loop takes is a list of items *)
LEMMA TakenAreSeqs ==
  ASSUME toks \in Inputs, NEW n \in Looping
  PROVE  \A k \in DOMAIN toks : Taken(n, k).ok => IsSeq(Taken(n, k).e)
<1> DEFINE S == {k \in DOMAIN toks : Taken(n, k).ok => IsSeq(Taken(n, k).e)}
<1>0. n \in 0 .. 8
  BY Loopings
<1>1. ASSUME NEW k \in DOMAIN toks, \A m \in DOMAIN toks : m > k => m \in S
      PROVE  k \in S
  <2> SUFFICES ASSUME Taken(n, k).ok PROVE IsSeq(Taken(n, k).e)
    OBVIOUS
  <2>1. CASE Tok(k) \notin Begins(n)
    <3> DEFINE none == << >>
    <3>1. Taken(n, k) = Result(none, k)
      BY <1>0, <2>1, TakenMore
    <3>2. IsSeq(none)
      BY EmptyStack
    <3> HIDE DEF none
    <3> QED
      BY <3>1, <3>2 DEF Result
  <2>2. CASE Tok(k) \in Begins(n)
    <3> DEFINE item == ItemAt(n, k)
               rest == Taken(n, item.i)
               one == [op |-> Tok(k), e |-> item.e]
    <3>1. item.ok
      BY <1>0, <2>2, TakenMore
    <3>2. Taken(n, k) = With(rest, <<one>> \o rest.e)
      BY <1>0, <2>2, <3>1, TakenMore
    <3>3. item.i \in DOMAIN toks /\ item.i > k
      BY <2>2, <3>1, ItemReaches
    <3> HIDE DEF one
    <3>4. rest.ok /\ Taken(n, k).e = <<one>> \o rest.e
      <4> HIDE DEF rest
      <4> QED
        BY <3>2 DEF With, Result, Failed
    <3>5. IsSeq(rest.e)
      BY <1>1, <3>3, <3>4
    <3> HIDE DEF rest
    <3> QED
      BY <3>4, <3>5, FirstOf
  <2> QED
    BY <2>1, <2>2
<1>2. \A k \in DOMAIN toks : k \in S
  <2> HIDE DEF S
  <2> QED
    BY <1>1, Backwards
<1> QED
  BY <1>2

-----------------------------------------------------------------------------
(* Where an expression can end.                                            *)

(* the tokens that continue an expression of level n *)
Continues(n) ==
  {"(", "["} \cup (UNION {Levels[l] : l \in {m \in 1 .. 6 : m >= n}})
             \cup (IF n = 0 THEN {"="} \cup Compound ELSE {})

(* the operators of a level, and what comes with each *)
LEMMA LevelKinds ==
  /\ \A l, m \in 1 .. 6 : l # m => Levels[l] \cap Levels[m] = {}
  /\ \A l \in 1 .. 6 : Levels[l] \cap ({"(", "[", "="} \cup Compound \cup {")", "]", ",", ";", "}", "{"}) = {}
<1>1. /\ Levels[1] = {"||"} /\ Levels[2] = {"&&"} /\ Levels[3] = {"==", "!="}
      /\ Levels[4] = {"<", "<=", ">", ">="} /\ Levels[5] = {"+", "-"} /\ Levels[6] = {"*", "/", "%"}
  BY DEF Levels
<1>2. \A l \in 1 .. 6 : l = 1 \/ l = 2 \/ l = 3 \/ l = 4 \/ l = 5 \/ l = 6
  OBVIOUS
<1>3. \A k, l, m : l \in 1 .. 6 /\ m \in 1 .. 6 /\ k \in Levels[l] /\ k \in Levels[m] => l = m
  BY <1>1, <1>2
<1>4. \A l \in 1 .. 6 : \A k \in Levels[l] :
        k \notin {"(", "[", "="} \cup Compound \cup {")", "]", ",", ";", "}", "{"}
  BY <1>1, <1>2 DEF Compound
<1> QED
  BY <1>3, <1>4

LEMMA InContinues ==
  ASSUME NEW n, NEW k
  PROVE  k \in Continues(n) <=> \/ k \in {"(", "["}
                                \/ \E l \in 1 .. 6 : l >= n /\ k \in Levels[l]
                                \/ n = 0 /\ k \in {"="} \cup Compound
  BY DEF Continues

(* a looser level can be continued by what a tighter one can, and its own operators *)
LEMMA ContinueLevel ==
  ASSUME NEW n \in 1 .. 6
  PROVE  Continues(n) = Continues(n+1) \cup Levels[n] /\ Continues(n+1) \cap Levels[n] = {}
<1>1. n # 0 /\ n+1 # 0 /\ \A l \in 1 .. 6 : l >= n <=> (l >= n+1 \/ l = n)
  OBVIOUS
<1>2. \A k : k \in Continues(n) <=> k \in Continues(n+1) \/ k \in Levels[n]
  <2> TAKE k
  <2>1. k \in Continues(n) <=> k \in {"(", "["} \/ \E l \in 1 .. 6 : l >= n /\ k \in Levels[l]
    BY InContinues, <1>1
  <2>2. k \in Continues(n+1) <=> k \in {"(", "["} \/ \E l \in 1 .. 6 : l >= n+1 /\ k \in Levels[l]
    BY InContinues, <1>1
  <2>3. (\E l \in 1 .. 6 : l >= n /\ k \in Levels[l])
          <=> (\E l \in 1 .. 6 : l >= n+1 /\ k \in Levels[l]) \/ k \in Levels[n]
    BY <1>1
  <2> QED
    BY <2>1, <2>2, <2>3
<1>3. \A k \in Levels[n] : k \notin Continues(n+1)
  <2> TAKE k \in Levels[n]
  <2>1. k \in Continues(n+1) <=> k \in {"(", "["} \/ \E l \in 1 .. 6 : l >= n+1 /\ k \in Levels[l]
    BY InContinues, <1>1
  <2>2. k \notin {"(", "["}
    BY LevelKinds
  <2>3. \A l \in 1 .. 6 : k \in Levels[l] => l = n
    BY LevelKinds
  <2>4. ~(n >= n+1)
    OBVIOUS
  <2> QED
    BY <2>1, <2>2, <2>3, <2>4
<1> QED
  BY <1>2, <1>3

LEMMA ContinueAssign ==
  /\ Continues(0) = Continues(1) \cup ({"="} \cup Compound)
  /\ Continues(1) \cap ({"="} \cup Compound) = {}
<1>1. Continues(0) = Continues(1) \cup ({"="} \cup Compound)
  <2>1. \A l \in 1 .. 6 : l >= 0 /\ l >= 1
    OBVIOUS
  <2>2. \A k : k \in Continues(0) <=> k \in Continues(1) \/ k \in {"="} \cup Compound
    BY InContinues, <2>1
  <2> QED
    BY <2>2
<1>2. Continues(1) \cap ({"="} \cup Compound) = {}
  <2>1. {"(", "["} \cap ({"="} \cup Compound) = {}
    BY DEF Compound
  <2>2. \A k \in {"="} \cup Compound : \A l \in 1 .. 6 : k \notin Levels[l]
    BY LevelKinds
  <2>3. \A k \in {"="} \cup Compound : k \notin Continues(1)
    <3> TAKE k \in {"="} \cup Compound
    <3>1. k \in Continues(1) <=> k \in {"(", "["} \/ \E l \in 1 .. 6 : l >= 1 /\ k \in Levels[l]
      BY InContinues
    <3> QED
      BY <2>1, <2>2, <3>1
  <2> QED
    BY <2>3
<1> QED
  BY <1>1, <1>2, Zenon

LEMMA ContinueHigh ==
  ASSUME NEW n \in {7, 8}
  PROVE  Continues(n) = {"(", "["}
<1>1. n # 0 /\ \A l \in 1 .. 6 : ~(l >= n)
  OBVIOUS
<1>2. \A k : k \in Continues(n) <=> k \in {"(", "["}
  BY <1>1, InContinues
<1> QED
  BY <1>2

(* what stands behind an expression where one is complete *)
LEMMA Ended ==
  Continues(0) \cap {")", "]", ",", ";", "}", "{"} = {}
<1>1. ({"(", "[", "="} \cup Compound) \cap {")", "]", ",", ";", "}", "{"} = {}
  BY DEF Compound
<1>2. \A k \in {")", "]", ",", ";", "}", "{"} : k \notin Continues(0)
  BY LevelKinds, <1>1, InContinues
<1> QED
  BY <1>2

-----------------------------------------------------------------------------
(* What the loops of the parser recognise: a head and links to it.         *)

Chain(n, j, m) == IF n = 0 THEN Ex(9, j, m) ELSE Ex(n, j, m)
HeadForm(n, x, j, m) ==
  CASE n = 0 -> \E e \in Ex(0, j, m) : x = <<e>>
    [] n = 8 -> PrimaryForm(ExprsIn(toks), x, j, m)
    [] OTHER -> x \in Ex(n+1, j, m)
LinkOf(n, k, m) ==
  CASE n = 0 -> Ex(0, k+1, m)
    [] n = 8 -> IF Tok(m-1) = "]" THEN Ex(0, k+1, m-1) ELSE {}
    [] OTHER -> Ex(n+1, k+1, m)
Linked(n, x, j, m, k) ==
  \E y \in Chain(n, j, k), e \in LinkOf(n, k, m) :
     Tok(k) \in Begins(n) /\ x = Grow(n, y, [op |-> Tok(k), e |-> e])

(* the tokens that continue the head or a link *)
Stops(n) == CASE n = 0 -> Continues(0) [] n = 8 -> {"("} [] OTHER -> Continues(n+1)

(* a chain is a head, or a chain and one more link at its end *)
LEMMA ChainForm ==
  ASSUME toks \in Inputs, NEW n \in Looping, NEW j \in DOMAIN toks, NEW m \in DOMAIN toks, j # m, NEW x
  PROVE  x \in Chain(n, j, m) <=> HeadForm(n, x, j, m) \/ \E k \in j+1 .. m-2 : Linked(n, x, j, m, k)
<1>1. CASE n = 0
  <2>1. x \in Chain(n, j, m) <=> ListForm(ExprsIn(toks), x, j, m)
    BY <1>1, ExprForms DEF Chain
  <2>2. HeadForm(n, x, j, m) <=> \E e \in Ex(0, j, m) : x = <<e>>
    BY <1>1 DEF HeadForm
  <2>3. \A k : LinkOf(n, k, m) = Ex(0, k+1, m) /\ Chain(n, j, k) = Ex(9, j, k)
    BY <1>1 DEF LinkOf, Chain
  <2>4. \A y, o, e : Grow(n, y, [op |-> o, e |-> e]) = Append(y, e)
    BY <1>1 DEF Grow
  <2>5. Begins(n) = {","}
    BY <1>1, BeginsWith, Zenon
  <2>6. ASSUME NEW k
        PROVE  Linked(n, x, j, m, k) <=> \E y \in Ex(9, j, k), e \in Ex(0, k+1, m) : Tok(k) = "," /\ x = Append(y, e)
    <3>1. Linked(n, x, j, m, k) <=> \E y \in Ex(9, j, k), e \in Ex(0, k+1, m) :
                                      Tok(k) \in Begins(n) /\ x = Append(y, e)
      BY <2>3, <2>4, Zenon DEF Linked
    <3>2. Tok(k) \in Begins(n) <=> Tok(k) = ","
      BY <2>5, Zenon
    <3> QED
      BY <3>1, <3>2, Zenon
  <2>7. ListForm(ExprsIn(toks), x, j, m) <=>
          \/ \E e \in Ex(0, j, m) : x = <<e>>
          \/ \E k \in j+1 .. m-2 : \E y \in Ex(9, j, k), e \in Ex(0, k+1, m) : Tok(k) = "," /\ x = Append(y, e)
    BY Zenon DEF ListForm, Ex
  <2> QED
    BY <2>1, <2>2, <2>6, <2>7, Zenon
<1>2. CASE n = 8
  <2>1. x \in Chain(n, j, m) <=> PostfixForm(ExprsIn(toks), x, j, m)
    BY <1>2, ExprForms DEF Chain
  <2>2. HeadForm(n, x, j, m) <=> PrimaryForm(ExprsIn(toks), x, j, m)
    BY <1>2 DEF HeadForm
  <2>3. \A k : /\ LinkOf(n, k, m) = (IF Tok(m-1) = "]" THEN Ex(0, k+1, m-1) ELSE {})
               /\ Chain(n, j, k) = Ex(8, j, k)
    BY <1>2 DEF LinkOf, Chain
  <2>4. \A y, o, e : Grow(n, y, [op |-> o, e |-> e]) = Index(y, e)
    BY <1>2 DEF Grow
  <2>5. Begins(n) = {"["}
    BY <1>2, BeginsWith, Zenon
  <2>6. ASSUME NEW k
        PROVE  Linked(n, x, j, m, k) <=> \E y \in Ex(8, j, k), e \in Ex(0, k+1, m-1) :
                                            Tok(k) = "[" /\ Tok(m-1) = "]" /\ x = Index(y, e)
    <3>1. Linked(n, x, j, m, k) <=> \E y \in Ex(8, j, k), e \in LinkOf(n, k, m) :
                                      Tok(k) \in Begins(n) /\ x = Index(y, e)
      BY <2>3, <2>4, Zenon DEF Linked
    <3>2. \A e : e \in LinkOf(n, k, m) <=> Tok(m-1) = "]" /\ e \in Ex(0, k+1, m-1)
      BY <2>3
    <3>3. Tok(k) \in Begins(n) <=> Tok(k) = "["
      BY <2>5
    <3> QED
      BY <3>1, <3>2, <3>3, Zenon
  <2>7. PostfixForm(ExprsIn(toks), x, j, m) <=>
          \/ PrimaryForm(ExprsIn(toks), x, j, m)
          \/ \E k \in j+1 .. m-2 : \E y \in Ex(8, j, k), e \in Ex(0, k+1, m-1) :
                Tok(k) = "[" /\ Tok(m-1) = "]" /\ x = Index(y, e)
    BY Zenon DEF PostfixForm, Ex
  <2> QED
    BY <2>1, <2>2, <2>6, <2>7, Zenon
<1>3. CASE n \in 1 .. 6
  <2>0. n # 0 /\ n # 8
    BY <1>3
  <2>1. x \in Chain(n, j, m) <=> BinaryForm(ExprsIn(toks), n, x, j, m)
    BY <1>3, <2>0, ExprForms DEF Chain
  <2>2. HeadForm(n, x, j, m) <=> x \in Ex(n+1, j, m)
    BY <2>0 DEF HeadForm
  <2>3. \A k : LinkOf(n, k, m) = Ex(n+1, k+1, m) /\ Chain(n, j, k) = Ex(n, j, k)
    BY <2>0 DEF LinkOf, Chain
  <2>4. \A y, o, e : Grow(n, y, [op |-> o, e |-> e]) = Bin(y, o, e)
    BY <2>0 DEF Grow
  <2>5. Begins(n) = Levels[n]
    BY <1>3, BeginsWith, Zenon
  <2>6. ASSUME NEW k
        PROVE  Linked(n, x, j, m, k) <=> \E y \in Ex(n, j, k), e \in Ex(n+1, k+1, m) :
                                            Tok(k) \in Levels[n] /\ x = Bin(y, Tok(k), e)
    BY <2>3, <2>4, <2>5, Zenon DEF Linked
  <2>7. BinaryForm(ExprsIn(toks), n, x, j, m) <=>
          \/ x \in Ex(n+1, j, m)
          \/ \E k \in j+1 .. m-2 : \E y \in Ex(n, j, k), e \in Ex(n+1, k+1, m) :
                Tok(k) \in Levels[n] /\ x = Bin(y, Tok(k), e)
    BY Zenon DEF BinaryForm, Ex
  <2> QED
    BY <2>1, <2>2, <2>6, <2>7, Zenon
<1> QED
  BY <1>1, <1>2, <1>3, Loopings

LEMMA BeginsNoStop ==
  ASSUME NEW n \in Looping
  PROVE  Begins(n) \cap Stops(n) = {}
<1>1. CASE n = 0
  <2>1. Begins(n) = {","} /\ Stops(n) = Continues(0)
    <3>1. Stops(n) = Continues(0)
      BY <1>1 DEF Stops
    <3> QED
      BY <1>1, <3>1, BeginsWith, Zenon
  <2>2. "," \notin Continues(0)
    BY Ended, Zenon
  <2> QED
    BY <2>1, <2>2, Zenon
<1>2. CASE n = 8
  <2>1. Stops(n) = {"("}
    BY <1>2 DEF Stops
  <2>2. Begins(n) = {"["}
    BY <1>2, BeginsWith, Zenon
  <2> QED
    BY <2>1, <2>2
<1>3. CASE n \in 1 .. 6
  <2>1. n # 0 /\ n # 8
    BY <1>3
  <2>2. Stops(n) = Continues(n+1)
    BY <2>1 DEF Stops
  <2>3. Begins(n) = Levels[n]
    BY <1>3, BeginsWith, Zenon
  <2> QED
    BY <1>3, <2>2, <2>3, ContinueLevel
<1> QED
  BY <1>1, <1>2, <1>3, Loopings

-----------------------------------------------------------------------------
(* A loop behind a head: r is the result for the head.                     *)

LinksGiven(n, j) ==
  \A k \in DOMAIN toks : k > j /\ Tok(k) \in Begins(n) /\ ItemAt(n, k).ok =>
     ItemAt(n, k).e \in LinkOf(n, k, ItemAt(n, k).i)
LinksTaken(n, j) ==
  \A k, m \in DOMAIN toks : \A e \in LinkOf(n, k, m) :
     k > j /\ m > k + 1 /\ Tok(k) \in Begins(n) /\ Tok(m) \notin Stops(n) => ItemAt(n, k) = Result(e, m)
HeadGiven(n, j, r) ==
  r.ok => r.i \in DOMAIN toks /\ r.i > j /\ HeadForm(n, r.e, j, r.i)
HeadTaken(n, j, r) ==
  \A m \in DOMAIN toks : \A x : m > j /\ HeadForm(n, x, j, m) /\ Tok(m) \notin Stops(n) => r = Result(x, m)

(* what is made of the head and what the loop takes *)
Run(n, r) == LET more == Loop(ParseLevel, n, r) IN With(more, Grown(n, r.e, more.e))

(* every item the loop takes makes a longer chain of a chain *)
LEMMA ChainGrows ==
  ASSUME toks \in Inputs, NEW n \in Looping, NEW j \in DOMAIN toks, LinksGiven(n, j)
  PROVE  \A k \in DOMAIN toks : k > j => \A x \in Chain(n, j, k) :
            Taken(n, k).ok => Grown(n, x, Taken(n, k).e) \in Chain(n, j, Taken(n, k).i)
<1> DEFINE S == {k \in DOMAIN toks : k > j => \A x \in Chain(n, j, k) :
                    Taken(n, k).ok => Grown(n, x, Taken(n, k).e) \in Chain(n, j, Taken(n, k).i)}
<1>0. n \in 0 .. 8
  BY Loopings
<1>1. ASSUME NEW k \in DOMAIN toks, \A m \in DOMAIN toks : m > k => m \in S
      PROVE  k \in S
  <2> SUFFICES ASSUME k > j, NEW x \in Chain(n, j, k), Taken(n, k).ok
               PROVE  Grown(n, x, Taken(n, k).e) \in Chain(n, j, Taken(n, k).i)
    OBVIOUS
  <2>1. CASE Tok(k) \notin Begins(n)
    <3>1. Taken(n, k) = Result(<< >>, k)
      BY <1>0, <2>1, TakenMore
    <3>2. Taken(n, k).e = << >> /\ Taken(n, k).i = k
      BY <3>1 DEF Result
    <3> QED
      BY <3>2, GrowNothing
  <2>2. CASE Tok(k) \in Begins(n)
    <3> DEFINE item == ItemAt(n, k)
               rest == Taken(n, item.i)
               one == [op |-> Tok(k), e |-> item.e]
    <3>1. item.ok
      BY <1>0, <2>2, TakenMore
    <3>2. Taken(n, k) = With(rest, <<one>> \o rest.e)
      BY <1>0, <2>2, <3>1, TakenMore
    <3>3. item.i \in DOMAIN toks /\ item.i > k /\ item.i > j /\ k \in j+1 .. item.i - 2
      <4>1. k \in Nat /\ item.i \in Nat /\ item.i \in DOMAIN toks /\ item.i >= k+2
        BY <2>2, <3>1, ItemReaches
      <4>2. j \in Nat
        BY Positions
      <4> HIDE DEF item
      <4> QED
        BY <4>1, <4>2
    <3>4. item.e \in LinkOf(n, k, item.i)
      BY <2>2, <3>1 DEF LinksGiven
    <3>5. Grow(n, x, one) \in Chain(n, j, item.i)
      <4>1. Linked(n, Grow(n, x, one), j, item.i, k)
        <5> DEFINE g == Grow(n, x, one)
                   p == item.i
                   e0 == item.e
        <5>1. g = Grow(n, x, [op |-> Tok(k), e |-> e0]) /\ e0 \in LinkOf(n, k, p)
          BY <3>4
        <5> HIDE DEF g, p, e0
        <5>2. Linked(n, g, j, p, k)
          BY <2>2, <5>1 DEF Linked
        <5> QED
          BY <5>2 DEF g, p
      <4>2. j # item.i
        <5> HIDE DEF item
        <5> QED
          BY <3>3, Positions
      <4> HIDE DEF item, one
      <4> QED
        BY <3>3, <4>1, <4>2, ChainForm
    <3> HIDE DEF one
    <3>6. rest.ok /\ Taken(n, k).e = <<one>> \o rest.e /\ Taken(n, k).i = rest.i
      <4> HIDE DEF rest
      <4> QED
        BY <3>2 DEF With, Result, Failed
    <3>7. IsSeq(rest.e)
      BY <3>3, <3>6, TakenAreSeqs
    <3>8. item.i \in S
      <4> HIDE DEF item, S
      <4> QED
        BY <1>1, <3>3
    <3>9. Grown(n, Grow(n, x, one), rest.e) \in Chain(n, j, rest.i)
      BY <3>3, <3>5, <3>6, <3>8
    <3>10. Grown(n, x, <<one>> \o rest.e) = Grown(n, Grow(n, x, one), rest.e)
      <4> HIDE DEF rest
      <4> QED
        BY <3>7, GrowMore
    <3> HIDE DEF rest
    <3> QED
      BY <3>6, <3>9, <3>10
  <2> QED
    BY <2>1, <2>2
<1>2. \A k \in DOMAIN toks : k \in S
  <2> HIDE DEF S
  <2> QED
    BY <1>1, Backwards
<1> QED
  BY <1>2

(* and from the end of every chain of the grammar the loop goes on as it did from the head *)
LEMMA ChainPasses ==
  ASSUME toks \in Inputs, NEW n \in Looping, NEW j \in DOMAIN toks, NEW r, HeadTaken(n, j, r), LinksTaken(n, j)
  PROVE  \A m \in DOMAIN toks : m > j => \A x \in Chain(n, j, m) :
            Tok(m) \notin Stops(n) => Run(n, r) = With(Taken(n, m), Grown(n, x, Taken(n, m).e))
<1> DEFINE S == {m \in DOMAIN toks : m > j => \A x \in Chain(n, j, m) :
                    Tok(m) \notin Stops(n) => Run(n, r) = With(Taken(n, m), Grown(n, x, Taken(n, m).e))}
<1>0. n \in 0 .. 8 /\ DOMAIN toks \subseteq Nat
  BY Loopings, Positions
<1>1. ASSUME NEW m \in DOMAIN toks, \A k \in DOMAIN toks : k < m => k \in S
      PROVE  m \in S
  <2> SUFFICES ASSUME m > j, NEW x \in Chain(n, j, m), Tok(m) \notin Stops(n)
               PROVE  Run(n, r) = With(Taken(n, m), Grown(n, x, Taken(n, m).e))
    OBVIOUS
  <2>1. HeadForm(n, x, j, m) \/ \E k \in j+1 .. m-2 : Linked(n, x, j, m, k)
    <3>1. j # m
      BY <1>0
    <3> QED
      BY <3>1, ChainForm
  <2>2. CASE HeadForm(n, x, j, m)
    <3>1. r = Result(x, m)
      BY <2>2 DEF HeadTaken
    <3>2. r.ok /\ r.e = x /\ r.i = m
      BY <3>1 DEF Result
    <3>3. Loop(ParseLevel, n, r) = Taken(n, m)
      BY <3>2 DEF Loop, Taken
    <3> QED
      BY <3>2, <3>3 DEF Run
  <2>3. ASSUME NEW k \in j+1 .. m-2, Linked(n, x, j, m, k)
        PROVE  Run(n, r) = With(Taken(n, m), Grown(n, x, Taken(n, m).e))
    <3>1. k \in DOMAIN toks /\ k > j /\ k < m /\ m > k + 1
      BY <1>0, Positions
    <3>2. PICK y \in Chain(n, j, k), e \in LinkOf(n, k, m) :
             Tok(k) \in Begins(n) /\ x = Grow(n, y, [op |-> Tok(k), e |-> e])
      BY <2>3 DEF Linked
    <3>3. Tok(k) \notin Stops(n)
      BY <3>2, BeginsNoStop
    <3>4. ItemAt(n, k) = Result(e, m)
      BY <3>1, <3>2 DEF LinksTaken
    <3>5. Run(n, r) = With(Taken(n, k), Grown(n, y, Taken(n, k).e))
      <4>1. k \in S
        BY <1>1, <3>1
      <4> QED
        BY <3>1, <3>2, <3>3, <4>1
    <3> DEFINE one == [op |-> Tok(k), e |-> e]
               rest == Taken(n, m)
    <3>6. Taken(n, k) = With(rest, <<one>> \o rest.e)
      <4>1. ItemAt(n, k).ok /\ ItemAt(n, k).e = e /\ ItemAt(n, k).i = m
        BY <3>4 DEF Result
      <4>2. Taken(n, k) = With(Taken(n, ItemAt(n, k).i),
                               <<[op |-> Tok(k), e |-> ItemAt(n, k).e]>> \o Taken(n, ItemAt(n, k).i).e)
        BY <1>0, <3>1, <3>2, <4>1, TakenMore
      <4> QED
        BY <4>1, <4>2
    <3>7. x = Grow(n, y, one)
      BY <3>2
    <3>8. CASE rest.ok
      <4>1. IsSeq(rest.e)
        BY <3>8, TakenAreSeqs
      <4> HIDE DEF one, rest
      <4>2. Grown(n, y, <<one>> \o rest.e) = Grown(n, x, rest.e)
        BY <3>7, <4>1, GrowMore
      <4>3. Taken(n, k).ok /\ Taken(n, k).e = <<one>> \o rest.e /\ Taken(n, k).i = rest.i
        BY <3>6, <3>8 DEF With, Result
      <4>4. Run(n, r) = Result(Grown(n, x, rest.e), rest.i)
        BY <3>5, <4>2, <4>3 DEF With
      <4>5. With(rest, Grown(n, x, rest.e)) = Result(Grown(n, x, rest.e), rest.i)
        BY <3>8 DEF With
      <4> QED
        BY <4>4, <4>5 DEF rest
    <3>9. CASE ~rest.ok
      <4> HIDE DEF one, rest
      <4>1. ~Taken(n, k).ok
        BY <3>6, <3>9 DEF With, Failed
      <4>2. Run(n, r) = Failed
        BY <3>5, <4>1 DEF With
      <4>3. With(rest, Grown(n, x, rest.e)) = Failed
        BY <3>9 DEF With
      <4> QED
        BY <4>2, <4>3 DEF rest
    <3> QED
      BY <3>8, <3>9
  <2> QED
    BY <2>1, <2>2, <2>3
<1>2. \A m \in DOMAIN toks : m \in S
  <2> HIDE DEF S
  <2> QED
    BY <1>1, Forwards
<1> QED
  BY <1>2

(* If the head and the links are decided, the chain is. *)
LEMMA ChainDecides ==
  ASSUME toks \in Inputs, NEW n \in Looping, NEW j \in DOMAIN toks, NEW r, HeadGiven(n, j, r), HeadTaken(n, j, r),
         LinksGiven(n, j), LinksTaken(n, j)
  PROVE  /\ Run(n, r).ok => Run(n, r).e \in Chain(n, j, Run(n, r).i)
         /\ Run(n, r).ok => Run(n, r).i \in DOMAIN toks /\ Run(n, r).i > j
         /\ \A m \in DOMAIN toks : \A x \in Chain(n, j, m) :
              m > j /\ Tok(m) \notin Stops(n) /\ Tok(m) \notin Begins(n) => Run(n, r) = Result(x, m)
<1>0. n \in 0 .. 8 /\ DOMAIN toks \subseteq Nat
  BY Loopings, Positions
<1> DEFINE more == Loop(ParseLevel, n, r)
<1>1. Run(n, r) = With(more, Grown(n, r.e, more.e))
  BY DEF Run
<1>2. ASSUME Run(n, r).ok
      PROVE  Run(n, r).e \in Chain(n, j, Run(n, r).i) /\ Run(n, r).i \in DOMAIN toks /\ Run(n, r).i > j
  <2>1. more.ok /\ Run(n, r).e = Grown(n, r.e, more.e) /\ Run(n, r).i = more.i
    <3> HIDE DEF more
    <3> QED
      BY <1>1, <1>2 DEF With, Result, Failed
  <2>2. r.ok /\ more = Taken(n, r.i)
    BY <2>1 DEF Loop, Taken, Failed
  <2>3. r.i \in DOMAIN toks /\ r.i > j /\ HeadForm(n, r.e, j, r.i)
    BY <2>2 DEF HeadGiven
  <2>4. r.e \in Chain(n, j, r.i)
    <3>1. j # r.i
      BY <1>0, <2>3
    <3> QED
      BY <2>3, <3>1, ChainForm
  <2>5. Reaches(more, r.i)
    BY <1>0, <2>2, <2>3, ExprCalls
  <2>6. more.i \in DOMAIN toks /\ more.i > j
    <3> HIDE DEF more
    <3> QED
      BY <1>0, <2>1, <2>3, <2>5 DEF Reaches
  <2>7. Grown(n, r.e, more.e) \in Chain(n, j, more.i)
    BY <2>1, <2>2, <2>3, <2>4, ChainGrows
  <2> HIDE DEF more
  <2> QED
    BY <2>1, <2>6, <2>7
<1>3. ASSUME NEW m \in DOMAIN toks, NEW x \in Chain(n, j, m),
             m > j, Tok(m) \notin Stops(n), Tok(m) \notin Begins(n)
      PROVE  Run(n, r) = Result(x, m)
  <2>1. Run(n, r) = With(Taken(n, m), Grown(n, x, Taken(n, m).e))
    BY <1>3, ChainPasses
  <2>2. Taken(n, m) = Result(<< >>, m)
    BY <1>0, <1>3, TakenMore
  <2>3. Taken(n, m).ok /\ Taken(n, m).e = << >> /\ Taken(n, m).i = m
    BY <2>2 DEF Result
  <2> QED
    BY <2>1, <2>3, GrowNothing DEF With
<1> QED
  BY <1>2, <1>3

-----------------------------------------------------------------------------
(* What the parser returns at j decides what there is at j.                *)

Decides(n, j) ==
  /\ Returned(n, j).ok => Returned(n, j).e \in Ex(n, j, Returned(n, j).i)
  /\ \A m \in DOMAIN toks : \A e \in Ex(n, j, m) : Tok(m) \notin Continues(n) => Returned(n, j) = Result(e, m)
DecidedBehind(j) == \A n \in 0 .. 8, m \in DOMAIN toks : m > j => Decides(n, m)

(* Expect, With, Result and From, for use without their definitions *)
LEMMA Expects ==
  ASSUME NEW r, NEW k
  PROVE  /\ Expect(r, k).ok => r.ok /\ Tok(r.i) = k /\ Expect(r, k).e = r.e /\ Expect(r, k).i = r.i + 1
         /\ r.ok /\ Tok(r.i) = k => Expect(r, k) = Result(r.e, r.i + 1)
         /\ ~(r.ok /\ Tok(r.i) = k) => Expect(r, k) = Failed /\ ~Expect(r, k).ok
  BY DEF Expect, Result, Failed

LEMMA Withs ==
  ASSUME NEW r, NEW e
  PROVE  /\ With(r, e).ok => r.ok /\ With(r, e).e = e /\ With(r, e).i = r.i
         /\ r.ok => With(r, e) = Result(e, r.i)
         /\ ~r.ok => With(r, e) = Failed /\ ~With(r, e).ok
  BY DEF With, Result, Failed

LEMMA Results ==
  ASSUME NEW e, NEW j
  PROVE  Result(e, j).ok /\ Result(e, j).e = e /\ Result(e, j).i = j /\ ~Failed.ok
  BY DEF Result, Failed

(* behind j everything is decided, so the links are *)
LEMMA LinksDecided ==
  ASSUME toks \in Inputs, NEW n \in Looping, NEW j \in DOMAIN toks, DecidedBehind(j)
  PROVE  LinksGiven(n, j) /\ LinksTaken(n, j)
<1>0. DOMAIN toks \subseteq Nat /\ \A k, m \in DOMAIN toks : m > k + 1 => m - 1 \in DOMAIN toks /\ (m-1)+1 = m
  BY Positions
<1>1. ASSUME NEW k \in DOMAIN toks, k > j, Tok(k) \in Begins(n)
      PROVE  k+1 \in DOMAIN toks /\ \A l \in 0 .. 8 : Decides(l, k+1)
  BY <1>0, <1>1, BeginsAt DEF DecidedBehind
<1>2. CASE n = 0
  <2>1. \A k, m : ItemAt(n, k) = Returned(0, k+1) /\ LinkOf(n, k, m) = Ex(0, k+1, m)
    BY <1>2 DEF ItemAt, parseItem, Returned, LinkOf
  <2>2. Stops(n) = Continues(0)
    BY <1>2 DEF Stops
  <2>3. \A k \in DOMAIN toks : k > j /\ Tok(k) \in Begins(n) => Decides(0, k+1)
    BY <1>1, Loopings
  <2> QED
    BY <2>1, <2>2, <2>3 DEF LinksGiven, LinksTaken, Decides
<1>3. CASE n = 8
  <2>1. \A k, m : /\ ItemAt(n, k) = Expect(Returned(0, k+1), "]")
                  /\ LinkOf(n, k, m) = (IF Tok(m-1) = "]" THEN Ex(0, k+1, m-1) ELSE {})
    BY <1>3 DEF ItemAt, parseItem, Returned, LinkOf
  <2>2. \A k \in DOMAIN toks : k > j /\ Tok(k) \in Begins(n) => Decides(0, k+1) /\ k+1 \in DOMAIN toks
    BY <1>1, Loopings
  <2>3. "]" \notin Continues(0)
    BY Ended, Zenon
  <2>4. LinksGiven(n, j)
    <3> SUFFICES ASSUME NEW k \in DOMAIN toks, k > j, Tok(k) \in Begins(n), ItemAt(n, k).ok
                 PROVE  ItemAt(n, k).e \in LinkOf(n, k, ItemAt(n, k).i)
      BY DEF LinksGiven
    <3> DEFINE r == Returned(0, k+1)
    <3>1. r.ok /\ Tok(r.i) = "]" /\ ItemAt(n, k).e = r.e /\ ItemAt(n, k).i = r.i + 1
      BY <2>1, Expects
    <3>2. r.e \in Ex(0, k+1, r.i)
      BY <2>2, <3>1 DEF Decides
    <3>3. r.i \in DOMAIN toks
      <4>1. Reaches(r, (k+1)+1)
        BY <2>2, ExprCalls, Loopings
      <4> QED
        BY <3>1, <4>1 DEF Reaches
    <3>4. (r.i + 1) - 1 = r.i
      <4> HIDE DEF r
      <4> QED
        BY <1>0, <3>3
    <3> HIDE DEF r
    <3> QED
      BY <2>1, <3>1, <3>2, <3>4
  <2>5. LinksTaken(n, j)
    <3> SUFFICES ASSUME NEW k \in DOMAIN toks, NEW m \in DOMAIN toks, NEW e \in LinkOf(n, k, m),
                        k > j, m > k + 1, Tok(k) \in Begins(n)
                 PROVE  ItemAt(n, k) = Result(e, m)
      BY DEF LinksTaken
    <3>1. Tok(m-1) = "]" /\ e \in Ex(0, k+1, m-1)
      BY <2>1
    <3>2. Returned(0, k+1) = Result(e, m-1)
      BY <1>0, <2>2, <2>3, <3>1 DEF Decides
    <3>3. Expect(Returned(0, k+1), "]") = Result(e, (m-1)+1)
      BY <3>1, <3>2, Expects, Results
    <3> QED
      BY <1>0, <2>1, <3>3
  <2> QED
    BY <2>4, <2>5
<1>4. CASE n \in 1 .. 6
  <2>0. n # 0 /\ n # 8 /\ n+1 \in 0 .. 8
    BY <1>4
  <2>1. \A k, m : ItemAt(n, k) = Returned(n+1, k+1) /\ LinkOf(n, k, m) = Ex(n+1, k+1, m)
    BY <2>0 DEF ItemAt, parseItem, Returned, LinkOf
  <2>2. Stops(n) = Continues(n+1)
    BY <2>0 DEF Stops
  <2>3. \A k \in DOMAIN toks : k > j /\ Tok(k) \in Begins(n) => Decides(n+1, k+1)
    BY <1>1, <2>0
  <2> QED
    BY <2>1, <2>2, <2>3 DEF LinksGiven, LinksTaken, Decides
<1> QED
  BY <1>2, <1>3, <1>4, Loopings

-----------------------------------------------------------------------------
(* Where no expression begins.                                             *)

Starters == {"ident", "[", "("} \cup LiteralKinds

(* no expression begins with another token than these *)
LEMMA RefusesPostfix ==
  ASSUME toks \in Inputs, NEW j \in DOMAIN toks, Tok(j) \notin Starters
  PROVE  ~Returned(8, j).ok
<1>1. parsePrimary(ParseLevel, j) = Failed
  BY DEF parsePrimary, Starters
<1>2. ~Loop(ParseLevel, 8, Failed).ok
  BY Results DEF Loop
<1>3. Returned(8, j) = parsePostfix(ParseLevel, j)
  BY ExprCalls
<1> QED
  BY <1>1, <1>2, <1>3, Withs DEF parsePostfix

LEMMA RefusesRun ==
  ASSUME NEW n, NEW r, ~r.ok
  PROVE  ~Run(n, r).ok
<1>1. ~Loop(ParseLevel, n, r).ok
  BY Results DEF Loop
<1> QED
  BY <1>1, Withs DEF Run

LEMMA BinaryRuns ==
  ASSUME toks \in Inputs, NEW j \in DOMAIN toks, NEW n \in 1 .. 6
  PROVE  Returned(n, j) = Run(n, Returned(n+1, j))
<1>1. Returned(n, j) = parseBinary(ParseLevel, n, j)
  BY ExprCalls
<1> QED
  BY <1>1 DEF parseBinary, Run, Returned

LEMMA Refuses ==
  ASSUME toks \in Inputs, NEW j \in DOMAIN toks, Tok(j) \notin Starters \cup {"!", "-"}
  PROVE  \A n \in 0 .. 8 : ~Returned(n, j).ok
<1>1. ~Returned(8, j).ok
  BY RefusesPostfix
<1>2. ~Returned(7, j).ok
  <2>1. Returned(7, j) = parseUnary(ParseLevel, j)
    BY ExprCalls
  <2>2. Returned(7, j) = Returned(8, j)
    BY <2>1 DEF parseUnary, Returned
  <2> QED
    BY <1>1, <2>2
<1>3. \A n \in 1 .. 6 : ~Returned(n+1, j).ok => ~Returned(n, j).ok
  BY BinaryRuns, RefusesRun
<1>4. ~Returned(6, j).ok
  BY <1>2, <1>3
<1>5. ~Returned(5, j).ok
  BY <1>3, <1>4
<1>6. ~Returned(4, j).ok
  BY <1>3, <1>5
<1>7. ~Returned(3, j).ok
  BY <1>3, <1>6
<1>8. ~Returned(2, j).ok
  BY <1>3, <1>7
<1>9. ~Returned(1, j).ok
  BY <1>3, <1>8
<1>10. ~Returned(0, j).ok
  <2>1. Returned(0, j) = parseAssign(ParseLevel, j)
    BY ExprCalls
  <2> QED
    BY <1>9, <2>1 DEF parseAssign, Returned
<1> QED
  BY <1>1, <1>2, <1>4, <1>5, <1>6, <1>7, <1>8, <1>9, <1>10

-----------------------------------------------------------------------------
(* An expression has a token at least.                                     *)

(* no expression is empty *)
LEMMA Nonempty ==
  ASSUME toks \in Inputs, NEW j \in DOMAIN toks, NEW m \in DOMAIN toks
  PROVE  \A n \in 0 .. 8 : Ex(n, j, m) # {} => m > j
<1>0. j \in Int /\ m \in Int
  BY Within
<1>11. \A k \in j+1 .. m-2 : m > j
  BY <1>0
<1>12. (m = j + 1 => m > j) /\ (m > j + 1 => m > j) /\ (m > j + 2 => m > j)
  BY <1>0
<1> DEFINE E == ExprsIn(toks)
<1>1. Ex(8, j, m) # {} => m > j
  <2> SUFFICES ASSUME NEW x \in Ex(8, j, m) PROVE m > j
    OBVIOUS
  <2>1. PostfixForm(E, x, j, m)
    BY ExprForms
  <2> HIDE DEF E
  <2>2. PrimaryForm(E, x, j, m) => m > j
    BY <1>12 DEF PrimaryForm
  <2> QED
    BY <1>11, <2>1, <2>2, Zenon DEF PostfixForm
<1>2. Ex(7, j, m) # {} => m > j
  <2> SUFFICES ASSUME NEW x \in Ex(7, j, m) PROVE m > j
    OBVIOUS
  <2>1. x \in Ex(8, j, m) \/ m > j + 1
    BY ExprForms, Zenon DEF UnaryForm, Ex
  <2> QED
    BY <1>1, <1>12, <2>1
<1>3. ASSUME NEW n \in 1 .. 6, Ex(n+1, j, m) # {} => m > j
      PROVE  Ex(n, j, m) # {} => m > j
  <2> SUFFICES ASSUME NEW x \in Ex(n, j, m) PROVE m > j
    OBVIOUS
  <2>1. BinaryForm(ExprsIn(toks), n, x, j, m)
    BY ExprForms
  <2>2. x \in Ex(n+1, j, m) \/ \E k \in j+1 .. m-2 : TRUE
    BY <2>1, Zenon DEF BinaryForm, Ex
  <2> QED
    BY <1>3, <1>11, <2>2
<1>4. Ex(6, j, m) # {} => m > j
  BY <1>2, <1>3
<1>5. Ex(5, j, m) # {} => m > j
  BY <1>3, <1>4
<1>6. Ex(4, j, m) # {} => m > j
  BY <1>3, <1>5
<1>7. Ex(3, j, m) # {} => m > j
  BY <1>3, <1>6
<1>8. Ex(2, j, m) # {} => m > j
  BY <1>3, <1>7
<1>9. Ex(1, j, m) # {} => m > j
  BY <1>3, <1>8
<1>10. Ex(0, j, m) # {} => m > j
  <2> SUFFICES ASSUME NEW x \in Ex(0, j, m) PROVE m > j
    OBVIOUS
  <2>1. AssignForm(ExprsIn(toks), x, j, m)
    BY ExprForms
  <2>2. x \in Ex(1, j, m) \/ \E k \in j+1 .. m-2 : TRUE
    BY <2>1, Zenon DEF AssignForm, Ex
  <2> QED
    BY <1>9, <1>11, <2>2
<1> QED
  BY <1>1, <1>2, <1>4, <1>5, <1>6, <1>7, <1>8, <1>9, <1>10

Listed(a, close) == parseList(ParseLevel, a, close)

(* a list of expressions up to close *)
LEMMA ListDecided ==
  ASSUME toks \in Inputs, NEW j \in DOMAIN toks, DecidedBehind(j), NEW a \in DOMAIN toks, a > j,
         NEW close \in {")", "]"}
  PROVE  /\ Listed(a, close).ok => \E c \in DOMAIN toks : /\ c >= a /\ Tok(c) = close /\ Listed(a, close).i = c+1
                                                           /\ Listed(a, close).e \in Ex(9, a, c)
         /\ \A m \in DOMAIN toks : \A es \in Ex(9, a, m) : m >= a /\ Tok(m) = close => Listed(a, close) = Result(es, m+1)
<1>0. DOMAIN toks \subseteq Nat /\ 0 \in Looping /\ 0 \in 0 .. 8
  BY Positions, Loopings
<1> DEFINE first == Returned(0, a)
           r == With(first, <<first.e>>)
           run == Run(0, r)
<1>1. Listed(a, close) = IF Tok(a) = close THEN Result(<< >>, a+1) ELSE Expect(run, close)
  <2> DEFINE others == Loop(ParseLevel, 0, first)
  <2>1. Listed(a, close) = IF Tok(a) = close THEN Result(<< >>, a+1)
                           ELSE Expect(With(others, Grown(0, <<first.e>>, others.e)), close)
    BY DEF Listed, parseList, Returned
  <2>2. run = With(others, Grown(0, <<first.e>>, others.e))
    <3>1. CASE first.ok
      <4>1. r.ok /\ r.e = <<first.e>> /\ r.i = first.i
        <5> HIDE DEF first
        <5> QED
          BY <3>1 DEF With, Result
      <4>2. Loop(ParseLevel, 0, r) = others
        BY <3>1, <4>1 DEF Loop
      <4> HIDE DEF r, others
      <4> QED
        BY <4>1, <4>2 DEF Run
    <3>2. CASE ~first.ok
      <4>1. ~r.ok
        BY <3>2, Withs
      <4>2. ~run.ok /\ run = Failed
        <5> HIDE DEF r
        <5>1. Loop(ParseLevel, 0, r) = Failed
          BY <4>1 DEF Loop
        <5> QED
          BY <5>1, Withs, Results DEF Run
      <4>3. others = Failed
        BY <3>2 DEF Loop
      <4> HIDE DEF run, others
      <4> QED
        BY <4>2, <4>3, Withs, Results
    <3> QED
      BY <3>1, <3>2
  <2> QED
    BY <2>1, <2>2
<1>2. Decides(0, a) /\ DecidedBehind(a)
  <2>1. \A m \in DOMAIN toks : m > a => m > j
    BY <1>0
  <2> QED
    BY <1>0, <2>1 DEF DecidedBehind
<1>3. LinksGiven(0, a) /\ LinksTaken(0, a)
  BY <1>0, <1>2, LinksDecided
<1>4. HeadGiven(0, a, r)
  <2> SUFFICES ASSUME r.ok PROVE r.i \in DOMAIN toks /\ r.i > a /\ HeadForm(0, r.e, a, r.i)
    BY DEF HeadGiven
  <2>1. first.ok /\ r.e = <<first.e>> /\ r.i = first.i
    <3> HIDE DEF first
    <3> QED
      BY Withs
  <2>2. first.i \in DOMAIN toks /\ first.i > a
    <3>1. Reaches(first, a+1)
      BY <1>0, ExprCalls
    <3> HIDE DEF first
    <3> QED
      BY <1>0, <2>1, <3>1 DEF Reaches
  <2>3. first.e \in Ex(0, a, first.i)
    BY <1>2, <2>1 DEF Decides
  <2> HIDE DEF r, first
  <2> QED
    BY <2>1, <2>2, <2>3 DEF HeadForm
<1>5. HeadTaken(0, a, r)
  <2> SUFFICES ASSUME NEW m \in DOMAIN toks, NEW x, HeadForm(0, x, a, m), Tok(m) \notin Stops(0)
               PROVE  r = Result(x, m)
    BY DEF HeadTaken
  <2>1. PICK e \in Ex(0, a, m) : x = <<e>>
    BY DEF HeadForm
  <2>2. Tok(m) \notin Continues(0)
    BY DEF Stops
  <2>3. first = Result(e, m)
    BY <1>2, <2>1, <2>2 DEF Decides
  <2>4. first.ok /\ first.e = e /\ first.i = m
    BY <2>3, Results
  <2> HIDE DEF first
  <2> QED
    BY <2>1, <2>4, Withs
<1>6. /\ run.ok => run.e \in Chain(0, a, run.i)
      /\ run.ok => run.i \in DOMAIN toks /\ run.i > a
      /\ \A m \in DOMAIN toks : \A x \in Chain(0, a, m) :
           m > a /\ Tok(m) \notin Stops(0) /\ Tok(m) \notin Begins(0) => run = Result(x, m)
  <2> HIDE DEF r
  <2> QED
    BY <1>0, <1>3, <1>4, <1>5, ChainDecides
<1>7. \A m : Chain(0, a, m) = Ex(9, a, m)
  BY DEF Chain
<1>8. close \notin Stops(0) /\ close \notin Begins(0)
  <2>1. close \notin Continues(0) /\ close # ","
    BY Ended, Zenon
  <2>2. Stops(0) = Continues(0)
    BY DEF Stops
  <2> QED
    BY <2>1, <2>2, BeginsWith, Zenon
<1>9. close \notin Starters \cup {"!", "-"}
  BY DEF Starters, LiteralKinds
<1> DEFINE none == << >>
<1>10. \A x : x \in Ex(9, a, a) <=> x = none
  <2>1. \A x : x \in Ex(9, a, a) <=> ListForm(ExprsIn(toks), x, a, a)
    BY ExprForms
  <2> QED
    BY <2>1, Zenon DEF ListForm
<1> HIDE DEF run, r, first, none
<1>11. CASE Tok(a) = close
  <2>1. Listed(a, close) = Result(none, a+1)
    BY <1>1, <1>11 DEF none
  <2>2. \A m \in DOMAIN toks : m >= a /\ Tok(m) = close /\ Ex(9, a, m) # {} => m = a
    <3> SUFFICES ASSUME NEW m \in DOMAIN toks, m >= a, Tok(m) = close, NEW es \in Ex(9, a, m), m # a
                 PROVE  FALSE
      OBVIOUS
    <3>1. m > a
      BY <1>0
    <3>2. run = Result(es, m)
      BY <1>6, <1>7, <1>8, <3>1
    <3>3. ~first.ok
      BY <1>0, <1>9, <1>11, Refuses DEF first
    <3>4. ~r.ok
      BY <3>3, Withs DEF r
    <3>5. ~run.ok
      BY <3>4, RefusesRun DEF run
    <3> QED
      BY <3>2, <3>5, Results
  <2>3. a >= a
    BY <1>0
  <2>4. Listed(a, close).ok /\ Listed(a, close).i = a+1 /\ Listed(a, close).e = none
    BY <2>1, Results
  <2>5. none \in Ex(9, a, a)
    BY <1>10
  <2>6. \A m \in DOMAIN toks : \A es \in Ex(9, a, m) : m >= a /\ Tok(m) = close => Listed(a, close) = Result(es, m+1)
    <3> SUFFICES ASSUME NEW m \in DOMAIN toks, NEW es \in Ex(9, a, m), m >= a, Tok(m) = close
                 PROVE  Listed(a, close) = Result(es, m+1)
      OBVIOUS
    <3>1. m = a
      BY <2>2
    <3>2. es = none
      BY <1>10, <3>1
    <3> QED
      BY <2>1, <3>1, <3>2
  <2> QED
    BY <1>11, <2>3, <2>4, <2>5, <2>6
<1>12. CASE Tok(a) # close
  <2>1. Listed(a, close) = Expect(run, close)
    BY <1>1, <1>12
  <2>2. ASSUME Listed(a, close).ok
        PROVE  \E c \in DOMAIN toks : /\ c >= a /\ Tok(c) = close /\ Listed(a, close).i = c+1
                                      /\ Listed(a, close).e \in Ex(9, a, c)
    <3>1. run.ok /\ Tok(run.i) = close /\ Listed(a, close).e = run.e /\ Listed(a, close).i = run.i + 1
      BY <2>1, <2>2, Expects
    <3>2. run.i \in DOMAIN toks /\ run.i >= a /\ run.e \in Ex(9, a, run.i)
      <4>1. run.i \in DOMAIN toks /\ run.i > a /\ run.e \in Chain(0, a, run.i)
        BY <1>6, <3>1
      <4>2. run.i >= a
        BY <1>0, <4>1
      <4> QED
        BY <1>7, <4>1, <4>2
    <3> QED
      BY <3>1, <3>2
  <2>3. ASSUME NEW m \in DOMAIN toks, NEW es \in Ex(9, a, m), m >= a, Tok(m) = close
        PROVE  Listed(a, close) = Result(es, m+1)
    <3>1. m > a
      <4>1. m # a
        BY <1>12, <2>3
      <4> QED
        BY <1>0, <2>3, <4>1
    <3>2. run = Result(es, m)
      BY <1>6, <1>7, <1>8, <2>3, <3>1
    <3>3. run.ok /\ run.e = es /\ run.i = m
      BY <3>2, Results
    <3> QED
      BY <2>1, <2>3, <3>3, Expects
  <2> QED
    BY <2>2, <2>3
<1> QED
  BY <1>11, <1>12

PrimaryAt(j) == parsePrimary(ParseLevel, j)

(* the cases of parsePrimary *)
LEMMA PrimaryCases ==
  ASSUME toks \in Inputs, NEW j \in DOMAIN toks
  PROVE  /\ Tok(j) = "ident" /\ Tok(j+1) # "(" => PrimaryAt(j) = Result(Var(toks[j].x), j+1)
         /\ Tok(j) = "ident" /\ Tok(j+1) = "(" =>
              PrimaryAt(j) = With(Listed(j+2, ")"), Call(toks[j].x, Listed(j+2, ")").e))
         /\ Tok(j) \in LiteralKinds => PrimaryAt(j) = Result(Literal(toks[j]), j+1)
         /\ Tok(j) = "[" => PrimaryAt(j) = With(Listed(j+1, "]"), ArrayLit(Listed(j+1, "]").e))
         /\ Tok(j) = "(" => PrimaryAt(j) = Expect(Returned(0, j+1), ")")
         /\ Tok(j) \notin Starters => ~PrimaryAt(j).ok
<1>1. Tok(j) = "ident" => Tok(j) \notin LiteralKinds
  BY DEF LiteralKinds
<1>2. Tok(j) \in LiteralKinds => Tok(j) # "ident"
  BY DEF LiteralKinds
<1>3. Tok(j) = "[" => Tok(j) # "ident" /\ Tok(j) \notin LiteralKinds
  BY DEF LiteralKinds
<1>4. Tok(j) = "(" => Tok(j) # "ident" /\ Tok(j) \notin LiteralKinds /\ Tok(j) # "["
  BY DEF LiteralKinds
<1>5. CASE Tok(j) = "ident"
  <2>1. PrimaryAt(j) = IF Tok(j+1) = "(" THEN With(Listed(j+2, ")"), Call(toks[j].x, Listed(j+2, ")").e))
                       ELSE Result(Var(toks[j].x), j+1)
    BY <1>1, <1>5 DEF PrimaryAt, parsePrimary, Listed
  <2> QED
    BY <1>1, <1>5, <2>1 DEF Starters
<1>6. CASE Tok(j) \in LiteralKinds
  <2>1. PrimaryAt(j) = Result(Literal(toks[j]), j+1)
    BY <1>2, <1>6 DEF PrimaryAt, parsePrimary, LiteralKinds
  <2> QED
    BY <1>2, <1>3, <1>4, <1>6, <2>1 DEF Starters
<1>7. CASE Tok(j) = "["
  <2>1. PrimaryAt(j) = With(Listed(j+1, "]"), ArrayLit(Listed(j+1, "]").e))
    BY <1>3, <1>7 DEF PrimaryAt, parsePrimary, Listed
  <2> QED
    BY <1>3, <1>4, <1>7, <2>1 DEF Starters
<1>8. CASE Tok(j) = "("
  <2>1. PrimaryAt(j) = Expect(Returned(0, j+1), ")")
    BY <1>4, <1>8 DEF PrimaryAt, parsePrimary, Returned
  <2> QED
    BY <1>4, <1>8, <2>1 DEF Starters
<1>9. CASE Tok(j) \notin Starters
  <2>1. PrimaryAt(j) = Failed
    BY <1>9 DEF PrimaryAt, parsePrimary, Starters
  <2> QED
    BY <1>9, <2>1, Results DEF Starters
<1> QED
  BY <1>5, <1>6, <1>7, <1>8, <1>9 DEF Starters

(* every primary expression of the grammar is what parsePrimary returns *)
LEMMA PrimaryTaken ==
  ASSUME toks \in Inputs, NEW j \in DOMAIN toks, DecidedBehind(j)
  PROVE  HeadTaken(8, j, PrimaryAt(j))
<1>0. /\ j \in Nat
      /\ \A m \in DOMAIN toks : /\ m \in Nat /\ (m-1)+1 = m
                                /\ m > j+1 => m-1 \in DOMAIN toks /\ j+1 \in DOMAIN toks /\ m-1 >= j+1 /\ j+1 > j
                                /\ m > j+2 => m-1 \in DOMAIN toks /\ j+2 \in DOMAIN toks /\ m-1 >= j+2 /\ j+2 > j
  BY Positions
<1> SUFFICES ASSUME NEW m \in DOMAIN toks, NEW x, PrimaryForm(ExprsIn(toks), x, j, m), Tok(m) # "("
             PROVE  PrimaryAt(j) = Result(x, m)
  <2>1. \A x, m : HeadForm(8, x, j, m) <=> PrimaryForm(ExprsIn(toks), x, j, m)
    BY DEF HeadForm
  <2>2. Stops(8) = {"("}
    BY DEF Stops
  <2> QED
    BY <2>1, <2>2 DEF HeadTaken
<1>1. CASE m = j + 1 /\ Tok(j) = "ident" /\ x = Var(toks[j].x)
  BY <1>1, PrimaryCases
<1>2. CASE m = j + 1 /\ Tok(j) \in LiteralKinds /\ x = Literal(toks[j])
  BY <1>2, PrimaryCases
<1>3. CASE m > j + 1 /\ Tok(j) = "(" /\ Tok(m-1) = ")" /\ x \in Ex(0, j+1, m-1)
  <2>1. j+1 \in DOMAIN toks /\ m-1 \in DOMAIN toks /\ j+1 > j /\ (m-1)+1 = m
    BY <1>0, <1>3
  <2>2. Decides(0, j+1)
    BY <2>1, Loopings DEF DecidedBehind
  <2>3. ")" \notin Continues(0)
    BY Ended, Zenon
  <2>4. Returned(0, j+1) = Result(x, m-1)
    BY <1>3, <2>1, <2>2, <2>3 DEF Decides
  <2>5. Expect(Returned(0, j+1), ")") = Result(x, (m-1)+1)
    BY <1>3, <2>4, Expects, Results
  <2> QED
    BY <1>3, <2>1, <2>5, PrimaryCases
<1>4. CASE m > j + 1 /\ Tok(j) = "[" /\ Tok(m-1) = "]" /\ \E es \in Ex(9, j+1, m-1) : x = ArrayLit(es)
  <2>1. j+1 \in DOMAIN toks /\ m-1 \in DOMAIN toks /\ m-1 >= j+1 /\ j+1 > j /\ (m-1)+1 = m
    BY <1>0, <1>4
  <2>2. PICK es \in Ex(9, j+1, m-1) : x = ArrayLit(es)
    BY <1>4
  <2>3. Listed(j+1, "]") = Result(es, (m-1)+1)
    BY <1>4, <2>1, <2>2, ListDecided
  <2>4. Listed(j+1, "]").ok /\ Listed(j+1, "]").e = es /\ Listed(j+1, "]").i = m
    BY <2>1, <2>3, Results
  <2> QED
    BY <1>4, <2>2, <2>4, PrimaryCases, Withs
<1>5. CASE /\ m > j + 2 /\ Tok(j) = "ident" /\ Tok(j+1) = "(" /\ Tok(m-1) = ")"
           /\ \E es \in Ex(9, j+2, m-1) : x = Call(toks[j].x, es)
  <2>1. j+2 \in DOMAIN toks /\ m-1 \in DOMAIN toks /\ m-1 >= j+2 /\ j+2 > j /\ (m-1)+1 = m
    BY <1>0, <1>5
  <2>2. PICK es \in Ex(9, j+2, m-1) : x = Call(toks[j].x, es)
    BY <1>5
  <2>3. Listed(j+2, ")") = Result(es, (m-1)+1)
    BY <1>5, <2>1, <2>2, ListDecided
  <2>4. Listed(j+2, ")").ok /\ Listed(j+2, ")").e = es /\ Listed(j+2, ")").i = m
    BY <2>1, <2>3, Results
  <2> QED
    BY <1>5, <2>2, <2>4, PrimaryCases, Withs
<1> QED
  BY <1>1, <1>2, <1>3, <1>4, <1>5, Zenon DEF PrimaryForm, Ex

(* and what parsePrimary returns is one *)
LEMMA PrimaryGiven ==
  ASSUME toks \in Inputs, NEW j \in DOMAIN toks, DecidedBehind(j)
  PROVE  HeadGiven(8, j, PrimaryAt(j))
<1>0. /\ j \in Nat /\ j+1 > j /\ j+2 > j
      /\ \A m \in DOMAIN toks : m \in Nat /\ (m+1)-1 = m
  BY Positions
<1> DEFINE r == PrimaryAt(j)
           E == ExprsIn(toks)
<1> SUFFICES ASSUME r.ok
             PROVE  r.i \in DOMAIN toks /\ r.i > j /\ PrimaryForm(E, r.e, j, r.i)
  <2>1. \A x, m : HeadForm(8, x, j, m) <=> PrimaryForm(ExprsIn(toks), x, j, m)
    BY DEF HeadForm
  <2> HIDE DEF r
  <2> QED
    BY <2>1 DEF HeadGiven, r
<1>1. Tok(j) \in Starters
  BY PrimaryCases
<1>2. j+1 \in DOMAIN toks
  <2>1. Starters \cap {"eof", "none"} = {}
    BY DEF Starters, LiteralKinds
  <2> QED
    BY <1>1, <2>1, Positions
<1>3. CASE Tok(j) = "ident" /\ Tok(j+1) # "("
  <2>1. r = Result(Var(toks[j].x), j+1)
    BY <1>3, PrimaryCases
  <2>2. r.e = Var(toks[j].x) /\ r.i = j+1
    BY <2>1, Results
  <2> HIDE DEF r, E
  <2> QED
    BY <1>0, <1>2, <1>3, <2>2 DEF PrimaryForm
<1>4. CASE Tok(j) \in LiteralKinds
  <2>1. r = Result(Literal(toks[j]), j+1)
    BY <1>4, PrimaryCases
  <2>2. r.e = Literal(toks[j]) /\ r.i = j+1
    BY <2>1, Results
  <2> HIDE DEF r, E
  <2> QED
    BY <1>0, <1>2, <1>4, <2>2 DEF PrimaryForm
<1>5. CASE Tok(j) = "("
  <2> DEFINE q == Returned(0, j+1)
  <2>1. r = Expect(q, ")")
    BY <1>5, PrimaryCases
  <2>2. q.ok /\ Tok(q.i) = ")" /\ r.e = q.e /\ r.i = q.i + 1
    <3> HIDE DEF q
    <3>1. Expect(q, ")").ok
      BY <2>1
    <3> HIDE DEF r
    <3> QED
      BY <2>1, <3>1, Expects
  <2>3. Decides(0, j+1) /\ Reaches(q, (j+1)+1)
    BY <1>0, <1>2, Loopings, ExprCalls DEF DecidedBehind
  <2>4. q.e \in Ex(0, j+1, q.i)
    BY <2>2, <2>3 DEF Decides
  <2> HIDE DEF q, r
  <2>5. q.i \in DOMAIN toks /\ q.i >= (j+1)+1 /\ q.i \in Nat
    BY <1>0, <2>2, <2>3 DEF Reaches
  <2>6. r.i \in DOMAIN toks /\ r.i > j /\ r.i > j + 1 /\ r.i - 1 = q.i
    <3>1. ")" \notin {"eof", "none"}
      OBVIOUS
    <3>2. q.i + 1 \in DOMAIN toks
      BY <2>2, <3>1, Positions
    <3> QED
      BY <1>0, <2>2, <2>5, <3>2
  <2>7. q.e \in E[<<0, j+1, q.i>>]
    BY <2>4 DEF Ex
  <2> HIDE DEF E
  <2> QED
    BY <1>5, <2>2, <2>6, <2>7 DEF PrimaryForm
<1>6. CASE Tok(j) = "["
  <2> DEFINE q == Listed(j+1, "]")
  <2>1. r = With(q, ArrayLit(q.e))
    BY <1>6, PrimaryCases
  <2>2. q.ok /\ r.e = ArrayLit(q.e) /\ r.i = q.i
    <3> HIDE DEF q
    <3>1. With(q, ArrayLit(q.e)).ok
      BY <2>1
    <3> HIDE DEF r
    <3> QED
      BY <2>1, <3>1, Withs
  <2>3. PICK c \in DOMAIN toks : c >= j+1 /\ Tok(c) = "]" /\ q.i = c+1 /\ q.e \in Ex(9, j+1, c)
    BY <1>0, <1>2, <2>2, ListDecided
  <2> HIDE DEF q, r
  <2>4. r.i \in DOMAIN toks /\ r.i > j /\ r.i > j + 1 /\ r.i - 1 = c
    <3>1. "]" \notin {"eof", "none"}
      OBVIOUS
    <3>2. c + 1 \in DOMAIN toks
      BY <2>3, <3>1, Positions
    <3> QED
      BY <1>0, <2>2, <2>3, <3>2
  <2>5. q.e \in E[<<9, j+1, c>>]
    BY <2>3 DEF Ex
  <2> HIDE DEF E
  <2> QED
    BY <1>6, <2>2, <2>3, <2>4, <2>5 DEF PrimaryForm
<1>7. CASE Tok(j) = "ident" /\ Tok(j+1) = "("
  <2> DEFINE q == Listed(j+2, ")")
  <2>0. j+2 \in DOMAIN toks
    <3>1. "(" \notin {"eof", "none"}
      OBVIOUS
    <3>2. (j+1)+1 \in DOMAIN toks
      BY <1>7, <3>1, Positions
    <3> QED
      BY <1>0, <3>2
  <2>1. r = With(q, Call(toks[j].x, q.e))
    BY <1>7, PrimaryCases
  <2>2. q.ok /\ r.e = Call(toks[j].x, q.e) /\ r.i = q.i
    <3> HIDE DEF q
    <3>1. With(q, Call(toks[j].x, q.e)).ok
      BY <2>1
    <3> HIDE DEF r
    <3> QED
      BY <2>1, <3>1, Withs
  <2>3. PICK c \in DOMAIN toks : c >= j+2 /\ Tok(c) = ")" /\ q.i = c+1 /\ q.e \in Ex(9, j+2, c)
    BY <1>0, <2>0, <2>2, ListDecided
  <2> HIDE DEF q, r
  <2>4. r.i \in DOMAIN toks /\ r.i > j /\ r.i > j + 2 /\ r.i - 1 = c
    <3>1. ")" \notin {"eof", "none"}
      OBVIOUS
    <3>2. c + 1 \in DOMAIN toks
      BY <2>3, <3>1, Positions
    <3> QED
      BY <1>0, <2>2, <2>3, <3>2
  <2>5. q.e \in E[<<9, j+2, c>>]
    BY <2>3 DEF Ex
  <2> HIDE DEF E
  <2> QED
    BY <1>7, <2>2, <2>3, <2>4, <2>5 DEF PrimaryForm
<1> QED
  BY <1>1, <1>3, <1>4, <1>5, <1>6, <1>7 DEF Starters

(* level by level, from the tightest *)
LEMMA PostfixDecided ==
  ASSUME toks \in Inputs, NEW j \in DOMAIN toks, DecidedBehind(j)
  PROVE  Decides(8, j)
<1> DEFINE r == PrimaryAt(j)
<1>0. 8 \in Looping /\ 8 \in 0 .. 8
  BY Loopings
<1>1. Returned(8, j) = Run(8, r)
  <2>1. Returned(8, j) = parsePostfix(ParseLevel, j)
    BY ExprCalls
  <2> QED
    BY <2>1 DEF parsePostfix, Run, PrimaryAt
<1>2. HeadGiven(8, j, r) /\ HeadTaken(8, j, r) /\ LinksGiven(8, j) /\ LinksTaken(8, j)
  BY <1>0, PrimaryGiven, PrimaryTaken, LinksDecided
<1> HIDE DEF r
<1>3. /\ Run(8, r).ok => Run(8, r).e \in Chain(8, j, Run(8, r).i)
      /\ \A m \in DOMAIN toks : \A x \in Chain(8, j, m) :
           m > j /\ Tok(m) \notin Stops(8) /\ Tok(m) \notin Begins(8) => Run(8, r) = Result(x, m)
  BY <1>0, <1>2, ChainDecides
<1>4. \A m : Chain(8, j, m) = Ex(8, j, m)
  BY DEF Chain
<1>5. \A k : k \notin Continues(8) => k \notin Stops(8) /\ k \notin Begins(8)
  <2>1. Stops(8) = {"("} /\ Continues(8) = {"(", "["} 
    BY ContinueHigh DEF Stops
  <2>2. Begins(8) = {"["}
    BY BeginsWith, Zenon
  <2> QED
    BY <2>1, <2>2
<1>6. \A m \in DOMAIN toks : \A x \in Ex(8, j, m) : m > j
  BY <1>0, Nonempty
<1> QED
  BY <1>1, <1>3, <1>4, <1>5, <1>6 DEF Decides

LEMMA UnaryDecided ==
  ASSUME toks \in Inputs, NEW j \in DOMAIN toks, DecidedBehind(j), Decides(8, j)
  PROVE  Decides(7, j)
<1> DEFINE E == ExprsIn(toks)
<1>0. /\ j \in Nat /\ j+1 > j
      /\ \A m \in DOMAIN toks : m \in Nat
  BY Positions
<1>1. Returned(7, j) = IF Tok(j) \in {"!", "-"} THEN With(Returned(7, j+1), Unary(Tok(j), Returned(7, j+1).e))
                       ELSE Returned(8, j)
  <2>1. Returned(7, j) = parseUnary(ParseLevel, j)
    BY ExprCalls
  <2> QED
    BY <2>1 DEF parseUnary, Returned
<1>2. \A m \in DOMAIN toks : \A x : x \in Ex(7, j, m) <=> UnaryForm(E, x, j, m)
  BY ExprForms
<1>3. Continues(7) = Continues(8)
  BY ContinueHigh
<1>4. CASE Tok(j) \in {"!", "-"}
  <2> DEFINE q == Returned(7, j+1)
  <2>1. Returned(7, j) = With(q, Unary(Tok(j), q.e))
    BY <1>1, <1>4
  <2>2. j+1 \in DOMAIN toks
    BY <1>4, Positions
  <2>3. Decides(7, j+1) /\ Reaches(q, (j+1)+1)
    BY <1>0, <2>2, Loopings, ExprCalls DEF DecidedBehind
  <2>4. ASSUME Returned(7, j).ok
        PROVE  Returned(7, j).e \in Ex(7, j, Returned(7, j).i)
    <3>1. q.ok /\ Returned(7, j).e = Unary(Tok(j), q.e) /\ Returned(7, j).i = q.i
      <4> HIDE DEF q
      <4>1. With(q, Unary(Tok(j), q.e)).ok
        BY <2>1, <2>4
      <4> QED
        BY <2>1, <4>1, Withs
    <3>2. q.e \in E[<<7, j+1, q.i>>]
      BY <2>3, <3>1 DEF Decides, Ex
    <3> HIDE DEF q
    <3>3. q.i \in DOMAIN toks /\ q.i > j+1
      BY <1>0, <2>3, <3>1 DEF Reaches
    <3> HIDE DEF E
    <3>4. UnaryForm(E, Unary(Tok(j), q.e), j, q.i)
      BY <1>4, <3>2, <3>3 DEF UnaryForm
    <3> QED
      BY <1>2, <3>1, <3>3, <3>4
  <2>5. ASSUME NEW m \in DOMAIN toks, NEW x \in Ex(7, j, m), Tok(m) \notin Continues(7)
        PROVE  Returned(7, j) = Result(x, m)
    <3>1. UnaryForm(E, x, j, m)
      BY <1>2
    <3>2. x \notin Ex(8, j, m)
      <4>1. ~Returned(8, j).ok
        <5>1. Tok(j) \notin Starters
          BY <1>4 DEF Starters, LiteralKinds
        <5> QED
          BY <5>1, RefusesPostfix
      <4> QED
        BY <1>3, <2>5, <4>1, Results DEF Decides
    <3>3. PICK y \in Ex(7, j+1, m) : x = Unary(Tok(j), y)
      BY <3>1, <3>2, Zenon DEF UnaryForm, Ex
    <3>4. q = Result(y, m)
      BY <2>3, <2>5 DEF Decides
    <3>5. q.ok /\ q.e = y /\ q.i = m
      BY <3>4, Results
    <3> HIDE DEF q
    <3> QED
      BY <2>1, <3>3, <3>5, Withs
  <2> QED
    BY <2>4, <2>5 DEF Decides
<1>5. CASE Tok(j) \notin {"!", "-"}
  <2>1. Returned(7, j) = Returned(8, j)
    BY <1>1, <1>5
  <2>2. \A m \in DOMAIN toks : Ex(7, j, m) = Ex(8, j, m)
    <3> SUFFICES ASSUME NEW m \in DOMAIN toks PROVE \A x : x \in Ex(7, j, m) <=> x \in Ex(8, j, m)
      BY Same
    <3> QED
      BY <1>2, <1>5, Zenon DEF UnaryForm, Ex
  <2>3. Returned(8, j).ok => Returned(8, j).i \in DOMAIN toks
    BY Loopings, ExprCalls DEF Reaches
  <2> QED
    BY <1>3, <2>1, <2>2, <2>3 DEF Decides
<1> QED
  BY <1>4, <1>5

LEMMA BinaryDecided ==
  ASSUME toks \in Inputs, NEW j \in DOMAIN toks, DecidedBehind(j), NEW n \in 1 .. 6, Decides(n+1, j)
  PROVE  Decides(n, j)
<1> DEFINE r == Returned(n+1, j)
<1>0. n \in Looping /\ n \in 0 .. 8 /\ n+1 \in 0 .. 8 /\ n # 0 /\ n # 8 /\ j \in Nat /\ DOMAIN toks \subseteq Nat
  BY Loopings, Positions
<1>1. Returned(n, j) = Run(n, r)
  BY BinaryRuns
<1>2. LinksGiven(n, j) /\ LinksTaken(n, j)
  BY <1>0, LinksDecided
<1>3. \A x, m : HeadForm(n, x, j, m) <=> x \in Ex(n+1, j, m)
  BY <1>0 DEF HeadForm
<1>4. Stops(n) = Continues(n+1)
  BY <1>0 DEF Stops
<1>5. HeadGiven(n, j, r)
  <2>1. Reaches(r, j+1)
    BY <1>0, ExprCalls
  <2>2. r.ok => r.e \in Ex(n+1, j, r.i)
    BY DEF Decides
  <2> HIDE DEF r
  <2> QED
    BY <1>0, <1>3, <2>1, <2>2 DEF HeadGiven, Reaches
<1>6. HeadTaken(n, j, r)
  BY <1>3, <1>4 DEF HeadTaken, Decides
<1> HIDE DEF r
<1>7. /\ Run(n, r).ok => Run(n, r).e \in Chain(n, j, Run(n, r).i)
      /\ \A m \in DOMAIN toks : \A x \in Chain(n, j, m) :
           m > j /\ Tok(m) \notin Stops(n) /\ Tok(m) \notin Begins(n) => Run(n, r) = Result(x, m)
  BY <1>0, <1>2, <1>5, <1>6, ChainDecides
<1>8. \A m : Chain(n, j, m) = Ex(n, j, m)
  BY <1>0 DEF Chain
<1>9. \A k : k \notin Continues(n) => k \notin Stops(n) /\ k \notin Begins(n)
  <2>1. Begins(n) = Levels[n]
    BY BeginsWith, Zenon
  <2> QED
    BY <1>4, <2>1, ContinueLevel
<1>10. \A m \in DOMAIN toks : \A x \in Ex(n, j, m) : m > j
  BY <1>0, Nonempty
<1> QED
  BY <1>1, <1>7, <1>8, <1>9, <1>10 DEF Decides

LEMMA AssignDecided ==
  ASSUME toks \in Inputs, NEW j \in DOMAIN toks, DecidedBehind(j), Decides(1, j)
  PROVE  Decides(0, j)
<1> DEFINE E == ExprsIn(toks)
           target == Returned(1, j)
           value == Returned(0, target.i + 1)
           made == Bin(target.e, OperatorOf(Tok(target.i)), value.e)
<1>0. /\ j \in Nat /\ j+1 > j
      /\ \A m \in DOMAIN toks : m \in Nat
  BY Positions
<1>1. /\ ~target.ok \/ Tok(target.i) \notin {"="} \cup Compound => Returned(0, j) = target
      /\ target.ok /\ Tok(target.i) = "=" => Returned(0, j) = With(value, Bin(target.e, "=", value.e))
      /\ target.ok /\ Tok(target.i) \in Compound /\ target.e.k # "var" => Returned(0, j) = Failed
      /\ target.ok /\ Tok(target.i) \in Compound /\ target.e.k = "var" =>
           Returned(0, j) = With(value, Bin(target.e, "=", made))
  <2>1. Returned(0, j) = parseAssign(ParseLevel, j)
    BY ExprCalls
  <2>2. parseAssign(ParseLevel, j) =
           IF ~target.ok \/ Tok(target.i) \notin {"="} \cup Compound THEN target
           ELSE IF Tok(target.i) = "=" THEN With(value, Bin(target.e, "=", value.e))
           ELSE IF target.e.k # "var" THEN Failed
           ELSE With(value, Bin(target.e, "=", made))
    BY DEF parseAssign, Returned
  <2>3. "=" \notin Compound
    BY DEF Compound
  <2> HIDE DEF target, value, made
  <2> QED
    BY <2>1, <2>2, <2>3
<1>2. \A m \in DOMAIN toks : \A x : x \in Ex(0, j, m) <=> AssignForm(E, x, j, m)
  BY ExprForms
<1>3. Reaches(target, j+1)
  BY Loopings, ExprCalls
<1>4. \A k : k \in {"="} \cup Compound => k \notin {"eof", "none"}
  BY DEF Compound
<1>5. ASSUME target.ok, Tok(target.i) \in {"="} \cup Compound
      PROVE  /\ target.i \in DOMAIN toks /\ target.i + 1 \in DOMAIN toks /\ target.i > j
             /\ Decides(0, target.i + 1) /\ Reaches(value, (target.i + 1) + 1)
  <2> HIDE DEF value, target
  <2>1. target.i \in DOMAIN toks /\ target.i + 1 \in DOMAIN toks
    BY <1>3, <1>4, <1>5, Positions DEF Reaches
  <2>2. target.i > j /\ target.i + 1 > j
    BY <1>0, <1>3, <1>5, <2>1 DEF Reaches
  <2>3. Decides(0, target.i + 1)
    BY <2>1, <2>2, Loopings DEF DecidedBehind
  <2>4. Reaches(value, (target.i + 1) + 1)
    BY <2>1, Loopings, ExprCalls DEF value
  <2> QED
    BY <2>1, <2>2, <2>3, <2>4
<1>6. ASSUME Returned(0, j).ok
      PROVE  Returned(0, j).e \in Ex(0, j, Returned(0, j).i)
  <2>1. target.ok
    <3> HIDE DEF target
    <3> QED
      BY <1>1, <1>6
  <2>2. target.i \in DOMAIN toks /\ target.e \in E[<<1, j, target.i>>]
    BY <1>3, <2>1 DEF Decides, Ex, Reaches
  <2>3. CASE Tok(target.i) \notin {"="} \cup Compound
    <3>1. Returned(0, j) = target
      BY <1>1, <2>3
    <3>2. AssignForm(E, target.e, j, target.i)
      <4> HIDE DEF E, target
      <4> QED
        BY <2>2, Zenon DEF AssignForm
    <3> HIDE DEF target
    <3> QED
      BY <1>2, <2>2, <3>1, <3>2
  <2>4. CASE Tok(target.i) \in {"="} \cup Compound
    <3>1. ASSUME NEW e, Returned(0, j) = With(value, e)
          PROVE  /\ value.ok /\ Returned(0, j).e = e /\ Returned(0, j).i = value.i
                 /\ value.i \in DOMAIN toks /\ target.i \in j+1 .. value.i - 2
                 /\ value.e \in E[<<0, target.i + 1, value.i>>]
      <4>1. value.ok /\ Returned(0, j).e = e /\ Returned(0, j).i = value.i
        <5> HIDE DEF value
        <5> QED
          BY <1>6, <3>1, Withs
      <4>2. value.e \in E[<<0, target.i + 1, value.i>>]
        BY <1>5, <2>1, <2>4, <4>1 DEF Decides, Ex
      <4> HIDE DEF value, target
      <4>3. value.i \in DOMAIN toks /\ value.i >= (target.i + 1) + 1
        BY <1>5, <2>1, <2>4, <4>1 DEF Reaches
      <4>4. target.i \in j+1 .. value.i - 2
        BY <1>0, <1>5, <2>1, <2>4, <4>3
      <4> QED
        BY <4>1, <4>2, <4>3, <4>4
    <3>2. CASE Tok(target.i) = "="
      <4>1. Returned(0, j) = With(value, Bin(target.e, "=", value.e))
        BY <1>1, <2>1, <3>2
      <4>2. /\ Returned(0, j).e = Bin(target.e, "=", value.e) /\ Returned(0, j).i = value.i
            /\ value.i \in DOMAIN toks /\ target.i \in j+1 .. value.i - 2
            /\ value.e \in E[<<0, target.i + 1, value.i>>]
        BY <3>1, <4>1
      <4> HIDE DEF target, value, E
      <4>3. AssignForm(E, Bin(target.e, "=", value.e), j, value.i)
        BY <2>2, <3>2, <4>2, Zenon DEF AssignForm
      <4> QED
        BY <1>2, <4>2, <4>3
    <3>3. CASE Tok(target.i) \in Compound
      <4>1. target.e.k = "var" /\ Returned(0, j) = With(value, Bin(target.e, "=", made))
        <5> HIDE DEF target, value, made
        <5> QED
          BY <1>1, <1>6, <2>1, <3>3, Results
      <4>2. /\ Returned(0, j).e = Bin(target.e, "=", made) /\ Returned(0, j).i = value.i
            /\ value.i \in DOMAIN toks /\ target.i \in j+1 .. value.i - 2
            /\ value.e \in E[<<0, target.i + 1, value.i>>]
        <5> HIDE DEF made
        <5> QED
          BY <3>1, <4>1
      <4> HIDE DEF target, value, E
      <4>3. AssignForm(E, Bin(target.e, "=", made), j, value.i)
        BY <2>2, <3>3, <4>1, <4>2, Zenon DEF AssignForm, made
      <4> HIDE DEF made
      <4> QED
        BY <1>2, <4>2, <4>3
    <3> QED
      BY <2>4, <3>2, <3>3
  <2> QED
    BY <2>3, <2>4
<1>7. ASSUME NEW m \in DOMAIN toks, NEW x \in Ex(0, j, m), Tok(m) \notin Continues(0)
      PROVE  Returned(0, j) = Result(x, m)
  <2> DEFINE Writes(y, k, l, r) ==
        \/ Tok(k) = "=" /\ y = Bin(l, "=", r)
        \/ Tok(k) \in Compound /\ l.k = "var" /\ y = Bin(l, "=", Bin(l, OperatorOf(Tok(k)), r))
  <2>1. AssignForm(E, x, j, m)
    BY <1>2
  <2>2. Tok(m) \notin Continues(1) /\ Tok(m) \notin {"="} \cup Compound
    BY <1>7, ContinueAssign
  <2>3. \A k \in DOMAIN toks : \A l \in Ex(1, j, k) : Tok(k) \notin Continues(1) =>
           target.ok /\ target.e = l /\ target.i = k
    <3> TAKE k \in DOMAIN toks
    <3> TAKE l \in Ex(1, j, k)
    <3> SUFFICES ASSUME Tok(k) \notin Continues(1) PROVE target = Result(l, k)
      BY Results
    <3> QED
      BY DEF Decides
  <2>4. CASE x \in Ex(1, j, m)
    <3>1. target = Result(x, m)
      BY <2>2, <2>4 DEF Decides
    <3>2. target.ok /\ target.i = m
      BY <3>1, Results
    <3> HIDE DEF target
    <3> QED
      BY <1>1, <2>2, <3>1, <3>2
  <2>5. ASSUME NEW k \in j+1 .. m-2, NEW l \in Ex(1, j, k), NEW r \in Ex(0, k+1, m),
               Tok(k) \in {"="} \cup Compound, NEW y, Writes(y, k, l, r)
        PROVE  Returned(0, j) = Result(y, m)
    <3>1. k \in DOMAIN toks
      BY <1>0, Positions
    <3>2. target.ok /\ target.e = l /\ target.i = k
      BY <2>3, <2>5, <3>1, ContinueAssign
    <3>3. value = Result(r, m)
      BY <1>5, <1>7, <2>5, <3>2 DEF Decides
    <3>4. value.ok /\ value.e = r /\ value.i = m
      BY <3>3, Results
    <3>5. made = Bin(l, OperatorOf(Tok(k)), r)
      BY <3>2, <3>4
    <3> HIDE DEF target, value, made
    <3>6. CASE Tok(k) = "=" /\ y = Bin(l, "=", r)
      <4>1. Returned(0, j) = With(value, y)
        BY <1>1, <3>2, <3>4, <3>6
      <4> QED
        BY <3>4, <4>1, Withs
    <3>7. CASE Tok(k) \in Compound /\ l.k = "var" /\ y = Bin(l, "=", Bin(l, OperatorOf(Tok(k)), r))
      <4>1. Returned(0, j) = With(value, y)
        BY <1>1, <3>2, <3>5, <3>7
      <4> QED
        BY <3>4, <4>1, Withs
    <3> QED
      BY <2>5, <3>6, <3>7
  <2>6. CASE \E k \in j+1 .. m-2 : \E l \in Ex(1, j, k), r \in Ex(0, k+1, m) :
               Tok(k) = "=" /\ x = Bin(l, "=", r)
    <3>1. PICK k \in j+1 .. m-2 : \E l \in Ex(1, j, k), r \in Ex(0, k+1, m) :
               Tok(k) = "=" /\ x = Bin(l, "=", r)
      BY <2>6
    <3>2. PICK l \in Ex(1, j, k), r \in Ex(0, k+1, m) : Tok(k) = "=" /\ x = Bin(l, "=", r)
      BY <3>1
    <3>3. Tok(k) \in {"="} \cup Compound /\ Writes(x, k, l, r)
      BY <3>2
    <3> HIDE DEF target, value, made, Writes
    <3> QED
      BY <2>5, <3>2, <3>3
  <2>7. CASE \E k \in j+1 .. m-2 : \E l \in Ex(1, j, k), r \in Ex(0, k+1, m) :
               Tok(k) \in Compound /\ l.k = "var" /\ x = Bin(l, "=", Bin(l, OperatorOf(Tok(k)), r))
    <3>1. PICK k \in j+1 .. m-2 : \E l \in Ex(1, j, k), r \in Ex(0, k+1, m) :
               Tok(k) \in Compound /\ l.k = "var" /\ x = Bin(l, "=", Bin(l, OperatorOf(Tok(k)), r))
      BY <2>7
    <3>2. PICK l \in Ex(1, j, k), r \in Ex(0, k+1, m) :
               Tok(k) \in Compound /\ l.k = "var" /\ x = Bin(l, "=", Bin(l, OperatorOf(Tok(k)), r))
      BY <3>1
    <3>3. Tok(k) \in {"="} \cup Compound /\ Writes(x, k, l, r)
      BY <3>2
    <3> HIDE DEF target, value, made, Writes
    <3> QED
      BY <2>5, <3>2, <3>3
  <2>8. \/ x \in Ex(1, j, m)
        \/ \E k \in j+1 .. m-2 : \E l \in Ex(1, j, k), r \in Ex(0, k+1, m) :
              /\ Tok(k) = "="
              /\ x = Bin(l, "=", r)
        \/ \E k \in j+1 .. m-2 : \E l \in Ex(1, j, k), r \in Ex(0, k+1, m) :
              /\ Tok(k) \in Compound
              /\ l.k = "var"
              /\ x = Bin(l, "=", Bin(l, OperatorOf(Tok(k)), r))
    BY <2>1, Zenon DEF AssignForm, Ex
  <2> HIDE DEF target
  <2> QED
    BY <2>4, <2>6, <2>7, <2>8
<1> QED
  BY <1>6, <1>7 DEF Decides

(* What the functions of the parser return at a token is the expression    *)
(* of the grammar there, if there is one and nothing continues it.         *)
LEMMA ExprsDecided ==
  ASSUME toks \in Inputs
  PROVE  \A j \in DOMAIN toks : \A n \in 0 .. 8 : Decides(n, j)
<1> DEFINE S == {j \in DOMAIN toks : \A n \in 0 .. 8 : Decides(n, j)}
<1>1. ASSUME NEW j \in DOMAIN toks, \A m \in DOMAIN toks : m > j => m \in S
      PROVE  j \in S
  <2>1. DecidedBehind(j)
    BY <1>1 DEF DecidedBehind
  <2>2. Decides(8, j)
    BY <2>1, PostfixDecided
  <2>3. Decides(7, j)
    BY <2>1, <2>2, UnaryDecided
  <2>4. \A n \in 1 .. 6 : Decides(n+1, j) => Decides(n, j)
    BY <2>1, BinaryDecided
  <2>5. Decides(6, j)
    BY <2>3, <2>4
  <2>6. Decides(5, j)
    BY <2>4, <2>5
  <2>7. Decides(4, j)
    BY <2>4, <2>6
  <2>8. Decides(3, j)
    BY <2>4, <2>7
  <2>9. Decides(2, j)
    BY <2>4, <2>8
  <2>10. Decides(1, j)
    BY <2>4, <2>9
  <2>11. Decides(0, j)
    BY <2>1, <2>10, AssignDecided
  <2> QED
    BY <2>2, <2>3, <2>5, <2>6, <2>7, <2>8, <2>9, <2>10, <2>11
<1>2. \A j \in DOMAIN toks : j \in S
  <2> HIDE DEF S
  <2> QED
    BY <1>1, Backwards
<1> QED
  BY <1>2

-----------------------------------------------------------------------------
(* Types.                                                                  *)

(* the same for types *)
TypeDecided(j) ==
  /\ ParseType[j].ok => ParseType[j].e \in Ty(j, ParseType[j].i)
  /\ \A m \in DOMAIN toks : \A t \in Ty(j, m) : Tok(m) # "[" => ParseType[j] = Result(t, m)

ElemAt(j) == Expect(From(ParseType, Expect(Result(NoType, j+1), "<")), ">")
BaseAt(j) ==
  IF Tok(j) \in DOMAIN TypeNames THEN Result(TypeNames[Tok(j)], j+1)
  ELSE IF Tok(j) = "ptr" THEN With(ElemAt(j), Ptr(ElemAt(j).e))
  ELSE Failed

LEMMA Froms ==
  ASSUME NEW F, NEW r
  PROVE  (r.ok => From(F, r) = F[r.i]) /\ (~r.ok => ~From(F, r).ok) /\ (From(F, r).ok => r.ok)
  BY DEF From, Failed

LEMMA TypeKinds ==
  DOMAIN TypeNames \cap {"ptr", "eof", "none"} = {}
  BY DEF TypeNames

(* the element type of a pointer *)
LEMMA ElemDecided ==
  ASSUME toks \in Inputs, NEW j \in DOMAIN toks, \A m \in DOMAIN toks : m > j => TypeDecided(m)
  PROVE  /\ Tok(j) = "ptr" /\ ElemAt(j).ok =>
              /\ ElemAt(j).i \in DOMAIN toks /\ ElemAt(j).i > j + 3
              /\ Tok(j+1) = "<" /\ Tok(ElemAt(j).i - 1) = ">"
              /\ ElemAt(j).e \in Ty(j+2, ElemAt(j).i - 1)
         /\ \A m \in DOMAIN toks : \A u \in Ty(j+2, m-1) :
              m > j + 3 /\ Tok(j+1) = "<" /\ Tok(m-1) = ">" => ElemAt(j) = Result(u, m)
<1>0. /\ j \in Nat /\ (j+1)+1 = j+2 /\ j+2 > j
      /\ \A m \in DOMAIN toks : m \in Nat /\ (m+1)-1 = m /\ (m-1)+1 = m
      /\ \A m \in DOMAIN toks : m > j+3 => m-1 \in DOMAIN toks /\ j+2 \in DOMAIN toks
  BY Positions
<1> DEFINE lt == Expect(Result(NoType, j+1), "<")
           t == From(ParseType, lt)
<1>1. ElemAt(j) = Expect(t, ">")
  BY DEF ElemAt
<1>2. Tok(j+1) = "<" => lt.ok /\ lt.i = j+2
  <2>1. Tok(j+1) = "<" => lt = Result(NoType, (j+1)+1)
    BY Expects, Results
  <2> QED
    BY <1>0, <2>1, Results
<1>3. lt.ok => Tok(j+1) = "<"
  BY Expects, Results
<1>4. ASSUME Tok(j) = "ptr", ElemAt(j).ok
      PROVE  /\ ElemAt(j).i \in DOMAIN toks /\ ElemAt(j).i > j + 3
             /\ Tok(j+1) = "<" /\ Tok(ElemAt(j).i - 1) = ">"
             /\ ElemAt(j).e \in Ty(j+2, ElemAt(j).i - 1)
  <2>1. t.ok /\ Tok(t.i) = ">" /\ ElemAt(j).e = t.e /\ ElemAt(j).i = t.i + 1
    <3> HIDE DEF t
    <3> QED
      BY <1>1, <1>4, Expects
  <2>2. lt.ok
    <3> HIDE DEF lt
    <3> QED
      BY <2>1, Froms
  <2>3. Tok(j+1) = "<" /\ t = ParseType[j+2]
    <3>1. Tok(j+1) = "<" /\ lt.i = j+2
      BY <1>2, <1>3, <2>2
    <3> HIDE DEF lt
    <3> QED
      BY <2>2, <3>1, Froms
  <2>4. j+2 \in DOMAIN toks
    <3>1. (j+1)+1 \in DOMAIN toks
      BY <2>3, Positions
    <3> QED
      BY <1>0, <3>1
  <2> HIDE DEF t
  <2>5. t.e \in Ty(j+2, t.i) /\ Reaches(t, (j+2)+1)
    BY <1>0, <2>1, <2>3, <2>4, TypeCalls DEF TypeDecided
  <2>6. t.i \in DOMAIN toks /\ t.i >= j+3 /\ t.i \in Nat
    BY <1>0, <2>1, <2>5 DEF Reaches
  <2>7. t.i + 1 \in DOMAIN toks
    BY <2>1, Positions
  <2>8. ElemAt(j).i > j + 3 /\ ElemAt(j).i - 1 = t.i
    BY <1>0, <2>1, <2>6
  <2> QED
    BY <2>1, <2>3, <2>5, <2>7, <2>8
<1>5. ASSUME NEW m \in DOMAIN toks, NEW u \in Ty(j+2, m-1), m > j + 3, Tok(j+1) = "<", Tok(m-1) = ">"
      PROVE  ElemAt(j) = Result(u, m)
  <2>1. t = ParseType[j+2]
    <3>1. lt.ok /\ lt.i = j+2
      BY <1>2, <1>5
    <3> HIDE DEF lt
    <3> QED
      BY <3>1, Froms
  <2>2. m-1 \in DOMAIN toks /\ j+2 \in DOMAIN toks /\ (m-1)+1 = m
    BY <1>0, <1>5
  <2> HIDE DEF t
  <2>3. t = Result(u, m-1)
    BY <1>0, <1>5, <2>1, <2>2 DEF TypeDecided
  <2>4. Expect(t, ">") = Result(u, (m-1)+1)
    BY <1>5, <2>3, Expects, Results
  <2> QED
    BY <1>1, <2>2, <2>4
<1> QED
  BY <1>4, <1>5

(* a type without the brackets of an array *)
LEMMA BaseDecided ==
  ASSUME toks \in Inputs, NEW j \in DOMAIN toks, \A m \in DOMAIN toks : m > j => TypeDecided(m)
  PROVE  /\ BaseAt(j).ok => BaseAt(j).i \in DOMAIN toks /\ BaseAt(j).i > j /\ BaseOf(BaseAt(j).e, j, BaseAt(j).i)
         /\ \A m \in DOMAIN toks : \A t : BaseOf(t, j, m) => BaseAt(j) = Result(t, m)
<1>0. j \in Nat /\ j+1 > j /\ \A m \in DOMAIN toks : m \in Nat /\ (m > j+3 => m > j)
  BY Positions
<1>1. CASE Tok(j) \in DOMAIN TypeNames
  <2>1. BaseAt(j) = Result(TypeNames[Tok(j)], j+1)
    BY <1>1 DEF BaseAt
  <2>2. j+1 \in DOMAIN toks /\ Tok(j) # "ptr"
    BY <1>1, TypeKinds, Positions
  <2>3. BaseAt(j).e = TypeNames[Tok(j)] /\ BaseAt(j).i = j+1
    BY <2>1, Results
  <2> QED
    BY <1>0, <1>1, <2>1, <2>2, <2>3 DEF BaseOf
<1>2. CASE Tok(j) = "ptr"
  <2>0. Tok(j) \notin DOMAIN TypeNames
    BY <1>2, TypeKinds
  <2>1. BaseAt(j) = With(ElemAt(j), Ptr(ElemAt(j).e))
    BY <1>2, <2>0 DEF BaseAt
  <2>2. ASSUME BaseAt(j).ok
        PROVE  BaseAt(j).i \in DOMAIN toks /\ BaseAt(j).i > j /\ BaseOf(BaseAt(j).e, j, BaseAt(j).i)
    <3>1. ElemAt(j).ok /\ BaseAt(j).e = Ptr(ElemAt(j).e) /\ BaseAt(j).i = ElemAt(j).i
      BY <2>1, <2>2, Withs
    <3> QED
      BY <1>0, <1>2, <3>1, ElemDecided DEF BaseOf
  <2>3. ASSUME NEW m \in DOMAIN toks, NEW t, BaseOf(t, j, m)
        PROVE  BaseAt(j) = Result(t, m)
    <3>1. m > j + 3 /\ Tok(j+1) = "<" /\ Tok(m-1) = ">" /\ \E u \in Ty(j+2, m-1) : t = Ptr(u)
      BY <2>0, <2>3 DEF BaseOf
    <3>2. PICK u \in Ty(j+2, m-1) : t = Ptr(u)
      BY <3>1
    <3>3. ElemAt(j) = Result(u, m)
      BY <3>1, ElemDecided
    <3> QED
      BY <2>1, <3>2, <3>3, Results, Withs
  <2> QED
    BY <2>2, <2>3
<1>3. CASE Tok(j) \notin DOMAIN TypeNames /\ Tok(j) # "ptr"
  BY <1>3, Results DEF BaseAt, BaseOf
<1> QED
  BY <1>1, <1>2, <1>3

LEMMA TypeBase ==
  ASSUME toks \in Inputs, NEW j \in DOMAIN toks, NEW size, size = Expect(BaseAt(j), "[")
  PROVE  ParseType[j] = IF size.ok THEN With(Expect(Expect(size, "int"), "]"), Array(BaseAt(j).e, toks[size.i].v))
                        ELSE BaseAt(j)
<1>1. ParseType[j] = parseType(ParseType, j)
  BY TypeCalls
<1> QED
  BY <1>1 DEF parseType, BaseAt, ElemAt

(* parseType decides the types *)
LEMMA TypesDecided ==
  ASSUME toks \in Inputs
  PROVE  \A j \in DOMAIN toks : TypeDecided(j)
<1> DEFINE S == {j \in DOMAIN toks : TypeDecided(j)}
<1>1. ASSUME NEW j \in DOMAIN toks, \A m \in DOMAIN toks : m > j => m \in S
      PROVE  j \in S
  <2> DEFINE base == BaseAt(j)
             size == Expect(base, "[")
             int == Expect(size, "int")
             array == Expect(int, "]")
             all == Array(base.e, toks[size.i].v)
  <2>0. /\ j \in Nat
        /\ \A m \in DOMAIN toks : m \in Nat
        /\ \A m \in DOMAIN toks : m > j => /\ ((m+1)+1)+1 > j+3 /\ (((m+1)+1)+1)-3 = m
                                           /\ (((m+1)+1)+1)-2 = m+1 /\ (((m+1)+1)+1)-1 = (m+1)+1
        /\ \A m \in DOMAIN toks : m > j+3 => m-3 \in DOMAIN toks /\ (m-3)+1 = m-2 /\ (m-2)+1 = m-1 /\ (m-1)+1 = m
    BY Positions
  <2>1. /\ base.ok => base.i \in DOMAIN toks /\ base.i > j /\ BaseOf(base.e, j, base.i)
        /\ \A m \in DOMAIN toks : \A t : BaseOf(t, j, m) => base = Result(t, m)
    BY <1>1, BaseDecided
  <2>2. ParseType[j] = IF size.ok THEN With(array, all) ELSE base
    BY TypeBase
  <2> HIDE DEF base
  <2>3. ASSUME ParseType[j].ok
        PROVE  ParseType[j].e \in Ty(j, ParseType[j].i)
    <3>1. CASE size.ok
      <4>1. array.ok /\ ParseType[j].e = all /\ ParseType[j].i = array.i
        <5> HIDE DEF size, array, all
        <5> QED
          BY <2>2, <2>3, <3>1, Withs
      <4>2. int.ok /\ Tok(int.i) = "]" /\ array.i = int.i + 1
        <5> HIDE DEF int
        <5> QED
          BY <4>1, Expects
      <4>3. size.ok /\ Tok(size.i) = "int" /\ int.i = size.i + 1
        <5> HIDE DEF size
        <5> QED
          BY <4>2, Expects
      <4>4. base.ok /\ Tok(base.i) = "[" /\ size.i = base.i + 1
        BY <4>3, Expects
      <4> DEFINE p == base.i
                 q == ParseType[j].i
      <4>5. q = ((p+1)+1)+1 /\ all = Array(base.e, toks[p+1].v) /\ Tok(p) = "[" /\ Tok(p+1) = "int" /\ Tok((p+1)+1) = "]"
        <5> HIDE DEF array, int, size
        <5> QED
          BY <4>1, <4>2, <4>3, <4>4
      <4>6. p \in DOMAIN toks /\ p > j /\ BaseOf(base.e, j, p)
        BY <2>1, <4>4
      <4>7. (p+1)+1 \in DOMAIN toks /\ ((p+1)+1)+1 \in DOMAIN toks
        BY <4>5, Positions
      <4> HIDE DEF p, q, all
      <4>8. q \in DOMAIN toks /\ q > j + 3 /\ q-3 = p /\ q-2 = p+1 /\ q-1 = (p+1)+1
        BY <2>0, <4>5, <4>6, <4>7
      <4>9. all \in Ty(j, q)
        BY <4>5, <4>6, <4>8, TypeForms
      <4> QED
        BY <4>1, <4>9 DEF q
    <3>2. CASE ~size.ok
      <4>1. ParseType[j] = base
        BY <2>2, <3>2
      <4> QED
        BY <2>1, <2>3, <4>1, TypeForms
    <3> QED
      BY <3>1, <3>2
  <2>4. ASSUME NEW m \in DOMAIN toks, NEW t \in Ty(j, m), Tok(m) # "["
        PROVE  ParseType[j] = Result(t, m)
    <3>1. CASE BaseOf(t, j, m)
      <4>1. base = Result(t, m)
        BY <2>1, <3>1
      <4>2. ~size.ok
        BY <2>4, <4>1, Expects, Results
      <4> QED
        BY <2>2, <4>1, <4>2
    <3>2. ASSUME m > j + 3, Tok(m-3) = "[", Tok(m-2) = "int", Tok(m-1) = "]",
                 NEW u, BaseOf(u, j, m-3), t = Array(u, toks[m-2].v)
          PROVE  ParseType[j] = Result(t, m)
      <4>0. m-3 \in DOMAIN toks /\ (m-3)+1 = m-2 /\ (m-2)+1 = m-1 /\ (m-1)+1 = m
        BY <2>0, <3>2
      <4>1. base = Result(u, m-3)
        BY <2>1, <3>2, <4>0
      <4>2. size = Result(u, m-2)
        BY <3>2, <4>0, <4>1, Expects, Results
      <4>3. size.ok /\ size.i = m-2 /\ size.e = u
        BY <4>2, Results
      <4>4. int = Result(u, m-1)
        <5> HIDE DEF size
        <5> QED
          BY <3>2, <4>0, <4>3, Expects, Results
      <4>5. int.ok /\ int.i = m-1 /\ int.e = u
        BY <4>4, Results
      <4>6. array = Result(u, m)
        <5> HIDE DEF int
        <5> QED
          BY <3>2, <4>0, <4>5, Expects, Results
      <4>7. array.ok /\ array.i = m
        BY <4>6, Results
      <4>8. all = t
        <5> HIDE DEF size
        <5> QED
          BY <3>2, <4>1, <4>3, Results
      <4> HIDE DEF size, array, all
      <4> QED
        BY <2>2, <4>3, <4>7, <4>8, Withs
    <3>3. \/ BaseOf(t, j, m)
          \/ /\ m > j + 3 /\ Tok(m-3) = "[" /\ Tok(m-2) = "int" /\ Tok(m-1) = "]"
             /\ \E u : BaseOf(u, j, m-3) /\ t = Array(u, toks[m-2].v)
      BY <2>4, TypeForms
    <3> HIDE DEF size, int, array, all
    <3> QED
      BY <3>1, <3>2, <3>3
  <2> QED
    BY <2>3, <2>4 DEF TypeDecided
<1>2. \A j \in DOMAIN toks : j \in S
  <2> HIDE DEF S
  <2> QED
    BY <1>1, Backwards
<1> QED
  BY <1>2

-----------------------------------------------------------------------------
(* Statements: the rules of the grammar.                                   *)

PlainOf(a, m) == Simples(toks, TypesIn(toks), ExprsIn(toks), a, m)
OneBrace(a, m) == {b \in a+3 .. m-2 : Tok(b) = "{" /\ Tok(b-1) = ")" /\ Tok(a+1) = "("}
OneElse(b, m) == {e \in b+2 .. m-3 : Tok(e-1) = "}" /\ Tok(e) = "else" /\ Tok(e+1) = "{"}

LoopForm(S, x, a, m) ==
  \E b \in OneBrace(a, m) : \E c \in Ex(0, a+2, b-1), s \in S[<<b+1, m-1>>] :
     x = <<While(c)>> \o s \o <<EndWhile>>
BranchForm(S, x, a, m) ==
  \E b \in OneBrace(a, m) :
    \/ \E c \in Ex(0, a+2, b-1), s \in S[<<b+1, m-1>>] : x = <<If(c)>> \o s \o <<Else, EndIf>>
    \/ \E e \in OneElse(b, m) : \E c \in Ex(0, a+2, b-1), s \in S[<<b+1, e-1>>], s2 \in S[<<e+2, m-1>>] :
          x = <<If(c)>> \o s \o <<Else>> \o s2 \o <<EndIf>>
StatementForm(S, x, a, m) ==
  \/ Tok(m-1) = ";" /\ \E s \in PlainOf(a, m) : x = <<s>>
  \/ Tok(m-1) = "}" /\ Tok(a) = "while" /\ LoopForm(S, x, a, m)
  \/ Tok(m-1) = "}" /\ Tok(a) = "if" /\ BranchForm(S, x, a, m)
BodyForm(S, x, a, b) ==
  \/ a = b /\ x = << >>
  \/ a # b /\ \E m \in a+1 .. b : \E s, rest : /\ StatementForm(S, s, a, m)
                                              /\ rest \in S[<<m, b>>]
                                              /\ x = s \o rest

(* the braces of a block are inside the stretch *)
LEMMA BracesAndElses ==
  ASSUME toks \in Inputs, NEW a \in DOMAIN toks, NEW m \in DOMAIN toks
  PROVE  /\ Braces(toks, a, m) = OneBrace(a, m)
         /\ \A b \in OneBrace(a, m) : Elses(toks, b, m) = OneElse(b, m)
         /\ \A b \in OneBrace(a, m) : /\ b \in DOMAIN toks /\ b+1 \in DOMAIN toks /\ b-1 \in DOMAIN toks
                                      /\ a+2 \in DOMAIN toks /\ m-1 \in DOMAIN toks
                                      /\ b > a + 2 /\ b < m - 1
         /\ \A b \in OneBrace(a, m) : \A e \in OneElse(b, m) :
              /\ e \in DOMAIN toks /\ e-1 \in DOMAIN toks /\ e+2 \in DOMAIN toks /\ e+1 \in DOMAIN toks
              /\ e > b + 1 /\ e < m - 2
<1>1. /\ a \in Int /\ m \in Int
      /\ \A k \in Int : a <= k /\ k <= m => k \in DOMAIN toks
      /\ \A k \in DOMAIN toks : k \in Int /\ Tok(k) = toks[k].k
  BY Within
<1>2. \A b \in a+3 .. m-2 : /\ b \in DOMAIN toks /\ b+1 \in DOMAIN toks /\ b-1 \in DOMAIN toks
                            /\ a+2 \in DOMAIN toks /\ m-1 \in DOMAIN toks /\ a+1 \in DOMAIN toks
                            /\ b > a + 2 /\ b < m - 1 /\ b \in Int
  BY <1>1
<1>3. ASSUME NEW b \in a+3 .. m-2, NEW e \in b+2 .. m-3
      PROVE  /\ e \in DOMAIN toks /\ e-1 \in DOMAIN toks /\ e+2 \in DOMAIN toks /\ e+1 \in DOMAIN toks
             /\ e > b + 1 /\ e < m - 2
  BY <1>1
<1>4. Braces(toks, a, m) = OneBrace(a, m)
  <2> DEFINE I == a+3 .. m-2
  <2>1. \A b \in I : (toks[b].k = "{" /\ toks[b-1].k = ")" /\ toks[a+1].k = "(")
                       <=> (Tok(b) = "{" /\ Tok(b-1) = ")" /\ Tok(a+1) = "(")
    BY <1>1, <1>2
  <2> HIDE DEF I
  <2> QED
    BY <2>1 DEF Braces, OneBrace, Is, I
<1>5. \A b \in OneBrace(a, m) : b \in a+3 .. m-2
  BY DEF OneBrace
<1>6. ASSUME NEW b \in OneBrace(a, m) PROVE Elses(toks, b, m) = OneElse(b, m)
  <2> DEFINE I == b+2 .. m-3
  <2>1. \A e \in I : (toks[e-1].k = "}" /\ toks[e].k = "else" /\ toks[e+1].k = "{")
                       <=> (Tok(e-1) = "}" /\ Tok(e) = "else" /\ Tok(e+1) = "{")
    BY <1>1, <1>3, <1>5
  <2> HIDE DEF I
  <2> QED
    BY <2>1 DEF Elses, OneElse, Is, I
<1>7. \A b : \A e \in OneElse(b, m) : e \in b+2 .. m-3
  BY DEF OneElse
<1> QED
  BY <1>2, <1>3, <1>4, <1>5, <1>6, <1>7

(* the rules for statements, member by member *)
LEMMA InStatement ==
  ASSUME toks \in Inputs, NEW a \in DOMAIN toks, NEW m \in DOMAIN toks, m > a, NEW S, NEW x
  PROVE  x \in Statement(toks, TypesIn(toks), ExprsIn(toks), S, a, m) <=> StatementForm(S, x, a, m)
<1> DEFINE E == ExprsIn(toks)
<1>1. /\ toks[m-1].k = Tok(m-1) /\ toks[a].k = Tok(a)
  <2>1. m-1 \in DOMAIN toks
    BY Positions
  <2> QED
    BY <2>1 DEF Tok
<1>2. x \in Loops(toks, E, S, a, m) <=> LoopForm(S, x, a, m)
  <2> DEFINE Formed(c, s) == <<While(c)>> \o s \o <<EndWhile>>
             Split(b) == {Formed(c, s) : c \in Ex(0, a+2, b-1), s \in S[<<b+1, m-1>>]}
  <2>0. Braces(toks, a, m) = OneBrace(a, m)
    BY BracesAndElses
  <2>1. Loops(toks, E, S, a, m) = UNION {Split(b) : b \in Braces(toks, a, m)}
    BY DEF Loops, Ex
  <2>2. LoopForm(S, x, a, m) <=> \E b \in OneBrace(a, m) : \E c \in Ex(0, a+2, b-1), s \in S[<<b+1, m-1>>] : x = Formed(c, s)
    BY Zenon DEF LoopForm
  <2> HIDE DEF Formed
  <2>3. \A b : x \in Split(b) <=> \E c \in Ex(0, a+2, b-1), s \in S[<<b+1, m-1>>] : x = Formed(c, s)
    OBVIOUS
  <2> HIDE DEF Split
  <2>4. x \in Loops(toks, E, S, a, m) <=> \E b \in OneBrace(a, m) : x \in Split(b)
    BY <2>0, <2>1
  <2> QED
    BY <2>2, <2>3, <2>4, Zenon
<1>3. x \in Branches(toks, E, S, a, m) <=> BranchForm(S, x, a, m)
  <2> DEFINE Formed(c, s) == <<If(c)>> \o s \o <<Else, EndIf>>
             Both(c, s, s2) == <<If(c)>> \o s \o <<Else>> \o s2 \o <<EndIf>>
             Short(b) == {Formed(c, s) : c \in Ex(0, a+2, b-1), s \in S[<<b+1, m-1>>]}
             Long(b, e) == {Both(c, s, s2) : c \in Ex(0, a+2, b-1), s \in S[<<b+1, e-1>>], s2 \in S[<<e+2, m-1>>]}
             Either(b) == Short(b) \cup (UNION {Long(b, e) : e \in Elses(toks, b, m)})
  <2>0. Braces(toks, a, m) = OneBrace(a, m) /\ \A b \in OneBrace(a, m) : Elses(toks, b, m) = OneElse(b, m)
    BY BracesAndElses
  <2>1. Branches(toks, E, S, a, m) = UNION {Either(b) : b \in Braces(toks, a, m)}
    BY DEF Branches, Ex
  <2>2. BranchForm(S, x, a, m) <=>
          \E b \in OneBrace(a, m) :
            \/ \E c \in Ex(0, a+2, b-1), s \in S[<<b+1, m-1>>] : x = Formed(c, s)
            \/ \E e \in OneElse(b, m) : \E c \in Ex(0, a+2, b-1), s \in S[<<b+1, e-1>>], s2 \in S[<<e+2, m-1>>] :
                  x = Both(c, s, s2)
    BY Zenon DEF BranchForm
  <2> HIDE DEF Formed, Both
  <2>3. \A b : x \in Short(b) <=> \E c \in Ex(0, a+2, b-1), s \in S[<<b+1, m-1>>] : x = Formed(c, s)
    OBVIOUS
  <2>4. \A b, e : x \in Long(b, e) <=> \E c \in Ex(0, a+2, b-1), s \in S[<<b+1, e-1>>], s2 \in S[<<e+2, m-1>>] :
                                          x = Both(c, s, s2)
    OBVIOUS
  <2> HIDE DEF Short, Long
  <2>5. \A b \in OneBrace(a, m) : x \in Either(b) <=> x \in Short(b) \/ \E e \in OneElse(b, m) : x \in Long(b, e)
    <3> TAKE b \in OneBrace(a, m)
    <3> QED
      BY <2>0
  <2> HIDE DEF Either
  <2>6. x \in Branches(toks, E, S, a, m) <=> \E b \in OneBrace(a, m) : x \in Either(b)
    BY <2>0, <2>1
  <2>7. ASSUME NEW b \in OneBrace(a, m)
        PROVE  x \in Either(b) <=>
                 \/ \E c \in Ex(0, a+2, b-1), s \in S[<<b+1, m-1>>] : x = Formed(c, s)
                 \/ \E e \in OneElse(b, m) : \E c \in Ex(0, a+2, b-1), s \in S[<<b+1, e-1>>], s2 \in S[<<e+2, m-1>>] :
                       x = Both(c, s, s2)
    BY <2>3, <2>4, <2>5, Zenon
  <2> QED
    BY <2>2, <2>6, <2>7, Zenon
<1> DEFINE Ss == {<<s>> : s \in PlainOf(a, m)}
<1>4. x \in Ss <=> \E s \in PlainOf(a, m) : x = <<s>>
  OBVIOUS
<1>5. Statement(toks, TypesIn(toks), E, S, a, m) =
        CASE Tok(m-1) = ";" -> Ss
          [] Tok(m-1) = "}" /\ Tok(a) = "while" -> Loops(toks, E, S, a, m)
          [] Tok(m-1) = "}" /\ Tok(a) = "if" -> Branches(toks, E, S, a, m)
          [] OTHER -> {}
  BY <1>1 DEF Statement, Is, PlainOf
<1> HIDE DEF Ss, E
<1>6. x \in Statement(toks, TypesIn(toks), E, S, a, m) <=>
        \/ Tok(m-1) = ";" /\ x \in Ss
        \/ Tok(m-1) = "}" /\ Tok(a) = "while" /\ x \in Loops(toks, E, S, a, m)
        \/ Tok(m-1) = "}" /\ Tok(a) = "if" /\ x \in Branches(toks, E, S, a, m)
  <2>1. CASE Tok(m-1) = ";"
    BY <1>5, <2>1
  <2>2. CASE Tok(m-1) = "}" /\ Tok(a) = "while"
    BY <1>5, <2>2
  <2>3. CASE Tok(m-1) = "}" /\ Tok(a) = "if"
    BY <1>5, <2>3
  <2>4. CASE Tok(m-1) # ";" /\ ~(Tok(m-1) = "}" /\ Tok(a) \in {"while", "if"})
    BY <1>5, <2>4
  <2> QED
    BY <2>1, <2>2, <2>3, <2>4
<1> QED
  BY <1>2, <1>3, <1>4, <1>6 DEF StatementForm, E

LEMMA InStatements ==
  ASSUME toks \in Inputs, NEW a \in DOMAIN toks, NEW b \in DOMAIN toks, NEW S, NEW x
  PROVE  x \in Statements(toks, TypesIn(toks), ExprsIn(toks), S, a, b) <=> BodyForm(S, x, a, b)
<1> DEFINE Sm(m) == Statement(toks, TypesIn(toks), ExprsIn(toks), S, a, m)
           One(m, s) == {s \o rest : rest \in S[<<m, b>>]}
           At(m) == UNION {One(m, s) : s \in Sm(m)}
           I == a+1 .. b
<1>1. Statements(toks, TypesIn(toks), ExprsIn(toks), S, a, b) =
        IF a = b THEN {<< >>} ELSE UNION {At(m) : m \in I}
  BY DEF Statements
<1>2. \A m, s : x \in One(m, s) <=> \E rest \in S[<<m, b>>] : x = s \o rest
  OBVIOUS
<1>3. \A m \in I : \A s : s \in Sm(m) <=> StatementForm(S, s, a, m)
  <2>1. \A m \in I : m \in DOMAIN toks /\ m > a
    BY Positions
  <2> HIDE DEF I
  <2> QED
    BY <2>1, InStatement
<1> HIDE DEF One, Sm
<1>4. \A m : x \in At(m) <=> \E s \in Sm(m) : x \in One(m, s)
  OBVIOUS
<1> HIDE DEF At, I
<1>5. a # b => (x \in Statements(toks, TypesIn(toks), ExprsIn(toks), S, a, b) <=> \E m \in I : x \in At(m))
  BY <1>1
<1>6. a = b => (x \in Statements(toks, TypesIn(toks), ExprsIn(toks), S, a, b) <=> x = << >>)
  BY <1>1
<1>8. \A m \in I : x \in At(m) <=> \E s, rest : StatementForm(S, s, a, m) /\ rest \in S[<<m, b>>] /\ x = s \o rest
  BY <1>2, <1>3, <1>4, Zenon
<1>7. BodyForm(S, x, a, b) <=>
        \/ a = b /\ x = << >>
        \/ a # b /\ \E m \in I : \E s, rest : StatementForm(S, s, a, m) /\ rest \in S[<<m, b>>] /\ x = s \o rest
  BY DEF BodyForm, I
<1> QED
  BY <1>5, <1>6, <1>7, <1>8, Zenon

(* they look at shorter stretches only *)
LEMMA SameStatement ==
  ASSUME toks \in Inputs, NEW a \in DOMAIN toks, NEW m \in DOMAIN toks, NEW T, NEW U, NEW x,
         \A c, d \in DOMAIN toks : d - c < m - a => T[<<c, d>>] = U[<<c, d>>]
  PROVE  StatementForm(T, x, a, m) <=> StatementForm(U, x, a, m)
<1>0. a \in Int /\ DOMAIN toks \subseteq Int
  BY Positions
<1>1. \A b \in OneBrace(a, m) : T[<<b+1, m-1>>] = U[<<b+1, m-1>>]
  <2> TAKE b \in OneBrace(a, m)
  <2>1. b+1 \in DOMAIN toks /\ m-1 \in DOMAIN toks /\ b \in DOMAIN toks /\ b > a + 2
    BY BracesAndElses
  <2>2. (m-1) - (b+1) < m - a
    BY <1>0, <2>1
  <2> QED
    BY <2>1, <2>2
<1>2. \A b \in OneBrace(a, m) : \A e \in OneElse(b, m) :
        T[<<b+1, e-1>>] = U[<<b+1, e-1>>] /\ T[<<e+2, m-1>>] = U[<<e+2, m-1>>]
  <2> TAKE b \in OneBrace(a, m)
  <2> TAKE e \in OneElse(b, m)
  <2>1. /\ b+1 \in DOMAIN toks /\ m-1 \in DOMAIN toks /\ b \in DOMAIN toks /\ b > a + 2
        /\ e \in DOMAIN toks /\ e-1 \in DOMAIN toks /\ e+2 \in DOMAIN toks /\ e > b + 1 /\ e < m - 2
    BY BracesAndElses
  <2>2. (m-1) - (e+2) < m - a /\ (e-1) - (b+1) < m - a
    BY <1>0, <2>1
  <2> QED
    BY <2>1, <2>2
<1>3. LoopForm(T, x, a, m) <=> LoopForm(U, x, a, m)
  BY <1>1, Zenon DEF LoopForm
<1>4. BranchForm(T, x, a, m) <=> BranchForm(U, x, a, m)
  <2> DEFINE Short(S, b) == \E c \in Ex(0, a+2, b-1), s \in S[<<b+1, m-1>>] : x = <<If(c)>> \o s \o <<Else, EndIf>>
             Long(S, b, e) == \E c \in Ex(0, a+2, b-1), s \in S[<<b+1, e-1>>], s2 \in S[<<e+2, m-1>>] :
                                 x = <<If(c)>> \o s \o <<Else>> \o s2 \o <<EndIf>>
  <2>1. \A b \in OneBrace(a, m) : Short(T, b) <=> Short(U, b)
    BY <1>1, Zenon
  <2>2. \A b \in OneBrace(a, m) : \A e \in OneElse(b, m) : Long(T, b, e) <=> Long(U, b, e)
    BY <1>2, Zenon
  <2>3. \A S : BranchForm(S, x, a, m) <=>
                 \E b \in OneBrace(a, m) : Short(S, b) \/ \E e \in OneElse(b, m) : Long(S, b, e)
    BY Zenon DEF BranchForm
  <2> HIDE DEF Short, Long
  <2> QED
    BY <2>1, <2>2, <2>3, Zenon
<1> QED
  BY <1>3, <1>4, Zenon DEF StatementForm

LEMMA SameBody ==
  ASSUME toks \in Inputs, NEW a \in DOMAIN toks, NEW b \in DOMAIN toks, NEW T, NEW U, NEW x,
         \A c, d \in DOMAIN toks : d - c < b - a => T[<<c, d>>] = U[<<c, d>>]
  PROVE  BodyForm(T, x, a, b) <=> BodyForm(U, x, a, b)
<1>0. a \in Int /\ b \in Int /\ DOMAIN toks \subseteq Int
  BY Positions
<1> DEFINE I == a+1 .. b
<1>1. \A m \in I : m \in DOMAIN toks /\ b - m < b - a /\ \A c, d \in DOMAIN toks : d - c < m - a => d - c < b - a
  <2> TAKE m \in I
  <2>1. m \in DOMAIN toks /\ b - m < b - a /\ m - a <= b - a /\ m \in Int
    <3>1. m \in Int /\ a <= m /\ m <= b /\ b - m < b - a /\ m - a <= b - a
      BY <1>0
    <3>2. m \in DOMAIN toks
      BY <3>1, Within
    <3> QED
      BY <3>1, <3>2
  <2> HIDE DEF I
  <2> QED
    BY <1>0, <2>1
<1> HIDE DEF I
<1>2. \A m \in I : T[<<m, b>>] = U[<<m, b>>]
  BY <1>1
<1>3. \A m \in I : \A s : StatementForm(T, s, a, m) <=> StatementForm(U, s, a, m)
  <2> TAKE m \in I
  <2>1. \A c, d \in DOMAIN toks : d - c < m - a => T[<<c, d>>] = U[<<c, d>>]
    BY <1>1
  <2> QED
    BY <1>1, <2>1, SameStatement
<1>4. \A S : BodyForm(S, x, a, b) <=>
        \/ a = b /\ x = << >>
        \/ a # b /\ \E m \in I : \E s, rest : StatementForm(S, s, a, m) /\ rest \in S[<<m, b>>] /\ x = s \o rest
  BY DEF BodyForm, I
<1> QED
  BY <1>2, <1>3, <1>4, Zenon

LEMMA StatementIsSeq ==
  ASSUME toks \in Inputs, NEW a \in DOMAIN toks, NEW m \in DOMAIN toks, NEW S, NEW x,
         \A c, d \in DOMAIN toks : d - c < m - a => \A s \in S[<<c, d>>] : IsSeq(s),
         StatementForm(S, x, a, m)
  PROVE  IsSeq(x)
<1>0. a \in Int /\ m \in Int /\ DOMAIN toks \subseteq Int
  BY Positions
<1>p. IsSeq(<<Else, EndIf>>)
  <2>1. <<Else, EndIf>> \in Seq({Else, EndIf})
    OBVIOUS
  <2> QED
    BY <2>1, SeqOfAnything
<1>q. \A b \in OneBrace(a, m) : \A s \in S[<<b+1, m-1>>] : IsSeq(s)
  <2> TAKE b \in OneBrace(a, m)
  <2>1. b+1 \in DOMAIN toks /\ m-1 \in DOMAIN toks /\ b \in DOMAIN toks /\ b > a + 2
    BY BracesAndElses
  <2>2. (m-1) - (b+1) < m - a
    BY <1>0, <2>1
  <2> QED
    BY <2>1, <2>2
<1>r. \A b \in OneBrace(a, m) : \A e \in OneElse(b, m) :
        (\A s \in S[<<b+1, e-1>>] : IsSeq(s)) /\ (\A s \in S[<<e+2, m-1>>] : IsSeq(s))
  <2> TAKE b \in OneBrace(a, m)
  <2> TAKE e \in OneElse(b, m)
  <2>1. /\ b+1 \in DOMAIN toks /\ m-1 \in DOMAIN toks /\ b \in DOMAIN toks /\ b > a + 2
        /\ e \in DOMAIN toks /\ e-1 \in DOMAIN toks /\ e+2 \in DOMAIN toks /\ e > b + 1 /\ e < m - 2
    BY BracesAndElses
  <2>2. (m-1) - (e+2) < m - a /\ (e-1) - (b+1) < m - a
    BY <1>0, <2>1
  <2> QED
    BY <2>1, <2>2
<1>1. CASE Tok(m-1) = ";" /\ \E s \in PlainOf(a, m) : x = <<s>>
  BY <1>1, OneEntryStack
<1>2. CASE LoopForm(S, x, a, m)
  <2>1. PICK b \in OneBrace(a, m) : \E c \in Ex(0, a+2, b-1), s \in S[<<b+1, m-1>>] :
               x = <<While(c)>> \o s \o <<EndWhile>>
    BY <1>2 DEF LoopForm
  <2>2. PICK c \in Ex(0, a+2, b-1), s \in S[<<b+1, m-1>>] : x = <<While(c)>> \o s \o <<EndWhile>>
    BY <2>1
  <2>3. IsSeq(s) /\ IsSeq(<<While(c)>>) /\ IsSeq(<<EndWhile>>)
    BY <1>q, OneEntryStack
  <2>4. IsSeq(<<While(c)>> \o s)
    BY <2>3, Concatenation
  <2> QED
    BY <2>2, <2>3, <2>4, Concatenation
<1>3. CASE BranchForm(S, x, a, m)
  <2>1. PICK b \in OneBrace(a, m) :
          \/ \E c \in Ex(0, a+2, b-1), s \in S[<<b+1, m-1>>] : x = <<If(c)>> \o s \o <<Else, EndIf>>
          \/ \E e \in OneElse(b, m) : \E c \in Ex(0, a+2, b-1), s \in S[<<b+1, e-1>>], s2 \in S[<<e+2, m-1>>] :
                x = <<If(c)>> \o s \o <<Else>> \o s2 \o <<EndIf>>
    BY <1>3 DEF BranchForm
  <2>2. CASE \E c \in Ex(0, a+2, b-1), s \in S[<<b+1, m-1>>] : x = <<If(c)>> \o s \o <<Else, EndIf>>
    <3>1. PICK c \in Ex(0, a+2, b-1), s \in S[<<b+1, m-1>>] : x = <<If(c)>> \o s \o <<Else, EndIf>>
      BY <2>2
    <3>2. IsSeq(s) /\ IsSeq(<<If(c)>>)
      BY <1>q, OneEntryStack
    <3>3. IsSeq(<<If(c)>> \o s)
      BY <3>2, Concatenation
    <3> QED
      BY <1>p, <3>1, <3>3, Concatenation
  <2>3. CASE \E e \in OneElse(b, m) : \E c \in Ex(0, a+2, b-1), s \in S[<<b+1, e-1>>], s2 \in S[<<e+2, m-1>>] :
                x = <<If(c)>> \o s \o <<Else>> \o s2 \o <<EndIf>>
    <3>1. PICK e \in OneElse(b, m) : \E c \in Ex(0, a+2, b-1), s \in S[<<b+1, e-1>>], s2 \in S[<<e+2, m-1>>] :
                x = <<If(c)>> \o s \o <<Else>> \o s2 \o <<EndIf>>
      BY <2>3
    <3>2. PICK c \in Ex(0, a+2, b-1), s \in S[<<b+1, e-1>>], s2 \in S[<<e+2, m-1>>] :
                x = <<If(c)>> \o s \o <<Else>> \o s2 \o <<EndIf>>
      BY <3>1
    <3>3. IsSeq(s) /\ IsSeq(s2) /\ IsSeq(<<If(c)>>) /\ IsSeq(<<Else>>) /\ IsSeq(<<EndIf>>)
      BY <1>r, OneEntryStack
    <3>4. IsSeq(<<If(c)>> \o s)
      BY <3>3, Concatenation
    <3>5. IsSeq(<<If(c)>> \o s \o <<Else>>)
      BY <3>3, <3>4, Concatenation
    <3>6. IsSeq(<<If(c)>> \o s \o <<Else>> \o s2)
      BY <3>3, <3>5, Concatenation
    <3> QED
      BY <3>2, <3>3, <3>6, Concatenation
  <2> QED
    BY <2>1, <2>2, <2>3
<1> QED
  BY <1>1, <1>2, <1>3, Zenon DEF StatementForm

LEMMA BodyIsSeq ==
  ASSUME toks \in Inputs, NEW a \in DOMAIN toks, NEW b \in DOMAIN toks, NEW S, NEW x,
         \A c, d \in DOMAIN toks : d - c < b - a => \A s \in S[<<c, d>>] : IsSeq(s),
         BodyForm(S, x, a, b)
  PROVE  IsSeq(x)
<1>0. a \in Int /\ b \in Int /\ DOMAIN toks \subseteq Int
  BY Positions
<1>1. CASE a = b /\ x = << >>
  BY <1>1, EmptyStack
<1>2. ASSUME NEW m \in a+1 .. b, NEW s, NEW rest, StatementForm(S, s, a, m), rest \in S[<<m, b>>], x = s \o rest
      PROVE  IsSeq(x)
  <2>1. m \in DOMAIN toks /\ b - m < b - a /\ m - a <= b - a /\ m \in Int
    <3>1. m \in Int /\ a <= m /\ m <= b /\ b - m < b - a /\ m - a <= b - a
      BY <1>0
    <3>2. m \in DOMAIN toks
      BY <3>1, Within
    <3> QED
      BY <3>1, <3>2
  <2>2. IsSeq(rest)
    BY <1>2, <2>1
  <2>3. \A c, d \in DOMAIN toks : d - c < m - a => d - c < b - a
    BY <1>0, <2>1
  <2>4. \A c, d \in DOMAIN toks : d - c < m - a => \A t \in S[<<c, d>>] : IsSeq(t)
    BY <2>3
  <2>5. IsSeq(s)
    BY <1>2, <2>1, <2>4, StatementIsSeq
  <2> QED
    BY <1>2, <2>2, <2>5, Concatenation
<1> QED
  BY <1>1, <1>2 DEF BodyForm

StmtSpans(p) == Spans(p)
StmtLength(p, s) == Len(p) + s[2] - s[1]
StmtRule(p, S, s) == Statements(p, TypesIn(p), ExprsIn(p), S, s[1], s[2])
StmtFit(p, s, v) == \A ss \in v : IsSeq(ss)
StmtGrammar == INSTANCE Recursion WITH Dom <- StmtSpans, Rank <- StmtLength, Body <- StmtRule, Fit <- StmtFit

(* what a stretch stands for as a list of statements *)
LEMMA StmtForms ==
  ASSUME toks \in Inputs, NEW a \in DOMAIN toks, NEW b \in DOMAIN toks, NEW x
  PROVE  (x \in St(a, b) <=> BodyForm(StmtsIn(toks), x, a, b)) /\ (x \in St(a, b) => IsSeq(x))
<1>1. ASSUME NEW s \in StmtSpans(toks)
      PROVE  /\ StmtLength(toks, s) \in Nat
             /\ \A t, u : StmtGrammar!FitBelow(toks, t, StmtLength(toks, s))
                          /\ StmtGrammar!Agree(toks, t, u, StmtLength(toks, s)) =>
                            StmtRule(toks, t, s) = StmtRule(toks, u, s) /\ StmtFit(toks, s, StmtRule(toks, t, s))
  <2>1. PICK c \in DOMAIN toks, d \in DOMAIN toks : s = <<c, d>>
    BY DEF StmtSpans, Spans
  <2>2. s[1] = c /\ s[2] = d
    BY <2>1
  <2>3. StmtLength(toks, s) \in Nat
    BY <2>2, Within DEF StmtLength
  <2>4. ASSUME NEW t, NEW u, StmtGrammar!FitBelow(toks, t, StmtLength(toks, s)),
               StmtGrammar!Agree(toks, t, u, StmtLength(toks, s))
        PROVE  StmtRule(toks, t, s) = StmtRule(toks, u, s) /\ StmtFit(toks, s, StmtRule(toks, t, s))
    <3>1. ASSUME NEW e \in DOMAIN toks, NEW f \in DOMAIN toks, f - e < d - c
          PROVE  t[<<e, f>>] = u[<<e, f>>] /\ \A ss \in t[<<e, f>>] : IsSeq(ss)
      <4> DEFINE q == <<e, f>>
      <4>1. q \in StmtSpans(toks) /\ q[1] = e /\ q[2] = f
        BY DEF StmtSpans, Spans
      <4> HIDE DEF q
      <4>2. StmtLength(toks, q) < StmtLength(toks, s)
        <5>1. c \in Int /\ d \in Int /\ e \in Int /\ f \in Int /\ Len(toks) \in Int
          BY Within
        <5> QED
          BY <2>2, <3>1, <4>1, <5>1 DEF StmtLength
      <4>3. t[q] = u[q] /\ StmtFit(toks, q, t[q])
        BY <2>4, <4>1, <4>2 DEF StmtGrammar!Agree, StmtGrammar!FitBelow
      <4> QED
        BY <4>3 DEF StmtFit, q
    <3>2. \A x1 : x1 \in StmtRule(toks, t, s) <=> BodyForm(t, x1, c, d)
      BY <2>2, InStatements DEF StmtRule
    <3>3. \A x1 : x1 \in StmtRule(toks, u, s) <=> BodyForm(u, x1, c, d)
      BY <2>2, InStatements DEF StmtRule
    <3>4. \A x1 : BodyForm(t, x1, c, d) <=> BodyForm(u, x1, c, d)
      BY <3>1, SameBody
    <3>5. StmtRule(toks, t, s) = StmtRule(toks, u, s)
      BY <3>2, <3>3, <3>4, Same
    <3>6. \A x1 : BodyForm(t, x1, c, d) => IsSeq(x1)
      BY <3>1, BodyIsSeq
    <3> QED
      BY <3>2, <3>5, <3>6 DEF StmtFit
  <2> QED
    BY <2>3, <2>4
<1>2. StmtGrammar!LooksDown(toks)
  BY <1>1 DEF StmtGrammar!LooksDown
<1> DEFINE T == StmtGrammar!Defined(toks)
<1>3. T = [s \in StmtSpans(toks) |-> StmtRule(toks, T, s)] /\ \A s \in StmtSpans(toks) : StmtFit(toks, s, T[s])
  BY <1>2, StmtGrammar!Unfolding
<1>4. T = StmtsIn(toks)
  BY DEF StmtGrammar!Defined, StmtSpans, StmtRule, StmtsIn
<1> HIDE DEF T
<1> DEFINE q == <<a, b>>
<1>5. q \in StmtSpans(toks) /\ q[1] = a /\ q[2] = b
  BY DEF StmtSpans, Spans
<1>6. T[q] = St(a, b)
  BY <1>4 DEF St
<1> HIDE DEF q
<1>7. T[q] = StmtRule(toks, T, q) /\ StmtFit(toks, q, T[q])
  BY <1>3, <1>5
<1>8. x \in StmtRule(toks, T, q) <=> BodyForm(T, x, a, b)
  BY <1>5, InStatements DEF StmtRule
<1> QED
  BY <1>4, <1>6, <1>7, <1>8 DEF StmtFit

-----------------------------------------------------------------------------
(* Parameters and functions: the rules of the grammar.                     *)

ParamOf(p, a, b) ==
  /\ b > a + 2 /\ Tok(a) = "ident" /\ Tok(a+1) = ":"
  /\ \E t \in Ty(a+2, b) : p = Param(toks[a].x, t)
ParamForm(P, x, a, b) ==
  \/ \E p : ParamOf(p, a, b) /\ x = <<p>>
  \/ \E m \in a+1 .. b-1 : \E p : \E rest \in P[<<m+1, b>>] : Tok(m) = "," /\ ParamOf(p, a, m) /\ x = <<p>> \o rest

(* parameters *)
LEMMA InOneParam ==
  ASSUME toks \in Inputs, NEW a \in DOMAIN toks, NEW b \in DOMAIN toks, NEW p
  PROVE  p \in OneParam(toks, a, b) <=> ParamOf(p, a, b)
<1>1. a \in Int /\ b \in Int
  BY Within
<1>2. b > a + 2 => a+1 \in Int /\ a <= a+1 /\ a+1 <= b
  BY <1>1
<1>3. b > a + 2 => toks[a].k = Tok(a) /\ toks[a+1].k = Tok(a+1)
  BY <1>2, Within
<1> QED
  BY <1>3 DEF OneParam, ParamOf, Is, Ty

LEMMA InParams ==
  ASSUME toks \in Inputs, NEW a \in DOMAIN toks, NEW b \in DOMAIN toks, NEW P, NEW x
  PROVE  x \in Params(toks, P, a, b) <=> ParamForm(P, x, a, b)
<1> DEFINE Commas == {c \in a+1 .. b-1 : Is(toks, c, ",")}
           One == {<<p>> : p \in OneParam(toks, a, b)}
           Begun(m, p) == {<<p>> \o rest : rest \in P[<<m+1, b>>]}
           At(m) == UNION {Begun(m, p) : p \in OneParam(toks, a, m)}
           I == a+1 .. b-1
<1>1. x \in One <=> \E p \in OneParam(toks, a, b) : x = <<p>>
  OBVIOUS
<1>2. \A m, p : x \in Begun(m, p) <=> \E rest \in P[<<m+1, b>>] : x = <<p>> \o rest
  OBVIOUS
<1>3. Params(toks, P, a, b) = One \cup (UNION {At(m) : m \in Commas})
  BY DEF Params
<1>4. \A m \in I : m \in DOMAIN toks /\ toks[m].k = Tok(m)
  <2> TAKE m \in I
  <2>0. a \in Int /\ b \in Int
    BY Within
  <2>1. m \in Int /\ a <= m /\ m <= b
    BY <2>0
  <2> QED
    BY <2>1, Within
<1>5. \A m : m \in Commas <=> m \in I /\ Tok(m) = ","
  <2> HIDE DEF I
  <2> QED
    BY <1>4, Zenon DEF Is, I
<1> HIDE DEF Begun, One, Commas
<1>6. \A m : x \in At(m) <=> \E p \in OneParam(toks, a, m) : x \in Begun(m, p)
  OBVIOUS
<1> HIDE DEF At
<1>7. x \in Params(toks, P, a, b) <=> x \in One \/ \E m \in Commas : x \in At(m)
  BY <1>3
<1> HIDE DEF I
<1>8. \A m \in I : \A p : p \in OneParam(toks, a, m) <=> ParamOf(p, a, m)
  BY <1>4, InOneParam
<1>9. \A p : p \in OneParam(toks, a, b) <=> ParamOf(p, a, b)
  BY InOneParam
<1>10. ParamForm(P, x, a, b) <=>
         \/ \E p : ParamOf(p, a, b) /\ x = <<p>>
         \/ \E m \in I : \E p : \E rest \in P[<<m+1, b>>] : Tok(m) = "," /\ ParamOf(p, a, m) /\ x = <<p>> \o rest
  BY Zenon DEF ParamForm, I
<1>11. \A m \in I : Tok(m) = "," =>
         (x \in At(m) <=> \E p : \E rest \in P[<<m+1, b>>] : ParamOf(p, a, m) /\ x = <<p>> \o rest)
  BY <1>2, <1>6, <1>8, Zenon
<1>12. x \in One <=> \E p : ParamOf(p, a, b) /\ x = <<p>>
  BY <1>1, <1>9, Zenon
<1> QED
  BY <1>5, <1>7, <1>10, <1>11, <1>12, Zenon

ParamSpans(p) == Spans(p)
ParamLength(p, s) == Len(p) + s[2] - s[1]
ParamRule(p, P, s) == Params(p, P, s[1], s[2])
ParamFit(p, s, v) == \A ps \in v : IsSeq(ps)
ParamGrammar == INSTANCE Recursion WITH Dom <- ParamSpans, Rank <- ParamLength, Body <- ParamRule, Fit <- ParamFit

(* what a stretch stands for as a list of parameters *)
LEMMA ParamForms ==
  ASSUME toks \in Inputs, NEW a \in DOMAIN toks, NEW b \in DOMAIN toks, NEW x
  PROVE  (x \in Ps(a, b) <=> ParamForm(ParamsIn(toks), x, a, b)) /\ (x \in Ps(a, b) => IsSeq(x))
<1>1. ASSUME NEW s \in ParamSpans(toks)
      PROVE  /\ ParamLength(toks, s) \in Nat
             /\ \A t, u : ParamGrammar!FitBelow(toks, t, ParamLength(toks, s))
                          /\ ParamGrammar!Agree(toks, t, u, ParamLength(toks, s)) =>
                            ParamRule(toks, t, s) = ParamRule(toks, u, s) /\ ParamFit(toks, s, ParamRule(toks, t, s))
  <2>1. PICK c \in DOMAIN toks, d \in DOMAIN toks : s = <<c, d>>
    BY DEF ParamSpans, Spans
  <2>2. s[1] = c /\ s[2] = d
    BY <2>1
  <2>3. ParamLength(toks, s) \in Nat
    BY <2>2, Within DEF ParamLength
  <2>4. ASSUME NEW t, NEW u, ParamGrammar!FitBelow(toks, t, ParamLength(toks, s)),
               ParamGrammar!Agree(toks, t, u, ParamLength(toks, s))
        PROVE  ParamRule(toks, t, s) = ParamRule(toks, u, s) /\ ParamFit(toks, s, ParamRule(toks, t, s))
    <3>1. ASSUME NEW e \in DOMAIN toks, e > c
          PROVE  t[<<e, d>>] = u[<<e, d>>] /\ \A ps \in t[<<e, d>>] : IsSeq(ps)
      <4> DEFINE q == <<e, d>>
      <4>1. q \in ParamSpans(toks) /\ q[1] = e /\ q[2] = d
        BY DEF ParamSpans, Spans
      <4> HIDE DEF q
      <4>2. ParamLength(toks, q) < ParamLength(toks, s)
        <5>1. c \in Int /\ d \in Int /\ e \in Int /\ Len(toks) \in Int
          BY Within
        <5> QED
          BY <2>2, <3>1, <4>1, <5>1 DEF ParamLength
      <4>3. t[q] = u[q] /\ ParamFit(toks, q, t[q])
        BY <2>4, <4>1, <4>2 DEF ParamGrammar!Agree, ParamGrammar!FitBelow
      <4> QED
        BY <4>3 DEF ParamFit, q
    <3> DEFINE I == c+1 .. d-1
    <3>2. \A m \in I : t[<<m+1, d>>] = u[<<m+1, d>>] /\ \A ps \in t[<<m+1, d>>] : IsSeq(ps)
      <4> TAKE m \in I
      <4>0. c \in Int /\ d \in Int
        BY Within
      <4>1. m+1 \in Int /\ c <= m+1 /\ m+1 <= d /\ m+1 > c
        BY <4>0
      <4>2. m+1 \in DOMAIN toks
        BY <4>1, Within
      <4> QED
        BY <3>1, <4>1, <4>2
    <3> DEFINE At(f, x1, m) == \E p : \E rest \in f[<<m+1, d>>] : Tok(m) = "," /\ ParamOf(p, c, m) /\ x1 = <<p>> \o rest
    <3>3. \A f, x1 : ParamForm(f, x1, c, d) <=> (\E p : ParamOf(p, c, d) /\ x1 = <<p>>) \/ \E m \in I : At(f, x1, m)
      BY Zenon DEF ParamForm
    <3>9. \A m \in I : \A x1 : At(t, x1, m) <=> At(u, x1, m)
      BY <3>2, Zenon
    <3> HIDE DEF I
    <3>4. \A x1 : ParamForm(t, x1, c, d) <=> ParamForm(u, x1, c, d)
      <4> HIDE DEF At
      <4> QED
        BY <3>9, <3>3, Zenon
    <3>5. \A x1 : ParamForm(t, x1, c, d) => IsSeq(x1)
      <4> SUFFICES ASSUME NEW x1, ParamForm(t, x1, c, d) PROVE IsSeq(x1)
        OBVIOUS
      <4>1. CASE \E p : ParamOf(p, c, d) /\ x1 = <<p>>
        BY <4>1, OneEntryStack
      <4>2. CASE \E m \in I : \E p : \E rest \in t[<<m+1, d>>] : Tok(m) = "," /\ ParamOf(p, c, m) /\ x1 = <<p>> \o rest
        <5>1. PICK m \in I : \E p : \E rest \in t[<<m+1, d>>] : Tok(m) = "," /\ ParamOf(p, c, m) /\ x1 = <<p>> \o rest
          BY <4>2
        <5>2. PICK p : \E rest \in t[<<m+1, d>>] : x1 = <<p>> \o rest
          BY <5>1
        <5>3. PICK rest \in t[<<m+1, d>>] : x1 = <<p>> \o rest
          BY <5>2
        <5>4. IsSeq(rest)
          BY <3>2
        <5> QED
          BY <5>3, <5>4, FirstOf
      <4>3. (\E p : ParamOf(p, c, d) /\ x1 = <<p>>) \/ \E m \in I : At(t, x1, m)
        <5> HIDE DEF At
        <5> QED
          BY <3>3
      <4> QED
        BY <4>1, <4>2, <4>3
    <3>6. /\ \A x1 : x1 \in ParamRule(toks, t, s) <=> ParamForm(t, x1, c, d)
          /\ \A x1 : x1 \in ParamRule(toks, u, s) <=> ParamForm(u, x1, c, d)
      BY <2>2, InParams DEF ParamRule
    <3>7. ParamRule(toks, t, s) = ParamRule(toks, u, s)
      BY <3>4, <3>6, Same
    <3> QED
      BY <3>5, <3>6, <3>7 DEF ParamFit
  <2> QED
    BY <2>3, <2>4
<1>2. ParamGrammar!LooksDown(toks)
  BY <1>1 DEF ParamGrammar!LooksDown
<1> DEFINE T == ParamGrammar!Defined(toks)
<1>3. T = [s \in ParamSpans(toks) |-> ParamRule(toks, T, s)] /\ \A s \in ParamSpans(toks) : ParamFit(toks, s, T[s])
  BY <1>2, ParamGrammar!Unfolding
<1>4. T = ParamsIn(toks)
  BY DEF ParamGrammar!Defined, ParamSpans, ParamRule, ParamsIn
<1> HIDE DEF T
<1> DEFINE q == <<a, b>>
<1>5. q \in ParamSpans(toks) /\ q[1] = a /\ q[2] = b
  BY DEF ParamSpans, Spans
<1>6. T[q] = Ps(a, b)
  BY <1>4 DEF Ps
<1> HIDE DEF q
<1>7. T[q] = ParamRule(toks, T, q) /\ ParamFit(toks, q, T[q])
  BY <1>3, <1>5
<1>8. x \in ParamRule(toks, T, q) <=> ParamForm(T, x, a, b)
  BY <1>5, InParams DEF ParamRule
<1> QED
  BY <1>4, <1>6, <1>7, <1>8 DEF ParamFit

-----------------------------------------------------------------------------
ParamsUpTo(a, c) == IF c = a THEN {<< >>} ELSE Ps(a, c)
FuncOf(f, a, b) ==
  /\ b >= a + 8 /\ Tok(a) = "fn" /\ Tok(a+1) = "ident" /\ Tok(a+2) = "(" /\ Tok(b-1) = "}"
  /\ \E c \in a+3 .. b-4 : \E q \in c+3 .. b-2 :
       /\ Tok(c) = ")" /\ Tok(c+1) = "->" /\ Tok(q) = "{"
       /\ \E ps \in ParamsUpTo(a+3, c), ret \in Ty(c+2, q), body \in St(q+1, b-1) :
            f = Func(toks[a+1].x, ps, ret, body)

(* functions *)
LEMMA InOneFunc ==
  ASSUME toks \in Inputs, NEW a \in DOMAIN toks, NEW b \in DOMAIN toks, NEW f
  PROVE  f \in OneFunc(toks, a, b) <=> FuncOf(f, a, b)
<1>0. /\ a \in Int /\ b \in Int
      /\ \A k \in Int : a <= k /\ k <= b => k \in DOMAIN toks
      /\ \A k \in DOMAIN toks : k \in Int /\ Tok(k) = toks[k].k
  BY Within
<1>1. CASE ~(b >= a + 8)
  <2>1. b < a + 8
    BY <1>0, <1>1
  <2>2. OneFunc(toks, a, b) = {}
    BY <2>1 DEF OneFunc
  <2>3. ~FuncOf(f, a, b)
    BY <1>1 DEF FuncOf
  <2> QED
    BY <2>2, <2>3
<1>2. CASE b >= a + 8
  <2>0. /\ toks[a].k = Tok(a) /\ toks[a+1].k = Tok(a+1) /\ toks[a+2].k = Tok(a+2) /\ toks[b-1].k = Tok(b-1)
        /\ ~(b < a + 8)
    BY <1>0, <1>2
  <2> DEFINE I == a+3 .. b-4
             J(c) == c+3 .. b-2
             Cs == {q \in a+3 .. b-4 : Is(toks, q, ")") /\ Is(toks, q+1, "->")}
             Bs(c) == {q \in c+3 .. b-2 : Is(toks, q, "{")}
             Formed(c, q) == {Func(toks[a+1].x, ps, ret, body) :
                              ps \in ParamsUpTo(a+3, c), ret \in Ty(c+2, q), body \in St(q+1, b-1)}
             At(c) == UNION {Formed(c, q) : q \in Bs(c)}
             Starts == Tok(a) = "fn" /\ Tok(a+1) = "ident" /\ Tok(a+2) = "(" /\ Tok(b-1) = "}"
  <2>1. OneFunc(toks, a, b) = IF ~Starts THEN {} ELSE UNION {At(c) : c \in Cs}
    <3>1. OneFunc(toks, a, b) =
            IF b < a + 8 \/ ~Is(toks, a, "fn") \/ ~Is(toks, a+1, "ident") \/ ~Is(toks, a+2, "(") \/ ~Is(toks, b-1, "}")
            THEN {} ELSE UNION {At(c) : c \in Cs}
      BY DEF OneFunc, ParamsUpTo, Ps, Ty, St
    <3>2. Starts <=> Is(toks, a, "fn") /\ Is(toks, a+1, "ident") /\ Is(toks, a+2, "(") /\ Is(toks, b-1, "}")
      BY <2>0 DEF Is
    <3> HIDE DEF Starts, At, Cs
    <3> QED
      BY <2>0, <3>1, <3>2
  <2>2. \A c \in I : c \in DOMAIN toks /\ c+1 \in DOMAIN toks
    BY <1>0
  <2>3. \A c \in I : \A q \in J(c) : q \in DOMAIN toks
    BY <1>0
  <2>4. \A c : c \in Cs <=> c \in I /\ Tok(c) = ")" /\ Tok(c+1) = "->"
    <3> HIDE DEF I
    <3> QED
      BY <1>0, <2>2 DEF Is, I
  <2>5. \A c \in I : \A q : q \in Bs(c) <=> q \in J(c) /\ Tok(q) = "{"
    <3> HIDE DEF I, J
    <3> QED
      BY <1>0, <2>3 DEF Is, J
  <2>6. \A c, q : f \in Formed(c, q) <=> \E ps \in ParamsUpTo(a+3, c), ret \in Ty(c+2, q), body \in St(q+1, b-1) :
                                          f = Func(toks[a+1].x, ps, ret, body)
    OBVIOUS
  <2> HIDE DEF Formed, Cs, Bs
  <2>7. \A c : f \in At(c) <=> \E q \in Bs(c) : f \in Formed(c, q)
    OBVIOUS
  <2> HIDE DEF At
  <2>8. f \in OneFunc(toks, a, b) <=> Starts /\ \E c \in Cs : f \in At(c)
    BY <2>1
  <2> HIDE DEF I, J
  <2>9. FuncOf(f, a, b) <=> Starts /\ \E c \in I : \E q \in J(c) :
          /\ Tok(c) = ")" /\ Tok(c+1) = "->" /\ Tok(q) = "{"
          /\ \E ps \in ParamsUpTo(a+3, c), ret \in Ty(c+2, q), body \in St(q+1, b-1) :
               f = Func(toks[a+1].x, ps, ret, body)
    BY <1>2, Zenon DEF FuncOf, I, J
  <2> HIDE DEF Starts
  <2>10. \A c \in I : \A q \in J(c) : f \in Formed(c, q) <=>
            \E ps \in ParamsUpTo(a+3, c), ret \in Ty(c+2, q), body \in St(q+1, b-1) : f = Func(toks[a+1].x, ps, ret, body)
    BY <2>6, Zenon
  <2>11. \A c \in I : f \in At(c) <=> \E q \in J(c) : Tok(q) = "{" /\
            \E ps \in ParamsUpTo(a+3, c), ret \in Ty(c+2, q), body \in St(q+1, b-1) : f = Func(toks[a+1].x, ps, ret, body)
    BY <2>5, <2>6, <2>7, Zenon
  <2> QED
    BY <2>4, <2>8, <2>9, <2>11, Zenon
<1> QED
  BY <1>1, <1>2

FuncForm(F, x, a) ==
  \/ a = Len(toks) /\ x = << >>
  \/ a # Len(toks) /\ \E m \in a+1 .. Len(toks) : \E f : \E rest \in F[m] : FuncOf(f, a, m) /\ x = <<f>> \o rest

LEMMA InFuncs ==
  ASSUME toks \in Inputs, NEW a \in DOMAIN toks, NEW F, NEW x
  PROVE  x \in Funcs(toks, F, a) <=> FuncForm(F, x, a)
<1> DEFINE One(m, f) == {<<f>> \o rest : rest \in F[m]}
           At(m) == UNION {One(m, f) : f \in OneFunc(toks, a, m)}
           I == a+1 .. Len(toks)
<1>1. Funcs(toks, F, a) = IF a = Len(toks) THEN {<< >>} ELSE UNION {At(m) : m \in I}
  BY DEF Funcs
<1>2. \A m, f : x \in One(m, f) <=> \E rest \in F[m] : x = <<f>> \o rest
  OBVIOUS
<1>3. \A m \in I : \A f : f \in OneFunc(toks, a, m) <=> FuncOf(f, a, m)
  <2>1. \A m \in I : m \in DOMAIN toks
    BY Positions
  <2> HIDE DEF I
  <2> QED
    BY <2>1, InOneFunc
<1> HIDE DEF One
<1>4. \A m : x \in At(m) <=> \E f \in OneFunc(toks, a, m) : x \in One(m, f)
  OBVIOUS
<1> HIDE DEF At, I
<1>5. a # Len(toks) => (x \in Funcs(toks, F, a) <=> \E m \in I : x \in At(m))
  BY <1>1
<1>6. a = Len(toks) => (x \in Funcs(toks, F, a) <=> x = << >>)
  BY <1>1
<1>8. \A m \in I : x \in At(m) <=> \E f : \E rest \in F[m] : FuncOf(f, a, m) /\ x = <<f>> \o rest
  BY <1>2, <1>3, <1>4, Zenon
<1>7. FuncForm(F, x, a) <=>
        \/ a = Len(toks) /\ x = << >>
        \/ a # Len(toks) /\ \E m \in I : \E f : \E rest \in F[m] : FuncOf(f, a, m) /\ x = <<f>> \o rest
  BY DEF FuncForm, I
<1> QED
  BY <1>5, <1>6, <1>7, <1>8, Zenon

FuncStarts(p) == DOMAIN p
FuncRank(p, a) == Len(p) - a
FuncRule(p, F, a) == Funcs(p, F, a)
FuncFit(p, a, v) == \A fs \in v : IsSeq(fs)
FuncGrammar == INSTANCE Recursion WITH Dom <- FuncStarts, Rank <- FuncRank, Body <- FuncRule, Fit <- FuncFit

(* what the tokens from a position on stand for as a list of functions *)
LEMMA FuncForms ==
  ASSUME toks \in Inputs, NEW a \in DOMAIN toks, NEW x
  PROVE  (x \in Fs(a) <=> FuncForm(FuncsIn(toks), x, a)) /\ (x \in Fs(a) => IsSeq(x))
<1>1. ASSUME NEW c \in FuncStarts(toks)
      PROVE  /\ FuncRank(toks, c) \in Nat
             /\ \A t, u : FuncGrammar!FitBelow(toks, t, FuncRank(toks, c))
                          /\ FuncGrammar!Agree(toks, t, u, FuncRank(toks, c)) =>
                            FuncRule(toks, t, c) = FuncRule(toks, u, c) /\ FuncFit(toks, c, FuncRule(toks, t, c))
  <2>1. c \in DOMAIN toks
    BY DEF FuncStarts
  <2>3. FuncRank(toks, c) \in Nat
    BY <2>1, Positions DEF FuncRank
  <2>4. ASSUME NEW t, NEW u, FuncGrammar!FitBelow(toks, t, FuncRank(toks, c)),
               FuncGrammar!Agree(toks, t, u, FuncRank(toks, c))
        PROVE  FuncRule(toks, t, c) = FuncRule(toks, u, c) /\ FuncFit(toks, c, FuncRule(toks, t, c))
    <3> DEFINE I == c+1 .. Len(toks)
    <3>1. \A m \in I : t[m] = u[m] /\ \A fs \in t[m] : IsSeq(fs)
      <4> TAKE m \in I
      <4>1. m \in FuncStarts(toks) /\ FuncRank(toks, m) < FuncRank(toks, c)
        BY <2>1, Positions DEF FuncStarts, FuncRank
      <4> QED
        BY <2>4, <4>1 DEF FuncGrammar!Agree, FuncGrammar!FitBelow, FuncFit
    <3> DEFINE At(F, x1, m) == \E f : \E rest \in F[m] : FuncOf(f, c, m) /\ x1 = <<f>> \o rest
    <3>2. \A F, x1 : FuncForm(F, x1, c) <=> (c = Len(toks) /\ x1 = << >>) \/ (c # Len(toks) /\ \E m \in I : At(F, x1, m))
      BY Zenon DEF FuncForm
    <3>3. \A m \in I : \A x1 : At(t, x1, m) <=> At(u, x1, m)
      BY <3>1, Zenon
    <3> HIDE DEF I
    <3>4. \A m \in I : \A x1 : At(t, x1, m) => IsSeq(x1)
      <4> TAKE m \in I
      <4> TAKE x1
      <4> HAVE At(t, x1, m)
      <4>1. PICK f : \E rest \in t[m] : x1 = <<f>> \o rest
        OBVIOUS
      <4>2. PICK rest \in t[m] : x1 = <<f>> \o rest
        BY <4>1
      <4>3. IsSeq(rest)
        BY <3>1
      <4> QED
        BY <4>2, <4>3, FirstOf
    <3> HIDE DEF At
    <3>5. \A x1 : FuncForm(t, x1, c) <=> FuncForm(u, x1, c)
      <4> TAKE x1
      <4>1. FuncForm(t, x1, c) <=> (c = Len(toks) /\ x1 = << >>) \/ (c # Len(toks) /\ \E m \in I : At(t, x1, m))
        BY <3>2
      <4>2. FuncForm(u, x1, c) <=> (c = Len(toks) /\ x1 = << >>) \/ (c # Len(toks) /\ \E m \in I : At(u, x1, m))
        BY <3>2
      <4>3. (\E m \in I : At(t, x1, m)) <=> \E m \in I : At(u, x1, m)
        BY <3>3, Zenon
      <4> QED
        BY <4>1, <4>2, <4>3
    <3>6. \A x1 : FuncForm(t, x1, c) => IsSeq(x1)
      BY <3>2, <3>4, EmptyStack
    <3>7. /\ \A x1 : x1 \in FuncRule(toks, t, c) <=> FuncForm(t, x1, c)
          /\ \A x1 : x1 \in FuncRule(toks, u, c) <=> FuncForm(u, x1, c)
      BY <2>1, InFuncs DEF FuncRule
    <3>8. FuncRule(toks, t, c) = FuncRule(toks, u, c)
      BY <3>5, <3>7, Same
    <3> QED
      BY <3>6, <3>7, <3>8 DEF FuncFit
  <2> QED
    BY <2>3, <2>4
<1>2. FuncGrammar!LooksDown(toks)
  BY <1>1 DEF FuncGrammar!LooksDown
<1> DEFINE T == FuncGrammar!Defined(toks)
<1>3. T = [c \in FuncStarts(toks) |-> FuncRule(toks, T, c)] /\ \A c \in FuncStarts(toks) : FuncFit(toks, c, T[c])
  BY <1>2, FuncGrammar!Unfolding
<1>4. T = FuncsIn(toks)
  BY DEF FuncGrammar!Defined, FuncStarts, FuncRule, FuncsIn
<1> HIDE DEF T
<1>5. a \in FuncStarts(toks)
  BY DEF FuncStarts
<1>6. T[a] = Fs(a)
  BY <1>4 DEF Fs
<1>7. T[a] = FuncRule(toks, T, a) /\ FuncFit(toks, a, T[a])
  BY <1>3, <1>5
<1>8. x \in FuncRule(toks, T, a) <=> FuncForm(T, x, a)
  BY InFuncs DEF FuncRule
<1> QED
  BY <1>4, <1>6, <1>7, <1>8 DEF FuncFit

-----------------------------------------------------------------------------
(* What the parser returns of an expression or a type behind which it      *)
(* expects a token k.                                                      *)

Closers == {")", ";"}

LEMMA CloserKinds ==
  ";" \in Closers /\ ")" \in Closers /\ \A k \in Closers : k \notin Continues(0) \cup {"eof", "none"}
<1>1. \A k \in Closers : k \in {")", "]", ",", ";", "}", "{"}
  BY Zenon DEF Closers
<1>2. \A k \in Closers : k \notin {"eof", "none"}
  BY Zenon DEF Closers
<1>3. ";" \in Closers /\ ")" \in Closers
  BY Zenon DEF Closers
<1>4. \A k \in Closers : k \notin Continues(0)
  BY <1>1, Ended, Zenon
<1> QED
  BY <1>2, <1>3, <1>4, Zenon

(* an expression and the token that closes it *)
LEMMA ExprUpTo ==
  ASSUME toks \in Inputs, NEW j \in DOMAIN toks, NEW k \in Closers, NEW p, p.ok, p.i = j
  PROVE  LET r == ExprThen(p, k)
         IN  /\ r.ok => /\ r.i \in DOMAIN toks /\ r.i - 1 \in DOMAIN toks /\ r.i > j + 1
                        /\ Tok(r.i - 1) = k /\ r.e \in Ex(0, j, r.i - 1)
             /\ \A m \in DOMAIN toks : \A e \in Ex(0, j, m) : Tok(m) = k => r = Result(e, m+1)
<1> DEFINE x == From(ParseExpr, p)
           r == ExprThen(p, k)
<1>0. j \in Nat /\ j+1 > j /\ \A m \in DOMAIN toks : m \in Nat /\ (m+1)-1 = m /\ (m >= j+1 => m+1 > j+1)
  BY Positions
<1>1. k \notin Continues(0) /\ k \notin {"eof", "none"}
  BY CloserKinds, Zenon
<1>2. x = Returned(0, j)
  <2>1. x = ParseExpr[j]
    BY Froms
  <2> QED
    BY <2>1 DEF ParseExpr, Returned
<1>3. r = Expect(x, k)
  BY DEF ExprThen
<1>4. Decides(0, j) /\ Reaches(Returned(0, j), j+1)
  <2>1. 0 \in 0 .. 8
    OBVIOUS
  <2> QED
    BY <2>1, ExprsDecided, ExprCalls
<1> HIDE DEF x, r
<1>5. ASSUME r.ok
      PROVE  /\ r.i \in DOMAIN toks /\ r.i - 1 \in DOMAIN toks /\ r.i > j + 1
             /\ Tok(r.i - 1) = k /\ r.e \in Ex(0, j, r.i - 1)
  <2>1. x.ok /\ Tok(x.i) = k /\ r.e = x.e /\ r.i = x.i + 1
    BY <1>3, <1>5, Expects
  <2>2. x.i \in DOMAIN toks /\ x.i >= j+1 /\ x.e \in Ex(0, j, x.i)
    BY <1>2, <1>4, <2>1 DEF Decides, Reaches
  <2>3. x.i + 1 \in DOMAIN toks
    BY <1>1, <2>1, Positions
  <2> QED
    BY <1>0, <2>1, <2>2, <2>3
<1>6. ASSUME NEW m \in DOMAIN toks, NEW e \in Ex(0, j, m), Tok(m) = k
      PROVE  r = Result(e, m+1)
  <2>1. x = Result(e, m)
    BY <1>1, <1>2, <1>4, <1>6 DEF Decides
  <2> QED
    BY <1>3, <1>6, <2>1, Expects, Results
<1> QED
  BY <1>5, <1>6 DEF r

(* a type and the token that closes it *)
LEMMA TypeUpTo ==
  ASSUME toks \in Inputs, NEW j \in DOMAIN toks, NEW k, k \notin {"[", "eof", "none"}, NEW p, p.ok, p.i = j
  PROVE  LET r == Expect(From(ParseType, p), k)
         IN  /\ r.ok => /\ r.i \in DOMAIN toks /\ r.i - 1 \in DOMAIN toks /\ r.i > j + 1
                        /\ Tok(r.i - 1) = k /\ r.e \in Ty(j, r.i - 1)
             /\ \A m \in DOMAIN toks : \A t \in Ty(j, m) : Tok(m) = k => r = Result(t, m+1)
<1> DEFINE x == From(ParseType, p)
           r == Expect(x, k)
<1>0. j \in Nat /\ j+1 > j /\ \A m \in DOMAIN toks : m \in Nat /\ (m+1)-1 = m /\ (m >= j+1 => m+1 > j+1)
  BY Positions
<1>2. x = ParseType[j]
  BY Froms
<1>3. r = Expect(x, k)
  OBVIOUS
<1>4. TypeDecided(j) /\ Reaches(ParseType[j], j+1)
  BY TypesDecided, TypeCalls
<1> HIDE DEF x, r
<1>5. ASSUME r.ok
      PROVE  /\ r.i \in DOMAIN toks /\ r.i - 1 \in DOMAIN toks /\ r.i > j + 1
             /\ Tok(r.i - 1) = k /\ r.e \in Ty(j, r.i - 1)
  <2>1. x.ok /\ Tok(x.i) = k /\ r.e = x.e /\ r.i = x.i + 1
    BY <1>3, <1>5, Expects
  <2>2. x.i \in DOMAIN toks /\ x.i >= j+1 /\ x.e \in Ty(j, x.i)
    BY <1>2, <1>4, <2>1 DEF TypeDecided, Reaches
  <2>3. x.i + 1 \in DOMAIN toks
    BY <2>1, Positions
  <2> QED
    BY <1>0, <2>1, <2>2, <2>3
<1>6. ASSUME NEW m \in DOMAIN toks, NEW t \in Ty(j, m), Tok(m) = k
      PROVE  r = Result(t, m+1)
  <2>1. x = Result(t, m)
    BY <1>2, <1>4, <1>6 DEF TypeDecided
  <2> QED
    BY <1>3, <1>6, <2>1, Expects, Results
<1> QED
  BY <1>5, <1>6 DEF r, x

-----------------------------------------------------------------------------
(* Statements without blocks.                                              *)

LetName(p, a) ==
  /\ p > a /\ Tok(p) = "ident"
  /\ \/ p = a + 1
     \/ p > a + 4 /\ Tok(a+1) = "unique" /\ Tok(a+2) = "<" /\ Tok(p-1) = ">" /\ Ty(a+3, p-1) # {}
Annotated(ann, p, q) ==
  \/ q = p + 1 /\ ann = NoType
  \/ q # p + 1 /\ Tok(p+1) = ":" /\ ann \in Ty(p+2, q)
LetNode(a, p, ann, e) == [Let(toks[p].x, ann, e) EXCEPT !.uniq = (p # a + 1)]
LetForm(x, a, m) ==
  \E p \in a+1 .. m-2 : \E q \in a+2 .. m-2 : \E ann : \E e \in Ex(0, q+1, m-1) :
     LetName(p, a) /\ q > p /\ Tok(q) = "=" /\ Annotated(ann, p, q) /\ x = LetNode(a, p, ann, e)

(* let, member by member *)
LEMMA InLets ==
  ASSUME toks \in Inputs, NEW a \in DOMAIN toks, NEW m \in DOMAIN toks, NEW x
  PROVE  x \in Lets(toks, TypesIn(toks), ExprsIn(toks), a, m) <=> LetForm(x, a, m)
<1>0. /\ a \in Int /\ m \in Int
      /\ \A k \in Int : a <= k /\ k <= m => k \in DOMAIN toks
      /\ \A k \in DOMAIN toks : k \in Int /\ Tok(k) = toks[k].k
  BY Within
<1> DEFINE T == TypesIn(toks)
           P == a+1 .. m-2
           Q == a+2 .. m-2
           N == LetNames(toks, T, a, m-2)
           A(p, q) == Annotations(toks, T, p, q)
           Formed(p, q) == {LetNode(a, p, ann, e) : ann \in A(p, q), e \in Ex(0, q+1, m-1)}
           Pairs == {r \in N \X Q : r[2] > r[1] /\ Is(toks, r[2], "=")}
<1>1. Lets(toks, T, ExprsIn(toks), a, m) = UNION {Formed(r[1], r[2]) : r \in Pairs}
  BY DEF Lets, LetNode, Ex
<1>2. \A p \in P : p \in Int /\ p \in DOMAIN toks /\ p > a /\ p <= m-2
  BY <1>0
<1>3. \A q \in Q : q \in Int /\ q \in DOMAIN toks
  BY <1>0
<1>4. \A p \in P : p > a + 4 => a+1 \in DOMAIN toks /\ a+2 \in DOMAIN toks /\ p-1 \in DOMAIN toks
  BY <1>0
<1>5. \A p : p \in N <=> p \in P /\ LetName(p, a)
  <2>1. \A p : p \in N <=> /\ p \in P /\ toks[p].k = "ident"
                           /\ \/ p = a + 1
                              \/ /\ p > a + 4 /\ toks[a+1].k = "unique" /\ toks[a+2].k = "<"
                                 /\ toks[p-1].k = ">" /\ Ty(a+3, p-1) # {}
    BY DEF LetNames, Is, Ty
  <2> HIDE DEF N, P
  <2> QED
    BY <1>0, <1>2, <1>4, <2>1 DEF LetName
<1>6. \A p \in P : \A q \in Q : q > p => \A ann : ann \in A(p, q) <=> Annotated(ann, p, q)
  <2> TAKE p \in P
  <2> TAKE q \in Q
  <2> HAVE q > p
  <2> TAKE ann
  <2>1. q # p + 1 => p+1 \in Int /\ a <= p+1 /\ p+1 <= m
    BY <1>0
  <2>2. q # p + 1 => toks[p+1].k = Tok(p+1)
    BY <1>0, <2>1
  <2> QED
    BY <2>2 DEF Annotations, Annotated, Is, Ty
<1>7. \A p, q : x \in Formed(p, q) <=> \E ann \in A(p, q), e \in Ex(0, q+1, m-1) : x = LetNode(a, p, ann, e)
  OBVIOUS
<1> HIDE DEF Formed, A
<1>8. x \in Lets(toks, T, ExprsIn(toks), a, m) <=>
        \E p \in N : \E q \in Q : q > p /\ Is(toks, q, "=") /\ x \in Formed(p, q)
  <2>0. \A p, q : q > p => q > p
    OBVIOUS
  <2>1. \A r : r \in Pairs => r = <<r[1], r[2]>> /\ r[1] \in N /\ r[2] \in Q /\ r[2] > r[1] /\ Is(toks, r[2], "=")
    <3> HIDE DEF N, Q
    <3> QED
      OBVIOUS
  <2>2. \A p \in N : \A q \in Q : q > p /\ Is(toks, q, "=") => <<p, q>> \in Pairs
    <3> HIDE DEF N, Q
    <3> QED
      OBVIOUS
  <2>3. x \in Lets(toks, T, ExprsIn(toks), a, m) <=> \E r \in Pairs : x \in Formed(r[1], r[2])
    <3> HIDE DEF Pairs
    <3> QED
      BY <1>1
  <2> HIDE DEF Pairs, N, Q
  <2>4. ASSUME NEW p \in N, NEW q \in Q, q > p, Is(toks, q, "="), x \in Formed(p, q)
        PROVE  \E r \in Pairs : x \in Formed(r[1], r[2])
    <3> DEFINE r == <<p, q>>
    <3>1. r[1] = p /\ r[2] = q
      OBVIOUS
    <3>2. r \in Pairs
      BY <2>2, <2>4
    <3> HIDE DEF r
    <3> QED
      BY <2>4, <3>1, <3>2
  <2> QED
    BY <2>1, <2>3, <2>4
<1>9. \A q \in Q : Is(toks, q, "=") <=> Tok(q) = "="
  BY <1>0, <1>3 DEF Is
<1>10. LetForm(x, a, m) <=> \E p \in P : \E q \in Q : \E ann : \E e \in Ex(0, q+1, m-1) :
         LetName(p, a) /\ q > p /\ Tok(q) = "=" /\ Annotated(ann, p, q) /\ x = LetNode(a, p, ann, e)
  BY Zenon DEF LetForm
<1> HIDE DEF N, P, Q
<1>11. \A p \in P : \A q \in Q : q > p => (x \in Formed(p, q) <=>
          \E ann : \E e \in Ex(0, q+1, m-1) : Annotated(ann, p, q) /\ x = LetNode(a, p, ann, e))
  BY <1>6, <1>7, Zenon
<1> QED
  BY <1>5, <1>8, <1>9, <1>10, <1>11, Zenon

SimpleKinds == {"let", "return", "defer", "break", "continue"}
Terminated(m) == Tok(m-1) = ";"

(* the statements without blocks, member by member *)
LEMMA InSimple ==
  ASSUME toks \in Inputs, NEW a \in DOMAIN toks, NEW m \in DOMAIN toks, NEW x
  PROVE  /\ Tok(a) = "let" => (x \in PlainOf(a, m) <=> LetForm(x, a, m))
         /\ Tok(a) = "return" => (x \in PlainOf(a, m) <=> \/ m = a + 2 /\ x = Return(NoExpr)
                                                          \/ m # a + 2 /\ \E e \in Ex(0, a+1, m-1) : x = Return(e))
         /\ Tok(a) = "defer" => (x \in PlainOf(a, m) <=> \E e \in Ex(0, a+1, m-1) : x = Defer(e))
         /\ Tok(a) = "break" => (x \in PlainOf(a, m) <=> m = a + 2 /\ x = Break)
         /\ Tok(a) = "continue" => (x \in PlainOf(a, m) <=> m = a + 2 /\ x = Continue)
         /\ Tok(a) \notin SimpleKinds => (x \in PlainOf(a, m) <=> \E e \in Ex(0, a, m-1) : x = ExprStmt(e))
<1>1. Tok(a) = toks[a].k
  BY Within
<1>2. CASE Tok(a) = "let"
  <2>1. PlainOf(a, m) = Lets(toks, TypesIn(toks), ExprsIn(toks), a, m)
    BY <1>1, <1>2 DEF PlainOf, Simples, Is
  <2> QED
    BY <1>2, <2>1, InLets DEF SimpleKinds
<1>3. CASE Tok(a) = "return"
  <2>1. PlainOf(a, m) = IF m = a + 2 THEN {Return(NoExpr)} ELSE {Return(e) : e \in Ex(0, a+1, m-1)}
    BY <1>1, <1>3 DEF PlainOf, Simples, Is, Ex
  <2> QED
    BY <1>3, <2>1 DEF SimpleKinds
<1>4. CASE Tok(a) = "defer"
  <2>1. PlainOf(a, m) = {Defer(e) : e \in Ex(0, a+1, m-1)}
    BY <1>1, <1>4 DEF PlainOf, Simples, Is, Ex
  <2> QED
    BY <1>4, <2>1 DEF SimpleKinds
<1>5. CASE Tok(a) = "break"
  <2>1. PlainOf(a, m) = IF m = a + 2 THEN {Break} ELSE {}
    BY <1>1, <1>5 DEF PlainOf, Simples, Is
  <2> QED
    BY <1>5, <2>1 DEF SimpleKinds
<1>6. CASE Tok(a) = "continue"
  <2>1. PlainOf(a, m) = IF m = a + 2 THEN {Continue} ELSE {}
    BY <1>1, <1>6 DEF PlainOf, Simples, Is
  <2> QED
    BY <1>6, <2>1 DEF SimpleKinds
<1>7. CASE Tok(a) \notin SimpleKinds
  <2>1. PlainOf(a, m) = {ExprStmt(e) : e \in Ex(0, a, m-1)}
    BY <1>1, <1>7 DEF PlainOf, Simples, Is, Ex, SimpleKinds
  <2> QED
    BY <1>7, <2>1 DEF SimpleKinds
<1> QED
  BY <1>2, <1>3, <1>4, <1>5, <1>6, <1>7 DEF SimpleKinds

(* The statements at a are what r says: one, up to r.i, or none.           *)
Settles(a, r) ==
  \A m \in a+1 .. Len(toks) : \A s : StatementForm(StmtsIn(toks), s, a, m) <=> r.ok /\ m = r.i /\ s = <<r.e>>
(* the same of the statements without blocks *)
Plain(a, r) ==
  \A m \in DOMAIN toks : m > a => \A x : Terminated(m) /\ x \in PlainOf(a, m) <=> r.ok /\ m = r.i /\ x = r.e

(* at any other token than if and while, the first statement is one without blocks *)
LEMMA PlainSettles ==
  ASSUME toks \in Inputs, NEW a \in DOMAIN toks, Tok(a) \notin {"if", "while"}, NEW r, Plain(a, r)
  PROVE  Settles(a, r)
<1>1. \A m \in a+1 .. Len(toks) : m \in DOMAIN toks /\ m > a
  BY Positions
<1>2. \A m, s : StatementForm(StmtsIn(toks), s, a, m) <=> \E x : Terminated(m) /\ x \in PlainOf(a, m) /\ s = <<x>>
  BY Zenon DEF StatementForm, Terminated
<1>3. \A m \in a+1 .. Len(toks) : \A x : Terminated(m) /\ x \in PlainOf(a, m) <=> r.ok /\ m = r.i /\ x = r.e
  BY <1>1 DEF Plain
<1> QED
  BY <1>2, <1>3, Zenon DEF Settles

(* an expression up to its semicolon or parenthesis is what ExprThen returns *)
LEMMA ExprEnded ==
  ASSUME toks \in Inputs, NEW j \in DOMAIN toks, NEW p, p.ok, p.i = j, NEW k \in Closers,
         NEW m \in Int, m-1 \in DOMAIN toks, NEW e
  PROVE  Tok(m-1) = k /\ e \in Ex(0, j, m-1) <=>
           ExprThen(p, k).ok /\ m = ExprThen(p, k).i /\ e = ExprThen(p, k).e
<1> DEFINE r == ExprThen(p, k)
<1>1. /\ r.ok => /\ r.i \in DOMAIN toks /\ r.i - 1 \in DOMAIN toks /\ r.i > j + 1
                 /\ Tok(r.i - 1) = k /\ r.e \in Ex(0, j, r.i - 1)
      /\ \A q \in DOMAIN toks : \A x \in Ex(0, j, q) : Tok(q) = k => r = Result(x, q+1)
  BY ExprUpTo
<1>2. (m-1)+1 = m
  OBVIOUS
<1> HIDE DEF r
<1>3. Tok(m-1) = k /\ e \in Ex(0, j, m-1) => r = Result(e, m)
  BY <1>1, <1>2
<1>4. Tok(m-1) = k /\ e \in Ex(0, j, m-1) => r.ok /\ r.i = m /\ r.e = e
  BY <1>3, Results
<1>5. (Tok(m-1) = k /\ e \in Ex(0, j, m-1)) <=> (r.ok /\ m = r.i /\ e = r.e)
  BY <1>1, <1>4
<1> QED
  BY <1>5, Zenon DEF r

(* no expression at a token that cannot begin one *)
LEMMA NoExprAt ==
  ASSUME toks \in Inputs, NEW j \in DOMAIN toks, Tok(j) \notin Starters \cup {"!", "-"},
         NEW m \in DOMAIN toks, NEW k \in Closers, Tok(m) = k, NEW e \in Ex(0, j, m)
  PROVE  FALSE
<1>1. ~Returned(0, j).ok /\ Decides(0, j)
  <2>1. 0 \in 0 .. 8
    OBVIOUS
  <2> QED
    BY <2>1, Refuses, ExprsDecided
<1>2. Tok(m) \notin Continues(0)
  BY CloserKinds, Zenon
<1>3. Returned(0, j) = Result(e, m)
  BY <1>1, <1>2 DEF Decides
<1> QED
  BY <1>1, <1>3, Results

Semi == ";"

(* the solver cannot tell some strings of one character apart: they get names *)
LEMMA Semicolon ==
  /\ \A m : Terminated(m) <=> Tok(m-1) = Semi
  /\ Semi \in Closers /\ Semi \notin Starters \cup {"!", "-"}
  /\ Semi \notin {"eof", "none", "[", "=", ":"}
<1>1. Semi \in Closers
  BY CloserKinds DEF Semi
<1>2. Semi \notin Starters \cup {"!", "-"}
  BY Zenon DEF Semi, Starters, LiteralKinds
<1>3. Semi \notin {"eof", "none", "[", "=", ":"}
  BY Zenon DEF Semi
<1>4. \A m : Terminated(m) <=> Tok(m-1) = Semi
  BY Zenon DEF Terminated, Semi
<1> QED
  BY <1>1, <1>2, <1>3, <1>4, Zenon

LEMMA WithPlain ==
  ASSUME toks \in Inputs, NEW a \in DOMAIN toks, NEW r, NEW x,
         \A m \in DOMAIN toks : m > a => \A y : Terminated(m) /\ y \in PlainOf(a, m) <=> r.ok /\ m = r.i /\ y = x
  PROVE  Plain(a, With(r, x))
<1>1. CASE r.ok
  <2>1. With(r, x).ok /\ With(r, x).i = r.i /\ With(r, x).e = x
    BY <1>1, Withs, Results
  <2> QED
    BY <1>1, <2>1 DEF Plain
<1>2. CASE ~r.ok
  <2>1. ~With(r, x).ok
    BY <1>2, Withs
  <2> QED
    BY <1>2, <2>1 DEF Plain
<1> QED
  BY <1>1, <1>2

ReturnAt(a) ==
  IF Tok(a+1) = ";" THEN Result(Return(NoExpr), a+2)
  ELSE With(ExprThen(After(a+1), ";"), Return(ExprThen(After(a+1), ";").e))

LEMMA AfterIs ==
  ASSUME NEW j
  PROVE  After(j).ok /\ After(j).i = j /\ After(j).e = NoType
  BY DEF After, Result

(* return, with and without a value *)
LEMMA PlainReturn ==
  ASSUME toks \in Inputs, NEW a \in DOMAIN toks, Tok(a) = "return"
  PROVE  Plain(a, ReturnAt(a))
<1> DEFINE p == After(a+1)
           r == ExprThen(p, Semi)
<1>0. a \in Nat /\ a+1 \in DOMAIN toks
  BY Positions
<1>1. p.ok /\ p.i = a+1
  BY AfterIs
<1> HIDE DEF p
<1>2. ReturnAt(a) = IF Tok(a+1) = Semi THEN Result(Return(NoExpr), a+2) ELSE With(r, Return(r.e))
  BY Zenon DEF ReturnAt, Semi, p
<1>3. \A m \in DOMAIN toks : m > a => m \in Int /\ m-1 \in DOMAIN toks /\ (m = a+2 => m-1 = a+1)
  BY Positions
<1>4. \A m \in DOMAIN toks : m > a => \A e : (Tok(m-1) = Semi /\ e \in Ex(0, a+1, m-1)) <=> (r.ok /\ m = r.i /\ e = r.e)
  BY <1>0, <1>1, <1>3, ExprEnded, Semicolon
<1> HIDE DEF r
<1>5. \A m \in DOMAIN toks : m > a => \A x : Terminated(m) /\ x \in PlainOf(a, m) <=>
        /\ Tok(m-1) = Semi
        /\ \/ m = a + 2 /\ x = Return(NoExpr)
           \/ m # a + 2 /\ \E e \in Ex(0, a+1, m-1) : x = Return(e)
  BY InSimple, Semicolon
<1>6. CASE Tok(a+1) = Semi
  <2>1. \A m \in DOMAIN toks : m > a /\ Tok(m-1) = Semi => Ex(0, a+1, m-1) = {}
    BY <1>0, <1>3, <1>6, NoExprAt, Semicolon
  <2>2. \A m \in DOMAIN toks : m > a => \A x : Terminated(m) /\ x \in PlainOf(a, m) <=> m = a + 2 /\ x = Return(NoExpr)
    BY <1>3, <1>5, <1>6, <2>1
  <2> DEFINE q == Result(Return(NoExpr), a+2)
  <2>3. q.ok /\ q.i = a + 2 /\ q.e = Return(NoExpr)
    BY Results
  <2> HIDE DEF q
  <2>4. Plain(a, q)
    BY <2>2, <2>3 DEF Plain
  <2> QED
    BY <1>2, <1>6, <2>4 DEF q
<1>7. CASE Tok(a+1) # Semi
  <2>1. \A m \in DOMAIN toks : m > a => \A x : Terminated(m) /\ x \in PlainOf(a, m) <=>
          \E e : (Tok(m-1) = Semi /\ e \in Ex(0, a+1, m-1)) /\ x = Return(e)
    BY <1>3, <1>5, <1>7
  <2>2. \A m \in DOMAIN toks : m > a => \A x : Terminated(m) /\ x \in PlainOf(a, m) <=> r.ok /\ m = r.i /\ x = Return(r.e)
    BY <1>4, <2>1, Zenon
  <2>3. Plain(a, With(r, Return(r.e)))
    BY <2>2, WithPlain
  <2> QED
    BY <1>2, <1>7, <2>3
<1> QED
  BY <1>6, <1>7

LEMMA PlainDefer ==
  ASSUME toks \in Inputs, NEW a \in DOMAIN toks, Tok(a) = "defer", NEW r, r = ExprThen(After(a+1), Semi)
  PROVE  Plain(a, With(r, Defer(r.e)))
<1> DEFINE p == After(a+1)
<1>0. a \in Nat /\ a+1 \in DOMAIN toks
  BY Positions
<1>1. p.ok /\ p.i = a+1
  BY AfterIs
<1>2. r = ExprThen(p, Semi)
  OBVIOUS
<1> HIDE DEF p
<1>3. \A m \in DOMAIN toks : m > a => m \in Int /\ m-1 \in DOMAIN toks
  BY Positions
<1>4. \A m \in DOMAIN toks : m > a => \A e : (Tok(m-1) = Semi /\ e \in Ex(0, a+1, m-1)) <=> (r.ok /\ m = r.i /\ e = r.e)
  BY <1>0, <1>1, <1>2, <1>3, ExprEnded, Semicolon
<1>5. \A m \in DOMAIN toks : m > a => \A x : Terminated(m) /\ x \in PlainOf(a, m) <=>
        \E e : (Tok(m-1) = Semi /\ e \in Ex(0, a+1, m-1)) /\ x = Defer(e)
  BY InSimple, Semicolon
<1>6. \A m \in DOMAIN toks : m > a => \A x : Terminated(m) /\ x \in PlainOf(a, m) <=> r.ok /\ m = r.i /\ x = Defer(r.e)
  BY <1>4, <1>5, Zenon
<1> QED
  BY <1>6, WithPlain

LEMMA PlainExpr ==
  ASSUME toks \in Inputs, NEW a \in DOMAIN toks, Tok(a) \notin SimpleKinds, NEW r, r = ExprThen(After(a), Semi)
  PROVE  Plain(a, With(r, ExprStmt(r.e)))
<1> DEFINE p == After(a)
<1>1. p.ok /\ p.i = a
  BY AfterIs
<1>2. r = ExprThen(p, Semi)
  OBVIOUS
<1> HIDE DEF p
<1>3. \A m \in DOMAIN toks : m > a => m \in Int /\ m-1 \in DOMAIN toks
  BY Positions
<1>4. \A m \in DOMAIN toks : m > a => \A e : (Tok(m-1) = Semi /\ e \in Ex(0, a, m-1)) <=> (r.ok /\ m = r.i /\ e = r.e)
  BY <1>1, <1>2, <1>3, ExprEnded, Semicolon
<1>5. \A m \in DOMAIN toks : m > a => \A x : Terminated(m) /\ x \in PlainOf(a, m) <=>
        \E e : (Tok(m-1) = Semi /\ e \in Ex(0, a, m-1)) /\ x = ExprStmt(e)
  BY InSimple, Semicolon
<1>6. \A m \in DOMAIN toks : m > a => \A x : Terminated(m) /\ x \in PlainOf(a, m) <=> r.ok /\ m = r.i /\ x = ExprStmt(r.e)
  BY <1>4, <1>5, Zenon
<1> QED
  BY <1>6, WithPlain

LEMMA PlainJump ==
  ASSUME toks \in Inputs, NEW a \in DOMAIN toks, NEW r, r = Expect(After(a+1), Semi), NEW node,
         \/ Tok(a) = "break" /\ node = Break
         \/ Tok(a) = "continue" /\ node = Continue
  PROVE  Plain(a, With(r, node))
<1>0. a \in Nat /\ (a+2)-1 = a+1 /\ (a+1)+1 = a+2
  BY Positions
<1> DEFINE p == After(a+1)
<1>1. p.ok /\ p.i = a+1 /\ r = Expect(p, Semi)
  BY AfterIs
<1> HIDE DEF p
<1>2. r.ok <=> Tok(a+1) = Semi
  <2>1. CASE Tok(a+1) = Semi
    BY <1>1, <2>1, Expects, Results
  <2>2. CASE Tok(a+1) # Semi
    BY <1>1, <2>2, Expects
  <2> QED
    BY <2>1, <2>2
<1>3. r.ok => r.i = a+2
  BY <1>0, <1>1, Expects
<1>4. \A m \in DOMAIN toks : m > a => \A x : Terminated(m) /\ x \in PlainOf(a, m) <=> Tok(m-1) = Semi /\ m = a + 2 /\ x = node
  BY InSimple, Semicolon
<1>5. \A m \in DOMAIN toks : m > a => \A x : Terminated(m) /\ x \in PlainOf(a, m) <=> r.ok /\ m = r.i /\ x = node
  BY <1>0, <1>2, <1>3, <1>4
<1> QED
  BY <1>5, WithPlain

-----------------------------------------------------------------------------
(* let                                                                     *)

NameAfter(a) ==
  IF Tok(a+1) = "unique" THEN Expect(From(ParseType, Expect(After(a+2), "<")), ">") ELSE After(a+1)
NamedAt(name) == With(Expect(name, "ident"), NoType)
AnnAt(named) == IF named.ok /\ Tok(named.i) = ":" THEN From(ParseType, Expect(named, ":")) ELSE named

(* the name that is declared *)
LEMMA LetNamed ==
  ASSUME toks \in Inputs, NEW a \in DOMAIN toks, a+1 \in DOMAIN toks, NEW p, NEW name, name = NameAfter(a)
  PROVE  /\ p \in DOMAIN toks /\ LetName(p, a) => name.ok /\ name.i = p
         /\ name.ok /\ Tok(name.i) = "ident" => name.i \in DOMAIN toks /\ LetName(name.i, a)
         /\ name.ok /\ Tok(name.i) = "ident" => (name.i # a + 1 <=> Tok(a+1) = "unique")
<1>0. /\ a \in Nat /\ a+1 > a /\ (a+1)+1 = a+2 /\ (a+2)+1 = a+3
      /\ \A m \in DOMAIN toks : m \in Nat /\ (m-1)+1 = m /\ (m > a+4 => m # a+1 /\ m > a /\ m-1 \in DOMAIN toks)
      /\ Tok(a+1) = "unique" => a+2 \in DOMAIN toks
      /\ a+2 \in DOMAIN toks /\ Tok(a+2) = "<" => a+3 \in DOMAIN toks
  BY Positions
<1>1. CASE Tok(a+1) = "unique"
  <2> DEFINE u == After(a+2)
             lt == Expect(u, "<")
             r == Expect(From(ParseType, lt), ">")
  <2>1. name = r
    BY <1>1 DEF NameAfter
  <2>2. u.ok /\ u.i = a+2
    BY AfterIs
  <2> HIDE DEF u
  <2>3. Tok(a+2) = "<" => lt.ok /\ lt.i = a+3
    <3>1. Tok(a+2) = "<" => lt = Result(u.e, (a+2)+1)
      BY <2>2, Expects
    <3> QED
      BY <1>0, <3>1, Results
  <2>4. lt.ok => Tok(a+2) = "<"
    BY <2>2, Expects
  <2> HIDE DEF lt
  <2>5. ASSUME Tok(a+2) = "<"
        PROVE  /\ r.ok => /\ r.i \in DOMAIN toks /\ r.i - 1 \in DOMAIN toks /\ r.i > a + 4
                          /\ Tok(r.i - 1) = ">" /\ r.e \in Ty(a+3, r.i - 1)
               /\ \A m \in DOMAIN toks : \A t \in Ty(a+3, m) : Tok(m) = ">" => r = Result(t, m+1)
    <3>1. a+3 \in DOMAIN toks /\ a+4 = (a+3)+1
      BY <1>0, <1>1, <2>5
    <3>2. ">" \notin {"[", "eof", "none"}
      OBVIOUS
    <3> QED
      BY <2>3, <2>5, <3>1, <3>2, TypeUpTo
  <2>6. r.ok => lt.ok
    BY Expects, Froms
  <2> HIDE DEF r
  <2>7. ASSUME p \in DOMAIN toks, LetName(p, a) PROVE name.ok /\ name.i = p
    <3>1. p > a + 4 /\ Tok(a+2) = "<" /\ Tok(p-1) = ">" /\ Ty(a+3, p-1) # {}
      BY <1>1, <2>7 DEF LetName
    <3>2. PICK t \in Ty(a+3, p-1) : TRUE
      BY <3>1
    <3>3. r = Result(t, p)
      BY <1>0, <2>5, <2>7, <3>1
    <3> QED
      BY <2>1, <3>3, Results
  <2>8. ASSUME name.ok, Tok(name.i) = "ident"
        PROVE  name.i \in DOMAIN toks /\ LetName(name.i, a) /\ name.i # a + 1
    <3>1. Tok(a+2) = "<"
      BY <2>1, <2>4, <2>6, <2>8
    <3> QED
      BY <1>0, <1>1, <2>1, <2>5, <2>8, <3>1 DEF LetName
  <2> QED
    BY <1>1, <2>7, <2>8
<1>2. CASE Tok(a+1) # "unique"
  <2>1. name.ok /\ name.i = a+1
    BY <1>2, AfterIs DEF NameAfter
  <2> QED
    BY <1>0, <1>2, <2>1 DEF LetName
<1> QED
  BY <1>1, <1>2

(* the annotation behind it, which "=" follows *)
LEMMA LetAnnotated ==
  ASSUME toks \in Inputs, NEW p \in DOMAIN toks, NEW named, named = Result(NoType, p+1), p+1 \in DOMAIN toks,
         NEW q \in DOMAIN toks, q > p, NEW t
  PROVE  Tok(q) = "=" /\ Annotated(t, p, q) <=>
           AnnAt(named).ok /\ AnnAt(named).i = q /\ AnnAt(named).e = t /\ Tok(q) = "="
<1>0. /\ p \in Nat /\ (p+1)+1 = p+2 /\ \A m \in DOMAIN toks : m \in Nat
      /\ Tok(p+1) = ":" => p+2 \in DOMAIN toks
  BY Positions
<1>1. named.ok /\ named.i = p+1 /\ named.e = NoType
  BY Results
<1>2. CASE Tok(p+1) = ":"
  <2>1. AnnAt(named) = ParseType[p+2]
    <3> DEFINE c == Expect(named, ":")
    <3>1. c = Result(NoType, (p+1)+1)
      BY <1>1, <1>2, Expects
    <3>2. AnnAt(named) = From(ParseType, c)
      BY <1>1, <1>2 DEF AnnAt
    <3>3. c.ok /\ c.i = p+2
      BY <1>0, <3>1, Results
    <3> HIDE DEF c
    <3> QED
      BY <3>2, <3>3, Froms
  <2>2. TypeDecided(p+2) /\ Reaches(ParseType[p+2], (p+2)+1)
    BY <1>0, <1>2, TypesDecided, TypeCalls
  <2>3. Annotated(t, p, q) /\ Tok(q) = "=" => ParseType[p+2] = Result(t, q)
    BY <1>2, <2>2 DEF Annotated, TypeDecided
  <2>4. ParseType[p+2].ok /\ ParseType[p+2].i = q /\ ParseType[p+2].e = t => Annotated(t, p, q)
    BY <1>0, <1>2, <2>2 DEF Annotated, TypeDecided, Reaches
  <2> QED
    BY <2>1, <2>3, <2>4, Results
<1>3. CASE Tok(p+1) # ":"
  <2>1. AnnAt(named) = named
    BY <1>1, <1>3 DEF AnnAt
  <2>2. Annotated(t, p, q) <=> q = p+1 /\ t = NoType
    BY <1>3 DEF Annotated
  <2> QED
    BY <1>1, <2>1, <2>2
<1> QED
  BY <1>2, <1>3

(* let: its name, its annotation and its value are each decided by the next token *)
LEMMA PlainLet ==
  ASSUME toks \in Inputs, NEW a \in DOMAIN toks, Tok(a) = "let",
         NEW name, name = NameAfter(a), NEW named, named = NamedAt(name), NEW ann, ann = AnnAt(named),
         NEW eq, eq = Expect(ann, "="), NEW init, init = ExprThen(eq, Semi),
         NEW node, node = [Let(toks[name.i].x, ann.e, init.e) EXCEPT !.uniq = (Tok(a+1) = "unique")]
  PROVE  Plain(a, With(init, node))
<1>0. a \in Nat /\ a+1 \in DOMAIN toks /\ \A m \in DOMAIN toks : m \in Nat
  BY Positions
<1>1. ASSUME NEW p \in DOMAIN toks, LetName(p, a), name.ok, name.i = p
      PROVE  named = Result(NoType, p+1) /\ p+1 \in DOMAIN toks
  <2>1. Tok(p) = "ident"
    BY <1>1 DEF LetName
  <2>2. Expect(name, "ident") = Result(name.e, p+1)
    BY <1>1, <2>1, Expects
  <2>3. p+1 \in DOMAIN toks
    BY <2>1, Positions
  <2> DEFINE r == Expect(name, "ident")
  <2>4. r.ok /\ r.i = p+1
    BY <2>2, Results
  <2>5. named = With(r, NoType)
    BY DEF NamedAt
  <2> HIDE DEF r
  <2> QED
    BY <2>3, <2>4, <2>5, Withs
<1>2. ASSUME NEW p \in DOMAIN toks, LetName(p, a), name.ok, name.i = p
      PROVE  \A t, e : [Let(toks[p].x, t, e) EXCEPT !.uniq = (Tok(a+1) = "unique")] = LetNode(a, p, t, e)
  <2>1. Tok(name.i) = "ident"
    BY <1>2 DEF LetName
  <2>2. p # a+1 <=> Tok(a+1) = "unique"
    BY <1>0, <1>2, <2>1, LetNamed
  <2>3. (p # a+1) = (Tok(a+1) = "unique")
    BY <2>2
  <2> QED
    BY <2>3 DEF LetNode
<1>3. ASSUME NEW m \in DOMAIN toks, m > a, NEW x, Terminated(m), x \in PlainOf(a, m)
      PROVE  init.ok /\ m = init.i /\ x = node
  <2>0. LetForm(x, a, m) /\ Tok(m-1) = Semi
    BY <1>3, InSimple, Semicolon
  <2>1. PICK p \in a+1 .. m-2 : \E q \in a+2 .. m-2 : \E t : \E e \in Ex(0, q+1, m-1) :
          LetName(p, a) /\ q > p /\ Tok(q) = "=" /\ Annotated(t, p, q) /\ x = LetNode(a, p, t, e)
    BY <2>0 DEF LetForm
  <2>2. PICK q \in a+2 .. m-2 : \E t : \E e \in Ex(0, q+1, m-1) :
          LetName(p, a) /\ q > p /\ Tok(q) = "=" /\ Annotated(t, p, q) /\ x = LetNode(a, p, t, e)
    BY <2>1
  <2>3. PICK t : \E e \in Ex(0, q+1, m-1) :
          LetName(p, a) /\ q > p /\ Tok(q) = "=" /\ Annotated(t, p, q) /\ x = LetNode(a, p, t, e)
    BY <2>2
  <2>4. PICK e \in Ex(0, q+1, m-1) :
          LetName(p, a) /\ q > p /\ Tok(q) = "=" /\ Annotated(t, p, q) /\ x = LetNode(a, p, t, e)
    BY <2>3
  <2>5. p \in DOMAIN toks /\ q \in DOMAIN toks /\ q+1 \in DOMAIN toks /\ m \in Int /\ m-1 \in DOMAIN toks
    BY <1>0, <2>1, <2>2, Positions
  <2>6. name.ok /\ name.i = p
    BY <1>0, <2>4, <2>5, LetNamed
  <2>7. named = Result(NoType, p+1) /\ p+1 \in DOMAIN toks
    BY <1>1, <2>4, <2>5, <2>6
  <2>8. ann.ok /\ ann.i = q /\ ann.e = t
    BY <2>4, <2>5, <2>7, LetAnnotated
  <2>9. eq = Result(t, q+1)
    BY <2>4, <2>8, Expects
  <2>10. eq.ok /\ eq.i = q+1
    BY <2>9, Results
  <2>11. init.ok /\ m = init.i /\ e = init.e
    BY <2>0, <2>5, <2>10, ExprEnded, Semicolon
  <2>12. node = LetNode(a, p, t, e)
    BY <1>2, <2>4, <2>5, <2>6, <2>8, <2>11
  <2> QED
    BY <2>4, <2>11, <2>12
<1>4. ASSUME init.ok
      PROVE  Terminated(init.i) /\ node \in PlainOf(a, init.i)
  <2>1. eq.ok
    BY <1>4, Expects, Froms DEF ExprThen
  <2>2. ann.ok /\ Tok(ann.i) = "=" /\ eq.i = ann.i + 1
    BY <2>1, Expects
  <2>3. named.ok
    <3> DEFINE c == Expect(named, ":")
    <3>1. c.ok => named.ok
      BY Expects
    <3>2. ann = IF named.ok /\ Tok(named.i) = ":" THEN From(ParseType, c) ELSE named
      BY DEF AnnAt
    <3> HIDE DEF c
    <3> QED
      BY <2>2, <3>1, <3>2, Froms
  <2>4. name.ok /\ Tok(name.i) = "ident"
    <3> DEFINE c == Expect(name, "ident")
    <3>1. c.ok => name.ok /\ Tok(name.i) = "ident"
      BY Expects
    <3>2. named = With(c, NoType)
      BY DEF NamedAt
    <3> HIDE DEF c
    <3> QED
      BY <2>3, <3>1, <3>2, Withs
  <2> DEFINE p == name.i
             q == ann.i
             m == init.i
  <2>5. p \in DOMAIN toks /\ LetName(p, a)
    BY <1>0, <2>4, LetNamed
  <2>6. named = Result(NoType, p+1) /\ p+1 \in DOMAIN toks
    BY <1>1, <2>4, <2>5
  <2>7. q \in DOMAIN toks /\ q >= p+1
    <3>0. p+1 \in Nat /\ p+1 >= p+1
      BY <1>0, <2>5
    <3>1. Reaches(named, p+1)
      BY <2>6, <3>0, Results DEF Reaches
    <3>2. \A k \in DOMAIN toks : Reaches(ParseType[k], k+1)
      BY TypesReach
    <3> HIDE DEF p
    <3>3. Reaches(Expect(named, ":"), p+1)
      BY <3>0, <3>1, Reach
    <3>4. Reaches(From(ParseType, Expect(named, ":")), p+1)
      BY <3>0, <3>2, <3>3, Reach
    <3>5. Reaches(ann, p+1)
      BY <3>1, <3>4 DEF AnnAt
    <3> QED
      BY <2>2, <3>5 DEF Reaches
  <2>8. q+1 \in DOMAIN toks
    BY <2>2, Positions
  <2>9. /\ m \in DOMAIN toks /\ m - 1 \in DOMAIN toks /\ m > (q+1) + 1
        /\ Tok(m - 1) = Semi /\ init.e \in Ex(0, q+1, m - 1)
    <3>1. eq.i = q+1
      BY <2>2
    <3> HIDE DEF q
    <3> QED
      BY <1>4, <2>1, <2>8, <3>1, ExprUpTo, Semicolon
  <2>10. Annotated(ann.e, p, q)
    <3>1. q > p
      BY <1>0, <2>5, <2>7
    <3> QED
      BY <2>2, <2>5, <2>6, <2>7, <3>1, LetAnnotated
  <2>11. node = LetNode(a, p, ann.e, init.e)
    BY <1>2, <2>4, <2>5
  <2>12. p \in a+1 .. m-2 /\ q \in a+2 .. m-2 /\ q > p
    <3>1. p > a
      BY <2>5 DEF LetName
    <3>2. p \in Nat /\ q \in Nat /\ m \in Nat
      BY <1>0, <2>5, <2>7, <2>9
    <3> HIDE DEF p, q, m
    <3> QED
      BY <1>0, <2>7, <2>9, <3>1, <3>2
  <2> HIDE DEF p, q, m
  <2>13. LetForm(node, a, m)
    BY <2>2, <2>5, <2>9, <2>10, <2>11, <2>12 DEF LetForm, q
  <2> QED
    BY <2>9, <2>13, InSimple, Semicolon DEF m
<1>5. \A m \in DOMAIN toks : m > a => \A x : Terminated(m) /\ x \in PlainOf(a, m) <=> init.ok /\ m = init.i /\ x = node
  BY <1>3, <1>4
<1> QED
  BY <1>5, WithPlain

LBrace == "{"
RBrace == "}"

LEMMA BraceTokens ==
  /\ RBrace \notin {"eof", "none"} /\ LBrace \notin {"eof", "none"} /\ LBrace # RBrace
  /\ LBrace \notin {"[", "eof", "none"}
  /\ RBrace \notin {"let", "return", "defer", "break", "continue", "if", "while", "else"}
<1>1. /\ RBrace \notin {"eof", "none"} /\ LBrace \notin {"eof", "none"} /\ LBrace # RBrace
      /\ LBrace \notin {"[", "eof", "none"}
  BY Zenon DEF RBrace, LBrace
<1>2. RBrace \notin {"let", "return", "defer", "break", "continue", "if", "while", "else"}
  BY Zenon DEF RBrace
<1> QED
  BY <1>1, <1>2, Zenon

-----------------------------------------------------------------------------
(* The rest of the input.  W says, of each RBrace that can end the innermost  *)
(* block, what can follow it: the rest of the body of the function, and    *)
(* the functions behind; TailsIn says it of the statements from a on.      *)

(* the statements up to the end of a block, and one of the things in W behind it *)
TailsIn(ts, W, a) ==
  UNION {{<<s \o w[1], w[2]>> : s \in StmtsIn(ts)[<<a, e>>], w \in W[e]} : e \in {d \in DOMAIN ts : ts[d].k = RBrace}}
KindAt(ts, j) == IF j \in DOMAIN ts THEN ts[j].k ELSE "none"

(* what can follow the RBrace of a function, a loop, an else and a then *)
EndFunc(ts) == [b \in DOMAIN ts |-> {<< << >>, rest>> : rest \in FuncsIn(ts)[b+1]}]
EndLoop(ts, W) == [b \in DOMAIN ts |-> {<< <<EndWhile>> \o v[1], v[2]>> : v \in TailsIn(ts, W, b+1)}]
EndElse(ts, W) == [b \in DOMAIN ts |-> {<< <<EndIf>> \o v[1], v[2]>> : v \in TailsIn(ts, W, b+1)}]
ElseTails(ts, W, b) ==
  IF KindAt(ts, b+1) = "else" /\ KindAt(ts, b+2) = LBrace THEN TailsIn(ts, EndElse(ts, W), b+3) ELSE {}
EndThen(ts, W) ==
  [b \in DOMAIN ts |-> {<< <<Else, EndIf>> \o v[1], v[2]>> : v \in TailsIn(ts, W, b+1)}
                       \cup {<< <<Else>> \o v[1], v[2]>> : v \in ElseTails(ts, W, b)}]
EndOf(ts, kind, W) ==
  CASE kind = "while" -> EndLoop(ts, W) [] kind = "else" -> EndElse(ts, W) [] kind = "then" -> EndThen(ts, W)

Tails(W, a) == TailsIn(toks, W, a)
Pair(v) == v = <<v[1], v[2]>> /\ IsSeq(v[1])
Good(W) == \A b \in DOMAIN toks : Tok(b) = RBrace => \A w \in W[b] : Pair(w)

LEMMA InTails ==
  ASSUME NEW W, NEW a, NEW v
  PROVE  v \in Tails(W, a) <=> \E e \in DOMAIN toks : Tok(e) = RBrace /\ \E s \in St(a, e), w \in W[e] : v = <<s \o w[1], w[2]>>
<1> DEFINE Formed(s, w) == <<s \o w[1], w[2]>>
           At(e) == {Formed(s, w) : s \in St(a, e), w \in W[e]}
           E == {d \in DOMAIN toks : toks[d].k = RBrace}
<1>1. Tails(W, a) = UNION {At(e) : e \in E}
  BY DEF Tails, TailsIn, St
<1>2. \A e : e \in E <=> e \in DOMAIN toks /\ Tok(e) = RBrace
  BY DEF Tok
<1> HIDE DEF Formed, E
<1>3. \A e : v \in At(e) <=> \E s \in St(a, e), w \in W[e] : v = Formed(s, w)
  OBVIOUS
<1> HIDE DEF At
<1>4. v \in Tails(W, a) <=> \E e \in E : v \in At(e)
  BY <1>1
<1> QED
  BY <1>2, <1>3, <1>4, Zenon DEF Formed

LEMMA BodyReaches ==
  ASSUME toks \in Inputs, NEW a \in DOMAIN toks, NEW b \in DOMAIN toks, NEW s \in St(a, b)
  PROVE  b >= a /\ IsSeq(s)
<1>1. BodyForm(StmtsIn(toks), s, a, b) /\ IsSeq(s)
  BY StmtForms
<1>2. a \in Int /\ b \in Int
  BY Positions
<1>3. a = b \/ \E m : m \in a+1 .. b
  BY <1>1, Zenon DEF BodyForm
<1> QED
  BY <1>1, <1>2, <1>3

LEMMA TailsGood ==
  ASSUME toks \in Inputs, NEW W, Good(W), NEW a \in DOMAIN toks, NEW v \in Tails(W, a)
  PROVE  Pair(v)
<1>1. PICK e \in DOMAIN toks : Tok(e) = RBrace /\ \E s \in St(a, e), w \in W[e] : v = <<s \o w[1], w[2]>>
  BY InTails
<1>2. PICK s \in St(a, e), w \in W[e] : v = <<s \o w[1], w[2]>>
  BY <1>1
<1>3. IsSeq(s) /\ IsSeq(w[1])
  BY <1>1, BodyReaches DEF Good, Pair
<1>4. IsSeq(s \o w[1])
  BY <1>3, Concatenation
<1>5. v[1] = s \o w[1] /\ v[2] = w[2]
  BY <1>2
<1> QED
  BY <1>2, <1>4, <1>5 DEF Pair

LEMMA SeqStatement ==
  ASSUME toks \in Inputs, NEW a \in DOMAIN toks, NEW m \in DOMAIN toks, NEW s, StatementForm(StmtsIn(toks), s, a, m)
  PROVE  IsSeq(s)
<1>1. \A c, d \in DOMAIN toks : \A t \in StmtsIn(toks)[<<c, d>>] : IsSeq(t)
  BY StmtForms DEF St
<1> QED
  BY <1>1, StatementIsSeq

(* the statements from a on, one by one *)
OneMore(W, v, a, m) ==
  \E s, u : StatementForm(StmtsIn(toks), s, a, m) /\ u \in Tails(W, m) /\ v = <<s \o u[1], u[2]>>

(* in front of anything but a closing brace: a statement, and a tail behind it *)
LEMMA TailsUnfold ==
  ASSUME toks \in Inputs, NEW W, Good(W), NEW a \in DOMAIN toks, Tok(a) # RBrace, NEW v
  PROVE  v \in Tails(W, a) <=> \E m \in a+1 .. Len(toks) : OneMore(W, v, a, m)
<1>0. a \in Nat /\ DOMAIN toks = 1 .. Len(toks) /\ Len(toks) \in Nat
  BY Positions
<1>1. ASSUME v \in Tails(W, a)
      PROVE  \E m \in a+1 .. Len(toks) : OneMore(W, v, a, m)
  <2>1. PICK e \in DOMAIN toks : Tok(e) = RBrace /\ \E s \in St(a, e), w \in W[e] : v = <<s \o w[1], w[2]>>
    BY <1>1, InTails
  <2>2. PICK s0 \in St(a, e), w \in W[e] : v = <<s0 \o w[1], w[2]>>
    BY <2>1
  <2>3. BodyForm(StmtsIn(toks), s0, a, e) /\ a # e
    BY <2>1, StmtForms
  <2>4. PICK m \in a+1 .. e : \E s, rest : StatementForm(StmtsIn(toks), s, a, m) /\ rest \in StmtsIn(toks)[<<m, e>>] /\ s0 = s \o rest
    BY <2>3 DEF BodyForm
  <2>5. PICK s, rest : StatementForm(StmtsIn(toks), s, a, m) /\ rest \in St(m, e) /\ s0 = s \o rest
    BY <2>4 DEF St
  <2>6. m \in DOMAIN toks /\ m \in a+1 .. Len(toks)
    BY <1>0
  <2>7. IsSeq(s) /\ IsSeq(rest) /\ IsSeq(w[1])
    BY <2>1, <2>5, <2>6, SeqStatement, BodyReaches DEF Good, Pair
  <2> DEFINE u == <<rest \o w[1], w[2]>>
  <2>8. u \in Tails(W, m)
    BY <2>1, <2>5, InTails
  <2>9. u[1] = rest \o w[1] /\ u[2] = w[2]
    OBVIOUS
  <2> HIDE DEF u
  <2>11. (s \o rest) \o w[1] = s \o (rest \o w[1])
    <3> DEFINE z == w[1]
    <3>1. IsSeq(z)
      BY <2>7
    <3> HIDE DEF z
    <3>2. (s \o rest) \o z = s \o (rest \o z)
      BY <2>7, <3>1, ConcatTwice
    <3> QED
      BY <3>2 DEF z
  <2>10. v = <<s \o u[1], u[2]>>
    BY <2>2, <2>5, <2>9, <2>11
  <2>12. OneMore(W, v, a, m)
    BY <2>5, <2>8, <2>10 DEF OneMore
  <2> QED
    BY <2>6, <2>12
<1>2. ASSUME NEW m \in a+1 .. Len(toks), NEW s, NEW u, StatementForm(StmtsIn(toks), s, a, m), u \in Tails(W, m),
             v = <<s \o u[1], u[2]>>
      PROVE  v \in Tails(W, a)
  <2>0. u \in Tails(W, m)
    BY <1>2
  <2>1. PICK e \in DOMAIN toks : Tok(e) = RBrace /\ \E rest \in St(m, e), w \in W[e] : u = <<rest \o w[1], w[2]>>
    BY <2>0, InTails
  <2>2. PICK rest \in St(m, e), w \in W[e] : u = <<rest \o w[1], w[2]>>
    BY <2>1
  <2>3. m \in DOMAIN toks
    BY <1>0
  <2>4. e >= m /\ IsSeq(rest) /\ IsSeq(s) /\ IsSeq(w[1])
    BY <1>2, <2>1, <2>3, SeqStatement, BodyReaches DEF Good, Pair
  <2>5. a # e /\ m \in a+1 .. e
    BY <1>0, <2>4
  <2>6. BodyForm(StmtsIn(toks), s \o rest, a, e)
    BY <1>2, <2>5 DEF BodyForm, St
  <2>7. s \o rest \in St(a, e)
    BY <2>6, StmtForms
  <2>8. u[1] = rest \o w[1] /\ u[2] = w[2]
    BY <2>2
  <2>10. (s \o rest) \o w[1] = s \o (rest \o w[1])
    <3> DEFINE z == w[1]
    <3>1. IsSeq(z)
      BY <2>4
    <3> HIDE DEF z
    <3>2. (s \o rest) \o z = s \o (rest \o z)
      BY <2>4, <3>1, ConcatTwice
    <3> QED
      BY <3>2 DEF z
  <2>11. v = <<s \o u[1], u[2]>>
    BY <1>2
  <2>9. v = <<(s \o rest) \o w[1], w[2]>>
    BY <2>8, <2>10, <2>11
  <2> QED
    BY <2>1, <2>7, <2>9, InTails
<1>3. ASSUME NEW m \in a+1 .. Len(toks), OneMore(W, v, a, m)
      PROVE  v \in Tails(W, a)
  BY <1>2, <1>3 DEF OneMore
<1> QED
  BY <1>1, <1>3

(* where no statement begins *)
LEMMA NothingAt ==
  ASSUME toks \in Inputs, NEW a \in DOMAIN toks, Tok(a) \in {RBrace, "else", "eof"}, NEW m \in DOMAIN toks, m > a, NEW S, NEW s
  PROVE  ~StatementForm(S, s, a, m)
<1>0. m-1 \in DOMAIN toks
  BY Positions
<1>1. Tok(a) \notin SimpleKinds /\ Tok(a) \notin Starters \cup {"!", "-"} /\ Tok(a) \notin {"if", "while"}
  BY Zenon DEF RBrace, SimpleKinds, Starters, LiteralKinds
<1>2. Terminated(m) => \A x : x \notin PlainOf(a, m)
  BY <1>0, <1>1, InSimple, NoExprAt, Semicolon
<1>3. StatementForm(S, s, a, m) => \E x : Terminated(m) /\ x \in PlainOf(a, m)
  BY <1>1, Zenon DEF StatementForm, Terminated
<1> QED
  BY <1>2, <1>3

(* at the end of a block *)
LEMMA TailsEnd ==
  ASSUME toks \in Inputs, NEW W, Good(W), NEW a \in DOMAIN toks, Tok(a) = RBrace, NEW v
  PROVE  v \in Tails(W, a) <=> v \in W[a]
<1>1. << >> \in St(a, a)
  <2>1. BodyForm(StmtsIn(toks), << >>, a, a)
    BY DEF BodyForm
  <2> QED
    BY <2>1, StmtForms
<1>2. \A w \in W[a] : w = << << >> \o w[1], w[2]>>
  BY ConcatEmpty DEF Good, Pair
<1>3. ASSUME v \in W[a] PROVE v \in Tails(W, a)
  <2>1. v = << << >> \o v[1], v[2]>>
    BY <1>2, <1>3
  <2> QED
    BY <1>1, <1>3, <2>1, InTails
<1>4. ASSUME v \in Tails(W, a) PROVE v \in W[a]
  <2>1. PICK e \in DOMAIN toks : Tok(e) = RBrace /\ \E s \in St(a, e), w \in W[e] : v = <<s \o w[1], w[2]>>
    BY <1>4, InTails
  <2>2. PICK s \in St(a, e), w \in W[e] : v = <<s \o w[1], w[2]>>
    BY <2>1
  <2>3. BodyForm(StmtsIn(toks), s, a, e)
    BY StmtForms
  <2>4. CASE a = e
    <3>1. s = << >>
      BY <2>3, <2>4, Zenon DEF BodyForm
    <3>2. w \in W[a] /\ w = << << >> \o w[1], w[2]>>
      BY <1>2, <2>4
    <3> QED
      BY <2>2, <3>1, <3>2
  <2>5. CASE a # e
    <3>1. \E m \in a+1 .. e : \E t : StatementForm(StmtsIn(toks), t, a, m)
      BY <2>3, <2>5 DEF BodyForm
    <3>2. PICK m \in a+1 .. e : \E t : StatementForm(StmtsIn(toks), t, a, m)
      BY <3>1
    <3>3. m \in DOMAIN toks /\ m > a
      BY Positions
    <3>4. Tok(a) \in {RBrace, "else", "eof"}
      OBVIOUS
    <3> QED
      BY <3>2, <3>3, <3>4, NothingAt
  <2> QED
    BY <2>4, <2>5
<1> QED
  BY <1>3, <1>4

(* v is one of A with the nodes n before it *)
Extends(v, n, A) == \E u \in A : v = <<n \o u[1], u[2]>>

(* what can follow a block, member by member *)
LEMMA InEndFunc ==
  ASSUME NEW b \in DOMAIN toks, NEW v
  PROVE  v \in EndFunc(toks)[b] <=> \E rest \in Fs(b+1) : v = << << >>, rest>>
  BY DEF EndFunc, Fs

LEMMA InEndLoop ==
  ASSUME NEW W, NEW b \in DOMAIN toks, NEW v
  PROVE  v \in EndLoop(toks, W)[b] <=> Extends(v, <<EndWhile>>, Tails(W, b+1))
<1> DEFINE Formed(u) == << <<EndWhile>> \o u[1], u[2]>>
           A == {Formed(u) : u \in Tails(W, b+1)}
<1>1. EndLoop(toks, W)[b] = A
  BY DEF EndLoop, Tails
<1> HIDE DEF Formed
<1>2. v \in A <=> \E u \in Tails(W, b+1) : v = Formed(u)
  OBVIOUS
<1> HIDE DEF A
<1> QED
  BY <1>1, <1>2, Zenon DEF Formed, Extends

LEMMA InEndElse ==
  ASSUME NEW W, NEW b \in DOMAIN toks, NEW v
  PROVE  v \in EndElse(toks, W)[b] <=> Extends(v, <<EndIf>>, Tails(W, b+1))
<1> DEFINE Formed(u) == << <<EndIf>> \o u[1], u[2]>>
           A == {Formed(u) : u \in Tails(W, b+1)}
<1>1. EndElse(toks, W)[b] = A
  BY DEF EndElse, Tails
<1> HIDE DEF Formed
<1>2. v \in A <=> \E u \in Tails(W, b+1) : v = Formed(u)
  OBVIOUS
<1> HIDE DEF A
<1> QED
  BY <1>1, <1>2, Zenon DEF Formed, Extends

LEMMA InEndThen ==
  ASSUME NEW W, NEW b \in DOMAIN toks, NEW v
  PROVE  v \in EndThen(toks, W)[b] <=>
           \/ Extends(v, <<Else, EndIf>>, Tails(W, b+1))
           \/ Extends(v, <<Else>>, ElseTails(toks, W, b))
<1> DEFINE Formed(u) == << <<Else, EndIf>> \o u[1], u[2]>>
           Both(u) == << <<Else>> \o u[1], u[2]>>
           A == {Formed(u) : u \in Tails(W, b+1)}
           B == {Both(u) : u \in ElseTails(toks, W, b)}
<1>1. EndThen(toks, W)[b] = A \cup B
  BY DEF EndThen, Tails
<1> HIDE DEF Formed, Both
<1>2. v \in A <=> \E u \in Tails(W, b+1) : v = Formed(u)
  OBVIOUS
<1>3. v \in B <=> \E u \in ElseTails(toks, W, b) : v = Both(u)
  OBVIOUS
<1> HIDE DEF A, B
<1>4. v \in EndThen(toks, W)[b] <=> v \in A \/ v \in B
  BY <1>1
<1> QED
  BY <1>2, <1>3, <1>4, Zenon DEF Formed, Both, Extends

LEMMA InElseTails ==
  ASSUME NEW W, NEW b
  PROVE  /\ Tok(b+1) = "else" /\ Tok(b+2) = LBrace => ElseTails(toks, W, b) = Tails(EndElse(toks, W), b+3)
         /\ ~(Tok(b+1) = "else" /\ Tok(b+2) = LBrace) => ElseTails(toks, W, b) = {}
  BY DEF ElseTails, KindAt, Tok, Tails

LEMMA PairOf ==
  ASSUME NEW n, IsSeq(n), NEW u, Pair(u), NEW v, v = <<n \o u[1], u[2]>>
  PROVE  Pair(v)
<1> DEFINE s == u[1]
           z == n \o s
<1>1. IsSeq(s)
  BY DEF Pair
<1>2. v = <<z, u[2]>>
  OBVIOUS
<1> HIDE DEF s
<1>3. IsSeq(z)
  BY <1>1, Concatenation
<1> HIDE DEF z
<1>4. v[1] = z /\ v[2] = u[2]
  BY <1>2
<1> QED
  BY <1>2, <1>3, <1>4 DEF Pair

LEMMA TwoNodes == IsSeq(<<Else, EndIf>>)
<1>1. <<Else, EndIf>> \in Seq({Else, EndIf})
  OBVIOUS
<1> QED
  BY <1>1, SeqOfAnything

LEMMA FuncGood == Good(EndFunc(toks))
<1>1. ASSUME NEW b \in DOMAIN toks, NEW w \in EndFunc(toks)[b] PROVE Pair(w)
  <2>1. PICK rest \in Fs(b+1) : w = << << >>, rest>>
    BY InEndFunc, Zenon
  <2> QED
    BY <2>1, EmptyStack DEF Pair
<1> QED
  BY <1>1 DEF Good

LEMMA EndsGood ==
  ASSUME toks \in Inputs, NEW W, Good(W)
  PROVE  Good(EndLoop(toks, W)) /\ Good(EndElse(toks, W)) /\ Good(EndThen(toks, W))
<1>0. \A b \in DOMAIN toks : Tok(b) = RBrace => b+1 \in DOMAIN toks
  BY Positions, BraceTokens
<1>1. \A V, a, v : Good(V) /\ a \in DOMAIN toks /\ v \in Tails(V, a) => Pair(v)
  BY TailsGood
<1>2. IsSeq(<<EndWhile>>) /\ IsSeq(<<EndIf>>) /\ IsSeq(<<Else>>) /\ IsSeq(<<Else, EndIf>>)
  BY OneEntryStack, TwoNodes
<1>3. Good(EndLoop(toks, W))
  <2>1. ASSUME NEW b \in DOMAIN toks, Tok(b) = RBrace, NEW w \in EndLoop(toks, W)[b] PROVE Pair(w)
    <3>0. Extends(w, <<EndWhile>>, Tails(W, b+1))
      BY InEndLoop
    <3>1. PICK u \in Tails(W, b+1) : w = << <<EndWhile>> \o u[1], u[2]>>
      BY <3>0 DEF Extends
    <3>2. Pair(u)
      BY <1>0, <1>1, <2>1
    <3> QED
      BY <1>2, <3>1, <3>2, PairOf
  <2> QED
    BY <2>1 DEF Good
<1>4. Good(EndElse(toks, W))
  <2>1. ASSUME NEW b \in DOMAIN toks, Tok(b) = RBrace, NEW w \in EndElse(toks, W)[b] PROVE Pair(w)
    <3>0. Extends(w, <<EndIf>>, Tails(W, b+1))
      BY InEndElse
    <3>1. PICK u \in Tails(W, b+1) : w = << <<EndIf>> \o u[1], u[2]>>
      BY <3>0 DEF Extends
    <3>2. Pair(u)
      BY <1>0, <1>1, <2>1
    <3> QED
      BY <1>2, <3>1, <3>2, PairOf
  <2> QED
    BY <2>1 DEF Good
<1>5. Good(EndThen(toks, W))
  <2>1. ASSUME NEW b \in DOMAIN toks, Tok(b) = RBrace, NEW w \in EndThen(toks, W)[b] PROVE Pair(w)
    <3>1. \/ Extends(w, <<Else, EndIf>>, Tails(W, b+1))
          \/ Extends(w, <<Else>>, ElseTails(toks, W, b))
      BY InEndThen
    <3>2. CASE Extends(w, <<Else, EndIf>>, Tails(W, b+1))
      <4>1. PICK u \in Tails(W, b+1) : w = << <<Else, EndIf>> \o u[1], u[2]>>
        BY <3>2 DEF Extends
      <4>2. Pair(u)
        BY <1>0, <1>1, <2>1
      <4> QED
        BY <1>2, <4>1, <4>2, PairOf
    <3>3. CASE Extends(w, <<Else>>, ElseTails(toks, W, b))
      <4>1. PICK u \in ElseTails(toks, W, b) : w = << <<Else>> \o u[1], u[2]>>
        BY <3>3 DEF Extends
      <4>2. Tok(b+2) = LBrace /\ u \in Tails(EndElse(toks, W), b+3)
        BY <4>1, InElseTails
      <4>3. b+3 \in DOMAIN toks
        <5>1. (b+2)+1 \in DOMAIN toks /\ b \in Nat
          BY <4>2, Positions, BraceTokens
        <5> QED
          BY <5>1
      <4>4. Pair(u)
        BY <1>1, <1>4, <4>2, <4>3
      <4> QED
        BY <1>2, <4>1, <4>4, PairOf
    <3> QED
      BY <3>1, <3>2, <3>3
  <2> QED
    BY <2>1 DEF Good
<1> QED
  BY <1>3, <1>4, <1>5

-----------------------------------------------------------------------------
(* From what is left at a to what is left at c, behind the nodes n.        *)
Moves(W, a, n, V, c) == \A v : v \in Tails(W, a) <=> Extends(v, n, Tails(V, c))

(* a statement without blocks moves the parser behind it, or nothing can follow *)
LEMMA SimpleMoves ==
  ASSUME toks \in Inputs, NEW W, Good(W), NEW a \in DOMAIN toks, Tok(a) # RBrace, NEW r, Settles(a, r)
  PROVE  /\ r.ok /\ r.i \in a+1 .. Len(toks) => Moves(W, a, <<r.e>>, W, r.i)
         /\ ~r.ok => Tails(W, a) = {}
<1> DEFINE I == a+1 .. Len(toks)
<1>1. \A v : v \in Tails(W, a) <=> \E m \in I : OneMore(W, v, a, m)
  BY TailsUnfold
<1>2. \A m \in I : \A s : StatementForm(StmtsIn(toks), s, a, m) <=> r.ok /\ m = r.i /\ s = <<r.e>>
  BY DEF Settles
<1> HIDE DEF I
<1>3. \A m \in I : \A v : OneMore(W, v, a, m) <=> r.ok /\ m = r.i /\ Extends(v, <<r.e>>, Tails(W, m))
  BY <1>2, Zenon DEF OneMore, Extends
<1>4. r.ok /\ r.i \in I => Moves(W, a, <<r.e>>, W, r.i)
  BY <1>1, <1>3 DEF Moves
<1>5. ~r.ok => \A v : v \notin Tails(W, a)
  BY <1>1, <1>3
<1>6. ~r.ok => Tails(W, a) = {}
  BY <1>5
<1> QED
  BY <1>4, <1>6 DEF I

(* so does the end of a block *)
LEMMA EndMoves ==
  ASSUME toks \in Inputs, NEW W, Good(W), NEW a \in DOMAIN toks, Tok(a) = RBrace
  PROVE  /\ Moves(EndLoop(toks, W), a, <<EndWhile>>, W, a+1)
         /\ Moves(EndElse(toks, W), a, <<EndIf>>, W, a+1)
         /\ Tok(a+1) # "else" => Moves(EndThen(toks, W), a, <<Else, EndIf>>, W, a+1)
         /\ Tok(a+1) = "else" /\ Tok(a+2) = LBrace => Moves(EndThen(toks, W), a, <<Else>>, EndElse(toks, W), a+3)
         /\ Tok(a+1) = "else" /\ Tok(a+2) # LBrace => Tails(EndThen(toks, W), a) = {}
         /\ \A v : v \in Tails(EndFunc(toks), a) <=> \E rest \in Fs(a+1) : v = << << >>, rest>>
<1>0. a+1 \in DOMAIN toks /\ a \in Nat
  BY Positions, BraceTokens
<1>1. Good(EndLoop(toks, W)) /\ Good(EndElse(toks, W)) /\ Good(EndThen(toks, W)) /\ Good(EndFunc(toks))
  BY EndsGood, FuncGood
<1>2. Moves(EndLoop(toks, W), a, <<EndWhile>>, W, a+1)
  <2>1. \A v : v \in Tails(EndLoop(toks, W), a) <=> v \in EndLoop(toks, W)[a]
    BY <1>1, TailsEnd
  <2>2. \A v : v \in EndLoop(toks, W)[a] <=> Extends(v, <<EndWhile>>, Tails(W, a+1))
    BY InEndLoop, Zenon
  <2> QED
    BY <2>1, <2>2, Zenon DEF Moves
<1>3. Moves(EndElse(toks, W), a, <<EndIf>>, W, a+1)
  <2>1. \A v : v \in Tails(EndElse(toks, W), a) <=> v \in EndElse(toks, W)[a]
    BY <1>1, TailsEnd
  <2>2. \A v : v \in EndElse(toks, W)[a] <=> Extends(v, <<EndIf>>, Tails(W, a+1))
    BY InEndElse, Zenon
  <2> QED
    BY <2>1, <2>2, Zenon DEF Moves
<1>4. \A v : v \in Tails(EndThen(toks, W), a) <=>
        \/ Extends(v, <<Else, EndIf>>, Tails(W, a+1))
        \/ Extends(v, <<Else>>, ElseTails(toks, W, a))
  <2>1. \A v : v \in Tails(EndThen(toks, W), a) <=> v \in EndThen(toks, W)[a]
    BY <1>1, TailsEnd
  <2>2. \A v : v \in EndThen(toks, W)[a] <=>
          \/ Extends(v, <<Else, EndIf>>, Tails(W, a+1))
          \/ Extends(v, <<Else>>, ElseTails(toks, W, a))
    BY InEndThen, Zenon
  <2> QED
    BY <2>1, <2>2, Zenon
<1>5. Tok(a+1) = "else" => \A u : u \notin Tails(W, a+1)
  <2> SUFFICES ASSUME Tok(a+1) = "else", NEW u PROVE u \notin Tails(W, a+1)
    OBVIOUS
  <2>1. Tok(a+1) # RBrace /\ Tok(a+1) \in {RBrace, "else", "eof"}
    BY BraceTokens
  <2>2. \A m \in (a+1)+1 .. Len(toks) : m \in DOMAIN toks /\ m > a+1
    BY <1>0, Positions
  <2>3. \A m \in (a+1)+1 .. Len(toks) : \A s : ~StatementForm(StmtsIn(toks), s, a+1, m)
    BY <1>0, <2>1, <2>2, NothingAt
  <2>4. \A m \in (a+1)+1 .. Len(toks) : ~OneMore(W, u, a+1, m)
    BY <2>3, Zenon DEF OneMore
  <2>5. u \in Tails(W, a+1) <=> \E m \in (a+1)+1 .. Len(toks) : OneMore(W, u, a+1, m)
    BY <1>0, <2>1, TailsUnfold
  <2> QED
    BY <2>4, <2>5, Zenon
<1>6. Tok(a+1) # "else" => Moves(EndThen(toks, W), a, <<Else, EndIf>>, W, a+1)
  <2> SUFFICES ASSUME Tok(a+1) # "else" PROVE Moves(EndThen(toks, W), a, <<Else, EndIf>>, W, a+1)
    OBVIOUS
  <2>1. \A u : u \notin ElseTails(toks, W, a)
    BY InElseTails
  <2>2. \A v : ~Extends(v, <<Else>>, ElseTails(toks, W, a))
    BY <2>1, Zenon DEF Extends
  <2> QED
    BY <1>4, <2>2, Zenon DEF Moves
<1>7. Tok(a+1) = "else" /\ Tok(a+2) = LBrace => Moves(EndThen(toks, W), a, <<Else>>, EndElse(toks, W), a+3)
  <2> SUFFICES ASSUME Tok(a+1) = "else", Tok(a+2) = LBrace PROVE Moves(EndThen(toks, W), a, <<Else>>, EndElse(toks, W), a+3)
    OBVIOUS
  <2>1. ElseTails(toks, W, a) = Tails(EndElse(toks, W), a+3)
    BY InElseTails
  <2>2. \A v : ~Extends(v, <<Else, EndIf>>, Tails(W, a+1))
    BY <1>5, Zenon DEF Extends
  <2>3. \A v : v \in Tails(EndThen(toks, W), a) <=> Extends(v, <<Else>>, ElseTails(toks, W, a))
    BY <1>4, <2>2, Zenon
  <2> QED
    BY <2>1, <2>3, Zenon DEF Moves
<1>8. Tok(a+1) = "else" /\ Tok(a+2) # LBrace => Tails(EndThen(toks, W), a) = {}
  <2> SUFFICES ASSUME Tok(a+1) = "else", Tok(a+2) # LBrace PROVE Tails(EndThen(toks, W), a) = {}
    OBVIOUS
  <2>1. \A u : u \notin ElseTails(toks, W, a)
    BY InElseTails
  <2>2. \A v : ~Extends(v, <<Else>>, ElseTails(toks, W, a)) /\ ~Extends(v, <<Else, EndIf>>, Tails(W, a+1))
    BY <1>5, <2>1, Zenon DEF Extends
  <2>3. \A v : v \notin Tails(EndThen(toks, W), a)
    BY <1>4, <2>2, Zenon
  <2> QED
    BY <2>3, Zenon
<1>9. \A v : v \in Tails(EndFunc(toks), a) <=> \E rest \in Fs(a+1) : v = << << >>, rest>>
  <2>1. \A v : v \in Tails(EndFunc(toks), a) <=> v \in EndFunc(toks)[a]
    BY <1>1, TailsEnd
  <2> QED
    BY <2>1, InEndFunc, Zenon
<1> QED
  BY <1>2, <1>3, <1>6, <1>7, <1>8, <1>9

-----------------------------------------------------------------------------
(* Loops and branches: a header, and the blocks behind it.                 *)

HeaderAt(a) == Expect(ExprThen(Expect(After(a+1), "("), ")"), LBrace)
(* the brace at b is behind a header at a with the condition c *)
HeadAt(a, b, c) ==
  /\ b \in DOMAIN toks /\ b >= a+3 /\ Tok(b) = LBrace /\ Tok(b-1) = ")" /\ Tok(a+1) = "("
  /\ c \in Ex(0, a+2, b-1)

(* a condition in parentheses and a brace *)
LEMMA HeaderDecides ==
  ASSUME toks \in Inputs, NEW a \in DOMAIN toks, NEW h, h = HeaderAt(a)
  PROVE  /\ \A b, c : HeadAt(a, b, c) <=> h.ok /\ b = h.i - 1 /\ c = h.e
         /\ h.ok => h.i \in DOMAIN toks /\ h.i > a /\ (h.i - 1) + 1 = h.i
<1> DEFINE q == After(a+1)
           p == Expect(q, "(")
           r == ExprThen(p, ")")
<1>0. a \in Nat /\ DOMAIN toks \subseteq Int
  BY Positions
<1>1. q.ok /\ q.i = a+1
  BY AfterIs
<1>2. ")" \in Closers /\ LBrace \notin {"eof", "none"}
  BY CloserKinds, BraceTokens
<1>3. h = Expect(r, LBrace)
  BY DEF HeaderAt
<1>4. p.ok => p.i = a+2 /\ a+2 \in DOMAIN toks /\ Tok(a+1) = "("
  <2> HIDE DEF q
  <2>1. p.ok => Tok(a+1) = "(" /\ p.i = (a+1)+1
    BY <1>1, Expects
  <2> HIDE DEF p
  <2>2. Tok(a+1) = "(" => (a+1)+1 \in DOMAIN toks
    BY Positions
  <2> QED
    BY <1>0, <2>1, <2>2
<1>5. Tok(a+1) = "(" => p.ok
  <2> HIDE DEF q
  <2>1. Tok(a+1) = "(" => p = Result(q.e, (a+1)+1)
    BY <1>1, Expects
  <2> HIDE DEF p
  <2> QED
    BY <2>1, Results
<1>6. ~p.ok => ~r.ok
  <2> HIDE DEF p
  <2>1. ~p.ok => ~From(ParseExpr, p).ok
    BY Froms
  <2> QED
    BY <2>1, Expects DEF ExprThen
<1> HIDE DEF p, q
<1>7. p.ok => /\ r.ok => /\ r.i \in DOMAIN toks /\ r.i - 1 \in DOMAIN toks /\ r.i > (a+2) + 1
                         /\ Tok(r.i - 1) = ")" /\ r.e \in Ex(0, a+2, r.i - 1)
              /\ \A m \in DOMAIN toks : \A e \in Ex(0, a+2, m) : Tok(m) = ")" => r = Result(e, m+1)
  BY <1>2, <1>4, ExprUpTo
<1> HIDE DEF r
<1>8. h.ok => r.ok /\ Tok(r.i) = LBrace /\ h.e = r.e /\ h.i = r.i + 1
  BY <1>3, Expects
<1>9. r.ok /\ Tok(r.i) = LBrace => h = Result(r.e, r.i + 1)
  BY <1>3, Expects
<1>10. ASSUME h.ok
       PROVE  /\ HeadAt(a, h.i - 1, h.e)
              /\ h.i \in DOMAIN toks /\ h.i > a /\ (h.i - 1) + 1 = h.i
  <2>1. r.ok /\ Tok(r.i) = LBrace /\ h.e = r.e /\ h.i = r.i + 1 /\ p.ok
    BY <1>6, <1>8, <1>10
  <2>2. r.i \in DOMAIN toks /\ r.i + 1 \in DOMAIN toks
    BY <1>2, <2>1, Positions
  <2>3. r.i \in Int /\ h.i - 1 = r.i /\ (h.i - 1) + 1 = h.i
    BY <1>0, <2>1, <2>2
  <2>4. r.i >= a+3 /\ h.i > a
    BY <1>0, <1>7, <2>1, <2>3
  <2> QED
    BY <1>4, <1>7, <2>1, <2>2, <2>3, <2>4 DEF HeadAt
<1>11. ASSUME NEW b, NEW c, HeadAt(a, b, c)
       PROVE  h.ok /\ b = h.i - 1 /\ c = h.e
  <2>1. /\ b \in DOMAIN toks /\ b >= a+3 /\ Tok(b) = LBrace /\ Tok(b-1) = ")" /\ p.ok
        /\ c \in Ex(0, a+2, b-1)
    BY <1>5, <1>11 DEF HeadAt
  <2>2. b-1 \in DOMAIN toks /\ (b-1)+1 = b
    BY <1>0, <2>1, Positions
  <2>3. r = Result(c, b)
    BY <1>7, <2>1, <2>2
  <2>4. r.ok /\ r.e = c /\ r.i = b
    BY <2>3, Results
  <2>5. h = Result(c, b+1)
    BY <1>9, <2>1, <2>4
  <2>6. h.ok /\ h.e = c /\ h.i = b+1
    BY <2>5, Results
  <2> QED
    BY <1>0, <2>1, <2>6
<1> QED
  BY <1>10, <1>11

(* t is s, the nodes n, and one of A: in one piece, and in two *)
Peeled(t, s, n, A) == \E u \in A : t = <<s \o (n \o u[1]), u[2]>>
Joined(t, s, n, A) == \E w : Extends(w, n, A) /\ t = <<s \o w[1], w[2]>>
(* statements from j to e, the nodes n, and one of A *)
Reaching(t, j, e, n, A) == \E s \in St(j, e) : Peeled(t, s, n, A)

LEMMA Peel ==
  ASSUME NEW s, NEW n, NEW A, NEW t
  PROVE  Joined(t, s, n, A) <=> Peeled(t, s, n, A)
<1>1. ASSUME NEW w, NEW u \in A, w = <<n \o u[1], u[2]>>
      PROVE  <<s \o w[1], w[2]>> = <<s \o (n \o u[1]), u[2]>>
  BY <1>1
<1>2. ASSUME NEW w, Extends(w, n, A), t = <<s \o w[1], w[2]>>
      PROVE  Peeled(t, s, n, A)
  BY <1>1, <1>2 DEF Extends, Peeled
<1>3. ASSUME NEW u \in A, t = <<s \o (n \o u[1]), u[2]>>
      PROVE  Joined(t, s, n, A)
  <2> DEFINE w == <<n \o u[1], u[2]>>
  <2>1. Extends(w, n, A)
    BY DEF Extends
  <2>2. t = <<s \o w[1], w[2]>>
    BY <1>1, <1>3
  <2> QED
    BY <2>1, <2>2 DEF Joined
<1> QED
  BY <1>2, <1>3 DEF Joined, Peeled

(* a loop and a tail behind it, taken apart behind its header *)
LEMMA LoopTails ==
  ASSUME NEW W, NEW j, NEW t
  PROVE  t \in Tails(EndLoop(toks, W), j) <=>
           \E e \in DOMAIN toks : Tok(e) = RBrace /\ Reaching(t, j, e, <<EndWhile>>, Tails(W, e+1))
<1>1. \A e \in DOMAIN toks : \A w : w \in EndLoop(toks, W)[e] <=> Extends(w, <<EndWhile>>, Tails(W, e+1))
  BY InEndLoop
<1>2. t \in Tails(EndLoop(toks, W), j) <=>
        \E e \in DOMAIN toks : Tok(e) = RBrace /\ \E s \in St(j, e), w \in EndLoop(toks, W)[e] : t = <<s \o w[1], w[2]>>
  BY InTails
<1>3. ASSUME NEW e \in DOMAIN toks, NEW s
      PROVE  (\E w \in EndLoop(toks, W)[e] : t = <<s \o w[1], w[2]>>) <=> Peeled(t, s, <<EndWhile>>, Tails(W, e+1))
  <2>1. Joined(t, s, <<EndWhile>>, Tails(W, e+1)) <=> Peeled(t, s, <<EndWhile>>, Tails(W, e+1))
    BY Peel
  <2> QED
    BY <1>1, <2>1, Zenon DEF Joined
<1> QED
  BY <1>2, <1>3, Zenon DEF Reaching

(* an else and a tail behind it *)
LEMMA ElseBlocks ==
  ASSUME NEW W, NEW j, NEW t
  PROVE  t \in Tails(EndElse(toks, W), j) <=>
           \E e \in DOMAIN toks : Tok(e) = RBrace /\ Reaching(t, j, e, <<EndIf>>, Tails(W, e+1))
<1>1. \A e \in DOMAIN toks : \A w : w \in EndElse(toks, W)[e] <=> Extends(w, <<EndIf>>, Tails(W, e+1))
  BY InEndElse
<1>2. t \in Tails(EndElse(toks, W), j) <=>
        \E e \in DOMAIN toks : Tok(e) = RBrace /\ \E s \in St(j, e), w \in EndElse(toks, W)[e] : t = <<s \o w[1], w[2]>>
  BY InTails
<1>3. ASSUME NEW e \in DOMAIN toks, NEW s
      PROVE  (\E w \in EndElse(toks, W)[e] : t = <<s \o w[1], w[2]>>) <=> Peeled(t, s, <<EndIf>>, Tails(W, e+1))
  <2>1. Joined(t, s, <<EndIf>>, Tails(W, e+1)) <=> Peeled(t, s, <<EndIf>>, Tails(W, e+1))
    BY Peel
  <2> QED
    BY <1>1, <2>1, Zenon DEF Joined
<1> QED
  BY <1>2, <1>3, Zenon DEF Reaching

(* a then-block and a tail behind it *)
LEMMA ThenBlocks ==
  ASSUME NEW W, NEW j, NEW t
  PROVE  t \in Tails(EndThen(toks, W), j) <=>
           \E e \in DOMAIN toks : /\ Tok(e) = RBrace
                                  /\ \/ Reaching(t, j, e, <<Else, EndIf>>, Tails(W, e+1))
                                     \/ Reaching(t, j, e, <<Else>>, ElseTails(toks, W, e))
<1>1. \A e \in DOMAIN toks : \A w : w \in EndThen(toks, W)[e] <=>
        \/ Extends(w, <<Else, EndIf>>, Tails(W, e+1))
        \/ Extends(w, <<Else>>, ElseTails(toks, W, e))
  BY InEndThen
<1>2. t \in Tails(EndThen(toks, W), j) <=>
        \E e \in DOMAIN toks : Tok(e) = RBrace /\ \E s \in St(j, e), w \in EndThen(toks, W)[e] : t = <<s \o w[1], w[2]>>
  BY InTails
<1>3. ASSUME NEW e \in DOMAIN toks, NEW s
      PROVE  (\E w \in EndThen(toks, W)[e] : t = <<s \o w[1], w[2]>>)
             <=> \/ Peeled(t, s, <<Else, EndIf>>, Tails(W, e+1))
                 \/ Peeled(t, s, <<Else>>, ElseTails(toks, W, e))
  <2>1. Joined(t, s, <<Else, EndIf>>, Tails(W, e+1)) <=> Peeled(t, s, <<Else, EndIf>>, Tails(W, e+1))
    BY Peel
  <2>2. Joined(t, s, <<Else>>, ElseTails(toks, W, e)) <=> Peeled(t, s, <<Else>>, ElseTails(toks, W, e))
    BY Peel
  <2> QED
    BY <1>1, <2>1, <2>2, Zenon DEF Joined
<1> QED
  BY <1>2, <1>3, Zenon DEF Reaching

(* Concatenation under a name of its own, as the provers multiply the other. *)
Cat(s, t) == s \o t

LEMMA Cats ==
  ASSUME NEW s, IsSeq(s), NEW t, IsSeq(t)
  PROVE  IsSeq(Cat(s, t)) /\ \A u : IsSeq(u) => Cat(Cat(s, t), u) = Cat(s, Cat(t, u))
<1>1. IsSeq(s \o t) /\ \A u : IsSeq(u) => (s \o t) \o u = s \o (t \o u)
  BY Concatenation, ConcatTwice
<1> QED
  BY <1>1 DEF Cat

(* concatenations regrouped: the provers lose their way in more than two *)
LEMMA FourCats ==
  ASSUME NEW s, IsSeq(s), NEW t, IsSeq(t), NEW u, IsSeq(u), NEW z, IsSeq(z)
  PROVE  Cat(Cat(Cat(s, t), u), z) = Cat(s, Cat(t, Cat(u, z)))
  BY Cats

LEMMA SixCats ==
  ASSUME NEW s, IsSeq(s), NEW t, IsSeq(t), NEW u, IsSeq(u), NEW x, IsSeq(x), NEW y, IsSeq(y), NEW z, IsSeq(z)
  PROVE  Cat(Cat(Cat(Cat(Cat(s, t), u), x), y), z) = Cat(s, Cat(t, Cat(u, Cat(x, Cat(y, z)))))
<1>1. IsSeq(Cat(Cat(s, t), u))
  BY Cats
<1>2. IsSeq(Cat(x, Cat(y, z)))
  BY Cats
<1>3. Cat(Cat(Cat(Cat(Cat(s, t), u), x), y), z) = Cat(Cat(Cat(s, t), u), Cat(x, Cat(y, z)))
  BY <1>1, FourCats
<1>4. Cat(Cat(Cat(s, t), u), Cat(x, Cat(y, z))) = Cat(s, Cat(t, Cat(u, Cat(x, Cat(y, z)))))
  BY <1>2, FourCats
<1> QED
  BY <1>3, <1>4

LEMMA NoSimple ==
  ASSUME toks \in Inputs, NEW a \in DOMAIN toks, Tok(a) \in {"if", "while"}, NEW m \in DOMAIN toks, m > a, NEW x
  PROVE  ~(Terminated(m) /\ x \in PlainOf(a, m))
<1>1. Tok(a) \notin SimpleKinds /\ Tok(a) \notin Starters \cup {"!", "-"}
  BY Zenon DEF SimpleKinds, Starters, LiteralKinds
<1>2. m-1 \in DOMAIN toks
  BY Positions
<1>3. ASSUME Terminated(m), x \in PlainOf(a, m) PROVE FALSE
  <2>1. PICK e \in Ex(0, a, m-1) : TRUE
    BY <1>1, <1>3, InSimple
  <2>2. Tok(m-1) = Semi /\ Semi \in Closers
    BY <1>3, Semicolon
  <2> QED
    BY <1>1, <1>2, <2>2, NoExprAt
<1> QED
  BY <1>3

(* the braces of the grammar, and the headers *)
LEMMA HeadBraces ==
  ASSUME toks \in Inputs, NEW a \in DOMAIN toks, NEW m \in DOMAIN toks, NEW b, NEW c
  PROVE  b \in OneBrace(a, m) /\ c \in Ex(0, a+2, b-1) <=> HeadAt(a, b, c) /\ b <= m-2
<1>1. b \in OneBrace(a, m) <=> b \in a+3 .. m-2 /\ Tok(b) = LBrace /\ Tok(b-1) = ")" /\ Tok(a+1) = "("
  BY Zenon DEF OneBrace, LBrace
<1>2. b \in a+3 .. m-2 <=> b \in DOMAIN toks /\ b >= a+3 /\ b <= m-2
  BY Positions
<1> QED
  BY <1>1, <1>2, Zenon DEF HeadAt

WhileForm(x, a, m) ==
  /\ Tok(m-1) = RBrace
  /\ \E b, c : HeadAt(a, b, c) /\ b <= m-2 /\ \E s \in St(b+1, m-1) : x = <<While(c)>> \o s \o <<EndWhile>>

(* the nodes of a loop and of a branch, as their parts in a row *)
LEMMA WhileForms ==
  ASSUME toks \in Inputs, NEW a \in DOMAIN toks, Tok(a) = "while", NEW m \in DOMAIN toks, m > a, NEW x
  PROVE  StatementForm(StmtsIn(toks), x, a, m) <=> WhileForm(x, a, m)
<1>1. \A s : ~(Terminated(m) /\ s \in PlainOf(a, m))
  BY NoSimple
<1>2. \A b, c : b \in OneBrace(a, m) /\ c \in Ex(0, a+2, b-1) <=> HeadAt(a, b, c) /\ b <= m-2
  BY HeadBraces
<1>3. LoopForm(StmtsIn(toks), x, a, m) <=>
        \E b, c : HeadAt(a, b, c) /\ b <= m-2 /\ \E s \in St(b+1, m-1) : x = <<While(c)>> \o s \o <<EndWhile>>
  BY <1>2, Zenon DEF LoopForm, St
<1>4. StatementForm(StmtsIn(toks), x, a, m) <=> Tok(m-1) = RBrace /\ LoopForm(StmtsIn(toks), x, a, m)
  BY <1>1, Zenon DEF StatementForm, Terminated, RBrace
<1> QED
  BY <1>3, <1>4, Zenon DEF WhileForm

(* the blocks of a branch: of one, and of two with an else behind d *)
NoElseForm(x, a, b, c, m) == \E s \in St(b+1, m-1) : x = <<If(c)>> \o s \o <<Else, EndIf>>
ElseForm(x, a, b, c, d, m) ==
  /\ d \in DOMAIN toks /\ d >= b+1 /\ d <= m-4 /\ Tok(d) = RBrace /\ Tok(d+1) = "else" /\ Tok(d+2) = LBrace
  /\ \E s \in St(b+1, d), s2 \in St(d+3, m-1) : x = <<If(c)>> \o s \o <<Else>> \o s2 \o <<EndIf>>
IfForm(x, a, m) ==
  /\ Tok(m-1) = RBrace
  /\ \E b, c : HeadAt(a, b, c) /\ b <= m-2 /\ (NoElseForm(x, a, b, c, m) \/ \E d : ElseForm(x, a, b, c, d, m))

LEMMA IfForms ==
  ASSUME toks \in Inputs, NEW a \in DOMAIN toks, Tok(a) = "if", NEW m \in DOMAIN toks, m > a, NEW x
  PROVE  StatementForm(StmtsIn(toks), x, a, m) <=> IfForm(x, a, m)
<1>1. \A s : ~(Terminated(m) /\ s \in PlainOf(a, m))
  BY NoSimple
<1>2. \A b, c : b \in OneBrace(a, m) /\ c \in Ex(0, a+2, b-1) <=> HeadAt(a, b, c) /\ b <= m-2
  BY HeadBraces
<1> DEFINE Two(b, c, e) == \E s \in St(b+1, e-1), s2 \in St(e+2, m-1) : x = <<If(c)>> \o s \o <<Else>> \o s2 \o <<EndIf>>
<1>3. BranchForm(StmtsIn(toks), x, a, m) <=>
        \E b, c : HeadAt(a, b, c) /\ b <= m-2 /\ (NoElseForm(x, a, b, c, m) \/ \E e \in OneElse(b, m) : Two(b, c, e))
  BY <1>2, Zenon DEF BranchForm, NoElseForm, St
<1>4. ASSUME NEW b, NEW c, HeadAt(a, b, c)
      PROVE  (\E e \in OneElse(b, m) : Two(b, c, e)) <=> \E d : ElseForm(x, a, b, c, d, m)
  <2>0. b \in Int /\ m \in Int /\ DOMAIN toks = 1 .. Len(toks) /\ Len(toks) \in Nat /\ b >= 1 /\ m <= Len(toks)
    BY <1>4, Positions DEF HeadAt
  <2>1. \A e : e \in OneElse(b, m) <=> e \in b+2 .. m-3 /\ Tok(e-1) = RBrace /\ Tok(e) = "else" /\ Tok(e+1) = LBrace
    BY Zenon DEF OneElse, RBrace, LBrace
  <2>2. \A e \in Int : (e-1)+1 = e /\ (e-1)+2 = e+1 /\ (e-1)+3 = e+2 /\ (e+1)-1 = e /\ (e+1)+1 = e+2 /\ (e+1)+2 = e+3
    OBVIOUS
  <2>3. ASSUME NEW e \in OneElse(b, m), Two(b, c, e) PROVE ElseForm(x, a, b, c, e-1, m)
    <3>1. e \in Int /\ e-1 \in DOMAIN toks /\ e-1 >= b+1 /\ e-1 <= m-4
      BY <2>0, <2>1
    <3> QED
      BY <2>1, <2>2, <2>3, <3>1 DEF ElseForm
  <2>4. ASSUME NEW d, ElseForm(x, a, b, c, d, m) PROVE d+1 \in OneElse(b, m) /\ Two(b, c, d+1)
    <3>1. d \in Int /\ d+1 \in b+2 .. m-3
      BY <2>0, <2>4 DEF ElseForm
    <3>2. (d+1)-1 = d /\ (d+1)+1 = d+2 /\ (d+1)+2 = d+3
      BY <2>2, <3>1
    <3>3. d+1 \in OneElse(b, m)
      BY <2>1, <2>4, <3>1, <3>2 DEF ElseForm
    <3>4. Two(b, c, d+1)
      BY <2>4, <3>2 DEF ElseForm
    <3> QED
      BY <3>3, <3>4
  <2> HIDE DEF Two
  <2> QED
    BY <2>3, <2>4
<1>5. StatementForm(StmtsIn(toks), x, a, m) <=> Tok(m-1) = RBrace /\ BranchForm(StmtsIn(toks), x, a, m)
  BY <1>1, Zenon DEF StatementForm, Terminated, RBrace
<1> HIDE DEF Two
<1> QED
  BY <1>3, <1>4, <1>5, Zenon DEF IfForm

LEMMA BlockNodes ==
  ASSUME NEW x, NEW s, IsSeq(s), NEW n, IsSeq(n), NEW u, Pair(u)
  PROVE  Cat(Cat(Cat(<<x>>, s), n), u[1]) = Cat(<<x>>, Cat(s, Cat(n, u[1])))
<1> DEFINE z == u[1]
           w == <<x>>
<1>1. IsSeq(z) /\ IsSeq(w)
  BY OneEntryStack DEF Pair
<1> HIDE DEF z, w
<1>2. Cat(Cat(Cat(w, s), n), z) = Cat(w, Cat(s, Cat(n, z)))
  BY <1>1, FourCats
<1> QED
  BY <1>2 DEF z, w

LEMMA BlocksNodes ==
  ASSUME NEW x, NEW s, IsSeq(s), NEW n, IsSeq(n), NEW s2, IsSeq(s2), NEW n2, IsSeq(n2), NEW u, Pair(u)
  PROVE  Cat(Cat(Cat(Cat(Cat(<<x>>, s), n), s2), n2), u[1]) = Cat(<<x>>, Cat(s, Cat(n, Cat(s2, Cat(n2, u[1])))))
<1> DEFINE z == u[1]
           w == <<x>>
<1>1. IsSeq(z) /\ IsSeq(w)
  BY OneEntryStack DEF Pair
<1> HIDE DEF z, w
<1>2. Cat(Cat(Cat(Cat(Cat(w, s), n), s2), n2), z) = Cat(w, Cat(s, Cat(n, Cat(s2, Cat(n2, z)))))
  BY <1>1, SixCats
<1> QED
  BY <1>2 DEF z, w

LEMMA HeadReaches ==
  ASSUME toks \in Inputs, NEW a \in DOMAIN toks, NEW b, NEW c, HeadAt(a, b, c)
  PROVE  b \in Nat /\ b+1 \in DOMAIN toks /\ b > a
  BY Positions, BraceTokens DEF HeadAt

LEMMA BlockNext ==
  ASSUME toks \in Inputs, NEW e \in DOMAIN toks, Tok(e) = RBrace
  PROVE  e \in Nat /\ e+1 \in DOMAIN toks /\ (e+1)-1 = e
  BY Positions, BraceTokens

(* a tail that begins with while is a header and a tail of the block it opens *)
LEMMA WhileTails ==
  ASSUME toks \in Inputs, NEW W, Good(W), NEW a \in DOMAIN toks, Tok(a) = "while", NEW v
  PROVE  v \in Tails(W, a) <=> \E b, c : HeadAt(a, b, c) /\ Extends(v, <<While(c)>>, Tails(EndLoop(toks, W), b+1))
<1>0. a \in Nat /\ DOMAIN toks = 1 .. Len(toks) /\ Len(toks) \in Nat /\ Tok(a) # RBrace /\ IsSeq(<<EndWhile>>)
  BY Positions, BraceTokens, OneEntryStack
<1>1. v \in Tails(W, a) <=> \E m \in a+1 .. Len(toks) : OneMore(W, v, a, m)
  BY <1>0, TailsUnfold
<1>2. ASSUME NEW m \in a+1 .. Len(toks), OneMore(W, v, a, m)
      PROVE  \E b, c : HeadAt(a, b, c) /\ Extends(v, <<While(c)>>, Tails(EndLoop(toks, W), b+1))
  <2>1. PICK x, u : StatementForm(StmtsIn(toks), x, a, m) /\ u \in Tails(W, m) /\ v = <<x \o u[1], u[2]>>
    BY <1>2 DEF OneMore
  <2>2. m \in DOMAIN toks /\ m > a /\ m-1 \in DOMAIN toks /\ (m-1)+1 = m
    BY <1>0
  <2>3. WhileForm(x, a, m)
    BY <2>1, <2>2, WhileForms
  <2>4. Tok(m-1) = RBrace
    BY <2>3 DEF WhileForm
  <2>5. PICK b, c : HeadAt(a, b, c) /\ b <= m-2 /\ \E s \in St(b+1, m-1) : x = <<While(c)>> \o s \o <<EndWhile>>
    BY <2>3 DEF WhileForm
  <2>6. PICK s \in St(b+1, m-1) : x = <<While(c)>> \o s \o <<EndWhile>>
    BY <2>5
  <2>7. Pair(u) /\ IsSeq(s)
    <3>1. b+1 \in DOMAIN toks
      BY <2>5, HeadReaches
    <3> QED
      BY <2>1, <2>2, <3>1, TailsGood, BodyReaches
  <2> DEFINE t == <<s \o (<<EndWhile>> \o u[1]), u[2]>>
  <2>8. Peeled(t, s, <<EndWhile>>, Tails(W, m))
    BY <2>1 DEF Peeled
  <2>9. t[1] = s \o (<<EndWhile>> \o u[1]) /\ t[2] = u[2]
    OBVIOUS
  <2> HIDE DEF t
  <2>10. Reaching(t, b+1, m-1, <<EndWhile>>, Tails(W, (m-1)+1))
    BY <2>2, <2>8 DEF Reaching
  <2>11. t \in Tails(EndLoop(toks, W), b+1)
    BY <2>2, <2>4, <2>10, LoopTails
  <2>12. (<<While(c)>> \o s \o <<EndWhile>>) \o u[1] = <<While(c)>> \o t[1]
    <3> DEFINE n == <<EndWhile>>
               x1 == While(c)
    <3>1. IsSeq(n)
      BY <1>0
    <3> HIDE DEF n, x1
    <3>2. Cat(Cat(Cat(<<x1>>, s), n), u[1]) = Cat(<<x1>>, Cat(s, Cat(n, u[1])))
      BY <2>7, <3>1, BlockNodes
    <3> QED
      BY <2>9, <3>2, Zenon DEF n, x1, Cat
  <2>13. Extends(v, <<While(c)>>, Tails(EndLoop(toks, W), b+1))
    BY <2>1, <2>6, <2>9, <2>11, <2>12 DEF Extends
  <2> QED
    BY <2>5, <2>13
<1>3. ASSUME NEW b, NEW c, HeadAt(a, b, c), Extends(v, <<While(c)>>, Tails(EndLoop(toks, W), b+1))
      PROVE  v \in Tails(W, a)
  <2>1. PICK t \in Tails(EndLoop(toks, W), b+1) : v = << <<While(c)>> \o t[1], t[2]>>
    BY <1>3 DEF Extends
  <2>2. PICK e \in DOMAIN toks : Tok(e) = RBrace /\ Reaching(t, b+1, e, <<EndWhile>>, Tails(W, e+1))
    BY LoopTails
  <2>3. PICK s \in St(b+1, e), u \in Tails(W, e+1) : t = <<s \o (<<EndWhile>> \o u[1]), u[2]>>
    BY <2>2 DEF Reaching, Peeled
  <2>4. b \in Nat /\ b+1 \in DOMAIN toks /\ b > a /\ e \in Nat /\ e+1 \in DOMAIN toks /\ (e+1)-1 = e
    BY <1>3, <2>2, HeadReaches, BlockNext
  <2>5. Pair(u) /\ IsSeq(s) /\ e >= b+1
    BY <2>4, TailsGood, BodyReaches
  <2>6. e+1 \in a+1 .. Len(toks) /\ b <= (e+1)-2 /\ e+1 > a
    BY <1>0, <2>4, <2>5
  <2> DEFINE x == <<While(c)>> \o s \o <<EndWhile>>
  <2>7. WhileForm(x, a, e+1)
    BY <1>3, <2>2, <2>4, <2>6 DEF WhileForm
  <2>8. x \o u[1] = <<While(c)>> \o (s \o (<<EndWhile>> \o u[1]))
    <3> DEFINE n == <<EndWhile>>
               x1 == While(c)
    <3>1. IsSeq(n)
      BY <1>0
    <3> HIDE DEF n, x1
    <3>2. Cat(Cat(Cat(<<x1>>, s), n), u[1]) = Cat(<<x1>>, Cat(s, Cat(n, u[1])))
      BY <2>5, <3>1, BlockNodes
    <3> QED
      BY <3>2, Zenon DEF n, x1, x, Cat
  <2> HIDE DEF x
  <2>9. StatementForm(StmtsIn(toks), x, a, e+1)
    BY <2>4, <2>6, <2>7, WhileForms
  <2>10. t[1] = s \o (<<EndWhile>> \o u[1]) /\ t[2] = u[2]
    BY <2>3
  <2>11. v = <<x \o u[1], u[2]>>
    BY <2>1, <2>8, <2>10
  <2>12. OneMore(W, v, a, e+1)
    BY <2>3, <2>9, <2>11 DEF OneMore
  <2> QED
    BY <1>1, <2>6, <2>12
<1> QED
  BY <1>1, <1>2, <1>3

(* v is a branch that opens at b, without else or with one, up to m, and   *)
(* the rest of the input behind                                            *)
NoElseUpTo(W, v, a, b, c, m) ==
  \E x, u : Tok(m-1) = RBrace /\ b <= m-2 /\ NoElseForm(x, a, b, c, m) /\ u \in Tails(W, m) /\ v = <<x \o u[1], u[2]>>
ElseUpTo(W, v, a, b, c, m) ==
  \E x, u : /\ Tok(m-1) = RBrace /\ b <= m-2 /\ (\E d : ElseForm(x, a, b, c, d, m))
            /\ u \in Tails(W, m) /\ v = <<x \o u[1], u[2]>>
NoElseEnds(W, v, b, c) ==
  \E t, e : /\ e \in DOMAIN toks /\ Tok(e) = RBrace
            /\ Reaching(t, b+1, e, <<Else, EndIf>>, Tails(W, e+1))
            /\ v = << <<If(c)>> \o t[1], t[2]>>
ElseEnds(W, v, b, c) ==
  \E t, e : /\ e \in DOMAIN toks /\ Tok(e) = RBrace
            /\ Reaching(t, b+1, e, <<Else>>, ElseTails(toks, W, e))
            /\ v = << <<If(c)>> \o t[1], t[2]>>

(* a branch without else, and the rest of the input behind it *)
LEMMA NoElseTails ==
  ASSUME toks \in Inputs, NEW W, Good(W), NEW a \in DOMAIN toks, NEW b, NEW c, HeadAt(a, b, c), NEW v
  PROVE  (\E m \in a+1 .. Len(toks) : NoElseUpTo(W, v, a, b, c, m)) <=> NoElseEnds(W, v, b, c)
<1>0. a \in Nat /\ DOMAIN toks = 1 .. Len(toks) /\ Len(toks) \in Nat /\ IsSeq(<<Else, EndIf>>)
  BY Positions, TwoNodes
<1>1. b \in Nat /\ b+1 \in DOMAIN toks /\ b > a
  BY HeadReaches
<1> DEFINE n == <<Else, EndIf>>
           x1 == If(c)
<1>2. IsSeq(n)
  BY <1>0
<1>3. ASSUME NEW m \in a+1 .. Len(toks), NEW x, NEW u, Tok(m-1) = RBrace, b <= m-2, NoElseForm(x, a, b, c, m),
             u \in Tails(W, m), v = <<x \o u[1], u[2]>>
      PROVE  \E t, e : /\ e \in DOMAIN toks /\ Tok(e) = RBrace
                       /\ Reaching(t, b+1, e, n, Tails(W, e+1))
                       /\ v = << <<x1>> \o t[1], t[2]>>
  <2>2. m \in DOMAIN toks /\ m-1 \in DOMAIN toks /\ (m-1)+1 = m
    BY <1>0
  <2>6. PICK s \in St(b+1, m-1) : x = <<x1>> \o s \o n
    BY <1>3 DEF NoElseForm
  <2> HIDE DEF n, x1
  <2>7. Pair(u) /\ IsSeq(s)
    BY <1>1, <1>3, <2>2, TailsGood, BodyReaches
  <2> DEFINE t == <<s \o (n \o u[1]), u[2]>>
  <2>8. Peeled(t, s, n, Tails(W, m))
    BY <1>3 DEF Peeled
  <2>9. t[1] = s \o (n \o u[1]) /\ t[2] = u[2]
    OBVIOUS
  <2> HIDE DEF t
  <2>10. Reaching(t, b+1, m-1, n, Tails(W, (m-1)+1))
    BY <2>2, <2>8 DEF Reaching
  <2>12. (<<x1>> \o s \o n) \o u[1] = <<x1>> \o t[1]
    <3>2. Cat(Cat(Cat(<<x1>>, s), n), u[1]) = Cat(<<x1>>, Cat(s, Cat(n, u[1])))
      BY <1>2, <2>7, BlockNodes
    <3> QED
      BY <2>9, <3>2, Zenon DEF Cat
  <2>13. v = << <<x1>> \o t[1], t[2]>>
    BY <1>3, <2>6, <2>9, <2>12
  <2> QED
    BY <1>3, <2>2, <2>10, <2>13
<1>4. ASSUME NEW t, NEW e, e \in DOMAIN toks, Tok(e) = RBrace, Reaching(t, b+1, e, n, Tails(W, e+1)),
             v = << <<x1>> \o t[1], t[2]>>
      PROVE  \E m \in a+1 .. Len(toks) : \E x, u :
               Tok(m-1) = RBrace /\ b <= m-2 /\ NoElseForm(x, a, b, c, m) /\ u \in Tails(W, m) /\ v = <<x \o u[1], u[2]>>
  <2>3. PICK s \in St(b+1, e), u \in Tails(W, e+1) : t = <<s \o (n \o u[1]), u[2]>>
    BY <1>4 DEF Reaching, Peeled
  <2>4. e \in Nat /\ e+1 \in DOMAIN toks /\ (e+1)-1 = e
    BY <1>4, BlockNext
  <2>5. Pair(u) /\ IsSeq(s) /\ e >= b+1
    BY <1>1, <1>4, <2>4, TailsGood, BodyReaches
  <2>6. e+1 \in a+1 .. Len(toks) /\ b <= (e+1)-2
    BY <1>0, <1>1, <2>4, <2>5
  <2> DEFINE x == <<x1>> \o s \o n
  <2>7. NoElseForm(x, a, b, c, e+1)
    BY <2>4 DEF NoElseForm
  <2> HIDE DEF n, x1
  <2>8. x \o u[1] = <<x1>> \o (s \o (n \o u[1]))
    <3>2. Cat(Cat(Cat(<<x1>>, s), n), u[1]) = Cat(<<x1>>, Cat(s, Cat(n, u[1])))
      BY <1>2, <2>5, BlockNodes
    <3> QED
      BY <3>2, Zenon DEF x, Cat
  <2> HIDE DEF x
  <2>10. t[1] = s \o (n \o u[1]) /\ t[2] = u[2]
    BY <2>3
  <2>11. v = <<x \o u[1], u[2]>>
    BY <1>4, <2>8, <2>10
  <2>12. u \in Tails(W, e+1) /\ Tok((e+1)-1) = RBrace
    BY <1>4, <2>4
  <2> QED
    BY <2>6, <2>7, <2>11, <2>12
<1>5. \A m \in a+1 .. Len(toks) : NoElseUpTo(W, v, a, b, c, m) => NoElseEnds(W, v, b, c)
  BY <1>3 DEF NoElseUpTo, NoElseEnds
<1>6. NoElseEnds(W, v, b, c) => \E m \in a+1 .. Len(toks) : NoElseUpTo(W, v, a, b, c, m)
  BY <1>4 DEF NoElseUpTo, NoElseEnds
<1> QED
  BY <1>5, <1>6

(* the same of a branch with else *)
LEMMA BothTails ==
  ASSUME toks \in Inputs, NEW W, Good(W), NEW a \in DOMAIN toks, NEW b, NEW c, HeadAt(a, b, c), NEW v
  PROVE  (\E m \in a+1 .. Len(toks) : ElseUpTo(W, v, a, b, c, m)) <=> ElseEnds(W, v, b, c)
<1>0. a \in Nat /\ DOMAIN toks = 1 .. Len(toks) /\ Len(toks) \in Nat
  BY Positions
<1>1. b \in Nat /\ b+1 \in DOMAIN toks /\ b > a
  BY HeadReaches
<1> DEFINE n == <<Else>>
           n2 == <<EndIf>>
           x1 == If(c)
<1>2. IsSeq(n) /\ IsSeq(n2)
  BY OneEntryStack
<1>3. ASSUME NEW m \in a+1 .. Len(toks), NEW x, NEW u, Tok(m-1) = RBrace, NEW d, ElseForm(x, a, b, c, d, m),
             u \in Tails(W, m), v = <<x \o u[1], u[2]>>
      PROVE  \E t, e : /\ e \in DOMAIN toks /\ Tok(e) = RBrace
                       /\ Reaching(t, b+1, e, n, ElseTails(toks, W, e))
                       /\ v = << <<x1>> \o t[1], t[2]>>
  <2>1. /\ d \in DOMAIN toks /\ d >= b+1 /\ d <= m-4 /\ Tok(d) = RBrace /\ Tok(d+1) = "else" /\ Tok(d+2) = LBrace
        /\ \E s \in St(b+1, d), s2 \in St(d+3, m-1) : x = <<x1>> \o s \o n \o s2 \o n2
    BY <1>3 DEF ElseForm
  <2>2. m \in DOMAIN toks /\ m-1 \in DOMAIN toks /\ (m-1)+1 = m /\ d+3 \in DOMAIN toks
    BY <1>0, <2>1
  <2>3. PICK s \in St(b+1, d), s2 \in St(d+3, m-1) : x = <<x1>> \o s \o n \o s2 \o n2
    BY <2>1
  <2>4. ElseTails(toks, W, d) = Tails(EndElse(toks, W), d+3)
    BY <2>1, InElseTails
  <2>7. Pair(u) /\ IsSeq(s) /\ IsSeq(s2)
    BY <1>1, <1>3, <2>1, <2>2, TailsGood, BodyReaches
  <2> DEFINE t2 == <<s2 \o (n2 \o u[1]), u[2]>>
  <2>8. Peeled(t2, s2, n2, Tails(W, m))
    BY <1>3 DEF Peeled
  <2>9. t2[1] = s2 \o (n2 \o u[1]) /\ t2[2] = u[2]
    OBVIOUS
  <2> HIDE DEF t2
  <2>10. Reaching(t2, d+3, m-1, <<EndIf>>, Tails(W, (m-1)+1))
    BY <2>2, <2>8 DEF Reaching
  <2>11. t2 \in Tails(EndElse(toks, W), d+3)
    BY <1>3, <2>2, <2>10, ElseBlocks
  <2> HIDE DEF n, n2, x1
  <2> DEFINE t == <<s \o (n \o t2[1]), t2[2]>>
  <2>12. Reaching(t, b+1, d, n, ElseTails(toks, W, d))
    BY <2>4, <2>11 DEF Reaching, Peeled
  <2>13. t[1] = s \o (n \o t2[1]) /\ t[2] = t2[2]
    OBVIOUS
  <2> HIDE DEF t
  <2>14. x \o u[1] = <<x1>> \o t[1]
    <3>2. Cat(Cat(Cat(Cat(Cat(<<x1>>, s), n), s2), n2), u[1]) = Cat(<<x1>>, Cat(s, Cat(n, Cat(s2, Cat(n2, u[1])))))
      BY <1>2, <2>7, BlocksNodes
    <3> QED
      BY <2>3, <2>9, <2>13, <3>2, Zenon DEF Cat
  <2>15. v = << <<x1>> \o t[1], t[2]>>
    BY <1>3, <2>9, <2>13, <2>14
  <2> QED
    BY <2>1, <2>12, <2>15
<1>4. ASSUME NEW t, NEW e, e \in DOMAIN toks, Tok(e) = RBrace, Reaching(t, b+1, e, n, ElseTails(toks, W, e)),
             v = << <<x1>> \o t[1], t[2]>>
      PROVE  \E m \in a+1 .. Len(toks) : \E x, u :
               /\ Tok(m-1) = RBrace /\ b <= m-2 /\ (\E d : ElseForm(x, a, b, c, d, m))
               /\ u \in Tails(W, m) /\ v = <<x \o u[1], u[2]>>
  <2>1. PICK s \in St(b+1, e), t2 \in ElseTails(toks, W, e) : t = <<s \o (n \o t2[1]), t2[2]>>
    BY <1>4 DEF Reaching, Peeled
  <2>2. Tok(e+1) = "else" /\ Tok(e+2) = LBrace /\ t2 \in Tails(EndElse(toks, W), e+3)
    BY <2>1, InElseTails
  <2>3. PICK f \in DOMAIN toks : Tok(f) = RBrace /\ Reaching(t2, e+3, f, <<EndIf>>, Tails(W, f+1))
    BY <2>2, ElseBlocks
  <2>4. PICK s2 \in St(e+3, f), u \in Tails(W, f+1) : t2 = <<s2 \o (n2 \o u[1]), u[2]>>
    BY <2>3 DEF Reaching, Peeled
  <2>5. e \in Nat /\ f \in Nat /\ f+1 \in DOMAIN toks /\ (f+1)-1 = f
    BY <1>4, <2>3, BlockNext
  <2>6. e+3 \in DOMAIN toks
    <3>1. (e+2)+1 \in DOMAIN toks
      BY <2>2, Positions, BraceTokens
    <3> QED
      BY <2>5, <3>1
  <2>7. Pair(u) /\ IsSeq(s) /\ IsSeq(s2) /\ e >= b+1 /\ f >= e+3
    BY <1>1, <1>4, <2>5, <2>6, TailsGood, BodyReaches
  <2>8. f+1 \in a+1 .. Len(toks) /\ b <= (f+1)-2 /\ e <= (f+1)-4
    BY <1>0, <1>1, <2>5, <2>7
  <2> DEFINE x == <<x1>> \o s \o n \o s2 \o n2
  <2>9. ElseForm(x, a, b, c, e, f+1)
    BY <1>4, <2>2, <2>5, <2>7, <2>8 DEF ElseForm
  <2> HIDE DEF n, n2, x1
  <2>10. t[1] = s \o (n \o t2[1]) /\ t[2] = t2[2]
    BY <2>1
  <2>11. t2[1] = s2 \o (n2 \o u[1]) /\ t2[2] = u[2]
    BY <2>4
  <2>12. x \o u[1] = <<x1>> \o t[1]
    <3>2. Cat(Cat(Cat(Cat(Cat(<<x1>>, s), n), s2), n2), u[1]) = Cat(<<x1>>, Cat(s, Cat(n, Cat(s2, Cat(n2, u[1])))))
      BY <1>2, <2>7, BlocksNodes
    <3> QED
      BY <2>10, <2>11, <3>2, Zenon DEF Cat, x
  <2> HIDE DEF x
  <2>13. v = <<x \o u[1], u[2]>>
    BY <1>4, <2>10, <2>11, <2>12
  <2>14. u \in Tails(W, f+1) /\ Tok((f+1)-1) = RBrace
    BY <2>3, <2>5
  <2> QED
    BY <2>8, <2>9, <2>13, <2>14
<1>5. \A m \in a+1 .. Len(toks) : ElseUpTo(W, v, a, b, c, m) => ElseEnds(W, v, b, c)
  BY <1>3 DEF ElseUpTo, ElseEnds
<1>6. ElseEnds(W, v, b, c) => \E m \in a+1 .. Len(toks) : ElseUpTo(W, v, a, b, c, m)
  BY <1>4 DEF ElseUpTo, ElseEnds
<1> QED
  BY <1>5, <1>6

(* a tail that begins with if is a header and a tail of the block it opens *)
LEMMA IfTails ==
  ASSUME toks \in Inputs, NEW W, Good(W), NEW a \in DOMAIN toks, Tok(a) = "if", NEW v
  PROVE  v \in Tails(W, a) <=> \E b, c : HeadAt(a, b, c) /\ Extends(v, <<If(c)>>, Tails(EndThen(toks, W), b+1))
<1> DEFINE I == a+1 .. Len(toks)
<1>1. v \in Tails(W, a) <=> \E m \in I : OneMore(W, v, a, m)
  BY TailsUnfold, BraceTokens
<1>2. \A m \in I : m \in DOMAIN toks /\ m > a
  BY Positions
<1> HIDE DEF I
<1>3. \A m \in I : \A x : StatementForm(StmtsIn(toks), x, a, m) <=> IfForm(x, a, m)
  BY <1>2, IfForms
<1>4. \A m \in I : OneMore(W, v, a, m) <=> \E b, c : HeadAt(a, b, c) /\ (NoElseUpTo(W, v, a, b, c, m) \/ ElseUpTo(W, v, a, b, c, m))
  BY <1>3, Zenon DEF OneMore, IfForm, NoElseUpTo, ElseUpTo
<1>5. ASSUME NEW b, NEW c, HeadAt(a, b, c)
      PROVE  (\E m \in I : NoElseUpTo(W, v, a, b, c, m)) <=> NoElseEnds(W, v, b, c)
  BY <1>5, NoElseTails DEF I
<1>6. ASSUME NEW b, NEW c, HeadAt(a, b, c)
      PROVE  (\E m \in I : ElseUpTo(W, v, a, b, c, m)) <=> ElseEnds(W, v, b, c)
  BY <1>6, BothTails DEF I
<1>7. \A b, t : t \in Tails(EndThen(toks, W), b+1) <=>
        \E e \in DOMAIN toks : /\ Tok(e) = RBrace
                               /\ \/ Reaching(t, b+1, e, <<Else, EndIf>>, Tails(W, e+1))
                                  \/ Reaching(t, b+1, e, <<Else>>, ElseTails(toks, W, e))
  BY ThenBlocks
<1>8. \A b, c : Extends(v, <<If(c)>>, Tails(EndThen(toks, W), b+1)) <=> NoElseEnds(W, v, b, c) \/ ElseEnds(W, v, b, c)
  BY <1>7, Zenon DEF Extends, NoElseEnds, ElseEnds
<1> QED
  BY <1>1, <1>4, <1>5, <1>6, <1>8, Zenon

(* What the parser does at a header.                                       *)
LEMMA HeaderMoves ==
  ASSUME toks \in Inputs, NEW W, Good(W), NEW a \in DOMAIN toks, NEW h, h = HeaderAt(a)
  PROVE  /\ Tok(a) = "while" /\ h.ok => Moves(W, a, <<While(h.e)>>, EndLoop(toks, W), h.i)
         /\ Tok(a) = "if" /\ h.ok => Moves(W, a, <<If(h.e)>>, EndThen(toks, W), h.i)
         /\ Tok(a) \in {"if", "while"} /\ ~h.ok => Tails(W, a) = {}
<1>1. /\ \A b, c : HeadAt(a, b, c) <=> h.ok /\ b = h.i - 1 /\ c = h.e
      /\ h.ok => (h.i - 1) + 1 = h.i
  BY HeaderDecides
<1>2. Tok(a) = "while" => \A v : v \in Tails(W, a) <=>
        \E b, c : HeadAt(a, b, c) /\ Extends(v, <<While(c)>>, Tails(EndLoop(toks, W), b+1))
  BY WhileTails
<1>3. Tok(a) = "if" => \A v : v \in Tails(W, a) <=>
        \E b, c : HeadAt(a, b, c) /\ Extends(v, <<If(c)>>, Tails(EndThen(toks, W), b+1))
  BY IfTails
<1>4. ASSUME Tok(a) = "while", h.ok PROVE Moves(W, a, <<While(h.e)>>, EndLoop(toks, W), h.i)
  BY <1>1, <1>2, <1>4, Zenon DEF Moves
<1>5. ASSUME Tok(a) = "if", h.ok PROVE Moves(W, a, <<If(h.e)>>, EndThen(toks, W), h.i)
  BY <1>1, <1>3, <1>5, Zenon DEF Moves
<1>6. ASSUME Tok(a) \in {"if", "while"}, ~h.ok PROVE Tails(W, a) = {}
  <2>1. \A b, c : ~HeadAt(a, b, c)
    BY <1>1, <1>6
  <2>2. \A v : v \notin Tails(W, a)
    BY <1>2, <1>3, <1>6, <2>1, Zenon
  <2> QED
    BY <2>2
<1> QED
  BY <1>4, <1>5, <1>6

-----------------------------------------------------------------------------
(* What the parser does at any other statement.                            *)
LEMMA NothingMoves ==
  ASSUME toks \in Inputs, NEW W, Good(W), NEW a \in DOMAIN toks, Tok(a) \in {"else", "eof"}
  PROVE  Tails(W, a) = {}
<1>1. Tok(a) # RBrace /\ Tok(a) \in {RBrace, "else", "eof"}
  BY BraceTokens
<1>2. \A m \in a+1 .. Len(toks) : m \in DOMAIN toks /\ m > a
  BY Positions
<1>3. \A m \in a+1 .. Len(toks) : \A s : ~StatementForm(StmtsIn(toks), s, a, m)
  BY <1>1, <1>2, NothingAt
<1>4. \A m \in a+1 .. Len(toks) : \A u : ~OneMore(W, u, a, m)
  BY <1>3, Zenon DEF OneMore
<1>5. \A u : u \in Tails(W, a) <=> \E m \in a+1 .. Len(toks) : OneMore(W, u, a, m)
  BY <1>1, TailsUnfold
<1>6. \A u : u \notin Tails(W, a)
  BY <1>4, <1>5, Zenon
<1> QED
  BY <1>6

-----------------------------------------------------------------------------
(* Functions: parameters, the type behind them, and the rest of the input. *)

FnAt(a) == Tok(a) = "fn" /\ Tok(a+1) = "ident" /\ Tok(a+2) = "("
RetIn(ts, j, ret, v) ==
  /\ KindAt(ts, j) = ")" /\ KindAt(ts, j+1) = "->"
  /\ \E q \in DOMAIN ts : /\ q >= j+3 /\ KindAt(ts, q) = LBrace
                          /\ ret \in TypesIn(ts)[<<j+2, q>>] /\ v \in TailsIn(ts, EndFunc(ts), q+1)
RetAt(j, ret, v) == RetIn(toks, j, ret, v)

LEMMA RetIs ==
  ASSUME NEW j, NEW ret, NEW v
  PROVE  RetAt(j, ret, v) <=>
           /\ Tok(j) = ")" /\ Tok(j+1) = "->"
           /\ \E q \in DOMAIN toks : q >= j+3 /\ Tok(q) = LBrace /\ ret \in Ty(j+2, q) /\ v \in Tails(EndFunc(toks), q+1)
  BY DEF RetAt, RetIn, KindAt, Tok, Ty, Tails

(* the rest of a function and of the program *)
LEMMA FuncTails ==
  ASSUME toks \in Inputs, NEW j \in DOMAIN toks, NEW v
  PROVE  v \in Tails(EndFunc(toks), j) <=>
           \E e \in DOMAIN toks : Tok(e) = RBrace /\ \E s \in St(j, e), rest \in Fs(e+1) : v = <<s, rest>>
<1>1. v \in Tails(EndFunc(toks), j) <=>
        \E e \in DOMAIN toks : Tok(e) = RBrace /\ \E s \in St(j, e), w \in EndFunc(toks)[e] : v = <<s \o w[1], w[2]>>
  BY InTails
<1>2. ASSUME NEW e \in DOMAIN toks, NEW s \in St(j, e)
      PROVE  (\E w \in EndFunc(toks)[e] : v = <<s \o w[1], w[2]>>) <=> \E rest \in Fs(e+1) : v = <<s, rest>>
  <2>1. s \o << >> = s
    BY BodyReaches, ConcatEmpty
  <2>2. ASSUME NEW w \in EndFunc(toks)[e], v = <<s \o w[1], w[2]>>
        PROVE  \E rest \in Fs(e+1) : v = <<s, rest>>
    <3>1. PICK rest \in Fs(e+1) : w = << << >>, rest>>
      BY InEndFunc, Zenon
    <3> QED
      BY <2>1, <2>2, <3>1
  <2>3. ASSUME NEW rest \in Fs(e+1), v = <<s, rest>>
        PROVE  \E w \in EndFunc(toks)[e] : v = <<s \o w[1], w[2]>>
    <3> DEFINE w == << << >>, rest>>
    <3>1. w \in EndFunc(toks)[e]
      BY InEndFunc
    <3>2. v = <<s \o w[1], w[2]>>
      BY <2>1, <2>3
    <3> QED
      BY <3>1, <3>2
  <2> QED
    BY <2>2, <2>3
<1> QED
  BY <1>1, <1>2, Zenon

FunctionForm(x, a) ==
  \E c \in DOMAIN toks : \E ps, ret, v : /\ c >= a+3 /\ ps \in ParamsUpTo(a+3, c) /\ RetAt(c, ret, v)
                                         /\ x = <<Func(toks[a+1].x, ps, ret, v[1])>> \o v[2]

(* the programs from a position on, as a name, parameters, a return type and a tail *)
LEMMA FunctionForms ==
  ASSUME toks \in Inputs, NEW a \in DOMAIN toks, a # Len(toks), NEW x
  PROVE  x \in Fs(a) <=> FnAt(a) /\ FunctionForm(x, a)
<1>0. a \in Nat /\ DOMAIN toks = 1 .. Len(toks) /\ Len(toks) \in Nat
  BY Positions
<1>1. x \in Fs(a) <=> \E m \in a+1 .. Len(toks) : \E f : \E rest \in Fs(m) : FuncOf(f, a, m) /\ x = <<f>> \o rest
  BY FuncForms DEF FuncForm, Fs
<1>2. \A m, f : FuncOf(f, a, m) <=>
        /\ m >= a + 8 /\ FnAt(a) /\ Tok(m-1) = RBrace
        /\ \E c \in a+3 .. m-4 : \E q \in c+3 .. m-2 :
             /\ Tok(c) = ")" /\ Tok(c+1) = "->" /\ Tok(q) = LBrace
             /\ \E ps \in ParamsUpTo(a+3, c), ret \in Ty(c+2, q), body \in St(q+1, m-1) :
                  f = Func(toks[a+1].x, ps, ret, body)
  BY Zenon DEF FuncOf, FnAt, RBrace, LBrace
<1>3. ASSUME NEW m \in a+1 .. Len(toks), NEW f, NEW rest \in Fs(m), FuncOf(f, a, m), x = <<f>> \o rest
      PROVE  FnAt(a) /\ FunctionForm(x, a)
  <2>1. /\ m >= a + 8 /\ FnAt(a) /\ Tok(m-1) = RBrace
        /\ \E c \in a+3 .. m-4 : \E q \in c+3 .. m-2 :
             /\ Tok(c) = ")" /\ Tok(c+1) = "->" /\ Tok(q) = LBrace
             /\ \E ps \in ParamsUpTo(a+3, c), ret \in Ty(c+2, q), body \in St(q+1, m-1) :
                  f = Func(toks[a+1].x, ps, ret, body)
    BY <1>2, <1>3
  <2>2. PICK c \in a+3 .. m-4 : \E q \in c+3 .. m-2 :
             /\ Tok(c) = ")" /\ Tok(c+1) = "->" /\ Tok(q) = LBrace
             /\ \E ps \in ParamsUpTo(a+3, c), ret \in Ty(c+2, q), body \in St(q+1, m-1) :
                  f = Func(toks[a+1].x, ps, ret, body)
    BY <2>1
  <2>3. PICK q \in c+3 .. m-2 :
             /\ Tok(c) = ")" /\ Tok(c+1) = "->" /\ Tok(q) = LBrace
             /\ \E ps \in ParamsUpTo(a+3, c), ret \in Ty(c+2, q), body \in St(q+1, m-1) :
                  f = Func(toks[a+1].x, ps, ret, body)
    BY <2>2
  <2>4. PICK ps \in ParamsUpTo(a+3, c), ret \in Ty(c+2, q), body \in St(q+1, m-1) :
                  f = Func(toks[a+1].x, ps, ret, body)
    BY <2>3
  <2>5. /\ m-1 \in DOMAIN toks /\ (m-1)+1 = m /\ c \in DOMAIN toks /\ c >= a+3
        /\ q \in DOMAIN toks /\ q+1 \in DOMAIN toks /\ q >= c+3
    BY <1>0, <2>1
  <2> DEFINE v == <<body, rest>>
  <2>6. v \in Tails(EndFunc(toks), q+1)
    BY <2>1, <2>5, FuncTails
  <2>7. v[1] = body /\ v[2] = rest
    OBVIOUS
  <2> HIDE DEF v
  <2>8. RetAt(c, ret, v)
    BY <2>3, <2>5, <2>6, RetIs
  <2> QED
    BY <1>3, <2>1, <2>4, <2>5, <2>7, <2>8 DEF FunctionForm
<1>4. ASSUME FnAt(a), NEW c \in DOMAIN toks, NEW ps, NEW ret, NEW v, c >= a+3, ps \in ParamsUpTo(a+3, c), RetAt(c, ret, v),
             x = <<Func(toks[a+1].x, ps, ret, v[1])>> \o v[2]
      PROVE  x \in Fs(a)
  <2>1. Tok(c) = ")" /\ Tok(c+1) = "->"
    BY <1>4, RetIs
  <2>2. PICK q \in DOMAIN toks : q >= c+3 /\ Tok(q) = LBrace /\ ret \in Ty(c+2, q) /\ v \in Tails(EndFunc(toks), q+1)
    BY <1>4, RetIs
  <2>3. q+1 \in DOMAIN toks
    BY <2>2, Positions, BraceTokens
  <2>4. PICK e \in DOMAIN toks : Tok(e) = RBrace /\ \E s \in St(q+1, e), rest \in Fs(e+1) : v = <<s, rest>>
    BY <2>2, <2>3, FuncTails
  <2>5. PICK s \in St(q+1, e), rest \in Fs(e+1) : v = <<s, rest>>
    BY <2>4
  <2>6. e+1 \in DOMAIN toks /\ (e+1)-1 = e /\ e >= q+1
    BY <2>3, <2>4, BlockNext, BodyReaches
  <2>7. e+1 \in a+1 .. Len(toks) /\ e+1 >= a+8 /\ c \in a+3 .. (e+1)-4 /\ q \in c+3 .. (e+1)-2
    BY <1>0, <1>4, <2>2, <2>6
  <2> DEFINE f == Func(toks[a+1].x, ps, ret, s)
  <2>8. FuncOf(f, a, e+1)
    <3>1. s \in St(q+1, (e+1)-1) /\ Tok((e+1)-1) = RBrace
      BY <2>4, <2>6
    <3> HIDE DEF f
    <3>2. \E ps1 \in ParamsUpTo(a+3, c), ret1 \in Ty(c+2, q), body \in St(q+1, (e+1)-1) :
            f = Func(toks[a+1].x, ps1, ret1, body)
      BY <1>4, <2>2, <3>1 DEF f
    <3>3. \E c1 \in a+3 .. (e+1)-4 : \E q1 \in c1+3 .. (e+1)-2 :
             /\ Tok(c1) = ")" /\ Tok(c1+1) = "->" /\ Tok(q1) = LBrace
             /\ \E ps1 \in ParamsUpTo(a+3, c1), ret1 \in Ty(c1+2, q1), body \in St(q1+1, (e+1)-1) :
                  f = Func(toks[a+1].x, ps1, ret1, body)
      BY <2>1, <2>2, <2>7, <3>2
    <3> QED
      BY <1>2, <1>4, <2>7, <3>1, <3>3, Zenon
  <2>9. v[1] = s /\ v[2] = rest
    BY <2>5
  <2> HIDE DEF f
  <2>10. x = <<f>> \o rest
    BY <1>4, <2>9 DEF f
  <2> QED
    BY <1>1, <2>7, <2>8, <2>10
<1>5. ASSUME FnAt(a), FunctionForm(x, a) PROVE x \in Fs(a)
  BY <1>4, <1>5 DEF FunctionForm
<1> QED
  BY <1>1, <1>3, <1>5

(* at the end of input there is the empty program, and no other *)
LEMMA NoFunctionsAtEnd ==
  ASSUME toks \in Inputs, NEW x
  PROVE  x \in Fs(Len(toks)) <=> x = << >>
<1>1. Len(toks) \in DOMAIN toks
  BY Positions
<1> QED
  BY <1>1, FuncForms DEF FuncForm

-----------------------------------------------------------------------------
(* What the tokens from j on can make of what has been parsed, by the      *)
(* state of the parser: d is the program done with the functions from j;   *)
(* with the function f, its return type and body from j; with its          *)
(* parameters from j; with the rest of its body from j.                    *)

ProgLeft(ts, j, done, d) == \E rest \in FuncsIn(ts)[j] : d = done \o rest
RetLeft(ts, j, done, f, d) ==
  \E ret, v : RetIn(ts, j, ret, v) /\ d = done \o (<<Func(f.name, f.params, ret, v[1])>> \o v[2])
ParamsLeft(ts, j, done, f, d) ==
  \E c \in DOMAIN ts : \E ps, ret, v : /\ ps \in ParamsIn(ts)[<<j, c>>] /\ RetIn(ts, c, ret, v)
                                       /\ d = done \o (<<Func(f.name, f.params \o ps, ret, v[1])>> \o v[2])
BodyLeft(ts, W, j, done, f, d) ==
  \E w \in TailsIn(ts, W, j) : d = done \o (<<Func(f.name, f.params, f.ret, f.body \o w[1])>> \o w[2])

LEMMA PsStart ==
  ASSUME toks \in Inputs, NEW a \in DOMAIN toks, NEW c \in DOMAIN toks, NEW ps \in Ps(a, c)
  PROVE  Tok(a) = "ident" /\ c > a + 2 /\ IsSeq(ps)
<1>1. ParamForm(ParamsIn(toks), ps, a, c) /\ IsSeq(ps)
  BY ParamForms
<1>2. \E p, m : ParamOf(p, a, m) /\ (m = c \/ m \in a+1 .. c-1)
  BY <1>1, Zenon DEF ParamForm
<1>3. a \in Int /\ c \in Int
  BY Positions
<1> QED
  BY <1>1, <1>2, <1>3 DEF ParamOf

ParenAt(a) == Expect(Expect(Expect(Result(NoExpr, a), "fn"), "ident"), "(")

(* the header of a function *)
LEMMA ParenIs ==
  ASSUME toks \in Inputs, NEW a \in DOMAIN toks, NEW paren, paren = ParenAt(a)
  PROVE  (paren.ok <=> FnAt(a)) /\ (paren.ok => paren.i = a+3 /\ a+3 \in DOMAIN toks)
<1> DEFINE p == Result(NoExpr, a)
           q == Expect(p, "fn")
           r == Expect(q, "ident")
<1>0. a \in Nat /\ (a+1)+1 = a+2 /\ (a+2)+1 = a+3
  BY Positions
<1>1. p.ok /\ p.i = a
  BY Results
<1> HIDE DEF p
<1>2. (q.ok <=> Tok(a) = "fn") /\ (q.ok => q.i = a+1)
  BY <1>1, Expects, Results
<1> HIDE DEF q
<1>3. (r.ok <=> Tok(a) = "fn" /\ Tok(a+1) = "ident") /\ (r.ok => r.i = a+2)
  BY <1>0, <1>2, Expects, Results
<1>4. paren = Expect(r, "(")
  BY DEF ParenAt, p, q
<1> HIDE DEF r
<1>5. (paren.ok <=> FnAt(a)) /\ (paren.ok => paren.i = a+3)
  BY <1>0, <1>3, <1>4, Expects, Results DEF FnAt
<1>6. Tok(a+2) = "(" => a+3 \in DOMAIN toks
  BY <1>0, Positions
<1> QED
  BY <1>5, <1>6 DEF FnAt

(* parseFunc: its name, then parameters or the return type are left *)
LEMMA HeaderLeft ==
  ASSUME toks \in Inputs, NEW a \in DOMAIN toks, Tok(a) # "eof", NEW done, NEW d, NEW paren, paren = ParenAt(a),
         NEW f, f.name = toks[a+1].x, f.params = << >>
  PROVE  /\ paren.ok /\ Tok(paren.i) = ")" => (ProgLeft(toks, a, done, d) <=> RetLeft(toks, paren.i, done, f, d))
         /\ paren.ok /\ Tok(paren.i) # ")" => (ProgLeft(toks, a, done, d) <=> ParamsLeft(toks, paren.i, done, f, d))
         /\ ~paren.ok => ~ProgLeft(toks, a, done, d)
<1>0. a \in Nat /\ a # Len(toks) /\ DOMAIN toks \subseteq Int
  BY Positions, InputsAssumption DEF Tok
<1>1. (paren.ok <=> FnAt(a)) /\ (paren.ok => paren.i = a+3 /\ a+3 \in DOMAIN toks)
  BY ParenIs
<1> DEFINE Entire(ps, ret, v) == done \o (<<Func(f.name, ps, ret, v[1])>> \o v[2])
<1>2. ProgLeft(toks, a, done, d) <=>
        FnAt(a) /\ \E c \in DOMAIN toks : \E ps, ret, v :
          c >= a+3 /\ ps \in ParamsUpTo(a+3, c) /\ RetAt(c, ret, v) /\ d = Entire(ps, ret, v)
  <2>1. \A rest : rest \in Fs(a) <=> FnAt(a) /\ FunctionForm(rest, a)
    BY <1>0, FunctionForms
  <2>2. \A rest : FunctionForm(rest, a) <=>
          \E c \in DOMAIN toks : \E ps, ret, v :
            /\ c >= a+3 /\ ps \in ParamsUpTo(a+3, c) /\ RetAt(c, ret, v)
            /\ rest = <<Func(f.name, ps, ret, v[1])>> \o v[2]
    BY DEF FunctionForm
  <2> DEFINE Way(c, ps, ret, v) == c >= a+3 /\ ps \in ParamsUpTo(a+3, c) /\ RetAt(c, ret, v)
             Piece(ps, ret, v) == <<Func(f.name, ps, ret, v[1])>> \o v[2]
  <2>3. \A rest : FunctionForm(rest, a) <=> \E c \in DOMAIN toks : \E ps, ret, v : Way(c, ps, ret, v) /\ rest = Piece(ps, ret, v)
    BY <2>2
  <2>4. \A ps, ret, v : Entire(ps, ret, v) = done \o Piece(ps, ret, v)
    OBVIOUS
  <2>6. (\E c \in DOMAIN toks : \E ps, ret, v :
          c >= a+3 /\ ps \in ParamsUpTo(a+3, c) /\ RetAt(c, ret, v) /\ d = Entire(ps, ret, v))
        <=> \E c \in DOMAIN toks : \E ps, ret, v : Way(c, ps, ret, v) /\ d = Entire(ps, ret, v)
    OBVIOUS
  <2>5. ProgLeft(toks, a, done, d) <=> \E rest \in Fs(a) : d = done \o rest
    BY DEF ProgLeft, Fs
  <2> HIDE DEF Way, Piece, Entire
  <2>7. ProgLeft(toks, a, done, d) <=>
          FnAt(a) /\ \E c \in DOMAIN toks : \E ps, ret, v : Way(c, ps, ret, v) /\ d = Entire(ps, ret, v)
    <3>1. ASSUME NEW rest \in Fs(a), d = done \o rest
          PROVE  FnAt(a) /\ \E c \in DOMAIN toks : \E ps, ret, v : Way(c, ps, ret, v) /\ d = Entire(ps, ret, v)
      <4>1. FnAt(a) /\ FunctionForm(rest, a)
        BY <2>1
      <4>2. PICK c \in DOMAIN toks : \E ps, ret, v : Way(c, ps, ret, v) /\ rest = Piece(ps, ret, v)
        BY <2>3, <4>1
      <4>3. PICK ps, ret, v : Way(c, ps, ret, v) /\ rest = Piece(ps, ret, v)
        BY <4>2
      <4>4. d = Entire(ps, ret, v)
        BY <2>4, <3>1, <4>3
      <4> QED
        BY <4>1, <4>3, <4>4
    <3>2. ASSUME FnAt(a), NEW c \in DOMAIN toks, NEW ps, NEW ret, NEW v, Way(c, ps, ret, v), d = Entire(ps, ret, v)
          PROVE  \E rest \in Fs(a) : d = done \o rest
      <4>1. FunctionForm(Piece(ps, ret, v), a)
        BY <2>3, <3>2
      <4>2. Piece(ps, ret, v) \in Fs(a) /\ d = done \o Piece(ps, ret, v)
        BY <2>1, <2>4, <3>2, <4>1
      <4> QED
        BY <4>2
    <3> QED
      BY <2>5, <3>1, <3>2
  <2> QED
    BY <2>6, <2>7
<1>3. RetLeft(toks, a+3, done, f, d) <=> \E ret, v : RetAt(a+3, ret, v) /\ d = Entire(<< >>, ret, v)
  BY Zenon DEF RetLeft, RetAt
<1>4. ASSUME paren.ok
      PROVE  ParamsLeft(toks, a+3, done, f, d) <=>
               \E c \in DOMAIN toks : \E ps, ret, v : ps \in Ps(a+3, c) /\ RetAt(c, ret, v) /\ d = Entire(ps, ret, v)
  <2>1. \A c \in DOMAIN toks : \A ps \in Ps(a+3, c) : f.params \o ps = ps
    BY <1>1, <1>4, PsStart, ConcatEmpty
  <2>2. \A c \in DOMAIN toks : \A ps \in Ps(a+3, c) : \A ret, v :
          done \o (<<Func(f.name, f.params \o ps, ret, v[1])>> \o v[2]) = Entire(ps, ret, v)
    BY <2>1
  <2> DEFINE Way(c, ps, ret, v) == ps \in Ps(a+3, c) /\ RetAt(c, ret, v)
             Piece(ps, ret, v) == done \o (<<Func(f.name, f.params \o ps, ret, v[1])>> \o v[2])
  <2>3. ParamsLeft(toks, a+3, done, f, d) <=>
          \E c \in DOMAIN toks : \E ps, ret, v : Way(c, ps, ret, v) /\ d = Piece(ps, ret, v)
    BY DEF ParamsLeft, RetAt, Ps
  <2>4. \A c \in DOMAIN toks : \A ps, ret, v : Way(c, ps, ret, v) => Piece(ps, ret, v) = Entire(ps, ret, v)
    BY <2>2
  <2>6. (\E c \in DOMAIN toks : \E ps, ret, v : ps \in Ps(a+3, c) /\ RetAt(c, ret, v) /\ d = Entire(ps, ret, v))
        <=> \E c \in DOMAIN toks : \E ps, ret, v : Way(c, ps, ret, v) /\ d = Entire(ps, ret, v)
    OBVIOUS
  <2> HIDE DEF Way, Piece, Entire
  <2> QED
    BY <2>3, <2>4, <2>6
<1> HIDE DEF Entire
<1>5. \A c, ret, v : RetAt(c, ret, v) => Tok(c) = ")"
  BY RetIs
<1>6. CASE ~paren.ok
  BY <1>1, <1>2, <1>6
<1>7. CASE paren.ok /\ Tok(a+3) = ")"
  <2>1. \A c \in DOMAIN toks : \A ps : ps \in ParamsUpTo(a+3, c) <=> c = a+3 /\ ps = << >>
    BY <1>1, <1>7, PsStart DEF ParamsUpTo
  <2>2. a+3 >= a+3
    BY <1>0
  <2> QED
    BY <1>1, <1>2, <1>3, <1>7, <2>1, <2>2
<1>8. CASE paren.ok /\ Tok(a+3) # ")"
  <2>1. \A c \in DOMAIN toks : Tok(c) = ")" => \A ps : ps \in ParamsUpTo(a+3, c) <=> ps \in Ps(a+3, c)
    BY <1>8 DEF ParamsUpTo
  <2>2. \A c \in DOMAIN toks : \A ps : ps \in Ps(a+3, c) => c >= a+3
    <3>1. \A c \in DOMAIN toks : \A ps : ps \in Ps(a+3, c) => c > (a+3) + 2
      BY <1>1, <1>8, PsStart
    <3> QED
      BY <1>0, <3>1
  <2> QED
    BY <1>1, <1>2, <1>4, <1>5, <1>8, <2>1, <2>2
<1> QED
  BY <1>1, <1>6, <1>7, <1>8

ParamAt(a) == From(ParseType, Expect(Expect(Result(NoExpr, a), "ident"), ":"))

(* a parameter *)
LEMMA ParamDecides ==
  ASSUME toks \in Inputs, NEW a \in DOMAIN toks, NEW ty, ty = ParamAt(a)
  PROVE  /\ ty.ok => ty.i \in DOMAIN toks /\ ty.i > a + 2 /\ ParamOf(Param(toks[a].x, ty.e), a, ty.i)
         /\ \A b \in DOMAIN toks : \A p : ParamOf(p, a, b) /\ Tok(b) # "[" =>
              ty.ok /\ b = ty.i /\ p = Param(toks[a].x, ty.e)
<1> DEFINE p0 == Result(NoExpr, a)
           q == Expect(p0, "ident")
           r == Expect(q, ":")
<1>0. a \in Nat /\ (a+1)+1 = a+2 /\ (a+2)+1 = a+3 /\ DOMAIN toks \subseteq Int
  BY Positions
<1>1. p0.ok /\ p0.i = a
  BY Results
<1> HIDE DEF p0
<1>2. (q.ok <=> Tok(a) = "ident") /\ (q.ok => q.i = a+1)
  BY <1>1, Expects, Results
<1> HIDE DEF q
<1>3. (r.ok <=> Tok(a) = "ident" /\ Tok(a+1) = ":") /\ (r.ok => r.i = a+2)
  BY <1>0, <1>2, Expects, Results
<1>4. Tok(a+1) = ":" => a+2 \in DOMAIN toks
  BY <1>0, Positions
<1>5. ty = From(ParseType, r)
  BY DEF ParamAt, p0, q
<1> HIDE DEF r
<1>6. (r.ok => ty = ParseType[a+2]) /\ (~r.ok => ~ty.ok)
  BY <1>3, <1>5, Froms
<1>7. r.ok => TypeDecided(a+2) /\ Reaches(ParseType[a+2], (a+2)+1)
  BY <1>3, <1>4, TypesDecided, TypesReach
<1>8. ASSUME ty.ok
      PROVE  ty.i \in DOMAIN toks /\ ty.i > a + 2 /\ ParamOf(Param(toks[a].x, ty.e), a, ty.i)
  <2>1. r.ok /\ ty = ParseType[a+2]
    BY <1>6, <1>8
  <2>2. ty.e \in Ty(a+2, ty.i) /\ ty.i \in DOMAIN toks /\ ty.i >= (a+2)+1
    BY <1>7, <1>8, <2>1 DEF TypeDecided, Reaches
  <2>3. ty.i > a+2
    BY <1>0, <2>2
  <2> QED
    BY <1>3, <2>1, <2>2, <2>3 DEF ParamOf
<1>9. ASSUME NEW b \in DOMAIN toks, NEW p, ParamOf(p, a, b), Tok(b) # "["
      PROVE  ty.ok /\ b = ty.i /\ p = Param(toks[a].x, ty.e)
  <2>1. PICK t \in Ty(a+2, b) : p = Param(toks[a].x, t)
    BY <1>9 DEF ParamOf
  <2>2. r.ok
    BY <1>3, <1>9 DEF ParamOf
  <2>3. ty = Result(t, b)
    BY <1>6, <1>7, <1>9, <2>1, <2>2 DEF TypeDecided
  <2>4. ty.ok /\ ty.i = b /\ ty.e = t
    BY <2>3, Results
  <2> QED
    BY <2>1, <2>4
<1> QED
  BY <1>8, <1>9

Comma == ","

LEMMA CommaToken == Comma # ")" /\ Comma # "[" /\ Comma \notin {"eof", "none"}
  BY Zenon DEF Comma

(* ps is the parameter p up to ty.i, and the others up to c *)
FirstIs(ps, ty, c, p) ==
  /\ ty.ok
  /\ \/ c = ty.i /\ ps = <<p>>
     \/ Tok(ty.i) = Comma /\ \E rest \in Ps(ty.i+1, c) : ps = <<p>> \o rest

(* the parameters from a up to the parenthesis at c *)
LEMMA PsFirst ==
  ASSUME toks \in Inputs, NEW a \in DOMAIN toks, NEW ty, ty = ParamAt(a), NEW c \in DOMAIN toks, Tok(c) = ")", NEW ps,
         NEW p, p = Param(toks[a].x, ty.e)
  PROVE  ps \in Ps(a, c) <=> FirstIs(ps, ty, c, p)
<1>0. DOMAIN toks = 1 .. Len(toks) /\ Len(toks) \in Nat
  BY Positions
<1>1. ps \in Ps(a, c) <=>
        \/ \E q : ParamOf(q, a, c) /\ ps = <<q>>
        \/ \E m \in a+1 .. c-1 : \E q : \E rest \in Ps(m+1, c) : Tok(m) = Comma /\ ParamOf(q, a, m) /\ ps = <<q>> \o rest
  <2>1. ps \in Ps(a, c) <=> ParamForm(ParamsIn(toks), ps, a, c)
    BY ParamForms
  <2> QED
    BY <2>1, Zenon DEF ParamForm, Ps, Comma
<1>2. /\ ty.ok => ty.i \in DOMAIN toks /\ ty.i > a + 2 /\ ParamOf(p, a, ty.i)
      /\ \A b \in DOMAIN toks : \A q : ParamOf(q, a, b) /\ Tok(b) # "[" => ty.ok /\ b = ty.i /\ q = p
  BY ParamDecides
<1>3. ASSUME NEW q, ParamOf(q, a, c), ps = <<q>>
      PROVE  ty.ok /\ c = ty.i /\ ps = <<p>>
  BY <1>2, <1>3
<1>4. ASSUME NEW m \in a+1 .. c-1, NEW q, NEW rest \in Ps(m+1, c), Tok(m) = Comma, ParamOf(q, a, m), ps = <<q>> \o rest
      PROVE  ty.ok /\ Tok(ty.i) = Comma /\ \E rest1 \in Ps(ty.i+1, c) : ps = <<p>> \o rest1
  <2>1. m \in DOMAIN toks /\ Tok(m) # "["
    BY <1>0, <1>4, CommaToken
  <2>2. ty.ok /\ m = ty.i /\ q = p
    BY <1>2, <1>4, <2>1
  <2> QED
    BY <1>4, <2>2
<1>5. ASSUME ty.ok, c = ty.i, ps = <<p>>
      PROVE  ps \in Ps(a, c)
  BY <1>1, <1>2, <1>5
<1>6. ASSUME ty.ok, Tok(ty.i) = Comma, NEW rest \in Ps(ty.i+1, c), ps = <<p>> \o rest
      PROVE  ps \in Ps(a, c)
  <2>1. ty.i \in DOMAIN toks /\ ty.i+1 \in DOMAIN toks
    BY <1>2, <1>6, Positions, CommaToken
  <2>2. c > (ty.i+1) + 2
    BY <1>6, <2>1, PsStart
  <2>3. ty.i \in a+1 .. c-1
    BY <1>0, <1>2, <1>6, <2>1, <2>2
  <2> QED
    BY <1>1, <1>2, <1>6, <2>3
<1> QED
  BY <1>1, <1>3, <1>4, <1>5, <1>6 DEF FirstIs

(* a parameter is taken: others are left behind a comma, the return type otherwise *)
LEMMA ParameterLeft ==
  ASSUME toks \in Inputs, NEW a \in DOMAIN toks, NEW done, NEW d, NEW ty, ty = ParamAt(a), NEW f, IsSeq(f.params),
         NEW g, g.name = f.name, g.params = Append(f.params, Param(toks[a].x, ty.e))
  PROVE  /\ ty.ok /\ Tok(ty.i) = Comma => (ParamsLeft(toks, a, done, f, d) <=> ParamsLeft(toks, ty.i + 1, done, g, d))
         /\ ty.ok /\ Tok(ty.i) # Comma => (ParamsLeft(toks, a, done, f, d) <=> RetLeft(toks, ty.i, done, g, d))
         /\ ~ty.ok => ~ParamsLeft(toks, a, done, f, d)
<1> DEFINE p == Param(toks[a].x, ty.e)
           Entire(ps, ret, v) == done \o (<<Func(f.name, ps, ret, v[1])>> \o v[2])
<1>0. \A c, ret, v : RetAt(c, ret, v) => Tok(c) = ")"
  BY RetIs
<1>a. p = Param(toks[a].x, ty.e)
  OBVIOUS
<1>2. f.params \o <<p>> = g.params /\ IsSeq(<<p>>)
  BY AddOne, OneEntryStack
<1>3. ty.ok => ty.i \in DOMAIN toks
  BY ParamDecides
<1> HIDE DEF p
<1>b. ASSUME NEW c \in DOMAIN toks, Tok(c) = ")", NEW ps PROVE ps \in Ps(a, c) <=> FirstIs(ps, ty, c, p)
  BY <1>a, <1>b, PsFirst
<1>1. \A c \in DOMAIN toks : Tok(c) = ")" => \A ps : ps \in Ps(a, c) <=>
        /\ ty.ok
        /\ \/ c = ty.i /\ ps = <<p>>
           \/ Tok(ty.i) = Comma /\ \E rest \in Ps(ty.i+1, c) : ps = <<p>> \o rest
  BY <1>b, Zenon DEF FirstIs
<1>4. ParamsLeft(toks, a, done, f, d) <=>
        \E c \in DOMAIN toks : \E ps, ret, v : ps \in Ps(a, c) /\ RetAt(c, ret, v) /\ d = Entire(f.params \o ps, ret, v)
  BY Zenon DEF ParamsLeft, RetAt, Ps
<1>5. RetLeft(toks, ty.i, done, g, d) <=> \E ret, v : RetAt(ty.i, ret, v) /\ d = Entire(g.params, ret, v)
  BY DEF RetLeft, RetAt
<1>6. ParamsLeft(toks, ty.i + 1, done, g, d) <=>
        \E c \in DOMAIN toks : \E ps, ret, v : ps \in Ps(ty.i+1, c) /\ RetAt(c, ret, v) /\ d = Entire(g.params \o ps, ret, v)
  BY DEF ParamsLeft, RetAt, Ps
<1> HIDE DEF Entire
<1>7. CASE ~ty.ok
  BY <1>0, <1>1, <1>4, <1>7
<1>8. CASE ty.ok /\ Tok(ty.i) # Comma
  <2>1. ASSUME NEW c \in DOMAIN toks, NEW ps, NEW ret, NEW v, ps \in Ps(a, c), RetAt(c, ret, v), d = Entire(f.params \o ps, ret, v)
        PROVE  RetAt(ty.i, ret, v) /\ d = Entire(g.params, ret, v)
    BY <1>0, <1>1, <1>2, <1>8, <2>1
  <2>2. ASSUME NEW ret, NEW v, RetAt(ty.i, ret, v), d = Entire(g.params, ret, v)
        PROVE  <<p>> \in Ps(a, ty.i) /\ d = Entire(f.params \o <<p>>, ret, v)
    BY <1>0, <1>1, <1>2, <1>3, <1>8, <2>2
  <2> QED
    BY <1>3, <1>4, <1>5, <1>8, <2>1, <2>2
<1>9. CASE ty.ok /\ Tok(ty.i) = Comma
  <2>0. ty.i + 1 \in DOMAIN toks
    BY <1>9, Positions, CommaToken
  <2>1. \A c \in DOMAIN toks : \A rest \in Ps(ty.i+1, c) : f.params \o (<<p>> \o rest) = g.params \o rest
    <3>1. ASSUME NEW c \in DOMAIN toks, NEW rest \in Ps(ty.i+1, c) PROVE f.params \o (<<p>> \o rest) = g.params \o rest
      <4> DEFINE w == <<p>>
                 h == f.params
      <4>1. IsSeq(rest) /\ IsSeq(w) /\ IsSeq(h)
        BY <1>2, <2>0, PsStart
      <4> HIDE DEF w, h
      <4>2. (h \o w) \o rest = h \o (w \o rest)
        BY <4>1, ConcatTwice
      <4>3. h \o w = g.params
        BY <1>2 DEF w, h
      <4>4. h \o (w \o rest) = g.params \o rest
        BY <4>2, <4>3
      <4> QED
        BY <4>4 DEF w, h
    <3> QED
      BY <3>1
  <2>2. ASSUME NEW c \in DOMAIN toks, NEW ps, NEW ret, NEW v, ps \in Ps(a, c), RetAt(c, ret, v), d = Entire(f.params \o ps, ret, v)
        PROVE  \E rest \in Ps(ty.i+1, c) : d = Entire(g.params \o rest, ret, v)
    <3>1. Tok(c) = ")" /\ c # ty.i
      BY <1>0, <1>9, <2>2, CommaToken
    <3>2. PICK rest \in Ps(ty.i+1, c) : ps = <<p>> \o rest
      BY <1>1, <2>2, <3>1
    <3> QED
      BY <2>1, <2>2, <3>2
  <2>3. ASSUME NEW c \in DOMAIN toks, NEW rest, NEW ret, NEW v, rest \in Ps(ty.i+1, c), RetAt(c, ret, v), d = Entire(g.params \o rest, ret, v)
        PROVE  \E ps \in Ps(a, c) : d = Entire(f.params \o ps, ret, v)
    <3> DEFINE ps == <<p>> \o rest
    <3>1. ps \in Ps(a, c)
      BY <1>0, <1>1, <1>9, <2>3
    <3>2. d = Entire(f.params \o ps, ret, v)
      BY <2>1, <2>3
    <3> QED
      BY <3>1, <3>2
  <2> QED
    BY <1>4, <1>6, <1>9, <2>2, <2>3
<1> QED
  BY <1>7, <1>8, <1>9

RetTypeAt(a) == Expect(From(ParseType, Expect(Expect(Result(NoExpr, a), ")"), "->")), LBrace)

(* the return type *)
LEMMA ReturnDecides ==
  ASSUME toks \in Inputs, NEW a \in DOMAIN toks, NEW ty, ty = RetTypeAt(a), NEW ret, NEW v
  PROVE  /\ RetAt(a, ret, v) <=> ty.ok /\ ret = ty.e /\ v \in Tails(EndFunc(toks), ty.i)
         /\ ty.ok => ty.i \in DOMAIN toks
<1> DEFINE p0 == Result(NoExpr, a)
           q0 == Expect(p0, ")")
           r0 == Expect(q0, "->")
           r == Expect(From(ParseType, r0), LBrace)
<1>0. a \in Nat /\ (a+1)+1 = a+2 /\ (a+2)+1 = a+3 /\ DOMAIN toks \subseteq Int
  BY Positions
<1>1. p0.ok /\ p0.i = a
  BY Results
<1> HIDE DEF p0
<1>2. (q0.ok <=> Tok(a) = ")") /\ (q0.ok => q0.i = a+1)
  BY <1>1, Expects, Results
<1> HIDE DEF q0
<1>3. (r0.ok <=> Tok(a) = ")" /\ Tok(a+1) = "->") /\ (r0.ok => r0.i = a+2)
  BY <1>0, <1>2, Expects, Results
<1>4. Tok(a+1) = "->" => a+2 \in DOMAIN toks
  BY <1>0, Positions
<1>5. ty = r
  BY DEF RetTypeAt, p0, q0
<1> HIDE DEF r0
<1>6. r0.ok => /\ r.ok => /\ r.i \in DOMAIN toks /\ r.i - 1 \in DOMAIN toks /\ r.i > (a+2) + 1
                          /\ Tok(r.i - 1) = LBrace /\ r.e \in Ty(a+2, r.i - 1)
               /\ \A m \in DOMAIN toks : \A t \in Ty(a+2, m) : Tok(m) = LBrace => r = Result(t, m+1)
  BY <1>3, <1>4, BraceTokens, TypeUpTo
<1>7. ~r0.ok => ~r.ok
  <2>1. ~r0.ok => ~From(ParseType, r0).ok
    BY Froms
  <2> QED
    BY <2>1, Expects
<1> HIDE DEF r
<1>8. ASSUME RetAt(a, ret, v) PROVE ty.ok /\ ret = ty.e /\ v \in Tails(EndFunc(toks), ty.i)
  <2>1. r0.ok
    BY <1>3, <1>8, RetIs
  <2>2. PICK q \in DOMAIN toks : q >= a+3 /\ Tok(q) = LBrace /\ ret \in Ty(a+2, q) /\ v \in Tails(EndFunc(toks), q+1)
    BY <1>8, RetIs
  <2>3. r = Result(ret, q+1)
    BY <1>6, <2>1, <2>2
  <2>4. ty.ok /\ ty.e = ret /\ ty.i = q+1
    BY <1>5, <2>3, Results
  <2> QED
    BY <2>2, <2>4
<1>9. ASSUME ty.ok, ret = ty.e, v \in Tails(EndFunc(toks), ty.i) PROVE RetAt(a, ret, v)
  <2>1. r0.ok
    BY <1>5, <1>7, <1>9
  <2>2. ty.i - 1 \in DOMAIN toks /\ ty.i > (a+2) + 1 /\ Tok(ty.i - 1) = LBrace /\ ret \in Ty(a+2, ty.i - 1)
    BY <1>5, <1>6, <1>9, <2>1
  <2>3. ty.i \in DOMAIN toks
    BY <1>5, <1>6, <1>9, <2>1
  <2>4. (ty.i - 1) + 1 = ty.i /\ ty.i - 1 >= a+3
    BY <1>0, <2>2, <2>3
  <2>5. v \in Tails(EndFunc(toks), (ty.i - 1) + 1)
    BY <1>9, <2>4
  <2> QED
    BY <1>3, <2>1, <2>2, <2>4, <2>5, RetIs
<1>10. ty.ok => ty.i \in DOMAIN toks
  BY <1>5, <1>6, <1>7
<1> QED
  BY <1>8, <1>9, <1>10

(* the return type is taken: the body is left *)
LEMMA ReturnLeft ==
  ASSUME toks \in Inputs, NEW a \in DOMAIN toks, NEW done, NEW d, NEW ty, ty = RetTypeAt(a),
         NEW f, NEW g, g.name = f.name, g.params = f.params, g.ret = ty.e, g.body = << >>
  PROVE  /\ ty.ok => (RetLeft(toks, a, done, f, d) <=> BodyLeft(toks, EndFunc(toks), ty.i, done, g, d))
         /\ ~ty.ok => ~RetLeft(toks, a, done, f, d)
<1> DEFINE Entire(ret, body, rest) == done \o (<<Func(f.name, f.params, ret, body)>> \o rest)
<1>1. \A ret, v : RetAt(a, ret, v) <=> ty.ok /\ ret = ty.e /\ v \in Tails(EndFunc(toks), ty.i)
  BY ReturnDecides
<1>2. ty.ok => ty.i \in DOMAIN toks
  BY ReturnDecides
<1>3. RetLeft(toks, a, done, f, d) <=> \E ret, v : RetAt(a, ret, v) /\ d = Entire(ret, v[1], v[2])
  BY Zenon DEF RetLeft, RetAt
<1>4. BodyLeft(toks, EndFunc(toks), ty.i, done, g, d) <=>
        \E v \in Tails(EndFunc(toks), ty.i) : d = Entire(ty.e, << >> \o v[1], v[2])
  BY DEF BodyLeft, Tails
<1>5. ty.ok => \A v \in Tails(EndFunc(toks), ty.i) : << >> \o v[1] = v[1]
  BY <1>2, FuncGood, TailsGood, ConcatEmpty DEF Pair
<1> HIDE DEF Entire
<1>6. ty.ok => (BodyLeft(toks, EndFunc(toks), ty.i, done, g, d) <=>
                \E v \in Tails(EndFunc(toks), ty.i) : d = Entire(ty.e, v[1], v[2]))
  BY <1>4, <1>5
<1>7. RetLeft(toks, a, done, f, d) <=> ty.ok /\ \E v \in Tails(EndFunc(toks), ty.i) : d = Entire(ty.e, v[1], v[2])
  BY <1>1, <1>3, Zenon
<1> QED
  BY <1>6, <1>7

(* the end of a function: further functions are left *)
LEMMA FunctionEndLeft ==
  ASSUME toks \in Inputs, NEW a \in DOMAIN toks, Tok(a) = RBrace, NEW done, IsSeq(done), NEW d,
         NEW f, f = Func(f.name, f.params, f.ret, f.body), IsSeq(f.body)
  PROVE  BodyLeft(toks, EndFunc(toks), a, done, f, d) <=> ProgLeft(toks, a+1, Append(done, f), d)
<1>1. \A v : v \in Tails(EndFunc(toks), a) <=> \E rest \in Fs(a+1) : v = << << >>, rest>>
  BY EndMoves, FuncGood
<1>2. a+1 \in DOMAIN toks
  BY BlockNext
<1>3. f.body \o << >> = f.body /\ done \o <<f>> = Append(done, f) /\ IsSeq(<<f>>)
  BY ConcatEmpty, AddOne, OneEntryStack
<1>4. ASSUME NEW rest \in Fs(a+1) PROVE done \o (<<f>> \o rest) = Append(done, f) \o rest
  <2> DEFINE w == <<f>>
  <2>1. IsSeq(rest) /\ IsSeq(w)
    BY <1>2, <1>3, FuncForms
  <2> HIDE DEF w
  <2>2. (done \o w) \o rest = done \o (w \o rest)
    BY <2>1, ConcatTwice
  <2>3. done \o w = Append(done, f)
    BY <1>3 DEF w
  <2>4. done \o (w \o rest) = Append(done, f) \o rest
    BY <2>2, <2>3
  <2> QED
    BY <2>4 DEF w
<1>5. ASSUME NEW rest \in Fs(a+1), NEW v, v = << << >>, rest>>
      PROVE  done \o (<<Func(f.name, f.params, f.ret, f.body \o v[1])>> \o v[2]) = Append(done, f) \o rest
  <2>1. v[1] = << >> /\ v[2] = rest
    BY <1>5
  <2>2. Func(f.name, f.params, f.ret, f.body \o v[1]) = f
    BY <1>3, <2>1
  <2> QED
    BY <1>4, <2>1, <2>2
<1>6. BodyLeft(toks, EndFunc(toks), a, done, f, d) <=>
        \E v \in Tails(EndFunc(toks), a) : d = done \o (<<Func(f.name, f.params, f.ret, f.body \o v[1])>> \o v[2])
  BY DEF BodyLeft, Tails
<1>7. ProgLeft(toks, a+1, Append(done, f), d) <=> \E rest \in Fs(a+1) : d = Append(done, f) \o rest
  BY DEF ProgLeft, Fs
<1>8. ASSUME BodyLeft(toks, EndFunc(toks), a, done, f, d) PROVE ProgLeft(toks, a+1, Append(done, f), d)
  <2>1. PICK v \in Tails(EndFunc(toks), a) : d = done \o (<<Func(f.name, f.params, f.ret, f.body \o v[1])>> \o v[2])
    BY <1>6, <1>8
  <2>2. PICK rest \in Fs(a+1) : v = << << >>, rest>>
    BY <1>1
  <2> QED
    BY <1>5, <1>7, <2>1, <2>2
<1>9. ASSUME ProgLeft(toks, a+1, Append(done, f), d) PROVE BodyLeft(toks, EndFunc(toks), a, done, f, d)
  <2>1. PICK rest \in Fs(a+1) : d = Append(done, f) \o rest
    BY <1>7, <1>9
  <2> DEFINE v == << << >>, rest>>
  <2>2. v \in Tails(EndFunc(toks), a)
    BY <1>1
  <2>3. d = done \o (<<Func(f.name, f.params, f.ret, f.body \o v[1])>> \o v[2])
    BY <1>5, <2>1
  <2> QED
    BY <1>6, <2>2, <2>3
<1> QED
  BY <1>8, <1>9

(* the end of input: nothing is left *)
LEMMA ProgramEndLeft ==
  ASSUME toks \in Inputs, NEW a \in DOMAIN toks, Tok(a) = "eof", NEW done, IsSeq(done), NEW d
  PROVE  ProgLeft(toks, a, done, d) <=> d = done
<1>1. a = Len(toks)
  BY InputsAssumption DEF Tok
<1>2. \A rest : rest \in Fs(a) <=> rest = << >>
  BY <1>1, NoFunctionsAtEnd
<1>3. done \o << >> = done
  BY ConcatEmpty
<1> QED
  BY <1>2, <1>3 DEF ProgLeft, Fs

(* a move of the parser in a body adds the nodes to what has been parsed *)
LEMMA BodyMoves ==
  ASSUME toks \in Inputs, NEW W, NEW a, NEW n, IsSeq(n), NEW V, Good(V), NEW c \in DOMAIN toks, Moves(W, a, n, V, c),
         NEW done, NEW d, NEW f, IsSeq(f.body),
         NEW g, g.name = f.name, g.params = f.params, g.ret = f.ret, g.body = f.body \o n
  PROVE  BodyLeft(toks, W, a, done, f, d) <=> BodyLeft(toks, V, c, done, g, d)
<1> DEFINE Entire(body, rest) == done \o (<<Func(f.name, f.params, f.ret, body)>> \o rest)
<1>1. BodyLeft(toks, W, a, done, f, d) <=> \E v \in Tails(W, a) : d = Entire(f.body \o v[1], v[2])
  BY DEF BodyLeft, Tails
<1>2. BodyLeft(toks, V, c, done, g, d) <=> \E u \in Tails(V, c) : d = Entire((f.body \o n) \o u[1], u[2])
  BY DEF BodyLeft, Tails
<1>3. ASSUME NEW u \in Tails(V, c) PROVE f.body \o (n \o u[1]) = (f.body \o n) \o u[1]
  <2> DEFINE z == u[1]
             b == f.body
  <2>1. IsSeq(z) /\ IsSeq(b)
    BY TailsGood DEF Pair
  <2> HIDE DEF z, b
  <2>2. (b \o n) \o z = b \o (n \o z)
    BY <2>1, ConcatTwice
  <2> QED
    BY <2>2 DEF z, b
<1>4. \A v : v \in Tails(W, a) <=> \E u \in Tails(V, c) : v = <<n \o u[1], u[2]>>
  BY DEF Moves, Extends
<1> HIDE DEF Entire
<1>5. ASSUME NEW u \in Tails(V, c), NEW v, v = <<n \o u[1], u[2]>>
      PROVE  Entire(f.body \o v[1], v[2]) = Entire((f.body \o n) \o u[1], u[2])
  <2>1. v[1] = n \o u[1] /\ v[2] = u[2]
    BY <1>5
  <2> QED
    BY <1>3, <2>1
<1>6. ASSUME NEW v \in Tails(W, a), d = Entire(f.body \o v[1], v[2])
      PROVE  \E u \in Tails(V, c) : d = Entire((f.body \o n) \o u[1], u[2])
  <2>1. PICK u \in Tails(V, c) : v = <<n \o u[1], u[2]>>
    BY <1>4
  <2> QED
    BY <1>5, <1>6, <2>1
<1>7. ASSUME NEW u \in Tails(V, c), d = Entire((f.body \o n) \o u[1], u[2])
      PROVE  \E v \in Tails(W, a) : d = Entire(f.body \o v[1], v[2])
  <2> DEFINE v == <<n \o u[1], u[2]>>
  <2>1. v \in Tails(W, a)
    BY <1>4
  <2>2. d = Entire(f.body \o v[1], v[2])
    BY <1>5, <1>7
  <2> QED
    BY <2>1, <2>2
<1> QED
  BY <1>1, <1>2, <1>6, <1>7

(* What the parser has still to read stands for what the whole of the text *)
(* does: in front of a function, in a list of parameters, in front of a    *)
(* return type, and in a body, with W what can follow the innermost block. *)
ProgNow(ts, j, done) == \A d : d \in Derivations(ts) <=> ProgLeft(ts, j, done, d)
ParamsNow(ts, j, done, f) == \A d : d \in Derivations(ts) <=> ParamsLeft(ts, j, done, f, d)
RetNow(ts, j, done, f) == \A d : d \in Derivations(ts) <=> RetLeft(ts, j, done, f, d)
BodyNow(ts, W, j, done, f) == \A d : d \in Derivations(ts) <=> BodyLeft(ts, W, j, done, f, d)
None(ts) == Derivations(ts) = {}

(* each step of the parser keeps this, or ends it with fatal() when nothing is left *)
LEMMA HeaderNow ==
  ASSUME toks \in Inputs, NEW a \in DOMAIN toks, Tok(a) # "eof", NEW done, NEW paren, paren = ParenAt(a),
         NEW f, f.name = toks[a+1].x, f.params = << >>, ProgNow(toks, a, done)
  PROVE  /\ paren.ok /\ Tok(paren.i) = ")" => RetNow(toks, paren.i, done, f)
         /\ paren.ok /\ Tok(paren.i) # ")" => ParamsNow(toks, paren.i, done, f)
         /\ ~paren.ok => None(toks)
<1>1. ASSUME NEW d
      PROVE  /\ paren.ok /\ Tok(paren.i) = ")" => (ProgLeft(toks, a, done, d) <=> RetLeft(toks, paren.i, done, f, d))
             /\ paren.ok /\ Tok(paren.i) # ")" => (ProgLeft(toks, a, done, d) <=> ParamsLeft(toks, paren.i, done, f, d))
             /\ ~paren.ok => ~ProgLeft(toks, a, done, d)
  BY HeaderLeft
<1> QED
  BY <1>1, Zenon DEF ProgNow, RetNow, ParamsNow, None

LEMMA ParameterNow ==
  ASSUME toks \in Inputs, NEW a \in DOMAIN toks, NEW done, NEW ty, ty = ParamAt(a), NEW f, IsSeq(f.params),
         NEW g, g.name = f.name, g.params = Append(f.params, Param(toks[a].x, ty.e)), ParamsNow(toks, a, done, f)
  PROVE  /\ ty.ok /\ Tok(ty.i) = Comma => ParamsNow(toks, ty.i + 1, done, g)
         /\ ty.ok /\ Tok(ty.i) # Comma => RetNow(toks, ty.i, done, g)
         /\ ~ty.ok => None(toks)
<1>1. ASSUME NEW d
      PROVE  /\ ty.ok /\ Tok(ty.i) = Comma => (ParamsLeft(toks, a, done, f, d) <=> ParamsLeft(toks, ty.i + 1, done, g, d))
             /\ ty.ok /\ Tok(ty.i) # Comma => (ParamsLeft(toks, a, done, f, d) <=> RetLeft(toks, ty.i, done, g, d))
             /\ ~ty.ok => ~ParamsLeft(toks, a, done, f, d)
  BY ParameterLeft
<1> QED
  BY <1>1, Zenon DEF RetNow, ParamsNow, None

LEMMA ReturnNow ==
  ASSUME toks \in Inputs, NEW a \in DOMAIN toks, NEW done, NEW ty, ty = RetTypeAt(a),
         NEW f, NEW g, g.name = f.name, g.params = f.params, g.ret = ty.e, g.body = << >>, RetNow(toks, a, done, f)
  PROVE  /\ ty.ok => BodyNow(toks, EndFunc(toks), ty.i, done, g)
         /\ ~ty.ok => None(toks)
<1>1. ASSUME NEW d
      PROVE  /\ ty.ok => (RetLeft(toks, a, done, f, d) <=> BodyLeft(toks, EndFunc(toks), ty.i, done, g, d))
             /\ ~ty.ok => ~RetLeft(toks, a, done, f, d)
  BY ReturnLeft
<1> QED
  BY <1>1, Zenon DEF RetNow, BodyNow, None

LEMMA FunctionEndNow ==
  ASSUME toks \in Inputs, NEW a \in DOMAIN toks, Tok(a) = RBrace, NEW done, IsSeq(done),
         NEW f, f = Func(f.name, f.params, f.ret, f.body), IsSeq(f.body), BodyNow(toks, EndFunc(toks), a, done, f)
  PROVE  ProgNow(toks, a+1, Append(done, f))
<1>1. ASSUME NEW d PROVE BodyLeft(toks, EndFunc(toks), a, done, f, d) <=> ProgLeft(toks, a+1, Append(done, f), d)
  BY FunctionEndLeft
<1> QED
  BY <1>1, Zenon DEF ProgNow, BodyNow

LEMMA ProgramEndNow ==
  ASSUME toks \in Inputs, NEW a \in DOMAIN toks, Tok(a) = "eof", NEW done, IsSeq(done), ProgNow(toks, a, done)
  PROVE  Derivations(toks) = {done}
<1>1. ASSUME NEW d PROVE ProgLeft(toks, a, done, d) <=> d = done
  BY ProgramEndLeft
<1> QED
  BY <1>1 DEF ProgNow

LEMMA MovesNow ==
  ASSUME toks \in Inputs, NEW W, NEW a, NEW n, IsSeq(n), NEW V, Good(V), NEW c \in DOMAIN toks, Moves(W, a, n, V, c),
         NEW done, NEW f, IsSeq(f.body),
         NEW g, g.name = f.name, g.params = f.params, g.ret = f.ret, g.body = f.body \o n, BodyNow(toks, W, a, done, f)
  PROVE  BodyNow(toks, V, c, done, g)
<1>1. ASSUME NEW d PROVE BodyLeft(toks, W, a, done, f, d) <=> BodyLeft(toks, V, c, done, g, d)
  BY BodyMoves
<1> QED
  BY <1>1, Zenon DEF BodyNow

LEMMA NothingNow ==
  ASSUME NEW W, NEW a, Tails(W, a) = {}, NEW done, NEW f, BodyNow(toks, W, a, done, f)
  PROVE  None(toks)
<1>1. ASSUME NEW d PROVE ~BodyLeft(toks, W, a, done, f, d)
  BY DEF BodyLeft, Tails
<1> QED
  BY <1>1 DEF BodyNow, None

LEMMA StartNow == ASSUME toks \in Inputs PROVE ProgNow(toks, 1, << >>)
<1>1. 1 \in DOMAIN toks
  <2>1. IsSeq(toks) /\ toks # << >>
    BY InputsAssumption
  <2> QED
    BY <2>1, SeqBasics
<1>2. ASSUME NEW rest \in Fs(1) PROVE << >> \o rest = rest
  BY <1>1, FuncForms, ConcatEmpty
<1> QED
  BY <1>2 DEF ProgNow, ProgLeft, Derivations, Fs

-----------------------------------------------------------------------------
(* C[n] is what can follow the innermost of n blocks: C[0] is the end of   *)
(* the function, and each block adds the end of its own kind.              *)
GoodIn(ts, W) == \A b \in DOMAIN ts : ts[b].k = RBrace => \A w \in W[b] : Pair(w)
Conts(ts, blocks, C) ==
  /\ C[0] = EndFunc(ts)
  /\ \A n \in 1 .. Len(blocks) : C[n] = EndOf(ts, blocks[n].k, C[n-1])
  /\ \A n \in 0 .. Len(blocks) : GoodIn(ts, C[n])

LEMMA GoodIs == ASSUME NEW W PROVE Good(W) <=> GoodIn(toks, W)
  BY DEF Good, GoodIn, Tok

LEMMA EndOfGood ==
  ASSUME toks \in Inputs, NEW W, Good(W), NEW kind \in {"then", "else", "while"}
  PROVE  Good(EndOf(toks, kind, W))
  BY EndsGood DEF EndOf

(* in a function without blocks, at the start of a block, at its end, and at an else *)
LEMMA ContsEmpty == ASSUME toks \in Inputs PROVE Conts(toks, << >>, [n \in {0} |-> EndFunc(toks)])
  BY EmptyStack, FuncGood, GoodIs DEF Conts

LEMMA ContsTop ==
  ASSUME NEW blocks, IsSeq(blocks), NEW C, Conts(toks, blocks, C)
  PROVE  Good(C[Len(blocks)])
<1>1. Len(blocks) \in 0 .. Len(blocks)
  BY SeqBasics
<1> QED
  BY <1>1, GoodIs DEF Conts

LEMMA ContsPush ==
  ASSUME toks \in Inputs, NEW blocks, IsSeq(blocks), NEW C, Conts(toks, blocks, C),
         NEW b, b.k \in {"then", "else", "while"}
  PROVE  \E D : Conts(toks, Append(blocks, b), D) /\ D[Len(Append(blocks, b))] = EndOf(toks, b.k, C[Len(blocks)])
<1> DEFINE h == Len(blocks)
           new == EndOf(toks, b.k, C[h])
           D == [n \in 0 .. h+1 |-> IF n <= h THEN C[n] ELSE new]
           more == Append(blocks, b)
<1>1. h \in Nat /\ Len(more) = h+1 /\ more[h+1] = b /\ \A n \in 1 .. h : more[n] = blocks[n]
  BY SeqBasics, StackPush
<1>2. GoodIn(toks, new)
  BY ContsTop, EndOfGood, GoodIs
<1>3. C[0] = EndFunc(toks) /\ (\A n \in 1 .. h : C[n] = EndOf(toks, blocks[n].k, C[n-1])) /\ \A n \in 0 .. h : GoodIn(toks, C[n])
  BY DEF Conts
<1>4. D[h+1] = EndOf(toks, more[h+1].k, D[(h+1)-1])
  BY <1>1
<1> HIDE DEF new, more
<1>5. D[0] = EndFunc(toks) /\ D[h+1] = new
  BY <1>1, <1>3
<1>6. \A n \in 0 .. h+1 : GoodIn(toks, D[n])
  BY <1>1, <1>2, <1>3
<1>7. ASSUME NEW n \in 1 .. h PROVE D[n] = EndOf(toks, more[n].k, D[n-1])
  <2>1. D[n] = C[n] /\ D[n-1] = C[n-1] /\ more[n] = blocks[n]
    BY <1>1, <1>7
  <2> QED
    BY <1>3, <2>1
<1> HIDE DEF D, h
<1>8. \A n \in 1 .. h+1 : D[n] = EndOf(toks, more[n].k, D[n-1])
  BY <1>1, <1>4, <1>7
<1>9. Conts(toks, more, D)
  BY <1>1, <1>5, <1>6, <1>8 DEF Conts
<1>10. D[Len(more)] = new
  BY <1>1, <1>5
<1> QED
  BY <1>9, <1>10 DEF new, more, h

LEMMA ContsPop ==
  ASSUME toks \in Inputs, NEW blocks, IsSeq(blocks), blocks # << >>, NEW C, Conts(toks, blocks, C)
  PROVE  /\ Conts(toks, Front(blocks), C)
         /\ C[Len(blocks)] = EndOf(toks, Last(blocks).k, C[Len(Front(blocks))])
         /\ Good(C[Len(Front(blocks))])
<1> DEFINE h == Len(blocks)
<1>1. /\ h \in Nat /\ h >= 1 /\ IsSeq(Front(blocks)) /\ Len(Front(blocks)) = h-1 /\ Last(blocks) = blocks[h]
      /\ \A n \in 1 .. h-1 : Front(blocks)[n] = blocks[n]
  <2>1. h \in Nat /\ h # 0
    BY SeqBasics
  <2>2. Last(blocks) = blocks[h]
    BY DEF Last
  <2> QED
    BY <2>1, <2>2, StackPop
<1>2. C[0] = EndFunc(toks) /\ (\A n \in 1 .. h : C[n] = EndOf(toks, blocks[n].k, C[n-1])) /\ \A n \in 0 .. h : GoodIn(toks, C[n])
  BY DEF Conts
<1> HIDE DEF h
<1>3. h \in 1 .. h /\ h-1 \in 0 .. h
  BY <1>1
<1>4. C[h] = EndOf(toks, Last(blocks).k, C[h-1])
  BY <1>1, <1>2, <1>3
<1>5. ASSUME NEW n \in 1 .. h-1 PROVE C[n] = EndOf(toks, Front(blocks)[n].k, C[n-1])
  BY <1>1, <1>2
<1>6. ASSUME NEW n \in 0 .. h-1 PROVE GoodIn(toks, C[n])
  BY <1>1, <1>2
<1>7. Conts(toks, Front(blocks), C)
  BY <1>1, <1>2, <1>5, <1>6 DEF Conts
<1> QED
  BY <1>1, <1>2, <1>3, <1>4, <1>7, GoodIs DEF h

(* the top entry is replaced *)
Swapped(other, s, v) ==
  IsSeq(other) /\ Len(other) = Len(s) /\ \A n \in 1 .. Len(s) : other[n] = IF n = Len(s) THEN v ELSE s[n]

LEMMA SetTop ==
  ASSUME NEW s, IsSeq(s), NEW last \in 1 .. Len(s), NEW v, last = Len(s), NEW set, set = [s EXCEPT ![last] = v]
  PROVE  Swapped(set, s, v)
<1>1. IsSeq([s EXCEPT ![last] = v]) /\ Len([s EXCEPT ![last] = v]) = Len(s)
  BY StackSet
<1>2. ASSUME NEW n \in 1 .. Len(s) PROVE [s EXCEPT ![last] = v][n] = IF n = last THEN v ELSE s[n]
  BY StackSet
<1> QED
  BY <1>1, <1>2 DEF Swapped

LEMMA ContsSwap ==
  ASSUME toks \in Inputs, NEW blocks, IsSeq(blocks), blocks # << >>, NEW C, Conts(toks, blocks, C),
         NEW b, b.k \in {"then", "else", "while"}, NEW other, Swapped(other, blocks, b)
  PROVE  \E D : Conts(toks, other, D) /\ D[Len(other)] = EndOf(toks, b.k, C[Len(Front(blocks))])
<1>1. Conts(toks, Front(blocks), C) /\ IsSeq(Front(blocks))
  BY ContsPop, StackPop
<1>2. PICK D : Conts(toks, Append(Front(blocks), b), D) /\ D[Len(Append(Front(blocks), b))] = EndOf(toks, b.k, C[Len(Front(blocks))])
  BY <1>1, ContsPush
<1>3. other = Append(Front(blocks), b)
  <2> DEFINE low == Front(blocks)
             built == Append(low, b)
             h == Len(blocks)
  <2>1. h \in Nat /\ h >= 1 /\ IsSeq(low) /\ Len(low) = h-1 /\ \A n \in 1 .. h-1 : low[n] = blocks[n]
    <3>1. h \in Nat /\ h # 0
      BY SeqBasics
    <3> QED
      BY <3>1, StackPop
  <2> HIDE DEF low
  <2>2. IsSeq(built) /\ Len(built) = (h-1)+1 /\ (\A n \in 1 .. h-1 : built[n] = low[n]) /\ built[(h-1)+1] = b
    BY <2>1, StackPush
  <2>3. IsSeq(other) /\ Len(other) = h /\ \A n \in 1 .. h : other[n] = IF n = h THEN b ELSE blocks[n]
    BY DEF Swapped
  <2> HIDE DEF built, h
  <2>4. (h-1)+1 = h /\ \A n \in 1 .. h : n = h \/ n \in 1 .. h-1
    BY <2>1
  <2>5. Len(built) = h /\ built[h] = b
    BY <2>2, <2>4
  <2>6. ASSUME NEW n \in 1 .. h PROVE other[n] = built[n]
    <3>1. CASE n = h
      BY <2>3, <2>5, <3>1
    <3>2. CASE n # h
      BY <2>1, <2>2, <2>3, <2>4, <3>2
    <3> QED
      BY <3>1, <3>2
  <2>7. other = built
    BY <2>2, <2>3, <2>5, <2>6, SameStack
  <2> QED
    BY <2>7 DEF built, low
<1> QED
  BY <1>2, <1>3

BodyHere(ts, blocks, j, done, f) == \E C : Conts(ts, blocks, C) /\ BodyNow(ts, C[Len(blocks)], j, done, f)

(* The text stands for exactly the programs that begin with what has been  *)
(* parsed and go on with what the rest of the tokens can stand for.        *)
Derived ==
  /\ status = "program" => ProgNow(toks, i, prog)
  /\ status = "params" => ParamsNow(toks, i, prog, fn)
  /\ status = "ret" => RetNow(toks, i, prog, fn)
  /\ status = "body" => BodyHere(toks, open, i, prog, fn)
  /\ status = "parsed" => Derivations(toks) = {prog}
  /\ status = "fatal" => None(toks)

(* at the start all is left *)
LEMMA StartDerived == Init => Derived
<1> SUFFICES ASSUME Init PROVE Derived
  OBVIOUS
<1>1. toks \in Inputs /\ status = "program" /\ i = 1 /\ prog = << >>
  BY DEF Init
<1>2. ProgNow(toks, 1, << >>)
  BY <1>1, StartNow
<1> QED
  BY <1>1, <1>2 DEF Derived

LEMMA FatalDerived == ASSUME Fatal, None(toks) PROVE Derived'
  BY DEF Fatal, Derived, None

LEMMA BodyDerived ==
  ASSUME status' = "body", toks' = toks, prog' = prog,
         NEW D, Conts(toks, open', D), BodyNow(toks, D[Len(open')], i', prog, fn')
  PROVE  Derived'
<1>1. BodyHere(toks, open', i', prog, fn')
  BY DEF BodyHere
<1>2. BodyHere(toks, open, i, prog, fn)'
  BY <1>1
<1> QED
  BY <1>2 DEF Derived

(* the body gets more nodes, and nothing else of the function changes      *)
LEMMA FieldsAdded ==
  ASSUME PInv, NEW n, Add(n)
  PROVE  /\ fn'.name = fn.name /\ fn'.params = fn.params /\ fn'.ret = fn.ret /\ fn'.body = fn.body \o n
         /\ IsSeq(fn.body) /\ IsSeq(open) /\ IsSeq(prog) /\ toks \in Inputs
<1>1. fn = Func(fn.name, fn.params, fn.ret, fn.body) /\ fn' = [fn EXCEPT !.body = fn.body \o n]
  BY DEF PInv, Add
<1>2. fn'.name = fn.name /\ fn'.params = fn.params /\ fn'.ret = fn.ret /\ fn'.body = fn.body \o n
  BY <1>1 DEF Func
<1> QED
  BY <1>2 DEF PInv, Nested, Parsed

(* a statement without blocks *)
LEMMA SimpleDerived ==
  ASSUME PInv, Placed, Derived, Took, status = "body", Tok(i) # RBrace, NEW r, Simple(r), Settles(i, r)
  PROVE  Derived'
<1>1. PICK C : Conts(toks, open, C) /\ BodyNow(toks, C[Len(open)], i, prog, fn)
  BY DEF Derived, BodyHere
<1> DEFINE W == C[Len(open)]
<1>2. toks \in Inputs /\ IsSeq(open) /\ i \in DOMAIN toks
  BY DEF PInv, Nested, Placed, PlacedAt
<1>3. Good(W)
  BY <1>1, <1>2, ContsTop
<1>4. BodyNow(toks, W, i, prog, fn)
  BY <1>1
<1> HIDE DEF W
<1>5. CASE ~r.ok /\ Fatal
  BY <1>2, <1>3, <1>4, <1>5, SimpleMoves, NothingNow, FatalDerived
<1>6. CASE r.ok /\ Add(<<r.e>>) /\ i' = r.i /\ UNCHANGED <<toks, prog, open, status>>
  <2>1. r.i \in DOMAIN toks /\ r.i > i
    BY <1>6 DEF Took, Placed, PlacedAt
  <2>2. r.i \in i+1 .. Len(toks)
    BY <1>2, <2>1, Positions
  <2>3. Moves(W, i, <<r.e>>, W, r.i)
    BY <1>2, <1>3, <1>6, <2>2, SimpleMoves
  <2>4. PICK g : g = fn'
    OBVIOUS
  <2>5. /\ g.name = fn.name /\ g.params = fn.params /\ g.ret = fn.ret /\ g.body = fn.body \o <<r.e>>
        /\ IsSeq(fn.body) /\ IsSeq(<<r.e>>)
    BY <1>6, <2>4, FieldsAdded, OneEntryStack
  <2>6. BodyNow(toks, W, r.i, prog, g)
    BY <1>2, <1>3, <1>4, <2>1, <2>3, <2>5, MovesNow
  <2>7. BodyNow(toks, C[Len(open')], i', prog, fn') /\ Conts(toks, open', C)
    BY <1>1, <1>6, <2>4, <2>6 DEF W
  <2> QED
    BY <1>6, <2>7, BodyDerived
<1> QED
  BY <1>5, <1>6 DEF Simple

(* "if" and "while" *)
LEMMA OpensDerived ==
  ASSUME PInv, Placed, Derived, Took, status = "body", NEW h, h = HeaderAt(i), NEW node, NEW kind,
         Opens(With(h, node), kind),
         \/ Tok(i) = "while" /\ node = While(h.e) /\ kind = "while"
         \/ Tok(i) = "if" /\ node = If(h.e) /\ kind = "then"
  PROVE  Derived'
<1> DEFINE r == With(h, node)
<1>1. PICK C : Conts(toks, open, C) /\ BodyNow(toks, C[Len(open)], i, prog, fn)
  BY DEF Derived, BodyHere
<1> DEFINE W == C[Len(open)]
           V == EndOf(toks, kind, W)
           block == [k |-> kind, at |-> Len(fn.body) + 1]
<1>2. toks \in Inputs /\ IsSeq(open) /\ i \in DOMAIN toks
  BY DEF PInv, Nested, Placed, PlacedAt
<1>3. Good(W)
  BY <1>1, <1>2, ContsTop
<1>4. BodyNow(toks, W, i, prog, fn)
  BY <1>1
<1>5. kind \in {"then", "else", "while"} /\ block.k = kind
  OBVIOUS
<1>6. (r.ok <=> h.ok) /\ (r.ok => r.i = h.i /\ r.e = node)
  <2>1. r.ok => h.ok /\ r.i = h.i /\ r.e = node
    BY Withs
  <2>2. h.ok => r = Result(node, h.i)
    BY Withs
  <2>3. Result(node, h.i).ok
    BY Results
  <2> HIDE DEF r
  <2> QED
    BY <2>1, <2>2, <2>3
<1>7. \/ r.ok /\ Add(<<r.e>>) /\ i' = r.i /\ open' = Append(open, block) /\ UNCHANGED <<toks, prog, status>>
      \/ ~r.ok /\ Fatal
  BY DEF Opens
<1> HIDE DEF W, r, block
<1>8. CASE ~r.ok /\ Fatal
  <2>1. Tails(W, i) = {}
    BY <1>2, <1>3, <1>6, <1>8, HeaderMoves
  <2> QED
    BY <1>4, <1>8, <2>1, NothingNow, FatalDerived
<1>9. CASE r.ok /\ Add(<<r.e>>) /\ i' = r.i /\ open' = Append(open, block) /\ UNCHANGED <<toks, prog, status>>
  <2>1. r.i \in DOMAIN toks
    BY <1>9 DEF Took, Placed, PlacedAt
  <2>2. Moves(W, i, <<node>>, V, r.i)
    <3>1. Tok(i) = "while" => Moves(W, i, <<While(h.e)>>, EndLoop(toks, W), h.i)
      BY <1>2, <1>3, <1>6, <1>9, HeaderMoves
    <3>2. Tok(i) = "if" => Moves(W, i, <<If(h.e)>>, EndThen(toks, W), h.i)
      BY <1>2, <1>3, <1>6, <1>9, HeaderMoves
    <3>3. EndOf(toks, "while", W) = EndLoop(toks, W) /\ EndOf(toks, "then", W) = EndThen(toks, W)
      BY DEF EndOf
    <3>4. r.i = h.i
      BY <1>6, <1>9
    <3> QED
      BY <3>1, <3>2, <3>3, <3>4
  <2>3. Good(V)
    BY <1>2, <1>3, <1>5, EndOfGood
  <2> HIDE DEF V
  <2>4. PICK g : g = fn'
    OBVIOUS
  <2>5. /\ g.name = fn.name /\ g.params = fn.params /\ g.ret = fn.ret /\ g.body = fn.body \o <<node>>
        /\ IsSeq(fn.body) /\ IsSeq(<<node>>)
    BY <1>6, <1>9, <2>4, FieldsAdded, OneEntryStack
  <2>6. BodyNow(toks, V, r.i, prog, g)
    BY <1>2, <1>4, <2>1, <2>2, <2>3, <2>5, MovesNow
  <2>7. PICK D : Conts(toks, Append(open, block), D) /\ D[Len(Append(open, block))] = EndOf(toks, block.k, C[Len(open)])
    BY <1>1, <1>2, <1>5, ContsPush
  <2>8. D[Len(Append(open, block))] = V
    BY <1>5, <2>7 DEF V, W
  <2>9. BodyNow(toks, D[Len(open')], i', prog, fn') /\ Conts(toks, open', D)
    BY <1>9, <2>4, <2>6, <2>7, <2>8
  <2> QED
    BY <1>9, <2>9, BodyDerived
<1> QED
  BY <1>7, <1>8, <1>9

(* the end of a loop, of an else and of a then without else *)
LEMMA LeaveDerived ==
  ASSUME PInv, Placed, Derived, Took, status = "body", Tok(i) = RBrace, open # << >>, NEW n, Leave(n),
         \/ Last(open).k = "while" /\ n = <<EndWhile>>
         \/ Last(open).k = "else" /\ n = <<EndIf>>
         \/ Last(open).k = "then" /\ n = <<Else, EndIf>> /\ Tok(i+1) # "else"
  PROVE  Derived'
<1>1. PICK C : Conts(toks, open, C) /\ BodyNow(toks, C[Len(open)], i, prog, fn)
  BY DEF Derived, BodyHere
<1> DEFINE low == Front(open)
           top == C[Len(open)]
           W == C[Len(low)]
<1>2. toks \in Inputs /\ IsSeq(open) /\ i \in DOMAIN toks
  BY DEF PInv, Nested, Placed, PlacedAt
<1>3. Conts(toks, low, C) /\ top = EndOf(toks, Last(open).k, W) /\ Good(W)
  BY <1>1, <1>2, ContsPop
<1>4. BodyNow(toks, top, i, prog, fn)
  BY <1>1
<1>5. Add(n) /\ open' = low /\ i' = i + 1 /\ UNCHANGED <<toks, prog, status>>
  BY DEF Leave
<1> HIDE DEF W, top, low
<1>6. i+1 \in DOMAIN toks
  BY <1>5 DEF Took, Placed, PlacedAt
<1>7. Moves(top, i, n, W, i+1)
  <2>1. Last(open).k = "while" => top = EndLoop(toks, W)
    BY <1>3 DEF EndOf
  <2>2. Last(open).k = "else" => top = EndElse(toks, W)
    BY <1>3 DEF EndOf
  <2>3. Last(open).k = "then" => top = EndThen(toks, W)
    BY <1>3 DEF EndOf
  <2>4. /\ Moves(EndLoop(toks, W), i, <<EndWhile>>, W, i+1)
        /\ Moves(EndElse(toks, W), i, <<EndIf>>, W, i+1)
        /\ Tok(i+1) # "else" => Moves(EndThen(toks, W), i, <<Else, EndIf>>, W, i+1)
    BY <1>2, <1>3, EndMoves
  <2> QED
    BY <2>1, <2>2, <2>3, <2>4
<1>8. PICK g : g = fn'
  OBVIOUS
<1>9. /\ g.name = fn.name /\ g.params = fn.params /\ g.ret = fn.ret /\ g.body = fn.body \o n /\ IsSeq(fn.body)
  BY <1>5, <1>8, FieldsAdded
<1>10. IsSeq(n)
  BY OneEntryStack, TwoNodes
<1>11. BodyNow(toks, W, i+1, prog, g)
  BY <1>2, <1>3, <1>4, <1>6, <1>7, <1>9, <1>10, MovesNow
<1>12. BodyNow(toks, C[Len(open')], i', prog, fn') /\ Conts(toks, open', C)
  BY <1>3, <1>5, <1>8, <1>11 DEF W
<1> QED
  BY <1>5, <1>12, BodyDerived

(* "} else {", or "} else" without the brace *)
LEMMA ElseDerived ==
  ASSUME PInv, Placed, Derived, Took, ElseBlock
  PROVE  Derived'
<1> DEFINE r == Expect(After(i+2), LBrace)
           block == [k |-> "else", at |-> open[Len(open)].at]
<1>1. status = "body" /\ Tok(i) = RBrace /\ open # << >> /\ Last(open).k = "then" /\ Tok(i+1) = "else"
  BY Zenon DEF ElseBlock, AtEndOf, Ahead, RBrace
<1>2. \/ r.ok /\ Add(<<Else>>) /\ open' = [open EXCEPT ![Len(open)] = block] /\ i' = r.i /\ UNCHANGED <<toks, prog, status>>
      \/ ~r.ok /\ Fatal
  BY Zenon DEF ElseBlock, LBrace
<1>3. PICK C : Conts(toks, open, C) /\ BodyNow(toks, C[Len(open)], i, prog, fn)
  BY <1>1 DEF Derived, BodyHere
<1> DEFINE low == Front(open)
           top == C[Len(open)]
           W == C[Len(low)]
           V == EndElse(toks, W)
<1>4. toks \in Inputs /\ IsSeq(open) /\ i \in DOMAIN toks
  BY DEF PInv, Nested, Placed, PlacedAt
<1>5. top = EndOf(toks, Last(open).k, W) /\ Good(W)
  BY <1>1, <1>3, <1>4, ContsPop
<1>6. BodyNow(toks, top, i, prog, fn)
  BY <1>3
<1>7. block.k = "else"
  OBVIOUS
<1> HIDE DEF W, top, low, block
<1>8. top = EndThen(toks, W)
  BY <1>1, <1>5 DEF EndOf
<1>9. (r.ok <=> Tok(i+2) = LBrace) /\ (r.ok => r.i = i+3)
  <2>1. i \in Nat /\ (i+2)+1 = i+3
    BY <1>4, Positions
  <2> QED
    BY <2>1, AfterIs, Expects, Results
<1> HIDE DEF r
<1>10. CASE ~r.ok /\ Fatal
  <2>1. Tails(top, i) = {}
    BY <1>1, <1>4, <1>5, <1>8, <1>9, <1>10, EndMoves
  <2> QED
    BY <1>6, <1>10, <2>1, NothingNow, FatalDerived
<1>11. CASE r.ok /\ Add(<<Else>>) /\ open' = [open EXCEPT ![Len(open)] = block] /\ i' = r.i /\ UNCHANGED <<toks, prog, status>>
  <2>1. r.i \in DOMAIN toks
    BY <1>11 DEF Took, Placed, PlacedAt
  <2>2. Moves(top, i, <<Else>>, V, r.i)
    BY <1>1, <1>4, <1>5, <1>8, <1>9, <1>11, EndMoves
  <2>3. Good(V)
    BY <1>4, <1>5, EndsGood
  <2>4. EndOf(toks, block.k, W) = V
    BY <1>7 DEF EndOf
  <2> HIDE DEF V
  <2>5. PICK g : g = fn'
    OBVIOUS
  <2>6. /\ g.name = fn.name /\ g.params = fn.params /\ g.ret = fn.ret /\ g.body = fn.body \o <<Else>>
        /\ IsSeq(fn.body) /\ IsSeq(<<Else>>)
    BY <1>11, <2>5, FieldsAdded, OneEntryStack
  <2>7. BodyNow(toks, V, r.i, prog, g)
    BY <1>4, <1>6, <2>1, <2>2, <2>3, <2>6, MovesNow
  <2>8. PICK other, last : last = Len(open) /\ other = [open EXCEPT ![last] = block]
    OBVIOUS
  <2>9. PICK D : Conts(toks, other, D) /\ D[Len(other)] = EndOf(toks, block.k, C[Len(Front(open))])
    <3>1. block.k \in {"then", "else", "while"}
      BY <1>7
    <3>2. last \in 1 .. Len(open)
      BY <1>1, <1>4, <2>8, SeqBasics
    <3>3. Swapped(other, open, block)
      BY <1>4, <2>8, <3>2, SetTop
    <3> QED
      BY <1>1, <1>3, <1>4, <3>1, <3>3, ContsSwap
  <2>10. D[Len(other)] = V
    BY <2>4, <2>9 DEF W, low
  <2>11. BodyNow(toks, D[Len(open')], i', prog, fn') /\ Conts(toks, open', D)
    BY <1>11, <2>5, <2>7, <2>8, <2>9, <2>10
  <2> QED
    BY <1>1, <1>11, <2>11, BodyDerived
<1> QED
  BY <1>2, <1>10, <1>11

(* a statement *)
LEMMA StmtDerived == ASSUME PInv, Placed, Derived, Took, ParseStmt PROVE Derived'
<1>0. toks \in Inputs /\ i \in DOMAIN toks /\ status = "body"
  BY DEF PInv, Placed, PlacedAt, ParseStmt, ParseLet, ParseReturn, ParseDefer, ParseBreak, ParseContinue,
         ParseExprStmt, StartsExprStmt, ParseIf, ParseWhile, Ahead
<1>1. ASSUME NEW r, Simple(r), Plain(i, r), Tok(i) \notin {"if", "while"}, Tok(i) # RBrace PROVE Derived'
  BY <1>0, <1>1, PlainSettles, SimpleDerived
<1>2. CASE ParseLet
  <2> DEFINE uniq == Tok(i+1) = "unique"
             name == NameAfter(i)
             named == NamedAt(name)
             ann == AnnAt(named)
             eq == Expect(ann, "=")
             init == ExprThen(eq, Semi)
             node == [Let(toks[name.i].x, ann.e, init.e) EXCEPT !.uniq = uniq]
  <2>1. Simple(With(init, node)) /\ Tok(i) = "let"
    BY <1>2, Zenon DEF ParseLet, Ahead, NameAfter, NamedAt, AnnAt, Semi
  <2>2. Plain(i, With(init, node))
    <3> HIDE DEF name, named, ann, eq, init, node
    <3>1. name = NameAfter(i) /\ named = NamedAt(name) /\ ann = AnnAt(named) /\ eq = Expect(ann, "=") /\ init = ExprThen(eq, Semi)
      BY Zenon DEF name, named, ann, eq, init
    <3>2. node = [Let(toks[name.i].x, ann.e, init.e) EXCEPT !.uniq = (Tok(i+1) = "unique")]
      BY Zenon DEF node
    <3> QED
      BY <1>0, <2>1, <3>1, <3>2, PlainLet
  <2> HIDE DEF init, node
  <2> QED
    BY <1>1, <2>1, <2>2, BraceTokens
<1>3. CASE ParseReturn
  <2>1. Simple(ReturnAt(i)) /\ Tok(i) = "return"
    BY <1>3, Zenon DEF ParseReturn, Ahead, ReturnAt
  <2> QED
    BY <1>0, <1>1, <2>1, PlainReturn, BraceTokens
<1>4. CASE ParseDefer
  <2> DEFINE r == ExprThen(After(i+1), Semi)
  <2>1. Simple(With(r, Defer(r.e))) /\ Tok(i) = "defer"
    BY <1>4, Zenon DEF ParseDefer, Ahead, Semi
  <2> HIDE DEF r
  <2>2. r = ExprThen(After(i+1), Semi)
    BY Zenon DEF r
  <2> QED
    BY <1>0, <1>1, <2>1, <2>2, PlainDefer, BraceTokens
<1>5. CASE ParseBreak \/ ParseContinue
  <2> DEFINE r == Expect(After(i+1), Semi)
  <2>1. ParseBreak => Simple(With(r, Break)) /\ Tok(i) = "break"
    BY Zenon DEF ParseBreak, Ahead, Semi
  <2>2. ParseContinue => Simple(With(r, Continue)) /\ Tok(i) = "continue"
    BY Zenon DEF ParseContinue, Ahead, Semi
  <2> HIDE DEF r
  <2>3. PICK node : /\ Simple(With(r, node))
                    /\ \/ Tok(i) = "break" /\ node = Break
                       \/ Tok(i) = "continue" /\ node = Continue
    BY <1>5, <2>1, <2>2
  <2>4. r = Expect(After(i+1), Semi)
    BY Zenon DEF r
  <2>5. Plain(i, With(r, node))
    BY <1>0, <2>3, <2>4, PlainJump
  <2>6. Tok(i) \notin {"if", "while"} /\ Tok(i) # RBrace
    BY <2>3, BraceTokens
  <2> QED
    BY <1>1, <2>3, <2>5, <2>6
<1>6. CASE ParseExprStmt
  <2> DEFINE r == ExprThen(After(i), Semi)
  <2>1. Simple(With(r, ExprStmt(r.e)))
    BY <1>6, Zenon DEF ParseExprStmt, Semi
  <2>2. Tok(i) # RBrace
    BY <1>6, Zenon DEF ParseExprStmt, StartsExprStmt, RBrace
  <2>3. Tok(i) \notin SimpleKinds /\ Tok(i) \notin {"if", "while"}
    BY <1>6, Zenon DEF ParseExprStmt, StartsExprStmt, SimpleKinds
  <2> HIDE DEF r
  <2>4. r = ExprThen(After(i), Semi)
    BY Zenon DEF r
  <2>5. Plain(i, With(r, ExprStmt(r.e)))
    BY <1>0, <2>3, <2>4, PlainExpr
  <2> QED
    BY <1>1, <2>1, <2>2, <2>3, <2>5
<1>7. CASE ParseIf \/ ParseWhile
  <2>1. Header = HeaderAt(i)
    BY Zenon DEF Header, HeaderAt, LBrace
  <2>2. PICK h : h = Header
    OBVIOUS
  <2>3. ParseIf => Opens(With(h, If(h.e)), "then") /\ Tok(i) = "if"
    BY <2>2 DEF ParseIf, Ahead
  <2>4. ParseWhile => Opens(With(h, While(h.e)), "while") /\ Tok(i) = "while"
    BY <2>2 DEF ParseWhile, Ahead
  <2> QED
    BY <1>0, <1>7, <2>1, <2>2, <2>3, <2>4, OpensDerived
<1> QED
  BY <1>2, <1>3, <1>4, <1>5, <1>6, <1>7 DEF ParseStmt

(* a step in a block *)
LEMMA BlockDerived == ASSUME PInv, Placed, Derived, Took, ParseBlock PROVE Derived'
<1>1. CASE ParseStmt
  BY <1>1, StmtDerived
<1>2. CASE EndWhileBlock \/ EndElseBlock \/ EndThenBlock
  <2>1. status = "body" /\ Tok(i) = RBrace /\ open # << >>
    BY <1>2, Zenon DEF EndWhileBlock, EndElseBlock, EndThenBlock, AtEndOf, Ahead, RBrace
  <2>2. PICK n : /\ Leave(n)
                 /\ \/ Last(open).k = "while" /\ n = <<EndWhile>>
                    \/ Last(open).k = "else" /\ n = <<EndIf>>
                    \/ Last(open).k = "then" /\ n = <<Else, EndIf>> /\ Tok(i+1) # "else"
    BY <1>2, Zenon DEF EndWhileBlock, EndElseBlock, EndThenBlock, AtEndOf
  <2> QED
    BY <2>1, <2>2, LeaveDerived
<1>3. CASE ElseBlock
  BY <1>3, ElseDerived
<1>4. CASE EndOfInput
  <2>1. status = "body" /\ Tok(i) = "eof" /\ Fatal
    BY <1>4 DEF EndOfInput, Ahead
  <2>2. PICK C : Conts(toks, open, C) /\ BodyNow(toks, C[Len(open)], i, prog, fn)
    BY <2>1 DEF Derived, BodyHere
  <2>3. toks \in Inputs /\ IsSeq(open) /\ i \in DOMAIN toks
    BY DEF PInv, Nested, Placed, PlacedAt
  <2>4. Good(C[Len(open)])
    BY <2>2, <2>3, ContsTop
  <2>5. Tails(C[Len(open)], i) = {}
    BY <2>1, <2>3, <2>4, NothingMoves
  <2> QED
    BY <2>1, <2>2, <2>5, NothingNow, FatalDerived
<1> QED
  BY <1>1, <1>2, <1>3, <1>4 DEF ParseBlock

LEMMA HeaderDerived == ASSUME PInv, Placed, Derived, Took, FuncHeader PROVE Derived'
<1>1. toks \in Inputs /\ i \in DOMAIN toks /\ ProgNow(toks, i, prog) /\ Tok(i) # "eof"
  BY DEF PInv, Placed, PlacedAt, FuncHeader, Derived
<1>2. PICK paren : paren = ParenAt(i)
  OBVIOUS
<1>3. \/ /\ paren.ok
         /\ i' = paren.i
         /\ fn' = [NoFunc EXCEPT !.name = toks[i+1].x]
         /\ status' = IF Tok(paren.i) = ")" THEN "ret" ELSE "params"
         /\ UNCHANGED <<toks, prog, open>>
      \/ ~paren.ok /\ Fatal
  BY <1>2 DEF FuncHeader, ParenAt
<1>4. PICK f : f = [NoFunc EXCEPT !.name = toks[i+1].x]
  OBVIOUS
<1>5. f.name = toks[i+1].x /\ f.params = << >>
  BY <1>4 DEF NoFunc, Func
<1>6. /\ paren.ok /\ Tok(paren.i) = ")" => RetNow(toks, paren.i, prog, f)
      /\ paren.ok /\ Tok(paren.i) # ")" => ParamsNow(toks, paren.i, prog, f)
      /\ ~paren.ok => None(toks)
  BY <1>1, <1>2, <1>5, HeaderNow
<1>7. CASE ~paren.ok /\ Fatal
  BY <1>6, <1>7, FatalDerived
<1>8. CASE /\ paren.ok
           /\ i' = paren.i
           /\ fn' = f
           /\ status' = IF Tok(paren.i) = ")" THEN "ret" ELSE "params"
           /\ UNCHANGED <<toks, prog, open>>
  BY <1>6, <1>8 DEF Derived
<1> QED
  BY <1>3, <1>4, <1>7, <1>8

LEMMA ParameterDerived == ASSUME PInv, Placed, Derived, Took, Parameter PROVE Derived'
<1>1. toks \in Inputs /\ i \in DOMAIN toks /\ ParamsNow(toks, i, prog, fn) /\ IsSeq(fn.params)
  BY DEF PInv, Placed, PlacedAt, Parameter, Derived, ParamsNamed
<1>2. PICK ty : ty = ParamAt(i)
  OBVIOUS
<1>3. PICK g : g = [fn EXCEPT !.params = Append(fn.params, Param(toks[i].x, ty.e))]
  OBVIOUS
<1>4. \/ /\ ty.ok
         /\ fn' = g
         /\ i' = IF Tok(ty.i) = Comma THEN ty.i + 1 ELSE ty.i
         /\ status' = IF Tok(ty.i) = Comma THEN "params" ELSE "ret"
         /\ UNCHANGED <<toks, prog, open>>
      \/ ~ty.ok /\ Fatal
  BY <1>2, <1>3, Zenon DEF Parameter, ParamAt, Comma
<1>5. g.name = fn.name /\ g.params = Append(fn.params, Param(toks[i].x, ty.e))
  <2>1. fn = Func(fn.name, fn.params, fn.ret, fn.body)
    BY DEF PInv
  <2> QED
    BY <1>3, <2>1 DEF Func
<1>6. /\ ty.ok /\ Tok(ty.i) = Comma => ParamsNow(toks, ty.i + 1, prog, g)
      /\ ty.ok /\ Tok(ty.i) # Comma => RetNow(toks, ty.i, prog, g)
      /\ ~ty.ok => None(toks)
  BY <1>1, <1>2, <1>5, ParameterNow
<1>7. CASE ~ty.ok /\ Fatal
  BY <1>6, <1>7, FatalDerived
<1>8. CASE /\ ty.ok
           /\ fn' = g
           /\ i' = IF Tok(ty.i) = Comma THEN ty.i + 1 ELSE ty.i
           /\ status' = IF Tok(ty.i) = Comma THEN "params" ELSE "ret"
           /\ UNCHANGED <<toks, prog, open>>
  BY <1>6, <1>8 DEF Derived
<1> QED
  BY <1>4, <1>7, <1>8

LEMMA ReturnDerived == ASSUME PInv, Placed, Derived, Took, ReturnType PROVE Derived'
<1>1. toks \in Inputs /\ i \in DOMAIN toks /\ RetNow(toks, i, prog, fn) /\ fn.body = << >> /\ open = << >>
  BY DEF PInv, Placed, PlacedAt, ReturnType, Derived
<1>2. PICK ty : ty = RetTypeAt(i)
  OBVIOUS
<1>3. PICK g : g = [fn EXCEPT !.ret = ty.e]
  OBVIOUS
<1>4. \/ ty.ok /\ fn' = g /\ i' = ty.i /\ status' = "body" /\ UNCHANGED <<toks, prog, open>>
      \/ ~ty.ok /\ Fatal
  BY <1>2, <1>3, Zenon DEF ReturnType, RetTypeAt, LBrace
<1>5. g.name = fn.name /\ g.params = fn.params /\ g.ret = ty.e /\ g.body = << >>
  <2>1. fn = Func(fn.name, fn.params, fn.ret, fn.body)
    BY DEF PInv
  <2> QED
    BY <1>1, <1>3, <2>1 DEF Func
<1>6. /\ ty.ok => BodyNow(toks, EndFunc(toks), ty.i, prog, g)
      /\ ~ty.ok => None(toks)
  BY <1>1, <1>2, <1>5, ReturnNow
<1>7. CASE ~ty.ok /\ Fatal
  BY <1>6, <1>7, FatalDerived
<1>8. CASE ty.ok /\ fn' = g /\ i' = ty.i /\ status' = "body" /\ UNCHANGED <<toks, prog, open>>
  <2> DEFINE D == [n \in {0} |-> EndFunc(toks)]
  <2>1. Conts(toks, << >>, D) /\ D[0] = EndFunc(toks)
    BY <1>1, ContsEmpty
  <2> HIDE DEF D
  <2>2. Conts(toks, open', D) /\ D[Len(open')] = EndFunc(toks)
    BY <1>1, <1>8, <2>1, EmptyStack
  <2>3. BodyNow(toks, D[Len(open')], i', prog, fn')
    BY <1>6, <1>8, <2>2
  <2> QED
    BY <1>8, <2>2, <2>3, BodyDerived
<1> QED
  BY <1>4, <1>7, <1>8

LEMMA EndFunctionDerived == ASSUME PInv, Placed, Derived, Took, EndFunction PROVE Derived'
<1>1. status = "body" /\ Tok(i) = RBrace /\ open = << >>
  BY Zenon DEF EndFunction, Ahead, RBrace
<1>2. prog' = Append(prog, fn) /\ i' = i + 1 /\ status' = "program" /\ toks' = toks
  BY DEF EndFunction
<1>3. PICK C : Conts(toks, open, C) /\ BodyNow(toks, C[Len(open)], i, prog, fn)
  BY <1>1 DEF Derived, BodyHere
<1>4. C[Len(open)] = EndFunc(toks)
  BY <1>1, <1>3, EmptyStack DEF Conts
<1>5. /\ toks \in Inputs /\ i \in DOMAIN toks /\ IsSeq(prog) /\ IsSeq(fn.body)
      /\ fn = Func(fn.name, fn.params, fn.ret, fn.body)
  BY DEF PInv, Placed, PlacedAt, Parsed, Nested
<1>6. ProgNow(toks, i+1, Append(prog, fn))
  BY <1>1, <1>3, <1>4, <1>5, FunctionEndNow
<1> QED
  BY <1>2, <1>6 DEF Derived

LEMMA EndProgramDerived == ASSUME PInv, Placed, Derived, EndProgram PROVE Derived'
<1>1. toks \in Inputs /\ i \in DOMAIN toks /\ IsSeq(prog) /\ ProgNow(toks, i, prog) /\ Tok(i) = "eof"
  BY DEF PInv, Placed, PlacedAt, Parsed, Derived, EndProgram
<1>2. Derivations(toks) = {prog}
  BY <1>1, ProgramEndNow
<1> QED
  BY <1>2 DEF EndProgram, Derived

(* any step *)
LEMMA NextDerived == PInv /\ Placed /\ Derived /\ [Next]_vars => Derived'
<1> SUFFICES ASSUME PInv, Placed, Derived, [Next]_vars PROVE Derived'
  OBVIOUS
<1>1. CASE ParseProgram
  <2>1. Took
    BY <1>1, Takes DEF PInv
  <2> QED
    BY <1>1, <2>1, HeaderDerived, ParameterDerived, ReturnDerived, BlockDerived, EndFunctionDerived, EndProgramDerived
       DEF ParseProgram
<1>2. CASE UNCHANGED vars
  BY <1>2 DEF vars, Derived
<1> QED
  BY <1>1, <1>2 DEF Next, Stopped

(* Recursive descent decides the grammar: whatever the tokens, the parser  *)
(* returns the one program they stand for, and calls fatal() only if they  *)
(* stand for none.                                                         *)
THEOREM ParserParsesGrammar == Spec => []ParsesGrammar
<1>1. Init => Derived
  BY StartDerived
<1>2. Spec => [](PInv /\ Placed)
  BY ParserInvariant
<1>3. PInv /\ Placed /\ Derived /\ [Next]_vars => Derived'
  BY NextDerived
<1>4. Derived => ParsesGrammar
  BY DEF Derived, None, ParsesGrammar
<1> QED
  BY <1>1, <1>2, <1>3, <1>4, PTL DEF Spec
=============================================================================
