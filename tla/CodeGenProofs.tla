---------------------------- MODULE CodeGenProofs ---------------------------
(***************************************************************************)
(* Proofs about CodeGen for every set of programs, analysed before or not: *)
(* the loop stacks and the blocks genStmt holds mirror the nesting of the  *)
(* body, the insertion point is always a block of the function, and in the *)
(* code every jump and every reference to a variable goes where it should; *)
(* the calls of a statement are made in order, and control flow reaches    *)
(* the code of the statements it should, and no other.                     *)
(***************************************************************************)
EXTENDS CodeGen, SyntaxProofs

(* a stack of pairs of blocks, of the n blocks there are *)
Held(fs, n) ==
  /\ IsSeq(fs)
  /\ \A i \in 1 .. Len(fs) : fs[i][1] \in 1 .. n /\ fs[i][2] \in 1 .. n

(* every function the generator has declared can be found by its name *)
Declared ==
  /\ \A f \in DOMAIN functions : functions[f] \in DOMAIN prog
  /\ \A i \in DOMAIN prog :
       (i < cur \/ status \in {"begin", "gen", "emitted"}) => prog[i].name \in DOMAIN functions

IsIR(r) == DOMAIN r = DOMAIN prog /\ \A f \in DOMAIN r : IsSeq(r[f])

(* The invariant: that the insertion block exists needs the held blocks to *)
(* exist, and that there is one to return to needs the frames to mirror    *)
(* the nesting.                                                            *)
GInv ==
  /\ prog \in Programs
  /\ TypeOK
  /\ StacksMirrorNesting
  /\ IsSeq(loopExitStack) /\ IsSeq(loopContinueStack)
  /\ Declared
  /\ IsIR(ir)
  /\ status = "declare" => loops = << << >>, << >> >> /\ frames = << >>
  /\ status = "gen" => Held(frames, Len(Blocks)) /\ BlockDepth(Fn.body, pc) >= 0

LEMMA CurrentBody ==
  ASSUME prog \in Programs, cur \in 1 .. Len(prog)
  PROVE  IsSeq(Fn.body) /\ Len(Fn.body) \in Nat /\ WellNested(Fn.body) /\ cur \in DOMAIN prog
<1>1. IsSeq(prog)
  BY ProgramsAssumption DEF Parsed
<1>2. cur \in DOMAIN prog
  BY <1>1, SeqBasics
<1>3. IsSeq(Fn.body) /\ WellNested(Fn.body)
  BY <1>2, ProgramsAssumption DEF Fn, Parsed
<1> QED
  BY <1>2, <1>3, SeqBasics

(* The function a body is generated into is one of the program's.          *)
LEMMA TargetExists ==
  ASSUME GInv, status \in {"begin", "gen"}, cur <= Len(prog)
  PROVE  /\ cur \in 1 .. Len(prog) /\ Len(prog) \in Nat
         /\ Target \in DOMAIN prog /\ Target \in DOMAIN ir /\ IsSeq(Blocks)
<1>1. IsSeq(prog)
  BY ProgramsAssumption DEF GInv, Parsed
<1>2. Len(prog) \in Nat /\ DOMAIN prog = 1 .. Len(prog)
  BY <1>1, SeqBasics
<1>3. cur \in 1 .. Len(prog)
  BY <1>2 DEF GInv, TypeOK
<1>4. Fn.name \in DOMAIN functions
  BY <1>2, <1>3 DEF GInv, Declared, Fn
<1>5. Target \in DOMAIN prog
  BY <1>4 DEF GInv, Declared, Target
<1> QED
  BY <1>2, <1>3, <1>5 DEF GInv, IsIR, Blocks

LEMMA PutCode ==
  ASSUME NEW bs, IsSeq(bs), NEW b \in 1 .. Len(bs), NEW code
  PROVE  IsSeq(Put(bs, b, code)) /\ Len(Put(bs, b, code)) = Len(bs)
<1> DEFINE v == [bs[b] EXCEPT !.code = bs[b].code \o code]
<1>1. Put(bs, b, code) = [bs EXCEPT ![b] = v]
  BY DEF Put
<1> HIDE DEF v
<1>2. IsSeq([bs EXCEPT ![b] = v]) /\ Len([bs EXCEPT ![b] = v]) = Len(bs)
  BY StackSet
<1> QED
  BY <1>1, <1>2

LEMMA CloseBlock ==
  ASSUME NEW bs, IsSeq(bs), NEW b \in 1 .. Len(bs), NEW to
  PROVE  IsSeq(Close(bs, b, to)) /\ Len(Close(bs, b, to)) = Len(bs)
  BY PutCode DEF Close

(* writing a function's blocks back *)
LEMMA SetIR ==
  ASSUME GInv, status = "gen", cur <= Len(prog), NEW bs, IsSeq(bs),
         prog' = prog, cur' = cur, functions' = functions,
         ir' = [ir EXCEPT ![Target] = bs]
  PROVE  IsIR(ir)' /\ Blocks' = bs
<1>1. Target \in DOMAIN ir
  BY TargetExists
<1>2. Target' = Target /\ prog' = prog
  BY DEF Target, Fn
<1>3. DOMAIN ir' = DOMAIN ir /\ ir'[Target] = bs
  BY <1>1
<1>4. \A f \in DOMAIN ir : IsSeq(ir'[f])
  BY <1>1 DEF GInv, IsIR
<1> QED
  BY <1>2, <1>3, <1>4 DEF GInv, IsIR, Blocks

-----------------------------------------------------------------------------
(* What the invariant says when a statement is about to be generated.      *)
LEMMA AtStatement ==
  ASSUME GInv, status = "gen", pc <= Len(Fn.body)
  PROVE  /\ cur <= Len(prog) /\ ins \in 1 .. Len(Blocks)
         /\ IsSeq(Blocks) /\ Len(Blocks) \in Nat
         /\ Held(frames, Len(Blocks)) /\ Len(frames) = BlockDepth(Fn.body, pc)
         /\ IsSeq(loopExitStack) /\ IsSeq(loopContinueStack)
         /\ Len(loopExitStack) = LoopDepth(Fn.body, pc)
         /\ Len(loopContinueStack) = LoopDepth(Fn.body, pc)
         /\ BlockDepth(Fn.body, pc) \in Nat /\ LoopDepth(Fn.body, pc) \in Nat
         /\ DOMAIN namedValues = DOMAIN namedTypes
         /\ LoopDepth(Fn.body, pc + 1) = LoopDepth(Fn.body, pc)
              + IF Node.k = "while" THEN 1 ELSE IF Node.k = "endwhile" THEN -1 ELSE 0
         /\ BlockDepth(Fn.body, pc + 1) = BlockDepth(Fn.body, pc)
              + IF Node.k \in {"if", "while"} THEN 1
                ELSE IF Node.k \in {"endif", "endwhile"} THEN -1 ELSE 0
         /\ Node.k \in {"else", "endif", "endwhile"} => BlockDepth(Fn.body, pc) > 0
         /\ Node.k = "endwhile" => LoopDepth(Fn.body, pc) > 0
<1>1. cur <= Len(prog) /\ pc \in Nat \ {0} /\ ins \in DOMAIN Blocks
  BY DEF GInv, TypeOK
<1>2. cur \in 1 .. Len(prog) /\ IsSeq(Blocks)
  BY <1>1, TargetExists
<1>3. Len(Blocks) \in Nat /\ ins \in 1 .. Len(Blocks)
  BY <1>1, <1>2, SeqBasics
<1>4. IsSeq(Fn.body) /\ Len(Fn.body) \in Nat /\ WellNested(Fn.body)
  BY <1>2, CurrentBody DEF GInv
<1>5. pc \in 1 .. Len(Fn.body) /\ pc \in Int
  BY <1>1, <1>4
<1>6. /\ Len(frames) = BlockDepth(Fn.body, pc)
      /\ Len(loopExitStack) = LoopDepth(Fn.body, pc)
      /\ Len(loopExitStack) = Len(loopContinueStack)
      /\ DOMAIN namedValues = DOMAIN namedTypes
  BY DEF GInv, TypeOK, StacksMirrorNesting
<1>7. /\ Held(frames, Len(Blocks)) /\ IsSeq(frames)
      /\ IsSeq(loopExitStack) /\ IsSeq(loopContinueStack)
  BY DEF GInv, Held
<1>8. BlockDepth(Fn.body, pc) \in Nat /\ LoopDepth(Fn.body, pc) \in Nat
  BY <1>6, <1>7, SeqBasics
<1>9. /\ LoopDepth(Fn.body, pc + 1) = LoopDepth(Fn.body, pc)
           + IF Fn.body[pc].k = "while" THEN 1 ELSE IF Fn.body[pc].k = "endwhile" THEN -1 ELSE 0
      /\ BlockDepth(Fn.body, pc + 1) = BlockDepth(Fn.body, pc)
           + IF Fn.body[pc].k \in {"if", "while"} THEN 1
             ELSE IF Fn.body[pc].k \in {"endif", "endwhile"} THEN -1 ELSE 0
  BY <1>4, <1>5, DepthNext
<1>10. /\ Fn.body[pc].k \in {"else", "endif", "endwhile"} => BlockDepth(Fn.body, pc) > 0
       /\ Fn.body[pc].k = "endwhile" => LoopDepth(Fn.body, pc) > 0
  BY <1>4, <1>5 DEF WellNested, Closes
<1> QED
  BY <1>1, <1>2, <1>3, <1>6, <1>7, <1>8, <1>9, <1>10 DEF Node

(* fatal() changes nothing but the status and the diagnostic *)
LEMMA FatalStep ==
  ASSUME GInv, status # "declare", NEW why, Fatal(why)
  PROVE  GInv'
<1>1. /\ prog' = prog /\ cur' = cur /\ pc' = pc /\ symtab' = symtab /\ functions' = functions
      /\ ir' = ir /\ ins' = ins /\ namedValues' = namedValues /\ namedTypes' = namedTypes
      /\ loopExitStack' = loopExitStack /\ loopContinueStack' = loopContinueStack
      /\ frames' = frames /\ status' = "fatal"
  BY DEF Fatal, declared, names, loops
<1> QED
  BY <1>1 DEF GInv, TypeOK, StacksMirrorNesting, Declared, IsIR

(* Every statement's action that does not fail, given what it does to the  *)
(* blocks, the insertion point and the stacks.                             *)
LEMMA Advanced ==
  ASSUME GInv, status = "gen", pc <= Len(Fn.body), Advance,
         NEW bs, IsSeq(bs), ir' = [ir EXCEPT ![Target] = bs],
         ins' \in 1 .. Len(bs), Held(frames', Len(bs)),
         BlockDepth(Fn.body, pc + 1) >= 0,
         Len(frames') = BlockDepth(Fn.body, pc + 1),
         IsSeq(loopExitStack'), IsSeq(loopContinueStack'),
         Len(loopExitStack') = LoopDepth(Fn.body, pc + 1),
         Len(loopContinueStack') = LoopDepth(Fn.body, pc + 1),
         DOMAIN namedValues' = DOMAIN namedTypes'
  PROVE  GInv'
<1>1. /\ prog' = prog /\ status' = "gen" /\ cur' = cur /\ pc' = pc + 1
      /\ symtab' = symtab /\ functions' = functions
  BY DEF Advance, declared
<1>2. Fn' = Fn /\ cur <= Len(prog) /\ pc \in Nat \ {0} /\ cur \in 1 .. Len(prog) + 1
  BY <1>1 DEF Fn, GInv, TypeOK
<1>3. IsIR(ir)' /\ Blocks' = bs
  BY <1>1, <1>2, SetIR
<1>4. DOMAIN bs = 1 .. Len(bs)
  BY SeqBasics
<1>5. Len(Fn.body) \in Nat
  BY <1>2, TargetExists, CurrentBody DEF GInv
<1>6. TypeOK'
  <2>1. pc' \in Nat \ {0} /\ pc' <= Len(Fn'.body) + 1 /\ ins' \in DOMAIN Blocks'
    BY <1>1, <1>2, <1>3, <1>4, <1>5
  <2>2. DOMAIN ir' = DOMAIN prog' /\ DOMAIN functions' \subseteq DOMAIN symtab'
    BY <1>1, <1>3 DEF IsIR, GInv, TypeOK
  <2> QED
    BY <1>1, <1>2, <2>1, <2>2 DEF TypeOK
<1>7. StacksMirrorNesting'
  BY <1>1, <1>2 DEF StacksMirrorNesting
<1>8. Declared'
  BY <1>1 DEF GInv, Declared
<1> QED
  BY <1>1, <1>2, <1>3, <1>6, <1>7, <1>8 DEF GInv

-----------------------------------------------------------------------------
(* One lemma per shape of statement.                                       *)

(* Code for one statement goes to the end of the insertion block.          *)
LEMMA StraightStep ==
  ASSUME GInv, status = "gen", pc <= Len(Fn.body), Advance,
         Node.k \notin {"if", "while", "endif", "endwhile"},
         NEW code, SetBlocks(Put(Blocks, ins, code)),
         ins' = ins, frames' = frames, loops' = loops,
         DOMAIN namedValues' = DOMAIN namedTypes'
  PROVE  GInv'
<1> DEFINE bs == Put(Blocks, ins, code)
           b == BlockDepth(Fn.body, pc)   b1 == BlockDepth(Fn.body, pc + 1)
           l == LoopDepth(Fn.body, pc)    l1 == LoopDepth(Fn.body, pc + 1)
<1>1. /\ ins \in 1 .. Len(Blocks) /\ IsSeq(Blocks) /\ Held(frames, Len(Blocks))
      /\ IsSeq(loopExitStack) /\ IsSeq(loopContinueStack)
      /\ b \in Nat /\ l \in Nat /\ b1 = b + 0 /\ l1 = l + 0
      /\ Len(frames) = b /\ Len(loopExitStack) = l /\ Len(loopContinueStack) = l
  BY AtStatement
<1>2. IsSeq(bs) /\ Len(bs) = Len(Blocks)
  BY <1>1, PutCode
<1>3. loopExitStack' = loopExitStack /\ loopContinueStack' = loopContinueStack
  BY DEF loops
<1>4. b1 = b /\ l1 = l /\ b1 >= 0
  <2> HIDE DEF b, b1, l, l1
  <2> QED
    BY <1>1
<1>5. ir' = [ir EXCEPT ![Target] = bs]
  BY DEF SetBlocks
<1> HIDE DEF bs
<1> QED
  BY <1>1, <1>2, <1>3, <1>4, <1>5, Advanced

LEMMA SimpleStep == GInv /\ (GenLet \/ GenExpr \/ GenReturn) => GInv'
<1> SUFFICES ASSUME GInv, GenLet \/ GenExpr \/ GenReturn PROVE GInv'
  OBVIOUS
<1>1. status = "gen" /\ pc <= Len(Fn.body) /\ Node.k \in {"let", "expr", "return"}
  BY DEF GenLet, GenExpr, GenReturn, At
<1>2. CASE \E why : Fatal(why)
  BY <1>1, <1>2, FatalStep
<1>3. CASE ~ \E why : Fatal(why)
  <2>1. CASE GenLet
    <3>1. PICK init, ty :
            /\ SetBlocks(Put(Blocks, ins, init.code))
            /\ namedValues' = Name(Node.x, Here)
            /\ namedTypes' = Bind(namedTypes, Node.x, ty)
            /\ UNCHANGED <<ins, loops, frames>>
            /\ Advance
      BY <1>3, <2>1 DEF GenLet
    <3>2. DOMAIN namedValues' = DOMAIN namedTypes'
      BY <3>1 DEF Name, Bind, GInv, TypeOK
    <3> QED
      BY <1>1, <3>1, <3>2, StraightStep
  <2>2. CASE GenExpr
    <3>1. PICK v : /\ SetBlocks(Put(Blocks, ins, v.code))
                   /\ UNCHANGED <<ins, names, loops, frames>>
                   /\ Advance
      BY <1>3, <2>2 DEF GenExpr
    <3>2. DOMAIN namedValues' = DOMAIN namedTypes'
      BY <3>1 DEF names, GInv, TypeOK
    <3> QED
      BY <1>1, <3>1, <3>2, StraightStep
  <2>3. CASE GenReturn
    <3>1. PICK code : /\ SetBlocks(Put(Blocks, ins, code))
                      /\ UNCHANGED <<ins, names, loops, frames>>
                      /\ Advance
      BY <1>3, <2>3 DEF GenReturn
    <3>2. DOMAIN namedValues' = DOMAIN namedTypes'
      BY <3>1 DEF names, GInv, TypeOK
    <3> QED
      BY <1>1, <3>1, <3>2, StraightStep
  <2> QED
    BY <2>1, <2>2, <2>3
<1> QED
  BY <1>2, <1>3

LEMMA DeferStep == GInv /\ GenDefer => GInv'
<1> SUFFICES ASSUME GInv, GenDefer PROVE GInv'
  OBVIOUS
<1> DEFINE b == BlockDepth(Fn.body, pc)   b1 == BlockDepth(Fn.body, pc + 1)
           l == LoopDepth(Fn.body, pc)    l1 == LoopDepth(Fn.body, pc + 1)
<1>1. /\ status = "gen" /\ pc <= Len(Fn.body) /\ Node.k = "defer" /\ Advance
      /\ ir' = ir /\ ins' = ins /\ frames' = frames
      /\ loopExitStack' = loopExitStack /\ loopContinueStack' = loopContinueStack
      /\ namedValues' = namedValues /\ namedTypes' = namedTypes
  BY DEF GenDefer, At, names, loops
<1>2. /\ cur <= Len(prog) /\ b \in Nat /\ l \in Nat /\ b1 = b + 0 /\ l1 = l + 0
      /\ Len(frames) = b /\ Len(loopExitStack) = l
  BY <1>1, AtStatement
<1>3. b1 = b /\ l1 = l /\ b1 >= 0
  <2> HIDE DEF b, b1, l, l1
  <2> QED
    BY <1>2
<1>4. /\ prog' = prog /\ status' = "gen" /\ cur' = cur /\ pc' = pc + 1
      /\ symtab' = symtab /\ functions' = functions
  BY <1>1 DEF Advance, declared
<1>5. Fn' = Fn /\ Blocks' = Blocks
  BY <1>1, <1>4 DEF Fn, Blocks, Target
<1>6. pc \in Nat \ {0} /\ Len(Fn.body) \in Nat
  BY <1>1, <1>2, TargetExists, CurrentBody DEF GInv, TypeOK
<1>7. pc' \in Nat \ {0} /\ pc' <= Len(Fn'.body) + 1
  BY <1>1, <1>4, <1>5, <1>6
<1>8. TypeOK'
  BY <1>1, <1>4, <1>5, <1>7 DEF GInv, TypeOK
<1>9. StacksMirrorNesting'
  BY <1>1, <1>2, <1>3, <1>4, <1>5 DEF StacksMirrorNesting
<1> QED
  BY <1>1, <1>3, <1>4, <1>5, <1>8, <1>9 DEF GInv, Declared, IsIR

(* break and continue: a jump, and a new block to go on in.                *)
LEMMA JumpStep == GInv /\ (GenBreak \/ GenContinue) => GInv'
<1> SUFFICES ASSUME GInv, GenBreak \/ GenContinue PROVE GInv'
  OBVIOUS
<1> DEFINE b == BlockDepth(Fn.body, pc)   b1 == BlockDepth(Fn.body, pc + 1)
           l == LoopDepth(Fn.body, pc)    l1 == LoopDepth(Fn.body, pc + 1)
<1>1. status = "gen" /\ pc <= Len(Fn.body) /\ Node.k \in {"break", "continue"}
  BY DEF GenBreak, GenContinue, At
<1>2. CASE Fatal("outside of loop")
  BY <1>1, <1>2, FatalStep
<1>3. CASE ~Fatal("outside of loop")
  <2>1. PICK to, after : Jump(to, after)
    BY <1>3 DEF GenBreak, GenContinue
  <2> DEFINE put == Put(Blocks, ins, <<Br({to}, {}, Here)>>)
             bs == Append(put, Block(after, pc))
  <2>2. /\ ir' = [ir EXCEPT ![Target] = bs] /\ ins' = Len(Blocks) + 1 /\ Advance
        /\ frames' = frames /\ loopExitStack' = loopExitStack
        /\ loopContinueStack' = loopContinueStack
        /\ namedValues' = namedValues /\ namedTypes' = namedTypes
    BY <2>1 DEF Jump, SetBlocks, names, loops
  <2>3. /\ ins \in 1 .. Len(Blocks) /\ IsSeq(Blocks) /\ Len(Blocks) \in Nat
        /\ Held(frames, Len(Blocks))
        /\ IsSeq(loopExitStack) /\ IsSeq(loopContinueStack)
        /\ b \in Nat /\ l \in Nat /\ b1 = b + 0 /\ l1 = l + 0
        /\ Len(frames) = b /\ Len(loopExitStack) = l /\ Len(loopContinueStack) = l
        /\ DOMAIN namedValues = DOMAIN namedTypes
    BY <1>1, AtStatement
  <2>4. IsSeq(put) /\ Len(put) = Len(Blocks)
    BY <2>3, PutCode
  <2>5. IsSeq(bs) /\ Len(bs) = Len(Blocks) + 1
    <3> HIDE DEF put
    <3>1. IsSeq(bs) /\ Len(bs) = Len(put) + 1
      BY <2>4, StackPush
    <3> QED
      BY <2>4, <3>1
  <2>6. b1 = b /\ l1 = l /\ b1 >= 0
    <3> HIDE DEF b, b1, l, l1
    <3> QED
      BY <2>3
  <2> HIDE DEF bs
  <2>7. Held(frames', Len(bs)) /\ ins' \in 1 .. Len(bs)
    BY <2>2, <2>3, <2>5 DEF Held
  <2> QED
    BY <1>1, <2>2, <2>3, <2>5, <2>6, <2>7, Advanced
<1> QED
  BY <1>2, <1>3

LEMMA HoldMore ==
  ASSUME NEW fs, NEW n \in Nat, NEW m \in Nat, Held(fs, n), n <= m
  PROVE  Held(fs, m)
  BY DEF Held

LEMMA PushHeld ==
  ASSUME NEW fs, NEW n \in Nat, Held(fs, n), NEW a \in 1 .. n, NEW b \in 1 .. n
  PROVE  Held(Append(fs, <<a, b>>), n) /\ Len(Append(fs, <<a, b>>)) = Len(fs) + 1
<1> DEFINE v == <<a, b>>
<1>1. v[1] \in 1 .. n /\ v[2] \in 1 .. n
  OBVIOUS
<1> HIDE DEF v
<1>2. IsSeq(fs) /\ Len(fs) \in Nat
  BY SeqBasics DEF Held
<1>3. /\ IsSeq(Append(fs, v)) /\ Len(Append(fs, v)) = Len(fs) + 1
      /\ \A i \in 1 .. Len(fs) : Append(fs, v)[i] = fs[i]
      /\ Append(fs, v)[Len(fs) + 1] = v
  BY <1>2, StackPush
<1>4. ASSUME NEW i \in 1 .. Len(fs) + 1
      PROVE  Append(fs, v)[i][1] \in 1 .. n /\ Append(fs, v)[i][2] \in 1 .. n
  <2>1. CASE i = Len(fs) + 1
    BY <1>1, <1>3, <2>1
  <2>2. CASE i \in 1 .. Len(fs)
    BY <1>3, <2>2 DEF Held
  <2> QED
    BY <1>2, <2>1, <2>2
<1>5. Held(Append(fs, v), n)
  BY <1>3, <1>4 DEF Held
<1> QED
  BY <1>3, <1>5 DEF v

LEMMA PopHeld ==
  ASSUME NEW fs, NEW n \in Nat, Held(fs, n), Len(fs) > 0
  PROVE  /\ Held(Front(fs), n) /\ Len(Front(fs)) = Len(fs) - 1
         /\ Last(fs)[1] \in 1 .. n /\ Last(fs)[2] \in 1 .. n
<1>1. IsSeq(fs) /\ Len(fs) \in Nat /\ fs # << >>
  BY SeqBasics DEF Held
<1>2. /\ IsSeq(Front(fs)) /\ Len(Front(fs)) = Len(fs) - 1
      /\ \A i \in 1 .. Len(fs) - 1 : Front(fs)[i] = fs[i]
  BY <1>1, StackPop
<1>3. Held(Front(fs), n)
  BY <1>1, <1>2 DEF Held
<1>4. Last(fs)[1] \in 1 .. n /\ Last(fs)[2] \in 1 .. n
  BY <1>1 DEF Held, Last
<1> QED
  BY <1>2, <1>3, <1>4

(* code at the end of a block, and three new blocks *)
LEMMA ThreeMore ==
  ASSUME NEW bs, IsSeq(bs), NEW b \in 1 .. Len(bs), NEW code, NEW x, NEW y, NEW z
  PROVE  /\ IsSeq(Put(bs, b, code) \o <<x, y, z>>)
         /\ Len(Put(bs, b, code) \o <<x, y, z>>) = Len(bs) + 3
<1> DEFINE put == Put(bs, b, code)
<1>1. IsSeq(put) /\ Len(put) = Len(bs)
  BY PutCode
<1>2. IsSeq(<<x, y, z>>) /\ Len(<<x, y, z>>) = 3
  BY ThreeEntries
<1> HIDE DEF put
<1>3. IsSeq(put \o <<x, y, z>>) /\ Len(put \o <<x, y, z>>) = Len(put) + Len(<<x, y, z>>)
  BY <1>1, <1>2, Concatenation
<1> QED
  BY <1>1, <1>2, <1>3 DEF put

(* if and while: three blocks more, two of them held, and for a loop both  *)
(* jump targets pushed.                                                    *)
LEMMA OpenStep == GInv /\ (GenIf \/ GenWhile) => GInv'
<1> SUFFICES ASSUME GInv, GenIf \/ GenWhile PROVE GInv'
  OBVIOUS
<1> DEFINE n == Len(Blocks)
           b == BlockDepth(Fn.body, pc)   b1 == BlockDepth(Fn.body, pc + 1)
           l == LoopDepth(Fn.body, pc)    l1 == LoopDepth(Fn.body, pc + 1)
<1>1. status = "gen" /\ pc <= Len(Fn.body) /\ Node.k \in {"if", "while"}
  BY DEF GenIf, GenWhile, At
<1>2. /\ ins \in 1 .. n /\ IsSeq(Blocks) /\ n \in Nat /\ Held(frames, n)
      /\ IsSeq(loopExitStack) /\ IsSeq(loopContinueStack)
      /\ b \in Nat /\ l \in Nat /\ b1 = b + 1
      /\ l1 = l + IF Node.k = "while" THEN 1 ELSE 0
      /\ Len(frames) = b /\ Len(loopExitStack) = l /\ Len(loopContinueStack) = l
      /\ DOMAIN namedValues = DOMAIN namedTypes
  BY <1>1, AtStatement
<1>3. CASE \E why : Fatal(why)
  BY <1>1, <1>3, FatalStep
<1>4. CASE ~ \E why : Fatal(why)
  <2>1. PICK bs : ir' = [ir EXCEPT ![Target] = bs] /\ IsSeq(bs) /\ Len(bs) = n + 3
    <3>1. PICK code, x, y, z : SetBlocks(Put(Blocks, ins, code) \o <<x, y, z>>)
      <4>1. CASE GenIf
        BY <1>4, <4>1 DEF GenIf
      <4>2. CASE GenWhile
        BY <1>4, <4>2 DEF GenWhile
      <4> QED
        BY <4>1, <4>2
    <3>2. /\ IsSeq(Put(Blocks, ins, code) \o <<x, y, z>>)
          /\ Len(Put(Blocks, ins, code) \o <<x, y, z>>) = n + 3
      BY <1>2, ThreeMore
    <3> QED
      BY <3>1, <3>2 DEF SetBlocks
  <2>2. PICK h \in {1, 2} : frames' = Append(frames, <<n + h, n + 3>>)
    BY <1>4 DEF GenIf, GenWhile
  <2>3. ins' \in {n + 1, n + 2} /\ Advance /\ namedValues' = namedValues /\ namedTypes' = namedTypes
    BY <1>4 DEF GenIf, GenWhile, names
  <2>4. /\ IsSeq(loopExitStack') /\ Len(loopExitStack') = l1
        /\ IsSeq(loopContinueStack') /\ Len(loopContinueStack') = l1
    <3>1. CASE GenIf
      <4>1. /\ Node.k = "if" /\ loopExitStack' = loopExitStack
            /\ loopContinueStack' = loopContinueStack
        BY <1>4, <3>1 DEF GenIf, At, loops
      <4>2. l1 = l
        <5> HIDE DEF l, l1
        <5> QED
          BY <1>2, <4>1
      <4> QED
        BY <1>2, <4>1, <4>2
    <3>2. CASE GenWhile
      <4>1. /\ Node.k = "while"
            /\ loopExitStack' = Append(loopExitStack, n + 3)
            /\ loopContinueStack' = Append(loopContinueStack, n + 1)
        BY <1>4, <3>2 DEF GenWhile, At
      <4>2. /\ IsSeq(loopExitStack') /\ Len(loopExitStack') = Len(loopExitStack) + 1
            /\ IsSeq(loopContinueStack') /\ Len(loopContinueStack') = Len(loopContinueStack) + 1
        BY <1>2, <4>1, StackPush
      <4>3. l1 = l + 1 /\ Len(loopExitStack) = l /\ Len(loopContinueStack) = l
        BY <1>2, <4>1
      <4> QED
        BY <4>2, <4>3
    <3> QED
      BY <3>1, <3>2
  <2>5. ins' \in 1 .. n + 3 /\ Held(frames', n + 3) /\ Len(frames') = Len(frames) + 1
    <3>1. n + 3 \in Nat /\ n + h \in 1 .. n + 3 /\ n + 3 \in 1 .. n + 3
          /\ n + 1 \in 1 .. n + 3 /\ n + 2 \in 1 .. n + 3
      BY <1>2
    <3>2. Held(frames, n + 3)
      BY <1>2, <3>1, HoldMore
    <3> HIDE DEF n
    <3> QED
      BY <2>2, <2>3, <3>1, <3>2, PushHeld
  <2>6. Len(frames') = b1 /\ b1 >= 0
    <3> HIDE DEF b, b1
    <3> QED
      BY <1>2, <2>5
  <2>7. DOMAIN namedValues' = DOMAIN namedTypes'
    BY <1>2, <2>3
  <2>8. ins' \in 1 .. Len(bs) /\ Held(frames', Len(bs))
    BY <2>1, <2>5
  <2> QED
    BY <1>1, <2>1, <2>4, <2>6, <2>7, <2>8, <2>3, Advanced
<1> QED
  BY <1>3, <1>4

(* The end of a branch or of a loop: its block is closed, and generation   *)
(* goes on in a block that was held.                                       *)
LEMMA CloseStep == GInv /\ (GenElse \/ GenEndIf \/ GenEndWhile) => GInv'
<1> SUFFICES ASSUME GInv, GenElse \/ GenEndIf \/ GenEndWhile PROVE GInv'
  OBVIOUS
<1> DEFINE n == Len(Blocks)
           b == BlockDepth(Fn.body, pc)   b1 == BlockDepth(Fn.body, pc + 1)
           l == LoopDepth(Fn.body, pc)    l1 == LoopDepth(Fn.body, pc + 1)
<1>1. status = "gen" /\ pc <= Len(Fn.body) /\ Node.k \in {"else", "endif", "endwhile"}
  BY DEF GenElse, GenEndIf, GenEndWhile, At
<1>2. /\ ins \in 1 .. n /\ IsSeq(Blocks) /\ n \in Nat /\ Held(frames, n)
      /\ IsSeq(loopExitStack) /\ IsSeq(loopContinueStack)
      /\ b \in Nat /\ l \in Nat /\ b > 0 /\ (Node.k = "endwhile" => l > 0)
      /\ b1 = b + IF Node.k = "else" THEN 0 ELSE -1
      /\ l1 = l + IF Node.k = "endwhile" THEN -1 ELSE 0
      /\ Len(frames) = b /\ Len(loopExitStack) = l /\ Len(loopContinueStack) = l
      /\ DOMAIN namedValues = DOMAIN namedTypes
  BY <1>1, AtStatement
<1>3. /\ Held(Front(frames), n) /\ Len(Front(frames)) = Len(frames) - 1
      /\ Last(frames)[1] \in 1 .. n /\ Last(frames)[2] \in 1 .. n
  <2> HIDE DEF n, b
  <2> QED
    BY <1>2, PopHeld
<1>4. PICK to :
        /\ ir' = [ir EXCEPT ![Target] = Close(Blocks, ins, to)]
        /\ ins' \in {Last(frames)[1], Last(frames)[2]}
        /\ Advance
        /\ namedValues' = namedValues /\ namedTypes' = namedTypes
  <2>1. CASE GenElse
    BY <2>1 DEF GenElse, SetBlocks, names
  <2>2. CASE GenEndIf
    BY <2>2 DEF GenEndIf, SetBlocks, names
  <2>3. CASE GenEndWhile
    BY <2>3 DEF GenEndWhile, SetBlocks, names
  <2> QED
    BY <2>1, <2>2, <2>3
<1>5. frames' = IF Node.k = "else" THEN frames ELSE Front(frames)
  BY DEF GenElse, GenEndIf, GenEndWhile, At
<1>6. Held(frames', n) /\ Len(frames') = b1 /\ b1 >= 0
  <2>1. CASE Node.k = "else"
    <3>1. b1 = b
      <4> HIDE DEF b, b1
      <4> QED
        BY <1>2, <2>1
    <3> QED
      BY <1>2, <1>5, <2>1, <3>1
  <2>2. CASE Node.k # "else"
    <3>1. b1 = b - 1 /\ b1 >= 0
      <4> HIDE DEF b, b1
      <4> QED
        BY <1>2, <2>2
    <3> QED
      BY <1>2, <1>3, <1>5, <2>2, <3>1
  <2> QED
    BY <2>1, <2>2
<1>7. /\ IsSeq(loopExitStack') /\ Len(loopExitStack') = l1
      /\ IsSeq(loopContinueStack') /\ Len(loopContinueStack') = l1
  <2>1. CASE GenElse \/ GenEndIf
    <3>1. /\ Node.k # "endwhile" /\ loopExitStack' = loopExitStack
          /\ loopContinueStack' = loopContinueStack
      BY <2>1 DEF GenElse, GenEndIf, At, loops
    <3>2. l1 = l
      <4> HIDE DEF l, l1
      <4> QED
        BY <1>2, <3>1
    <3> QED
      BY <1>2, <3>1, <3>2
  <2>2. CASE GenEndWhile
    <3>1. /\ Node.k = "endwhile" /\ loopExitStack' = Front(loopExitStack)
          /\ loopContinueStack' = Front(loopContinueStack)
      BY <2>2 DEF GenEndWhile, At, PopLoop
    <3>2. loopExitStack # << >> /\ loopContinueStack # << >>
      BY <1>2, <3>1, SeqBasics
    <3>3. /\ IsSeq(loopExitStack') /\ Len(loopExitStack') = Len(loopExitStack) - 1
          /\ IsSeq(loopContinueStack') /\ Len(loopContinueStack') = Len(loopContinueStack) - 1
      BY <1>2, <3>1, <3>2, StackPop
    <3>4. l1 = l - 1
      <4> HIDE DEF l, l1
      <4> QED
        BY <1>2, <3>1
    <3> QED
      BY <1>2, <3>3, <3>4
  <2> QED
    BY <2>1, <2>2
<1> DEFINE bs == Close(Blocks, ins, to)
<1>8. IsSeq(bs) /\ Len(bs) = n
  BY <1>2, CloseBlock
<1> HIDE DEF bs
<1>9. ins' \in 1 .. Len(bs) /\ Held(frames', Len(bs))
  BY <1>3, <1>4, <1>6, <1>8
<1>10. ir' = [ir EXCEPT ![Target] = bs] /\ DOMAIN namedValues' = DOMAIN namedTypes' /\ Advance
  BY <1>2, <1>4 DEF bs
<1> QED
  BY <1>1, <1>6, <1>7, <1>8, <1>9, <1>10, Advanced

LEMMA StatementStep == GInv /\ GenStmt => GInv'
  BY SimpleStep, DeferStep, JumpStep, OpenStep, CloseStep DEF GenStmt

-----------------------------------------------------------------------------
(* Going from function to function.                                        *)

LEMMA InitGInv == Init => GInv
<1> SUFFICES ASSUME Init PROVE GInv
  OBVIOUS
<1>1. IsSeq(<< >>) /\ Len(<< >>) = 0
  BY EmptyStack
<1>2. IsSeq(prog) /\ Len(prog) \in Nat /\ DOMAIN prog = 1 .. Len(prog)
  BY ProgramsAssumption, SeqBasics DEF Init, Parsed
<1>3. DOMAIN functions = {} /\ DOMAIN namedValues = {} /\ DOMAIN namedTypes = {}
  BY DEF Init, Nothing
<1>4. TypeOK
  <2>1. cur = 1 /\ pc = 1
    BY DEF Init
  <2>2. cur \in 1 .. Len(prog) + 1 /\ pc \in Nat \ {0}
    BY <1>2, <2>1
  <2>3. status = "declare" /\ DOMAIN ir = DOMAIN prog /\ loopExitStack = loopContinueStack
    BY DEF Init
  <2>4. DOMAIN functions \subseteq DOMAIN symtab /\ DOMAIN namedValues = DOMAIN namedTypes
    BY <1>3
  <2> QED
    BY <2>2, <2>3, <2>4 DEF TypeOK
<1>5. Declared
  <2>1. cur = 1 /\ status = "declare"
    BY DEF Init
  <2>2. \A i \in DOMAIN prog : ~(i < cur)
    BY <1>2, <2>1
  <2> QED
    BY <1>3, <2>1, <2>2 DEF Declared
<1>6. IsIR(ir)
  BY <1>1 DEF Init, IsIR
<1> QED
  BY <1>1, <1>4, <1>5, <1>6 DEF Init, GInv, StacksMirrorNesting, loops

LEMMA DeclareStep == GInv /\ DeclareFunction => GInv'
<1> SUFFICES ASSUME GInv, DeclareFunction PROVE GInv'
  OBVIOUS
<1>1. /\ prog' = prog /\ status' = status /\ status = "declare" /\ pc' = pc /\ ir' = ir
      /\ namedValues' = namedValues /\ namedTypes' = namedTypes /\ frames' = frames
      /\ loopExitStack' = loopExitStack /\ loopContinueStack' = loopContinueStack
      /\ cur' = cur + 1 /\ functions' = Bind(functions, Fn.name, cur)
  BY DEF DeclareFunction, names, loops
<1>2. cur \in 1 .. Len(prog) /\ Len(prog) \in Nat /\ DOMAIN prog = 1 .. Len(prog)
  BY ProgramsAssumption, SeqBasics DEF DeclareFunction, GInv, TypeOK, Parsed
<1>3. /\ DOMAIN functions' = DOMAIN functions \cup {Fn.name}
      /\ \A f \in DOMAIN functions' :
           functions'[f] = IF f = Fn.name THEN cur ELSE functions[f]
  BY <1>1 DEF Bind
<1>4. DOMAIN functions' \subseteq DOMAIN symtab'
  <2>1. DOMAIN symtab \cup {Fn.name} \subseteq DOMAIN symtab'
    BY DEF DeclareFunction, Bind
  <2> QED
    BY <1>3, <2>1 DEF GInv, TypeOK
<1>5. Declared'
  <2>1. ASSUME NEW f \in DOMAIN functions' PROVE functions'[f] \in DOMAIN prog
    BY <1>2, <1>3 DEF GInv, Declared
  <2>2. ASSUME NEW i \in DOMAIN prog, i < cur + 1 PROVE prog[i].name \in DOMAIN functions'
    <3>1. CASE i = cur
      BY <1>3, <3>1 DEF Fn
    <3>2. CASE i < cur
      BY <1>3, <3>2 DEF GInv, Declared
    <3> QED
      BY <1>2, <2>2, <3>1, <3>2
  <2> QED
    BY <1>1, <2>1, <2>2 DEF Declared
<1>6. cur' \in 1 .. Len(prog) + 1
  BY <1>1, <1>2
<1>7. TypeOK'
  BY <1>1, <1>4, <1>6 DEF GInv, TypeOK
<1> QED
  BY <1>1, <1>5, <1>7 DEF GInv, StacksMirrorNesting, IsIR, loops

LEMMA StartDefiningStep == GInv /\ StartDefining => GInv'
<1> SUFFICES ASSUME GInv, StartDefining PROVE GInv'
  OBVIOUS
<1>1. /\ prog' = prog /\ status = "declare" /\ status' = "begin" /\ pc' = pc /\ ir' = ir
      /\ namedValues' = namedValues /\ namedTypes' = namedTypes /\ frames' = frames
      /\ loopExitStack' = loopExitStack /\ loopContinueStack' = loopContinueStack
      /\ cur > Len(prog) /\ cur' = 1 /\ functions' = functions /\ symtab' = symtab
  BY DEF StartDefining, names, loops, declared
<1>2. Len(prog) \in Nat /\ DOMAIN prog = 1 .. Len(prog) /\ cur \in 1 .. Len(prog) + 1
  BY ProgramsAssumption, SeqBasics DEF GInv, TypeOK, Parsed
<1>3. \A i \in DOMAIN prog : i < cur
  BY <1>1, <1>2
<1>4. Declared'
  BY <1>1, <1>3 DEF GInv, Declared
<1>5. TypeOK'
  BY <1>1, <1>2 DEF GInv, TypeOK
<1> QED
  BY <1>1, <1>4, <1>5 DEF GInv, StacksMirrorNesting, IsIR, loops

(* A body starts in a new entry block, outside every loop.                 *)
LEMMA BeginStep == GInv /\ BeginFunction => GInv'
<1> SUFFICES ASSUME GInv, BeginFunction PROVE GInv'
  OBVIOUS
<1>1. /\ prog' = prog /\ status = "begin" /\ status' = "gen" /\ pc' = 1 /\ cur' = cur
      /\ cur <= Len(prog) /\ functions' = functions /\ symtab' = symtab /\ frames' = frames
      /\ loopExitStack' = loopExitStack /\ loopContinueStack' = loopContinueStack
      /\ ins' = Len(Blocks) + 1 /\ DOMAIN namedValues' = DOMAIN namedTypes'
  BY DEF BeginFunction, ParamSlots, loops, declared
<1>2. PICK entry : ir' = [ir EXCEPT ![Target] = Append(Blocks, entry)]
  BY DEF BeginFunction, Blocks
<1>3. /\ cur \in 1 .. Len(prog) /\ Target \in DOMAIN ir /\ IsSeq(Blocks)
      /\ Len(Blocks) \in Nat
  BY <1>1, TargetExists, SeqBasics
<1> DEFINE bs == Append(Blocks, entry)
<1>4. IsSeq(bs) /\ Len(bs) = Len(Blocks) + 1
  BY <1>3, StackPush
<1>5. DOMAIN bs = 1 .. Len(bs)
  BY <1>4, SeqBasics
<1> HIDE DEF bs
<1>6. Fn' = Fn /\ Target' = Target
  BY <1>1 DEF Fn, Target
<1>7. ir' = [ir EXCEPT ![Target] = bs]
  BY <1>2 DEF bs
<1>8. Blocks' = bs /\ IsIR(ir)'
  <2>1. DOMAIN ir' = DOMAIN ir /\ ir'[Target] = bs
    BY <1>3, <1>7
  <2>2. \A f \in DOMAIN ir : IsSeq(ir'[f])
    BY <1>4, <1>7 DEF GInv, IsIR
  <2> QED
    BY <1>1, <1>6, <2>1, <2>2 DEF GInv, IsIR, Blocks
<1>9. loopExitStack = << >> /\ loopContinueStack = << >> /\ frames = << >>
  BY <1>1 DEF GInv, StacksMirrorNesting, loops
<1>10. LoopDepth(Fn.body, 1) = 0 /\ BlockDepth(Fn.body, 1) = 0 /\ Len(Fn.body) \in Nat
  BY <1>3, DepthAtStart, CurrentBody DEF GInv
<1>11. IsSeq(<< >>) /\ Len(<< >>) = 0
  BY EmptyStack
<1>12. TypeOK'
  <2>1. ins' \in DOMAIN Blocks'
    BY <1>1, <1>3, <1>4, <1>5, <1>8
  <2>2. DOMAIN ir' = DOMAIN prog'
    BY <1>8 DEF IsIR
  <2> QED
    BY <1>1, <1>6, <1>9, <1>10, <2>1, <2>2 DEF GInv, TypeOK
<1>13. StacksMirrorNesting'
  BY <1>1, <1>6, <1>9, <1>10, <1>11 DEF StacksMirrorNesting
<1>14. Held(frames', Len(Blocks'))
  BY <1>1, <1>9, <1>11 DEF Held
<1> QED
  BY <1>1, <1>6, <1>8, <1>10, <1>12, <1>13, <1>14 DEF GInv, Declared

(* A body ends outside every block, so nothing is left on the stacks.      *)
LEMMA EndStep == GInv /\ EndFunction => GInv'
<1> SUFFICES ASSUME GInv, EndFunction PROVE GInv'
  OBVIOUS
<1>1. status = "gen" /\ pc > Len(Fn.body) /\ cur <= Len(prog)
  BY DEF EndFunction, GInv, TypeOK
<1>2. CASE Fatal("invalid function IR")
  BY <1>1, <1>2, FatalStep
<1>3. CASE ~Fatal("invalid function IR")
  <2>1. /\ prog' = prog /\ status' = "begin" /\ pc' = pc /\ cur' = cur + 1
        /\ functions' = functions /\ symtab' = symtab /\ frames' = frames
        /\ namedValues' = namedValues /\ namedTypes' = namedTypes
        /\ loopExitStack' = loopExitStack /\ loopContinueStack' = loopContinueStack
    BY <1>3 DEF EndFunction, names, loops, declared
  <2>2. PICK code : ir' = [ir EXCEPT ![Target] = IF Terminated(Blocks[ins]) THEN Blocks
                                                 ELSE Put(Blocks, ins, code)]
    BY <1>3 DEF EndFunction
  <2>3. /\ cur \in 1 .. Len(prog) /\ Len(prog) \in Nat /\ Target \in DOMAIN ir
        /\ IsSeq(Blocks)
    BY <1>1, TargetExists
  <2>4. ins \in 1 .. Len(Blocks)
    BY <1>1, <2>3, SeqBasics DEF GInv, TypeOK
  <2>5. IsIR(ir)'
    <3> DEFINE bs == IF Terminated(Blocks[ins]) THEN Blocks ELSE Put(Blocks, ins, code)
    <3>1. IsSeq(bs)
      BY <2>3, <2>4, PutCode
    <3> HIDE DEF bs
    <3>2. ir' = [ir EXCEPT ![Target] = bs]
      BY <2>2 DEF bs
    <3>3. DOMAIN ir' = DOMAIN ir /\ \A f \in DOMAIN ir : IsSeq(ir'[f])
      BY <3>1, <3>2 DEF GInv, IsIR
    <3> QED
      BY <2>1, <3>3 DEF GInv, IsIR
  <2>6. IsSeq(Fn.body) /\ Len(Fn.body) \in Nat /\ WellNested(Fn.body)
    BY <2>3, CurrentBody DEF GInv
  <2>7. pc = Len(Fn.body) + 1
    <3>1. pc \in Nat /\ pc <= Len(Fn.body) + 1
      BY <1>1 DEF GInv, TypeOK
    <3> QED
      BY <1>1, <2>6, <3>1
  <2>8. LoopDepth(Fn.body, pc) = 0 /\ BlockDepth(Fn.body, pc) = 0
    BY <2>6, <2>7 DEF WellNested
  <2>9. Len(loopExitStack) = 0 /\ Len(loopContinueStack) = 0 /\ Len(frames) = 0
    BY <1>1, <2>8 DEF GInv, TypeOK, StacksMirrorNesting
  <2>10. loopExitStack = << >> /\ loopContinueStack = << >> /\ frames = << >>
    BY <1>1, <2>9, SeqBasics DEF GInv, Held
  <2>11. cur' \in 1 .. Len(prog) + 1
    BY <2>1, <2>3
  <2>12. TypeOK'
    BY <2>1, <2>5, <2>11 DEF GInv, TypeOK, IsIR
  <2>13. StacksMirrorNesting'
    BY <2>1, <2>10 DEF StacksMirrorNesting, loops
  <2>14. Declared'
    BY <1>1, <2>1 DEF GInv, Declared
  <2> QED
    BY <2>1, <2>5, <2>12, <2>13, <2>14 DEF GInv
<1> QED
  BY <1>2, <1>3

LEMMA NextGInv == GInv /\ [Next]_vars => GInv'
<1> SUFFICES ASSUME GInv, [Next]_vars PROVE GInv'
  OBVIOUS
<1>1. CASE GenStmt
  BY <1>1, StatementStep
<1>2. CASE DeclareFunction \/ StartDefining \/ BeginFunction \/ EndFunction
  BY <1>2, DeclareStep, StartDefiningStep, BeginStep, EndStep
<1>3. CASE Finish
  <2>1. /\ prog' = prog /\ status = "begin" /\ status' = "emitted" /\ pc' = pc /\ cur' = cur
        /\ functions' = functions /\ symtab' = symtab /\ frames' = frames /\ ir' = ir
        /\ namedValues' = namedValues /\ namedTypes' = namedTypes
        /\ loopExitStack' = loopExitStack /\ loopContinueStack' = loopContinueStack
    BY <1>3 DEF Finish, names, loops, declared
  <2> QED
    BY <2>1 DEF GInv, TypeOK, StacksMirrorNesting, Declared, IsIR
<1>4. CASE UNCHANGED vars
  <2>1. /\ prog' = prog /\ status' = status /\ pc' = pc /\ cur' = cur /\ ins' = ins
        /\ functions' = functions /\ symtab' = symtab /\ frames' = frames /\ ir' = ir
        /\ namedValues' = namedValues /\ namedTypes' = namedTypes
        /\ loopExitStack' = loopExitStack /\ loopContinueStack' = loopContinueStack
    BY <1>4 DEF vars, names, loops, declared
  <2>2. Fn' = Fn /\ Blocks' = Blocks /\ loops' = loops
    BY <2>1 DEF Fn, Blocks, Target, loops
  <2> QED
    BY <2>1, <2>2 DEF GInv, TypeOK, StacksMirrorNesting, Declared, IsIR
<1> QED
  BY <1>1, <1>2, <1>3, <1>4 DEF Next, Emit, Stopped

(* The invariant holds of every program, analysed before or not.           *)
THEOREM CodeGenInvariant == Spec => []GInv
  BY InitGInv, NextGInv, PTL DEF Spec

-----------------------------------------------------------------------------
(* Whatever programs it is given, the generator always has an insertion    *)
(* block in the function it fills, its two name maps know the same names,  *)
(* and its two loop stacks have the same height.                           *)
THEOREM CodeGenTypeCorrect == Spec => []TypeOK
<1>1. GInv => TypeOK
  BY DEF GInv
<1> QED
  BY <1>1, CodeGenInvariant, PTL

(* The hand-kept stacks mirror the source on every path: one entry of the  *)
(* loop stacks per open loop, one pair of held blocks per open branch or   *)
(* loop, and nothing left over for the next function.                      *)
THEOREM CodeGenStacks == Spec => []StacksMirrorNesting
<1>1. GInv => StacksMirrorNesting
  BY DEF GInv
<1> QED
  BY <1>1, CodeGenInvariant, PTL

-----------------------------------------------------------------------------
(* The flat map of names.                                                  *)

LEMMA DeclaredNext ==
  ASSUME NEW c, IsSeq(prog[c].body), NEW p \in 1 .. Len(prog[c].body), NEW x
  PROVE  DeclaredSoFar(c, p + 1, x) =
           IF prog[c].body[p].k = "let" /\ prog[c].body[p].x = x THEN p
           ELSE DeclaredSoFar(c, p, x)
<1> DEFINE ds(q) == {d \in 1 .. q-1 : prog[c].body[d].k = "let" /\ prog[c].body[d].x = x}
<1>1. p \in Nat \ {0}
  BY SeqBasics
<1>2. \A q : DeclaredSoFar(c, q, x) =
               IF ds(q) = {} THEN ParamSite(prog[Target].params, x) ELSE Max(ds(q))
  BY DEF DeclaredSoFar
<1>3. CASE prog[c].body[p].k = "let" /\ prog[c].body[p].x = x
  <2> DEFINE S == ds(p + 1)
  <2>1. p \in S /\ S \in SUBSET (0 .. p) /\ p \in Nat
    BY <1>1, <1>3
  <2>2. DeclaredSoFar(c, p + 1, x) = Max(S)
    BY <1>2, <2>1
  <2> HIDE DEF S
  <2>3. Max(S) \in S /\ p <= Max(S)
    BY <2>1, GreatestNumber
  <2>4. Max(S) = p
    <3> DEFINE m == Max(S)
    <3>1. m \in 0 .. p /\ p <= m
      BY <2>1, <2>3
    <3> HIDE DEF m
    <3>2. m = p
      BY <2>1, <3>1
    <3> QED
      BY <3>2 DEF m
  <2> QED
    BY <1>3, <2>2, <2>4
<1>4. CASE ~(prog[c].body[p].k = "let" /\ prog[c].body[p].x = x)
  <2>1. ds(p + 1) = ds(p)
    BY <1>1, <1>4
  <2> HIDE DEF ds
  <2> QED
    BY <1>2, <1>4, <2>1
<1> QED
  BY <1>3, <1>4

(* what the map has to be at statement p of the body of cur *)
FlatAt(p) ==
  [x \in {y \in Names : DeclaredSoFar(cur, p, y) # NoSite} |-> <<cur, DeclaredSoFar(cur, p, x)>>]

LEMMA FlatStep ==
  ASSUME GInv, NamesAreFlat, status = "gen", pc <= Len(Fn.body), Advance,
         namedValues' = IF Node.k = "let" THEN Name(Node.x, Here) ELSE namedValues
  PROVE  NamesAreFlat'
<1>1. cur \in 1 .. Len(prog) /\ pc \in Nat \ {0}
  BY TargetExists DEF GInv, TypeOK
<1>2. IsSeq(Fn.body) /\ Len(Fn.body) \in Nat /\ cur \in DOMAIN prog
  BY <1>1, CurrentBody DEF GInv
<1>3. pc \in 1 .. Len(Fn.body) /\ pc \in DOMAIN Fn.body
  BY <1>1, <1>2, SeqBasics
<1>4. Node.k = "let" => Node.x \in Names
  BY <1>2, <1>3, ProgramsAssumption DEF GInv, Parsed, Fn, Node
<1>5. \A x : DeclaredSoFar(cur, pc + 1, x) =
               IF Node.k = "let" /\ Node.x = x THEN pc ELSE DeclaredSoFar(cur, pc, x)
  BY <1>2, <1>3, DeclaredNext DEF Node, Fn
<1>6. namedValues = FlatAt(pc)
  BY DEF NamesAreFlat, FlatAt
<1> DEFINE D(q, x) == DeclaredSoFar(cur, q, x)
<1>7. namedValues' = FlatAt(pc + 1)
  <2>1. CASE Node.k = "let"
    <3>1. namedValues' = [y \in DOMAIN namedValues \cup {Node.x} |->
                            IF y = Node.x THEN <<cur, pc>> ELSE namedValues[y]]
      BY <2>1 DEF Name, Bind, Here
    <3>2. {y \in Names : D(pc + 1, y) # NoSite} = DOMAIN namedValues \cup {Node.x}
      BY <1>3, <1>4, <1>5, <1>6, <2>1 DEF FlatAt, NoSite
    <3>3. \A y \in DOMAIN namedValues \cup {Node.x} :
            (IF y = Node.x THEN <<cur, pc>> ELSE namedValues[y]) = <<cur, D(pc + 1, y)>>
      BY <1>5, <1>6, <2>1 DEF FlatAt
    <3> HIDE DEF D
    <3> QED
      BY <3>1, <3>2, <3>3 DEF FlatAt, D
  <2>2. CASE Node.k # "let"
    <3>1. \A x : D(pc + 1, x) = D(pc, x)
      BY <1>5, <2>2
    <3> QED
      BY <1>6, <2>2, <3>1 DEF FlatAt
  <2> QED
    BY <2>1, <2>2
<1>8. prog' = prog /\ cur' = cur /\ pc' = pc + 1 /\ Target' = Target
  BY DEF Advance, Target, Fn, declared
<1>9. \A x : DeclaredSoFar(cur, pc, x)' = D(pc + 1, x)
  BY <1>8 DEF DeclaredSoFar
<1> QED
  BY <1>7, <1>8, <1>9 DEF NamesAreFlat, FlatAt

(* Every statement but let leaves the map alone, in all its outcomes.      *)
LEMMA StatementNames == GInv /\ NamesAreFlat /\ GenStmt => NamesAreFlat'
<1> SUFFICES ASSUME GInv, NamesAreFlat, GenStmt PROVE NamesAreFlat'
  OBVIOUS
<1>1. CASE status' = "fatal"
  BY <1>1 DEF NamesAreFlat
<1>2. CASE status' # "fatal"
  <2>1. \A why : ~Fatal(why)
    BY <1>2 DEF Fatal
  <2>2. status = "gen" /\ pc <= Len(Fn.body)
    BY DEF GenStmt, GenLet, GenExpr, GenReturn, GenDefer, GenIf, GenElse, GenEndIf,
           GenWhile, GenEndWhile, GenBreak, GenContinue, At
  <2>3. CASE GenLet
    BY <2>1, <2>2, <2>3, FlatStep DEF GenLet, At
  <2>4. CASE GenExpr \/ GenReturn
    BY <2>1, <2>2, <2>4, FlatStep DEF GenExpr, GenReturn, At, names
  <2>5. CASE GenDefer \/ GenIf \/ GenElse \/ GenEndIf
    BY <2>1, <2>2, <2>5, FlatStep DEF GenDefer, GenIf, GenElse, GenEndIf, At, names
  <2>6. CASE GenWhile \/ GenEndWhile
    BY <2>1, <2>2, <2>6, FlatStep DEF GenWhile, GenEndWhile, At, names
  <2>7. CASE GenBreak \/ GenContinue
    BY <2>1, <2>2, <2>7, FlatStep DEF GenBreak, GenContinue, Jump, At, names
  <2> QED
    BY <2>3, <2>4, <2>5, <2>6, <2>7 DEF GenStmt
<1> QED
  BY <1>1, <1>2

(* A body begins with the parameters of the function it goes into, and     *)
(* with nothing of the body before it.                                     *)
LEMMA BeginNames == GInv /\ BeginFunction => NamesAreFlat'
<1> SUFFICES ASSUME GInv, BeginFunction PROVE NamesAreFlat'
  OBVIOUS
<1> DEFINE params == prog[Target].params
<1>1. /\ status = "begin" /\ cur <= Len(prog) /\ prog' = prog /\ cur' = cur /\ pc' = 1
      /\ functions' = functions /\ namedValues' = ParamSlots(params)
  BY DEF BeginFunction, declared
<1>2. Target \in DOMAIN prog
  BY <1>1, TargetExists
<1>3. IsSeq(params) /\ \A k \in DOMAIN params : params[k].x \in Names
  BY <1>2, ProgramsAssumption DEF GInv, Parsed
<1>4. Target' = Target
  BY <1>1 DEF Target, Fn
<1>5. \A x : DeclaredSoFar(cur, pc, x)' = ParamSite(params, x)
  BY <1>1, <1>4 DEF DeclaredSoFar
<1>6. {y \in Names : ParamSite(params, y) # NoSite} = {params[k].x : k \in DOMAIN params}
  <2> HIDE DEF params
  <2>1. \A x : ParamSite(params, x) # NoSite <=> \E k \in DOMAIN params : params[k].x = x
    BY <1>3, ParamSites
  <2> QED
    BY <1>3, <2>1
<1>7. namedValues' = [x \in {y \in Names : ParamSite(params, y) # NoSite} |->
                        <<cur, ParamSite(params, x)>>]
  BY <1>1, <1>6 DEF ParamSlots
<1> QED
  BY <1>1, <1>5, <1>7 DEF NamesAreFlat

LEMMA NextNames == GInv /\ NamesAreFlat /\ [Next]_vars => NamesAreFlat'
<1> SUFFICES ASSUME GInv, NamesAreFlat, [Next]_vars PROVE NamesAreFlat'
  OBVIOUS
<1>1. CASE DeclareFunction \/ StartDefining \/ Finish
  BY <1>1 DEF DeclareFunction, StartDefining, Finish, NamesAreFlat
<1>2. CASE BeginFunction
  BY <1>2, BeginNames
<1>3. CASE GenStmt
  BY <1>3, StatementNames
<1>4. CASE EndFunction
  BY <1>4 DEF EndFunction, Fatal, NamesAreFlat
<1>5. CASE UNCHANGED vars
  BY <1>5 DEF vars, declared, names, NamesAreFlat, DeclaredSoFar, Target, Fn
<1> QED
  BY <1>1, <1>2, <1>3, <1>4, <1>5 DEF Next, Emit, Stopped

(* For every set of programs, namedValues (codegen.cpp:301, 418-425) means *)
(* the last declaration in the text of each name of the function at hand,  *)
(* of closed blocks as well, and nothing of any function before it.        *)
THEOREM CodeGenNamesAreFlat == Spec => []NamesAreFlat
<1>1. Init => GInv /\ NamesAreFlat
  BY InitGInv DEF Init, NamesAreFlat
<1>2. GInv /\ NamesAreFlat /\ [Next]_vars => (GInv /\ NamesAreFlat)'
  BY NextGInv, NextNames
<1> QED
  BY <1>1, <1>2, PTL DEF Spec

-----------------------------------------------------------------------------
(* The code of an expression.                                              *)

(* code for the statement at, on no slots but those of S, without a jump *)
Mine(code, S, at) ==
  IsSeq(code) /\ \A i \in Range(code) : i.at = at /\ i.slots \subseteq S /\ ~Terminator(i)

IsValue(v) == DOMAIN v = {"ty", "const", "base", "code", "stop"}
Good(v, S, at) == IsValue(v) /\ Mine(v.code, S, at) /\ v.base \subseteq S

LEMMA MineJoined ==
  ASSUME NEW S, NEW at, NEW c, NEW d, Mine(c, S, at), Mine(d, S, at)
  PROVE  Mine(c \o d, S, at)
  BY RangeOfConcatenation DEF Mine

LEMMA MineOne ==
  ASSUME NEW S, NEW at, NEW i, i.at = at, i.slots \subseteq S, ~Terminator(i)
  PROVE  Mine(<<i>>, S, at)
  BY RangeOfOne DEF Mine

LEMMA MineTwo ==
  ASSUME NEW S, NEW at, NEW i, NEW j, i.at = at, i.slots \subseteq S, ~Terminator(i),
         j.at = at, j.slots \subseteq S, ~Terminator(j)
  PROVE  Mine(<<i, j>>, S, at)
  BY RangeOfTwo DEF Mine

LEMMA MineFlat ==
  ASSUME NEW S, NEW at, NEW cs, IsSeq(cs), \A k \in 1 .. Len(cs) : Mine(cs[k], S, at)
  PROVE  Mine(FlattenSeq(cs), S, at)
  BY Flattening DEF Mine

LEMMA GoodValue ==
  ASSUME NEW S, NEW at, NEW ty, NEW code, Mine(code, S, at)
  PROVE  Good(Value(ty, code), S, at)
  BY DEF Good, IsValue, Value

LEMMA GoodConst ==
  ASSUME NEW S, NEW at, NEW ty, NEW why
  PROVE  Good(Const(ty), S, at) /\ Good(Stop(why), S, at)
<1>1. Mine(<< >>, S, at)
  BY RangeOfNothing DEF Mine
<1> QED
  BY <1>1 DEF Good, IsValue, Value, Const, Stop

LEMMA GoodThen ==
  ASSUME NEW S, NEW at, NEW vs, IsSeq(vs), \A i \in 1 .. Len(vs) : Good(vs[i], S, at),
         NEW ty, NEW is, Mine(is, S, at)
  PROVE  Good(Then(vs, ty, is), S, at)
<1> DEFINE bad == {i \in DOMAIN vs : vs[i].stop # ""}
           cs == [i \in DOMAIN vs |-> vs[i].code]
<1>1. DOMAIN vs = 1 .. Len(vs) /\ Len(vs) \in Nat
  BY SeqBasics
<1>2. CASE bad # {}
  <2>1. bad \in SUBSET Nat
    <3>1. bad \subseteq DOMAIN vs
      OBVIOUS
    <3> HIDE DEF bad
    <3> QED
      BY <1>1, <3>1
  <2>2. Min(bad) \in 1 .. Len(vs)
    <3>1. Min(bad) \in bad
      <4> HIDE DEF bad
      <4> QED
        BY <1>2, <2>1, LeastNumber
    <3> QED
      BY <1>1, <3>1
  <2> QED
    BY <1>2, <2>2 DEF Then
<1>3. CASE bad = {}
  <2>1. IsSeq(cs) /\ Len(cs) = Len(vs)
    <3>1. cs = [i \in DOMAIN vs |-> cs[i]]
      OBVIOUS
    <3> HIDE DEF cs
    <3> QED
      BY <3>1, Mapped
  <2>2. \A i \in 1 .. Len(cs) : Mine(cs[i], S, at)
    BY <1>1, <2>1 DEF Good
  <2> HIDE DEF cs
  <2>3. Mine(FlattenSeq(cs), S, at)
    BY <2>1, <2>2, MineFlat
  <2>4. Mine(FlattenSeq(cs) \o is, S, at)
    BY <2>3, MineJoined
  <2>5. Good(Value(ty, FlattenSeq(cs) \o is), S, at)
    BY <2>4, GoodValue
  <2> QED
    BY <1>3, <2>5 DEF Then, cs
<1> QED
  BY <1>2, <1>3

LEMMA GoodOp ==
  ASSUME NEW S, NEW at, NEW vs, IsSeq(vs), \A i \in 1 .. Len(vs) : Good(vs[i], S, at),
         NEW op, op \notin {"br", "ret"}, NEW ty, NEW ok
  PROVE  Good(Op(op, vs, ty, ok, at), S, at)
<1> DEFINE slots == UNION {vs[i].base : i \in DOMAIN vs}
<1>1. DOMAIN vs = 1 .. Len(vs)
  BY SeqBasics
<1>2. slots \subseteq S
  BY <1>1 DEF Good
<1> HIDE DEF slots
<1>3. Mine(<<Instr(op, slots, ok, at)>>, S, at)
  <2>1. /\ Instr(op, slots, ok, at).at = at /\ Instr(op, slots, ok, at).slots = slots
        /\ ~Terminator(Instr(op, slots, ok, at))
    BY DEF Instr, Terminator
  <2> QED
    BY <1>2, <2>1, MineOne
<1>4. Mine(<< >>, S, at)
  BY RangeOfNothing DEF Mine
<1>5. Good(Then(vs, ty, <<Instr(op, slots, ok, at)>>), S, at) /\ Good(Then(vs, ty, << >>), S, at)
  BY <1>3, <1>4, GoodThen
<1>6. Good([Then(vs, ty, << >>) EXCEPT !.const = TRUE], S, at)
  BY <1>5 DEF Good, IsValue
<1> QED
  BY <1>5, <1>6 DEF Op, slots

LEMMA GoodOne ==
  ASSUME NEW S, NEW at, NEW v, Good(v, S, at), NEW op, op \notin {"br", "ret"}, NEW ty, NEW ok
  PROVE  Good(Op(op, <<v>>, ty, ok, at), S, at)
  BY OneEntryStack, GoodOp

LEMMA GoodPair ==
  ASSUME NEW S, NEW at, NEW u, NEW v, Good(u, S, at), Good(v, S, at)
  PROVE  IsSeq(<<u, v>>) /\ \A i \in 1 .. Len(<<u, v>>) : Good(<<u, v>>[i], S, at)
<1>1. Len(<<u, v>>) = 2 /\ <<u, v>>[1] = u /\ <<u, v>>[2] = v
  OBVIOUS
<1> QED
  BY <1>1, RangeOfTwo

LEMMA GoodFill ==
  ASSUME NEW S, NEW at, NEW vs, IsSeq(vs), \A i \in 1 .. Len(vs) : Good(vs[i], S, at),
         NEW slots \in SUBSET S, NEW array
  PROVE  Mine(Fill(vs, slots, array, at), S, at)
<1> DEFINE gep == Instr("gep", slots, array # NoArray, at)
           store(i) == [Store(vs[i], {}, array.elem, at) EXCEPT !.fits = @ /\ i <= array.size]
           cs == [i \in DOMAIN vs |-> <<gep>> \o vs[i].code \o <<store(i)>>]
<1>1. DOMAIN vs = 1 .. Len(vs)
  BY SeqBasics
<1>2. ASSUME NEW i \in DOMAIN vs PROVE Mine(<<gep>> \o vs[i].code \o <<store(i)>>, S, at)
  <2>1. gep.at = at /\ gep.slots \subseteq S /\ ~Terminator(gep)
    BY DEF Instr, Terminator
  <2>2. store(i).at = at /\ store(i).slots \subseteq S /\ ~Terminator(store(i))
    BY <1>1 DEF Store, Good, Terminator
  <2> HIDE DEF gep, store
  <2>3. Mine(<<gep>>, S, at) /\ Mine(<<store(i)>>, S, at)
    BY <2>1, <2>2, MineOne
  <2>4. Mine(vs[i].code, S, at)
    BY <1>1 DEF Good
  <2>5. Mine(<<gep>> \o vs[i].code, S, at)
    BY <2>3, <2>4, MineJoined
  <2> QED
    BY <2>3, <2>5, MineJoined
<1> HIDE DEF gep, store
<1>3. IsSeq(cs) /\ Len(cs) = Len(vs)
  <2>1. cs = [i \in DOMAIN vs |-> cs[i]]
    OBVIOUS
  <2> HIDE DEF cs
  <2> QED
    BY <2>1, Mapped
<1>4. \A i \in 1 .. Len(cs) : Mine(cs[i], S, at)
  BY <1>1, <1>2, <1>3
<1> HIDE DEF cs
<1>5. Mine(FlattenSeq(cs), S, at)
  BY <1>3, <1>4, MineFlat
<1> QED
  BY <1>5 DEF Fill, cs, gep, store

(* genExpr looks at the results for smaller expressions only.              *)
LEMMA LooksBelow ==
  ASSUME NEW env, NEW e \in Exprs, NEW t, NEW u, \A d \in Simpler(e) : t[d] = u[d]
  PROVE  genExpr(env, t, e) = genExpr(env, u, e)
<1>1. CASE e.k = "unary"
  <2>1. t[e.r] = u[e.r]
    BY <1>1, Operands
  <2> QED
    BY <1>1, <2>1 DEF genExpr
<1>2. CASE e.k = "bin" /\ e.op # "="
  <2>1. t[e.l] = u[e.l] /\ t[e.r] = u[e.r]
    BY <1>2, Operands
  <2> QED
    BY <1>2, <2>1 DEF genExpr
<1>3. CASE e.k = "bin" /\ e.op = "=" /\ e.l.k # "index"
  <2>1. t[e.l] = u[e.l] /\ t[e.r] = u[e.r]
    BY <1>3, Operands
  <2> QED
    BY <1>3, <2>1 DEF genExpr
<1>4. CASE e.k = "bin" /\ e.op = "=" /\ e.l.k = "index"
  <2>1. t[e.l.i] = u[e.l.i] /\ t[e.r] = u[e.r]
    BY <1>4, Operands
  <2> QED
    BY <1>4, <2>1 DEF genExpr
<1>5. CASE e.k = "call"
  <2>1. [i \in DOMAIN e.args |-> t[e.args[i]]] = [i \in DOMAIN e.args |-> u[e.args[i]]]
    BY <1>5, Operands
  <2> QED
    BY <1>5, <2>1 DEF genExpr
<1>6. CASE e.k = "arraylit"
  <2>1. [i \in DOMAIN e.elems |-> t[e.elems[i]]] = [i \in DOMAIN e.elems |-> u[e.elems[i]]]
    BY <1>6, Operands
  <2> QED
    BY <1>6, <2>1 DEF genExpr
<1>7. CASE e.k = "index"
  <2>1. t[e.a] = u[e.a] /\ t[e.i] = u[e.i]
    BY <1>7, Operands
  <2> QED
    BY <1>7, <2>1 DEF genExpr
<1>8. CASE e.k \notin {"unary", "bin", "call", "arraylit", "index"}
  BY <1>8 DEF genExpr
<1> QED
  BY <1>1, <1>2, <1>3, <1>4, <1>5, <1>6, <1>7, <1>8

(* The recursion in Gen, over the expressions.                             *)
LowDom(p) == Exprs
LowRank(p, e) == Depth[e]
Low == INSTANCE Recursion WITH Dom <- LowDom, Rank <- LowRank, Body <- genExpr, Fit <- Anything

LEMMA Generated ==
  ASSUME NEW env, NEW e \in Exprs
  PROVE  Gen(env)[e] = genExpr(env, Gen(env), e)
<1>1. ASSUME NEW c \in Exprs, NEW t, NEW u, Low!Agree(env, t, u, Depth[c])
      PROVE  genExpr(env, t, c) = genExpr(env, u, c)
  <2>1. \A d \in Simpler(c) : t[d] = u[d]
    BY <1>1 DEF Low!Agree, LowDom, LowRank, Simpler
  <2> QED
    BY <2>1, LooksBelow
<1>2. Low!LooksDown(env)
  BY <1>1, ExprsAssumption DEF Low!LooksDown, LowDom, LowRank, Anything
<1> DEFINE f == Low!Defined(env)
<1>3. f = [c \in LowDom(env) |-> genExpr(env, f, c)]
  BY <1>2, Low!Unfolding
<1>4. f = Gen(env)
  BY DEF Low!Defined, LowDom, Gen
<1> HIDE DEF f
<1>5. f[e] = genExpr(env, f, e)
  BY <1>3 DEF LowDom
<1> QED
  BY <1>4, <1>5

(* the slots an environment knows *)
SlotsOf(env) == {env.vals[x] : x \in DOMAIN env.vals}

LEMMA GoodExpr ==
  ASSUME NEW env, NEW e \in Exprs, NEW G,
         \A d \in Simpler(e) : Good(G[d], SlotsOf(env), env.at)
  PROVE  Good(genExpr(env, G, e), SlotsOf(env), env.at)
<1> DEFINE S == SlotsOf(env)
           at == env.at
           Index32(v) == IF v.ty = I32 THEN v ELSE Op("trunc", <<v>>, I32, v.ty = I64, at)
           IsArray(x) == env.types[x].k = "array"
<1>1. \A why : Good(Stop(why), S, at)
  BY GoodConst
<1>2. \A v : Good(v, S, at) => Good(Index32(v), S, at)
  BY GoodOne
<1>3. \A x \in DOMAIN env.vals : env.vals[x] \in S
  BY DEF SlotsOf
<1> HIDE DEF S
<1>4. CASE e.k \in {"int", "bool"}
  BY <1>4, GoodConst DEF genExpr, S
<1>5. CASE e.k = "var"
  <2>1. CASE e.x \in DOMAIN env.vals
    <3>1. Mine(<<Instr("load", {env.vals[e.x]}, TRUE, at)>>, S, at)
      <4>1. /\ Instr("load", {env.vals[e.x]}, TRUE, at).at = at
            /\ Instr("load", {env.vals[e.x]}, TRUE, at).slots \subseteq S
            /\ ~Terminator(Instr("load", {env.vals[e.x]}, TRUE, at))
        BY <1>3, <2>1 DEF Instr, Terminator
      <4> QED
        BY <4>1, MineOne
    <3>2. Good(Value(env.types[e.x], <<Instr("load", {env.vals[e.x]}, TRUE, at)>>), S, at)
      BY <3>1, GoodValue
    <3>3. Good([Value(OpaquePtr, << >>) EXCEPT !.base = {env.vals[e.x]}], S, at)
      <4>1. Mine(<< >>, S, at)
        BY RangeOfNothing DEF Mine
      <4> QED
        BY <1>3, <2>1, <4>1 DEF Good, IsValue, Value
    <3> QED
      BY <1>5, <2>1, <3>2, <3>3 DEF genExpr, S
  <2>2. CASE e.x \notin DOMAIN env.vals
    BY <1>1, <1>5, <2>2 DEF genExpr, S
  <2> QED
    BY <2>1, <2>2
<1>6. CASE e.k = "unary"
  <2>1. Good(G[e.r], S, at)
    BY <1>6, Operands DEF S
  <2>2. Good(Op(e.op, <<G[e.r]>>, G[e.r].ty, G[e.r].ty \in Integer, at), S, at)
    BY <1>6, <2>1, GoodOne, OperatorsAssumption DEF UnaryOps
  <2> QED
    BY <1>6, <2>2 DEF genExpr, S
<1>7. CASE e.k = "bin" /\ e.op = "=" /\ e.l.k = "var"
  <2>1. CASE e.l.x \in DOMAIN env.vals
    <3> DEFINE rv == G[e.r]
               store == Store(rv, {env.vals[e.l.x]}, env.types[e.l.x], at)
    <3>1. Good(rv, S, at)
      BY <1>7, Operands DEF S
    <3>2. store.at = at /\ store.slots \subseteq S /\ ~Terminator(store)
      BY <1>3, <2>1, <3>1 DEF Store, Good, Terminator
    <3> HIDE DEF store, rv
    <3>3. Mine(<<store>>, S, at)
      BY <3>2, MineOne
    <3>4. Mine(rv.code \o <<store>>, S, at)
      BY <3>1, <3>3, MineJoined DEF Good
    <3>5. Good([rv EXCEPT !.code = @ \o <<store>>], S, at)
      BY <3>1, <3>4 DEF Good, IsValue
    <3> QED
      BY <1>7, <2>1, <3>5 DEF genExpr, S, store, rv
  <2>2. CASE e.l.x \notin DOMAIN env.vals
    BY <1>1, <1>7, <2>2 DEF genExpr, S
  <2> QED
    BY <2>1, <2>2
<1>8. CASE e.k = "bin" /\ e.op = "=" /\ e.l.k = "index"
  <2>1. CASE e.l.a.k = "var" /\ e.l.a.x \in DOMAIN env.vals
    <3> DEFINE s == env.vals[e.l.a.x]
               i == Index32(G[e.l.i])
               array == IsArray(e.l.a.x)
               elem == IF array THEN env.types[e.l.a.x].elem ELSE I64
               address == IF array THEN <<Instr("gep", {s}, TRUE, at)>>
                          ELSE <<Instr("load", {s}, TRUE, at), Instr("gep", {}, TRUE, at)>>
               rv == G[e.r]
               store == Store(rv, {}, elem, at)
               to == Then(<<i>>, I32, address)
               run == Then(<<to, rv>>, rv.ty, <<store>>)
    <3>1. Good(rv, S, at) /\ Good(i, S, at)
      <4>1. Good(rv, S, at) /\ Good(G[e.l.i], S, at)
        BY <1>8, Operands DEF S
      <4> HIDE DEF Index32
      <4> QED
        BY <1>2, <4>1
    <3>2. Mine(address, S, at)
      <4>1. s \in S
        BY <1>3, <2>1
      <4>2. /\ Instr("gep", {s}, TRUE, at).at = at /\ Instr("gep", {s}, TRUE, at).slots \subseteq S
            /\ Instr("load", {s}, TRUE, at).at = at /\ Instr("load", {s}, TRUE, at).slots \subseteq S
            /\ Instr("gep", {}, TRUE, at).at = at /\ Instr("gep", {}, TRUE, at).slots \subseteq S
            /\ ~Terminator(Instr("gep", {s}, TRUE, at)) /\ ~Terminator(Instr("load", {s}, TRUE, at))
            /\ ~Terminator(Instr("gep", {}, TRUE, at))
        BY <4>1 DEF Instr, Terminator
      <4>3. Mine(<<Instr("gep", {s}, TRUE, at)>>, S, at)
        BY <4>2, MineOne
      <4>4. Mine(<<Instr("load", {s}, TRUE, at), Instr("gep", {}, TRUE, at)>>, S, at)
        BY <4>2, MineTwo
      <4> QED
        BY <4>3, <4>4
    <3>3. store.at = at /\ store.slots \subseteq S /\ ~Terminator(store)
      BY <3>1 DEF Store, Good, Terminator
    <3> HIDE DEF i, rv, address, store, array, elem
    <3>4. Good(to, S, at)
      BY <3>1, <3>2, OneEntryStack, GoodThen
    <3> HIDE DEF to
    <3>5. Good(run, S, at)
      <4>1. Mine(<<store>>, S, at)
        BY <3>3, MineOne
      <4> QED
        BY <3>1, <3>4, <4>1, GoodPair, GoodThen
    <3> HIDE DEF run
    <3>6. Good([run EXCEPT !.const = rv.const, !.base = rv.base], S, at)
      BY <3>1, <3>5 DEF Good, IsValue
    <3>7. genExpr(env, G, e) = [run EXCEPT !.const = rv.const, !.base = rv.base]
      BY <1>8, <2>1 DEF genExpr, run, to, i, rv, address, store, array, elem
    <3> QED
      BY <3>6, <3>7 DEF S
  <2>2. CASE e.l.a.k # "var" \/ e.l.a.x \notin DOMAIN env.vals
    BY <1>1, <1>8, <2>2 DEF genExpr, S
  <2> QED
    BY <2>1, <2>2
<1>9. CASE e.k = "bin" /\ e.op = "=" /\ e.l.k \notin {"var", "index"}
  BY <1>1, <1>9 DEF genExpr, S
<1>10. CASE e.k = "bin" /\ e.op # "="
  <2>1. Good(G[e.l], S, at) /\ Good(G[e.r], S, at)
    BY <1>10, Operands DEF S
  <2>2. e.op \notin {"br", "ret"}
    BY <1>10, OperatorsAssumption DEF BinaryOps
  <2>3. \A ty, ok : Good(Op(e.op, <<G[e.l], G[e.r]>>, ty, ok, at), S, at)
    BY <2>1, <2>2, GoodPair, GoodOp
  <2> QED
    BY <1>10, <2>3 DEF genExpr, S
<1>11. CASE e.k = "call"
  <2>1. CASE e.f \in DOMAIN env.funcs
    <3> DEFINE vs == [j \in DOMAIN e.args |-> G[e.args[j]]]
    <3>1. IsSeq(e.args) /\ \A j \in DOMAIN e.args : Good(G[e.args[j]], S, at)
      BY <1>11, Operands DEF S
    <3>2. DOMAIN vs = DOMAIN e.args /\ vs = [j \in DOMAIN e.args |-> vs[j]]
          /\ \A j \in DOMAIN vs : Good(vs[j], S, at)
      BY <3>1
    <3> HIDE DEF vs
    <3>3. IsSeq(vs) /\ Len(vs) = Len(e.args)
      BY <3>1, <3>2, Mapped
    <3>4. \A j \in 1 .. Len(vs) : Good(vs[j], S, at)
      BY <3>2, <3>3, SeqBasics
    <3>5. ASSUME NEW ok, NEW target
          PROVE  Mine(<<CallTo(e.f, target, vs, ok, at)>>, S, at)
      <4>1. CallTo(e.f, target, vs, ok, at).at = at /\ ~Terminator(CallTo(e.f, target, vs, ok, at))
        BY DEF CallTo, Terminator
      <4>2. CallTo(e.f, target, vs, ok, at).slots \subseteq S
        BY <3>2 DEF CallTo, Range, Good
      <4> QED
        BY <4>1, <4>2, MineOne
    <3>6. \A ret, ok, target : Good(Then(vs, ret, <<CallTo(e.f, target, vs, ok, at)>>), S, at)
      BY <3>3, <3>4, <3>5, GoodThen
    <3> QED
      BY <1>11, <2>1, <3>6 DEF genExpr, S, vs
  <2>2. CASE e.f \notin DOMAIN env.funcs
    BY <1>1, <1>11, <2>2 DEF genExpr, S
  <2> QED
    BY <2>1, <2>2
<1>12. CASE e.k = "arraylit"
  <2>1. CASE e.elems # << >>
    <3> DEFINE vs == [j \in DOMAIN e.elems |-> G[e.elems[j]]]
               bad == Then(vs, OpaquePtr, << >>)
               alloca == Instr("alloca", {}, vs[1].ty # Void, at)
               code == vs[1].code \o <<alloca>> \o Fill(vs, {}, Array(vs[1].ty, Len(vs)), at)
    <3>1. IsSeq(e.elems) /\ \A j \in DOMAIN e.elems : Good(G[e.elems[j]], S, at)
      BY <1>12, Operands DEF S
    <3>2. DOMAIN vs = DOMAIN e.elems /\ vs = [j \in DOMAIN e.elems |-> vs[j]]
          /\ \A j \in DOMAIN vs : Good(vs[j], S, at)
      BY <3>1
    <3> HIDE DEF vs
    <3>3. IsSeq(vs) /\ Len(vs) = Len(e.elems)
      BY <3>1, <3>2, Mapped
    <3>4. \A j \in 1 .. Len(vs) : Good(vs[j], S, at)
      BY <3>2, <3>3, SeqBasics
    <3>5. 1 \in 1 .. Len(vs)
      BY <2>1, <3>1, <3>3, SeqBasics
    <3>6. Good(bad, S, at)
      BY <3>3, <3>4, RangeOfNothing, GoodThen DEF Mine
    <3>7. alloca.at = at /\ alloca.slots \subseteq S /\ ~Terminator(alloca)
      BY DEF Instr, Terminator
    <3> HIDE DEF bad, alloca
    <3>8. Mine(<<alloca>>, S, at) /\ Mine(vs[1].code, S, at)
      BY <3>4, <3>5, <3>7, MineOne DEF Good
    <3>9. Mine(Fill(vs, {}, Array(vs[1].ty, Len(vs)), at), S, at)
      BY <3>3, <3>4, GoodFill
    <3>10. Mine(code, S, at)
      <4>1. Mine(vs[1].code \o <<alloca>>, S, at)
        BY <3>8, MineJoined
      <4> QED
        BY <3>9, <4>1, MineJoined
    <3> HIDE DEF code
    <3>11. Good(Value(OpaquePtr, code), S, at)
      BY <3>10, GoodValue
    <3> QED
      BY <1>12, <2>1, <3>6, <3>11 DEF genExpr, S, vs, bad, code, alloca
  <2>2. CASE e.elems = << >>
    BY <1>1, <1>12, <2>2 DEF genExpr, S
  <2> QED
    BY <2>1, <2>2
<1>13. CASE e.k = "index"
  <2> DEFINE a == G[e.a]
             i == G[e.i]
             i32 == IF i.ty = I64 THEN Index32(i) ELSE i
             gep == Instr("gep", a.base \cup i.base, i.ty \in Integer, at)
             load == Instr("load", {}, TRUE, at)
  <2>1. Good(a, S, at) /\ Good(i, S, at)
    BY <1>13, Operands DEF S
  <2>2. Good(i32, S, at)
    <3> HIDE DEF Index32
    <3> QED
      BY <1>2, <2>1
  <2>3. /\ gep.at = at /\ gep.slots \subseteq S /\ ~Terminator(gep)
        /\ load.at = at /\ load.slots \subseteq S /\ ~Terminator(load)
    BY <2>1 DEF Instr, Good, Terminator
  <2> HIDE DEF a, i32, gep, load
  <2>4. Mine(<<gep, load>>, S, at)
    BY <2>3, MineTwo
  <2>5. \A ty : Good(Then(<<a, i32>>, ty, <<gep, load>>), S, at)
    BY <2>1, <2>2, <2>4, GoodPair, GoodThen
  <2> QED
    BY <1>1, <1>13, <2>5 DEF genExpr, S, a, i32, gep, load
<1>14. CASE e.k \notin {"int", "bool", "var", "unary", "bin", "call", "arraylit", "index"}
  BY <1>14, ExprsAssumption
<1> QED
  BY <1>4, <1>5, <1>6, <1>7, <1>8, <1>9, <1>10, <1>11, <1>12, <1>13, <1>14 DEF S

(* Whatever the expression, genExpr refers to no slot but those the name   *)
(* map knows, and marks its code with the statement.                       *)
LEMMA GoodGen ==
  ASSUME NEW env, NEW e \in Exprs
  PROVE  Good(Gen(env)[e], SlotsOf(env), env.at)
<1> DEFINE T == {c \in Exprs : Good(Gen(env)[c], SlotsOf(env), env.at)}
<1>1. ASSUME NEW c \in Exprs, Simpler(c) \subseteq T
      PROVE  c \in T
  <2>1. Good(genExpr(env, Gen(env), c), SlotsOf(env), env.at)
    BY <1>1, GoodExpr
  <2> QED
    BY <2>1, Generated
<1> HIDE DEF T
<1>2. Exprs \subseteq T
  BY <1>1, OnExpressions
<1> QED
  BY <1>2 DEF T

-----------------------------------------------------------------------------
(* Loops: the innermost one.                                               *)

(* At the innermost loop the depth is one less than inside.                *)
LEMMA Innermost ==
  ASSUME NEW body, NEW p \in Nat \ {0}, LoopsNest(body, p), LoopDepth(body, p) > 0
  PROVE  /\ InnermostLoop(body, p) \in OpenLoops(body, p)
         /\ LoopDepth(body, InnermostLoop(body, p)) = LoopDepth(body, p) - 1
<1> DEFINE O == OpenLoops(body, p)
           D(q) == LoopDepth(body, q)
<1>1. InnermostLoop(body, p) = Max(O)
  BY DEF InnermostLoop, OpenLoops
<1>2. D(p) \in Int
  BY DepthType
<1>3. D(p) - 1 \in 0 .. D(p) - 1
  BY <1>2
<1>4. PICK w \in O : D(w) = D(p) - 1
  BY <1>3 DEF LoopsNest
<1>5. O \in SUBSET (0 .. p) /\ p \in Nat
  BY DEF OpenLoops
<1>6. \A v \in O : D(v) \in 0 .. D(p) - 1
  BY DEF LoopsNest
<1>7. \A v \in O : w < v => D(w) < D(v)
  BY DEF LoopsNest
<1> DEFINE m == Max(O)
<1> HIDE DEF O, D
<1>8. m \in O /\ w <= m
  BY <1>4, <1>5, GreatestNumber
<1> HIDE DEF m
<1>9. m \in Int /\ w \in Int
  BY <1>4, <1>5, <1>8
<1>10. CASE w = m
  BY <1>1, <1>4, <1>8, <1>10 DEF m, O, D
<1>11. CASE w # m
  <2>1. D(w) < D(m) /\ D(m) \in 0 .. D(p) - 1
    BY <1>6, <1>7, <1>8, <1>9, <1>11
  <2> QED
    BY <1>2, <1>4, <2>1
<1> QED
  BY <1>10, <1>11

-----------------------------------------------------------------------------
(* What a step adds to the code of a function.                             *)

IsBlock(b) == DOMAIN b = {"name", "at", "code"} /\ IsSeq(b.code)
IsBlocks(bs) == IsSeq(bs) /\ \A b \in 1 .. Len(bs) : IsBlock(bs[b])
CodeOf(bs) == UNION {Range(bs[b].code) : b \in 1 .. Len(bs)}

(* cs is bs with more blocks, and the instructions new somewhere *)
Grown(bs, cs, new) ==
  /\ IsBlocks(cs) /\ Len(bs) <= Len(cs)
  /\ \A b \in 1 .. Len(bs) : cs[b].name = bs[b].name /\ cs[b].at = bs[b].at
  /\ CodeOf(cs) \subseteq CodeOf(bs) \cup new

LEMMA GrownPut ==
  ASSUME NEW bs, IsBlocks(bs), NEW b \in 1 .. Len(bs), NEW code, IsSeq(code)
  PROVE  Grown(bs, Put(bs, b, code), Range(code)) /\ Len(Put(bs, b, code)) = Len(bs)
<1> DEFINE v == [bs[b] EXCEPT !.code = bs[b].code \o code]
           cs == Put(bs, b, code)
<1>1. cs = [bs EXCEPT ![b] = v]
  BY DEF Put
<1>2. IsSeq(bs[b].code) /\ IsBlock(bs[b]) /\ IsSeq(bs) /\ Len(bs) \in Nat
  BY SeqBasics DEF IsBlocks, IsBlock
<1>3. IsSeq(bs[b].code \o code) /\ Range(bs[b].code \o code) = Range(bs[b].code) \cup Range(code)
  BY <1>2, RangeOfConcatenation
<1>4. /\ IsBlock(v) /\ v.name = bs[b].name /\ v.at = bs[b].at
      /\ Range(v.code) = Range(bs[b].code) \cup Range(code)
  BY <1>2, <1>3 DEF IsBlock
<1> HIDE DEF v, cs
<1>5. /\ IsSeq(cs) /\ Len(cs) = Len(bs)
      /\ \A c \in 1 .. Len(bs) : cs[c] = IF c = b THEN v ELSE bs[c]
  <2>1. /\ IsSeq([bs EXCEPT ![b] = v]) /\ Len([bs EXCEPT ![b] = v]) = Len(bs)
        /\ \A c \in 1 .. Len(bs) : [bs EXCEPT ![b] = v][c] = IF c = b THEN v ELSE bs[c]
    BY <1>2, StackSet
  <2> QED
    BY <1>1, <2>1
<1>6. IsBlocks(cs)
  BY <1>4, <1>5 DEF IsBlocks
<1>7. \A c \in 1 .. Len(cs) : Range(cs[c].code) \subseteq Range(bs[c].code) \cup Range(code)
  BY <1>4, <1>5
<1>8. CodeOf(cs) \subseteq CodeOf(bs) \cup Range(code)
  BY <1>5, <1>7 DEF CodeOf
<1>9. Len(bs) <= Len(cs)
  BY <1>2, <1>5
<1>10. \A c \in 1 .. Len(bs) : cs[c].name = bs[c].name /\ cs[c].at = bs[c].at
  BY <1>4, <1>5
<1> QED
  BY <1>5, <1>6, <1>8, <1>9, <1>10 DEF Grown, cs

LEMMA GrownJoin ==
  ASSUME NEW bs, IsBlocks(bs), NEW more, IsBlocks(more)
  PROVE  /\ Grown(bs, bs \o more, CodeOf(more)) /\ Len(bs \o more) = Len(bs) + Len(more)
         /\ \A j \in 1 .. Len(more) : (bs \o more)[Len(bs) + j] = more[j]
<1> DEFINE cs == bs \o more
           R == Range(bs) \cup Range(more)
<1>1. IsSeq(bs) /\ IsSeq(more) /\ Len(bs) \in Nat /\ Len(more) \in Nat
  BY SeqBasics DEF IsBlocks
<1>2. bs \in Seq(R) /\ more \in Seq(R)
  BY <1>1, SeqMonotonic DEF IsSeq
<1> HIDE DEF R
<1>3. /\ Len(cs) = Len(bs) + Len(more)
      /\ \A i \in 1 .. Len(bs) + Len(more) : cs[i] = IF i <= Len(bs) THEN bs[i] ELSE more[i - Len(bs)]
  BY <1>2, ConcatProperties
<1>4. IsSeq(cs)
  BY <1>1, Concatenation
<1> HIDE DEF cs
<1>5. \A i \in 1 .. Len(bs) : i \in 1 .. Len(bs) + Len(more) /\ i <= Len(bs) /\ cs[i] = bs[i]
  BY <1>1, <1>3
<1>6. \A j \in 1 .. Len(more) : cs[Len(bs) + j] = more[j]
  <2> SUFFICES ASSUME NEW j \in 1 .. Len(more) PROVE cs[Len(bs) + j] = more[j]
    OBVIOUS
  <2>1. Len(bs) + j \in 1 .. Len(bs) + Len(more) /\ ~(Len(bs) + j <= Len(bs)) /\ (Len(bs) + j) - Len(bs) = j
    BY <1>1
  <2> QED
    BY <1>3, <2>1
<1>7. ASSUME NEW i \in 1 .. Len(cs)
      PROVE  \/ i \in 1 .. Len(bs) /\ cs[i] = bs[i]
             \/ \E j \in 1 .. Len(more) : cs[i] = more[j]
  <2>1. CASE i <= Len(bs)
    BY <1>1, <1>3, <1>5, <2>1
  <2>2. CASE ~(i <= Len(bs))
    <3>1. i - Len(bs) \in 1 .. Len(more) /\ cs[i] = more[i - Len(bs)]
      BY <1>1, <1>3, <2>2
    <3> QED
      BY <3>1
  <2> QED
    BY <2>1, <2>2
<1>8. IsBlocks(cs)
  BY <1>4, <1>7 DEF IsBlocks
<1>9. CodeOf(cs) \subseteq CodeOf(bs) \cup CodeOf(more)
  BY <1>7 DEF CodeOf
<1>10. Len(bs) <= Len(cs)
  BY <1>1, <1>3
<1> QED
  BY <1>3, <1>5, <1>6, <1>8, <1>9, <1>10 DEF Grown, cs

LEMMA GrownTwice ==
  ASSUME NEW as, NEW bs, NEW cs, NEW m, NEW n, IsSeq(as), Grown(as, bs, m), Grown(bs, cs, n)
  PROVE  Grown(as, cs, m \cup n)
<1>1. Len(as) <= Len(bs) /\ Len(bs) <= Len(cs) /\ IsBlocks(bs) /\ IsBlocks(cs)
  BY DEF Grown
<1>2. Len(as) \in Nat /\ Len(bs) \in Nat /\ Len(cs) \in Nat
  BY <1>1, SeqBasics DEF IsBlocks
<1> DEFINE k == Len(as)   l == Len(bs)   o == Len(cs)
<1>3. Len(as) <= Len(cs) /\ \A b \in 1 .. Len(as) : b \in 1 .. Len(bs)
  <2>1. k \in Nat /\ l \in Nat /\ o \in Nat /\ k <= l /\ l <= o
    BY <1>1, <1>2
  <2> HIDE DEF k, l, o
  <2>2. k <= o /\ \A b \in 1 .. k : b \in 1 .. l
    BY <2>1
  <2> QED
    BY <2>2 DEF k, l, o
<1>4. ASSUME NEW b \in 1 .. Len(as)
      PROVE  cs[b].name = as[b].name /\ cs[b].at = as[b].at
  BY <1>3 DEF Grown
<1>5. CodeOf(cs) \subseteq CodeOf(as) \cup (m \cup n)
  BY DEF Grown
<1> QED
  BY <1>1, <1>3, <1>4, <1>5 DEF Grown

LEMMA NewBlock ==
  ASSUME NEW name, NEW at
  PROVE  /\ IsBlock(Block(name, at)) /\ Block(name, at).name = name /\ Block(name, at).at = at
         /\ Range(Block(name, at).code) = {}
  BY RangeOfNothing DEF Block, IsBlock

LEMMA GrownAppend ==
  ASSUME NEW bs, IsBlocks(bs), NEW x, IsBlock(x)
  PROVE  Grown(bs, Append(bs, x), Range(x.code)) /\ Len(Append(bs, x)) = Len(bs) + 1
<1>1. IsBlocks(<<x>>) /\ CodeOf(<<x>>) = Range(x.code) /\ Len(<<x>>) = 1
  <2>1. IsSeq(<<x>>) /\ Len(<<x>>) = 1 /\ <<x>>[1] = x
    BY OneEntryStack
  <2>2. \A b : b \in 1 .. 1 <=> b = 1
    OBVIOUS
  <2> QED
    BY <2>1, <2>2 DEF IsBlocks, CodeOf
<1>2. Grown(bs, bs \o <<x>>, CodeOf(<<x>>)) /\ Len(bs \o <<x>>) = Len(bs) + Len(<<x>>)
  BY <1>1, GrownJoin
<1>3. Append(bs, x) = bs \o <<x>>
  <2>1. bs \in Seq(Range(bs) \cup {x}) /\ x \in Range(bs) \cup {x}
    BY SeqMonotonic DEF IsBlocks, IsSeq
  <2> QED
    BY <2>1, AppendIsConcat
<1>4. Len(bs \o <<x>>) = Len(bs) + 1
  BY <1>1, <1>2
<1> QED
  BY <1>1, <1>2, <1>3, <1>4

LEMMA OldBlocks ==
  ASSUME NEW bs, IsBlocks(bs)
  PROVE  Grown(bs, bs, {})
<1>1. Len(bs) \in Nat
  BY SeqBasics DEF IsBlocks
<1>2. Len(bs) <= Len(bs)
  BY <1>1
<1> QED
  BY <1>2 DEF Grown

(* all slots the names of the function at hand have, and the statement's   *)
Slots == SlotsOf([vals |-> namedValues]) \cup {Here}
Plain(code) == Mine(code, Slots, Here)

(* the same, and jumps *)
FreshSet(new) == \A i \in new : i.at = Here /\ i.slots \subseteq Slots
Fresh(code) == IsSeq(code) /\ FreshSet(Range(code))

LEMMA PlainIsFresh ==
  ASSUME NEW code, Plain(code)
  PROVE  Fresh(code)
  BY DEF Plain, Mine, Fresh, FreshSet

LEMMA GoodLower ==
  ASSUME NEW e \in Exprs
  PROVE  Good(Lower(e), Slots, Here)
<1> DEFINE env == [vals |-> namedValues, types |-> namedTypes, funcs |-> Funcs, at |-> Here]
<1>1. Good(Gen(env)[e], SlotsOf(env), env.at)
  BY GoodGen
<1>2. env.at = Here /\ SlotsOf(env) \subseteq Slots /\ Lower(e) = Gen(env)[e]
  BY DEF SlotsOf, Slots, Lower
<1> HIDE DEF env
<1> QED
  BY <1>1, <1>2 DEF Good, Mine

LEMMA FreshOne ==
  ASSUME NEW i, i.at = Here, i.slots \subseteq Slots
  PROVE  Fresh(<<i>>)
  BY RangeOfOne DEF Fresh, FreshSet

LEMMA FreshJoined ==
  ASSUME NEW c, NEW d, Fresh(c), Fresh(d)
  PROVE  Fresh(c \o d)
  BY RangeOfConcatenation DEF Fresh, FreshSet

LEMMA PlainJoined ==
  ASSUME NEW c, NEW d, Plain(c), Plain(d)
  PROVE  Plain(c \o d)
  BY MineJoined DEF Plain

LEMMA FreshBranch == \A to : Fresh(<<Br(to, {}, Here)>>)
<1> SUFFICES ASSUME NEW to PROVE Fresh(<<Br(to, {}, Here)>>)
  OBVIOUS
<1>1. Br(to, {}, Here).at = Here /\ Br(to, {}, Here).slots = {}
  BY DEF Br
<1> HIDE DEF Here
<1> QED
  BY <1>1, FreshOne

LEMMA FreshTest ==
  ASSUME NEW v, Good(v, Slots, Here), NEW to
  PROVE  Fresh(Test(v, to))
<1>1. Plain(Op("!=", <<v>>, I1, v.ty \in Integer, Here).code)
  BY GoodOne DEF Good, Plain
<1> QED
  BY <1>1, PlainIsFresh, FreshBranch, FreshJoined DEF Test

LEMMA PlainAlloca == \A ty : Plain(<<Alloca(Here, ty, Here)>>)
<1> SUFFICES ASSUME NEW ty PROVE Plain(<<Alloca(Here, ty, Here)>>)
  OBVIOUS
<1>1. /\ Alloca(Here, ty, Here).at = Here /\ Alloca(Here, ty, Here).slots \subseteq Slots
      /\ ~Terminator(Alloca(Here, ty, Here))
  BY DEF Alloca, Instr, Slots, Terminator
<1> QED
  BY <1>1, MineOne DEF Plain

LEMMA PlainScalar ==
  ASSUME NEW let, let.e \in Exprs, NEW ty
  PROVE  Plain(InitScalar(let, Here, ty).code)
<1> DEFINE v == Lower(let.e)
           w == CASE v.ty = I1 /\ ty = I64 -> Op("zext", <<v>>, ty, TRUE, Here)
                  [] v.ty = I64 /\ ty = I1 -> Op("!=", <<v>>, ty, TRUE, Here)
                  [] OTHER -> v
           store == Store(w, {Here}, ty, Here)
           init == [w EXCEPT !.code = <<Alloca(Here, ty, Here)>> \o @ \o <<store>>]
<1>1. Good(v, Slots, Here)
  BY GoodLower
<1>2. Good(w, Slots, Here)
  <2> HIDE DEF v
  <2>1. \A op : op \notin {"br", "ret"} => Good(Op(op, <<v>>, ty, TRUE, Here), Slots, Here)
    BY <1>1, GoodOne
  <2> QED
    BY <1>1, <2>1
<1> HIDE DEF w
<1>3. store.at = Here /\ store.slots \subseteq Slots /\ ~Terminator(store)
  BY <1>2 DEF Store, Good, Slots, Terminator
<1> HIDE DEF store
<1>4. Plain(<<Alloca(Here, ty, Here)>> \o w.code \o <<store>>)
  <2>1. Plain(<<Alloca(Here, ty, Here)>>) /\ Plain(w.code) /\ Plain(<<store>>)
    BY <1>2, <1>3, PlainAlloca, MineOne DEF Good, Plain
  <2>2. Plain(<<Alloca(Here, ty, Here)>> \o w.code)
    BY <2>1, PlainJoined
  <2> QED
    BY <2>1, <2>2, PlainJoined
<1>5. init.code = <<Alloca(Here, ty, Here)>> \o w.code \o <<store>>
  BY <1>2 DEF Good, IsValue
<1>6. InitScalar(let, Here, ty) = init
  BY DEF InitScalar, w, v, store
<1> HIDE DEF init
<1> QED
  BY <1>4, <1>5, <1>6

LEMMA PlainArray ==
  ASSUME NEW let, let.e \in Exprs, let.e.k = "arraylit", NEW ty
  PROVE  Plain(InitArray(let, Here, ty).code)
<1> DEFINE es == let.e.elems
           vs == [i \in DOMAIN es |-> Lower(es[i])]
           probe == IF vs = << >> THEN << >> ELSE vs[1].code
           array == IF ty.k = "array" THEN ty ELSE NoArray
           fill == Fill(vs, {Here}, array, Here)
           first == IF let.ann = NoType THEN probe ELSE << >>
           code == first \o <<Alloca(Here, ty, Here)>> \o probe \o fill
           init == [Then(vs, Void, << >>) EXCEPT !.code = code]
<1>1. IsSeq(es) /\ \A i \in DOMAIN es : Good(Lower(es[i]), Slots, Here)
  <2>1. IsSeq(es) /\ \A i \in DOMAIN es : es[i] \in Exprs
    BY Operands DEF Simpler
  <2> QED
    BY <2>1, GoodLower
<1>2. vs = [i \in DOMAIN es |-> vs[i]] /\ DOMAIN vs = DOMAIN es
      /\ \A i \in DOMAIN vs : Good(vs[i], Slots, Here)
  BY <1>1
<1>3. InitArray(let, Here, ty) = init
  BY DEF InitArray
<1> HIDE DEF vs
<1>4. IsSeq(vs) /\ \A i \in 1 .. Len(vs) : Good(vs[i], Slots, Here)
  BY <1>1, <1>2, Mapped, SeqBasics
<1>5. Mine(<< >>, Slots, Here)
  BY RangeOfNothing DEF Mine
<1>6. Plain(probe)
  <2>1. vs # << >> => 1 \in 1 .. Len(vs)
    BY <1>4, SeqBasics
  <2> QED
    BY <1>4, <1>5, <2>1 DEF Good, Plain
<1>7. Plain(fill)
  <2>1. {Here} \in SUBSET Slots
    BY DEF Slots
  <2> QED
    BY <1>4, <2>1, GoodFill DEF Plain
<1>8. Good(Then(vs, Void, << >>), Slots, Here)
  BY <1>4, <1>5, GoodThen
<1> HIDE DEF probe, fill
<1>9. Plain(first)
  BY <1>5, <1>6 DEF Plain
<1> HIDE DEF first
<1>10. Plain(code)
  <2>1. Plain(first \o <<Alloca(Here, ty, Here)>>)
    BY <1>9, PlainAlloca, PlainJoined
  <2>2. Plain(first \o <<Alloca(Here, ty, Here)>> \o probe)
    BY <1>6, <2>1, PlainJoined
  <2> QED
    BY <1>7, <2>2, PlainJoined
<1> HIDE DEF code
<1>11. init.code = code
  BY <1>8 DEF Good, IsValue
<1> QED
  BY <1>3, <1>10, <1>11

(* a statement's expression is one that CodeGen can generate code for *)
LEMMA NodeExpr ==
  ASSUME GInv, status = "gen", pc <= Len(Fn.body), HasExpr(Node)
  PROVE  Node.e \in Exprs
<1>1. cur \in 1 .. Len(prog)
  BY TargetExists DEF GInv, TypeOK
<1>2. cur \in DOMAIN prog /\ IsSeq(Fn.body)
  BY <1>1, CurrentBody DEF GInv
<1>3. pc \in DOMAIN Fn.body
  BY <1>2, SeqBasics DEF GInv, TypeOK
<1> QED
  BY <1>2, <1>3, NodesAssumption DEF GInv, Fn, Node

-----------------------------------------------------------------------------
(* What each statement does to the blocks of the function it is in.        *)

(* ir'[f] for the function generated into, and the rest left alone *)
Writes(bs) ==
  /\ DOMAIN ir' = DOMAIN ir
  /\ \A f \in DOMAIN ir : ir'[f] = IF f = Target THEN bs ELSE ir[f]

IRBlocks == \A f \in DOMAIN ir : IsBlocks(ir[f])

(* a loop's two jump targets, among the blocks bs *)
Targets(bs, w, exit, next) ==
  /\ exit \in 1 .. Len(bs) /\ bs[exit].at = w /\ bs[exit].name = "while.end"
  /\ next \in 1 .. Len(bs) /\ bs[next].at = w /\ bs[next].name = "while.cond"

StepCode(bs, new) ==
  /\ Writes(bs)
  /\ Grown(Blocks, bs, new)
  /\ FreshSet(new)
  /\ Node.k = "break" => loopExitStack # << >> /\ \A i \in new : i.to = {Last(loopExitStack)}
  /\ Node.k = "continue" => loopContinueStack # << >> /\ \A i \in new : i.to = {Last(loopContinueStack)}
  /\ Node.k = "while" => \E exit, next :
       /\ Targets(bs, pc, exit, next)
       /\ loopExitStack' = Append(loopExitStack, exit)
       /\ loopContinueStack' = Append(loopContinueStack, next)
  /\ Node.k = "endwhile" => loopExitStack' = Front(loopExitStack) /\ loopContinueStack' = Front(loopContinueStack)
  /\ Node.k \notin {"while", "endwhile"} => loops' = loops

LEMMA FreshRange ==
  ASSUME NEW code, Fresh(code)
  PROVE  IsSeq(code) /\ FreshSet(Range(code))
  BY DEF Fresh

(* The blocks at hand when a statement is generated.                       *)
LEMMA AtBlocks ==
  ASSUME GInv, IRBlocks, status = "gen", pc <= Len(Fn.body)
  PROVE  /\ IsBlocks(Blocks) /\ IsSeq(Blocks) /\ Len(Blocks) \in Nat /\ ins \in 1 .. Len(Blocks)
         /\ Target \in DOMAIN ir /\ pc \in Nat \ {0}
         /\ \A bs : ir' = [ir EXCEPT ![Target] = bs] => Writes(bs)
<1>1. cur <= Len(prog) /\ ins \in 1 .. Len(Blocks) /\ IsSeq(Blocks) /\ Len(Blocks) \in Nat
  BY AtStatement
<1>2. Target \in DOMAIN ir /\ pc \in Nat \ {0}
  BY <1>1, TargetExists DEF GInv, TypeOK
<1>3. IsBlocks(Blocks)
  BY <1>2 DEF IRBlocks, Blocks
<1>4. \A bs : ir' = [ir EXCEPT ![Target] = bs] => Writes(bs)
  BY <1>2 DEF Writes
<1> QED
  BY <1>1, <1>2, <1>3, <1>4

LEMMA SimpleCode ==
  ASSUME GInv, IRBlocks, GenLet \/ GenExpr \/ GenReturn, status' # "fatal"
  PROVE  \E bs, new : StepCode(bs, new)
<1>1. status = "gen" /\ pc <= Len(Fn.body) /\ Node.k \in {"let", "expr", "return"} /\ \A why : ~Fatal(why)
  BY DEF GenLet, GenExpr, GenReturn, At, Fatal
<1>2. PICK code : SetBlocks(Put(Blocks, ins, code)) /\ Fresh(code) /\ loops' = loops
  <2>1. CASE GenLet
    <3>1. Node.e \in Exprs /\ HasExpr(Node)
      BY <1>1, <2>1, NodeExpr DEF GenLet, At, HasExpr
    <3> DEFINE ty == LetType(Node)
               init == IF Node.e.k = "arraylit" THEN InitArray(Node, Here, ty)
                       ELSE InitScalar(Node, Here, ty)
    <3>2. Fresh(init.code)
      BY <3>1, PlainArray, PlainScalar, PlainIsFresh
    <3>3. SetBlocks(Put(Blocks, ins, init.code)) /\ loops' = loops
      BY <1>1, <2>1 DEF GenLet
    <3> QED
      BY <3>2, <3>3
  <2>2. CASE GenExpr
    <3>1. Node.e \in Exprs
      BY <1>1, <2>2, NodeExpr DEF GenExpr, At, HasExpr
    <3>2. Fresh(Lower(Node.e).code)
      BY <3>1, GoodLower, PlainIsFresh DEF Good, Plain
    <3>3. SetBlocks(Put(Blocks, ins, Lower(Node.e).code)) /\ loops' = loops
      BY <1>1, <2>2 DEF GenExpr
    <3> QED
      BY <3>2, <3>3
  <2>3. CASE GenReturn
    <3> DEFINE v == IF Node.e = NoExpr THEN Value(Void, << >>) ELSE Lower(Node.e)
               ret == Instr("ret", v.base, v.ty = tyLLVM(prog[Target].ret), Here)
    <3>1. Good(v, Slots, Here)
      <4>1. Good(Value(Void, << >>), Slots, Here)
        BY RangeOfNothing, GoodValue DEF Mine
      <4>2. Node.e # NoExpr => Node.e \in Exprs
        BY <1>1, <2>3, NodeExpr DEF GenReturn, At, HasExpr
      <4> QED
        BY <4>1, <4>2, GoodLower
    <3>2. ret.at = Here /\ ret.slots \subseteq Slots
      BY <3>1 DEF Instr, Good
    <3>3. SetBlocks(Put(Blocks, ins, v.code \o <<ret>>)) /\ loops' = loops
      BY <1>1, <2>3 DEF GenReturn
    <3> HIDE DEF ret, v
    <3>4. Fresh(v.code \o <<ret>>)
      BY <3>1, <3>2, FreshOne, FreshJoined, PlainIsFresh DEF Good, Plain
    <3> QED
      BY <3>3, <3>4
  <2> QED
    BY <2>1, <2>2, <2>3
<1>3. IsSeq(code) /\ FreshSet(Range(code))
  BY <1>2, FreshRange
<1>4. Grown(Blocks, Put(Blocks, ins, code), Range(code))
  BY <1>1, <1>3, AtBlocks, GrownPut
<1>5. Writes(Put(Blocks, ins, code))
  BY <1>1, <1>2, AtBlocks DEF SetBlocks
<1> QED
  BY <1>1, <1>2, <1>3, <1>4, <1>5 DEF StepCode

LEMMA DeferCode ==
  ASSUME GInv, IRBlocks, GenDefer
  PROVE  \E bs, new : StepCode(bs, new)
<1>1. status = "gen" /\ pc <= Len(Fn.body) /\ Node.k = "defer" /\ ir' = ir /\ loops' = loops
  BY DEF GenDefer, At
<1>2. Grown(Blocks, Blocks, {})
  BY <1>1, AtBlocks, OldBlocks
<1>3. Writes(Blocks)
  BY <1>1 DEF Writes, Blocks
<1> QED
  BY <1>1, <1>2, <1>3 DEF StepCode, FreshSet

LEMMA ElseCode ==
  ASSUME GInv, IRBlocks, GenElse \/ GenEndIf \/ GenEndWhile
  PROVE  \E bs, new : StepCode(bs, new)
<1>1. /\ status = "gen" /\ pc <= Len(Fn.body) /\ Node.k \in {"else", "endif", "endwhile"}
      /\ Node.k # "endwhile" => loops' = loops
      /\ Node.k = "endwhile" => /\ loopExitStack' = Front(loopExitStack)
                                /\ loopContinueStack' = Front(loopContinueStack)
  BY DEF GenElse, GenEndIf, GenEndWhile, PopLoop, At
<1>2. PICK to : SetBlocks(Close(Blocks, ins, to))
  BY DEF GenElse, GenEndIf, GenEndWhile
<1>3. Writes(Close(Blocks, ins, to))
  BY <1>1, <1>2, AtBlocks DEF SetBlocks
<1>4. CASE Terminated(Blocks[ins])
  <2>1. Close(Blocks, ins, to) = Blocks
    BY <1>4 DEF Close
  <2>2. Grown(Blocks, Blocks, {})
    BY <1>1, AtBlocks, OldBlocks
  <2> QED
    BY <1>1, <1>3, <2>1, <2>2 DEF StepCode, FreshSet
<1>5. CASE ~Terminated(Blocks[ins])
  <2> DEFINE code == <<Br({to}, {}, Here)>>
  <2>1. Close(Blocks, ins, to) = Put(Blocks, ins, code)
    BY <1>5 DEF Close
  <2>2. IsSeq(code) /\ FreshSet(Range(code))
    BY FreshBranch, FreshRange
  <2> HIDE DEF code
  <2>3. Grown(Blocks, Put(Blocks, ins, code), Range(code))
    BY <1>1, <2>2, AtBlocks, GrownPut
  <2> QED
    BY <1>1, <1>3, <2>1, <2>2, <2>3 DEF StepCode
<1> QED
  BY <1>4, <1>5

LEMMA JumpCode ==
  ASSUME GInv, IRBlocks, GenBreak \/ GenContinue, status' # "fatal"
  PROVE  \E bs, new : StepCode(bs, new)
<1>1. status = "gen" /\ pc <= Len(Fn.body) /\ Node.k \in {"break", "continue"} /\ \A why : ~Fatal(why)
  BY DEF GenBreak, GenContinue, At, Fatal
<1>2. PICK to, after :
        /\ Jump(to, after)
        /\ Node.k = "break" => loopExitStack # << >> /\ to = Last(loopExitStack)
        /\ Node.k = "continue" => loopContinueStack # << >> /\ to = Last(loopContinueStack)
  BY <1>1 DEF GenBreak, GenContinue, At
<1> DEFINE br == Br({to}, {}, Here)
           put == Put(Blocks, ins, <<br>>)
           x == Block(after, pc)
<1>3. ir' = [ir EXCEPT ![Target] = Append(put, x)] /\ loops' = loops
  BY <1>2 DEF Jump, SetBlocks
<1>4. IsSeq(<<br>>) /\ FreshSet(Range(<<br>>)) /\ Range(<<br>>) = {br} /\ br.to = {to}
  <2>1. br.to = {to}
    BY DEF Br
  <2>2. IsSeq(<<br>>) /\ FreshSet(Range(<<br>>))
    BY FreshBranch, FreshRange
  <2> HIDE DEF br
  <2> QED
    BY <2>1, <2>2, RangeOfOne
<1> HIDE DEF br
<1>5. Grown(Blocks, put, {br})
  <2>1. IsBlocks(Blocks) /\ ins \in 1 .. Len(Blocks)
    BY <1>1, AtBlocks
  <2>2. Grown(Blocks, Put(Blocks, ins, <<br>>), Range(<<br>>))
    BY <1>4, <2>1, GrownPut
  <2> HIDE DEF put
  <2>3. put = Put(Blocks, ins, <<br>>)
    BY DEF put
  <2> QED
    BY <1>4, <2>2, <2>3
<1> HIDE DEF put
<1>6. Grown(put, Append(put, x), {})
  <2>1. IsBlock(x) /\ Range(x.code) = {} /\ IsBlocks(put)
    BY <1>5, NewBlock DEF Grown
  <2> HIDE DEF x
  <2>2. Grown(put, Append(put, x), Range(x.code))
    BY <2>1, GrownAppend
  <2> QED
    BY <2>1, <2>2
<1> HIDE DEF x
<1>7. Grown(Blocks, Append(put, x), {br} \cup {})
  BY <1>1, <1>5, <1>6, AtBlocks, GrownTwice
<1>8. Writes(Append(put, x))
  BY <1>1, <1>3, AtBlocks
<1> QED
  <2>1. {br} \cup {} = {br}
    OBVIOUS
  <2>2. FreshSet({br}) /\ Grown(Blocks, Append(put, x), {br})
    BY <1>4, <1>7, <2>1
  <2> QED
    BY <1>1, <1>2, <1>3, <1>4, <1>8, <2>2 DEF StepCode

ThreeMoreIn(cs, bs, code, x, z) ==
  /\ Grown(bs, cs, Range(code) \cup Range(x.code))
  /\ Len(cs) = Len(bs) + 3 /\ cs[Len(bs) + 1] = x /\ cs[Len(bs) + 3] = z

LEMMA GrownThree ==
  ASSUME NEW bs, IsBlocks(bs), NEW b \in 1 .. Len(bs), NEW code, IsSeq(code),
         NEW x, IsBlock(x), NEW y, IsBlock(y), Range(y.code) = {},
         NEW z, IsBlock(z), Range(z.code) = {},
         NEW cs, cs = Put(bs, b, code) \o <<x, y, z>>
  PROVE  ThreeMoreIn(cs, bs, code, x, z)
<1> DEFINE put == Put(bs, b, code)
           more == <<x, y, z>>
<1>1. Grown(bs, put, Range(code)) /\ Len(put) = Len(bs)
  BY GrownPut
<1>2. IsSeq(more) /\ Len(more) = 3 /\ more[1] = x /\ more[2] = y /\ more[3] = z
  BY ThreeEntries
<1>3. \A i \in 1 .. 3 : i = 1 \/ i = 2 \/ i = 3
  OBVIOUS
<1> HIDE DEF put, more
<1>4. IsBlocks(more) /\ CodeOf(more) \subseteq Range(x.code)
  BY <1>2, <1>3 DEF IsBlocks, CodeOf
<1>5. IsBlocks(put) /\ IsSeq(bs) /\ Len(bs) \in Nat
  BY <1>1, SeqBasics DEF Grown, IsBlocks
<1>6. /\ Grown(put, put \o more, CodeOf(more)) /\ Len(put \o more) = Len(put) + Len(more)
      /\ \A j \in 1 .. Len(more) : (put \o more)[Len(put) + j] = more[j]
  BY <1>4, <1>5, GrownJoin
<1>7. Grown(bs, put \o more, Range(code) \cup CodeOf(more))
  BY <1>1, <1>5, <1>6, GrownTwice
<1>8. Grown(bs, put \o more, Range(code) \cup Range(x.code))
  BY <1>4, <1>7 DEF Grown
<1>9. (put \o more)[Len(bs) + 1] = x /\ (put \o more)[Len(bs) + 3] = z
  <2>1. 1 \in 1 .. Len(more) /\ 3 \in 1 .. Len(more)
    BY <1>2
  <2> QED
    BY <1>1, <1>2, <1>6, <2>1
<1>10. cs = put \o more
  BY DEF put, more
<1>11. Len(put \o more) = Len(bs) + 3
  BY <1>1, <1>2, <1>6
<1> QED
  BY <1>8, <1>9, <1>10, <1>11 DEF ThreeMoreIn

LEMMA IfCode ==
  ASSUME GInv, IRBlocks, GenIf, status' # "fatal"
  PROVE  \E bs, new : StepCode(bs, new)
<1> DEFINE v == Lower(Node.e)
           n == Len(Blocks)
           code == Test(v, {n+1, n+2})
           x == Block("then", pc)   y == Block("else", pc)   z == Block("ifend", pc)
           bs == Put(Blocks, ins, code) \o <<x, y, z>>
<1>1. status = "gen" /\ pc <= Len(Fn.body) /\ Node.k = "if" /\ \A why : ~Fatal(why)
  BY DEF GenIf, At, Fatal
<1>2. SetBlocks(bs) /\ loops' = loops
  BY <1>1 DEF GenIf
<1>3. IsSeq(code) /\ FreshSet(Range(code))
  <2>1. Node.e \in Exprs
    BY <1>1, NodeExpr DEF HasExpr
  <2>2. Good(v, Slots, Here)
    BY <2>1, GoodLower
  <2> HIDE DEF v, n
  <2> QED
    BY <2>2, FreshTest, FreshRange
<1>4. /\ IsBlock(x) /\ IsBlock(y) /\ IsBlock(z)
      /\ Range(x.code) = {} /\ Range(y.code) = {} /\ Range(z.code) = {}
  BY NewBlock
<1>5. Writes(bs)
  BY <1>1, <1>2, AtBlocks DEF SetBlocks
<1>6. IsBlocks(Blocks) /\ ins \in 1 .. Len(Blocks)
  BY <1>1, AtBlocks
<1> HIDE DEF code, x, y, z
<1>7. Grown(Blocks, bs, Range(code) \cup Range(x.code))
  BY <1>3, <1>4, <1>6, GrownThree DEF ThreeMoreIn
<1> HIDE DEF bs
<1>8. Range(code) \cup Range(x.code) = Range(code)
  BY <1>4
<1>9. Grown(Blocks, bs, Range(code))
  BY <1>7, <1>8
<1> QED
  BY <1>1, <1>2, <1>3, <1>5, <1>9 DEF StepCode

LEMMA WhileCode ==
  ASSUME GInv, IRBlocks, GenWhile, status' # "fatal"
  PROVE  \E bs, new : StepCode(bs, new)
<1> DEFINE v == Lower(Node.e)
           n == Len(Blocks)
           test == Test(v, {n+2, n+3})
           br == Br({n+1}, {}, Here)
           x == [Block("while.cond", pc) EXCEPT !.code = test]
           y == Block("while.body", pc)   z == Block("while.end", pc)
           bs == Put(Blocks, ins, <<br>>) \o <<x, y, z>>
<1>1. status = "gen" /\ pc <= Len(Fn.body) /\ Node.k = "while" /\ \A why : ~Fatal(why)
  BY DEF GenWhile, At, Fatal
<1>2. SetBlocks(bs) /\ loopExitStack' = Append(loopExitStack, n+3)
      /\ loopContinueStack' = Append(loopContinueStack, n+1)
  BY <1>1 DEF GenWhile
<1>3. IsSeq(test) /\ FreshSet(Range(test))
  <2>1. Node.e \in Exprs
    BY <1>1, NodeExpr DEF HasExpr
  <2>2. Good(v, Slots, Here)
    BY <2>1, GoodLower
  <2> HIDE DEF v, n
  <2> QED
    BY <2>2, FreshTest, FreshRange
<1>4. IsSeq(<<br>>) /\ FreshSet(Range(<<br>>))
  BY FreshBranch, FreshRange
<1>5. /\ IsBlock(y) /\ IsBlock(z) /\ Range(y.code) = {} /\ Range(z.code) = {}
      /\ z.name = "while.end" /\ z.at = pc
  BY NewBlock
<1>6. IsBlock(x) /\ x.code = test /\ x.name = "while.cond" /\ x.at = pc
  <2> HIDE DEF test
  <2> QED
    BY <1>3 DEF Block, IsBlock
<1>7. Writes(bs)
  BY <1>1, <1>2, AtBlocks DEF SetBlocks
<1>8. IsBlocks(Blocks) /\ ins \in 1 .. Len(Blocks) /\ n \in Nat
  BY <1>1, AtBlocks
<1> HIDE DEF test, br, x, y, z
<1>9. /\ Grown(Blocks, bs, Range(<<br>>) \cup Range(x.code)) /\ Len(bs) = n + 3
      /\ bs[n+1] = x /\ bs[n+3] = z
  <2> DEFINE code == <<br>>
  <2>1. IsSeq(code) /\ bs = Put(Blocks, ins, code) \o <<x, y, z>>
    BY <1>4
  <2> HIDE DEF code, bs
  <2>2. ThreeMoreIn(bs, Blocks, code, x, z)
    BY <1>5, <1>6, <1>8, <2>1, GrownThree
  <2> QED
    BY <2>2 DEF code, ThreeMoreIn
<1> HIDE DEF bs
<1>10. Targets(bs, pc, n+3, n+1)
  BY <1>5, <1>6, <1>8, <1>9 DEF Targets
<1>11. FreshSet(Range(<<br>>) \cup Range(x.code))
  BY <1>3, <1>4, <1>6 DEF FreshSet
<1> HIDE DEF n
<1>12. \E exit, next :
         /\ Targets(bs, pc, exit, next)
         /\ loopExitStack' = Append(loopExitStack, exit)
         /\ loopContinueStack' = Append(loopContinueStack, next)
  BY <1>2, <1>10
<1> QED
  BY <1>1, <1>7, <1>9, <1>11, <1>12 DEF StepCode

LEMMA StatementCode ==
  ASSUME GInv, IRBlocks, GenStmt, status' # "fatal"
  PROVE  \E bs, new : StepCode(bs, new)
  BY SimpleCode, DeferCode, ElseCode, JumpCode, IfCode, WhileCode DEF GenStmt

-----------------------------------------------------------------------------
(* References.                                                             *)

(* the last declaration of x before p in the text, parameters first *)
LastSite(fn, p, x) ==
  LET ds == {d \in 1 .. p-1 : fn.body[d].k = "let" /\ fn.body[d].x = x}
  IN  IF ds = {} THEN ParamSite(fn.params, x) ELSE Max(ds)

(* The last declaration in the text either is the one in scope, or its     *)
(* block has been closed since.                                            *)
LEMMA LastOrShadowing ==
  ASSUME NEW fn, IsSeq(fn.params), NEW p \in Nat \ {0}, NEW x, LastSite(fn, p, x) # NoSite
  PROVE  InScopeOrShadowed(fn, p, LastSite(fn, p, x))
<1> DEFINE ds == {d \in 1 .. p-1 : fn.body[d].k = "let" /\ fn.body[d].x = x}
           ls == {d \in 1 .. p-1 : /\ fn.body[d].k = "let"
                                   /\ fn.body[d].x = x
                                   /\ \A q \in d+1 .. p-1 : ~EndsList(fn.body, d, q)}
           param == ParamSite(fn.params, x)
           D == LastSite(fn, p, x)
           L == Lexical(fn, p, x)
<1>1. D = (IF ds = {} THEN param ELSE Max(ds)) /\ L = (IF ls = {} THEN param ELSE Max(ls))
  BY DEF LastSite, Lexical
<1>2. ls \subseteq ds /\ ds \in SUBSET (0 .. p-1) /\ ls \in SUBSET (0 .. p-1) /\ p-1 \in Nat
  OBVIOUS
<1>3. /\ ds # {} => Max(ds) \in ds /\ \A d \in ds : d <= Max(ds)
      /\ ls # {} => Max(ls) \in ls
  <2> HIDE DEF ds, ls
  <2> QED
    BY <1>2, GreatestNumber
<1>4. CASE ds = {}
  <2>1. D = param /\ L = param
    BY <1>1, <1>2, <1>4
  <2>2. NameAt(fn, D) = x
    <3> DEFINE ks == {k \in 1 .. Len(fn.params) : fn.params[k].x = x}
    <3>1. param # NoSite => ks # {} /\ param = -Min(ks)
      BY DEF ParamSite
    <3>2. ks \in SUBSET Nat
      BY SeqBasics
    <3>3. ks # {} => Min(ks) \in ks /\ Min(ks) \in Nat
      <4> HIDE DEF ks
      <4> QED
        BY <3>2, LeastNumber
    <3>4. ks # {} /\ param = -Min(ks)
      BY <2>1, <3>1
    <3>5. fn.params[Min(ks)].x = x /\ -param = Min(ks) /\ ~(param > 0)
      BY <3>3, <3>4
    <3> HIDE DEF ks, param, D
    <3> QED
      BY <2>1, <3>5 DEF NameAt
  <2> QED
    BY <2>1, <2>2 DEF InScopeOrShadowed
<1>5. CASE ds # {}
  <2>1. D = Max(ds) /\ D \in ds
    BY <1>1, <1>3, <1>5
  <2>2. D \in 1 .. p-1 /\ NameAt(fn, D) = x
    <3>1. D \in 1 .. p-1 /\ fn.body[D].x = x
      BY <2>1
    <3> HIDE DEF D
    <3> QED
      BY <3>1 DEF NameAt
  <2>3. CASE D \in ls
    <3>1. Max(ls) = D
      <4>1. Max(ls) \in ls /\ Max(ls) \in ds /\ \A l \in ls : l <= Max(ls)
        <5>1. ls # {}
          BY <2>3
        <5> HIDE DEF ls, ds, D
        <5> QED
          BY <1>2, <5>1, GreatestNumber
      <4> DEFINE m == Max(ls)
      <4>2. m <= D /\ D <= m /\ m \in Nat /\ D \in Nat
        <5>1. m \in ds /\ m \in 0 .. p-1 /\ D \in 0 .. p-1
          BY <1>2, <4>1, <2>1
        <5> HIDE DEF m, ds, ls, D
        <5> QED
          BY <1>3, <1>5, <2>1, <2>3, <4>1, <5>1 DEF m
      <4> HIDE DEF m, D
      <4>3. m = D
        BY <4>2
      <4> QED
        BY <4>3 DEF m
    <3>2. L = D
      BY <1>1, <2>3, <3>1
    <3> QED
      BY <2>2, <3>2 DEF InScopeOrShadowed
  <2>4. CASE D \notin ls
    <3>1. \E q \in D+1 .. p-1 : EndsList(fn.body, D, q)
      <4> HIDE DEF D
      <4> QED
        BY <2>1, <2>4
    <3>2. \E q \in D .. p-1 : EndsList(fn.body, D, q)
      <4> HIDE DEF D
      <4> QED
        BY <2>2, <3>1
    <3>3. D > L
      <4>1. CASE ls = {}
        <5>1. L \in Int /\ L <= 0
          BY <1>1, <4>1, ParamSites
        <5> HIDE DEF D, L
        <5> QED
          BY <2>2, <5>1
      <4>2. CASE ls # {}
        <5>1. L \in ls /\ L \in ds
          BY <1>1, <1>2, <1>3, <4>2
        <5>2. L <= D /\ L # D /\ L \in Nat
          <6>1. L \in 0 .. p-1
            BY <1>2, <5>1
          <6> HIDE DEF D, L, ds, ls
          <6> QED
            BY <1>3, <1>5, <2>1, <2>4, <5>1, <6>1
        <5> HIDE DEF D, L
        <5> QED
          BY <2>2, <5>2
      <4> QED
        BY <4>1, <4>2
    <3> QED
      BY <2>2, <3>2, <3>3 DEF InScopeOrShadowed
  <2> QED
    BY <2>3, <2>4
<1> QED
  BY <1>4, <1>5

-----------------------------------------------------------------------------
(* What is true of every instruction i of the blocks bs of a function.     *)

UseOK(i) ==
  functions[prog[i.at[1]].name] = i.at[1] =>
    \A s \in i.slots :
      (i.at[2] > 0 /\ s # <<i.at[1], i.at[2]>>) =>
         s[1] = i.at[1] /\ InScopeOrShadowed(prog[i.at[1]], i.at[2], s[2])

JumpOK(bs, i) ==
  NodeOf(i).k \in {"break", "continue"} =>
    \E t \in DOMAIN bs :
      /\ i.to = {t}
      /\ bs[t].at = InnermostLoop(prog[i.at[1]].body, i.at[2])
      /\ bs[t].name = IF NodeOf(i).k = "break" THEN "while.end" ELSE "while.cond"

CodeOK(bs) == \A i \in CodeOf(bs) : UseOK(i) /\ JumpOK(bs, i)

(* the entries of the loop stacks for the loop at w *)
ExitOf(w) == loopExitStack[LoopDepth(Fn.body, w) + 1]
NextOf(w) == loopContinueStack[LoopDepth(Fn.body, w) + 1]

(* The invariant: besides the code, each open loop's jump targets, by the  *)
(* loop's place in the source, and nothing generated before all functions  *)
(* are declared.                                                           *)
CInv ==
  /\ IRBlocks
  /\ status = "declare" => \A f \in DOMAIN ir : ir[f] = << >>
  /\ \A f \in DOMAIN ir : CodeOK(ir[f])
  /\ status = "gen" => \A w \in OpenLoops(Fn.body, pc) : Targets(Blocks, w, ExitOf(w), NextOf(w))

(* A property of all instructions, by block and position, or as a set.     *)
LEMMA AllCode ==
  ASSUME NEW bs, IsBlocks(bs)
  PROVE  /\ DOMAIN bs = 1 .. Len(bs)
         /\ \A b \in DOMAIN bs : \A j \in DOMAIN bs[b].code : bs[b].code[j] \in CodeOf(bs)
<1>1. DOMAIN bs = 1 .. Len(bs)
  BY SeqBasics DEF IsBlocks
<1>2. ASSUME NEW b \in DOMAIN bs, NEW j \in DOMAIN bs[b].code
      PROVE  bs[b].code[j] \in CodeOf(bs)
  <2>1. bs[b].code[j] \in Range(bs[b].code)
    BY DEF Range
  <2> QED
    BY <1>1, <2>1 DEF CodeOf
<1> QED
  BY <1>1, <1>2

LEMMA CodeProperties == CInv => LexicalUnlessShadowed /\ JumpsMatchSource
<1> SUFFICES ASSUME CInv PROVE LexicalUnlessShadowed /\ JumpsMatchSource
  OBVIOUS
<1>1. ASSUME NEW f \in DOMAIN ir, NEW b \in DOMAIN ir[f], NEW j \in DOMAIN ir[f][b].code
      PROVE  UseOK(ir[f][b].code[j]) /\ JumpOK(ir[f], ir[f][b].code[j])
  <2>1. IsBlocks(ir[f]) /\ CodeOK(ir[f])
    BY DEF CInv, IRBlocks
  <2>2. ir[f][b].code[j] \in CodeOf(ir[f])
    BY <2>1, AllCode
  <2> QED
    BY <2>1, <2>2 DEF CodeOK
<1>2. LexicalUnlessShadowed
  BY <1>1 DEF LexicalUnlessShadowed, UsesOf, ForAllCode, UseOK
<1>3. JumpsMatchSource
  BY <1>1 DEF JumpsMatchSource, ForAllCode, JumpOK
<1> QED
  BY <1>2, <1>3

(* Code that was right stays right when blocks grow.                       *)
LEMMA GrownCode ==
  ASSUME NEW bs, NEW cs, NEW new, IsBlocks(bs), Grown(bs, cs, new), CodeOK(bs),
         \A i \in new : UseOK(i) /\ JumpOK(cs, i)
  PROVE  CodeOK(cs)
<1>1. DOMAIN bs = 1 .. Len(bs) /\ DOMAIN cs = 1 .. Len(cs) /\ Len(bs) \in Nat /\ Len(cs) \in Nat
  BY SeqBasics DEF Grown, IsBlocks
<1>2. ASSUME NEW i \in CodeOf(bs), NodeOf(i).k \in {"break", "continue"}
      PROVE  JumpOK(cs, i)
  <2>1. PICK t \in DOMAIN bs :
          /\ i.to = {t}
          /\ bs[t].at = InnermostLoop(prog[i.at[1]].body, i.at[2])
          /\ bs[t].name = IF NodeOf(i).k = "break" THEN "while.end" ELSE "while.cond"
    BY <1>2 DEF CodeOK, JumpOK
  <2>2. t \in DOMAIN cs /\ cs[t].at = bs[t].at /\ cs[t].name = bs[t].name
    BY <1>1 DEF Grown
  <2> QED
    BY <2>1, <2>2 DEF JumpOK
<1>3. \A i \in CodeOf(bs) : UseOK(i) /\ JumpOK(cs, i)
  BY <1>2 DEF CodeOK, JumpOK
<1> QED
  BY <1>3 DEF CodeOK, Grown

LEMMA GrownTargets ==
  ASSUME NEW bs, NEW cs, NEW new, IsBlocks(bs), Grown(bs, cs, new),
         NEW w, NEW exit, NEW next, Targets(bs, w, exit, next)
  PROVE  Targets(cs, w, exit, next)
<1>1. Len(bs) \in Nat /\ Len(cs) \in Nat
  BY SeqBasics DEF Grown, IsBlocks
<1> QED
  BY <1>1 DEF Grown, Targets

(* Writing such blocks back, once all functions are declared.              *)
LEMMA WriteCode ==
  ASSUME IRBlocks, \A f \in DOMAIN ir : CodeOK(ir[f]), Target \in DOMAIN ir,
         prog' = prog, functions' = functions,
         NEW bs, NEW new, Writes(bs), Grown(Blocks, bs, new),
         \A i \in new : UseOK(i) /\ JumpOK(bs, i)
  PROVE  IRBlocks' /\ (\A f \in DOMAIN ir : CodeOK(ir[f]))' /\ ir'[Target] = bs
<1>1. IsBlocks(Blocks) /\ CodeOK(Blocks)
  BY DEF IRBlocks, Blocks
<1>2. IsBlocks(bs) /\ CodeOK(bs)
  BY <1>1, GrownCode DEF Grown
<1>3. \A f \in DOMAIN ir' : IsBlocks(ir'[f]) /\ CodeOK(ir'[f])
  BY <1>2 DEF Writes, IRBlocks
<1>4. \A cs : CodeOK(cs)' <=> CodeOK(cs')
  BY DEF CodeOK, UseOK, JumpOK, NodeOf
<1>5. (\A f \in DOMAIN ir : CodeOK(ir[f]))' <=> \A f \in DOMAIN ir' : CodeOK(ir'[f])
  BY DEF CodeOK, UseOK, JumpOK, NodeOf
<1> QED
  BY <1>3, <1>5 DEF IRBlocks, Writes

-----------------------------------------------------------------------------
(* Every step preserves it.                                                *)

LEMMA InitCInv == Init => CInv
<1> SUFFICES ASSUME Init PROVE CInv
  OBVIOUS
<1>1. IsBlocks(<< >>) /\ CodeOf(<< >>) = {}
  <2>1. IsSeq(<< >>) /\ Len(<< >>) = 0
    BY EmptyStack
  <2>2. \A b : b \notin 1 .. 0
    OBVIOUS
  <2> QED
    BY <2>1, <2>2 DEF IsBlocks, CodeOf
<1>2. \A f \in DOMAIN ir : ir[f] = << >>
  BY DEF Init
<1>3. status = "declare"
  BY DEF Init
<1> QED
  BY <1>1, <1>2, <1>3 DEF CInv, IRBlocks, CodeOK

(* steps that write no code *)
LEMMA QuietStep ==
  ASSUME CInv, prog' = prog, ir' = ir,
         functions' = functions \/ status = "declare",
         status' = "declare" => status = "declare",
         status' # "gen" \/ UNCHANGED vars
  PROVE  CInv'
<1>1. CASE UNCHANGED vars
  BY <1>1 DEF vars, declared, loops, names, CInv, IRBlocks, CodeOK, UseOK, JumpOK, NodeOf, Targets,
              ExitOf, NextOf, Fn, Blocks, Target
<1>2. CASE status' # "gen" /\ functions' = functions
  BY <1>2 DEF CInv, IRBlocks, CodeOK, UseOK, JumpOK, NodeOf
<1>3. CASE status' # "gen" /\ status = "declare"
  <2>1. \A f \in DOMAIN ir : ir[f] = << >>
    BY <1>3 DEF CInv
  <2>2. CodeOf(<< >>) = {}
    <3>1. Len(<< >>) = 0
      BY EmptyStack
    <3>2. \A b : b \notin 1 .. 0
      OBVIOUS
    <3> QED
      BY <3>1, <3>2 DEF CodeOf
  <2>3. (\A f \in DOMAIN ir : CodeOK(ir[f]))'
    BY <2>1, <2>2 DEF CodeOK
  <2> QED
    BY <1>3, <2>1, <2>3 DEF CInv, IRBlocks
<1> QED
  BY <1>1, <1>2, <1>3

(* The block a function starts with.                                       *)
LEMMA EntryBlock ==
  ASSUME GInv, IRBlocks, BeginFunction
  PROVE  \E entry :
           /\ Writes(Append(Blocks, entry)) /\ IsBlock(entry) /\ entry.name = "entry"
           /\ \A i \in Range(entry.code) : i.at = <<cur, 0>> /\ ~Terminator(i)
<1> DEFINE params == prog[Target].params
           at == <<cur, 0>>
           spill(k) == LET ty == tyLLVM(params[k].ty)
                       IN  <<Alloca(<<cur, -k>>, ty, at), Store(Value(ty, << >>), {<<cur, -k>>}, ty, at)>>
           spills == [k \in DOMAIN params |-> spill(k)]
           code == FlattenSeq(spills)
           entry == [Block("entry", 0) EXCEPT !.code = code]
           S == {<<cur, -k>> : k \in DOMAIN params}
<1>1. /\ status = "begin" /\ cur <= Len(prog)
      /\ ir' = [ir EXCEPT ![Target] = Append(@, entry)]
  BY DEF BeginFunction
<1>2. cur \in 1 .. Len(prog) /\ Len(prog) \in Nat /\ Target \in DOMAIN prog /\ Target \in DOMAIN ir
  BY <1>1, TargetExists
<1>3. IsSeq(params) /\ DOMAIN params = 1 .. Len(params)
  BY <1>2, ProgramsAssumption, SeqBasics DEF GInv, Parsed
<1>4. \A k \in DOMAIN params : Mine(spill(k), S, at)
  <2> SUFFICES ASSUME NEW k \in DOMAIN params PROVE Mine(spill(k), S, at)
    OBVIOUS
  <2> DEFINE ty == tyLLVM(params[k].ty)
             alloca == Alloca(<<cur, -k>>, ty, at)
             store == Store(Value(ty, << >>), {<<cur, -k>>}, ty, at)
  <2>1. alloca.at = at /\ alloca.slots = {<<cur, -k>>} /\ ~Terminator(alloca)
    BY DEF Alloca, Instr, Terminator
  <2>2. store.at = at /\ store.slots = {<<cur, -k>>} /\ ~Terminator(store)
    BY DEF Store, Value, Terminator
  <2>3. {<<cur, -k>>} \subseteq S
    OBVIOUS
  <2> HIDE DEF alloca, store, S, at
  <2>4. Mine(<<alloca, store>>, S, at)
    BY <2>1, <2>2, <2>3, MineTwo
  <2>5. spill(k) = <<alloca, store>>
    BY DEF alloca, store, at
  <2> QED
    BY <2>4, <2>5
<1> HIDE DEF spill, S
<1>5. IsSeq(spills) /\ Len(spills) = Len(params)
  <2> DEFINE ss == [k \in DOMAIN params |-> spills[k]]
  <2>1. spills = ss
    OBVIOUS
  <2> HIDE DEF params
  <2> QED
    BY <1>3, <2>1, Mapped
<1>6. \A k \in 1 .. Len(spills) : Mine(spills[k], S, at)
  BY <1>3, <1>4, <1>5
<1> HIDE DEF spills, at
<1>7. Mine(code, S, at)
  BY <1>5, <1>6, MineFlat
<1> HIDE DEF code
<1>8. IsBlock(entry) /\ Range(entry.code) = Range(code) /\ entry.name = "entry"
  BY <1>7 DEF Mine, Block, IsBlock
<1>9. \A i \in Range(code) : i.at = <<cur, 0>> /\ ~Terminator(i)
  BY <1>7 DEF Mine, at
<1> HIDE DEF entry
<1>10. Writes(Append(Blocks, entry))
  BY <1>1, <1>2 DEF Writes, Blocks
<1> QED
  BY <1>8, <1>9, <1>10

(* What a function's prologue adds to its blocks.                          *)
LEMMA BeginBlocks ==
  ASSUME GInv, IRBlocks, BeginFunction
  PROVE  \E bs, new : Writes(bs) /\ Grown(Blocks, bs, new) /\ \A i \in new : i.at = <<cur, 0>>
<1>1. PICK entry :
        /\ Writes(Append(Blocks, entry)) /\ IsBlock(entry) /\ entry.name = "entry"
        /\ \A i \in Range(entry.code) : i.at = <<cur, 0>> /\ ~Terminator(i)
  BY EntryBlock
<1>2. IsBlocks(Blocks)
  <2>1. Target \in DOMAIN ir
    BY TargetExists DEF BeginFunction
  <2> QED
    BY <2>1 DEF IRBlocks, Blocks
<1>3. Grown(Blocks, Append(Blocks, entry), Range(entry.code))
  BY <1>1, <1>2, GrownAppend
<1> QED
  BY <1>1, <1>3

(* What its end adds: at most the implicit return.                         *)
LEMMA EndBlocks ==
  ASSUME GInv, IRBlocks, EndFunction, status' # "fatal"
  PROVE  \E bs, new : Writes(bs) /\ Grown(Blocks, bs, new) /\ \A i \in new : i.at = Here /\ i.slots = {}
<1> DEFINE ty == IF Fn.ret \in {I64, Bool} THEN tyLLVM(Fn.ret) ELSE Void
           ret == Instr("ret", {}, ty = tyLLVM(prog[Target].ret), Here)
           bs == IF Terminated(Blocks[ins]) THEN Blocks ELSE Put(Blocks, ins, <<ret>>)
<1>1. status = "gen" /\ ir' = [ir EXCEPT ![Target] = bs]
  BY DEF EndFunction, Fatal
<1>2. ins \in DOMAIN Blocks /\ Target \in DOMAIN ir
  BY <1>1, TargetExists DEF GInv, TypeOK
<1>3. IsBlocks(Blocks) /\ ins \in 1 .. Len(Blocks)
  BY <1>2, AllCode DEF IRBlocks, Blocks
<1>4. ret.at = Here /\ ret.slots = {}
  BY DEF Instr
<1> HIDE DEF ret
<1>5. PICK new : Grown(Blocks, bs, new) /\ new \subseteq {ret}
  <2>1. CASE Terminated(Blocks[ins])
    BY <1>3, <2>1, OldBlocks
  <2>2. CASE ~Terminated(Blocks[ins])
    <3>1. IsSeq(<<ret>>) /\ Range(<<ret>>) = {ret}
      BY RangeOfOne
    <3> DEFINE code == <<ret>>
    <3> HIDE DEF code
    <3>2. Grown(Blocks, Put(Blocks, ins, code), Range(code))
      BY <1>3, <3>1, GrownPut DEF code
    <3> QED
      BY <2>2, <3>1, <3>2 DEF code
  <2> QED
    BY <2>1, <2>2
<1> HIDE DEF bs
<1>6. Writes(bs)
  BY <1>1, <1>2 DEF Writes
<1> QED
  BY <1>4, <1>5, <1>6

(* What a function's prologue and its end add to its blocks is right.      *)
LEMMA BeginCode == GInv /\ CInv /\ BeginFunction => CInv'
<1> SUFFICES ASSUME GInv, CInv, BeginFunction PROVE CInv'
  OBVIOUS
<1>1. /\ status = "begin" /\ cur <= Len(prog) /\ status' = "gen" /\ pc' = 1
      /\ prog' = prog /\ cur' = cur /\ functions' = functions
  BY DEF BeginFunction, declared
<1>2. cur \in 1 .. Len(prog) /\ Target \in DOMAIN ir
  BY <1>1, TargetExists
<1>3. PICK bs, new : Writes(bs) /\ Grown(Blocks, bs, new) /\ \A i \in new : i.at = <<cur, 0>>
  BY BeginBlocks DEF CInv
<1>4. \A i \in new : UseOK(i) /\ JumpOK(bs, i)
  <2> SUFFICES ASSUME NEW i \in new PROVE UseOK(i) /\ JumpOK(bs, i)
    OBVIOUS
  <2>1. i.at[1] = cur /\ i.at[2] = 0
    BY <1>3
  <2>2. 0 \notin DOMAIN prog[cur].body
    <3>1. IsSeq(Fn.body)
      BY <1>2, CurrentBody DEF GInv
    <3> QED
      BY <3>1, SeqBasics DEF Fn
  <2>3. NodeOf(i).k = "none"
    BY <2>1, <2>2 DEF NodeOf
  <2> QED
    BY <2>1, <2>3 DEF UseOK, JumpOK
<1>5. IRBlocks' /\ (\A f \in DOMAIN ir : CodeOK(ir[f]))'
  <2>1. IRBlocks /\ \A f \in DOMAIN ir : CodeOK(ir[f])
    BY DEF CInv
  <2>2. Writes(bs) /\ Grown(Blocks, bs, new)
    BY <1>3
  <2> QED
    BY <1>1, <1>2, <1>4, <2>1, <2>2, WriteCode
<1>6. OpenLoops(Fn.body, pc)' = {}
  BY <1>1 DEF OpenLoops
<1> QED
  BY <1>1, <1>5, <1>6 DEF CInv

LEMMA EndCode == GInv /\ CInv /\ EndFunction => CInv'
<1> SUFFICES ASSUME GInv, CInv, EndFunction PROVE CInv'
  OBVIOUS
<1>1. CASE status' = "fatal"
  <2>1. status = "gen" /\ ir' = ir /\ prog' = prog /\ functions' = functions
    BY <1>1 DEF Fatal, EndFunction, declared
  <2> QED
    BY <1>1, <2>1, QuietStep
<1>2. CASE status' # "fatal"
  <2>1. /\ status = "gen" /\ pc > Len(Fn.body) /\ status' = "begin"
        /\ prog' = prog /\ functions' = functions
    BY <1>2 DEF EndFunction, Fatal, declared
  <2>2. cur \in 1 .. Len(prog) /\ pc \in Nat \ {0} /\ Target \in DOMAIN ir /\ IsSeq(Fn.body)
    <3>1. cur <= Len(prog) /\ pc \in Nat \ {0}
      BY <2>1 DEF GInv, TypeOK
    <3>2. cur \in 1 .. Len(prog) /\ Target \in DOMAIN ir
      BY <2>1, <3>1, TargetExists
    <3> QED
      BY <3>1, <3>2, CurrentBody DEF GInv
  <2>3. PICK bs, new : Writes(bs) /\ Grown(Blocks, bs, new) /\ \A i \in new : i.at = Here /\ i.slots = {}
    BY <1>2, EndBlocks DEF CInv
  <2>4. \A i \in new : UseOK(i) /\ JumpOK(bs, i)
    <3> SUFFICES ASSUME NEW i \in new PROVE UseOK(i) /\ JumpOK(bs, i)
      OBVIOUS
    <3>1. i.at[1] = cur /\ i.at[2] = pc /\ i.slots = {}
      BY <2>3 DEF Here
    <3>2. pc \notin DOMAIN prog[cur].body
      BY <2>1, <2>2, SeqBasics DEF Fn
    <3>3. NodeOf(i).k = "none"
      BY <3>1, <3>2 DEF NodeOf
    <3> QED
      BY <3>1, <3>3 DEF UseOK, JumpOK
  <2>5. IRBlocks' /\ (\A f \in DOMAIN ir : CodeOK(ir[f]))'
    <3>1. IRBlocks /\ \A f \in DOMAIN ir : CodeOK(ir[f])
      BY DEF CInv
    <3>2. Writes(bs) /\ Grown(Blocks, bs, new)
      BY <2>3
    <3> QED
      BY <2>1, <2>2, <2>4, <3>1, <3>2, WriteCode
  <2> QED
    BY <2>1, <2>5 DEF CInv
<1> QED
  BY <1>1, <1>2

(* A statement refers to what namedValues holds, or to its own slot.       *)
LEMMA StatementUses ==
  ASSUME GInv, NamesAreFlat, status = "gen", cur \in DOMAIN prog,
         NEW i, i.at = Here, i.slots \subseteq Slots
  PROVE  UseOK(i)
<1> SUFFICES ASSUME functions[prog[cur].name] = cur, NEW s \in i.slots, s # <<cur, pc>>
             PROVE  s[1] = cur /\ InScopeOrShadowed(prog[cur], pc, s[2])
  BY DEF UseOK, Here
<1>1. Target = cur /\ pc \in Nat \ {0} /\ IsSeq(prog[cur].params)
  BY ProgramsAssumption DEF Target, Fn, GInv, TypeOK, Parsed
<1>2. PICK x \in DOMAIN namedValues : s = namedValues[x]
  BY DEF Slots, SlotsOf, Here
<1>3. s = <<cur, DeclaredSoFar(cur, pc, x)>> /\ DeclaredSoFar(cur, pc, x) # NoSite
  BY <1>2 DEF NamesAreFlat
<1>4. DeclaredSoFar(cur, pc, x) = LastSite(prog[cur], pc, x)
  BY <1>1 DEF DeclaredSoFar, LastSite
<1>5. InScopeOrShadowed(prog[cur], pc, LastSite(prog[cur], pc, x))
  BY <1>1, <1>3, <1>4, LastOrShadowing
<1> QED
  BY <1>3, <1>4, <1>5

(* The loop a jump belongs to is the one on top of the loop stacks.        *)
LEMMA TopOfLoops ==
  ASSUME GInv, CInv, status = "gen", pc <= Len(Fn.body), loopExitStack # << >>
  PROVE  /\ Targets(Blocks, InnermostLoop(Fn.body, pc), Last(loopExitStack), Last(loopContinueStack))
         /\ loopContinueStack # << >>
<1> DEFINE l == LoopDepth(Fn.body, pc)
           w == InnermostLoop(Fn.body, pc)
<1>1. cur <= Len(prog) /\ IsSeq(loopExitStack) /\ IsSeq(loopContinueStack) /\ Len(loopExitStack) = l
      /\ Len(loopContinueStack) = l /\ pc \in Nat \ {0}
  BY AtStatement DEF GInv, TypeOK
<1>2. cur \in 1 .. Len(prog)
  BY <1>1, TargetExists
<1>3. IsSeq(Fn.body) /\ Len(Fn.body) \in Nat /\ WellNested(Fn.body)
  BY <1>2, CurrentBody DEF GInv
<1>4. l \in Nat /\ l > 0
  <2>1. Len(loopExitStack) \in Nat /\ Len(loopExitStack) # 0
    BY <1>1, SeqBasics, EmptySeq DEF IsSeq
  <2> QED
    BY <1>1, <2>1
<1>5. LoopsNest(Fn.body, pc)
  BY <1>1, <1>3, LoopsNested
<1>6. w \in OpenLoops(Fn.body, pc) /\ LoopDepth(Fn.body, w) = l - 1
  BY <1>1, <1>4, <1>5, Innermost
<1>7. Targets(Blocks, w, ExitOf(w), NextOf(w))
  BY <1>6 DEF CInv
<1>8. ExitOf(w) = loopExitStack[l] /\ NextOf(w) = loopContinueStack[l]
  <2> HIDE DEF w, l
  <2>1. LoopDepth(Fn.body, w) + 1 = l
    BY <1>4, <1>6
  <2> QED
    BY <2>1 DEF ExitOf, NextOf
<1>9. Last(loopExitStack) = loopExitStack[l] /\ Last(loopContinueStack) = loopContinueStack[l]
  BY <1>1 DEF Last
<1>10. loopContinueStack # << >>
  <2> HIDE DEF l
  <2> QED
    BY <1>1, <1>4, EmptyStack
<1> QED
  BY <1>7, <1>8, <1>9, <1>10

LEMMA StatementJumps ==
  ASSUME GInv, CInv, status = "gen", pc <= Len(Fn.body), pc \in DOMAIN Fn.body,
         NEW bs, NEW new, StepCode(bs, new), NEW i \in new
  PROVE  JumpOK(bs, i)
<1>1. i.at[1] = cur /\ i.at[2] = pc /\ NodeOf(i) = Node
  BY DEF StepCode, FreshSet, Here, NodeOf, Node, Fn
<1> DEFINE w == InnermostLoop(Fn.body, pc)
<1>2. IsBlocks(Blocks) /\ Grown(Blocks, bs, new) /\ DOMAIN bs = 1 .. Len(bs)
  BY AtBlocks, SeqBasics DEF CInv, StepCode, Grown, IsBlocks
<1>3. CASE Node.k = "break"
  <2>1. loopExitStack # << >> /\ i.to = {Last(loopExitStack)}
    BY <1>3 DEF StepCode
  <2>2. Targets(Blocks, w, Last(loopExitStack), Last(loopContinueStack))
    BY <2>1, TopOfLoops
  <2>3. Targets(bs, w, Last(loopExitStack), Last(loopContinueStack))
    BY <1>2, <2>2, GrownTargets
  <2> QED
    BY <1>1, <1>2, <1>3, <2>1, <2>3 DEF JumpOK, Targets, Fn
<1>4. CASE Node.k = "continue"
  <2>1. loopContinueStack # << >> /\ i.to = {Last(loopContinueStack)}
    BY <1>4 DEF StepCode
  <2>2. loopExitStack # << >>
    <3>1. Len(loopExitStack) = Len(loopContinueStack) /\ IsSeq(loopContinueStack)
      BY DEF GInv, TypeOK
    <3>2. Len(loopContinueStack) # 0
      BY <2>1, <3>1, EmptySeq DEF IsSeq
    <3> QED
      BY <3>1, <3>2, EmptyStack
  <2>3. Targets(Blocks, w, Last(loopExitStack), Last(loopContinueStack))
    BY <2>2, TopOfLoops
  <2>4. Targets(bs, w, Last(loopExitStack), Last(loopContinueStack))
    BY <1>2, <2>3, GrownTargets
  <2> QED
    BY <1>1, <1>2, <1>4, <2>1, <2>4 DEF JumpOK, Targets, Fn
<1> QED
  BY <1>1, <1>3, <1>4 DEF JumpOK

(* The loop stacks keep each open loop's targets at the loop's depth.      *)
LEMMA StatementLoops ==
  ASSUME GInv, CInv, status = "gen", pc <= Len(Fn.body), Advance,
         NEW bs, NEW new, StepCode(bs, new)
  PROVE  (\A w \in OpenLoops(Fn.body, pc) : Targets(Blocks, w, ExitOf(w), NextOf(w)))'
<1> DEFINE l == LoopDepth(Fn.body, pc)
           D(w) == LoopDepth(Fn.body, w)
<1>1. /\ cur <= Len(prog) /\ IsSeq(loopExitStack) /\ IsSeq(loopContinueStack)
      /\ Len(loopExitStack) = l /\ Len(loopContinueStack) = l /\ pc \in Nat \ {0}
  BY AtStatement DEF GInv, TypeOK
<1>2. cur \in 1 .. Len(prog)
  BY <1>1, TargetExists
<1>3. IsSeq(Fn.body) /\ Len(Fn.body) \in Nat /\ WellNested(Fn.body)
  BY <1>2, CurrentBody DEF GInv
<1>4. pc \in 1 .. Len(Fn.body) /\ LoopsNest(Fn.body, pc) /\ l >= 0 /\ l \in Nat
  <2>1. l \in Nat
    BY <1>1, SeqBasics
  <2> QED
    BY <1>1, <1>3, <2>1, LoopsNested
<1>5. IsBlocks(Blocks) /\ Grown(Blocks, bs, new)
  BY AtBlocks DEF CInv, StepCode
<1>6. /\ Fn' = Fn /\ Blocks' = bs /\ pc' = pc + 1
      /\ OpenLoops(Fn.body, pc + 1) = {w \in OpenLoops(Fn.body, pc) : ~EndsList(Fn.body, w+1, pc)}
                                        \cup IF Node.k = "while" THEN {pc} ELSE {}
  <2>1. Target \in DOMAIN ir /\ Target' = Target
    BY AtBlocks DEF CInv, Advance, declared, Target, Fn
  <2>2. Blocks' = bs
    BY <2>1 DEF StepCode, Writes, Blocks
  <2> QED
    BY <1>1, <2>2, OpenLoopsNext DEF Advance, Fn, Node
<1>7. \A w \in OpenLoops(Fn.body, pc) : D(w) \in 0 .. l - 1 /\ Targets(bs, w, ExitOf(w), NextOf(w))
  <2> SUFFICES ASSUME NEW w \in OpenLoops(Fn.body, pc)
               PROVE  D(w) \in 0 .. l - 1 /\ Targets(bs, w, ExitOf(w), NextOf(w))
    OBVIOUS
  <2>1. D(w) \in 0 .. l - 1
    BY <1>4 DEF LoopsNest
  <2>2. Targets(Blocks, w, ExitOf(w), NextOf(w))
    BY DEF CInv
  <2> QED
    BY <1>5, <2>1, <2>2, GrownTargets
<1> SUFFICES ASSUME NEW w \in OpenLoops(Fn.body, pc + 1)
             PROVE  Targets(bs, w, loopExitStack'[D(w) + 1], loopContinueStack'[D(w) + 1])
  BY <1>6 DEF ExitOf, NextOf
<1>8. CASE w \in OpenLoops(Fn.body, pc) /\ ~EndsList(Fn.body, w+1, pc)
  <2>1. D(w) \in 0 .. l - 1 /\ Targets(bs, w, loopExitStack[D(w) + 1], loopContinueStack[D(w) + 1])
    BY <1>7, <1>8 DEF ExitOf, NextOf
  <2>2. /\ loopExitStack'[D(w) + 1] = loopExitStack[D(w) + 1]
        /\ loopContinueStack'[D(w) + 1] = loopContinueStack[D(w) + 1]
    <3> DEFINE d == D(w) + 1
    <3>1. d \in 1 .. l /\ d \in 1 .. Len(loopExitStack) /\ d \in 1 .. Len(loopContinueStack)
      <4> HIDE DEF l
      <4> QED
        BY <1>1, <1>4, <2>1
    <3>2. CASE Node.k = "while"
      <4>1. PICK exit, next : /\ loopExitStack' = Append(loopExitStack, exit)
                              /\ loopContinueStack' = Append(loopContinueStack, next)
        BY <3>2 DEF StepCode
      <4> HIDE DEF d
      <4> QED
        BY <1>1, <3>1, <4>1, StackPush DEF d
    <3>3. CASE Node.k = "endwhile"
      <4>1. loopExitStack' = Front(loopExitStack) /\ loopContinueStack' = Front(loopContinueStack)
        BY <3>3 DEF StepCode
      <4>2. D(w) # l - 1
        BY <1>3, <1>4, <1>8, <3>3, LoopEnds DEF Node
      <4>3. d \in 1 .. Len(loopExitStack) - 1 /\ d \in 1 .. Len(loopContinueStack) - 1
        <5>1. d # l
          <6> HIDE DEF l
          <6> QED
            BY <1>4, <2>1, <4>2
        <5> HIDE DEF l, d
        <5> QED
          BY <1>1, <1>4, <3>1, <5>1
      <4>4. loopExitStack # << >> /\ loopContinueStack # << >>
        <5> HIDE DEF d
        <5> QED
          BY <3>1, EmptyStack
      <4> HIDE DEF d
      <4> QED
        BY <1>1, <4>1, <4>3, <4>4, StackPop DEF d
    <3>4. CASE Node.k \notin {"while", "endwhile"}
      BY <3>4 DEF StepCode, loops
    <3> QED
      BY <3>2, <3>3, <3>4
  <2> QED
    BY <2>1, <2>2
<1>9. CASE w = pc /\ Node.k = "while"
  <2>1. PICK exit, next : /\ Targets(bs, pc, exit, next)
                          /\ loopExitStack' = Append(loopExitStack, exit)
                          /\ loopContinueStack' = Append(loopContinueStack, next)
    BY <1>9 DEF StepCode
  <2>2. loopExitStack'[l + 1] = exit /\ loopContinueStack'[l + 1] = next
    <3> HIDE DEF l
    <3> QED
      BY <1>1, <2>1, StackPush
  <2> QED
    BY <1>9, <2>1, <2>2
<1> QED
  BY <1>6, <1>8, <1>9

LEMMA StatementCInv == GInv /\ NamesAreFlat /\ CInv /\ GenStmt => CInv'
<1> SUFFICES ASSUME GInv, NamesAreFlat, CInv, GenStmt PROVE CInv'
  OBVIOUS
<1>1. status = "gen" /\ pc <= Len(Fn.body)
  BY DEF GenStmt, GenLet, GenExpr, GenReturn, GenDefer, GenIf, GenElse, GenEndIf,
         GenWhile, GenEndWhile, GenBreak, GenContinue, At
<1>2. CASE status' = "fatal"
  <2>1. \E why : Fatal(why)
    BY <1>1, <1>2 DEF GenStmt, GenLet, GenExpr, GenReturn, GenDefer, GenIf, GenElse, GenEndIf,
           GenWhile, GenEndWhile, GenBreak, GenContinue, Jump, Advance
  <2> QED
    BY <1>2, <2>1, QuietStep DEF Fatal, declared
<1>3. CASE status' # "fatal"
  <2>1. Advance
    BY <1>3 DEF GenStmt, GenLet, GenExpr, GenReturn, GenDefer, GenIf, GenElse, GenEndIf,
           GenWhile, GenEndWhile, GenBreak, GenContinue, Jump, Fatal
  <2>2. PICK bs, new : StepCode(bs, new)
    BY <1>3, StatementCode DEF CInv
  <2>3. cur \in DOMAIN prog /\ pc \in DOMAIN Fn.body /\ Target \in DOMAIN ir
    <3>1. cur <= Len(prog) /\ pc \in Nat \ {0}
      BY <1>1, AtStatement DEF GInv, TypeOK
    <3>2. cur \in 1 .. Len(prog) /\ Target \in DOMAIN ir
      BY <1>1, <3>1, TargetExists
    <3>3. IsSeq(Fn.body) /\ cur \in DOMAIN prog
      BY <3>2, CurrentBody DEF GInv
    <3> QED
      BY <1>1, <3>1, <3>2, <3>3, SeqBasics
  <2>4. \A i \in new : UseOK(i) /\ JumpOK(bs, i)
    <3> SUFFICES ASSUME NEW i \in new PROVE UseOK(i) /\ JumpOK(bs, i)
      OBVIOUS
    <3>1. i.at = Here /\ i.slots \subseteq Slots
      BY <2>2 DEF StepCode, FreshSet
    <3> QED
      BY <1>1, <2>2, <2>3, <3>1, StatementUses, StatementJumps
  <2>5. IRBlocks' /\ (\A f \in DOMAIN ir : CodeOK(ir[f]))'
    <3>1. IRBlocks /\ (\A f \in DOMAIN ir : CodeOK(ir[f])) /\ prog' = prog /\ functions' = functions
      BY <2>1 DEF CInv, Advance, declared
    <3>2. Writes(bs) /\ Grown(Blocks, bs, new)
      BY <2>2 DEF StepCode
    <3> QED
      BY <2>3, <2>4, <3>1, <3>2, WriteCode
  <2>6. (\A w \in OpenLoops(Fn.body, pc) : Targets(Blocks, w, ExitOf(w), NextOf(w)))'
    BY <1>1, <2>1, <2>2, StatementLoops
  <2>7. status' = "gen"
    BY <1>1, <2>1 DEF Advance
  <2> QED
    BY <2>5, <2>6, <2>7 DEF CInv
<1> QED
  BY <1>2, <1>3

LEMMA NextCInv == GInv /\ NamesAreFlat /\ CInv /\ [Next]_vars => CInv'
<1> SUFFICES ASSUME GInv, NamesAreFlat, CInv, [Next]_vars PROVE CInv'
  OBVIOUS
<1>1. CASE DeclareFunction
  BY <1>1, QuietStep DEF DeclareFunction
<1>2. CASE StartDefining
  BY <1>2, QuietStep DEF StartDefining, declared
<1>3. CASE BeginFunction
  BY <1>3, BeginCode
<1>4. CASE EndFunction
  BY <1>4, EndCode
<1>5. CASE Finish
  BY <1>5, QuietStep DEF Finish, declared
<1>6. CASE GenStmt
  BY <1>6, StatementCInv
<1>7. CASE UNCHANGED vars
  BY <1>7, QuietStep DEF vars, declared
<1> QED
  BY <1>1, <1>2, <1>3, <1>4, <1>5, <1>6, <1>7 DEF Next, Emit, Stopped

THEOREM CodeGenCode == Spec => []CInv
<1>1. Init => GInv /\ NamesAreFlat /\ CInv
  BY InitGInv, InitCInv DEF Init, NamesAreFlat
<1>2. GInv /\ NamesAreFlat /\ CInv /\ [Next]_vars => (GInv /\ NamesAreFlat /\ CInv)'
  BY NextGInv, NextNames, NextCInv
<1> QED
  BY <1>1, <1>2, PTL DEF Spec

(* In every program a reference goes to the declaration in scope or to a   *)
(* later one of the name whose block is closed, and to nothing else.       *)
THEOREM CodeGenLexical == Spec => []LexicalUnlessShadowed
<1>1. CInv => LexicalUnlessShadowed
  BY CodeProperties
<1> QED
  BY <1>1, CodeGenCode, PTL

(* In every program every break and continue goes where its own loop's     *)
(* end and condition are.                                                  *)
THEOREM CodeGenJumps == Spec => []JumpsMatchSource
<1>1. CInv => JumpsMatchSource
  BY CodeProperties
<1> QED
  BY <1>1, CodeGenCode, PTL

-----------------------------------------------------------------------------
(* The calls in a piece of code: of one instruction, of none, of two pieces *)
(* joined and of several.                                                  *)

CallOf(i, at) == IF i.op = "call" /\ i.at = at THEN <<i.callee>> ELSE << >>

LEMMA CallsOfEach ==
  ASSUME NEW code, IsSeq(code), NEW at, NEW m, m = [j \in DOMAIN code |-> CallOf(code[j], at)]
  PROVE  /\ CallsAt(code, at) = FlattenSeq(m) /\ IsSeq(m) /\ Len(m) = Len(code)
         /\ \A j \in 1 .. Len(code) : m[j] = CallOf(code[j], at)
         /\ \A j \in 1 .. Len(m) : IsSeq(m[j])
<1>1. CallsAt(code, at) = FlattenSeq(m)
  BY DEF CallsAt, CallOf
<1>2. DOMAIN code = 1 .. Len(code)
  BY SeqBasics
<1>3. \A j \in 1 .. Len(code) : m[j] = CallOf(code[j], at)
  BY <1>2
<1>4. \A j \in DOMAIN code : m[j] = CallOf(code[j], at)
  OBVIOUS
<1>5. m = [j \in DOMAIN code |-> m[j]]
  BY <1>4
<1>6. IsSeq(m) /\ Len(m) = Len(code)
  BY <1>5, Mapped
<1>7. \A i : IsSeq(CallOf(i, at))
  BY EmptyStack, OneEntryStack DEF CallOf
<1> QED
  BY <1>1, <1>3, <1>6, <1>7

LEMMA CallsAreSeq ==
  ASSUME NEW code, IsSeq(code), NEW at
  PROVE  IsSeq(CallsAt(code, at))
<1> DEFINE m == [j \in DOMAIN code |-> CallOf(code[j], at)]
<1> HIDE DEF m
<1>1. CallsAt(code, at) = FlattenSeq(m) /\ IsSeq(m) /\ \A j \in 1 .. Len(m) : IsSeq(m[j])
  BY CallsOfEach DEF m
<1> QED
  BY <1>1, FlattenedSeqs

LEMMA CallsJoined ==
  ASSUME NEW c, IsSeq(c), NEW d, IsSeq(d), NEW at
  PROVE  CallsAt(c \o d, at) = CallsAt(c, at) \o CallsAt(d, at)
<1> DEFINE cd == c \o d
           m == [j \in DOMAIN c |-> CallOf(c[j], at)]
           n == [j \in DOMAIN d |-> CallOf(d[j], at)]
           mn == [j \in DOMAIN cd |-> CallOf(cd[j], at)]
<1>1. IsSeq(cd) /\ Len(cd) = Len(c) + Len(d) /\ Len(c) \in Nat /\ Len(d) \in Nat
      /\ \A i \in 1 .. Len(c) + Len(d) : cd[i] = IF i <= Len(c) THEN c[i] ELSE d[i - Len(c)]
  <2> DEFINE R == Range(c) \cup Range(d)
  <2>1. c \in Seq(R) /\ d \in Seq(R)
    BY SeqMonotonic DEF IsSeq
  <2> HIDE DEF R
  <2> QED
    BY <2>1, ConcatProperties, Concatenation, SeqBasics
<1> HIDE DEF cd, m, n, mn
<1>2. /\ CallsAt(c, at) = FlattenSeq(m) /\ IsSeq(m) /\ Len(m) = Len(c)
      /\ \A j \in 1 .. Len(c) : m[j] = CallOf(c[j], at)
      /\ \A j \in 1 .. Len(m) : IsSeq(m[j])
  BY CallsOfEach DEF m
<1>3. /\ CallsAt(d, at) = FlattenSeq(n) /\ IsSeq(n) /\ Len(n) = Len(d)
      /\ \A j \in 1 .. Len(d) : n[j] = CallOf(d[j], at)
      /\ \A j \in 1 .. Len(n) : IsSeq(n[j])
  BY CallsOfEach DEF n
<1>4. /\ CallsAt(cd, at) = FlattenSeq(mn) /\ IsSeq(mn) /\ Len(mn) = Len(cd)
      /\ \A j \in 1 .. Len(cd) : mn[j] = CallOf(cd[j], at)
  BY <1>1, CallsOfEach DEF mn
<1>5. mn = m \o n
  <2> DEFINE R == Range(m) \cup Range(n) \cup Range(mn)
             o == m \o n
  <2>1. m \in Seq(R) /\ n \in Seq(R) /\ mn \in Seq(R)
    BY <1>2, <1>3, <1>4, SeqMonotonic DEF IsSeq
  <2> HIDE DEF R, o
  <2>2. /\ o \in Seq(R) /\ Len(o) = Len(m) + Len(n)
        /\ \A i \in 1 .. Len(m) + Len(n) : o[i] = IF i <= Len(m) THEN m[i] ELSE n[i - Len(m)]
    BY <2>1, ConcatProperties DEF o
  <2>3. Len(mn) = Len(o)
    BY <1>1, <1>2, <1>3, <1>4, <2>2
  <2>4. ASSUME NEW i \in 1 .. Len(mn) PROVE mn[i] = o[i]
    <3>1. mn[i] = CallOf(cd[i], at) /\ i \in 1 .. Len(c) + Len(d)
      BY <1>1, <1>4
    <3>2. CASE i <= Len(c)
      <4>1. i \in 1 .. Len(c) /\ cd[i] = c[i] /\ m[i] = CallOf(c[i], at)
        BY <1>1, <1>2, <3>1, <3>2
      <4>2. o[i] = m[i]
        BY <1>2, <1>3, <2>2, <3>1, <3>2
      <4> QED
        BY <3>1, <4>1, <4>2
    <3>3. CASE ~(i <= Len(c))
      <4>1. i - Len(c) \in 1 .. Len(d) /\ cd[i] = d[i - Len(c)]
        BY <1>1, <3>1, <3>3
      <4>2. n[i - Len(c)] = CallOf(d[i - Len(c)], at)
        BY <1>3, <4>1
      <4>3. o[i] = n[i - Len(c)]
        BY <1>2, <1>3, <2>2, <3>1, <3>3
      <4> QED
        BY <3>1, <4>1, <4>2, <4>3
    <3> QED
      BY <3>2, <3>3
  <2>5. mn = o
    BY <2>1, <2>2, <2>3, <2>4, SeqEqual
  <2> QED
    BY <2>5 DEF o
<1>6. FlattenSeq(m \o n) = FlattenSeq(m) \o FlattenSeq(n)
  BY <1>2, <1>3, FlattenJoined
<1> QED
  BY <1>2, <1>3, <1>4, <1>5, <1>6 DEF cd

LEMMA CallsOne ==
  ASSUME NEW i, NEW at
  PROVE  CallsAt(<<i>>, at) = CallOf(i, at)
<1> DEFINE code == <<i>>
           m == [j \in DOMAIN code |-> CallOf(code[j], at)]
<1>1. IsSeq(code) /\ Len(code) = 1 /\ code[1] = i
  BY OneEntryStack
<1> HIDE DEF code, m
<1>2. /\ CallsAt(code, at) = FlattenSeq(m) /\ IsSeq(m) /\ Len(m) = 1
      /\ m[1] = CallOf(i, at) /\ IsSeq(CallOf(i, at))
  <2>1. /\ CallsAt(code, at) = FlattenSeq(m) /\ IsSeq(m) /\ Len(m) = Len(code)
        /\ \A j \in 1 .. Len(code) : m[j] = CallOf(code[j], at)
        /\ \A j \in 1 .. Len(m) : IsSeq(m[j])
    BY <1>1, CallsOfEach DEF m
  <2>2. 1 \in 1 .. Len(code) /\ 1 \in 1 .. Len(m)
    BY <1>1, <2>1
  <2> QED
    BY <1>1, <2>1, <2>2
<1>3. 1 \in 1 .. Len(m) /\ \A k \in 1 .. Len(m) : m[k] = IF k = 1 THEN CallOf(i, at) ELSE << >>
  BY <1>2
<1>4. FlattenSeq(m) = CallOf(i, at)
  BY <1>2, <1>3, FlattenOne
<1> QED
  BY <1>2, <1>4 DEF code

LEMMA NoCalls ==
  ASSUME NEW code, IsSeq(code), NEW at, \A i \in Range(code) : i.op # "call" \/ i.at # at
  PROVE  CallsAt(code, at) = << >>
<1> DEFINE m == [j \in DOMAIN code |-> CallOf(code[j], at)]
           g == [k \in 0 .. Len(m) |-> << >>]
<1> HIDE DEF m
<1>1. CallsAt(code, at) = FlattenSeq(m) /\ IsSeq(m) /\ Len(m) = Len(code)
      /\ (\A j \in 1 .. Len(code) : m[j] = CallOf(code[j], at))
      /\ (\A j \in 1 .. Len(m) : IsSeq(m[j]))
  BY CallsOfEach DEF m
<1>2. Len(m) \in Nat
  BY <1>1, SeqBasics
<1>3. \A k \in 1 .. Len(m) : m[k] = << >>
  BY <1>1, RangeOf DEF CallOf
<1>4. << >> \o << >> = << >>
  BY EmptyStack, ConcatEmpty
<1>5. g[0] = << >> /\ g[Len(m)] = << >> /\ \A k \in 1 .. Len(m) : g[k] = << >> /\ g[k-1] = << >>
  BY <1>2
<1> HIDE DEF g
<1>6. \A k \in 1 .. Len(m) : g[k] = g[k-1] \o m[k]
  BY <1>3, <1>4, <1>5
<1>7. FlattenSeq(m) = g[Len(m)]
  BY <1>1, <1>5, <1>6, FlattenedGrows
<1> QED
  BY <1>1, <1>5, <1>7

CallsOf(cs, at) == [k \in DOMAIN cs |-> CallsAt(cs[k], at)]

LEMMA CallsFlat ==
  ASSUME NEW cs, IsSeq(cs), \A k \in 1 .. Len(cs) : IsSeq(cs[k]), NEW at,
         NEW ms, ms = CallsOf(cs, at)
  PROVE  /\ IsSeq(ms) /\ Len(ms) = Len(cs) /\ CallsAt(FlattenSeq(cs), at) = FlattenSeq(ms)
         /\ \A k \in 1 .. Len(cs) : ms[k] = CallsAt(cs[k], at) /\ IsSeq(ms[k])
<1>0. ms = [k \in DOMAIN cs |-> CallsAt(cs[k], at)]
  BY DEF CallsOf
<1> DEFINE g == [k \in 0 .. Len(cs) |-> CallsAt(Flattened(cs, k), at)]
<1>1. DOMAIN cs = 1 .. Len(cs) /\ Len(cs) \in Nat
  BY SeqBasics
<1>2. \A k \in 1 .. Len(cs) : ms[k] = CallsAt(cs[k], at) /\ IsSeq(ms[k])
  BY <1>0, <1>1, CallsAreSeq
<1>3. IsSeq(ms) /\ Len(ms) = Len(cs)
  <2>1. \A k \in DOMAIN cs : ms[k] = CallsAt(cs[k], at)
    BY <1>0
  <2>2. ms = [k \in DOMAIN cs |-> ms[k]]
    BY <1>0, <2>1
  <2> QED
    BY <2>2, Mapped
<1>4. \A k \in 0 .. Len(cs) : g[k] = CallsAt(Flattened(cs, k), at)
  OBVIOUS
<1> HIDE DEF g
<1>5. g[0] = << >>
  <2>1. 0 \in 0 .. Len(cs)
    BY <1>1
  <2>3. Flattened(cs, 0) = << >>
    BY FlattenedIs
  <2>2. CallsAt(<< >>, at) = << >>
    BY RangeOfNothing, NoCalls
  <2> QED
    BY <1>4, <2>1, <2>2, <2>3
<1>6. ASSUME NEW k \in 1 .. Len(cs) PROVE g[k] = g[k-1] \o ms[k]
  <2>1. k \in 0 .. Len(cs) /\ k - 1 \in 0 .. Len(cs)
    BY <1>1
  <2>2. Flattened(cs, k) = Flattened(cs, k-1) \o cs[k] /\ IsSeq(Flattened(cs, k-1)) /\ IsSeq(cs[k])
    BY <2>1, FlattenedIs, FlattenedSeqs
  <2>3. CallsAt(Flattened(cs, k), at) = CallsAt(Flattened(cs, k-1), at) \o CallsAt(cs[k], at)
    BY <2>2, CallsJoined
  <2> QED
    BY <1>2, <1>4, <2>1, <2>3
<1>7. FlattenSeq(ms) = g[Len(ms)]
  BY <1>2, <1>3, <1>5, <1>6, FlattenedGrows
<1>8. Len(cs) \in 0 .. Len(cs)
  BY <1>1
<1>9. g[Len(cs)] = CallsAt(FlattenSeq(cs), at)
  BY <1>4, <1>8, FlattenedIs
<1> QED
  BY <1>2, <1>3, <1>7, <1>9

-----------------------------------------------------------------------------
(* The recursion in CallOrder.                                             *)
All(C, es) == FlattenSeq([i \in DOMAIN es |-> C[es[i]]])
OrderBody(p, C, e) ==
  CASE e.k = "unary" -> C[e.r]
    [] e.k = "bin" -> C[e.l] \o C[e.r]
    [] e.k = "call" -> Append(All(C, e.args), e.f)
    [] e.k = "arraylit" -> IF e.elems = << >> THEN << >> ELSE C[e.elems[1]] \o All(C, e.elems)
    [] e.k = "index" -> C[e.a] \o C[e.i]
    [] OTHER -> << >>
OrderFit(p, e, v) == IsSeq(v)
Order == INSTANCE Recursion WITH Dom <- LowDom, Rank <- LowRank, Body <- OrderBody, Fit <- OrderFit

LEMMA AllSeqs ==
  ASSUME NEW C, NEW es, IsSeq(es), \A i \in DOMAIN es : IsSeq(C[es[i]])
  PROVE  IsSeq(All(C, es))
<1> DEFINE m == [i \in DOMAIN es |-> C[es[i]]]
<1>1. m = [i \in DOMAIN es |-> m[i]] /\ DOMAIN m = DOMAIN es /\ \A i \in DOMAIN m : IsSeq(m[i])
  OBVIOUS
<1> HIDE DEF m
<1>2. IsSeq(m) /\ DOMAIN m = 1 .. Len(m)
  BY <1>1, Mapped, SeqBasics
<1>3. IsSeq(FlattenSeq(m))
  BY <1>1, <1>2, FlattenedSeqs
<1> QED
  BY <1>3 DEF All, m

(* a sequence that is not empty has a first element                        *)
LEMMA HasFirst ==
  ASSUME NEW s, IsSeq(s), s # << >>
  PROVE  1 \in DOMAIN s /\ 1 \in 1 .. Len(s)
<1>1. Len(s) \in Nat /\ DOMAIN s = 1 .. Len(s) /\ (Len(s) = 0 => s = << >>)
  BY SeqBasics
<1> QED
  BY <1>1

LEMMA CallOrderIs ==
  ASSUME NEW e \in Exprs
  PROVE  CallOrder[e] = OrderBody(0, CallOrder, e) /\ IsSeq(CallOrder[e])
<1>1. ASSUME NEW c \in Exprs, NEW t, NEW u,
             Order!FitBelow(0, t, Depth[c]), Order!Agree(0, t, u, Depth[c])
      PROVE  OrderBody(0, t, c) = OrderBody(0, u, c) /\ IsSeq(OrderBody(0, t, c))
  <2>1. \A d \in Simpler(c) : t[d] = u[d] /\ IsSeq(t[d])
    BY <1>1 DEF Order!Agree, Order!FitBelow, LowDom, LowRank, Simpler, OrderFit
  <2>2. CASE c.k = "unary"
    <3>1. t[c.r] = u[c.r] /\ IsSeq(t[c.r])
      BY <2>1, <2>2, Operands
    <3> QED
      BY <2>2, <3>1 DEF OrderBody
  <2>3. CASE c.k = "bin"
    <3>1. t[c.l] = u[c.l] /\ IsSeq(t[c.l]) /\ t[c.r] = u[c.r] /\ IsSeq(t[c.r])
      BY <2>1, <2>3, Operands
    <3>2. IsSeq(t[c.l] \o t[c.r])
      BY <3>1, Concatenation
    <3> QED
      BY <2>3, <3>1, <3>2 DEF OrderBody
  <2>4. CASE c.k = "call"
    <3>1. IsSeq(c.args) /\ \A i \in DOMAIN c.args : t[c.args[i]] = u[c.args[i]] /\ IsSeq(t[c.args[i]])
      BY <2>1, <2>4, Operands
    <3>2. [i \in DOMAIN c.args |-> t[c.args[i]]] = [i \in DOMAIN c.args |-> u[c.args[i]]]
      BY <3>1
    <3>3. IsSeq(Append(All(t, c.args), c.f))
      BY <3>1, AllSeqs, StackPush
    <3> QED
      BY <2>4, <3>2, <3>3 DEF OrderBody, All
  <2>5. CASE c.k = "arraylit"
    <3>1. IsSeq(c.elems) /\ \A i \in DOMAIN c.elems : t[c.elems[i]] = u[c.elems[i]] /\ IsSeq(t[c.elems[i]])
      BY <2>1, <2>5, Operands
    <3>2. [i \in DOMAIN c.elems |-> t[c.elems[i]]] = [i \in DOMAIN c.elems |-> u[c.elems[i]]]
      BY <3>1
    <3>3. IsSeq(All(t, c.elems)) /\ All(t, c.elems) = All(u, c.elems)
      BY <3>1, <3>2, AllSeqs DEF All
    <3>4. CASE c.elems # << >>
      <4>1. t[c.elems[1]] = u[c.elems[1]] /\ IsSeq(t[c.elems[1]])
        BY <3>1, <3>4, HasFirst
      <4>2. IsSeq(t[c.elems[1]] \o All(t, c.elems))
        BY <3>3, <4>1, Concatenation
      <4> QED
        BY <2>5, <3>3, <3>4, <4>1, <4>2 DEF OrderBody
    <3>5. CASE c.elems = << >>
      <4>1. OrderBody(0, t, c) = << >> /\ OrderBody(0, u, c) = << >>
        BY <2>5, <3>5 DEF OrderBody
      <4> QED
        BY <4>1, EmptyStack
    <3> QED
      BY <3>4, <3>5
  <2>6. CASE c.k = "index"
    <3>1. t[c.a] = u[c.a] /\ IsSeq(t[c.a]) /\ t[c.i] = u[c.i] /\ IsSeq(t[c.i])
      BY <2>1, <2>6, Operands
    <3>2. IsSeq(t[c.a] \o t[c.i])
      BY <3>1, Concatenation
    <3> QED
      BY <2>6, <3>1, <3>2 DEF OrderBody
  <2>7. CASE c.k \notin {"unary", "bin", "call", "arraylit", "index"}
    <3>1. OrderBody(0, t, c) = << >> /\ OrderBody(0, u, c) = << >>
      BY <2>7 DEF OrderBody
    <3> QED
      BY <3>1, EmptyStack
  <2> QED
    BY <2>2, <2>3, <2>4, <2>5, <2>6, <2>7
<1>2. Order!LooksDown(0)
  BY <1>1, ExprsAssumption DEF Order!LooksDown, LowDom, LowRank, OrderFit
<1> DEFINE f == Order!Defined(0)
<1>3. f = [c \in LowDom(0) |-> OrderBody(0, f, c)] /\ \A c \in LowDom(0) : OrderFit(0, c, f[c])
  BY <1>2, Order!Unfolding
<1>4. f = CallOrder
  BY Zenon DEF Order!Defined, LowDom, CallOrder, OrderBody, All
<1> HIDE DEF f
<1>5. f[e] = OrderBody(0, f, e) /\ IsSeq(f[e])
  BY <1>3 DEF LowDom, OrderFit
<1> QED
  BY <1>4, <1>5

-----------------------------------------------------------------------------
(* The values of expressions joined make their calls in turn.               *)

(* v makes the calls c, in turn                                            *)
Does(v, c, at) == IsValue(v) /\ IsSeq(v.code) /\ (v.stop = "" => CallsAt(v.code, at) = c)

(* the code makes the calls c, in turn                                     *)
Makes(code, c, at) == IsSeq(code) /\ CallsAt(code, at) = c

Quiet(code, at) == IsSeq(code) /\ CallsAt(code, at) = << >>

LEMMA QuietOne ==
  ASSUME NEW i, i.op # "call", NEW at
  PROVE  Quiet(<<i>>, at)
  BY OneEntryStack, CallsOne DEF Quiet, CallOf

LEMMA QuietTwo ==
  ASSUME NEW i, NEW j, i.op # "call", j.op # "call", NEW at
  PROVE  Quiet(<<i, j>>, at)
<1> DEFINE s == <<i, j>>
<1>1. IsSeq(s) /\ Range(s) = {i, j}
  BY RangeOfTwo
<1> HIDE DEF s
<1> QED
  BY <1>1, NoCalls DEF Quiet, s

LEMMA QuietNone == \A at : Quiet(<< >>, at)
  BY RangeOfNothing, NoCalls DEF Quiet

LEMMA QuietMore ==
  ASSUME NEW c, IsSeq(c), NEW q, NEW at, Quiet(q, at)
  PROVE  /\ IsSeq(c \o q) /\ CallsAt(c \o q, at) = CallsAt(c, at)
         /\ IsSeq(q \o c) /\ CallsAt(q \o c, at) = CallsAt(c, at)
<1>0. IsSeq(c) /\ IsSeq(q)
  BY DEF Quiet
<1>1. IsSeq(c) /\ IsSeq(q) /\ CallsAt(q, at) = << >> /\ IsSeq(CallsAt(c, at))
  BY CallsAreSeq DEF Quiet
<1>2. CallsAt(c \o q, at) = CallsAt(c, at) \o << >>
  <2>1. CallsAt(c \o q, at) = CallsAt(c, at) \o CallsAt(q, at)
    BY <1>0, CallsJoined
  <2> QED
    BY <1>1, <2>1
<1>4. CallsAt(q \o c, at) = << >> \o CallsAt(c, at)
  <2>1. CallsAt(q \o c, at) = CallsAt(q, at) \o CallsAt(c, at)
    BY <1>0, CallsJoined
  <2> QED
    BY <1>1, <2>1
<1>3. IsSeq(c \o q) /\ IsSeq(q \o c)
  BY <1>1, Concatenation
<1> QED
  BY <1>1, <1>2, <1>3, <1>4, ConcatEmpty

(* the calls of several expressions *)
Several(vs, cs, at) ==
  /\ IsSeq(vs) /\ IsSeq(cs) /\ Len(cs) = Len(vs)
  /\ \A i \in 1 .. Len(vs) : IsSeq(cs[i]) /\ Does(vs[i], cs[i], at)

(* r is the value of vs in turn, and then the code is *)
Follows(vs, cs, is, at, r) ==
  /\ IsValue(r) /\ IsSeq(r.code)
  /\ r.stop = "" => /\ \A i \in 1 .. Len(vs) : vs[i].stop = ""
                    /\ CallsAt(r.code, at) = FlattenSeq(cs) \o CallsAt(is, at)

LEMMA SameEntries ==
  ASSUME NEW ms, IsSeq(ms), NEW cs, IsSeq(cs), Len(ms) = Len(cs), \A k \in 1 .. Len(cs) : ms[k] = cs[k]
  PROVE  ms = cs
<1> DEFINE R == Range(ms) \cup Range(cs)
<1>1. ms \in Seq(R) /\ cs \in Seq(R)
  BY SeqMonotonic DEF IsSeq
<1> HIDE DEF R
<1> QED
  BY <1>1, SeqEqual

LEMMA CallsOfAll ==
  ASSUME NEW vs, NEW cs, NEW at, Several(vs, cs, at), \A i \in 1 .. Len(vs) : vs[i].stop = "",
         NEW codes, IsSeq(codes), Len(codes) = Len(vs),
         \A k \in 1 .. Len(codes) : IsSeq(codes[k]) /\ CallsAt(codes[k], at) = CallsAt(vs[k].code, at)
  PROVE  Makes(FlattenSeq(codes), FlattenSeq(cs), at)
<1> DEFINE ms == CallsOf(codes, at)
<1>1. \A k \in 1 .. Len(codes) : IsSeq(codes[k])
  OBVIOUS
<1>2. /\ IsSeq(ms) /\ Len(ms) = Len(codes) /\ CallsAt(FlattenSeq(codes), at) = FlattenSeq(ms)
      /\ \A k \in 1 .. Len(codes) : ms[k] = CallsAt(codes[k], at)
  <2>1. ms = CallsOf(codes, at)
    OBVIOUS
  <2> HIDE DEF ms
  <2>2. IsSeq(codes)
    OBVIOUS
  <2>3. IsSeq(ms)
    BY <1>1, <2>1, <2>2, CallsFlat
  <2>4. Len(ms) = Len(codes)
    BY <1>1, <2>1, <2>2, CallsFlat
  <2>5. CallsAt(FlattenSeq(codes), at) = FlattenSeq(ms)
    BY <1>1, <2>1, <2>2, CallsFlat
  <2>6. \A k \in 1 .. Len(codes) : ms[k] = CallsAt(codes[k], at)
    <3>1. DOMAIN codes = 1 .. Len(codes)
      BY <2>2, SeqBasics
    <3> QED
      BY <2>1, <3>1 DEF CallsOf
  <2> QED
    BY <2>3, <2>4, <2>5, <2>6
<1> HIDE DEF ms
<1>3. IsSeq(FlattenSeq(codes))
  BY <1>1, FlattenedSeqs
<1>4. IsSeq(cs) /\ Len(ms) = Len(cs) /\ \A k \in 1 .. Len(cs) : ms[k] = cs[k]
  BY <1>2 DEF Several, Does
<1>5. ms = cs
  BY <1>2, <1>4, SameEntries
<1> QED
  BY <1>2, <1>3, <1>5 DEF Makes

LEMMA DoesThen ==
  ASSUME NEW vs, NEW cs, NEW at, Several(vs, cs, at), NEW ty, NEW is, IsSeq(is),
         NEW r, r = Then(vs, ty, is)
  PROVE  Follows(vs, cs, is, at, r)
<1> DEFINE bad == {i \in DOMAIN vs : vs[i].stop # ""}
           codes == [i \in DOMAIN vs |-> vs[i].code]
<1>1. DOMAIN vs = 1 .. Len(vs) /\ Len(vs) \in Nat /\ IsSeq(vs)
  BY SeqBasics DEF Several
<1>2. CASE bad # {}
  <2>1. bad \in SUBSET Nat
    <3>1. bad \subseteq DOMAIN vs
      OBVIOUS
    <3> HIDE DEF bad
    <3> QED
      BY <1>1, <3>1
  <2>2. Min(bad) \in bad
    <3> HIDE DEF bad
    <3> QED
      BY <1>2, <2>1, LeastNumber
  <2>3. Min(bad) \in 1 .. Len(vs) /\ vs[Min(bad)].stop # "" /\ r = vs[Min(bad)]
    <3>1. r = vs[Min(bad)]
      BY <1>2 DEF Then
    <3> QED
      BY <1>1, <2>2, <3>1
  <2>4. IsValue(r) /\ IsSeq(r.code)
    <3> HIDE DEF bad
    <3> QED
      BY <2>3 DEF Several, Does
  <2> QED
    BY <2>3, <2>4 DEF Follows
<1>3. CASE bad = {}
  <2>1. IsSeq(codes) /\ Len(codes) = Len(vs)
    <3>1. codes = [i \in DOMAIN vs |-> codes[i]]
      OBVIOUS
    <3> HIDE DEF codes
    <3> QED
      BY <1>1, <3>1, Mapped
  <2>2. \A i \in 1 .. Len(vs) : codes[i] = vs[i].code /\ IsSeq(codes[i]) /\ vs[i].stop = ""
    BY <1>1, <1>3 DEF Several, Does
  <2>3. r = Value(ty, FlattenSeq(codes) \o is)
    BY <1>3 DEF Then
  <2> HIDE DEF codes
  <2>4. IsValue(r) /\ r.code = FlattenSeq(codes) \o is
    <3> DEFINE all == FlattenSeq(codes) \o is
    <3>1. r = Value(ty, all)
      BY <2>3
    <3> HIDE DEF all
    <3>2. IsValue(Value(ty, all)) /\ Value(ty, all).code = all
      BY ZenonT(30) DEF IsValue, Value
    <3>3. IsValue(r) /\ r.code = all
      BY <3>1, <3>2
    <3> QED
      BY <3>3 DEF all
  <2> DEFINE c == FlattenSeq(codes)
             d == FlattenSeq(cs)
  <2>5. IsSeq(c) /\ CallsAt(c, at) = d
    <3>1. \A i \in 1 .. Len(vs) : vs[i].stop = ""
      BY <2>2
    <3>2. \A k \in 1 .. Len(codes) : IsSeq(codes[k]) /\ CallsAt(codes[k], at) = CallsAt(vs[k].code, at)
      BY <2>1, <2>2
    <3>3. Makes(FlattenSeq(codes), FlattenSeq(cs), at)
      BY <2>1, <3>1, <3>2, CallsOfAll
    <3> QED
      BY <3>3 DEF Makes
  <2>6. IsSeq(c) /\ IsSeq(is) /\ r.code = c \o is
    BY <2>4, <2>5
  <2> HIDE DEF c, d
  <2>7. CallsAt(c \o is, at) = CallsAt(c, at) \o CallsAt(is, at)
    BY <2>6, CallsJoined
  <2>8. IsSeq(r.code)
    BY <2>6, Concatenation
  <2>9. CallsAt(r.code, at) = d \o CallsAt(is, at)
    BY <2>5, <2>6, <2>7
  <2> QED
    BY <2>2, <2>4, <2>8, <2>9 DEF Follows, d
<1> QED
  BY <1>2, <1>3

LEMMA DoesQuietly ==
  ASSUME NEW vs, NEW cs, NEW at, Several(vs, cs, at), NEW ty, NEW is, Quiet(is, at)
  PROVE  Does(Then(vs, ty, is), FlattenSeq(cs), at)
<1> DEFINE r == Then(vs, ty, is)
           d == FlattenSeq(cs)
<1>0. IsSeq(is)
  BY DEF Quiet
<1>1. CallsAt(is, at) = << >>
  BY DEF Quiet
<1>2. Follows(vs, cs, is, at, r)
  BY <1>0, DoesThen
<1>3. IsSeq(d)
  BY FlattenedSeqs DEF Several
<1> HIDE DEF r, d
<1>4. IsValue(r) /\ IsSeq(r.code) /\ (r.stop = "" => CallsAt(r.code, at) = d \o << >>)
  BY <1>1, <1>2 DEF Follows, d
<1>5. d \o << >> = d
  BY <1>3, ConcatEmpty
<1> QED
  BY <1>4, <1>5 DEF Does, r, d

LEMMA DoesOp ==
  ASSUME NEW vs, NEW cs, NEW at, Several(vs, cs, at), NEW op, op # "call", NEW ty, NEW ok
  PROVE  Does(Op(op, vs, ty, ok, at), FlattenSeq(cs), at)
<1> DEFINE slots == UNION {vs[i].base : i \in DOMAIN vs}
           i == Instr(op, slots, ok, at)
           u == Then(vs, ty, << >>)
<1>1. Quiet(<<i>>, at)
  BY QuietOne DEF Instr
<1>2. Does(Then(vs, ty, <<i>>), FlattenSeq(cs), at)
  <2> HIDE DEF i
  <2> QED
    BY <1>1, DoesQuietly
<1>3. Does(u, FlattenSeq(cs), at)
  BY QuietNone, DoesQuietly
<1> HIDE DEF u
<1>4. Does([u EXCEPT !.const = TRUE], FlattenSeq(cs), at)
  BY <1>3 DEF Does, IsValue
<1> QED
  BY <1>2, <1>4 DEF Op, u, i, slots

LEMMA OneOf ==
  ASSUME NEW v, NEW c, NEW at, Does(v, c, at), IsSeq(c)
  PROVE  Several(<<v>>, <<c>>, at) /\ FlattenSeq(<<c>>) = c
<1> DEFINE vs == <<v>>   cs == <<c>>
<1>1. IsSeq(vs) /\ Len(vs) = 1 /\ vs[1] = v /\ IsSeq(cs) /\ Len(cs) = 1 /\ cs[1] = c
  BY OneEntryStack
<1> HIDE DEF vs, cs
<1>2. \A i \in 1 .. 1 : i = 1
  OBVIOUS
<1>3. Several(vs, cs, at)
  BY <1>1, <1>2 DEF Several
<1>4. FlattenSeq(cs) = c
  <2>1. 1 \in 1 .. Len(cs) /\ \A k \in 1 .. Len(cs) : cs[k] = IF k = 1 THEN c ELSE << >>
    BY <1>1
  <2> QED
    BY <1>1, <2>1, FlattenOne
<1> QED
  BY <1>3, <1>4 DEF vs, cs

LEMMA TwoOf ==
  ASSUME NEW u, NEW c, NEW v, NEW d, NEW at, Does(u, c, at), IsSeq(c), Does(v, d, at), IsSeq(d)
  PROVE  Several(<<u, v>>, <<c, d>>, at) /\ FlattenSeq(<<c, d>>) = c \o d
<1> DEFINE vs == <<u, v>>   cs == <<c, d>>
<1>1. /\ IsSeq(vs) /\ Len(vs) = 2 /\ vs[1] = u /\ vs[2] = v
      /\ IsSeq(cs) /\ Len(cs) = 2 /\ cs[1] = c /\ cs[2] = d
  BY RangeOfTwo
<1> HIDE DEF vs, cs
<1>2. \A i \in 1 .. 2 : i = 1 \/ i = 2
  OBVIOUS
<1>3. Several(vs, cs, at)
  BY <1>1, <1>2 DEF Several
<1>4. FlattenSeq(cs) = c \o d
  <2>1. \A k \in 1 .. Len(cs) : IsSeq(cs[k])
    BY <1>1, <1>2
  <2>2. /\ FlattenSeq(cs) = Flattened(cs, 2) /\ Flattened(cs, 0) = << >>
        /\ \A k \in 1 .. 2 : Flattened(cs, k) = Flattened(cs, k-1) \o cs[k]
    BY <1>1, <2>1, FlattenedIs
  <2>3. 1 \in 1 .. 2 /\ 2 \in 1 .. 2 /\ 1 - 1 = 0 /\ 2 - 1 = 1
    OBVIOUS
  <2>4. Flattened(cs, 2) = Flattened(cs, 1) \o d /\ Flattened(cs, 1) = << >> \o c
    BY <1>1, <2>2, <2>3
  <2> QED
    BY <2>2, <2>4, ConcatEmpty
<1> QED
  BY <1>3, <1>4 DEF vs, cs

LEMMA DoesOne ==
  ASSUME NEW v, NEW c, NEW at, Does(v, c, at), IsSeq(c), NEW op, op # "call", NEW ty, NEW ok
  PROVE  Does(Op(op, <<v>>, ty, ok, at), c, at)
<1>1. Several(<<v>>, <<c>>, at) /\ FlattenSeq(<<c>>) = c
  BY OneOf
<1>2. Does(Op(op, <<v>>, ty, ok, at), FlattenSeq(<<c>>), at)
  BY <1>1, DoesOp
<1> QED
  BY <1>1, <1>2

(* The values of a sequence, filled into an array.                         *)
LEMMA DoesFill ==
  ASSUME NEW vs, NEW cs, NEW at, Several(vs, cs, at),
         \A i \in 1 .. Len(vs) : vs[i].stop = "", NEW slots, NEW array
  PROVE  /\ IsSeq(Fill(vs, slots, array, at))
         /\ CallsAt(Fill(vs, slots, array, at), at) = FlattenSeq(cs)
<1> DEFINE gep == Instr("gep", slots, array # NoArray, at)
           store(i) == [Store(vs[i], {}, array.elem, at) EXCEPT !.fits = @ /\ i <= array.size]
           codes == [i \in DOMAIN vs |-> <<gep>> \o vs[i].code \o <<store(i)>>]
<1>1. DOMAIN vs = 1 .. Len(vs) /\ Len(vs) \in Nat /\ IsSeq(vs)
  BY SeqBasics DEF Several
<1>2. ASSUME NEW i \in DOMAIN vs
      PROVE  IsSeq(codes[i]) /\ CallsAt(codes[i], at) = CallsAt(vs[i].code, at)
  <2>1. gep.op # "call" /\ store(i).op # "call"
    BY DEF Instr, Store
  <2>2. codes[i] = <<gep>> \o vs[i].code \o <<store(i)>>
    OBVIOUS
  <2> HIDE DEF gep, store, codes
  <2>3. Quiet(<<gep>>, at) /\ Quiet(<<store(i)>>, at)
    BY <2>1, QuietOne
  <2>4. IsSeq(vs[i].code)
    BY <1>1 DEF Several, Does
  <2> DEFINE c == vs[i].code
             a == <<gep>>
             z == <<store(i)>>
             ac == a \o c
  <2>5. IsSeq(c) /\ Quiet(a, at) /\ Quiet(z, at) /\ codes[i] = ac \o z
    BY <2>2, <2>3, <2>4
  <2> HIDE DEF a, z, c
  <2>6. IsSeq(ac) /\ CallsAt(ac, at) = CallsAt(c, at)
    BY <2>5, QuietMore
  <2> HIDE DEF ac
  <2>7. IsSeq(ac \o z) /\ CallsAt(ac \o z, at) = CallsAt(ac, at)
    BY <2>5, <2>6, QuietMore
  <2> QED
    BY <2>5, <2>6, <2>7 DEF c
<1>3. Fill(vs, slots, array, at) = FlattenSeq(codes)
  BY DEF Fill
<1>4. IsSeq(codes) /\ Len(codes) = Len(vs)
  <2>1. codes = [i \in DOMAIN vs |-> codes[i]]
    OBVIOUS
  <2> HIDE DEF codes
  <2> QED
    BY <1>1, <2>1, Mapped
<1> HIDE DEF codes, gep, store
<1>5. \A k \in 1 .. Len(codes) : IsSeq(codes[k]) /\ CallsAt(codes[k], at) = CallsAt(vs[k].code, at)
  BY <1>1, <1>2, <1>4
<1>6. Makes(FlattenSeq(codes), FlattenSeq(cs), at)
  BY <1>4, <1>5, CallsOfAll
<1> QED
  BY <1>3, <1>6 DEF Makes

-----------------------------------------------------------------------------
(* Every kind of expression: genExpr makes the calls it contains.           *)

(* The value v makes the calls of the expression e.                        *)
Yields(v, e, at) == Does(v, CallOrder[e], at)

LEMMA DoesNothing ==
  ASSUME NEW at
  PROVE  /\ \A ty : Does(Const(ty), << >>, at)
         /\ \A why, c : why # "" => Does(Stop(why), c, at)
<1>1. IsSeq(<< >>) /\ CallsAt(<< >>, at) = << >>
  BY QuietNone DEF Quiet
<1>2. ASSUME NEW ty PROVE Does(Const(ty), << >>, at)
  <2>1. IsValue(Const(ty)) /\ Const(ty).code = << >>
    BY DEF Const, Value, IsValue
  <2> QED
    BY <1>1, <2>1 DEF Does
<1>3. ASSUME NEW why, NEW c, why # "" PROVE Does(Stop(why), c, at)
  <2>1. IsValue(Stop(why)) /\ Stop(why).code = << >> /\ Stop(why).stop = why
    BY DEF Stop, Value, IsValue
  <2> QED
    BY <1>1, <1>3, <2>1 DEF Does
<1> QED
  BY <1>2, <1>3

(* The code around a value that makes no calls.                            *)
LEMMA DoesMore ==
  ASSUME NEW v, NEW c, NEW at, Does(v, c, at), NEW q, Quiet(q, at), NEW w, IsValue(w),
         w.stop = v.stop, w.code = v.code \o q \/ w.code = q \o v.code
  PROVE  Does(w, c, at)
<1> DEFINE d == v.code
<1>1. IsSeq(d)
  BY DEF Does
<1>2. /\ IsSeq(d \o q) /\ CallsAt(d \o q, at) = CallsAt(d, at)
      /\ IsSeq(q \o d) /\ CallsAt(q \o d, at) = CallsAt(d, at)
  <2> HIDE DEF d
  <2> QED
    BY <1>1, QuietMore
<1>3. IsSeq(w.code) /\ CallsAt(w.code, at) = CallsAt(d, at)
  BY <1>2
<1> QED
  BY <1>3 DEF Does

LEMMA NoOrder ==
  ASSUME NEW e \in Exprs, e.k = "var"
  PROVE  CallOrder[e] = << >>
BY CallOrderIs DEF OrderBody

Each(F, es) == [i \in DOMAIN es |-> F[es[i]]]

LEMMA EachDoes ==
  ASSUME NEW at, NEW G, NEW C, NEW es, IsSeq(es),
         \A i \in DOMAIN es : Does(G[es[i]], C[es[i]], at) /\ IsSeq(C[es[i]]),
         NEW vs, vs = Each(G, es), NEW cs, cs = Each(C, es)
  PROVE  Several(vs, cs, at)
<1>1. DOMAIN es = 1 .. Len(es)
  BY SeqBasics
<1>2. vs = [i \in DOMAIN es |-> vs[i]] /\ cs = [i \in DOMAIN es |-> cs[i]]
  BY DEF Each
<1>3. IsSeq(vs) /\ Len(vs) = Len(es) /\ IsSeq(cs) /\ Len(cs) = Len(es)
  BY <1>2, Mapped
<1>4. \A i \in 1 .. Len(vs) : IsSeq(cs[i]) /\ Does(vs[i], cs[i], at)
  BY <1>1, <1>3 DEF Each
<1> QED
  BY <1>1, <1>3, <1>4 DEF Several

LEMMA DoesExpr ==
  ASSUME NEW env, NEW e \in Exprs, NEW G, \A d \in Simpler(e) : Yields(G[d], d, env.at)
  PROVE  Yields(genExpr(env, G, e), e, env.at)
<1> DEFINE at == env.at
           Index32(v) == IF v.ty = I32 THEN v ELSE Op("trunc", <<v>>, I32, v.ty = I64, at)
           IsArray(x) == env.types[x].k = "array"
           C == CallOrder
           r == genExpr(env, G, e)
<1>1. C[e] = OrderBody(0, C, e) /\ \A d \in Exprs : IsSeq(C[d])
  BY CallOrderIs
<1>2. \A d \in Simpler(e) : d \in Exprs /\ Does(G[d], C[d], at)
  BY DEF Yields, Simpler
<1>3. \A c : /\ Does(Stop("unknown var"), c, at)
             /\ Does(Stop("indexing on non-variable"), c, at)
             /\ Does(Stop("assignment target must be a variable"), c, at)
             /\ Does(Stop("unknown callee"), c, at)
             /\ Does(Stop("empty array literal"), c, at)
             /\ Does(Stop("must be a pointer"), c, at)
  BY DoesNothing
<1> SUFFICES Does(r, C[e], at)
  BY DEF Yields
<1>4. ASSUME NEW v, NEW c, Does(v, c, at), IsSeq(c) PROVE Does(Index32(v), c, at)
  <2>1. Does(Op("trunc", <<v>>, I32, v.ty = I64, at), c, at)
    BY <1>4, DoesOne
  <2> QED
    BY <1>4, <2>1
<1> HIDE DEF Index32, C
<1>5. CASE e.k \in {"int", "bool"}
  <2>1. C[e] = << >>
    BY <1>1, <1>5 DEF OrderBody
  <2>2. r = Const(I64) \/ r = Const(I1)
    BY <1>5 DEF genExpr
  <2> QED
    BY <2>1, <2>2, DoesNothing
<1>6. CASE e.k = "var"
  <2>1. C[e] = << >>
    BY <1>1, <1>6 DEF OrderBody
  <2> DEFINE load == Instr("load", {env.vals[e.x]}, TRUE, at)
             u == [Value(OpaquePtr, << >>) EXCEPT !.base = {env.vals[e.x]}]
             v == Value(env.types[e.x], <<load>>)
  <2>2. Does(u, << >>, at)
    <3>1. IsValue(u) /\ u.code = << >>
      BY DEF Value, IsValue
    <3> HIDE DEF u
    <3> QED
      BY <3>1, QuietNone DEF Quiet, Does
  <2>3. Does(v, << >>, at)
    <3>1. Quiet(<<load>>, at)
      BY QuietOne DEF Instr
    <3> HIDE DEF load
    <3>2. IsValue(v) /\ v.code = <<load>>
      BY DEF Value, IsValue
    <3> HIDE DEF v
    <3> QED
      BY <3>1, <3>2 DEF Quiet, Does
  <2>4. r \in {Stop("unknown var"), u, v}
    BY <1>6 DEF genExpr
  <2> QED
    BY <1>3, <2>1, <2>2, <2>3, <2>4
<1>7. CASE e.k = "unary"
  <2> DEFINE d == G[e.r]
  <2>1. C[e] = C[e.r] /\ e.op # "call"
    BY <1>1, <1>7, OperatorsAssumption DEF OrderBody, UnaryOps
  <2>2. Does(d, C[e.r], at) /\ IsSeq(C[e.r])
    BY <1>1, <1>2, <1>7, Operands
  <2>3. r = Op(e.op, <<d>>, d.ty, d.ty \in Integer, at)
    BY <1>7 DEF genExpr
  <2> HIDE DEF d
  <2>4. Does(r, C[e.r], at)
    BY <2>1, <2>2, <2>3, DoesOne
  <2> QED
    BY <2>1, <2>4
<1>8. CASE e.k = "bin" /\ e.op = "=" /\ e.l.k = "var"
  <2> DEFINE rv == G[e.r]
             store == Store(rv, {env.vals[e.l.x]}, env.types[e.l.x], at)
             w == [rv EXCEPT !.code = @ \o <<store>>]
  <2>1. e.l \in Exprs /\ Does(rv, C[e.r], at) /\ IsSeq(C[e.r])
    BY <1>1, <1>2, <1>8, Operands
  <2>2. C[e.l] = << >>
    BY <1>8, <2>1, NoOrder DEF C
  <2>3. C[e] = << >> \o C[e.r]
    BY <1>1, <1>8, <2>1, <2>2 DEF OrderBody
  <2>4. C[e] = C[e.r]
    BY <2>1, <2>3, ConcatEmpty
  <2>5. Does(w, C[e.r], at)
    <3>1. Quiet(<<store>>, at)
      BY QuietOne DEF Store
    <3> HIDE DEF rv, store
    <3>2. IsValue(w) /\ w.stop = rv.stop /\ w.code = rv.code \o <<store>>
      BY <2>1 DEF Does, IsValue
    <3> HIDE DEF w
    <3> QED
      BY <2>1, <3>1, <3>2, DoesMore
  <2>6. r \in {Stop("unknown var"), w}
    BY <1>8 DEF genExpr
  <2> QED
    BY <1>3, <2>4, <2>5, <2>6
<1>9. CASE e.k = "bin" /\ e.op = "=" /\ e.l.k = "index"
  <2>1. CASE e.l.a.k = "var" /\ e.l.a.x \in DOMAIN env.vals
    <3> DEFINE sl == env.vals[e.l.a.x]
               i == Index32(G[e.l.i])
               array == IsArray(e.l.a.x)
               elem == IF array THEN env.types[e.l.a.x].elem ELSE I64
               address == IF array THEN <<Instr("gep", {sl}, TRUE, at)>>
                          ELSE <<Instr("load", {sl}, TRUE, at), Instr("gep", {}, TRUE, at)>>
               rv == G[e.r]
               store == Store(rv, {}, elem, at)
               to == Then(<<i>>, I32, address)
               run == Then(<<to, rv>>, rv.ty, <<store>>)
               w == [run EXCEPT !.const = rv.const, !.base = rv.base]
               c == C[e.l.i]
               d == C[e.r]
    <3>1. /\ e.l \in Exprs /\ e.l.a \in Exprs /\ e.l.i \in Exprs
          /\ Does(rv, d, at) /\ IsSeq(d) /\ Does(i, c, at) /\ IsSeq(c)
      <4>1. /\ e.l \in Exprs /\ e.l.a \in Exprs /\ e.l.i \in Exprs
            /\ Does(rv, d, at) /\ IsSeq(d) /\ Does(G[e.l.i], c, at) /\ IsSeq(c)
        BY <1>1, <1>2, <1>9, Operands
      <4>2. Does(i, c, at)
        BY <1>4, <4>1
      <4> QED
        BY <4>1, <4>2
    <3>2. C[e.l] = << >> \o c
      <4>1. C[e.l.a] = << >>
        BY <2>1, <3>1, NoOrder DEF C
      <4>2. C[e.l] = C[e.l.a] \o c
        BY <1>9, <3>1, CallOrderIs DEF OrderBody, C
      <4> QED
        BY <4>1, <4>2
    <3>3. C[e] = c \o d
      <4>1. C[e.l] = c
        BY <3>1, <3>2, ConcatEmpty
      <4>2. C[e] = C[e.l] \o C[e.r]
        BY <1>1, <1>9 DEF OrderBody
      <4> QED
        BY <4>1, <4>2
    <3>4. Quiet(address, at)
      <4>1. \A q, m : Instr("gep", q, m, at).op # "call" /\ Instr("load", q, m, at).op # "call"
        BY DEF Instr
      <4>2. Quiet(<<Instr("gep", {sl}, TRUE, at)>>, at)
        BY <4>1, QuietOne
      <4>3. Quiet(<<Instr("load", {sl}, TRUE, at), Instr("gep", {}, TRUE, at)>>, at)
        BY <4>1, QuietTwo
      <4> QED
        BY <4>2, <4>3
    <3>5. Quiet(<<store>>, at)
      BY QuietOne DEF Store
    <3>6. r = w
      BY <1>9, <2>1 DEF genExpr, Index32
    <3> HIDE DEF sl, i, rv, address, store, array, elem, r, c, d
    <3>7. Does(to, c, at)
      <4>1. Several(<<i>>, <<c>>, at) /\ FlattenSeq(<<c>>) = c
        BY <3>1, OneOf
      <4>2. Does(Then(<<i>>, I32, address), FlattenSeq(<<c>>), at)
        BY <3>4, <4>1, DoesQuietly
      <4> QED
        BY <4>1, <4>2
    <3> HIDE DEF to
    <3> DEFINE cd == c \o d
    <3>8. Does(run, cd, at)
      <4>1. Several(<<to, rv>>, <<c, d>>, at) /\ FlattenSeq(<<c, d>>) = c \o d
        BY <3>1, <3>7, TwoOf
      <4>2. Does(Then(<<to, rv>>, rv.ty, <<store>>), FlattenSeq(<<c, d>>), at)
        BY <3>5, <4>1, DoesQuietly
      <4>3. FlattenSeq(<<c, d>>) = cd
        BY <4>1
      <4> HIDE DEF cd
      <4> QED
        BY <4>2, <4>3
    <3>9. C[e] = cd
      BY <3>3
    <3> HIDE DEF run, cd
    <3>10. Does(w, cd, at)
      <4>1. IsValue(w) /\ w.code = run.code /\ w.stop = run.stop
        BY <3>8 DEF Does, IsValue
      <4> HIDE DEF w
      <4> QED
        BY <3>8, <4>1 DEF Does
    <3> HIDE DEF w
    <3> QED
      BY <3>6, <3>9, <3>10 DEF r
  <2>2. CASE e.l.a.k # "var" \/ e.l.a.x \notin DOMAIN env.vals
    <3>1. r \in {Stop("indexing on non-variable"), Stop("unknown var")}
      BY <1>9, <2>2 DEF genExpr
    <3> QED
      BY <1>3, <3>1
  <2> QED
    BY <2>1, <2>2
<1>10. CASE e.k = "bin" /\ e.op = "=" /\ e.l.k \notin {"var", "index"}
  <2>1. r = Stop("assignment target must be a variable")
    BY <1>10 DEF genExpr
  <2> QED
    BY <1>3, <2>1
<1>11. CASE e.k = "bin" /\ e.op # "="
  <2> DEFINE u == G[e.l]   v == G[e.r]   c == C[e.l]   d == C[e.r]
             compares == e.op \in {"==", "!=", "<", "<=", ">", ">="}
             ty == IF compares THEN I1 ELSE u.ty
             ok == u.ty = v.ty /\ (u.ty \in Integer \/ (compares /\ u.ty = OpaquePtr))
  <2>1. Does(u, c, at) /\ IsSeq(c) /\ Does(v, d, at) /\ IsSeq(d)
    BY <1>1, <1>2, <1>11, Operands
  <2>2. C[e] = c \o d /\ e.op # "call"
    BY <1>1, <1>11, OperatorsAssumption DEF OrderBody, BinaryOps
  <2>3. r = Op(e.op, <<u, v>>, ty, ok, at)
    BY <1>11 DEF genExpr
  <2> HIDE DEF u, v, c, d, compares, ty, ok, r
  <2>4. Several(<<u, v>>, <<c, d>>, at) /\ FlattenSeq(<<c, d>>) = c \o d
    BY <2>1, TwoOf
  <2> DEFINE vs == <<u, v>>
             cs == <<c, d>>
  <2>5. Several(vs, cs, at) /\ FlattenSeq(cs) = C[e] /\ r = Op(e.op, vs, ty, ok, at)
    BY <2>2, <2>3, <2>4
  <2> HIDE DEF vs, cs
  <2>6. Does(r, FlattenSeq(cs), at)
    BY <2>2, <2>5, DoesOp
  <2> QED
    BY <2>5, <2>6
<1>12. CASE e.k = "call"
  <2>1. CASE e.f \in DOMAIN env.funcs
    <3> DEFINE vs == Each(G, e.args)
               cs == Each(C, e.args)
               f == env.funcs[e.f]
               ok == /\ IF f.sig.vararg THEN Len(vs) >= Len(f.sig.params)
                        ELSE Len(vs) = Len(f.sig.params)
                     /\ \A i \in DOMAIN vs \cap DOMAIN f.sig.params : vs[i].ty = f.sig.params[i]
               call == CallTo(e.f, f.target, vs, ok, at)
               all == FlattenSeq(cs)
    <3>1. IsSeq(e.args) /\ \A j \in DOMAIN e.args : e.args[j] \in Simpler(e)
      BY <1>12, Operands
    <3>2. Several(vs, cs, at)
      <4>1. \A j \in DOMAIN e.args : Does(G[e.args[j]], C[e.args[j]], at) /\ IsSeq(C[e.args[j]])
        BY <1>1, <1>2, <3>1
      <4> DEFINE es == e.args
      <4>2. IsSeq(es) /\ \A j \in DOMAIN es : Does(G[es[j]], C[es[j]], at) /\ IsSeq(C[es[j]])
        BY <3>1, <4>1
      <4>3. vs = Each(G, es) /\ cs = Each(C, es)
        OBVIOUS
      <4> HIDE DEF es, vs, cs, at
      <4> QED
        BY <4>2, <4>3, EachDoes
    <3>3. C[e] = Append(all, e.f) /\ IsSeq(all)
      <4>1. C[e] = Append(All(C, e.args), e.f)
        BY <1>1, <1>12 DEF OrderBody
      <4>2. All(C, e.args) = all
        BY DEF All, Each
      <4>3. IsSeq(all)
        <5> HIDE DEF cs
        <5> QED
          BY <3>2, FlattenedSeqs DEF Several
      <4> QED
        BY <4>1, <4>2, <4>3
    <3>4. call.op = "call" /\ call.at = at /\ call.callee = e.f
      BY DEF CallTo
    <3>5. r = Then(vs, f.sig.ret, <<call>>)
      BY <1>12, <2>1 DEF genExpr, Each
    <3> HIDE DEF vs, cs, f, ok, call, r
    <3>6. IsSeq(<<call>>) /\ CallsAt(<<call>>, at) = <<e.f>>
      BY <3>4, CallsOne, OneEntryStack DEF CallOf
    <3>7. Follows(vs, cs, <<call>>, at, r)
      BY <3>2, <3>5, <3>6, DoesThen
    <3>8. IsValue(r) /\ IsSeq(r.code) /\ (r.stop = "" => CallsAt(r.code, at) = all \o <<e.f>>)
      BY <3>6, <3>7 DEF Follows
    <3>9. Append(all, e.f) = all \o <<e.f>>
      <4> HIDE DEF all
      <4>1. all \in Seq(Range(all) \cup {e.f}) /\ e.f \in Range(all) \cup {e.f}
        BY <3>3, SeqMonotonic DEF IsSeq
      <4> QED
        BY <4>1, AppendIsConcat
    <3> QED
      BY <3>3, <3>8, <3>9 DEF Does
  <2>2. CASE e.f \notin DOMAIN env.funcs
    <3>1. r = Stop("unknown callee")
      BY <1>12, <2>2 DEF genExpr
    <3> QED
      BY <1>3, <3>1
  <2> QED
    BY <2>1, <2>2
<1>13. CASE e.k = "arraylit"
  <2>1. CASE e.elems # << >>
    <3> DEFINE vs == Each(G, e.elems)
               cs == Each(C, e.elems)
               bad == Then(vs, OpaquePtr, << >>)
               alloca == Instr("alloca", {}, vs[1].ty # Void, at)
               array == Array(vs[1].ty, Len(vs))
               fill == Fill(vs, {}, array, at)
               code == vs[1].code \o <<alloca>> \o fill
               one == C[e.elems[1]]
               all == FlattenSeq(cs)
    <3>1. IsSeq(e.elems) /\ \A j \in DOMAIN e.elems : e.elems[j] \in Simpler(e)
      BY <1>13, Operands
    <3>2. Several(vs, cs, at)
      <4>1. \A j \in DOMAIN e.elems : Does(G[e.elems[j]], C[e.elems[j]], at) /\ IsSeq(C[e.elems[j]])
        BY <1>1, <1>2, <3>1
      <4> DEFINE es == e.elems
      <4>2. IsSeq(es) /\ \A j \in DOMAIN es : Does(G[es[j]], C[es[j]], at) /\ IsSeq(C[es[j]])
        BY <3>1, <4>1
      <4>3. vs = Each(G, es) /\ cs = Each(C, es)
        OBVIOUS
      <4> HIDE DEF es, vs, cs, at
      <4> QED
        BY <4>2, <4>3, EachDoes
    <3>3. 1 \in 1 .. Len(vs) /\ cs[1] = one
      <4>1. 1 \in DOMAIN e.elems
        BY <2>1, <3>1, HasFirst
      <4>2. DOMAIN vs = DOMAIN e.elems /\ cs[1] = one
        BY <4>1 DEF Each
      <4> HIDE DEF vs
      <4>3. DOMAIN vs = 1 .. Len(vs)
        BY <3>2, SeqBasics DEF Several
      <4> QED
        BY <4>1, <4>2, <4>3
    <3>4. C[e] = one \o all
      <4>1. C[e] = one \o All(C, e.elems)
        BY <1>1, <1>13, <2>1 DEF OrderBody
      <4>2. All(C, e.elems) = all
        BY DEF All, Each
      <4> QED
        BY <4>1, <4>2
    <3>5. Follows(vs, cs, << >>, at, bad)
      BY <3>2, EmptyStack, DoesThen
    <3>6. r = IF bad.stop # "" THEN bad ELSE Value(OpaquePtr, code)
      BY <1>13, <2>1 DEF genExpr, Each
    <3>7. alloca.op # "call"
      BY DEF Instr
    <3> HIDE DEF vs, cs, array, alloca, all, one, r
    <3>8. CASE bad.stop # ""
      BY <3>5, <3>6, <3>8 DEF Does, Follows
    <3>9. CASE bad.stop = ""
      <4>1. \A i \in 1 .. Len(vs) : vs[i].stop = ""
        BY <3>5, <3>9 DEF Follows
      <4> HIDE DEF bad
      <4> DEFINE c == vs[1].code
                 ca == c \o <<alloca>>
      <4>2. IsSeq(fill) /\ CallsAt(fill, at) = all
        BY <3>2, <4>1, DoesFill DEF all
      <4>3. IsSeq(c) /\ CallsAt(c, at) = one
        BY <3>2, <3>3, <4>1 DEF Several, Does
      <4>4. Quiet(<<alloca>>, at)
        BY <3>7, QuietOne
      <4> HIDE DEF c, fill
      <4>5. IsSeq(ca) /\ CallsAt(ca, at) = one
        BY <4>3, <4>4, QuietMore
      <4>6. code = ca \o fill
        BY DEF c
      <4> HIDE DEF ca, code
      <4>7. IsSeq(ca) /\ IsSeq(fill)
        BY <4>2, <4>5
      <4>8. CallsAt(ca \o fill, at) = CallsAt(ca, at) \o CallsAt(fill, at)
        BY <4>7, CallsJoined
      <4>9. IsSeq(code) /\ CallsAt(code, at) = one \o all
        BY <4>2, <4>5, <4>6, <4>7, <4>8, Concatenation
      <4>10. IsValue(Value(OpaquePtr, code)) /\ Value(OpaquePtr, code).code = code
        BY DEF IsValue, Value
      <4>11. r = Value(OpaquePtr, code)
        BY <3>6, <3>9
      <4> QED
        BY <3>4, <4>9, <4>10, <4>11 DEF Does
    <3> QED
      BY <3>8, <3>9
  <2>2. CASE e.elems = << >>
    <3>1. r = Stop("empty array literal")
      BY <1>13, <2>2 DEF genExpr
    <3> QED
      BY <1>3, <3>1
  <2> QED
    BY <2>1, <2>2
<1>14. CASE e.k = "index"
  <2> DEFINE a == G[e.a]
             i == G[e.i]
             i32 == IF i.ty = I64 THEN Index32(i) ELSE i
             gep == Instr("gep", a.base \cup i.base, i.ty \in Integer, at)
             load == Instr("load", {}, TRUE, at)
             elem == IF e.a.k = "var" /\ e.a.x \in DOMAIN env.types /\ IsArray(e.a.x)
                     THEN env.types[e.a.x].elem ELSE I64
             v == Then(<<a, i32>>, elem, <<gep, load>>)
             c == C[e.a]   d == C[e.i]
  <2>1. Does(a, c, at) /\ IsSeq(c) /\ Does(i, d, at) /\ IsSeq(d)
    BY <1>1, <1>2, <1>14, Operands
  <2>2. Does(i32, d, at)
    BY <1>4, <2>1
  <2>3. C[e] = c \o d
    BY <1>1, <1>14 DEF OrderBody
  <2>4. Quiet(<<gep, load>>, at)
    BY QuietTwo DEF Instr
  <2>5. r \in {Stop("must be a pointer"), v}
    BY <1>14 DEF genExpr, Index32
  <2> HIDE DEF a, i32, gep, load, c, d, elem, r
  <2>6. Several(<<a, i32>>, <<c, d>>, at) /\ FlattenSeq(<<c, d>>) = c \o d
    BY <2>1, <2>2, TwoOf
  <2> DEFINE vs == <<a, i32>>
             cs == <<c, d>>
  <2>7. Several(vs, cs, at) /\ FlattenSeq(cs) = C[e] /\ v = Then(vs, elem, <<gep, load>>)
    BY <2>3, <2>6
  <2> HIDE DEF vs, cs, v
  <2>8. Does(Then(vs, elem, <<gep, load>>), FlattenSeq(cs), at)
    BY <2>4, <2>7, DoesQuietly
  <2> QED
    BY <1>3, <2>5, <2>7, <2>8
<1>15. CASE e.k \notin {"int", "bool", "var", "unary", "bin", "call", "arraylit", "index"}
  BY <1>15, ExprsAssumption
<1> QED
  BY <1>5, <1>6, <1>7, <1>8, <1>9, <1>10, <1>11, <1>12, <1>13, <1>14, <1>15

(* Whatever the expression, genExpr makes its calls in turn.               *)
LEMMA DoesGen ==
  ASSUME NEW env, NEW e \in Exprs
  PROVE  Yields(Gen(env)[e], e, env.at)
<1> DEFINE T == {c \in Exprs : Yields(Gen(env)[c], c, env.at)}
<1>1. ASSUME NEW c \in Exprs, Simpler(c) \subseteq T
      PROVE  c \in T
  <2>1. Yields(genExpr(env, Gen(env), c), c, env.at)
    BY <1>1, DoesExpr
  <2> QED
    BY <2>1, Generated
<1> HIDE DEF T
<1>2. Exprs \subseteq T
  BY <1>1, OnExpressions
<1> QED
  BY <1>2 DEF T

LEMMA DoesLower ==
  ASSUME NEW e \in Exprs
  PROVE  Yields(Lower(e), e, Here)
<1> DEFINE env == [vals |-> namedValues, types |-> namedTypes, funcs |-> Funcs, at |-> Here]
<1>1. Yields(Gen(env)[e], e, env.at)
  BY DoesGen
<1>2. env.at = Here
  OBVIOUS
<1> HIDE DEF env
<1>3. Lower(e) = Gen(env)[e]
  BY DEF Lower, env
<1> QED
  BY <1>1, <1>2, <1>3

-----------------------------------------------------------------------------
(* The blocks of a function, of which one has the calls of a statement.    *)

OnlyIn(bs, b, m, at) ==
  b \in 1 .. Len(bs) /\ \A c \in 1 .. Len(bs) : CallsAt(bs[c].code, at) = IF c = b THEN m ELSE << >>
NoneIn(bs, at) == \A c \in 1 .. Len(bs) : CallsAt(bs[c].code, at) = << >>

LEMMA PutCalls ==
  ASSUME NEW bs, IsBlocks(bs), NEW at, NoneIn(bs, at), NEW b \in 1 .. Len(bs), NEW code, IsSeq(code)
  PROVE  /\ IsBlocks(Put(bs, b, code)) /\ Len(Put(bs, b, code)) = Len(bs)
         /\ OnlyIn(Put(bs, b, code), b, CallsAt(code, at), at)
<1> DEFINE old == bs[b].code
           both == old \o code
           v == [bs[b] EXCEPT !.code = both]
           cs == Put(bs, b, code)
<1>1. cs = [bs EXCEPT ![b] = v]
  BY DEF Put
<1>2. IsSeq(old) /\ IsBlock(bs[b]) /\ IsSeq(bs) /\ CallsAt(old, at) = << >>
  BY DEF IsBlocks, IsBlock, NoneIn
<1>3. IsBlocks(cs) /\ Len(cs) = Len(bs)
  BY GrownPut DEF Grown
<1>4. v.code = both
  BY <1>2 DEF IsBlock
<1> HIDE DEF v, cs, old
<1>5. CallsAt(both, at) = CallsAt(code, at)
  <2>1. Quiet(old, at)
    BY <1>2 DEF Quiet
  <2> QED
    BY <2>1, QuietMore
<1> HIDE DEF both
<1>6. \A c \in 1 .. Len(bs) : cs[c] = IF c = b THEN v ELSE bs[c]
  BY <1>1, <1>2, StackSet
<1>7. \A c \in 1 .. Len(cs) : CallsAt(cs[c].code, at) = IF c = b THEN CallsAt(code, at) ELSE << >>
  BY <1>3, <1>4, <1>5, <1>6 DEF NoneIn
<1>8. b \in 1 .. Len(cs)
  BY <1>3
<1> QED
  BY <1>3, <1>7, <1>8 DEF OnlyIn, cs

LEMMA NoneIsOnly ==
  ASSUME NEW bs, NEW at, NEW b
  PROVE  /\ NoneIn(bs, at) /\ b \in 1 .. Len(bs) => OnlyIn(bs, b, << >>, at)
         /\ OnlyIn(bs, b, << >>, at) => NoneIn(bs, at)
  BY DEF NoneIn, OnlyIn

LEMMA JoinCalls ==
  ASSUME NEW bs, IsBlocks(bs), NEW more, IsBlocks(more), NEW at, NEW b, NEW m
  PROVE  /\ IsBlocks(bs \o more)
         /\ OnlyIn(bs, b, m, at) /\ NoneIn(more, at) => OnlyIn(bs \o more, b, m, at)
         /\ NoneIn(bs, at) /\ OnlyIn(more, b, m, at) => OnlyIn(bs \o more, Len(bs) + b, m, at)
<1> DEFINE cs == bs \o more
           R == Range(bs) \cup Range(more)
<1>1. IsSeq(bs) /\ IsSeq(more) /\ Len(bs) \in Nat /\ Len(more) \in Nat
  BY SeqBasics DEF IsBlocks
<1>2. bs \in Seq(R) /\ more \in Seq(R)
  BY <1>1, SeqMonotonic DEF IsSeq
<1> HIDE DEF R
<1>3. /\ Len(cs) = Len(bs) + Len(more)
      /\ \A i \in 1 .. Len(bs) + Len(more) : cs[i] = IF i <= Len(bs) THEN bs[i] ELSE more[i - Len(bs)]
  BY <1>2, ConcatProperties
<1>4. IsBlocks(cs)
  BY GrownJoin DEF Grown
<1> DEFINE k == Len(bs)   l == Len(more)
<1>5. k \in Nat /\ l \in Nat /\ Len(cs) = k + l
  BY <1>1, <1>3
<1>6. \A i \in 1 .. k + l : CallsAt(cs[i].code, at) = IF i <= k THEN CallsAt(bs[i].code, at)
                                                       ELSE CallsAt(more[i-k].code, at)
  BY <1>3
<1> HIDE DEF cs, k, l
<1>7. \A i \in 1 .. k + l : i <= k => i \in 1 .. k
  BY <1>5
<1>8. \A i \in 1 .. k + l : ~(i <= k) => i - k \in 1 .. l
  BY <1>5
<1>9. ASSUME OnlyIn(bs, b, m, at), NoneIn(more, at) PROVE OnlyIn(cs, b, m, at)
  <2>1. b \in 1 .. k
    BY <1>9 DEF OnlyIn, k
  <2>2. b \in 1 .. k + l /\ b <= k
    BY <1>5, <2>1
  <2>3. ASSUME NEW i \in 1 .. k + l PROVE CallsAt(cs[i].code, at) = IF i = b THEN m ELSE << >>
    <3>1. CASE i <= k
      <4>1. i \in 1 .. Len(bs)
        BY <1>7, <3>1 DEF k
      <4>2. CallsAt(bs[i].code, at) = IF i = b THEN m ELSE << >>
        BY <1>9, <4>1 DEF OnlyIn
      <4> QED
        BY <1>6, <3>1, <4>2
    <3>2. CASE ~(i <= k)
      <4>1. i - k \in 1 .. Len(more) /\ i # b
        BY <1>8, <2>2, <3>2 DEF l
      <4>2. CallsAt(more[i-k].code, at) = << >>
        BY <1>9, <4>1 DEF NoneIn
      <4> QED
        BY <1>6, <3>2, <4>1, <4>2
    <3> QED
      BY <3>1, <3>2
  <2> QED
    BY <1>5, <2>2, <2>3 DEF OnlyIn
<1>10. ASSUME NoneIn(bs, at), OnlyIn(more, b, m, at) PROVE OnlyIn(cs, k + b, m, at)
  <2>1. b \in 1 .. l
    BY <1>10 DEF OnlyIn, l
  <2>2. k + b \in 1 .. k + l /\ ~(k + b <= k) /\ \A i \in 1 .. k + l : ~(i <= k) => (i - k = b <=> i = k + b)
    BY <1>5, <2>1
  <2>3. ASSUME NEW i \in 1 .. k + l PROVE CallsAt(cs[i].code, at) = IF i = k + b THEN m ELSE << >>
    <3>1. CASE i <= k
      <4>1. i \in 1 .. Len(bs) /\ i # k + b
        BY <1>7, <2>2, <3>1 DEF k
      <4>2. CallsAt(bs[i].code, at) = << >>
        BY <1>10, <4>1 DEF NoneIn
      <4> QED
        BY <1>6, <3>1, <4>1, <4>2
    <3>2. CASE ~(i <= k)
      <4>1. i - k \in 1 .. Len(more)
        BY <1>8, <3>2 DEF l
      <4>2. CallsAt(more[i-k].code, at) = IF i - k = b THEN m ELSE << >>
        BY <1>10, <4>1 DEF OnlyIn
      <4> QED
        BY <1>6, <2>2, <3>2, <4>2
    <3> QED
      BY <3>1, <3>2
  <2> QED
    BY <1>5, <2>2, <2>3 DEF OnlyIn
<1> QED
  BY <1>4, <1>9, <1>10 DEF cs, k

(* EvaluatesInOrder, of the statement node just generated *)
Ordered(bs, node, at) ==
  LET here == [b \in DOMAIN bs |-> CallsAt(bs[b].code, at)]
  IN  /\ FlattenSeq(here) = CallsMade(node)
      /\ Cardinality({b \in DOMAIN here : here[b] # << >>}) <= 1

LEMMA OnlyOrdered ==
  ASSUME NEW bs, IsBlocks(bs), NEW b, NEW at, NEW node, OnlyIn(bs, b, CallsMade(node), at)
  PROVE  Ordered(bs, node, at)
<1> DEFINE m == CallsMade(node)
           here == [c \in DOMAIN bs |-> CallsAt(bs[c].code, at)]
           busy == {c \in DOMAIN here : here[c] # << >>}
<1>0. OnlyIn(bs, b, m, at)
  OBVIOUS
<1> HIDE DEF m
<1>1. IsSeq(bs) /\ DOMAIN bs = 1 .. Len(bs)
  BY SeqBasics DEF IsBlocks
<1>2. here = [c \in DOMAIN bs |-> here[c]] /\ DOMAIN here = DOMAIN bs
      /\ \A c \in DOMAIN bs : here[c] = CallsAt(bs[c].code, at)
  OBVIOUS
<1> HIDE DEF here
<1>3. IsSeq(here) /\ Len(here) = Len(bs)
  BY <1>1, <1>2, Mapped
<1>4. b \in 1 .. Len(here) /\ \A k \in 1 .. Len(here) : here[k] = IF k = b THEN m ELSE << >>
  BY <1>0, <1>1, <1>2, <1>3 DEF OnlyIn
<1>5. IsSeq(m)
  <2>1. b \in 1 .. Len(bs) /\ CallsAt(bs[b].code, at) = m
    BY <1>0 DEF OnlyIn
  <2>2. IsSeq(bs[b].code)
    BY <2>1 DEF IsBlocks, IsBlock
  <2> QED
    BY <2>1, <2>2, CallsAreSeq
<1>6. FlattenSeq(here) = m
  BY <1>3, <1>4, <1>5, FlattenOne
<1>7. Cardinality(busy) <= 1
  <2>1. busy \subseteq {b}
    BY <1>1, <1>2, <1>3, <1>4
  <2>2. busy = {} \/ busy = {b}
    BY <2>1
  <2> HIDE DEF busy
  <2>3. Cardinality({}) = 0 /\ Cardinality({b}) = 1
    BY FS_EmptySet, FS_Singleton
  <2> QED
    BY <2>2, <2>3
<1> QED
  BY <1>6, <1>7 DEF Ordered, here, m

-----------------------------------------------------------------------------
(* The code of a statement makes the calls of its expression.              *)
CodeMakes(code, c) == Makes(code, c, Here)

LEMMA LowerMakes ==
  ASSUME NEW e \in Exprs
  PROVE  Does(Lower(e), CallOrder[e], Here) /\ IsSeq(CallOrder[e])
  BY DoesLower, CallOrderIs DEF Yields

(* genExpr does not stop at it *)
Goes(v) == v.stop = ""

LEMMA OpStops ==
  ASSUME NEW v, Goes(v), NEW op, NEW ty, NEW ok, NEW at
  PROVE  Op(op, <<v>>, ty, ok, at).stop = ""
<1> DEFINE vs == <<v>>
           bad == {i \in DOMAIN vs : vs[i].stop # ""}
<1>0. IsSeq(vs) /\ Len(vs) = 1 /\ vs[1] = v
  BY OneEntryStack
<1> HIDE DEF vs
<1>1. \A i \in DOMAIN vs : vs[i] = v
  <2>1. DOMAIN vs = 1 .. 1
    BY <1>0, SeqBasics
  <2>2. \A i \in 1 .. 1 : i = 1
    OBVIOUS
  <2> QED
    BY <1>0, <2>1, <2>2
<1>2. bad = {}
  BY <1>1 DEF Goes
<1>3. \A is : Then(vs, ty, is).stop = "" /\ [Then(vs, ty, is) EXCEPT !.const = TRUE].stop = ""
  <2> SUFFICES ASSUME NEW is
               PROVE  Then(vs, ty, is).stop = "" /\ [Then(vs, ty, is) EXCEPT !.const = TRUE].stop = ""
    OBVIOUS
  <2> DEFINE code == FlattenSeq([i \in DOMAIN vs |-> vs[i].code]) \o is
  <2>1. Then(vs, ty, is) = Value(ty, code)
    BY <1>2 DEF Then
  <2> HIDE DEF code
  <2>2. Value(ty, code).stop = "" /\ [Value(ty, code) EXCEPT !.const = TRUE].stop = ""
    BY DEF Value
  <2> QED
    BY <2>1, <2>2
<1>4. Op(op, vs, ty, ok, at).stop = ""
  BY <1>3 DEF Op
<1> QED
  BY <1>4 DEF vs

LEMMA TestMakes ==
  ASSUME NEW e \in Exprs, Goes(Lower(e)), NEW to
  PROVE  CodeMakes(Test(Lower(e), to), CallOrder[e])
<1> DEFINE v == Lower(e)
           w == Op("!=", <<v>>, I1, v.ty \in Integer, Here)
           br == Br(to, {}, Here)
           c == w.code
           q == <<br>>
<1>1. Does(v, CallOrder[e], Here) /\ IsSeq(CallOrder[e])
  BY LowerMakes
<1>2. Does(w, CallOrder[e], Here)
  <2> HIDE DEF v
  <2> QED
    BY <1>1, DoesOne
<1>3. w.stop = ""
  BY OpStops
<1>4. Quiet(q, Here)
  BY QuietOne DEF Br
<1>5. Test(v, to) = c \o q
  BY DEF Test
<1> HIDE DEF v, w, q
<1>6. IsSeq(c) /\ CallsAt(c, Here) = CallOrder[e]
  BY <1>2, <1>3 DEF Does
<1> HIDE DEF c
<1>7. IsSeq(c \o q) /\ CallsAt(c \o q, Here) = CallsAt(c, Here)
  BY <1>4, <1>6, QuietMore
<1> QED
  BY <1>5, <1>6, <1>7 DEF CodeMakes, Makes, v

LEMMA ScalarMakes ==
  ASSUME NEW let, let.e \in Exprs, NEW ty, Goes(InitScalar(let, Here, ty))
  PROVE  CodeMakes(InitScalar(let, Here, ty).code, CallOrder[let.e])
<1> DEFINE v == Lower(let.e)
           w == CASE v.ty = I1 /\ ty = I64 -> Op("zext", <<v>>, ty, TRUE, Here)
                  [] v.ty = I64 /\ ty = I1 -> Op("!=", <<v>>, ty, TRUE, Here)
                  [] OTHER -> v
           alloca == Alloca(Here, ty, Here)
           store == Store(w, {Here}, ty, Here)
           C == CallOrder[let.e]
           init == [w EXCEPT !.code = <<alloca>> \o @ \o <<store>>]
<1>1. Does(v, C, Here) /\ IsSeq(C)
  BY LowerMakes
<1>2. Does(w, C, Here)
  <2> HIDE DEF v, C
  <2>1. \A op : op # "call" => Does(Op(op, <<v>>, ty, TRUE, Here), C, Here)
    BY <1>1, DoesOne
  <2> QED
    BY <1>1, <2>1
<1>3. Quiet(<<alloca>>, Here) /\ Quiet(<<store>>, Here)
  BY QuietOne DEF Alloca, Instr, Store
<1>4. InitScalar(let, Here, ty) = init
  BY DEF InitScalar
<1> HIDE DEF w, alloca, store, C
<1> DEFINE a == <<alloca>>   c == w.code   z == <<store>>   ac == a \o c   acz == ac \o z
<1>5. init.code = acz /\ init.stop = w.stop
  BY <1>2 DEF Does, IsValue
<1>6. IsSeq(c) /\ Quiet(a, Here) /\ Quiet(z, Here) /\ CallsAt(c, Here) = C
  BY <1>2, <1>3, <1>4, <1>5 DEF Does, Goes
<1> HIDE DEF a, c, z, init
<1>7. IsSeq(ac) /\ CallsAt(ac, Here) = CallsAt(c, Here)
  BY <1>6, QuietMore
<1> HIDE DEF ac
<1>8. IsSeq(acz) /\ CallsAt(acz, Here) = CallsAt(ac, Here)
  BY <1>6, <1>7, QuietMore
<1> HIDE DEF acz
<1> QED
  BY <1>4, <1>5, <1>6, <1>7, <1>8 DEF CodeMakes, Makes, C

CallsInTurn(code, first, probe, fill, at) ==
  CallsAt(code, at) = CallsAt(first, at) \o (CallsAt(probe, at) \o CallsAt(fill, at))

LEMMA FourJoined ==
  ASSUME NEW first, IsSeq(first), NEW a, NEW at, Quiet(a, at), NEW probe, IsSeq(probe),
         NEW fill, IsSeq(fill), NEW code, code = ((first \o a) \o probe) \o fill
  PROVE  IsSeq(code) /\ CallsInTurn(code, first, probe, fill, at)
<1> DEFINE fa == first \o a
           fap == fa \o probe
<1>1. IsSeq(fa) /\ CallsAt(fa, at) = CallsAt(first, at)
  BY QuietMore
<1>2. code = fap \o fill
  OBVIOUS
<1> HIDE DEF fa
<1>3. IsSeq(fap)
  BY <1>1, Concatenation
<1>4. CallsAt(fap, at) = CallsAt(fa, at) \o CallsAt(probe, at)
  BY <1>1, CallsJoined
<1> HIDE DEF fap
<1>5. IsSeq(code) /\ CallsAt(code, at) = CallsAt(fap, at) \o CallsAt(fill, at)
  <2>1. CallsAt(fap \o fill, at) = CallsAt(fap, at) \o CallsAt(fill, at)
    BY <1>3, CallsJoined
  <2> QED
    BY <1>2, <1>3, <2>1, Concatenation
<1>6. IsSeq(CallsAt(first, at)) /\ IsSeq(CallsAt(probe, at)) /\ IsSeq(CallsAt(fill, at))
  BY CallsAreSeq
<1> DEFINE g == CallsAt(first, at)
           p == CallsAt(probe, at)
           f == CallsAt(fill, at)
<1>7. CallsAt(code, at) = (g \o p) \o f
  BY <1>1, <1>4, <1>5
<1> HIDE DEF g, p, f
<1>8. (g \o p) \o f = g \o (p \o f)
  BY <1>6, ConcatTwice DEF g, p, f
<1> QED
  BY <1>5, <1>7, <1>8 DEF g, p, f, CallsInTurn

(* An array has its first element generated once more, and again where the *)
(* declaration has no annotation.                                          *)
LEMMA ArrayMakes ==
  ASSUME NEW let, let.k = "let", let.e \in Exprs, let.e.k = "arraylit", NEW ty,
         Goes(InitArray(let, Here, ty))
  PROVE  CodeMakes(InitArray(let, Here, ty).code, TypeCalls(let) \o CallOrder[let.e])
<1> DEFINE es == let.e.elems
           G == [d \in Exprs |-> Lower(d)]
           vs == [i \in DOMAIN es |-> Lower(es[i])]
           cs == Each(CallOrder, es)
           probe == IF vs = << >> THEN << >> ELSE vs[1].code
           array == IF ty.k = "array" THEN ty ELSE NoArray
           fill == Fill(vs, {Here}, array, Here)
           first == IF let.ann = NoType THEN probe ELSE << >>
           a == <<Alloca(Here, ty, Here)>>
           code == first \o a \o probe \o fill
           then == Then(vs, Void, << >>)
           init == [then EXCEPT !.code = code]
           one == CallOrder[es[1]]
           all == FlattenSeq(cs)
           C == CallOrder[let.e]
           T == TypeCalls(let)
<1>1. IsSeq(es) /\ \A i \in DOMAIN es : es[i] \in Exprs
  BY Operands DEF Simpler
<1>2. \A i \in DOMAIN es : Does(G[es[i]], CallOrder[es[i]], Here) /\ IsSeq(CallOrder[es[i]])
  BY <1>1, LowerMakes
<1>3. Several(vs, cs, Here)
  <2>0. vs = Each(G, es)
    BY <1>1 DEF Each
  <2>1. vs = Each(G, es) /\ cs = Each(CallOrder, es)
    BY <2>0
  <2> HIDE DEF es, G, vs, cs
  <2> QED
    BY <1>1, <1>2, <2>1, EachDoes
<1>4. InitArray(let, Here, ty) = init
  BY DEF InitArray
<1>5. /\ C = IF es = << >> THEN << >> ELSE one \o all
      /\ T = IF let.ann = NoType /\ es # << >> THEN one ELSE << >>
  <2>1. C = IF es = << >> THEN << >> ELSE one \o All(CallOrder, es)
    BY CallOrderIs DEF OrderBody
  <2>2. All(CallOrder, es) = all
    BY DEF All, Each
  <2>3. T = IF let.ann = NoType /\ es # << >> THEN one ELSE << >>
    BY DEF TypeCalls
  <2> QED
    BY <2>1, <2>2, <2>3
<1>6. /\ IsSeq(vs) /\ Len(vs) = Len(es) /\ (es = << >> <=> vs = << >>)
      /\ (es # << >> => 1 \in 1 .. Len(vs) /\ cs[1] = one)
  <2>0. vs = [j \in DOMAIN es |-> vs[j]]
    OBVIOUS
  <2>1. vs = [j \in DOMAIN es |-> vs[j]] /\ \A j \in DOMAIN es : cs[j] = CallOrder[es[j]]
    BY <2>0 DEF Each
  <2> HIDE DEF es, vs, cs
  <2>2. es # << >> => 1 \in 1 .. Len(es) /\ 1 \in DOMAIN es
    BY <1>1, HasFirst
  <2>3. IsSeq(vs) /\ Len(vs) = Len(es)
    BY <1>1, <2>1, Mapped
  <2>4. es = << >> <=> vs = << >>
    <3>1. \A q : IsSeq(q) => (Len(q) = 0 <=> q = << >>)
      BY EmptyStack, SeqBasics
    <3> QED
      BY <1>1, <2>3, <3>1
  <2> QED
    BY <2>1, <2>2, <2>3, <2>4
<1>7. Quiet(a, Here)
  BY QuietOne DEF Alloca, Instr
<1>8. Follows(vs, cs, << >>, Here, then)
  <2> HIDE DEF vs, cs
  <2> QED
    BY <1>3, EmptyStack, DoesThen
<1>9. all = << >> \/ es # << >>
  <2>1. ASSUME es = << >> PROVE all = << >>
    <3>1. IsSeq(cs) /\ Len(cs) = 0
      BY <1>3, <1>6, <2>1, EmptyStack DEF Several
    <3> HIDE DEF cs
    <3>2. cs = << >>
      BY <3>1, SeqBasics
    <3> QED
      BY <3>2, FlattenNothing
  <2> QED
    BY <2>1
<1> HIDE DEF es, vs, cs, then, a, code, one, all, C, T
<1>10. init.code = code /\ init.stop = then.stop
  BY <1>8 DEF Follows, IsValue
<1> HIDE DEF init
<1>11. \A i \in 1 .. Len(vs) : vs[i].stop = ""
  BY <1>4, <1>8, <1>10 DEF Follows, Goes
<1>12. IsSeq(fill) /\ CallsAt(fill, Here) = all
  BY <1>3, <1>11, DoesFill DEF all
<1>13. IsSeq(probe) /\ CallsAt(probe, Here) = IF es = << >> THEN << >> ELSE one
  <2>1. CASE es # << >>
    <3>1. 1 \in 1 .. Len(vs) /\ probe = vs[1].code /\ cs[1] = one
      BY <1>6, <2>1
    <3>2. IsSeq(vs[1].code) /\ CallsAt(vs[1].code, Here) = cs[1]
      BY <1>3, <1>11, <3>1 DEF Several, Does
    <3> QED
      BY <2>1, <3>1, <3>2
  <2>2. CASE es = << >>
    <3>1. probe = << >>
      BY <1>6, <2>2
    <3> QED
      BY <2>2, <3>1, QuietNone DEF Quiet
  <2> QED
    BY <2>1, <2>2
<1> HIDE DEF probe
<1>14. IsSeq(first) /\ CallsAt(first, Here) = T
  BY <1>5, <1>13, QuietNone DEF Quiet
<1>15. IsSeq(code) /\ CallsInTurn(code, first, probe, fill, Here)
  <2>1. code = ((first \o a) \o probe) \o fill
    BY DEF code
  <2> HIDE DEF first, fill
  <2>2. IsSeq(first) /\ Quiet(a, Here) /\ IsSeq(probe) /\ IsSeq(fill)
    BY <1>7, <1>12, <1>13, <1>14
  <2> QED
    BY <2>1, <2>2, FourJoined
<1> DEFINE p == CallsAt(probe, Here)
<1>16. p \o all = C
  <2>1. CASE es # << >>
    BY <1>5, <1>13, <2>1
  <2>2. CASE es = << >>
    <3>1. << >> \o << >> = << >>
      BY EmptyStack, ConcatEmpty
    <3> QED
      BY <1>5, <1>9, <1>13, <2>2, <3>1
  <2> QED
    BY <2>1, <2>2
<1>17. CallsAt(code, Here) = T \o (p \o all)
  BY <1>12, <1>14, <1>15 DEF CallsInTurn
<1>18. InitArray(let, Here, ty).code = code
  BY <1>4, <1>10
<1> HIDE DEF p
<1>19. CallsAt(code, Here) = T \o C
  BY <1>16, <1>17
<1> QED
  BY <1>15, <1>18, <1>19 DEF CodeMakes, Makes, T, C

-----------------------------------------------------------------------------
(* What each statement does to the blocks, in terms of its calls.           *)

(* What a step does to the blocks, in terms of the calls of its statement. *)
StepCalls(bs) ==
  Writes(bs) /\ IsBlocks(bs) /\ \E b : OnlyIn(bs, b, CallsMade(Node), Here)

Quietly == ~HasCode(Node)

LEMMA NothingWritten == Quietly => CallsMade(Node) = << >>
  BY DEF Quietly, CallsMade

(* a statement with an expression, which makes the expression's calls      *)
LEMMA ExprWritten ==
  ASSUME Node.e \in Exprs, Node.k \in {"let", "expr", "return", "if", "while"},
         Node.k # "let" \/ Node.e.k # "arraylit", NEW code, CodeMakes(code, CallOrder[Node.e])
  PROVE  CodeMakes(code, CallsMade(Node))
<1>1. Node.e # NoExpr
  BY ExprsAssumption DEF NoExpr
<1>2. CASE HasCode(Node)
  <2>1. TypeCalls(Node) = << >>
    BY DEF TypeCalls
  <2>2. CallsMade(Node) = << >> \o CallOrder[Node.e]
    BY <1>1, <1>2, <2>1 DEF CallsMade
  <2> QED
    BY <2>2, CallOrderIs, ConcatEmpty
<1>3. CASE ~HasCode(Node)
  <2>1. Node.e.k \in {"int", "bool"}
    BY <1>3 DEF HasCode, Emits
  <2>2. CallOrder[Node.e] = << >>
    BY <2>1, CallOrderIs DEF OrderBody
  <2>3. CallsMade(Node) = << >>
    BY <1>3 DEF CallsMade
  <2> QED
    BY <2>2, <2>3
<1> QED
  BY <1>2, <1>3

(* a declaration with an array literal                                     *)
LEMMA ArrayWritten ==
  ASSUME Node.e \in Exprs, Node.k = "let", Node.e.k = "arraylit"
  PROVE  CallsMade(Node) = TypeCalls(Node) \o CallOrder[Node.e]
<1>1. Node.e # NoExpr
  BY ExprsAssumption DEF NoExpr
<1>2. HasCode(Node)
  BY DEF HasCode, Emits
<1> QED
  BY <1>1, <1>2 DEF CallsMade

LEMMA SimpleCalls ==
  ASSUME GInv, IRBlocks, NoneIn(Blocks, Here), GenLet \/ GenExpr \/ GenReturn, status' # "fatal"
  PROVE  \E bs : StepCalls(bs)
<1>1. status = "gen" /\ pc <= Len(Fn.body) /\ Node.k \in {"let", "expr", "return"} /\ \A why : ~Fatal(why)
  BY DEF GenLet, GenExpr, GenReturn, At, Fatal
<1>2. PICK code : SetBlocks(Put(Blocks, ins, code)) /\ CodeMakes(code, CallsMade(Node))
  <2>1. CASE GenLet
    <3>1. Node.e \in Exprs /\ Node.k = "let"
      BY <1>1, <2>1, NodeExpr DEF GenLet, At, HasExpr
    <3> DEFINE ty == LetType(Node)
               init == IF Node.e.k = "arraylit" THEN InitArray(Node, Here, ty)
                       ELSE InitScalar(Node, Here, ty)
    <3>2. SetBlocks(Put(Blocks, ins, init.code)) /\ init.stop = ""
      BY <1>1, <2>1 DEF GenLet
    <3>3. Goes(init)
      BY <3>2 DEF Goes
    <3>4. CodeMakes(init.code, CallsMade(Node))
      <4>1. CASE Node.e.k = "arraylit"
        BY <3>1, <3>3, <4>1, ArrayMakes, ArrayWritten
      <4>2. CASE Node.e.k # "arraylit"
        <5>1. CodeMakes(init.code, CallOrder[Node.e])
          BY <3>1, <3>3, <4>2, ScalarMakes
        <5> HIDE DEF init
        <5> QED
          BY <3>1, <4>2, <5>1, ExprWritten
      <4> QED
        BY <4>1, <4>2
    <3> HIDE DEF init
    <3> QED
      BY <3>2, <3>4
  <2>2. CASE GenExpr
    <3>1. Node.e \in Exprs /\ Node.k = "expr"
      BY <1>1, <2>2, NodeExpr DEF GenExpr, At, HasExpr
    <3> DEFINE v == Lower(Node.e)
    <3>2. SetBlocks(Put(Blocks, ins, v.code)) /\ v.stop = ""
      BY <1>1, <2>2 DEF GenExpr
    <3>3. CodeMakes(v.code, CallOrder[Node.e])
      BY <3>1, <3>2, LowerMakes DEF Does, CodeMakes, Makes
    <3> HIDE DEF v
    <3> QED
      BY <3>1, <3>2, <3>3, ExprWritten
  <2>3. CASE GenReturn
    <3> DEFINE v == IF Node.e = NoExpr THEN Value(Void, << >>) ELSE Lower(Node.e)
               ret == Instr("ret", v.base, v.ty = tyLLVM(prog[Target].ret), Here)
               c == v.code
               q == <<ret>>
    <3>1. SetBlocks(Put(Blocks, ins, c \o q)) /\ v.stop = "" /\ Node.k = "return"
      BY <1>1, <2>3 DEF GenReturn, At
    <3>2. Quiet(q, Here)
      BY QuietOne DEF Instr
    <3>3. CodeMakes(c, CallsMade(Node))
      <4>1. CASE Node.e = NoExpr
        <5>1. c = << >>
          BY <4>1 DEF Value
        <5>2. CallsMade(Node) = << >>
          BY <4>1 DEF CallsMade
        <5> HIDE DEF c
        <5> QED
          BY <5>1, <5>2, QuietNone DEF Quiet, CodeMakes, Makes
      <4>2. CASE Node.e # NoExpr
        <5>1. Node.e \in Exprs /\ v = Lower(Node.e)
          BY <1>1, <2>3, <4>2, NodeExpr DEF GenReturn, At, HasExpr
        <5>2. CodeMakes(c, CallOrder[Node.e])
          BY <3>1, <5>1, LowerMakes DEF Does, CodeMakes, Makes
        <5> HIDE DEF v, c
        <5> QED
          BY <3>1, <5>1, <5>2, ExprWritten
      <4> QED
        BY <4>1, <4>2
    <3> HIDE DEF c, q
    <3> DEFINE cq == c \o q
    <3>4. IsSeq(cq) /\ CallsAt(cq, Here) = CallsAt(c, Here)
      BY <3>2, <3>3, QuietMore DEF CodeMakes, Makes
    <3>5. SetBlocks(Put(Blocks, ins, cq))
      BY <3>1
    <3> HIDE DEF cq
    <3>6. CodeMakes(cq, CallsMade(Node))
      BY <3>3, <3>4 DEF CodeMakes, Makes
    <3> QED
      BY <3>5, <3>6
  <2> QED
    BY <2>1, <2>2, <2>3
<1> DEFINE bs == Put(Blocks, ins, code)
<1>3. IsBlocks(bs) /\ OnlyIn(bs, ins, CallsMade(Node), Here)
  <2>1. IsSeq(code) /\ CallsAt(code, Here) = CallsMade(Node)
    BY <1>2 DEF CodeMakes, Makes
  <2>2. IsBlocks(bs) /\ OnlyIn(bs, ins, CallsAt(code, Here), Here)
    BY <1>1, <2>1, AtBlocks, PutCalls
  <2> QED
    BY <2>1, <2>2
<1>4. Writes(bs)
  BY <1>1, <1>2, AtBlocks DEF SetBlocks
<1> HIDE DEF bs
<1> QED
  BY <1>3, <1>4 DEF StepCalls

(* code that makes no calls *)
LEMMA QuietCalls ==
  ASSUME GInv, IRBlocks, NoneIn(Blocks, Here), status = "gen", pc <= Len(Fn.body), Quietly,
         NEW bs, Writes(bs), IsBlocks(bs), NoneIn(bs, Here), Len(bs) >= Len(Blocks)
  PROVE  StepCalls(bs)
<1>1. ins \in 1 .. Len(Blocks) /\ Len(Blocks) \in Nat
  BY AtBlocks
<1>2. Len(bs) \in Nat
  BY SeqBasics DEF IsBlocks
<1>3. ins \in 1 .. Len(bs)
  BY <1>1, <1>2
<1>4. OnlyIn(bs, ins, << >>, Here)
  BY <1>3, NoneIsOnly
<1>5. OnlyIn(bs, ins, CallsMade(Node), Here)
  BY <1>4, NothingWritten
<1> QED
  BY <1>5 DEF StepCalls

LEMMA QuietPut ==
  ASSUME GInv, IRBlocks, NoneIn(Blocks, Here), status = "gen", pc <= Len(Fn.body), NEW to
  PROVE  LET bs == Put(Blocks, ins, <<Br(to, {}, Here)>>)
         IN  IsBlocks(bs) /\ Len(bs) = Len(Blocks) /\ NoneIn(bs, Here)
<1> DEFINE q == <<Br(to, {}, Here)>>
           bs == Put(Blocks, ins, q)
<1>1. Quiet(q, Here)
  BY QuietOne DEF Br
<1> HIDE DEF q
<1>2. IsSeq(q) /\ CallsAt(q, Here) = << >>
  BY <1>1 DEF Quiet
<1>3. IsBlocks(Blocks) /\ ins \in 1 .. Len(Blocks)
  BY AtBlocks
<1>4. IsBlocks(bs) /\ Len(bs) = Len(Blocks) /\ OnlyIn(bs, ins, CallsAt(q, Here), Here)
  BY <1>2, <1>3, PutCalls
<1>5. NoneIn(bs, Here)
  BY <1>2, <1>4, NoneIsOnly
<1> QED
  BY <1>4, <1>5 DEF q

LEMMA CloseCalls ==
  ASSUME GInv, IRBlocks, NoneIn(Blocks, Here), GenElse \/ GenEndIf \/ GenEndWhile \/ GenDefer
  PROVE  \E bs : StepCalls(bs)
<1>1. /\ status = "gen" /\ pc <= Len(Fn.body) /\ Node.k \in {"else", "endif", "endwhile", "defer"}
  BY DEF GenElse, GenEndIf, GenEndWhile, GenDefer, At
<1>2. Quietly
  BY <1>1 DEF Quietly, HasCode, Emits
<1>3. IsBlocks(Blocks) /\ Len(Blocks) \in Nat
  BY <1>1, AtBlocks
<1>4. \/ ir' = ir
      \/ \E to : SetBlocks(Close(Blocks, ins, to))
  BY DEF GenElse, GenEndIf, GenEndWhile, GenDefer
<1>5. Writes(Blocks) \/ \E to : Writes(Put(Blocks, ins, <<Br({to}, {}, Here)>>))
  <2>1. ir' = ir => Writes(Blocks)
    BY DEF Writes, Blocks
  <2>2. \A to : SetBlocks(Close(Blocks, ins, to)) => Writes(Close(Blocks, ins, to))
    BY <1>1, AtBlocks DEF SetBlocks
  <2> QED
    BY <1>4, <2>1, <2>2 DEF Close
<1>6. CASE Writes(Blocks)
  BY <1>1, <1>2, <1>3, <1>6, QuietCalls
<1>7. ASSUME NEW to, Writes(Put(Blocks, ins, <<Br({to}, {}, Here)>>)) PROVE \E bs : StepCalls(bs)
  <2> DEFINE bs == Put(Blocks, ins, <<Br({to}, {}, Here)>>)
  <2>1. IsBlocks(bs) /\ Len(bs) = Len(Blocks) /\ NoneIn(bs, Here) /\ Writes(bs)
    BY <1>1, <1>7, QuietPut
  <2> HIDE DEF bs
  <2>2. Len(bs) >= Len(Blocks)
    BY <1>3, <2>1
  <2> QED
    BY <1>1, <1>2, <2>1, <2>2, QuietCalls
<1> QED
  BY <1>5, <1>6, <1>7

LEMMA EmptyBlock ==
  ASSUME NEW name, NEW p, NEW at
  PROVE  IsBlock(Block(name, p)) /\ CallsAt(Block(name, p).code, at) = << >>
<1>1. Block(name, p).code = << >>
  BY DEF Block
<1> QED
  BY <1>1, NewBlock, QuietNone DEF Quiet

LEMMA JumpCalls ==
  ASSUME GInv, IRBlocks, NoneIn(Blocks, Here), GenBreak \/ GenContinue, status' # "fatal"
  PROVE  \E bs : StepCalls(bs)
<1>1. status = "gen" /\ pc <= Len(Fn.body) /\ Node.k \in {"break", "continue"} /\ \A why : ~Fatal(why)
  BY DEF GenBreak, GenContinue, At, Fatal
<1>2. PICK to, after : Jump(to, after)
  BY <1>1 DEF GenBreak, GenContinue
<1> DEFINE put == Put(Blocks, ins, <<Br({to}, {}, Here)>>)
           x == Block(after, pc)
           more == <<x>>
           bs == put \o more
<1>3. ir' = [ir EXCEPT ![Target] = Append(put, x)]
  BY <1>2 DEF Jump, SetBlocks
<1>4. IsBlocks(put) /\ Len(put) = Len(Blocks) /\ NoneIn(put, Here)
  BY <1>1, QuietPut
<1>5. IsBlock(x) /\ CallsAt(x.code, Here) = << >>
  BY EmptyBlock
<1>6. IsSeq(more) /\ Len(more) = 1 /\ more[1] = x
  BY OneEntryStack
<1>7. Append(put, x) = bs
  <2> HIDE DEF put, x
  <2>1. put \in Seq(Range(put) \cup {x}) /\ x \in Range(put) \cup {x}
    BY <1>4, SeqMonotonic DEF IsBlocks, IsSeq
  <2> QED
    BY <2>1, AppendIsConcat
<1> HIDE DEF put, x, more
<1>8. IsBlocks(more) /\ NoneIn(more, Here)
  <2>1. \A c : c \in 1 .. 1 => c = 1
    OBVIOUS
  <2> QED
    BY <1>5, <1>6, <2>1 DEF IsBlocks, NoneIn
<1>9. IsBlocks(Blocks) /\ Len(Blocks) \in Nat /\ ins \in 1 .. Len(Blocks)
  BY <1>1, AtBlocks
<1>10. OnlyIn(put, ins, << >>, Here)
  BY <1>4, <1>9, NoneIsOnly
<1>11. IsBlocks(bs) /\ OnlyIn(bs, ins, << >>, Here)
  BY <1>4, <1>8, <1>10, JoinCalls
<1>12. Writes(bs)
  BY <1>1, <1>3, <1>7, AtBlocks
<1>13. Quietly
  BY <1>1 DEF Quietly, HasCode
<1> HIDE DEF bs
<1>14. OnlyIn(bs, ins, CallsMade(Node), Here)
  BY <1>11, <1>13, NothingWritten
<1> QED
  BY <1>11, <1>12, <1>14 DEF StepCalls

LEMMA ThreeBlocks ==
  ASSUME NEW x, NEW y, NEW z, IsBlock(x), IsBlock(y), IsBlock(z), NEW at,
         CallsAt(y.code, at) = << >>, CallsAt(z.code, at) = << >>
  PROVE  IsBlocks(<<x, y, z>>) /\ OnlyIn(<<x, y, z>>, 1, CallsAt(x.code, at), at)
<1> DEFINE more == <<x, y, z>>
<1>1. IsSeq(more) /\ Len(more) = 3 /\ more[1] = x /\ more[2] = y /\ more[3] = z
  BY ThreeEntries
<1>2. \A i : i \in 1 .. 3 <=> i = 1 \/ i = 2 \/ i = 3
  OBVIOUS
<1> HIDE DEF more
<1>3. IsBlocks(more)
  BY <1>1, <1>2 DEF IsBlocks
<1>4. OnlyIn(more, 1, CallsAt(x.code, at), at)
  <2>1. \A i \in 1 .. Len(more) : i = 1 \/ i = 2 \/ i = 3
    BY <1>1, <1>2
  <2>2. 1 \in 1 .. Len(more) /\ 2 # 1 /\ 3 # 1
    BY <1>1
  <2> QED
    BY <1>1, <2>1, <2>2 DEF OnlyIn
<1> QED
  BY <1>3, <1>4 DEF more

LEMMA IfCalls ==
  ASSUME GInv, IRBlocks, NoneIn(Blocks, Here), GenIf, status' # "fatal"
  PROVE  \E bs : StepCalls(bs)
<1> DEFINE v == Lower(Node.e)
           n == Len(Blocks)
           code == Test(v, {n+1, n+2})
           x == Block("then", pc)   y == Block("else", pc)   z == Block("ifend", pc)
           put == Put(Blocks, ins, code)
           more == <<x, y, z>>
           bs == put \o more
<1>1. status = "gen" /\ pc <= Len(Fn.body) /\ Node.k = "if" /\ \A why : ~Fatal(why)
  BY DEF GenIf, At, Fatal
<1>2. SetBlocks(bs) /\ v.stop = ""
  BY <1>1 DEF GenIf
<1>3. Node.e \in Exprs /\ Goes(v)
  BY <1>1, <1>2, NodeExpr DEF HasExpr, Goes
<1>4. CodeMakes(code, CallOrder[Node.e])
  BY <1>3, TestMakes
<1> HIDE DEF code
<1>5. IsSeq(code) /\ CallsAt(code, Here) = CallsMade(Node)
  BY <1>1, <1>3, <1>4, ExprWritten DEF CodeMakes, Makes
<1>6. IsBlocks(Blocks) /\ ins \in 1 .. Len(Blocks)
  BY <1>1, AtBlocks
<1>7. IsBlocks(put) /\ OnlyIn(put, ins, CallsAt(code, Here), Here)
  BY <1>5, <1>6, PutCalls
<1>8. IsBlocks(more) /\ NoneIn(more, Here)
  <2>1. /\ IsBlock(x) /\ IsBlock(y) /\ IsBlock(z) /\ CallsAt(x.code, Here) = << >>
        /\ CallsAt(y.code, Here) = << >> /\ CallsAt(z.code, Here) = << >>
    BY EmptyBlock
  <2> HIDE DEF x, y, z
  <2>2. IsBlocks(more) /\ OnlyIn(more, 1, CallsAt(x.code, Here), Here)
    BY <2>1, ThreeBlocks
  <2> QED
    BY <2>1, <2>2, NoneIsOnly
<1>9. Writes(bs)
  BY <1>1, <1>2, AtBlocks DEF SetBlocks
<1> HIDE DEF put, more
<1>10. IsBlocks(bs) /\ OnlyIn(bs, ins, CallsAt(code, Here), Here)
  BY <1>7, <1>8, JoinCalls
<1> HIDE DEF bs
<1> QED
  BY <1>5, <1>9, <1>10 DEF StepCalls

(* the calls of a while's condition are in its own block *)
LEMMA WhileCalls ==
  ASSUME GInv, IRBlocks, NoneIn(Blocks, Here), GenWhile, status' # "fatal"
  PROVE  \E bs : StepCalls(bs)
<1> DEFINE v == Lower(Node.e)
           n == Len(Blocks)
           test == Test(v, {n+2, n+3})
           x == [Block("while.cond", pc) EXCEPT !.code = test]
           y == Block("while.body", pc)   z == Block("while.end", pc)
           put == Put(Blocks, ins, <<Br({n+1}, {}, Here)>>)
           more == <<x, y, z>>
           bs == put \o more
<1>1. status = "gen" /\ pc <= Len(Fn.body) /\ Node.k = "while" /\ \A why : ~Fatal(why)
  BY DEF GenWhile, At, Fatal
<1>2. SetBlocks(bs) /\ v.stop = ""
  BY <1>1 DEF GenWhile
<1>3. Node.e \in Exprs /\ Goes(v)
  BY <1>1, <1>2, NodeExpr DEF HasExpr, Goes
<1>4. CodeMakes(test, CallOrder[Node.e])
  BY <1>3, TestMakes
<1> HIDE DEF test
<1>5. IsSeq(test) /\ CallsAt(test, Here) = CallsMade(Node)
  BY <1>1, <1>3, <1>4, ExprWritten DEF CodeMakes, Makes
<1>6. IsBlock(x) /\ x.code = test
  BY <1>5 DEF Block, IsBlock
<1>7. IsBlocks(put) /\ NoneIn(put, Here)
  BY <1>1, QuietPut
<1>8. IsBlocks(more) /\ OnlyIn(more, 1, CallsAt(test, Here), Here)
  <2>1. /\ IsBlock(y) /\ IsBlock(z)
        /\ CallsAt(y.code, Here) = << >> /\ CallsAt(z.code, Here) = << >>
    BY EmptyBlock
  <2> HIDE DEF x, y, z
  <2>2. IsBlocks(more) /\ OnlyIn(more, 1, CallsAt(x.code, Here), Here)
    BY <1>6, <2>1, ThreeBlocks
  <2> QED
    BY <1>6, <2>2
<1>9. Writes(bs)
  BY <1>1, <1>2, AtBlocks DEF SetBlocks
<1> HIDE DEF put, more
<1>10. IsBlocks(bs) /\ OnlyIn(bs, Len(put) + 1, CallsAt(test, Here), Here)
  BY <1>7, <1>8, JoinCalls
<1> HIDE DEF bs
<1> QED
  BY <1>5, <1>9, <1>10 DEF StepCalls

LEMMA StatementCalls ==
  ASSUME GInv, IRBlocks, NoneIn(Blocks, Here), GenStmt, status' # "fatal"
  PROVE  \E bs : StepCalls(bs)
  BY SimpleCalls, CloseCalls, JumpCalls, IfCalls, WhileCalls DEF GenStmt

-----------------------------------------------------------------------------
(* Nothing is emitted for a statement before its turn, so that its calls    *)
(* are those its own step puts in.                                          *)

(* instruction i was emitted for a position before p of body c, or for an  *)
(* earlier body                                                            *)
EmittedBefore(i, c, p) ==
  /\ i.at[1] \in 1 .. c /\ i.at[2] \in Nat
  /\ i.at[1] = c => i.at[2] < p

(* Nothing is emitted yet for the position the generator is at.            *)
OInv ==
  status \in {"begin", "gen"} =>
    \A f \in DOMAIN ir : \A i \in CodeOf(ir[f]) :
      EmittedBefore(i, cur, IF status = "gen" THEN pc ELSE 0)

LEMMA StillBefore ==
  ASSUME NEW i, NEW c \in Nat, NEW p \in Nat, EmittedBefore(i, c, p),
         NEW d \in Nat, NEW q \in Nat, c < d \/ (c = d /\ p <= q)
  PROVE  EmittedBefore(i, d, q)
<1> DEFINE a == i.at[1]  b == i.at[2]
<1>1. a \in 1 .. c /\ b \in Nat /\ (a = c => b < p)
  BY DEF EmittedBefore
<1>2. a \in 1 .. d /\ (a = d => b < q)
  <2> HIDE DEF a, b
  <2> QED
    BY <1>1
<1> QED
  BY <1>1, <1>2 DEF EmittedBefore

LEMMA WriteBefore ==
  ASSUME NEW c \in Nat, NEW p \in Nat, NEW d \in Nat, NEW q \in Nat, c < d \/ (c = d /\ p <= q),
         \A f \in DOMAIN ir : \A i \in CodeOf(ir[f]) : EmittedBefore(i, c, p),
         Target \in DOMAIN ir,
         NEW bs, NEW new, Writes(bs), Grown(Blocks, bs, new), \A i \in new : EmittedBefore(i, d, q)
  PROVE  \A f \in DOMAIN ir' : \A i \in CodeOf(ir'[f]) : EmittedBefore(i, d, q)
<1> SUFFICES ASSUME NEW f \in DOMAIN ir', NEW i \in CodeOf(ir'[f]), i \notin new
             PROVE  EmittedBefore(i, d, q)
  OBVIOUS
<1>1. f \in DOMAIN ir /\ i \in CodeOf(ir[f])
  <2>1. CASE f = Target
    BY <2>1 DEF Writes, Grown, Blocks
  <2>2. CASE f # Target
    BY <2>2 DEF Writes
  <2> QED
    BY <2>1, <2>2
<1>2. EmittedBefore(i, c, p)
  BY <1>1
<1> QED
  BY <1>2, StillBefore

LEMMA InitOInv == Init => OInv
  BY DEF Init, OInv

(* a statement is not generated yet when the generator comes to it         *)
LEMMA NotYet ==
  ASSUME GInv, IRBlocks, OInv, status = "gen"
  PROVE  NoneIn(Blocks, Here)
<1>1. cur <= Len(prog)
  BY DEF GInv, TypeOK
<1>2. Target \in DOMAIN ir /\ cur \in Nat /\ pc \in Nat
  BY <1>1, TargetExists DEF GInv, TypeOK
<1>3. IsBlocks(Blocks)
  BY <1>2 DEF IRBlocks, Blocks
<1>4. \A i \in CodeOf(Blocks) : i.at # Here
  <2> SUFFICES ASSUME NEW i \in CodeOf(Blocks), i.at = Here PROVE FALSE
    OBVIOUS
  <2>1. EmittedBefore(i, cur, pc)
    BY <1>2 DEF OInv, Blocks
  <2>2. i.at[1] = cur /\ i.at[2] = pc
    BY DEF Here
  <2> QED
    BY <1>2, <2>1, <2>2 DEF EmittedBefore
<1> SUFFICES ASSUME NEW c \in 1 .. Len(Blocks) PROVE CallsAt(Blocks[c].code, Here) = << >>
  BY DEF NoneIn
<1>5. IsSeq(Blocks[c].code) /\ Range(Blocks[c].code) \subseteq CodeOf(Blocks)
  BY <1>3 DEF IsBlocks, IsBlock, CodeOf
<1>6. \A i \in Range(Blocks[c].code) : i.op # "call" \/ i.at # Here
  BY <1>4, <1>5
<1> QED
  BY <1>5, <1>6, NoCalls

LEMMA BeginOrder == GInv /\ IRBlocks /\ OInv /\ BeginFunction => OInv'
<1> SUFFICES ASSUME GInv, IRBlocks, OInv, BeginFunction PROVE OInv'
  OBVIOUS
<1>1. status = "begin" /\ status' = "gen" /\ cur <= Len(prog) /\ cur' = cur /\ pc' = 1
  BY DEF BeginFunction
<1>2. cur \in Nat \ {0} /\ Target \in DOMAIN ir
  BY <1>1, TargetExists DEF GInv, TypeOK
<1>3. PICK bs, new : Writes(bs) /\ Grown(Blocks, bs, new) /\ \A i \in new : i.at = <<cur, 0>>
  BY BeginBlocks
<1>4. \A f \in DOMAIN ir : \A i \in CodeOf(ir[f]) : EmittedBefore(i, cur, 0)
  BY <1>1 DEF OInv
<1>5. \A i \in new : EmittedBefore(i, cur, 1)
  BY <1>2, <1>3 DEF EmittedBefore
<1>6. \A f \in DOMAIN ir' : \A i \in CodeOf(ir'[f]) : EmittedBefore(i, cur, 1)
  <2>1. 0 \in Nat /\ 1 \in Nat /\ cur \in Nat /\ (cur < cur \/ (cur = cur /\ 0 <= 1))
    BY <1>2
  <2>2. Writes(bs) /\ Grown(Blocks, bs, new)
    BY <1>3
  <2> QED
    BY <1>2, <1>4, <1>5, <2>1, <2>2, WriteBefore
<1> QED
  BY <1>1, <1>6 DEF OInv, EmittedBefore

LEMMA EndOrder == GInv /\ IRBlocks /\ OInv /\ EndFunction => OInv'
<1> SUFFICES ASSUME GInv, IRBlocks, OInv, EndFunction, status' # "fatal" PROVE OInv'
  BY DEF OInv
<1>1. status = "gen" /\ status' = "begin" /\ cur' = cur + 1
  BY DEF EndFunction, Fatal
<1>2. cur \in Nat \ {0} /\ pc \in Nat \ {0} /\ cur <= Len(prog)
  BY <1>1, TargetExists DEF GInv, TypeOK
<1>3. Target \in DOMAIN ir
  BY <1>1, <1>2, TargetExists
<1>4. PICK bs, new : Writes(bs) /\ Grown(Blocks, bs, new) /\ \A i \in new : i.at = Here /\ i.slots = {}
  BY EndBlocks
<1>5. \A f \in DOMAIN ir : \A i \in CodeOf(ir[f]) : EmittedBefore(i, cur, pc)
  BY <1>1 DEF OInv
<1>6. \A i \in new : EmittedBefore(i, cur + 1, 0)
  BY <1>2, <1>4 DEF EmittedBefore, Here
<1>7. \A f \in DOMAIN ir' : \A i \in CodeOf(ir'[f]) : EmittedBefore(i, cur + 1, 0)
  <2>1. 0 \in Nat /\ pc \in Nat /\ cur \in Nat /\ cur + 1 \in Nat /\ cur < cur + 1
    BY <1>2
  <2>2. Writes(bs) /\ Grown(Blocks, bs, new)
    BY <1>4
  <2> QED
    BY <1>3, <1>5, <1>6, <2>1, <2>2, WriteBefore
<1> QED
  BY <1>1, <1>7 DEF OInv, EmittedBefore

LEMMA StatementOrder == GInv /\ IRBlocks /\ OInv /\ GenStmt => OInv'
<1> SUFFICES ASSUME GInv, IRBlocks, OInv, GenStmt, status' # "fatal" PROVE OInv'
  BY DEF OInv
<1>1. status = "gen" /\ pc <= Len(Fn.body) /\ Advance
  BY DEF GenStmt, GenLet, GenExpr, GenReturn, GenDefer, GenIf, GenElse, GenEndIf,
         GenWhile, GenEndWhile, GenBreak, GenContinue, Jump, At, Fatal
<1>2. status' = "gen" /\ cur' = cur /\ pc' = pc + 1
  BY <1>1 DEF Advance
<1>3. cur \in Nat \ {0} /\ pc \in Nat \ {0} /\ Target \in DOMAIN ir
  BY <1>1, AtBlocks DEF GInv, TypeOK
<1>4. PICK bs, new : StepCode(bs, new)
  BY StatementCode
<1>5. Writes(bs) /\ Grown(Blocks, bs, new) /\ \A i \in new : i.at = Here
  BY <1>4 DEF StepCode, FreshSet
<1>6. \A f \in DOMAIN ir : \A i \in CodeOf(ir[f]) : EmittedBefore(i, cur, pc)
  BY <1>1 DEF OInv
<1>7. \A i \in new : EmittedBefore(i, cur, pc + 1)
  BY <1>3, <1>5 DEF EmittedBefore, Here
<1>8. \A f \in DOMAIN ir' : \A i \in CodeOf(ir'[f]) : EmittedBefore(i, cur, pc + 1)
  <2>1. pc \in Nat /\ pc + 1 \in Nat /\ cur \in Nat /\ (cur < cur \/ (cur = cur /\ pc <= pc + 1))
    BY <1>3
  <2>2. Writes(bs) /\ Grown(Blocks, bs, new)
    BY <1>5
  <2> QED
    BY <1>3, <1>6, <1>7, <2>1, <2>2, WriteBefore
<1> QED
  BY <1>2, <1>8 DEF OInv, EmittedBefore

LEMMA NextOInv == GInv /\ CInv /\ OInv /\ [Next]_vars => OInv'
<1> SUFFICES ASSUME GInv, CInv, OInv, [Next]_vars PROVE OInv'
  OBVIOUS
<1>1. IRBlocks
  BY DEF CInv
<1>2. CASE DeclareFunction \/ Finish
  <2>1. status' \notin {"begin", "gen"}
    BY <1>2 DEF DeclareFunction, Finish
  <2> QED
    BY <2>1 DEF OInv
<1>3. CASE StartDefining
  <2>1. \A f \in DOMAIN ir' : CodeOf(ir'[f]) = {}
    <3>1. (\A f \in DOMAIN ir : ir[f] = << >>) /\ ir' = ir
      BY <1>3 DEF StartDefining, CInv
    <3>2. CodeOf(<< >>) = {}
      <4>1. Len(<< >>) = 0
        BY EmptyStack
      <4>2. \A b : b \notin 1 .. 0
        OBVIOUS
      <4> QED
        BY <4>1, <4>2 DEF CodeOf
    <3> QED
      BY <3>1, <3>2
  <2>2. \A f \in DOMAIN ir' : \A i \in CodeOf(ir'[f]) : FALSE
    BY <2>1
  <2> QED
    BY <2>2 DEF OInv, CodeOf
<1>4. CASE UNCHANGED vars
  BY <1>4 DEF vars, OInv, CodeOf, EmittedBefore
<1> QED
  BY <1>1, <1>2, <1>3, <1>4, BeginOrder, EndOrder, StatementOrder DEF Next, Emit, Stopped

LEMMA StatementOrdered == GInv /\ IRBlocks /\ OInv /\ GenStmt => EvaluatesInOrder'
<1> SUFFICES ASSUME GInv, IRBlocks, OInv, GenStmt, status' # "fatal" PROVE EvaluatesInOrder'
  BY DEF EvaluatesInOrder
<1>1. status = "gen" /\ pc <= Len(Fn.body) /\ Advance
  BY DEF GenStmt, GenLet, GenExpr, GenReturn, GenDefer, GenIf, GenElse, GenEndIf,
         GenWhile, GenEndWhile, GenBreak, GenContinue, Jump, At, Fatal
<1>2. pc \in Nat \ {0} /\ Target \in DOMAIN ir
  BY <1>1, AtBlocks
<1>3. PICK bs : StepCalls(bs)
  BY <1>1, NotYet, StatementCalls
<1>4. Writes(bs) /\ IsBlocks(bs)
  BY <1>3 DEF StepCalls
<1>5. PICK b : OnlyIn(bs, b, CallsMade(Node), Here)
  BY <1>3 DEF StepCalls
<1>6. Ordered(bs, Node, Here)
  BY <1>4, <1>5, OnlyOrdered
<1>7. Blocks' = bs /\ Fn' = Fn /\ pc' - 1 = pc /\ cur' = cur
  <2>1. Fn' = Fn /\ pc' = pc + 1 /\ cur' = cur /\ Target' = Target
    BY <1>1 DEF Advance, declared, Target, Fn
  <2>2. Blocks' = bs
    BY <1>2, <1>4, <2>1 DEF Writes, Blocks
  <2> QED
    BY <1>2, <2>1, <2>2
<1>8. Ordered(Blocks', Fn'.body[pc' - 1], <<cur', pc' - 1>>)
  BY <1>6, <1>7 DEF Node, Here
<1>9. EvaluatesInOrder' <=> (status' = "gen" /\ pc' > 1 => Ordered(Blocks', Fn'.body[pc' - 1], <<cur', pc' - 1>>))
  BY DEF EvaluatesInOrder, Ordered
<1> QED
  BY <1>8, <1>9

LEMMA NextOrdered == GInv /\ CInv /\ OInv /\ EvaluatesInOrder /\ [Next]_vars => EvaluatesInOrder'
<1> SUFFICES ASSUME GInv, CInv, OInv, EvaluatesInOrder, [Next]_vars PROVE EvaluatesInOrder'
  OBVIOUS
<1>1. CASE DeclareFunction \/ StartDefining \/ EndFunction \/ Finish
  <2>1. status' # "gen"
    BY <1>1 DEF DeclareFunction, StartDefining, EndFunction, Finish, Fatal
  <2> QED
    BY <2>1 DEF EvaluatesInOrder
<1>2. CASE BeginFunction
  <2>1. ~(pc' > 1)
    BY <1>2 DEF BeginFunction
  <2> QED
    BY <2>1 DEF EvaluatesInOrder
<1>3. CASE GenStmt
  BY <1>3, StatementOrdered DEF CInv
<1>4. CASE UNCHANGED vars
  BY <1>4 DEF vars, EvaluatesInOrder, Fn, Blocks, Target, declared
<1> QED
  BY <1>1, <1>2, <1>3, <1>4 DEF Next, Emit, Stopped

(* In every program, whatever its expressions, the code made for a         *)
(* statement calls exactly what is written in it, from left to right and   *)
(* arguments first, those on the right of && and || among them, each call  *)
(* once, but for what an array literal generates again for its element     *)
(* type, and all of it is in one block.                                    *)
THEOREM CodeGenEvaluatesInOrder == Spec => []EvaluatesInOrder
<1>1. Init => GInv /\ NamesAreFlat /\ CInv /\ OInv /\ EvaluatesInOrder
  BY InitGInv, InitCInv, InitOInv DEF Init, NamesAreFlat, EvaluatesInOrder
<1>2. GInv /\ NamesAreFlat /\ CInv /\ OInv /\ EvaluatesInOrder /\ [Next]_vars
      => (GInv /\ NamesAreFlat /\ CInv /\ OInv /\ EvaluatesInOrder)'
  BY NextGInv, NextNames, NextCInv, NextOInv, NextOrdered
<1> QED
  BY <1>1, <1>2, PTL DEF Spec

-----------------------------------------------------------------------------
(* Control flow.  First in the text of a body: what a position is inside   *)
(* of, and which positions control reaches, one step at a time.            *)

(* the node at o opens a block that is still open at p *)
Within(body, o, p) ==
  /\ o \in 1 .. p-1 /\ body[o].k \in {"if", "while"}
  /\ \A q \in o+1 .. p : BlockDepth(body, q) > BlockDepth(body, o)

(* Opener finds the block that is open.                                    *)
LEMMA OpenerIs ==
  ASSUME NEW body, NEW p \in Nat, NEW o, Within(body, o, p),
         BlockDepth(body, p) = BlockDepth(body, o) + 1
  PROVE  Opener(body, p) = o
<1> DEFINE B(q) == BlockDepth(body, q)
           S == {i \in 1 .. p-1 : body[i].k \in {"if", "while"} /\ B(i) = B(p) - 1}
           m == Max(S)
<1>1. \A q \in Int : B(q) \in Int
  BY DepthType
<1>2. o \in 1 .. p-1 /\ body[o].k \in {"if", "while"} /\ \A q \in o+1 .. p : B(q) > B(o)
  BY DEF Within
<1>3. B(o) \in Int /\ B(p) \in Int /\ B(p) = B(o) + 1
  BY <1>1, <1>2
<1> HIDE DEF B
<1>4. o \in S
  BY <1>2, <1>3
<1>5. S \in SUBSET (0 .. p) /\ S # {}
  BY <1>4
<1> HIDE DEF S
<1>6. m \in S /\ \A n \in S : n <= m
  BY <1>5, GreatestNumber
<1> HIDE DEF m
<1>7. m \in 1 .. p-1 /\ B(m) = B(p) - 1
  BY <1>6 DEF S
<1>8. ~(m > o)
  BY <1>2, <1>3, <1>7
<1>9. m = o
  BY <1>2, <1>4, <1>6, <1>7, <1>8
<1> QED
  BY <1>9 DEF Opener, m, S, B

(* What a node that ends a branch or a loop ends.                          *)
LEMMA ClosesWhat ==
  ASSUME NEW body, IsSeq(body), WellNested(body), NEW p \in 1 .. Len(body),
         body[p].k \in {"else", "endif", "endwhile"}
  PROVE  /\ Within(body, Opener(body, p), p)
         /\ BlockDepth(body, p) = BlockDepth(body, Opener(body, p)) + 1
         /\ body[Opener(body, p)].k = IF body[p].k = "endwhile" THEN "while" ELSE "if"
         /\ HasElse(body, Opener(body, p), p) <=> body[p].k = "endif"
         /\ Opener(body, p) \in 1 .. p-1
<1>1. Len(body) \in Nat /\ p \in Nat
  BY SeqBasics
<1>2. PICK o \in 1 .. p-1 :
        /\ BlockFrom(body, o, p)
        /\ body[o].k = IF body[p].k = "endwhile" THEN "while" ELSE "if"
        /\ HasElse(body, o, p) <=> body[p].k = "endif"
  BY DEF WellNested, Closes
<1>3. Within(body, o, p) /\ BlockDepth(body, p) = BlockDepth(body, o) + 1
  <2> DEFINE B(q) == BlockDepth(body, q)
  <2>1. B(o) \in Int
    BY <1>1, DepthType
  <2>2. body[o].k \in {"if", "while"} /\ B(p) = B(o) + 1 /\ \A q \in o+1 .. p-1 : B(q) > B(o)
    BY <1>2 DEF BlockFrom
  <2> HIDE DEF B
  <2>3. \A q \in o+1 .. p : B(q) > B(o)
    BY <1>1, <2>1, <2>2
  <2> QED
    BY <1>2, <2>2, <2>3 DEF Within, B
<1>4. Opener(body, p) = o
  BY <1>1, <1>3, OpenerIs
<1> QED
  BY <1>2, <1>3, <1>4

(* The else of an if that has ended.                                       *)
LEMMA BranchEndIs ==
  ASSUME NEW body, IsSeq(body), WellNested(body), NEW p \in 1 .. Len(body), body[p].k = "endif"
  PROVE  /\ BranchEnd(body, p) \in 1 .. p-1
         /\ body[BranchEnd(body, p)].k = "else"
         /\ BlockDepth(body, BranchEnd(body, p)) = BlockDepth(body, p)
         /\ \A e \in 1 .. p-1 : body[e].k = "else" /\ BlockDepth(body, e) = BlockDepth(body, p)
                                   => e <= BranchEnd(body, p)
         /\ Opener(body, p) < BranchEnd(body, p)
<1> DEFINE o == Opener(body, p)
           S == {e \in 1 .. p-1 : body[e].k = "else" /\ BlockDepth(body, e) = BlockDepth(body, p)}
           m == Max(S)
<1>1. p \in Nat /\ HasElse(body, o, p) /\ o \in 1 .. p-1
  BY ClosesWhat, SeqBasics
<1> HIDE DEF o
<1>2. PICK e \in o+1 .. p-1 : body[e].k = "else" /\ BlockDepth(body, e) = BlockDepth(body, p)
  BY <1>1 DEF HasElse
<1>3. e \in S /\ e > o
  BY <1>1, <1>2
<1>4. S \in SUBSET (0 .. p) /\ S # {}
  BY <1>1, <1>3
<1> HIDE DEF S
<1>5. m \in S /\ \A n \in S : n <= m
  BY <1>1, <1>4, GreatestNumber
<1> HIDE DEF m
<1>6. m \in 1 .. p-1 /\ m >= e
  BY <1>3, <1>5 DEF S
<1>7. BranchEnd(body, p) = m
  BY DEF BranchEnd, m, S
<1>8. body[m].k = "else" /\ BlockDepth(body, m) = BlockDepth(body, p)
  BY <1>5 DEF S
<1>9. \A d \in 1 .. p-1 : body[d].k = "else" /\ BlockDepth(body, d) = BlockDepth(body, p) => d <= m
  BY <1>5 DEF S
<1>10. o < m
  BY <1>1, <1>2, <1>6
<1> QED
  BY <1>6, <1>7, <1>8, <1>9, <1>10 DEF o

(* The recursion in LiveAround.                                            *)
LivePlaces(q) == 1 .. Len(q[1]) + 1
LiveRank(q, p) == p
LiveBody(q, L, p) ==
  IF p = 1 THEN TRUE
  ELSE IF p - 1 \in q[2] THEN FALSE
  ELSE CASE q[1][p-1].k \in {"let", "expr", "defer", "if", "while"} -> L[p-1]
         [] q[1][p-1].k \in {"else", "endwhile"} -> L[Opener(q[1], p-1)]
         [] q[1][p-1].k = "endif" -> L[p-1] \/ L[BranchEnd(q[1], p-1)]
         [] OTHER -> FALSE
LiveFit(q, p, v) == v \in BOOLEAN
Lives == INSTANCE Recursion WITH Dom <- LivePlaces, Rank <- LiveRank, Body <- LiveBody, Fit <- LiveFit

LEMMA LiveAroundIs ==
  ASSUME NEW body, IsSeq(body), WellNested(body), NEW cut
  PROVE  \A p \in 1 .. Len(body) + 1 :
           /\ LiveAround(body, cut)[p] \in BOOLEAN
           /\ LiveAround(body, cut)[p] = LiveBody(<<body, cut>>, LiveAround(body, cut), p)
<1> DEFINE q == <<body, cut>>
<1>1. q[1] = body /\ q[2] = cut /\ Len(body) \in Nat
  BY SeqBasics
<1>2. ASSUME NEW p \in 1 .. Len(body) + 1, NEW t, NEW u,
             Lives!FitBelow(q, t, p), Lives!Agree(q, t, u, p)
      PROVE  LiveBody(q, t, p) = LiveBody(q, u, p) /\ LiveBody(q, t, p) \in BOOLEAN
  <2>1. \A d \in 1 .. Len(body) + 1 : d < p => t[d] = u[d] /\ t[d] \in BOOLEAN
    BY <1>1, <1>2 DEF Lives!FitBelow, Lives!Agree, LivePlaces, LiveRank, LiveFit
  <2>2. CASE p = 1
    BY <2>2 DEF LiveBody
  <2>3. CASE p # 1
    <3>1. p - 1 \in 1 .. Len(body) /\ p - 1 \in 1 .. Len(body) + 1 /\ p - 1 < p
      BY <1>1, <2>3
    <3>2. t[p-1] = u[p-1] /\ t[p-1] \in BOOLEAN
      BY <2>1, <3>1
    <3>3. body[p-1].k \in {"else", "endif", "endwhile"} =>
             t[Opener(body, p-1)] = u[Opener(body, p-1)] /\ t[Opener(body, p-1)] \in BOOLEAN
      <4> SUFFICES ASSUME body[p-1].k \in {"else", "endif", "endwhile"}
                   PROVE  t[Opener(body, p-1)] = u[Opener(body, p-1)] /\ t[Opener(body, p-1)] \in BOOLEAN
        OBVIOUS
      <4>1. Opener(body, p-1) \in 1 .. (p-1)-1
        BY <3>1, ClosesWhat
      <4>2. Opener(body, p-1) \in 1 .. Len(body) + 1 /\ Opener(body, p-1) < p
        BY <1>1, <3>1, <4>1
      <4> QED
        BY <2>1, <4>2
    <3>4. body[p-1].k = "endif" =>
             t[BranchEnd(body, p-1)] = u[BranchEnd(body, p-1)] /\ t[BranchEnd(body, p-1)] \in BOOLEAN
      <4> SUFFICES ASSUME body[p-1].k = "endif"
                   PROVE  t[BranchEnd(body, p-1)] = u[BranchEnd(body, p-1)] /\ t[BranchEnd(body, p-1)] \in BOOLEAN
        OBVIOUS
      <4>1. BranchEnd(body, p-1) \in 1 .. (p-1)-1
        BY <3>1, BranchEndIs
      <4>2. BranchEnd(body, p-1) \in 1 .. Len(body) + 1 /\ BranchEnd(body, p-1) < p
        BY <1>1, <3>1, <4>1
      <4> QED
        BY <2>1, <4>2
    <3> HIDE DEF q
    <3> QED
      BY <1>1, <2>3, <3>2, <3>3, <3>4 DEF LiveBody
  <2> QED
    BY <2>2, <2>3
<1>3. Lives!LooksDown(q)
  <2>1. \A p \in LivePlaces(q) : LiveRank(q, p) = p /\ p \in Nat /\ p \in 1 .. Len(body) + 1
    BY <1>1 DEF LivePlaces, LiveRank
  <2> HIDE DEF q
  <2> QED
    BY <1>2, <2>1 DEF Lives!LooksDown, LiveFit
<1> DEFINE f == Lives!Defined(q)
<1>4. f = [p \in LivePlaces(q) |-> LiveBody(q, f, p)] /\ \A p \in LivePlaces(q) : LiveFit(q, p, f[p])
  BY <1>3, Lives!Unfolding
<1>5. LiveAround(body, cut) = f
  BY Zenon DEF Lives!Defined, LivePlaces, LiveAround, LiveBody
<1>6. LivePlaces(q) = 1 .. Len(body) + 1
  BY <1>1 DEF LivePlaces
<1> HIDE DEF f, q
<1>7. \A p \in 1 .. Len(body) + 1 : f[p] = LiveBody(q, f, p) /\ f[p] \in BOOLEAN
  BY <1>4, <1>6 DEF LiveFit
<1> QED
  BY <1>5, <1>7 DEF q

(* control can reach position p; 0 stands for the function's entry         *)
LiveAt(body, p) == p = 0 \/ (p \in 1 .. Len(body) + 1 /\ Live(body)[p])

(* Which positions control reaches, by the node before.                    *)
LEMMA LiveNext ==
  ASSUME NEW body, IsSeq(body), WellNested(body), NEW p \in 1 .. Len(body)
  PROVE  /\ body[p].k \in {"let", "expr", "defer", "if", "while"} => (LiveAt(body, p+1) <=> LiveAt(body, p))
         /\ body[p].k \in {"return", "break", "continue"} => ~LiveAt(body, p+1)
         /\ body[p].k \in {"else", "endwhile"} => (LiveAt(body, p+1) <=> LiveAt(body, Opener(body, p)))
         /\ body[p].k = "endif" => (LiveAt(body, p+1) <=> LiveAt(body, p) \/ LiveAt(body, BranchEnd(body, p)))
<1> DEFINE L == LiveAround(body, {})
           o == Opener(body, p)
           e == BranchEnd(body, p)
<1>1. Len(body) \in Nat /\ p \in 1 .. Len(body) + 1 /\ p + 1 \in 1 .. Len(body) + 1 /\ p # 0 /\ p + 1 # 0
      /\ p + 1 # 1 /\ (p + 1) - 1 = p
  BY SeqBasics
<1>2. \A q \in 1 .. Len(body) + 1 : L[q] \in BOOLEAN /\ L[q] = LiveBody(<<body, {}>>, L, q)
  BY LiveAroundIs
<1>3. Live(body) = L
  BY DEF Live
<1> HIDE DEF L
<1>4. LiveAt(body, p) <=> L[p]
  BY <1>1, <1>3 DEF LiveAt
<1>5. LiveAt(body, p+1) <=> L[p+1]
  BY <1>1, <1>3 DEF LiveAt
<1>6. body[p].k \in {"else", "endif", "endwhile"} =>
        o \in 1 .. Len(body) + 1 /\ o # 0 /\ (LiveAt(body, o) <=> L[o])
  <2> SUFFICES ASSUME body[p].k \in {"else", "endif", "endwhile"}
               PROVE  o \in 1 .. Len(body) + 1 /\ o # 0 /\ (LiveAt(body, o) <=> L[o])
    OBVIOUS
  <2>1. o \in 1 .. p-1
    BY ClosesWhat
  <2> HIDE DEF o
  <2> QED
    BY <1>1, <1>3, <2>1 DEF LiveAt
<1>7. body[p].k = "endif" => e \in 1 .. Len(body) + 1 /\ e # 0 /\ (LiveAt(body, e) <=> L[e])
  <2> SUFFICES ASSUME body[p].k = "endif"
               PROVE  e \in 1 .. Len(body) + 1 /\ e # 0 /\ (LiveAt(body, e) <=> L[e])
    OBVIOUS
  <2>1. e \in 1 .. p-1
    BY BranchEndIs
  <2> HIDE DEF e
  <2> QED
    BY <1>1, <1>3, <2>1 DEF LiveAt
<1>8. L[p+1] = CASE body[p].k \in {"let", "expr", "defer", "if", "while"} -> L[p]
                 [] body[p].k \in {"else", "endwhile"} -> L[o]
                 [] body[p].k = "endif" -> L[p] \/ L[e]
                 [] OTHER -> FALSE
  <2>1. L[p+1] = LiveBody(<<body, {}>>, L, p+1)
    BY <1>1, <1>2
  <2>2. <<body, {}>>[1] = body /\ <<body, {}>>[2] = {}
    OBVIOUS
  <2> DEFINE q == <<body, {}>>
  <2>3. q[1] = body /\ q[2] = {}
    OBVIOUS
  <2> HIDE DEF q
  <2>4. LiveBody(q, L, p+1) = CASE body[p].k \in {"let", "expr", "defer", "if", "while"} -> L[p]
                 [] body[p].k \in {"else", "endwhile"} -> L[o]
                 [] body[p].k = "endif" -> L[p] \/ L[e]
                 [] OTHER -> FALSE
    BY <1>1, <2>3 DEF LiveBody
  <2> QED
    BY <2>1, <2>4 DEF q
<1> HIDE DEF o, e
<1> QED
  BY <1>4, <1>5, <1>6, <1>7, <1>8 DEF o, e

LEMMA LiveAtStart ==
  ASSUME NEW body, IsSeq(body), WellNested(body)
  PROVE  LiveAt(body, 0) /\ LiveAt(body, 1)
<1>1. 1 \in 1 .. Len(body) + 1
  BY SeqBasics
<1>2. LiveAround(body, {})[1] = LiveBody(<<body, {}>>, LiveAround(body, {}), 1)
  BY <1>1, LiveAroundIs
<1> QED
  BY <1>1, <1>2 DEF LiveAt, Live, LiveBody

LEMMA WithinLess ==
  ASSUME NEW body, NEW o, NEW p \in Nat, Within(body, o, p), NEW q \in o+1 .. p
  PROVE  Within(body, o, q)
<1>1. o \in 1 .. q-1
  BY DEF Within
<1> QED
  BY <1>1 DEF Within

(* Where control reaches a place in a block it has reached the block.      *)
LEMMA LiveWithin ==
  ASSUME NEW body, IsSeq(body), WellNested(body), NEW o, NEW p \in 1 .. Len(body) + 1,
         Within(body, o, p), LiveAt(body, p)
  PROVE  LiveAt(body, o)
<1> DEFINE B(q) == BlockDepth(body, q)
           S == {n \in Nat : n \in 1 .. Len(body) + 1 /\ Within(body, o, n) /\ LiveAt(body, n) => LiveAt(body, o)}
<1>1. Len(body) \in Nat /\ \A q \in Int : B(q) \in Int
  BY SeqBasics, DepthType
<1>2. ASSUME NEW n \in Nat, \A m \in Nat : m < n => m \in S
      PROVE  n \in S
  <2> SUFFICES ASSUME n \in 1 .. Len(body) + 1, Within(body, o, n), LiveAt(body, n)
               PROVE  LiveAt(body, o)
    OBVIOUS
  <2>1. o \in 1 .. n-1 /\ body[o].k \in {"if", "while"} /\ \A q \in o+1 .. n : B(q) > B(o)
    BY DEF Within
  <2>2. n - 1 \in 1 .. Len(body) /\ n - 1 \in Nat /\ n - 1 < n /\ (n - 1) + 1 = n /\ o \in Int
    <3> HIDE DEF B, S
    <3>1. o \in 1 .. n-1
      BY <2>1
    <3> QED
      BY <1>1, <3>1
  <2> DEFINE k == body[n-1].k
             u == Opener(body, n-1)
             e == BranchEnd(body, n-1)
  <2>3. /\ k \in {"let", "expr", "defer", "if", "while"} => LiveAt(body, n-1)
        /\ ~(k \in {"return", "break", "continue"})
        /\ k \in {"else", "endwhile"} => LiveAt(body, u)
        /\ k = "endif" => LiveAt(body, n-1) \/ LiveAt(body, e)
    BY <2>2, LiveNext
  <2>4. k \notin {"let", "expr", "defer", "if", "while", "else", "endif", "endwhile"} => ~LiveAt(body, n)
    <3> SUFFICES ASSUME k \notin {"let", "expr", "defer", "if", "while", "else", "endif", "endwhile"}
                 PROVE  ~LiveAt(body, n)
      OBVIOUS
    <3> DEFINE L == LiveAround(body, {})
               q == <<body, {}>>
    <3>1. L[n] = LiveBody(q, L, n)
      BY LiveAroundIs
    <3>2. n # 1 /\ n # 0
      BY <2>2
    <3>3. q[1] = body /\ q[2] = {}
      OBVIOUS
    <3> HIDE DEF L, q
    <3>4. LiveBody(q, L, n) = FALSE
      BY <3>2, <3>3 DEF LiveBody
    <3> QED
      BY <3>1, <3>2, <3>4 DEF LiveAt, Live, L
  <2>5. ASSUME NEW m \in o+1 .. n-1, LiveAt(body, m)
        PROVE  LiveAt(body, o)
    <3>1. m \in Nat /\ m < n /\ m \in 1 .. Len(body) + 1 /\ m \in o+1 .. n
      BY <1>1, <2>1, <2>2
    <3>2. Within(body, o, m)
      BY <3>1, WithinLess
    <3>3. m \in S
      BY <1>2, <3>1
    <3> QED
      BY <2>5, <3>1, <3>2, <3>3
  <2>6. CASE o = n - 1
    <3>1. k \in {"let", "expr", "defer", "if", "while"}
      BY <2>1, <2>6
    <3> QED
      BY <2>3, <2>6, <3>1
  <2>7. CASE o # n - 1
    <3>1. n - 1 \in o+1 .. n-1
      BY <2>1, <2>2, <2>7
    <3>2. CASE k \in {"let", "expr", "defer", "if", "while"}
      BY <2>3, <2>5, <3>1, <3>2
    <3>3. CASE k \in {"else", "endwhile"}
      <4>1. Within(body, u, n-1) /\ B(n-1) = B(u) + 1 /\ u \in 1 .. (n-1)-1
        BY <2>2, <3>3, ClosesWhat
      <4>2. k = "endwhile" => B(n) = B(n-1) - 1
        <5>1. B((n-1)+1) = B(n-1) + (IF k \in {"if", "while"} THEN 1
                         ELSE IF k \in {"endif", "endwhile"} THEN -1 ELSE 0)
          BY <2>2, DepthNext
        <5>2. B((n-1)+1) = B(n)
          BY <2>2
        <5>3. B(n-1) \in Int
          BY <1>1, <2>2
        <5> HIDE DEF B
        <5> QED
          BY <5>1, <5>2, <5>3
      <4> DEFINE x == u
      <4>3. x \in 1 .. (n-1)-1 /\ B(n-1) = B(x) + 1 /\ \A q \in x+1 .. n-1 : B(q) > B(x)
        BY <4>1 DEF Within
      <4>4. LiveAt(body, x)
        BY <2>3, <3>3
      <4> HIDE DEF x, B, k
      <4>5. CASE x = o
        BY <4>4, <4>5
      <4>6. CASE x > o
        BY <2>1, <2>2, <2>5, <4>3, <4>4, <4>6
      <4>7. CASE x < o
        <5>1. B(o) > B(x) /\ B(n-1) > B(o) /\ B(o) \in Int /\ B(x) \in Int /\ B(n-1) \in Int
          BY <1>1, <2>1, <2>2, <3>1, <4>3, <4>7
        <5> QED
          BY <4>3, <5>1
      <4> QED
        BY <2>2, <4>3, <4>5, <4>6, <4>7
    <3>4. CASE k = "endif"
      <4>1. CASE LiveAt(body, n-1)
        BY <2>5, <3>1, <4>1
      <4>2. CASE LiveAt(body, e)
        <5>1. Within(body, u, n-1) /\ B(n-1) = B(u) + 1 /\ u \in 1 .. (n-1)-1
          BY <2>2, <3>4, ClosesWhat
        <5>2. e \in 1 .. (n-1)-1 /\ u < e
          BY <2>2, <3>4, BranchEndIs
        <5> DEFINE x == u  y == e
        <5>4. x \in 1 .. (n-1)-1 /\ B(n-1) = B(x) + 1 /\ \A q \in x+1 .. n-1 : B(q) > B(x)
          BY <5>1 DEF Within
        <5>5. y \in 1 .. (n-1)-1 /\ x < y /\ y = e
          BY <5>2
        <5> HIDE DEF x, y, B
        <5>6. ~(x < o)
          <6> SUFFICES ASSUME x < o PROVE FALSE
            OBVIOUS
          <6>1. B(o) > B(x) /\ B(n-1) > B(o) /\ B(o) \in Int /\ B(x) \in Int /\ B(n-1) \in Int
            BY <1>1, <2>1, <2>2, <3>1, <5>4
          <6> QED
            BY <5>4, <6>1
        <5>7. y \in o+1 .. n-1
          BY <2>1, <2>2, <5>4, <5>5, <5>6
        <5> QED
          BY <2>5, <4>2, <5>5, <5>7
      <4> QED
        BY <2>3, <3>4, <4>1, <4>2
    <3> QED
      BY <2>3, <2>4, <3>2, <3>3, <3>4
  <2> QED
    BY <2>6, <2>7
<1>3. S = Nat
  <2> HIDE DEF S
  <2>1. S \in SUBSET Nat
    BY DEF S
  <2> QED
    BY <1>2, <2>1, Flat!Induction
<1>4. p \in Nat
  BY <1>1
<1>5. p \in S
  BY <1>3, <1>4
<1> QED
  BY <1>5

(* control can reach the end of a branch of the if at o *)
Joins(body, o) ==
  \E q \in 1 .. Len(body) :
    body[q].k \in {"else", "endif"} /\ Opener(body, q) = o /\ LiveAt(body, q)

(* What follows an if is reached from one of its branches.                 *)
LEMMA JoinsIs ==
  ASSUME NEW body, IsSeq(body), WellNested(body), NEW q \in 1 .. Len(body), body[q].k = "endif"
  PROVE  Joins(body, Opener(body, q)) <=> LiveAt(body, q + 1)
<1> DEFINE B(x) == BlockDepth(body, x)
           o == Opener(body, q)
           e == BranchEnd(body, q)
<1>1. Len(body) \in Nat /\ \A x \in Int : B(x) \in Int
  BY SeqBasics, DepthType
<1>2. o \in 1 .. q-1 /\ Within(body, o, q) /\ B(q) = B(o) + 1
  BY ClosesWhat
<1>3. e \in 1 .. q-1 /\ body[e].k = "else" /\ B(e) = B(q) /\ o < e
      /\ \A d \in 1 .. q-1 : body[d].k = "else" /\ B(d) = B(q) => d <= e
  BY BranchEndIs
<1>4. LiveAt(body, q + 1) <=> LiveAt(body, q) \/ LiveAt(body, e)
  BY LiveNext
<1> HIDE DEF o, e
<1>5. q \in Nat /\ e \in Nat /\ e \in o+1 .. q /\ e \in 1 .. Len(body) /\ o \in Int
  BY <1>1, <1>2, <1>3
<1>6. Within(body, o, e)
  BY <1>2, <1>5, WithinLess
<1>7. Opener(body, e) = o
  BY <1>2, <1>3, <1>5, <1>6, OpenerIs
<1>8. LiveAt(body, q + 1) => Joins(body, o)
  BY <1>3, <1>4, <1>5, <1>7 DEF Joins, o
<1>9. ASSUME NEW r \in 1 .. Len(body), body[r].k \in {"else", "endif"}, Opener(body, r) = o, LiveAt(body, r)
      PROVE  LiveAt(body, q + 1)
  <2>1. o \in 1 .. r-1 /\ Within(body, o, r) /\ B(r) = B(o) + 1
    BY <1>9, ClosesWhat
  <2>2. \A x \in o+1 .. r : B(x) > B(o)
    BY <2>1 DEF Within
  <2>3. \A x \in o+1 .. q : B(x) > B(o)
    BY <1>2 DEF Within
  <2>4. B(o) \in Int /\ B(q) \in Int /\ B(r) \in Int
    BY <1>1, <1>5
  <2>5. B(q+1) = B(q) - 1
    <3>1. B(q+1) = B(q) + (IF body[q].k \in {"if", "while"} THEN 1
                     ELSE IF body[q].k \in {"endif", "endwhile"} THEN -1 ELSE 0)
      BY DepthNext
    <3> HIDE DEF B
    <3> QED
      BY <2>4, <3>1
  <2>6. body[r].k = "endif" => B(r+1) = B(r) - 1
    <3>1. B(r+1) = B(r) + (IF body[r].k \in {"if", "while"} THEN 1
                     ELSE IF body[r].k \in {"endif", "endwhile"} THEN -1 ELSE 0)
      BY DepthNext
    <3> HIDE DEF B
    <3> QED
      BY <2>4, <3>1
  <2>7. r <= q
    <3> SUFFICES ASSUME q < r PROVE FALSE
      BY <1>1
    <3> HIDE DEF B
    <3>1. q + 1 \in o+1 .. r
      BY <1>2, <1>5
    <3> QED
      BY <1>2, <2>2, <2>4, <2>5, <3>1
  <2>8. CASE body[r].k = "endif"
    <3>1. ~(r < q)
      <4> SUFFICES ASSUME r < q PROVE FALSE
        OBVIOUS
      <4> HIDE DEF B
      <4>1. r + 1 \in o+1 .. q
        BY <1>5, <2>1
      <4> QED
        BY <2>1, <2>3, <2>4, <2>6, <2>8, <4>1
    <3>2. r = q
      BY <1>5, <2>7, <3>1
    <3> QED
      BY <1>4, <1>9, <3>2
  <2>9. CASE body[r].k = "else"
    <3>1. r \in 1 .. q-1 /\ B(r) = B(q)
      BY <1>2, <1>5, <2>1, <2>7, <2>9
    <3>2. r <= e
      BY <1>3, <2>9, <3>1
    <3>3. ~(r < e)
      <4> SUFFICES ASSUME r < e PROVE FALSE
        OBVIOUS
      <4>1. r \in o+1 .. e-1
        BY <1>5, <2>1
      <4>2. HasElse(body, o, e)
        BY <1>3, <2>9, <3>1, <4>1 DEF HasElse
      <4>3. ~HasElse(body, o, e)
        BY <1>3, <1>5, <1>7, ClosesWhat
      <4> QED
        BY <4>2, <4>3
    <3>4. r = e
      BY <1>5, <3>2, <3>3
    <3> QED
      BY <1>4, <1>9, <3>4
  <2> QED
    BY <1>9, <2>8, <2>9
<1> QED
  BY <1>8, <1>9 DEF Joins, o

(* Edge: a branch from block b to block t.  A set is closed if control     *)
(* cannot leave it, and a block is entered if it is in every closed set.   *)
Edge(bs, b, t) == t \in Succs(bs[b])
Closed(bs, X) ==
  /\ 1 \in X
  /\ \A b \in 1 .. Len(bs) : b \in X => \A t : Edge(bs, b, t) => t \in X
Entered(bs, b) == \A X : Closed(bs, X) => b \in X

(* The recursion in Reached.                                               *)
ReachDom(q) == Nat
ReachRank(q, n) == n
ReachBody(q, R, n) ==
  IF n = 0 THEN {1} \ q[2]
  ELSE (UNION {{b} \cup Succs(q[1][b]) : b \in R[n-1]}) \ q[2]
Reach == INSTANCE Recursion WITH Dom <- ReachDom, Rank <- ReachRank, Body <- ReachBody, Fit <- Anything

(* R[n] is what n steps from the entry reach *)
Steps(bs, R) ==
  /\ Reached(bs, {}) = R[Len(bs)]
  /\ R[0] = {1}
  /\ \A n \in Nat : R[n+1] = UNION {{b} \cup Succs(bs[b]) : b \in R[n]}

LEMMA ReachedSteps ==
  ASSUME NEW bs
  PROVE  \E R : Steps(bs, R)
<1> DEFINE q == <<bs, {}>>
           f == Reach!Defined(q)
<1>1. q[1] = bs /\ q[2] = {}
  OBVIOUS
<1>2. Reach!LooksDown(q)
  <2>1. ASSUME NEW n \in Nat, NEW t, NEW u, Reach!Agree(q, t, u, n)
        PROVE  ReachBody(q, t, n) = ReachBody(q, u, n)
    <3>1. CASE n = 0
      BY <3>1 DEF ReachBody
    <3>2. CASE n # 0
      <4>1. n - 1 \in Nat /\ n - 1 < n
        BY <3>2
      <4>2. t[n-1] = u[n-1]
        BY <2>1, <4>1 DEF Reach!Agree, ReachDom, ReachRank
      <4> QED
        BY <3>2, <4>2 DEF ReachBody
    <3> QED
      BY <3>1, <3>2
  <2> QED
    BY <2>1 DEF Reach!LooksDown, ReachDom, ReachRank, Anything
<1>3. f = [n \in ReachDom(q) |-> ReachBody(q, f, n)]
  BY <1>2, Reach!Unfolding
<1>4. Reached(bs, {}) = f[Len(bs)]
  <2> DEFINE Chain(T) == [n \in Nat |-> IF n = 0 THEN {1} \ {}
                                         ELSE (UNION {{b} \cup Succs(bs[b]) : b \in T[n-1]}) \ {}]
  <2>1. \A T : [n \in ReachDom(q) |-> ReachBody(q, T, n)] = Chain(T)
    BY <1>1 DEF ReachDom, ReachBody
  <2>2. f = CHOOSE T : T = Chain(T)
    <3> HIDE DEF Chain, q
    <3> QED
      BY <2>1 DEF Reach!Defined
  <2>3. Reached(bs, {}) = (CHOOSE T : T = Chain(T))[Len(bs)]
    BY DEF Reached
  <2> QED
    BY <2>2, <2>3
<1> HIDE DEF f
<1>5. \A n \in Nat : f[n] = ReachBody(q, f, n)
  BY <1>3 DEF ReachDom
<1>6. f[0] = {1}
  BY <1>1, <1>5 DEF ReachBody
<1>7. ASSUME NEW n \in Nat
      PROVE  f[n+1] = UNION {{b} \cup Succs(bs[b]) : b \in f[n]}
  <2>1. n + 1 \in Nat /\ n + 1 # 0 /\ (n + 1) - 1 = n
    OBVIOUS
  <2>2. f[n+1] = ReachBody(q, f, n+1)
    BY <1>5, <2>1
  <2> HIDE DEF q
  <2>3. ReachBody(q, f, n+1) = UNION {{b} \cup Succs(bs[b]) : b \in f[n]}
    BY <1>1, <2>1 DEF ReachBody
  <2> QED
    BY <2>2, <2>3
<1>8. Steps(bs, f)
  BY <1>4, <1>6, <1>7 DEF Steps
<1> QED
  BY <1>8

(* As many steps as there are blocks reach every block that is entered.    *)
LEMMA ReachedIs ==
  ASSUME NEW bs, IsSeq(bs), NEW X, X \subseteq 1 .. Len(bs), Closed(bs, X)
  PROVE  \A b : b \in Reached(bs, {}) <=> Entered(bs, b)
<1>0. PICK R : Steps(bs, R)
  BY ReachedSteps
<1>1. /\ Reached(bs, {}) = R[Len(bs)]
      /\ R[0] = {1}
      /\ \A n \in Nat : R[n+1] = UNION {{b} \cup Succs(bs[b]) : b \in R[n]}
  BY <1>0 DEF Steps
<1> DEFINE l == Len(bs)
<1>2. l \in Nat
  BY SeqBasics
<1> HIDE DEF l
<1>3. ASSUME NEW n \in Nat
      PROVE  /\ R[n] \subseteq R[n+1]
             /\ \A b \in R[n] : \A t : Edge(bs, b, t) => t \in R[n+1]
             /\ \A t \in R[n+1] : \E b \in R[n] : t = b \/ Edge(bs, b, t)
  BY <1>1 DEF Edge
<1>4. ASSUME NEW Y, Closed(bs, Y)
      PROVE  \A n \in Nat : R[n] \subseteq Y \cap X
  <2> DEFINE S == {n \in Nat : R[n] \subseteq Y \cap X}
  <2>1. ASSUME NEW n \in Nat, \A m \in Nat : m < n => m \in S
        PROVE  n \in S
    <3>1. CASE n = 0
      BY <1>1, <1>4, <3>1 DEF Closed
    <3>2. CASE n # 0
      <4> DEFINE m == n - 1
      <4>1. m \in Nat /\ m < n /\ n = m + 1
        BY <3>2
      <4> HIDE DEF m
      <4>2. R[m] \subseteq Y \cap X
        BY <2>1, <4>1
      <4>3. \A t \in R[m+1] : \E b \in R[m] : t = b \/ Edge(bs, b, t)
        BY <1>3, <4>1
      <4>4. R[m+1] \subseteq Y \cap X
        BY <1>4, <4>2, <4>3 DEF Closed
      <4> QED
        BY <4>1, <4>4
    <3> QED
      BY <3>1, <3>2
  <2>2. S = Nat
    <3> HIDE DEF S
    <3>1. S \in SUBSET Nat
      BY DEF S
    <3> QED
      BY <2>1, <3>1, Flat!Induction
  <2> QED
    BY <2>2
<1>5. \A n \in Nat : R[n] \subseteq 1 .. l
  BY <1>4 DEF l
<1>6. ASSUME NEW n \in Nat, R[n+1] = R[n]
      PROVE  R[n+2] = R[n+1]
  <2>1. n + 1 \in Nat /\ (n + 1) + 1 = n + 2
    OBVIOUS
  <2>2. R[(n+1)+1] = UNION {{b} \cup Succs(bs[b]) : b \in R[n+1]}
    BY <1>1, <2>1
  <2>3. R[n+1] = UNION {{b} \cup Succs(bs[b]) : b \in R[n]}
    BY <1>1
  <2> QED
    BY <1>6, <2>1, <2>2, <2>3
<1>7. \A n \in Nat : IsFiniteSet(R[n]) /\ Cardinality(R[n]) \in Nat /\ Cardinality(R[n]) <= l
  <2> SUFFICES ASSUME NEW n \in Nat
               PROVE  IsFiniteSet(R[n]) /\ Cardinality(R[n]) \in Nat /\ Cardinality(R[n]) <= l
    OBVIOUS
  <2>1. IsFiniteSet(1 .. l) /\ Cardinality(1 .. l) = l
    BY <1>2, FS_Interval
  <2>2. R[n] \subseteq 1 .. l
    BY <1>5
  <2>3. IsFiniteSet(R[n]) /\ Cardinality(R[n]) <= Cardinality(1 .. l)
    BY <2>1, <2>2, FS_Subset
  <2> QED
    BY <2>1, <2>3, FS_CardinalityType
<1>8. \A n \in Nat : R[n+1] = R[n] \/ Cardinality(R[n]) >= n + 1
  <2> DEFINE S == {n \in Nat : R[n+1] = R[n] \/ Cardinality(R[n]) >= n + 1}
  <2>1. ASSUME NEW n \in Nat, \A m \in Nat : m < n => m \in S
        PROVE  n \in S
    <3>1. CASE n = 0
      <4>1. Cardinality(R[0]) = 1
        BY <1>1, FS_Singleton
      <4> QED
        BY <3>1, <4>1
    <3>2. CASE n # 0
      <4> DEFINE m == n - 1
      <4>1. m \in Nat /\ m < n /\ n = m + 1 /\ n + 1 = m + 2
        BY <3>2
      <4> HIDE DEF m
      <4>2. R[m+1] = R[m] \/ Cardinality(R[m]) >= m + 1
        BY <2>1, <4>1
      <4>3. CASE R[m+1] = R[m]
        <5>1. R[m+2] = R[m+1]
          BY <1>6, <4>1, <4>3
        <5>2. n \in Nat /\ R[n+1] = R[n]
          BY <4>1, <5>1
        <5> QED
          BY <5>2
      <4>4. CASE R[m+1] # R[m]
        <5>1. R[m] \subseteq R[m+1] /\ m + 1 \in Nat
          BY <1>3, <4>1
        <5>2. Cardinality(R[m]) < Cardinality(R[m+1])
          <6>1. IsFiniteSet(R[m+1]) /\ Cardinality(R[m]) \in Nat /\ Cardinality(R[m+1]) \in Nat
            BY <1>7, <4>1, <5>1
          <6>2. Cardinality(R[m]) <= Cardinality(R[m+1]) /\ Cardinality(R[m]) # Cardinality(R[m+1])
            BY <4>4, <5>1, <6>1, FS_Subset
          <6> QED
            BY <6>1, <6>2
        <5>3. Cardinality(R[m+1]) >= (m + 1) + 1
          <6>1. Cardinality(R[m]) \in Nat /\ Cardinality(R[m+1]) \in Nat /\ Cardinality(R[m]) >= m + 1
            BY <1>7, <4>1, <4>2, <4>4, <5>1
          <6> QED
            BY <4>1, <5>2, <6>1
        <5> QED
          BY <4>1, <5>3
      <4> QED
        BY <4>3, <4>4
    <3> QED
      BY <3>1, <3>2
  <2>2. S = Nat
    <3> HIDE DEF S
    <3>1. S \in SUBSET Nat
      BY DEF S
    <3> QED
      BY <2>1, <3>1, Flat!Induction
  <2> QED
    BY <2>2
<1>9. R[l+1] = R[l]
  BY <1>2, <1>7, <1>8
<1>10. ASSUME NEW n \in Nat PROVE 1 \in R[n]
  <2> DEFINE S == {m \in Nat : 1 \in R[m]}
  <2>1. ASSUME NEW k \in Nat, \A m \in Nat : m < k => m \in S
        PROVE  k \in S
    <3>1. CASE k = 0
      BY <1>1, <3>1
    <3>2. CASE k # 0
      <4> DEFINE m == k - 1
      <4>1. m \in Nat /\ m < k /\ k = m + 1
        BY <3>2
      <4> HIDE DEF m
      <4>2. 1 \in R[m] /\ R[m] \subseteq R[m+1]
        BY <1>3, <2>1, <4>1
      <4> QED
        BY <4>1, <4>2
    <3> QED
      BY <3>1, <3>2
  <2>2. S = Nat
    <3> HIDE DEF S
    <3>1. S \in SUBSET Nat
      BY DEF S
    <3> QED
      BY <2>1, <3>1, Flat!Induction
  <2> QED
    BY <2>2
<1>11. Closed(bs, R[l])
  <2>1. 1 \in R[l]
    BY <1>2, <1>10
  <2>2. \A b \in R[l] : \A t : Edge(bs, b, t) => t \in R[l]
    BY <1>2, <1>3, <1>9
  <2> QED
    BY <2>1, <2>2 DEF Closed
<1>12. Reached(bs, {}) = R[l]
  BY <1>1 DEF l
<1>13. \A Y : Closed(bs, Y) => R[l] \subseteq Y
  BY <1>2, <1>4
<1> QED
  BY <1>11, <1>12, <1>13 DEF Entered

(* control can reach the start of block b, by its name and place           *)
Begins(body, b) ==
  \/ b.name = "entry"
  \/ b.name \in {"then", "else", "while.cond", "while.body", "while.end"} /\ LiveAt(body, b.at)
  \/ b.name = "ifend" /\ Joins(body, b.at)

(* what has to hold of an instruction i of block b *)
FlowsAt(body, bs, b, i) ==
  /\ Begins(body, bs[b]) => LiveAt(body, i.at[2])
  /\ LiveAt(body, i.at[2]) =>
       /\ Entered(bs, b)
       /\ i.op = "br" => \A t \in i.to : t \in 1 .. Len(bs) /\ Begins(body, bs[t])

(* The blocks bs carry control where body sends it.                        *)
Flows(body, bs) ==
  /\ 1 \in 1 .. Len(bs) /\ bs[1].name = "entry"
  /\ \A b \in 1 .. Len(bs) : \A i \in Range(bs[b].code) : FlowsAt(body, bs, b, i)

LEMMA EdgeIs ==
  ASSUME NEW bs, NEW b, NEW t
  PROVE  Edge(bs, b, t) <=> \E i \in Range(bs[b].code) : i.op = "br" /\ t \in i.to
  BY DEF Edge, Succs, Range

(* Live code is reached, and no other.                                     *)
LEMMA FlowReaches ==
  ASSUME NEW body, NEW bs, IsBlocks(bs), Flows(body, bs),
         NEW b \in 1 .. Len(bs), NEW i \in Range(bs[b].code)
  PROVE  b \in Reached(bs, {}) <=> LiveAt(body, i.at[2])
<1> DEFINE X == {c \in 1 .. Len(bs) : Begins(body, bs[c])}
<1>1. Closed(bs, X)
  <2>1. 1 \in X
    BY DEF Flows, Begins
  <2>2. ASSUME NEW c \in X, NEW t, Edge(bs, c, t) PROVE t \in X
    <3>1. PICK j \in Range(bs[c].code) : j.op = "br" /\ t \in j.to
      BY <2>2, EdgeIs
    <3>2. FlowsAt(body, bs, c, j)
      BY DEF Flows
    <3> QED
      BY <3>1, <3>2 DEF FlowsAt
  <2> QED
    BY <2>1, <2>2 DEF Closed
<1>2. X \subseteq 1 .. Len(bs)
  OBVIOUS
<1>3. b \in Reached(bs, {}) <=> Entered(bs, b)
  <2> HIDE DEF X
  <2> QED
    BY <1>1, <1>2, ReachedIs DEF IsBlocks
<1>4. FlowsAt(body, bs, b, i)
  BY DEF Flows
<1>5. Entered(bs, b) => b \in X
  BY <1>1 DEF Entered
<1> QED
  BY <1>3, <1>4, <1>5 DEF FlowsAt

-----------------------------------------------------------------------------
LEMMA Entries ==
  ASSUME NEW s, IsSeq(s), NEW t, IsSeq(t)
  PROVE  \A i \in 1 .. Len(s) + Len(t) : (s \o t)[i] = IF i <= Len(s) THEN s[i] ELSE t[i - Len(s)]
<1> DEFINE R == Range(s) \cup Range(t)
<1>1. s \in Seq(R) /\ t \in Seq(R)
  BY SeqMonotonic DEF IsSeq
<1> HIDE DEF R
<1> QED
  BY <1>1, ConcatProperties

(* cs is bs with code at the end of block b and more blocks                *)
Grows(bs, b, code, more, cs) ==
  /\ IsBlocks(cs) /\ Len(cs) = Len(bs) + Len(more)
  /\ \A k \in 1 .. Len(bs) :
       /\ cs[k].name = bs[k].name /\ cs[k].at = bs[k].at
       /\ cs[k].code = IF k = b THEN bs[k].code \o code ELSE bs[k].code
  /\ \A j \in 1 .. Len(more) : cs[Len(bs) + j] = more[j]

LEMMA PutGrows ==
  ASSUME NEW bs, IsBlocks(bs), NEW b \in 1 .. Len(bs), NEW code, IsSeq(code),
         NEW more, IsBlocks(more)
  PROVE  Grows(bs, b, code, more, Put(bs, b, code) \o more)
<1> DEFINE put == Put(bs, b, code)
<1>1. IsBlocks(put) /\ Len(put) = Len(bs)
  BY GrownPut DEF Grown
<1>2. \A k \in 1 .. Len(bs) :
       /\ put[k].name = bs[k].name /\ put[k].at = bs[k].at
       /\ put[k].code = IF k = b THEN bs[k].code \o code ELSE bs[k].code
  <2> SUFFICES ASSUME NEW k \in 1 .. Len(bs)
               PROVE  /\ put[k].name = bs[k].name /\ put[k].at = bs[k].at
                      /\ put[k].code = IF k = b THEN bs[k].code \o code ELSE bs[k].code
    OBVIOUS
  <2>1. DOMAIN bs = 1 .. Len(bs) /\ IsBlock(bs[k])
    BY SeqBasics DEF IsBlocks
  <2> QED
    BY <2>1 DEF Put, IsBlock
<1> HIDE DEF put
<1>3. IsSeq(put) /\ IsSeq(more) /\ Len(bs) \in Nat /\ Len(more) \in Nat
  BY <1>1, SeqBasics DEF IsBlocks
<1>4. /\ Grown(put, put \o more, CodeOf(more)) /\ Len(put \o more) = Len(put) + Len(more)
      /\ \A j \in 1 .. Len(more) : (put \o more)[Len(put) + j] = more[j]
  BY <1>1, GrownJoin
<1>5. \A k \in 1 .. Len(put) : (put \o more)[k] = put[k]
  <2> SUFFICES ASSUME NEW k \in 1 .. Len(put) PROVE (put \o more)[k] = put[k]
    OBVIOUS
  <2>1. k \in 1 .. Len(put) + Len(more) /\ k <= Len(put)
    BY <1>1, <1>3
  <2> QED
    BY <1>3, <2>1, Entries
<1> DEFINE cs == put \o more
<1>6. Put(bs, b, code) \o more = cs
  BY DEF put
<1>7. cs = put \o more
  OBVIOUS
<1> HIDE DEF cs
<1>8. IsBlocks(cs) /\ Len(cs) = Len(bs) + Len(more)
  BY <1>1, <1>4, <1>7 DEF Grown
<1> QED
  BY <1>1, <1>2, <1>4, <1>5, <1>6, <1>7, <1>8 DEF Grows

(* A terminator in the middle of a block, which the verifier refuses.      *)
Broken(bs) == \E b \in 1 .. Len(bs) : \E j \in 1 .. Len(bs[b].code) - 1 : Terminator(bs[b].code[j])

(* where an instruction i of block k comes from then *)
Origin(bs, b, code, more, k, i) ==
  \/ k \in 1 .. Len(bs) /\ i \in Range(bs[k].code)
  \/ k = b /\ i \in Range(code)
  \/ \E j \in 1 .. Len(more) : k = Len(bs) + j /\ i \in Range(more[j].code)

(* What is in the blocks then, and what begins where.                      *)
LEMMA GrowsCode ==
  ASSUME NEW bs, IsBlocks(bs), NEW b \in 1 .. Len(bs), NEW code, IsSeq(code),
         NEW more, IsBlocks(more), NEW cs, Grows(bs, b, code, more, cs)
  PROVE  /\ \A k \in 1 .. Len(bs) :
              /\ k \in 1 .. Len(cs) /\ IsSeq(bs[k].code)
              /\ Range(bs[k].code) \subseteq Range(cs[k].code)
              /\ \A body : Begins(body, cs[k]) <=> Begins(body, bs[k])
         /\ Range(code) \subseteq Range(cs[b].code)
         /\ \A j \in 1 .. Len(more) : Len(bs) + j \in 1 .. Len(cs)
         /\ \A k \in 1 .. Len(cs) : \A i \in Range(cs[k].code) : Origin(bs, b, code, more, k, i)
<1>1. Len(bs) \in Nat /\ Len(more) \in Nat /\ Len(cs) = Len(bs) + Len(more)
  BY SeqBasics DEF IsBlocks, Grows
<1>2. \A k \in 1 .. Len(bs) : IsSeq(bs[k].code)
  BY DEF IsBlocks, IsBlock
<1>3. \A k \in 1 .. Len(bs) : Range(bs[k].code \o code) = Range(bs[k].code) \cup Range(code)
  BY <1>2, RangeOfConcatenation
<1>4. \A k \in 1 .. Len(bs) : Range(cs[k].code) = IF k = b THEN Range(bs[k].code) \cup Range(code)
                                                  ELSE Range(bs[k].code)
  BY <1>3 DEF Grows
<1>5. \A k \in 1 .. Len(bs) : k \in 1 .. Len(cs)
  BY <1>1
<1>6. \A k \in 1 .. Len(bs) : \A body : Begins(body, cs[k]) <=> Begins(body, bs[k])
  BY DEF Grows, Begins
<1>7. \A j \in 1 .. Len(more) : Len(bs) + j \in 1 .. Len(cs)
  BY <1>1
<1>8. ASSUME NEW k \in 1 .. Len(cs), NEW i \in Range(cs[k].code), k \notin 1 .. Len(bs)
      PROVE  \E j \in 1 .. Len(more) : k = Len(bs) + j /\ i \in Range(more[j].code)
  <2> DEFINE j == k - Len(bs)
  <2>1. j \in 1 .. Len(more) /\ k = Len(bs) + j
    BY <1>1, <1>8
  <2>2. cs[Len(bs) + j] = more[j]
    BY <2>1 DEF Grows
  <2> HIDE DEF j
  <2> QED
    BY <1>8, <2>1, <2>2
<1>9. \A k \in 1 .. Len(cs) : \A i \in Range(cs[k].code) : Origin(bs, b, code, more, k, i)
  BY <1>4, <1>8 DEF Origin
<1> QED
  BY <1>2, <1>4, <1>5, <1>6, <1>7, <1>9

(* A block that was entered still is, and so is one that another branches to. *)
LEMMA StillEntered ==
  ASSUME NEW bs, IsBlocks(bs), NEW b \in 1 .. Len(bs), NEW code, IsSeq(code),
         NEW more, IsBlocks(more), NEW cs, Grows(bs, b, code, more, cs), NEW x, Entered(bs, x)
  PROVE  Entered(cs, x)
<1> SUFFICES ASSUME NEW X, Closed(cs, X) PROVE x \in X
  BY DEF Entered
<1>1. \A k \in 1 .. Len(bs) : k \in 1 .. Len(cs) /\ Range(bs[k].code) \subseteq Range(cs[k].code)
  BY GrowsCode
<1>2. \A k \in 1 .. Len(bs) : \A t : Edge(bs, k, t) => Edge(cs, k, t)
  BY <1>1, EdgeIs
<1>3. Closed(bs, X)
  BY <1>1, <1>2 DEF Closed
<1> QED
  BY <1>3 DEF Entered

LEMMA EnteredBy ==
  ASSUME NEW bs, NEW b \in 1 .. Len(bs), Entered(bs, b), NEW i \in Range(bs[b].code), i.op = "br",
         NEW t \in i.to
  PROVE  Entered(bs, t)
  BY EdgeIs DEF Entered, Closed

LEMMA GrowsFlow ==
  ASSUME NEW body, NEW bs, IsBlocks(bs), Flows(body, bs), NEW b \in 1 .. Len(bs), NEW code, IsSeq(code),
         NEW more, IsBlocks(more), NEW cs, Grows(bs, b, code, more, cs),
         \A i \in Range(code) : FlowsAt(body, cs, b, i),
         \A j \in 1 .. Len(more) : \A i \in Range(more[j].code) : FlowsAt(body, cs, Len(bs) + j, i)
  PROVE  Flows(body, cs)
<1>1. 1 \in 1 .. Len(cs) /\ cs[1].name = "entry"
  BY GrowsCode DEF Flows, Grows
<1>2. ASSUME NEW k \in 1 .. Len(bs), NEW i \in Range(bs[k].code)
      PROVE  FlowsAt(body, cs, k, i)
  <2>1. FlowsAt(body, bs, k, i)
    BY DEF Flows
  <2>2. Entered(bs, k) => Entered(cs, k)
    BY StillEntered
  <2>3. \A t \in 1 .. Len(bs) : t \in 1 .. Len(cs) /\ (Begins(body, cs[t]) <=> Begins(body, bs[t]))
    BY GrowsCode
  <2> QED
    BY <2>1, <2>2, <2>3 DEF FlowsAt
<1>3. \A k \in 1 .. Len(cs) : \A i \in Range(cs[k].code) : Origin(bs, b, code, more, k, i)
  BY GrowsCode
<1> QED
  BY <1>1, <1>2, <1>3 DEF Flows, Origin

(* A terminator in the middle of a block stays there, and code put behind  *)
(* one makes one: the verifier will refuse the function.                   *)
LEMMA StillBroken ==
  ASSUME NEW bs, IsBlocks(bs), NEW b \in 1 .. Len(bs), NEW code, IsSeq(code),
         NEW more, IsBlocks(more), NEW cs, Grows(bs, b, code, more, cs),
         Broken(bs) \/ (Terminated(bs[b]) /\ code # << >>)
  PROVE  Broken(cs)
<1>1. \A k \in 1 .. Len(bs) : k \in 1 .. Len(cs) /\ IsSeq(bs[k].code) /\ Len(bs[k].code) \in Nat
  BY GrowsCode, SeqBasics
<1>2. Len(code) \in Nat /\ (code # << >> => Len(code) # 0)
  BY SeqBasics
<1>3. ASSUME NEW k \in 1 .. Len(bs)
      PROVE  /\ Len(cs[k].code) = Len(bs[k].code) + IF k = b THEN Len(code) ELSE 0
             /\ \A j \in 1 .. Len(bs[k].code) : cs[k].code[j] = bs[k].code[j]
  <2>1. CASE k # b
    BY <1>1, <2>1 DEF Grows
  <2>2. CASE k = b
    <3> DEFINE c == bs[k].code
    <3>1. cs[k].code = c \o code
      BY <2>2 DEF Grows
    <3>2. IsSeq(c) /\ Len(c) \in Nat
      BY <1>1
    <3> HIDE DEF c
    <3>3. \A j \in 1 .. Len(c) : j \in 1 .. Len(c) + Len(code) /\ j <= Len(c)
      BY <1>2, <3>2
    <3>4. Len(c \o code) = Len(c) + Len(code) /\ \A j \in 1 .. Len(c) : (c \o code)[j] = c[j]
      BY <3>2, <3>3, Concatenation, Entries
    <3> QED
      BY <2>2, <3>1, <3>4 DEF c
  <2> QED
    BY <2>1, <2>2
<1>4. CASE Broken(bs)
  <2>1. PICK k \in 1 .. Len(bs) : \E j \in 1 .. Len(bs[k].code) - 1 : Terminator(bs[k].code[j])
    BY <1>4 DEF Broken
  <2>2. PICK j \in 1 .. Len(bs[k].code) - 1 : Terminator(bs[k].code[j])
    BY <2>1
  <2>3. j \in 1 .. Len(bs[k].code) /\ j \in 1 .. Len(cs[k].code) - 1
    <3> DEFINE l == Len(bs[k].code)
               m == Len(cs[k].code)
    <3>1. l \in Nat /\ m = l + (IF k = b THEN Len(code) ELSE 0) /\ j \in 1 .. l - 1
      BY <1>1, <1>3
    <3> HIDE DEF l, m
    <3>2. j \in 1 .. l /\ j \in 1 .. m - 1
      BY <1>2, <3>1
    <3> QED
      BY <3>2 DEF l, m
  <2> QED
    BY <1>1, <1>3, <2>2, <2>3 DEF Broken
<1>5. CASE Terminated(bs[b]) /\ code # << >>
  <2> DEFINE j == Len(bs[b].code)
  <2>1. bs[b].code # << >> /\ Terminator(bs[b].code[j])
    BY <1>5 DEF Terminated, Last
  <2>2. j # 0 /\ j \in Nat
    BY <1>1, <2>1, SeqBasics
  <2>3. Len(cs[b].code) = j + Len(code)
    BY <1>3
  <2> HIDE DEF j
  <2>4. j \in 1 .. j /\ j \in 1 .. Len(cs[b].code) - 1
    BY <1>2, <1>5, <2>2, <2>3
  <2> QED
    BY <1>1, <1>3, <2>1, <2>4 DEF Broken, j
<1> QED
  BY <1>4, <1>5

(* Block b is where the code for position p goes.                          *)
Leads(body, bs, b, p) ==
  /\ LiveAt(body, p) => Entered(bs, b) /\ ~Terminated(bs[b])
  /\ Begins(body, bs[b]) /\ ~Terminated(bs[b]) => LiveAt(body, p)

(* e is the else of the if at o; nothing has been put into block x yet     *)
ElseOf(body, o, e) == body[e].k = "else" /\ Opener(body, e) = o
Idle(bs, x, b) == bs[x].code = << >> /\ x # b

(* What the two blocks held for the statement at o are for: those of an if *)
(* are where its else branch and what follows it go, those of a while are  *)
(* its condition and what follows it.                                      *)
FrameFlow(body, bs, fr, o, b, p) ==
  /\ Within(body, o, p)
  /\ fr[1] \in 1 .. Len(bs) /\ fr[2] \in 1 .. Len(bs) /\ fr[1] < fr[2]
  /\ bs[fr[1]].at = o /\ bs[fr[2]].at = o /\ Idle(bs, fr[2], b)
  /\ body[o].k = "if" =>
       /\ bs[fr[1]].name = "else" /\ bs[fr[2]].name = "ifend"
       /\ LiveAt(body, o) => Entered(bs, fr[1])
       /\ (\A e \in o+1 .. p-1 : ~ElseOf(body, o, e)) => Idle(bs, fr[1], b)
       /\ \A e \in o+1 .. p-1 : ElseOf(body, o, e) /\ LiveAt(body, e) => Entered(bs, fr[2])
  /\ body[o].k = "while" =>
       /\ bs[fr[1]].name = "while.cond" /\ bs[fr[2]].name = "while.end"
       /\ LiveAt(body, o) => Entered(bs, fr[2])

(* The blocks held, the outermost statement's first; a later statement's   *)
(* are later blocks.                                                       *)
Frames(body, bs, fs, b, p) ==
  /\ \A n \in 1 .. Len(fs) : \E o : BlockDepth(body, o) = n - 1 /\ FrameFlow(body, bs, fs[n], o, b, p)
  /\ \A m, n \in 1 .. Len(fs) : m < n => fs[m][2] < fs[n][1]

(* What is kept from statement to statement: the code so far carries       *)
(* control where it should, block b will carry it to p, and the blocks held*)
(* will carry it to the ends of what is open.                              *)
Healthy(body, bs, fs, b, p) ==
  Flows(body, bs) /\ Leads(body, bs, b, p) /\ Frames(body, bs, fs, b, p)

(* the setting of the lemmas below *)
Setting(body, bs, fs, b, p) ==
  /\ IsSeq(body) /\ WellNested(body) /\ p \in 1 .. Len(body) /\ BlockDepth(body, p) = Len(fs)
  /\ IsBlocks(bs) /\ b \in 1 .. Len(bs) /\ IsSeq(fs)
  /\ Healthy(body, bs, fs, b, p)

(* code for the statement at p goes to block b, and the result has no      *)
(* terminator in the middle of a block                                     *)
Writing(bs, b, p, code, more, cs) ==
  /\ IsSeq(code) /\ IsBlocks(more) /\ Grows(bs, b, code, more, cs) /\ ~Broken(cs)
  /\ \A i \in Range(code) : i.at[2] = p

(* Code put into a block disturbs no frame that stays open.                *)
LEMMA FrameStays ==
  ASSUME NEW body, NEW bs, NEW fs, NEW b, NEW p, Setting(body, bs, fs, b, p),
         NEW code, NEW more, NEW cs, Writing(bs, b, p, code, more, cs),
         NEW fr, NEW o, FrameFlow(body, bs, fr, o, b, p),
         BlockDepth(body, p + 1) > BlockDepth(body, o), ~ElseOf(body, o, p),
         NEW c, c = b \/ (c # fr[1] /\ c # fr[2])
  PROVE  FrameFlow(body, cs, fr, o, c, p + 1)
<1>1. p \in Nat \ {0} /\ Len(body) \in Nat
  BY SeqBasics DEF Setting
<1>2. o \in 1 .. p-1 /\ body[o].k \in {"if", "while"} /\ \A q \in o+1 .. p : BlockDepth(body, q) > BlockDepth(body, o)
  BY DEF FrameFlow, Within
<1>3. Within(body, o, p + 1)
  <2>1. o \in 1 .. (p+1)-1 /\ \A q \in o+1 .. p+1 : q \in o+1 .. p \/ q = p + 1
    BY <1>1, <1>2
  <2> QED
    BY <1>2, <2>1 DEF Within
<1>4. \A e \in o+1 .. (p+1)-1 : e \in o+1 .. p-1 \/ e = p
  BY <1>1, <1>2
<1>5. \A e \in o+1 .. p-1 : e \in o+1 .. (p+1)-1
  BY <1>1, <1>2
<1>6. ASSUME NEW x \in 1 .. Len(bs)
      PROVE  /\ x \in 1 .. Len(cs) /\ cs[x].name = bs[x].name /\ cs[x].at = bs[x].at
             /\ Entered(bs, x) => Entered(cs, x)
             /\ Idle(bs, x, b) => cs[x].code = << >>
  <2>1. x \in 1 .. Len(cs)
    BY GrowsCode DEF Writing, Setting
  <2>2. Entered(bs, x) => Entered(cs, x)
    BY StillEntered DEF Writing, Setting
  <2>3. /\ cs[x].name = bs[x].name /\ cs[x].at = bs[x].at
        /\ Idle(bs, x, b) => cs[x].code = << >>
    BY DEF Writing, Grows, Idle
  <2> QED
    BY <2>1, <2>2, <2>3
<1>7. fr[1] \in 1 .. Len(bs) /\ fr[2] \in 1 .. Len(bs) /\ fr[1] < fr[2]
      /\ bs[fr[1]].at = o /\ bs[fr[2]].at = o /\ Idle(bs, fr[2], b)
  BY DEF FrameFlow
<1>8. \A x \in {fr[1], fr[2]} : Idle(bs, x, b) => Idle(cs, x, c)
  BY <1>6, <1>7 DEF Idle
<1>9. CASE body[o].k = "if"
  <2>1. /\ bs[fr[1]].name = "else" /\ bs[fr[2]].name = "ifend"
        /\ LiveAt(body, o) => Entered(bs, fr[1])
        /\ (\A e \in o+1 .. p-1 : ~ElseOf(body, o, e)) => Idle(bs, fr[1], b)
        /\ \A e \in o+1 .. p-1 : ElseOf(body, o, e) /\ LiveAt(body, e) => Entered(bs, fr[2])
    BY <1>9 DEF FrameFlow
  <2>2. (\A e \in o+1 .. (p+1)-1 : ~ElseOf(body, o, e)) => Idle(cs, fr[1], c)
    BY <1>5, <1>8, <2>1
  <2>3. \A e \in o+1 .. (p+1)-1 : ElseOf(body, o, e) /\ LiveAt(body, e) => Entered(cs, fr[2])
    BY <1>4, <1>6, <1>7, <2>1
  <2> QED
    BY <1>3, <1>6, <1>7, <1>8, <1>9, <2>1, <2>2, <2>3 DEF FrameFlow
<1>10. CASE body[o].k = "while"
  <2>1. /\ bs[fr[1]].name = "while.cond" /\ bs[fr[2]].name = "while.end"
        /\ LiveAt(body, o) => Entered(bs, fr[2])
    BY <1>10 DEF FrameFlow
  <2> QED
    BY <1>3, <1>6, <1>7, <1>8, <1>10, <2>1 DEF FrameFlow
<1> QED
  BY <1>2, <1>9, <1>10

(* The frames that stay, whatever block generation goes on in.             *)
LEMMA FramesStay ==
  ASSUME NEW body, NEW bs, NEW fs, NEW b, NEW p, Setting(body, bs, fs, b, p),
         NEW code, NEW more, NEW cs, Writing(bs, b, p, code, more, cs),
         NEW gs, Len(gs) \in Nat, Len(gs) <= Len(fs), \A n \in 1 .. Len(gs) : gs[n] = fs[n],
         BlockDepth(body, p + 1) >= Len(gs), body[p].k = "else" => Len(gs) < Len(fs),
         NEW c, c = b \/ \A n \in 1 .. Len(gs) : c # gs[n][1] /\ c # gs[n][2]
  PROVE  Frames(body, cs, gs, c, p + 1)
<1>1. Len(fs) \in Nat /\ BlockDepth(body, p) = Len(fs) /\ BlockDepth(body, p + 1) \in Int
  BY SeqBasics, DepthType DEF Setting
<1>2. \A n \in 1 .. Len(gs) : n \in 1 .. Len(fs)
  BY <1>1
<1>3. ASSUME NEW n \in 1 .. Len(gs)
      PROVE  \E o : BlockDepth(body, o) = n - 1 /\ FrameFlow(body, cs, gs[n], o, c, p + 1)
  <2>1. PICK o : BlockDepth(body, o) = n - 1 /\ FrameFlow(body, bs, fs[n], o, b, p)
    BY <1>2 DEF Setting, Healthy, Frames
  <2>2. BlockDepth(body, p + 1) > BlockDepth(body, o)
    BY <1>1, <2>1
  <2>3. ~ElseOf(body, o, p)
    <3> SUFFICES ASSUME ElseOf(body, o, p) PROVE FALSE
      OBVIOUS
    <3>1. BlockDepth(body, p) = BlockDepth(body, o) + 1 /\ Len(gs) < Len(fs)
      BY ClosesWhat DEF ElseOf, Setting
    <3> QED
      BY <1>1, <2>1, <3>1
  <2>4. gs[n] = fs[n] /\ (c = b \/ (c # fs[n][1] /\ c # fs[n][2]))
    OBVIOUS
  <2>5. FrameFlow(body, cs, fs[n], o, c, p + 1)
    BY <2>1, <2>2, <2>3, <2>4, FrameStays
  <2> QED
    BY <2>1, <2>4, <2>5
<1>4. \A m, n \in 1 .. Len(gs) : m < n => gs[m][2] < gs[n][1]
  BY <1>2 DEF Setting, Healthy, Frames
<1> QED
  BY <1>3, <1>4 DEF Frames

(* If code goes to a block that has its terminator, it is none.            *)
LEMMA FlowOn ==
  ASSUME NEW body, NEW bs, NEW fs, NEW b, NEW p, Setting(body, bs, fs, b, p),
         NEW code, NEW more, NEW cs, Writing(bs, b, p, code, more, cs)
  PROVE  /\ code # << >> => ~Terminated(bs[b]) /\ (Begins(body, bs[b]) <=> LiveAt(body, p) /\ Begins(body, bs[b]))
         /\ LiveAt(body, p) => Entered(cs, b)
         /\ ~Broken(bs)
         /\ Begins(body, cs[b]) <=> Begins(body, bs[b])
         /\ \A i \in Range(code) : i \in Range(cs[b].code)
         /\ (/\ \A i \in Range(code) : LiveAt(body, p) /\ i.op = "br" =>
                  \A t \in i.to : t \in 1 .. Len(cs) /\ Begins(body, cs[t])
             /\ \A j \in 1 .. Len(more) : \A i \in Range(more[j].code) : FlowsAt(body, cs, Len(bs) + j, i))
            => Flows(body, cs)
<1>1. IsSeq(code) /\ IsBlocks(more) /\ Grows(bs, b, code, more, cs) /\ ~Broken(cs)
      /\ \A i \in Range(code) : i.at[2] = p
  BY DEF Writing
<1>2. IsBlocks(bs) /\ b \in 1 .. Len(bs) /\ Flows(body, bs) /\ Leads(body, bs, b, p)
  BY DEF Setting, Healthy
<1>3. ~Broken(bs) /\ (code # << >> => ~Terminated(bs[b]))
  BY <1>1, <1>2, StillBroken
<1>4. LiveAt(body, p) => Entered(cs, b)
  BY <1>1, <1>2, StillEntered DEF Leads
<1>5. Begins(body, cs[b]) <=> Begins(body, bs[b])
  BY <1>1, <1>2, GrowsCode
<1>6. \A i \in Range(code) : i \in Range(cs[b].code) /\ code # << >>
  BY <1>1, <1>2, GrowsCode, RangeOfNothing
<1>7. ASSUME \A i \in Range(code) : LiveAt(body, p) /\ i.op = "br" =>
                  \A t \in i.to : t \in 1 .. Len(cs) /\ Begins(body, cs[t]),
             \A j \in 1 .. Len(more) : \A i \in Range(more[j].code) : FlowsAt(body, cs, Len(bs) + j, i)
      PROVE  Flows(body, cs)
  <2>1. \A i \in Range(code) : FlowsAt(body, cs, b, i)
    BY <1>1, <1>2, <1>3, <1>4, <1>5, <1>6, <1>7 DEF FlowsAt, Leads
  <2> QED
    BY <1>1, <1>2, <1>7, <2>1, GrowsFlow
<1>8. code # << >> => (Begins(body, bs[b]) <=> LiveAt(body, p) /\ Begins(body, bs[b]))
  BY <1>2, <1>3 DEF Leads
<1> QED
  BY <1>3, <1>4, <1>5, <1>6, <1>7, <1>8

LEMMA EndsIn ==
  ASSUME NEW s, IsSeq(s), NEW t, IsSeq(t), t # << >>
  PROVE  s \o t # << >> /\ Last(s \o t) = Last(t)
<1> DEFINE m == Len(s)   n == Len(t)
<1>1. m \in Nat /\ n \in Nat /\ n # 0
  BY SeqBasics
<1>2. Len(s \o t) = m + n /\ IsSeq(s \o t)
  BY Concatenation
<1>3. (s \o t)[m + n] = t[n]
  <2> HIDE DEF m, n
  <2>1. m + n \in 1 .. m + n /\ ~(m + n <= m) /\ (m + n) - m = n
    BY <1>1
  <2>2. \A i \in 1 .. m + n : (s \o t)[i] = IF i <= m THEN s[i] ELSE t[i - m]
    BY Entries DEF m, n
  <2> QED
    BY <2>1, <2>2
<1>4. m + n # 0
  <2> HIDE DEF m, n
  <2> QED
    BY <1>1
<1> QED
  BY <1>2, <1>3, <1>4, SeqBasics DEF Last

LEMMA LastIsIn ==
  ASSUME NEW s, IsSeq(s), s # << >>
  PROVE  Last(s) \in Range(s)
<1>1. Len(s) \in Nat /\ Len(s) # 0 /\ DOMAIN s = 1 .. Len(s)
  BY SeqBasics
<1>2. Len(s) \in DOMAIN s
  BY <1>1
<1> QED
  BY <1>2 DEF Last, Range

(* Code without a jump ends no block.                                      *)
LEMMA StillOpen ==
  ASSUME NEW bs, IsBlocks(bs), NEW b \in 1 .. Len(bs), NEW code, IsSeq(code),
         NEW more, NEW cs, Grows(bs, b, code, more, cs),
         \A i \in Range(code) : ~Terminator(i), code # << >> => ~Terminated(bs[b])
  PROVE  Terminated(cs[b]) <=> Terminated(bs[b])
<1>1. cs[b].code = bs[b].code \o code /\ IsSeq(bs[b].code)
  BY DEF Grows, IsBlocks, IsBlock
<1>2. CASE code = << >>
  <2>1. bs[b].code \o << >> = bs[b].code
    BY <1>1, ConcatEmpty
  <2> QED
    BY <1>1, <1>2, <2>1 DEF Terminated
<1>3. CASE code # << >>
  <2>1. Last(bs[b].code \o code) = Last(code) /\ Last(code) \in Range(code)
    BY <1>1, <1>3, EndsIn, LastIsIn
  <2> QED
    BY <1>1, <1>3, <2>1 DEF Terminated
<1> QED
  BY <1>2, <1>3

LEMMA NoGrowth ==
  ASSUME NEW bs, IsBlocks(bs), NEW b
  PROVE  Grows(bs, b, << >>, << >>, bs)
<1>1. Len(bs) \in Nat /\ Len(<< >>) = 0 /\ \A k : k \notin 1 .. 0
  BY SeqBasics, EmptyStack DEF IsBlocks
<1>2. \A k \in 1 .. Len(bs) : bs[k].code \o << >> = bs[k].code
  BY ConcatEmpty DEF IsBlocks, IsBlock
<1> QED
  BY <1>1, <1>2 DEF Grows

(* Depth at the statement after p. *)
LEMMA NextDepth ==
  ASSUME NEW body, NEW bs, NEW fs, NEW b, NEW p, Setting(body, bs, fs, b, p)
  PROVE  /\ Len(fs) \in Nat /\ Len(body) \in Nat /\ p \in Nat \ {0}
         /\ BlockDepth(body, p) = Len(fs)
         /\ BlockDepth(body, p + 1) = Len(fs) + IF body[p].k \in {"if", "while"} THEN 1
                ELSE IF body[p].k \in {"endif", "endwhile"} THEN -1 ELSE 0
  BY DepthNext, SeqBasics DEF Setting

(* The kinds of statements one after the other: what code each leaves.     *)
LEMMA PlainOn ==
  ASSUME NEW body, NEW bs, NEW fs, NEW b, NEW p, Setting(body, bs, fs, b, p),
         NEW code, NEW cs, Writing(bs, b, p, code, << >>, cs),
         body[p].k \in {"let", "expr", "defer"}, \A i \in Range(code) : ~Terminator(i)
  PROVE  Healthy(body, cs, fs, b, p + 1)
<1>1. Len(fs) \in Nat /\ BlockDepth(body, p + 1) = Len(fs) + 0
  BY NextDepth
<1>2. Frames(body, cs, fs, b, p + 1)
  <2>1. Len(fs) <= Len(fs) /\ BlockDepth(body, p + 1) >= Len(fs)
    BY <1>1
  <2> QED
    BY <1>1, <2>1, FramesStay
<1>3. \A i \in Range(code) : i.op # "br"
  BY DEF Terminator
<1>4. \A j : j \notin 1 .. Len(<< >>)
  BY EmptyStack
<1>5. Flows(body, cs)
  BY <1>3, <1>4, FlowOn
<1>6. /\ code # << >> => ~Terminated(bs[b])
      /\ LiveAt(body, p) => Entered(cs, b)
      /\ Begins(body, cs[b]) <=> Begins(body, bs[b])
  BY FlowOn
<1>7. Terminated(cs[b]) <=> Terminated(bs[b])
  BY <1>6, StillOpen DEF Setting, Writing
<1>8. LiveAt(body, p + 1) <=> LiveAt(body, p)
  BY LiveNext DEF Setting
<1>9. Leads(body, cs, b, p + 1)
  BY <1>6, <1>7, <1>8 DEF Leads, Setting, Healthy
<1> QED
  BY <1>2, <1>5, <1>9 DEF Healthy

LEMMA ReturnOn ==
  ASSUME NEW body, NEW bs, NEW fs, NEW b, NEW p, Setting(body, bs, fs, b, p),
         NEW code, NEW cs, Writing(bs, b, p, code, << >>, cs),
         body[p].k = "return", \A i \in Range(code) : i.op # "br",
         code # << >>, Terminator(Last(code))
  PROVE  Healthy(body, cs, fs, b, p + 1)
<1>1. Len(fs) \in Nat /\ BlockDepth(body, p + 1) = Len(fs) + 0
  BY NextDepth
<1>2. Frames(body, cs, fs, b, p + 1)
  <2>1. Len(fs) <= Len(fs) /\ BlockDepth(body, p + 1) >= Len(fs)
    BY <1>1
  <2> QED
    BY <1>1, <2>1, FramesStay
<1>4. \A j : j \notin 1 .. Len(<< >>)
  BY EmptyStack
<1>5. Flows(body, cs)
  BY <1>4, FlowOn
<1>7. Terminated(cs[b])
  <2>1. cs[b].code = bs[b].code \o code /\ IsSeq(bs[b].code) /\ IsSeq(code)
    BY DEF Writing, Grows, Setting, IsBlocks, IsBlock
  <2> QED
    BY <2>1, EndsIn DEF Terminated
<1>8. ~LiveAt(body, p + 1)
  BY LiveNext DEF Setting
<1>9. Leads(body, cs, b, p + 1)
  BY <1>7, <1>8 DEF Leads
<1> QED
  BY <1>2, <1>5, <1>9 DEF Healthy

(* The frame that the end of a branch or of a loop belongs to.             *)
LEMMA TopFrame ==
  ASSUME NEW body, NEW bs, NEW fs, NEW b, NEW p, Setting(body, bs, fs, b, p),
         body[p].k \in {"else", "endif", "endwhile"}
  PROVE  /\ Len(fs) \in Nat /\ Len(fs) > 0 /\ Last(fs) = fs[Len(fs)]
         /\ BlockDepth(body, Opener(body, p)) = Len(fs) - 1
         /\ FrameFlow(body, bs, Last(fs), Opener(body, p), b, p)
<1>1. Len(fs) \in Nat /\ p \in Nat \ {0} /\ BlockDepth(body, p) = Len(fs)
  BY NextDepth
<1>2. BlockDepth(body, p) > 0
  BY DEF Setting, WellNested, Closes
<1>3. Len(fs) \in 1 .. Len(fs) /\ Len(fs) = (Len(fs) - 1) + 1
  BY <1>1, <1>2
<1>4. PICK o : BlockDepth(body, o) = Len(fs) - 1 /\ FrameFlow(body, bs, fs[Len(fs)], o, b, p)
  BY <1>3 DEF Setting, Healthy, Frames
<1>5. Within(body, o, p) /\ BlockDepth(body, p) = BlockDepth(body, o) + 1
  BY <1>1, <1>3, <1>4 DEF FrameFlow
<1>6. Opener(body, p) = o
  BY <1>1, <1>5, OpenerIs
<1> QED
  BY <1>1, <1>2, <1>4, <1>6 DEF Last

(* No other frame has its blocks.                                          *)
LEMMA FramesApart ==
  ASSUME NEW body, NEW bs, NEW fs, NEW b, NEW p, Frames(body, bs, fs, b, p), Len(fs) \in Nat,
         NEW n \in 1 .. Len(fs), n < Len(fs)
  PROVE  /\ fs[n][1] \in Nat /\ fs[n][2] \in Nat
         /\ fs[n][1] < Last(fs)[1] /\ fs[n][2] < Last(fs)[1] /\ Last(fs)[1] < Last(fs)[2]
         /\ Last(fs)[1] \in Nat /\ Last(fs)[2] \in Nat
<1>1. Len(fs) \in 1 .. Len(fs)
  OBVIOUS
<1>2. PICK o : FrameFlow(body, bs, fs[n], o, b, p)
  BY DEF Frames
<1>3. PICK u : FrameFlow(body, bs, fs[Len(fs)], u, b, p)
  BY <1>1 DEF Frames
<1>4. fs[n][2] < fs[Len(fs)][1]
  BY <1>1 DEF Frames
<1> DEFINE x == fs[n][1]  y == fs[n][2]  v == fs[Len(fs)][1]  w == fs[Len(fs)][2]
<1>5. x \in Nat /\ y \in Nat /\ v \in Nat /\ w \in Nat /\ x < y /\ y < v /\ v < w
  BY <1>2, <1>3, <1>4 DEF FrameFlow
<1> HIDE DEF x, y, v, w
<1>6. x < v
  BY <1>5
<1> QED
  BY <1>5, <1>6 DEF x, y, v, w, Last

(* When the last one ends.                                                 *)
LEMMA FramesPop ==
  ASSUME NEW body, NEW bs, NEW fs, NEW b, NEW p, Setting(body, bs, fs, b, p),
         body[p].k \in {"else", "endif", "endwhile"},
         NEW code, NEW more, NEW cs, Writing(bs, b, p, code, more, cs),
         NEW c, c \in {Last(fs)[1], Last(fs)[2]}
  PROVE  Frames(body, cs, Front(fs), c, p + 1)
<1> DEFINE gs == Front(fs)
<1>1. Len(fs) \in Nat /\ Len(fs) > 0
  BY TopFrame
<1>2. Len(gs) = Len(fs) - 1 /\ \A n \in 1 .. Len(fs) - 1 : gs[n] = fs[n]
  BY <1>1, StackPop, SeqBasics DEF Setting
<1> HIDE DEF gs
<1>3. Len(gs) \in Nat /\ Len(gs) < Len(fs) /\ Len(gs) <= Len(fs) /\ \A n \in 1 .. Len(gs) : gs[n] = fs[n]
  BY <1>1, <1>2
<1>4. BlockDepth(body, p + 1) >= Len(gs)
  <2>1. BlockDepth(body, p + 1) = Len(fs) + (IF body[p].k \in {"if", "while"} THEN 1
                ELSE IF body[p].k \in {"endif", "endwhile"} THEN -1 ELSE 0)
    BY NextDepth
  <2> QED
    BY <1>1, <1>2, <2>1
<1>5. \A n \in 1 .. Len(gs) : c # gs[n][1] /\ c # gs[n][2]
  <2> SUFFICES ASSUME NEW n \in 1 .. Len(gs) PROVE c # gs[n][1] /\ c # gs[n][2]
    OBVIOUS
  <2>1. n \in 1 .. Len(fs) /\ n < Len(fs) /\ gs[n] = fs[n]
    BY <1>1, <1>2
  <2>2. /\ fs[n][1] \in Nat /\ fs[n][2] \in Nat
        /\ fs[n][1] < Last(fs)[1] /\ fs[n][2] < Last(fs)[1] /\ Last(fs)[1] < Last(fs)[2]
        /\ Last(fs)[1] \in Nat /\ Last(fs)[2] \in Nat
    BY <1>1, <2>1, FramesApart DEF Setting, Healthy
  <2> DEFINE x == fs[n][1]  y == fs[n][2]  v == Last(fs)[1]  w == Last(fs)[2]
  <2>3. x \in Nat /\ y \in Nat /\ v \in Nat /\ w \in Nat /\ x < v /\ y < v /\ v < w
    BY <2>2
  <2> HIDE DEF x, y, v, w
  <2>4. x # v /\ x # w /\ y # v /\ y # w
    BY <2>3
  <2> QED
    BY <2>1, <2>4 DEF x, y, v, w
<1>6. Frames(body, cs, gs, c, p + 1)
  BY <1>3, <1>4, <1>5, FramesStay
<1> QED
  BY <1>6 DEF gs

(* what Close adds to block b *)
Closing(bs, b, p, to, code) ==
  /\ IF Terminated(bs[b]) THEN code = << >>
     ELSE IsSeq(code) /\ \E i : Range(code) = {i} /\ i.op = "br" /\ i.to = {to} /\ i.at[2] = p

(* Its branch enters the block it goes to, and does no harm.               *)
LEMMA ClosingFlows ==
  ASSUME NEW body, NEW bs, NEW fs, NEW b, NEW p, Setting(body, bs, fs, b, p),
         NEW to \in 1 .. Len(bs), NEW code, Closing(bs, b, p, to, code),
         NEW cs, Writing(bs, b, p, code, << >>, cs),
         LiveAt(body, p) => Begins(body, bs[to])
  PROVE  Flows(body, cs) /\ (LiveAt(body, p) => Entered(cs, to))
<1>1. \A j : j \notin 1 .. Len(<< >>)
  BY EmptyStack
<1>2. \A i \in Range(code) : i.to = {to} /\ i.op = "br"
  BY RangeOfNothing DEF Closing
<1>3. to \in 1 .. Len(cs) /\ (Begins(body, cs[to]) <=> Begins(body, bs[to])) /\ b \in 1 .. Len(cs)
  BY GrowsCode DEF Setting, Writing
<1>4. Flows(body, cs)
  BY <1>1, <1>2, <1>3, FlowOn
<1>5. ASSUME LiveAt(body, p) PROVE Entered(cs, to)
  <2>1. Entered(cs, b) /\ \A i \in Range(code) : i \in Range(cs[b].code)
    BY <1>5, FlowOn
  <2>2. ~Terminated(bs[b])
    BY <1>5 DEF Setting, Healthy, Leads
  <2>3. PICK i : i \in Range(code)
    BY <2>2 DEF Closing
  <2> QED
    BY <1>2, <1>3, <2>1, <2>3, EnteredBy
<1> QED
  BY <1>4, <1>5

LEMMA EndWhileOn ==
  ASSUME NEW body, NEW bs, NEW fs, NEW b, NEW p, Setting(body, bs, fs, b, p),
         body[p].k = "endwhile", NEW code, Closing(bs, b, p, Last(fs)[1], code),
         NEW cs, Writing(bs, b, p, code, << >>, cs)
  PROVE  Healthy(body, cs, Front(fs), Last(fs)[2], p + 1)
<1> DEFINE o == Opener(body, p)
           x == Last(fs)[1]
           y == Last(fs)[2]
<1>1. FrameFlow(body, bs, Last(fs), o, b, p)
  BY TopFrame
<1>2. body[o].k = "while" /\ Within(body, o, p)
  BY ClosesWhat DEF Setting
<1>3. x \in 1 .. Len(bs) /\ y \in 1 .. Len(bs) /\ Idle(bs, y, b) /\ bs[x].at = o /\ bs[y].at = o
      /\ bs[x].name = "while.cond" /\ bs[y].name = "while.end" /\ (LiveAt(body, o) => Entered(bs, y))
  BY <1>1, <1>2 DEF FrameFlow
<1>4. LiveAt(body, p) => LiveAt(body, o)
  <2>1. p \in 1 .. Len(body) + 1
    BY SeqBasics DEF Setting
  <2> QED
    BY <1>2, <2>1, LiveWithin DEF Setting
<1>5. LiveAt(body, p + 1) <=> LiveAt(body, o)
  BY LiveNext DEF Setting
<1> HIDE DEF o
<1>6. Flows(body, cs)
  <2>1. Begins(body, bs[x]) <=> LiveAt(body, o)
    BY <1>3 DEF Begins
  <2> QED
    BY <1>3, <1>4, <2>1, ClosingFlows
<1>7. cs[y].name = bs[y].name /\ cs[y].at = bs[y].at /\ cs[y].code = << >>
  BY <1>3 DEF Writing, Grows, Idle
<1>8. Entered(bs, y) => Entered(cs, y)
  BY StillEntered DEF Writing, Setting
<1>9. Leads(body, cs, y, p + 1)
  BY <1>3, <1>5, <1>7, <1>8 DEF Leads, Begins, Terminated
<1>10. Frames(body, cs, Front(fs), y, p + 1)
  BY FramesPop
<1> QED
  BY <1>6, <1>9, <1>10 DEF Healthy

LEMMA BranchEndOf ==
  ASSUME NEW body, IsSeq(body), WellNested(body), NEW q \in 1 .. Len(body), body[q].k = "endif"
  PROVE  /\ BranchEnd(body, q) \in Opener(body, q) + 1 .. q-1
         /\ ElseOf(body, Opener(body, q), BranchEnd(body, q))
<1> DEFINE o == Opener(body, q)
           e == BranchEnd(body, q)
<1>1. o \in 1 .. q-1 /\ Within(body, o, q) /\ BlockDepth(body, q) = BlockDepth(body, o) + 1
  BY ClosesWhat
<1>2. e \in 1 .. q-1 /\ body[e].k = "else" /\ BlockDepth(body, e) = BlockDepth(body, q) /\ o < e
  BY BranchEndIs
<1>3. q \in Nat
  BY SeqBasics
<1> HIDE DEF o, e
<1>4. e \in Nat /\ e \in o+1 .. q /\ e \in o+1 .. q-1
  BY <1>1, <1>2, <1>3
<1>5. Within(body, o, e)
  BY <1>1, <1>3, <1>4, WithinLess
<1>6. Opener(body, e) = o
  BY <1>1, <1>2, <1>4, <1>5, OpenerIs
<1> QED
  BY <1>2, <1>4, <1>6 DEF ElseOf, o, e

LEMMA EndIfOn ==
  ASSUME NEW body, NEW bs, NEW fs, NEW b, NEW p, Setting(body, bs, fs, b, p),
         body[p].k = "endif", NEW code, Closing(bs, b, p, Last(fs)[2], code),
         NEW cs, Writing(bs, b, p, code, << >>, cs)
  PROVE  Healthy(body, cs, Front(fs), Last(fs)[2], p + 1)
<1> DEFINE o == Opener(body, p)
           e == BranchEnd(body, p)
           y == Last(fs)[2]
<1>1. FrameFlow(body, bs, Last(fs), o, b, p)
  BY TopFrame
<1>2. body[o].k = "if"
  BY ClosesWhat DEF Setting
<1>3. y \in 1 .. Len(bs) /\ Idle(bs, y, b) /\ bs[y].at = o /\ bs[y].name = "ifend"
      /\ \A d \in o+1 .. p-1 : ElseOf(body, o, d) /\ LiveAt(body, d) => Entered(bs, y)
  BY <1>1, <1>2 DEF FrameFlow
<1>4. e \in o+1 .. p-1 /\ ElseOf(body, o, e)
  BY BranchEndOf DEF Setting
<1>5. LiveAt(body, p + 1) <=> LiveAt(body, p) \/ LiveAt(body, e)
  BY LiveNext DEF Setting
<1>6. Joins(body, o) <=> LiveAt(body, p + 1)
  BY JoinsIs DEF Setting
<1> HIDE DEF o, e
<1>7. Begins(body, bs[y]) <=> LiveAt(body, p + 1)
  BY <1>3, <1>6 DEF Begins
<1>8. Flows(body, cs) /\ (LiveAt(body, p) => Entered(cs, y))
  BY <1>3, <1>5, <1>7, ClosingFlows
<1>9. cs[y].name = bs[y].name /\ cs[y].at = bs[y].at /\ cs[y].code = << >>
  BY <1>3 DEF Writing, Grows, Idle
<1>10. Entered(bs, y) => Entered(cs, y)
  BY StillEntered DEF Writing, Setting
<1>11. LiveAt(body, e) => Entered(cs, y)
  BY <1>3, <1>4, <1>10
<1>12. Begins(body, cs[y]) <=> LiveAt(body, p + 1)
  BY <1>7, <1>9 DEF Begins
<1>13. Leads(body, cs, y, p + 1)
  BY <1>5, <1>8, <1>9, <1>11, <1>12 DEF Leads, Terminated
<1>14. Frames(body, cs, Front(fs), y, p + 1)
  BY FramesPop
<1> QED
  BY <1>8, <1>13, <1>14 DEF Healthy

LEMMA ElseOn ==
  ASSUME NEW body, NEW bs, NEW fs, NEW b, NEW p, Setting(body, bs, fs, b, p),
         body[p].k = "else", NEW code, Closing(bs, b, p, Last(fs)[2], code),
         NEW cs, Writing(bs, b, p, code, << >>, cs)
  PROVE  Healthy(body, cs, fs, Last(fs)[1], p + 1)
<1> DEFINE o == Opener(body, p)
           x == Last(fs)[1]
           y == Last(fs)[2]
<1>1. FrameFlow(body, bs, Last(fs), o, b, p) /\ Len(fs) \in Nat /\ Len(fs) > 0
      /\ BlockDepth(body, o) = Len(fs) - 1
  BY TopFrame
<1>2. body[o].k = "if" /\ Within(body, o, p) /\ ~HasElse(body, o, p) /\ o \in 1 .. p-1
      /\ BlockDepth(body, p) = BlockDepth(body, o) + 1
  BY ClosesWhat DEF Setting
<1>3. LiveAt(body, p + 1) <=> LiveAt(body, o)
  BY LiveNext DEF Setting
<1>4. ElseOf(body, o, p)
  BY DEF ElseOf
<1>5. p \in Nat \ {0} /\ BlockDepth(body, p + 1) = Len(fs) + 0 /\ BlockDepth(body, p) = Len(fs)
  BY NextDepth
<1>5a. Len(body) \in Nat
  BY SeqBasics DEF Setting
<1>6. \A e \in o+1 .. p-1 : ~ElseOf(body, o, e)
  <2> SUFFICES ASSUME NEW e \in o+1 .. p-1, ElseOf(body, o, e) PROVE FALSE
    OBVIOUS
  <2>1. e \in 1 .. Len(body)
    <3> DEFINE l == Len(body)
    <3>1. p \in 1 .. l /\ l \in Nat /\ o \in 1 .. p-1
      BY <1>2, <1>5a DEF Setting
    <3> HIDE DEF o, l
    <3>2. e \in 1 .. l
      BY <3>1
    <3> QED
      BY <3>2 DEF l
  <2>2. BlockDepth(body, e) = BlockDepth(body, Opener(body, e)) + 1
    BY <2>1, ClosesWhat DEF ElseOf, Setting
  <2> QED
    BY <1>2, <2>2 DEF ElseOf, HasElse
<1> HIDE DEF o
<1>7. /\ x \in 1 .. Len(bs) /\ y \in 1 .. Len(bs) /\ x < y /\ Idle(bs, x, b) /\ Idle(bs, y, b)
      /\ bs[x].at = o /\ bs[y].at = o /\ bs[x].name = "else" /\ bs[y].name = "ifend"
      /\ LiveAt(body, o) => Entered(bs, x)
  BY <1>1, <1>2, <1>6 DEF FrameFlow
<1>8. LiveAt(body, p) => Begins(body, bs[y])
  <2>1. p \in 1 .. Len(body) /\ Opener(body, p) = o
    BY DEF Setting, o
  <2> QED
    BY <1>7, <2>1 DEF Begins, Joins
<1>9. Flows(body, cs) /\ (LiveAt(body, p) => Entered(cs, y))
  BY <1>7, <1>8, ClosingFlows
<1>10. \A z \in {x, y} : /\ z \in 1 .. Len(cs) /\ cs[z].name = bs[z].name /\ cs[z].at = bs[z].at
                         /\ cs[z].code = << >> /\ (Entered(bs, z) => Entered(cs, z))
  <2> SUFFICES ASSUME NEW z \in {x, y}
               PROVE  /\ z \in 1 .. Len(cs) /\ cs[z].name = bs[z].name /\ cs[z].at = bs[z].at
                      /\ cs[z].code = << >> /\ (Entered(bs, z) => Entered(cs, z))
    OBVIOUS
  <2>1. z \in 1 .. Len(bs) /\ Idle(bs, z, b)
    BY <1>7
  <2>2. z \in 1 .. Len(cs)
    BY <2>1, GrowsCode DEF Writing, Setting
  <2>3. cs[z].name = bs[z].name /\ cs[z].at = bs[z].at /\ cs[z].code = << >>
    BY <2>1 DEF Writing, Grows, Idle
  <2>4. Entered(bs, z) => Entered(cs, z)
    BY StillEntered DEF Writing, Setting
  <2> QED
    BY <2>2, <2>3, <2>4
<1>11. Leads(body, cs, x, p + 1)
  BY <1>3, <1>7, <1>10 DEF Leads, Begins, Terminated
<1>12. /\ Frames(body, cs, Front(fs), x, p + 1)
       /\ Len(Front(fs)) = Len(fs) - 1 /\ \A n \in 1 .. Len(fs) - 1 : Front(fs)[n] = fs[n]
  <2>1. Frames(body, cs, Front(fs), x, p + 1)
    BY FramesPop
  <2>2. Len(Front(fs)) = Len(fs) - 1 /\ \A n \in 1 .. Len(fs) - 1 : Front(fs)[n] = fs[n]
    BY <1>1, StackPop, SeqBasics DEF Setting
  <2> QED
    BY <2>1, <2>2
<1>13. Within(body, o, p + 1)
  <2> DEFINE B(q) == BlockDepth(body, q)
  <2>1. /\ o \in 1 .. p-1 /\ body[o].k \in {"if", "while"} /\ \A q \in o+1 .. p : B(q) > B(o)
    BY <1>2 DEF Within
  <2>2. B(p + 1) > B(o)
    BY <1>1, <1>5
  <2> HIDE DEF B
  <2>3. o \in 1 .. (p+1)-1 /\ \A q \in o+1 .. p+1 : B(q) > B(o)
    BY <1>5, <2>1, <2>2
  <2> QED
    BY <2>1, <2>3 DEF Within, B
<1>14. FrameFlow(body, cs, Last(fs), o, x, p + 1)
  <2>1. p \in o+1 .. (p+1)-1 /\ \A e \in o+1 .. (p+1)-1 : e \in o+1 .. p-1 \/ e = p
    BY <1>2, <1>5
  <2>2. (\A e \in o+1 .. (p+1)-1 : ~ElseOf(body, o, e)) => Idle(cs, x, x)
    BY <1>4, <2>1
  <2>3. \A e \in o+1 .. (p+1)-1 : ElseOf(body, o, e) /\ LiveAt(body, e) => Entered(cs, y)
    BY <1>6, <1>9, <2>1
  <2>4. Idle(cs, y, x)
    BY <1>7, <1>10 DEF Idle
  <2> QED
    BY <1>2, <1>7, <1>10, <1>13, <2>2, <2>3, <2>4 DEF FrameFlow
<1>15. Frames(body, cs, fs, x, p + 1)
  <2>1. \A n \in 1 .. Len(fs) : n = Len(fs) \/ n \in 1 .. Len(fs) - 1
    BY <1>1
  <2>2. ASSUME NEW n \in 1 .. Len(fs)
        PROVE  \E u : BlockDepth(body, u) = n - 1 /\ FrameFlow(body, cs, fs[n], u, x, p + 1)
    <3>1. CASE n = Len(fs)
      BY <1>1, <1>14, <3>1 DEF Last
    <3>2. CASE n \in 1 .. Len(fs) - 1
      BY <1>12, <3>2 DEF Frames
    <3> QED
      BY <2>1, <3>1, <3>2
  <2>3. \A m, n \in 1 .. Len(fs) : m < n => fs[m][2] < fs[n][1]
    BY DEF Setting, Healthy, Frames
  <2> QED
    BY <2>2, <2>3 DEF Frames
<1> QED
  BY <1>9, <1>11, <1>15 DEF Healthy

(* A statement opens a block: one frame more, of two new blocks.           *)
LEMMA FramesPush ==
  ASSUME NEW body, NEW bs, NEW fs, NEW b, NEW p, Setting(body, bs, fs, b, p),
         body[p].k \in {"if", "while"},
         NEW code, NEW more, NEW cs, Writing(bs, b, p, code, more, cs),
         NEW fr,
         NEW c \in Nat, c > Len(bs), fr[1] > Len(bs), FrameFlow(body, cs, fr, p, c, p + 1)
  PROVE  Frames(body, cs, Append(fs, fr), c, p + 1)
<1> DEFINE gs == Append(fs, fr)
<1>1. /\ Len(fs) \in Nat /\ BlockDepth(body, p) = Len(fs) /\ p \in Nat \ {0}
      /\ BlockDepth(body, p + 1) = Len(fs) + 1
  BY NextDepth
<1>2. /\ Len(gs) = Len(fs) + 1 /\ gs[Len(fs) + 1] = fr
      /\ \A n \in 1 .. Len(fs) : gs[n] = fs[n]
  BY StackPush DEF Setting
<1> HIDE DEF gs
<1>3. Len(bs) \in Nat /\ fr[1] \in Nat
  BY SeqBasics DEF Setting, IsBlocks, FrameFlow
<1>4. \A n \in 1 .. Len(fs) : fs[n][1] \in 1 .. Len(bs) /\ fs[n][2] \in 1 .. Len(bs)
  BY DEF Setting, Healthy, Frames, FrameFlow
<1>5. Frames(body, cs, fs, c, p + 1)
  <2>1. Len(fs) <= Len(fs) /\ BlockDepth(body, p + 1) >= Len(fs)
    BY <1>1
  <2>2. \A n \in 1 .. Len(fs) : c # fs[n][1] /\ c # fs[n][2]
    BY <1>3, <1>4
  <2> QED
    BY <1>1, <2>1, <2>2, FramesStay
<1>6. \A n \in 1 .. Len(gs) : n \in 1 .. Len(fs) \/ n = Len(fs) + 1
  BY <1>1, <1>2
<1>7. ASSUME NEW n \in 1 .. Len(gs)
      PROVE  \E o : BlockDepth(body, o) = n - 1 /\ FrameFlow(body, cs, gs[n], o, c, p + 1)
  <2>1. CASE n \in 1 .. Len(fs)
    BY <1>2, <1>5, <2>1 DEF Frames
  <2>2. CASE n = Len(fs) + 1
    <3>1. BlockDepth(body, p) = n - 1
      BY <1>1, <2>2
    <3> QED
      BY <1>2, <2>2, <3>1
  <2> QED
    BY <1>6, <2>1, <2>2
<1>8. ASSUME NEW m \in 1 .. Len(gs), NEW n \in 1 .. Len(gs), m < n
      PROVE  gs[m][2] < gs[n][1]
  <2>1. m \in 1 .. Len(fs)
    BY <1>1, <1>2, <1>8
  <2>2. CASE n \in 1 .. Len(fs)
    <3>1. fs[m][2] < fs[n][1]
      BY <1>8, <2>1, <2>2 DEF Setting, Healthy, Frames
    <3> QED
      BY <1>2, <2>1, <2>2, <3>1
  <2>3. CASE n = Len(fs) + 1
    <3> DEFINE y == fs[m][2]  z == fr[1]
    <3>1. y \in 1 .. Len(bs) /\ z \in Nat /\ z > Len(bs)
      BY <1>3, <1>4, <2>1
    <3> HIDE DEF y, z
    <3>2. y < z
      BY <1>3, <3>1
    <3> QED
      BY <1>2, <2>1, <2>3, <3>2 DEF y, z
  <2> QED
    BY <1>6, <2>2, <2>3
<1> QED
  BY <1>7, <1>8 DEF Frames, gs

(* one of the three new blocks *)
IsNew(x, name, p) == x.name = name /\ x.at = p /\ x.code = << >>

LEMMA OpensWithin ==
  ASSUME NEW body, NEW bs, NEW fs, NEW b, NEW p, Setting(body, bs, fs, b, p),
         body[p].k \in {"if", "while"}
  PROVE  Within(body, p, p + 1)
<1>1. /\ Len(fs) \in Nat /\ BlockDepth(body, p) = Len(fs) /\ p \in Nat \ {0}
      /\ BlockDepth(body, p + 1) = Len(fs) + 1
  BY NextDepth
<1>2. p \in 1 .. (p+1)-1 /\ \A q \in p+1 .. p+1 : q = p + 1
  BY <1>1
<1>3. \A q \in p+1 .. p+1 : BlockDepth(body, q) > BlockDepth(body, p)
  BY <1>1, <1>2
<1> QED
  BY <1>2, <1>3 DEF Within

LEMMA IfOn ==
  ASSUME NEW body, NEW bs, NEW fs, NEW b, NEW p, Setting(body, bs, fs, b, p), body[p].k = "if",
         NEW n, n = Len(bs),
         NEW code, \A i \in Range(code) : i.op = "br" => i.to = {n+1, n+2},
         \E i \in Range(code) : i.op = "br",
         NEW more, Len(more) = 3, IsNew(more[1], "then", p), IsNew(more[2], "else", p), IsNew(more[3], "ifend", p),
         NEW cs, Writing(bs, b, p, code, more, cs)
  PROVE  Healthy(body, cs, Append(fs, <<n+2, n+3>>), n + 1, p + 1)
<1>1. n \in Nat /\ n + 1 \in 1 .. n + 3 /\ n + 2 \in 1 .. n + 3 /\ n + 3 \in 1 .. n + 3 /\ n + 2 < n + 3
      /\ n + 1 > n /\ n + 2 > n /\ n + 1 # n + 2 /\ n + 1 # n + 3
  BY SeqBasics DEF Setting, IsBlocks
<1>2. Len(cs) = n + 3 /\ cs[n+1] = more[1] /\ cs[n+2] = more[2] /\ cs[n+3] = more[3]
  <2>1. 1 \in 1 .. 3 /\ 2 \in 1 .. 3 /\ 3 \in 1 .. 3
    OBVIOUS
  <2> QED
    BY <2>1 DEF Writing, Grows
<1>3. LiveAt(body, p + 1) <=> LiveAt(body, p)
  BY LiveNext DEF Setting
<1>4. Begins(body, cs[n+1]) <=> LiveAt(body, p)
  BY <1>2 DEF Begins, IsNew
<1>5. Begins(body, cs[n+2]) <=> LiveAt(body, p)
  BY <1>2 DEF Begins, IsNew
<1>6. Flows(body, cs)
  <2>1. \A j \in 1 .. Len(more) : Range(more[j].code) = {}
    <3>1. \A j \in 1 .. 3 : j = 1 \/ j = 2 \/ j = 3
      OBVIOUS
    <3> QED
      BY <3>1, RangeOfNothing DEF IsNew
  <2>2. \A i \in Range(code) : LiveAt(body, p) /\ i.op = "br" =>
          \A t \in i.to : t \in 1 .. Len(cs) /\ Begins(body, cs[t])
    BY <1>1, <1>2, <1>4, <1>5
  <2>3. \A j \in 1 .. Len(more) : \A i \in Range(more[j].code) : FlowsAt(body, cs, Len(bs) + j, i)
    BY <2>1
  <2> QED
    BY <2>2, <2>3, FlowOn
<1>7. LiveAt(body, p) => Entered(cs, n+1) /\ Entered(cs, n+2)
  <2> SUFFICES ASSUME LiveAt(body, p) PROVE Entered(cs, n+1) /\ Entered(cs, n+2)
    OBVIOUS
  <2>1. PICK i \in Range(code) : i.op = "br" /\ n + 1 \in i.to /\ n + 2 \in i.to
    OBVIOUS
  <2>2. Entered(cs, b) /\ i \in Range(cs[b].code)
    BY FlowOn
  <2>3. b \in 1 .. Len(cs)
    BY GrowsCode DEF Setting, Writing
  <2> QED
    BY <2>1, <2>2, <2>3, EnteredBy
<1>8. Leads(body, cs, n + 1, p + 1)
  BY <1>2, <1>3, <1>4, <1>7 DEF Leads, IsNew, Terminated
<1> DEFINE fr == <<n+2, n+3>>
<1>9. FrameFlow(body, cs, fr, p, n + 1, p + 1)
  <2>1. Within(body, p, p + 1)
    BY OpensWithin
  <2>2. fr[1] = n + 2 /\ fr[2] = n + 3
    OBVIOUS
  <2> HIDE DEF fr
  <2>3. fr[1] \in 1 .. Len(cs) /\ fr[2] \in 1 .. Len(cs) /\ fr[1] < fr[2]
    BY <1>1, <1>2, <2>2
  <2>4. cs[fr[1]].at = p /\ cs[fr[2]].at = p /\ cs[fr[1]].name = "else" /\ cs[fr[2]].name = "ifend"
    BY <1>2, <2>2 DEF IsNew
  <2>5. Idle(cs, fr[1], n + 1) /\ Idle(cs, fr[2], n + 1)
    BY <1>1, <1>2, <2>2 DEF IsNew, Idle
  <2>6. \A e : e \notin p+1 .. (p+1)-1
    <3>1. p \in Nat
      BY NextDepth
    <3> QED
      BY <3>1
  <2>7. body[p].k # "while"
    OBVIOUS
  <2> QED
    BY <1>7, <2>1, <2>2, <2>3, <2>4, <2>5, <2>6, <2>7 DEF FrameFlow
<1>10. Frames(body, cs, Append(fs, fr), n + 1, p + 1)
  <2>1. fr[1] > Len(bs)
    BY <1>1
  <2>2. n + 1 \in Nat /\ n + 1 > Len(bs)
    BY <1>1
  <2> HIDE DEF fr
  <2> QED
    BY <1>9, <2>1, <2>2, FramesPush
<1> QED
  BY <1>6, <1>8, <1>10 DEF Healthy

LEMMA WhileOn ==
  ASSUME NEW body, NEW bs, NEW fs, NEW b, NEW p, Setting(body, bs, fs, b, p), body[p].k = "while",
         NEW n, n = Len(bs),
         NEW code, \A i \in Range(code) : i.to = {n+1}, \E i \in Range(code) : i.op = "br",
         NEW more, Len(more) = 3, IsNew(more[2], "while.body", p), IsNew(more[3], "while.end", p),
         more[1].name = "while.cond", more[1].at = p,
         \A i \in Range(more[1].code) : i.at[2] = p /\ (i.op = "br" => i.to = {n+2, n+3}),
         \E i \in Range(more[1].code) : i.op = "br",
         NEW cs, Writing(bs, b, p, code, more, cs)
  PROVE  Healthy(body, cs, Append(fs, <<n+1, n+3>>), n + 2, p + 1)
<1>1. n \in Nat /\ n + 1 \in 1 .. n + 3 /\ n + 2 \in 1 .. n + 3 /\ n + 3 \in 1 .. n + 3 /\ n + 1 < n + 3
      /\ n + 1 > n /\ n + 2 > n /\ n + 2 # n + 1 /\ n + 2 # n + 3
  BY SeqBasics DEF Setting, IsBlocks
<1>2. Len(cs) = n + 3 /\ cs[n+1] = more[1] /\ cs[n+2] = more[2] /\ cs[n+3] = more[3]
  <2>1. 1 \in 1 .. 3 /\ 2 \in 1 .. 3 /\ 3 \in 1 .. 3
    OBVIOUS
  <2> QED
    BY <2>1 DEF Writing, Grows
<1>3. LiveAt(body, p + 1) <=> LiveAt(body, p)
  BY LiveNext DEF Setting
<1>4. Begins(body, cs[n+1]) <=> LiveAt(body, p)
  BY <1>2 DEF Begins
<1>5. (Begins(body, cs[n+2]) <=> LiveAt(body, p)) /\ (Begins(body, cs[n+3]) <=> LiveAt(body, p))
  BY <1>2 DEF Begins, IsNew
<1>6. LiveAt(body, p) => Entered(cs, n+1)
  <2> SUFFICES ASSUME LiveAt(body, p) PROVE Entered(cs, n+1)
    OBVIOUS
  <2>1. PICK i \in Range(code) : i.op = "br" /\ n + 1 \in i.to
    OBVIOUS
  <2>2. Entered(cs, b) /\ i \in Range(cs[b].code)
    BY FlowOn
  <2>3. b \in 1 .. Len(cs)
    BY GrowsCode DEF Setting, Writing
  <2> QED
    BY <2>1, <2>2, <2>3, EnteredBy
<1>7. LiveAt(body, p) => Entered(cs, n+2) /\ Entered(cs, n+3)
  <2> SUFFICES ASSUME LiveAt(body, p) PROVE Entered(cs, n+2) /\ Entered(cs, n+3)
    OBVIOUS
  <2>1. PICK i \in Range(more[1].code) : i.op = "br" /\ n + 2 \in i.to /\ n + 3 \in i.to
    OBVIOUS
  <2>2. n + 1 \in 1 .. Len(cs) /\ i \in Range(cs[n+1].code)
    BY <1>1, <1>2
  <2> QED
    BY <1>6, <2>1, <2>2, EnteredBy
<1>8. Flows(body, cs)
  <2>1. \A i \in Range(more[1].code) : FlowsAt(body, cs, n + 1, i)
    <3> SUFFICES ASSUME NEW i \in Range(more[1].code) PROVE FlowsAt(body, cs, n + 1, i)
      OBVIOUS
    <3>1. i.at[2] = p /\ (i.op = "br" => i.to = {n+2, n+3})
      OBVIOUS
    <3>2. LiveAt(body, p) /\ i.op = "br" => \A t \in i.to : t \in 1 .. Len(cs) /\ Begins(body, cs[t])
      BY <1>1, <1>2, <1>5, <3>1
    <3> QED
      BY <1>4, <1>6, <3>1, <3>2 DEF FlowsAt
  <2>2. \A j \in 1 .. Len(more) : \A i \in Range(more[j].code) : FlowsAt(body, cs, Len(bs) + j, i)
    <3>1. \A j \in 1 .. 3 : j = 1 \/ j = 2 \/ j = 3
      OBVIOUS
    <3>2. Range(more[2].code) = {} /\ Range(more[3].code) = {}
      BY RangeOfNothing DEF IsNew
    <3> QED
      BY <2>1, <3>1, <3>2
  <2>3. \A i \in Range(code) : LiveAt(body, p) /\ i.op = "br" =>
          \A t \in i.to : t \in 1 .. Len(cs) /\ Begins(body, cs[t])
    BY <1>1, <1>2, <1>4
  <2> QED
    BY <2>2, <2>3, FlowOn
<1>9. Leads(body, cs, n + 2, p + 1)
  BY <1>2, <1>3, <1>5, <1>7 DEF Leads, IsNew, Terminated
<1> DEFINE fr == <<n+1, n+3>>
<1>10. FrameFlow(body, cs, fr, p, n + 2, p + 1)
  <2>1. Within(body, p, p + 1)
    BY OpensWithin
  <2>2. fr[1] = n + 1 /\ fr[2] = n + 3
    OBVIOUS
  <2> HIDE DEF fr
  <2>3. fr[1] \in 1 .. Len(cs) /\ fr[2] \in 1 .. Len(cs) /\ fr[1] < fr[2]
    BY <1>1, <1>2, <2>2
  <2>4. cs[fr[1]].at = p /\ cs[fr[2]].at = p /\ cs[fr[1]].name = "while.cond" /\ cs[fr[2]].name = "while.end"
    BY <1>2, <2>2 DEF IsNew
  <2>5. Idle(cs, fr[2], n + 2)
    BY <1>1, <1>2, <2>2 DEF IsNew, Idle
  <2>6. body[p].k # "if"
    OBVIOUS
  <2> QED
    BY <1>7, <2>1, <2>2, <2>3, <2>4, <2>5, <2>6 DEF FrameFlow
<1>11. Frames(body, cs, Append(fs, fr), n + 2, p + 1)
  <2>1. fr[1] > Len(bs)
    BY <1>1
  <2>2. n + 2 \in Nat /\ n + 2 > Len(bs)
    BY <1>1
  <2> HIDE DEF fr
  <2> QED
    BY <1>10, <2>1, <2>2, FramesPush
<1> QED
  BY <1>8, <1>9, <1>11 DEF Healthy

LEMMA JumpOn ==
  ASSUME NEW body, NEW bs, NEW fs, NEW b, NEW p, Setting(body, bs, fs, b, p),
         body[p].k \in {"break", "continue"},
         NEW to \in 1 .. Len(bs), LiveAt(body, p) => Begins(body, bs[to]),
         NEW code, \A i \in Range(code) : i.to = {to},
         NEW more, Len(more) = 1, NEW name \in {"after.break", "after.continue"}, IsNew(more[1], name, p),
         NEW cs, Writing(bs, b, p, code, more, cs)
  PROVE  Healthy(body, cs, fs, Len(bs) + 1, p + 1)
<1> DEFINE n == Len(bs)
<1>1. n \in Nat /\ n + 1 \in Nat /\ n + 1 > n
  BY SeqBasics DEF Setting, IsBlocks
<1>2. cs[n+1] = more[1]
  <2>1. 1 \in 1 .. 1
    OBVIOUS
  <2> QED
    BY <2>1 DEF Writing, Grows
<1>3. ~LiveAt(body, p + 1)
  BY LiveNext DEF Setting
<1>4. ~Begins(body, cs[n+1])
  BY <1>2 DEF Begins, IsNew
<1>5. Leads(body, cs, n + 1, p + 1)
  BY <1>3, <1>4 DEF Leads
<1>6. Flows(body, cs)
  <2>1. \A j \in 1 .. Len(more) : Range(more[j].code) = {}
    <3>1. \A j \in 1 .. 1 : j = 1
      OBVIOUS
    <3> QED
      BY <3>1, RangeOfNothing DEF IsNew
  <2>2. to \in 1 .. Len(cs) /\ (Begins(body, cs[to]) <=> Begins(body, bs[to]))
    BY GrowsCode DEF Setting, Writing
  <2>3. \A i \in Range(code) : LiveAt(body, p) /\ i.op = "br" =>
          \A t \in i.to : t \in 1 .. Len(cs) /\ Begins(body, cs[t])
    BY <2>2
  <2> QED
    BY <2>1, <2>3, FlowOn
<1>7. Frames(body, cs, fs, n + 1, p + 1)
  <2>1. Len(fs) \in Nat /\ BlockDepth(body, p + 1) = Len(fs) + 0
    BY NextDepth
  <2>2. Len(fs) <= Len(fs) /\ BlockDepth(body, p + 1) >= Len(fs)
    BY <2>1
  <2>3. \A m \in 1 .. Len(fs) : fs[m][1] \in 1 .. n /\ fs[m][2] \in 1 .. n
    BY DEF Setting, Healthy, Frames, FrameFlow
  <2>4. \A m \in 1 .. Len(fs) : n + 1 # fs[m][1] /\ n + 1 # fs[m][2]
    <3> HIDE DEF n
    <3> QED
      BY <1>1, <2>3
  <2> HIDE DEF n
  <2> QED
    BY <2>1, <2>2, <2>4, FramesStay
<1> QED
  BY <1>5, <1>6, <1>7 DEF Healthy

(* what is kept of the function being generated *)
Flowing == Broken(Blocks) \/ Healthy(Fn.body, Blocks, frames, ins, pc)

(* what a statement leaves of it *)
GoesOn ==
  \E bs : Writes(bs) /\ (Broken(bs) \/ Healthy(Fn.body, bs, frames', ins', pc + 1))

(* The setting of the lemmas above, if the result is not broken.           *)
LEMMA InSetting ==
  ASSUME GInv, IRBlocks, Flowing, status = "gen", pc <= Len(Fn.body),
         NEW code, Fresh(code), NEW more, IsBlocks(more),
         NEW bs, Grows(Blocks, ins, code, more, bs), ~Broken(bs)
  PROVE  /\ Setting(Fn.body, Blocks, frames, ins, pc)
         /\ Writing(Blocks, ins, pc, code, more, bs)
<1>1. /\ cur <= Len(prog) /\ ins \in 1 .. Len(Blocks) /\ IsBlocks(Blocks) /\ IsSeq(frames)
      /\ Len(frames) = BlockDepth(Fn.body, pc) /\ pc \in Nat \ {0}
  BY AtStatement, AtBlocks DEF Held
<1>2. cur \in 1 .. Len(prog)
  BY <1>1, TargetExists
<1>3. IsSeq(Fn.body) /\ Len(Fn.body) \in Nat /\ WellNested(Fn.body)
  BY <1>2, CurrentBody DEF GInv
<1>4. pc \in 1 .. Len(Fn.body)
  BY <1>1, <1>3
<1>5. IsSeq(code)
  BY DEF Fresh
<1>6. ~Broken(Blocks)
  BY <1>1, <1>5, StillBroken
<1>7. Setting(Fn.body, Blocks, frames, ins, pc)
  BY <1>1, <1>3, <1>4, <1>6 DEF Setting, Flowing
<1>8. \A i \in Range(code) : i.at[2] = pc
  BY DEF Fresh, FreshSet, Here
<1> QED
  BY <1>5, <1>7, <1>8 DEF Writing

LEMMA PutOnly ==
  ASSUME NEW bs, IsBlocks(bs), NEW b \in 1 .. Len(bs), NEW code, IsSeq(code)
  PROVE  Grows(bs, b, code, << >>, Put(bs, b, code))
<1> DEFINE put == Put(bs, b, code)
<1>1. IsBlocks(<< >>)
  <2>1. \A j : j \notin 1 .. Len(<< >>)
    BY EmptyStack
  <2> QED
    BY <2>1, EmptyStack DEF IsBlocks
<1>2. Grows(bs, b, code, << >>, put \o << >>)
  BY <1>1, PutGrows
<1>3. IsSeq(put)
  BY GrownPut DEF Grown, IsBlocks
<1> HIDE DEF put
<1>4. put \o << >> = put
  BY <1>3, ConcatEmpty
<1> QED
  BY <1>2, <1>4 DEF put

LEMMA NoBlocks == IsBlocks(<< >>)
<1>1. \A j : j \notin 1 .. Len(<< >>)
  BY EmptyStack
<1> QED
  BY <1>1, EmptyStack DEF IsBlocks

(* The same of the actions.                                                *)
LEMMA PlainFlow ==
  ASSUME GInv, IRBlocks, Flowing, GenLet \/ GenExpr, status' # "fatal"
  PROVE  GoesOn
<1>1. /\ status = "gen" /\ pc <= Len(Fn.body) /\ Node.k \in {"let", "expr"} /\ \A why : ~Fatal(why)
      /\ ins' = ins /\ frames' = frames
  BY DEF GenLet, GenExpr, At, Fatal
<1>2. PICK code : SetBlocks(Put(Blocks, ins, code)) /\ Plain(code)
  <2>1. CASE GenLet
    <3>1. Node.e \in Exprs
      BY <1>1, <2>1, NodeExpr DEF GenLet, At, HasExpr
    <3> DEFINE ty == LetType(Node)
               init == IF Node.e.k = "arraylit" THEN InitArray(Node, Here, ty)
                       ELSE InitScalar(Node, Here, ty)
    <3>2. Plain(init.code)
      BY <3>1, PlainArray, PlainScalar
    <3>3. SetBlocks(Put(Blocks, ins, init.code))
      BY <1>1, <2>1 DEF GenLet
    <3> QED
      BY <3>2, <3>3
  <2>2. CASE GenExpr
    <3>1. Node.e \in Exprs
      BY <1>1, <2>2, NodeExpr DEF GenExpr, At, HasExpr
    <3>2. Plain(Lower(Node.e).code)
      BY <3>1, GoodLower DEF Good, Plain
    <3>3. SetBlocks(Put(Blocks, ins, Lower(Node.e).code))
      BY <1>1, <2>2 DEF GenExpr
    <3> QED
      BY <3>2, <3>3
  <2> QED
    BY <2>1, <2>2
<1> DEFINE bs == Put(Blocks, ins, code)
<1>3. Writes(bs)
  BY <1>1, <1>2, AtBlocks DEF SetBlocks
<1>4. Grows(Blocks, ins, code, << >>, bs)
  BY <1>1, <1>2, AtBlocks, PutOnly DEF Plain, Mine
<1> HIDE DEF bs
<1>5. ASSUME ~Broken(bs) PROVE Healthy(Fn.body, bs, frames, ins, pc + 1)
  <2>1. Setting(Fn.body, Blocks, frames, ins, pc) /\ Writing(Blocks, ins, pc, code, << >>, bs)
    BY <1>1, <1>2, <1>4, <1>5, NoBlocks, PlainIsFresh, InSetting
  <2>2. Fn.body[pc].k \in {"let", "expr", "defer"} /\ \A i \in Range(code) : ~Terminator(i)
    BY <1>1, <1>2 DEF Node, Plain, Mine
  <2> QED
    BY <2>1, <2>2, PlainOn
<1> QED
  BY <1>1, <1>3, <1>5 DEF GoesOn

LEMMA DeferFlow ==
  ASSUME GInv, IRBlocks, Flowing, GenDefer
  PROVE  GoesOn
<1>1. /\ status = "gen" /\ pc <= Len(Fn.body) /\ Node.k = "defer"
      /\ ir' = ir /\ ins' = ins /\ frames' = frames
  BY DEF GenDefer, At
<1>2. Writes(Blocks)
  BY <1>1 DEF Writes, Blocks
<1>3. Grows(Blocks, ins, << >>, << >>, Blocks)
  BY <1>1, AtBlocks, NoGrowth
<1>4. Fresh(<< >>) /\ \A i \in Range(<< >>) : ~Terminator(i)
  BY RangeOfNothing DEF Fresh, FreshSet
<1>5. ASSUME ~Broken(Blocks) PROVE Healthy(Fn.body, Blocks, frames, ins, pc + 1)
  <2>1. Setting(Fn.body, Blocks, frames, ins, pc) /\ Writing(Blocks, ins, pc, << >>, << >>, Blocks)
    BY <1>1, <1>3, <1>4, <1>5, NoBlocks, InSetting
  <2>2. Fn.body[pc].k \in {"let", "expr", "defer"}
    BY <1>1 DEF Node
  <2> QED
    BY <1>4, <2>1, <2>2, PlainOn
<1> QED
  BY <1>1, <1>2, <1>5 DEF GoesOn

LEMMA ReturnFlow ==
  ASSUME GInv, IRBlocks, Flowing, GenReturn, status' # "fatal"
  PROVE  GoesOn
<1>1. /\ status = "gen" /\ pc <= Len(Fn.body) /\ Node.k = "return" /\ \A why : ~Fatal(why)
      /\ ins' = ins /\ frames' = frames
  BY DEF GenReturn, At, Fatal
<1> DEFINE v == IF Node.e = NoExpr THEN Value(Void, << >>) ELSE Lower(Node.e)
           ret == Instr("ret", v.base, v.ty = tyLLVM(prog[Target].ret), Here)
           code == v.code \o <<ret>>
           bs == Put(Blocks, ins, code)
<1>2. Good(v, Slots, Here)
  <2>1. Good(Value(Void, << >>), Slots, Here)
    BY RangeOfNothing, GoodValue DEF Mine
  <2>2. Node.e # NoExpr => Node.e \in Exprs
    BY <1>1, NodeExpr DEF HasExpr
  <2> QED
    BY <2>1, <2>2, GoodLower
<1>3. ret.at = Here /\ ret.slots \subseteq Slots /\ ret.op = "ret"
  BY <1>2 DEF Instr, Good
<1>4. SetBlocks(bs)
  BY <1>1 DEF GenReturn
<1> HIDE DEF v, ret
<1>5. Fresh(code)
  BY <1>2, <1>3, FreshOne, FreshJoined, PlainIsFresh DEF Good, Plain
<1>6. \A i \in Range(code) : i.op # "br"
  <2>1. IsSeq(v.code) /\ \A i \in Range(v.code) : ~Terminator(i)
    BY <1>2 DEF Good, Mine
  <2>2. Range(code) = Range(v.code) \cup {ret}
    BY <2>1, RangeOfOne, RangeOfConcatenation
  <2> QED
    BY <1>3, <2>1, <2>2 DEF Terminator
<1>7. code # << >> /\ Terminator(Last(code))
  <2>1. IsSeq(v.code)
    BY <1>2 DEF Good, Mine
  <2>2. IsSeq(<<ret>>) /\ Len(<<ret>>) = 1 /\ <<ret>>[1] = ret
    BY OneEntryStack
  <2>3. <<ret>> # << >> /\ Last(<<ret>>) = ret
    BY <2>2, EmptyStack DEF Last
  <2> QED
    BY <1>3, <2>1, <2>2, <2>3, EndsIn DEF Terminator
<1> HIDE DEF code
<1>8. Writes(bs)
  BY <1>1, <1>4, AtBlocks DEF SetBlocks
<1>9. Grows(Blocks, ins, code, << >>, bs)
  BY <1>1, <1>5, AtBlocks, PutOnly DEF Fresh
<1> HIDE DEF bs
<1>10. ASSUME ~Broken(bs) PROVE Healthy(Fn.body, bs, frames, ins, pc + 1)
  <2>1. Setting(Fn.body, Blocks, frames, ins, pc) /\ Writing(Blocks, ins, pc, code, << >>, bs)
    BY <1>1, <1>5, <1>9, <1>10, NoBlocks, InSetting
  <2>2. Fn.body[pc].k = "return"
    BY <1>1 DEF Node
  <2> QED
    BY <1>6, <1>7, <2>1, <2>2, ReturnOn
<1> QED
  BY <1>1, <1>8, <1>10 DEF GoesOn

(* What Close adds, and where it leaves the rest.                          *)
LEMMA CloseGrows ==
  ASSUME NEW bs, IsBlocks(bs), NEW b \in 1 .. Len(bs), NEW to
  PROVE  \E code : /\ Fresh(code) /\ Grows(bs, b, code, << >>, Close(bs, b, to))
                   /\ Closing(bs, b, pc, to, code)
<1>1. CASE Terminated(bs[b])
  <2>1. Close(bs, b, to) = bs /\ Closing(bs, b, pc, to, << >>)
    BY <1>1 DEF Close, Closing
  <2>2. Fresh(<< >>)
    BY RangeOfNothing DEF Fresh, FreshSet
  <2> QED
    BY <2>1, <2>2, NoGrowth
<1>2. CASE ~Terminated(bs[b])
  <2> DEFINE br == Br({to}, {}, Here)
             code == <<br>>
  <2>1. Close(bs, b, to) = Put(bs, b, code)
    BY <1>2 DEF Close
  <2>2. Fresh(code)
    BY FreshBranch
  <2>3. br.op = "br" /\ br.to = {to} /\ br.at[2] = pc
    BY DEF Br, Here
  <2> HIDE DEF br
  <2>4. IsSeq(code) /\ Range(code) = {br}
    BY RangeOfOne
  <2>5. Closing(bs, b, pc, to, code)
    BY <1>2, <2>3, <2>4 DEF Closing
  <2> HIDE DEF code
  <2>6. Grows(bs, b, code, << >>, Put(bs, b, code))
    BY <2>4, PutOnly
  <2> QED
    BY <2>1, <2>2, <2>5, <2>6
<1> QED
  BY <1>1, <1>2

LEMMA CloseFlow ==
  ASSUME GInv, IRBlocks, Flowing, GenElse \/ GenEndIf \/ GenEndWhile
  PROVE  GoesOn
<1>1. status = "gen" /\ pc <= Len(Fn.body) /\ Node.k \in {"else", "endif", "endwhile"}
  BY DEF GenElse, GenEndIf, GenEndWhile, At
<1> DEFINE to == IF Node.k = "endwhile" THEN Last(frames)[1] ELSE Last(frames)[2]
           bs == Close(Blocks, ins, to)
<1>2. /\ SetBlocks(bs)
      /\ Node.k = "else" => ins' = Last(frames)[1] /\ frames' = frames
      /\ Node.k \in {"endif", "endwhile"} => ins' = Last(frames)[2] /\ frames' = Front(frames)
  BY DEF GenElse, GenEndIf, GenEndWhile, At
<1>3. Writes(bs)
  BY <1>1, <1>2, AtBlocks DEF SetBlocks
<1> HIDE DEF to
<1>4. PICK code : Fresh(code) /\ Grows(Blocks, ins, code, << >>, bs) /\ Closing(Blocks, ins, pc, to, code)
  BY <1>1, AtBlocks, CloseGrows
<1> HIDE DEF bs
<1>5. ASSUME ~Broken(bs) PROVE Healthy(Fn.body, bs, frames', ins', pc + 1)
  <2>1. Setting(Fn.body, Blocks, frames, ins, pc) /\ Writing(Blocks, ins, pc, code, << >>, bs)
    BY <1>1, <1>4, <1>5, NoBlocks, InSetting
  <2>2. CASE Node.k = "else"
    <3>1. Fn.body[pc].k = "else" /\ to = Last(frames)[2]
      BY <2>2 DEF Node, to
    <3>2. Healthy(Fn.body, bs, frames, Last(frames)[1], pc + 1)
      BY <1>4, <2>1, <3>1, ElseOn
    <3> QED
      BY <1>2, <2>2, <3>2
  <2>3. CASE Node.k = "endif"
    <3>1. Fn.body[pc].k = "endif" /\ to = Last(frames)[2]
      BY <2>3 DEF Node, to
    <3>2. Healthy(Fn.body, bs, Front(frames), Last(frames)[2], pc + 1)
      BY <1>4, <2>1, <3>1, EndIfOn
    <3> QED
      BY <1>2, <2>3, <3>2
  <2>4. CASE Node.k = "endwhile"
    <3>1. Fn.body[pc].k = "endwhile" /\ to = Last(frames)[1]
      BY <2>4 DEF Node, to
    <3>2. Healthy(Fn.body, bs, Front(frames), Last(frames)[2], pc + 1)
      BY <1>4, <2>1, <3>1, EndWhileOn
    <3> QED
      BY <1>2, <2>4, <3>2
  <2> QED
    BY <1>1, <2>2, <2>3, <2>4
<1> QED
  BY <1>3, <1>5 DEF GoesOn

(* A test has one branch, and nothing else that ends a block.              *)
LEMMA TestBranch ==
  ASSUME NEW v, Good(v, Slots, Here), NEW to
  PROVE  /\ Fresh(Test(v, to))
         /\ \A i \in Range(Test(v, to)) : i.op = "br" => i.to = to
         /\ \E i \in Range(Test(v, to)) : i.op = "br"
<1> DEFINE c == Op("!=", <<v>>, I1, v.ty \in Integer, Here).code
           br == Br(to, {}, Here)
<1>1. IsSeq(c) /\ \A i \in Range(c) : ~Terminator(i)
  BY GoodOne DEF Good, Mine
<1>2. br.op = "br" /\ br.to = to
  BY DEF Br
<1>3. Test(v, to) = c \o <<br>>
  BY DEF Test
<1> HIDE DEF br, c
<1>4. Range(c \o <<br>>) = Range(c) \cup {br}
  BY <1>1, RangeOfOne, RangeOfConcatenation
<1>5. Fresh(Test(v, to))
  BY FreshTest
<1> QED
  BY <1>1, <1>2, <1>3, <1>4, <1>5 DEF Terminator

LEMMA NewBlocks ==
  ASSUME NEW x, IsBlock(x), NEW y, IsBlock(y), NEW z, IsBlock(z), NEW more, more = <<x, y, z>>
  PROVE  /\ IsBlocks(more) /\ Len(more) = 3
         /\ more[1] = x /\ more[2] = y /\ more[3] = z
<1>1. IsSeq(more) /\ Len(more) = 3 /\ more[1] = x /\ more[2] = y /\ more[3] = z
  BY ThreeEntries
<1>2. \A i \in 1 .. 3 : i = 1 \/ i = 2 \/ i = 3
  OBVIOUS
<1> QED
  BY <1>1, <1>2 DEF IsBlocks

LEMMA IsNewBlock ==
  ASSUME NEW name, NEW p
  PROVE  IsBlock(Block(name, p)) /\ IsNew(Block(name, p), name, p)
  BY NewBlock DEF Block, IsNew

LEMMA IfFlow ==
  ASSUME GInv, IRBlocks, Flowing, GenIf, status' # "fatal"
  PROVE  GoesOn
<1> DEFINE v == Lower(Node.e)
           n == Len(Blocks)
           to == {n+1, n+2}
           code == Test(v, to)
           x == Block("then", pc)   y == Block("else", pc)   z == Block("ifend", pc)
           more == <<x, y, z>>
           bs == Put(Blocks, ins, code) \o more
<1>1. status = "gen" /\ pc <= Len(Fn.body) /\ Node.k = "if" /\ \A why : ~Fatal(why)
  BY DEF GenIf, At, Fatal
<1>2. SetBlocks(bs) /\ ins' = n + 1 /\ frames' = Append(frames, <<n+2, n+3>>)
  BY <1>1 DEF GenIf
<1>3. /\ Fresh(code) /\ \A i \in Range(code) : i.op = "br" => i.to = to
      /\ \E i \in Range(code) : i.op = "br"
  <2>1. Node.e \in Exprs
    BY <1>1, NodeExpr DEF HasExpr
  <2>2. Good(v, Slots, Here)
    BY <2>1, GoodLower
  <2> HIDE DEF v, n, to
  <2> QED
    BY <2>2, TestBranch
<1>4. /\ IsBlock(x) /\ IsBlock(y) /\ IsBlock(z)
      /\ IsNew(x, "then", pc) /\ IsNew(y, "else", pc) /\ IsNew(z, "ifend", pc)
  BY IsNewBlock
<1>5. Writes(bs)
  BY <1>1, <1>2, AtBlocks DEF SetBlocks
<1>6. IsBlocks(Blocks) /\ ins \in 1 .. Len(Blocks)
  BY <1>1, AtBlocks
<1> HIDE DEF code, x, y, z
<1>7. IsBlocks(more) /\ Len(more) = 3 /\ more[1] = x /\ more[2] = y /\ more[3] = z
  BY <1>4, NewBlocks
<1> HIDE DEF more
<1>8. Grows(Blocks, ins, code, more, bs)
  BY <1>3, <1>6, <1>7, PutGrows DEF Fresh
<1> HIDE DEF bs
<1>9. ASSUME ~Broken(bs) PROVE Healthy(Fn.body, bs, frames', ins', pc + 1)
  <2>1. Setting(Fn.body, Blocks, frames, ins, pc) /\ Writing(Blocks, ins, pc, code, more, bs)
    BY <1>1, <1>3, <1>7, <1>8, <1>9, InSetting
  <2>2. Fn.body[pc].k = "if"
    BY <1>1 DEF Node
  <2>3. IsNew(more[1], "then", pc) /\ IsNew(more[2], "else", pc) /\ IsNew(more[3], "ifend", pc)
    BY <1>4, <1>7
  <2>4. n = Len(Blocks) /\ \A i \in Range(code) : i.op = "br" => i.to = {n+1, n+2}
    BY <1>3
  <2> HIDE DEF n, to
  <2>5. Healthy(Fn.body, bs, Append(frames, <<n+2, n+3>>), n + 1, pc + 1)
    BY <1>3, <1>7, <2>1, <2>2, <2>3, <2>4, IfOn
  <2> QED
    BY <1>2, <2>5
<1> QED
  BY <1>5, <1>9 DEF GoesOn

LEMMA WhileFlow ==
  ASSUME GInv, IRBlocks, Flowing, GenWhile, status' # "fatal"
  PROVE  GoesOn
<1> DEFINE v == Lower(Node.e)
           n == Len(Blocks)
           to == {n+2, n+3}
           test == Test(v, to)
           br == Br({n+1}, {}, Here)
           code == <<br>>
           x == [Block("while.cond", pc) EXCEPT !.code = test]
           y == Block("while.body", pc)   z == Block("while.end", pc)
           more == <<x, y, z>>
           bs == Put(Blocks, ins, code) \o more
<1>1. status = "gen" /\ pc <= Len(Fn.body) /\ Node.k = "while" /\ \A why : ~Fatal(why)
  BY DEF GenWhile, At, Fatal
<1>2. SetBlocks(bs) /\ ins' = n + 2 /\ frames' = Append(frames, <<n+1, n+3>>)
  BY <1>1 DEF GenWhile
<1>3. /\ Fresh(test) /\ \A i \in Range(test) : i.op = "br" => i.to = to
      /\ \E i \in Range(test) : i.op = "br"
  <2>1. Node.e \in Exprs
    BY <1>1, NodeExpr DEF HasExpr
  <2>2. Good(v, Slots, Here)
    BY <2>1, GoodLower
  <2> HIDE DEF v, n, to
  <2> QED
    BY <2>2, TestBranch
<1>4. Fresh(code) /\ Range(code) = {br} /\ br.op = "br" /\ br.to = {n+1}
  <2>1. br.op = "br" /\ br.to = {n+1}
    BY DEF Br
  <2>2. Fresh(code)
    BY FreshBranch
  <2> HIDE DEF br, n
  <2> QED
    BY <2>1, <2>2, RangeOfOne
<1>5. /\ IsBlock(y) /\ IsBlock(z)
      /\ IsNew(y, "while.body", pc) /\ IsNew(z, "while.end", pc)
  BY IsNewBlock
<1> HIDE DEF test
<1>6. IsBlock(x) /\ x.code = test /\ x.name = "while.cond" /\ x.at = pc
  BY <1>3 DEF Block, IsBlock, Fresh
<1>7. Writes(bs)
  BY <1>1, <1>2, AtBlocks DEF SetBlocks
<1>8. IsBlocks(Blocks) /\ ins \in 1 .. Len(Blocks)
  BY <1>1, AtBlocks
<1> HIDE DEF br, code, x, y, z
<1>9. IsBlocks(more) /\ Len(more) = 3 /\ more[1] = x /\ more[2] = y /\ more[3] = z
  BY <1>5, <1>6, NewBlocks
<1> HIDE DEF more
<1>10. Grows(Blocks, ins, code, more, bs)
  BY <1>4, <1>8, <1>9, PutGrows DEF Fresh
<1> HIDE DEF bs
<1>11. ASSUME ~Broken(bs) PROVE Healthy(Fn.body, bs, frames', ins', pc + 1)
  <2>1. Setting(Fn.body, Blocks, frames, ins, pc) /\ Writing(Blocks, ins, pc, code, more, bs)
    BY <1>1, <1>4, <1>9, <1>10, <1>11, InSetting
  <2>2. Fn.body[pc].k = "while"
    BY <1>1 DEF Node
  <2>3. /\ IsNew(more[2], "while.body", pc) /\ IsNew(more[3], "while.end", pc)
        /\ more[1].name = "while.cond" /\ more[1].at = pc
    BY <1>5, <1>6, <1>9
  <2>4. n = Len(Blocks) /\ to = {n+2, n+3}
    OBVIOUS
  <2>5. \A i \in Range(test) : i.at[2] = pc
    BY <1>3 DEF Fresh, FreshSet, Here
  <2> HIDE DEF n, to
  <2>6. (\A i \in Range(code) : i.to = {n+1}) /\ \E i \in Range(code) : i.op = "br"
    BY <1>4
  <2>7. /\ \A i \in Range(more[1].code) : i.at[2] = pc /\ (i.op = "br" => i.to = {n+2, n+3})
        /\ \E i \in Range(more[1].code) : i.op = "br"
    BY <1>3, <1>6, <1>9, <2>4, <2>5
  <2>8. Healthy(Fn.body, bs, Append(frames, <<n+1, n+3>>), n + 2, pc + 1)
    BY <1>9, <2>1, <2>2, <2>3, <2>4, <2>6, <2>7, WhileOn
  <2> QED
    BY <1>2, <2>8
<1> QED
  BY <1>7, <1>11 DEF GoesOn

(* Where control reaches a jump it has reached the loop's condition, and   *)
(* gets to what follows the loop.                                          *)
LEMMA TargetsBegin ==
  ASSUME GInv, CInv, status = "gen", pc <= Len(Fn.body), loopExitStack # << >>,
         NEW to \in {Last(loopExitStack), Last(loopContinueStack)}
  PROVE  to \in 1 .. Len(Blocks) /\ (LiveAt(Fn.body, pc) => Begins(Fn.body, Blocks[to]))
<1> DEFINE w == InnermostLoop(Fn.body, pc)
<1>1. Targets(Blocks, w, Last(loopExitStack), Last(loopContinueStack))
  BY TopOfLoops
<1>2. cur <= Len(prog) /\ pc \in Nat \ {0} /\ IsSeq(loopExitStack)
      /\ Len(loopExitStack) = LoopDepth(Fn.body, pc)
  BY AtStatement DEF GInv, TypeOK
<1>3. cur \in 1 .. Len(prog)
  BY <1>2, TargetExists
<1>4. IsSeq(Fn.body) /\ Len(Fn.body) \in Nat /\ WellNested(Fn.body)
  BY <1>3, CurrentBody DEF GInv
<1>5. pc \in 1 .. Len(Fn.body) + 1
  BY <1>2, <1>4
<1>6. LoopsNest(Fn.body, pc)
  BY <1>4, <1>5, LoopsNested
<1>7. LoopDepth(Fn.body, pc) > 0
  <2>1. Len(loopExitStack) \in Nat /\ Len(loopExitStack) # 0
    BY <1>2, SeqBasics
  <2> DEFINE l == Len(loopExitStack)
  <2> HIDE DEF l
  <2>2. l > 0
    BY <2>1 DEF l
  <2> QED
    BY <1>2, <2>2 DEF l
<1>8. w \in OpenLoops(Fn.body, pc)
  BY <1>2, <1>6, <1>7, Innermost
<1> HIDE DEF w
<1>9. Within(Fn.body, w, pc)
  <2>1. \A q \in w+1 .. pc : BlockDepth(Fn.body, q) > BlockDepth(Fn.body, w)
    BY <1>6, <1>8 DEF LoopsNest
  <2>2. w \in 1 .. pc-1 /\ Fn.body[w].k = "while"
    BY <1>8 DEF OpenLoops
  <2> QED
    BY <2>1, <2>2 DEF Within
<1>10. LiveAt(Fn.body, pc) => LiveAt(Fn.body, w)
  BY <1>4, <1>5, <1>9, LiveWithin
<1> QED
  BY <1>1, <1>10 DEF Targets, Begins

LEMMA JumpFlow ==
  ASSUME GInv, CInv, Flowing, GenBreak \/ GenContinue, status' # "fatal"
  PROVE  GoesOn
<1>0. IRBlocks
  BY DEF CInv
<1>1. status = "gen" /\ pc <= Len(Fn.body) /\ Node.k \in {"break", "continue"} /\ \A why : ~Fatal(why)
  BY DEF GenBreak, GenContinue, At, Fatal
<1>2. PICK to, name :
        /\ Jump(to, name) /\ name \in {"after.break", "after.continue"}
        /\ \/ loopExitStack # << >> /\ to = Last(loopExitStack)
           \/ loopContinueStack # << >> /\ to = Last(loopContinueStack)
  BY <1>1 DEF GenBreak, GenContinue, At
<1>3. loopExitStack # << >>
  <2>1. /\ Len(loopExitStack) = Len(loopContinueStack)
        /\ IsSeq(loopExitStack) /\ IsSeq(loopContinueStack)
    BY DEF GInv, TypeOK
  <2> QED
    BY <1>2, <2>1, SeqBasics
<1>4. to \in 1 .. Len(Blocks) /\ (LiveAt(Fn.body, pc) => Begins(Fn.body, Blocks[to]))
  BY <1>1, <1>2, <1>3, TargetsBegin
<1> DEFINE br == Br({to}, {}, Here)
           code == <<br>>
           put == Put(Blocks, ins, code)
           x == Block(name, pc)
           more == <<x>>
           bs == Append(put, x)
<1>5. ir' = [ir EXCEPT ![Target] = bs] /\ ins' = Len(Blocks) + 1 /\ frames' = frames
  BY <1>2 DEF Jump, SetBlocks
<1>6. Fresh(code) /\ Range(code) = {br} /\ br.to = {to}
  <2>1. br.to = {to}
    BY DEF Br
  <2>2. Fresh(code)
    BY FreshBranch
  <2> HIDE DEF br
  <2> QED
    BY <2>1, <2>2, RangeOfOne
<1> HIDE DEF code
<1>7. IsBlock(x) /\ IsNew(x, name, pc)
  BY IsNewBlock
<1> HIDE DEF x
<1>8. IsBlocks(more) /\ Len(more) = 1 /\ more[1] = x
  <2>1. IsSeq(more) /\ Len(more) = 1 /\ more[1] = x
    BY OneEntryStack
  <2>2. \A b : b \in 1 .. 1 <=> b = 1
    OBVIOUS
  <2> QED
    BY <1>7, <2>1, <2>2 DEF IsBlocks
<1>9. Writes(bs)
  BY <1>0, <1>1, <1>5, AtBlocks
<1>10. IsBlocks(Blocks) /\ ins \in 1 .. Len(Blocks)
  BY <1>0, <1>1, AtBlocks
<1>11. bs = put \o more
  <2>1. IsSeq(put)
    BY <1>6, <1>10, GrownPut DEF Fresh, Grown, IsBlocks
  <2> HIDE DEF put
  <2>2. put \in Seq(Range(put) \cup {x}) /\ x \in Range(put) \cup {x}
    BY <2>1, SeqMonotonic DEF IsSeq
  <2> QED
    BY <2>2, AppendIsConcat
<1> HIDE DEF bs, more
<1>12. Grows(Blocks, ins, code, more, bs)
  BY <1>6, <1>8, <1>10, <1>11, PutGrows DEF Fresh
<1>13. ASSUME ~Broken(bs) PROVE Healthy(Fn.body, bs, frames, Len(Blocks) + 1, pc + 1)
  <2>1. Setting(Fn.body, Blocks, frames, ins, pc) /\ Writing(Blocks, ins, pc, code, more, bs)
    BY <1>0, <1>1, <1>6, <1>8, <1>12, <1>13, InSetting
  <2>2. Fn.body[pc].k \in {"break", "continue"} /\ IsNew(more[1], name, pc)
    BY <1>1, <1>7, <1>8 DEF Node
  <2>3. \A i \in Range(code) : i.to = {to}
    BY <1>6
  <2> HIDE DEF br
  <2> QED
    BY <1>2, <1>4, <1>8, <2>1, <2>2, <2>3, JumpOn
<1> QED
  BY <1>5, <1>9, <1>13 DEF GoesOn

(* Every statement keeps it, or leaves a block the verifier will refuse.   *)
LEMMA StatementFlow ==
  ASSUME GInv, CInv, Flowing, GenStmt, status' # "fatal"
  PROVE  GoesOn
<1>1. IRBlocks
  BY DEF CInv
<1> QED
  BY <1>1, PlainFlow, ReturnFlow, DeferFlow, CloseFlow, IfFlow, WhileFlow, JumpFlow DEF GenStmt

-----------------------------------------------------------------------------
(* functions that the generator has not come to, and those it is done with *)
Unstarted(c) == (status = "begin" /\ c >= cur) \/ (status = "gen" /\ c > cur)
Finished(c) == status = "emitted" \/ (status \in {"begin", "gen"} /\ c < cur)

(* The invariant, if no two functions have one name: functions not reached *)
(* yet have no blocks, and in those done and in the one being generated    *)
(* live code, and no other, is reached.                                    *)
FInv ==
  /\ \A f \in DOMAIN functions : prog[functions[f]].name = f
  /\ NamesDistinct =>
       /\ \A c \in DOMAIN prog : /\ Unstarted(c) => ir[c] = << >>
                                 /\ Finished(c) => Flows(prog[c].body, ir[c])
       /\ status = "gen" => Flowing

(* A function is generated into its own blocks.                            *)
LEMMA TargetIsCur ==
  ASSUME GInv, FInv, NamesDistinct, status \in {"begin", "gen"}, cur <= Len(prog)
  PROVE  Target = cur /\ cur \in DOMAIN prog /\ cur \in DOMAIN ir
<1>1. cur \in 1 .. Len(prog) /\ Target \in DOMAIN prog /\ IsSeq(prog)
  BY TargetExists, ProgramsAssumption DEF GInv, Parsed
<1>2. cur \in DOMAIN prog
  BY <1>1, SeqBasics
<1>3. Fn.name \in DOMAIN functions
  BY <1>2 DEF GInv, Declared, Fn
<1>4. prog[Target].name = prog[cur].name
  BY <1>3 DEF FInv, Target, Fn
<1> QED
  BY <1>1, <1>2, <1>4 DEF NamesDistinct, GInv, IsIR

(* At its start a function has its entry block only.                       *)
LEMMA BeginFlow ==
  ASSUME GInv, IRBlocks, FInv, NamesDistinct, BeginFunction
  PROVE  \E bs : Writes(bs) /\ Healthy(Fn.body, bs, frames', ins', pc')
<1>1. /\ status = "begin" /\ cur <= Len(prog) /\ ins' = Len(Blocks) + 1 /\ pc' = 1 /\ frames' = frames
  BY DEF BeginFunction
<1>2. Target = cur /\ cur \in DOMAIN prog
  BY <1>1, TargetIsCur
<1>3. Blocks = << >> /\ frames = << >>
  <2>1. Unstarted(cur)
    BY <1>1 DEF Unstarted, GInv, TypeOK
  <2> QED
    BY <1>1, <1>2, <2>1 DEF FInv, Blocks, GInv, StacksMirrorNesting
<1>4. PICK entry :
        /\ Writes(Append(Blocks, entry)) /\ IsBlock(entry) /\ entry.name = "entry"
        /\ \A i \in Range(entry.code) : i.at = <<cur, 0>> /\ ~Terminator(i)
  BY EntryBlock
<1> DEFINE bs == Append(Blocks, entry)
           body == Fn.body
<1>5. IsSeq(body) /\ WellNested(body)
  BY <1>1, CurrentBody, TargetExists DEF GInv
<1>6. LiveAt(body, 0) /\ LiveAt(body, 1)
  BY <1>5, LiveAtStart
<1>7. Len(bs) = 1 /\ bs[1] = entry
  <2>1. IsSeq(<< >>) /\ Len(<< >>) = 0
    BY EmptyStack
  <2> QED
    BY <1>3, <2>1, StackPush
<1> HIDE DEF bs, body
<1>8. Entered(bs, 1)
  BY DEF Entered, Closed
<1>9. \A b : b \in 1 .. 1 <=> b = 1
  OBVIOUS
<1>10. Flows(body, bs)
  <2>1. \A i \in Range(bs[1].code) : i.at[2] = 0 /\ i.op # "br"
    BY <1>4, <1>7 DEF Terminator
  <2>2. \A i \in Range(bs[1].code) : FlowsAt(body, bs, 1, i)
    BY <1>6, <1>8, <2>1 DEF FlowsAt
  <2> QED
    BY <1>4, <1>7, <1>9, <2>2 DEF Flows
<1>11. Leads(body, bs, 1, 1)
  <2>1. ~Terminated(bs[1])
    BY <1>4, <1>7, LastIsIn DEF Terminated, IsBlock
  <2> QED
    BY <1>6, <1>8, <2>1 DEF Leads
<1>12. Frames(body, bs, << >>, 1, 1)
  <2>1. \A n : n \notin 1 .. Len(<< >>)
    BY EmptyStack
  <2> QED
    BY <2>1 DEF Frames
<1>13. ins' = 1
  BY <1>1, <1>3, EmptyStack
<1> QED
  BY <1>1, <1>3, <1>4, <1>10, <1>11, <1>12, <1>13 DEF Healthy, bs, body

(* The verifier lets no broken block pass.                                 *)
LEMMA VerifiedIsWhole ==
  ASSUME NEW bs, IsBlocks(bs), Verifies(bs)
  PROVE  ~Broken(bs)
<1> SUFFICES ASSUME NEW b \in 1 .. Len(bs), NEW j \in 1 .. Len(bs[b].code) - 1, Terminator(bs[b].code[j])
             PROVE  FALSE
  BY DEF Broken
<1> DEFINE l == Len(bs[b].code)
<1>1. b \in DOMAIN bs /\ l \in Nat /\ DOMAIN bs[b].code = 1 .. l
  BY SeqBasics DEF IsBlocks, IsBlock
<1>2. j \in 1 .. l - 1
  OBVIOUS
<1> HIDE DEF l
<1>3. j \in 1 .. l /\ j # l
  BY <1>1, <1>2
<1>4. Terminator(bs[b].code[j]) => j = l
  BY <1>1, <1>3 DEF Verifies, l
<1> QED
  BY <1>3, <1>4

(* At its end it has been verified, so no block is broken.                 *)
LEMMA EndFlow ==
  ASSUME GInv, IRBlocks, Flowing, EndFunction, status' # "fatal"
  PROVE  \E bs : Writes(bs) /\ Flows(Fn.body, bs)
<1> DEFINE ty == IF Fn.ret \in {I64, Bool} THEN tyLLVM(Fn.ret) ELSE Void
           ret == Instr("ret", {}, ty = tyLLVM(prog[Target].ret), Here)
           code == <<ret>>
           put == Put(Blocks, ins, code)
           bs == IF Terminated(Blocks[ins]) THEN Blocks ELSE put
<1>1. status = "gen" /\ pc > Len(Fn.body) /\ ir' = [ir EXCEPT ![Target] = bs] /\ Verifies(bs)
  BY DEF EndFunction, Fatal
<1>2. ins \in DOMAIN Blocks /\ Target \in DOMAIN ir
  BY <1>1, TargetExists DEF GInv, TypeOK
<1>3. IsBlocks(Blocks) /\ ins \in 1 .. Len(Blocks)
  BY <1>2, AllCode DEF IRBlocks, Blocks
<1>4. Writes(bs)
  BY <1>1, <1>2 DEF Writes
<1>5. ret.at[2] = pc /\ ret.op = "ret"
  BY DEF Instr, Here
<1> HIDE DEF ret
<1>6. IsSeq(code) /\ Range(code) = {ret}
  BY RangeOfOne
<1> HIDE DEF code
<1>7. Grows(Blocks, ins, code, << >>, put)
  BY <1>3, <1>6, PutOnly
<1>8. IsBlocks(put)
  BY <1>7 DEF Grows
<1> HIDE DEF put
<1>9. ~Broken(bs)
  BY <1>1, <1>3, <1>8, VerifiedIsWhole
<1>10. ~Broken(Blocks)
  BY <1>3, <1>6, <1>7, <1>9, NoBlocks, StillBroken
<1>11. Flows(Fn.body, Blocks) /\ Leads(Fn.body, Blocks, ins, pc)
  BY <1>10 DEF Flowing, Healthy
<1>12. ASSUME ~Terminated(Blocks[ins]) PROVE Flows(Fn.body, put)
  <2>1. Begins(Fn.body, Blocks[ins]) => LiveAt(Fn.body, pc)
    BY <1>11, <1>12 DEF Leads
  <2>2. LiveAt(Fn.body, pc) => Entered(put, ins)
    BY <1>3, <1>6, <1>7, <1>11, NoBlocks, StillEntered DEF Leads
  <2>3. Begins(Fn.body, put[ins]) <=> Begins(Fn.body, Blocks[ins])
    BY <1>3, <1>6, <1>7, NoBlocks, GrowsCode
  <2>4. \A i \in Range(code) : FlowsAt(Fn.body, put, ins, i)
    BY <1>5, <1>6, <2>1, <2>2, <2>3 DEF FlowsAt
  <2>5. \A j : j \notin 1 .. Len(<< >>)
    BY EmptyStack
  <2> QED
    BY <1>3, <1>6, <1>7, <1>11, <2>4, <2>5, NoBlocks, GrowsFlow
<1> QED
  BY <1>4, <1>11, <1>12

LEMMA InitFInv == Init => FInv
<1> SUFFICES ASSUME Init PROVE FInv
  OBVIOUS
<1>1. status = "declare" /\ functions = Nothing
  BY DEF Init
<1>2. \A f \in DOMAIN functions : FALSE
  BY <1>1 DEF Nothing
<1> QED
  BY <1>1, <1>2 DEF FInv, Unstarted, Finished

(* Declaring a function gives its name no other function.                  *)
LEMMA DeclareFInv ==
  ASSUME GInv, FInv, DeclareFunction
  PROVE  FInv'
<1>1. /\ status' = "declare" /\ prog' = prog
      /\ functions' = Bind(functions, Fn.name, cur)
  BY DEF DeclareFunction
<1>2. \A f \in DOMAIN functions' : prog'[functions'[f]].name = f
  BY <1>1 DEF Bind, FInv, Fn
<1> QED
  BY <1>1, <1>2 DEF FInv, Unstarted, Finished

(* What holds of the functions that a step does not generate.              *)
OthersKept ==
  \A c \in DOMAIN prog \ {cur} : /\ Unstarted(c)' => ir'[c] = << >>
                                 /\ Finished(c)' => Flows(prog[c].body, ir'[c])

LEMMA OthersUntouched ==
  ASSUME GInv, FInv, NamesDistinct, Target = cur, status \in {"begin", "gen"},
         NEW bs, Writes(bs),
         \A c \in DOMAIN prog \ {cur} : (Unstarted(c)' => Unstarted(c)) /\ (Finished(c)' => Finished(c))
  PROVE  OthersKept
<1>1. \A c \in DOMAIN prog \ {cur} : ir'[c] = ir[c]
  BY DEF Writes, GInv, IsIR
<1> QED
  BY <1>1 DEF FInv, OthersKept

LEMMA BeginFInv ==
  ASSUME GInv, CInv, FInv, BeginFunction
  PROVE  FInv'
<1>1. /\ status = "begin" /\ status' = "gen" /\ cur <= Len(prog) /\ cur' = cur
      /\ prog' = prog /\ functions' = functions
  BY DEF BeginFunction, declared
<1>2. SUFFICES ASSUME NamesDistinct
               PROVE  /\ \A c \in DOMAIN prog : /\ Unstarted(c)' => ir'[c] = << >>
                                                /\ Finished(c)' => Flows(prog[c].body, ir'[c])
                      /\ Flowing'
  BY <1>1 DEF FInv, NamesDistinct
<1>3. cur \in Nat /\ DOMAIN prog \subseteq Nat
  BY <1>1, TargetExists, ProgramsAssumption, SeqBasics DEF GInv, Parsed
<1>4. Target = cur /\ cur \in DOMAIN ir
  BY <1>1, <1>2, TargetIsCur
<1>5. PICK bs : Writes(bs) /\ Healthy(Fn.body, bs, frames', ins', pc')
  BY <1>2, BeginFlow DEF CInv
<1>6. \A c \in DOMAIN prog \ {cur} : (Unstarted(c)' => Unstarted(c)) /\ (Finished(c)' => Finished(c))
  BY <1>1, <1>3 DEF Unstarted, Finished
<1>7. OthersKept
  BY <1>1, <1>2, <1>4, <1>5, <1>6, OthersUntouched
<1>8. \A c \in DOMAIN prog : c = cur => ~Unstarted(c)' /\ ~Finished(c)'
  BY <1>1, <1>3 DEF Unstarted, Finished
<1>9. Flowing'
  <2>1. Fn' = Fn /\ Target' = Target
    BY <1>1 DEF Fn, Target
  <2>2. Blocks' = bs
    BY <1>4, <1>5, <2>1 DEF Blocks, Writes
  <2> QED
    BY <1>5, <2>1, <2>2 DEF Flowing
<1> QED
  BY <1>2, <1>7, <1>8, <1>9 DEF OthersKept

LEMMA EndFInv ==
  ASSUME GInv, CInv, FInv, EndFunction
  PROVE  FInv'
<1>1. status = "gen" /\ prog' = prog /\ functions' = functions
  BY DEF EndFunction, declared, Fatal
<1>2. CASE status' = "fatal"
  BY <1>1, <1>2 DEF FInv, Unstarted, Finished
<1>3. CASE status' # "fatal"
  <2>1. status' = "begin" /\ cur' = cur + 1
    BY <1>3 DEF EndFunction, Fatal
  <2>2. SUFFICES ASSUME NamesDistinct
                 PROVE  \A c \in DOMAIN prog : /\ Unstarted(c)' => ir'[c] = << >>
                                               /\ Finished(c)' => Flows(prog[c].body, ir'[c])
    BY <1>1, <2>1 DEF FInv, NamesDistinct
  <2>3. cur <= Len(prog)
    BY <1>1 DEF GInv, TypeOK
  <2>4. cur \in Nat /\ DOMAIN prog \subseteq Nat
    BY <1>1, <2>3, TargetExists, ProgramsAssumption, SeqBasics DEF GInv, Parsed
  <2>5. Target = cur /\ cur \in DOMAIN ir
    BY <1>1, <2>2, <2>3, TargetIsCur
  <2>6. Flowing
    BY <1>1, <2>2 DEF FInv
  <2>7. PICK bs : Writes(bs) /\ Flows(Fn.body, bs)
    BY <1>3, <2>6, EndFlow DEF CInv
  <2>8. \A c \in DOMAIN prog \ {cur} : (Unstarted(c)' => Unstarted(c)) /\ (Finished(c)' => Finished(c))
    BY <1>1, <2>1, <2>4 DEF Unstarted, Finished
  <2>9. OthersKept
    BY <1>1, <2>2, <2>5, <2>7, <2>8, OthersUntouched
  <2>10. \A c \in DOMAIN prog : c = cur => ~Unstarted(c)'
    BY <2>1, <2>4 DEF Unstarted
  <2>11. Flows(prog[cur].body, ir'[cur])
    BY <2>5, <2>7 DEF Writes, Fn
  <2> QED
    BY <2>2, <2>9, <2>10, <2>11 DEF OthersKept
<1> QED
  BY <1>2, <1>3

LEMMA StatementFInv ==
  ASSUME GInv, CInv, FInv, GenStmt
  PROVE  FInv'
<1>1. status = "gen" /\ pc <= Len(Fn.body) /\ prog' = prog /\ functions' = functions
      /\ (status' = "fatal" \/ Advance)
  BY DEF GenStmt, GenLet, GenExpr, GenReturn, GenDefer, GenIf, GenElse, GenEndIf,
         GenWhile, GenEndWhile, GenBreak, GenContinue, Jump, At, Fatal, Advance, declared
<1>2. CASE status' = "fatal"
  BY <1>1, <1>2 DEF FInv, Unstarted, Finished
<1>3. CASE status' # "fatal"
  <2>1. status' = "gen" /\ cur' = cur /\ pc' = pc + 1
    BY <1>1, <1>3 DEF Advance
  <2>2. SUFFICES ASSUME NamesDistinct
                 PROVE  /\ \A c \in DOMAIN prog : /\ Unstarted(c)' => ir'[c] = << >>
                                                  /\ Finished(c)' => Flows(prog[c].body, ir'[c])
                        /\ Flowing'
    BY <1>1, <2>1 DEF FInv, NamesDistinct
  <2>3. cur <= Len(prog)
    BY <1>1 DEF GInv, TypeOK
  <2>4. cur \in Nat /\ DOMAIN prog \subseteq Nat
    BY <1>1, <2>3, TargetExists, ProgramsAssumption, SeqBasics DEF GInv, Parsed
  <2>5. Target = cur /\ cur \in DOMAIN ir
    BY <1>1, <2>2, <2>3, TargetIsCur
  <2>6. Flowing
    BY <1>1, <2>2 DEF FInv
  <2>7. PICK bs : Writes(bs) /\ (Broken(bs) \/ Healthy(Fn.body, bs, frames', ins', pc + 1))
    BY <1>3, <2>6, StatementFlow DEF CInv, GoesOn
  <2>8. \A c \in DOMAIN prog \ {cur} : (Unstarted(c)' => Unstarted(c)) /\ (Finished(c)' => Finished(c))
    BY <1>1, <2>1 DEF Unstarted, Finished
  <2>9. OthersKept
    BY <1>1, <2>2, <2>5, <2>7, <2>8, OthersUntouched
  <2>10. \A c \in DOMAIN prog : c = cur => ~Unstarted(c)' /\ ~Finished(c)'
    BY <2>1, <2>4 DEF Unstarted, Finished
  <2>11. Flowing'
    <3>1. Fn' = Fn /\ Target' = Target
      BY <1>1, <2>1 DEF Fn, Target
    <3>2. Blocks' = bs
      BY <2>5, <2>7, <3>1 DEF Blocks, Writes
    <3> QED
      BY <2>1, <2>7, <3>1, <3>2 DEF Flowing
  <2> QED
    BY <2>2, <2>9, <2>10, <2>11 DEF OthersKept
<1> QED
  BY <1>2, <1>3

LEMMA NextFInv == GInv /\ CInv /\ FInv /\ [Next]_vars => FInv'
<1> SUFFICES ASSUME GInv, CInv, FInv, [Next]_vars PROVE FInv'
  OBVIOUS
<1>1. CASE StartDefining
  <2>1. /\ status = "declare" /\ status' = "begin" /\ cur' = 1 /\ ir' = ir
        /\ prog' = prog /\ functions' = functions
    BY <1>1 DEF StartDefining, declared
  <2>2. \A c \in DOMAIN prog : ir'[c] = << >>
    BY <2>1 DEF CInv, GInv, IsIR
  <2>3. \A c \in DOMAIN prog : ~Finished(c)'
    <3>1. \A c \in DOMAIN prog : ~(c < 1)
      BY ProgramsAssumption, SeqBasics DEF GInv, Parsed
    <3> QED
      BY <2>1, <3>1 DEF Finished
  <2> QED
    BY <2>1, <2>2, <2>3 DEF FInv, NamesDistinct
<1>2. CASE Finish
  <2>1. /\ status = "begin" /\ status' = "emitted" /\ cur > Len(prog) /\ ir' = ir
        /\ prog' = prog /\ functions' = functions
    BY <1>2 DEF Finish, declared
  <2>2. \A c \in DOMAIN prog : c < cur
    <3>1. IsSeq(prog)
      BY ProgramsAssumption DEF GInv, Parsed
    <3>2. Len(prog) \in Nat /\ DOMAIN prog = 1 .. Len(prog)
      BY <3>1, SeqBasics
    <3>3. cur \in 1 .. Len(prog) + 1
      BY DEF GInv, TypeOK
    <3> QED
      BY <2>1, <3>2, <3>3
  <2>3. \A c \in DOMAIN prog : Finished(c) /\ ~Unstarted(c)'
    BY <2>1, <2>2 DEF Finished, Unstarted
  <2> QED
    BY <2>1, <2>3 DEF FInv, NamesDistinct
<1>3. CASE UNCHANGED vars
  <2>1. /\ prog' = prog /\ status' = status /\ cur' = cur /\ pc' = pc /\ functions' = functions
        /\ ir' = ir /\ ins' = ins /\ frames' = frames
    BY <1>3 DEF vars, declared
  <2>2. Flowing' = Flowing
    BY <2>1 DEF Flowing, Blocks, Fn, Target
  <2> QED
    BY <2>1, <2>2 DEF FInv, NamesDistinct, Unstarted, Finished
<1> QED
  BY <1>1, <1>2, <1>3, DeclareFInv, BeginFInv, EndFInv, StatementFInv DEF Next, Emit, Stopped

LEMMA LiveCodeIs == GInv /\ CInv /\ FInv => LiveCodeStaysLive
<1> SUFFICES ASSUME GInv, CInv, FInv, status = "emitted", NamesDistinct,
                    NEW c \in DOMAIN prog, NEW b \in DOMAIN ir[c], NEW j \in DOMAIN ir[c][b].code
             PROVE  b \in Reached(ir[c], {})
                    <=> ir[c][b].code[j].at[2] \in
                          {0} \cup {p \in DOMAIN Append(prog[c].body, 0) : Live(prog[c].body)[p]}
  BY DEF LiveCodeStaysLive
<1> DEFINE bs == ir[c]
           body == prog[c].body
           i == bs[b].code[j]
<1>1. Finished(c)
  BY DEF Finished
<1>2. IsBlocks(bs) /\ Flows(body, bs)
  BY <1>1 DEF FInv, CInv, IRBlocks, GInv, IsIR
<1>3. b \in 1 .. Len(bs) /\ i \in Range(bs[b].code)
  BY <1>2, AllCode DEF Range
<1>4. IsSeq(body)
  BY ProgramsAssumption, SeqBasics DEF GInv, Parsed
<1>5. DOMAIN Append(body, 0) = 1 .. Len(body) + 1
  BY <1>4, StackPush, SeqBasics
<1> HIDE DEF bs, body, i
<1>6. b \in Reached(bs, {}) <=> LiveAt(body, i.at[2])
  BY <1>2, <1>3, FlowReaches
<1>7. LiveAt(body, i.at[2]) <=> i.at[2] \in {0} \cup {p \in DOMAIN Append(body, 0) : Live(body)[p]}
  BY <1>5 DEF LiveAt
<1> QED
  BY <1>6, <1>7 DEF bs, body, i

(* In every program without two functions of one name, the blocks control  *)
(* reaches from a function's entry are those with the code of statements   *)
(* that control reaches in its body: a return, a break or a continue cuts  *)
(* off what follows it in its list, and nothing else.                      *)
THEOREM CodeGenLiveCode == Spec => []LiveCodeStaysLive
<1>1. Init => GInv /\ NamesAreFlat /\ CInv /\ FInv
  BY InitGInv, InitCInv, InitFInv DEF Init, NamesAreFlat
<1>2. GInv /\ NamesAreFlat /\ CInv /\ FInv /\ [Next]_vars => (GInv /\ NamesAreFlat /\ CInv /\ FInv)'
  BY NextGInv, NextNames, NextCInv, NextFInv
<1>3. GInv /\ CInv /\ FInv => LiveCodeStaysLive
  BY LiveCodeIs
<1> QED
  BY <1>1, <1>2, <1>3, PTL DEF Spec
=============================================================================
