----------------------------- MODULE SemaProofs -----------------------------
(***************************************************************************)
(* Proofs about Sema for every set of programs: the state keeps its shape; *)
(* the scope stack, the vectors of deferred expressions and the loop       *)
(* counter mirror the nesting of the body under analysis; the deferred     *)
(* expressions are those of the open lists of statements; what             *)
(* Scope::lookup finds is what lexical scoping says a name stands for; and *)
(* therefore Sema implements Judge: its verdict is the one WellFormed      *)
(* gives, although it resolves names on a stack, counts loops, and stops   *)
(* at the first error.                                                     *)
(***************************************************************************)
EXTENDS Sema, SyntaxProofs

(* The three invariants support each other: that pop() finds a scope to    *)
(* pop needs StacksMirrorBlocks and a nesting that is never negative, and  *)
(* a loop counter that is zero before the first function is what makes it  *)
(* exact in every function.                                                *)
IInv ==
  /\ prog \in Programs
  /\ IsSeq(scope) /\ IsSeq(defers)
  /\ TypeOK
  /\ StacksMirrorBlocks
  /\ LoopDepthIsExact
  /\ status = "gather" => loopDepth = 0
  /\ status = "check" => BlockDepth(Fn.body, pc) >= 0

(* a stack of scopes over the program's names *)
Scoped(s) == IsSeq(s) /\ \A i \in 1 .. Len(s) : DOMAIN s[i] \subseteq Names

(* Entering a block, leaving one and declaring a name keep a stack of      *)
(* scopes one.                                                             *)
LEMMA PushScope ==
  ASSUME NEW s, Scoped(s), NEW v, DOMAIN v \subseteq Names
  PROVE  Scoped(Append(s, v)) /\ Len(Append(s, v)) = Len(s) + 1
<1>1. IsSeq(s) /\ Len(s) \in Nat
  BY SeqBasics DEF Scoped
<1>2. /\ IsSeq(Append(s, v)) /\ Len(Append(s, v)) = Len(s) + 1
      /\ \A i \in 1 .. Len(s) : Append(s, v)[i] = s[i]
      /\ Append(s, v)[Len(s) + 1] = v
  BY <1>1, StackPush
<1>3. \A i \in 1 .. Len(s) + 1 : DOMAIN Append(s, v)[i] \subseteq Names
  <2> SUFFICES ASSUME NEW i \in 1 .. Len(s) + 1
               PROVE  DOMAIN Append(s, v)[i] \subseteq Names
    OBVIOUS
  <2>1. CASE i = Len(s) + 1
    BY <1>2, <2>1
  <2>2. CASE i \in 1 .. Len(s)
    BY <1>2, <2>2 DEF Scoped
  <2> QED
    BY <1>1, <2>1, <2>2
<1> QED
  BY <1>2, <1>3 DEF Scoped

LEMMA PopScope ==
  ASSUME NEW s, Scoped(s), Len(s) > 0
  PROVE  Scoped(Front(s)) /\ Len(Front(s)) = Len(s) - 1
<1>1. IsSeq(s) /\ Len(s) \in Nat /\ s # << >>
  BY SeqBasics DEF Scoped
<1>2. /\ IsSeq(Front(s)) /\ Len(Front(s)) = Len(s) - 1
      /\ \A i \in 1 .. Len(s) - 1 : Front(s)[i] = s[i]
  BY <1>1, StackPop
<1>3. \A i \in 1 .. Len(s) - 1 : DOMAIN Front(s)[i] \subseteq Names
  BY <1>1, <1>2 DEF Scoped
<1> QED
  BY <1>2, <1>3 DEF Scoped

LEMMA SetScope ==
  ASSUME NEW s, Scoped(s), NEW i \in 1 .. Len(s), NEW v, DOMAIN v \subseteq Names
  PROVE  Scoped([s EXCEPT ![i] = v]) /\ Len([s EXCEPT ![i] = v]) = Len(s)
<1>1. IsSeq(s)
  BY DEF Scoped
<1>2. /\ IsSeq([s EXCEPT ![i] = v]) /\ Len([s EXCEPT ![i] = v]) = Len(s)
      /\ \A j \in 1 .. Len(s) : [s EXCEPT ![i] = v][j] = IF j = i THEN v ELSE s[j]
  BY <1>1, StackSet
<1> QED
  BY <1>2 DEF Scoped

(* What the parser promises of the function under analysis.                *)
LEMMA CurrentFunction ==
  ASSUME prog \in Programs, cur \in 1 .. Len(prog)
  PROVE  /\ IsSeq(Fn.body) /\ IsSeq(Fn.params)
         /\ WellNested(Fn.body)
         /\ \A k \in DOMAIN Fn.params : Fn.params[k].x \in Names
         /\ \A p \in 1 .. Len(Fn.body) : Fn.body[p].k = "let" => Fn.body[p].x \in Names
<1>1. IsSeq(prog)
  BY ProgramsAssumption DEF Parsed
<1>2. cur \in DOMAIN prog
  BY <1>1, SeqBasics
<1>3. IsSeq(Fn.body)
  BY <1>2, ProgramsAssumption DEF Fn, Parsed
<1>4. DOMAIN Fn.body = 1 .. Len(Fn.body)
  BY <1>3, SeqBasics
<1> QED
  BY <1>2, <1>3, <1>4, ProgramsAssumption DEF Fn, Parsed

LEMMA InitIInv == Init => IInv
<1> SUFFICES ASSUME Init PROVE IInv
  OBVIOUS
<1>1. IsSeq(scope) /\ Len(scope) = 1 /\ scope[1] = Nothing
  BY OneEntryStack DEF Init, Start
<1>2. IsSeq(defers) /\ defers = << >>
  BY EmptyStack DEF Init, Start
<1>3. DOMAIN scope = 1 .. 1 /\ scope # << >>
  BY <1>1, SeqBasics
<1>4. Len(prog) \in Nat
  BY ProgramsAssumption, SeqBasics DEF Init, Parsed
<1>5. TypeOK
  BY <1>1, <1>3, <1>4 DEF TypeOK, Init, Start, Nothing
<1> QED
  BY <1>1, <1>2, <1>5 DEF IInv, Init, Start, StacksMirrorBlocks, LoopDepthIsExact

(* Every statement's action that does not fail leaves the state right for  *)
(* the statement after it, given what it does to the three stacks.         *)
LEMMA Advanced ==
  ASSUME IInv, status = "check", pc <= Len(Fn.body), Advance,
         Scoped(scope'), IsSeq(defers'),
         BlockDepth(Fn.body, pc + 1) >= 0,
         Len(scope') - Len(scope) = BlockDepth(Fn.body, pc + 1) - BlockDepth(Fn.body, pc),
         Len(defers') - Len(defers) = Len(scope') - Len(scope),
         loopDepth' - loopDepth = LoopDepth(Fn.body, pc + 1) - LoopDepth(Fn.body, pc),
         loopDepth' \in Int
  PROVE  IInv'
<1>0. IsSeq(scope') /\ \A i \in 1 .. Len(scope') : DOMAIN scope'[i] \subseteq Names
  BY DEF Scoped
<1>1. prog' = prog /\ status' = "check" /\ cur' = cur /\ fns' = fns /\ pc' = pc + 1
  BY DEF Advance
<1>2. Fn' = Fn
  BY <1>1 DEF Fn
<1>3. cur \in 1 .. Len(prog) /\ pc \in Nat \ {0} /\ pc + 1 \in Int
  BY DEF IInv, TypeOK
<1>4. IsSeq(Fn.body) /\ Len(Fn.body) \in Nat
  BY <1>3, CurrentFunction, SeqBasics DEF IInv
<1>5. /\ Len(scope) \in Nat /\ Len(scope') \in Nat
      /\ Len(defers) \in Nat /\ Len(defers') \in Nat
      /\ DOMAIN scope' = 1 .. Len(scope')
      /\ scope' = << >> <=> Len(scope') = 0
  BY <1>0, SeqBasics DEF IInv
<1>6. /\ LoopDepth(Fn.body, pc) \in Int /\ LoopDepth(Fn.body, pc + 1) \in Int
      /\ BlockDepth(Fn.body, pc) \in Int /\ BlockDepth(Fn.body, pc + 1) \in Int
      /\ loopDepth \in Int
  BY <1>3, DepthType DEF IInv, TypeOK
<1>7. /\ Len(scope) = 2 + BlockDepth(Fn.body, pc)
      /\ Len(defers) = 1 + BlockDepth(Fn.body, pc)
      /\ loopDepth = LoopDepth(Fn.body, pc)
  BY DEF IInv, StacksMirrorBlocks, LoopDepthIsExact
<1>8. /\ Len(scope') = 2 + BlockDepth(Fn.body, pc + 1)
      /\ Len(defers') = 1 + BlockDepth(Fn.body, pc + 1)
      /\ loopDepth' = LoopDepth(Fn.body, pc + 1)
  <2> DEFINE s0 == Len(scope)    s1 == Len(scope')
             d0 == Len(defers)   d1 == Len(defers')
             b0 == BlockDepth(Fn.body, pc)   b1 == BlockDepth(Fn.body, pc + 1)
             n0 == loopDepth   n1 == loopDepth'
             l0 == LoopDepth(Fn.body, pc)    l1 == LoopDepth(Fn.body, pc + 1)
  <2>1. s0 \in Int /\ s1 \in Int /\ d0 \in Int /\ d1 \in Int /\ n0 \in Int /\ n1 \in Int
    BY <1>5, <1>6
  <2>2. b0 \in Int /\ b1 \in Int /\ l0 \in Int /\ l1 \in Int
    BY <1>6
  <2>3. s0 = 2 + b0 /\ d0 = 1 + b0 /\ n0 = l0
    BY <1>7
  <2>4. s1 - s0 = b1 - b0 /\ d1 - d0 = s1 - s0 /\ n1 - n0 = l1 - l0
    OBVIOUS
  <2> HIDE DEF s0, s1, d0, d1, b0, b1, n0, n1, l0, l1
  <2>5. s1 = 2 + b1
    BY <2>1, <2>2, <2>3, <2>4
  <2>6. d1 = 1 + b1
    BY <2>1, <2>2, <2>3, <2>4
  <2>7. n1 = l1
    BY <2>1, <2>2, <2>3, <2>4
  <2> QED
    BY <2>5, <2>6, <2>7 DEF s1, d1, b1, n1, l1
<1>9. TypeOK'
  <2>1. pc' \in Nat \ {0} /\ pc' <= Len(Fn.body) + 1
    BY <1>1, <1>3, <1>4
  <2>2. scope' # << >>
    BY <1>5, <1>6, <1>8
  <2>3. \A i \in DOMAIN scope' : DOMAIN scope'[i] \subseteq Names
    BY <1>0, <1>5
  <2>4. cur' \in 1 .. Len(prog') + 1 /\ cur' <= Len(prog') /\ DOMAIN Builtins \subseteq DOMAIN fns'
    BY <1>1 DEF IInv, TypeOK
  <2> QED
    BY <1>1, <1>2, <2>1, <2>2, <2>3, <2>4 DEF TypeOK
<1>10. StacksMirrorBlocks' /\ LoopDepthIsExact'
  BY <1>1, <1>2, <1>8 DEF StacksMirrorBlocks, LoopDepthIsExact
<1> QED
  BY <1>0, <1>1, <1>2, <1>9, <1>10 DEF IInv

(* What the invariant says when a statement is about to be checked.        *)
LEMMA AtStatement ==
  ASSUME IInv, status = "check", pc <= Len(Fn.body)
  PROVE  /\ Scoped(scope) /\ IsSeq(defers)
         /\ BlockDepth(Fn.body, pc) \in Nat
         /\ Len(scope) = 2 + BlockDepth(Fn.body, pc)
         /\ Len(defers) = 1 + BlockDepth(Fn.body, pc)
         /\ loopDepth \in Int
         /\ LoopDepth(Fn.body, pc) \in Int
         /\ LoopDepth(Fn.body, pc + 1) = LoopDepth(Fn.body, pc)
              + IF Node.k = "while" THEN 1 ELSE IF Node.k = "endwhile" THEN -1 ELSE 0
         /\ BlockDepth(Fn.body, pc + 1) = BlockDepth(Fn.body, pc)
              + IF Node.k \in {"if", "while"} THEN 1
                ELSE IF Node.k \in {"endif", "endwhile"} THEN -1 ELSE 0
         /\ Node.k \in {"else", "endif", "endwhile"} => BlockDepth(Fn.body, pc) > 0
         /\ Node.k = "let" => Node.x \in Names
<1>1. cur \in 1 .. Len(prog) /\ pc \in Nat \ {0}
  BY DEF IInv, TypeOK
<1>2. /\ IsSeq(Fn.body) /\ Len(Fn.body) \in Nat /\ WellNested(Fn.body)
      /\ \A p \in 1 .. Len(Fn.body) : Fn.body[p].k = "let" => Fn.body[p].x \in Names
  BY <1>1, CurrentFunction, SeqBasics DEF IInv
<1>3. pc \in 1 .. Len(Fn.body) /\ pc \in Int
  BY <1>1, <1>2
<1>4. /\ LoopDepth(Fn.body, pc) \in Int
      /\ BlockDepth(Fn.body, pc) \in Int
  BY <1>3, DepthType
<1>5. BlockDepth(Fn.body, pc) \in Nat
  BY <1>4 DEF IInv
<1>6. Scoped(scope) /\ IsSeq(defers) /\ loopDepth \in Int
  <2>1. IsSeq(scope) /\ IsSeq(defers) /\ DOMAIN scope = 1 .. Len(scope)
    BY SeqBasics DEF IInv
  <2> QED
    BY <2>1 DEF IInv, TypeOK, Scoped
<1>7. Len(scope) = 2 + BlockDepth(Fn.body, pc) /\ Len(defers) = 1 + BlockDepth(Fn.body, pc)
  BY DEF IInv, StacksMirrorBlocks
<1>8. /\ LoopDepth(Fn.body, pc + 1) = LoopDepth(Fn.body, pc)
           + IF Fn.body[pc].k = "while" THEN 1 ELSE IF Fn.body[pc].k = "endwhile" THEN -1 ELSE 0
      /\ BlockDepth(Fn.body, pc + 1) = BlockDepth(Fn.body, pc)
           + IF Fn.body[pc].k \in {"if", "while"} THEN 1
             ELSE IF Fn.body[pc].k \in {"endif", "endwhile"} THEN -1 ELSE 0
  BY <1>2, <1>3, DepthNext
<1>9. Fn.body[pc].k \in {"else", "endif", "endwhile"} => BlockDepth(Fn.body, pc) > 0
  BY <1>2, <1>3 DEF WellNested, Closes
<1> QED
  BY <1>2, <1>3, <1>4, <1>5, <1>6, <1>7, <1>8, <1>9 DEF Node

(* fatal() changes nothing but the status *)
LEMMA FatalStep ==
  ASSUME IInv, Fatal
  PROVE  IInv'
<1>1. /\ prog' = prog /\ scope' = scope /\ defers' = defers /\ cur' = cur /\ pc' = pc
      /\ fns' = fns /\ loopDepth' = loopDepth /\ status' = "fatal"
  BY DEF Fatal
<1> QED
  BY <1>1 DEF IInv, TypeOK, StacksMirrorBlocks, LoopDepthIsExact

(* A statement that opens and closes no block: the scope stack keeps its   *)
(* height, whatever is declared or deferred in its top entries.            *)
LEMMA FlatStep ==
  ASSUME IInv, status = "check", pc <= Len(Fn.body), Advance,
         Node.k \notin {"if", "while", "endif", "endwhile"},
         Scoped(scope'), Len(scope') = Len(scope),
         IsSeq(defers'), Len(defers') = Len(defers),
         loopDepth' = loopDepth
  PROVE  IInv'
<1> DEFINE b == BlockDepth(Fn.body, pc)   b1 == BlockDepth(Fn.body, pc + 1)
           l == LoopDepth(Fn.body, pc)    l1 == LoopDepth(Fn.body, pc + 1)
<1>1. /\ b \in Nat /\ l \in Int /\ loopDepth \in Int /\ b1 = b + 0 /\ l1 = l + 0
      /\ Len(scope) = 2 + b /\ Len(defers) = 1 + b
  BY AtStatement
<1>2. /\ b1 >= 0 /\ Len(scope') - Len(scope) = b1 - b
      /\ Len(defers') - Len(defers) = Len(scope') - Len(scope)
      /\ loopDepth' - loopDepth = l1 - l /\ loopDepth' \in Int
  <2> HIDE DEF b, b1, l, l1
  <2> QED
    BY <1>1
<1> QED
  BY <1>2, Advanced

-----------------------------------------------------------------------------
(* One lemma per kind of statement that changes the stacks.                *)

LEMMA LetStep == IInv /\ CheckLet => IInv'
<1> SUFFICES ASSUME IInv, CheckLet PROVE IInv'
  OBVIOUS
<1>1. CASE Fatal
  BY <1>1, FatalStep
<1>2. CASE ~Fatal
  <2>1. PICK ty :
          /\ scope' = Declare(Node.x, VarInfo(ty, Node.uniq, pc))
          /\ defers' = IF Node.uniq
                       THEN DeferLast(Call("free", <<Var(Node.x)>>)) ELSE defers
          /\ loopDepth' = loopDepth
          /\ Advance
    BY <1>2 DEF CheckLet
  <2>2. status = "check" /\ pc <= Len(Fn.body) /\ Node.k = "let"
    BY DEF CheckLet, At
  <2>3. /\ Scoped(scope) /\ IsSeq(defers) /\ BlockDepth(Fn.body, pc) \in Nat
        /\ Len(scope) = 2 + BlockDepth(Fn.body, pc)
        /\ Len(defers) = 1 + BlockDepth(Fn.body, pc)
        /\ Node.x \in Names
    BY <2>2, AtStatement
  <2>4. Len(scope) \in 1 .. Len(scope) /\ Len(defers) \in 1 .. Len(defers)
    BY <2>3
  <2>5. DOMAIN scope[Len(scope)] \subseteq Names
    BY <2>3, <2>4 DEF Scoped
  <2> DEFINE v == Bind(scope[Len(scope)], Node.x, VarInfo(ty, Node.uniq, pc))
  <2>6. DOMAIN v \subseteq Names
    BY <2>3, <2>5 DEF Bind
  <2>7. scope' = [scope EXCEPT ![Len(scope)] = v]
    BY <2>1 DEF Declare
  <2>8. Scoped(scope') /\ Len(scope') = Len(scope)
    <3> HIDE DEF v
    <3> QED
      BY <2>3, <2>4, <2>6, <2>7, SetScope
  <2>9. IsSeq(defers') /\ Len(defers') = Len(defers)
    <3>1. CASE Node.uniq
      <4> DEFINE w == Append(defers[Len(defers)], Call("free", <<Var(Node.x)>>))
      <4>1. defers' = [defers EXCEPT ![Len(defers)] = w]
        BY <2>1, <3>1 DEF DeferLast
      <4> HIDE DEF w
      <4> QED
        BY <2>3, <2>4, <4>1, StackSet
    <3>2. CASE ~Node.uniq
      BY <2>1, <2>3, <3>2
    <3> QED
      BY <3>1, <3>2
  <2> QED
    BY <2>1, <2>2, <2>8, <2>9, FlatStep
<1> QED
  BY <1>1, <1>2

LEMMA DeferStep == IInv /\ CheckDefer => IInv'
<1> SUFFICES ASSUME IInv, CheckDefer PROVE IInv'
  OBVIOUS
<1>1. /\ status = "check" /\ pc <= Len(Fn.body) /\ Node.k = "defer"
      /\ Advance /\ scope' = scope /\ loopDepth' = loopDepth
  BY DEF CheckDefer, At
<1>2. /\ Scoped(scope) /\ IsSeq(defers) /\ BlockDepth(Fn.body, pc) \in Nat
      /\ Len(defers) = 1 + BlockDepth(Fn.body, pc)
  BY <1>1, AtStatement
<1>3. Len(defers) \in 1 .. Len(defers)
  BY <1>2
<1> DEFINE w == Append(defers[Len(defers)], Node.e)
<1>4. defers' = [defers EXCEPT ![Len(defers)] = w]
  BY DEF CheckDefer, DeferLast
<1>5. IsSeq(defers') /\ Len(defers') = Len(defers)
  <2> HIDE DEF w
  <2> QED
    BY <1>2, <1>3, <1>4, StackSet
<1> QED
  BY <1>1, <1>2, <1>5, FlatStep

(* Statements that only look: expressions, return, break and continue.     *)
LEMMA LookingStep ==
  IInv /\ (CheckExpr \/ CheckReturn \/ CheckBreak \/ CheckContinue) => IInv'
<1> SUFFICES ASSUME IInv, CheckExpr \/ CheckReturn \/ CheckBreak \/ CheckContinue
             PROVE  IInv'
  OBVIOUS
<1>1. CASE Fatal
  BY <1>1, FatalStep
<1>2. CASE ~Fatal
  <2>1. /\ status = "check" /\ pc <= Len(Fn.body)
        /\ Node.k \in {"expr", "return", "break", "continue"}
    BY DEF CheckExpr, CheckReturn, CheckBreak, CheckContinue, At
  <2>2. Advance /\ scope' = scope /\ defers' = defers /\ loopDepth' = loopDepth
    BY <1>2 DEF CheckExpr, CheckReturn, CheckBreak, CheckContinue
  <2>3. Scoped(scope) /\ IsSeq(defers)
    BY <2>1, AtStatement
  <2> QED
    BY <2>1, <2>2, <2>3, FlatStep
<1> QED
  BY <1>1, <1>2

(* Statements that open a block.                                           *)
LEMMA OpenStep == IInv /\ (CheckIf \/ CheckWhile) => IInv'
<1> SUFFICES ASSUME IInv, CheckIf \/ CheckWhile PROVE IInv'
  OBVIOUS
<1>1. CASE Fatal
  BY <1>1, FatalStep
<1>2. CASE ~Fatal
  <2>1. /\ status = "check" /\ pc <= Len(Fn.body) /\ Node.k \in {"if", "while"}
    BY DEF CheckIf, CheckWhile, At
  <2>2. /\ Advance /\ scope' = Append(scope, Nothing) /\ defers' = Append(defers, << >>)
        /\ loopDepth' = loopDepth + IF Node.k = "while" THEN 1 ELSE 0
    <3>1. CASE CheckIf
      <4>1. loopDepth' = loopDepth /\ Node.k = "if"
        BY <1>2, <3>1 DEF CheckIf, At
      <4>2. loopDepth \in Int
        BY DEF IInv, TypeOK
      <4> QED
        BY <1>2, <3>1, <4>1, <4>2 DEF CheckIf, Push
    <3>2. CASE CheckWhile
      BY <1>2, <3>2 DEF CheckWhile, Push, At
    <3> QED
      BY <3>1, <3>2
  <2> DEFINE b == BlockDepth(Fn.body, pc)   b1 == BlockDepth(Fn.body, pc + 1)
             l == LoopDepth(Fn.body, pc)    l1 == LoopDepth(Fn.body, pc + 1)
  <2>3. /\ Scoped(scope) /\ IsSeq(defers) /\ b \in Nat /\ l \in Int /\ loopDepth \in Int
        /\ b1 = b + 1 /\ l1 = l + IF Node.k = "while" THEN 1 ELSE 0
        /\ Len(scope) = 2 + b /\ Len(defers) = 1 + b
    BY <2>1, AtStatement
  <2>4. DOMAIN Nothing \subseteq Names
    BY DEF Nothing
  <2>5. Scoped(scope') /\ Len(scope') = Len(scope) + 1
    BY <2>2, <2>3, <2>4, PushScope
  <2>6. IsSeq(defers') /\ Len(defers') = Len(defers) + 1
    BY <2>2, <2>3, StackPush
  <2>7. /\ b1 >= 0 /\ Len(scope') - Len(scope) = b1 - b
        /\ Len(defers') - Len(defers) = Len(scope') - Len(scope)
        /\ loopDepth' - loopDepth = l1 - l /\ loopDepth' \in Int
    <3> HIDE DEF b, b1, l, l1
    <3> QED
      BY <2>2, <2>3, <2>5, <2>6
  <2> QED
    BY <2>1, <2>2, <2>5, <2>6, <2>7, Advanced
<1> QED
  BY <1>1, <1>2

(* Leaving a block, where the nesting guarantees a scope to pop.           *)
LEMMA CloseStep == IInv /\ (CheckEndIf \/ CheckEndWhile) => IInv'
<1> SUFFICES ASSUME IInv, CheckEndIf \/ CheckEndWhile PROVE IInv'
  OBVIOUS
<1>1. /\ status = "check" /\ pc <= Len(Fn.body) /\ Node.k \in {"endif", "endwhile"}
      /\ Advance /\ scope' = Front(scope) /\ defers' = Front(defers)
  BY DEF CheckEndIf, CheckEndWhile, At, Popped
<1>2. loopDepth' = loopDepth + IF Node.k = "endwhile" THEN -1 ELSE 0
  <2>1. loopDepth \in Int
    BY DEF IInv, TypeOK
  <2> QED
    BY <2>1 DEF CheckEndIf, CheckEndWhile, ExitLoop, At
<1> DEFINE b == BlockDepth(Fn.body, pc)   b1 == BlockDepth(Fn.body, pc + 1)
           l == LoopDepth(Fn.body, pc)    l1 == LoopDepth(Fn.body, pc + 1)
<1>3. /\ Scoped(scope) /\ IsSeq(defers) /\ b \in Nat /\ l \in Int /\ loopDepth \in Int
      /\ b > 0 /\ b1 = b + (-1) /\ l1 = l + IF Node.k = "endwhile" THEN -1 ELSE 0
      /\ Len(scope) = 2 + b /\ Len(defers) = 1 + b
  BY <1>1, AtStatement
<1>4. Len(scope) > 0 /\ defers # << >>
  BY <1>3, SeqBasics
<1>5. Scoped(scope') /\ Len(scope') = Len(scope) - 1
  BY <1>1, <1>3, <1>4, PopScope
<1>6. IsSeq(defers') /\ Len(defers') = Len(defers) - 1
  BY <1>1, <1>3, <1>4, StackPop
<1>7. /\ b1 >= 0 /\ Len(scope') - Len(scope) = b1 - b
      /\ Len(defers') - Len(defers) = Len(scope') - Len(scope)
      /\ loopDepth' - loopDepth = l1 - l /\ loopDepth' \in Int
  <2> HIDE DEF b, b1, l, l1
  <2> QED
    BY <1>2, <1>3, <1>5, <1>6
<1> QED
  BY <1>1, <1>5, <1>6, <1>7, Advanced

(* "else" leaves one block and opens the next.                             *)
LEMMA ElseStep == IInv /\ CheckElse => IInv'
<1> SUFFICES ASSUME IInv, CheckElse PROVE IInv'
  OBVIOUS
<1>1. /\ status = "check" /\ pc <= Len(Fn.body) /\ Node.k = "else" /\ Advance
      /\ scope' = Append(Front(scope), Nothing)
      /\ defers' = Append(Front(defers), << >>)
      /\ loopDepth' = loopDepth
  BY DEF CheckElse, At, Popped, Push
<1>2. /\ Scoped(scope) /\ IsSeq(defers) /\ BlockDepth(Fn.body, pc) \in Nat
      /\ Len(scope) = 2 + BlockDepth(Fn.body, pc)
      /\ Len(defers) = 1 + BlockDepth(Fn.body, pc)
  BY <1>1, AtStatement
<1>3. /\ Len(scope) > 0 /\ defers # << >>
      /\ Len(scope) \in Int /\ Len(defers) \in Int
  BY <1>2, SeqBasics
<1>4. DOMAIN Nothing \subseteq Names
  BY DEF Nothing
<1>5. Scoped(Front(scope)) /\ Len(Front(scope)) = Len(scope) - 1
  BY <1>2, <1>3, PopScope
<1>6. Scoped(scope') /\ Len(scope') = Len(scope)
  BY <1>1, <1>3, <1>4, <1>5, PushScope
<1>7. IsSeq(Front(defers)) /\ Len(Front(defers)) = Len(defers) - 1
  BY <1>2, <1>3, StackPop
<1>8. IsSeq(defers') /\ Len(defers') = Len(defers)
  BY <1>1, <1>3, <1>7, StackPush
<1> QED
  BY <1>1, <1>6, <1>8, FlatStep

LEMMA StatementStep == IInv /\ CheckStmt => IInv'
  BY LetStep, DeferStep, LookingStep, OpenStep, CloseStep, ElseStep DEF CheckStmt

-----------------------------------------------------------------------------
(* Going from function to function.                                        *)

LEMMA GatherStep == IInv /\ (GatherSig \/ StartChecking) => IInv'
<1> SUFFICES ASSUME IInv, GatherSig \/ StartChecking PROVE IInv'
  OBVIOUS
<1>1. CASE Fatal
  BY <1>1, FatalStep
<1>2. CASE ~Fatal
  <2>1. /\ prog' = prog /\ scope' = scope /\ defers' = defers /\ pc' = pc
        /\ loopDepth' = loopDepth /\ status = "gather" /\ status' \in {"gather", "enter"}
    BY <1>2 DEF GatherSig, StartChecking
  <2>2. IsSeq(prog) /\ Len(prog) \in Nat /\ cur \in 1 .. Len(prog) + 1
    BY ProgramsAssumption, SeqBasics DEF IInv, TypeOK, Parsed
  <2>3. cur' \in 1 .. Len(prog) + 1
    BY <1>2, <2>2 DEF GatherSig, StartChecking
  <2>4. DOMAIN Builtins \subseteq DOMAIN fns'
    BY <1>2 DEF GatherSig, StartChecking, Gathered, Bind, IInv, TypeOK
  <2> QED
    BY <2>1, <2>3, <2>4 DEF IInv, TypeOK, StacksMirrorBlocks, LoopDepthIsExact
<1> QED
  BY <1>1, <1>2

(* A function starts outside every block, with its parameters in scope.    *)
LEMMA EnterStep == IInv /\ EnterFunction => IInv'
<1> SUFFICES ASSUME IInv, EnterFunction PROVE IInv'
  OBVIOUS
<1>1. /\ status = "enter" /\ cur <= Len(prog) /\ status' = "check" /\ pc' = 1
      /\ prog' = prog /\ cur' = cur /\ fns' = fns /\ loopDepth' = loopDepth
      /\ scope' = Append(scope, ParamScope(Fn.params)) /\ defers' = << << >> >>
  BY DEF EnterFunction
<1>2. IsSeq(prog) /\ Len(prog) \in Nat /\ cur \in 1 .. Len(prog)
  BY <1>1, ProgramsAssumption, SeqBasics DEF IInv, TypeOK, Parsed
<1>3. /\ \A k \in DOMAIN Fn.params : Fn.params[k].x \in Names
      /\ Len(Fn.body) \in Nat
  BY <1>2, CurrentFunction, SeqBasics DEF IInv
<1>4. DOMAIN ParamScope(Fn.params) \subseteq Names
  BY <1>3 DEF ParamScope
<1>5. Scoped(scope) /\ Len(scope) = 1
  <2>1. IsSeq(scope) /\ DOMAIN scope = 1 .. Len(scope)
    BY SeqBasics DEF IInv
  <2> QED
    BY <1>1, <2>1 DEF IInv, TypeOK, Scoped, StacksMirrorBlocks
<1>6. Scoped(scope') /\ Len(scope') = 2
  <2>1. Scoped(scope') /\ Len(scope') = Len(scope) + 1
    BY <1>1, <1>4, <1>5, PushScope
  <2> QED
    BY <1>5, <2>1
<1>7. IsSeq(defers') /\ Len(defers') = 1
  BY <1>1, OneEntryStack
<1>8. /\ IsSeq(scope') /\ DOMAIN scope' = 1 .. 2 /\ scope' # << >>
      /\ \A i \in DOMAIN scope' : DOMAIN scope'[i] \subseteq Names
  BY <1>6, SeqBasics DEF Scoped
<1>9. Fn' = Fn /\ LoopDepth(Fn.body, 1) = 0 /\ BlockDepth(Fn.body, 1) = 0
  BY <1>1, DepthAtStart DEF Fn
<1>10. loopDepth = 0
  BY <1>1 DEF IInv, LoopDepthIsExact
<1> QED
  BY <1>1, <1>2, <1>3, <1>6, <1>7, <1>8, <1>9, <1>10
     DEF IInv, TypeOK, StacksMirrorBlocks, LoopDepthIsExact

(* It ends outside every block and every loop, where it started: that the  *)
(* body is well nested is what returns the loop counter to zero.           *)
LEMMA LeaveStep == IInv /\ LeaveFunction => IInv'
<1> SUFFICES ASSUME IInv, LeaveFunction PROVE IInv'
  OBVIOUS
<1>1. /\ status = "check" /\ pc > Len(Fn.body) /\ status' = "enter" /\ cur' = cur + 1
      /\ prog' = prog /\ fns' = fns /\ pc' = pc /\ loopDepth' = loopDepth
      /\ scope' = Front(scope) /\ defers' = << >>
  BY DEF LeaveFunction, Popped
<1>2. cur \in 1 .. Len(prog) /\ Len(prog) \in Nat
  BY <1>1, ProgramsAssumption, SeqBasics DEF IInv, TypeOK, Parsed
<1>3. IsSeq(Fn.body) /\ Len(Fn.body) \in Nat /\ WellNested(Fn.body)
  BY <1>2, CurrentFunction, SeqBasics DEF IInv
<1>4. pc = Len(Fn.body) + 1
  BY <1>1, <1>3 DEF IInv, TypeOK
<1>5. LoopDepth(Fn.body, pc) = 0 /\ BlockDepth(Fn.body, pc) = 0
  BY <1>3, <1>4 DEF WellNested
<1>6. Scoped(scope) /\ Len(scope) = 2
  <2>1. IsSeq(scope) /\ DOMAIN scope = 1 .. Len(scope)
    BY SeqBasics DEF IInv
  <2> QED
    BY <1>1, <1>5, <2>1 DEF IInv, TypeOK, Scoped, StacksMirrorBlocks
<1>7. Scoped(scope') /\ Len(scope') = 1
  <2>1. Len(scope) > 0
    BY <1>6
  <2>2. Scoped(scope') /\ Len(scope') = Len(scope) - 1
    BY <1>1, <1>6, <2>1, PopScope
  <2> QED
    BY <1>6, <2>2
<1>8. /\ IsSeq(scope') /\ DOMAIN scope' = 1 .. 1 /\ scope' # << >>
      /\ \A i \in DOMAIN scope' : DOMAIN scope'[i] \subseteq Names
  BY <1>7, SeqBasics DEF Scoped
<1>9. loopDepth = 0
  BY <1>1, <1>5 DEF IInv, LoopDepthIsExact
<1>10. TypeOK'
  BY <1>1, <1>2, <1>8, <1>9 DEF IInv, TypeOK
<1> QED
  BY <1>1, <1>7, <1>8, <1>9, <1>10, EmptyStack
     DEF IInv, StacksMirrorBlocks, LoopDepthIsExact

LEMMA NextIInv == IInv /\ [Next]_vars => IInv'
<1> SUFFICES ASSUME IInv, [Next]_vars PROVE IInv'
  OBVIOUS
<1>1. CASE GatherSig \/ StartChecking
  BY <1>1, GatherStep
<1>2. CASE EnterFunction
  BY <1>2, EnterStep
<1>3. CASE CheckStmt
  BY <1>3, StatementStep
<1>4. CASE LeaveFunction
  BY <1>4, LeaveStep
<1>5. CASE Accept
  BY <1>5 DEF Accept, IInv, TypeOK, StacksMirrorBlocks, LoopDepthIsExact
<1>6. CASE UNCHANGED vars
  BY <1>6 DEF vars, IInv, TypeOK, StacksMirrorBlocks, LoopDepthIsExact, Fn
<1> QED
  BY <1>1, <1>2, <1>3, <1>4, <1>5, <1>6 DEF Next, Analyze, Terminated

THEOREM SemaInvariant == Spec => []IInv
  BY InitIInv, NextIInv, PTL DEF Spec

-----------------------------------------------------------------------------
(* Whatever programs the parser hands over, the analyser's state keeps its *)
(* shape: no pop() ever empties the scope stack, whose top lookup() and    *)
(* declare() use unchecked.                                                *)
THEOREM SemaTypeCorrect == Spec => []TypeOK
<1>1. IInv => TypeOK
  BY DEF IInv
<1> QED
  BY <1>1, SemaInvariant, PTL

(* push() and pop() are balanced on every path of checkStmt: the scope     *)
(* stack and the vectors of deferred expressions mirror the open blocks.   *)
THEOREM SemaStacks == Spec => []StacksMirrorBlocks
<1>1. IInv => StacksMirrorBlocks
  BY DEF IInv
<1> QED
  BY <1>1, SemaInvariant, PTL

(* break and continue are judged by a counter that is the true loop depth, *)
(* in every function of every program.                                     *)
THEOREM SemaLoopDepth == Spec => []LoopDepthIsExact
<1>1. IInv => LoopDepthIsExact
  BY DEF IInv
<1> QED
  BY <1>1, SemaInvariant, PTL

-----------------------------------------------------------------------------
(* Deferred expressions: the statements that defer, whose                  *)
(* list is still open at p, and among them those of the n-th block; each   *)
(* has its expression at its place in the vector of its block, and vectors *)
(* hold nothing else.                                                      *)
OpenDefers(body, p) ==
  {d \in 1 .. p-1 : Defers(body[d]) /\ \A q \in d+1 .. p-1 : ~EndsList(body, d, q)}

Block(body, d) == 1 + BlockDepth(body, d)
OfBlock(body, p, n) == {d \in OpenDefers(body, p) : Block(body, d) = n}

Earlier(body, d) == {b \in 1 .. d-1 : SameList(body, b, d) /\ Defers(body[b])}
Place(body, d) == 1 + Cardinality(Earlier(body, d))
Kept(node) == IF node.k = "defer" THEN node.e ELSE Call("free", <<Var(node.x)>>)

InPlace(ds, body, d) ==
  /\ Block(body, d) \in 1 .. Len(ds)
  /\ Place(body, d) \in 1 .. Len(ds[Block(body, d)])
  /\ ds[Block(body, d)][Place(body, d)] = Kept(body[d])

Collects(ds, body, p) ==
  /\ \A d \in OpenDefers(body, p) : InPlace(ds, body, d)
  /\ \A n \in 1 .. Len(ds) : /\ IsSeq(ds[n])
                            /\ Len(ds[n]) = Cardinality(OfBlock(body, p, n))

LEMMA OpenDefersNext ==
  ASSUME NEW body, IsSeq(body), NEW p \in 1 .. Len(body)
  PROVE  OpenDefers(body, p + 1) =
           {d \in OpenDefers(body, p) : ~EndsList(body, d, p)}
             \cup IF Defers(body[p]) THEN {p} ELSE {}
<1>1. Len(body) \in Nat
  BY SeqBasics
<1>2. \A d \in 1 .. p-1 : d+1 .. (p+1)-1 = (d+1 .. p-1) \cup {p}
  BY <1>1
<1>3. 1 .. (p+1)-1 = (1 .. p-1) \cup {p} /\ p+1 .. (p+1)-1 = {}
  BY <1>1
<1> DEFINE Open(d, q) == \A i \in d+1 .. q-1 : ~EndsList(body, d, i)
<1>4. \A d \in 1 .. p-1 : Open(d, p+1) <=> Open(d, p) /\ ~EndsList(body, d, p)
  BY <1>2
<1>5. Open(p, p+1)
  BY <1>3
<1>6. /\ OpenDefers(body, p+1) = {d \in 1 .. (p+1)-1 : Defers(body[d]) /\ Open(d, p+1)}
      /\ OpenDefers(body, p) = {d \in 1 .. p-1 : Defers(body[d]) /\ Open(d, p)}
  BY DEF OpenDefers
<1> HIDE DEF Open
<1> QED
  BY <1>3, <1>4, <1>5, <1>6

(* the place of a statement about to be checked is behind the others of    *)
(* its block                                                               *)
LEMMA NextPlace ==
  ASSUME NEW body, IsSeq(body), NEW p \in 1 .. Len(body)
  PROVE  /\ Earlier(body, p) = OfBlock(body, p, Block(body, p))
         /\ IsFiniteSet(OfBlock(body, p, Block(body, p)))
<1>1. Len(body) \in Nat /\ p \in Nat
  BY SeqBasics
<1>2. ASSUME NEW b \in 1 .. p-1, Defers(body[b])
      PROVE  SameList(body, b, p) <=>
               /\ Block(body, b) = Block(body, p)
               /\ \A q \in b+1 .. p-1 : ~EndsList(body, b, q)
  <2>1. ~EndsList(body, b, b)
    BY <1>2 DEF EndsList, Defers
  <2>2. b .. p-1 = {b} \cup (b+1 .. p-1)
    BY <1>1
  <2>3. BlockDepth(body, b) \in Int /\ BlockDepth(body, p) \in Int
    BY <1>1, DepthType
  <2>4. Block(body, b) = Block(body, p) <=> BlockDepth(body, b) = BlockDepth(body, p)
    BY <2>3 DEF Block
  <2> QED
    BY <2>1, <2>2, <2>4 DEF SameList
<1>3. Earlier(body, p) = OfBlock(body, p, Block(body, p))
  BY <1>2 DEF Earlier, OfBlock, OpenDefers
<1>4. IsFiniteSet(1 .. p-1)
  BY <1>1, FS_Interval
<1>5. OfBlock(body, p, Block(body, p)) \subseteq 1 .. p-1
  BY DEF OfBlock, OpenDefers
<1> QED
  BY <1>3, <1>4, <1>5, FS_Subset

(* A node that defers nothing.                                             *)
LEMMA CollectsKept ==
  ASSUME NEW body, IsSeq(body), NEW p \in 1 .. Len(body), ~Defers(body[p]),
         NEW ds, Collects(ds, body, p), Len(ds) \in Nat,
         NEW k \in 0 .. Len(ds), NEW t, Len(t) \in Nat, k <= Len(t),
         \A n \in 1 .. k : t[n] = ds[n],
         \A n \in k+1 .. Len(t) : t[n] = << >>,
         \A d \in OpenDefers(body, p) : EndsList(body, d, p) <=> Block(body, d) > k
  PROVE  Collects(t, body, p + 1)
<1> DEFINE O == OpenDefers(body, p)   N == OpenDefers(body, p + 1)
<1>1. N = {d \in O : ~EndsList(body, d, p)}
  BY OpenDefersNext
<1>2. \A d \in O : InPlace(ds, body, d)
  BY DEF Collects
<1>3. \A d \in O : Block(body, d) \in 1 .. Len(ds)
  BY <1>2 DEF InPlace
<1>4. \A d : d \in N <=> d \in O /\ Block(body, d) <= k
  BY <1>1, <1>3
<1>5. \A n : OfBlock(body, p + 1, n) = {d \in N : Block(body, d) = n}
  BY DEF OfBlock
<1>6. \A n : OfBlock(body, p, n) = {d \in O : Block(body, d) = n}
  BY DEF OfBlock
<1> HIDE DEF O, N
<1>7. ASSUME NEW d \in N PROVE InPlace(t, body, d)
  <2>1. InPlace(ds, body, d) /\ Block(body, d) <= k /\ Block(body, d) \in 1 .. Len(ds)
    BY <1>2, <1>3, <1>4
  <2>2. Block(body, d) \in 1 .. k /\ Block(body, d) \in 1 .. Len(t)
    BY <2>1
  <2>3. t[Block(body, d)] = ds[Block(body, d)]
    BY <2>2
  <2> QED
    BY <2>1, <2>2, <2>3 DEF InPlace
<1>8. ASSUME NEW n \in 1 .. Len(t)
      PROVE  IsSeq(t[n]) /\ Len(t[n]) = Cardinality(OfBlock(body, p + 1, n))
  <2>1. CASE n \in 1 .. k
    <3>1. t[n] = ds[n] /\ n \in 1 .. Len(ds)
      BY <2>1
    <3>2. OfBlock(body, p + 1, n) = OfBlock(body, p, n)
      <4>1. n <= k
        BY <2>1
      <4>2. \A d : d \in N /\ Block(body, d) = n <=> d \in O /\ Block(body, d) = n
        BY <1>4, <4>1
      <4>3. {d \in N : Block(body, d) = n} = {d \in O : Block(body, d) = n}
        BY <4>2
      <4> QED
        BY <1>5, <1>6, <4>3
    <3> QED
      BY <3>1, <3>2 DEF Collects
  <2>2. CASE n \in k+1 .. Len(t)
    <3>1. OfBlock(body, p + 1, n) = {}
      BY <1>4, <1>5, <2>2
    <3>2. t[n] = << >>
      BY <2>2
    <3> QED
      BY <3>1, <3>2, FS_EmptySet, EmptyStack
  <2> QED
    BY <2>1, <2>2
<1> QED
  BY <1>7, <1>8 DEF Collects, N

(* A statement that defers: its expression goes behind those of its block. *)
LEMMA CollectsDeferred ==
  ASSUME NEW body, IsSeq(body), NEW p \in 1 .. Len(body), Defers(body[p]),
         NEW ds, IsSeq(ds), Collects(ds, body, p),
         Block(body, p) > 0, Len(ds) = Block(body, p)
  PROVE  Collects([ds EXCEPT ![Len(ds)] = Append(@, Kept(body[p]))], body, p + 1)
<1> DEFINE O == OpenDefers(body, p)   N == OpenDefers(body, p + 1)
           top == Len(ds)   e == Kept(body[p])
           v == Append(ds[top], e)
           t == [ds EXCEPT ![top] = v]
<1>1. N = O \cup {p} /\ p \notin O
  <2>1. N = O \cup {p}
    BY OpenDefersNext DEF EndsList, Defers
  <2>2. p \notin O
    BY SeqBasics DEF OpenDefers
  <2> QED
    BY <2>1, <2>2
<1>2. top \in Nat /\ top \in 1 .. Len(ds) /\ Block(body, p) = top
  BY SeqBasics
<1>3. Len(t) = Len(ds) /\ \A n \in 1 .. Len(ds) : t[n] = IF n = top THEN v ELSE ds[n]
  <2> HIDE DEF top, v
  <2> QED
    BY <1>2, StackSet
<1>4. IsSeq(ds[top]) /\ Len(ds[top]) = Cardinality(OfBlock(body, p, top))
  BY <1>2 DEF Collects
<1>5. /\ IsSeq(v) /\ Len(v) = Len(ds[top]) + 1 /\ v[Len(ds[top]) + 1] = e
      /\ \A i \in 1 .. Len(ds[top]) : v[i] = ds[top][i]
  <2> HIDE DEF top, e
  <2> QED
    BY <1>4, StackPush
<1>6. Len(ds[top]) \in Nat
  BY <1>4, SeqBasics
<1>7. Place(body, p) = Len(ds[top]) + 1
  <2>1. Earlier(body, p) = OfBlock(body, p, top)
    BY <1>2, NextPlace
  <2> QED
    BY <1>4, <1>6, <2>1 DEF Place
<1>8. \A d \in O : InPlace(ds, body, d)
  BY DEF Collects
<1>9. Kept(body[p]) = e
  OBVIOUS
<1>10. \A n : OfBlock(body, p + 1, n) = {d \in N : Block(body, d) = n}
  BY DEF OfBlock
<1>11. \A n : OfBlock(body, p, n) = {d \in O : Block(body, d) = n}
  BY DEF OfBlock
<1>12. t = [ds EXCEPT ![Len(ds)] = Append(@, Kept(body[p]))]
  OBVIOUS
<1> HIDE DEF O, N, t, v, e, top
<1>13. ASSUME NEW d \in N PROVE InPlace(t, body, d)
  <2>1. CASE d = p
    BY <1>2, <1>3, <1>5, <1>6, <1>7, <1>9, <2>1 DEF InPlace
  <2>2. CASE d \in O
    <3>1. /\ Block(body, d) \in 1 .. Len(ds)
          /\ Place(body, d) \in 1 .. Len(ds[Block(body, d)])
          /\ ds[Block(body, d)][Place(body, d)] = Kept(body[d])
      BY <1>8, <2>2 DEF InPlace
    <3>2. CASE Block(body, d) = top
      <4>1. t[Block(body, d)] = v
        BY <1>2, <1>3, <3>2
      <4>2. Place(body, d) \in 1 .. Len(v) /\ v[Place(body, d)] = Kept(body[d])
        BY <1>5, <1>6, <3>1, <3>2
      <4> QED
        BY <1>3, <3>1, <4>1, <4>2 DEF InPlace
    <3>3. CASE Block(body, d) # top
      BY <1>3, <3>1, <3>3 DEF InPlace
    <3> QED
      BY <3>2, <3>3
  <2> QED
    BY <1>1, <2>1, <2>2
<1>14. ASSUME NEW n \in 1 .. Len(t)
       PROVE  IsSeq(t[n]) /\ Len(t[n]) = Cardinality(OfBlock(body, p + 1, n))
  <2>0. n \in 1 .. Len(ds)
    BY <1>3
  <2>1. CASE n = top
    <3> DEFINE S == OfBlock(body, p, top)
    <3>1. OfBlock(body, p + 1, top) = S \cup {p} /\ p \notin S
      BY <1>1, <1>2, <1>10, <1>11
    <3>2. IsFiniteSet(S)
      BY <1>2, NextPlace
    <3>3. Len(ds[top]) = Cardinality(S)
      BY <1>4
    <3> HIDE DEF S
    <3>4. Cardinality(S \cup {p}) = Cardinality(S) + 1
      BY <3>1, <3>2, FS_AddElement
    <3> QED
      BY <1>3, <1>5, <2>0, <2>1, <3>1, <3>3, <3>4
  <2>2. CASE n # top
    <3>1. OfBlock(body, p + 1, n) = OfBlock(body, p, n)
      <4>1. {d \in N : Block(body, d) = n} = {d \in O : Block(body, d) = n}
        BY <1>1, <1>2, <2>2
      <4> QED
        BY <1>10, <1>11, <4>1
    <3>2. IsSeq(ds[n]) /\ Len(ds[n]) = Cardinality(OfBlock(body, p, n))
      BY <2>0 DEF Collects
    <3> QED
      BY <1>3, <2>0, <2>2, <3>1, <3>2
  <2> QED
    BY <2>1, <2>2
<1> QED
  BY <1>12, <1>13, <1>14 DEF Collects, N

-----------------------------------------------------------------------------
DeferInv == status = "check" => Collects(defers, Fn.body, pc)

LEMMA AtVectors ==
  ASSUME IInv, DeferInv, status = "check", pc <= Len(Fn.body)
  PROVE  /\ IsSeq(defers) /\ IsSeq(Fn.body) /\ pc \in 1 .. Len(Fn.body)
         /\ Collects(defers, Fn.body, pc)
         /\ BlockDepth(Fn.body, pc) \in Nat
         /\ Len(defers) = Block(Fn.body, pc)
         /\ \A d \in OpenDefers(Fn.body, pc) :
              /\ BlockDepth(Fn.body, d) \in Int
              /\ Block(Fn.body, d) <= Len(defers)
<1>1. cur \in 1 .. Len(prog) /\ pc \in Nat \ {0}
  BY DEF IInv, TypeOK
<1>2. IsSeq(Fn.body) /\ Len(Fn.body) \in Nat
  BY <1>1, CurrentFunction, SeqBasics DEF IInv
<1>3. /\ IsSeq(defers) /\ BlockDepth(Fn.body, pc) \in Nat
      /\ Len(defers) = Block(Fn.body, pc)
  BY AtStatement DEF Block
<1>4. Collects(defers, Fn.body, pc)
  BY DEF DeferInv
<1>5. ASSUME NEW d \in OpenDefers(Fn.body, pc)
      PROVE  BlockDepth(Fn.body, d) \in Int /\ Block(Fn.body, d) <= Len(defers)
  <2>1. d \in Int
    BY DEF OpenDefers
  <2>2. Block(Fn.body, d) <= Len(defers)
    BY <1>4 DEF Collects, InPlace
  <2> QED
    BY <2>1, <2>2, DepthType
<1> QED
  BY <1>1, <1>2, <1>3, <1>4, <1>5

LEMMA KeepVectors ==
  ASSUME IInv, DeferInv, status = "check", pc <= Len(Fn.body), Advance,
         Node.k \notin {"else", "endif", "endwhile"}, ~Defers(Node),
         defers' = defers \/ defers' = Append(defers, << >>)
  PROVE  DeferInv'
<1>1. /\ IsSeq(defers) /\ IsSeq(Fn.body) /\ pc \in 1 .. Len(Fn.body)
      /\ Collects(defers, Fn.body, pc)
      /\ \A d \in OpenDefers(Fn.body, pc) :
           BlockDepth(Fn.body, d) \in Int /\ Block(Fn.body, d) <= Len(defers)
  BY AtVectors
<1>2. Len(defers) \in Nat
  BY <1>1, SeqBasics
<1>3. /\ Len(defers) \in 0 .. Len(defers)
      /\ Len(defers') \in Nat /\ Len(defers) <= Len(defers')
      /\ \A n \in 1 .. Len(defers) : defers'[n] = defers[n]
      /\ \A n \in Len(defers)+1 .. Len(defers') : defers'[n] = << >>
  <2>1. CASE defers' = defers
    BY <1>2, <2>1
  <2>2. CASE defers' = Append(defers, << >>)
    <3>1. /\ Len(defers') = Len(defers) + 1
          /\ \A n \in 1 .. Len(defers) : defers'[n] = defers[n]
          /\ defers'[Len(defers) + 1] = << >>
      BY <1>1, <2>2, StackPush
    <3> QED
      BY <1>2, <3>1
  <2> QED
    BY <2>1, <2>2
<1>4. \A d \in OpenDefers(Fn.body, pc) :
        EndsList(Fn.body, d, pc) <=> Block(Fn.body, d) > Len(defers)
  <2>1. \A d : ~EndsList(Fn.body, d, pc)
    BY DEF EndsList, Node
  <2>2. \A d \in OpenDefers(Fn.body, pc) : Block(Fn.body, d) \in Int
    BY <1>1 DEF Block
  <2> QED
    BY <1>1, <1>2, <2>1, <2>2
<1>5. Collects(defers', Fn.body, pc + 1)
  BY <1>1, <1>2, <1>3, <1>4, CollectsKept DEF Node
<1> QED
  BY <1>5 DEF DeferInv, Advance, Fn

LEMMA PopVectors ==
  ASSUME IInv, DeferInv, status = "check", pc <= Len(Fn.body), Advance,
         Node.k \in {"else", "endif", "endwhile"},
         defers' = Front(defers) \/ defers' = Append(Front(defers), << >>)
  PROVE  DeferInv'
<1>1. /\ IsSeq(defers) /\ IsSeq(Fn.body) /\ pc \in 1 .. Len(Fn.body)
      /\ Collects(defers, Fn.body, pc)
      /\ BlockDepth(Fn.body, pc) \in Nat /\ Len(defers) = 1 + BlockDepth(Fn.body, pc)
      /\ \A d \in OpenDefers(Fn.body, pc) :
           BlockDepth(Fn.body, d) \in Int /\ Block(Fn.body, d) <= Len(defers)
  BY AtVectors DEF Block
<1> DEFINE k == Len(defers) - 1
<1>2. k \in 0 .. Len(defers) /\ Len(defers) \in Nat /\ defers # << >>
  BY <1>1, SeqBasics
<1>3. /\ IsSeq(Front(defers)) /\ Len(Front(defers)) = k
      /\ \A n \in 1 .. k : Front(defers)[n] = defers[n]
  BY <1>1, <1>2, StackPop
<1>4. /\ Len(defers') \in Nat /\ k <= Len(defers')
      /\ \A n \in 1 .. k : defers'[n] = defers[n]
      /\ \A n \in k+1 .. Len(defers') : defers'[n] = << >>
  <2>1. CASE defers' = Front(defers)
    BY <1>2, <1>3, <2>1
  <2>2. CASE defers' = Append(Front(defers), << >>)
    <3>1. /\ Len(defers') = k + 1
          /\ \A n \in 1 .. k : defers'[n] = Front(defers)[n]
          /\ defers'[k + 1] = << >>
      BY <1>3, <2>2, StackPush
    <3> QED
      BY <1>2, <1>3, <3>1
  <2> QED
    BY <2>1, <2>2
<1>5. \A d \in OpenDefers(Fn.body, pc) :
        EndsList(Fn.body, d, pc) <=> Block(Fn.body, d) > k
  BY <1>1 DEF EndsList, Block, Node
<1>6. ~Defers(Fn.body[pc])
  BY DEF Defers, Node
<1>7. Collects(defers', Fn.body, pc + 1)
  <2> HIDE DEF k
  <2> QED
    BY <1>1, <1>2, <1>4, <1>5, <1>6, CollectsKept
<1> QED
  BY <1>7 DEF DeferInv, Advance, Fn

LEMMA AppendVector ==
  ASSUME IInv, DeferInv, status = "check", pc <= Len(Fn.body), Advance,
         Defers(Node), defers' = DeferLast(Kept(Node))
  PROVE  DeferInv'
<1>1. /\ IsSeq(defers) /\ IsSeq(Fn.body) /\ pc \in 1 .. Len(Fn.body)
      /\ Collects(defers, Fn.body, pc) /\ BlockDepth(Fn.body, pc) \in Nat
      /\ Len(defers) = Block(Fn.body, pc)
  BY AtVectors
<1>2. Block(Fn.body, pc) > 0
  BY <1>1 DEF Block
<1>3. Collects([defers EXCEPT ![Len(defers)] = Append(@, Kept(Fn.body[pc]))], Fn.body, pc + 1)
  BY <1>1, <1>2, CollectsDeferred DEF Node
<1>4. defers' = [defers EXCEPT ![Len(defers)] = Append(@, Kept(Fn.body[pc]))]
  BY DEF DeferLast, Node
<1>5. Collects(defers', Fn.body, pc + 1)
  BY <1>3, <1>4
<1> QED
  BY <1>5 DEF DeferInv, Advance, Fn

LEMMA StatementVectors == IInv /\ DeferInv /\ CheckStmt => DeferInv'
<1> SUFFICES ASSUME IInv, DeferInv, CheckStmt PROVE DeferInv'
  OBVIOUS
<1>1. CASE Fatal
  BY <1>1 DEF Fatal, DeferInv
<1>2. CASE ~Fatal /\ CheckLet
  <2>1. status = "check" /\ pc <= Len(Fn.body) /\ Node.k = "let" /\ Advance
    BY <1>2 DEF CheckLet, At
  <2>2. CASE Node.uniq
    <3>1. Defers(Node) /\ defers' = DeferLast(Kept(Node))
      BY <1>2, <2>1, <2>2 DEF CheckLet, Defers, Kept
    <3> QED
      BY <2>1, <3>1, AppendVector
  <2>3. CASE ~Node.uniq
    <3>1. ~Defers(Node) /\ defers' = defers
      BY <1>2, <2>1, <2>3 DEF CheckLet, Defers
    <3> QED
      BY <2>1, <3>1, KeepVectors
  <2> QED
    BY <2>2, <2>3
<1>3. CASE CheckDefer
  <2>1. /\ status = "check" /\ pc <= Len(Fn.body) /\ Node.k = "defer" /\ Advance
        /\ defers' = DeferLast(Node.e)
    BY <1>3 DEF CheckDefer, At
  <2>2. Defers(Node) /\ Kept(Node) = Node.e
    BY <2>1 DEF Defers, Kept
  <2> QED
    BY <2>1, <2>2, AppendVector
<1>4. CASE ~Fatal /\ (CheckExpr \/ CheckReturn \/ CheckBreak \/ CheckContinue)
  <2>1. /\ status = "check" /\ pc <= Len(Fn.body)
        /\ Node.k \in {"expr", "return", "break", "continue"}
    BY <1>4 DEF CheckExpr, CheckReturn, CheckBreak, CheckContinue, At
  <2>2. Advance /\ defers' = defers
    BY <1>4 DEF CheckExpr, CheckReturn, CheckBreak, CheckContinue
  <2> QED
    BY <2>1, <2>2, KeepVectors DEF Defers
<1>5. CASE ~Fatal /\ (CheckIf \/ CheckWhile)
  <2>1. status = "check" /\ pc <= Len(Fn.body) /\ Node.k \in {"if", "while"}
    BY <1>5 DEF CheckIf, CheckWhile, At
  <2>2. Advance /\ defers' = Append(defers, << >>)
    BY <1>5 DEF CheckIf, CheckWhile, Push
  <2> QED
    BY <2>1, <2>2, KeepVectors DEF Defers
<1>6. CASE CheckElse \/ CheckEndIf \/ CheckEndWhile
  <2>1. status = "check" /\ pc <= Len(Fn.body) /\ Node.k \in {"else", "endif", "endwhile"}
    BY <1>6 DEF CheckElse, CheckEndIf, CheckEndWhile, At
  <2>2. Advance /\ (defers' = Front(defers) \/ defers' = Append(Front(defers), << >>))
    BY <1>6 DEF CheckElse, CheckEndIf, CheckEndWhile, Push
  <2> QED
    BY <2>1, <2>2, PopVectors
<1> QED
  BY <1>1, <1>2, <1>3, <1>4, <1>5, <1>6 DEF CheckStmt

LEMMA EnterVectors == EnterFunction => DeferInv'
<1> SUFFICES ASSUME EnterFunction PROVE DeferInv'
  OBVIOUS
<1>1. prog' = prog /\ cur' = cur /\ pc' = 1 /\ defers' = << << >> >>
  BY DEF EnterFunction
<1>2. OpenDefers(Fn.body, 1) = {} /\ \A n : OfBlock(Fn.body, 1, n) = {}
  BY DEF OpenDefers, OfBlock
<1>3. Len(<< << >> >>) = 1 /\ << << >> >>[1] = << >>
  BY OneEntryStack
<1>4. Collects(<< << >> >>, Fn.body, 1)
  <2> DEFINE ds == << << >> >>
  <2>1. Len(ds) = 1 /\ ds[1] = << >>
    BY <1>3
  <2> HIDE DEF ds
  <2>2. \A n \in 1 .. Len(ds) : ds[n] = << >>
    BY <2>1
  <2>3. Collects(ds, Fn.body, 1)
    BY <1>2, <2>2, EmptyStack, FS_EmptySet DEF Collects
  <2> QED
    BY <2>3 DEF ds
<1>5. Collects(defers', Fn.body, 1)
  BY <1>1, <1>4
<1> QED
  BY <1>1, <1>5 DEF DeferInv, Fn

LEMMA NextDeferInv == IInv /\ DeferInv /\ [Next]_vars => DeferInv'
<1> SUFFICES ASSUME IInv, DeferInv, [Next]_vars PROVE DeferInv'
  OBVIOUS
<1>1. CASE GatherSig \/ StartChecking
  BY <1>1 DEF GatherSig, StartChecking, Fatal, DeferInv
<1>2. CASE EnterFunction
  BY <1>2, EnterVectors
<1>3. CASE CheckStmt
  BY <1>3, StatementVectors
<1>4. CASE LeaveFunction \/ Accept
  BY <1>4 DEF LeaveFunction, Accept, DeferInv
<1>5. CASE UNCHANGED vars
  BY <1>5 DEF vars, DeferInv, Fn
<1> QED
  BY <1>1, <1>2, <1>3, <1>4, <1>5 DEF Next, Analyze, Terminated

LEMMA DeferInvMeans == IInv /\ DeferInv => DefersOfOpenBlocks
<1> SUFFICES ASSUME IInv, DeferInv, status = "check" PROVE DefersOfOpenBlocks
  BY DEF DefersOfOpenBlocks
<1>1. IsSeq(defers)
  BY DEF IInv
<1>2. DOMAIN defers = 1 .. Len(defers)
  BY <1>1, SeqBasics
<1>3. Collects(defers, Fn.body, pc)
  BY DEF DeferInv
<1>4. ASSUME NEW d \in OpenDefers(Fn.body, pc)
      PROVE  defers[Block(Fn.body, d)][Place(Fn.body, d)] = Kept(Fn.body[d])
  BY <1>3 DEF Collects, InPlace
<1>5. ASSUME NEW n \in DOMAIN defers
      PROVE  Len(defers[n]) = Cardinality(OfBlock(Fn.body, pc, n))
  BY <1>2, <1>3 DEF Collects
<1> QED
  BY <1>4, <1>5 DEF DefersOfOpenBlocks, OpenDefers, OfBlock, Place, Block, Earlier, Kept

(* Deferred expressions, those of unique variables too, are collected in   *)
(* the vector of their own block and in their order, whatever blocks open  *)
(* and close between them, and nothing else is in it (sema.cpp:141-144,    *)
(* 165-196).                                                               *)
THEOREM SemaDefersOfOpenBlocks == Spec => []DefersOfOpenBlocks
<1>1. Init => IInv /\ DeferInv
  BY InitIInv DEF Init, Start, DeferInv
<1>2. IInv /\ DeferInv /\ [Next]_vars => (IInv /\ DeferInv)'
  BY NextIInv, NextDeferInv
<1> QED
  BY <1>1, <1>2, DeferInvMeans, PTL DEF Spec

-----------------------------------------------------------------------------
(* Names.                                                                  *)
(* the declarations before p whose statement list is open at p *)
OpenLets(body, p) ==
  {d \in 1 .. p-1 : body[d].k = "let" /\ \A q \in d+1 .. p-1 : ~EndsList(body, d, q)}

(* the entry of a stack of scopes that a declaration belongs in *)
Level(body, d) == BlockDepth(body, d) + 2

Entry(s, n, x, site) == n \in 1 .. Len(s) /\ x \in DOMAIN s[n] /\ s[n][x].site = site

(* A stack of scopes holds every open declaration, and every parameter, at *)
(* its level, and nothing else.  Deeper declarations come later: that is   *)
(* why the innermost one is the last one.                                  *)
Holds(s, fn, p) ==
  /\ \A d \in OpenLets(fn.body, p) : /\ Level(fn.body, d) > 1
                                     /\ Entry(s, Level(fn.body, d), fn.body[d].x, d)
  /\ \A x : ParamSite(fn.params, x) # NoSite => Entry(s, 2, x, ParamSite(fn.params, x))

HoldsOnly(s, fn, p) ==
  \A n \in 1 .. Len(s) : \A x \in DOMAIN s[n] :
    \/ /\ s[n][x].site \in OpenLets(fn.body, p)
       /\ fn.body[s[n][x].site].x = x
       /\ Level(fn.body, s[n][x].site) = n
    \/ /\ n = 2
       /\ s[n][x].site = ParamSite(fn.params, x)
       /\ ParamSite(fn.params, x) # NoSite

DeeperIsLater(body, p) ==
  \A d, e \in OpenLets(body, p) : Level(body, d) < Level(body, e) => d < e

Mirrors(s, fn, p) ==
  Holds(s, fn, p) /\ HoldsOnly(s, fn, p) /\ DeeperIsLater(fn.body, p)

-----------------------------------------------------------------------------
(* One node more: a declaration is opened, or the end of a list closes the *)
(* declarations of that list.                                              *)
LEMMA OpenLetsNext ==
  ASSUME NEW body, IsSeq(body), NEW p \in 1 .. Len(body)
  PROVE  OpenLets(body, p + 1) =
           {d \in OpenLets(body, p) : ~EndsList(body, d, p)}
             \cup IF body[p].k = "let" THEN {p} ELSE {}
<1>1. Len(body) \in Nat
  BY SeqBasics
<1>2. \A d \in 1 .. p-1 : d+1 .. (p+1)-1 = (d+1 .. p-1) \cup {p}
  BY <1>1
<1>3. 1 .. (p+1)-1 = (1 .. p-1) \cup {p} /\ p+1 .. (p+1)-1 = {}
  BY <1>1
<1> DEFINE Open(d, q) == \A i \in d+1 .. q-1 : ~EndsList(body, d, i)
<1>4. \A d \in 1 .. p-1 : Open(d, p+1) <=> Open(d, p) /\ ~EndsList(body, d, p)
  BY <1>2
<1>5. Open(p, p+1)
  BY <1>3
<1>6. /\ OpenLets(body, p+1) = {d \in 1 .. (p+1)-1 : body[d].k = "let" /\ Open(d, p+1)}
      /\ OpenLets(body, p) = {d \in 1 .. p-1 : body[d].k = "let" /\ Open(d, p)}
  BY DEF OpenLets
<1> HIDE DEF Open
<1> QED
  BY <1>3, <1>4, <1>5, <1>6

LEMMA OpenLetsBasics ==
  ASSUME NEW body, IsSeq(body), NEW p \in 1 .. Len(body) + 1, NEW d \in OpenLets(body, p)
  PROVE  d \in 1 .. p-1 /\ d \in Nat \ {0} /\ body[d].k = "let" /\ Level(body, d) \in Int
<1>1. Len(body) \in Nat
  BY SeqBasics
<1>2. d \in 1 .. p-1 /\ d \in Nat \ {0} /\ body[d].k = "let"
  BY <1>1 DEF OpenLets
<1>3. BlockDepth(body, d) \in Int
  BY <1>2, DepthType
<1> QED
  BY <1>2, <1>3 DEF Level

-----------------------------------------------------------------------------
(* A node that declares nothing: the scopes that are kept, up to the k-th, *)
(* stay as they are, the others are new, and the declarations whose list   *)
(* it ends are those of the scopes that are not kept.                      *)
LEMMA MirrorsKept ==
  ASSUME NEW fn, IsSeq(fn.body), NEW p \in 1 .. Len(fn.body), fn.body[p].k # "let",
         NEW s, Mirrors(s, fn, p), Len(s) \in Nat,
         NEW k \in 2 .. Len(s), NEW t, Len(t) \in Nat, k <= Len(t),
         \A n \in 1 .. k : t[n] = s[n],
         \A n \in k+1 .. Len(t) : DOMAIN t[n] = {},
         \A d \in OpenLets(fn.body, p) : EndsList(fn.body, d, p) <=> Level(fn.body, d) > k
  PROVE  Mirrors(t, fn, p + 1)
<1> DEFINE O == OpenLets(fn.body, p)   N == OpenLets(fn.body, p + 1)
<1>1. N = {d \in O : ~EndsList(fn.body, d, p)}
  BY OpenLetsNext
<1>2. \A d \in O : Level(fn.body, d) \in Int
  <2>1. p \in 1 .. Len(fn.body) + 1
    BY SeqBasics
  <2> QED
    BY <2>1, OpenLetsBasics
<1>3. \A d : d \in N <=> d \in O /\ Level(fn.body, d) <= k
  BY <1>1, <1>2
<1>4. Holds(s, fn, p) /\ HoldsOnly(s, fn, p) /\ DeeperIsLater(fn.body, p)
  BY DEF Mirrors
<1> HIDE DEF O, N
<1>5. Holds(t, fn, p + 1)
  <2>1. ASSUME NEW d \in N
        PROVE  /\ Level(fn.body, d) > 1
               /\ Entry(t, Level(fn.body, d), fn.body[d].x, d)
    <3>1. d \in O /\ Level(fn.body, d) <= k /\ Level(fn.body, d) \in Int
      BY <1>2, <1>3
    <3>2. /\ Level(fn.body, d) > 1
          /\ Entry(s, Level(fn.body, d), fn.body[d].x, d)
      BY <1>4, <3>1 DEF Holds, O
    <3> QED
      BY <3>1, <3>2 DEF Entry
  <2>2. ASSUME NEW x, ParamSite(fn.params, x) # NoSite
        PROVE  Entry(t, 2, x, ParamSite(fn.params, x))
    <3>1. Entry(s, 2, x, ParamSite(fn.params, x))
      BY <1>4, <2>2 DEF Holds
    <3> QED
      BY <3>1 DEF Entry
  <2> QED
    BY <2>1, <2>2 DEF Holds, N
<1>6. HoldsOnly(t, fn, p + 1)
  <2> SUFFICES ASSUME NEW n \in 1 .. Len(t), NEW x \in DOMAIN t[n]
               PROVE  \/ /\ t[n][x].site \in N
                         /\ fn.body[t[n][x].site].x = x
                         /\ Level(fn.body, t[n][x].site) = n
                      \/ /\ n = 2
                         /\ t[n][x].site = ParamSite(fn.params, x)
                         /\ ParamSite(fn.params, x) # NoSite
    BY DEF HoldsOnly, N
  <2>1. n \in 1 .. k
    OBVIOUS
  <2>2. t[n] = s[n] /\ n \in 1 .. Len(s)
    BY <2>1
  <2>3. \/ /\ s[n][x].site \in O
           /\ fn.body[s[n][x].site].x = x
           /\ Level(fn.body, s[n][x].site) = n
        \/ /\ n = 2
           /\ s[n][x].site = ParamSite(fn.params, x)
           /\ ParamSite(fn.params, x) # NoSite
    BY <1>4, <2>2 DEF HoldsOnly, O
  <2> QED
    BY <1>3, <2>1, <2>2, <2>3
<1>7. DeeperIsLater(fn.body, p + 1)
  BY <1>3, <1>4 DEF DeeperIsLater, O, N
<1> QED
  BY <1>5, <1>6, <1>7 DEF Mirrors

(* A declaration: its name is new in the top scope, so no entry is lost.   *)
LEMMA MirrorsDeclared ==
  ASSUME NEW fn, IsSeq(fn.body), NEW p \in 1 .. Len(fn.body), fn.body[p].k = "let",
         NEW s, IsSeq(s), Mirrors(s, fn, p),
         Level(fn.body, p) > 1, Len(s) = Level(fn.body, p),
         fn.body[p].x \notin DOMAIN s[Len(s)],
         NEW info, info.site = p
  PROVE  Mirrors([s EXCEPT ![Len(s)] = Bind(@, fn.body[p].x, info)], fn, p + 1)
<1> DEFINE O == OpenLets(fn.body, p)   N == OpenLets(fn.body, p + 1)
           top == Len(s)   y == fn.body[p].x
           v == Bind(s[top], y, info)
           t == [s EXCEPT ![top] = v]
<1>1. N = O \cup {p}
  BY OpenLetsNext DEF EndsList
<1>2. p \in 1 .. Len(fn.body) + 1 /\ Len(s) \in Nat /\ p \in Int
  BY SeqBasics
<1>3. \A d \in O : d \in 1 .. p-1 /\ d \in Nat /\ Level(fn.body, d) \in Int
  BY <1>2, OpenLetsBasics
<1>4. Holds(s, fn, p) /\ HoldsOnly(s, fn, p) /\ DeeperIsLater(fn.body, p)
  BY DEF Mirrors
<1>5. top \in 1 .. Len(s) /\ top > 1
  BY <1>2
<1>6. /\ Len(t) = Len(s)
      /\ \A n \in 1 .. Len(s) : t[n] = IF n = top THEN v ELSE s[n]
  <2> HIDE DEF top, v
  <2> QED
    BY <1>5, StackSet
<1>7. DOMAIN v = DOMAIN s[top] \cup {y} /\ v[y] = info /\ \A x \in DOMAIN s[top] : v[x] = s[top][x]
  BY DEF Bind
<1>8. y \notin DOMAIN s[top] /\ Level(fn.body, p) = top
  OBVIOUS
<1>9. \A n, x, site : Entry(s, n, x, site) => Entry(t, n, x, site)
  <2> SUFFICES ASSUME NEW n, NEW x, NEW site, Entry(s, n, x, site)
               PROVE  Entry(t, n, x, site)
    OBVIOUS
  <2>1. n \in 1 .. Len(s) /\ x \in DOMAIN s[n] /\ s[n][x].site = site
    BY DEF Entry
  <2> HIDE DEF t, v, y
  <2>2. x \in DOMAIN t[n] /\ t[n][x] = s[n][x]
    BY <1>6, <1>7, <2>1
  <2> QED
    BY <1>6, <2>1, <2>2 DEF Entry
<1>10. Entry(t, top, y, p)
  <2> HIDE DEF t, v, y, top
  <2> QED
    BY <1>5, <1>6, <1>7 DEF Entry
<1> HIDE DEF O, N, t, v, y, top
<1>11. Holds(t, fn, p + 1)
  <2>1. ASSUME NEW d \in N
        PROVE  /\ Level(fn.body, d) > 1
               /\ Entry(t, Level(fn.body, d), fn.body[d].x, d)
    <3>1. CASE d \in O
      BY <1>4, <1>9, <3>1 DEF Holds, O
    <3>2. CASE d = p
      BY <1>5, <1>8, <1>10, <3>2 DEF y
    <3> QED
      BY <1>1, <3>1, <3>2
  <2>2. ASSUME NEW x, ParamSite(fn.params, x) # NoSite
        PROVE  Entry(t, 2, x, ParamSite(fn.params, x))
    BY <1>4, <1>9, <2>2 DEF Holds
  <2> QED
    BY <2>1, <2>2 DEF Holds, N
<1>12. HoldsOnly(t, fn, p + 1)
  <2> SUFFICES ASSUME NEW n \in 1 .. Len(t), NEW x \in DOMAIN t[n]
               PROVE  \/ /\ t[n][x].site \in N
                         /\ fn.body[t[n][x].site].x = x
                         /\ Level(fn.body, t[n][x].site) = n
                      \/ /\ n = 2
                         /\ t[n][x].site = ParamSite(fn.params, x)
                         /\ ParamSite(fn.params, x) # NoSite
    BY DEF HoldsOnly, N
  <2>0. n \in 1 .. Len(s)
    BY <1>6
  <2>1. CASE n = top /\ x = y
    BY <1>1, <1>6, <1>7, <1>8, <2>0, <2>1 DEF y
  <2>2. CASE ~(n = top /\ x = y)
    <3>1. x \in DOMAIN s[n] /\ t[n][x] = s[n][x]
      BY <1>6, <1>7, <2>0, <2>2
    <3>2. \/ /\ s[n][x].site \in O
             /\ fn.body[s[n][x].site].x = x
             /\ Level(fn.body, s[n][x].site) = n
          \/ /\ n = 2
             /\ s[n][x].site = ParamSite(fn.params, x)
             /\ ParamSite(fn.params, x) # NoSite
      BY <1>4, <2>0, <3>1 DEF HoldsOnly, O
    <3> QED
      BY <1>1, <3>1, <3>2
  <2> QED
    BY <2>1, <2>2
<1>13. DeeperIsLater(fn.body, p + 1)
  <2> SUFFICES ASSUME NEW d \in N, NEW e \in N, Level(fn.body, d) < Level(fn.body, e)
               PROVE  d < e
    BY DEF DeeperIsLater, N
  <2>1. \A f \in O : Level(fn.body, f) <= top
    BY <1>4 DEF Holds, Entry, O, top
  <2>2. CASE d \in O /\ e \in O
    BY <1>4, <2>2 DEF DeeperIsLater, O
  <2>3. CASE d \in O /\ e = p
    BY <1>2, <1>3, <2>3
  <2>4. CASE d = p /\ e \in O
    BY <1>2, <1>3, <1>8, <2>1, <2>4 DEF top
  <2>5. CASE d = p /\ e = p
    BY <1>2, <1>5, <1>8, <2>5 DEF top
  <2> QED
    BY <1>1, <2>2, <2>3, <2>4, <2>5
<1>14. t = [s EXCEPT ![Len(s)] = Bind(@, fn.body[p].x, info)]
  BY DEF t, v, y, top
<1> QED
  BY <1>11, <1>12, <1>13, <1>14 DEF Mirrors

-----------------------------------------------------------------------------
(* the innermost entry of a name *)
Found(s, x) == Max({i \in DOMAIN s : x \in DOMAIN s[i]})

(* In a stack that mirrors the open blocks, looking a name up from the top *)
(* is lexical scoping.                                                     *)
LEMMA MirrorsResolve ==
  ASSUME NEW fn, IsSeq(fn.body), IsSeq(fn.params), NEW p \in 1 .. Len(fn.body) + 1,
         NEW s, IsSeq(s), Mirrors(s, fn, p), NEW x
  PROVE  /\ Lexical(fn, p, x) # NoSite <=> \E i \in DOMAIN s : x \in DOMAIN s[i]
         /\ (\E i \in DOMAIN s : x \in DOMAIN s[i]) =>
              s[Found(s, x)][x].site = Lexical(fn, p, x)
<1> DEFINE O == OpenLets(fn.body, p)
           ds == {d \in O : fn.body[d].x = x}
           lev == {i \in DOMAIN s : x \in DOMAIN s[i]}
           param == ParamSite(fn.params, x)
<1>1. Len(fn.body) \in Nat /\ Len(s) \in Nat /\ DOMAIN s = 1 .. Len(s)
  BY SeqBasics
<1>2. \A d \in O : d \in 1 .. p-1 /\ d \in Nat \ {0} /\ Level(fn.body, d) \in Int
  BY OpenLetsBasics
<1>3. Holds(s, fn, p) /\ HoldsOnly(s, fn, p) /\ DeeperIsLater(fn.body, p)
  BY DEF Mirrors
<1>4. param \in Int /\ param <= 0
  BY ParamSites
<1>5. Lexical(fn, p, x) = IF ds = {} THEN param ELSE Max(ds)
  <2>1. ds = {d \in 1 .. p-1 : /\ fn.body[d].k = "let"
                               /\ fn.body[d].x = x
                               /\ \A q \in d+1 .. p-1 : ~EndsList(fn.body, d, q)}
    BY DEF OpenLets
  <2> QED
    BY <2>1 DEF Lexical
<1>6. ds # {} => Max(ds) \in ds /\ \A d \in ds : d <= Max(ds)
  <2>1. ds \in SUBSET (0 .. p-1) /\ p-1 \in Nat
    BY <1>1, <1>2
  <2> HIDE DEF ds
  <2> QED
    BY <2>1, GreatestNumber
<1>7. lev # {} => Max(lev) \in lev /\ \A i \in lev : i <= Max(lev)
  <2>1. lev \in SUBSET (0 .. Len(s))
    BY <1>1
  <2> HIDE DEF lev
  <2> QED
    BY <1>1, <2>1, GreatestNumber
<1>8. \A d \in ds : /\ Level(fn.body, d) \in lev
                    /\ s[Level(fn.body, d)][x].site = d
                    /\ Level(fn.body, d) > 1
  BY <1>1, <1>3 DEF Holds, Entry
<1>9. param # NoSite => 2 \in lev /\ s[2][x].site = param
  BY <1>1, <1>3 DEF Holds, Entry
<1>10. \A i \in lev :
          \/ s[i][x].site \in ds /\ Level(fn.body, s[i][x].site) = i
          \/ i = 2 /\ s[i][x].site = param /\ param # NoSite
  BY <1>1, <1>3 DEF HoldsOnly
<1>11. \A d, e \in ds : Level(fn.body, d) < Level(fn.body, e) => d < e
  BY <1>3 DEF DeeperIsLater
<1>12. ds = {} /\ param = NoSite <=> lev = {}
  BY <1>8, <1>9, <1>10
<1>13. \A d \in ds : d \in Nat \ {0} /\ Level(fn.body, d) \in Int
  BY <1>2
<1>14. lev \in SUBSET Int
  BY <1>1
<1> HIDE DEF ds, lev, param, O
<1>15. Lexical(fn, p, x) # NoSite <=> lev # {}
  BY <1>5, <1>6, <1>12, <1>13 DEF NoSite
<1>16. ASSUME lev # {} PROVE s[Max(lev)][x].site = Lexical(fn, p, x)
  <2> DEFINE m == Max(lev)   site == s[m][x].site
  <2>1. m \in lev /\ \A i \in lev : i <= m
    BY <1>7, <1>16
  <2>2. CASE site \in ds /\ Level(fn.body, site) = m
    <3>1. \A d \in ds : d <= site
      <4> SUFFICES ASSUME NEW d \in ds PROVE d <= site
        OBVIOUS
      <4>1. Level(fn.body, d) <= m /\ Level(fn.body, d) \in Int /\ m \in Int
        BY <1>8, <1>13, <1>14, <2>1
      <4>2. CASE Level(fn.body, d) = m
        BY <1>8, <1>13, <2>2, <4>2
      <4>3. CASE Level(fn.body, d) < m
        BY <1>11, <1>13, <2>2, <4>3
      <4> QED
        BY <4>1, <4>2, <4>3
    <3>2. Max(ds) \in ds /\ site <= Max(ds) /\ Max(ds) <= site
      BY <1>6, <2>2, <3>1
    <3>3. Max(ds) = site
      BY <1>13, <2>2, <3>2
    <3> QED
      BY <1>5, <2>2, <3>3
  <2>3. CASE m = 2 /\ site = param /\ param # NoSite
    <3>1. ds = {}
      <4> SUFFICES ASSUME NEW d \in ds PROVE FALSE
        OBVIOUS
      <4>1. Level(fn.body, d) = 2
        BY <1>8, <1>13, <2>1, <2>3
      <4>2. d = param
        BY <1>8, <2>3, <4>1
      <4> QED
        BY <1>4, <1>13, <4>2
    <3> QED
      BY <1>5, <2>3, <3>1
  <2> QED
    BY <1>10, <2>1, <2>2, <2>3
<1>17. lev = {i \in DOMAIN s : x \in DOMAIN s[i]} /\ Found(s, x) = Max(lev)
  BY DEF Found, lev
<1> QED
  BY <1>15, <1>16, <1>17

-----------------------------------------------------------------------------
(* Between functions nothing is in scope; in a body the stack mirrors it.  *)
LexInv ==
  /\ status \in {"gather", "enter"} => DOMAIN scope[1] = {}
  /\ status = "check" => Mirrors(scope, Fn, pc)

(* what both invariants give a statement about to be checked *)
LEMMA AtMirror ==
  ASSUME IInv, LexInv, status = "check", pc <= Len(Fn.body)
  PROVE  /\ IsSeq(scope) /\ IsSeq(Fn.body) /\ pc \in 1 .. Len(Fn.body)
         /\ Mirrors(scope, Fn, pc)
         /\ BlockDepth(Fn.body, pc) \in Nat
         /\ Len(scope) = 2 + BlockDepth(Fn.body, pc)
         /\ \A d \in OpenLets(Fn.body, pc) :
              /\ BlockDepth(Fn.body, d) \in Int
              /\ Level(Fn.body, d) <= Len(scope)
<1>1. cur \in 1 .. Len(prog) /\ pc \in Nat \ {0}
  BY DEF IInv, TypeOK
<1>2. IsSeq(Fn.body) /\ Len(Fn.body) \in Nat
  BY <1>1, CurrentFunction, SeqBasics DEF IInv
<1>3. /\ IsSeq(scope) /\ BlockDepth(Fn.body, pc) \in Nat
      /\ Len(scope) = 2 + BlockDepth(Fn.body, pc)
  BY AtStatement DEF Scoped
<1>4. Mirrors(scope, Fn, pc)
  BY DEF LexInv
<1>5. pc \in 1 .. Len(Fn.body) + 1
  BY <1>1, <1>2
<1>6. ASSUME NEW d \in OpenLets(Fn.body, pc)
      PROVE  BlockDepth(Fn.body, d) \in Int /\ Level(Fn.body, d) <= Len(scope)
  <2>1. d \in Int
    BY <1>2, <1>5, OpenLetsBasics
  <2>2. Level(Fn.body, d) <= Len(scope)
    BY <1>3, <1>4 DEF Mirrors, Holds, Entry
  <2> QED
    BY <2>1, <2>2, DepthType
<1> QED
  BY <1>1, <1>2, <1>3, <1>4, <1>6

(* Statements that leave the scopes alone, or open one.                    *)
LEMMA KeepScopes ==
  ASSUME IInv, LexInv, status = "check", pc <= Len(Fn.body), Advance,
         Node.k \notin {"let", "else", "endif", "endwhile"},
         scope' = scope \/ scope' = Append(scope, Nothing)
  PROVE  LexInv'
<1>1. /\ IsSeq(scope) /\ IsSeq(Fn.body) /\ pc \in 1 .. Len(Fn.body)
      /\ Mirrors(scope, Fn, pc) /\ BlockDepth(Fn.body, pc) \in Nat
      /\ Len(scope) = 2 + BlockDepth(Fn.body, pc)
      /\ \A d \in OpenLets(Fn.body, pc) : Level(Fn.body, d) <= Len(scope)
  BY AtMirror
<1>2. /\ Len(scope) \in 2 .. Len(scope) /\ Len(scope) \in Nat
      /\ Len(scope') \in Nat /\ Len(scope) <= Len(scope')
      /\ \A n \in 1 .. Len(scope) : scope'[n] = scope[n]
      /\ \A n \in Len(scope)+1 .. Len(scope') : DOMAIN scope'[n] = {}
  <2>1. CASE scope' = scope
    BY <1>1, <2>1
  <2>2. CASE scope' = Append(scope, Nothing)
    <3>1. /\ Len(scope') = Len(scope) + 1
          /\ \A n \in 1 .. Len(scope) : scope'[n] = scope[n]
          /\ scope'[Len(scope) + 1] = Nothing
      BY <1>1, <2>2, StackPush
    <3> QED
      BY <1>1, <3>1 DEF Nothing
  <2> QED
    BY <2>1, <2>2
<1>3. \A d \in OpenLets(Fn.body, pc) :
        EndsList(Fn.body, d, pc) <=> Level(Fn.body, d) > Len(scope)
  <2>1. \A d : ~EndsList(Fn.body, d, pc)
    BY DEF EndsList, Node
  <2>2. \A d \in OpenLets(Fn.body, pc) : Level(Fn.body, d) \in Int
    BY <1>1, AtMirror DEF Level
  <2> QED
    BY <1>1, <1>2, <2>1, <2>2
<1>4. Mirrors(scope', Fn, pc + 1)
  BY <1>1, <1>2, <1>3, MirrorsKept DEF Node
<1> QED
  BY <1>4 DEF LexInv, Advance, Fn

(* Statements that end a list of statements, and may begin another one.    *)
LEMMA PopScopes ==
  ASSUME IInv, LexInv, status = "check", pc <= Len(Fn.body), Advance,
         Node.k \in {"else", "endif", "endwhile"},
         scope' = Front(scope) \/ scope' = Append(Front(scope), Nothing)
  PROVE  LexInv'
<1>1. /\ IsSeq(scope) /\ IsSeq(Fn.body) /\ pc \in 1 .. Len(Fn.body)
      /\ Mirrors(scope, Fn, pc)
      /\ Len(scope) = 2 + BlockDepth(Fn.body, pc)
      /\ \A d \in OpenLets(Fn.body, pc) :
           BlockDepth(Fn.body, d) \in Int /\ Level(Fn.body, d) <= Len(scope)
  BY AtMirror
<1>2. BlockDepth(Fn.body, pc) \in Nat /\ BlockDepth(Fn.body, pc) > 0
  BY AtStatement
<1> DEFINE k == Len(scope) - 1
<1>3. k \in 2 .. Len(scope) /\ Len(scope) \in Nat /\ scope # << >>
  BY <1>1, <1>2, SeqBasics
<1>4. /\ IsSeq(Front(scope)) /\ Len(Front(scope)) = k
      /\ \A n \in 1 .. k : Front(scope)[n] = scope[n]
  BY <1>1, <1>3, StackPop
<1>5. /\ Len(scope') \in Nat /\ k <= Len(scope')
      /\ \A n \in 1 .. k : scope'[n] = scope[n]
      /\ \A n \in k+1 .. Len(scope') : DOMAIN scope'[n] = {}
  <2>1. CASE scope' = Front(scope)
    BY <1>3, <1>4, <2>1
  <2>2. CASE scope' = Append(Front(scope), Nothing)
    <3>1. /\ Len(scope') = k + 1
          /\ \A n \in 1 .. k : scope'[n] = Front(scope)[n]
          /\ scope'[k + 1] = Nothing
      BY <1>4, <2>2, StackPush
    <3> QED
      BY <1>3, <1>4, <3>1 DEF Nothing
  <2> QED
    BY <2>1, <2>2
<1>6. \A d \in OpenLets(Fn.body, pc) :
        EndsList(Fn.body, d, pc) <=> Level(Fn.body, d) > k
  BY <1>1, <1>2 DEF EndsList, Level, Node
<1>7. Mirrors(scope', Fn, pc + 1)
  <2> HIDE DEF k
  <2> QED
    BY <1>1, <1>3, <1>5, <1>6, MirrorsKept DEF Node
<1> QED
  BY <1>7 DEF LexInv, Advance, Fn

LEMMA DeclareScope == IInv /\ LexInv /\ CheckLet => LexInv'
<1> SUFFICES ASSUME IInv, LexInv, CheckLet PROVE LexInv'
  OBVIOUS
<1>1. CASE Fatal
  BY <1>1 DEF Fatal, LexInv
<1>2. CASE ~Fatal
  <2>1. PICK ty : /\ Node.x \notin DOMAIN Last(scope)
                  /\ scope' = Declare(Node.x, VarInfo(ty, Node.uniq, pc))
                  /\ Advance
    BY <1>2 DEF CheckLet
  <2>2. status = "check" /\ pc <= Len(Fn.body) /\ Node.k = "let"
    BY DEF CheckLet, At
  <2>3. /\ IsSeq(scope) /\ IsSeq(Fn.body) /\ pc \in 1 .. Len(Fn.body)
        /\ Mirrors(scope, Fn, pc) /\ BlockDepth(Fn.body, pc) \in Nat
        /\ Len(scope) = 2 + BlockDepth(Fn.body, pc)
    BY <2>2, AtMirror
  <2>4. Level(Fn.body, pc) > 1 /\ Len(scope) = Level(Fn.body, pc)
    BY <2>3 DEF Level
  <2>5. Fn.body[pc].x \notin DOMAIN scope[Len(scope)]
    BY <2>1 DEF Last, Node
  <2>6. VarInfo(ty, Node.uniq, pc).site = pc
    BY DEF VarInfo
  <2>7. Mirrors([scope EXCEPT ![Len(scope)] = Bind(@, Fn.body[pc].x, VarInfo(ty, Node.uniq, pc))],
                Fn, pc + 1)
    <3> DEFINE info == VarInfo(ty, Node.uniq, pc)
    <3> HIDE DEF info
    <3>1. info.site = pc
      BY <2>6 DEF info
    <3>2. Mirrors([scope EXCEPT ![Len(scope)] = Bind(@, Fn.body[pc].x, info)], Fn, pc + 1)
      BY <2>2, <2>3, <2>4, <2>5, <3>1, MirrorsDeclared DEF Node
    <3> QED
      BY <3>2 DEF info
  <2>8. scope' = [scope EXCEPT ![Len(scope)] = Bind(@, Fn.body[pc].x, VarInfo(ty, Node.uniq, pc))]
    BY <2>1 DEF Declare, Node
  <2>9. Mirrors(scope', Fn, pc + 1)
    BY <2>7, <2>8
  <2> QED
    BY <2>1, <2>2, <2>9 DEF LexInv, Advance, Fn
<1> QED
  BY <1>1, <1>2

LEMMA StatementScopes == IInv /\ LexInv /\ CheckStmt => LexInv'
<1> SUFFICES ASSUME IInv, LexInv, CheckStmt PROVE LexInv'
  OBVIOUS
<1>1. CASE Fatal
  BY <1>1 DEF Fatal, LexInv
<1>2. CASE CheckLet
  BY <1>2, DeclareScope
<1>3. CASE ~Fatal /\ (CheckExpr \/ CheckReturn \/ CheckDefer \/ CheckBreak \/ CheckContinue)
  <2>1. /\ status = "check" /\ pc <= Len(Fn.body)
        /\ Node.k \in {"expr", "return", "defer", "break", "continue"}
    BY <1>3 DEF CheckExpr, CheckReturn, CheckDefer, CheckBreak, CheckContinue, At
  <2>2. Advance /\ scope' = scope
    BY <1>3 DEF CheckExpr, CheckReturn, CheckDefer, CheckBreak, CheckContinue
  <2> QED
    BY <2>1, <2>2, KeepScopes
<1>4. CASE ~Fatal /\ (CheckIf \/ CheckWhile)
  <2>1. status = "check" /\ pc <= Len(Fn.body) /\ Node.k \in {"if", "while"}
    BY <1>4 DEF CheckIf, CheckWhile, At
  <2>2. Advance /\ scope' = Append(scope, Nothing)
    BY <1>4 DEF CheckIf, CheckWhile, Push
  <2> QED
    BY <2>1, <2>2, KeepScopes
<1>5. CASE CheckElse \/ CheckEndIf \/ CheckEndWhile
  <2>1. status = "check" /\ pc <= Len(Fn.body) /\ Node.k \in {"else", "endif", "endwhile"}
    BY <1>5 DEF CheckElse, CheckEndIf, CheckEndWhile, At
  <2>2. Advance /\ (scope' = Front(scope) \/ scope' = Append(Front(scope), Nothing))
    BY <1>5 DEF CheckElse, CheckEndIf, CheckEndWhile, Push, Popped
  <2> QED
    BY <2>1, <2>2, PopScopes
<1> QED
  BY <1>1, <1>2, <1>3, <1>4, <1>5 DEF CheckStmt

(* A body begins with the parameters, and the first one of a name counts.  *)
LEMMA EnterScopes == IInv /\ LexInv /\ EnterFunction => LexInv'
<1> SUFFICES ASSUME IInv, LexInv, EnterFunction PROVE LexInv'
  OBVIOUS
<1>1. /\ status = "enter" /\ cur <= Len(prog) /\ status' = "check" /\ pc' = 1
      /\ prog' = prog /\ cur' = cur /\ scope' = Append(scope, ParamScope(Fn.params))
  BY DEF EnterFunction
<1>2. cur \in 1 .. Len(prog)
  BY <1>1, ProgramsAssumption, SeqBasics DEF IInv, TypeOK, Parsed
<1>3. IsSeq(Fn.params) /\ IsSeq(Fn.body)
  BY <1>2, CurrentFunction DEF IInv
<1>4. IsSeq(scope) /\ Len(scope) = 1 /\ DOMAIN scope[1] = {}
  BY <1>1 DEF IInv, StacksMirrorBlocks, LexInv
<1>5. /\ Len(scope') = 2 /\ DOMAIN scope'[1] = {}
      /\ scope'[2] = ParamScope(Fn.params)
  <2> DEFINE v == ParamScope(Fn.params)
  <2> HIDE DEF v
  <2>1. /\ Len(Append(scope, v)) = Len(scope) + 1
        /\ \A i \in 1 .. Len(scope) : Append(scope, v)[i] = scope[i]
        /\ Append(scope, v)[Len(scope) + 1] = v
    BY <1>4, StackPush
  <2>2. scope' = Append(scope, v)
    BY <1>1 DEF v
  <2>3. Len(scope') = 2 /\ scope'[1] = scope[1] /\ scope'[2] = v
    BY <1>4, <2>1, <2>2
  <2> QED
    BY <1>4, <2>3 DEF v
<1>6. \A x : x \in DOMAIN ParamScope(Fn.params) <=> ParamSite(Fn.params, x) # NoSite
  <2>1. DOMAIN ParamScope(Fn.params) = {Fn.params[k].x : k \in DOMAIN Fn.params}
    BY DEF ParamScope
  <2> QED
    BY <1>3, <2>1, ParamSites
<1>7. \A x \in DOMAIN ParamScope(Fn.params) :
        ParamScope(Fn.params)[x].site = ParamSite(Fn.params, x)
  BY DEF ParamScope, VarInfo
<1>8. OpenLets(Fn.body, 1) = {}
  BY DEF OpenLets
<1>9. Holds(scope', Fn, 1)
  BY <1>5, <1>6, <1>7, <1>8 DEF Holds, Entry
<1>10. HoldsOnly(scope', Fn, 1)
  <2> SUFFICES ASSUME NEW n \in 1 .. Len(scope'), NEW x \in DOMAIN scope'[n]
               PROVE  /\ n = 2
                      /\ scope'[n][x].site = ParamSite(Fn.params, x)
                      /\ ParamSite(Fn.params, x) # NoSite
    BY DEF HoldsOnly
  <2>1. n = 2
    BY <1>5
  <2> QED
    BY <1>5, <1>6, <1>7, <2>1
<1>11. Mirrors(scope', Fn, 1)
  BY <1>8, <1>9, <1>10 DEF Mirrors, DeeperIsLater
<1> QED
  BY <1>1, <1>11 DEF LexInv, Fn

(* At its end nothing but the parameters and the outermost declarations    *)
(* goes, and the global scope is as empty as it was.                       *)
LEMMA LeaveScopes == IInv /\ LexInv /\ LeaveFunction => LexInv'
<1> SUFFICES ASSUME IInv, LexInv, LeaveFunction PROVE LexInv'
  OBVIOUS
<1>1. /\ status = "check" /\ pc > Len(Fn.body) /\ status' = "enter"
      /\ scope' = Front(scope)
  BY DEF LeaveFunction, Popped
<1>2. IInv'
  BY LeaveStep
<1>3. IsSeq(scope) /\ Len(scope') = 1
  BY <1>1, <1>2 DEF IInv, StacksMirrorBlocks
<1>4. Len(scope) = 2 /\ scope'[1] = scope[1]
  <2>1. scope # << >> /\ Len(scope) \in Nat
    BY <1>3, SeqBasics DEF IInv, TypeOK
  <2>2. /\ Len(Front(scope)) = Len(scope) - 1
        /\ \A i \in 1 .. Len(scope) - 1 : Front(scope)[i] = scope[i]
    BY <1>3, <2>1, StackPop
  <2>3. Len(Front(scope)) = 1
    BY <1>1, <1>3
  <2>4. Len(scope) = 2
    <3> DEFINE n == Len(scope)   m == Len(Front(scope))
    <3>1. n \in Nat /\ m = n - 1 /\ m = 1
      BY <2>1, <2>2, <2>3
    <3> HIDE DEF n, m
    <3>2. n = 2
      BY <3>1
    <3> QED
      BY <3>2 DEF n
  <2> QED
    BY <1>1, <2>2, <2>4
<1>5. DOMAIN scope[1] = {}
  <2> SUFFICES ASSUME NEW x \in DOMAIN scope[1] PROVE FALSE
    OBVIOUS
  <2>1. Mirrors(scope, Fn, pc)
    BY <1>1 DEF LexInv
  <2>2. /\ scope[1][x].site \in OpenLets(Fn.body, pc)
        /\ Level(Fn.body, scope[1][x].site) = 1
    BY <1>4, <2>1 DEF Mirrors, HoldsOnly
  <2> QED
    BY <2>1, <2>2 DEF Mirrors, Holds
<1> QED
  BY <1>1, <1>4, <1>5 DEF LexInv

LEMMA InitLexInv == Init => LexInv
<1> SUFFICES ASSUME Init PROVE LexInv
  OBVIOUS
<1>1. scope[1] = Nothing
  BY OneEntryStack DEF Init, Start
<1> QED
  BY <1>1 DEF LexInv, Nothing, Init, Start

LEMMA NextLexInv == IInv /\ LexInv /\ [Next]_vars => LexInv'
<1> SUFFICES ASSUME IInv, LexInv, [Next]_vars PROVE LexInv'
  OBVIOUS
<1>1. CASE GatherSig \/ StartChecking
  BY <1>1 DEF GatherSig, StartChecking, Fatal, LexInv
<1>2. CASE EnterFunction
  BY <1>2, EnterScopes
<1>3. CASE CheckStmt
  BY <1>3, StatementScopes
<1>4. CASE LeaveFunction
  BY <1>4, LeaveScopes
<1>5. CASE Accept
  BY <1>5 DEF Accept, LexInv
<1>6. CASE UNCHANGED vars
  BY <1>6 DEF vars, LexInv, Fn
<1> QED
  BY <1>1, <1>2, <1>3, <1>4, <1>5, <1>6 DEF Next, Analyze, Terminated

LEMMA LexInvMeans == IInv /\ LexInv => ScopeIsLexical
<1> SUFFICES ASSUME IInv, LexInv, status = "check" PROVE ScopeIsLexical
  BY DEF ScopeIsLexical
<1>1. cur \in 1 .. Len(prog) /\ pc \in Nat \ {0} /\ pc <= Len(Fn.body) + 1
  BY DEF IInv, TypeOK
<1>2. IsSeq(Fn.body) /\ IsSeq(Fn.params) /\ Len(Fn.body) \in Nat
  BY <1>1, CurrentFunction, SeqBasics DEF IInv
<1>3. pc \in 1 .. Len(Fn.body) + 1 /\ IsSeq(scope) /\ Mirrors(scope, Fn, pc)
  BY <1>1, <1>2 DEF IInv, LexInv
<1>4. \A x : /\ Lexical(Fn, pc, x) # NoSite <=> \E i \in DOMAIN scope : x \in DOMAIN scope[i]
             /\ (\E i \in DOMAIN scope : x \in DOMAIN scope[i]) =>
                  scope[Found(scope, x)][x].site = Lexical(Fn, pc, x)
  BY <1>2, <1>3, MirrorsResolve
<1>5. \A x : x \in Visible <=> \E i \in DOMAIN scope : x \in DOMAIN scope[i]
  BY DEF Visible
<1>6. \A x : Lookup(x) = scope[Found(scope, x)][x]
  BY DEF Lookup, Found
<1>7. Visible \subseteq Names
  BY <1>5 DEF IInv, TypeOK
<1> QED
  BY <1>4, <1>5, <1>6, <1>7 DEF ScopeIsLexical

-----------------------------------------------------------------------------
(* Whatever the program declares, shadows and leaves behind in its blocks, *)
(* Scope::lookup (scope.h:21-24) finds at every statement the declaration  *)
(* a name lexically stands for, and nothing for a name that has none.      *)
THEOREM SemaScopeIsLexical == Spec => []ScopeIsLexical
<1>1. Init => IInv /\ LexInv
  BY InitIInv, InitLexInv
<1>2. IInv /\ LexInv /\ [Next]_vars => (IInv /\ LexInv)'
  BY NextIInv, NextLexInv
<1> QED
  BY <1>1, <1>2, LexInvMeans, PTL DEF Spec

-----------------------------------------------------------------------------
(* The verdict.                                                            *)

(* The recursion in SiteTypes, over the sites of a function. *)
SiteDom(p) == -Len(p[1].params) .. Len(p[1].body)
SiteRank(p, s) == s + Len(p[1].params)
SiteBody(p, Ty, s) ==
  IF s <= 0 THEN p[1].params[-s].ty
  ELSE DeclaredType(p[1].body[s],
         [x \in {y \in Names : Lexical(p[1], s, y) # NoSite} |-> Ty[Lexical(p[1], s, x)]],
         p[2])
Site == INSTANCE Recursion WITH Dom <- SiteDom, Rank <- SiteRank, Body <- SiteBody, Fit <- Anything

(* the signatures of the functions before number n *)
SigsBefore(prg, n) ==
  LET named(f) == {i \in 1 .. n-1 : prg[i].name = f}
  IN  [f \in DOMAIN Builtins \cup {prg[i].name : i \in 1 .. n-1} |->
         IF named(f) = {} THEN Builtins[f] ELSE SigOf(prg[Max(named(f))])]

ParamsOK(fn) == \A k \in DOMAIN fn.params : fn.params[k].ty # Void

(* every variable in scope has the type of its declaration *)
TypesOfSites(s, fn, sigs) ==
  \A i \in 1 .. Len(s) : \A x \in DOMAIN s[i] : s[i][x].ty = SiteTypes(fn, sigs)[s[i][x].site]

(* what has been checked is right, and what has failed is wrong *)
JInv ==
  /\ status = "gather" => fns = SigsBefore(prog, cur) /\ \A i \in 1 .. cur-1 : ParamsOK(prog[i])
  /\ status \in {"enter", "check", "accepted"} =>
       /\ fns = Sigs(prog)
       /\ \A i \in DOMAIN prog : ParamsOK(prog[i])
       /\ \A i \in 1 .. cur-1 : \A p \in DOMAIN prog[i].body : StatementOK(prog[i], p, Sigs(prog))
  /\ status = "check" =>
       /\ TypesOfSites(scope, Fn, Sigs(prog))
       /\ LoopDepth(Fn.body, pc) >= 0
       /\ \A p \in 1 .. pc-1 : StatementOK(Fn, p, Sigs(prog))
  /\ status = "accepted" => WellFormed(prog)
  /\ status = "fatal" => ~WellFormed(prog)

-----------------------------------------------------------------------------
(* A name means a declaration before it, or a parameter.                   *)
LEMMA LexicalBounds ==
  ASSUME NEW fn, IsSeq(fn.body), IsSeq(fn.params), NEW p \in 1 .. Len(fn.body) + 1, NEW x
  PROVE  Lexical(fn, p, x) \in -Len(fn.params) .. p-1
<1> DEFINE ds == {d \in 1 .. p-1 : /\ fn.body[d].k = "let"
                                   /\ fn.body[d].x = x
                                   /\ \A q \in d+1 .. p-1 : ~EndsList(fn.body, d, q)}
           ks == {k \in 1 .. Len(fn.params) : fn.params[k].x = x}
<1>1. Len(fn.body) \in Nat /\ Len(fn.params) \in Nat
  BY SeqBasics
<1>2. CASE ds # {}
  <2>1. ds \in SUBSET (0 .. p-1) /\ p-1 \in Nat
    BY <1>1
  <2>2. Max(ds) \in ds
    <3> HIDE DEF ds
    <3> QED
      BY <1>2, <2>1, GreatestNumber
  <2>3. Max(ds) \in 1 .. p-1
    BY <2>2
  <2>4. Lexical(fn, p, x) = Max(ds)
    BY <1>2 DEF Lexical
  <2> QED
    BY <1>1, <2>3, <2>4
<1>3. CASE ds = {}
  <2>1. Lexical(fn, p, x) = ParamSite(fn.params, x)
    BY <1>3 DEF Lexical
  <2>2. CASE ks = {}
    <3>1. ParamSite(fn.params, x) = 0
      BY <2>2 DEF ParamSite, NoSite
    <3> QED
      BY <1>1, <2>1, <3>1
  <2>3. CASE ks # {}
    <3>1. ks \in SUBSET Nat
      BY <1>1
    <3>2. Min(ks) \in ks
      <4> HIDE DEF ks
      <4> QED
        BY <2>3, <3>1, LeastNumber
    <3>3. Min(ks) \in 1 .. Len(fn.params)
      BY <3>2
    <3>4. ParamSite(fn.params, x) = -Min(ks)
      BY <2>3 DEF ParamSite
    <3> QED
      BY <1>1, <2>1, <3>3, <3>4
  <2> QED
    BY <2>2, <2>3
<1> QED
  BY <1>2, <1>3

(* The types of the variables, declaration by declaration.                 *)
LEMMA SiteType ==
  ASSUME NEW fn, IsSeq(fn.body), IsSeq(fn.params), NEW sigs,
         NEW s \in -Len(fn.params) .. Len(fn.body)
  PROVE  SiteTypes(fn, sigs)[s] =
           IF s <= 0 THEN fn.params[-s].ty ELSE DeclaredType(fn.body[s], EnvAt(fn, s, sigs), sigs)
<1> DEFINE pr == <<fn, sigs>>
<1>1. Len(fn.body) \in Nat /\ Len(fn.params) \in Nat
  BY SeqBasics
<1>2. SiteDom(pr) = -Len(fn.params) .. Len(fn.body) /\ pr[1] = fn /\ pr[2] = sigs
  BY DEF SiteDom
<1> HIDE DEF pr
<1>3. ASSUME NEW e \in SiteDom(pr)
      PROVE  /\ SiteRank(pr, e) \in Nat
             /\ \A t, u : Site!Agree(pr, t, u, SiteRank(pr, e)) => SiteBody(pr, t, e) = SiteBody(pr, u, e)
  <2>1. SiteRank(pr, e) = e + Len(fn.params) /\ e \in Int /\ e <= Len(fn.body) /\ e >= -Len(fn.params)
    BY <1>1, <1>2, <1>3 DEF SiteRank
  <2>2. SUFFICES ASSUME NEW t, NEW u, Site!Agree(pr, t, u, SiteRank(pr, e))
                 PROVE  SiteBody(pr, t, e) = SiteBody(pr, u, e)
    BY <1>1, <2>1
  <2>3. CASE e <= 0
    BY <2>3 DEF SiteBody
  <2>4. CASE e > 0
    <3> DEFINE Y == {y \in Names : Lexical(fn, e, y) # NoSite}
    <3>1. e \in 1 .. Len(fn.body) + 1
      BY <1>1, <2>1, <2>4
    <3>2. ASSUME NEW x \in Names PROVE t[Lexical(fn, e, x)] = u[Lexical(fn, e, x)]
      <4>1. Lexical(fn, e, x) \in -Len(fn.params) .. e-1
        BY <3>1, LexicalBounds
      <4>2. Lexical(fn, e, x) \in SiteDom(pr) /\ SiteRank(pr, Lexical(fn, e, x)) < SiteRank(pr, e)
        BY <1>1, <1>2, <2>1, <4>1 DEF SiteRank
      <4> QED
        BY <2>2, <4>2 DEF Site!Agree
    <3>3. [x \in Y |-> t[Lexical(fn, e, x)]] = [x \in Y |-> u[Lexical(fn, e, x)]]
      BY <3>2
    <3>4. ~(e <= 0)
      BY <2>1, <2>4
    <3> HIDE DEF Y
    <3>5. /\ SiteBody(pr, t, e) = DeclaredType(fn.body[e], [x \in Y |-> t[Lexical(fn, e, x)]], sigs)
          /\ SiteBody(pr, u, e) = DeclaredType(fn.body[e], [x \in Y |-> u[Lexical(fn, e, x)]], sigs)
      BY <1>2, <3>4 DEF SiteBody, Y
    <3> QED
      BY <3>3, <3>5
  <2> QED
    BY <2>1, <2>3, <2>4
<1>4. Site!LooksDown(pr)
  BY <1>3 DEF Site!LooksDown, Anything
<1>5. Site!Defined(pr) = [e \in SiteDom(pr) |-> SiteBody(pr, Site!Defined(pr), e)]
  BY <1>4, Site!Unfolding
<1>6. Site!Defined(pr) = SiteTypes(fn, sigs)
  BY <1>2 DEF Site!Defined, SiteTypes, SiteBody, SiteDom
<1>7. SiteTypes(fn, sigs)[s] = SiteBody(pr, SiteTypes(fn, sigs), s)
  <2> DEFINE f == SiteTypes(fn, sigs)
  <2>1. f = [e \in SiteDom(pr) |-> SiteBody(pr, f, e)]
    BY <1>5, <1>6
  <2> HIDE DEF f
  <2>2. f[s] = SiteBody(pr, f, s)
    BY <1>2, <2>1
  <2> QED
    BY <2>2 DEF f
<1>8. SiteBody(pr, SiteTypes(fn, sigs), s) =
        IF s <= 0 THEN fn.params[-s].ty ELSE DeclaredType(fn.body[s], EnvAt(fn, s, sigs), sigs)
  BY <1>2 DEF SiteBody, EnvAt
<1> QED
  BY <1>7, <1>8

-----------------------------------------------------------------------------
(* What the analyser sees at a statement is what the reference sees there. *)
LEMMA SameEnv ==
  ASSUME IInv, LexInv, status = "check", pc <= Len(Fn.body),
         TypesOfSites(scope, Fn, Sigs(prog))
  PROVE  [x \in Visible |-> Lookup(x).ty] = EnvAt(Fn, pc, Sigs(prog))
<1>1. /\ Visible = {x \in Names : Lexical(Fn, pc, x) # NoSite}
      /\ \A x \in Visible : Lookup(x).site = Lexical(Fn, pc, x)
  BY LexInvMeans DEF ScopeIsLexical
<1>2. IsSeq(scope) /\ Len(scope) \in Nat /\ DOMAIN scope = 1 .. Len(scope)
  BY SeqBasics DEF IInv
<1>3. ASSUME NEW x \in Visible
      PROVE  Lookup(x).ty = SiteTypes(Fn, Sigs(prog))[Lexical(Fn, pc, x)]
  <2> DEFINE lev == {i \in DOMAIN scope : x \in DOMAIN scope[i]}
  <2>1. lev # {} /\ lev \in SUBSET (0 .. Len(scope))
    BY <1>2 DEF Visible
  <2>2. Max(lev) \in lev
    <3> HIDE DEF lev
    <3> QED
      BY <1>2, <2>1, GreatestNumber
  <2>3. Max(lev) \in 1 .. Len(scope) /\ x \in DOMAIN scope[Max(lev)]
    BY <1>2, <2>2
  <2>4. Lookup(x) = scope[Max(lev)][x]
    BY DEF Lookup
  <2> HIDE DEF lev
  <2>5. Lookup(x).ty = SiteTypes(Fn, Sigs(prog))[Lookup(x).site]
    BY <2>3, <2>4 DEF TypesOfSites
  <2> QED
    BY <1>1, <2>5
<1> QED
  BY <1>1, <1>3 DEF EnvAt

(* declare() fails on the names of the statement list it is in.            *)
LEMMA TopScope ==
  ASSUME IInv, LexInv, status = "check", pc <= Len(Fn.body), NEW x
  PROVE  x \in DOMAIN Last(scope) <=> Redeclared(Fn, pc, x)
<1>1. /\ IsSeq(scope) /\ IsSeq(Fn.body) /\ pc \in 1 .. Len(Fn.body)
      /\ Mirrors(scope, Fn, pc)
      /\ BlockDepth(Fn.body, pc) \in Nat
      /\ Len(scope) = 2 + BlockDepth(Fn.body, pc)
  BY AtMirror
<1> DEFINE top == Len(scope)
<1>2. Last(scope) = scope[top] /\ top \in 1 .. Len(scope) /\ top = 2 + BlockDepth(Fn.body, pc)
  BY <1>1 DEF Last
<1>3. Len(Fn.body) \in Nat
  BY <1>1, SeqBasics
<1>4. \A d \in 1 .. pc-1 : BlockDepth(Fn.body, d) \in Int
  BY DepthType
<1>5. \A d \in 1 .. pc-1 : Fn.body[d].k = "let" =>
        (SameList(Fn.body, d, pc) <=> d \in OpenLets(Fn.body, pc) /\ Level(Fn.body, d) = top)
  <2> SUFFICES ASSUME NEW d \in 1 .. pc-1, Fn.body[d].k = "let"
               PROVE  SameList(Fn.body, d, pc) <=>
                        d \in OpenLets(Fn.body, pc) /\ Level(Fn.body, d) = top
    OBVIOUS
  <2>1. d .. pc-1 = {d} \cup (d+1 .. pc-1)
    BY <1>1, <1>3
  <2>2. ~EndsList(Fn.body, d, d)
    BY DEF EndsList
  <2>3. (\A i \in d .. pc-1 : ~EndsList(Fn.body, d, i)) <=>
          \A i \in d+1 .. pc-1 : ~EndsList(Fn.body, d, i)
    BY <2>1, <2>2
  <2>4. BlockDepth(Fn.body, d) = BlockDepth(Fn.body, pc) <=> Level(Fn.body, d) = top
    BY <1>1, <1>2, <1>4 DEF Level
  <2> QED
    BY <2>3, <2>4 DEF SameList, OpenLets
<1>6. \A d \in OpenLets(Fn.body, pc) : d \in 1 .. pc-1 /\ Fn.body[d].k = "let"
  BY DEF OpenLets
<1>7. BlockDepth(Fn.body, pc) = 0 <=> top = 2
  BY <1>1, <1>2
<1> HIDE DEF top
<1>8. ASSUME x \in DOMAIN scope[top] PROVE Redeclared(Fn, pc, x)
  <2> DEFINE d == scope[top][x].site
  <2>1. \/ d \in OpenLets(Fn.body, pc) /\ Fn.body[d].x = x /\ Level(Fn.body, d) = top
        \/ top = 2 /\ ParamSite(Fn.params, x) # NoSite
    BY <1>1, <1>2, <1>8 DEF Mirrors, HoldsOnly
  <2> QED
    BY <1>5, <1>6, <1>7, <2>1 DEF Redeclared
<1>9. ASSUME Redeclared(Fn, pc, x) PROVE x \in DOMAIN scope[top]
  <2>1. CASE BlockDepth(Fn.body, pc) = 0 /\ ParamSite(Fn.params, x) # NoSite
    BY <1>1, <1>7, <2>1 DEF Mirrors, Holds, Entry
  <2>2. CASE \E d \in 1 .. pc-1 : /\ Fn.body[d].k = "let" /\ Fn.body[d].x = x
                                  /\ SameList(Fn.body, d, pc)
    <3>1. PICK d \in 1 .. pc-1 : /\ Fn.body[d].k = "let" /\ Fn.body[d].x = x
                                 /\ SameList(Fn.body, d, pc)
      BY <2>2
    <3>2. d \in OpenLets(Fn.body, pc) /\ Level(Fn.body, d) = top
      BY <1>5, <3>1
    <3> QED
      BY <1>1, <3>1, <3>2 DEF Mirrors, Holds, Entry
  <2> QED
    BY <1>9, <2>1, <2>2 DEF Redeclared
<1> QED
  BY <1>2, <1>8, <1>9

-----------------------------------------------------------------------------
(* A statement passes if it is right, and fails if it is wrong.            *)
LEMMA StatementVerdict ==
  ASSUME IInv, LexInv, JInv, CheckStmt
  PROVE  /\ Fatal => ~StatementOK(Fn, pc, Sigs(prog))
         /\ ~Fatal => Advance /\ StatementOK(Fn, pc, Sigs(prog))
<1> DEFINE env == EnvAt(Fn, pc, Sigs(prog))
<1>1. status = "check" /\ pc <= Len(Fn.body)
  BY DEF CheckStmt, CheckLet, CheckExpr, CheckReturn, CheckDefer, CheckIf, CheckElse,
         CheckEndIf, CheckWhile, CheckEndWhile, CheckBreak, CheckContinue, At
<1>2. Fatal => ~Advance
  BY <1>1 DEF Fatal, Advance
<1>3. /\ TypesOfSites(scope, Fn, Sigs(prog)) /\ fns = Sigs(prog)
      /\ LoopDepth(Fn.body, pc) >= 0
  BY <1>1 DEF JInv
<1>4. [x \in Visible |-> Lookup(x).ty] = env
  BY <1>1, <1>3, SameEnv
<1>5. \A e : Type(e) = Infer(env, Sigs(prog))[e]
  BY <1>3, <1>4 DEF Type
<1>6. loopDepth = LoopDepth(Fn.body, pc) /\ LoopDepth(Fn.body, pc) \in Int
  BY <1>1, AtStatement DEF IInv, LoopDepthIsExact
<1> HIDE DEF env
<1>7. CASE CheckLet
  <2>1. Node.x \in DOMAIN Last(scope) <=> Redeclared(Fn, pc, Node.x)
    BY <1>1, TopScope
  <2>2. (IF Node.ann # NoType THEN Node.ann ELSE Type(Node.e)) = DeclaredType(Node, env, Sigs(prog))
    BY <1>5 DEF DeclaredType
  <2>3. Node.k = "let"
    BY <1>7 DEF CheckLet, At
  <2>4. StatementOK(Fn, pc, Sigs(prog)) <=>
          /\ DeclaredType(Node, env, Sigs(prog)) \notin {Ill, Void}
          /\ ~Redeclared(Fn, pc, Node.x)
    BY <2>3 DEF StatementOK, Node, env
  <2> QED
    BY <1>2, <1>7, <2>1, <2>2, <2>4 DEF CheckLet
<1>8. CASE CheckExpr
  <2>1. StatementOK(Fn, pc, Sigs(prog)) <=> Infer(env, Sigs(prog))[Node.e] # Ill
    BY <1>8 DEF CheckExpr, At, StatementOK, Node, env
  <2> QED
    BY <1>2, <1>5, <1>8, <2>1 DEF CheckExpr
<1>9. CASE CheckReturn
  <2>1. StatementOK(Fn, pc, Sigs(prog)) <=> ReturnOK(Node.e, Fn.ret, env, Sigs(prog))
    BY <1>9 DEF CheckReturn, At, StatementOK, Node, env
  <2> QED
    BY <1>2, <1>3, <1>4, <1>9, <2>1 DEF CheckReturn
<1>10. CASE CheckIf \/ CheckWhile
  <2>1. StatementOK(Fn, pc, Sigs(prog)) <=> Infer(env, Sigs(prog))[Node.e] \notin {Ill, Void}
    BY <1>10 DEF CheckIf, CheckWhile, At, StatementOK, Node, env
  <2> QED
    BY <1>2, <1>5, <1>10, <2>1 DEF CheckIf, CheckWhile
<1>11. CASE CheckBreak \/ CheckContinue
  <2>1. StatementOK(Fn, pc, Sigs(prog)) <=> LoopDepth(Fn.body, pc) > 0
    BY <1>11 DEF CheckBreak, CheckContinue, At, StatementOK, Node
  <2>2. loopDepth # 0 <=> LoopDepth(Fn.body, pc) > 0
    BY <1>3, <1>6
  <2> QED
    BY <1>2, <1>11, <2>1, <2>2 DEF CheckBreak, CheckContinue
<1>12. CASE CheckDefer \/ CheckElse \/ CheckEndIf \/ CheckEndWhile
  <2>1. StatementOK(Fn, pc, Sigs(prog))
    BY <1>12 DEF CheckDefer, CheckElse, CheckEndIf, CheckEndWhile, At, StatementOK, Node
  <2>2. Advance
    BY <1>12 DEF CheckDefer, CheckElse, CheckEndIf, CheckEndWhile
  <2> QED
    BY <1>2, <2>1, <2>2
<1> QED
  BY <1>7, <1>8, <1>9, <1>10, <1>11, <1>12 DEF CheckStmt

-----------------------------------------------------------------------------
(* How each step keeps the scopes' types: blocks open with an empty scope, *)
(* close with their own, and a declaration has the type of its site.       *)
LEMMA TypesKept ==
  ASSUME NEW s, IsSeq(s), NEW fn, NEW sigs, TypesOfSites(s, fn, sigs), NEW t,
         t \in {s, Append(s, Nothing)} \/ (s # << >> /\ t \in {Front(s), Append(Front(s), Nothing)})
  PROVE  TypesOfSites(t, fn, sigs)
<1>1. ASSUME NEW u, IsSeq(u), TypesOfSites(u, fn, sigs)
      PROVE  TypesOfSites(Append(u, Nothing), fn, sigs)
  <2>1. /\ Len(Append(u, Nothing)) = Len(u) + 1 /\ Len(u) \in Nat
        /\ \A i \in 1 .. Len(u) : Append(u, Nothing)[i] = u[i]
        /\ Append(u, Nothing)[Len(u) + 1] = Nothing
    BY <1>1, StackPush, SeqBasics
  <2>2. DOMAIN Nothing = {}
    BY DEF Nothing
  <2> SUFFICES ASSUME NEW i \in 1 .. Len(u) + 1, NEW x \in DOMAIN Append(u, Nothing)[i]
               PROVE  Append(u, Nothing)[i][x].ty = SiteTypes(fn, sigs)[Append(u, Nothing)[i][x].site]
    BY <2>1 DEF TypesOfSites
  <2>3. i \in 1 .. Len(u)
    BY <2>1, <2>2
  <2> QED
    BY <1>1, <2>1, <2>3 DEF TypesOfSites
<1>2. s # << >> => IsSeq(Front(s)) /\ TypesOfSites(Front(s), fn, sigs)
  <2> SUFFICES ASSUME s # << >>
               PROVE  IsSeq(Front(s)) /\ TypesOfSites(Front(s), fn, sigs)
    OBVIOUS
  <2>1. /\ IsSeq(Front(s)) /\ Len(Front(s)) = Len(s) - 1 /\ Len(s) \in Nat
        /\ \A i \in 1 .. Len(s) - 1 : Front(s)[i] = s[i]
    BY StackPop, SeqBasics
  <2> QED
    BY <2>1 DEF TypesOfSites
<1> QED
  BY <1>1, <1>2

LEMMA TypesDeclared ==
  ASSUME NEW s, IsSeq(s), Len(s) > 0, NEW fn, NEW sigs, TypesOfSites(s, fn, sigs),
         NEW x, NEW info, info.ty = SiteTypes(fn, sigs)[info.site]
  PROVE  TypesOfSites([s EXCEPT ![Len(s)] = Bind(@, x, info)], fn, sigs)
<1> DEFINE top == Len(s)   v == Bind(s[top], x, info)   t == [s EXCEPT ![top] = v]
<1>1. Len(s) \in Nat /\ top \in 1 .. Len(s)
  BY SeqBasics
<1>2. Len(t) = Len(s) /\ \A n \in 1 .. Len(s) : t[n] = IF n = top THEN v ELSE s[n]
  <2> HIDE DEF top, v
  <2> QED
    BY <1>1, StackSet
<1>3. DOMAIN v = DOMAIN s[top] \cup {x} /\ v[x] = info /\ \A y \in DOMAIN s[top] \ {x} : v[y] = s[top][y]
  BY DEF Bind
<1> HIDE DEF t, v
<1>4. TypesOfSites(t, fn, sigs)
  <2> SUFFICES ASSUME NEW n \in 1 .. Len(t), NEW y \in DOMAIN t[n]
               PROVE  t[n][y].ty = SiteTypes(fn, sigs)[t[n][y].site]
    BY DEF TypesOfSites
  <2>1. CASE n = top /\ y = x
    BY <1>1, <1>2, <1>3, <2>1
  <2>2. CASE ~(n = top /\ y = x)
    <3>1. n \in 1 .. Len(s) /\ y \in DOMAIN s[n] /\ t[n][y] = s[n][y]
      BY <1>2, <1>3, <2>2
    <3> QED
      BY <3>1 DEF TypesOfSites
  <2> QED
    BY <2>1, <2>2
<1> QED
  BY <1>4 DEF t, v

LEMMA TypesOfParams ==
  ASSUME NEW s, IsSeq(s), Len(s) = 1, DOMAIN s[1] = {},
         NEW fn, IsSeq(fn.body), IsSeq(fn.params), NEW sigs
  PROVE  TypesOfSites(Append(s, ParamScope(fn.params)), fn, sigs)
<1> DEFINE v == ParamScope(fn.params)   t == Append(s, v)
<1>1. /\ Len(t) = 2 /\ DOMAIN t[1] = {} /\ t[2] = v
  <2> HIDE DEF v
  <2>1. Len(t) = Len(s) + 1 /\ t[Len(s) + 1] = v /\ \A i \in 1 .. Len(s) : t[i] = s[i]
    BY StackPush
  <2> HIDE DEF t
  <2> QED
    BY <2>1
<1>2. ASSUME NEW x \in DOMAIN v PROVE v[x].ty = SiteTypes(fn, sigs)[v[x].site]
  <2> DEFINE site == ParamSite(fn.params, x)
  <2>1. v[x].site = site /\ v[x].ty = fn.params[-site].ty
    BY <1>2 DEF ParamScope, VarInfo
  <2>2. site \in -Len(fn.params) .. Len(fn.body) /\ site <= 0
    <3>1. Len(fn.body) \in Nat /\ Len(fn.params) \in Nat /\ 1 \in 1 .. Len(fn.body) + 1
      BY SeqBasics
    <3>2. Lexical(fn, 1, x) \in -Len(fn.params) .. 0
      BY <3>1, LexicalBounds
    <3>3. Lexical(fn, 1, x) = site
      BY DEF Lexical
    <3> HIDE DEF site
    <3> QED
      BY <3>1, <3>2, <3>3
  <2> HIDE DEF site
  <2>3. SiteTypes(fn, sigs)[site] = fn.params[-site].ty
    BY <2>2, SiteType
  <2> QED
    BY <2>1, <2>3
<1> HIDE DEF v, t
<1>3. TypesOfSites(t, fn, sigs)
  <2> SUFFICES ASSUME NEW n \in 1 .. Len(t), NEW y \in DOMAIN t[n]
               PROVE  t[n][y].ty = SiteTypes(fn, sigs)[t[n][y].site]
    BY DEF TypesOfSites
  <2>1. n = 2
    BY <1>1
  <2> QED
    BY <1>1, <1>2, <2>1
<1> QED
  BY <1>3 DEF t, v

-----------------------------------------------------------------------------
(* Gathering the signatures one by one, the later ones over the earlier.   *)
LEMMA SigsNext ==
  ASSUME NEW prg, IsSeq(prg), NEW n \in 1 .. Len(prg)
  PROVE  Bind(SigsBefore(prg, n), prg[n].name, SigOf(prg[n])) = SigsBefore(prg, n + 1)
<1> DEFINE B == SigsBefore(prg, n)   A == SigsBefore(prg, n + 1)   y == prg[n].name
           named(m, f) == {i \in 1 .. m-1 : prg[i].name = f}
<1>1. Len(prg) \in Nat /\ 1 .. n+1-1 = (1 .. n-1) \cup {n} /\ n \notin 1 .. n-1 /\ n \in Nat
  BY SeqBasics
<1>2. DOMAIN A = DOMAIN B \cup {y}
  BY <1>1 DEF SigsBefore
<1>3. \A f : f # y => named(n + 1, f) = named(n, f)
  BY <1>1
<1>4. Max(named(n + 1, y)) = n /\ named(n + 1, y) # {}
  <2> DEFINE S == named(n + 1, y)
  <2>1. n \in S /\ S \in SUBSET (0 .. n)
    BY <1>1
  <2> HIDE DEF S
  <2>2. Max(S) \in S /\ n <= Max(S)
    BY <1>1, <2>1, GreatestNumber
  <2>3. Max(S) \in 0 .. n /\ n \in Nat
    BY <1>1, <2>1, <2>2
  <2>4. Max(S) = n
    BY <2>2, <2>3
  <2> QED
    BY <2>1, <2>4 DEF S
<1>5. \A f \in DOMAIN A : A[f] = IF named(n + 1, f) = {} THEN Builtins[f] ELSE SigOf(prg[Max(named(n + 1, f))])
  BY DEF SigsBefore
<1>6. \A f \in DOMAIN B : B[f] = IF named(n, f) = {} THEN Builtins[f] ELSE SigOf(prg[Max(named(n, f))])
  BY DEF SigsBefore
<1>7. \A f \in DOMAIN A : A[f] = IF f = y THEN SigOf(prg[n]) ELSE B[f]
  <2> SUFFICES ASSUME NEW f \in DOMAIN A
               PROVE  A[f] = IF f = y THEN SigOf(prg[n]) ELSE B[f]
    OBVIOUS
  <2>1. CASE f = y
    <3> HIDE DEF named, A, B, y
    <3> QED
      BY <1>4, <1>5, <2>1
  <2>2. CASE f # y
    <3>1. f \in DOMAIN B /\ named(n + 1, f) = named(n, f)
      BY <1>2, <1>3, <2>2
    <3> HIDE DEF named, A, B, y
    <3> QED
      BY <1>5, <1>6, <2>2, <3>1
  <2> QED
    BY <2>1, <2>2
<1>8. A = [f \in DOMAIN A |-> A[f]]
  BY DEF SigsBefore
<1> HIDE DEF A, B
<1> QED
  BY <1>2, <1>7, <1>8 DEF Bind, A, B

LEMMA SigsAtEnds ==
  ASSUME NEW prg, IsSeq(prg)
  PROVE  SigsBefore(prg, 1) = Builtins /\ SigsBefore(prg, Len(prg) + 1) = Sigs(prg)
<1>1. Len(prg) \in Nat /\ DOMAIN prg = 1 .. Len(prg)
  BY SeqBasics
<1>2. 1 .. 1-1 = {} /\ 1 .. Len(prg)+1-1 = DOMAIN prg
  BY <1>1
<1>3. SigsBefore(prg, 1) = [f \in DOMAIN Builtins |-> Builtins[f]]
  BY <1>2 DEF SigsBefore
<1>4. Builtins = [f \in DOMAIN Builtins |-> Builtins[f]]
  BY DEF Builtins
<1>5. SigsBefore(prg, Len(prg) + 1) = Sigs(prg)
  <2> DEFINE D == 1 .. Len(prg)+1-1
             Over(S) == LET named(f) == {i \in S : prg[i].name = f}
                        IN  [f \in DOMAIN Builtins \cup {prg[i].name : i \in S} |->
                               IF named(f) = {} THEN Builtins[f] ELSE SigOf(prg[Max(named(f))])]
  <2>1. SigsBefore(prg, Len(prg) + 1) = Over(D)
    BY DEF SigsBefore
  <2>2. Sigs(prg) = Over(DOMAIN prg)
    BY DEF Sigs
  <2>3. D = DOMAIN prg
    BY <1>2
  <2> HIDE DEF D, Over
  <2> QED
    BY <2>1, <2>2, <2>3
<1> QED
  BY <1>3, <1>4, <1>5

-----------------------------------------------------------------------------
Invs == IInv /\ LexInv /\ JInv

LEMMA TheProgram ==
  ASSUME IInv
  PROVE  IsSeq(prog) /\ Len(prog) \in Nat /\ DOMAIN prog = 1 .. Len(prog) /\ cur \in 1 .. Len(prog) + 1
  BY ProgramsAssumption, SeqBasics DEF IInv, TypeOK, Parsed

LEMMA InitJInv == Init => JInv
<1> SUFFICES ASSUME Init PROVE JInv
  OBVIOUS
<1>1. IsSeq(prog)
  BY ProgramsAssumption DEF Init, Parsed
<1> QED
  BY <1>1, SigsAtEnds DEF JInv, Init, Start

LEMMA GatherVerdict == Invs /\ (GatherSig \/ StartChecking) => JInv'
<1> SUFFICES ASSUME Invs, GatherSig \/ StartChecking PROVE JInv'
  OBVIOUS
<1>1. IsSeq(prog) /\ Len(prog) \in Nat /\ DOMAIN prog = 1 .. Len(prog) /\ cur \in 1 .. Len(prog) + 1
  BY TheProgram DEF Invs
<1>2. /\ status = "gather" /\ prog' = prog /\ fns = SigsBefore(prog, cur)
      /\ \A i \in 1 .. cur-1 : ParamsOK(prog[i])
  BY DEF GatherSig, StartChecking, Fatal, Invs, JInv
<1>3. CASE GatherSig /\ Fatal
  <2>1. cur \in DOMAIN prog /\ ~ParamsOK(prog[cur]) /\ status' = "fatal"
    BY <1>1, <1>3 DEF GatherSig, Fatal, ParamsOK, Fn
  <2>2. ~WellFormed(prog)
    BY <2>1 DEF WellFormed, ParamsOK
  <2> QED
    BY <1>2, <2>1, <2>2 DEF JInv
<1>4. CASE GatherSig /\ ~Fatal
  <2>1. /\ cur \in 1 .. Len(prog) /\ status' = status /\ cur' = cur + 1
        /\ ParamsOK(prog[cur]) /\ fns' = Bind(fns, prog[cur].name, SigOf(prog[cur]))
    BY <1>1, <1>4 DEF GatherSig, ParamsOK, Fn, Gathered
  <2>2. fns' = SigsBefore(prog, cur + 1)
    BY <1>1, <1>2, <2>1, SigsNext
  <2>3. \A i \in 1 .. cur+1-1 : i = cur \/ i \in 1 .. cur-1
    BY <2>1
  <2> QED
    BY <1>2, <2>1, <2>2, <2>3 DEF JInv
<1>5. CASE StartChecking
  <2>1. cur = Len(prog) + 1 /\ fns' = fns /\ status' = "enter" /\ cur' = 1
    BY <1>1, <1>5 DEF StartChecking
  <2>2. fns' = Sigs(prog)
    BY <1>1, <1>2, <2>1, SigsAtEnds
  <2>3. \A i \in DOMAIN prog : ParamsOK(prog[i])
    BY <1>1, <1>2, <2>1
  <2> QED
    BY <1>2, <2>1, <2>2, <2>3 DEF JInv
<1> QED
  BY <1>3, <1>4, <1>5

LEMMA EnterVerdict == Invs /\ EnterFunction => JInv'
<1> SUFFICES ASSUME Invs, EnterFunction PROVE JInv'
  OBVIOUS
<1>1. /\ status = "enter" /\ cur <= Len(prog) /\ status' = "check" /\ pc' = 1
      /\ prog' = prog /\ cur' = cur /\ fns' = fns /\ scope' = Append(scope, ParamScope(Fn.params))
  BY DEF EnterFunction
<1>2. cur \in 1 .. Len(prog)
  BY <1>1, TheProgram DEF Invs
<1>3. IsSeq(Fn.body) /\ IsSeq(Fn.params)
  BY <1>2, CurrentFunction DEF Invs, IInv
<1>4. IsSeq(scope) /\ Len(scope) = 1 /\ DOMAIN scope[1] = {}
  BY <1>1 DEF Invs, IInv, StacksMirrorBlocks, LexInv
<1>5. TypesOfSites(Append(scope, ParamScope(Fn.params)), Fn, Sigs(prog))
  BY <1>3, <1>4, TypesOfParams
<1>6. Fn' = Fn /\ LoopDepth(Fn.body, 1) = 0 /\ 1 .. 1-1 = {}
  BY <1>1, DepthAtStart DEF Fn
<1> QED
  BY <1>1, <1>5, <1>6 DEF Invs, JInv

LEMMA LeaveVerdict == Invs /\ LeaveFunction => JInv'
<1> SUFFICES ASSUME Invs, LeaveFunction PROVE JInv'
  OBVIOUS
<1>1. /\ status = "check" /\ pc > Len(Fn.body) /\ status' = "enter" /\ cur' = cur + 1
      /\ prog' = prog /\ fns' = fns
  BY DEF LeaveFunction
<1>2. cur \in 1 .. Len(prog) /\ pc \in Nat
  BY <1>1 DEF Invs, IInv, TypeOK
<1>3. DOMAIN Fn.body = 1 .. Len(Fn.body) /\ Len(Fn.body) \in Nat
  BY <1>2, CurrentFunction, SeqBasics DEF Invs, IInv
<1>4. \A p \in DOMAIN Fn.body : StatementOK(Fn, p, Sigs(prog))
  BY <1>1, <1>2, <1>3 DEF Invs, JInv
<1>5. \A i \in 1 .. cur'-1 : i = cur \/ i \in 1 .. cur-1
  BY <1>1, <1>2
<1>6. /\ fns = Sigs(prog) /\ \A i \in DOMAIN prog : ParamsOK(prog[i])
      /\ \A i \in 1 .. cur-1 : \A p \in DOMAIN prog[i].body : StatementOK(prog[i], p, Sigs(prog))
  BY <1>1 DEF Invs, JInv
<1>7. \A i \in 1 .. cur'-1 : \A p \in DOMAIN prog[i].body : StatementOK(prog[i], p, Sigs(prog))
  BY <1>4, <1>5, <1>6 DEF Fn
<1> QED
  BY <1>1, <1>6, <1>7 DEF JInv

LEMMA AcceptVerdict == Invs /\ Accept => JInv'
<1> SUFFICES ASSUME Invs, Accept PROVE JInv'
  OBVIOUS
<1>1. /\ status = "enter" /\ cur > Len(prog) /\ status' = "accepted"
      /\ prog' = prog /\ cur' = cur /\ fns' = fns
  BY DEF Accept
<1>2. DOMAIN prog = 1 .. cur-1
  BY <1>1, TheProgram DEF Invs
<1>3. WellFormed(prog)
  BY <1>1, <1>2 DEF Invs, JInv, WellFormed, ParamsOK
<1> QED
  BY <1>1, <1>3 DEF Invs, JInv

LEMMA StatementScopeTypes ==
  ASSUME Invs, CheckStmt, ~Fatal
  PROVE  TypesOfSites(scope', Fn, Sigs(prog))
<1>1. status = "check" /\ pc <= Len(Fn.body)
  BY DEF CheckStmt, CheckLet, CheckExpr, CheckReturn, CheckDefer, CheckIf, CheckElse,
         CheckEndIf, CheckWhile, CheckEndWhile, CheckBreak, CheckContinue, At
<1>2. TypesOfSites(scope, Fn, Sigs(prog)) /\ fns = Sigs(prog)
  BY <1>1 DEF Invs, JInv
<1>3. IsSeq(scope) /\ scope # << >> /\ Len(scope) > 0
  BY <1>1, AtMirror, SeqBasics DEF Invs
<1>4. CASE CheckLet
  <2> DEFINE ty == IF Node.ann # NoType THEN Node.ann ELSE Type(Node.e)
             info == VarInfo(ty, Node.uniq, pc)
  <2>1. scope' = Declare(Node.x, info) /\ Node.k = "let"
    BY <1>4 DEF CheckLet, At
  <2>2. ty = DeclaredType(Node, EnvAt(Fn, pc, Sigs(prog)), Sigs(prog))
    BY <1>1, <1>2, SameEnv DEF Type, DeclaredType, Invs
  <2>3. SiteTypes(Fn, Sigs(prog))[pc] = DeclaredType(Node, EnvAt(Fn, pc, Sigs(prog)), Sigs(prog))
    <3>1. IsSeq(Fn.body) /\ pc \in 1 .. Len(Fn.body) /\ IsSeq(Fn.params)
      BY <1>1, AtMirror, CurrentFunction DEF Invs, IInv, TypeOK
    <3>2. pc \in -Len(Fn.params) .. Len(Fn.body) /\ ~(pc <= 0)
      <4>1. Len(Fn.params) \in Nat /\ Len(Fn.body) \in Nat
        BY <3>1, SeqBasics
      <4> QED
        BY <3>1, <4>1
    <3> QED
      BY <3>1, <3>2, SiteType DEF Node
  <2> HIDE DEF ty
  <2>4. info.ty = ty /\ info.site = pc
    BY DEF VarInfo
  <2> HIDE DEF info
  <2>5. TypesOfSites([scope EXCEPT ![Len(scope)] = Bind(@, Node.x, info)], Fn, Sigs(prog))
    BY <1>2, <1>3, <2>2, <2>3, <2>4, TypesDeclared
  <2> QED
    BY <2>1, <2>5 DEF Declare
<1>5. CASE CheckExpr \/ CheckReturn \/ CheckDefer \/ CheckBreak \/ CheckContinue
  BY <1>2, <1>5 DEF CheckExpr, CheckReturn, CheckDefer, CheckBreak, CheckContinue
<1>6. CASE CheckIf \/ CheckWhile \/ CheckElse \/ CheckEndIf \/ CheckEndWhile
  <2>1. scope' \in {Append(scope, Nothing), Front(scope), Append(Front(scope), Nothing)}
    BY <1>6 DEF CheckIf, CheckWhile, CheckElse, CheckEndIf, CheckEndWhile, Push, Popped
  <2> QED
    BY <1>2, <1>3, <2>1, TypesKept
<1> QED
  BY <1>4, <1>5, <1>6 DEF CheckStmt

LEMMA StatementStepVerdict == Invs /\ CheckStmt => JInv'
<1> SUFFICES ASSUME Invs, CheckStmt PROVE JInv'
  OBVIOUS
<1>1. status = "check" /\ pc <= Len(Fn.body)
  BY DEF CheckStmt, CheckLet, CheckExpr, CheckReturn, CheckDefer, CheckIf, CheckElse,
         CheckEndIf, CheckWhile, CheckEndWhile, CheckBreak, CheckContinue, At
<1>2. IsSeq(Fn.body) /\ pc \in 1 .. Len(Fn.body) /\ DOMAIN Fn.body = 1 .. Len(Fn.body)
  BY <1>1, AtMirror, SeqBasics DEF Invs
<1>3. cur \in DOMAIN prog /\ WellNested(Fn.body)
  BY <1>1, TheProgram, CurrentFunction DEF Invs, IInv, TypeOK
<1>4. /\ Fatal => ~StatementOK(Fn, pc, Sigs(prog))
      /\ ~Fatal => Advance /\ StatementOK(Fn, pc, Sigs(prog))
  BY StatementVerdict DEF Invs
<1>5. CASE Fatal
  <2>1. ~WellFormed(prog)
    BY <1>2, <1>3, <1>4, <1>5 DEF WellFormed, Fn
  <2> QED
    BY <1>5, <2>1 DEF Fatal, JInv
<1>6. CASE ~Fatal
  <2>1. /\ prog' = prog /\ status' = "check" /\ cur' = cur /\ fns' = fns /\ pc' = pc + 1
        /\ Fn' = Fn
    BY <1>1, <1>4, <1>6 DEF Advance, Fn
  <2>2. TypesOfSites(scope', Fn, Sigs(prog))
    BY <1>6, StatementScopeTypes
  <2>3. \A p \in 1 .. pc'-1 : StatementOK(Fn, p, Sigs(prog))
    <3>1. \A p \in 1 .. pc'-1 : p = pc \/ p \in 1 .. pc-1
      BY <1>2, <2>1
    <3> QED
      BY <1>1, <1>4, <1>6, <3>1 DEF Invs, JInv
  <2>4. LoopDepth(Fn.body, pc') >= 0
    <3>1. /\ LoopDepth(Fn.body, pc) >= 0 /\ LoopDepth(Fn.body, pc) \in Int
          /\ LoopDepth(Fn.body, pc + 1) = LoopDepth(Fn.body, pc)
               + IF Node.k = "while" THEN 1 ELSE IF Node.k = "endwhile" THEN -1 ELSE 0
      BY <1>1, AtStatement DEF Invs, JInv
    <3>2. Node.k = "endwhile" => LoopDepth(Fn.body, pc) > 0
      BY <1>2, <1>3 DEF WellNested, Closes, Node
    <3> QED
      BY <2>1, <3>1, <3>2
  <2>5. /\ fns = Sigs(prog) /\ \A i \in DOMAIN prog : ParamsOK(prog[i])
        /\ \A i \in 1 .. cur-1 : \A p \in DOMAIN prog[i].body : StatementOK(prog[i], p, Sigs(prog))
    BY <1>1 DEF Invs, JInv
  <2> QED
    BY <2>1, <2>2, <2>3, <2>4, <2>5 DEF JInv
<1> QED
  BY <1>5, <1>6

LEMMA NextJInv == Invs /\ [Next]_vars => JInv'
<1> SUFFICES ASSUME Invs, [Next]_vars PROVE JInv'
  OBVIOUS
<1>1. CASE UNCHANGED vars
  BY <1>1 DEF vars, Invs, JInv, Fn
<1> QED
  BY <1>1, GatherVerdict, EnterVerdict, LeaveVerdict, AcceptVerdict, StatementStepVerdict
     DEF Next, Analyze, Terminated

-----------------------------------------------------------------------------
(* Every step of the analyser is Judge's one decision, or none.            *)
LEMMA StepIsDecision == Invs /\ Invs' /\ [Next]_vars => [J!Decide]_<<prog, Verdict>>
<1> SUFFICES ASSUME Invs, Invs', [Next]_vars, ~UNCHANGED <<prog, Verdict>>
             PROVE  J!Decide
  OBVIOUS
<1>1. prog' = prog /\ status \notin {"accepted", "fatal"}
  BY DEF Next, Analyze, GatherSig, StartChecking, EnterFunction, LeaveFunction, Accept, CheckStmt,
         CheckLet, CheckExpr, CheckReturn, CheckDefer, CheckIf, CheckElse, CheckEndIf, CheckWhile,
         CheckEndWhile, CheckBreak, CheckContinue, At, Advance, Fatal, Terminated, vars, Verdict
<1>2. status' \in {"accepted", "fatal"}
  BY <1>1 DEF Verdict
<1>3. /\ status' = "accepted" => WellFormed(prog)
      /\ status' = "fatal" => ~WellFormed(prog)
  BY <1>1 DEF Invs, JInv
<1> QED
  BY <1>1, <1>2, <1>3 DEF J!Decide, Verdict

(* Whatever the programs, semantic analysis gives at most one verdict, and *)
(* the verdict is right: it accepts exactly the well-formed programs, with *)
(* every name resolved lexically, every loop counted and the last          *)
(* definition of every function in force (sema.cpp:19-66, 115-208).  This  *)
(* is Judge without its liveness.                                          *)
THEOREM SemaImplementsJudge == Spec => J!Init /\ [][J!Decide]_<<prog, Verdict>>
<1>1. Init => Invs
  BY InitIInv, InitLexInv, InitJInv DEF Invs
<1>2. Invs /\ [Next]_vars => Invs'
  BY NextIInv, NextLexInv, NextJInv DEF Invs
<1>3. Init => J!Init
  BY DEF Init, Start, J!Init, Verdict
<1>4. Invs /\ Invs' /\ [Next]_vars => [J!Decide]_<<prog, Verdict>>
  BY StepIsDecision
<1> QED
  BY <1>1, <1>2, <1>3, <1>4, PTL DEF Spec
=============================================================================
