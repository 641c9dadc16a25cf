------------------------------- MODULE CodeGen ------------------------------
(***************************************************************************)
(* IR generation (src/codegen.cpp): every function is declared, then each  *)
(* body is walked once, one statement per step, appending instructions to  *)
(* basic blocks; LLVM's verifier judges a function when its body is done.  *)
(* Blocks are numbered in the order of their creation; where the code      *)
(* inserts them into the function is left out, as all are in by its end.   *)
(***************************************************************************)
EXTENDS Lowering

VARIABLES
  prog,               \* the program
  status,             \* "declare" | "begin" | "gen" | "emitted" | "fatal"
  diag,               \* why fatal() was called
  cur,                \* the function being declared or generated
  pc,                 \* the statement of its body to generate next
  symtab,             \* the module's symbol table: name -> program function, 0 a builtin
  functions,          \* CodeGen::functions: name -> program function
  ir,                 \* the basic blocks of each program function
  ins,                \* the builder's insertion block
  namedValues,        \* name -> slot
  namedTypes,         \* name -> the slot's LLVM type
  loopExitStack,      \* blocks a break goes to, innermost loop last
  loopContinueStack,  \* blocks a continue goes to
  frames              \* the blocks genStmt holds for the statements it is inside of

names == <<namedValues, namedTypes>>
loops == <<loopExitStack, loopContinueStack>>
declared == <<symtab, functions>>
vars == <<prog, status, diag, cur, pc, declared, ir, ins, names, loops, frames>>

Fn == prog[cur]
Node == Fn.body[pc]
Here == <<cur, pc>>

(* the function the body of Fn goes into, and its blocks *)
Target == functions[Fn.name]
Blocks == ir[Target]

Funcs == [f \in DOMAIN symtab |->
            [target |-> symtab[f],
             sig |-> IF symtab[f] = 0 THEN Externals[f] ELSE LLSigOf(prog[symtab[f]])]]
Lower(e) == Gen([vals |-> namedValues, types |-> namedTypes, funcs |-> Funcs, at |-> Here])[e]

-----------------------------------------------------------------------------
(* Basic blocks *)

Block(name, at) == [name |-> name, at |-> at, code |-> << >>]
Put(bs, b, code) == [bs EXCEPT ![b].code = @ \o code]
Terminator(i) == i.op \in {"br", "ret"}

(* BasicBlock::getTerminator looks at the last instruction only *)
Terminated(b) == b.code # << >> /\ Terminator(Last(b.code))
Close(bs, b, to) == IF Terminated(bs[b]) THEN bs ELSE Put(bs, b, <<Br({to}, {}, Here)>>)

Succs(b) == UNION {b.code[i].to : i \in {j \in DOMAIN b.code : b.code[j].op = "br"}}

(* the blocks control reaches from the entry without entering avoid *)
Reached(bs, avoid) ==
  LET R[n \in Nat] ==
        IF n = 0 THEN {1} \ avoid
        ELSE (UNION {{b} \cup Succs(bs[b]) : b \in R[n-1]}) \ avoid
  IN  R[Len(bs)]

Allocates(i, s) == i.op = "alloca" /\ s \in i.slots

(* the alloca of slot s comes before instruction j of block b on every     *)
(* path from the entry, which is block 1                                   *)
Dominated(bs, b, j, s) ==
  \E d \in DOMAIN bs : \E i \in DOMAIN bs[d].code :
    /\ Allocates(bs[d].code[i], s)
    /\ IF d = b THEN i < j
       ELSE d = 1 \/ (d \in Reached(bs, {}) /\ b \notin Reached(bs, {d}))

(* llvm::verifyFunction *)
Verifies(bs) ==
  /\ \A b \in DOMAIN bs :
       /\ Terminated(bs[b])
       /\ \A j \in DOMAIN bs[b].code :
            /\ bs[b].code[j].ok
            /\ Terminator(bs[b].code[j]) => j = Len(bs[b].code)
  /\ \A b \in Reached(bs, {}) : \A j \in DOMAIN bs[b].code :
       bs[b].code[j].op # "alloca" =>
         \A s \in bs[b].code[j].slots : Dominated(bs, b, j, s)

-----------------------------------------------------------------------------
Nothing == [x \in {} |-> 0]

Init ==
  /\ prog \in Programs
  /\ status = "declare"
  /\ diag = ""
  /\ cur = 1
  /\ pc = 1
  /\ symtab = [f \in DOMAIN Externals |-> 0]
  /\ functions = Nothing
  /\ ir = [f \in DOMAIN prog |-> << >>]
  /\ ins = 0
  /\ namedValues = Nothing
  /\ namedTypes = Nothing
  /\ loopExitStack = << >>
  /\ loopContinueStack = << >>
  /\ frames = << >>

Fatal(why) ==
  /\ status' = "fatal"
  /\ diag' = why
  /\ UNCHANGED <<prog, cur, pc, declared, ir, ins, names, loops, frames>>

(* A second function of a name gets another symbol in the module, and      *)
(* takes the name over in CodeGen::functions.                              *)
DeclareFunction ==
  /\ status = "declare"
  /\ cur <= Len(prog)
  /\ symtab' = IF Fn.name \in DOMAIN symtab THEN symtab ELSE Bind(symtab, Fn.name, cur)
  /\ functions' = Bind(functions, Fn.name, cur)
  /\ cur' = cur + 1
  /\ UNCHANGED <<prog, status, diag, pc, ir, ins, names, loops, frames>>

StartDefining ==
  /\ status = "declare"
  /\ cur > Len(prog)
  /\ status' = "begin"
  /\ cur' = 1
  /\ UNCHANGED <<prog, diag, pc, declared, ir, ins, names, loops, frames>>

NamesKept(params) ==                                                        \* mutant
  [x \in {params[k].x : k \in DOMAIN params} \cup DOMAIN namedValues |->
     IF ParamSite(params, x) = NoSite THEN namedValues[x] ELSE <<cur, ParamSite(params, x)>>]
ParamSlots(params) ==
  [x \in {params[k].x : k \in DOMAIN params} |-> <<cur, ParamSite(params, x)>>]

(* The parameters are those of the target.  LLVM renames the second of two *)
(* parameters of one name, so the first keeps it.  The map gets an entry   *)
(* for the new name too, x1 for a second x; a program that has that name   *)
(* as well is left out.                                                    *)
BeginFunction ==
  /\ status = "begin"
  /\ cur <= Len(prog)
  /\ LET params == prog[Target].params
         at == <<cur, 0>>
         spill(k) == LET ty == tyLLVM(params[k].ty)
                     IN  <<Alloca(<<cur, -k>>, ty, at), Store(Value(ty, << >>), {<<cur, -k>>}, ty, at)>>
         entry == [Block("entry", 0) EXCEPT !.code = FlattenSeq([k \in DOMAIN params |-> spill(k)])]
     IN  /\ ir' = [ir EXCEPT ![Target] = Append(@, entry)]
         /\ ins' = Len(Blocks) + 1
         /\ namedValues' = ParamSlots(params)
         /\ namedTypes' = [x \in {params[k].x : k \in DOMAIN params} |->
                             tyLLVM(params[-ParamSite(params, x)].ty)]
  /\ status' = "gen"
  /\ pc' = 1
  /\ UNCHANGED <<prog, diag, cur, declared, loops, frames>>

(* the implicit return, and the verifier's judgement *)
EndFunction ==
  /\ status = "gen"
  /\ pc > Len(Fn.body)
  /\ LET ty == IF Fn.ret \in {I64, Bool} THEN tyLLVM(Fn.ret) ELSE Void
         ret == Instr("ret", {}, ty = tyLLVM(prog[Target].ret), Here)
         bs == IF Terminated(Blocks[ins]) THEN Blocks ELSE Put(Blocks, ins, <<ret>>)
     IN  \/ /\ Verifies(bs)
            /\ ir' = [ir EXCEPT ![Target] = bs]
            /\ status' = "begin"
            /\ cur' = cur + 1
            /\ UNCHANGED <<prog, diag, pc, declared, ins, names, loops, frames>>
         \/ ~Verifies(bs) /\ Fatal("invalid function IR")

Finish ==
  /\ status = "begin"
  /\ cur > Len(prog)
  /\ status' = "emitted"
  /\ UNCHANGED <<prog, diag, cur, pc, declared, ir, ins, names, loops, frames>>

-----------------------------------------------------------------------------
(* genStmt, one action per kind of statement *)

At(kind) ==
  /\ status = "gen"
  /\ pc <= Len(Fn.body)
  /\ Node.k = kind

Advance == pc' = pc + 1 /\ UNCHANGED <<prog, status, diag, cur, declared>>
SetBlocks(bs) == ir' = [ir EXCEPT ![Target] = bs]

(* the slot's type: annotated, or guessed from the look of the initialiser *)
LetType(let) ==
  CASE let.ann # NoType -> tyLLVM(let.ann)
    [] let.ann = NoType /\ let.e.k = "bool" -> I1
    [] let.ann = NoType /\ let.e.k = "arraylit" /\ let.e.elems # << >> ->
         Array(Lower(let.e.elems[1]).ty, Len(let.e.elems))
    [] OTHER -> I64

(* An array literal's first element is generated for its type, once more   *)
(* if the array has no annotation, before it is generated to be stored.    *)
InitArray(let, slot, ty) ==
  LET vs == [i \in DOMAIN let.e.elems |-> Lower(let.e.elems[i])]
      probe == IF vs = << >> THEN << >> ELSE vs[1].code
      array == IF ty.k = "array" THEN ty ELSE NoArray
  IN  [Then(vs, Void, << >>) EXCEPT !.code =
         (IF let.ann = NoType THEN probe ELSE << >>) \o <<Alloca(slot, ty, Here)>>
           \o probe \o Fill(vs, {slot}, array, Here)]

InitScalar(let, slot, ty) ==
  LET v == Lower(let.e)
      w == CASE v.ty = I1 /\ ty = I64 -> Op("zext", <<v>>, ty, TRUE, Here)
             [] v.ty = I64 /\ ty = I1 -> Op("!=", <<v>>, ty, TRUE, Here)
             [] OTHER -> v
  IN  [w EXCEPT !.code = <<Alloca(slot, ty, Here)>> \o @ \o <<Store(w, {slot}, ty, Here)>>]

NameNever(x, slot) == namedValues                                           \* mutant
NameOnce(x, slot) ==                                                        \* mutant
  IF x \in DOMAIN namedValues THEN namedValues ELSE Bind(namedValues, x, slot)
Name(x, slot) == Bind(namedValues, x, slot)

(* unique<T> changes nothing here *)
GenLet ==
  /\ At("let")
  /\ LET ty == LetType(Node)
         init == IF Node.e.k = "arraylit" THEN InitArray(Node, Here, ty)
                 ELSE InitScalar(Node, Here, ty)
     IN  \/ /\ init.stop = ""
            /\ SetBlocks(Put(Blocks, ins, init.code))
            /\ namedValues' = Name(Node.x, Here)
            /\ namedTypes' = Bind(namedTypes, Node.x, ty)
            /\ UNCHANGED <<ins, loops, frames>>
            /\ Advance
         \/ init.stop # "" /\ Fatal(init.stop)

GenExpr ==
  /\ At("expr")
  /\ LET v == Lower(Node.e)
     IN  \/ /\ v.stop = ""
            /\ SetBlocks(Put(Blocks, ins, v.code))
            /\ UNCHANGED <<ins, names, loops, frames>>
            /\ Advance
         \/ v.stop # "" /\ Fatal(v.stop)

(* the insertion block stays, with its terminator *)
GenReturn ==
  /\ At("return")
  /\ LET v == IF Node.e = NoExpr THEN Value(Void, << >>) ELSE Lower(Node.e)
         ret == Instr("ret", v.base, v.ty = tyLLVM(prog[Target].ret), Here)
     IN  \/ /\ v.stop = ""
            /\ SetBlocks(Put(Blocks, ins, v.code \o <<ret>>))
            /\ UNCHANGED <<ins, names, loops, frames>>
            /\ Advance
         \/ v.stop # "" /\ Fatal(v.stop)

(* a condition compared with zero, and the branch on it *)
TestTaken(v, to) ==                                                         \* mutant
  Op("!=", <<v>>, I1, v.ty \in Integer, Here).code \o <<Br({Min(to)}, {}, Here)>>
Test(v, to) == Op("!=", <<v>>, I1, v.ty \in Integer, Here).code \o <<Br(to, {}, Here)>>

GenIf ==
  /\ At("if")
  /\ LET v == Lower(Node.e)
         n == Len(Blocks)
     IN  \/ /\ v.stop = ""
            /\ SetBlocks(Put(Blocks, ins, Test(v, {n+1, n+2}))
                           \o <<Block("then", pc), Block("else", pc), Block("ifend", pc)>>)
            /\ ins' = n + 1
            /\ frames' = Append(frames, <<n+2, n+3>>)
            /\ UNCHANGED <<names, loops>>
            /\ Advance
         \/ v.stop # "" /\ Fatal(v.stop)

GenElse ==
  /\ At("else")
  /\ SetBlocks(Close(Blocks, ins, Last(frames)[2]))
  /\ ins' = Last(frames)[1]
  /\ UNCHANGED <<names, loops, frames>>
  /\ Advance

GenEndIf ==
  /\ At("endif")
  /\ SetBlocks(Close(Blocks, ins, Last(frames)[2]))
  /\ ins' = Last(frames)[2]
  /\ frames' = Front(frames)
  /\ UNCHANGED <<names, loops>>
  /\ Advance

GenWhile ==
  /\ At("while")
  /\ LET v == Lower(Node.e)
         n == Len(Blocks)
         cond == [Block("while.cond", pc) EXCEPT !.code = Test(v, {n+2, n+3})]
     IN  \/ /\ v.stop = ""
            /\ SetBlocks(Put(Blocks, ins, <<Br({n+1}, {}, Here)>>)
                           \o <<cond, Block("while.body", pc), Block("while.end", pc)>>)
            /\ ins' = n + 2
            /\ frames' = Append(frames, <<n+1, n+3>>)
            /\ loopExitStack' = Append(loopExitStack, n+3)
            /\ loopContinueStack' = Append(loopContinueStack, n+1)
            /\ UNCHANGED names
            /\ Advance
         \/ v.stop # "" /\ Fatal(v.stop)

PopNoLoop == UNCHANGED loops                                                \* mutant
PopExitOnly ==                                                              \* mutant
  loopExitStack' = Front(loopExitStack) /\ UNCHANGED loopContinueStack
PopLoop ==
  /\ loopExitStack' = Front(loopExitStack)
  /\ loopContinueStack' = Front(loopContinueStack)

GenEndWhile ==
  /\ At("endwhile")
  /\ SetBlocks(Close(Blocks, ins, Last(frames)[1]))
  /\ ins' = Last(frames)[2]
  /\ frames' = Front(frames)
  /\ PopLoop
  /\ UNCHANGED names
  /\ Advance

(* a deferred expression is skipped *)
GenDefer ==
  /\ At("defer")
  /\ UNCHANGED <<ir, ins, names, loops, frames>>
  /\ Advance

JumpInPlace(to, after) ==                                                   \* mutant
  /\ SetBlocks(Put(Blocks, ins, <<Br({to}, {}, Here)>>))
  /\ UNCHANGED <<ins, names, loops, frames>>
  /\ Advance

(* a jump, and a block for what follows it in the list *)
Jump(to, after) ==
  /\ SetBlocks(Append(Put(Blocks, ins, <<Br({to}, {}, Here)>>), Block(after, pc)))
  /\ ins' = Len(Blocks) + 1
  /\ UNCHANGED <<names, loops, frames>>
  /\ Advance

GenBreakOutermost ==                                                        \* mutant
  /\ At("break")
  /\ \/ loopExitStack # << >> /\ Jump(loopExitStack[1], "after.break")
     \/ loopExitStack = << >> /\ Fatal("outside of loop")
GenBreak ==
  /\ At("break")
  /\ \/ loopExitStack # << >> /\ Jump(Last(loopExitStack), "after.break")
     \/ loopExitStack = << >> /\ Fatal("outside of loop")

GenContinue ==
  /\ At("continue")
  /\ \/ loopContinueStack # << >> /\ Jump(Last(loopContinueStack), "after.continue")
     \/ loopContinueStack = << >> /\ Fatal("outside of loop")

GenStmt ==
  \/ GenLet \/ GenExpr \/ GenReturn \/ GenDefer
  \/ GenIf \/ GenElse \/ GenEndIf
  \/ GenWhile \/ GenEndWhile \/ GenBreak \/ GenContinue

Emit == DeclareFunction \/ StartDefining \/ BeginFunction \/ EndFunction \/ Finish \/ GenStmt

(* emit() has returned, or the process has exited *)
Stopped == status \in {"emitted", "fatal"} /\ UNCHANGED vars

Next == Emit \/ Stopped

Spec == Init /\ [][Next]_vars /\ WF_vars(Emit)

-----------------------------------------------------------------------------
(* Properties.  Instructions are read off the IR by body and position: the *)
(* blocks that hold code for position p of body c, and the reference for   *)
(* control flow is the body's own nesting.                                 *)

(* The shape of the generator's state: names map to slots that have a type,*)
(* the insertion block exists, and both loop stacks grow and shrink        *)
(* together.                                                               *)
TypeOK ==
  /\ status \in {"declare", "begin", "gen", "emitted", "fatal"}
  /\ cur \in 1 .. Len(prog) + 1
  /\ pc \in Nat \ {0}
  /\ status = "gen" => cur <= Len(prog) /\ pc <= Len(Fn.body) + 1 /\ ins \in DOMAIN Blocks
  /\ DOMAIN ir = DOMAIN prog
  /\ DOMAIN functions \subseteq DOMAIN symtab
  /\ DOMAIN namedValues = DOMAIN namedTypes
  /\ Len(loopExitStack) = Len(loopContinueStack)

(* The loop stacks and the blocks genStmt holds mirror the source: one     *)
(* entry per open loop, one frame per open branch or loop, none left over  *)
(* for the next function.                                                  *)
StacksMirrorNesting ==
  /\ status = "gen" => /\ Len(loopExitStack) = LoopDepth(Fn.body, pc)
                       /\ Len(frames) = BlockDepth(Fn.body, pc)
  /\ status = "begin" => loops = << << >>, << >> >> /\ frames = << >>

(* namedValues is one flat map per function: at every statement it holds   *)
(* the last declaration, in the order of the text, of every name declared  *)
(* so far, parameters first, closed blocks included; and nothing of the    *)
(* function generated before.                                              *)
DeclaredSoFar(c, p, x) ==
  LET ds == {d \in 1 .. p-1 : prog[c].body[d].k = "let" /\ prog[c].body[d].x = x}
  IN  IF ds = {} THEN ParamSite(prog[Target].params, x) ELSE Max(ds)

NamesAreFlat ==
  status = "gen" =>
    namedValues = [x \in {y \in Names : DeclaredSoFar(cur, pc, y) # NoSite} |->
                     <<cur, DeclaredSoFar(cur, pc, x)>>]

(* what is true of every instruction i of the blocks bs of a function *)
ForAllCode(P(_, _)) ==
  \A f \in DOMAIN ir : \A b \in DOMAIN ir[f] : \A j \in DOMAIN ir[f][b].code :
    P(ir[f], [b |-> b, i |-> ir[f][b].code[j]])

(* the node an instruction was generated for; parameters and the implicit  *)
(* return belong to none                                                   *)
NodeOf(i) ==
  IF i.at[2] \in DOMAIN prog[i.at[1]].body THEN prog[i.at[1]].body[i.at[2]] ELSE [k |-> "none"]

(* the while that a break or continue at p belongs to *)
InnermostLoop(body, p) ==
  Max({w \in 1 .. p-1 : body[w].k = "while" /\ \A q \in w+1 .. p-1 : ~EndsList(body, w+1, q)})

(* A break leaves the innermost loop around it in the source and no other, *)
(* and a continue goes to that loop's condition, whatever branches, inner  *)
(* loops and unreachable blocks were generated in between.                 *)
JumpsMatchSource ==
  ForAllCode(LAMBDA bs, x :
    NodeOf(x.i).k \in {"break", "continue"} =>
      \E t \in DOMAIN bs :
        /\ x.i.to = {t}
        /\ bs[t].at = InnermostLoop(prog[x.i.at[1]].body, x.i.at[2])
        /\ bs[t].name = IF NodeOf(x.i).k = "break" THEN "while.end" ELSE "while.cond")

(* the else of the if that ends at q                                       *)
BranchEnd(body, q) ==
  Max({e \in 1 .. q-1 : body[e].k = "else" /\ BlockDepth(body, e) = BlockDepth(body, q)})

(* The reference for control flow: control can reach position p of a body  *)
(* without executing the statements at cut, conditions taken to be true    *)
(* and false in turn.                                                      *)
LiveAround(body, cut) ==
  LET L[p \in 1 .. Len(body) + 1] ==
        IF p = 1 THEN TRUE
        ELSE IF p - 1 \in cut THEN FALSE
        ELSE CASE body[p-1].k \in {"let", "expr", "defer", "if", "while"} -> L[p-1]
               [] body[p-1].k \in {"else", "endwhile"} -> L[Opener(body, p-1)]
               [] body[p-1].k = "endif" -> L[p-1] \/ L[BranchEnd(body, p-1)]
               [] OTHER -> FALSE                           \* return, break, continue
  IN  L

Live(body) == LiveAround(body, {})

(* No two functions of one name, which would be generated into one.        *)
NamesDistinct == \A c, d \in DOMAIN prog : prog[c].name = prog[d].name => c = d

(* Reachable statements are generated into reachable blocks and dead ones  *)
(* into unreachable blocks: no block generated after a return, break or    *)
(* continue is entered by accident, and no live code is cut off.  Of two   *)
(* functions of one name the second has the blocks of both.                *)
LiveCodeStaysLive ==
  status = "emitted" /\ NamesDistinct =>
    \A c \in DOMAIN prog :
      LET live == {0} \cup {p \in DOMAIN Append(prog[c].body, 0) : Live(prog[c].body)[p]}
          reached == Reached(ir[c], {})
      IN  \A b \in DOMAIN ir[c] : \A j \in DOMAIN ir[c][b].code :
            b \in reached <=> ir[c][b].code[j].at[2] \in live

Emits(node) ==
  \/ node.k \in {"let", "return", "if", "while", "break", "continue"}
  \/ node.k = "expr" /\ node.e.k \notin {"int", "bool"}

(* the variables an expression reads or writes *)
VarsIn ==
  LET V[e \in Exprs] ==
        CASE e.k = "var" -> {e.x}
          [] e.k = "unary" -> V[e.r]
          [] e.k = "bin" -> V[e.l] \cup V[e.r]
          [] e.k = "call" -> UNION {V[e.args[i]] : i \in DOMAIN e.args}
          [] e.k = "arraylit" -> UNION {V[e.elems[i]] : i \in DOMAIN e.elems}
          [] e.k = "index" -> V[e.a] \cup V[e.i]
          [] OTHER -> {}
  IN  V

HasCode(node) == Emits(node) /\ node.k \notin {"break", "continue"}

(* Of programs whose types are right the verifier rejects those, and only  *)
(* those, in which: a statement that needs code stands behind a return in  *)
(* the same list, as its block has two ends then; or a function that       *)
(* returns neither i64 nor bool nor void does not end in a return, even if *)
(* control never gets there; or control reaches a use of a name around its *)
(* last declaration before it in the text, shadowed or not; or a variable  *)
(* annotated not to be an array is initialised by the elements of one,     *)
(* which have no addresses in it.  Not for programs with two functions of  *)
(* one name, nor for those that genExpr stops at before the verifier sees  *)
(* them.                                                                   *)
RejectionsExplained ==
  status \in {"emitted", "fatal"} /\ diag \in {"", "invalid function IR"} /\ NamesDistinct =>
    ((status = "fatal") <=>
       \E c \in DOMAIN prog :
         LET body == prog[c].body
             DeclaredAt(p, x) == Max({0} \cup {d \in 1 .. p-1 : body[d].k = "let" /\ body[d].x = x})
         IN  \/ \E p, q \in DOMAIN body : /\ p < q
                                          /\ body[p].k = "return"
                                          /\ SameList(body, p, q)
                                          /\ Emits(body[q])
             \/ /\ prog[c].ret \notin {I64, Bool, Void}
                /\ \A p \in DOMAIN body : body[p].k = "return" => BlockDepth(body, p) > 0
             \/ \E p \in DOMAIN body :
                  /\ HasCode(body[p]) /\ body[p].e # NoExpr
                  /\ \E x \in VarsIn[body[p].e] :
                       DeclaredAt(p, x) # 0 /\ LiveAround(body, {DeclaredAt(p, x)})[p]
             \/ \E p \in DOMAIN body :
                  /\ body[p].k = "let" /\ body[p].ann # NoType /\ body[p].ann.k # "array"
                  /\ body[p].e.k = "arraylit" /\ body[p].e.elems # << >>)

(* The calls of an expression, arguments first and from left to right. An  *)
(* array literal makes those of its first element twice: the element is    *)
(* generated for its type, and again with the others to be stored.         *)
CallOrder ==
  LET C[e \in Exprs] ==
        LET all(es) == FlattenSeq([i \in DOMAIN es |-> C[es[i]]])
        IN  CASE e.k = "unary" -> C[e.r]
              [] e.k = "bin" -> C[e.l] \o C[e.r]
              [] e.k = "call" -> Append(all(e.args), e.f)
              [] e.k = "arraylit" ->
                   IF e.elems = << >> THEN << >> ELSE C[e.elems[1]] \o all(e.elems)
              [] e.k = "index" -> C[e.a] \o C[e.i]
              [] OTHER -> << >>
  IN  C

(* The calls of a statement.  Where a declaration takes the array's type   *)
(* from the literal, the first element is generated once more.             *)
TypeCalls(node) ==
  IF node.k = "let" /\ node.ann = NoType /\ node.e.k = "arraylit" /\ node.e.elems # << >>
  THEN CallOrder[node.e.elems[1]] ELSE << >>

CallsMade(node) ==
  IF HasCode(node) /\ node.e # NoExpr THEN TypeCalls(node) \o CallOrder[node.e] ELSE << >>

(* the functions that code calls for the statement at, in turn *)
CallsAt(code, at) ==
  FlattenSeq([j \in DOMAIN code |->
    IF code[j].op = "call" /\ code[j].at = at THEN <<code[j].callee>> ELSE << >>])

(* The code of a statement, wherever in the function it is, makes exactly  *)
(* the statement's calls and in their order, and all in one block, whatever*)
(* operators they are operands of: those on the right of && or || as well, *)
(* without a branch.  Each is made once, but for what the first element of *)
(* an array literal calls: twice, or three times where the literal gives   *)
(* an unannotated declaration its type, and the numbers multiply where     *)
(* literals are in the first elements of others.                           *)
EvaluatesInOrder ==
  status = "gen" /\ pc > 1 =>
    LET here == [b \in DOMAIN Blocks |-> CallsAt(Blocks[b].code, <<cur, pc - 1>>)]
    IN  /\ FlattenSeq(here) = CallsMade(Fn.body[pc - 1])
        /\ Cardinality({b \in DOMAIN here : here[b] # << >>}) <= 1

(* Every slot that code made for a statement refers to satisfies P.  Of two *)
(* functions of one name the first is not looked at: its body is generated *)
(* with the parameters of the last.                                        *)
UsesOf(P(_, _, _)) ==
  ForAllCode(LAMBDA bs, x :
    LET c == x.i.at[1]
        p == x.i.at[2]
    IN  functions[prog[c].name] = c =>
          \A s \in x.i.slots : (p > 0 /\ s # <<c, p>>) => s[1] = c /\ P(prog[c], p, s[2]))

(* site is what lexical scoping gives p of fn, or a later declaration of   *)
(* the name in a block already closed                                      *)
InScopeOrShadowed(fn, p, site) ==
  \/ site = Lexical(fn, p, NameAt(fn, site))
  \/ /\ site \in 1 .. p-1
     /\ site > Lexical(fn, p, NameAt(fn, site))
     /\ \E q \in site .. p-1 : EndsList(fn.body, site, q)

(* The one way a reference can miss the declaration that lexical scoping   *)
(* gives it is a later declaration of the name in a block already closed.  *)
LexicalUnlessShadowed == UsesOf(InScopeOrShadowed)

(* SPEC.md:35 promises scopes: every reference in emitted code is to the   *)
(* variable that lexical scoping gives it.                                 *)
ReferencesAreLexical ==
  status = "emitted" => UsesOf(LAMBDA fn, p, site : site = Lexical(fn, p, NameAt(fn, site)))

CalleesIn(f) ==
  {i.callee : i \in {j \in UNION {Range(ir[f][b].code) : b \in DOMAIN ir[f]} : j.op = "call"}}

(* SPEC.md:21 "defer expr;  // executed on scope exit" and SPEC.md:26      *)
(* "unique<T> variable injects implicit 'defer free(var)'": a deferred     *)
(* call, explicit or implicit, is somewhere in its function's code.        *)
DefersAreEmitted ==
  status = "emitted" =>
    \A c \in DOMAIN prog : \A p \in DOMAIN prog[c].body :
      LET node == prog[c].body[p]
          called == CalleesIn(functions[prog[c].name])
      IN  /\ node.k = "defer" /\ node.e.k = "call" => node.e.f \in called
          /\ node.k = "let" /\ node.uniq => "free" \in called

(* codegen.cpp:413 "define functions": an emitted program has a body for   *)
(* every function it defines, and its calls to that name go to it.         *)
CallsReachDefinitions ==
  status = "emitted" =>
    \A c \in DOMAIN prog : /\ ir[c] # << >>
                           /\ ForAllCode(LAMBDA bs, x :
                                (x.i.op = "call" /\ x.i.callee = prog[c].name) =>
                                   x.i.target # 0 /\ ir[x.i.target] # << >>)
=============================================================================
