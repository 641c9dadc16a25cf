-------------------------------- MODULE Sema --------------------------------
(***************************************************************************)
(* Semantic analysis (src/sema.cpp): the signatures of all functions are   *)
(* gathered, then each body is walked once, checking one statement per     *)
(* step.  fatal() ends the process, so every step either succeeds or moves *)
(* to the status "fatal" and leaves everything else as it was.             *)
(***************************************************************************)
EXTENDS Typing

VARIABLES
  prog,       \* the program under analysis
  status,     \* "gather" | "enter" | "check" | "accepted" | "fatal"
  cur,        \* the function being gathered or checked
  pc,         \* the statement of its body to check next
  scope,      \* Scope::stack, outermost first: name -> [ty, isUnique, site]
  fns,        \* name -> signature
  loopDepth,  \* loops around the current statement
  defers      \* the vectors of deferred expressions of the open blocks

vars == <<prog, status, cur, pc, scope, fns, loopDepth, defers>>

Fn == prog[cur]
Node == Fn.body[pc]

(* an empty std::unordered_map *)
Nothing == [x \in {} |-> NoType]

VarInfo(ty, isUnique, site) == [ty |-> ty, isUnique |-> isUnique, site |-> site]

(* Scope::lookup: the innermost scope that has the name *)
Visible == UNION {DOMAIN scope[i] : i \in DOMAIN scope}
LookupOutermost(x) == scope[Min({i \in DOMAIN scope : x \in DOMAIN scope[i]})][x]  \* mutant
Lookup(x) == scope[Max({i \in DOMAIN scope : x \in DOMAIN scope[i]})][x]
Type(e) == Infer([x \in Visible |-> Lookup(x).ty], fns)[e]

(* the scope of a function's parameters: a second parameter of the same    *)
(* name is not declared, and nobody looks at declare()'s answer            *)
ParamScope(params) ==
  [x \in {params[k].x : k \in DOMAIN params} |->
     LET site == ParamSite(params, x) IN VarInfo(params[-site].ty, FALSE, site)]

-----------------------------------------------------------------------------
Start ==
  /\ status = "gather"
  /\ cur = 1
  /\ pc = 1
  /\ scope = <<Nothing>>
  /\ fns = Builtins
  /\ loopDepth = 0
  /\ defers = << >>

Init == prog \in Programs /\ Start

Fatal ==
  /\ status' = "fatal"
  /\ UNCHANGED <<prog, cur, pc, scope, fns, loopDepth, defers>>

(* analyze(), first loop: a later definition replaces an earlier one, and  *)
(* any definition replaces a builtin                                       *)
KeptSigs == IF Fn.name \in DOMAIN fns THEN fns ELSE Bind(fns, Fn.name, SigOf(Fn))  \* mutant
Gathered == Bind(fns, Fn.name, SigOf(Fn))

GatherSig ==
  /\ status = "gather"
  /\ cur <= Len(prog)
  /\ \/ /\ \A k \in DOMAIN Fn.params : Fn.params[k].ty # Void
        /\ fns' = Gathered
        /\ cur' = cur + 1
        /\ UNCHANGED <<prog, status, pc, scope, loopDepth, defers>>
     \/ /\ \E k \in DOMAIN Fn.params : Fn.params[k].ty = Void
        /\ Fatal

StartChecking ==
  /\ status = "gather"
  /\ cur > Len(prog)
  /\ status' = "enter"
  /\ cur' = 1
  /\ UNCHANGED <<prog, pc, scope, fns, loopDepth, defers>>

EnterFunction ==
  /\ status = "enter"
  /\ cur <= Len(prog)
  /\ status' = "check"
  /\ pc' = 1
  /\ scope' = Append(scope, ParamScope(Fn.params))
  /\ defers' = << << >> >>
  /\ UNCHANGED <<prog, cur, fns, loopDepth>>

(* Scope::pop *)
PoppedTwice == Front(Front(scope))                                          \* mutant
Popped == Front(scope)

LeaveFunction ==
  /\ status = "check"
  /\ pc > Len(Fn.body)
  /\ status' = "enter"
  /\ cur' = cur + 1
  /\ scope' = Popped
  /\ defers' = << >>
  /\ UNCHANGED <<prog, pc, fns, loopDepth>>

Accept ==
  /\ status = "enter"
  /\ cur > Len(prog)
  /\ status' = "accepted"
  /\ UNCHANGED <<prog, cur, pc, scope, fns, loopDepth, defers>>

-----------------------------------------------------------------------------
(* checkStmt, one action per kind of statement *)

At(kind) ==
  /\ status = "check"
  /\ pc <= Len(Fn.body)
  /\ Node.k = kind

Advance == pc' = pc + 1 /\ UNCHANGED <<prog, status, cur, fns>>

Push(s, v) == Append(s, v)
DeclareOutermost(x, info) == [scope EXCEPT ![1] = Bind(@, x, info)]         \* mutant
Declare(x, info) == [scope EXCEPT ![Len(scope)] = Bind(@, x, info)]
DeferFirst(e) == [defers EXCEPT ![Len(defers)] = <<e>> \o @]                \* mutant
DeferLast(e) == [defers EXCEPT ![Len(defers)] = Append(@, e)]

CheckLet ==
  /\ At("let")
  /\ LET ty == IF Node.ann # NoType THEN Node.ann ELSE Type(Node.e)
         ok == ty \notin {Ill, Void} /\ Node.x \notin DOMAIN Last(scope)
     IN  \/ /\ ok
            /\ scope' = Declare(Node.x, VarInfo(ty, Node.uniq, pc))
            /\ defers' = IF Node.uniq
                         THEN DeferLast(Call("free", <<Var(Node.x)>>)) ELSE defers
            /\ UNCHANGED loopDepth
            /\ Advance
         \/ ~ok /\ Fatal

CheckExpr ==
  /\ At("expr")
  /\ \/ /\ Type(Node.e) # Ill
        /\ UNCHANGED <<scope, loopDepth, defers>>
        /\ Advance
     \/ Type(Node.e) = Ill /\ Fatal

CheckReturn ==
  /\ At("return")
  /\ LET ok == ReturnOK(Node.e, Fn.ret, [x \in Visible |-> Lookup(x).ty], fns)
     IN  \/ ok /\ UNCHANGED <<scope, loopDepth, defers>> /\ Advance
         \/ ~ok /\ Fatal

CheckIf ==
  /\ At("if")
  /\ LET ok == Type(Node.e) \notin {Ill, Void}
     IN  \/ /\ ok
            /\ scope' = Push(scope, Nothing)
            /\ defers' = Push(defers, << >>)
            /\ UNCHANGED loopDepth
            /\ Advance
         \/ ~ok /\ Fatal

CheckElseNoPop ==                                                           \* mutant
  /\ At("else")
  /\ scope' = Push(scope, Nothing)
  /\ defers' = Push(Front(defers), << >>)
  /\ UNCHANGED loopDepth
  /\ Advance
CheckElse ==
  /\ At("else")
  /\ scope' = Push(Popped, Nothing)
  /\ defers' = Push(Front(defers), << >>)
  /\ UNCHANGED loopDepth
  /\ Advance

CheckEndIf ==
  /\ At("endif")
  /\ scope' = Popped
  /\ defers' = Front(defers)
  /\ UNCHANGED loopDepth
  /\ Advance

CheckWhile ==
  /\ At("while")
  /\ LET ok == Type(Node.e) \notin {Ill, Void}
     IN  \/ /\ ok
            /\ scope' = Push(scope, Nothing)
            /\ defers' = Push(defers, << >>)
            /\ loopDepth' = loopDepth + 1
            /\ Advance
         \/ ~ok /\ Fatal

ExitLoopNever == UNCHANGED loopDepth                                        \* mutant
ExitLoop == loopDepth' = loopDepth - 1

CheckEndWhile ==
  /\ At("endwhile")
  /\ scope' = Popped
  /\ defers' = Front(defers)
  /\ ExitLoop
  /\ Advance

(* the deferred expression is collected, not inferred *)
CheckDefer ==
  /\ At("defer")
  /\ defers' = DeferLast(Node.e)
  /\ UNCHANGED <<scope, loopDepth>>
  /\ Advance

CheckBreak ==
  /\ At("break")
  /\ \/ loopDepth # 0 /\ UNCHANGED <<scope, loopDepth, defers>> /\ Advance
     \/ loopDepth = 0 /\ Fatal

CheckContinueAnywhere ==                                                    \* mutant
  At("continue") /\ UNCHANGED <<scope, loopDepth, defers>> /\ Advance
CheckContinue ==
  /\ At("continue")
  /\ \/ loopDepth # 0 /\ UNCHANGED <<scope, loopDepth, defers>> /\ Advance
     \/ loopDepth = 0 /\ Fatal

CheckStmt ==
  \/ CheckLet \/ CheckExpr \/ CheckReturn \/ CheckDefer
  \/ CheckIf \/ CheckElse \/ CheckEndIf
  \/ CheckWhile \/ CheckEndWhile \/ CheckBreak \/ CheckContinue

Analyze == GatherSig \/ StartChecking \/ EnterFunction \/ LeaveFunction \/ Accept \/ CheckStmt

(* analyze() has returned, or the process has exited *)
Terminated == status \in {"accepted", "fatal"} /\ UNCHANGED vars

Next == Analyze \/ Terminated

(* a single thread that does nothing but run the analysis *)
Spec == Init /\ [][Next]_vars /\ WF_vars(Analyze)

-----------------------------------------------------------------------------
(* The shape of the analyser's state: fns knows every builtin from         *)
(* Sema::primaries on, and the scope stack never loses its outermost scope.*)
TypeOK ==
  /\ status \in {"gather", "enter", "check", "accepted", "fatal"}
  /\ cur \in 1 .. Len(prog) + 1
  /\ pc \in Nat \ {0}
  /\ status = "check" => cur <= Len(prog) /\ pc <= Len(Fn.body) + 1
  /\ \A i \in DOMAIN scope : DOMAIN scope[i] \subseteq Names
  /\ scope # << >>
  /\ DOMAIN Builtins \subseteq DOMAIN fns
  /\ loopDepth \in Int

(* The scope stack and the vectors of deferred expressions mirror the open *)
(* blocks: one per block and one for the function, above the global scope. *)
(* A missing or extra push() or pop() on any path would break this.        *)
StacksMirrorBlocks ==
  /\ status \in {"gather", "enter", "accepted"} => Len(scope) = 1 /\ defers = << >>
  /\ status = "check" => /\ Len(scope) = 2 + BlockDepth(Fn.body, pc)
                         /\ Len(defers) = 1 + BlockDepth(Fn.body, pc)

(* loopDepth counts exactly the while bodies around the current statement, *)
(* also after loops nested in branches and loops of earlier functions.     *)
LoopDepthIsExact ==
  /\ status = "check" => loopDepth = LoopDepth(Fn.body, pc)
  /\ status = "enter" => loopDepth = 0

(* Scope::lookup finds, for every name and at every statement, the         *)
(* declaration that lexical scoping says the name stands for.              *)
ScopeIsLexical ==
  status = "check" =>
    /\ Visible = {x \in Names : Lexical(Fn, pc, x) # NoSite}
    /\ \A x \in Visible : Lookup(x).site = Lexical(Fn, pc, x)

(* The vector of an open block has the deferred expressions of its own list*)
(* of statements so far, a unique variable's free() among them, in order,  *)
(* and no other's.                                                         *)
Defers(node) == node.k = "defer" \/ (node.k = "let" /\ node.uniq)
DefersOfOpenBlocks ==
  status = "check" =>
    LET body == Fn.body
        open == {d \in 1 .. pc-1 : Defers(body[d]) /\ \A q \in d+1 .. pc-1 : ~EndsList(body, d, q)}
        kept(node) == IF node.k = "defer" THEN node.e ELSE Call("free", <<Var(node.x)>>)
        earlier(d) == {b \in 1 .. d-1 : SameList(body, b, d) /\ Defers(body[b])}
    IN  /\ \A d \in open :
             defers[1 + BlockDepth(body, d)][1 + Cardinality(earlier(d))] = kept(body[d])
        /\ \A n \in DOMAIN defers :
             Len(defers[n]) = Cardinality({d \in open : 1 + BlockDepth(body, d) = n})

(* Analysis is a verdict: it ends, and it accepts the well-formed programs *)
(* and no others (see Judge).                                              *)
Verdict == CASE status = "accepted" -> "accepted"
             [] status = "fatal" -> "rejected"
             [] OTHER -> "pending"
J == INSTANCE Judge WITH verdict <- Verdict
ImplementsJudge == J!Spec

(* sema.cpp:193 says of a deferred expression "type-checked above": every  *)
(* deferred expression of an accepted function has a type.                 *)
DefersAreTypeChecked ==
  status = "check" =>
    \A i \in DOMAIN defers : \A j \in DOMAIN defers[i] : Type(defers[i][j]) # Ill
=============================================================================
