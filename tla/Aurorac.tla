------------------------------- MODULE Aurorac ------------------------------
(***************************************************************************)
(* The compiler behind the parser, as src/main.cpp runs it: Sema analyses  *)
(* the program, and if it returns CodeGen emits it.  The variables of      *)
(* CodeGen keep their names here, those of Sema are renamed.               *)
(***************************************************************************)
EXTENDS CodeGen

VARIABLES semaStatus, semaCur, semaPc, scope, fns, loopDepth, defers

S == INSTANCE Sema WITH status <- semaStatus, cur <- semaCur, pc <- semaPc

semaVars == <<semaStatus, semaCur, semaPc, scope, fns, loopDepth, defers>>
allVars == <<vars, semaVars>>

CompilerInit == Init /\ S!Start

Analysis == S!Analyze /\ UNCHANGED vars

Generation == semaStatus = "accepted" /\ Emit /\ UNCHANGED semaVars

Exited ==
  /\ semaStatus = "fatal" \/ status \in {"emitted", "fatal"}
  /\ UNCHANGED allVars

Compiler ==
  CompilerInit /\ [][Analysis \/ Generation \/ Exited]_allVars /\ WF_allVars(Analysis \/ Generation)

-----------------------------------------------------------------------------
(* Of an accepted program CodeGen finds every name in its maps, every      *)
(* called function in the module, every break and continue in a loop, and  *)
(* no array literal empty: those calls of fatal() Sema has ruled out, but  *)
(* for the initialisers of annotated lets, which Sema does not look at,    *)
(* and the body of a function whose name a later one has taken over, which *)
(* is generated with the parameters of that one.                           *)
SemaCoversErrors ==
  diag \in {"unknown var", "unknown callee", "outside of loop", "empty array literal"} =>
    \/ Node.k = "let" /\ Node.ann # NoType
    \/ functions[Fn.name] # cur

(* SPEC.md:29 "'=' assigns; types must match": every value stored in an    *)
(* accepted program has the type of the variable it is stored in.          *)
StoresMatchTypes == ForAllCode(LAMBDA bs, x : x.i.op = "store" => x.i.fits)

(* What is accepted is compiled: the verifier finds nothing Sema let pass. *)
AcceptedCompiles == status # "fatal"
=============================================================================
