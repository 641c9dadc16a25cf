------------------------------- MODULE Typing -------------------------------
(***************************************************************************)
(* The types of Aurora: Infer gives the type sema.cpp computes for an      *)
(* expression, WellFormed says in one formula which programs the rules of  *)
(* sema.cpp admit.  WellFormed knows no scope stack, no loop counter and   *)
(* no order of checking: names are resolved by Lexical, loops by position. *)
(***************************************************************************)
EXTENDS Syntax

Ill == [k |-> "ill"]           \* infer() ended in fatal()

Arithmetic == {"+", "-", "*", "/", "%"}
Comparison == {"==", "!=", "<", "<=", ">", ">="}
Logical == {"&&", "||"}

Sig(params, ret) == [params |-> params, ret |-> ret]
SigOf(fn) == Sig([k \in DOMAIN fn.params |-> fn.params[k].ty], fn.ret)

(* Sema::primaries *)
Builtins ==
  [f \in {"print_i64", "read_i64", "malloc", "free"} |->
     CASE f = "print_i64" -> Sig(<<I64>>, I64)
       [] f = "read_i64"  -> Sig(<< >>, I64)
       [] f = "malloc"    -> Sig(<<I64>>, Ptr(I64))
       [] f = "free"      -> Sig(<<Ptr(I64)>>, Void)]

(* Sema::infer, given the types of the visible variables and of the        *)
(* functions.  T has what infer makes of e's operands.                     *)
infer(env, sigs, T, e) ==
  CASE e.k = "int"   -> I64
    [] e.k = "bool"  -> Bool
    [] e.k = "var"   -> IF e.x \in DOMAIN env THEN env[e.x] ELSE Ill
    [] e.k = "unary" -> IF T[e.r] = Void THEN Ill ELSE T[e.r]
    [] e.k = "bin" /\ e.op = "=" ->
         IF T[e.l] = T[e.r] /\ T[e.r] # Void THEN T[e.l] ELSE Ill
    [] e.k = "bin" /\ e.op # "=" ->
         IF {T[e.l], T[e.r]} \cap {Ill, Void} # {} THEN Ill
         ELSE IF e.op \in Arithmetic THEN I64 ELSE Bool
    [] e.k = "call" ->
         IF /\ e.f \in DOMAIN sigs
            /\ [i \in DOMAIN e.args |-> T[e.args[i]]] = sigs[e.f].params
         THEN sigs[e.f].ret ELSE Ill
    [] e.k = "arraylit" ->
         IF /\ e.elems # << >>
            /\ T[e.elems[1]] # Ill
            /\ \A i \in DOMAIN e.elems : T[e.elems[i]] = T[e.elems[1]]
         THEN Array(T[e.elems[1]], Len(e.elems)) ELSE Ill
    [] e.k = "index" ->
         IF T[e.a].k \in {"array", "ptr"} /\ T[e.i] \in {I64, I32}
         THEN T[e.a].elem ELSE Ill

Infer(env, sigs) == LET T[e \in Exprs] == infer(env, sigs, T, e) IN T

(* the type of a declared variable: its annotation, else that of its init  *)
DeclaredType(let, env, sigs) ==
  IF let.ann # NoType THEN let.ann ELSE Infer(env, sigs)[let.e]

(* Sema::checkStmt on a return *)
ReturnOK(e, ret, env, sigs) ==
  IF ret = Void THEN e = NoExpr ELSE e # NoExpr /\ Infer(env, sigs)[e] = ret

-----------------------------------------------------------------------------
(* The reference *)

(* the signature a name has in the whole program: its last definition's    *)
Sigs(prog) ==
  LET named(f) == {i \in DOMAIN prog : prog[i].name = f}
  IN  [f \in DOMAIN Builtins \cup {prog[i].name : i \in DOMAIN prog} |->
         IF named(f) = {} THEN Builtins[f] ELSE SigOf(prog[Max(named(f))])]

(* the type of the variable declared at each site of fn *)
SiteTypes(fn, sigs) ==
  LET Ty[s \in -Len(fn.params) .. Len(fn.body)] ==
        IF s <= 0 THEN fn.params[-s].ty
        ELSE DeclaredType(fn.body[s],
               [x \in {y \in Names : Lexical(fn, s, y) # NoSite} |-> Ty[Lexical(fn, s, x)]],
               sigs)
  IN  Ty

EnvAt(fn, p, sigs) ==
  [x \in {y \in Names : Lexical(fn, p, y) # NoSite} |-> SiteTypes(fn, sigs)[Lexical(fn, p, x)]]

(* x is already declared in the very list of statements position p is in   *)
Redeclared(fn, p, x) ==
  \/ \E d \in 1 .. p-1 : /\ fn.body[d].k = "let" /\ fn.body[d].x = x
                         /\ SameList(fn.body, d, p)
  \/ BlockDepth(fn.body, p) = 0 /\ ParamSite(fn.params, x) # NoSite

StatementOK(fn, p, sigs) ==
  LET node == fn.body[p]
      env  == EnvAt(fn, p, sigs)
  IN  CASE node.k = "let" -> /\ DeclaredType(node, env, sigs) \notin {Ill, Void}
                             /\ ~Redeclared(fn, p, node.x)
        [] node.k = "expr" -> Infer(env, sigs)[node.e] # Ill
        [] node.k = "return" -> ReturnOK(node.e, fn.ret, env, sigs)
        [] node.k \in {"if", "while"} -> Infer(env, sigs)[node.e] \notin {Ill, Void}
        [] node.k \in {"break", "continue"} -> LoopDepth(fn.body, p) > 0
        [] OTHER -> TRUE

WellFormed(prog) ==
  \A i \in DOMAIN prog :
    /\ \A k \in DOMAIN prog[i].params : prog[i].params[k].ty # Void
    /\ \A p \in DOMAIN prog[i].body : StatementOK(prog[i], p, Sigs(prog))
=============================================================================
