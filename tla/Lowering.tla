------------------------------ MODULE Lowering ------------------------------
(***************************************************************************)
(* What CodeGen::genExpr makes of an expression: the LLVM value it returns *)
(* and the instructions it appends.  Operands are abstracted to their type *)
(* and to the variables' allocas they are; constants fold away as the      *)
(* IRBuilder folds them.  Code lies in allocas called slots: <<c, s>> is   *)
(* the alloca made for site s of the c-th function body.                   *)
(***************************************************************************)
EXTENDS Syntax

I1 == [k |-> "i1"]
OpaquePtr == [k |-> "opaque"]
Integer == {I1, I32, I64}

(* CodeGen::tyLLVM; an array's elements are never arrays (Parser::parseType) *)
Scalar(t) == CASE t = Bool -> I1
               [] t.k = "ptr" -> OpaquePtr
               [] OTHER -> t
tyLLVM(t) == IF t.k = "array" THEN Array(Scalar(t.elem), t.size) ELSE Scalar(t)

LLSig(params, ret, vararg) == [params |-> params, ret |-> ret, vararg |-> vararg]
LLSigOf(fn) == LLSig([k \in DOMAIN fn.params |-> tyLLVM(fn.params[k].ty)], tyLLVM(fn.ret), FALSE)

(* the functions the CodeGen constructor declares *)
Externals ==
  [f \in {"printf", "malloc", "free", "print_i64", "read_i64"} |->
     CASE f = "printf"    -> LLSig(<<OpaquePtr>>, I32, TRUE)
       [] f = "malloc"    -> LLSig(<<I64>>, OpaquePtr, FALSE)
       [] f = "free"      -> LLSig(<<OpaquePtr>>, Void, FALSE)
       [] f = "print_i64" -> LLSig(<<I64>>, I64, FALSE)
       [] f = "read_i64"  -> LLSig(<< >>, I64, FALSE)]

(* An instruction: the slots it refers to, whether LLVM's verifier finds   *)
(* its operand types right, and the statement (body, position) it is for.  *)
(* A branch also has its targets, a call its callee, a store whether the   *)
(* value stored has the type of the variable, or of an element it has.     *)
Instr(op, slots, ok, at) == [op |-> op, slots |-> slots, ok |-> ok, at |-> at]
Alloca(slot, ty, at) == Instr("alloca", {slot}, ty # Void, at)
Store(v, slots, ty, at) ==
  [op |-> "store", slots |-> slots \cup v.base, ok |-> v.ty # Void, at |-> at, fits |-> v.ty = ty]
Br(to, slots, at) == [op |-> "br", slots |-> slots, ok |-> TRUE, at |-> at, to |-> to]
CallTo(f, target, vs, ok, at) ==
  [op |-> "call", slots |-> UNION {v.base : v \in Range(vs)}, ok |-> ok, at |-> at,
   callee |-> f, target |-> target]

(* A value, or the reason for which genExpr called fatal().  base is the   *)
(* slot the value is the address of, as a set.                             *)
Value(ty, code) == [ty |-> ty, const |-> FALSE, base |-> {}, code |-> code, stop |-> ""]
Const(ty) == [Value(ty, << >>) EXCEPT !.const = TRUE]
Stop(why) == [Value(NoType, << >>) EXCEPT !.stop = why]

ThenReversed(vs, ty, is) ==                                                 \* mutant
  LET bad == {i \in DOMAIN vs : vs[i].stop # ""}
      code == FlattenSeq(Reverse([i \in DOMAIN vs |-> vs[i].code]))
  IN  IF bad # {} THEN vs[Min(bad)] ELSE Value(ty, code \o is)

(* the values of vs in turn, then the code is and its result of type ty *)
Then(vs, ty, is) ==
  LET bad == {i \in DOMAIN vs : vs[i].stop # ""}
  IN  IF bad # {} THEN vs[Min(bad)]
      ELSE Value(ty, FlattenSeq([i \in DOMAIN vs |-> vs[i].code]) \o is)

(* an operation on the values vs, folded when all are constants *)
Op(op, vs, ty, ok, at) ==
  IF \A i \in DOMAIN vs : vs[i].const THEN [Then(vs, ty, << >>) EXCEPT !.const = TRUE]
  ELSE Then(vs, ty, <<Instr(op, UNION {vs[i].base : i \in DOMAIN vs}, ok, at)>>)

(* the type of a variable that is not an array, where one is filled *)
NoArray == Array(NoType, 0)

(* vs, in turn, each stored through its own element pointer into an array, *)
(* whatever the array's length is; the verifier refuses the pointers into  *)
(* what is not an array                                                    *)
Fill(vs, slots, array, at) ==
  FlattenSeq([i \in DOMAIN vs |->
    <<Instr("gep", slots, array # NoArray, at)>> \o vs[i].code
      \o <<[Store(vs[i], {}, array.elem, at) EXCEPT !.fits = @ /\ i <= array.size]>>])

(* genExpr under env: vals and types are namedValues and namedTypes, funcs *)
(* gives the module's functions by name, at is the statement.  G has what  *)
(* genExpr makes of e's operands.                                          *)
genExpr(env, G, e) ==
  LET at == env.at
      Index32(v) == IF v.ty = I32 THEN v ELSE Op("trunc", <<v>>, I32, v.ty = I64, at)
      IsArray(x) == env.types[x].k = "array"
  IN  CASE e.k = "int"  -> Const(I64)
        [] e.k = "bool" -> Const(I1)
        [] e.k = "var"  ->
             IF e.x \notin DOMAIN env.vals THEN Stop("unknown var")
             ELSE IF IsArray(e.x) THEN [Value(OpaquePtr, << >>) EXCEPT !.base = {env.vals[e.x]}]
             ELSE Value(env.types[e.x], <<Instr("load", {env.vals[e.x]}, TRUE, at)>>)
        [] e.k = "unary" ->
             LET r == G[e.r] IN Op(e.op, <<r>>, r.ty, r.ty \in Integer, at)
        [] e.k = "bin" /\ e.op = "=" /\ e.l.k = "var" ->
             IF e.l.x \notin DOMAIN env.vals THEN Stop("unknown var")
             ELSE LET rv == G[e.r]
                  IN  [rv EXCEPT !.code = @ \o <<Store(rv, {env.vals[e.l.x]}, env.types[e.l.x], at)>>]
        [] e.k = "bin" /\ e.op = "=" /\ e.l.k = "index" ->
             IF e.l.a.k # "var" THEN Stop("indexing on non-variable")
             ELSE IF e.l.a.x \notin DOMAIN env.vals THEN Stop("unknown var")
             ELSE LET s == env.vals[e.l.a.x]
                      i == Index32(G[e.l.i])
                      array == IsArray(e.l.a.x)
                      elem == IF array THEN env.types[e.l.a.x].elem ELSE I64
                      address == IF array THEN <<Instr("gep", {s}, TRUE, at)>>
                                 ELSE <<Instr("load", {s}, TRUE, at), Instr("gep", {}, TRUE, at)>>
                      rv == G[e.r]
                      run == Then(<<Then(<<i>>, I32, address), rv>>, rv.ty,
                                  <<Store(rv, {}, elem, at)>>)
                  IN  [run EXCEPT !.const = rv.const, !.base = rv.base]
        [] e.k = "bin" /\ e.op = "=" /\ e.l.k \notin {"var", "index"} ->
             Stop("assignment target must be a variable")
        [] e.k = "bin" /\ e.op # "=" ->
             LET l == G[e.l]
                 r == G[e.r]
                 compares == e.op \in {"==", "!=", "<", "<=", ">", ">="}
             IN  Op(e.op, <<l, r>>, IF compares THEN I1 ELSE l.ty,
                    l.ty = r.ty /\ (l.ty \in Integer \/ (compares /\ l.ty = OpaquePtr)), at)
        [] e.k = "call" ->
             IF e.f \notin DOMAIN env.funcs THEN Stop("unknown callee")
             ELSE LET f  == env.funcs[e.f]
                      vs == [i \in DOMAIN e.args |-> G[e.args[i]]]
                      ok == /\ IF f.sig.vararg THEN Len(vs) >= Len(f.sig.params)
                               ELSE Len(vs) = Len(f.sig.params)
                            /\ \A i \in DOMAIN vs \cap DOMAIN f.sig.params :
                                 vs[i].ty = f.sig.params[i]
                  IN  Then(vs, f.sig.ret, <<CallTo(e.f, f.target, vs, ok, at)>>)
        [] e.k = "arraylit" ->
             IF e.elems = << >> THEN Stop("empty array literal")
             ELSE LET vs == [i \in DOMAIN e.elems |-> G[e.elems[i]]]
                      bad == Then(vs, OpaquePtr, << >>)
                  IN  IF bad.stop # "" THEN bad
                      ELSE Value(OpaquePtr, vs[1].code \o <<Instr("alloca", {}, vs[1].ty # Void, at)>>
                                              \o Fill(vs, {}, Array(vs[1].ty, Len(vs)), at))
        [] e.k = "index" ->
             LET a == G[e.a]
                 elem == IF e.a.k = "var" /\ e.a.x \in DOMAIN env.types /\ IsArray(e.a.x)
                         THEN env.types[e.a.x].elem ELSE I64
                 i == G[e.i]
                 i32 == IF i.ty = I64 THEN Index32(i) ELSE i
             IN  IF a.stop = "" /\ a.ty # OpaquePtr THEN Stop("must be a pointer")
                 ELSE Then(<<a, i32>>, elem, <<Instr("gep", a.base \cup i.base, i.ty \in Integer, at),
                                               Instr("load", {}, TRUE, at)>>)

Gen(env) == LET G[e \in Exprs] == genExpr(env, G, e) IN G
=============================================================================
