------------------------------- MODULE Syntax -------------------------------
(***************************************************************************)
(* Aurora programs as the passes behind the parser see them (src/ast.h,    *)
(* src/types.h).  A function body is the pre-order walk that both          *)
(* Sema::checkStmt and CodeGen::genStmt make of the statement tree: one    *)
(* node per statement, and the nodes "else", "endif" and "endwhile" where  *)
(* the recursion leaves a block.  Every SIf has its "else", as its         *)
(* elseStmts vector always exists.  An expression is a tree of records.    *)
(***************************************************************************)
EXTENDS Integers, Sequences, FiniteSets, SequencesExt

CONSTANTS
  Names,     \* variable names
  Exprs,     \* the expressions of the programs, closed under subexpressions
  Programs   \* the programs considered: sequences of functions

-----------------------------------------------------------------------------
(* Types.  I1 and OpaquePtr exist only in the generated IR.                *)

I32  == [k |-> "i32"]
I64  == [k |-> "i64"]
Bool == [k |-> "bool"]
Void == [k |-> "void"]
Ptr(t) == [k |-> "ptr", elem |-> t]
Array(t, n) == [k |-> "array", elem |-> t, size |-> n]
NoType == [k |-> "none"]                 \* SLet::annType == nullptr
IsType(t) == t.k \in {"i32", "i64", "bool", "void", "ptr", "array"}

(* Expressions *)
IntLit(v) == [k |-> "int", v |-> v]
BoolLit(b) == [k |-> "bool", b |-> b]
Var(x) == [k |-> "var", x |-> x]
Unary(op, r) == [k |-> "unary", op |-> op, r |-> r]
Bin(l, op, r) == [k |-> "bin", op |-> op, l |-> l, r |-> r]
Call(f, args) == [k |-> "call", f |-> f, args |-> args]
ArrayLit(elems) == [k |-> "arraylit", elems |-> elems]
Index(a, i) == [k |-> "index", a |-> a, i |-> i]
NoExpr == [k |-> "none"]                 \* SReturn::e == nullptr

(* Statements *)
Let(x, ann, e) == [k |-> "let", x |-> x, ann |-> ann, uniq |-> FALSE, e |-> e]
LetUnique(x, e) == [k |-> "let", x |-> x, ann |-> NoType, uniq |-> TRUE, e |-> e]
ExprStmt(e) == [k |-> "expr", e |-> e]
Return(e) == [k |-> "return", e |-> e]
If(c) == [k |-> "if", e |-> c]
Else == [k |-> "else"]
EndIf == [k |-> "endif"]
While(c) == [k |-> "while", e |-> c]
EndWhile == [k |-> "endwhile"]
Defer(e) == [k |-> "defer", e |-> e]
Break == [k |-> "break"]
Continue == [k |-> "continue"]

Param(x, t) == [x |-> x, ty |-> t]
Func(name, params, ret, body) ==
  [name |-> name, params |-> params, ret |-> ret, body |-> body]

-----------------------------------------------------------------------------
(* The nesting of a body, read off its nodes.  Position p stands for the   *)
(* moment a pass is about to handle body[p].                               *)

Before(body, p, kinds) == {i \in 1 .. p-1 : i <= Len(body) /\ body[i].k \in kinds}

(* number of while bodies that enclose position p *)
LoopDepth(body, p) ==
  Cardinality(Before(body, p, {"while"})) - Cardinality(Before(body, p, {"endwhile"}))

(* number of blocks (branches and loop bodies) that enclose position p *)
BlockDepth(body, p) ==
  Cardinality(Before(body, p, {"if", "while"}))
    - Cardinality(Before(body, p, {"endif", "endwhile"}))

(* the node that opened the innermost block around position p *)
Opener(body, p) ==
  Max({i \in 1 .. p-1 : /\ body[i].k \in {"if", "while"}
                        /\ BlockDepth(body, i) = BlockDepth(body, p) - 1})

(* the node at o opens a block that goes on up to position p *)
BlockFrom(body, o, p) ==
  /\ body[o].k \in {"if", "while"}
  /\ BlockDepth(body, p) = BlockDepth(body, o) + 1
  /\ \A q \in o+1 .. p-1 : BlockDepth(body, q) > BlockDepth(body, o)

HasElse(body, o, p) ==
  \E q \in o+1 .. p-1 : body[q].k = "else" /\ BlockDepth(body, q) = BlockDepth(body, p)

(* the node at p ends a branch or a loop, and the right one *)
Closes(body, p) ==
  /\ BlockDepth(body, p) > 0
  /\ body[p].k = "endwhile" => LoopDepth(body, p) > 0
  /\ \E o \in 1 .. p-1 :
       /\ BlockFrom(body, o, p)
       /\ body[o].k = IF body[p].k = "endwhile" THEN "while" ELSE "if"
       /\ HasElse(body, o, p) <=> body[p].k = "endif"

WellNested(body) ==
  /\ BlockDepth(body, Len(body) + 1) = 0
  /\ LoopDepth(body, Len(body) + 1) = 0
  /\ \A p \in 1 .. Len(body) :
       body[p].k \in {"else", "endif", "endwhile"} => Closes(body, p)

(* Position q ends the statement list that position p is in.               *)
EndsList(body, p, q) ==
  /\ body[q].k \in {"else", "endif", "endwhile"}
  /\ BlockDepth(body, q) = BlockDepth(body, p)

SameList(body, p, q) ==
  /\ BlockDepth(body, p) = BlockDepth(body, q)
  /\ \A i \in p .. q-1 : ~EndsList(body, p, i)

-----------------------------------------------------------------------------
(* Lexical scoping, the reference both passes are held to: at p the name x *)
(* means the last declaration of x before p whose statement list is still  *)
(* open, else the first parameter called x.  A declaration is identified   *)
(* by its position, parameter number k by -k, and 0 is "undeclared".       *)

NoSite == 0

ParamSite(params, x) ==
  LET ks == {k \in 1 .. Len(params) : params[k].x = x}
  IN  IF ks = {} THEN NoSite ELSE -Min(ks)

Lexical(fn, p, x) ==
  LET ds == {d \in 1 .. p-1 : /\ fn.body[d].k = "let"
                              /\ fn.body[d].x = x
                              /\ \A q \in d+1 .. p-1 : ~EndsList(fn.body, d, q)}
  IN  IF ds = {} THEN ParamSite(fn.params, x) ELSE Max(ds)

(* the name declared at a site of fn *)
NameAt(fn, site) == IF site > 0 THEN fn.body[site].x ELSE fn.params[-site].x

(* f with x bound to v, as assignment to an unordered_map entry *)
Bind(f, x, v) == [y \in DOMAIN f \cup {x} |-> IF y = x THEN v ELSE f[y]]

(* what the parser guarantees of the programs it returns (see Parser) *)
IsSeq(s) == s \in Seq(Range(s))

Parsed(prog) ==
  /\ IsSeq(prog)
  /\ \A n \in DOMAIN prog :
       /\ IsSeq(prog[n].params)
       /\ \A k \in DOMAIN prog[n].params : /\ prog[n].params[k].x \in Names
                                           /\ IsType(prog[n].params[k].ty)
       /\ IsType(prog[n].ret)
       /\ IsSeq(prog[n].body)
       /\ WellNested(prog[n].body)
       /\ \A p \in DOMAIN prog[n].body :
            prog[n].body[p].k = "let" => prog[n].body[p].x \in Names

ASSUME ProgramsAssumption == \A prog \in Programs : Parsed(prog)

-----------------------------------------------------------------------------
(* Expressions are finite trees: Depth, by recursion over the children,    *)
(* comes to an end on each of them.                                        *)

Children(e) ==
  CASE e.k = "unary" -> {e.r}
    [] e.k = "bin" -> {e.l, e.r}
    [] e.k = "call" -> Range(e.args)
    [] e.k = "arraylit" -> Range(e.elems)
    [] e.k = "index" -> {e.a, e.i}
    [] OTHER -> {}

Depth ==
  LET D[e \in Exprs] == 1 + Max({0} \cup {D[d] : d \in Children(e)})
  IN  D

ASSUME ExprsAssumption ==
  \A e \in Exprs :
    /\ e.k \in {"int", "bool", "var", "unary", "bin", "call", "arraylit", "index"}
    /\ Children(e) \subseteq Exprs
    /\ Depth[e] \in Nat
    /\ \A d \in Children(e) : Depth[d] < Depth[e]
    /\ e.k = "call" => IsSeq(e.args)
    /\ e.k = "arraylit" => IsSeq(e.elems)

(* the operators that parseExpression and what it calls look for *)
UnaryOps == {"!", "-"}
BinaryOps == {"=", "||", "&&", "==", "!=", "<", "<=", ">", ">=", "+", "-", "*", "/", "%"}

ASSUME OperatorsAssumption ==
  \A e \in Exprs : /\ e.k = "unary" => e.op \in UnaryOps
                   /\ e.k = "bin" => e.op \in BinaryOps

(* a node's expression, if it has one *)
HasExpr(node) ==
  node.k \in {"let", "expr", "if", "while", "defer"} \/ (node.k = "return" /\ node.e # NoExpr)

ASSUME NodesAssumption ==
  \A prog \in Programs : \A n \in DOMAIN prog : \A p \in DOMAIN prog[n].body :
    HasExpr(prog[n].body[p]) => prog[n].body[p].e \in Exprs
=============================================================================
