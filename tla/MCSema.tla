------------------------------- MODULE MCSema -------------------------------
(***************************************************************************)
(* Instances of Sema: the programs the analyser is run on.                 *)
(***************************************************************************)
EXTENDS Sema, ProgramSets

x == Var("x")
y == Var("y")
one == IntLit(1)
Main(params, body) == <<Func("main", params, I64, body)>>

(* Scoping: declarations, uses, uniques and defers in every nesting, with  *)
(* enough statements for a use after the end of a shadowing block.         *)
ScopingStmts ==
  {Let("x", NoType, one), Let("y", Bool, x), LetUnique("x", y), ExprStmt(x), Defer(y)}
TwiceX == <<Param("x", Bool), Param("x", I64)>>
ScopingPrograms == {Main(<< >>, b) : b \in Bodies(ScopingStmts, {x}, 4)}
TwicePrograms == {Main(TwiceX, b) : b \in Bodies(ScopingStmts, {x}, 3)}

(* Loops: break and continue in every nesting of loops and branches, over  *)
(* two functions.                                                          *)
LoopPrograms == {Main(<< >>, b) : b \in Bodies({Break, Continue}, {one}, 4)}
TwoFunctions == {<<Func("f", << >>, Void, b), Func("main", << >>, I64, <<Break>>)>> :
                   b \in Bodies({Break, Continue}, {one}, 2)}

-----------------------------------------------------------------------------
(* Types: one statement on one expression of every shape, in functions of  *)
(* several return types, beside several definitions of the function g.     *)
Vars == <<Param("x", I64), Param("b", Bool), Param("p", Ptr(I64)),
          Param("a", Array(I64, 2)), Param("w", I32)>>
VarNames == {"x", "y", "b", "p", "a", "w", "z"}
b == Var("b")
p == Var("p")
a == Var("a")
w == Var("w")
nothing == Call("free", <<p>>)
Atoms == {one, BoolLit(TRUE), x, b, p, a, w, nothing}
TypedExprs ==
  Atoms
  \cup {Unary(op, e) : op \in {"-", "!"}, e \in {x, b, nothing}}
  \cup {Bin(l, op, r) : l \in {x, b, a}, op \in {"=", "+", "<", "&&"}, r \in {one, b, a, nothing}}
  \cup {Call(f, args) : f \in {"print_i64", "malloc", "free", "g", "h"},
                        args \in {<< >>, <<x>>, <<b>>, <<p>>, <<nothing>>, <<x, x>>}}
  \cup {ArrayLit(es) : es \in {<< >>, <<x, one>>, <<x, b>>, <<Var("u"), x>>, <<nothing>>}}
  \cup {Index(v, i) : v \in {a, p, x}, i \in {x, w, b}}
Statements(e) ==
  {<<ExprStmt(e)>>, <<Let("z", NoType, e), Return(Var("z"))>>, <<Return(e)>>,
   <<If(e), Else, EndIf>>, <<While(e), EndWhile, Return(NoExpr)>>}
Definitions ==
  LET g(ps, ret) == Func("g", ps, ret, << >>)
  IN  {<< >>, <<g(<<Param("x", I64)>>, I64)>>,
       <<g(<<Param("x", Bool)>>, Ptr(I64)), g(<< >>, Void)>>,
       <<Func("free", <<Param("x", I64)>>, Bool, << >>)>>,
       <<g(<<Param("x", I64), Param("z", Void)>>, I64)>>}
TypingPrograms ==
  {<<Func("main", Vars, ret, body)>> \o defs :
     ret \in {I64, Bool, Void}, body \in UNION {Statements(e) : e \in TypedExprs},
     defs \in Definitions}

(* A constant is replaced by an alias of its value: TLC evaluates the      *)
(* definition in the configuration at every use, and the one behind once.  *)
AllPrograms ==
  With({"let", "defer", "expr"}, ScopingPrograms) \cup (With({"let"}, TwicePrograms)
    \cup (With({"break", "continue"}, LoopPrograms) \cup (With({"break"}, TwoFunctions) \cup TypingPrograms)))
AllExprs == SubExprs(TypedExprs \cup {y, Var("z")})
ThePrograms == AllPrograms
TheExprs == AllExprs

-----------------------------------------------------------------------------
(* Programs on which the analyser parts from what is said of it.           *)
DeferPrograms == {Main(<< >>, <<Defer(e)>> \o body) :
                    e \in {one, Var("u")}, body \in Lines({ExprStmt(one), Break}, 5)}
DeferExprs == {one, Var("u")}
=============================================================================
