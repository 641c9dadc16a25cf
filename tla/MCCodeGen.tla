------------------------------ MODULE MCCodeGen -----------------------------
(***************************************************************************)
(* Instances of CodeGen by itself, on programs no analysis has seen.       *)
(***************************************************************************)
EXTENDS CodeGen, ProgramSets

x == Var("x")
b == Var("b")
a == Var("a")
p == Var("p")
w == Var("w")
z == Var("z")
one == IntLit(1)
Params == <<Param("x", I64), Param("b", Bool), Param("a", Array(I64, 2)), Param("p", Ptr(I64)),
            Param("w", I32), Param("x", Bool)>>
AllNames == {"x", "b", "a", "p", "w", "z"}

(* expressions of every shape genExpr tells apart *)
Leaves == {one, BoolLit(TRUE), x, b, a, p, z}
Shapes ==
  Leaves
  \cup {Unary("-", x), Unary("!", b), Unary("-", one)}
  \cup {Bin(l, op, r) : l \in {x, one}, op \in {"=", "+", "<"}, r \in {one, b}}
  \cup {Bin(Index(l, i), "=", one) : l \in {a, p, one}, i \in {x, w, one}}
  \cup {Call("print_i64", <<x>>), Call("free", <<p>>), Call("f", << >>), Call("g", << >>)}
  \cup {ArrayLit(es) : es \in {<< >>, <<x, one>>, <<z, one>>}}
  \cup {Index(l, i) : l \in {a, p, x}, i \in {x, w, one}}
(* calls as operands, arguments, elements and indices of one another *)
u == Call("read_i64", << >>)
v == Call("print_i64", <<u>>)
CallShapes ==
  {Bin(l, op, r) : l \in {u, Index(a, u)}, op \in {"=", "+", "&&"}, r \in {v, Unary("-", u), Index(p, v)}}
  \cup {ArrayLit(es) : es \in {<<x, u, v>>, <<u, v>>, <<Call("f", <<v, u>>), x>>, <<ArrayLit(<<v, x>>), u>>}}
  \cup {Call("f", es) : es \in {<<u, v>>, <<ArrayLit(<<v>>), u>>, <<Index(a, v), u, one>>}}
AllShapes == Shapes \cup CallShapes
ShapeExprs == SubExprs(AllShapes)

StatementsOn(e) ==
  {<<ExprStmt(e)>>, <<Let("z", NoType, e), Return(z)>>, <<Let("z", Array(I64, 2), e)>>, <<Return(e)>>,
   <<If(e), Let("z", Bool, e), Else, ExprStmt(z), EndIf>>, <<While(e), Let("x", NoType, e), EndWhile>>}

(* the second function sees no name of the first *)
ShapePrograms ==
  {<<Func("f", Params, ret, body), Func("main", << >>, I64, <<Return(r)>>)>> :
     ret \in {I64, Bool}, body \in UNION {StatementsOn(e) : e \in AllShapes}, r \in {one, z}}

(* Nesting: jumps in and out of loops, in two functions of one name or not *)
NestBodies == Bodies({Break, Continue, Return(one), Defer(z), Let("z", NoType, one)}, {one}, 3)
NestPrograms ==
  {<<Func("f", << >>, I64, body)>> : body \in NestBodies}
  \cup {<<Func("f", <<Param("x", I64)>>, I64, body), Func(f, <<Param("z", I64)>>, I64, <<Return(z)>>)>> :
          f \in {"f", "g"}, body \in Bodies({Break, Let("z", NoType, x)}, {x}, 2)}
NestExprs == {one, z, x}

AllPrograms == ShapePrograms \cup NestPrograms
AllExprs == ShapeExprs \cup NestExprs
=============================================================================
