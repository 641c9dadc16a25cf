------------------------------ MODULE MCAurorac -----------------------------
(***************************************************************************)
(* Instances of Aurorac: the programs the compiler is run on.              *)
(***************************************************************************)
EXTENDS Aurorac, ProgramSets

x == Var("x")
y == Var("y")
one == IntLit(1)
IntX == <<Param("x", I64)>>
Main(params, body) == <<Func("main", params, I64, body)>>

(* Control flow: jumps, returns and statements with and without code in    *)
(* every nesting of loops and branches.                                    *)
SetX == ExprStmt(Bin(x, "=", one))
JumpPrograms ==
  {Main(IntX, b) : b \in Bodies({Return(one), Break, Continue, SetX}, {x}, 4)}
DeadPrograms ==
  {Main(IntX, b) : b \in Bodies({Return(x), Break, Defer(x), ExprStmt(one), Let("y", NoType, x)}, {x}, 3)}
XY == {"x", "y"}

(* Functions whose end the implicit return does not fit. *)
EndPrograms ==
  {<<Func("f", <<Param("x", ty)>>, ret, b)>> :
     ty \in {I32, Bool}, ret \in {I32, Bool, Void},
     b \in Bodies({Return(x), Return(NoExpr), SetX, Let("y", NoType, one)}, {one}, 3)}

(* Scoping: declarations and uses in every nesting, names shadowed or not. *)
TwoNamePrograms ==
  {Main(ps, b) : ps \in {<< >>, IntX},
                 b \in Bodies({Let("x", NoType, one), Let("y", NoType, x), SetX, Return(one)}, {one}, 3)}
OneNamePrograms ==
  {Main(IntX, b) : b \in Bodies({Let("x", NoType, one), SetX, Return(one)}, {one}, 4)}
(* What CodeGen may stop at, in what Sema looks at and in what it does not: *)
(* a function of any name before the second, and a statement of each kind;  *)
(* and an annotation that is not the type of the literal behind it.         *)
Unknown == Call("h", <<x>>)
Empty == ArrayLit(<< >>)
FirstOf == Index(ArrayLit(<<y>>), one)
Errors ==
  {Let("y", NoType, x), Let("y", I64, x), Let("y", I64, Unknown), Let("y", I64, FirstOf), Let("y", Bool, Empty),
   Let("y", I64, ArrayLit(<<one>>)), Let("y", Ptr(I64), Bin(Empty, "+", x)),
   ExprStmt(Call("f", <<x>>)), ExprStmt(Unknown),
   ExprStmt(FirstOf), ExprStmt(Bin(Index(y, one), "=", x)), ExprStmt(Bin(FirstOf, "=", x)), Continue}
ErrorPrograms ==
  {<<Func("f", ps, I64, <<s, t, Return(one)>>), Func(f, qs, I64, <<Return(one)>>)>> :
     ps \in {<< >>, IntX}, qs \in {<< >>, <<Param("y", I64)>>}, s \in Errors, t \in Errors,
     f \in {"f", "g", "printf"}}
ErrorExprs == SubExprs({n.e : n \in {s \in Errors : HasExpr(s)}})
FlowPrograms ==
  With({"return", "break", "continue"}, JumpPrograms) \cup (With({"break", "defer"}, DeadPrograms)
    \cup (With({"return"}, EndPrograms) \cup (With({"let"}, TwoNamePrograms)
      \cup (With({"let"}, OneNamePrograms) \cup ErrorPrograms))))
FlowExprs == SubExprs({SetX.e}) \cup ErrorExprs
ThePrograms == FlowPrograms              \* an alias, as in MCSema
TheExprs == FlowExprs

-----------------------------------------------------------------------------
(* Programs on which the compiler parts from what is said of it.           *)
Output(e) == Call("print_i64", <<e>>)
Free(v) == Call("free", <<v>>)
Malloc == Call("malloc", <<IntLit(8)>>)

DeferPrograms ==
  {Main(<< >>, <<s, Return(one)>>) : s \in {Defer(Output(one)), LetUnique("x", Malloc)}}
ResourceExprs == SubExprs({Output(one), Malloc, Free(x)})

(* fn g(): i64 { return 1; }  fn g(): i64 { return 2; }  and a call of g;  *)
(* or a print_i64 of one's own, and a call of it                           *)
TwoDefinitions ==
  {<<Func("print_i64", IntX, I64, <<Return(x)>>),
     Func("main", << >>, I64, <<Return(Output(one))>>)>>,
   <<Func("g", << >>, I64, <<Return(one)>>), Func("g", << >>, I64, <<Return(IntLit(2))>>),
     Func("main", << >>, I64, <<Return(Call("g", << >>))>>)>>}
TwoExprs == SubExprs({IntLit(2), Call("g", << >>), Output(one), x})

(* A variable whose type is inferred, or declared, to be bool, and a bool  *)
(* assigned to it:  let y = x < 1;  or  let y: bool = true;  then          *)
(* y = true;  or  y = x && 1;  and declarations whose type is not that of  *)
(* the initialiser:  let y: ptr<i64> = x;  or  let y: i64[1] = [1, 1];     *)
Less == Bin(x, "<", one)
SetY(e) == Bin(y, "=", e)
And == Bin(x, "&&", one)
Ones == ArrayLit(<<one, one>>)
StorePrograms ==
  {Main(IntX, <<let, ExprStmt(SetY(e)), Return(one)>>) :
     let \in {Let("y", NoType, Less), Let("y", Bool, BoolLit(TRUE))}, e \in {BoolLit(TRUE), And}}
  \cup {Main(IntX, <<let, Return(one)>>) : let \in {Let("y", Ptr(I64), x), Let("y", Array(I64, 1), Ones)}}
StoreExprs == SubExprs({SetY(BoolLit(TRUE)), SetY(And), Less, Ones})

(* examples/bubble_sort.aur without its loops: an array passed by name *)
Sort == Call("bubble_sort", <<Var("data")>>)
SortPrograms ==
  {<<Func("bubble_sort", <<Param("arr", Array(I64, 2))>>, Void, <<Return(NoExpr)>>),
     Func("main", << >>, I64, <<Let("data", Array(I64, 2), Ones), ExprStmt(Sort), Return(one)>>)>>}
SortExprs == SubExprs({Ones, Sort})
SortNames == {"arr", "data"}
=============================================================================
