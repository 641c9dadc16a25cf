------------------------------ MODULE MCParser ------------------------------
(***************************************************************************)
(* Instances of Parser: the sequences of tokens it is run on.              *)
(***************************************************************************)
EXTENDS Parser

T(k) == [k |-> k, x |-> "", v |-> 0]
Id(x) == [k |-> "ident", x |-> x, v |-> 0]
Num(n) == [k |-> "int", x |-> "", v |-> n]
Ts(kinds) == [n \in DOMAIN kinds |-> T(kinds[n])]
UpTo(s, n) == UNION {[1 .. m -> s] : m \in 0 .. n}

X == Id("x")
Main == <<T("fn"), Id("f"), T("("), T(")"), T("->"), T("i64"), T("{")>>
InMain(ts) == Main \o ts \o <<T("}"), T("eof")>>

(* expression statements of up to four tokens *)
ExprTokens == {X, Num(1), T("+"), T("*"), T("<"), T("-"), T("="), T("+="),
               T("("), T(")"), T("["), T("]"), T(",")}
ShortExprs == {InMain(ts \o <<T(";")>>) : ts \in UpTo(ExprTokens, 4)}
Infixes == (UNION Range(Levels)) \cup {"=", "+=", "-=", "*=", "/=", "%="}
Chains == {InMain(<<X, T(ops[1]), Num(1), T(ops[2]), X, T(";")>>) : ops \in Infixes \X Infixes}

(* blocks: pieces of statements in any order, ended anywhere *)
Pieces == {Ts(<<"}">>), Ts(<<"else", "{">>), Ts(<<"break", ";">>), Ts(<<"eof">>),
           <<T("if"), T("("), X, T(")"), T("{")>>, <<T("while"), T("("), X, T(")"), T("{")>>}
UpToEof(ts) ==
  LET ends == {n \in DOMAIN ts : ts[n].k = "eof"}
  IN  SubSeq(ts, 1, CHOOSE n \in ends : \A m \in ends : n <= m)
Blocks == {UpToEof(InMain(FlattenSeq(ps))) : ps \in UpTo(Pieces, 5)}

(* a text with everything in it, and what is left if one token is left     *)
(* out, or another put for it, or the text ends there                      *)
Whole ==
  <<T("fn"), Id("f"), T("("), X, T(":"), T("ptr"), T("<"), T("bool"), T(">"), T(","),
      Id("y"), T(":"), T("i32"), T("["), Num(2), T("]"), T(")"), T("->"), T("void"), T("{"),
    T("let"), T("unique"), T("<"), T("i64"), T(">"), X, T(":"), T("i64"), T("="), Num(1), T(";"),
    T("return"), T(";"), T("}")>>
  \o Main \o
  <<T("defer"), Id("f"), T("("), X, T(","), Num(1), T(")"), T(";"),
    T("continue"), T(";"), X, T("["), Num(1), T("]"), T("="), T("!"), T("true"), T(";"),
    T("return"), T("["), X, T(","), T("false"), T("]"), T(";"), T("}"), T("eof")>>
Replacements == {T("fn"), T("{"), T("}"), T("("), T(")"), T(":"), T(";"), T("="), T("else"), T("["), X}
Faulty ==
  {Whole} \cup {RemoveAt(Whole, n) : n \in 1 .. Len(Whole) - 1}
  \cup {Append(SubSeq(Whole, 1, n), T("eof")) : n \in 0 .. Len(Whole) - 2}
  \cup {[Whole EXCEPT ![n] = t] : n \in 1 .. Len(Whole) - 1, t \in Replacements}

AllInputs == ShortExprs \cup Chains \cup Blocks \cup Faulty
AllNames == {"f", "x", "y"}
=============================================================================
