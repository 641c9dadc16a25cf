------------------------------- MODULE Grammar ------------------------------
(***************************************************************************)
(* The grammar of Aurora, without an order of reading: which programs      *)
(* (Syntax) the tokens of a text can stand for.  A token has a kind k, and *)
(* an identifier its name x, a literal its value v.  Stretches of tokens   *)
(* are given by the first position in them and the first behind.  Each     *)
(* rule gives what a stretch stands for in terms of the functions T, E, S, *)
(* P and F, which say it of types, expressions, statements, parameters and *)
(* functions.                                                              *)
(***************************************************************************)
EXTENDS Syntax

(* the binary operators, from the loosest level to the tightest *)
Levels ==
  << {"||"}, {"&&"}, {"==", "!="}, {"<", "<=", ">", ">="}, {"+", "-"}, {"*", "/", "%"} >>

(* the operator of a compound assignment *)
Compound == {"+=", "-=", "*=", "/=", "%="}
OperatorOf(k) ==
  CASE k = "+=" -> "+" [] k = "-=" -> "-" [] k = "*=" -> "*" [] k = "/=" -> "/" [] k = "%=" -> "%"

TypeNames == [i32 |-> I32, i64 |-> I64, bool |-> Bool, void |-> Void]

Is(ts, m, k) == ts[m].k = k
Spans(ts) == (DOMAIN ts) \X (DOMAIN ts)

-----------------------------------------------------------------------------
(* Types *)

BaseTypes(ts, T, i, j) ==
  IF j = i + 1 /\ ts[i].k \in DOMAIN TypeNames THEN {TypeNames[ts[i].k]}
  ELSE IF j > i + 3 /\ Is(ts, i, "ptr") /\ Is(ts, i+1, "<") /\ Is(ts, j-1, ">")
  THEN {Ptr(t) : t \in T[<<i+2, j-1>>]} ELSE {}
ArrayTypes(ts, T, i, j) ==
  IF j > i + 3 /\ Is(ts, j-3, "[") /\ Is(ts, j-2, "int") /\ Is(ts, j-1, "]")
  THEN {Array(t, ts[j-2].v) : t \in BaseTypes(ts, T, i, j-3)} ELSE {}
AnyTypes(ts, T, i, j) == BaseTypes(ts, T, i, j) \cup ArrayTypes(ts, T, i, j)

TypesIn(ts) == LET T[s \in Spans(ts)] == AnyTypes(ts, T, s[1], s[2]) IN T

-----------------------------------------------------------------------------
(* Expressions: E[<<n, i, j>>] for n = 0 are the assignments, for 1 to 6   *)
(* the levels of binary operators, for 7 the prefix and 8 the postfix      *)
(* expressions, and for n = 9 the lists of expressions.                    *)

(* the places between two parts of a stretch where one of ks stands *)
Inside(ts, i, j, ks) == {m \in i+1 .. j-2 : ts[m].k \in ks}
Bracketed(ts, i, j, left, right) == j > i + 1 /\ Is(ts, i, left) /\ Is(ts, j-1, right)

Assignments(ts, E, i, j) ==
  E[<<1, i, j>>]
  \cup (UNION {{Bin(l, "=", r) : l \in E[<<1, i, m>>], r \in E[<<0, m+1, j>>]} :
               m \in Inside(ts, i, j, {"="})})
  \cup (UNION {{Bin(l, "=", Bin(l, OperatorOf(ts[m].k), r)) :
                  l \in {e \in E[<<1, i, m>>] : e.k = "var"}, r \in E[<<0, m+1, j>>]} :
               m \in Inside(ts, i, j, Compound)})
Binaries(ts, E, n, i, j) ==
  E[<<n+1, i, j>>]
  \cup (UNION {{Bin(l, ts[m].k, r) : l \in E[<<n, i, m>>], r \in E[<<n+1, m+1, j>>]} :
               m \in Inside(ts, i, j, Levels[n])})
Negations(ts, E, i, j) ==
  E[<<8, i, j>>]
  \cup IF j > i + 1 /\ ts[i].k \in {"!", "-"}
       THEN {Unary(ts[i].k, r) : r \in E[<<7, i+1, j>>]} ELSE {}
Words(t) ==
  CASE t.k = "ident" -> {Var(t.x)}
    [] t.k = "int" -> {IntLit(t.v)}
    [] t.k = "true" -> {BoolLit(TRUE)}
    [] t.k = "false" -> {BoolLit(FALSE)}
    [] OTHER -> {}
Primaries(ts, E, i, j) ==
  (IF j = i + 1 THEN Words(ts[i]) ELSE {})
  \cup (IF Bracketed(ts, i, j, "(", ")") THEN E[<<0, i+1, j-1>>] ELSE {})
  \cup (IF Bracketed(ts, i, j, "[", "]") THEN {ArrayLit(es) : es \in E[<<9, i+1, j-1>>]} ELSE {})
  \cup (IF j > i + 2 /\ Is(ts, i, "ident") /\ Bracketed(ts, i+1, j, "(", ")")
        THEN {Call(ts[i].x, es) : es \in E[<<9, i+2, j-1>>]} ELSE {})
Subscripts(ts, E, i, j) ==
  Primaries(ts, E, i, j)
  \cup (UNION {{Index(a, e) : a \in E[<<8, i, m>>], e \in E[<<0, m+1, j-1>>]} :
               m \in IF j > i /\ Is(ts, j-1, "]") THEN Inside(ts, i, j, {"["}) ELSE {}})
Lists(ts, E, i, j) ==
  IF i = j THEN {<< >>}
  ELSE {<<e>> : e \in E[<<0, i, j>>]}
       \cup (UNION {{Append(es, e) : es \in E[<<9, i, m>>], e \in E[<<0, m+1, j>>]} :
                    m \in Inside(ts, i, j, {","})})

Expressions(ts, E, n, i, j) ==
  CASE n = 0 -> Assignments(ts, E, i, j)
    [] n \in 1 .. 6 -> Binaries(ts, E, n, i, j)
    [] n = 7 -> Negations(ts, E, i, j)
    [] n = 8 -> Subscripts(ts, E, i, j)
    [] n = 9 -> Lists(ts, E, i, j)

ExprsIn(ts) ==
  LET E[c \in (0 .. 9) \X (DOMAIN ts) \X (DOMAIN ts)] == Expressions(ts, E, c[1], c[2], c[3]) IN E

-----------------------------------------------------------------------------
(* Lists of statements, as the nodes of a body *)

(* let [unique<T>] x [: T] = e; with x at p, "=" at q and ";" at m-1 *)
LetNames(ts, T, i, j) ==
  {p \in i+1 .. j : /\ Is(ts, p, "ident")
                    /\ \/ p = i + 1
                       \/ /\ p > i + 4 /\ Is(ts, i+1, "unique") /\ Is(ts, i+2, "<")
                          /\ Is(ts, p-1, ">") /\ T[<<i+3, p-1>>] # {}}
Annotations(ts, T, p, q) ==
  IF q = p + 1 THEN {NoType} ELSE IF Is(ts, p+1, ":") THEN T[<<p+2, q>>] ELSE {}
Lets(ts, T, E, i, m) ==
  UNION {{[Let(ts[pq[1]].x, ann, e) EXCEPT !.uniq = (pq[1] # i + 1)] :
            ann \in Annotations(ts, T, pq[1], pq[2]), e \in E[<<0, pq[2] + 1, m-1>>]} :
         pq \in {r \in LetNames(ts, T, i, m-2) \X (i+2 .. m-2) : r[2] > r[1] /\ Is(ts, r[2], "=")}}

Simples(ts, T, E, i, m) ==
  CASE Is(ts, i, "let") -> Lets(ts, T, E, i, m)
    [] Is(ts, i, "return") -> IF m = i + 2 THEN {Return(NoExpr)}
                              ELSE {Return(e) : e \in E[<<0, i+1, m-1>>]}
    [] Is(ts, i, "defer") -> {Defer(e) : e \in E[<<0, i+1, m-1>>]}
    [] Is(ts, i, "break") -> IF m = i + 2 THEN {Break} ELSE {}
    [] Is(ts, i, "continue") -> IF m = i + 2 THEN {Continue} ELSE {}
    [] OTHER -> {ExprStmt(e) : e \in E[<<0, i, m-1>>]}

(* the open brace of the block behind a condition, and "else" behind one   *)
Braces(ts, i, m) == {b \in i+3 .. m-2 : Is(ts, b, "{") /\ Is(ts, b-1, ")") /\ Is(ts, i+1, "(")}
Elses(ts, b, m) == {e \in b+2 .. m-3 : Is(ts, e-1, "}") /\ Is(ts, e, "else") /\ Is(ts, e+1, "{")}

Loops(ts, E, S, i, m) ==
  UNION {{<<While(c)>> \o s \o <<EndWhile>> : c \in E[<<0, i+2, b-1>>], s \in S[<<b+1, m-1>>]} :
         b \in Braces(ts, i, m)}
Branches(ts, E, S, i, m) ==
  UNION {{<<If(c)>> \o s \o <<Else, EndIf>> : c \in E[<<0, i+2, b-1>>], s \in S[<<b+1, m-1>>]}
         \cup (UNION {{<<If(c)>> \o s \o <<Else>> \o s2 \o <<EndIf>> :
                         c \in E[<<0, i+2, b-1>>], s \in S[<<b+1, e-1>>], s2 \in S[<<e+2, m-1>>]} :
                      e \in Elses(ts, b, m)}) :
         b \in Braces(ts, i, m)}

Statement(ts, T, E, S, i, m) ==
  CASE Is(ts, m-1, ";") -> {<<s>> : s \in Simples(ts, T, E, i, m)}
    [] Is(ts, m-1, "}") /\ Is(ts, i, "while") -> Loops(ts, E, S, i, m)
    [] Is(ts, m-1, "}") /\ Is(ts, i, "if") -> Branches(ts, E, S, i, m)
    [] OTHER -> {}
Statements(ts, T, E, S, i, j) ==
  IF i = j THEN {<< >>}
  ELSE UNION {UNION {{s \o rest : rest \in S[<<m, j>>]} : s \in Statement(ts, T, E, S, i, m)} :
              m \in i+1 .. j}

StmtsIn(ts) ==
  LET S[s \in Spans(ts)] == Statements(ts, TypesIn(ts), ExprsIn(ts), S, s[1], s[2]) IN S

-----------------------------------------------------------------------------
(* Parameters and functions *)

OneParam(ts, i, j) ==
  IF j > i + 2 /\ Is(ts, i, "ident") /\ Is(ts, i+1, ":")
  THEN {Param(ts[i].x, t) : t \in TypesIn(ts)[<<i+2, j>>]} ELSE {}
Params(ts, P, i, j) ==
  {<<p>> : p \in OneParam(ts, i, j)}
  \cup (UNION {UNION {{<<p>> \o rest : rest \in P[<<m+1, j>>]} : p \in OneParam(ts, i, m)} :
               m \in {c \in i+1 .. j-1 : Is(ts, c, ",")}})
ParamsIn(ts) == LET P[s \in Spans(ts)] == Params(ts, P, s[1], s[2]) IN P

(* "fn" name "(" ... ")" "->" type "{" ... "}", with ")" at c and "{" at b *)
OneFunc(ts, i, j) ==
  IF j < i + 8 \/ ~Is(ts, i, "fn") \/ ~Is(ts, i+1, "ident") \/ ~Is(ts, i+2, "(") \/ ~Is(ts, j-1, "}")
  THEN {}
  ELSE UNION {UNION {{Func(ts[i+1].x, ps, ret, body) :
                        ps \in IF c = i + 3 THEN {<< >>} ELSE ParamsIn(ts)[<<i+3, c>>],
                        ret \in TypesIn(ts)[<<c+2, b>>], body \in StmtsIn(ts)[<<b+1, j-1>>]} :
                     b \in {q \in c+3 .. j-2 : Is(ts, q, "{")}} :
              c \in {q \in i+3 .. j-4 : Is(ts, q, ")") /\ Is(ts, q+1, "->")}}
Funcs(ts, F, i) ==
  IF i = Len(ts) THEN {<< >>}
  ELSE UNION {UNION {{<<f>> \o rest : rest \in F[m]} : f \in OneFunc(ts, i, m)} : m \in i+1 .. Len(ts)}
FuncsIn(ts) == LET F[i \in DOMAIN ts] == Funcs(ts, F, i) IN F

(* the programs that the tokens, the last of which is the end of input,    *)
(* can stand for                                                           *)
Derivations(ts) == FuncsIn(ts)[1]
=============================================================================
