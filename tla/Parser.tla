------------------------------- MODULE Parser -------------------------------
(***************************************************************************)
(* The parser (src/parser.cpp).  Types and expressions are parsed by       *)
(* functions, as their recursion keeps nothing but its position and its    *)
(* result.  Functions, blocks and statements are parsed in steps: one for  *)
(* a function's name, for each parameter, for its return type, for each    *)
(* statement or header of a branch or loop, and for each end of a block;   *)
(* the calls of parseBlock and parseStmt in progress are the stack open.   *)
(***************************************************************************)
EXTENDS Grammar

CONSTANT Inputs       \* the sequences of tokens considered

ASSUME InputsAssumption ==
  \A ts \in Inputs : /\ IsSeq(ts)
                     /\ ts # << >>
                     /\ \A j \in DOMAIN ts : /\ ts[j].k = "eof" <=> j = Len(ts)
                                             /\ ts[j].k = "ident" => ts[j].x \in Names

VARIABLES
  toks,       \* the tokens
  i,          \* the position of the next one
  prog,       \* the functions parsed
  fn,         \* the function being parsed
  open,       \* its blocks being parsed: kind, and position of the opening node
  status      \* "program" | "params" | "ret" | "body" | "parsed" | "fatal"

vars == <<toks, i, prog, fn, open, status>>

(* the kind of the token at j; there is none behind the end of input *)
Tok(j) == IF j \in DOMAIN toks THEN toks[j].k ELSE "none"

-----------------------------------------------------------------------------
(* What a function of the parser returns: e, with i behind what it is made *)
(* of; or it has called fatal().                                           *)

Result(e, j) == [ok |-> TRUE, e |-> e, i |-> j]
Failed == [ok |-> FALSE, e |-> NoExpr, i |-> 1]
With(r, e) == IF r.ok THEN Result(e, r.i) ELSE Failed

(* Parser::expect, and a function F applied behind r *)
Expect(r, k) == IF r.ok /\ Tok(r.i) = k THEN Result(r.e, r.i + 1) ELSE Failed
From(F, r) == IF r.ok THEN F[r.i] ELSE Failed

(* Parser::parseType at j; T is what it returns further on *)
parseType(T, j) ==
  LET elem == Expect(From(T, Expect(Result(NoType, j+1), "<")), ">")
      base == IF Tok(j) \in DOMAIN TypeNames THEN Result(TypeNames[Tok(j)], j+1)
              ELSE IF Tok(j) = "ptr" THEN With(elem, Ptr(elem.e))
              ELSE Failed
      size == Expect(base, "[")
      array == Expect(Expect(size, "int"), "]")
  IN  IF size.ok THEN With(array, Array(base.e, toks[size.i].v)) ELSE base

ParseType == LET T[j \in DOMAIN toks] == parseType(T, j) IN T

OpsSwapped(n) == Levels[IF n = 5 THEN 6 ELSE IF n = 6 THEN 5 ELSE n]        \* mutant
Ops(n) == Levels[n]

LiteralKinds == {"int", "true", "false"}
Literal(t) == IF t.k = "int" THEN IntLit(t.v) ELSE BoolLit(t.k = "true")

(* Expressions.  E[<<n, FALSE, j>>] is what parseAssign (0), parseOr ...   *)
(* parseMul (1 .. 6), parseUnary (7) and parsePostfix (8) return at j, and *)
(* E[<<n, TRUE, j>>] what their while loops take from j on: operators and  *)
(* operands, subscripts, and for n = 0 further arguments or elements.      *)
Level(E, n, j) == E[<<n, FALSE, j>>]
Loop(E, n, r) == IF r.ok THEN E[<<n, TRUE, r.i>>] ELSE Failed

Begins(n) ==
  CASE n = 0 -> {","} [] n = 8 -> {"["} [] n \in 1 .. 6 -> Ops(n) [] OTHER -> {}
parseItem(E, n, j) ==
  CASE n = 0 -> Level(E, 0, j+1)
    [] n = 8 -> Expect(Level(E, 0, j+1), "]")
    [] OTHER -> Level(E, n+1, j+1)
parseItems(E, n, j) ==
  LET item == parseItem(E, n, j)
      rest == Loop(E, n, item)
  IN  IF Tok(j) \notin Begins(n) THEN Result(<< >>, j)
      ELSE With(rest, <<[op |-> Tok(j), e |-> item.e]>> \o rest.e)

parseAssign(E, j) ==
  LET target == Level(E, 1, j)
      value == Level(E, 0, target.i + 1)
  IN  IF ~target.ok \/ Tok(target.i) \notin {"="} \cup Compound THEN target
      ELSE IF Tok(target.i) = "=" THEN With(value, Bin(target.e, "=", value.e))
      ELSE IF target.e.k # "var" THEN Failed
      ELSE With(value, Bin(target.e, "=", Bin(target.e, OperatorOf(Tok(target.i)), value.e)))

(* What the loops make of what they take: operators and subscripts grow    *)
(* the tree to the left, whatever follows; arguments are added to a list.  *)
Grow(n, l, item) ==
  CASE n = 0 -> Append(l, item.e) [] n = 8 -> Index(l, item.e) [] OTHER -> Bin(l, item.op, item.e)
Grown(n, l, items) == FoldLeft(LAMBDA t, item : Grow(n, t, item), l, items)

(* parseOr ... parseMul *)
parseBinary(E, n, j) ==
  LET first == Level(E, n+1, j)
      others == Loop(E, n, first)
  IN  With(others, Grown(n, first.e, others.e))

parseUnary(E, j) ==
  LET r == Level(E, 7, j+1)
  IN  IF Tok(j) \in {"!", "-"} THEN With(r, Unary(Tok(j), r.e)) ELSE Level(E, 8, j)

(* arguments or elements up to close *)
parseList(E, j, close) ==
  LET first == Level(E, 0, j)
      others == Loop(E, 0, first)
  IN  IF Tok(j) = close THEN Result(<< >>, j+1)
      ELSE Expect(With(others, Grown(0, <<first.e>>, others.e)), close)

parsePrimary(E, j) ==
  LET arguments == parseList(E, j+2, ")")
      elements == parseList(E, j+1, "]")
  IN  CASE Tok(j) = "ident" -> IF Tok(j+1) = "(" THEN With(arguments, Call(toks[j].x, arguments.e))
                               ELSE Result(Var(toks[j].x), j+1)
        [] Tok(j) \in LiteralKinds -> Result(Literal(toks[j]), j+1)
        [] Tok(j) = "[" -> With(elements, ArrayLit(elements.e))
        [] Tok(j) = "(" -> Expect(Level(E, 0, j+1), ")")
        [] OTHER -> Failed

parsePostfix(E, j) ==
  LET primary == parsePrimary(E, j)
      subscripts == Loop(E, 8, primary)
  IN  With(subscripts, Grown(8, primary.e, subscripts.e))

parseLevel(E, c) ==
  LET n == c[1]
      j == c[3]
  IN  CASE c[2] -> parseItems(E, n, j)
        [] ~c[2] /\ n = 0 -> parseAssign(E, j)
        [] ~c[2] /\ n \in 1 .. 6 -> parseBinary(E, n, j)
        [] ~c[2] /\ n = 7 -> parseUnary(E, j)
        [] ~c[2] /\ n = 8 -> parsePostfix(E, j)

Calls == (0 .. 8) \X BOOLEAN \X DOMAIN toks
ParseLevel == LET E[c \in Calls] == parseLevel(E, c) IN E

ParseExpr == [j \in DOMAIN toks |-> Level(ParseLevel, 0, j)]

-----------------------------------------------------------------------------
NoFunc == Func("", << >>, Void, << >>)

Init ==
  /\ toks \in Inputs
  /\ i = 1
  /\ prog = << >>
  /\ fn = NoFunc
  /\ open = << >>
  /\ status = "program"

Fatal ==
  /\ status' = "fatal"
  /\ UNCHANGED <<toks, i, prog, fn, open>>

(* parseFunc *)
FuncHeader ==
  /\ status = "program"
  /\ Tok(i) # "eof"
  /\ LET name == Expect(Expect(Result(NoExpr, i), "fn"), "ident")
         paren == Expect(name, "(")
     IN  \/ /\ paren.ok
            /\ i' = paren.i
            /\ fn' = [NoFunc EXCEPT !.name = toks[i+1].x]
            /\ status' = IF Tok(paren.i) = ")" THEN "ret" ELSE "params"
            /\ UNCHANGED <<toks, prog, open>>
         \/ ~paren.ok /\ Fatal

Parameter ==
  /\ status = "params"
  /\ LET ty == From(ParseType, Expect(Expect(Result(NoExpr, i), "ident"), ":"))
     IN  \/ /\ ty.ok
            /\ fn' = [fn EXCEPT !.params = Append(@, Param(toks[i].x, ty.e))]
            /\ i' = IF Tok(ty.i) = "," THEN ty.i + 1 ELSE ty.i
            /\ status' = IF Tok(ty.i) = "," THEN "params" ELSE "ret"
            /\ UNCHANGED <<toks, prog, open>>
         \/ ~ty.ok /\ Fatal

ReturnType ==
  /\ status = "ret"
  /\ LET ty == Expect(From(ParseType, Expect(Expect(Result(NoExpr, i), ")"), "->")), "{")
     IN  \/ /\ ty.ok
            /\ fn' = [fn EXCEPT !.ret = ty.e]
            /\ i' = ty.i
            /\ status' = "body"
            /\ UNCHANGED <<toks, prog, open>>
         \/ ~ty.ok /\ Fatal

(* parseProgram *)
EndProgram ==
  /\ status = "program"
  /\ Tok(i) = "eof"
  /\ status' = "parsed"
  /\ UNCHANGED <<toks, i, prog, fn, open>>

-----------------------------------------------------------------------------
(* parseStmt: r holds the node of the statement, or of its header *)

Ahead(k) == status = "body" /\ Tok(i) = k

Add(nodes) == fn' = [fn EXCEPT !.body = @ \o nodes]

Simple(r) ==
  \/ r.ok /\ Add(<<r.e>>) /\ i' = r.i /\ UNCHANGED <<toks, prog, open, status>>
  \/ ~r.ok /\ Fatal

Opens(r, kind) ==
  \/ /\ r.ok
     /\ Add(<<r.e>>)
     /\ i' = r.i
     /\ open' = Append(open, [k |-> kind, at |-> Len(fn.body) + 1])
     /\ UNCHANGED <<toks, prog, status>>
  \/ ~r.ok /\ Fatal

After(j) == Result(NoType, j)
ExprThen(r, k) == Expect(From(ParseExpr, r), k)

(* the type in unique<T> is parsed and dropped *)
ParseLet ==
  /\ Ahead("let")
  /\ LET uniq == Tok(i+1) = "unique"
         name == IF uniq THEN Expect(From(ParseType, Expect(After(i+2), "<")), ">") ELSE After(i+1)
         named == With(Expect(name, "ident"), NoType)
         ann == IF named.ok /\ Tok(named.i) = ":" THEN From(ParseType, Expect(named, ":")) ELSE named
         init == ExprThen(Expect(ann, "="), ";")
     IN  Simple(With(init, [Let(toks[name.i].x, ann.e, init.e) EXCEPT !.uniq = uniq]))

ParseReturn ==
  /\ Ahead("return")
  /\ LET e == ExprThen(After(i+1), ";")
     IN  Simple(IF Tok(i+1) = ";" THEN Result(Return(NoExpr), i+2) ELSE With(e, Return(e.e)))

ParseDefer ==
  /\ Ahead("defer")
  /\ LET e == ExprThen(After(i+1), ";") IN Simple(With(e, Defer(e.e)))

ParseBreak == Ahead("break") /\ Simple(With(Expect(After(i+1), ";"), Break))
ParseContinue == Ahead("continue") /\ Simple(With(Expect(After(i+1), ";"), Continue))

StartsExprStmt ==
  /\ status = "body"
  /\ Tok(i) \notin {"let", "return", "defer", "break", "continue", "if", "while", "}", "eof"}
ParseExprStmtWarning ==                                                     \* mutant
  /\ StartsExprStmt
  /\ LET e == ExprThen(After(i), ";")
     IN  Simple(IF e.ok THEN With(e, ExprStmt(e.e)) ELSE Result(ExprStmt(NoExpr), i))
ParseExprStmt ==
  /\ StartsExprStmt
  /\ LET e == ExprThen(After(i), ";") IN Simple(With(e, ExprStmt(e.e)))

(* "if" or "while", and its condition and the brace behind it *)
Header == Expect(ExprThen(Expect(After(i+1), "("), ")"), "{")
ParseIf == Ahead("if") /\ Opens(With(Header, If(Header.e)), "then")
ParseWhile == Ahead("while") /\ Opens(With(Header, While(Header.e)), "while")

-----------------------------------------------------------------------------
(* parseBlock comes to its '}': what called it goes on *)

AtEndOf(kind) == Ahead("}") /\ open # << >> /\ Last(open).k = kind

Leave(nodes) ==
  /\ Add(nodes)
  /\ open' = Front(open)
  /\ i' = i + 1
  /\ UNCHANGED <<toks, prog, status>>

EndWhileBlock == AtEndOf("while") /\ Leave(<<EndWhile>>)
EndElseBlock == AtEndOf("else") /\ Leave(<<EndIf>>)
EndThenNoElse == AtEndOf("then") /\ Tok(i+1) # "else" /\ Leave(<<EndIf>>)     \* mutant
EndThenBlock == AtEndOf("then") /\ Tok(i+1) # "else" /\ Leave(<<Else, EndIf>>)

ElseInPlace ==                                                              \* mutant
  /\ AtEndOf("then")
  /\ Tok(i+1) = "else"
  /\ Add(<<Else>>)
  /\ open' = Append(open, [k |-> "else", at |-> Len(fn.body) + 1])
  /\ i' = i + 3
  /\ UNCHANGED <<toks, prog, status>>
ElseBlock ==
  /\ AtEndOf("then")
  /\ Tok(i+1) = "else"
  /\ LET r == Expect(After(i+2), "{")
     IN  \/ /\ r.ok
            /\ Add(<<Else>>)
            /\ open' = [open EXCEPT ![Len(open)] = [k |-> "else", at |-> @.at]]
            /\ i' = r.i
            /\ UNCHANGED <<toks, prog, status>>
         \/ ~r.ok /\ Fatal

EndFunction ==
  /\ Ahead("}")
  /\ open = << >>
  /\ prog' = Append(prog, fn)
  /\ fn' = NoFunc
  /\ i' = i + 1
  /\ status' = "program"
  /\ UNCHANGED <<toks, open>>

EndOfInputIgnored ==                                                        \* mutant
  /\ Ahead("eof")
  /\ i' = i + 1
  /\ UNCHANGED <<toks, prog, fn, open, status>>
EndOfInput == Ahead("eof") /\ Fatal

ParseStmt ==
  \/ ParseLet \/ ParseReturn \/ ParseDefer \/ ParseBreak \/ ParseContinue \/ ParseExprStmt
  \/ ParseIf \/ ParseWhile
ParseBlock == ParseStmt \/ EndWhileBlock \/ EndElseBlock \/ EndThenBlock \/ ElseBlock \/ EndOfInput

ParseProgram == FuncHeader \/ Parameter \/ ReturnType \/ ParseBlock \/ EndFunction \/ EndProgram

(* parseProgram() has returned, or the process has exited *)
Stopped == status \in {"parsed", "fatal"} /\ UNCHANGED vars

Next == ParseProgram \/ Stopped

Spec == Init /\ [][Next]_vars

-----------------------------------------------------------------------------
(* The shape of the parser's state: it never reads past the end of input.  *)
TypeOK ==
  /\ status \in {"program", "params", "ret", "body", "parsed", "fatal"}
  /\ i \in DOMAIN toks
  /\ open # << >> => status \in {"body", "fatal"}
  /\ \A n \in DOMAIN open : /\ open[n].k \in {"then", "else", "while"}
                            /\ open[n].at \in DOMAIN fn.body

(* Each block in progress is nested in the one below it, began at the node *)
(* recorded for it and has not been left since, whatever blocks came and   *)
(* went in between.                                                        *)
OpenMirrorsBody ==
  /\ BlockDepth(fn.body, Len(fn.body) + 1) = Len(open)
  /\ \A n \in DOMAIN open :
       /\ fn.body[open[n].at].k = IF open[n].k = "while" THEN "while" ELSE "if"
       /\ BlockDepth(fn.body, open[n].at) = n - 1
       /\ \A q \in open[n].at + 1 .. Len(fn.body) : BlockDepth(fn.body, q) >= n

(* What the passes behind the parser take for granted of every program     *)
(* (ProgramsAssumption): all that is returned is well nested and complete. *)
ReturnsParsed == Parsed(prog)

(* Recursive descent with one token of lookahead decides the grammar: what *)
(* is returned is a program the tokens stand for, in fact the only one,    *)
(* and if the process ends in fatal() they stand for none.  Precedence,    *)
(* associativity, else, and the end of input at any place are in this.     *)
ParsesGrammar ==
  /\ status = "parsed" => Derivations(toks) = {prog}
  /\ status = "fatal" => Derivations(toks) = {}

(* Every turn of every loop takes a token, or is the last: with a finite   *)
(* input, and a step possible until the end, the parser cannot go on for   *)
(* ever, whatever is wrong with the input and wherever it ends.            *)
TakesTokens == [][i' > i \/ status' \in {"parsed", "fatal"}]_vars
=============================================================================
