-------------------------------- MODULE Lexer --------------------------------
(***************************************************************************)
(* The lexer (src/lexer.cpp): lex() splits a text into tokens.  A step is  *)
(* one turn of its loop, which makes one token, or of the loop in skipWS,  *)
(* which passes one blank or one comment.  A text is a sequence of         *)
(* characters; NUL is the character that peek() also gives at the end.     *)
(***************************************************************************)
EXTENDS Integers, Sequences, FiniteSets, SequencesExt

CONSTANTS
  Texts,      \* the source texts considered
  MaxInt      \* the greatest literal std::stoll converts, 2^63-1 in the program

ASSUME LexerAssumption == MaxInt \in Nat /\ \A text \in Texts : text \in Seq(STRING)

VARIABLES
  src,        \* the text
  i,          \* the position of the next character
  line, col,  \* its line and column
  toks,       \* the tokens so far
  status      \* "lexing" | "done" | "aborted", by an exception of std::stoll

vars == <<src, i, line, col, toks, status>>

-----------------------------------------------------------------------------
(* Characters, a byte each.  NUL and VT, the vertical tab, stand for the   *)
(* bytes that a TLA+ string has no escape for.                             *)

NUL == "NUL"
NewLine == "\n"
Blanks == {" ", "\t", NewLine, "VT", "\f", "\r"}
Figures == <<"0", "1", "2", "3", "4", "5", "6", "7", "8", "9">>
Digits == Range(Figures)
Letters == {"a", "b", "c", "d", "e", "f", "g", "h", "i", "j", "k", "l", "m", "n", "o",
            "p", "q", "r", "s", "t", "u", "v", "w", "x", "y", "z",
            "A", "B", "C", "D", "E", "F", "G", "H", "I", "J", "K", "L", "M", "N", "O",
            "P", "Q", "R", "S", "T", "U", "V", "W", "X", "Y", "Z", "_"}

Keywords == {"let", "fn", "if", "else", "while", "return", "defer", "break", "continue", "true",
             "false", "i32", "i64", "bool", "void", "ptr", "unique"}
OneCharKinds == {"(", ")", "[", "]", "{", "}", ",", ":", ";",
                 "+", "-", "*", "/", "%", "!", "=", "<", ">"}
TwoCharKinds == {<<"+", "=">>, <<"-", ">">>, <<"-", "=">>, <<"*", "=">>, <<"/", "=">>, <<"%", "=">>,
                 <<"!", "=">>, <<"&", "&">>, <<"|", "|">>, <<"=", "=">>, <<"<", "=">>, <<">", "=">>}

(* a keyword or a symbol is its own kind *)
Token(kind, lexeme, value, at) ==
  [k |-> kind, x |-> lexeme, v |-> value, line |-> at[1], col |-> at[2]]

Glue(chars) == FoldLeft(LAMBDA s, c : s \o c, "", chars)
ValueOf(chars) ==
  FoldLeft(LAMBDA n, c : 10 * n + (CHOOSE d \in 1 .. 10 : Figures[d] = c) - 1, 0, chars)

(* Lexer::peek, at position q *)
CharAt(q) == IF q \in DOMAIN src THEN src[q] ELSE NUL

(* where the run of characters from p on ends that a while loop passes     *)
RunEnd(p, Stops(_)) == Min({q \in p .. Len(src) + 1 : CharAt(q) = NUL \/ Stops(q)})

(* Lexer::get, for each character up to position q *)
AfterCharFromZero(at, c) ==                                                 \* mutant
  IF c = NewLine THEN <<at[1] + 1, 0>> ELSE <<at[1], at[2] + 1>>
AfterChar(at, c) == IF c = NewLine THEN <<at[1] + 1, 1>> ELSE <<at[1], at[2] + 1>>
GetTo(q) ==
  LET at == FoldLeft(AfterChar, <<line, col>>, SubSeq(src, i, q - 1))
  IN  i' = q /\ line' = at[1] /\ col' = at[2]

-----------------------------------------------------------------------------
Init ==
  /\ src \in Texts
  /\ i = 1 /\ line = 1 /\ col = 1
  /\ toks = << >>
  /\ status = "lexing"

C == CharAt(i)
Pair == <<C, CharAt(i+1)>>
CommentAhead == Pair \in {<<"/", "/">>, <<"/", "*">>}

SkipBlank ==
  /\ status = "lexing"
  /\ C \in Blanks
  /\ GetTo(i + 1)
  /\ UNCHANGED <<src, toks, status>>

(* up to the end of the line *)
SkipLineComment ==
  /\ status = "lexing"
  /\ Pair = <<"/", "/">>
  /\ GetTo(RunEnd(i, LAMBDA q : src[q] = NewLine))
  /\ UNCHANGED <<src, toks, status>>

(* up to the first end of comment, or of the text *)
StarSlash(r) == src[r] = "*" /\ CharAt(r+1) = "/"
CommentEndOverlapping(p) ==                                                 \* mutant
  LET q == RunEnd(p - 1, StarSlash) IN IF CharAt(q) = NUL THEN q ELSE q + 2
CommentEndUnread(p) ==                                                      \* mutant
  LET q == RunEnd(p, StarSlash) IN IF CharAt(q) = NUL THEN p - 2 ELSE q + 2
CommentEnd(p) ==
  LET q == RunEnd(p, StarSlash) IN IF CharAt(q) = NUL THEN q ELSE q + 2
SkipBlockComment ==
  /\ status = "lexing"
  /\ Pair = <<"/", "*">>
  /\ GetTo(CommentEnd(i + 2))
  /\ UNCHANGED <<src, toks, status>>

-----------------------------------------------------------------------------
(* the characters up to position q become a token *)
Emit(q, kind, lexeme, value) ==
  /\ GetTo(q)
  /\ toks' = Append(toks, Token(kind, lexeme, value, <<line, col>>))
  /\ UNCHANGED <<src, status>>

(* Lexer::identOrKw *)
IdentOrKw ==
  /\ status = "lexing"
  /\ C \in Letters
  /\ LET q == RunEnd(i, LAMBDA r : src[r] \notin Letters \cup Digits)
         s == Glue(SubSeq(src, i, q - 1))
     IN  Emit(q, IF s \in Keywords THEN s ELSE "ident", s, 0)

(* Lexer::number *)
ConvertsAny(n) == TRUE                                                      \* mutant
Converts(n) == n <= MaxInt
Number ==
  /\ status = "lexing"
  /\ C \in Digits
  /\ LET q == RunEnd(i, LAMBDA r : src[r] \notin Digits)
         chars == SubSeq(src, i, q - 1)
     IN  \/ Converts(ValueOf(chars)) /\ Emit(q, "int", Glue(chars), ValueOf(chars))
         \/ /\ ~Converts(ValueOf(chars))
            /\ status' = "aborted"
            /\ UNCHANGED <<src, i, line, col, toks>>

TwoChars ==
  /\ status = "lexing"
  /\ Pair \in TwoCharKinds
  /\ Emit(i + 2, C \o CharAt(i+1), "", 0)

OneChar ==
  /\ status = "lexing"
  /\ C \in OneCharKinds
  /\ Pair \notin TwoCharKinds
  /\ ~CommentAhead
  /\ Emit(i + 1, C, "", 0)

(* a character that begins nothing lands softly as a ';' *)
Unknown ==
  /\ status = "lexing"
  /\ C \notin {NUL} \cup Blanks \cup Letters \cup Digits \cup OneCharKinds
  /\ Pair \notin TwoCharKinds
  /\ Emit(i + 1, ";", "", 0)

End ==
  /\ status = "lexing"
  /\ C = NUL
  /\ toks' = Append(toks, Token("eof", "", 0, <<line, col>>))
  /\ status' = "done"
  /\ UNCHANGED <<src, i, line, col>>

Lex ==
  \/ SkipBlank \/ SkipLineComment \/ SkipBlockComment
  \/ IdentOrKw \/ Number \/ TwoChars \/ OneChar \/ Unknown \/ End

(* lex() has returned, or the process has been terminated *)
Stopped == status # "lexing" /\ UNCHANGED vars

Next == Lex \/ Stopped

Spec == Init /\ [][Next]_vars /\ WF_vars(Lex)

-----------------------------------------------------------------------------
(* The reference: which stretches p .. q-1 of a text are lexemes, as a     *)
(* language, without a direction of reading.                               *)

IsBlank(s) == Len(s) = 1 /\ s[1] \in Blanks
IsLineComment(s) == Len(s) >= 2 /\ s[1] = "/" /\ s[2] = "/" /\ NewLine \notin Range(s)
EndsComment(s, k) == k >= 4 /\ s[k-1] = "*" /\ s[k] = "/"
IsBlockComment(s) ==
  /\ Len(s) >= 2 /\ s[1] = "/" /\ s[2] = "*"
  /\ \A k \in DOMAIN s : EndsComment(s, k) => k = Len(s)
IsWord(s) == s # << >> /\ s[1] \in Letters /\ Range(s) \subseteq Letters \cup Digits
IsNumber(s) == s # << >> /\ Range(s) \subseteq Digits
IsOneChar(s) == Len(s) = 1 /\ s[1] \in OneCharKinds
IsTwoChars(s) == Len(s) = 2 /\ <<s[1], s[2]>> \in TwoCharKinds
Separates(s) == IsBlank(s) \/ IsLineComment(s) \/ IsBlockComment(s)
IsLexeme(s) == Separates(s) \/ IsWord(s) \/ IsNumber(s) \/ IsTwoChars(s) \/ Len(s) = 1

KindOf(s) ==
  CASE IsWord(s) -> IF Glue(s) \in Keywords THEN Glue(s) ELSE "ident"
    [] IsNumber(s) -> "int"
    [] IsTwoChars(s) -> s[1] \o s[2]
    [] IsOneChar(s) -> s[1]
    [] OTHER -> ";"

(* the text that counts: nothing behind a NUL does *)
Text ==
  LET nuls == {q \in DOMAIN src : src[q] = NUL}
  IN  IF nuls = {} THEN src ELSE SubSeq(src, 1, Min(nuls) - 1)

(* the line and column of position p, counted from the whole text before it *)
Position(t, p) ==
  LET breaks == {q \in 1 .. p-1 : t[q] = NewLine}
  IN  <<1 + Cardinality(breaks), p - Max(breaks \cup {0})>>

(* where the longest lexeme that begins at p ends, and where one begins,   *)
(* if each is to follow the one before it                                  *)
Longest(t, p) == Max({q \in p .. Len(t) : IsLexeme(SubSeq(t, p, q))})
Lexeme(t, p) == SubSeq(t, p, Longest(t, p))
Begins(t) ==
  LET begins[p \in 1 .. Len(t)] == p = 1 \/ \E r \in 1 .. p-1 : begins[r] /\ Longest(t, r) = p-1
  IN  begins

(* what the lexer owes the parser, as kind, lexeme, line and column *)
View(s, at) == <<KindOf(s), IF IsWord(s) \/ IsNumber(s) THEN Glue(s) ELSE "", at>>
Views(t, begins, p) ==
  IF begins[p] /\ ~Separates(Lexeme(t, p)) THEN << View(Lexeme(t, p), Position(t, p)) >> ELSE << >>
Reference ==
  LET t == Text
      begins == Begins(t)
  IN  FlattenSeq([p \in 1 .. Len(t) |-> Views(t, begins, p)])
        \o << <<"eof", "", Position(t, Len(t) + 1)>> >>

TypeOK ==
  /\ status \in {"lexing", "done", "aborted"}
  /\ i \in 1 .. Len(src) + 1
  /\ line \in 1 .. i /\ col \in 1 .. i

(* Character by character lexing, with one character of lookahead, is      *)
(* maximal munch: the tokens so far are the first of the longest lexemes   *)
(* of the text, blanks and comments left out, each at its line and column; *)
(* an unterminated comment and a NUL take the rest of the text with them.  *)
LongestMatch ==
  LET view == [n \in DOMAIN toks |-> <<toks[n].k, toks[n].x, <<toks[n].line, toks[n].col>>>>]
  IN  /\ IsPrefix(view, Reference)
      /\ status = "done" => view = Reference

(* No literal gets past the lexer that does not fit: the process dies of   *)
(* the first one too large, at whatever place, and of nothing else.        *)
LiteralsFit ==
  LET t == Text
      begins == Begins(t)
      large(s) == IsNumber(s) /\ ValueOf(s) > MaxInt
      fatal == {p \in 1 .. Len(t) : begins[p] /\ large(Lexeme(t, p))}
  IN  /\ status = "done" => fatal = {}
      /\ status = "aborted" => fatal # {} /\ i = Min(fatal)

(* lex() comes to an end on every text, so every turn of the loop gets on. *)
Ends == <>(status # "lexing")
=============================================================================
