------------------------------- MODULE MCLexer -------------------------------
(***************************************************************************)
(* Instances of Lexer: the texts it is run on.                             *)
(***************************************************************************)
EXTENDS Lexer

UpTo(chars, n) == UNION {[1 .. m -> chars] : m \in 0 .. n}

(* symbols next to each other, words and numbers *)
Operators == {"+", "-", "*", "/", "%", "!", "=", "<", ">", "&", "|", ":", "(", "x", "2", "@", " "}
(* comments, closed or not, over several lines, cut off by a NUL *)
Comments == {"/", "*", "x", NewLine, NUL}
(* keywords and what only begins like one, literals around MaxInt *)
Words == {"i", "f", "n", "_", "3", "2", "0", NewLine, "\r", "VT", "\f", ")"}

AllTexts == UpTo(Operators, 3) \cup UpTo(Comments, 6) \cup UpTo(Words, 4)
=============================================================================
