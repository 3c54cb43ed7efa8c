------------------------------ MODULE MCLexer -------------------------------
(* Instances of Lexer for TLC.  "w" is a word character.                   *)
EXTENDS Lexer

CONSTANT MaxLen   \* bound: length of a text

Texts == UNION {[1 .. n -> Chars] : n \in 0 .. MaxLen}
=============================================================================
