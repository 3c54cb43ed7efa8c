------------------------------- MODULE Lexer --------------------------------
(***************************************************************************)
(* The SQL lexer of lewsql: Compiler::Lexer over Compiler::CharStream, and *)
(* a caller that asks for tokens, with or without calling has_next_token   *)
(* before get_next_token.  One action is one turn of a loop of the lexer:  *)
(* what it asks the stream (is_end_of_stream, then peek_next_char) and     *)
(* what it does with the answer.                                           *)
(***************************************************************************)
EXTENDS Integers, Sequences, FiniteSets

CONSTANTS
  Chars,         \* characters
  Inputs,        \* texts
  Whitespace,    \* ' ', '\t', '\n', '\r'
  Newline,       \* '\n'
  FF,            \* the byte 0xFF: -1 as a char, the value of eof()
  StreamFails,   \* whether reading the stream may fail
  MaxTokens      \* bound: tokens after which the caller asks has_next_token

ASSUME InputsAssumption == Inputs \subseteq Seq(Chars)
ASSUME NewlineAssumption == Newline \in Whitespace
ASSUME FFAssumption == FF \notin Whitespace
ASSUME StreamFailsAssumption == StreamFails \in BOOLEAN
ASSUME MaxTokensAssumption == MaxTokens \in Nat

VARIABLES
  m_stream,   \* the text and how much of it has been read
  bad,        \* badbit of the stream
  position,   \* m_char_stream_position
  pc,         \* the call in progress, and how far it is
  token,      \* the token get_next_token is building
  tokens      \* the tokens returned so far

vars == <<m_stream, bad, position, pc, token, tokens>>

Init ==
  /\ m_stream \in [text : Inputs, read : {0}]
  /\ bad = FALSE
  /\ position = [line |-> 0, col |-> 0, pos |-> 0]
  /\ pc = "has_next"
  /\ token = <<>>
  /\ tokens = <<>>

-----------------------------------------------------------------------------
(* CharStream.                                                             *)

NextChar == m_stream.text[m_stream.read + 1]

(* peek() != 0 and eof(): at the end peek is -1.  A stream that went bad   *)
(* is not at its end.                                                      *)
is_end_of_stream == ~bad /\ m_stream.read = Len(m_stream.text)

(* The value of peek_next_char; it is empty on a bad stream, and for the   *)
(* byte that reads as eof().                                               *)
peek_has_value == ~bad /\ NextChar # FF

PositionInLine(p, c) ==
  IF c = Newline THEN [line |-> p.line + 1, col |-> 0, pos |-> 0]
                 ELSE [p EXCEPT !.pos = @ + 1]

(* get_next_char counts lines and characters; m_cur_col is only ever reset.*)
NextPosition(p, c) ==
  IF c = Newline THEN [line |-> p.line + 1, col |-> 0, pos |-> p.pos + 1]
                 ELSE [p EXCEPT !.pos = @ + 1]

GetTwoChars ==
  /\ m_stream' = [m_stream EXCEPT !.read = @ + 2]
  /\ position' = NextPosition(position, NextChar)
  /\ UNCHANGED bad

get_next_char ==
  /\ m_stream' = [m_stream EXCEPT !.read = @ + 1]
  /\ position' = NextPosition(position, NextChar)
  /\ UNCHANGED bad

-----------------------------------------------------------------------------
(* Lexer.                                                                  *)

OnlyNewline(c) == c = Newline
char_is_whitespace(c) == c \in Whitespace

Sees(white) ==
  /\ ~is_end_of_stream /\ peek_has_value
  /\ char_is_whitespace(NextChar) = white

PeekForever ==
  /\ pc \in {"has_next", "get_next"}
  /\ Sees(TRUE)
  /\ UNCHANGED vars

(* The loop of skip_whitespace, in has_next_token or in get_next_token.    *)
skip_whitespace ==
  /\ pc \in {"has_next", "get_next"}
  /\ Sees(TRUE)
  /\ get_next_char
  /\ UNCHANGED <<pc, token, tokens>>

has_next_token ==
  /\ pc = "has_next"
  /\ \/ is_end_of_stream /\ pc' = "done"
     \/ Sees(FALSE) /\ pc' = "get_next"
  /\ UNCHANGED <<m_stream, bad, position, token, tokens>>

(* get_next_token past its skip_whitespace.                                *)
begin_token ==
  /\ pc = "get_next"
  /\ is_end_of_stream \/ Sees(FALSE)
  /\ pc' = "token"
  /\ token' = <<>>
  /\ UNCHANGED <<m_stream, bad, position, tokens>>

push_back ==
  /\ pc = "token"
  /\ Sees(FALSE)
  /\ get_next_char
  /\ token' = Append(token, NextChar)
  /\ UNCHANGED <<pc, tokens>>

(* The caller's loop calls has_next_token next; a caller need not.         *)
NextCall ==
  \/ pc' = "has_next"
  \/ Len(tokens) < MaxTokens /\ pc' = "get_next"

DropLastToken ==
  /\ pc = "token"
  /\ is_end_of_stream \/ Sees(TRUE)
  /\ tokens' = IF is_end_of_stream THEN tokens ELSE Append(tokens, token)
  /\ token' = <<>>
  /\ NextCall
  /\ UNCHANGED <<m_stream, bad, position>>

(* At the end of the text the token is empty: never an empty optional.     *)
return_token ==
  /\ pc = "token"
  /\ is_end_of_stream \/ Sees(TRUE)
  /\ tokens' = Append(tokens, token)
  /\ token' = <<>>
  /\ NextCall
  /\ UNCHANGED <<m_stream, bad, position>>

(* value() of an empty optional throws bad_optional_access.                *)
bad_optional_access ==
  /\ pc \in {"has_next", "get_next", "token"}
  /\ ~is_end_of_stream /\ ~peek_has_value
  /\ pc' = "threw"
  /\ UNCHANGED <<m_stream, bad, position, token, tokens>>

(* External: the stream under the lexer fails to read.                     *)
GoBad ==
  /\ StreamFails /\ ~bad
  /\ bad' = TRUE
  /\ UNCHANGED <<m_stream, position, pc, token, tokens>>

Lex ==
  \/ skip_whitespace \/ has_next_token \/ begin_token \/ push_back \/ return_token
  \/ bad_optional_access

Next == Lex \/ GoBad

(* The caller's thread keeps running; the stream need not fail.            *)
Spec == Init /\ [][Next]_vars /\ WF_vars(Lex)

-----------------------------------------------------------------------------
(* Properties.                                                             *)

(* Each variable of the lexer and the stream has its type.                 *)
TypeOK ==
  /\ m_stream.text \in Inputs /\ m_stream.read \in 0 .. Len(m_stream.text)
  /\ bad \in BOOLEAN
  /\ position \in [line : Nat, col : {0}, pos : Nat]
  /\ pc \in {"has_next", "get_next", "token", "done", "threw"}

Text == m_stream.text
White(i) == Text[i] \in Whitespace

(* The places of the text where a word ends, and where the word begins     *)
(* that ends at i.                                                         *)
WordEnds == {i \in 1 .. Len(Text) : ~White(i) /\ (i = Len(Text) \/ White(i + 1))}
WordStart(i) == CHOOSE j \in 1 .. i :
  /\ \A k \in j .. i : ~White(k)
  /\ j = 1 \/ White(j - 1)

(* The n-th token get_next_token returns is the n-th word of the text:     *)
(* none is split, merged or skipped, however calls of has_next_token and   *)
(* get_next_token are mixed.  It is empty only when no word is left.       *)
TokensAreWords ==
  \A n \in DOMAIN tokens :
    \/ tokens[n] = <<>> /\ n > Cardinality(WordEnds)
    \/ \E i \in WordEnds : /\ Cardinality({k \in WordEnds : k <= i}) = n
                           /\ tokens[n] = SubSeq(Text, WordStart(i), i)

(* When has_next_token says there is nothing left, every word of the text  *)
(* has been returned.                                                      *)
NoWordLost == pc = "done" => Len(tokens) >= Cardinality(WordEnds)

(* The position the lexer reports is the place it has read up to: all      *)
(* characters and lines counted once, whichever loop consumed them.        *)
PositionExact ==
  /\ position.pos = m_stream.read
  /\ position.line = Cardinality({i \in 1 .. m_stream.read : Text[i] = Newline})

(* A caller that asks has_next_token comes to the end of the text, or to   *)
(* the exception: the loops of the lexer use the text up.                  *)
LoopEnds == <>(pc \in {"done", "threw"})
=============================================================================
