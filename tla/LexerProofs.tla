---------------------------- MODULE LexerProofs -----------------------------
(***************************************************************************)
(* Proofs about Lexer, for every set of texts, every set of white space    *)
(* characters and any number of tokens.                                    *)
(***************************************************************************)
EXTENDS Lexer, FiniteSetTheorems, SequenceTheorems, TLAPS

-----------------------------------------------------------------------------
(* The inductive invariant.                                                *)

at == m_stream.read
last == Len(Text)
Upto(i) == {k \in WordEnds : k <= i}

(* All variables have their types.                                         *)
Typed ==
  /\ TypeOK
  /\ m_stream \in [text : Inputs, read : Nat]
  /\ token \in Seq(Chars) /\ tokens \in Seq(Seq(Chars))

(* In front of a token the lexer is not inside a word, and has returned    *)
(* all the words it has passed; at the end of the text it may have         *)
(* returned empty tokens too.                                              *)
Between ==
  pc \in {"has_next", "get_next"} =>
    /\ at = 0 \/ at = last \/ White(at) \/ White(at + 1)
    /\ Len(tokens) >= Cardinality(Upto(at))
    /\ at < last => Len(tokens) = Cardinality(Upto(at))

(* In a token: it began at a word's beginning, where all words before it   *)
(* had been returned, and holds what was read since.                       *)
began == at - Len(token)
Within ==
  pc = "token" =>
    /\ Len(token) <= at
    /\ \A i \in 1 .. Len(token) : token[i] = Text[began + i] /\ ~White(began + i)
    /\ Len(tokens) >= Cardinality(Upto(began))
    /\ token = <<>> => at = last \/ ~White(at + 1)
    /\ token # <<>> \/ at < last =>
         /\ began = 0 \/ White(began)
         /\ Len(tokens) = Cardinality(Upto(began))

LInv == Typed /\ Between /\ Within /\ PositionExact /\ TokensAreWords /\ NoWordLost

-----------------------------------------------------------------------------
(* Words and places of the text.                                           *)

(* The text is a sequence, read up to some place of it, and has finitely   *)
(* many words.                                                             *)
LEMMA Places ==
  ASSUME Typed
  PROVE  /\ last \in Nat /\ at \in 0 .. last /\ at \in Nat
         /\ \A i \in 1 .. last : Text[i] \in Chars
<1>1. Text \in Seq(Chars) /\ at \in 0 .. last
  BY InputsAssumption DEF Typed, TypeOK, Text, at, last
<1> QED BY <1>1 DEF last

(* The words up to some place are counted.                                 *)
LEMMA Counts ==
  ASSUME Typed
  PROVE  /\ IsFiniteSet(WordEnds) /\ Cardinality(WordEnds) \in Nat /\ Upto(last) = WordEnds
         /\ \A i \in Int : /\ IsFiniteSet(Upto(i)) /\ Cardinality(Upto(i)) \in Nat
                           /\ Cardinality(Upto(i)) <= Cardinality(WordEnds)
<1>1. WordEnds \subseteq 1 .. last /\ last \in Nat
  BY Places DEF WordEnds, last
<1>2. IsFiniteSet(1 .. last)
  BY <1>1, FS_Interval
<1>3. IsFiniteSet(WordEnds) /\ Cardinality(WordEnds) \in Nat
  BY <1>1, <1>2, FS_Subset, FS_CardinalityType
<1>4. Upto(last) = WordEnds
  <2>1. \A k \in WordEnds : k <= last
    BY <1>1
  <2> QED BY <2>1 DEF Upto
<1>5. ASSUME NEW i \in Int
      PROVE  /\ IsFiniteSet(Upto(i)) /\ Cardinality(Upto(i)) \in Nat
             /\ Cardinality(Upto(i)) <= Cardinality(WordEnds)
  <2>1. Upto(i) \in SUBSET WordEnds
    BY DEF Upto
  <2> QED BY <1>3, <2>1, FS_Subset, FS_CardinalityType
<1> QED BY <1>3, <1>4, <1>5

(* Where words end.                                                        *)
LEMMA IsEnd ==
  ASSUME Typed, NEW k
  PROVE  k \in WordEnds <=> k \in 1 .. last /\ ~White(k) /\ (k = last \/ White(k + 1))
BY DEF WordEnds, last

(* The words do not change while the text is read.                         *)
LEMMA SameWords ==
  ASSUME Text' = Text
  PROVE  /\ WordEnds' = WordEnds
         /\ \A i : (White(i)' <=> White(i)) /\ Upto(i)' = Upto(i)
         /\ \A i : WordStart(i)' = WordStart(i)
BY DEF WordEnds, White, Upto, WordStart

(* No word ends on a white space, or in front of a character of a word.    *)
LEMMA NoEnd ==
  ASSUME Typed, NEW i \in Nat, NEW j \in Nat, i <= j,
         \A k \in (i + 1) .. j : White(k) \/ (k < last /\ ~White(k + 1))
  PROVE  Upto(j) = Upto(i)
<1>1. ASSUME NEW k \in WordEnds PROVE k <= j <=> k <= i
  <2>1. k \in 1 .. last /\ ~White(k) /\ (k = last \/ White(k + 1))
    BY IsEnd
  <2>2. k \notin (i + 1) .. j
    BY <2>1, Places
  <2> QED BY <2>1, <2>2, Places
<1> QED BY <1>1 DEF Upto

(* A run of other characters from b on, with a white space or the end of   *)
(* the text on both sides, is the next word behind the ones up to b.       *)
LEMMA RunIsWord ==
  ASSUME Typed, NEW b \in Nat, NEW e \in Nat, b < e, e <= last,
         \A k \in (b + 1) .. e : ~White(k),
         b = 0 \/ White(b), e = last \/ White(e + 1)
  PROVE  /\ e \in WordEnds /\ WordStart(e) = b + 1
         /\ Cardinality(Upto(e)) = Cardinality(Upto(b)) + 1
<1>1. e \in WordEnds
  BY IsEnd
<1>2. WordStart(e) = b + 1
  <2> DEFINE P(j) == (\A k \in j .. e : ~White(k)) /\ (j = 1 \/ White(j - 1))
  <2>1. b + 1 \in 1 .. e /\ P(b + 1)
    OBVIOUS
  <2>2. ASSUME NEW j \in 1 .. e, P(j) PROVE j = b + 1
    <3>1. CASE j < b + 1
      <4>1. b \in j .. e /\ b # 0
        BY <3>1
      <4> QED BY <2>2, <4>1
    <3>2. CASE j > b + 1
      <4>1. j - 1 \in (b + 1) .. e /\ j # 1
        BY <3>2
      <4> QED BY <2>2, <4>1
    <3> QED BY <3>1, <3>2
  <2> HIDE DEF P
  <2>3. (CHOOSE j \in 1 .. e : P(j)) = b + 1
    BY <2>1, <2>2
  <2> QED BY <2>3 DEF WordStart, P
<1>3. Upto(e) = Upto(b) \cup {e}
  <2>1. Upto(e - 1) = Upto(b)
    <3>1. \A k \in (b + 1) .. (e - 1) : k < last /\ ~White(k + 1)
      BY Places
    <3> QED BY <3>1, NoEnd
  <2>2. Upto(e) = Upto(e - 1) \cup {e}
    <3>1. \A k \in WordEnds : k <= e <=> k <= e - 1 \/ k = e
      BY IsEnd, Places
    <3> QED BY <1>1, <3>1 DEF Upto
  <2> QED BY <2>1, <2>2
<1>4. e \notin Upto(b)
  BY DEF Upto
<1>5. IsFiniteSet(Upto(b)) /\ Cardinality(Upto(b)) \in Nat
  BY Counts
<1>6. Cardinality(Upto(b) \cup {e}) = Cardinality(Upto(b)) + 1
  BY <1>4, <1>5, FS_AddElement
<1> QED BY <1>1, <1>2, <1>3, <1>6

-----------------------------------------------------------------------------
(* The steps.                                                              *)

(* What the lexer knows when it has seen a character, and what reading it  *)
(* changes: the place moves on by one, and the position with it.           *)
LEMMA SeesChar ==
  ASSUME Typed, NEW white \in BOOLEAN, Sees(white)
  PROVE  at < last /\ NextChar = Text[at + 1] /\ NextChar \in Chars
         /\ (White(at + 1) <=> white)
<1>1. at # last
  BY DEF Sees, is_end_of_stream, peek_has_value, at, last, Text
<1>2. at < last
  BY <1>1, Places
<1>3. NextChar = Text[at + 1] /\ NextChar \in Chars
  BY <1>2, Places DEF NextChar, Text, at
<1> QED BY <1>2, <1>3 DEF Sees, char_is_whitespace, White

(* PositionExact is kept by reading a character.                           *)
LEMMA ReadChar ==
  ASSUME Typed, PositionExact, NEW white \in BOOLEAN, Sees(white), get_next_char,
         token' \in Seq(Chars), UNCHANGED <<pc, tokens>>
  PROVE  /\ Text' = Text /\ at' = at + 1 /\ Typed' /\ PositionExact'
<1>1. /\ m_stream' = [m_stream EXCEPT !.read = @ + 1] /\ bad' = bad
      /\ position' = NextPosition(position, NextChar)
  BY DEF get_next_char
<1>2. /\ m_stream \in [text : Inputs, read : Nat] /\ position \in [line : Nat, col : {0}, pos : Nat]
      /\ bad \in BOOLEAN /\ pc \in {"has_next", "get_next", "token", "done", "threw"}
      /\ tokens \in Seq(Seq(Chars))
  BY DEF Typed, TypeOK
<1>3. m_stream' \in [text : Inputs, read : Nat] /\ Text' = Text /\ at' = at + 1
  BY <1>1, <1>2 DEF Text, at
<1>4. at < last /\ NextChar = Text[at + 1]
  BY SeesChar
<1>5. last' = last /\ at' \in 0 .. last'
  <2>1. last' = last
    BY <1>3 DEF last
  <2> QED BY <1>3, <1>4, <2>1, Places
<1>6. /\ position' \in [line : Nat, col : {0}, pos : Nat] /\ position'.pos = position.pos + 1
      /\ position'.line = position.line + (IF NextChar = Newline THEN 1 ELSE 0)
  BY <1>1, <1>2 DEF NextPosition
<1>7. Typed'
  <2>1. m_stream'.text \in Inputs /\ m_stream'.read \in 0 .. Len(m_stream'.text)
    BY <1>3, <1>5 DEF Text, at, last
  <2> QED BY <1>1, <1>2, <1>3, <1>6, <2>1 DEF Typed, TypeOK
<1>8. PositionExact'
  <2> DEFINE N(n) == {i \in 1 .. n : Text[i] = Newline}
  <2>1. position.pos = at /\ position.line = Cardinality(N(at))
    BY DEF PositionExact, at
  <2>2. N(at + 1) = IF NextChar = Newline THEN N(at) \cup {at + 1} ELSE N(at)
    BY <1>4, Places
  <2>3. at + 1 \notin N(at)
    BY Places
  <2>4. IsFiniteSet(N(at)) /\ Cardinality(N(at)) \in Nat
    <3>1. IsFiniteSet(1 .. at) /\ N(at) \in SUBSET (1 .. at)
      BY FS_Interval, Places
    <3> QED BY <3>1, FS_Subset, FS_CardinalityType
  <2> HIDE DEF N
  <2>5. Cardinality(N(at + 1)) = position.line + (IF NextChar = Newline THEN 1 ELSE 0)
    <3>1. Cardinality(N(at) \cup {at + 1}) = Cardinality(N(at)) + 1
      BY <2>3, <2>4, FS_AddElement
    <3> QED BY <2>1, <2>2, <2>4, <3>1
  <2>6. position'.pos = at' /\ position'.line = Cardinality(N(at'))
    BY <1>3, <1>6, <2>1, <2>5
  <2> QED BY <1>3, <2>6 DEF PositionExact, at, N
<1> QED BY <1>3, <1>7, <1>8

(* The returned tokens stay words of the text.                             *)
LEMMA TokensKept ==
  ASSUME TokensAreWords, Text' = Text, tokens' = tokens
  PROVE  TokensAreWords'
<1>1. WordEnds' = WordEnds /\ \A i : WordStart(i)' = WordStart(i)
  BY SameWords
<1> QED BY <1>1 DEF TokensAreWords

(* The lexer begins at the beginning of the text.                          *)
LEMMA InitLInv == Init => LInv
<1> SUFFICES ASSUME Init PROVE LInv
  OBVIOUS
<1>1. /\ m_stream \in [text : Inputs, read : {0}] /\ bad = FALSE
      /\ position = [line |-> 0, col |-> 0, pos |-> 0]
      /\ pc = "has_next" /\ token = <<>> /\ tokens = <<>>
  BY DEF Init
<1>2. Text \in Seq(Chars) /\ at = 0 /\ Len(Text) \in Nat
  BY <1>1, InputsAssumption DEF Text, at
<1>3. Typed
  <2>1. m_stream.read \in 0 .. Len(m_stream.text)
    BY <1>2 DEF at, Text
  <2>2. m_stream \in [text : Inputs, read : Nat] /\ m_stream.text \in Inputs
    BY <1>1
  <2>3. position \in [line : Nat, col : {0}, pos : Nat]
    BY <1>1
  <2>4. token \in Seq(Chars) /\ tokens \in Seq(Seq(Chars))
    BY <1>1
  <2>5. TypeOK
    BY <1>1, <2>1, <2>2, <2>3 DEF TypeOK
  <2> QED BY <2>2, <2>4, <2>5 DEF Typed
<1>4. Upto(0) = {} /\ Cardinality(Upto(0)) = 0
  <2>1. \A k \in WordEnds : ~(k <= 0)
    BY <1>3, IsEnd, Places
  <2> QED BY <2>1, FS_EmptySet DEF Upto
<1>5. Between /\ Within
  BY <1>1, <1>2, <1>4 DEF Between, Within
<1>6. PositionExact
  <2>1. {i \in 1 .. m_stream.read : Text[i] = Newline} = {}
    BY <1>2 DEF at
  <2> QED BY <1>1, <2>1, FS_EmptySet DEF PositionExact
<1>7. TokensAreWords /\ NoWordLost
  BY <1>1 DEF TokensAreWords, NoWordLost
<1> QED BY <1>3, <1>5, <1>6, <1>7 DEF LInv

(* skip_whitespace passes no end of a word.                                *)
LEMMA SkipKeeps == LInv /\ skip_whitespace => LInv'
<1> SUFFICES ASSUME LInv, skip_whitespace PROVE LInv'
  OBVIOUS
<1>1. Typed /\ Between /\ PositionExact /\ TokensAreWords /\ NoWordLost
  BY DEF LInv
<1>2. pc \in {"has_next", "get_next"} /\ Sees(TRUE) /\ get_next_char /\ UNCHANGED <<pc, token, tokens>>
  BY DEF skip_whitespace
<1>3. at < last /\ White(at + 1) /\ at \in Nat /\ last \in Nat
  BY <1>1, <1>2, SeesChar, Places
<1>4. Text' = Text /\ at' = at + 1 /\ Typed' /\ PositionExact'
  BY <1>1, <1>2, ReadChar DEF Typed
<1>5. Upto(at + 1) = Upto(at)
  BY <1>1, <1>3, NoEnd
<1>6. Upto(at)' = Upto(at)
  BY <1>4, <1>5, SameWords DEF Upto
<1>7. White(at)'
  BY <1>3, <1>4 DEF White
<1>8. Len(tokens) = Cardinality(Upto(at)) /\ Len(tokens) \in Nat
  <2>1. Len(tokens) = Cardinality(Upto(at))
    BY <1>1, <1>2, <1>3 DEF Between
  <2>2. tokens \in Seq(Seq(Chars))
    BY <1>1 DEF Typed
  <2> QED BY <2>1, <2>2
<1>9. Between'
  BY <1>2, <1>6, <1>7, <1>8 DEF Between
<1>10. Within' /\ NoWordLost'
  BY <1>2 DEF Within, NoWordLost
<1>11. TokensAreWords'
  BY <1>1, <1>2, <1>4, TokensKept
<1> QED BY <1>4, <1>9, <1>10, <1>11 DEF LInv

(* A step that leaves the stream and the tokens alone keeps the types, the *)
(* position and the tokens.                                                *)
LEMMA QuietKeeps ==
  ASSUME LInv, UNCHANGED <<m_stream, position, tokens>>, bad' \in BOOLEAN, token' \in Seq(Chars),
         pc' \in {"has_next", "get_next", "token", "done", "threw"}
  PROVE  /\ Typed' /\ PositionExact' /\ TokensAreWords'
         /\ Text' = Text /\ at' = at /\ last' = last /\ WordEnds' = WordEnds
         /\ \A i : (White(i)' <=> White(i)) /\ Upto(i)' = Upto(i)
<1>1. Typed /\ PositionExact /\ TokensAreWords
  BY DEF LInv
<1>2. Text' = Text /\ at' = at /\ last' = last
  BY DEF Text, at, last
<1>3. Typed'
  BY <1>1 DEF Typed, TypeOK
<1>4. PositionExact'
  BY <1>1, <1>2 DEF PositionExact
<1>5. TokensAreWords'
  BY <1>1, <1>2, TokensKept
<1> QED BY <1>2, <1>3, <1>4, <1>5, SameWords

(* has_next_token finds the end of the text, or a word.                    *)
LEMMA HasNextKeeps == LInv /\ has_next_token => LInv'
<1> SUFFICES ASSUME LInv, has_next_token PROVE LInv'
  OBVIOUS
<1>1. Typed /\ Between
  BY DEF LInv
<1>2. /\ pc = "has_next" /\ ((is_end_of_stream /\ pc' = "done") \/ pc' = "get_next")
      /\ UNCHANGED <<m_stream, bad, position, token, tokens>>
  BY DEF has_next_token
<1>3. /\ Typed' /\ PositionExact' /\ TokensAreWords'
      /\ Text' = Text /\ at' = at /\ last' = last /\ WordEnds' = WordEnds
      /\ \A i : (White(i)' <=> White(i)) /\ Upto(i)' = Upto(i)
  BY <1>1, <1>2, QuietKeeps DEF Typed, TypeOK
<1>4. Between'
  <2>1. Upto(at)' = Upto(at) /\ (White(at)' <=> White(at)) /\ (White(at + 1)' <=> White(at + 1))
    BY <1>3 DEF Upto, White
  <2> QED BY <1>1, <1>2, <1>3, <2>1 DEF Between
<1>5. Within'
  BY <1>2 DEF Within
<1>6. NoWordLost'
  <2>1. is_end_of_stream => at = last
    BY DEF is_end_of_stream, at, last, Text
  <2>2. is_end_of_stream => Len(tokens) >= Cardinality(WordEnds)
    BY <1>1, <1>2, <2>1, Counts DEF Between
  <2> QED BY <1>2, <1>3, <2>2 DEF NoWordLost
<1> QED BY <1>3, <1>4, <1>5, <1>6 DEF LInv

(* get_next_token begins a token at the beginning of a word, or at the end *)
(* of the text.                                                            *)
LEMMA BeginKeeps == LInv /\ begin_token => LInv'
<1> SUFFICES ASSUME LInv, begin_token PROVE LInv'
  OBVIOUS
<1>1. Typed /\ Between
  BY DEF LInv
<1>2. /\ pc = "get_next" /\ (is_end_of_stream \/ Sees(FALSE)) /\ pc' = "token" /\ token' = <<>>
      /\ UNCHANGED <<m_stream, bad, position, tokens>>
  BY DEF begin_token
<1>3. /\ Typed' /\ PositionExact' /\ TokensAreWords'
      /\ Text' = Text /\ at' = at /\ last' = last /\ WordEnds' = WordEnds
      /\ \A i : (White(i)' <=> White(i)) /\ Upto(i)' = Upto(i)
  BY <1>1, <1>2, QuietKeeps DEF Typed, TypeOK
<1>4. at = last \/ (at < last /\ ~White(at + 1))
  BY <1>1, <1>2, SeesChar DEF is_end_of_stream, at, last, Text
<1>5. at \in Nat /\ last \in Nat
  BY <1>1, Places
<1>6. began' = at /\ Len(token') = 0
  BY <1>2, <1>3, <1>5 DEF began
<1>7. Within'
  <2>1. Upto(began)' = Upto(at) /\ (White(began)' <=> White(at)) /\ (White(at + 1)' <=> White(at + 1))
    BY <1>3, <1>6 DEF Upto, White
  <2>2. Len(tokens) >= Cardinality(Upto(at))
    BY <1>1, <1>2 DEF Between
  <2>3. at < last => /\ at = 0 \/ White(at)
                     /\ Len(tokens) = Cardinality(Upto(at))
    BY <1>1, <1>2, <1>4, <1>5 DEF Between
  <2> QED BY <1>2, <1>3, <1>4, <1>5, <1>6, <2>1, <2>2, <2>3 DEF Within
<1>8. Between' /\ NoWordLost'
  BY <1>2 DEF Between, NoWordLost
<1> QED BY <1>3, <1>7, <1>8 DEF LInv

(* push_back adds the next character of the word.                          *)
LEMMA PushKeeps == LInv /\ push_back => LInv'
<1> SUFFICES ASSUME LInv, push_back PROVE LInv'
  OBVIOUS
<1>1. Typed /\ Within /\ PositionExact /\ TokensAreWords
  BY DEF LInv
<1>2. /\ pc = "token" /\ Sees(FALSE) /\ get_next_char /\ token' = Append(token, NextChar)
      /\ UNCHANGED <<pc, tokens>>
  BY DEF push_back
<1>3. /\ at < last /\ ~White(at + 1) /\ at \in Nat /\ last \in Nat
      /\ NextChar = Text[at + 1] /\ NextChar \in Chars
  BY <1>1, <1>2, SeesChar, Places
<1>4. /\ token \in Seq(Chars) /\ Len(token) \in Nat
      /\ token' \in Seq(Chars) /\ Len(token') = Len(token) + 1 /\ token' # <<>>
      /\ token'[Len(token) + 1] = NextChar /\ \A i \in 1 .. Len(token) : token'[i] = token[i]
  BY <1>1, <1>2, <1>3 DEF Typed
<1>5. Text' = Text /\ at' = at + 1 /\ Typed' /\ PositionExact'
  BY <1>1, <1>2, <1>4, ReadChar
<1>6. /\ Len(token) <= at /\ began \in Nat /\ began' = began
      /\ \A i \in 1 .. Len(token) : token[i] = Text[began + i] /\ ~White(began + i)
      /\ began = 0 \/ White(began)
      /\ Len(tokens) = Cardinality(Upto(began))
  <2>1. Len(token) <= at
    BY <1>1, <1>2 DEF Within
  <2>2. began \in Nat /\ began' = began
    BY <1>3, <1>4, <1>5, <2>1 DEF began
  <2> QED BY <1>1, <1>2, <1>3, <2>1, <2>2 DEF Within
<1>7. ASSUME NEW i \in 1 .. Len(token')
      PROVE  token'[i] = Text[began + i] /\ ~White(began + i)
  <2>1. CASE i = Len(token) + 1
    <3>1. began + i = at + 1
      BY <1>3, <1>4, <1>6, <2>1 DEF began
    <3> QED BY <1>3, <1>4, <2>1, <3>1
  <2>2. CASE i \in 1 .. Len(token)
    BY <1>4, <1>6, <2>2
  <2> QED BY <1>4, <2>1, <2>2
<1>8. Within'
  <2>1. \A i : (White(i)' <=> White(i)) /\ Upto(i)' = Upto(i)
    BY <1>5, SameWords
  <2>2. /\ Upto(began)' = Upto(began) /\ (White(began)' <=> White(began))
        /\ \A i : White(began + i)' <=> White(began + i)
    BY <1>5, <1>6, SameWords DEF Upto, White
  <2>3. /\ Len(token') <= at'
        /\ \A i \in 1 .. Len(token') : token'[i] = Text'[began' + i] /\ ~White(began + i)'
    <3>1. Len(token') <= at'
      BY <1>3, <1>4, <1>5, <1>6
    <3>2. \A i \in 1 .. Len(token') : token'[i] = Text'[began' + i] /\ ~White(began + i)'
      BY <1>5, <1>6, <1>7, <2>2
    <3> QED BY <3>1, <3>2
  <2>4. Len(tokens') >= Cardinality(Upto(began)') /\ Len(tokens') = Cardinality(Upto(began)')
    <3>1. Cardinality(Upto(began)) \in Nat
      BY <1>1, <1>6, Counts
    <3> QED BY <1>2, <1>6, <2>2, <3>1
  <2> QED BY <1>4, <1>6, <2>2, <2>3, <2>4 DEF Within
<1>9. Between' /\ NoWordLost'
  BY <1>2 DEF Between, NoWordLost
<1>10. TokensAreWords'
  BY <1>1, <1>2, <1>5, TokensKept
<1> QED BY <1>5, <1>8, <1>9, <1>10 DEF LInv

(* The token that get_next_token returns is the next word of the text, or  *)
(* empty when there is none.                                               *)
LEMMA TokenIsWord ==
  ASSUME Typed, Within, pc = "token", is_end_of_stream \/ Sees(TRUE)
  PROVE  \/ /\ token = <<>> /\ at = last /\ Len(tokens) >= Cardinality(WordEnds)
         \/ /\ at \in WordEnds /\ Len(tokens) + 1 = Cardinality(Upto(at))
            /\ token = SubSeq(Text, WordStart(at), at)
<1>1. at = last \/ (at < last /\ White(at + 1))
  BY SeesChar DEF is_end_of_stream, at, last, Text
<1>2. /\ at \in Nat /\ last \in Nat /\ token \in Seq(Chars) /\ Len(token) \in Nat
      /\ Len(token) <= at /\ began \in Nat
  <2>1. at \in Nat /\ last \in Nat /\ token \in Seq(Chars)
    BY Places DEF Typed
  <2>2. Len(token) \in Nat /\ Len(token) <= at
    BY <2>1 DEF Within
  <2> QED BY <2>1, <2>2 DEF began
<1>3. CASE token = <<>>
  <2>1. at = last
    BY <1>1, <1>3 DEF Within
  <2>2. began = at
    BY <1>2, <1>3 DEF began
  <2>3. Len(tokens) >= Cardinality(Upto(at))
    BY <2>2 DEF Within
  <2> QED BY <1>3, <2>1, <2>3, Counts
<1>4. CASE token # <<>>
  <2>1. Len(token) > 0
    BY <1>2, <1>4
  <2>2. /\ began = 0 \/ White(began)
        /\ Len(tokens) = Cardinality(Upto(began))
        /\ \A i \in 1 .. Len(token) : token[i] = Text[began + i] /\ ~White(began + i)
    BY <1>4 DEF Within
  <2>3. began < at /\ at <= last /\ Len(token) = at - began
    BY <1>1, <1>2, <2>1 DEF began
  <2>4. ASSUME NEW k \in (began + 1) .. at PROVE ~White(k)
    <3>1. k - began \in 1 .. Len(token) /\ began + (k - began) = k
      BY <1>2, <2>3
    <3> QED BY <2>2, <3>1
  <2>5. /\ at \in WordEnds /\ WordStart(at) = began + 1
        /\ Cardinality(Upto(at)) = Cardinality(Upto(began)) + 1
    BY <1>1, <1>2, <2>2, <2>3, <2>4, RunIsWord
  <2>6. token = SubSeq(Text, began + 1, at)
    <3> DEFINE w == SubSeq(Text, began + 1, at)
    <3>1. \A i \in (began + 1) .. at : Text[i] \in Chars
      BY <1>2, <2>3, Places
    <3>2. /\ w \in Seq(Chars) /\ Len(w) = at - (began + 1) + 1
          /\ \A i \in 1 .. (at - (began + 1) + 1) : w[i] = Text[began + 1 + i - 1]
      <4>1. began + 1 \in Int /\ at \in Int /\ began + 1 <= at
        BY <1>2, <2>3
      <4>2. /\ w \in Seq(Chars) /\ Len(w) = IF began + 1 <= at THEN at - (began + 1) + 1 ELSE 0
            /\ \A i \in 1 .. at - (began + 1) + 1 : w[i] = Text[began + 1 + i - 1]
        <5> HIDE DEF w
        <5> DEFINE m == began + 1
        <5>1. m \in Int /\ at \in Int /\ \A i \in m .. at : Text[i] \in Chars
          BY <3>1, <4>1
        <5> HIDE DEF m
        <5>2. /\ SubSeq(Text, m, at) \in Seq(Chars)
              /\ Len(SubSeq(Text, m, at)) = IF m <= at THEN at - m + 1 ELSE 0
              /\ \A i \in 1 .. at - m + 1 : SubSeq(Text, m, at)[i] = Text[m + i - 1]
          BY <5>1, SubSeqProperties
        <5> QED BY <5>2 DEF m, w
      <4> QED BY <4>1, <4>2
    <3> HIDE DEF w
    <3>3. Len(w) = Len(token) /\ \A i \in 1 .. Len(token) : began + 1 + i - 1 = began + i
      BY <1>2, <2>3, <3>2
    <3>4. \A i \in 1 .. Len(token) : w[i] = token[i]
      BY <1>2, <2>2, <2>3, <3>2, <3>3
    <3>5. w = token
      BY <1>2, <3>2, <3>3, <3>4, SeqEqual
    <3> QED BY <3>5 DEF w
  <2> QED BY <2>2, <2>5, <2>6
<1> QED BY <1>3, <1>4

(* get_next_token returns.                                                 *)
LEMMA ReturnKeeps == LInv /\ return_token => LInv'
<1> SUFFICES ASSUME LInv, return_token PROVE LInv'
  OBVIOUS
<1>1. Typed /\ Within /\ PositionExact /\ TokensAreWords
  BY DEF LInv
<1>2. /\ pc = "token" /\ (is_end_of_stream \/ Sees(TRUE))
      /\ tokens' = Append(tokens, token) /\ token' = <<>> /\ pc' \in {"has_next", "get_next"}
      /\ UNCHANGED <<m_stream, bad, position>>
  BY DEF return_token, NextCall
<1>3. \/ /\ token = <<>> /\ at = last /\ Len(tokens) >= Cardinality(WordEnds)
      \/ /\ at \in WordEnds /\ Len(tokens) + 1 = Cardinality(Upto(at))
         /\ token = SubSeq(Text, WordStart(at), at)
  BY <1>1, <1>2, TokenIsWord
<1>4. /\ tokens \in Seq(Seq(Chars)) /\ token \in Seq(Chars) /\ Len(tokens) \in Nat
      /\ tokens' \in Seq(Seq(Chars)) /\ Len(tokens') = Len(tokens) + 1
      /\ DOMAIN tokens = 1 .. Len(tokens) /\ DOMAIN tokens' = 1 .. (Len(tokens) + 1)
      /\ tokens'[Len(tokens) + 1] = token
      /\ \A n \in 1 .. Len(tokens) : tokens'[n] = tokens[n]
  BY <1>1, <1>2 DEF Typed
<1>5. Text' = Text /\ at' = at /\ last' = last
  BY <1>2 DEF Text, at, last
<1>6. /\ WordEnds' = WordEnds /\ \A i : WordStart(i)' = WordStart(i)
      /\ Upto(at)' = Upto(at) /\ (White(at + 1)' <=> White(at + 1))
  BY <1>5, SameWords DEF Upto, White
<1>7. Typed'
  <2>1. token' \in Seq(Chars)
    BY <1>2
  <2> QED BY <1>1, <1>2, <1>4, <2>1 DEF Typed, TypeOK
<1>8. PositionExact'
  BY <1>1, <1>2, <1>5 DEF PositionExact
<1>9. TokensAreWords'
  <2>1. ASSUME NEW n \in 1 .. (Len(tokens) + 1)
        PROVE  \/ tokens'[n] = <<>> /\ n > Cardinality(WordEnds)
               \/ \E i \in WordEnds : /\ Cardinality({k \in WordEnds : k <= i}) = n
                                      /\ tokens'[n] = SubSeq(Text, WordStart(i), i)
    <3>1. CASE n \in 1 .. Len(tokens)
      BY <1>1, <1>4, <3>1 DEF TokensAreWords
    <3>2. CASE n = Len(tokens) + 1
      <4>1. Cardinality(WordEnds) \in Nat
        BY <1>1, Counts
      <4>2. tokens'[n] = token
        BY <1>4, <3>2
      <4>3. CASE token = <<>> /\ Len(tokens) >= Cardinality(WordEnds)
        <5>1. n > Cardinality(WordEnds)
          BY <1>4, <3>2, <4>1, <4>3
        <5> QED BY <4>2, <4>3, <5>1
      <4>4. CASE /\ at \in WordEnds /\ Len(tokens) + 1 = Cardinality(Upto(at))
                 /\ token = SubSeq(Text, WordStart(at), at)
        BY <3>2, <4>2, <4>4 DEF Upto
      <4> QED BY <1>3, <4>3, <4>4
    <3>3. n \in 1 .. Len(tokens) \/ n = Len(tokens) + 1
      BY <1>4
    <3> QED BY <3>1, <3>2, <3>3
  <2> QED BY <1>4, <1>5, <1>6, <2>1 DEF TokensAreWords
<1>10. Between'
  <2>1. at = last \/ White(at + 1)
    BY <1>1, <1>2, SeesChar DEF is_end_of_stream, at, last, Text
  <2>2. at \in Nat /\ last \in Nat /\ Cardinality(Upto(at)) \in Nat
        /\ Cardinality(Upto(at)) <= Cardinality(WordEnds) /\ Cardinality(WordEnds) \in Nat
    BY <1>1, Places, Counts
  <2>3. /\ Len(tokens') >= Cardinality(Upto(at))
        /\ at < last => Len(tokens') = Cardinality(Upto(at))
    BY <1>3, <1>4, <2>2
  <2> QED BY <1>5, <1>6, <2>1, <2>3 DEF Between
<1>11. Within' /\ NoWordLost'
  BY <1>2 DEF Within, NoWordLost
<1> QED BY <1>7, <1>8, <1>9, <1>10, <1>11 DEF LInv

(* The exception leaves the lexer where it is.                             *)
LEMMA ThrowKeeps == LInv /\ bad_optional_access => LInv'
<1> SUFFICES ASSUME LInv, bad_optional_access PROVE LInv'
  OBVIOUS
<1>1. pc' = "threw" /\ UNCHANGED <<m_stream, bad, position, token, tokens>>
  BY DEF bad_optional_access
<1>2. Typed' /\ PositionExact' /\ TokensAreWords'
  BY <1>1, QuietKeeps DEF LInv, Typed, TypeOK
<1>3. Between' /\ Within' /\ NoWordLost'
  BY <1>1 DEF Between, Within, NoWordLost
<1> QED BY <1>2, <1>3 DEF LInv

(* The stream fails, or nothing happens.                                   *)
LEMMA StillKeeps ==
  ASSUME LInv, UNCHANGED <<m_stream, position, pc, token, tokens>>, bad' \in BOOLEAN
  PROVE  LInv'
<1>1. Typed /\ Between /\ Within /\ NoWordLost
  BY DEF LInv
<1>2. /\ Typed' /\ PositionExact' /\ TokensAreWords'
      /\ Text' = Text /\ at' = at /\ last' = last /\ WordEnds' = WordEnds
  BY <1>1, QuietKeeps DEF Typed, TypeOK
<1>3. began' = began
  BY <1>2 DEF began
<1>4. /\ Upto(at)' = Upto(at) /\ Upto(began)' = Upto(began)
      /\ (White(at)' <=> White(at)) /\ (White(at + 1)' <=> White(at + 1))
      /\ (White(began)' <=> White(began))
      /\ \A i : White(began + i)' <=> White(began + i)
  BY <1>2, <1>3 DEF Upto, White
<1>5. Between'
  BY <1>1, <1>2, <1>4 DEF Between
<1>6. Within'
  BY <1>1, <1>2, <1>3, <1>4 DEF Within
<1>7. NoWordLost'
  BY <1>1, <1>2 DEF NoWordLost
<1> QED BY <1>2, <1>5, <1>6, <1>7 DEF LInv

-----------------------------------------------------------------------------
(* Theorems.                                                               *)

(* Every turn of a loop of the lexer keeps the invariant, on a stream that *)
(* may go bad at any time.                                                 *)
LEMMA StepLInv == LInv /\ [Next]_vars => LInv'
<1> SUFFICES ASSUME LInv, [Next]_vars PROVE LInv'
  OBVIOUS
<1>1. CASE Lex
  BY <1>1, SkipKeeps, HasNextKeeps, BeginKeeps, PushKeeps, ReturnKeeps, ThrowKeeps DEF Lex
<1>2. CASE GoBad
  BY <1>2, StillKeeps DEF GoBad
<1>3. CASE UNCHANGED vars
  BY <1>3, StillKeeps DEF vars, LInv, Typed, TypeOK
<1> QED BY <1>1, <1>2, <1>3 DEF Next

(* The invariant holds of every behaviour.                                 *)
LEMMA AlwaysLInv == Spec => []LInv
<1> QED BY InitLInv, StepLInv, PTL DEF Spec

(* char_stream.cpp and lexer.cpp: each variable has its type; no loop      *)
(* reads behind the end of the text.                                       *)
THEOREM TypeCorrect == Spec => []TypeOK
<1>1. LInv => TypeOK
  BY DEF LInv, Typed
<1> QED BY <1>1, AlwaysLInv, PTL

(* lexer.cpp, get_next_token: the n-th token is the n-th word of the text, *)
(* in any text and however calls of has_next_token are mixed in.           *)
THEOREM TokensAlwaysWords == Spec => []TokensAreWords
<1>1. LInv => TokensAreWords
  BY DEF LInv
<1> QED BY <1>1, AlwaysLInv, PTL

(* lexer.cpp, has_next_token: it says no only when every word of the text  *)
(* has been returned.                                                      *)
THEOREM NoWordIsLost == Spec => []NoWordLost
<1>1. LInv => NoWordLost
  BY DEF LInv
<1> QED BY <1>1, AlwaysLInv, PTL

(* char_stream.cpp, get_next_char: the reported position counts every      *)
(* character and line that was read, once.                                 *)
THEOREM PositionIsExact == Spec => []PositionExact
<1>1. LInv => PositionExact
  BY DEF LInv
<1> QED BY <1>1, AlwaysLInv, PTL
=============================================================================
