------------------------------- MODULE Tokens -------------------------------
(***************************************************************************)
(* The tokenizer: titles, descriptions and search queries are cut into the *)
(* words the store finds items by.  It reads a text byte by byte, and an   *)
(* action below is one turn of its loop.                                   *)
(***************************************************************************)
EXTENDS Naturals, Sequences

CONSTANTS
  Bytes,     \* the bytes texts are made of
  MaxText    \* bound: the length of a text

ASSUME BytesAssumption == Bytes \subseteq 0..255
ASSUME TextAssumption  == MaxText \in Nat

VARIABLES
  text,      \* the string
  read,      \* the bytes read so far
  word,      \* the word being read
  tokens,    \* the result
  seen,      \* the words that are in it
  running    \* whether the function has yet to return

tokenVars == <<text, read, word, tokens, seen, running>>

-----------------------------------------------------------------------------
(* Bytes *)

isAlphaNum(c) == c \in 97..122 \/ c \in 65..90 \/ c \in 48..57

lower(c) == IF c \in 65..90 THEN c + 32 ELSE c

-----------------------------------------------------------------------------
(* The loop *)

tokenize(s) ==
  /\ text = s
  /\ read = 0 /\ word = <<>> /\ tokens = <<>> /\ seen = {}
  /\ running = TRUE

\* A letter or a digit goes on the word.
ReadAlphaNum ==
  /\ running /\ read < Len(text) /\ isAlphaNum(text[read + 1])
  /\ word' = Append(word, lower(text[read + 1]))
  /\ read' = read + 1
  /\ UNCHANGED <<text, tokens, seen, running>>

\* Mutant: a word is not remembered.
ReadSeparatorOnly ==
  /\ running /\ read < Len(text) /\ ~isAlphaNum(text[read + 1])
  /\ tokens' = IF word = <<>> \/ word \in seen THEN tokens ELSE Append(tokens, word)
  /\ word' = <<>>
  /\ read' = read + 1
  /\ UNCHANGED <<text, seen, running>>

\* Any other byte ends the word, which is listed once.
ReadSeparator ==
  /\ running /\ read < Len(text) /\ ~isAlphaNum(text[read + 1])
  /\ IF word = <<>> \/ word \in seen
     THEN UNCHANGED <<tokens, seen>>
     ELSE tokens' = Append(tokens, word) /\ seen' = seen \union {word}
  /\ word' = <<>>
  /\ read' = read + 1
  /\ UNCHANGED <<text, running>>

\* Mutant: the last word is dropped.
ReturnAtEnd ==
  /\ running /\ read = Len(text)
  /\ running' = FALSE
  /\ UNCHANGED <<text, read, word, tokens, seen>>

\* The last word has no byte behind it.
Finish ==
  /\ running /\ read = Len(text)
  /\ tokens' = IF word = <<>> \/ word \in seen THEN tokens ELSE Append(tokens, word)
  /\ running' = FALSE
  /\ UNCHANGED <<text, read, word, seen>>

TokensInit == \E n \in 0..MaxText : \E s \in [1..n -> Bytes] : tokenize(s)

TokensNext == ReadAlphaNum \/ ReadSeparator \/ Finish

TokensSpec == TokensInit /\ [][TokensNext]_tokenVars

-----------------------------------------------------------------------------
(* What a tokenizer is for *)

\* The bytes i to j of s are a word: letters and digits, and nothing more of
\* them before or behind.
IsWord(s, i, j) ==
  /\ 1 <= i /\ i <= j /\ j <= Len(s)
  /\ \A k \in i..j : isAlphaNum(s[k])
  /\ i > 1 => ~isAlphaNum(s[i - 1])
  /\ j < Len(s) => ~isAlphaNum(s[j + 1])

\* The word from i to j, in small letters.
WordAt(s, i, j) == [k \in 1..(j - i + 1) |-> lower(s[i + k - 1])]

Listed(w) == \E k \in DOMAIN tokens : tokens[k] = w

\* What the tokenizer returns are the words of the text and nothing else,
\* the last one too (create.go:139-158): an item is found by each of them.
TokensAreWords ==
  ~running =>
    /\ \A i, j \in 1..Len(text) : IsWord(text, i, j) => Listed(WordAt(text, i, j))
    /\ \A k \in DOMAIN tokens : \E i, j \in 1..Len(text) :
         IsWord(text, i, j) /\ tokens[k] = WordAt(text, i, j)

\* A word that is repeated, in whatever letters, is returned once
\* (create.go:143-157), so the store weighs no word twice.
TokensOnce == \A k, m \in DOMAIN tokens : tokens[k] = tokens[m] => k = m

=============================================================================
