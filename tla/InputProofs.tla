---------------------------- MODULE InputProofs ----------------------------
(***************************************************************************)
(* Proofs about what people type, select and fill in: the tokenizer for    *)
(* every text, the filter bar for every set of filters, the forms for      *)
(* every schema.                                                           *)
(***************************************************************************)
EXTENDS Tokens, FilterBar, Forms, TLAPS

-----------------------------------------------------------------------------
(* The tokenizer: its loop invariant *)

Words == Seq(0..255)

\* The first byte of the word being read is behind this one.
Start0 == read - Len(word)

\* The word being read is the run of letters and digits before the next byte.
WordInv ==
  /\ word \in Words /\ Len(word) <= read
  /\ \A k \in 1..Len(word) :
       isAlphaNum(text[Start0 + k]) /\ word[k] = lower(text[Start0 + k])
  /\ Start0 > 0 => ~isAlphaNum(text[Start0])

\* Every word that has ended before is listed, once, and nothing else is.
ListInv ==
  /\ tokens \in Seq(Words)
  /\ \A i, j \in 1..Len(text) :
       IsWord(text, i, j) /\ j <= Start0 => Listed(WordAt(text, i, j))
  /\ \A k \in DOMAIN tokens : \E i, j \in 1..Len(text) :
       IsWord(text, i, j) /\ tokens[k] = WordAt(text, i, j)

TokensType ==
  /\ text \in Words
  /\ read \in 0..Len(text)
  /\ running \in BOOLEAN

TokensInv ==
  /\ TokensType
  /\ TokensOnce
  /\ running => WordInv /\ ListInv /\ \A w \in Words : w \in seen <=> Listed(w)
  /\ TokensAreWords

LEMMA TokensInitInv == TokensInit => TokensInv
<1> SUFFICES ASSUME TokensInit PROVE TokensInv
  OBVIOUS
<1>1. PICK n \in 0..MaxText : \E s \in [1..n -> Bytes] : tokenize(s)
  BY DEF TokensInit
<1>2. PICK s \in [1..n -> Bytes] : tokenize(s)
  BY <1>1
<1>3. n \in Nat /\ text \in [1..n -> 0..255]
  <2>1. n \in Nat /\ text = s
    BY <1>1, <1>2, TextAssumption DEF tokenize
  <2>2. \A k \in 1..n : s[k] \in 0..255
    BY BytesAssumption
  <2>3. s \in [1..n -> 0..255]
    BY <2>2, Zenon
  <2> QED BY <2>1, <2>3
<1>4. text \in Words /\ Len(text) = n
  BY <1>3 DEF Words
<1>5. /\ read = 0 /\ word = <<>> /\ tokens = <<>> /\ seen = {} /\ running = TRUE
  BY <1>2 DEF tokenize
<1> QED
  BY <1>4, <1>5 DEF TokensInv, TokensType, TokensOnce, WordInv, ListInv, TokensAreWords,
                    Start0, Words, Listed

\* A word that is added to the list is one more word that is listed.
LEMMA ListedMore ==
  ASSUME tokens \in Seq(Words), NEW w \in Words, tokens' = Append(tokens, w)
  PROVE  /\ tokens' \in Seq(Words)
         /\ \A v : Listed(v)' <=> Listed(v) \/ v = w
<1>1. Len(tokens') = Len(tokens) + 1 /\ tokens'[Len(tokens) + 1] = w
      /\ \A k \in DOMAIN tokens : tokens'[k] = tokens[k]
  OBVIOUS
<1>2. DOMAIN tokens' = DOMAIN tokens \union {Len(tokens) + 1}
  OBVIOUS
<1> QED BY <1>1, <1>2 DEF Listed

\* The word being read, when a byte that belongs to no word or the end of
\* the text follows, is a word of the text, and the only one that ends there.
LEMMA WordEnds ==
  ASSUME TokensType, WordInv, read < Len(text) => ~isAlphaNum(text[read + 1])
  PROVE  /\ word # <<>> =>
              /\ Start0 + 1 \in 1..Len(text) /\ read \in 1..Len(text)
              /\ IsWord(text, Start0 + 1, read) /\ word = WordAt(text, Start0 + 1, read)
         /\ \A i, j \in 1..Len(text) :
              IsWord(text, i, j) /\ Start0 < j /\ j <= read =>
                word # <<>> /\ word = WordAt(text, i, j)
<1>0. /\ text \in Seq(0..255) /\ read \in Nat /\ read <= Len(text) /\ Len(word) \in Nat
      /\ Len(word) <= read /\ Start0 \in Nat /\ Start0 = read - Len(word)
  BY DEF TokensType, WordInv, Words, Start0
<1>1. ASSUME word # <<>>
      PROVE  /\ Start0 + 1 \in 1..Len(text) /\ read \in 1..Len(text)
             /\ IsWord(text, Start0 + 1, read) /\ word = WordAt(text, Start0 + 1, read)
  <2>1. Len(word) > 0
    BY <1>1 DEF WordInv, Words
  <2>2. \A k \in (Start0 + 1)..read : isAlphaNum(text[k])
    <3> TAKE k \in (Start0 + 1)..read
    <3>1. k - Start0 \in 1..Len(word) /\ Start0 + (k - Start0) = k
      BY <1>0
    <3> QED BY <3>1 DEF WordInv
  <2>3. Start0 + 1 > 1 => ~isAlphaNum(text[(Start0 + 1) - 1])
    BY <1>0 DEF WordInv
  <2>4. IsWord(text, Start0 + 1, read)
    BY <1>0, <2>1, <2>2, <2>3 DEF IsWord
  <2>5. word = WordAt(text, Start0 + 1, read)
    <3>1. read - (Start0 + 1) + 1 = Len(word)
      BY <1>0
    <3>2. \A k \in 1..Len(word) : (Start0 + 1) + k - 1 = Start0 + k
      BY <1>0
    <3>3. word = [k \in 1..Len(word) |-> word[k]]
      BY DEF WordInv, Words
    <3> QED BY <3>1, <3>2, <3>3 DEF WordAt, WordInv
  <2> QED BY <1>0, <2>1, <2>4, <2>5
<1>2. ASSUME NEW i \in 1..Len(text), NEW j \in 1..Len(text), IsWord(text, i, j),
             Start0 < j, j <= read
      PROVE  word # <<>> /\ i = Start0 + 1 /\ j = read
  <2>1. word # <<>>
    BY <1>0, <1>2
  <2>2. \A k \in (Start0 + 1)..read : isAlphaNum(text[k])
    BY <1>1, <2>1 DEF IsWord
  <2>3. j = read
    <3> SUFFICES ASSUME j < read PROVE FALSE
      BY <1>0, <1>2
    <3>1. j + 1 \in (Start0 + 1)..read /\ j < Len(text)
      BY <1>0, <1>2
    <3> QED BY <1>2, <2>2, <3>1 DEF IsWord
  <2>4. ~(i <= Start0)
    <3> SUFFICES ASSUME i <= Start0 PROVE FALSE
      OBVIOUS
    <3>1. Start0 \in i..j /\ Start0 > 0
      BY <1>0, <1>2
    <3> QED BY <1>2, <3>1 DEF IsWord, WordInv
  <2>5. ~(i > Start0 + 1)
    <3> SUFFICES ASSUME i > Start0 + 1 PROVE FALSE
      OBVIOUS
    <3>1. i - 1 \in (Start0 + 1)..read
      BY <1>0, <1>2, <2>3 DEF IsWord
    <3> QED BY <1>0, <1>2, <2>2, <3>1 DEF IsWord
  <2> QED BY <1>0, <2>1, <2>3, <2>4, <2>5
<1> QED BY <1>1, <1>2

\* No word ends at a byte that is not of one.
LEMMA NoWordEnds ==
  ASSUME NEW n \in 1..Len(text), ~isAlphaNum(text[n]), text \in Words
  PROVE  \A i, j \in 1..Len(text) : IsWord(text, i, j) => j # n
BY DEF IsWord, Words

LEMMA TokensStepInv == TokensInv /\ [TokensNext]_tokenVars => TokensInv'
<1> SUFFICES ASSUME TokensInv, [TokensNext]_tokenVars PROVE TokensInv'
  OBVIOUS
<1>0. /\ TokensType /\ text \in Seq(0..255) /\ Len(text) \in Nat /\ read \in Nat
      /\ \A k \in 1..Len(text) : text[k] \in 0..255
  <2>1. TokensType /\ text \in Seq(0..255)
    BY DEF TokensInv, TokensType, Words
  <2>2. Len(text) \in Nat /\ \A k \in 1..Len(text) : text[k] \in 0..255
    <3>1. PICK bytes : bytes = 0..255
      OBVIOUS
    <3>2. text \in Seq(bytes)
      BY <2>1, <3>1
    <3>3. Len(text) \in Nat /\ \A k \in 1..Len(text) : text[k] \in bytes
      BY <3>2
    <3> QED BY <3>1, <3>3
  <2>3. read \in Nat
    BY <2>1, <2>2 DEF TokensType
  <2> QED BY <2>1, <2>2, <2>3
<1>1. CASE ReadAlphaNum
  <2> DEFINE c == text[read + 1]
  <2>1. /\ running /\ read < Len(text) /\ isAlphaNum(c)
        /\ word' = Append(word, lower(c)) /\ read' = read + 1
        /\ UNCHANGED <<text, tokens, seen, running>>
    BY <1>1 DEF ReadAlphaNum
  <2>2. WordInv /\ ListInv /\ word \in Seq(0..255) /\ Len(word) \in Nat /\ lower(c) \in 0..255
    <3>1. WordInv /\ ListInv /\ word \in Seq(0..255)
      BY <2>1 DEF TokensInv, WordInv, Words
    <3>2. c \in 0..255
      BY <1>0, <2>1
    <3>3. lower(c) \in 0..255
      BY <3>2 DEF lower
    <3> QED BY <3>1, <3>3
  <2>3. /\ Len(word') = Len(word) + 1 /\ word'[Len(word) + 1] = lower(c)
        /\ \A k \in 1..Len(word) : word'[k] = word[k]
        /\ word' \in Words
    BY <2>1, <2>2 DEF Words
  <2>4. Start0' = Start0 /\ Start0 + (Len(word) + 1) = read + 1 /\ Start0 \in Nat
    BY <1>0, <2>1, <2>2, <2>3 DEF Start0, WordInv
  <2>5. \A k \in 1..Len(word') :
          isAlphaNum(text[Start0 + k]) /\ word'[k] = lower(text[Start0 + k])
    <3> TAKE k \in 1..Len(word')
    <3>1. CASE k \in 1..Len(word)
      BY <2>2, <2>3, <3>1 DEF WordInv
    <3>2. CASE k = Len(word) + 1
      BY <2>1, <2>3, <2>4, <3>2
    <3> QED BY <2>2, <2>3, <3>1, <3>2
  <2>6. WordInv'
    BY <1>0, <2>1, <2>2, <2>3, <2>4, <2>5 DEF WordInv
  <2>7. ListInv'
    BY <2>1, <2>2, <2>4 DEF ListInv, Listed
  <2>8. TokensType'
    BY <1>0, <2>1 DEF TokensType
  <2>9. TokensOnce' /\ (\A w \in Words : w \in seen <=> Listed(w))' /\ TokensAreWords'
    BY <2>1 DEF TokensInv, TokensOnce, Listed, TokensAreWords
  <2> QED BY <2>6, <2>7, <2>8, <2>9 DEF TokensInv
<1>2. CASE ReadSeparator
  <2>1. /\ running /\ read < Len(text) /\ ~isAlphaNum(text[read + 1])
        /\ word' = <<>> /\ read' = read + 1 /\ UNCHANGED <<text, running>>
    BY <1>2 DEF ReadSeparator
  <2>2. /\ WordInv /\ ListInv /\ word \in Words /\ tokens \in Seq(Words)
        /\ \A w \in Words : w \in seen <=> Listed(w)
    BY <2>1 DEF TokensInv, WordInv, ListInv
  <2>3. /\ word # <<>> =>
             /\ Start0 + 1 \in 1..Len(text) /\ read \in 1..Len(text)
             /\ IsWord(text, Start0 + 1, read) /\ word = WordAt(text, Start0 + 1, read)
        /\ \A i, j \in 1..Len(text) :
             IsWord(text, i, j) /\ Start0 < j /\ j <= read =>
               word # <<>> /\ word = WordAt(text, i, j)
    BY <1>0, <2>1, <2>2, WordEnds
  <2>4. Start0' = read + 1 /\ Len(word') = 0 /\ word' \in Words
    BY <1>0, <2>1 DEF Start0, Words
  <2>5. WordInv'
    BY <1>0, <2>1, <2>4 DEF WordInv
  <2>6. /\ tokens' \in Seq(Words)
        /\ \A v : Listed(v)' <=> Listed(v) \/ (v = word /\ word # <<>>)
        /\ TokensOnce'
        /\ \A w \in Words : w \in seen' <=> Listed(w)'
    <3>1. CASE word = <<>> \/ word \in seen
      <4>1. UNCHANGED <<tokens, seen>>
        BY <1>2, <3>1 DEF ReadSeparator
      <4> QED BY <2>2, <3>1, <4>1 DEF Listed, TokensInv, TokensOnce
    <3>2. CASE ~(word = <<>> \/ word \in seen)
      <4>1. tokens' = Append(tokens, word) /\ seen' = seen \union {word}
        BY <1>2, <3>2 DEF ReadSeparator
      <4>2. tokens' \in Seq(Words) /\ \A v : Listed(v)' <=> Listed(v) \/ v = word
        BY <2>2, <4>1, ListedMore
      <4>3. \A k \in DOMAIN tokens : tokens[k] # word
        BY <2>2, <3>2 DEF Listed
      <4>4. TokensOnce'
        BY <2>2, <4>1, <4>3 DEF TokensInv, TokensOnce
      <4> QED BY <2>2, <3>2, <4>1, <4>2, <4>4
    <3> QED BY <3>1, <3>2
  <2>7. ASSUME NEW i \in 1..Len(text), NEW j \in 1..Len(text), IsWord(text, i, j),
               j <= read + 1
        PROVE  Listed(WordAt(text, i, j))'
    <3>1. j # read + 1
      BY <1>0, <2>1, <2>7, NoWordEnds DEF Words
    <3>2. CASE j <= Start0
      <4>1. Listed(WordAt(text, i, j))
        BY <2>2, <2>7, <3>2 DEF ListInv
      <4>2. PICK v : v = WordAt(text, i, j)
        OBVIOUS
      <4>3. Listed(v)'
        BY <2>6, <4>1, <4>2
      <4>4. v = WordAt(text', i, j)
        BY <2>1, <4>2
      <4> QED BY <4>3, <4>4 DEF Listed
    <3>3. CASE Start0 < j /\ j <= read
      <4>1. word # <<>> /\ word = WordAt(text, i, j)
        BY <2>3, <2>7, <3>3
      <4>2. PICK v : v = word
        OBVIOUS
      <4>3. Listed(v)'
        BY <2>6, <4>1, <4>2
      <4>4. v = WordAt(text', i, j)
        BY <2>1, <4>1, <4>2
      <4> QED BY <4>3, <4>4 DEF Listed
    <3>4. Start0 \in Int /\ j \in Int
      BY <1>0, <2>2 DEF Start0, Words
    <3> QED BY <1>0, <2>7, <3>1, <3>2, <3>3, <3>4
  <2>8. \A k \in DOMAIN tokens' : \E i, j \in 1..Len(text) :
          IsWord(text, i, j) /\ tokens'[k] = WordAt(text, i, j)
    <3> TAKE k \in DOMAIN tokens'
    <3>1. PICK v : v = tokens'[k]
      OBVIOUS
    <3>2. Listed(v)'
      BY <3>1 DEF Listed
    <3>3. CASE Listed(v)
      BY <2>2, <3>1, <3>3 DEF Listed, ListInv
    <3>4. CASE v = word /\ word # <<>>
      BY <2>3, <3>1, <3>4
    <3> QED BY <2>6, <3>2, <3>3, <3>4
  <2>9. ListInv'
    BY <2>1, <2>4, <2>6, <2>7, <2>8 DEF ListInv
  <2>10. TokensType' /\ TokensAreWords'
    BY <1>0, <2>1 DEF TokensType, TokensAreWords
  <2> QED BY <2>1, <2>5, <2>6, <2>9, <2>10 DEF TokensInv
<1>3. CASE Finish
  <2>1. running /\ read = Len(text) /\ running' = FALSE /\ UNCHANGED <<text, read, word, seen>>
    BY <1>3 DEF Finish
  <2>2. /\ WordInv /\ ListInv /\ word \in Words /\ tokens \in Seq(Words)
        /\ \A w \in Words : w \in seen <=> Listed(w)
    BY <2>1 DEF TokensInv, WordInv, ListInv
  <2>3. /\ word # <<>> =>
             /\ Start0 + 1 \in 1..Len(text) /\ read \in 1..Len(text)
             /\ IsWord(text, Start0 + 1, read) /\ word = WordAt(text, Start0 + 1, read)
        /\ \A i, j \in 1..Len(text) :
             IsWord(text, i, j) /\ Start0 < j /\ j <= read =>
               word # <<>> /\ word = WordAt(text, i, j)
    BY <1>0, <2>1, <2>2, WordEnds
  <2>4. /\ tokens' \in Seq(Words)
        /\ \A v : Listed(v)' <=> Listed(v) \/ (v = word /\ word # <<>>)
        /\ TokensOnce'
    <3>1. CASE word = <<>> \/ word \in seen
      <4>1. UNCHANGED tokens
        BY <1>3, <3>1 DEF Finish
      <4> QED BY <2>2, <3>1, <4>1 DEF Listed, TokensInv, TokensOnce
    <3>2. CASE ~(word = <<>> \/ word \in seen)
      <4>1. tokens' = Append(tokens, word)
        BY <1>3, <3>2 DEF Finish
      <4>2. tokens' \in Seq(Words) /\ \A v : Listed(v)' <=> Listed(v) \/ v = word
        BY <2>2, <4>1, ListedMore
      <4>3. \A k \in DOMAIN tokens : tokens[k] # word
        BY <2>2, <3>2 DEF Listed
      <4>4. TokensOnce'
        BY <2>2, <4>1, <4>3 DEF TokensInv, TokensOnce
      <4> QED BY <3>2, <4>2, <4>4
    <3> QED BY <3>1, <3>2
  <2>5. ASSUME NEW i \in 1..Len(text), NEW j \in 1..Len(text), IsWord(text, i, j)
        PROVE  Listed(WordAt(text, i, j))'
    <3>1. PICK v : v = WordAt(text, i, j)
      OBVIOUS
    <3>2. Start0 \in Int /\ j \in Int /\ j <= read
      BY <1>0, <2>1, <2>2, <2>5 DEF Start0, Words
    <3>3. CASE j <= Start0
      <4>1. Listed(WordAt(text, i, j))
        BY <2>2, <2>5, <3>3 DEF ListInv
      <4>2. Listed(v)'
        BY <2>4, <3>1, <4>1
      <4>3. v = WordAt(text', i, j)
        BY <2>1, <3>1
      <4> QED BY <4>2, <4>3 DEF Listed
    <3>4. CASE Start0 < j
      <4>1. word # <<>> /\ word = WordAt(text, i, j)
        BY <2>3, <2>5, <3>2, <3>4
      <4>2. PICK u : u = word
        OBVIOUS
      <4>3. Listed(u)'
        BY <2>4, <4>1, <4>2
      <4>4. u = WordAt(text', i, j)
        BY <2>1, <4>1, <4>2
      <4> QED BY <4>3, <4>4 DEF Listed
    <3> QED BY <3>2, <3>3, <3>4
  <2>6. \A k \in DOMAIN tokens' : \E i, j \in 1..Len(text) :
          IsWord(text, i, j) /\ tokens'[k] = WordAt(text, i, j)
    <3> TAKE k \in DOMAIN tokens'
    <3>1. PICK v : v = tokens'[k]
      OBVIOUS
    <3>2. Listed(v)'
      BY <3>1 DEF Listed
    <3>3. CASE Listed(v)
      BY <2>2, <3>1, <3>3 DEF Listed, ListInv
    <3>4. CASE v = word /\ word # <<>>
      BY <2>3, <3>1, <3>4
    <3> QED BY <2>4, <3>2, <3>3, <3>4
  <2>7. TokensAreWords'
    BY <2>1, <2>5, <2>6 DEF TokensAreWords
  <2>8. TokensType'
    BY <1>0, <2>1 DEF TokensType
  <2> QED BY <2>1, <2>4, <2>7, <2>8 DEF TokensInv
<1>4. CASE UNCHANGED tokenVars
  BY <1>4 DEF tokenVars, TokensInv, TokensType, TokensOnce, WordInv, ListInv, TokensAreWords,
              Start0, Listed
<1> QED BY <1>1, <1>2, <1>3, <1>4 DEF TokensNext

\* For every text the tokenizer returns its words, and all of them
\* (create.go:132-159).
THEOREM TokensCorrect == TokensSpec => []TokensAreWords
<1>1. TokensInv => TokensAreWords
  BY DEF TokensInv
<1> QED BY <1>1, TokensInitInv, TokensStepInv, PTL DEF TokensSpec

\* It lists a word once, however often and in whatever letters the text repeats
\* it (create.go:143-157).
THEOREM TokensListedOnce == TokensSpec => []TokensOnce
<1>1. TokensInv => TokensOnce
  BY DEF TokensInv
<1> QED BY <1>1, TokensInitInv, TokensStepInv, PTL DEF TokensSpec

-----------------------------------------------------------------------------
(* The filter bar: what is under way carries one selection in every form *)

\* A selection survives its way from keys to labels and back.
LEMMA LabelsAndKeys ==
  ASSUME NEW v \in Selections
  PROVE  buildFilterSignals(ActiveFilters(v)) = v
<1>1. ASSUME NEW k \in BarKeys
      PROVE  ActiveFilters(v)[(CHOOSE f \in Range(Bar) : filterKey(f.prefix) = k).label] = v[k]
  <2>1. PICK f : f = CHOOSE g \in Range(Bar) : filterKey(g.prefix) = k
    OBVIOUS
  <2>2. f \in Range(Bar) /\ filterKey(f.prefix) = k
    <3>1. \E g \in Range(Bar) : filterKey(g.prefix) = k
      BY DEF BarKeys
    <3> QED BY <2>1, <3>1, Zenon
  <2>3. PICK g : g = CHOOSE h \in Range(Bar) : h.label = f.label
    OBVIOUS
  <2>4. g \in Range(Bar) /\ g.label = f.label
    BY <2>2, <2>3, Zenon
  <2>5. g = f
    BY <2>2, <2>4, BarAssumption
  <2>6. f.label \in Labels
    BY <2>2 DEF Labels
  <2>7. ActiveFilters(v)[f.label] = v[filterKey(g.prefix)]
    BY <2>3, <2>6, Zenon DEF ActiveFilters
  <2> QED BY <2>1, <2>2, <2>5, <2>7
<1>2. buildFilterSignals(ActiveFilters(v)) = [k \in BarKeys |-> v[k]]
  BY <1>1, Zenon DEF buildFilterSignals
<1>3. v = [k \in BarKeys |-> v[k]]
  BY DEF Selections
<1> QED BY <1>2, <1>3

\* An answer that carries selection v.
IsAnswer(r, v) ==
  /\ r.values = v /\ r.tags = ListTags(v) /\ r.declared = v

BarInv ==
  /\ selects \in Selections
  /\ \A r \in asked : \E v \in Selections : IsAnswer(r, v)

\* What a request is answered with carries the signals, or else the query.
LEMMA AnswersCarry ==
  ASSUME NEW what, NEW query \in Selections, NEW v \in Selections
  PROVE  /\ IsAnswer(handleQueue(what, [query |-> query]), query)
         /\ IsAnswer(handleQueue(what, [query |-> query, datastar |-> v]), v)
<1>1. readFilterValues([query |-> query]) = query
  BY DEF readFilterValues
<1>2. readFilterValues([query |-> query, datastar |-> v]) = v
  BY DEF readFilterValues
<1> QED BY <1>1, <1>2, LabelsAndKeys DEF IsAnswer, handleQueue

LEMMA BarStepInv == BarInv /\ [BarNext]_barVars => BarInv'
<1> SUFFICES ASSUME BarInv, [BarNext]_barVars PROVE BarInv'
  OBVIOUS
<1>0. NoQuery \in Selections
  BY DEF NoQuery, Selections
<1>1. ASSUME NEW query \in Selections, Visit(query) PROVE BarInv'
  BY <1>1, AnswersCarry DEF BarInv, Visit
<1>2. ASSUME NEW k \in BarKeys, NEW v \in Values \union {None}, Select(k, v) PROVE BarInv'
  <2>1. selects' = [selects EXCEPT ![k] = v]
        /\ asked' = asked \union {handleQueue("table", [query |-> NoQuery, datastar |-> selects'])}
    BY <1>2 DEF Select
  <2>2. selects' \in Selections
    BY <2>1 DEF BarInv, Selections
  <2>3. IsAnswer(handleQueue("table", [query |-> NoQuery, datastar |-> selects']), selects')
    BY <1>0, <2>2, AnswersCarry
  <2> QED BY <2>1, <2>2, <2>3 DEF BarInv
<1>3. ASSUME AskAgain PROVE BarInv'
  <2>1. IsAnswer(handleQueue("table", [query |-> NoQuery, datastar |-> selects]), selects)
    BY <1>0, AnswersCarry DEF BarInv
  <2> QED BY <1>3, <2>1 DEF BarInv, AskAgain
<1>4. ASSUME NEW r \in asked, Arrive(r) PROVE BarInv'
  <2>1. r.declared \in Selections
    BY DEF BarInv, IsAnswer
  <2> QED BY <1>4, <2>1 DEF BarInv, Arrive
<1>5. CASE UNCHANGED barVars
  BY <1>5 DEF BarInv, barVars
<1> QED BY <1>1, <1>2, <1>3, <1>4, <1>5 DEF BarNext

\* For every set of filters the table fits the selects when it answers what
\* is selected (queue.go:15-24, helpers.go:64-112).
THEOREM BarCorrect == BarSpec => TableFitsSelects
<1>1. BarInit => BarInv
  BY DEF BarInit, BarInv, NoQuery, Selections
<1>2. BarInv /\ [BarNext]_barVars =>
        [\A r \in asked :
           Arrive(r) /\ (r.what = "page" \/ r.values = selects) =>
             table' = ListTags(selects')]_barVars
  <2> SUFFICES ASSUME BarInv, NEW r \in asked, Arrive(r), r.what = "page" \/ r.values = selects
               PROVE  table' = ListTags(selects')
    OBVIOUS
  <2>1. PICK v \in Selections : IsAnswer(r, v)
    BY DEF BarInv
  <2>2. table' = ListTags(v)
    BY <2>1 DEF IsAnswer, Arrive
  <2>3. selects' = v
    BY <2>1 DEF IsAnswer, Arrive
  <2> QED BY <2>2, <2>3
<1> QED BY <1>1, <1>2, BarStepInv, PTL DEF BarSpec, TableFitsSelects

-----------------------------------------------------------------------------
(* The forms: every bound field's signal is its own *)

\* The value a field begins with.
Default(f) == IF BindsBox(f) THEN f.default = "true" ELSE f.default

FormsInv ==
  /\ content.fields = {} \/ \E p \in Payloads : content.fields = p.fields
  /\ \A f \in content.fields : IsBound(f) =>
       /\ f.name \in DOMAIN signals
       /\ signals[f.name] = IF f.name \in DOMAIN entered THEN entered[f.name] ELSE Default(f)

\* A form that is rendered declares each field with its default.
LEMMA Declared ==
  ASSUME NEW p \in Payloads, NEW f \in p.fields
  PROVE  f.name \in DOMAIN BuildSignals(p.fields) /\ BuildSignals(p.fields)[f.name] = Default(f)
<1>1. PICK g : g = CHOOSE h \in p.fields : h.name = f.name
  OBVIOUS
<1>2. g \in p.fields /\ g.name = f.name
  BY <1>1, Zenon
<1>3. g = f
  BY <1>2, NamesAssumption
<1>4. f.name \in {h.name : h \in p.fields}
  OBVIOUS
<1>5. BuildSignals(p.fields) =
        [k \in {h.name : h \in p.fields} |-> Default(CHOOSE h \in p.fields : h.name = k)]
  BY Zenon DEF BuildSignals, Default
<1>6. BuildSignals(p.fields)[f.name] = Default(CHOOSE h \in p.fields : h.name = f.name)
  BY <1>4, <1>5, Zenon
<1>7. BuildSignals(p.fields)[f.name] = Default(g)
  BY <1>1, <1>6, Zenon
<1> QED BY <1>3, <1>4, <1>7 DEF BuildSignals

LEMMA FormsStepInv == FormsInv /\ [FormsNext]_formVars => FormsInv'
<1> SUFFICES ASSUME FormsInv, [FormsNext]_formVars PROVE FormsInv'
  OBVIOUS
<1>1. ASSUME NEW p \in Payloads, NEW status, OpenDrawer(p, status) PROVE FormsInv'
  <2>1. content' = Render(p, status) /\ signals' = Payload(content'.fields) /\ entered' = <<>>
    BY <1>1 DEF OpenDrawer
  <2>2. content'.fields = {} \/ content'.fields = p.fields
    BY <2>1 DEF Render, NoContent
  <2>3. ASSUME NEW f \in content'.fields
        PROVE  f.name \in DOMAIN signals' /\ signals'[f.name] = Default(f)
    <3>1. content'.fields = p.fields
      BY <2>2, <2>3
    <3>2. f.name \in DOMAIN BuildSignals(p.fields) /\ BuildSignals(p.fields)[f.name] = Default(f)
      BY <2>3, <3>1, Declared
    <3> QED BY <2>1, <3>1, <3>2 DEF Payload
  <2>4. DOMAIN entered' = {}
    BY <2>1
  <2> QED BY <2>2, <2>3, <2>4 DEF FormsInv
<1>2. ASSUME NEW k, NEW v, Enter(k, v) PROVE FormsInv'
  <2>1. /\ signals' = [signals EXCEPT ![k] = v] /\ content' = content
        /\ entered' = [l \in DOMAIN entered \union {k} |-> IF l = k THEN v ELSE entered[l]]
    BY <1>2 DEF Enter
  <2>2. ASSUME NEW f \in content.fields, IsBound(f)
        PROVE  /\ f.name \in DOMAIN signals'
               /\ signals'[f.name] =
                    IF f.name \in DOMAIN entered' THEN entered'[f.name] ELSE Default(f)
    <3>1. /\ f.name \in DOMAIN signals
          /\ signals[f.name] = IF f.name \in DOMAIN entered THEN entered[f.name] ELSE Default(f)
      BY <2>2 DEF FormsInv
    <3>2. CASE f.name = k
      BY <2>1, <3>1, <3>2
    <3>3. CASE f.name # k
      BY <2>1, <3>1, <3>3
    <3> QED BY <3>2, <3>3
  <2> QED BY <2>1, <2>2 DEF FormsInv
<1>3. ASSUME Submit PROVE FormsInv'
  BY <1>3 DEF Submit, FormsInv
<1>4. CASE UNCHANGED formVars
  BY <1>4 DEF formVars, FormsInv
<1> QED BY <1>1, <1>2, <1>3, <1>4 DEF FormsNext, Tick, Fill

\* For all schemas whose fields have names of their own, Submit posts what
\* was entered in this form and nothing of another (helpers.go:26-37).
THEOREM FormsCorrect == FormsSpec => FormsStartFresh
<1>1. FormsInit => FormsInv
  BY DEF FormsInit, FormsInv, NoContent
<1>2. FormsInv /\ [FormsNext]_formVars =>
        [Submit =>
           \A f \in content.fields : IsBound(f) =>
             posted'[f.name] =
               IF f.name \in DOMAIN entered THEN entered[f.name]
               ELSE IF BindsBox(f) THEN f.default = "true" ELSE f.default]_formVars
  BY DEF FormsInv, Submit, Default
<1> QED BY <1>1, <1>2, FormsStepInv, PTL DEF FormsSpec, FormsStartFresh

=============================================================================
