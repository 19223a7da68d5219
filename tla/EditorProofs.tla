----------------------------- MODULE EditorProofs -----------------------------
(***************************************************************************)
(* Proofs about the editor (snake.c): the cursor stays in the document     *)
(* through every edit, undo and redo; a document not marked as changed is  *)
(* what its file holds; and the two stacks of snapshots implement a        *)
(* history of versions.                                                    *)
(* Parsing a file and joining the lines of a document are folds.           *)
(***************************************************************************)
EXTENDS Editor, FoldLemmas, SequenceTheorems, FiniteSetTheorems, FunctionTheorems,
        NaturalsInduction
-----------------------------------------------------------------------------
(* The editor: texts and documents.                                        *)

Symbol   == Char \cup {NL}
Document == {ls \in Seq(Seq(Char)) : ls # <<>>}

\* How a fold takes characters, the first ones before the last.
ParsedBy(g, base, seq) ==
  g = [s \in SUBSET DOMAIN seq |->
         IF s = {} THEN base ELSE Parsed(g[s \ {Max(s)}], seq[Max(s)])]

ParsedAll(base, seq) == FoldLeft(Parsed, base, seq)

\* The library's fold is the value of such a function.
LEMMA ParsedFold ==
  ASSUME NEW seq, NEW base, NEW it, ParsedBy(it, base, seq)
  PROVE  \E g : ParsedAll(base, seq) = g[DOMAIN seq] /\ ParsedBy(g, base, seq)
BY DEF FoldLeft, MapThenFoldSet, ParsedBy, ParsedAll

\* The values on the way, one for each character that is taken.
LEMMA ParsedTurns ==
  ASSUME NEW T, NEW base \in T, NEW S, NEW seq \in Seq(S),
         \A v \in T : \A i \in 1 .. Len(seq) : Parsed(v, seq[i]) \in T
  PROVE  \E f \in [0 .. Len(seq) -> T] :
           /\ f[0] = base
           /\ \A n \in 1 .. Len(seq) : f[n] = Parsed(f[n - 1], seq[n])
           /\ ParsedAll(base, seq) = f[Len(seq)]
<1> DEFINE N == Len(seq)
           step == [x \in T \X (1 .. N) |-> Parsed(x[1], seq[x[2]])]
<1>1. N \in Nat /\ DOMAIN seq = 1 .. N
  OBVIOUS
<1>2. step \in [T \X (1 .. N) -> T]
  OBVIOUS
<1> HIDE DEF N
<1>3. PICK it \in [SUBSET (1 .. N) -> T] : FoldsBy(it, N, base, step)
  <2> HIDE DEF step
  <2> QED
    BY <1>1, <1>2, FoldExists
<1>4. ParsedBy(it, base, seq)
  <2>1. ASSUME NEW s \in SUBSET (1 .. N), s # {}
        PROVE  step[<<it[s \ {Max(s)}], Max(s)>>] = Parsed(it[s \ {Max(s)}], seq[Max(s)])
    <3>1. Max(s) \in 1 .. N /\ s \ {Max(s)} \in SUBSET (1 .. N)
      BY <1>1, <2>1, LargestOf
    <3>2. <<it[s \ {Max(s)}], Max(s)>> \in T \X (1 .. N)
      BY <3>1
    <3> QED
      BY <3>2
  <2> HIDE DEF step
  <2> QED
    BY <1>1, <1>3, <2>1 DEF FoldsBy, ParsedBy
<1>5. PICK g : ParsedAll(base, seq) = g[DOMAIN seq] /\ ParsedBy(g, base, seq)
  BY <1>4, ParsedFold
<1> DEFINE f == [n \in 0 .. N |-> g[1 .. n]]
<1>6. f[0] = base
  BY <1>1, <1>5, FirstN DEF ParsedBy
<1>7. ASSUME NEW n \in 1 .. N PROVE f[n] = Parsed(f[n - 1], seq[n])
  <2>1. /\ 1 .. n \in SUBSET (1 .. N) /\ 1 .. n # {}
        /\ Max(1 .. n) = n /\ (1 .. n) \ {n} = 1 .. n - 1
    BY <1>1, FirstN
  <2>2. g[1 .. n] = Parsed(g[1 .. n - 1], seq[n])
    BY <1>1, <1>5, <2>1 DEF ParsedBy
  <2>3. f[n] = g[1 .. n] /\ f[n - 1] = g[1 .. n - 1]
    BY <1>1
  <2> QED
    BY <2>2, <2>3
<1>8. \A n \in 0 .. N : n \in {m \in 0 .. N : f[m] \in T}
  <2> DEFINE Good == {m \in 0 .. N : f[m] \in T}
  <2> HIDE DEF f
  <2>1. 0 \in Good
    BY <1>1, <1>6
  <2>2. ASSUME NEW n \in 0 .. N - 1, n \in Good PROVE n + 1 \in Good
    <3>1. n + 1 \in 1 .. N /\ (n + 1) - 1 = n /\ f[n] \in T
      BY <1>1, <2>2
    <3> QED
      BY <1>7, <3>1 DEF N
  <2> HIDE DEF Good
  <2>3. \A n \in 0 .. N : n \in Good
    BY <1>1, <2>1, <2>2, UpTo
  <2> QED
    BY <2>3 DEF Good
<1>9. f \in [0 .. N -> T]
  BY <1>8
<1>10. ParsedAll(base, seq) = f[N]
  <2>1. f[N] = g[1 .. N]
    BY <1>1
  <2> QED
    BY <1>1, <1>5, <2>1
<1> HIDE DEF f
<1> QED
  BY <1>6, <1>7, <1>9, <1>10 DEF N

\* One more character leaves a document a document.
LEMMA ParsedType ==
  ASSUME NEW ls \in Document, NEW c \in Symbol
  PROVE  Parsed(ls, c) \in Document
<1>1. ls \in Seq(Seq(Char)) /\ Len(ls) \in Nat \ {0} /\ Len(ls) \in 1 .. Len(ls)
  BY EmptySeq DEF Document
<1>2. CASE c = NL
  <2>1. <<>> \in Seq(Char)
    OBVIOUS
  <2>2. Append(ls, <<>>) \in Seq(Seq(Char)) /\ Append(ls, <<>>) # <<>>
    BY <1>1, <2>1, AppendProperties
  <2> QED
    BY <1>2, <2>2 DEF Parsed, Document
<1>3. CASE c # NL
  <2>1. c \in Char /\ ls[Len(ls)] \in Seq(Char)
    BY <1>1, <1>3 DEF Symbol
  <2>2. Append(ls[Len(ls)], c) \in Seq(Char)
    BY <2>1
  <2> DEFINE new == [ls EXCEPT ![Len(ls)] = Append(@, c)]
  <2>3. new = [ls EXCEPT ![Len(ls)] = Append(ls[Len(ls)], c)]
    OBVIOUS
  <2>4. new \in Seq(Seq(Char)) /\ Len(new) = Len(ls)
    BY <1>1, <2>2, <2>3, ExceptSeq
  <2>5. new # <<>>
    BY <1>1, <2>4
  <2> QED
    BY <1>3, <2>4, <2>5 DEF Parsed, Document
<1> QED
  BY <1>2, <1>3

\* The newline at the end is a text of its own.
LEMMA BodyIs ==
  ASSUME NEW text \in Seq(Symbol)
  PROVE  /\ Body(text) \in Seq(Symbol)
         /\ text = Body(text) \o (IF EndsWithNewline(text) THEN <<NL>> ELSE <<>>)
<1>1. CASE EndsWithNewline(text)
  <2>1. Len(text) \in Nat \ {0} /\ text[Len(text)] = NL /\ Body(text) = SubSeq(text, 1, Len(text) - 1)
    BY <1>1, EmptySeq DEF EndsWithNewline, Last, Body, Front
  <2>2. SubSeq(text, 1, Len(text)) = SubSeq(text, 1, Len(text) - 1) \o <<text[Len(text)]>>
    <3>1. 1 \in 1 .. Len(text) /\ Len(text) \in 1 .. Len(text)
      BY <2>1
    <3> QED
      BY <3>1, SubSeqRecursiveSecond
  <2>3. SubSeq(text, 1, Len(text)) = text
    BY SubSeqFull
  <2>4. Body(text) \in Seq(Symbol)
    BY <2>1, SubSeqProperties
  <2> QED
    BY <1>1, <2>1, <2>2, <2>3, <2>4
<1>2. CASE ~EndsWithNewline(text)
  BY <1>2, ConcatEmptySeq DEF Body
<1> QED
  BY <1>1, <1>2

\* Parsing as turns: the documents after each character, the last of which is the result.
LEMMA ParseTurns ==
  ASSUME NEW text \in Seq(Symbol)
  PROVE  \E f \in [0 .. Len(Body(text)) -> Document] :
           /\ f[0] = << <<>> >>
           /\ \A n \in 1 .. Len(Body(text)) : f[n] = Parsed(f[n - 1], Body(text)[n])
           /\ editor_parse_buffer(text) = f[Len(Body(text))]
<1>1. Body(text) \in Seq(Symbol)
  BY BodyIs
<1>2. << <<>> >> \in Document
  <2>1. <<>> \in Seq(Char)
    OBVIOUS
  <2> QED
    BY <2>1 DEF Document
<1>3. \A v \in Document : \A i \in 1 .. Len(Body(text)) : Parsed(v, Body(text)[i]) \in Document
  BY <1>1, ParsedType
<1> DEFINE t == Body(text)
           base == << <<>> >>
<1>4. editor_parse_buffer(text) = ParsedAll(base, t)
  BY DEF editor_parse_buffer, ParsedAll
<1>5. t \in Seq(Symbol) /\ base \in Document
      /\ \A v \in Document : \A i \in 1 .. Len(t) : Parsed(v, t[i]) \in Document
  BY <1>1, <1>2, <1>3
<1> HIDE DEF t, base
<1>6. \E f \in [0 .. Len(t) -> Document] :
        /\ f[0] = base
        /\ \A n \in 1 .. Len(t) : f[n] = Parsed(f[n - 1], t[n])
        /\ ParsedAll(base, t) = f[Len(t)]
  BY <1>5, ParsedTurns, SMTT(60)
<1> QED
  BY <1>4, <1>6 DEF t, base

\* How the fold takes the lines that follow the first.
JoiningBy(g, base, seq) ==
  g = [s \in SUBSET DOMAIN seq |->
         IF s = {} THEN base ELSE Joining(g[s \ {Max(s)}], seq[Max(s)])]

JoiningAll(base, seq) == FoldLeft(Joining, base, seq)

\* The library's fold is the value of such a function.
LEMMA JoiningFold ==
  ASSUME NEW seq, NEW base, NEW it, JoiningBy(it, base, seq)
  PROVE  \E g : JoiningAll(base, seq) = g[DOMAIN seq] /\ JoiningBy(g, base, seq)
BY DEF FoldLeft, MapThenFoldSet, JoiningBy, JoiningAll

\* Its values on the way, one for each line.
LEMMA JoiningTurns ==
  ASSUME NEW T, NEW base \in T, NEW S, NEW seq \in Seq(S),
         \A v \in T : \A i \in 1 .. Len(seq) : Joining(v, seq[i]) \in T
  PROVE  \E f \in [0 .. Len(seq) -> T] :
           /\ f[0] = base
           /\ \A n \in 1 .. Len(seq) : f[n] = Joining(f[n - 1], seq[n])
           /\ JoiningAll(base, seq) = f[Len(seq)]
<1> DEFINE N == Len(seq)
           step == [x \in T \X (1 .. N) |-> Joining(x[1], seq[x[2]])]
<1>1. N \in Nat /\ DOMAIN seq = 1 .. N
  OBVIOUS
<1>2. step \in [T \X (1 .. N) -> T]
  OBVIOUS
<1> HIDE DEF N
<1>3. PICK it \in [SUBSET (1 .. N) -> T] : FoldsBy(it, N, base, step)
  <2> HIDE DEF step
  <2> QED
    BY <1>1, <1>2, FoldExists
<1>4. JoiningBy(it, base, seq)
  <2>1. ASSUME NEW s \in SUBSET (1 .. N), s # {}
        PROVE  step[<<it[s \ {Max(s)}], Max(s)>>] = Joining(it[s \ {Max(s)}], seq[Max(s)])
    <3>1. Max(s) \in 1 .. N /\ s \ {Max(s)} \in SUBSET (1 .. N)
      BY <1>1, <2>1, LargestOf
    <3>2. <<it[s \ {Max(s)}], Max(s)>> \in T \X (1 .. N)
      BY <3>1
    <3> QED
      BY <3>2
  <2> HIDE DEF step
  <2> QED
    BY <1>1, <1>3, <2>1 DEF FoldsBy, JoiningBy
<1>5. PICK g : JoiningAll(base, seq) = g[DOMAIN seq] /\ JoiningBy(g, base, seq)
  BY <1>4, JoiningFold
<1> DEFINE f == [n \in 0 .. N |-> g[1 .. n]]
<1>6. f[0] = base
  BY <1>1, <1>5, FirstN DEF JoiningBy
<1>7. ASSUME NEW n \in 1 .. N PROVE f[n] = Joining(f[n - 1], seq[n])
  <2>1. /\ 1 .. n \in SUBSET (1 .. N) /\ 1 .. n # {}
        /\ Max(1 .. n) = n /\ (1 .. n) \ {n} = 1 .. n - 1
    BY <1>1, FirstN
  <2>2. g[1 .. n] = Joining(g[1 .. n - 1], seq[n])
    BY <1>1, <1>5, <2>1 DEF JoiningBy
  <2>3. f[n] = g[1 .. n] /\ f[n - 1] = g[1 .. n - 1]
    BY <1>1
  <2> QED
    BY <2>2, <2>3
<1>8. \A n \in 0 .. N : n \in {m \in 0 .. N : f[m] \in T}
  <2> DEFINE Good == {m \in 0 .. N : f[m] \in T}
  <2> HIDE DEF f
  <2>1. 0 \in Good
    BY <1>1, <1>6
  <2>2. ASSUME NEW n \in 0 .. N - 1, n \in Good PROVE n + 1 \in Good
    <3>1. n + 1 \in 1 .. N /\ (n + 1) - 1 = n /\ f[n] \in T
      BY <1>1, <2>2
    <3> QED
      BY <1>7, <3>1 DEF N
  <2> HIDE DEF Good
  <2>3. \A n \in 0 .. N : n \in Good
    BY <1>1, <2>1, <2>2, UpTo
  <2> QED
    BY <2>3 DEF Good
<1>9. f \in [0 .. N -> T]
  BY <1>8
<1>10. JoiningAll(base, seq) = f[N]
  <2>1. f[N] = g[1 .. N]
    BY <1>1
  <2> QED
    BY <1>1, <1>5, <2>1
<1> HIDE DEF f
<1> QED
  BY <1>6, <1>7, <1>9, <1>10 DEF N

\* The text of a document, by the texts of its first lines.
TextOf(ls, f) ==
  /\ f \in [0 .. Len(ls) - 1 -> Seq(Symbol)]
  /\ f[0] = ls[1]
  /\ \A n \in 1 .. Len(ls) - 1 : f[n] = f[n - 1] \o <<NL>> \o ls[n + 1]

\* Saving as turns: the text after each line, and then the newline at the end.
LEMMA TextTurns ==
  ASSUME NEW ls \in Document
  PROVE  \E f : /\ TextOf(ls, f)
                /\ Text(ls, FALSE) = f[Len(ls) - 1]
                /\ Text(ls, TRUE) = Text(ls, FALSE) \o <<NL>>
<1>1. /\ ls \in Seq(Seq(Char)) /\ Len(ls) \in Nat \ {0} /\ Head(ls) = ls[1]
      /\ Tail(ls) \in Seq(Seq(Char)) /\ Len(Tail(ls)) = Len(ls) - 1
      /\ \A n \in 1 .. Len(ls) - 1 : Tail(ls)[n] = ls[n + 1]
      /\ ls[1] \in Seq(Char)
  BY EmptySeq, HeadTailProperties DEF Document
<1>2. \A l \in Seq(Char) : l \in Seq(Symbol)
  BY SeqMonotonic DEF Symbol
<1>3. \A t \in Seq(Symbol) : \A l \in Seq(Char) : Joining(t, l) \in Seq(Symbol)
  <2> SUFFICES ASSUME NEW t \in Seq(Symbol), NEW l \in Seq(Char) PROVE Joining(t, l) \in Seq(Symbol)
    OBVIOUS
  <2>1. <<NL>> \in Seq(Symbol) /\ l \in Seq(Symbol)
    BY <1>2 DEF Symbol
  <2>2. t \o <<NL>> \in Seq(Symbol)
    BY <2>1, ConcatProperties
  <2> QED
    BY <2>1, <2>2, ConcatProperties DEF Joining
<1> DEFINE q == Tail(ls)
           h == Head(ls)
           T == Seq(Symbol)
           S == Seq(Char)
<1>4. /\ q \in Seq(S) /\ h \in T /\ Len(q) = Len(ls) - 1
      /\ \A v \in T : \A i \in 1 .. Len(q) : Joining(v, q[i]) \in T
  <2>1. q \in Seq(S) /\ Len(q) = Len(ls) - 1
    BY <1>1
  <2>2. h \in T
    BY <1>1, <1>2
  <2>3. ASSUME NEW v \in T, NEW i \in 1 .. Len(q) PROVE Joining(v, q[i]) \in T
    <3>1. q[i] \in S
      <4> HIDE DEF q, S
      <4> QED
        BY <2>1
    <3> HIDE DEF q
    <3> QED
      BY <1>3, <3>1
  <2> QED
    BY <2>1, <2>2, <2>3
<1>5. \A b : Text(ls, b) = JoiningAll(h, q) \o (IF b THEN <<NL>> ELSE <<>>)
  BY DEF Text, JoiningAll
<1> HIDE DEF q, h, T, S
<1>6. PICK f \in [0 .. Len(q) -> T] :
        /\ f[0] = h
        /\ \A n \in 1 .. Len(q) : f[n] = Joining(f[n - 1], q[n])
        /\ JoiningAll(h, q) = f[Len(q)]
  BY <1>4, JoiningTurns, SMTT(60)
<1>7. TextOf(ls, f)
  BY <1>1, <1>4, <1>6 DEF TextOf, Joining, q, h, T
<1>8. f[Len(ls) - 1] \in Seq(Symbol) /\ JoiningAll(h, q) = f[Len(ls) - 1]
  <2>1. Len(ls) - 1 \in 0 .. Len(q)
    BY <1>1, <1>4
  <2>2. f[Len(ls) - 1] \in T
    BY <1>6, <2>1
  <2> QED
    BY <1>4, <1>6, <2>2 DEF T
<1>9. Text(ls, FALSE) = f[Len(ls) - 1] /\ Text(ls, TRUE) = f[Len(ls) - 1] \o <<NL>>
  BY <1>5, <1>8, ConcatEmptySeq
<1> QED
  BY <1>7, <1>9

\* Documents that begin alike have the same texts so far.
LEMMA TextAgrees ==
  ASSUME NEW ls \in Document, NEW ms \in Document, NEW f, NEW g, TextOf(ls, f), TextOf(ms, g),
         NEW k \in Nat \ {0}, k <= Len(ls), k <= Len(ms), \A i \in 1 .. k : ls[i] = ms[i]
  PROVE  f[k - 1] = g[k - 1]
<1> DEFINE S == {n \in 0 .. k - 1 : f[n] = g[n]}
<1>1. Len(ls) \in Nat /\ Len(ms) \in Nat
  BY DEF Document
<1>2. 0 \in S
  BY DEF TextOf
<1>3. ASSUME NEW n \in 0 .. (k - 1) - 1, n \in S PROVE n + 1 \in S
  <2>1. /\ n + 1 \in 1 .. Len(ls) - 1 /\ n + 1 \in 1 .. Len(ms) - 1 /\ n + 1 \in 0 .. k - 1
        /\ (n + 1) - 1 = n /\ (n + 1) + 1 \in 1 .. k /\ f[n] = g[n]
    BY <1>1, <1>3
  <2> DEFINE i == n + 1
  <2>2. f[i] = f[i - 1] \o <<NL>> \o ls[i + 1] /\ g[i] = g[i - 1] \o <<NL>> \o ms[i + 1]
    BY <2>1 DEF TextOf
  <2>3. f[i] = g[i]
    BY <2>1, <2>2
  <2> QED
    BY <2>1, <2>3
<1>4. k - 1 \in Nat /\ k - 1 \in 0 .. k - 1
  OBVIOUS
<1>5. \A n \in 0 .. k - 1 : n \in S
  <2> HIDE DEF S
  <2> QED
    BY <1>2, <1>3, <1>4, UpTo
<1> QED
  BY <1>4, <1>5

\* A text of three parts, read either way.
LEMMA Grouped ==
  \A p, q, r \in Seq(Symbol) : p \o (q \o r) = (p \o q) \o r
BY ConcatAssociative

\* A line more, and a character more at the end of the last line.
LEMMA TextGrows ==
  ASSUME NEW ls \in Document
  PROVE  /\ Text(ls, FALSE) \in Seq(Symbol)
         /\ Text(Append(ls, <<>>), FALSE) = Append(Text(ls, FALSE), NL)
         /\ \A c \in Char : Text([ls EXCEPT ![Len(ls)] = Append(@, c)], FALSE)
                              = Append(Text(ls, FALSE), c)
<1>1. PICK f : TextOf(ls, f) /\ Text(ls, FALSE) = f[Len(ls) - 1]
  BY TextTurns
<1>2. /\ ls \in Seq(Seq(Char)) /\ Len(ls) \in Nat \ {0} /\ Len(ls) - 1 \in 0 .. Len(ls) - 1
      /\ <<>> \in Seq(Char) /\ <<>> \in Seq(Symbol) /\ Len(ls) \in 1 .. Len(ls)
  BY EmptySeq DEF Document
<1>3. f[Len(ls) - 1] \in Seq(Symbol)
  BY <1>1, <1>2 DEF TextOf
<1>4. Text(Append(ls, <<>>), FALSE) = Append(Text(ls, FALSE), NL)
  <2> DEFINE ms == Append(ls, <<>>)
             k == Len(ls)
  <2>1. /\ ms \in Document /\ Len(ms) = k + 1 /\ ms[k + 1] = <<>>
        /\ \A i \in 1 .. k : ls[i] = ms[i]
    <3>1. ms \in Seq(Seq(Char)) /\ ms # <<>>
      BY <1>2, AppendProperties
    <3> QED
      BY <1>2, <3>1 DEF Document
  <2> HIDE DEF ms, k
  <2>2. PICK g : TextOf(ms, g) /\ Text(ms, FALSE) = g[Len(ms) - 1]
    BY <2>1, TextTurns
  <2>3. k \in Nat \ {0} /\ k = Len(ls) /\ k <= Len(ms)
    BY <1>2, <2>1 DEF k
  <2>4. f[k - 1] = g[k - 1]
    BY <1>1, <2>1, <2>2, <2>3, TextAgrees
  <2>5. g[k] = g[k - 1] \o <<NL>> \o <<>>
    <3>1. k \in 1 .. Len(ms) - 1
      BY <2>1, <2>3
    <3> QED
      BY <2>1, <2>2, <3>1 DEF TextOf
  <2>6. g[k - 1] \in Seq(Symbol) /\ NL \in Symbol
    BY <1>3, <2>3, <2>4 DEF Symbol
  <2>7. g[k - 1] \o <<NL>> \in Seq(Symbol)
    BY <2>6
  <2>8. g[k] = g[k - 1] \o <<NL>>
    BY <2>5, <2>7, ConcatEmptySeq
  <2>9. Len(ms) - 1 = k
    BY <2>1, <2>3
  <2>10. Text(ms, FALSE) = Append(g[k - 1], NL)
    BY <2>2, <2>6, <2>8, <2>9, AppendIsConcat
  <2> QED
    BY <1>1, <2>3, <2>4, <2>10 DEF ms
<1>5. ASSUME NEW c \in Char
      PROVE  Text([ls EXCEPT ![Len(ls)] = Append(@, c)], FALSE) = Append(Text(ls, FALSE), c)
  <2> DEFINE k == Len(ls)
             l == Append(ls[k], c)
             ms == [ls EXCEPT ![k] = l]
  <2>1. /\ ls[k] \in Seq(Char) /\ l \in Seq(Char)
        /\ ms \in Seq(Seq(Char)) /\ Len(ms) = k /\ ms[k] = l
        /\ \A i \in 1 .. k - 1 : ls[i] = ms[i]
    <3>1. ls[k] \in Seq(Char)
      BY <1>2
    <3>2. l \in Seq(Char)
      BY <3>1
    <3> HIDE DEF l
    <3> QED
      BY <1>2, <3>1, <3>2, ExceptSeq
  <2>2. ms \in Document
    BY <1>2, <2>1 DEF Document
  <2> HIDE DEF ms
  <2>3. PICK g : TextOf(ms, g) /\ Text(ms, FALSE) = g[k - 1]
    BY <2>1, <2>2, TextTurns
  <2>4. Text(ms, FALSE) = Append(Text(ls, FALSE), c)
    <3>1. CASE k = 1
      BY <1>1, <2>1, <2>3, <3>1 DEF TextOf
    <3>2. CASE k # 1
      <4> DEFINE j == k - 1
      <4>1. /\ j \in Nat \ {0} /\ j <= Len(ls) /\ j <= Len(ms) /\ j \in 1 .. Len(ls) - 1
            /\ j \in 1 .. Len(ms) - 1 /\ j + 1 = k /\ j - 1 \in 0 .. Len(ls) - 1
        BY <1>2, <2>1, <3>2
      <4>2. f[j - 1] = g[j - 1]
        <5>1. \A i \in 1 .. j : ls[i] = ms[i]
          BY <2>1
        <5> HIDE DEF j, l
        <5> QED
          BY <1>1, <2>2, <2>3, <4>1, <5>1, TextAgrees
      <4>3. f[j] = f[j - 1] \o <<NL>> \o ls[k] /\ g[j] = g[j - 1] \o <<NL>> \o l
        <5> HIDE DEF j, l
        <5> QED
          BY <1>1, <2>1, <2>3, <4>1 DEF TextOf
      <4>4. f[j - 1] \in Seq(Symbol)
        BY <1>1, <4>1 DEF TextOf
      <4>5. f[j - 1] \o <<NL>> \in Seq(Symbol) /\ ls[k] \in Seq(Symbol) /\ <<c>> \in Seq(Symbol)
            /\ c \in Symbol
        BY <2>1, <4>4, SeqMonotonic DEF Symbol
      <4>6. l = ls[k] \o <<c>>
        BY <2>1, AppendIsConcat
      <4>7. (f[j - 1] \o <<NL>>) \o (ls[k] \o <<c>>) = ((f[j - 1] \o <<NL>>) \o ls[k]) \o <<c>>
        <5> DEFINE p == f[j - 1] \o <<NL>>
                   q == ls[k]
                   r == <<c>>
        <5>1. p \in Seq(Symbol) /\ q \in Seq(Symbol) /\ r \in Seq(Symbol)
          BY <4>5
        <5> HIDE DEF p, q, r
        <5>2. p \o (q \o r) = (p \o q) \o r
          BY <5>1, Grouped, Zenon
        <5> QED
          BY <5>2 DEF p, q, r
      <4>8. (f[j - 1] \o <<NL>>) \o ls[k] \in Seq(Symbol)
        BY <4>5, ConcatProperties
      <4>9. g[j] = Append(f[j], c)
        BY <4>2, <4>3, <4>5, <4>6, <4>7, <4>8, AppendIsConcat
      <4> QED
        BY <1>1, <2>3, <4>9
    <3> QED
      BY <3>1, <3>2
  <2>5. ms = [ls EXCEPT ![Len(ls)] = Append(@, c)]
    BY DEF ms
  <2> QED
    BY <2>4, <2>5
<1> QED
  BY <1>1, <1>3, <1>4, <1>5

\* What is loaded is saved back as it was (snake.c:583-675, 743-772).
LEMMA LoadAndSave ==
  ASSUME NEW text \in Seq(Symbol)
  PROVE  /\ editor_parse_buffer(text) \in Document
         /\ Text(editor_parse_buffer(text), EndsWithNewline(text)) = text
<1> DEFINE t == Body(text)
<1>1. PICK f \in [0 .. Len(t) -> Document] :
        /\ f[0] = << <<>> >>
        /\ \A n \in 1 .. Len(t) : f[n] = Parsed(f[n - 1], t[n])
        /\ editor_parse_buffer(text) = f[Len(t)]
  BY ParseTurns
<1>2. t \in Seq(Symbol) /\ Len(t) \in Nat /\ text = t \o (IF EndsWithNewline(text) THEN <<NL>> ELSE <<>>)
  BY BodyIs
<1> HIDE DEF t
<1> DEFINE S == {n \in 0 .. Len(t) : Text(f[n], FALSE) = SubSeq(t, 1, n)}
<1>3. 0 \in S
  <2>1. << <<>> >> \in Document /\ Len(<< <<>> >>) - 1 = 0 /\ (<< <<>> >>)[1] = <<>>
    BY <1>1, <1>2
  <2>2. Text(<< <<>> >>, FALSE) = <<>>
    BY <2>1, TextTurns DEF TextOf
  <2>3. SubSeq(t, 1, 0) = <<>>
    BY SubSeqEmpty
  <2> QED
    BY <1>1, <1>2, <2>2, <2>3
<1>4. ASSUME NEW n \in 0 .. Len(t) - 1, n \in S PROVE n + 1 \in S
  <2> DEFINE i == n + 1
  <2>1. /\ i \in 1 .. Len(t) /\ i \in 0 .. Len(t) /\ i - 1 = n /\ n \in 0 .. Len(t)
        /\ Text(f[n], FALSE) = SubSeq(t, 1, n) /\ t[i] \in Symbol /\ f[n] \in Document
    <3>1. i \in 1 .. Len(t) /\ i \in 0 .. Len(t) /\ i - 1 = n /\ n \in 0 .. Len(t)
      BY <1>2
    <3>2. Text(f[n], FALSE) = SubSeq(t, 1, n)
      BY <1>4
    <3> HIDE DEF i
    <3>3. t[i] \in Symbol
      BY <1>2, <3>1
    <3>4. f[n] \in Document
      BY <1>1, <3>1
    <3> QED
      BY <3>1, <3>2, <3>3, <3>4
  <2> HIDE DEF i
  <2>2. f[i] = Parsed(f[n], t[i])
    BY <1>1, <2>1
  <2>3. Text(f[i], FALSE) = Append(SubSeq(t, 1, n), t[i])
    <3>1. CASE t[i] = NL
      BY <2>1, <2>2, <3>1, TextGrows DEF Parsed
    <3>2. CASE t[i] # NL
      BY <2>1, <2>2, <3>2, TextGrows DEF Parsed, Symbol
    <3> QED
      BY <3>1, <3>2
  <2>4. SubSeq(t, 1, i) = SubSeq(t, 1, n) \o <<t[i]>>
    <3>1. 1 \in 1 .. Len(t) /\ i \in 1 .. Len(t) /\ t \in Seq(Symbol)
      BY <1>2, <2>1
    <3> QED
      BY <2>1, <3>1, SubSeqRecursiveSecond
  <2>5. SubSeq(t, 1, n) \in Seq(Symbol)
    BY <1>2, <2>1, SubSeqProperties
  <2>6. Text(f[i], FALSE) = SubSeq(t, 1, i)
    BY <2>1, <2>3, <2>4, <2>5, AppendIsConcat
  <2> QED
    BY <2>1, <2>6 DEF i
<1>5. \A n \in 0 .. Len(t) : n \in S
  <2> HIDE DEF S
  <2> QED
    BY <1>2, <1>3, <1>4, UpTo
<1>6. f[Len(t)] \in Document /\ Text(f[Len(t)], FALSE) = t
  <2>1. Len(t) \in 0 .. Len(t)
    BY <1>2
  <2> QED
    BY <1>2, <1>5, <2>1, SubSeqFull
<1>7. Text(f[Len(t)], TRUE) = t \o <<NL>> /\ t \o <<>> = t
  BY <1>2, <1>6, TextTurns, ConcatEmptySeq
<1> QED
  BY <1>1, <1>2, <1>6, <1>7 DEF EndsWithNewline
-----------------------------------------------------------------------------
(* The editor: the cursor is in the document.                              *)

\* A document and a place in it.
State == {s \in [lines : Seq(Seq(Char)), x : Nat, y : Nat] : CursorIn(s.lines, s.x, s.y)}

\* The same as CursorInDocument, a snapshot's place together with its lines.
InDocument ==
  /\ file \in Seq(Symbol) /\ Snapshot \in State
  /\ undo_stack \in Seq(State) /\ redo_stack \in Seq(State)
  /\ editing \in BOOLEAN /\ named \in BOOLEAN /\ modified \in BOOLEAN
  /\ file_ends_with_newline \in BOOLEAN /\ warned \in BOOLEAN

\* A stack of snapshots, and one whose places are in their documents.
LEMMA StacksOfStates ==
  ASSUME NEW stack
  PROVE  stack \in Seq(State)
           <=> /\ stack \in Seq([lines : Seq(Seq(Char)), x : Nat, y : Nat])
               /\ \A s \in Range(stack) : CursorIn(s.lines, s.x, s.y)
<1> DEFINE S == [lines : Seq(Seq(Char)), x : Nat, y : Nat]
<1>1. State \subseteq S /\ \A s \in S : s \in State <=> CursorIn(s.lines, s.x, s.y)
  BY DEF State
<1>2. \A s \in State : CursorIn(s.lines, s.x, s.y)
  BY DEF State
<1> HIDE DEF S
<1>3. ASSUME stack \in Seq(State)
      PROVE  stack \in Seq(S) /\ \A s \in Range(stack) : CursorIn(s.lines, s.x, s.y)
  <2>1. stack \in Seq(S)
    BY <1>1, <1>3, SeqMonotonic
  <2>2. \A s \in Range(stack) : s \in State
    BY <1>3, RangeOfSeq
  <2> QED
    BY <1>2, <2>1, <2>2
<1>4. ASSUME stack \in Seq(S), \A s \in Range(stack) : CursorIn(s.lines, s.x, s.y)
      PROVE  stack \in Seq(State)
  <2>1. Range(stack) \subseteq S /\ stack \in Seq(Range(stack))
    BY <1>4, RangeOfSeq, SeqOfRange
  <2>2. Range(stack) \subseteq State
    BY <1>1, <1>4, <2>1
  <2> QED
    BY <2>1, <2>2, SeqMonotonic
<1> QED
  BY <1>3, <1>4 DEF S

\* CursorInDocument says of the document and its snapshots what InDocument says.
LEMMA InDocumentIs == CursorInDocument <=> InDocument
<1>1. Snapshot \in State <=> lines \in Seq(Seq(Char)) /\ CursorIn(lines, cursor_x, cursor_y)
  <2>1. ASSUME lines \in Seq(Seq(Char)), CursorIn(lines, cursor_x, cursor_y)
        PROVE  Snapshot \in State
    <3>1. Len(lines) \in Nat /\ cursor_y \in 0 .. Len(lines) - 1
      BY <2>1 DEF CursorIn
    <3>2. cursor_y \in Nat /\ lines[cursor_y + 1] \in Seq(Char)
      <4>1. cursor_y + 1 \in 1 .. Len(lines)
        BY <3>1
      <4> QED
        BY <2>1, <3>1, <4>1
    <3>3. cursor_x \in Nat
      BY <2>1, <3>2 DEF CursorIn
    <3> QED
      BY <2>1, <3>2, <3>3 DEF Snapshot, State
  <2>2. ASSUME Snapshot \in State
        PROVE  lines \in Seq(Seq(Char)) /\ CursorIn(lines, cursor_x, cursor_y)
    BY <2>2 DEF Snapshot, State
  <2> QED
    BY <2>1, <2>2
<1>2. \A r, s : (\A e \in r \cup s : CursorIn(e.lines, e.x, e.y))
                  <=> /\ \A e \in r : CursorIn(e.lines, e.x, e.y)
                      /\ \A e \in s : CursorIn(e.lines, e.x, e.y)
  OBVIOUS
<1> QED
  BY <1>1, <1>2, StacksOfStates DEF CursorInDocument, InDocument, Symbol

\* The pieces of a place in a document.
LEMMA PlaceIs ==
  ASSUME NEW ls, NEW x, NEW y
  PROVE  [lines |-> ls, x |-> x, y |-> y] \in State
           <=> /\ ls \in Seq(Seq(Char)) /\ Len(ls) \in Nat /\ y \in 0 .. Len(ls) - 1
               /\ ls[y + 1] \in Seq(Char) /\ x \in 0 .. Len(ls[y + 1])
<1> DEFINE s == [lines |-> ls, x |-> x, y |-> y]
<1>1. ASSUME s \in State
      PROVE  /\ ls \in Seq(Seq(Char)) /\ Len(ls) \in Nat /\ y \in 0 .. Len(ls) - 1
             /\ ls[y + 1] \in Seq(Char) /\ x \in 0 .. Len(ls[y + 1])
  <2>1. ls \in Seq(Seq(Char)) /\ y \in 0 .. Len(ls) - 1 /\ x \in 0 .. Len(ls[y + 1])
    BY <1>1 DEF State, CursorIn
  <2>2. Len(ls) \in Nat /\ y + 1 \in 1 .. Len(ls)
    BY <2>1
  <2> QED
    BY <2>1, <2>2
<1>2. ASSUME ls \in Seq(Seq(Char)), Len(ls) \in Nat, y \in 0 .. Len(ls) - 1,
             ls[y + 1] \in Seq(Char), x \in 0 .. Len(ls[y + 1])
      PROVE  s \in State
  <2>1. x \in Nat /\ y \in Nat
    BY <1>2
  <2> QED
    BY <1>2, <2>1 DEF State, CursorIn
<1> QED
  BY <1>1, <1>2

\* What is put on a stack, and what is taken from it.
LEMMA StackKept ==
  ASSUME NEW stack \in Seq(State)
  PROVE  /\ \A s \in State : /\ undo_stack_push(stack, s) \in Seq(State)
                             /\ Front(undo_stack_push(stack, s)) \in Seq(State)
         /\ stack # <<>> => Front(stack) \in Seq(State) /\ Last(stack) \in State
<1>1. ASSUME NEW q \in Seq(State), q # <<>> PROVE Front(q) \in Seq(State) /\ Last(q) \in State
  <2>1. Len(q) \in Nat \ {0} /\ \A i \in 1 .. Len(q) - 1 : q[i] \in State
    BY <1>1, EmptySeq
  <2> QED
    BY <1>1, <2>1, SubSeqProperties DEF Front, Last
<1>2. ASSUME NEW s \in State
      PROVE  undo_stack_push(stack, s) \in Seq(State) /\ undo_stack_push(stack, s) # <<>>
  <2>1. CASE Len(stack) >= MAX_UNDO_LEVELS
    <3>1. stack # <<>> /\ Len(<<>>) = 0
      BY <2>1, EditorAssumption, EmptySeq
    <3>2. Tail(stack) \in Seq(State)
      BY <3>1, HeadTailProperties
    <3> QED
      BY <2>1, <3>2, AppendProperties DEF undo_stack_push
  <2>2. CASE ~(Len(stack) >= MAX_UNDO_LEVELS)
    BY <2>2, AppendProperties DEF undo_stack_push
  <2> QED
    BY <2>1, <2>2
<1> QED
  BY <1>1, <1>2

\* The editor opens on an empty document with the cursor in it.
LEMMA InDocumentAtFirst == EditorInit => InDocument
<1> SUFFICES ASSUME EditorInit PROVE InDocument
  OBVIOUS
<1>1. <<>> \in Seq(State) /\ <<>> \in Seq(Char)
  OBVIOUS
<1>2. [lines |-> << <<>> >>, x |-> 0, y |-> 0] \in State
  <2>1. << <<>> >> \in Seq(Seq(Char)) /\ Len(<< <<>> >>) = 1 /\ (<< <<>> >>)[1] = <<>>
        /\ Len(<<>>) = 0 /\ 0 \in 0 .. 0 /\ 0 \in 0 .. 1 - 1 /\ 0 + 1 = 1
    BY <1>1
  <2> QED
    BY <1>1, <2>1, PlaceIs
<1> QED
  BY <1>1, <1>2, EditorAssumption DEF EditorInit, InDocument, Snapshot, Symbol

\* A change that leaves the cursor in the document, and one that fails.
LEMMA ChangedInDocument ==
  ASSUME InDocument, NEW ls, NEW x, NEW y, [lines |-> ls, x |-> x, y |-> y] \in State,
         Changed(ls, x, y)
  PROVE  InDocument'
<1>1. undo_stack' \in Seq(State)
  BY StackKept DEF InDocument, Changed, WithSnapshot
<1>2. redo_stack' \in Seq(State)
  BY DEF Changed
<1>3. Snapshot' \in State
  BY DEF Changed, Snapshot
<1> QED
  BY <1>1, <1>2, <1>3 DEF InDocument, Changed, fileVars

\* A key that finds nothing to change still leaves its snapshot (save_undo_state).
LEMMA UnchangedInDocument ==
  ASSUME InDocument, Unchanged
  PROVE  InDocument'
<1>1. undo_stack' \in Seq(State)
  BY StackKept DEF InDocument, Unchanged
<1>2. Snapshot' = Snapshot
  BY DEF Unchanged, Snapshot, document
<1> QED
  BY <1>1, <1>2 DEF InDocument, Unchanged, fileVars

\* Undo and redo put back a snapshot, whose cursor is in its document.
LEMMA UndoInDocument ==
  ASSUME InDocument, editor_undo \/ editor_redo
  PROVE  InDocument'
<1>1. CASE editor_undo
  <2>1. undo_stack' \in Seq(State) /\ redo_stack' \in Seq(State) /\ Last(undo_stack) \in State
    BY <1>1, StackKept DEF InDocument, editor_undo, WithSnapshot
  <2>2. Snapshot' = Last(undo_stack)
    BY <1>1, <2>1 DEF editor_undo, editor_state_restore, Snapshot, State
  <2> QED
    BY <1>1, <2>1, <2>2 DEF InDocument, editor_undo, editor_state_restore, fileVars
<1>2. CASE editor_redo
  <2>1. undo_stack' \in Seq(State) /\ redo_stack' \in Seq(State) /\ Last(redo_stack) \in State
    BY <1>2, StackKept DEF InDocument, editor_redo, WithSnapshot
  <2>2. Snapshot' = Last(redo_stack)
    BY <1>2, <2>1 DEF editor_redo, editor_state_restore, Snapshot, State
  <2> QED
    BY <1>2, <2>1, <2>2 DEF InDocument, editor_redo, editor_state_restore, fileVars
<1> QED
  BY <1>1, <1>2

\* The document and the cursor.
LEMMA PlaceNow ==
  ASSUME InDocument
  PROVE  /\ lines \in Seq(Seq(Char)) /\ Len(lines) \in Nat \ {0}
         /\ cursor_y \in 0 .. Len(lines) - 1 /\ LastLine = Len(lines) - 1
         /\ \A i \in 0 .. Len(lines) - 1 : /\ Line(i) = lines[i + 1] /\ Line(i) \in Seq(Char)
                                           /\ Len(Line(i)) \in Nat
         /\ cursor_x \in 0 .. Len(Line(cursor_y))
<1>1. /\ lines \in Seq(Seq(Char)) /\ Len(lines) \in Nat /\ cursor_y \in 0 .. Len(lines) - 1
      /\ cursor_x \in 0 .. Len(lines[cursor_y + 1])
  BY PlaceIs DEF InDocument, Snapshot
<1>2. \A i \in 0 .. Len(lines) - 1 : i + 1 \in 1 .. Len(lines)
  BY <1>1
<1>3. ASSUME NEW i \in 0 .. Len(lines) - 1
      PROVE  Line(i) = lines[i + 1] /\ Line(i) \in Seq(Char) /\ Len(Line(i)) \in Nat
  BY <1>1, <1>2 DEF Line
<1> QED
  BY <1>1, <1>3 DEF LastLine

\* The parts of a sequence on either side of a place in it.
LEMMA Sides ==
  ASSUME NEW S, NEW s \in Seq(S), NEW n \in 0 .. Len(s)
  PROVE  /\ Before(s, n) \in Seq(S) /\ Len(Before(s, n)) = n
         /\ After(s, n) \in Seq(S) /\ Len(After(s, n)) = Len(s) - n
         /\ \A i \in 1 .. n : Before(s, n)[i] = s[i]
<1>1. Len(s) \in Nat /\ n \in Nat /\ \A i \in 1 .. Len(s) : s[i] \in S
  OBVIOUS
<1>2. (\A i \in 1 .. n : s[i] \in S) /\ (\A i \in n + 1 .. Len(s) : s[i] \in S)
  BY <1>1
<1>3. /\ Before(s, n) \in Seq(S) /\ Len(Before(s, n)) = n
      /\ \A i \in 1 .. n : Before(s, n)[i] = s[i]
  BY <1>1, <1>2, SubSeqProperties DEF Before
<1>4. After(s, n) \in Seq(S) /\ Len(After(s, n)) = Len(s) - n
  BY <1>1, <1>2, SubSeqProperties DEF After
<1> QED
  BY <1>3, <1>4

\* A document with another line at y.
LEMMA OtherLine ==
  ASSUME InDocument, NEW y \in 0 .. Len(lines) - 1, NEW l \in Seq(Char), NEW x \in 0 .. Len(l)
  PROVE  [lines |-> [lines EXCEPT ![y + 1] = l], x |-> x, y |-> y] \in State
<1> DEFINE ls == [lines EXCEPT ![y + 1] = l]
<1>1. lines \in Seq(Seq(Char)) /\ Len(lines) \in Nat /\ y + 1 \in 1 .. Len(lines)
  BY PlaceNow
<1>2. ls \in Seq(Seq(Char)) /\ Len(ls) = Len(lines) /\ ls[y + 1] = l
  BY <1>1, ExceptSeq
<1> HIDE DEF ls
<1>3. [lines |-> ls, x |-> x, y |-> y] \in State
  BY <1>1, <1>2, PlaceIs
<1> QED
  BY <1>3 DEF ls
-----------------------------------------------------------------------------
\* editor_insert_char.
LEMMA InsertInDocument ==
  ASSUME InDocument, NEW c \in Char, editor_insert_char(c)
  PROVE  InDocument'
<1> DEFINE before == Before(Line(cursor_y), cursor_x)
           after  == After(Line(cursor_y), cursor_x)
           l      == before \o <<c>> \o after
<1>1. /\ lines \in Seq(Seq(Char)) /\ Len(lines) \in Nat /\ cursor_y \in 0 .. Len(lines) - 1
      /\ Line(cursor_y) = lines[cursor_y + 1] /\ Line(cursor_y) \in Seq(Char)
      /\ cursor_x \in 0 .. Len(Line(cursor_y))
  BY PlaceNow
<1>2. /\ before \in Seq(Char) /\ Len(before) = cursor_x /\ after \in Seq(Char)
      /\ Len(after) = Len(Line(cursor_y)) - cursor_x
  BY <1>1, Sides
<1>3. l \in Seq(Char) /\ cursor_x + 1 \in 0 .. Len(l)
  <2> HIDE DEF before, after
  <2>1. <<c>> \in Seq(Char) /\ Len(<<c>>) = 1
    OBVIOUS
  <2>2. before \o <<c>> \in Seq(Char) /\ Len(before \o <<c>>) = cursor_x + 1
    BY <1>2, <2>1, ConcatProperties
  <2>3. l \in Seq(Char) /\ Len(l) = (cursor_x + 1) + Len(after)
    <3> DEFINE p == before \o <<c>>
    <3>1. p \in Seq(Char) /\ Len(p) = cursor_x + 1
      BY <2>2
    <3> HIDE DEF p
    <3>2. p \o after \in Seq(Char) /\ Len(p \o after) = (cursor_x + 1) + Len(after)
      BY <1>2, <3>1, ConcatProperties
    <3> QED
      BY <3>2 DEF p
  <2>4. Len(after) \in Nat /\ cursor_x \in Nat
    BY <1>1, <1>2
  <2> QED
    BY <2>3, <2>4
<1> HIDE DEF l
<1>4. [lines |-> [lines EXCEPT ![cursor_y + 1] = l], x |-> cursor_x + 1, y |-> cursor_y] \in State
  BY <1>1, <1>3, OtherLine
<1>5. [lines EXCEPT ![cursor_y + 1] = Before(@, cursor_x) \o <<c>> \o After(@, cursor_x)]
        = [lines EXCEPT ![cursor_y + 1] = l]
  BY <1>1 DEF l
<1>6. CASE Unchanged
  BY <1>6, UnchangedInDocument
<1>7. CASE Changed([lines EXCEPT ![cursor_y + 1] = l], cursor_x + 1, cursor_y)
  BY <1>4, <1>7, ChangedInDocument
<1> QED
  BY <1>5, <1>6, <1>7 DEF editor_insert_char

\* A document with one line put in the place of n lines from y on, and with two.
LEMMA LinesBetween ==
  ASSUME InDocument, NEW y \in 0 .. Len(lines), NEW z \in y .. Len(lines),
         NEW mid \in Seq(Seq(Char)), NEW i \in 1 .. Len(mid), NEW x \in 0 .. Len(mid[i])
  PROVE  [lines |-> Before(lines, y) \o mid \o After(lines, z), x |-> x, y |-> y + i - 1] \in State
<1>1. lines \in Seq(Seq(Char)) /\ Len(lines) \in Nat /\ z \in 0 .. Len(lines) /\ y \in Nat
      /\ Len(mid) \in Nat /\ i \in Nat
  BY PlaceNow
<1> DEFINE a == Before(lines, y)
           b == After(lines, z)
           ls == a \o mid \o b
<1>2. /\ a \in Seq(Seq(Char)) /\ Len(a) = y /\ b \in Seq(Seq(Char)) /\ Len(b) = Len(lines) - z
  BY <1>1, Sides
<1> HIDE DEF a, b
<1>3. /\ a \o mid \in Seq(Seq(Char)) /\ Len(a \o mid) = y + Len(mid)
      /\ (a \o mid)[y + i] = mid[i]
  <2>1. y + i \in 1 .. Len(a) + Len(mid) /\ ~(y + i <= Len(a)) /\ (y + i) - Len(a) = i
    BY <1>1, <1>2
  <2> DEFINE T == Seq(Char)
  <2>2. a \in Seq(T) /\ mid \in Seq(T)
    BY <1>2
  <2> HIDE DEF T
  <2>3. /\ a \o mid \in Seq(T) /\ Len(a \o mid) = Len(a) + Len(mid)
        /\ \A k \in 1 .. Len(a) + Len(mid) :
             (a \o mid)[k] = IF k <= Len(a) THEN a[k] ELSE mid[k - Len(a)]
    BY <2>2, ConcatProperties
  <2> QED
    BY <1>2, <2>1, <2>3 DEF T
<1> DEFINE p == a \o mid
<1>4. /\ ls \in Seq(Seq(Char)) /\ Len(ls) = y + Len(mid) + (Len(lines) - z)
      /\ ls[y + i] = mid[i]
  <2>1. p \in Seq(Seq(Char)) /\ Len(p) = y + Len(mid) /\ p[y + i] = mid[i]
    BY <1>3
  <2> HIDE DEF p
  <2>2. y + i \in 1 .. Len(p) + Len(b) /\ y + i <= Len(p)
    BY <1>1, <1>2, <2>1
  <2>3. /\ p \o b \in Seq(Seq(Char)) /\ Len(p \o b) = Len(p) + Len(b)
        /\ (p \o b)[y + i] = p[y + i]
    <3> DEFINE T == Seq(Char)
    <3>1. p \in Seq(T) /\ b \in Seq(T)
      BY <1>2, <2>1
    <3> HIDE DEF T
    <3>2. /\ p \o b \in Seq(T) /\ Len(p \o b) = Len(p) + Len(b)
          /\ \A k \in 1 .. Len(p) + Len(b) :
               (p \o b)[k] = IF k <= Len(p) THEN p[k] ELSE b[k - Len(p)]
      BY <3>1, ConcatProperties
    <3> QED
      BY <2>2, <3>2 DEF T
  <2> QED
    BY <1>2, <2>1, <2>3 DEF p
<1>5. /\ Len(ls) \in Nat /\ y + i - 1 \in 0 .. Len(ls) - 1 /\ (y + i - 1) + 1 = y + i
      /\ mid[i] \in Seq(Char)
  <2> HIDE DEF ls, p
  <2>1. mid[i] \in Seq(Char)
    OBVIOUS
  <2>2. y \in Nat /\ z \in Nat /\ Len(lines) \in Nat /\ z <= Len(lines) /\ Len(mid) \in Nat
        /\ i \in Nat /\ 1 <= i /\ i <= Len(mid)
    BY <1>1
  <2>3. Len(ls) = y + Len(mid) + (Len(lines) - z)
    BY <1>4
  <2> QED
    BY <2>1, <2>2, <2>3
<1> HIDE DEF ls, p
<1>6. [lines |-> ls, x |-> x, y |-> y + i - 1] \in State
  BY <1>4, <1>5, PlaceIs
<1> QED
  BY <1>6 DEF ls, p, a, b

\* editor_insert_newline: the line is cut in two at the cursor.
LEMMA NewlineInDocument ==
  ASSUME InDocument, editor_insert_newline
  PROVE  InDocument'
<1> DEFINE mid == <<Before(Line(cursor_y), cursor_x), After(Line(cursor_y), cursor_x)>>
           ls  == Before(lines, cursor_y) \o mid \o After(lines, cursor_y + 1)
<1>1. /\ lines \in Seq(Seq(Char)) /\ Len(lines) \in Nat /\ cursor_y \in 0 .. Len(lines) - 1
      /\ Line(cursor_y) \in Seq(Char) /\ cursor_x \in 0 .. Len(Line(cursor_y))
  BY PlaceNow
<1>2. mid \in Seq(Seq(Char)) /\ 2 \in 1 .. Len(mid) /\ 0 \in 0 .. Len(mid[2])
  <2>1. /\ Before(Line(cursor_y), cursor_x) \in Seq(Char)
        /\ After(Line(cursor_y), cursor_x) \in Seq(Char)
    BY <1>1, Sides
  <2> QED
    BY <2>1
<1>3. /\ cursor_y \in 0 .. Len(lines) /\ cursor_y + 1 \in cursor_y .. Len(lines)
      /\ cursor_y + 2 - 1 = cursor_y + 1
  BY <1>1
<1> HIDE DEF mid
<1>4. [lines |-> ls, x |-> 0, y |-> cursor_y + 1] \in State
  <2>1. [lines |-> ls, x |-> 0, y |-> cursor_y + 2 - 1] \in State
    BY <1>2, <1>3, LinesBetween
  <2> QED
    BY <1>3, <2>1
<1>5. CASE Unchanged
  BY <1>5, UnchangedInDocument
<1>6. CASE Changed(ls, 0, cursor_y + 1)
  <2> HIDE DEF ls
  <2> QED
    BY <1>4, <1>6, ChangedInDocument
<1> QED
  BY <1>5, <1>6 DEF editor_insert_newline, mid

\* Without a character, and with two lines joined.
LEMMA WithoutInDocument ==
  ASSUME InDocument, NEW y \in 0 .. Len(lines) - 1, NEW x \in 0 .. Len(Line(y)) - 1
  PROVE  [lines |-> Without(x, y), x |-> x, y |-> y] \in State
<1> DEFINE before == Before(Line(y), x)
           after  == After(Line(y), x + 1)
           l      == before \o after
<1>1. Line(y) = lines[y + 1] /\ Line(y) \in Seq(Char) /\ Len(Line(y)) \in Nat
  BY PlaceNow
<1>2. /\ before \in Seq(Char) /\ Len(before) = x /\ after \in Seq(Char)
      /\ Len(after) = Len(Line(y)) - (x + 1)
  <2>1. x \in 0 .. Len(Line(y)) /\ x + 1 \in 0 .. Len(Line(y))
    BY <1>1
  <2> QED
    BY <1>1, <2>1, Sides
<1>3. l \in Seq(Char) /\ x \in 0 .. Len(l)
  <2> HIDE DEF before, after
  <2> QED
    BY <1>1, <1>2, ConcatProperties
<1> HIDE DEF l
<1>4. [lines |-> [lines EXCEPT ![y + 1] = l], x |-> x, y |-> y] \in State
  BY <1>3, OtherLine
<1>5. Without(x, y) = [lines EXCEPT ![y + 1] = l]
  BY <1>1 DEF Without, l
<1> QED
  BY <1>4, <1>5

\* Two lines joined, with the cursor where they meet, are a state of the editor.
LEMMA JoinedInDocument ==
  ASSUME InDocument, NEW y \in 0 .. Len(lines) - 2
  PROVE  [lines |-> Joined(y), x |-> Len(Line(y)), y |-> y] \in State
<1> DEFINE l   == Line(y) \o Line(y + 1)
           mid == <<l>>
<1>1. Len(lines) \in Nat /\ y \in 0 .. Len(lines) - 1 /\ y + 1 \in 0 .. Len(lines) - 1
  BY PlaceNow
<1>2. /\ Line(y) \in Seq(Char) /\ Line(y + 1) \in Seq(Char) /\ Len(Line(y)) \in Nat
      /\ Len(Line(y + 1)) \in Nat
  BY <1>1, PlaceNow
<1>3. l \in Seq(Char) /\ Len(l) = Len(Line(y)) + Len(Line(y + 1))
  BY <1>2, ConcatProperties
<1> HIDE DEF l
<1>4. mid \in Seq(Seq(Char)) /\ 1 \in 1 .. Len(mid) /\ mid[1] = l
  BY <1>3
<1>5. /\ Len(Line(y)) \in 0 .. Len(mid[1]) /\ y \in 0 .. Len(lines) /\ y + 2 \in y .. Len(lines)
      /\ y + 1 - 1 = y
  BY <1>1, <1>2, <1>3, <1>4
<1> HIDE DEF mid
<1>6. [lines |-> Before(lines, y) \o mid \o After(lines, y + 2), x |-> Len(Line(y)), y |-> y + 1 - 1]
        \in State
  BY <1>4, <1>5, LinesBetween
<1> QED
  BY <1>5, <1>6 DEF Joined, mid, l

\* editor_delete_backward and editor_delete_forward, within a line and across its ends.
LEMMA DeleteInDocument ==
  ASSUME InDocument, editor_delete_backward \/ editor_delete_forward
  PROVE  InDocument'
<1>1. /\ Len(lines) \in Nat \ {0} /\ cursor_y \in 0 .. Len(lines) - 1
      /\ LastLine = Len(lines) - 1 /\ Len(Line(cursor_y)) \in Nat
      /\ cursor_x \in 0 .. Len(Line(cursor_y))
  BY PlaceNow
<1>2. CASE Unchanged
  BY <1>2, UnchangedInDocument
<1>3. CASE cursor_x > 0 /\ Changed(Without(cursor_x - 1, cursor_y), cursor_x - 1, cursor_y)
  <2>1. cursor_x - 1 \in 0 .. Len(Line(cursor_y)) - 1
    BY <1>1, <1>3
  <2>2. [lines |-> Without(cursor_x - 1, cursor_y), x |-> cursor_x - 1, y |-> cursor_y] \in State
    BY <1>1, <2>1, WithoutInDocument
  <2> QED
    BY <1>3, <2>2, ChangedInDocument
<1>4. CASE /\ cursor_x = 0 /\ cursor_y > 0
           /\ Changed(Joined(cursor_y - 1), Len(Line(cursor_y - 1)), cursor_y - 1)
  <2>1. cursor_y - 1 \in 0 .. Len(lines) - 2
    BY <1>1, <1>4
  <2>2. [lines |-> Joined(cursor_y - 1), x |-> Len(Line(cursor_y - 1)), y |-> cursor_y - 1] \in State
    BY <2>1, JoinedInDocument
  <2> QED
    BY <1>4, <2>2, ChangedInDocument
<1>5. CASE cursor_x < Len(Line(cursor_y)) /\ Changed(Without(cursor_x, cursor_y), cursor_x, cursor_y)
  <2>1. cursor_x \in 0 .. Len(Line(cursor_y)) - 1
    BY <1>1, <1>5
  <2>2. [lines |-> Without(cursor_x, cursor_y), x |-> cursor_x, y |-> cursor_y] \in State
    BY <1>1, <2>1, WithoutInDocument
  <2> QED
    BY <1>5, <2>2, ChangedInDocument
<1>6. CASE /\ cursor_x = Len(Line(cursor_y)) /\ cursor_y < LastLine
           /\ Changed(Joined(cursor_y), cursor_x, cursor_y)
  <2>1. cursor_y \in 0 .. Len(lines) - 2
    BY <1>1, <1>6
  <2>2. [lines |-> Joined(cursor_y), x |-> cursor_x, y |-> cursor_y] \in State
    BY <1>6, <2>1, JoinedInDocument
  <2> QED
    BY <1>6, <2>2, ChangedInDocument
<1> QED
  BY <1>2, <1>3, <1>4, <1>5, <1>6 DEF editor_delete_backward, editor_delete_forward

\* A place that is in the document may be gone to.
LEMMA MovedInDocument ==
  ASSUME InDocument, NEW y \in 0 .. Len(lines) - 1, NEW x \in 0 .. Len(Line(y)), MoveTo(x, y)
  PROVE  InDocument'
<1>1. /\ lines \in Seq(Seq(Char)) /\ Len(lines) \in Nat
      /\ lines[y + 1] \in Seq(Char) /\ x \in 0 .. Len(lines[y + 1])
  BY PlaceNow
<1>2. [lines |-> lines, x |-> x, y |-> y] \in State
  BY <1>1, PlaceIs
<1>3. Snapshot' = [lines |-> lines, x |-> x, y |-> y]
  BY DEF Snapshot, MoveTo
<1> QED
  BY <1>2, <1>3 DEF InDocument, MoveTo, stacks, fileVars

\* editor_move_cursor: the column is cut to the length of the line moved to.
LEMMA MoveInDocument ==
  ASSUME InDocument, editor_move_cursor
  PROVE  InDocument'
<1>1. /\ Len(lines) \in Nat \ {0} /\ cursor_y \in 0 .. Len(lines) - 1
      /\ LastLine = Len(lines) - 1
      /\ cursor_x \in 0 .. Len(Line(cursor_y))
      /\ \A y \in 0 .. Len(lines) - 1 : Len(Line(y)) \in Nat
  BY PlaceNow
<1>2. cursor_x \in Nat /\ cursor_y \in Nat /\ TEXT_HEIGHT \in Nat /\ 0 \in 0 .. Len(lines) - 1
  BY <1>1, EditorAssumption
<1>3. \A y \in 0 .. Len(lines) - 1 :
        /\ Least(cursor_x, Len(Line(y))) \in 0 .. Len(Line(y))
        /\ 0 \in 0 .. Len(Line(y)) /\ Len(Line(y)) \in 0 .. Len(Line(y))
  BY <1>1, <1>2 DEF Least
<1>4. ASSUME NEW y \in 0 .. Len(lines) - 1, ClampTo(y) PROVE InDocument'
  BY <1>3, <1>4, MovedInDocument DEF ClampTo
<1>5. CASE Left
  <2>1. CASE cursor_x > 0 /\ MoveTo(cursor_x - 1, cursor_y)
    <3>1. cursor_x - 1 \in 0 .. Len(Line(cursor_y))
      BY <1>1, <2>1
    <3> QED
      BY <1>1, <2>1, <3>1, MovedInDocument
  <2>2. CASE cursor_y > 0 /\ MoveTo(Len(Line(cursor_y - 1)), cursor_y - 1)
    <3>1. cursor_y - 1 \in 0 .. Len(lines) - 1
      BY <1>1, <2>2
    <3> QED
      BY <1>3, <2>2, <3>1, MovedInDocument
  <2> QED
    BY <1>5, <2>1, <2>2 DEF Left
<1>6. CASE Right
  <2>1. CASE cursor_x < Len(Line(cursor_y)) /\ MoveTo(cursor_x + 1, cursor_y)
    <3>1. cursor_x + 1 \in 0 .. Len(Line(cursor_y))
      BY <1>1, <2>1
    <3> QED
      BY <1>1, <2>1, <3>1, MovedInDocument
  <2>2. CASE cursor_y < LastLine /\ MoveTo(0, cursor_y + 1)
    <3>1. cursor_y + 1 \in 0 .. Len(lines) - 1
      BY <1>1, <2>2
    <3> QED
      BY <1>3, <2>2, <3>1, MovedInDocument
  <2> QED
    BY <1>6, <2>1, <2>2 DEF Right
<1>7. CASE Up
  <2>1. CASE cursor_y > 0 /\ ClampTo(cursor_y - 1)
    <3>1. cursor_y - 1 \in 0 .. Len(lines) - 1
      BY <1>1, <2>1
    <3> QED
      BY <1>4, <2>1, <3>1
  <2>2. CASE MoveTo(0, 0)
    BY <1>2, <1>3, <2>2, MovedInDocument
  <2> QED
    BY <1>7, <2>1, <2>2 DEF Up
<1>8. CASE Down
  <2>1. CASE cursor_y < LastLine /\ ClampTo(cursor_y + 1)
    <3>1. cursor_y + 1 \in 0 .. Len(lines) - 1
      BY <1>1, <2>1
    <3> QED
      BY <1>4, <2>1, <3>1
  <2>2. CASE MoveTo(Len(Line(cursor_y)), cursor_y)
    BY <1>1, <1>3, <2>2, MovedInDocument
  <2> QED
    BY <1>8, <2>1, <2>2 DEF Down
<1>9. CASE Home \/ End
  BY <1>1, <1>3, <1>9, MovedInDocument DEF Home, End
<1>10. CASE PageUp
  <2> DEFINE y == IF cursor_y > TEXT_HEIGHT THEN cursor_y - TEXT_HEIGHT ELSE 0
  <2>1. y \in 0 .. Len(lines) - 1
    BY <1>1, <1>2
  <2> QED
    BY <1>4, <1>10, <2>1 DEF PageUp
<1>11. CASE PageDown
  <2> DEFINE y == Least(cursor_y + TEXT_HEIGHT, LastLine)
  <2>1. y \in 0 .. Len(lines) - 1
    BY <1>1, <1>2 DEF Least
  <2> QED
    BY <1>4, <1>11, <2>1 DEF PageDown
<1> QED
  BY <1>5, <1>6, <1>7, <1>8, <1>9, <1>10, <1>11 DEF editor_move_cursor

\* editor_load.
LEMMA LoadedInDocument ==
  ASSUME InDocument, Loaded
  PROVE  InDocument'
<1>1. editor_parse_buffer(file) \in Document
  BY LoadAndSave DEF InDocument
<1>2. /\ lines' \in Seq(Seq(Char)) /\ Len(lines') \in Nat \ {0} /\ lines'[1] \in Seq(Char)
      /\ Len(lines'[1]) \in Nat
  BY <1>1, EmptySeq DEF Loaded, Document
<1>3. [lines |-> lines', x |-> 0, y |-> 0] \in State
  BY <1>2, PlaceIs
<1>4. Snapshot' \in State
  BY <1>3 DEF Snapshot, Loaded
<1>5. EndsWithNewline(file) \in BOOLEAN /\ <<>> \in Seq(State)
  BY DEF EndsWithNewline
<1> QED
  BY <1>4, <1>5 DEF InDocument, Loaded

\* What is saved is a text.
LEMMA SavedIsText ==
  ASSUME InDocument
  PROVE  Text(lines, file_ends_with_newline) \in Seq(Symbol)
<1>1. lines \in Document
  BY PlaceNow, EmptySeq DEF Document
<1>2. Text(lines, FALSE) \in Seq(Symbol) /\ Text(lines, TRUE) = Text(lines, FALSE) \o <<NL>>
  BY <1>1, TextGrows, TextTurns
<1>3. <<NL>> \in Seq(Symbol)
  BY DEF Symbol
<1>4. Text(lines, TRUE) \in Seq(Symbol)
  BY <1>2, <1>3, ConcatProperties
<1> QED
  BY <1>2, <1>4 DEF InDocument

\* editor_save and leaving the editor change no line.
LEMMA SaveInDocument ==
  ASSUME InDocument, editor_save \/ Quit
  PROVE  InDocument'
<1> DEFINE text == Text(lines, file_ends_with_newline)
<1>1. text \in Seq(Symbol) /\ <<>> \in Seq(Symbol) /\ <<>> \in Seq(State)
  BY SavedIsText
<1> HIDE DEF text
<1>2. CASE Saved(text) /\ UNCHANGED editing
  BY <1>1, <1>2 DEF InDocument, Saved, Snapshot, document, stacks
<1>3. CASE SaveFails(text) /\ UNCHANGED editing
  <2>1. file' \in Seq(Symbol)
    BY <1>1, <1>3 DEF InDocument, SaveFails
  <2> QED
    BY <1>3, <2>1 DEF InDocument, SaveFails, Snapshot, document, stacks
<1>4. CASE Closed /\ (file' = file \/ file' = text)
  <2>1. [lines |-> << <<>> >>, x |-> 0, y |-> 0] \in State
    <3>1. << <<>> >> \in Seq(Seq(Char)) /\ Len(<< <<>> >>) = 1 /\ (<< <<>> >>)[1] = <<>>
          /\ Len(<<>>) = 0 /\ 0 \in 0 .. 0 /\ 0 \in 0 .. 1 - 1 /\ 0 + 1 = 1 /\ <<>> \in Seq(Char)
      OBVIOUS
    <3> QED
      BY <3>1, PlaceIs
  <2>2. Snapshot' \in State
    BY <1>4, <2>1 DEF Snapshot, Closed
  <2> QED
    BY <1>1, <1>4, <2>2 DEF InDocument, Closed
<1> QED
  BY <1>2, <1>3, <1>4 DEF editor_save, Quit, text

\* InDocument is inductive.
LEMMA InDocumentStep ==
  ASSUME InDocument, [EditorNext]_editorVars
  PROVE  InDocument'
<1>1. CASE UNCHANGED editorVars
  BY <1>1 DEF InDocument, Snapshot, editorVars, document, stacks, fileVars
<1>2. CASE \E c \in Char : editor_insert_char(c)
  BY <1>2, InsertInDocument
<1>3. CASE cmd_sn \/ OpenFile
  BY <1>3, LoadedInDocument DEF cmd_sn, OpenFile
<1> QED
  BY <1>1, <1>2, <1>3, NewlineInDocument, DeleteInDocument, MoveInDocument, UndoInDocument,
     SaveInDocument DEF EditorNext

\* The cursor, wherever undo or redo bring it, stays in the document, for every
\* text and every length of the stacks (snake.c:786-957).
THEOREM CursorStaysInDocument == EditorSpec => []CursorInDocument
<1>1. InDocument /\ [EditorNext]_editorVars => InDocument'
  BY InDocumentStep
<1>2. InDocument => CursorInDocument
  BY InDocumentIs
<1> QED
  BY <1>1, <1>2, InDocumentAtFirst, PTL DEF EditorSpec

\* Without the mark, and if no failure was shown, the file holds the document; what
\* is loaded is what saving would write (snake.c:583-675, 743-772, 1046-1067).
THEOREM UnmarkedDocumentIsSaved == EditorSpec => []UnmarkedIsSaved
<1>1. EditorInit => UnmarkedIsSaved
  BY DEF EditorInit, UnmarkedIsSaved
<1>2. InDocument /\ UnmarkedIsSaved /\ [EditorNext]_editorVars => UnmarkedIsSaved'
  <2> SUFFICES ASSUME InDocument, UnmarkedIsSaved, [EditorNext]_editorVars
               PROVE  UnmarkedIsSaved'
    OBVIOUS
  <2>1. CASE \E ls, x, y : Changed(ls, x, y)
    BY <2>1 DEF Changed, UnmarkedIsSaved
  <2>2. CASE Unchanged \/ UNCHANGED editorVars \/ \E x, y : MoveTo(x, y)
    BY <2>2 DEF Unchanged, MoveTo, UnmarkedIsSaved, editorVars, document, fileVars
  <2>3. CASE editor_undo \/ editor_redo
    BY <2>3 DEF editor_undo, editor_redo, editor_state_restore, UnmarkedIsSaved
  <2>4. CASE Loaded
    BY <2>4, LoadAndSave DEF InDocument, Loaded, UnmarkedIsSaved
  <2>5. CASE editor_save \/ Quit
    BY <2>5 DEF editor_save, Quit, Saved, SaveFails, Closed, UnmarkedIsSaved, document
  <2>6. ASSUME NEW c \in Char, editor_insert_char(c) PROVE UnmarkedIsSaved'
    BY <2>1, <2>2, <2>6 DEF editor_insert_char
  <2>7. CASE editor_insert_newline \/ editor_delete_backward \/ editor_delete_forward
    BY <2>1, <2>2, <2>7, Zenon DEF editor_insert_newline, editor_delete_backward, editor_delete_forward
  <2>8. CASE editor_move_cursor
    BY <2>2, <2>8, Zenon
    DEF editor_move_cursor, Left, Right, Up, Down, Home, End, PageUp, PageDown, ClampTo
  <2> QED
    BY <2>2, <2>3, <2>4, <2>5, <2>6, <2>7, <2>8 DEF EditorNext, cmd_sn, OpenFile
<1>3. InDocument /\ [EditorNext]_editorVars => InDocument'
  BY InDocumentStep
<1> QED
  BY <1>1, <1>2, <1>3, InDocumentAtFirst, PTL DEF EditorSpec
-----------------------------------------------------------------------------
(* The editor: undo and redo move along one line of versions.              *)

\* The line of versions made of two stacks and what is between them.
Line3(undo, ls, redo) ==
  [i \in 1 .. Len(undo) |-> undo[i].lines] \o <<ls>>
    \o [i \in 1 .. Len(redo) |-> redo[Len(redo) + 1 - i].lines]

\* The one in the middle.
Middle(undo, ls, redo) == Line3(undo, ls, redo)[Len(undo) + 1]

\* A version.
Version == Seq(Seq(Char))

\* The stacks hold no more versions together than one of them can.
StacksFit == Len(undo_stack) + Len(redo_stack) <= MAX_UNDO_LEVELS

\* What stands where in the line of versions.
LEMMA LineIs ==
  ASSUME NEW u \in Seq(State), NEW ls \in Version, NEW r \in Seq(State)
  PROVE  /\ Line3(u, ls, r) \in Seq(Version)
         /\ Len(u) \in Nat /\ Len(r) \in Nat
         /\ Len(Line3(u, ls, r)) = Len(u) + 1 + Len(r)
         /\ \A i \in 1 .. Len(u) : Line3(u, ls, r)[i] = u[i].lines
         /\ Middle(u, ls, r) = ls
         /\ \A i \in 1 .. Len(r) : Line3(u, ls, r)[Len(u) + 1 + i] = r[Len(r) + 1 - i].lines
<1> DEFINE U == [i \in 1 .. Len(u) |-> u[i].lines]
           R == [i \in 1 .. Len(r) |-> r[Len(r) + 1 - i].lines]
           M == <<ls>>
           P == U \o M
           V == Version
<1>1. \A s \in State : s.lines \in V
  BY DEF State, Version
<1>2. Len(u) \in Nat /\ Len(r) \in Nat
  OBVIOUS
<1>3. U \in Seq(V) /\ Len(U) = Len(u) /\ \A i \in 1 .. Len(u) : U[i] = u[i].lines
  <2>1. \A i \in 1 .. Len(u) : u[i].lines \in V
    BY <1>1
  <2> HIDE DEF V
  <2> QED
    BY <1>2, <2>1
<1>4. R \in Seq(V) /\ Len(R) = Len(r) /\ \A i \in 1 .. Len(r) : R[i] = r[Len(r) + 1 - i].lines
  <2>1. \A i \in 1 .. Len(r) : r[Len(r) + 1 - i].lines \in V
    <3>1. \A i \in 1 .. Len(r) : Len(r) + 1 - i \in 1 .. Len(r)
      BY <1>2
    <3> QED
      BY <1>1, <3>1
  <2> HIDE DEF V
  <2> QED
    BY <1>2, <2>1
<1>5. M \in Seq(V) /\ Len(M) = 1 /\ M[1] = ls
  OBVIOUS
<1>6. Line3(u, ls, r) = P \o R
  BY DEF Line3
<1> HIDE DEF U, R, M, V
<1>7. /\ P \in Seq(V) /\ Len(P) = Len(u) + 1 /\ P[Len(u) + 1] = ls
      /\ \A i \in 1 .. Len(u) : P[i] = U[i]
  <2>1. /\ U \o M \in Seq(V) /\ Len(U \o M) = Len(U) + Len(M)
        /\ \A i \in 1 .. Len(U) + Len(M) : (U \o M)[i] = IF i <= Len(U) THEN U[i] ELSE M[i - Len(U)]
    BY <1>3, <1>5, ConcatProperties
  <2> QED
    BY <1>2, <1>3, <1>5, <2>1
<1> HIDE DEF P
<1>8. /\ P \o R \in Seq(V) /\ Len(P \o R) = Len(P) + Len(R)
      /\ \A i \in 1 .. Len(P) + Len(R) : (P \o R)[i] = IF i <= Len(P) THEN P[i] ELSE R[i - Len(P)]
  <2>1. P \in Seq(V) /\ R \in Seq(V)
    BY <1>4, <1>7
  <2> QED
    BY <2>1, ConcatProperties
<1>9. \A i \in 1 .. Len(u) + 1 : (P \o R)[i] = P[i]
  BY <1>2, <1>4, <1>7, <1>8
<1>10. \A i \in 1 .. Len(r) : (P \o R)[Len(u) + 1 + i] = R[i]
  <2> SUFFICES ASSUME NEW i \in 1 .. Len(r) PROVE (P \o R)[Len(u) + 1 + i] = R[i]
    OBVIOUS
  <2>1. /\ Len(u) + 1 + i \in 1 .. Len(P) + Len(R) /\ ~(Len(u) + 1 + i <= Len(P))
        /\ (Len(u) + 1 + i) - Len(P) = i
    BY <1>2, <1>4, <1>7
  <2> QED
    BY <1>8, <2>1
<1>11. \A i \in 1 .. Len(u) : (P \o R)[i] = u[i].lines
  BY <1>2, <1>3, <1>7, <1>9
<1>12. (P \o R)[Len(u) + 1] = ls
  <2>1. Len(u) + 1 \in 1 .. Len(u) + 1
    BY <1>2
  <2> QED
    BY <1>7, <1>9, <2>1
<1>13. P \o R \in Seq(Version) /\ Len(P \o R) = Len(u) + 1 + Len(r)
  BY <1>4, <1>7, <1>8 DEF V
<1> QED
  BY <1>2, <1>4, <1>6, <1>10, <1>11, <1>12, <1>13 DEF Middle

\* How many entries a full stack loses to a new one.
Lost(u) == IF Len(u) >= MAX_UNDO_LEVELS THEN 1 ELSE 0

\* What a push of s leaves of the stack u.
Pushed(v, u, s) ==
  /\ v \in Seq(State) /\ Len(v) = Len(u) + 1 - Lost(u) /\ Last(v) = s
  /\ \A i \in 1 .. Len(v) - 1 : v[i] = u[i + Lost(u)]
  /\ Front(v) \in Seq(State) /\ Len(Front(v)) = Len(u) - Lost(u)
  /\ \A i \in 1 .. Len(Front(v)) : Front(v)[i] = u[i + Lost(u)]
  /\ Lost(u) \in {0, 1} /\ Lost(u) <= Len(u) /\ Len(u) \in Nat

\* A stack that gets a version and loses it, with room and without.
LEMMA PushIs ==
  ASSUME NEW u \in Seq(State), NEW s \in State
  PROVE  Pushed(undo_stack_push(u, s), u, s)
<1> SUFFICES ASSUME NEW v, v = undo_stack_push(u, s) PROVE Pushed(v, u, s)
  OBVIOUS
<1> DEFINE d == Lost(u)
           t == IF Len(u) >= MAX_UNDO_LEVELS THEN Tail(u) ELSE u
<1>1. v = Append(t, s)
  BY DEF undo_stack_push
<1>2. t \in Seq(State) /\ Len(t) = Len(u) - d /\ \A i \in 1 .. Len(t) : t[i] = u[i + d]
  <2>1. CASE Len(u) >= MAX_UNDO_LEVELS
    <3>1. u # <<>> /\ Len(<<>>) = 0
      BY <2>1, EditorAssumption, EmptySeq
    <3> QED
      BY <2>1, <3>1, HeadTailProperties DEF Lost
  <2>2. CASE ~(Len(u) >= MAX_UNDO_LEVELS)
    <3>1. \A i \in 1 .. Len(u) : i + 0 = i
      OBVIOUS
    <3> QED
      BY <2>2, <3>1 DEF Lost
  <2> QED
    BY <2>1, <2>2
<1>3. d \in {0, 1} /\ Len(u) \in Nat /\ Len(t) \in Nat
  BY <1>2 DEF Lost
<1> HIDE DEF t, d
<1>4. /\ v \in Seq(State) /\ Len(v) = Len(t) + 1 /\ v[Len(v)] = s
      /\ \A i \in 1 .. Len(t) : v[i] = t[i]
  BY <1>1, <1>2, AppendProperties
<1>5. Len(v) - 1 = Len(t)
  BY <1>3, <1>4
<1>6. Front(v) \in Seq(State) /\ Len(Front(v)) = Len(t) /\ \A i \in 1 .. Len(t) : Front(v)[i] = t[i]
  <2>1. \A i \in 1 .. Len(t) : v[i] \in State
    BY <1>3, <1>4
  <2>2. /\ SubSeq(v, 1, Len(t)) \in Seq(State)
        /\ Len(SubSeq(v, 1, Len(t))) = IF 1 <= Len(t) THEN Len(t) - 1 + 1 ELSE 0
        /\ \A i \in 1 .. Len(t) - 1 + 1 : SubSeq(v, 1, Len(t))[i] = v[1 + i - 1]
    BY <1>3, <2>1, SubSeqProperties
  <2>3. Front(v) = SubSeq(v, 1, Len(t))
    BY <1>5 DEF Front
  <2>4. \A i \in 1 .. Len(t) : SubSeq(v, 1, Len(t))[i] = v[i]
    BY <1>3, <2>2
  <2> QED
    BY <1>3, <1>4, <2>2, <2>3, <2>4
<1>7. \A i \in 1 .. Len(t) : v[i] = u[i + d] /\ Front(v)[i] = u[i + d]
  BY <1>2, <1>4, <1>6
<1>8. d <= Len(u) /\ Len(v) = Len(u) + 1 - d /\ Len(Front(v)) = Len(u) - d
  BY <1>2, <1>3, <1>4, <1>6
<1>9. /\ v \in Seq(State) /\ v[Len(v)] = s /\ Front(v) \in Seq(State)
      /\ \A i \in 1 .. Len(v) - 1 : v[i] = u[i + d]
      /\ \A i \in 1 .. Len(Front(v)) : Front(v)[i] = u[i + d]
  BY <1>4, <1>5, <1>6, <1>7
<1> QED
  BY <1>3, <1>8, <1>9 DEF Pushed, d, Last

\* The stack without its last snapshot (editor_undo, editor_redo).
LEMMA PopIs ==
  ASSUME NEW u \in Seq(State), u # <<>>
  PROVE  /\ Len(u) \in Nat \ {0} /\ Last(u) = u[Len(u)] /\ Last(u) \in State
         /\ Front(u) \in Seq(State) /\ Len(Front(u)) = Len(u) - 1
         /\ \A i \in 1 .. Len(u) - 1 : Front(u)[i] = u[i]
<1>1. Len(u) \in Nat \ {0} /\ \A i \in 1 .. Len(u) : u[i] \in State
  BY EmptySeq
<1>2. \A i \in 1 .. Len(u) - 1 : u[i] \in State
  BY <1>1
<1>3. /\ SubSeq(u, 1, Len(u) - 1) \in Seq(State)
      /\ Len(SubSeq(u, 1, Len(u) - 1)) = IF 1 <= Len(u) - 1 THEN Len(u) - 1 - 1 + 1 ELSE 0
      /\ \A i \in 1 .. Len(u) - 1 - 1 + 1 : SubSeq(u, 1, Len(u) - 1)[i] = u[1 + i - 1]
  BY <1>1, <1>2, SubSeqProperties
<1>4. \A i \in 1 .. Len(u) - 1 : SubSeq(u, 1, Len(u) - 1)[i] = u[i]
  BY <1>1, <1>3
<1>5. Last(u) = u[Len(u)] /\ u[Len(u)] \in State
  BY <1>1 DEF Last
<1>6. Len(SubSeq(u, 1, Len(u) - 1)) = Len(u) - 1
  <2> DEFINE n == Len(u)
             q == SubSeq(u, 1, n - 1)
  <2>1. Len(q) = (IF 1 <= n - 1 THEN n - 1 - 1 + 1 ELSE 0) /\ n \in Nat \ {0}
    BY <1>1, <1>3
  <2> HIDE DEF n, q
  <2>2. Len(q) = n - 1
    BY <2>1
  <2> QED
    BY <2>2 DEF q, n
<1> QED
  BY <1>1, <1>3, <1>4, <1>5, <1>6 DEF Front

\* The stacks as they fit, after a key.
LEMMA StacksFitStep ==
  ASSUME InDocument, StacksFit, [EditorNext]_editorVars
  PROVE  StacksFit'
<1>1. /\ Len(undo_stack) \in Nat /\ Len(redo_stack) \in Nat /\ MAX_UNDO_LEVELS \in Nat \ {0}
      /\ Len(<<>>) = 0 /\ Snapshot \in State
  BY EditorAssumption DEF InDocument
<1>2. CASE undo_stack' = <<>> /\ redo_stack' = <<>>
  BY <1>1, <1>2 DEF StacksFit
<1>3. CASE UNCHANGED stacks
  BY <1>3 DEF StacksFit, stacks
<1>4. CASE \E ls, x, y : Changed(ls, x, y)
  <2>1. Len(undo_stack_push(undo_stack, Snapshot)) <= MAX_UNDO_LEVELS
    <3> DEFINE v == undo_stack_push(undo_stack, Snapshot)
    <3>1. Len(v) = Len(undo_stack) + 1 - Lost(undo_stack)
      BY <1>1, PushIs DEF InDocument, Pushed
    <3> HIDE DEF v
    <3>2. Len(v) <= MAX_UNDO_LEVELS
      BY <1>1, <3>1 DEF StacksFit, Lost
    <3> QED
      BY <3>2 DEF v
  <2>2. redo_stack' = <<>> /\ undo_stack' \in WithSnapshot(undo_stack)
    BY <1>4 DEF Changed
  <2> QED
    BY <1>1, <2>1, <2>2 DEF StacksFit, WithSnapshot
<1>5. CASE Unchanged
  <2>1. Len(Front(undo_stack_push(undo_stack, Snapshot))) <= Len(undo_stack)
        /\ Len(Front(undo_stack_push(undo_stack, Snapshot))) \in Nat
    <3>1. /\ Len(Front(undo_stack_push(undo_stack, Snapshot))) = Len(undo_stack) - Lost(undo_stack)
          /\ Lost(undo_stack) \in {0, 1} /\ Lost(undo_stack) <= Len(undo_stack)
      BY <1>1, PushIs DEF InDocument, Pushed
    <3> QED
      BY <1>1, <3>1
  <2> QED
    BY <1>1, <1>5, <2>1 DEF StacksFit, Unchanged
<1>6. ASSUME NEW u \in Seq(State), NEW r \in Seq(State), u # <<>>,
             Len(u) + Len(r) <= MAX_UNDO_LEVELS, NEW t \in WithSnapshot(r)
      PROVE  /\ Len(Front(u)) + Len(t) <= MAX_UNDO_LEVELS
             /\ Len(t) + Len(Front(u)) <= MAX_UNDO_LEVELS
  <2>1. Len(u) \in Nat \ {0} /\ Len(r) \in Nat /\ Len(Front(u)) = Len(u) - 1
    BY <1>6, PopIs
  <2>2. Len(t) \in {Len(r), Len(r) + 1}
    <3>1. CASE t = r
      BY <3>1
    <3>2. CASE t = undo_stack_push(r, Snapshot)
      <4>1. Len(t) = Len(r) + 1 - Lost(r) /\ Lost(r) \in {0, 1}
        BY <1>1, <1>6, <3>2, PushIs DEF Pushed
      <4> QED
        BY <2>1, <4>1
    <3> QED
      BY <3>1, <3>2 DEF WithSnapshot
  <2> QED
    BY <1>1, <1>6, <2>1, <2>2
<1>7. CASE editor_undo
  BY <1>6, <1>7 DEF editor_undo, InDocument, StacksFit
<1>8. CASE editor_redo
  <2>1. Len(redo_stack) + Len(undo_stack) <= MAX_UNDO_LEVELS
    BY <1>1 DEF StacksFit
  <2> QED
    BY <1>6, <1>8, <2>1 DEF editor_redo, InDocument, StacksFit
<1>9. CASE \E x, y : MoveTo(x, y)
  BY <1>3, <1>9 DEF MoveTo
<1>10. ASSUME NEW c \in Char, editor_insert_char(c) PROVE StacksFit'
  BY <1>4, <1>5, <1>10, Zenon DEF editor_insert_char
<1>11. CASE editor_insert_newline \/ editor_delete_backward \/ editor_delete_forward
  BY <1>4, <1>5, <1>11, Zenon
  DEF editor_insert_newline, editor_delete_backward, editor_delete_forward
<1>12. CASE editor_move_cursor
  BY <1>9, <1>12, Zenon
  DEF editor_move_cursor, Left, Right, Up, Down, Home, End, PageUp, PageDown, ClampTo
<1>13. CASE cmd_sn \/ OpenFile
  BY <1>2, <1>13, Zenon DEF cmd_sn, OpenFile, Loaded
<1>14. CASE editor_save \/ Quit
  BY <1>2, <1>3, <1>14 DEF editor_save, Quit, Saved, SaveFails, Closed
<1>15. CASE UNCHANGED editorVars
  BY <1>3, <1>15 DEF editorVars
<1> QED
  BY <1>7, <1>8, <1>10, <1>11, <1>12, <1>13, <1>14, <1>15, Zenon DEF EditorNext
-----------------------------------------------------------------------------
\* The line of versions that is shown, and the place on it.
Shown == Line3(undo_stack, lines, redo_stack)
Place == Len(undo_stack) + 1

\* What a change keeps.
Kept == Versions!Newest(Append(Versions!Behind, Shown[Place]))

\* History's variables are these.
LEMMA VersionsAre ==
  /\ Versions!Behind = SubSeq(Shown, 1, Place - 1)
  /\ Versions!Change <=> /\ Place' = Len(Kept) + 1
                         /\ Shown' = Append(Kept, Last(Shown'))
  /\ Versions!ChangeUnkept <=> /\ Place' = Len(Versions!Behind) + 1
                               /\ Shown' = Append(Versions!Behind, Last(Shown'))
  /\ Versions!Reopen <=> Place' = Len(<<>>) + 1 /\ Shown' = Append(<<>>, Last(Shown'))
  /\ Versions!Undo <=> Place > 1 /\ Place' = Place - 1 /\ Shown' = Shown
  /\ Versions!Redo <=> Place < Len(Shown) /\ Place' = Place + 1 /\ Shown' = Shown
  /\ Versions!UndoUnkept <=> Place > 1 /\ Place' = Place - 1 /\ Shown' = RemoveAt(Shown, Place)
  /\ Versions!RedoUnkept <=> Place < Len(Shown) /\ Shown' = RemoveAt(Shown, Place) /\ Place' = Place
  /\ Versions!ForgetOldest
       <=> Place > MAX_UNDO_LEVELS /\ Place' = Place - 1 /\ Shown' = Tail(Shown)
  /\ UNCHANGED Versions!historyVars <=> Shown' = Shown /\ Place' = Place
  /\ Versions!HistoryInit <=> Shown = <<<< <<>> >>>> /\ Place = 1
<1>2. Versions!Behind = SubSeq(Shown, 1, Place - 1)
  BY DEF Versions!Behind, Shown, Line3, Place
<1>1. Versions!Change <=> Place' = Len(Kept) + 1 /\ Shown' = Append(Kept, Last(Shown'))
  BY DEF Versions!Change, Versions!ShowNew, Versions!Last, Last, Kept, Shown, Line3, Place
<1>3. /\ Versions!ChangeUnkept <=> /\ Place' = Len(Versions!Behind) + 1
                                   /\ Shown' = Append(Versions!Behind, Last(Shown'))
      /\ Versions!Reopen <=> Place' = Len(<<>>) + 1 /\ Shown' = Append(<<>>, Last(Shown'))
  BY DEF Versions!ChangeUnkept, Versions!Reopen, Versions!ShowNew, Versions!Last, Last, Shown,
         Line3, Place
<1>4. Versions!Undo <=> Place > 1 /\ Place' = Place - 1 /\ Shown' = Shown
  BY DEF Versions!Undo, Shown, Line3, Place
<1>5. Versions!Redo <=> Place < Len(Shown) /\ Place' = Place + 1 /\ Shown' = Shown
  BY DEF Versions!Redo, Shown, Line3, Place
<1>6. Versions!UndoUnkept <=> Place > 1 /\ Place' = Place - 1 /\ Shown' = RemoveAt(Shown, Place)
  BY DEF Versions!UndoUnkept, Versions!RemoveAt, RemoveAt, Shown, Line3, Place
<1>7. Versions!RedoUnkept
        <=> Place < Len(Shown) /\ Shown' = RemoveAt(Shown, Place) /\ Place' = Place
  BY DEF Versions!RedoUnkept, Versions!RemoveAt, RemoveAt, Shown, Line3, Place
<1>8. Versions!ForgetOldest
        <=> Place > MAX_UNDO_LEVELS /\ Place' = Place - 1 /\ Shown' = Tail(Shown)
  BY DEF Versions!ForgetOldest, Shown, Line3, Place
<1>9. UNCHANGED Versions!historyVars <=> Shown' = Shown /\ Place' = Place
  BY DEF Versions!historyVars, Shown, Line3, Place
<1>10. Versions!HistoryInit <=> Shown = <<<< <<>> >>>> /\ Place = 1
  BY DEF Versions!HistoryInit, Shown, Line3, Place
<1> QED
  BY <1>1, <1>2, <1>3, <1>4, <1>5, <1>6, <1>7, <1>8, <1>9, <1>10

\* Two lines with the same versions.
LEMMA SameLine ==
  ASSUME NEW s \in Seq(Version), NEW t \in Seq(Version), NEW n \in Nat, Len(s) = n, Len(t) = n,
         \A i \in 1 .. n : s[i] = t[i]
  PROVE  s = t
<1> HIDE DEF Version
<1> QED
  BY SeqEqual

\* A version behind those that were kept.
LEMMA ShowsNew ==
  ASSUME NEW u \in Seq(State), NEW ls \in Version, NEW kept \in Seq(Version),
         Len(kept) = Len(u), \A i \in 1 .. Len(u) : kept[i] = u[i].lines
  PROVE  Line3(u, ls, <<>>) = Append(kept, Last(Line3(u, ls, <<>>)))
<1> DEFINE L == Line3(u, ls, <<>>)
           V == Version
<1>1. <<>> \in Seq(State) /\ Len(<<>>) = 0
  BY EmptySeq
<1>2. /\ L \in Seq(V) /\ Len(u) \in Nat /\ Len(L) = Len(u) + 1
      /\ \A i \in 1 .. Len(u) : L[i] = u[i].lines
      /\ L[Len(u) + 1] = ls
  <2> DEFINE e == <<>>
  <2>2. e \in Seq(State)
    BY <1>1
  <2> HIDE DEF e
  <2>1. /\ Line3(u, ls, e) \in Seq(V) /\ Len(u) \in Nat
        /\ Len(Line3(u, ls, e)) = Len(u) + 1 + Len(e)
        /\ \A i \in 1 .. Len(u) : Line3(u, ls, e)[i] = u[i].lines
        /\ Line3(u, ls, e)[Len(u) + 1] = ls
    BY <2>2, LineIs DEF V, Middle
  <2> HIDE DEF L, V
  <2> QED
    BY <1>1, <2>1 DEF e, L
<1> HIDE DEF L, V
<1>3. Last(L) = ls
  BY <1>2 DEF Last
<1>4. /\ Append(kept, ls) \in Seq(V) /\ Len(Append(kept, ls)) = Len(u) + 1
      /\ \A i \in 1 .. Len(u) : Append(kept, ls)[i] = kept[i]
      /\ Append(kept, ls)[Len(u) + 1] = ls
  <2>1. kept \in Seq(V) /\ ls \in V
    BY DEF V
  <2> QED
    BY <2>1, AppendProperties
<1> DEFINE A == Append(kept, ls)
<1> HIDE DEF A
<1>5. \A i \in 1 .. Len(u) + 1 : L[i] = A[i]
  BY <1>2, <1>4 DEF A
<1>6. L = A
  BY <1>2, <1>4, <1>5, SameLine DEF A, V
<1> QED
  BY <1>3, <1>6 DEF A, L

\* The versions behind the one shown.
LEMMA BehindIs ==
  ASSUME InDocument
  PROVE  /\ Shown \in Seq(Version) /\ lines \in Version /\ Shown[Place] = lines
         /\ Place = Len(undo_stack) + 1 /\ Place \in Nat /\ Len(redo_stack) \in Nat
         /\ Len(undo_stack) \in Nat
         /\ Len(Shown) = Len(undo_stack) + 1 + Len(redo_stack)
         /\ Versions!Behind \in Seq(Version) /\ Len(Versions!Behind) = Len(undo_stack)
         /\ \A i \in 1 .. Len(undo_stack) : Versions!Behind[i] = undo_stack[i].lines
<1> DEFINE n == Len(undo_stack)
           V == Version
<1>1. lines \in Version
  BY PlaceNow DEF Version
<1>2. /\ Shown \in Seq(Version) /\ n \in Nat /\ Len(redo_stack) \in Nat
      /\ Len(Shown) = n + 1 + Len(redo_stack) /\ Shown[n + 1] = lines
      /\ \A i \in 1 .. n : Shown[i] = undo_stack[i].lines
  BY <1>1, LineIs DEF InDocument, Shown, Middle
<1>3. Place = n + 1 /\ Place \in Nat /\ Place - 1 = n
  BY <1>2 DEF Place
<1> HIDE DEF n, V
<1>4. \A i \in 1 .. n : Shown[i] \in V
  <2>1. \A i \in 1 .. n : i \in 1 .. Len(Shown)
    BY <1>2
  <2>2. Shown \in Seq(V)
    BY <1>2 DEF V
  <2> QED
    BY <2>1, <2>2
<1>5. /\ SubSeq(Shown, 1, n) \in Seq(V) /\ Len(SubSeq(Shown, 1, n)) = IF 1 <= n THEN n - 1 + 1 ELSE 0
      /\ \A i \in 1 .. n - 1 + 1 : SubSeq(Shown, 1, n)[i] = Shown[1 + i - 1]
  BY <1>2, <1>4, SubSeqProperties
<1>6. Len(SubSeq(Shown, 1, n)) = n /\ \A i \in 1 .. n : SubSeq(Shown, 1, n)[i] = Shown[i]
  BY <1>2, <1>5
<1>7. Versions!Behind = SubSeq(Shown, 1, n)
  BY <1>3, VersionsAre
<1> QED
  BY <1>1, <1>2, <1>3, <1>5, <1>6, <1>7 DEF n, V

\* A key that changes the document makes a version, with or without its snapshot.
LEMMA ChangedIsChange ==
  ASSUME InDocument, NEW ls \in Version, NEW x, NEW y, Changed(ls, x, y)
  PROVE  Versions!Change \/ Versions!ChangeUnkept
<1> DEFINE B == Versions!Behind
           n == Len(undo_stack)
           A == Append(B, lines)
           kept == Versions!Newest(A)
           V == Version
<1>1. /\ B \in Seq(V) /\ Len(B) = n /\ n \in Nat /\ lines \in V /\ Shown[Place] = lines
      /\ \A i \in 1 .. n : B[i] = undo_stack[i].lines
  BY BehindIs
<1>2. /\ Shown' = Line3(undo_stack', ls, <<>>) /\ Place' = Len(undo_stack') + 1
      /\ undo_stack \in Seq(State) /\ Snapshot \in State /\ Snapshot.lines = lines
  BY DEF Changed, Shown, Place, InDocument, Snapshot
<1>3. CASE undo_stack' = undo_stack
  <2> HIDE DEF B, n, V
  <2>1. Shown' = Append(B, Last(Shown')) /\ Place' = Len(B) + 1
    BY <1>1, <1>2, <1>3, ShowsNew DEF n, V
  <2> QED
    BY <2>1, VersionsAre DEF B
<1>4. CASE undo_stack' = undo_stack_push(undo_stack, Snapshot)
  <2> DEFINE v == undo_stack_push(undo_stack, Snapshot)
             d == Lost(undo_stack)
  <2>1. /\ v \in Seq(State) /\ Len(v) = n + 1 - d /\ v[Len(v)] = Snapshot
        /\ \A i \in 1 .. Len(v) - 1 : v[i] = undo_stack[i + d]
        /\ d \in {0, 1} /\ d <= n
    BY <1>2, PushIs DEF Last, Pushed
  <2> HIDE DEF B, V
  <2>2. /\ A \in Seq(V) /\ Len(A) = n + 1 /\ A[n + 1] = lines
        /\ \A i \in 1 .. n : A[i] = undo_stack[i].lines
    BY <1>1, AppendProperties
  <2> HIDE DEF A
  <2>3. kept \in Seq(V) /\ Len(kept) = n + 1 - d /\ \A i \in 1 .. n + 1 - d : kept[i] = A[i + d]
    <3>1. MAX_UNDO_LEVELS \in Nat /\ n = Len(undo_stack)
      BY EditorAssumption
    <3> HIDE DEF n
    <3>2. CASE n >= MAX_UNDO_LEVELS
      <4>1. A # <<>> /\ Len(A) > MAX_UNDO_LEVELS /\ d = 1
        BY <1>1, <2>2, <3>1, <3>2 DEF Lost
      <4>2. /\ Tail(A) \in Seq(V) /\ Len(Tail(A)) = Len(A) - 1
            /\ \A i \in 1 .. Len(Tail(A)) : Tail(A)[i] = A[i + 1]
        BY <2>2, <4>1, HeadTailProperties
      <4>3. kept = Tail(A)
        BY <4>1 DEF Versions!Newest
      <4> HIDE DEF kept, d
      <4> QED
        BY <1>1, <2>2, <4>1, <4>2, <4>3
    <3>3. CASE ~(n >= MAX_UNDO_LEVELS)
      <4>1. ~(Len(A) > MAX_UNDO_LEVELS) /\ d = 0
        BY <1>1, <2>2, <3>1, <3>3 DEF Lost
      <4>2. kept = A
        BY <4>1 DEF Versions!Newest
      <4> HIDE DEF kept, d
      <4> QED
        BY <1>1, <2>2, <4>1, <4>2
    <3> QED
      BY <3>2, <3>3
  <2> HIDE DEF v, d, kept, n
  <2>4. \A i \in 1 .. Len(v) : kept[i] = v[i].lines
    <3> SUFFICES ASSUME NEW i \in 1 .. Len(v) PROVE kept[i] = v[i].lines
      OBVIOUS
    <3>1. kept[i] = A[i + d]
      BY <2>1, <2>3
    <3>2. CASE i = Len(v)
      <4>1. i + d = n + 1
        BY <1>1, <2>1, <3>2
      <4> QED
        BY <1>2, <2>1, <2>2, <3>1, <3>2, <4>1
    <3>3. CASE i # Len(v)
      <4>1. i \in 1 .. Len(v) - 1 /\ i + d \in 1 .. n
        BY <1>1, <2>1, <3>3
      <4> QED
        BY <2>1, <2>2, <3>1, <4>1
    <3> QED
      BY <3>2, <3>3
  <2>5. Shown' = Append(kept, Last(Shown')) /\ Place' = Len(kept) + 1
    <3>1. Shown' = Line3(v, ls, <<>>) /\ Place' = Len(v) + 1
      BY <1>2, <1>4 DEF v
    <3> QED
      BY <2>1, <2>3, <2>4, <3>1, ShowsNew DEF V
  <2>6. kept = Kept
    BY <1>1 DEF kept, A, B, Kept
  <2> QED
    BY <2>5, <2>6, VersionsAre
<1> QED
  BY <1>3, <1>4 DEF Changed, WithSnapshot

\* A text that is loaded, and a new editor, begin a line.
LEMMA NewIsReopen ==
  ASSUME lines' \in Version, undo_stack' = <<>>, redo_stack' = <<>>
  PROVE  Versions!Reopen
<1>1. Shown' = Line3(<<>>, lines', <<>>) /\ Place' = 0 + 1 /\ Len(<<>>) = 0
  BY DEF Shown, Place
<1>2. <<>> \in Seq(State) /\ <<>> \in Seq(Version) /\ \A i \in 1 .. 0 : FALSE
  OBVIOUS
<1>3. Line3(<<>>, lines', <<>>) = Append(<<>>, Last(Line3(<<>>, lines', <<>>)))
  BY <1>1, <1>2, ShowsNew
<1> QED
  BY <1>1, <1>3, VersionsAre
-----------------------------------------------------------------------------
\* A sequence without its element at k.
LEMMA RemoveAtIs ==
  ASSUME NEW S, NEW s \in Seq(S), NEW k \in 1 .. Len(s)
  PROVE  /\ RemoveAt(s, k) \in Seq(S) /\ Len(RemoveAt(s, k)) = Len(s) - 1
         /\ \A i \in 1 .. k - 1 : RemoveAt(s, k)[i] = s[i]
         /\ \A i \in k .. Len(s) - 1 : RemoveAt(s, k)[i] = s[i + 1]
<1> DEFINE n == Len(s)
           a == SubSeq(s, 1, k - 1)
           b == SubSeq(s, k + 1, n)
<1>1. n \in Nat /\ k \in 1 .. n /\ \A i \in 1 .. n : s[i] \in S
  OBVIOUS
<1>2. RemoveAt(s, k) = a \o b
  BY DEF RemoveAt
<1> HIDE DEF n
<1>3. a \in Seq(S) /\ Len(a) = k - 1 /\ \A i \in 1 .. k - 1 : a[i] = s[i]
  <2>1. \A i \in 1 .. k - 1 : s[i] \in S
    BY <1>1
  <2>2. /\ a \in Seq(S) /\ Len(a) = IF 1 <= k - 1 THEN k - 1 - 1 + 1 ELSE 0
        /\ \A i \in 1 .. k - 1 - 1 + 1 : a[i] = s[1 + i - 1]
    BY <1>1, <2>1, SubSeqProperties
  <2> HIDE DEF a
  <2> QED
    BY <1>1, <2>2
<1>4. b \in Seq(S) /\ Len(b) = n - k /\ \A i \in 1 .. n - k : b[i] = s[k + i]
  <2>1. \A i \in k + 1 .. n : s[i] \in S
    BY <1>1
  <2>2. k + 1 \in Int /\ n \in Int
    BY <1>1
  <2>3. /\ b \in Seq(S) /\ Len(b) = IF k + 1 <= n THEN n - (k + 1) + 1 ELSE 0
        /\ \A i \in 1 .. n - (k + 1) + 1 : b[i] = s[(k + 1) + i - 1]
    BY <2>1, <2>2, SubSeqProperties
  <2> HIDE DEF b
  <2>4. \A i \in 1 .. n - k : (k + 1) + i - 1 = k + i /\ i \in 1 .. n - (k + 1) + 1
    BY <1>1
  <2>5. Len(b) = n - k
    BY <1>1, <2>3
  <2> QED
    BY <2>3, <2>4, <2>5
<1> HIDE DEF a, b
<1>5. /\ a \o b \in Seq(S) /\ Len(a \o b) = n - 1
      /\ \A i \in 1 .. n - 1 : (a \o b)[i] = IF i <= k - 1 THEN a[i] ELSE b[i - (k - 1)]
  <2>1. /\ a \o b \in Seq(S) /\ Len(a \o b) = Len(a) + Len(b)
        /\ \A i \in 1 .. Len(a) + Len(b) : (a \o b)[i] = IF i <= Len(a) THEN a[i] ELSE b[i - Len(a)]
    BY <1>3, <1>4, ConcatProperties
  <2>2. Len(a) + Len(b) = n - 1
    BY <1>1, <1>3, <1>4
  <2> QED
    BY <1>3, <2>1, <2>2
<1>6. \A i \in 1 .. k - 1 : (a \o b)[i] = s[i]
  BY <1>1, <1>3, <1>5
<1>7. ASSUME NEW i \in k .. n - 1 PROVE (a \o b)[i] = s[i + 1]
  <2>1. i \in 1 .. n - 1 /\ ~(i <= k - 1) /\ i - (k - 1) \in 1 .. n - k /\ k + (i - (k - 1)) = i + 1
    BY <1>1
  <2> QED
    BY <1>4, <1>5, <2>1
<1> QED
  BY <1>1, <1>2, <1>5, <1>6, <1>7 DEF n

\* A stack with room only grows.
LEMMA PushWithRoom ==
  ASSUME NEW u \in Seq(State), NEW s \in State, NEW v, v = undo_stack_push(u, s), Lost(u) = 0
  PROVE  /\ v \in Seq(State) /\ Len(v) = Len(u) + 1 /\ Last(v) = s
         /\ \A i \in 1 .. Len(u) : v[i] = u[i]
<1>1. /\ v \in Seq(State) /\ Len(v) = Len(u) + 1 - Lost(u) /\ Last(v) = s
      /\ \A i \in 1 .. Len(v) - 1 : v[i] = u[i + Lost(u)]
      /\ Len(u) \in Nat
  BY PushIs DEF Pushed
<1>2. Len(v) = Len(u) + 1 /\ Len(v) - 1 = Len(u)
  BY <1>1
<1>3. \A i \in 1 .. Len(u) : i + Lost(u) = i
  BY <1>1
<1> QED
  BY <1>1, <1>2, <1>3

\* Going to the next version on one side, and what is left if the one that is left
\* behind could not be kept.
LEMMA GoneBack ==
  ASSUME NEW u \in Seq(State), NEW r \in Seq(State), NEW s \in State, u # <<>>,
         Len(u) + Len(r) <= MAX_UNDO_LEVELS
  PROVE  /\ Line3(Front(u), Last(u).lines, undo_stack_push(r, s)) = Line3(u, s.lines, r)
         /\ Line3(Front(u), Last(u).lines, r) = RemoveAt(Line3(u, s.lines, r), Len(u) + 1)
<1> DEFINE w == undo_stack_push(r, s)
           n == Len(u)
           m == Len(r)
           f == Front(u)
           l == Last(u)
           L == Line3(u, s.lines, r)
           M == Line3(f, l.lines, w)
           K == Line3(f, l.lines, r)
<1>1. /\ n \in Nat \ {0} /\ l = u[n] /\ l \in State /\ f \in Seq(State) /\ Len(f) = n - 1
      /\ \A i \in 1 .. n - 1 : f[i] = u[i]
  BY PopIs
<1>2. m \in Nat /\ Lost(r) = 0
  <2>1. m \in Nat /\ n \in Nat \ {0} /\ n + m <= MAX_UNDO_LEVELS /\ MAX_UNDO_LEVELS \in Nat
    BY <1>1, EditorAssumption
  <2> QED
    BY <2>1 DEF Lost
<1>3. /\ w \in Seq(State) /\ Len(w) = m + 1 /\ w[m + 1] = s
      /\ \A i \in 1 .. m : w[i] = r[i]
  BY <1>2, PushWithRoom, SMTT(30) DEF Last
<1>4. s.lines \in Version /\ l.lines \in Version
  BY <1>1 DEF State, Version
<1>5. /\ L \in Seq(Version) /\ Len(L) = n + 1 + m
      /\ \A i \in 1 .. n : L[i] = u[i].lines
      /\ L[n + 1] = s.lines
      /\ \A i \in 1 .. m : L[n + 1 + i] = r[m + 1 - i].lines
  BY <1>4, LineIs, ZenonT(30) DEF Middle
<1> HIDE DEF w, f, l, n, m, L
<1>6. /\ M \in Seq(Version) /\ Len(M) = n - 1 + 1 + (m + 1)
      /\ \A i \in 1 .. n - 1 : M[i] = f[i].lines
      /\ M[n - 1 + 1] = l.lines
      /\ \A i \in 1 .. m + 1 : M[n - 1 + 1 + i] = w[m + 1 + 1 - i].lines
  <2>1. /\ M \in Seq(Version) /\ Len(M) = Len(f) + 1 + Len(w)
        /\ \A i \in 1 .. Len(f) : M[i] = f[i].lines
        /\ Middle(f, l.lines, w) = l.lines
        /\ \A i \in 1 .. Len(w) : M[Len(f) + 1 + i] = w[Len(w) + 1 - i].lines
    <3>1. w \in Seq(State) /\ f \in Seq(State) /\ l.lines \in Version
      BY <1>1, <1>3, <1>4
    <3> QED
      BY <3>1, LineIs, ZenonT(30)
  <2>2. Middle(f, l.lines, w) = M[Len(f) + 1]
    BY DEF Middle
  <2> HIDE DEF M
  <2> QED
    BY <1>1, <1>3, <2>1, <2>2
<1>7. /\ K \in Seq(Version) /\ Len(K) = n - 1 + 1 + m
      /\ \A i \in 1 .. n - 1 : K[i] = f[i].lines
      /\ K[n - 1 + 1] = l.lines
      /\ \A i \in 1 .. m : K[n - 1 + 1 + i] = r[m + 1 - i].lines
  <2>1. /\ K \in Seq(Version) /\ Len(K) = Len(f) + 1 + Len(r)
        /\ \A i \in 1 .. Len(f) : K[i] = f[i].lines
        /\ Middle(f, l.lines, r) = l.lines
        /\ \A i \in 1 .. Len(r) : K[Len(f) + 1 + i] = r[Len(r) + 1 - i].lines
    BY <1>1, <1>4, LineIs, ZenonT(30)
  <2>2. m = Len(r) /\ Middle(f, l.lines, r) = K[Len(f) + 1]
    BY DEF m, Middle
  <2> HIDE DEF K
  <2> QED
    BY <1>1, <2>1, <2>2
<1> HIDE DEF M, K
<1>8. M = L
  <2>1. Len(M) = n + 1 + m /\ n + 1 + m \in Nat
    BY <1>1, <1>2, <1>6
  <2>2. ASSUME NEW i \in 1 .. n + 1 + m PROVE M[i] = L[i]
    <3>1. CASE i \in 1 .. n - 1
      <4>1. i \in 1 .. n
        BY <1>1, <3>1
      <4> QED
        BY <1>1, <1>5, <1>6, <3>1, <4>1
    <3>2. CASE i = n
      BY <1>1, <1>2, <1>5, <1>6, <3>2
    <3>3. CASE i = n + 1
      <4>1. 1 \in 1 .. m + 1 /\ n - 1 + 1 + 1 = n + 1 /\ m + 1 + 1 - 1 = m + 1
        BY <1>1, <1>2
      <4> QED
        BY <1>3, <1>5, <1>6, <3>3, <4>1
    <3>4. CASE i \in n + 2 .. n + 1 + m
      <4> DEFINE j == i - n - 1
      <4>1. /\ j \in 1 .. m /\ j + 1 \in 1 .. m + 1 /\ n - 1 + 1 + (j + 1) = i /\ n + 1 + j = i
            /\ m + 1 + 1 - (j + 1) = m + 1 - j /\ m + 1 - j \in 1 .. m
        BY <1>1, <1>2, <3>4
      <4> HIDE DEF j
      <4>2. M[i] = w[m + 1 - j].lines /\ L[i] = r[m + 1 - j].lines
        BY <1>5, <1>6, <4>1
      <4> QED
        BY <1>3, <4>1, <4>2
    <3>5. i \in 1 .. n - 1 \/ i = n \/ i = n + 1 \/ i \in n + 2 .. n + 1 + m
      BY <1>1, <1>2
    <3> QED
      BY <3>1, <3>2, <3>3, <3>4, <3>5
  <2> QED
    BY <1>5, <1>6, <2>1, <2>2, SameLine
<1>9. K = RemoveAt(L, n + 1)
  <2> DEFINE V == Version
             R == RemoveAt(L, n + 1)
  <2>1. L \in Seq(V) /\ n + 1 \in 1 .. Len(L)
    BY <1>1, <1>2, <1>5
  <2> HIDE DEF V
  <2>2. /\ R \in Seq(V) /\ Len(R) = Len(L) - 1
        /\ \A i \in 1 .. n + 1 - 1 : R[i] = L[i]
        /\ \A i \in n + 1 .. Len(L) - 1 : R[i] = L[i + 1]
    <3> DEFINE k == n + 1
    <3>1. k \in 1 .. Len(L) /\ n \in Nat /\ Len(L) \in Nat
      BY <1>1, <1>2, <2>1
    <3> HIDE DEF k
    <3>2. /\ RemoveAt(L, k) \in Seq(V) /\ Len(RemoveAt(L, k)) = Len(L) - 1
          /\ \A i \in 1 .. k - 1 : RemoveAt(L, k)[i] = L[i]
          /\ \A i \in k .. Len(L) - 1 : RemoveAt(L, k)[i] = L[i + 1]
      BY <2>1, <3>1, RemoveAtIs
    <3> QED
      BY <1>1, <1>2, <3>2 DEF k
  <2> HIDE DEF R
  <2>3. n + 1 - 1 = n /\ Len(L) - 1 = n + m /\ n + m \in Nat /\ Len(K) = n + m
    BY <1>1, <1>2, <1>5, <1>7
  <2>4. ASSUME NEW i \in 1 .. n + m PROVE K[i] = R[i]
    <3>1. CASE i \in 1 .. n - 1
      <4>1. i \in 1 .. n
        BY <1>1, <3>1
      <4>2. K[i] = f[i].lines /\ f[i] = u[i]
        BY <1>1, <1>7, <3>1
      <4>3. R[i] = L[i] /\ L[i] = u[i].lines
        BY <1>5, <2>2, <2>3, <4>1
      <4> QED
        BY <4>2, <4>3
    <3>2. CASE i = n
      <4>1. n \in 1 .. n /\ n - 1 + 1 = n
        BY <1>1
      <4> QED
        BY <1>1, <1>5, <1>7, <2>2, <2>3, <3>2, <4>1
    <3>3. CASE i \in n + 1 .. n + m
      <4> DEFINE j == i - n
      <4>1. j \in 1 .. m /\ n - 1 + 1 + j = i /\ n + 1 + j = i + 1
        BY <1>1, <1>2, <3>3
      <4> HIDE DEF j
      <4> QED
        BY <1>5, <1>7, <2>2, <2>3, <3>3, <4>1
    <3>4. i \in 1 .. n - 1 \/ i = n \/ i \in n + 1 .. n + m
      BY <1>1, <1>2
    <3> QED
      BY <3>1, <3>2, <3>3, <3>4
  <2> QED
    BY <1>7, <2>2, <2>3, <2>4, SameLine DEF V, R
<1> QED
  BY <1>8, <1>9 DEF w, f, l, L, M, K, n

\* The same the other way.
LEMMA GoneForward ==
  ASSUME NEW u \in Seq(State), NEW r \in Seq(State), NEW s \in State, r # <<>>,
         Len(u) + Len(r) <= MAX_UNDO_LEVELS
  PROVE  /\ Line3(undo_stack_push(u, s), Last(r).lines, Front(r)) = Line3(u, s.lines, r)
         /\ Line3(u, Last(r).lines, Front(r)) = RemoveAt(Line3(u, s.lines, r), Len(u) + 1)
         /\ Len(undo_stack_push(u, s)) = Len(u) + 1
<1> DEFINE w == undo_stack_push(u, s)
           n == Len(u)
           m == Len(r)
           f == Front(r)
           l == Last(r)
           L == Line3(u, s.lines, r)
           M == Line3(w, l.lines, f)
           K == Line3(u, l.lines, f)
<1>1. /\ m \in Nat \ {0} /\ l = r[m] /\ l \in State /\ f \in Seq(State) /\ Len(f) = m - 1
      /\ \A i \in 1 .. m - 1 : f[i] = r[i]
  BY PopIs
<1>2. n \in Nat /\ Lost(u) = 0
  <2>1. n \in Nat /\ m \in Nat \ {0} /\ n + m <= MAX_UNDO_LEVELS /\ MAX_UNDO_LEVELS \in Nat
    BY <1>1, EditorAssumption
  <2> QED
    BY <2>1 DEF Lost
<1>3. /\ w \in Seq(State) /\ Len(w) = n + 1 /\ w[n + 1] = s
      /\ \A i \in 1 .. n : w[i] = u[i]
  BY <1>2, PushWithRoom DEF Last
<1>4. s.lines \in Version /\ l.lines \in Version
  BY <1>1 DEF State, Version
<1>5. /\ L \in Seq(Version) /\ Len(L) = n + 1 + m
      /\ \A i \in 1 .. n : L[i] = u[i].lines
      /\ L[n + 1] = s.lines
      /\ \A i \in 1 .. m : L[n + 1 + i] = r[m + 1 - i].lines
  BY <1>4, LineIs, ZenonT(30) DEF Middle
<1>6. n = Len(u)
  BY DEF n
<1> HIDE DEF w, f, l, n, m, L
<1>7. /\ M \in Seq(Version) /\ Len(M) = n + 1 + 1 + (m - 1)
      /\ \A i \in 1 .. n + 1 : M[i] = w[i].lines
      /\ M[n + 1 + 1] = l.lines
      /\ \A i \in 1 .. m - 1 : M[n + 1 + 1 + i] = f[m - 1 + 1 - i].lines
  <2>1. /\ M \in Seq(Version) /\ Len(M) = Len(w) + 1 + Len(f)
        /\ \A i \in 1 .. Len(w) : M[i] = w[i].lines
        /\ Middle(w, l.lines, f) = l.lines
        /\ \A i \in 1 .. Len(f) : M[Len(w) + 1 + i] = f[Len(f) + 1 - i].lines
    <3>1. w \in Seq(State) /\ f \in Seq(State) /\ l.lines \in Version
      BY <1>1, <1>3, <1>4
    <3> QED
      BY <3>1, LineIs, ZenonT(30)
  <2>2. Middle(w, l.lines, f) = M[Len(w) + 1]
    BY DEF Middle
  <2> HIDE DEF M
  <2> QED
    BY <1>1, <1>3, <2>1, <2>2
<1>8. /\ K \in Seq(Version) /\ Len(K) = n + 1 + (m - 1)
      /\ \A i \in 1 .. n : K[i] = u[i].lines
      /\ K[n + 1] = l.lines
      /\ \A i \in 1 .. m - 1 : K[n + 1 + i] = f[m - 1 + 1 - i].lines
  <2>1. /\ K \in Seq(Version) /\ Len(K) = Len(u) + 1 + Len(f)
        /\ \A i \in 1 .. Len(u) : K[i] = u[i].lines
        /\ Middle(u, l.lines, f) = l.lines
        /\ \A i \in 1 .. Len(f) : K[Len(u) + 1 + i] = f[Len(f) + 1 - i].lines
    BY <1>1, <1>4, LineIs
  <2>2. Middle(u, l.lines, f) = K[Len(u) + 1]
    BY DEF Middle
  <2> HIDE DEF K
  <2> QED
    BY <1>1, <1>6, <2>1, <2>2
<1> HIDE DEF M, K

\* the versions that were ahead, by their place from here
<1>9. /\ L[n + 2] = l.lines
      /\ \A j \in 1 .. m - 1 : L[n + 2 + j] = f[m - j].lines
  <2>1. 1 \in 1 .. m /\ n + 1 + 1 = n + 2 /\ m + 1 - 1 = m
    BY <1>1, <1>2
  <2>2. L[n + 2] = l.lines
    BY <1>1, <1>5, <2>1
  <2>3. ASSUME NEW j \in 1 .. m - 1 PROVE L[n + 2 + j] = f[m - j].lines
    <3>1. j + 1 \in 1 .. m /\ n + 1 + (j + 1) = n + 2 + j /\ m + 1 - (j + 1) = m - j /\ m - j \in 1 .. m - 1
      BY <1>1, <1>2
    <3> QED
      BY <1>1, <1>5, <3>1
  <2> QED
    BY <2>2, <2>3
<1>10. M = L
  <2>1. Len(M) = n + 1 + m /\ n + 1 + m \in Nat
    BY <1>1, <1>2, <1>7
  <2>2. ASSUME NEW i \in 1 .. n + 1 + m PROVE M[i] = L[i]
    <3>1. CASE i \in 1 .. n
      <4>1. i \in 1 .. n + 1
        BY <1>2, <3>1
      <4> QED
        BY <1>3, <1>5, <1>7, <3>1, <4>1
    <3>2. CASE i = n + 1
      <4>1. i \in 1 .. n + 1
        BY <1>2, <3>2
      <4> QED
        BY <1>3, <1>5, <1>7, <3>2, <4>1
    <3>3. CASE i = n + 2
      BY <1>2, <1>7, <1>9, <3>3
    <3>4. CASE i \in n + 3 .. n + 1 + m
      <4> DEFINE j == i - n - 2
      <4>1. j \in 1 .. m - 1 /\ n + 1 + 1 + j = i /\ n + 2 + j = i /\ m - 1 + 1 - j = m - j
        BY <1>1, <1>2, <3>4
      <4> HIDE DEF j
      <4> QED
        BY <1>7, <1>9, <4>1
    <3>5. i \in 1 .. n \/ i = n + 1 \/ i = n + 2 \/ i \in n + 3 .. n + 1 + m
      BY <1>1, <1>2
    <3> QED
      BY <3>1, <3>2, <3>3, <3>4, <3>5
  <2> QED
    BY <1>5, <1>7, <2>1, <2>2, SameLine
<1>11. K = RemoveAt(L, n + 1)
  <2> DEFINE V == Version
             R == RemoveAt(L, n + 1)
  <2>1. L \in Seq(V) /\ n + 1 \in 1 .. Len(L)
    BY <1>1, <1>2, <1>5
  <2> HIDE DEF V
  <2>2. /\ R \in Seq(V) /\ Len(R) = Len(L) - 1
        /\ \A i \in 1 .. n + 1 - 1 : R[i] = L[i]
        /\ \A i \in n + 1 .. Len(L) - 1 : R[i] = L[i + 1]
    BY <1>1, <1>2, <2>1, RemoveAtIs
  <2> HIDE DEF R
  <2>3. n + 1 - 1 = n /\ Len(L) - 1 = n + m /\ n + m \in Nat /\ Len(K) = n + m
    BY <1>1, <1>2, <1>5, <1>8
  <2>4. ASSUME NEW i \in 1 .. n + m PROVE K[i] = R[i]
    <3>1. CASE i \in 1 .. n
      BY <1>5, <1>8, <2>2, <2>3, <3>1
    <3>2. CASE i = n + 1
      <4>1. i \in n + 1 .. n + m /\ i + 1 = n + 2
        BY <1>1, <1>2, <3>2
      <4> QED
        BY <1>8, <1>9, <2>2, <2>3, <3>2, <4>1
    <3>3. CASE i \in n + 2 .. n + m
      <4> DEFINE j == i - n - 1
      <4>1. /\ j \in 1 .. m - 1 /\ n + 1 + j = i /\ n + 2 + j = i + 1 /\ m - 1 + 1 - j = m - j
            /\ i \in n + 1 .. n + m
        BY <1>1, <1>2, <3>3
      <4> HIDE DEF j
      <4>2. K[i] = f[m - j].lines
        BY <1>8, <4>1
      <4>3. R[i] = L[n + 2 + j]
        BY <2>2, <2>3, <4>1
      <4> QED
        BY <1>9, <4>1, <4>2, <4>3
    <3>4. i \in 1 .. n \/ i = n + 1 \/ i \in n + 2 .. n + m
      BY <1>1, <1>2
    <3> QED
      BY <3>1, <3>2, <3>3, <3>4
  <2> QED
    BY <1>8, <2>2, <2>3, <2>4, SameLine DEF V, R
<1> QED
  BY <1>3, <1>10, <1>11 DEF w, f, l, L, M, K, n
-----------------------------------------------------------------------------
\* A change that fails forgets the oldest version, if it had to make room.
LEMMA UnchangedForgets ==
  ASSUME InDocument, Unchanged
  PROVE  Versions!ForgetOldest \/ UNCHANGED Versions!historyVars
<1> DEFINE n == Len(undo_stack)
           m == Len(redo_stack)
           v == undo_stack_push(undo_stack, Snapshot)
           f == Front(v)
           d == Lost(undo_stack)
           L == Line3(undo_stack, lines, redo_stack)
           M == Line3(f, lines, redo_stack)
<1>1. CASE undo_stack' = undo_stack
  <2>1. Shown' = Shown /\ Place' = Place
    BY <1>1 DEF Unchanged, Shown, Place, document
  <2> QED
    BY <2>1, VersionsAre
<1>2. CASE undo_stack' = f
  <2>1. /\ undo_stack \in Seq(State) /\ redo_stack \in Seq(State) /\ Snapshot \in State
        /\ lines \in Version /\ MAX_UNDO_LEVELS \in Nat \ {0}
    BY BehindIs, EditorAssumption DEF InDocument
  <2>2. /\ f \in Seq(State) /\ Len(f) = n - d /\ \A i \in 1 .. Len(f) : f[i] = undo_stack[i + d]
        /\ d \in {0, 1} /\ d <= n /\ n \in Nat
    BY <2>1, PushIs DEF Pushed
  <2>3. Shown = L /\ Shown' = M /\ Place = n + 1 /\ Place' = Len(f) + 1
    BY <1>2 DEF Unchanged, Shown, Place, document
  <2> HIDE DEF f, v
  <2>4. /\ L \in Seq(Version) /\ m \in Nat /\ Len(L) = n + 1 + m
        /\ \A i \in 1 .. n : L[i] = undo_stack[i].lines
        /\ Middle(undo_stack, lines, redo_stack) = lines
        /\ \A i \in 1 .. m : L[n + 1 + i] = redo_stack[m + 1 - i].lines
    BY <2>1, LineIs
  <2>5. /\ M \in Seq(Version) /\ Len(M) = Len(f) + 1 + m
        /\ \A i \in 1 .. Len(f) : M[i] = f[i].lines
        /\ Middle(f, lines, redo_stack) = lines
        /\ \A i \in 1 .. m : M[Len(f) + 1 + i] = redo_stack[m + 1 - i].lines
    BY <2>1, <2>2, LineIs
  <2>6. L[n + 1] = lines /\ M[Len(f) + 1] = lines
    BY <2>4, <2>5 DEF Middle
  <2>7. d = 1 <=> n >= MAX_UNDO_LEVELS
    BY DEF Lost
  <2> HIDE DEF L, M, n, m, d
  <2>8. CASE d = 0
    <3>1. Len(f) = n /\ \A i \in 1 .. n : f[i] = undo_stack[i]
      <4>1. Len(f) = n /\ \A i \in 1 .. n : i + d = i
        BY <2>2, <2>8
      <4> QED
        BY <2>2, <4>1
    <3>2. Len(L) = n + 1 + m /\ Len(M) = n + 1 + m /\ n + 1 + m \in Nat
      BY <2>2, <2>4, <2>5, <3>1
    <3>3. ASSUME NEW i \in 1 .. n + 1 + m PROVE L[i] = M[i]
      <4>1. CASE i \in 1 .. n
        <5>1. L[i] = undo_stack[i].lines /\ M[i] = f[i].lines
          BY <2>4, <2>5, <3>1, <4>1
        <5> QED
          BY <3>1, <4>1, <5>1
      <4>2. CASE i = n + 1
        BY <2>6, <3>1, <4>2
      <4>3. CASE i \in n + 2 .. n + 1 + m
        <5> DEFINE j == i - n - 1
        <5>1. j \in 1 .. m /\ n + 1 + j = i
          BY <2>2, <2>4, <4>3
        <5> HIDE DEF j
        <5> QED
          BY <2>4, <2>5, <3>1, <5>1
      <4>4. i \in 1 .. n \/ i = n + 1 \/ i \in n + 2 .. n + 1 + m
        BY <2>2, <2>4
      <4> QED
        BY <4>1, <4>2, <4>3, <4>4
    <3>4. L = M
      BY <2>4, <2>5, <3>2, <3>3, SameLine
    <3>5. Shown' = Shown /\ Place' = Place
      BY <2>3, <3>1, <3>4
    <3> QED
      BY <3>5, VersionsAre
  <2>9. CASE d = 1
    <3>1. L # <<>>
      <4>1. Len(L) # 0 /\ Len(<<>>) = 0
        BY <2>2, <2>4, EmptySeq
      <4> QED
        BY <4>1
    <3> DEFINE T == Tail(L)
               V == Version
    <3>2. T \in Seq(V) /\ Len(T) = Len(L) - 1 /\ \A i \in 1 .. Len(T) : T[i] = L[i + 1]
      <4>1. L \in Seq(V)
        BY <2>4
      <4> HIDE DEF V
      <4> QED
        BY <3>1, <4>1, HeadTailProperties
    <3> HIDE DEF T, V
    <3>3. Len(f) = n - 1 /\ n \in Nat \ {0} /\ \A i \in 1 .. n - 1 : f[i] = undo_stack[i + 1]
      BY <2>2, <2>9
    <3>4. Len(T) = n + m /\ Len(M) = n + m /\ n + m \in Nat
      BY <2>4, <2>5, <3>2, <3>3
    <3>5. ASSUME NEW i \in 1 .. n + m PROVE T[i] = M[i]
      <4>1. CASE i \in 1 .. n - 1
        <5>1. i + 1 \in 1 .. n
          BY <3>3, <4>1
        <5>2. T[i] = undo_stack[i + 1].lines
          BY <2>4, <3>2, <3>4, <5>1
        <5>3. M[i] = f[i].lines
          BY <2>5, <3>3, <4>1
        <5> QED
          BY <3>3, <4>1, <5>2, <5>3
      <4>2. CASE i = n
        <5>1. T[i] = L[n + 1] /\ Len(f) + 1 = n
          BY <3>2, <3>3, <3>4, <4>2
        <5> QED
          BY <2>6, <4>2, <5>1
      <4>3. CASE i \in n + 1 .. n + m
        <5> DEFINE j == i - n
        <5>1. j \in 1 .. m /\ Len(f) + 1 + j = i /\ n + 1 + j = i + 1
          BY <2>4, <3>3, <4>3
        <5> HIDE DEF j
        <5>2. T[i] = L[n + 1 + j]
          BY <3>2, <3>4, <5>1
        <5> QED
          BY <2>4, <2>5, <5>1, <5>2
      <4>4. i \in 1 .. n - 1 \/ i = n \/ i \in n + 1 .. n + m
        BY <3>3, <2>4
      <4> QED
        BY <4>1, <4>2, <4>3, <4>4
    <3>6. T = M
      BY <2>5, <3>2, <3>4, <3>5, SameLine DEF V
    <3>7. Place > MAX_UNDO_LEVELS /\ Place' = Place - 1 /\ Shown' = Tail(Shown)
      <4>1. n >= MAX_UNDO_LEVELS
        BY <2>7, <2>9
      <4> QED
        BY <2>1, <2>3, <3>3, <3>6, <4>1 DEF T
    <3> QED
      BY <3>7, VersionsAre
  <2> QED
    BY <2>2, <2>8, <2>9
<1> QED
  BY <1>1, <1>2 DEF Unchanged

\* Undo goes one version back, with or without room for the way forward.
LEMMA UndoIsUndo ==
  ASSUME InDocument, StacksFit, editor_undo
  PROVE  Versions!Undo \/ Versions!UndoUnkept
<1>1. /\ undo_stack \in Seq(State) /\ redo_stack \in Seq(State) /\ Snapshot \in State
      /\ undo_stack # <<>> /\ Len(undo_stack) + Len(redo_stack) <= MAX_UNDO_LEVELS
      /\ Snapshot.lines = lines
  BY DEF InDocument, StacksFit, editor_undo, Snapshot
<1>2. /\ Len(undo_stack) \in Nat \ {0} /\ Len(Front(undo_stack)) = Len(undo_stack) - 1
  BY <1>1, PopIs
<1>3. /\ Shown' = Line3(Front(undo_stack), Last(undo_stack).lines, redo_stack')
      /\ Place' = Len(Front(undo_stack)) + 1 /\ Place = Len(undo_stack) + 1
      /\ Shown = Line3(undo_stack, lines, redo_stack)
  BY DEF editor_undo, editor_state_restore, Shown, Place
<1>4. Place > 1 /\ Place' = Place - 1
  BY <1>2, <1>3
<1>5. /\ Line3(Front(undo_stack), Last(undo_stack).lines, undo_stack_push(redo_stack, Snapshot))
           = Line3(undo_stack, Snapshot.lines, redo_stack)
      /\ Line3(Front(undo_stack), Last(undo_stack).lines, redo_stack)
           = RemoveAt(Line3(undo_stack, Snapshot.lines, redo_stack), Len(undo_stack) + 1)
  BY <1>1, GoneBack
<1>6. Shown' = Shown \/ Shown' = RemoveAt(Shown, Place)
  BY <1>1, <1>3, <1>5 DEF editor_undo, WithSnapshot
<1> QED
  BY <1>4, <1>6, VersionsAre

\* Redo goes one version forward, with or without room for the way back.
LEMMA RedoIsRedo ==
  ASSUME InDocument, StacksFit, editor_redo
  PROVE  Versions!Redo \/ Versions!RedoUnkept
<1>1. /\ undo_stack \in Seq(State) /\ redo_stack \in Seq(State) /\ Snapshot \in State
      /\ redo_stack # <<>> /\ Len(undo_stack) + Len(redo_stack) <= MAX_UNDO_LEVELS
      /\ Snapshot.lines = lines
  BY DEF InDocument, StacksFit, editor_redo, Snapshot
<1>2. Len(redo_stack) \in Nat \ {0} /\ Len(undo_stack) \in Nat
  BY <1>1, PopIs
<1>3. /\ Shown' = Line3(undo_stack', Last(redo_stack).lines, Front(redo_stack))
      /\ Place' = Len(undo_stack') + 1 /\ Place = Len(undo_stack) + 1
      /\ Shown = Line3(undo_stack, lines, redo_stack)
  BY DEF editor_redo, editor_state_restore, Shown, Place
<1>4. Place < Len(Shown)
  BY <1>2, <1>3, BehindIs
<1>5. /\ Line3(undo_stack_push(undo_stack, Snapshot), Last(redo_stack).lines, Front(redo_stack))
           = Line3(undo_stack, Snapshot.lines, redo_stack)
      /\ Line3(undo_stack, Last(redo_stack).lines, Front(redo_stack))
           = RemoveAt(Line3(undo_stack, Snapshot.lines, redo_stack), Len(undo_stack) + 1)
      /\ Len(undo_stack_push(undo_stack, Snapshot)) = Len(undo_stack) + 1
  BY <1>1, GoneForward
<1>6. \/ Shown' = Shown /\ Place' = Place + 1
      \/ Shown' = RemoveAt(Shown, Place) /\ Place' = Place
  BY <1>1, <1>3, <1>5 DEF editor_redo, WithSnapshot
<1> QED
  BY <1>4, <1>6, VersionsAre

\* Every key is a step of the history or none.
LEMMA KeyIsStep ==
  ASSUME InDocument, StacksFit, InDocument', [EditorNext]_editorVars
  PROVE  [Versions!HistoryNext]_Versions!historyVars
<1>1. lines' \in Version
  BY PlaceNow, InDocument' DEF Version, InDocument, Snapshot, State
<1>2. CASE UNCHANGED <<lines, undo_stack, redo_stack>>
  <2>1. Shown' = Shown /\ Place' = Place
    BY <1>2 DEF Shown, Place
  <2> QED
    BY <2>1, VersionsAre
<1>3. CASE undo_stack' = <<>> /\ redo_stack' = <<>>
  BY <1>1, <1>3, NewIsReopen DEF Versions!HistoryNext
<1>4. ASSUME NEW ls, NEW x, NEW y, Changed(ls, x, y) PROVE Versions!HistoryNext
  <2>1. ls \in Version
    BY <1>1, <1>4 DEF Changed
  <2> QED
    BY <1>4, <2>1, ChangedIsChange DEF Versions!HistoryNext
<1>5. CASE Unchanged
  BY <1>5, UnchangedForgets DEF Versions!HistoryNext
<1>6. CASE editor_undo
  BY <1>6, UndoIsUndo DEF Versions!HistoryNext
<1>7. CASE editor_redo
  BY <1>7, RedoIsRedo DEF Versions!HistoryNext
<1>8. ASSUME NEW x, NEW y, MoveTo(x, y) PROVE UNCHANGED <<lines, undo_stack, redo_stack>>
  BY <1>8 DEF MoveTo, stacks
<1>9. ASSUME NEW c \in Char, editor_insert_char(c) PROVE [Versions!HistoryNext]_Versions!historyVars
  BY <1>4, <1>5, <1>9, Zenon DEF editor_insert_char
<1>10. CASE editor_insert_newline \/ editor_delete_backward \/ editor_delete_forward
  BY <1>4, <1>5, <1>10, Zenon
  DEF editor_insert_newline, editor_delete_backward, editor_delete_forward
<1>11. CASE editor_move_cursor
  <2>1. UNCHANGED <<lines, undo_stack, redo_stack>>
    BY <1>8, <1>11, Zenon
    DEF editor_move_cursor, Left, Right, Up, Down, Home, End, PageUp, PageDown, ClampTo
  <2> QED
    BY <1>2, <2>1
<1>12. CASE cmd_sn \/ OpenFile
  BY <1>3, <1>12, Zenon DEF cmd_sn, OpenFile, Loaded
<1>13. CASE editor_save \/ Quit
  <2>1. UNCHANGED <<lines, undo_stack, redo_stack>> \/ (undo_stack' = <<>> /\ redo_stack' = <<>>)
    BY <1>13 DEF editor_save, Quit, Saved, SaveFails, Closed, document, stacks
  <2> QED
    BY <1>2, <1>3, <2>1
<1>14. CASE UNCHANGED editorVars
  BY <1>2, <1>14 DEF editorVars, document, stacks
<1> QED
  BY <1>6, <1>7, <1>9, <1>10, <1>11, <1>12, <1>13, <1>14, Zenon DEF EditorNext

\* Undo and redo move along one line of versions, a change cuts off what was ahead,
\* and where memory is short one version is missing and no other (snake.c:362-431,
\* 845-957): the editor implements History, for every length of the stacks.
THEOREM EditorImplementsHistory == EditorSpec => ImplementsHistory
<1>1. EditorInit => StacksFit /\ Versions!HistoryInit
  <2> SUFFICES ASSUME EditorInit PROVE StacksFit /\ Versions!HistoryInit
    OBVIOUS
  <2>1. Shown = Line3(<<>>, << <<>> >>, <<>>) /\ Place = 0 + 1 /\ StacksFit
    BY EmptySeq, EditorAssumption DEF EditorInit, Shown, Place, StacksFit
  <2>2. << <<>> >> \in Version /\ <<>> \in Seq(State) /\ <<>> \in Seq(Version) /\ Len(<<>>) = 0
    BY EmptySeq DEF Version
  <2> DEFINE ls == << <<>> >>
             e == <<>>
  <2> HIDE DEF ls
  <2>3. Line3(e, ls, e) \in Seq(Version) /\ Len(Line3(e, ls, e)) = Len(e) + 1 + Len(e)
        /\ Middle(e, ls, e) = ls
    <3>1. e \in Seq(State) /\ ls \in Version
      BY <2>2 DEF ls
    <3> HIDE DEF e
    <3> QED
      BY <3>1, LineIs
  <2>4. /\ Line3(e, ls, e) \in Seq(Version) /\ Len(Line3(e, ls, e)) = 1
        /\ Line3(e, ls, e)[1] = ls
    BY <2>2, <2>3 DEF Middle
  <2>5. <<ls>> \in Seq(Version) /\ Len(<<ls>>) = 1 /\ <<ls>>[1] = ls
    <3>1. ls \in Version
      BY <2>2 DEF ls
    <3> HIDE DEF e
    <3> QED
      BY <3>1
  <2>6. Line3(e, ls, e) = <<ls>>
    BY <2>4, <2>5, SameLine
  <2> QED
    BY <2>1, <2>6, VersionsAre DEF ls
<1>2. InDocument /\ StacksFit /\ [EditorNext]_editorVars => InDocument' /\ StacksFit'
  BY InDocumentStep, StacksFitStep
<1>3. InDocument /\ StacksFit /\ InDocument' /\ [EditorNext]_editorVars
        => [Versions!HistoryNext]_Versions!historyVars
  BY KeyIsStep
<1> QED
  BY <1>1, <1>2, <1>3, InDocumentAtFirst, PTL DEF EditorSpec, ImplementsHistory, Versions!HistorySpec
=============================================================================
