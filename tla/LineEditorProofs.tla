-------------------------- MODULE LineEditorProofs --------------------------
(***************************************************************************)
(* The line editor for lines, terminals and histories of any size: what is  *)
(* on the screen, what editing does to the history, and what a history file *)
(* gives back.                                                              *)
(***************************************************************************)
EXTENDS LineEditor, LeastNumber, SequenceTheorems

Line == Seq(Text)

(* A part of a sequence. *)
LEMMA PartOfSequence ==
  ASSUME NEW S, NEW s \in Seq(S), NEW m \in 1..(Len(s) + 1), NEW n \in (m - 1)..Len(s)
  PROVE  /\ SubSeq(s, m, n) \in Seq(S) /\ Len(SubSeq(s, m, n)) = n - m + 1
         /\ \A i \in 1..(n - m + 1) : SubSeq(s, m, n)[i] = s[m + i - 1]
<1>1. Len(s) \in Nat
  BY LenProperties
<1>2. m \in Int /\ n \in Int /\ \A i \in m..n : s[i] \in S
  BY <1>1, ElementOfSeq
<1>3. /\ SubSeq(s, m, n) \in Seq(S)
      /\ Len(SubSeq(s, m, n)) = IF m <= n THEN n - m + 1 ELSE 0
      /\ \A i \in 1..(n - m + 1) : SubSeq(s, m, n)[i] = s[m + i - 1]
  BY <1>2, SubSeqProperties
<1> QED BY <1>1, <1>3

-----------------------------------------------------------------------------
(* The screen. *)

(* s shows the line with the cursor at place at. *)
Shows(s, line, at) ==
  \E shift \in 0..at :
    /\ s.cursor = at - shift
    /\ PromptLength + s.cursor < Columns
    /\ PromptLength + Len(s.text) <= Columns
    /\ shift + Len(s.text) <= Len(line)
    /\ s.text = SubSeq(line, shift + 1, shift + Len(s.text))
    /\ shift > 0 => PromptLength + s.cursor = Columns - 1
    /\ shift + Len(s.text) < Len(line) => PromptLength + Len(s.text) = Columns

Screens == [text : Line, cursor : Nat]

LEMMA RefreshShows ==
  ASSUME NEW line \in Line, NEW at \in 0..Len(line)
  PROVE  /\ refreshLine(line, at) \in Screens
         /\ Shows(refreshLine(line, at), line, at)
<1>1. PICK room \in Nat \ {0} : room = Columns - PromptLength /\ Columns = PromptLength + room
  BY ScreenAssumption
<1>2. PICK shift \in 0..at : shift = IF at >= room THEN at - room + 1 ELSE 0
  BY <1>1
<1>3. PICK length \in Nat :
        length = IF Len(line) - shift > room THEN room ELSE Len(line) - shift
  BY <1>1, <1>2
<1>4. PICK s : s = refreshLine(line, at)
  OBVIOUS
<1>5. s = [text |-> SubSeq(line, shift + 1, shift + length), cursor |-> at - shift]
  BY <1>1, <1>2, <1>3, <1>4 DEF refreshLine
<1>6. /\ SubSeq(line, shift + 1, shift + length) \in Line
      /\ Len(SubSeq(line, shift + 1, shift + length)) = length
      /\ shift + length <= Len(line)
  <2>1. PICK n \in Nat : n = Len(line) /\ at <= n
    BY LenProperties DEF Line
  <2>2. shift <= n /\ shift + length <= n
    BY <1>1, <1>2, <1>3, <2>1
  <2>3. shift + 1 \in 1..(n + 1) /\ shift + length \in (shift + 1 - 1)..n
    BY <2>2
  <2>4. shift + length - (shift + 1) + 1 = length
    BY <1>2
  <2> QED BY <2>1, <2>2, <2>3, <2>4, PartOfSequence DEF Line
<1>7. s.text = SubSeq(line, shift + 1, shift + length) /\ s.cursor = at - shift
  BY <1>5
<1>8. s \in Screens
  <2>1. at - shift \in Nat
    BY <1>2, LenProperties DEF Line
  <2> QED BY <1>5, <1>6, <2>1 DEF Screens
<1>9. Shows(s, line, at)
  <2>1. Len(s.text) = length
    BY <1>6, <1>7
  <2>2. /\ PromptLength + (at - shift) < Columns /\ PromptLength + length <= Columns
        /\ shift > 0 => PromptLength + (at - shift) = Columns - 1
        /\ shift + length < Len(line) => PromptLength + length = Columns
    BY <1>1, <1>2, <1>3, ScreenAssumption, LenProperties DEF Line
  <2> QED BY <1>2, <1>6, <1>7, <2>1, <2>2 DEF Shows
<1> QED BY <1>4, <1>8, <1>9

(* Behind the end of a line that fits, writing the character is enough. *)
LEMMA WrittenShows ==
  ASSUME NEW line \in Line, NEW c \in Text, NEW s \in Screens, Shows(s, line, Len(line)),
         PromptLength + Len(line) + 1 < Columns
  PROVE  Written(s, c) \in Screens /\ Shows(Written(s, c), Append(line, c), Len(line) + 1)
<1>1. PICK n \in Nat : n = Len(line)
  BY DEF Line
<1>2. s.cursor = n /\ Len(s.text) = n /\ s.text = SubSeq(line, 1, n)
  <2>1. PICK shift \in 0..n :
          /\ s.cursor = n - shift
          /\ PromptLength + s.cursor < Columns
          /\ PromptLength + Len(s.text) <= Columns
          /\ shift + Len(s.text) <= n
          /\ s.text = SubSeq(line, shift + 1, shift + Len(s.text))
          /\ shift > 0 => PromptLength + s.cursor = Columns - 1
          /\ shift + Len(s.text) < n => PromptLength + Len(s.text) = Columns
    BY <1>1 DEF Shows
  <2>2. Len(s.text) \in Nat
    BY DEF Screens, Line
  <2>3. shift = 0
    BY <1>1, <2>1, ScreenAssumption
  <2>4. Len(s.text) = n
    BY <1>1, <2>1, <2>2, <2>3, ScreenAssumption
  <2> QED BY <2>1, <2>3, <2>4
<1>3. s.text = line
  BY <1>1, <1>2 DEF Line
<1>4. SubSeq(line, 1, n) = line /\ SubSeq(line, n + 2, n) = << >>
  BY <1>1 DEF Line
<1>5. line \o <<c>> \o << >> = Append(line, c)
  BY DEF Line
<1>6. PICK t : t = Written(s, c) /\ t = [text |-> Append(line, c), cursor |-> n + 1]
  BY <1>2, <1>3, <1>4, <1>5 DEF Written
<1>7. /\ Append(line, c) \in Line /\ Len(Append(line, c)) = n + 1
      /\ SubSeq(Append(line, c), 1, n + 1) = Append(line, c)
  BY <1>1 DEF Line
<1>8. t \in Screens /\ t.text = Append(line, c) /\ t.cursor = n + 1
  BY <1>6, <1>7 DEF Screens
<1>9. Shows(t, Append(line, c), n + 1)
  <2>1. 0 \in 0..(n + 1) /\ 0 + 1 = 1 /\ 0 + (n + 1) = n + 1 /\ n + 1 - 0 = n + 1
    OBVIOUS
  <2> QED BY <1>1, <1>7, <1>8, <2>1, ScreenAssumption DEF Shows
<1> QED BY <1>1, <1>6, <1>8, <1>9

-----------------------------------------------------------------------------
(* The history. *)

LEMMA LatestFacts ==
  ASSUME NEW S, NEW h \in Seq(S), NEW n \in Nat
  PROVE  /\ Latest(h, n) \in Seq(S) /\ Len(Latest(h, n)) <= n
         /\ Len(h) <= n => Latest(h, n) = h
<1>1. PICK k \in Nat : k = Len(h)
  BY LenProperties
<1>2. CASE k <= n
  BY <1>1, <1>2 DEF Latest
<1>3. CASE k > n
  <2>1. /\ k - n + 1 \in 1..(k + 1) /\ k \in (k - n + 1 - 1)..k /\ k - (k - n + 1) + 1 = n
    BY <1>3
  <2>2. SubSeq(h, k - n + 1, k) \in Seq(S) /\ Len(SubSeq(h, k - n + 1, k)) = n
    BY <1>1, <2>1, PartOfSequence
  <2>3. Latest(h, n) = SubSeq(h, k - n + 1, k)
    BY <1>1, <1>3 DEF Latest
  <2> QED BY <1>1, <1>3, <2>2, <2>3
<1> QED BY <1>2, <1>3

(* The histories the code can hold. *)
Histories == {h \in Seq(Line) : Len(h) <= DefaultMax}

LEMMA AddFacts ==
  ASSUME NEW h \in Seq(Line), NEW line \in Line
  PROVE  /\ linenoiseHistoryAdd(h, line) \in Histories
         /\ linenoiseHistoryAdd(h, line) = Append(Latest(h, DefaultMax - 1), line)
         /\ Len(h) < DefaultMax => linenoiseHistoryAdd(h, line) = Append(h, line)
<1>1. PICK n \in Nat : n = DefaultMax - 1 /\ DefaultMax = n + 1
  BY HistoryAssumption
<1>2. PICK g \in Seq(Line) : g = Latest(h, n) /\ Len(g) <= n /\ (Len(h) <= n => g = h)
  BY LatestFacts
<1>3. Append(g, line) \in Seq(Line) /\ Len(Append(g, line)) = Len(g) + 1 /\ Len(g) \in Nat
      /\ Len(h) \in Nat
  BY AppendProperties, LenProperties
<1>4. linenoiseHistoryAdd(h, line) = Append(g, line)
  BY <1>1, <1>2 DEF linenoiseHistoryAdd
<1> QED BY <1>1, <1>2, <1>3, <1>4 DEF Histories

(* CutAt returns what is before the first c. *)
LEMMA CutFacts ==
  ASSUME NEW S, NEW line \in Seq(S), NEW c
  PROVE  \E k \in 0..Len(line) :
           /\ CutAt(line, c) = SubSeq(line, 1, k)
           /\ \A i \in 1..k : line[i] # c
           /\ k < Len(line) => line[k + 1] = c
<1>1. PICK n \in Nat : n = Len(line) /\ DOMAIN line = 1..n
  BY LenProperties
<1>2. CASE \E i \in 1..n : line[i] = c
  <2> DEFINE I == {i \in 1..n : line[i] = c}
  <2>1. PICK m \in I : \A i \in I : m <= i
    <3>1. I \in SUBSET Nat /\ I # {}
      BY <1>2
    <3> HIDE DEF I
    <3> QED BY <3>1, LeastElement
  <2>2. PICK first \in I : first = Min(I) /\ \A i \in I : first <= i
    <3> HIDE DEF I
    <3> QED BY <2>1 DEF Min
  <2>3. SelectInSeq(line, LAMBDA d : d = c) = Min(I)
    BY <1>1, <1>2 DEF SelectInSeq
  <2>4. CutAt(line, c) = SubSeq(line, 1, Min(I) - 1)
    BY <1>1, <1>2, <2>3 DEF CutAt
  <2>5. PICK k \in 0..n : k = first - 1 /\ k + 1 = first
    <3>1. first \in 1..n
      OBVIOUS
    <3>2. first - 1 \in 0..n /\ first - 1 + 1 = first
      BY <3>1
    <3> QED BY <3>2
  <2>6. \A i \in 1..k : line[i] # c
    BY <2>2, <2>5
  <2>7. line[k + 1] = c
    BY <2>2, <2>5
  <2> QED BY <1>1, <2>2, <2>4, <2>5, <2>6, <2>7
<1>3. CASE ~\E i \in 1..n : line[i] = c
  <2>1. CutAt(line, c) = line /\ SubSeq(line, 1, n) = line
    BY <1>1, <1>3, SubSeqFull DEF CutAt
  <2> QED BY <1>1, <1>3, <2>1
<1> QED BY <1>2, <1>3

FileText == Text \cup {NewLine}

(* A line that is read: a newline can only be its last character. *)
LEMMA ChompFacts ==
  ASSUME NEW t \in Line, NEW c \in FileText
  PROVE  Chomp(t) \in Line /\ Chomp(Append(t, c)) \in Line
<1>1. ASSUME NEW s \in Seq(FileText), \A i \in 1..(Len(s) - 1) : s[i] \in Text
      PROVE  Chomp(s) \in Line
  <2>1. PICK n \in Nat : n = Len(s) /\ DOMAIN s = 1..n
    BY LenProperties
  <2>2. ASSUME NEW k \in 0..n, \A i \in 1..k : s[i] \in Text
        PROVE  SubSeq(s, 1, k) \in Line
    <3>1. 1 \in Int /\ k \in Int
      OBVIOUS
    <3> QED BY <2>2, <3>1, SubSeqProperties DEF Line
  <2>3. CASE Contains(s, CarriageReturn)
    <3>1. PICK k \in 0..n : /\ CutAt(s, CarriageReturn) = SubSeq(s, 1, k)
                            /\ \A i \in 1..k : s[i] # CarriageReturn
      BY <2>1, CutFacts
    <3>2. k # n
      BY <2>1, <2>3, <3>1 DEF Contains
    <3>3. \A i \in 1..k : s[i] \in Text
      BY <1>1, <2>1, <3>2
    <3> QED BY <2>2, <2>3, <3>1, <3>3 DEF Chomp
  <2>4. CASE ~Contains(s, CarriageReturn)
    <3>1. PICK k \in 0..n : /\ CutAt(s, NewLine) = SubSeq(s, 1, k)
                            /\ \A i \in 1..k : s[i] # NewLine
      BY <2>1, CutFacts
    <3>2. \A i \in 1..k : s[i] \in Text
      BY <2>1, <3>1, ElementOfSeq DEF FileText
    <3> QED BY <2>2, <2>4, <3>1, <3>2 DEF Chomp
  <2> QED BY <2>3, <2>4
<1>2. t \in Seq(FileText) /\ Len(t) \in Nat /\ \A i \in 1..Len(t) : t[i] \in Text
  BY SeqMonotonic, ElementOfSeq, LenProperties DEF FileText, Line
<1>3. /\ Append(t, c) \in Seq(FileText) /\ Len(Append(t, c)) = Len(t) + 1
      /\ \A i \in 1..Len(t) : Append(t, c)[i] = t[i]
  BY <1>2, AppendProperties
<1>4. Chomp(t) \in Line
  BY <1>1, <1>2
<1>5. Chomp(Append(t, c)) \in Line
  <2>1. \A i \in 1..(Len(Append(t, c)) - 1) : Append(t, c)[i] \in Text
    BY <1>2, <1>3
  <2> QED BY <1>1, <1>3, <2>1
<1> QED BY <1>4, <1>5

(* What is saved grows by a line and its newline with every entry. *)
IsSaving(saved, h) ==
  /\ saved \in [0..Len(h) -> Seq(FileText)] /\ saved[0] = << >>
  /\ \A n \in 1..Len(h) : saved[n] = saved[n - 1] \o Append(h[n], NewLine)

LEMMA SaveFacts ==
  ASSUME NEW h \in Seq(Line)
  PROVE  \E saved : IsSaving(saved, h) /\ linenoiseHistorySave(h) = saved[Len(h)]
<1> DEFINE X == Seq(FileText)
           Is(f) == f = [n \in 0..Len(h) |-> IF n = 0 THEN << >>
                                             ELSE f[n - 1] \o Append(h[n], NewLine)]
           saved == CHOOSE f : Is(f)
           step == [p \in X \X (1..Len(h)) |-> p[1] \o Append(h[p[2]], NewLine)]
<1>1. Len(h) \in Nat /\ << >> \in X
  BY LenProperties, EmptySeq
<1>2. ASSUME NEW n \in 1..Len(h) PROVE Append(h[n], NewLine) \in X
  <2>1. h[n] \in Seq(FileText)
    BY ElementOfSeq, SeqMonotonic DEF Line, FileText
  <2> QED BY <2>1, AppendProperties DEF FileText
<1>3. step \in [X \X (1..Len(h)) -> X]
  BY <1>2, ConcatProperties
<1> HIDE DEF X
<1>4. PICK f \in [0..Len(h) -> X] :
        f[0] = << >> /\ \A n \in 1..Len(h) : f[n] = step[<<f[n - 1], n>>]
  <2>1. HasRecursionUpTo(X, Len(h))
    BY <1>1, FunctionByRecursionUpTo
  <2> HIDE DEF step
  <2> QED BY <1>1, <1>3, <2>1 DEF HasRecursionUpTo
<1>5. \A n \in 1..Len(h) : f[n] = f[n - 1] \o Append(h[n], NewLine)
  BY <1>1, <1>4
<1>6. Is(f)
  <2>1. \A n \in 0..Len(h) : n # 0 => n \in 1..Len(h)
    BY <1>1
  <2> QED BY <1>4, <1>5, <2>1
<1>7. Is(saved)
  <2> HIDE DEF Is
  <2> QED BY <1>6
<1>8. linenoiseHistorySave(h) = saved[Len(h)]
  BY Zenon DEF linenoiseHistorySave
<1> HIDE DEF saved
<1>9. /\ saved[0] = << >> /\ DOMAIN saved = 0..Len(h)
      /\ \A n \in 1..Len(h) : saved[n] = saved[n - 1] \o Append(h[n], NewLine)
  BY <1>1, <1>7
<1> DEFINE S == {n \in Nat : n <= Len(h) => saved[n] \in X}
<1>10. S = Nat
  <2>1. 0 \in S
    BY <1>1, <1>9
  <2>2. ASSUME NEW n \in S PROVE n + 1 \in S
    <3>1. CASE n + 1 <= Len(h)
      <4>1. n + 1 \in 1..Len(h) /\ n + 1 - 1 = n /\ n <= Len(h)
        BY <1>1, <3>1
      <4>2. saved[n + 1] = saved[n] \o Append(h[n + 1], NewLine)
        <5>1. PICK m \in 1..Len(h) : m = n + 1 /\ m - 1 = n
          BY <4>1
        <5>2. saved[m] = saved[m - 1] \o Append(h[m], NewLine)
          BY <1>9, Zenon
        <5> QED BY <5>1, <5>2, Zenon
      <4>3. saved[n] \in X /\ Append(h[n + 1], NewLine) \in X
        BY <1>2, <4>1
      <4> QED BY <4>2, <4>3, ConcatProperties DEF X
    <3> QED BY <3>1
  <2> HIDE DEF S
  <2>3. S \in SUBSET Nat
    BY DEF S
  <2> QED BY <2>1, <2>2, <2>3, NatInductionOnSets
<1>11. saved \in [0..Len(h) -> X]
  <2>1. \A n \in 0..Len(h) : saved[n] \in X
    BY <1>1, <1>10
  <2>2. saved = [n \in 0..Len(h) |-> saved[n]]
    BY <1>7
  <2> QED BY <2>1, <2>2
<1> QED BY <1>8, <1>9, <1>11 DEF IsSaving, X

(* What is read: a history, and the part of a line behind it. *)
Reads == [history : Histories, chunk : Line]

LEMMA ReadCharacterType ==
  ASSUME NEW r \in Reads, NEW c \in FileText
  PROVE  ReadCharacter(r, c) \in Reads
<1>1. PICK h \in Histories, t \in Line : r = [history |-> h, chunk |-> t]
  BY DEF Reads
<1>2. r.history = h /\ r.chunk = t /\ h \in Seq(Line) /\ << >> \in Line
  BY <1>1, EmptySeq DEF Histories, Line
<1>3. CASE FullChunk(Append(t, c))
  <2>1. Chomp(Append(t, c)) \in Line
    BY ChompFacts
  <2>2. linenoiseHistoryAdd(h, Chomp(Append(t, c))) \in Histories
    BY <1>2, <2>1, AddFacts
  <2>3. ReadCharacter(r, c) =
          [history |-> linenoiseHistoryAdd(h, Chomp(Append(t, c))), chunk |-> << >>]
    BY <1>2, <1>3 DEF ReadCharacter, AddChunk
  <2> QED BY <1>2, <2>2, <2>3 DEF Reads
<1>4. CASE ~FullChunk(Append(t, c))
  <2>1. t \in Seq(FileText) /\ Append(t, c) # << >> /\ Last(Append(t, c)) = c
    <3>1. t \in Seq(FileText)
      BY SeqMonotonic DEF Line, FileText
    <3> QED BY <3>1, AppendProperties DEF Last
  <2>2. c # NewLine
    BY <1>4, <2>1 DEF FullChunk
  <2>3. Append(t, c) \in Line
    BY <2>2, AppendProperties DEF Line, FileText
  <2>4. ReadCharacter(r, c) = [history |-> h, chunk |-> Append(t, c)]
    BY <1>2, <1>4 DEF ReadCharacter
  <2> QED BY <2>3, <2>4 DEF Reads
<1> QED BY <1>3, <1>4

NothingRead == [history |-> << >>, chunk |-> << >>]

LEMMA NothingReadType == NothingRead \in Reads /\ << >> \in Histories
<1>1. << >> \in Line /\ << >> \in Seq(Line) /\ Len(<< >>) = 0
  BY EmptySeq DEF Line
<1>2. << >> \in Histories
  BY <1>1, HistoryAssumption DEF Histories
<1> QED BY <1>1, <1>2 DEF NothingRead, Reads

IsReading(read, chars) ==
  /\ read \in [0..Len(chars) -> Reads] /\ read[0] = NothingRead
  /\ \A n \in 1..Len(chars) : read[n] = ReadCharacter(read[n - 1], chars[n])

LEMMA LoadFacts ==
  ASSUME NEW chars \in Seq(FileText)
  PROVE  \E read : /\ IsReading(read, chars)
                   /\ linenoiseHistoryLoad(chars) =
                        IF read[Len(chars)].chunk = << >> THEN read[Len(chars)].history
                        ELSE AddChunk(read[Len(chars)].history, read[Len(chars)].chunk).history
<1> DEFINE Is(f) == f = [n \in 0..Len(chars) |->
                           IF n = 0 THEN [history |-> << >>, chunk |-> << >>]
                           ELSE ReadCharacter(f[n - 1], chars[n])]
           read == CHOOSE f : Is(f)
           step == [p \in Reads \X (1..Len(chars)) |-> ReadCharacter(p[1], chars[p[2]])]
<1>1. Len(chars) \in Nat /\ NothingRead \in Reads
      /\ \A n \in 1..Len(chars) : chars[n] \in FileText
  BY LenProperties, NothingReadType, ElementOfSeq
<1>2. step \in [Reads \X (1..Len(chars)) -> Reads]
  BY <1>1, ReadCharacterType
<1>3. PICK f \in [0..Len(chars) -> Reads] :
        f[0] = NothingRead /\ \A n \in 1..Len(chars) : f[n] = step[<<f[n - 1], n>>]
  <2>1. HasRecursionUpTo(Reads, Len(chars))
    BY <1>1, FunctionByRecursionUpTo
  <2> HIDE DEF step
  <2> QED BY <1>1, <1>2, <2>1 DEF HasRecursionUpTo
<1>4. \A n \in 1..Len(chars) : f[n] = ReadCharacter(f[n - 1], chars[n])
  BY <1>1, <1>3
<1>5. Is(f)
  <2>1. \A n \in 0..Len(chars) : n # 0 => n \in 1..Len(chars)
    BY <1>1
  <2> QED BY <1>3, <1>4, <2>1 DEF NothingRead
<1>6. Is(read)
  <2> HIDE DEF Is
  <2> QED BY <1>5
<1>7. linenoiseHistoryLoad(chars) =
        IF read[Len(chars)].chunk = << >> THEN read[Len(chars)].history
        ELSE AddChunk(read[Len(chars)].history, read[Len(chars)].chunk).history
  BY Zenon DEF linenoiseHistoryLoad
<1> HIDE DEF read
<1>8. /\ read[0] = NothingRead
      /\ \A n \in 1..Len(chars) : read[n] = ReadCharacter(read[n - 1], chars[n])
  BY <1>1, <1>6 DEF NothingRead
<1> DEFINE S == {n \in Nat : n <= Len(chars) => read[n] \in Reads}
<1>9. S = Nat
  <2>1. 0 \in S
    BY <1>1, <1>8
  <2>2. ASSUME NEW n \in S PROVE n + 1 \in S
    <3>1. CASE n + 1 <= Len(chars)
      <4>1. n + 1 \in 1..Len(chars) /\ n + 1 - 1 = n /\ n <= Len(chars)
        BY <1>1, <3>1
      <4>2. read[n + 1] = ReadCharacter(read[n], chars[n + 1])
        BY <1>8, <4>1
      <4> QED BY <1>1, <4>1, <4>2, ReadCharacterType
    <3> QED BY <3>1
  <2> HIDE DEF S
  <2>3. S \in SUBSET Nat
    BY DEF S
  <2> QED BY <2>1, <2>2, <2>3, NatInductionOnSets
<1>10. read \in [0..Len(chars) -> Reads]
  <2>1. \A n \in 0..Len(chars) : read[n] \in Reads
    BY <1>1, <1>9
  <2>2. read = [n \in 0..Len(chars) |-> read[n]]
    BY <1>6
  <2> QED BY <2>1, <2>2
<1> QED BY <1>7, <1>8, <1>10 DEF IsReading

LEMMA LoadType ==
  ASSUME NEW chars \in Seq(FileText)
  PROVE  linenoiseHistoryLoad(chars) \in Histories
<1>1. PICK read : /\ IsReading(read, chars)
                  /\ linenoiseHistoryLoad(chars) =
                       IF read[Len(chars)].chunk = << >> THEN read[Len(chars)].history
                       ELSE AddChunk(read[Len(chars)].history, read[Len(chars)].chunk).history
  BY LoadFacts
<1>2. PICK h \in Histories, t \in Line : read[Len(chars)] = [history |-> h, chunk |-> t]
  <2>1. Len(chars) \in 0..Len(chars)
    BY LenProperties
  <2> QED BY <1>1, <2>1 DEF IsReading, Reads
<1>3. h \in Seq(Line) /\ Chomp(t) \in Line
  BY ChompFacts DEF Histories, FileText
<1>4. AddChunk(h, t).history = linenoiseHistoryAdd(h, Chomp(t))
  BY DEF AddChunk
<1> QED BY <1>1, <1>2, <1>3, <1>4, AddFacts

-----------------------------------------------------------------------------
(* The inductive invariant. *)

TypeInv ==
  /\ phase \in {"off", "idle", "editing"}
  /\ history \in Histories /\ before \in Seq(Line) /\ file \in Seq(FileText)
  /\ buf \in Line /\ pos \in 0..Len(buf) /\ index \in Nat /\ screen \in Screens
  /\ phase = "editing" => index < Len(history)

(* While a line is edited, the history is the one from before and its slot.  *)
KeptInv ==
  phase = "editing" =>
    /\ Len(history) = Len(Latest(before, DefaultMax - 1)) + 1
    /\ \A i \in 1..Len(Latest(before, DefaultMax - 1)) :
         i \notin left => history[i] = Latest(before, DefaultMax - 1)[i]

ScreenInv == phase = "editing" => Shows(screen, buf, pos)

Inv == TypeInv /\ KeptInv /\ ScreenInv

LEMMA InvInit == Init => Inv
<1> SUFFICES ASSUME Init PROVE Inv
  OBVIOUS
<1>1. << >> \in Line /\ << >> \in Seq(Line) /\ << >> \in Histories /\ Len(<< >>) = 0
  BY EmptySeq, NothingReadType DEF Line
<1>2. file \in Seq(FileText)
  <2>1. PICK h \in OldHistories : file = linenoiseHistorySave(h)
    BY DEF Init
  <2>2. h \in Seq(Line) /\ Len(h) \in Nat
    BY TextAssumption, LenProperties DEF Line
  <2>3. PICK saved : IsSaving(saved, h) /\ linenoiseHistorySave(h) = saved[Len(h)]
    BY <2>2, SaveFacts
  <2> QED BY <2>1, <2>2, <2>3 DEF IsSaving
<1>3. Blank \in Screens
  BY <1>1 DEF Blank, Screens
<1>4. TypeInv
  BY <1>1, <1>2, <1>3 DEF Init, TypeInv
<1> QED BY <1>4 DEF Init, Inv, KeptInv, ScreenInv

(* The end of a session, and a line read. *)
LEMMA LeavesFacts ==
  ASSUME TypeInv, NEW h \in Histories, Leaves(h)
  PROVE  history' \in Histories /\ file' \in Seq(FileText) /\ phase' = "off"
<1>1. h \in Seq(Line) /\ SavedMax \in Nat
  BY HistoryAssumption DEF Histories
<1>2. PICK g \in Seq(Line) : g = linenoiseHistorySetMaxLen(h)
  BY <1>1, LatestFacts DEF linenoiseHistorySetMaxLen
<1>3. Len(g) \in Nat
  BY LenProperties
<1>4. PICK saved : IsSaving(saved, g) /\ linenoiseHistorySave(g) = saved[Len(g)]
  BY SaveFacts
<1> QED BY <1>2, <1>3, <1>4, NothingReadType DEF Leaves, IsSaving

LEMMA ProcessFacts ==
  ASSUME TypeInv, NEW h \in Histories, NEW line \in Line, Process(h, line)
  PROVE  history' \in Histories /\ file' \in Seq(FileText) /\ phase' \in {"idle", "off"}
<1>1. h \in Seq(Line)
  BY DEF Histories
<1>2. linenoiseHistoryAdd(h, line) \in Histories
  BY <1>1, AddFacts
<1>3. CASE Leaves(linenoiseHistoryAdd(h, line))
  BY <1>2, <1>3, LeavesFacts
<1>4. CASE ~Leaves(linenoiseHistoryAdd(h, line))
  BY <1>2, <1>4 DEF Process, TypeInv
<1> QED BY <1>3, <1>4

(* After a line nothing is edited. *)
LEMMA NotEditing ==
  ASSUME TypeInv, history' \in Histories, file' \in Seq(FileText),
         phase' \in {"idle", "off"}, before' \in Seq(Line), UNCHANGED editor
  PROVE  Inv'
<1>1. TypeInv'
  BY DEF TypeInv, editor
<1> QED BY <1>1 DEF Inv, KeptInv, ScreenInv

LEMMA SessionStep ==
  ASSUME Inv, Start \/ ReadPlain \/ EndOfFile \/ Enter \/ CtrlDEmpty \/ CtrlC \/ ReadFails
  PROVE  Inv'
<1>0. /\ TypeInv /\ history \in Histories /\ history \in Seq(Line) /\ buf \in Line
      /\ before \in Seq(Line) /\ file \in Seq(FileText)
  BY DEF Inv, TypeInv, Histories
<1>1. CASE Start
  <2>1. history' \in Histories
    BY <1>0, <1>1, LoadType DEF Start
  <2> QED BY <1>0, <1>1, <2>1, NotEditing DEF Start, editor
<1>2. CASE ReadPlain
  <2>1. PICK line \in PlainLines :
          Process(history, IF terminal = "dumb" THEN CutAt(line, CarriageReturn) ELSE line)
    BY <1>2 DEF ReadPlain
  <2>2. line \in Line /\ CutAt(line, CarriageReturn) \in Line
    <3>1. line \in Seq(Text)
      BY TextAssumption
    <3>2. PICK k \in 0..Len(line) : CutAt(line, CarriageReturn) = SubSeq(line, 1, k)
      BY <3>1, CutFacts
    <3>3. Len(line) \in Nat /\ 1 \in 1..(Len(line) + 1) /\ k \in (1 - 1)..Len(line)
      BY <3>1, LenProperties
    <3> QED BY <3>1, <3>2, <3>3, PartOfSequence DEF Line
  <2>3. PICK l \in Line : Process(history, l)
    BY <2>1, <2>2
  <2>4. history' \in Histories /\ file' \in Seq(FileText) /\ phase' \in {"idle", "off"}
    BY <1>0, <2>3, ProcessFacts
  <2> QED BY <1>0, <1>2, <2>4, NotEditing DEF ReadPlain
<1>3. CASE EndOfFile
  <2>1. history' \in Histories /\ file' \in Seq(FileText) /\ phase' = "off"
    BY <1>0, <1>3, LeavesFacts DEF EndOfFile, NoLine
  <2> QED BY <1>0, <1>3, <2>1, NotEditing DEF EndOfFile
<1>4. CASE Done
  <2>1. FreeLatest(history) \in Histories
    <3>1. PICK n \in Nat : n = Len(history) /\ n > 0 /\ n <= DefaultMax
      BY <1>0, <1>4, LenProperties DEF Done, Inv, TypeInv, Histories
    <3>2. 1 \in 1..(n + 1) /\ n - 1 \in (1 - 1)..n /\ n - 1 - 1 + 1 = n - 1
      BY <3>1
    <3>3. Front(history) \in Seq(Line) /\ Len(Front(history)) = n - 1
      BY <1>0, <3>1, <3>2, PartOfSequence DEF Front
    <3>4. n - 1 <= DefaultMax
      BY <3>1, HistoryAssumption
    <3> QED BY <3>3, <3>4 DEF FreeLatest, Histories
  <2>2. CASE Enter \/ ReadFails
    <3>1. PICK h \in Histories : Process(h, buf)
      BY <1>0, <2>1, <2>2 DEF Enter, ReadFails
    <3>2. history' \in Histories /\ file' \in Seq(FileText) /\ phase' \in {"idle", "off"}
      BY <1>0, <3>1, ProcessFacts
    <3> QED BY <1>0, <1>4, <3>2, NotEditing DEF Done
  <2>3. CASE CtrlDEmpty \/ CtrlC
    <3>1. PICK h \in Histories : Leaves(h)
      BY <1>0, <2>1, <2>3 DEF CtrlDEmpty, CtrlC, NoLine
    <3>2. history' \in Histories /\ file' \in Seq(FileText) /\ phase' = "off"
      BY <1>0, <3>1, LeavesFacts
    <3> QED BY <1>0, <1>4, <3>2, NotEditing DEF Done
  <2>4. CASE Start \/ ReadPlain \/ EndOfFile
    BY <1>1, <1>2, <1>3, <2>4
  <2> QED BY <2>2, <2>3, <2>4
<1> QED BY <1>1, <1>2, <1>3, <1>4 DEF Enter, CtrlDEmpty, CtrlC, ReadFails

LEMMA PromptStep == ASSUME Inv, Prompt PROVE Inv'
<1>1. /\ history \in Seq(Line) /\ << >> \in Line /\ Len(<< >>) = 0 /\ DefaultMax - 1 \in Nat
      /\ file \in Seq(FileText)
  BY EmptySeq, HistoryAssumption DEF Inv, TypeInv, Histories, Line
<1>2. PICK old \in Seq(Line) : old = Latest(history, DefaultMax - 1)
  BY <1>1, LatestFacts
<1>3. /\ history' \in Histories /\ history' = Append(old, << >>) /\ before' = history
      /\ Latest(before', DefaultMax - 1) = old
  BY <1>1, <1>2, AddFacts DEF Prompt
<1>4. /\ Len(history') = Len(old) + 1 /\ Len(old) \in Nat
      /\ \A i \in 1..Len(old) : history'[i] = old[i]
  BY <1>1, <1>3, AppendProperties, LenProperties
<1>5. Blank \in Screens /\ Shows(Blank, << >>, 0)
  <2>2. SubSeq(<< >>, 1, 0) = << >>
    OBVIOUS
  <2>3. PICK room \in Nat \ {0} : room = Columns - PromptLength
    BY ScreenAssumption
  <2>4. ~(0 >= room) /\ ~(0 - 0 > room) /\ 0 - 0 = 0 /\ 0 + 1 = 1 /\ 0 + 0 = 0
    BY <2>3
  <2>5. refreshLine(<< >>, 0) = Blank
    BY <1>1, <2>2, <2>3, <2>4 DEF refreshLine, Blank
  <2>6. 0 \in 0..Len(<< >>)
    BY <1>1
  <2> QED BY <1>1, <2>5, <2>6, RefreshShows
<1>6. TypeInv'
  <2>1. 0 \in 0..Len(<< >>) /\ 0 < Len(history')
    BY <1>1, <1>4
  <2> QED BY <1>1, <1>3, <1>5, <2>1 DEF TypeInv, Prompt
<1>7. KeptInv'
  BY <1>3, <1>4 DEF KeptInv
<1>8. ScreenInv'
  BY <1>5 DEF ScreenInv, Prompt
<1> QED BY <1>6, <1>7, <1>8 DEF Inv

-----------------------------------------------------------------------------
(* The keys. *)

(* What every key leaves alone. *)
Editing == phase = "editing" /\ phase' = "editing" /\ UNCHANGED <<before, file>>

LEMMA KeyEdits == ASSUME Key PROVE Editing
  BY DEF Key, Editing, session

LEMMA IgnoredKeeps == ASSUME Inv, Editing, Ignored PROVE Inv'
<1>1. TypeInv'
  BY DEF Inv, TypeInv, Editing, Ignored
<1>2. KeptInv'
  BY DEF Inv, KeptInv, Editing, Ignored
<1>3. ScreenInv'
  BY DEF Inv, ScreenInv, Editing, Ignored
<1> QED BY <1>1, <1>2, <1>3 DEF Inv

(* A line and its screen made anew, in the same history. *)
LEMMA ShownKeeps ==
  ASSUME Inv, Editing, UNCHANGED <<index, history, left>>,
         buf' \in Line, pos' \in 0..Len(buf'), screen' \in Screens, Shows(screen', buf', pos')
  PROVE  Inv'
<1>1. TypeInv'
  BY DEF Inv, TypeInv, Editing
<1>2. KeptInv'
  BY DEF Inv, KeptInv, Editing
<1> QED BY <1>1, <1>2 DEF Inv, ScreenInv

LEMMA BecomesKeeps ==
  ASSUME Inv, Editing, NEW line \in Line, NEW at \in 0..Len(line), Becomes(line, at)
  PROVE  Inv'
<1>1. screen' \in Screens /\ Shows(screen', line, at)
  BY RefreshShows DEF Becomes
<1> QED BY <1>1, ShownKeeps DEF Becomes

(* The line without the characters from i to j. *)
LEMMA WithoutFacts ==
  ASSUME buf \in Line, NEW i \in 0..Len(buf), NEW j \in 0..Len(buf)
  PROVE  /\ Take(i) \in Line /\ Len(Take(i)) = i
         /\ Drop(j) \in Line /\ Len(Drop(j)) = Len(buf) - j
         /\ Take(i) \o Drop(j) \in Line /\ Len(Take(i) \o Drop(j)) = i + (Len(buf) - j)
<1>1. PICK n \in Nat : n = Len(buf)
  BY LenProperties DEF Line
<1>2. /\ 1 \in 1..(n + 1) /\ i \in (1 - 1)..n /\ i - 1 + 1 = i
      /\ j + 1 \in 1..(n + 1) /\ n \in (j + 1 - 1)..n /\ n - (j + 1) + 1 = n - j
  BY <1>1
<1>3. Take(i) \in Line /\ Len(Take(i)) = i
  BY <1>1, <1>2, PartOfSequence DEF Take, Line
<1>4. Drop(j) \in Line /\ Len(Drop(j)) = n - j
  BY <1>1, <1>2, PartOfSequence DEF Drop, Line
<1>5. Take(i) \o Drop(j) \in Line /\ Len(Take(i) \o Drop(j)) = Len(Take(i)) + Len(Drop(j))
  BY <1>3, <1>4, ConcatProperties DEF Line
<1> QED BY <1>1, <1>3, <1>4, <1>5

LEMMA InsertStep == ASSUME Inv, Insert PROVE Inv'
<1>0. Editing
  BY KeyEdits DEF Insert
<1>1. PICK c \in Characters : linenoiseEditInsert(c)
  BY DEF Insert
<1>2. c \in Text
  BY DEF Text
<1>3. PICK n \in Nat : n = Len(buf) /\ buf \in Line /\ pos \in 0..n
  BY LenProperties DEF Inv, TypeInv, Line
<1>4. CASE Ignored
  BY <1>0, <1>4, IgnoredKeeps
<1>5. CASE /\ pos = n /\ PromptLength + n + 1 < Columns
           /\ buf' = Append(buf, c) /\ pos' = pos + 1 /\ screen' = Written(screen, c)
           /\ UNCHANGED <<index, history, left>>
  <2>1. screen \in Screens /\ Shows(screen, buf, n)
    BY <1>0, <1>5 DEF Inv, TypeInv, ScreenInv, Editing
  <2>2. screen' \in Screens /\ Shows(screen', buf', pos')
    BY <1>2, <1>3, <1>5, <2>1, WrittenShows
  <2>3. buf' \in Line /\ Len(buf') = n + 1
    BY <1>2, <1>3, <1>5, AppendProperties DEF Line
  <2>4. pos' \in 0..Len(buf')
    BY <1>3, <1>5, <2>3
  <2> QED BY <1>0, <1>5, <2>2, <2>3, <2>4, ShownKeeps
<1>6. CASE Becomes(Take(pos) \o <<c>> \o Drop(pos), pos + 1)
  <2>1. Take(pos) \in Line /\ Len(Take(pos)) = pos /\ Drop(pos) \in Line /\ Len(Drop(pos)) = n - pos
    BY <1>3, WithoutFacts
  <2>2. <<c>> \in Line /\ Len(<<c>>) = 1
    BY <1>2 DEF Line
  <2>3. Take(pos) \o <<c>> \in Line /\ Len(Take(pos) \o <<c>>) = pos + 1
    BY <2>1, <2>2, ConcatProperties DEF Line
  <2>4. PICK first \in Line, last \in Line :
          first = Take(pos) \o <<c>> /\ last = Drop(pos) /\ Len(first) = pos + 1 /\ Len(last) = n - pos
    BY <2>1, <2>3
  <2>5. PICK line \in Line : line = first \o last /\ Len(line) = Len(first) + Len(last)
    BY ConcatProperties DEF Line
  <2>6. pos + 1 \in 0..Len(line)
    BY <1>3, <2>4, <2>5
  <2> QED BY <1>0, <1>6, <2>4, <2>5, <2>6, BecomesKeeps
<1> QED BY <1>1, <1>3, <1>4, <1>5, <1>6 DEF linenoiseEditInsert

LEMMA MoveStep ==
  ASSUME Inv, MoveLeft \/ MoveRight \/ CtrlA \/ CtrlE \/ CtrlL \/ CtrlU \/ CtrlK
  PROVE  Inv'
<1>0. Editing
  BY KeyEdits DEF MoveLeft, MoveRight, CtrlA, CtrlE, CtrlL, CtrlU, CtrlK
<1>1. PICK n \in Nat : n = Len(buf) /\ buf \in Line /\ pos \in 0..n
  BY LenProperties DEF Inv, TypeInv, Line
<1>2. CASE Ignored
  BY <1>0, <1>2, IgnoredKeeps
<1>3. ASSUME NEW at \in 0..n, Becomes(buf, at) PROVE Inv'
  BY <1>0, <1>1, <1>3, BecomesKeeps
<1>4. CASE MoveLeft
  <2>1. pos > 0 => pos - 1 \in 0..n
    BY <1>1
  <2> QED BY <1>2, <1>3, <1>4, <2>1 DEF MoveLeft
<1>5. CASE MoveRight
  <2>1. pos # n => pos + 1 \in 0..n
    BY <1>1
  <2> QED BY <1>1, <1>2, <1>3, <1>5, <2>1 DEF MoveRight
<1>6. CASE CtrlA \/ CtrlE \/ CtrlL
  <2>1. 0 \in 0..n /\ n \in 0..n
    BY <1>1
  <2> QED BY <1>1, <1>3, <1>6, <2>1 DEF CtrlA, CtrlE, CtrlL
<1>7. CASE CtrlU
  <2>1. << >> \in Line /\ Len(<< >>) = 0 /\ 0 \in 0..0
    BY EmptySeq DEF Line
  <2> QED BY <1>0, <1>7, <2>1, BecomesKeeps DEF CtrlU
<1>8. CASE CtrlK
  <2>1. Take(pos) \in Line /\ Len(Take(pos)) = pos /\ pos \in 0..pos
    BY <1>1, WithoutFacts
  <2> QED BY <1>0, <1>8, <2>1, BecomesKeeps DEF CtrlK
<1> QED BY <1>4, <1>5, <1>6, <1>7, <1>8

LEMMA DeleteStep ==
  ASSUME Inv, Backspace \/ DeleteKey \/ CtrlD \/ DeletePrevWord
  PROVE  Inv'
<1>0. Editing
  BY KeyEdits DEF Backspace, DeleteKey, CtrlD, DeletePrevWord
<1>1. PICK n \in Nat : n = Len(buf) /\ buf \in Line /\ pos \in 0..n
  BY LenProperties DEF Inv, TypeInv, Line
<1>2. CASE Ignored
  BY <1>0, <1>2, IgnoredKeeps
<1>3. ASSUME NEW i \in 0..n, NEW j \in 0..n, Becomes(Take(i) \o Drop(j), i)
      PROVE  Inv'
  <2>1. PICK line \in Line : line = Take(i) \o Drop(j) /\ Len(line) = i + (n - j)
    BY <1>1, WithoutFacts
  <2>2. i \in 0..Len(line)
    BY <1>1, <2>1
  <2> QED BY <1>0, <1>3, <2>1, <2>2, BecomesKeeps
<1>4. CASE Backspace
  <2>1. pos > 0 => pos - 1 \in 0..n
    BY <1>1
  <2> QED BY <1>1, <1>2, <1>3, <1>4, <2>1 DEF Backspace
<1>5. CASE DeleteKey \/ CtrlD
  <2>1. pos < n => pos + 1 \in 0..n
    BY <1>1
  <2> QED BY <1>1, <1>2, <1>3, <1>5, <2>1 DEF DeleteKey, CtrlD, linenoiseEditDelete
<1>6. CASE DeletePrevWord
  <2> DEFINE word  == {i \in 1..pos : ~(buf[i] = Space)}
             inner == {i \in 1..pos : buf[i] = Space /\ \E j \in word : i < j}
             last  == CHOOSE i \in inner : \A j \in inner : j <= i
             start == IF word = {} THEN 0 ELSE IF inner = {} THEN 0 ELSE last
  <2>1. Becomes(Take(start) \o Drop(pos), start)
    BY <1>6 DEF DeletePrevWord, linenoiseEditDeletePrevWord
  <2>2. inner \in SUBSET (1..pos)
    OBVIOUS
  <2> HIDE DEF inner, word
  <2>3. CASE inner # {}
    <3> DEFINE Back == {k \in Nat : \E i \in inner : k = pos - i}
    <3>1. Back \in SUBSET Nat /\ Back # {}
      <4>1. PICK i \in inner : i \in 1..pos
        BY <2>2, <2>3
      <4>2. pos - i \in Nat
        BY <1>1, <4>1
      <4> QED BY <4>1, <4>2
    <3>2. PICK k \in Back : \A m \in Back : k <= m
      <4> HIDE DEF Back
      <4> QED BY <3>1, LeastElement
    <3>3. PICK i \in inner : k = pos - i
      OBVIOUS
    <3>4. ASSUME NEW j \in inner PROVE j <= i
      <4>1. j \in 1..pos /\ i \in 1..pos
        BY <2>2
      <4>2. pos - j \in Back
        BY <1>1, <4>1
      <4>3. k <= pos - j
        BY <3>2, <4>2
      <4> QED BY <1>1, <3>3, <4>1, <4>3
    <3>5. last \in inner
      BY <3>4
    <3>6. \A j \in 1..pos : j \in 0..n
      BY <1>1
    <3>7. last \in 0..n /\ 0 \in 0..n
      <4> HIDE DEF last
      <4> QED BY <1>1, <2>2, <3>5, <3>6
    <3>8. start \in 0..n
      <4> HIDE DEF last
      <4> QED BY <3>7
    <3> QED BY <1>1, <1>3, <2>1, <3>8
  <2>4. CASE inner = {}
    <3>1. start = 0 /\ 0 \in 0..n
      BY <1>1, <2>4
    <3> QED BY <1>1, <1>3, <2>1, <3>1
  <2> QED BY <2>3, <2>4
<1> QED BY <1>4, <1>5, <1>6

LEMMA SwapStep == ASSUME Inv, Swap PROVE Inv'
<1>0. Editing
  BY KeyEdits DEF Swap
<1>1. PICK n \in Nat : n = Len(buf) /\ buf \in Line /\ pos \in 0..n
  BY LenProperties DEF Inv, TypeInv, Line
<1>2. CASE Ignored
  BY <1>0, <1>2, IgnoredKeeps
<1>3. CASE pos > 0 /\ pos < n
  <2>1. pos \in 1..n /\ pos + 1 \in 1..n
    BY <1>1, <1>3
  <2>2. buf[pos] \in Text /\ buf[pos + 1] \in Text
    BY <1>1, <2>1, ElementOfSeq DEF Line
  <2>3. PICK line : line = [buf EXCEPT ![pos] = buf[pos + 1], ![pos + 1] = buf[pos]]
    OBVIOUS
  <2>4. ASSUME NEW l \in Line, NEW i \in 1..n, NEW c \in Text, Len(l) = n
        PROVE  [l EXCEPT ![i] = c] \in Line /\ Len([l EXCEPT ![i] = c]) = n
    BY <1>1, <2>4, ExceptSeq, LenProperties DEF Line
  <2>5. PICK half \in Line : half = [buf EXCEPT ![pos] = buf[pos + 1]] /\ Len(half) = n
    BY <1>1, <2>1, <2>2, <2>4
  <2>6. line \in Line /\ Len(line) = n
    <3>1. line = [half EXCEPT ![pos + 1] = buf[pos]]
      BY <2>3, <2>5
    <3> QED BY <2>1, <2>2, <2>4, <2>5, <3>1
  <2>7. PICK at \in 0..n : at = IF pos # Len(buf) - 1 THEN pos + 1 ELSE pos
    BY <1>1, <2>1
  <2> QED BY <1>0, <1>1, <1>3, <2>3, <2>6, <2>7, BecomesKeeps DEF Swap
<1> QED BY <1>1, <1>2, <1>3 DEF Swap

(* The entry edited is saved, and no other one changes. *)
LEMMA SavedFacts ==
  ASSUME Inv, phase = "editing"
  PROVE  \E n \in Nat :
           /\ n = Len(history) /\ index \in 0..(n - 1) /\ Place(history, index) \in 1..n
           /\ \A i \in 0..(n - 1) : Place(history, i) \in 1..n /\ Place(history, i) = n - i
           /\ Saved(history) \in Histories /\ Len(Saved(history)) = n
           /\ Saved(history)[Place(history, index)] = buf
           /\ \A j \in 1..n : j # Place(history, index) => Saved(history)[j] = history[j]
<1>1. PICK n \in Nat : n = Len(history) /\ n <= DefaultMax /\ index < n
  BY LenProperties DEF Inv, TypeInv, Histories
<1>2. history \in Seq(Line) /\ buf \in Line /\ index \in Nat
  BY DEF Inv, TypeInv, Histories
<1>3. index \in 0..(n - 1)
  BY <1>1, <1>2
<1>4. \A i \in 0..(n - 1) : n - i \in 1..n
  BY <1>1
<1>5. \A i \in 0..(n - 1) : Place(history, i) \in 1..n /\ Place(history, i) = n - i
  BY <1>1, <1>4 DEF Place
<1>6. PICK place \in 1..n : place = Place(history, index)
  BY <1>3, <1>5
<1>7. Saved(history) = [history EXCEPT ![place] = buf]
  BY <1>6 DEF Saved
<1>8. PICK h \in Seq(Line) : h = Saved(history) /\ Len(h) = n
        /\ \A j \in 1..n : h[j] = IF j = place THEN buf ELSE history[j]
  BY <1>1, <1>2, <1>7, ExceptSeq
<1>9. h \in Histories
  BY <1>1, <1>8 DEF Histories
<1>10. h[place] = buf
  BY <1>8
<1> QED BY <1>1, <1>3, <1>5, <1>6, <1>8, <1>9, <1>10

LEMMA FittingType == ASSUME NEW entry \in Line PROVE Fitting(entry) \in Line
<1>1. PICK n \in Nat : n = Len(entry)
  BY LenProperties DEF Line
<1>2. PICK k \in 0..n : k = IF n < MaxLine THEN n ELSE MaxLine - 1
  BY LineAssumption
<1>3. 1 \in 1..(n + 1) /\ k \in (1 - 1)..n
  BY <1>1, <1>2
<1> QED BY <1>1, <1>2, <1>3, PartOfSequence DEF Fitting, Line

(* Up and down: Inv, and what WalkingLosesNothing says of them. *)
LEMMA WalkStep ==
  ASSUME Inv, HistoryPrev \/ HistoryNext
  PROVE  /\ Inv' /\ Len(history') = Len(history)
         /\ index' # index => /\ history'[Place(history, index)] = buf
                              /\ buf' = Fitting(history[Place(history, index')])
<1>0. Editing
  BY KeyEdits DEF HistoryPrev, HistoryNext
<1>1. CASE Ignored
  BY <1>0, <1>1, IgnoredKeeps DEF Ignored
<1>2. CASE ~Ignored
  <2>1. PICK back \in BOOLEAN : linenoiseEditHistoryNext(back)
    BY DEF HistoryPrev, HistoryNext
  <2>2. /\ history' = Saved(history)
        /\ left' = left \cup {Place(history, index)}
        /\ IF (back /\ index + 1 < Len(history)) \/ (~back /\ index > 0)
           THEN LET i    == IF back THEN index + 1 ELSE index - 1
                    line == Fitting(history'[Place(history, i)])
                IN  /\ index' = i /\ buf' = line /\ pos' = Len(line)
                    /\ screen' = refreshLine(line, Len(line))
           ELSE UNCHANGED <<index, buf, pos, screen>>
    BY <1>2, <2>1 DEF linenoiseEditHistoryNext
  <2>3. PICK n \in Nat :
           /\ n = Len(history) /\ index \in 0..(n - 1) /\ Place(history, index) \in 1..n
           /\ \A i \in 0..(n - 1) : Place(history, i) \in 1..n /\ Place(history, i) = n - i
           /\ Saved(history) \in Histories /\ Len(Saved(history)) = n
           /\ Saved(history)[Place(history, index)] = buf
           /\ \A j \in 1..n : j # Place(history, index) => Saved(history)[j] = history[j]
    BY <1>0, SavedFacts DEF Editing
  <2>4. /\ history' \in Histories /\ Len(history') = n /\ history'[Place(history, index)] = buf
        /\ \A j \in 1..n : j # Place(history, index) => history'[j] = history[j]
    BY <2>2, <2>3
  <2>5. KeptInv'
    <3>1. PICK m \in Nat, old \in Seq(Line) : old = Latest(before, DefaultMax - 1) /\ m = Len(old)
      <4>1. before \in Seq(Line) /\ DefaultMax - 1 \in Nat
        BY HistoryAssumption DEF Inv, TypeInv
      <4> QED BY <4>1, LatestFacts, LenProperties
    <3>2. n = m + 1 /\ \A i \in 1..m : i \notin left => history[i] = old[i]
      BY <1>0, <2>3, <3>1 DEF Inv, KeptInv, Editing
    <3>3. Latest(before', DefaultMax - 1) = old
      BY <1>0, <3>1 DEF Editing
    <3>4. \A i \in 1..m : i \in 1..n
      BY <3>2
    <3>5. \A i \in 1..m : i \notin left' => history'[i] = old[i]
      BY <2>2, <2>4, <3>2, <3>4
    <3> QED BY <2>4, <3>1, <3>2, <3>3, <3>5 DEF KeptInv
  <2>6. CASE UNCHANGED <<index, buf, pos, screen>>
    <3>1. TypeInv'
      BY <1>0, <2>3, <2>4, <2>6 DEF Inv, TypeInv, Editing
    <3>2. ScreenInv'
      BY <1>0, <2>6 DEF Inv, ScreenInv, Editing
    <3> QED BY <2>3, <2>4, <2>5, <2>6, <3>1, <3>2 DEF Inv
  <2>7. CASE (back /\ index + 1 < Len(history)) \/ (~back /\ index > 0)
    <3>1. PICK i \in 0..(n - 1) : i = (IF back THEN index + 1 ELSE index - 1) /\ i # index
      BY <2>3, <2>7
    <3>2. PICK j \in 1..n : j = Place(history, i) /\ j = n - i
      BY <2>3
    <3>3. /\ index' = i /\ buf' = Fitting(history'[j])
          /\ pos' = Len(Fitting(history'[j]))
          /\ screen' = refreshLine(Fitting(history'[j]), Len(Fitting(history'[j])))
      BY <2>2, <2>7, <3>1, <3>2
    <3>4. PICK k \in 1..n : k = Place(history, index) /\ k = n - index
      BY <2>3
    <3>5. j # k
      BY <2>3, <3>1, <3>2, <3>4
    <3>6. history'[j] = history[j]
      BY <2>4, <3>4, <3>5
    <3>7. history[j] \in Line
      <4>1. history \in Seq(Line)
        BY DEF Inv, TypeInv, Histories
      <4> QED BY <2>3, <4>1, ElementOfSeq
    <3>8. PICK line \in Line : line = Fitting(history[j]) /\ Len(line) \in 0..Len(line)
      BY <3>7, FittingType, LenProperties DEF Line
    <3>9. screen' \in Screens /\ Shows(screen', buf', pos')
      BY <3>3, <3>6, <3>8, RefreshShows
    <3>10. TypeInv'
      <4>1. i \in Nat /\ i < n
        BY <3>1
      <4> QED BY <1>0, <2>4, <3>3, <3>6, <3>8, <3>9, <4>1 DEF Inv, TypeInv, Editing
    <3>11. ScreenInv'
      BY <3>9 DEF ScreenInv
    <3> QED BY <2>3, <2>4, <2>5, <3>2, <3>3, <3>6, <3>10, <3>11 DEF Inv
  <2> QED BY <2>2, <2>6, <2>7
<1> QED BY <1>1, <1>2

LEMMA InvStep == Inv /\ [Next]_vars => Inv'
<1> SUFFICES ASSUME Inv, [Next]_vars PROVE Inv'
  OBVIOUS
<1>1. CASE Start \/ ReadPlain \/ EndOfFile \/ Enter \/ CtrlDEmpty \/ CtrlC \/ ReadFails
  BY <1>1, SessionStep
<1>2. CASE Prompt
  BY <1>2, PromptStep
<1>3. CASE Edit
  BY <1>3, InsertStep, MoveStep, DeleteStep, SwapStep, WalkStep DEF Edit
<1>4. CASE UNCHANGED vars
  <2>1. TypeInv'
    BY <1>4 DEF Inv, TypeInv, vars
  <2>2. KeptInv'
    BY <1>4 DEF Inv, KeptInv, vars
  <2>3. ScreenInv'
    BY <1>4 DEF Inv, ScreenInv, vars
  <2> QED BY <2>1, <2>2, <2>3 DEF Inv
<1> QED BY <1>1, <1>2, <1>3, <1>4 DEF Next

LEMMA InvHolds == Spec => []Inv
  BY InvInit, InvStep, PTL DEF Spec

(* Whatever was typed, deleted and moved, on a line of any length and a     *)
(* terminal of any size that is wider than the prompt (ScreenAssumption):   *)
(* the screen shows the part of the line around the cursor                  *)
(* (refreshSingleLine, linenoiseEditInsert).  On a narrower terminal the    *)
(* subtractions of refreshSingleLine wrap around, and nothing is said.      *)
THEOREM ScreenAlwaysShowsLine == Spec => []ScreenShowsLine
<1>1. Inv => ScreenShowsLine
  BY DEF Inv, ScreenInv, Shows, ScreenShowsLine
<1> QED BY <1>1, InvHolds, PTL

-----------------------------------------------------------------------------
(* Editing and the history. *)

LEMMA FrontOfAppended ==
  ASSUME NEW S, NEW s \in Seq(S), NEW e \in S
  PROVE  Front(Append(s, e)) = s
<1>1. PICK t \in Seq(S), n \in Nat : /\ t = Append(s, e) /\ n = Len(s) /\ Len(t) = n + 1
                                    /\ \A i \in 1..n : t[i] = s[i]
  <2>1. Append(s, e) \in Seq(S) /\ Len(s) \in Nat /\ Len(Append(s, e)) = Len(s) + 1
        /\ \A i \in 1..Len(s) : Append(s, e)[i] = s[i]
    BY AppendProperties, LenProperties
  <2> QED BY <2>1, Zenon
<1>2. 1 \in 1..(n + 1 + 1) /\ n \in (1 - 1)..(n + 1) /\ n - 1 + 1 = n /\ n + 1 - 1 = n
      /\ \A i \in 1..n : 1 + i - 1 = i
  BY <1>1
<1>3. PICK u \in Seq(S) : u = SubSeq(t, 1, n) /\ Len(u) = n /\ \A i \in 1..n : u[i] = t[i]
  BY <1>1, <1>2, PartOfSequence
<1>4. u = s
  BY <1>1, <1>3, SeqEqual
<1> QED BY <1>1, <1>2, <1>3, <1>4 DEF Front

LEMMA EnterAdds ==
  ASSUME Inv, Enter
  PROVE  \/ phase' = "idle" /\ Last(history') = buf /\ Keeps(Front(history'))
         \/ phase' = "off"
<1>1. CASE phase' = "off"
  BY <1>1
<1>2. CASE phase' # "off"
  <2>1. history' = linenoiseHistoryAdd(Front(history), buf) /\ phase' = "idle"
    BY <1>2 DEF Enter, Process, Leaves, FreeLatest
  <2>2. PICK m \in Nat, old \in Seq(Line) :
          /\ old = Latest(before, DefaultMax - 1) /\ m = Len(old) /\ m <= DefaultMax - 1
    <3>1. before \in Seq(Line) /\ DefaultMax - 1 \in Nat
      BY HistoryAssumption DEF Inv, TypeInv
    <3> QED BY <3>1, LatestFacts, LenProperties
  <2>3. /\ Len(history) = m + 1 /\ history \in Seq(Line) /\ buf \in Line
        /\ \A i \in 1..m : i \notin left => history[i] = old[i]
    BY <2>2 DEF Enter, Done, Inv, KeptInv, TypeInv, Histories
  <2>4. /\ 1 \in 1..(m + 1 + 1) /\ m + 1 - 1 \in (1 - 1)..(m + 1)
        /\ m + 1 - 1 = m /\ m - 1 + 1 = m /\ \A i \in 1..m : 1 + i - 1 = i
    BY <2>2
  <2>5. PICK front \in Seq(Line) :
          /\ front = Front(history) /\ Len(front) = m
          /\ \A i \in 1..m : front[i] = history[i]
    <3>1. 1 \in 1..(Len(history) + 1) /\ m \in (1 - 1)..Len(history)
      BY <2>3, <2>4
    <3>2. /\ SubSeq(history, 1, m) \in Seq(Line) /\ Len(SubSeq(history, 1, m)) = m
          /\ \A i \in 1..m : SubSeq(history, 1, m)[i] = history[i]
      BY <2>3, <2>4, <3>1, PartOfSequence
    <3>3. Front(history) = SubSeq(history, 1, m)
      BY <2>3, <2>4 DEF Front
    <3> QED BY <3>2, <3>3
  <2>6. history' = Append(front, buf)
    <3>1. m < DefaultMax
      BY <2>2, HistoryAssumption
    <3> QED BY <2>1, <2>3, <2>5, <3>1, AddFacts
  <2>7. Last(history') = buf /\ Front(history') = front
    <3>1. Len(history') = m + 1 /\ history'[m + 1] = buf
      BY <2>3, <2>5, <2>6, AppendProperties
    <3>2. Front(Append(front, buf)) = front
      BY <2>3, <2>5, FrontOfAppended
    <3> QED BY <2>6, <3>1, <3>2 DEF Last
  <2>8. Keeps(front)
    <3>1. DOMAIN old = 1..m
      BY <2>2, LenProperties
    <3> QED BY <2>2, <2>3, <2>5, <3>1 DEF Keeps
  <2> QED BY <2>1, <2>7, <2>8
<1> QED BY <1>1, <1>2

(* All other keys leave the history alone. *)
LEMMA OtherKeysKeep ==
  ASSUME Edit, ~HistoryPrev, ~HistoryNext
  PROVE  UNCHANGED <<history, index>>
<1>1. \/ Ignored
      \/ \E line, at : Becomes(line, at)
      \/ \E c \in Characters : linenoiseEditInsert(c)
  BY DEF Edit, Insert, MoveLeft, MoveRight, Backspace, DeleteKey, CtrlD, Swap,
         DeletePrevWord, CtrlU, CtrlK, CtrlA, CtrlE, CtrlL, linenoiseEditDelete,
         linenoiseEditDeletePrevWord
<1> QED BY <1>1 DEF Ignored, Becomes, linenoiseEditInsert

(* No line of the history is lost by walking through it and editing, or by  *)
(* entering a line, in a history of any length                              *)
(* (linenoiseEditHistoryNext, linenoiseHistoryAdd).                         *)
THEOREM HistoryIsKept == Spec => EditingKeepsHistory
<1>1. Inv /\ [Next]_vars =>
        [Enter => \/ phase' = "idle" /\ Last(history') = buf /\ Keeps(Front(history'))
                  \/ phase' = "off"]_vars
  BY EnterAdds
<1>2. Inv /\ [Next]_vars =>
        [phase = "editing" /\ phase' = "editing" =>
           /\ Len(history') = Len(history)
           /\ index' # index =>
                /\ history'[Place(history, index)] = buf
                /\ buf' = Fitting(history[Place(history, index')])]_vars
  <2> SUFFICES ASSUME Inv, Next, phase = "editing", phase' = "editing"
               PROVE  /\ Len(history') = Len(history)
                      /\ index' # index =>
                           /\ history'[Place(history, index)] = buf
                           /\ buf' = Fitting(history[Place(history, index')])
    OBVIOUS
  <2>1. Edit
    BY DEF Next, Start, Prompt, ReadPlain, EndOfFile, Enter, CtrlDEmpty, CtrlC, ReadFails,
           NoLine, Process, Leaves
  <2>2. CASE HistoryPrev \/ HistoryNext
    BY <2>2, WalkStep
  <2>3. CASE ~HistoryPrev /\ ~HistoryNext
    BY <2>1, <2>3, OtherKeysKeep
  <2> QED BY <2>2, <2>3
<1>3. Spec => EnteringAddsOneLine
  BY <1>1, InvHolds, PTL DEF Spec, EnteringAddsOneLine
<1>4. Spec => WalkingLosesNothing
  BY <1>2, InvHolds, PTL DEF Spec, WalkingLosesNothing
<1> QED BY <1>3, <1>4 DEF EditingKeepsHistory

-----------------------------------------------------------------------------
(* The history file, read back. *)

LEMMA OneMore ==
  ASSUME NEW S, NEW s \in Seq(S), NEW i \in Nat, i < Len(s)
  PROVE  /\ SubSeq(s, 1, i) \in Seq(S) /\ Len(SubSeq(s, 1, i)) = i
         /\ Append(SubSeq(s, 1, i), s[i + 1]) = SubSeq(s, 1, i + 1)
<1>1. PICK n \in Nat : n = Len(s) /\ i + 1 \in 1..n /\ i + 1 \in Nat
  BY LenProperties
<1>2. ASSUME NEW k \in 0..n
      PROVE  /\ SubSeq(s, 1, k) \in Seq(S) /\ Len(SubSeq(s, 1, k)) = k
             /\ \A j \in 1..k : SubSeq(s, 1, k)[j] = s[j]
  <2>1. 1 \in 1..(n + 1) /\ k \in (1 - 1)..n /\ k - 1 + 1 = k /\ \A j \in 1..k : 1 + j - 1 = j
    BY <1>1
  <2> QED BY <1>1, <2>1, PartOfSequence
<1>3. i \in 0..n /\ i + 1 \in 0..n
  BY <1>1
<1>4. PICK a \in Seq(S) : a = SubSeq(s, 1, i) /\ Len(a) = i /\ \A j \in 1..i : a[j] = s[j]
  BY <1>2, <1>3
<1>5. PICK b \in Seq(S) :
        b = SubSeq(s, 1, i + 1) /\ Len(b) = i + 1 /\ \A j \in 1..(i + 1) : b[j] = s[j]
  BY <1>2, <1>3
<1>6. s[i + 1] \in S
  BY <1>1, ElementOfSeq
<1>7. PICK c \in Seq(S) : /\ c = Append(a, s[i + 1]) /\ Len(c) = i + 1 /\ c[i + 1] = s[i + 1]
                          /\ \A j \in 1..i : c[j] = a[j]
  <2>1. /\ Append(a, s[i + 1]) \in Seq(S) /\ Len(Append(a, s[i + 1])) = i + 1
        /\ Append(a, s[i + 1])[i + 1] = s[i + 1]
        /\ \A j \in 1..i : Append(a, s[i + 1])[j] = a[j]
    BY <1>4, <1>6, AppendProperties
  <2> QED BY <2>1, Zenon
<1>8. \A j \in 1..(i + 1) : c[j] = b[j]
  <2>1. \A j \in 1..(i + 1) : j \in 1..i \/ j = i + 1
    OBVIOUS
  <2> QED BY <1>4, <1>5, <1>7, <2>1
<1>9. c = b
  BY <1>5, <1>7, <1>8, SeqEqual
<1> QED BY <1>4, <1>5, <1>7, <1>9

(* A line that the file can keep. *)
Keepable(line) == Len(line) <= MaxLine - 2 /\ ~Contains(line, CarriageReturn)

LEMMA ChompsNewLine ==
  ASSUME NEW line \in Line, Keepable(line)
  PROVE  Chomp(Append(line, NewLine)) = line
<1>1. PICK n \in Nat : n = Len(line) /\ \A i \in 1..n : line[i] \in Text
  BY LenProperties, ElementOfSeq DEF Line
<1>2. line \in Seq(FileText) /\ NewLine \in FileText
  BY SeqMonotonic DEF Line, FileText
<1>3. PICK t \in Seq(FileText) : /\ t = Append(line, NewLine) /\ Len(t) = n + 1
                                 /\ t[n + 1] = NewLine /\ \A i \in 1..n : t[i] = line[i]
  <2>1. /\ Append(line, NewLine) \in Seq(FileText) /\ Len(Append(line, NewLine)) = n + 1
        /\ Append(line, NewLine)[n + 1] = NewLine
        /\ \A i \in 1..n : Append(line, NewLine)[i] = line[i]
    BY <1>1, <1>2, AppendProperties
  <2> QED BY <2>1, Zenon
<1>4. NewLine \notin Text /\ CarriageReturn \in Text
  BY TextAssumption DEF Text
<1>5. \A i \in 1..n : t[i] # NewLine /\ t[i] # CarriageReturn
  BY <1>1, <1>3, <1>4 DEF Keepable, Contains
<1>6. ~Contains(t, CarriageReturn)
  <2>1. \A i \in 1..(n + 1) : i \in 1..n \/ i = n + 1
    BY <1>1
  <2> QED BY <1>3, <1>4, <1>5, <2>1 DEF Contains
<1>7. PICK k \in 0..(n + 1) : /\ CutAt(t, NewLine) = SubSeq(t, 1, k)
                              /\ \A i \in 1..k : t[i] # NewLine
                              /\ k < n + 1 => t[k + 1] = NewLine
  <2>1. \E k \in 0..Len(t) : /\ CutAt(t, NewLine) = SubSeq(t, 1, k)
                             /\ \A i \in 1..k : t[i] # NewLine
                             /\ k < Len(t) => t[k + 1] = NewLine
    BY CutFacts
  <2> QED BY <1>3, <2>1, Zenon
<1>8. k = n
  <2>1. k # n + 1
    BY <1>1, <1>3, <1>7
  <2>2. ~(k < n)
    <3>1. k < n => k + 1 \in 1..n /\ k < n + 1
      BY <1>1
    <3> QED BY <1>5, <1>7, <3>1
  <2> QED BY <1>1, <2>1, <2>2
<1>9. SubSeq(t, 1, n) = line
  <2>1. n + 1 - 1 = n
    BY <1>1
  <2>2. Front(t) = SubSeq(t, 1, n)
    BY <1>3, <2>1 DEF Front
  <2> QED BY <1>2, <1>3, <2>2, FrontOfAppended
<1> QED BY <1>3, <1>6, <1>7, <1>8, <1>9 DEF Chomp

(* The line and its newline are in the file behind place m. *)
IsAt(chars, m, line) ==
  /\ m + Len(line) + 1 <= Len(chars) /\ chars[m + Len(line) + 1] = NewLine
  /\ \A i \in 1..Len(line) : chars[m + i] = line[i]

(* A history was read, and no part of a further line. *)
ReadAll(g) == [history |-> g, chunk |-> << >>]

(* A line is read character by character until its newline. *)
LEMMA LineIsRead ==
  ASSUME NEW chars \in Seq(FileText), NEW read, IsReading(read, chars),
         NEW g \in Seq(Line), NEW line \in Line, Keepable(line),
         NEW m \in Nat, read[m] = ReadAll(g), IsAt(chars, m, line)
  PROVE  read[m + Len(line) + 1] = ReadAll(linenoiseHistoryAdd(g, line))
<1>0. /\ m + Len(line) + 1 <= Len(chars) /\ chars[m + Len(line) + 1] = NewLine
      /\ \A i \in 1..Len(line) : chars[m + i] = line[i]
  BY DEF IsAt
<1>1. PICK n \in Nat : n = Len(line) /\ n <= MaxLine - 2 /\ \A i \in 1..n : line[i] \in Text
  BY LenProperties, ElementOfSeq DEF Line, Keepable
<1>2. ASSUME NEW i \in 0..n PROVE read[m + i + 1] = ReadCharacter(read[m + i], chars[m + i + 1])
  <2>1. PICK e \in Nat : e = Len(chars) /\ m + n + 1 <= e
    BY <1>0, <1>1, LenProperties
  <2>2. PICK j \in 1..e : j = m + i + 1 /\ j - 1 = m + i
    BY <1>1, <2>1
  <2>3. read[j] = ReadCharacter(read[j - 1], chars[j])
    BY <2>1 DEF IsReading
  <2> QED BY <2>2, <2>3
<1> DEFINE S == {i \in Nat : i <= n => read[m + i] = [history |-> g, chunk |-> SubSeq(line, 1, i)]}
<1>3. S = Nat
  <2>1. 0 \in S
    <3>1. SubSeq(line, 1, 0) = << >> /\ m + 0 = m
      BY DEF Line
    <3> QED BY <3>1 DEF ReadAll
  <2>2. ASSUME NEW i \in S PROVE i + 1 \in S
    <3>1. CASE i + 1 <= n
      <4>1. i \in Nat /\ i < n /\ i <= n /\ i \in 0..n /\ i + 1 \in 1..n
            /\ i + 1 \in Nat
        BY <1>1, <3>1
      <4>2. read[m + i] = [history |-> g, chunk |-> SubSeq(line, 1, i)]
        BY <4>1
      <4>3. chars[m + i + 1] = line[i + 1] /\ line[i + 1] \in Text
        BY <1>0, <1>1, <4>1
      <4>4. PICK a \in Line, b \in Line :
              /\ a = SubSeq(line, 1, i) /\ Len(a) = i
              /\ b = Append(a, line[i + 1]) /\ b = SubSeq(line, 1, i + 1)
              /\ Len(b) = i + 1 /\ b[i + 1] = line[i + 1]
        <5>1. SubSeq(line, 1, i) \in Line /\ Len(SubSeq(line, 1, i)) = i
              /\ Append(SubSeq(line, 1, i), line[i + 1]) = SubSeq(line, 1, i + 1)
          BY <1>1, <4>1, OneMore DEF Line
        <5>2. PICK a \in Line : a = SubSeq(line, 1, i) /\ Len(a) = i
          BY <5>1
        <5>3. /\ Append(a, line[i + 1]) \in Line /\ Len(Append(a, line[i + 1])) = i + 1
              /\ Append(a, line[i + 1])[i + 1] = line[i + 1]
          BY <4>3, <5>2, AppendProperties DEF Line
        <5> QED BY <5>1, <5>2, <5>3, Zenon
      <4>5. ~FullChunk(b)
        <5>1. Last(b) = line[i + 1]
          BY <4>4 DEF Last
        <5>2. i + 1 # MaxLine - 1
          BY <1>1, <4>1, LineAssumption
        <5> QED BY <4>3, <4>4, <5>1, <5>2, TextAssumption DEF FullChunk
      <4>6. ReadCharacter(read[m + i], chars[m + i + 1]) = [history |-> g, chunk |-> b]
        BY <4>2, <4>3, <4>4, <4>5 DEF ReadCharacter
      <4>7. read[m + i + 1] = [history |-> g, chunk |-> b]
        BY <1>2, <4>1, <4>6, Zenon
      <4>8. PICK j \in Nat : j = i + 1 /\ m + j = m + i + 1
        BY <4>1
      <4>9. read[m + j] = [history |-> g, chunk |-> SubSeq(line, 1, j)]
        BY <4>4, <4>7, <4>8, Zenon
      <4> QED BY <4>8, <4>9, Zenon
    <3> QED BY <3>1
  <2> HIDE DEF S
  <2>3. S \in SUBSET Nat
    BY DEF S
  <2> QED BY <2>1, <2>2, <2>3, NatInductionOnSets
<1>4. read[m + n] = [history |-> g, chunk |-> line]
  <2>1. SubSeq(line, 1, n) = line
    BY <1>1, SubSeqFull DEF Line
  <2>2. n \in S /\ n <= n
    <3> HIDE DEF S
    <3> QED BY <1>1, <1>3
  <2>3. read[m + n] = [history |-> g, chunk |-> SubSeq(line, 1, n)]
    BY <2>2, Zenon
  <2> QED BY <2>1, <2>3, Zenon
<1>5. FullChunk(Append(line, NewLine))
  <2>1. line \in Seq(FileText) /\ NewLine \in FileText
    BY SeqMonotonic DEF Line, FileText
  <2>2. /\ Append(line, NewLine) # << >> /\ Len(Append(line, NewLine)) = n + 1
        /\ Append(line, NewLine)[n + 1] = NewLine
    BY <1>1, <2>1, AppendProperties
  <2> QED BY <2>2 DEF FullChunk, Last
<1>6. n \in 0..n /\ chars[m + n + 1] = NewLine
  BY <1>0, <1>1
<1>7. read[m + n + 1] = AddChunk(g, Append(line, NewLine))
  <2>1. read[m + n + 1] = ReadCharacter(read[m + n], NewLine)
    BY <1>2, <1>6, Zenon
  <2>2. PICK r : r = read[m + n] /\ r.history = g /\ r.chunk = line
    BY <1>4
  <2>3. ReadCharacter(r, NewLine) = AddChunk(g, Append(line, NewLine))
    BY <1>5, <2>2 DEF ReadCharacter
  <2> QED BY <2>1, <2>2, <2>3
<1> QED BY <1>1, <1>7, ChompsNewLine DEF AddChunk, ReadAll

(* A line and its newline behind a file. *)
LEMMA LineAppended ==
  ASSUME NEW s \in Seq(FileText), NEW line \in Line
  PROVE  \E t \in Seq(FileText) :
           /\ t = s \o Append(line, NewLine) /\ Len(t) = Len(s) + Len(line) + 1
           /\ \A i \in 1..Len(s) : t[i] = s[i]
           /\ \A i \in 1..Len(line) : t[Len(s) + i] = line[i]
           /\ t[Len(s) + Len(line) + 1] = NewLine
<1>1. PICK a \in Nat, n \in Nat : a = Len(s) /\ n = Len(line)
  BY LenProperties DEF Line
<1>2. line \in Seq(FileText) /\ NewLine \in FileText
  BY SeqMonotonic DEF Line, FileText
<1>3. PICK l \in Seq(FileText) : /\ l = Append(line, NewLine) /\ Len(l) = n + 1
                                 /\ l[n + 1] = NewLine /\ \A i \in 1..n : l[i] = line[i]
  <2>1. /\ Append(line, NewLine) \in Seq(FileText) /\ Len(Append(line, NewLine)) = n + 1
        /\ Append(line, NewLine)[n + 1] = NewLine
        /\ \A i \in 1..n : Append(line, NewLine)[i] = line[i]
    BY <1>1, <1>2, AppendProperties
  <2> QED BY <2>1, Zenon
<1>4. PICK t \in Seq(FileText) :
        /\ t = s \o l /\ Len(t) = a + (n + 1)
        /\ \A i \in 1..(a + (n + 1)) : t[i] = IF i <= a THEN s[i] ELSE l[i - a]
  <2>1. /\ s \o l \in Seq(FileText) /\ Len(s \o l) = Len(s) + Len(l)
        /\ \A i \in 1..(Len(s) + Len(l)) : (s \o l)[i] = IF i <= Len(s) THEN s[i] ELSE l[i - Len(s)]
    BY ConcatProperties
  <2> QED BY <1>1, <1>3, <2>1, Zenon
<1>5. \A i \in 1..a : t[i] = s[i]
  BY <1>4
<1>6. \A i \in 1..(n + 1) : t[a + i] = l[i]
  <2> SUFFICES ASSUME NEW i \in 1..(n + 1) PROVE t[a + i] = l[i]
    OBVIOUS
  <2>1. PICK j \in 1..(a + (n + 1)) : j = a + i /\ ~(j <= a) /\ j - a = i
    OBVIOUS
  <2>2. t[j] = l[j - a]
    BY <1>4, <2>1, Zenon
  <2> QED BY <2>1, <2>2, Zenon
<1>7. \A i \in 1..n : t[a + i] = line[i]
  <2>1. \A i \in 1..n : i \in 1..(n + 1)
    OBVIOUS
  <2> QED BY <1>3, <1>6, <2>1, Zenon
<1>8. t[a + n + 1] = NewLine /\ Len(t) = a + n + 1
  <2>1. n + 1 \in 1..(n + 1) /\ a + n + 1 = a + (n + 1)
    BY <1>1
  <2>2. t[a + (n + 1)] = NewLine
    BY <1>3, <1>6, <2>1, Zenon
  <2> QED BY <1>4, <2>1, <2>2, Zenon
<1> QED BY <1>1, <1>3, <1>4, <1>5, <1>7, <1>8, Zenon

(* Every part that was saved first stays the beginning of the file. *)
Begins(s, chars) == Len(s) <= Len(chars) /\ \A i \in 1..Len(s) : chars[i] = s[i]

LEMMA SavedBegins ==
  ASSUME NEW h \in Seq(Line), NEW saved, IsSaving(saved, h)
  PROVE  \A k \in 0..Len(h) : Begins(saved[k], saved[Len(h)])
<1>1. PICK n \in Nat, chars \in Seq(FileText) : n = Len(h) /\ chars = saved[n]
      /\ \A k \in 0..n : saved[k] \in Seq(FileText)
  BY LenProperties DEF IsSaving
<1> DEFINE S == {d \in Nat : d <= n => Begins(saved[n - d], chars)}
<1>2. S = Nat
  <2>1. 0 \in S
    <3>1. n - 0 = n /\ Len(chars) \in Nat
      BY <1>1, LenProperties
    <3> QED BY <1>1, <3>1 DEF Begins
  <2>2. ASSUME NEW d \in S PROVE d + 1 \in S
    <3>1. CASE d + 1 <= n
      <4>1. PICK j \in 1..n, k \in 0..n : j = n - d /\ k = n - (d + 1) /\ k = j - 1
        BY <1>1, <3>1
      <4>2. Begins(saved[j], chars)
        BY <1>1, <3>1, <4>1
      <4>3. saved[j] = saved[k] \o Append(h[j], NewLine)
        BY <1>1, <4>1 DEF IsSaving
      <4>4. PICK s \in Seq(FileText), line \in Line : s = saved[k] /\ line = h[j]
        BY <1>1, ElementOfSeq
      <4>5. PICK t \in Seq(FileText) :
              /\ t = s \o Append(line, NewLine) /\ Len(t) = Len(s) + Len(line) + 1
              /\ \A i \in 1..Len(s) : t[i] = s[i]
        BY LineAppended
      <4>6. t = saved[j] /\ Begins(t, chars)
        BY <4>2, <4>3, <4>4, <4>5
      <4>7. Begins(s, chars)
        <5>1. PICK a \in Nat, b \in Nat, c \in Nat, e \in Nat :
                a = Len(s) /\ b = Len(line) /\ c = Len(t) /\ e = Len(chars)
          BY LenProperties DEF Line
        <5>2. c = a + b + 1 /\ c <= e
          BY <4>5, <4>6, <5>1 DEF Begins
        <5>3. a <= e /\ \A i \in 1..a : i \in 1..c
          BY <5>1, <5>2
        <5>4. \A i \in 1..a : chars[i] = s[i]
          BY <4>5, <4>6, <5>1, <5>3 DEF Begins
        <5> QED BY <5>1, <5>3, <5>4 DEF Begins
      <4>8. d + 1 \in Nat /\ n - (d + 1) = k
        BY <4>1
      <4> QED BY <4>4, <4>7, <4>8, Zenon
    <3> QED BY <3>1
  <2> HIDE DEF S
  <2>3. S \in SUBSET Nat
    BY DEF S
  <2> QED BY <2>1, <2>2, <2>3, NatInductionOnSets
<1>3. ASSUME NEW k \in 0..n PROVE Begins(saved[k], chars)
  <2>1. PICK d \in Nat : d <= n /\ n - d = k
    <3>1. n - k \in Nat /\ n - k <= n /\ n - (n - k) = k
      BY <1>1
    <3> QED BY <3>1
  <2>2. d \in S
    <3> HIDE DEF S
    <3> QED BY <1>2
  <2> QED BY <2>1, <2>2, Zenon
<1> QED BY <1>1, <1>3

(* A history that the file can keep is read back. *)
LEMMA FileIsReadBack ==
  ASSUME NEW h \in Histories, \A i \in 1..Len(h) : Keepable(h[i])
  PROVE  linenoiseHistoryLoad(linenoiseHistorySave(h)) = h
<1>1. PICK n \in Nat : n = Len(h) /\ n <= DefaultMax /\ h \in Seq(Line)
  BY LenProperties DEF Histories
<1>2. PICK saved : IsSaving(saved, h) /\ linenoiseHistorySave(h) = saved[n]
  BY <1>1, SaveFacts
<1>3. PICK chars \in Seq(FileText) : chars = saved[n] /\ \A k \in 0..n : Begins(saved[k], chars)
  <2>1. saved[n] \in Seq(FileText)
    BY <1>1, <1>2 DEF IsSaving
  <2>2. \A k \in 0..Len(h) : Begins(saved[k], saved[Len(h)])
    BY <1>1, <1>2, SavedBegins
  <2> QED BY <1>1, <2>1, <2>2, Zenon
<1>4. PICK read : /\ IsReading(read, chars)
                  /\ linenoiseHistoryLoad(chars) =
                       IF read[Len(chars)].chunk = << >> THEN read[Len(chars)].history
                       ELSE AddChunk(read[Len(chars)].history, read[Len(chars)].chunk).history
  BY LoadFacts
<1> DEFINE S == {k \in Nat : k <= n =>
                   read[Len(saved[k])] = ReadAll(SubSeq(h, 1, k))}
<1>5. S = Nat
  <2>1. 0 \in S
    <3>1. SubSeq(h, 1, 0) = << >>
      BY <1>1
    <3>2. saved[0] = << >> /\ Len(<< >>) = 0 /\ read[0] = ReadAll(<< >>)
      BY <1>2, <1>4 DEF IsSaving, IsReading, NothingRead, ReadAll
    <3> QED BY <3>1, <3>2
  <2>2. ASSUME NEW k \in S PROVE k + 1 \in S
    <3>1. CASE k + 1 <= n
      <4>1. PICK j \in 1..n : j = k + 1 /\ j - 1 = k /\ k \in Nat /\ k < n /\ k \in 0..n /\ j \in 0..n
                              /\ k <= n /\ j \in Nat
        BY <1>1, <3>1
      <4>2. PICK s \in Seq(FileText), line \in Line :
              s = saved[k] /\ line = h[j] /\ Keepable(line)
        BY <1>1, <1>2, <4>1, ElementOfSeq DEF IsSaving
      <4>3. saved[j] = s \o Append(line, NewLine)
        BY <1>1, <1>2, <4>1, <4>2 DEF IsSaving
      <4>4. PICK t \in Seq(FileText) :
              /\ t = saved[j] /\ Len(t) = Len(s) + Len(line) + 1
              /\ \A i \in 1..Len(line) : t[Len(s) + i] = line[i]
              /\ t[Len(s) + Len(line) + 1] = NewLine
        <5>1. PICK t \in Seq(FileText) :
                /\ t = s \o Append(line, NewLine) /\ Len(t) = Len(s) + Len(line) + 1
                /\ \A i \in 1..Len(line) : t[Len(s) + i] = line[i]
                /\ t[Len(s) + Len(line) + 1] = NewLine
          BY LineAppended
        <5> QED BY <4>3, <5>1, Zenon
      <4>5. Begins(t, chars)
        BY <1>3, <4>1, <4>4
      <4>6. PICK m \in Nat, b \in Nat : m = Len(s) /\ b = Len(line) /\ Len(t) = m + b + 1
        BY <4>4, LenProperties DEF Line
      <4>7. \A i \in 1..(m + b + 1) : chars[i] = t[i]
        BY <4>5, <4>6 DEF Begins
      <4>8. /\ m + b + 1 \in 1..(m + b + 1)
            /\ \A i \in 1..b : m + i \in 1..(m + b + 1)
        BY <4>6
      <4>9. /\ \A i \in 1..b : chars[m + i] = line[i]
            /\ chars[m + b + 1] = NewLine
        BY <4>4, <4>6, <4>7, <4>8
      <4>10. PICK g \in Seq(Line) :
               /\ g = SubSeq(h, 1, k) /\ Len(g) = k /\ Append(g, line) = SubSeq(h, 1, j)
        BY <1>1, <4>1, <4>2, OneMore
      <4>11. read[m] = ReadAll(g)
        BY <4>1, <4>2, <4>6, <4>10
      <4>12. m + b + 1 <= Len(chars)
        BY <4>5, <4>6 DEF Begins
      <4>13. read[m + b + 1] = ReadAll(linenoiseHistoryAdd(g, line))
        <5>1. IsAt(chars, m, line)
          BY <4>6, <4>9, <4>12, Zenon DEF IsAt
        <5>2. read[m + Len(line) + 1] = ReadAll(linenoiseHistoryAdd(g, line))
          <6>1. IsReading(read, chars) /\ Keepable(line) /\ read[m] = ReadAll(g)
            BY <1>4, <4>2, <4>11
          <6> HIDE DEF S
          <6>2. ASSUME IsReading(read, chars), Keepable(line), read[m] = ReadAll(g),
                       IsAt(chars, m, line)
                PROVE  read[m + Len(line) + 1] = ReadAll(linenoiseHistoryAdd(g, line))
            BY ONLY <6>2, LineIsRead
          <6> QED BY <5>1, <6>1, <6>2
        <5> QED BY <4>6, <5>2, Zenon
      <4>14. linenoiseHistoryAdd(g, line) = SubSeq(h, 1, j)
        <5>1. k < DefaultMax
          BY <1>1, <4>1, HistoryAssumption
        <5> QED BY <4>10, <5>1, AddFacts
      <4>15. read[Len(saved[j])] = ReadAll(SubSeq(h, 1, j))
        BY <4>4, <4>6, <4>13, <4>14, Zenon
      <4> QED BY <4>1, <4>15, Zenon
    <3> QED BY <3>1
  <2> HIDE DEF S
  <2>3. S \in SUBSET Nat
    BY DEF S
  <2> QED BY <2>1, <2>2, <2>3, NatInductionOnSets
<1>6. n \in S /\ n <= n
  <2> HIDE DEF S
  <2> QED BY <1>1, <1>5
<1>7. read[Len(saved[n])] = ReadAll(SubSeq(h, 1, n))
  BY <1>6, Zenon
<1>8. SubSeq(h, 1, n) = h
  BY <1>1, SubSeqFull
<1>9. read[Len(chars)] = ReadAll(h)
  BY <1>3, <1>7, <1>8
<1>10. linenoiseHistoryLoad(chars) = h
  BY <1>4, <1>9 DEF ReadAll
<1> QED BY <1>2, <1>3, <1>10

(* The history a session leaves behind is the one the next session starts   *)
(* with, for histories and lines of any length the file can keep            *)
(* (linenoiseHistorySave, linenoiseHistoryLoad).                            *)
THEOREM HistoryIsReadBack == Spec => []HistorySurvives
<1>1. Inv => HistorySurvives
  <2> SUFFICES ASSUME Inv,
                      ~\E i \in DOMAIN history :
                         Len(history[i]) > MaxLine - 2 \/ Contains(history[i], CarriageReturn)
               PROVE  linenoiseHistoryLoad(linenoiseHistorySave(
                        linenoiseHistorySetMaxLen(history))) = history
    BY DEF HistorySurvives
  <2>1. PICK n \in Nat : /\ n = Len(history) /\ n <= DefaultMax /\ history \in Seq(Line)
                         /\ history \in Histories /\ DOMAIN history = 1..n
    BY LenProperties DEF Inv, TypeInv, Histories
  <2>2. linenoiseHistorySetMaxLen(history) = history
    <3>1. n <= SavedMax
      BY <2>1, HistoryAssumption
    <3> QED BY <2>1, <3>1, HistoryAssumption, LatestFacts DEF linenoiseHistorySetMaxLen
  <2>3. ASSUME NEW i \in 1..n PROVE Keepable(history[i])
    <3>1. ~(Len(history[i]) > MaxLine - 2) /\ ~Contains(history[i], CarriageReturn)
      BY <2>1
    <3>2. Len(history[i]) \in Nat
      BY <2>1, ElementOfSeq, LenProperties DEF Line
    <3>3. Len(history[i]) <= MaxLine - 2
      BY <3>1, <3>2, LineAssumption
    <3> QED BY <3>1, <3>3 DEF Keepable
  <2> QED BY <2>1, <2>2, <2>3, FileIsReadBack
<1> QED BY <1>1, InvHolds, PTL
=============================================================================
