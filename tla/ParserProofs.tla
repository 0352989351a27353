---------------------------- MODULE ParserProofs ----------------------------
(***************************************************************************)
(* For every file, whatever its characters: the lexer's cursor and the     *)
(* parser's variables stay in their domains, no null pointer is read as a  *)
(* string, and the counter that peeking leaves behind does no harm but on  *)
(* the last line.                                                          *)
(***************************************************************************)
EXTENDS Parser, LeastNumber

-----------------------------------------------------------------------------
(* Loops.                                                                  *)

(* A loop over the states D that ends at those in E with the outcome b and *)
(* goes on from any other with next; f is its outcome from each state, and *)
(* mu what every step counts down.                                         *)
Loops(f, D, E, b, next) == f = [s \in D |-> IF s \in E THEN b[s] ELSE f[next[s]]]
Descends(D, E, next, mu) ==
  /\ next \in [D -> D] /\ mu \in [D -> Nat]
  /\ \A s \in D : s \in E \/ mu[next[s]] < mu[s]

(* Such a loop has an outcome from wherever it starts: the function that   *)
(* what it does defines exists.                                            *)
LEMMA LoopEnds ==
  ASSUME NEW D, NEW E, NEW b, NEW next, NEW mu, Descends(D, E, next, mu)
  PROVE  \E f : Loops(f, D, E, b, next)
<1> USE DEF Descends
<1> DEFINE Solves(g, s) == g[s] = IF s \in E THEN b[s] ELSE g[next[s]]
           Right(g, k) == \A s \in D : mu[s] <= k => Solves(g, s)
           Bad == {k \in Nat : ~\E g : Right(g, k)}
<1>1. \A k \in Nat : \E g : Right(g, k)
  <2> SUFFICES ASSUME Bad # {} PROVE FALSE
    OBVIOUS
  <2>1. PICK k \in Bad : \A j \in Bad : k <= j
    <3>1. Bad \subseteq Nat
      OBVIOUS
    <3> HIDE DEF Bad
    <3> QED BY <3>1, LeastNat
  <2>2. k \in Nat
    OBVIOUS
  <2>3. PICK g : k # 0 => Right(g, k - 1)
    <3>1. CASE k = 0
      BY <3>1
    <3>2. CASE k # 0
      <4>1. k - 1 \in Nat /\ ~(k <= k - 1)
        BY <2>2, <3>2
      <4>2. k - 1 \notin Bad
        <5> HIDE DEF Bad
        <5> QED BY <2>1, <4>1
      <4>3. \E g : Right(g, k - 1)
        <5> HIDE DEF Right
        <5> QED BY <4>1, <4>2
      <4> QED BY <4>3
    <3> QED BY <3>1, <3>2
  <2> DEFINE h == [s \in D |-> IF mu[s] < k THEN g[s] ELSE IF s \in E THEN b[s] ELSE g[next[s]]]
  <2>4. ASSUME NEW s \in D, mu[s] <= k PROVE Solves(h, s)
    <3>1. h[s] = IF mu[s] < k THEN g[s] ELSE IF s \in E THEN b[s] ELSE g[next[s]]
      OBVIOUS
    <3>2. mu[s] < k => Solves(g, s)
      BY <2>2, <2>3
    <3>3. s \notin E => h[next[s]] = g[next[s]]
      BY <2>2, <2>4
    <3> HIDE DEF h
    <3> QED BY <3>1, <3>2, <3>3
  <2>5. Right(h, k)
    <3> HIDE DEF h
    <3> QED BY <2>4
  <2> QED BY <2>5
<1>2. ASSUME NEW k \in Nat, NEW j \in Nat, NEW g, NEW h, Right(g, k), Right(h, j),
             NEW s \in D, mu[s] <= k, mu[s] <= j
      PROVE  g[s] = h[s]
  <2> SUFFICES ASSUME g[s] # h[s] PROVE FALSE
    OBVIOUS
  <2> DEFINE Differ == {t \in D : mu[t] <= k /\ mu[t] <= j /\ g[t] # h[t]}
             Heights == {mu[t] : t \in Differ}
  <2>1. s \in Differ /\ Heights \subseteq Nat /\ Heights # {}
    BY <1>2
  <2>2. PICK m \in Heights : \A y \in Heights : m <= y
    <3> HIDE DEF Heights
    <3> QED BY <2>1, LeastNat
  <2>3. PICK t \in Differ : \A u \in Differ : mu[t] <= mu[u]
    BY <2>2
  <2>4. t \in D /\ mu[t] <= k /\ mu[t] <= j /\ Solves(g, t) /\ Solves(h, t)
    BY <1>2
  <2>5. t \notin E /\ next[t] \in D /\ mu[next[t]] < mu[t]
    BY <2>4
  <2>6. next[t] \in Differ
    BY <1>2, <2>4, <2>5
  <2>7. mu[next[t]] \in Nat /\ mu[t] \in Nat
    BY <2>5
  <2> QED BY <2>3, <2>5, <2>6, <2>7
<1> DEFINE G(k) == CHOOSE g : Right(g, k)
           f == [s \in D |-> G(mu[s])[s]]
<1>3. \A k \in Nat : Right(G(k), k)
  <2> HIDE DEF Right
  <2> QED BY <1>1
<1>4. ASSUME NEW s \in D PROVE f[s] = IF s \in E THEN b[s] ELSE f[next[s]]
  <2>1. f[s] = G(mu[s])[s]
    OBVIOUS
  <2>2. Solves(G(mu[s]), s)
    <3>1. Right(G(mu[s]), mu[s]) /\ mu[s] \in Nat
      <4> HIDE DEF Right, G
      <4> QED BY <1>3
    <3> HIDE DEF G
    <3> QED BY <3>1
  <2>3. CASE s \notin E
    <3>1. f[next[s]] = G(mu[next[s]])[next[s]]
      OBVIOUS
    <3> DEFINE t == next[s]
               u == mu[s]
               v == mu[t]
    <3>2. t \in D /\ v \in Nat /\ u \in Nat /\ v < u
      BY <2>3
    <3>3. Right(G(u), u) /\ Right(G(v), v)
      <4> HIDE DEF Right, G, u, v
      <4> QED BY <1>3, <3>2
    <3>4. G(u)[t] = G(v)[t]
      <4>1. mu[t] <= u /\ mu[t] <= v
        BY <3>2
      <4> HIDE DEF Right, G, t, u, v
      <4> QED BY <1>2, <3>2, <3>3, <4>1
    <3> HIDE DEF f, G
    <3> QED BY <2>1, <2>2, <2>3, <3>1, <3>4
  <2> HIDE DEF f, G
  <2> QED BY <2>1, <2>2, <2>3
<1>5. f = [s \in D |-> IF s \in E THEN b[s] ELSE f[next[s]]]
  <2>1. f = [s \in D |-> f[s]]
    OBVIOUS
  <2> HIDE DEF f
  <2> QED BY <1>4, <2>1
<1> HIDE DEF f
<1> QED BY <1>5 DEF Loops

(* What holds of its outcomes: what holds where it starts, G, is kept by   *)
(* each step, and leaves R at the end.                                     *)
Keeps(D, G, R, E, b, next) ==
  G \subseteq D /\ \A s \in G : IF s \in E THEN b[s] \in R ELSE next[s] \in G

LEMMA LoopKeeps ==
  ASSUME NEW D, NEW E, NEW b, NEW next, NEW mu, Descends(D, E, next, mu),
         NEW f, Loops(f, D, E, b, next), NEW G, NEW R, Keeps(D, G, R, E, b, next)
  PROVE  \A s \in G : f[s] \in R
<1> USE DEF Descends, Keeps
<1> DEFINE Wrong == {s \in G : f[s] \notin R}
           Heights == {mu[s] : s \in Wrong}
<1> SUFFICES ASSUME Wrong # {} PROVE FALSE
  OBVIOUS
<1>1. Heights \subseteq Nat /\ Heights # {}
  OBVIOUS
<1>2. PICK m \in Heights : \A y \in Heights : m <= y
  <2> HIDE DEF Heights
  <2> QED BY <1>1, LeastNat
<1>3. PICK s \in Wrong : \A t \in Wrong : mu[s] <= mu[t]
  BY <1>2
<1>4. s \in G /\ s \in D /\ f[s] \notin R
  OBVIOUS
<1>5. f[s] = IF s \in E THEN b[s] ELSE f[next[s]]
  BY <1>4 DEF Loops
<1>6. s \notin E /\ next[s] \in Wrong /\ mu[next[s]] < mu[s]
  BY <1>4, <1>5
<1>7. mu[s] \in Nat /\ mu[next[s]] \in Nat
  BY <1>4, <1>6
<1>8. mu[s] <= mu[next[s]]
  <2> HIDE DEF Wrong
  <2> QED BY <1>3, <1>6
<1> QED BY <1>6, <1>7, <1>8

-----------------------------------------------------------------------------
(* The buffer and the cursor.                                              *)

Readable == source \in Seq(Character)

LEMMA SizeIs ==
  ASSUME Readable
  PROVE  /\ SourceSize \in 0 .. Len(source) /\ Len(source) \in Nat /\ Char(SourceSize) = "nul"
         /\ \A at \in 0 .. SourceSize - 1 : Char(at) = source[at + 1] /\ Char(at) # "nul"
<1> DEFINE Nuls == {k \in 1 .. Len(source) : source[k] = "nul"}
           IsFirst(k) == source[k] = "nul" /\ \A j \in 1 .. k - 1 : source[j] # "nul"
<1>1. Len(source) \in Nat
  BY DEF Readable
<1>2. CASE Nuls = {}
  <2>1. SourceSize = Len(source)
    BY <1>2 DEF SourceSize
  <2> QED BY <1>1, <1>2, <2>1 DEF Char
<1>3. CASE Nuls # {}
  <2>1. PICK k \in Nuls : \A j \in Nuls : k <= j
    <3>1. Nuls \subseteq Nat
      BY <1>1
    <3> HIDE DEF Nuls
    <3> QED BY <1>3, <3>1, LeastNat
  <2>2. k \in 1 .. Len(source) /\ IsFirst(k)
    BY <1>1, <2>1
  <2> DEFINE n == CHOOSE j \in 1 .. Len(source) : IsFirst(j)
  <2>3. n \in 1 .. Len(source) /\ IsFirst(n)
    <3> HIDE DEF IsFirst
    <3> QED BY <2>2
  <2>4. SourceSize = n - 1
    BY <2>2 DEF SourceSize
  <2> HIDE DEF n
  <2>5. SourceSize + 1 = n /\ SourceSize \in 0 .. Len(source) /\ SourceSize < Len(source)
    BY <1>1, <2>3, <2>4
  <2>6. Char(SourceSize) = "nul"
    BY <2>3, <2>5 DEF Char
  <2>7. ASSUME NEW at \in 0 .. SourceSize - 1 PROVE Char(at) = source[at + 1] /\ Char(at) # "nul"
    <3>1. at + 1 \in 1 .. n - 1 /\ at < Len(source)
      BY <1>1, <2>3, <2>5
    <3> QED BY <2>3, <3>1 DEF Char
  <2> QED BY <1>1, <2>5, <2>6, <2>7
<1> QED BY <1>2, <1>3

(* No character behind the one that ends the file.                         *)
NoEOF(at) == \A k \in 1 .. at : source[k] # "eof"

LEMMA Through ==
  ASSUME Readable, NEW at \in 0 .. SourceSize, NEW end \in at .. SourceSize,
         \A k \in at .. end - 1 : Char(k) # "eof"
  PROVE  NoEOF(at) => NoEOF(end)
<1>1. SourceSize \in 0 .. Len(source) /\ Len(source) \in Nat
  BY SizeIs
<1> SUFFICES ASSUME NoEOF(at), NEW k \in 1 .. end PROVE source[k] # "eof"
  BY DEF NoEOF
<1>2. CASE k <= at
  BY <1>2 DEF NoEOF
<1>3. CASE k > at
  <2>1. k - 1 \in at .. end - 1 /\ k - 1 \in 0 .. SourceSize - 1 /\ k - 1 + 1 = k
    BY <1>1, <1>3
  <2>2. Char(k - 1) = source[k]
    BY <2>1, SizeIs
  <2> QED BY <2>1, <2>2
<1> QED BY <1>1, <1>2, <1>3

LEMMA AdvanceIs ==
  ASSUME Readable, NEW at \in 0 .. SourceSize
  PROVE  /\ Advance(at) \in at .. SourceSize
         /\ NoEOF(at) => NoEOF(Advance(at))
         /\ Advance(at) = IF Char(at) \in {"eof", "nul"} THEN at ELSE at + 1
<1>1. SourceSize \in 0 .. Len(source) /\ Len(source) \in Nat
  BY SizeIs
<1>2. CASE at = SourceSize
  BY <1>1, <1>2, SizeIs DEF Advance
<1>3. CASE at # SourceSize
  <2>1. at \in 0 .. SourceSize - 1 /\ ~(at >= SourceSize)
    BY <1>1, <1>3
  <2>2. Char(at) # "nul"
    BY <2>1, SizeIs
  <2>3. CASE Char(at) = "eof"
    BY <1>1, <2>3 DEF Advance
  <2>4. CASE Char(at) # "eof"
    <3>1. Advance(at) = at + 1 /\ at + 1 \in at .. SourceSize
      BY <1>1, <2>1, <2>4 DEF Advance
    <3>2. \A k \in at .. at + 1 - 1 : Char(k) # "eof"
      BY <2>1, <2>4
    <3>3. NoEOF(at) => NoEOF(at + 1)
      BY <3>1, <3>2, Through
    <3> QED BY <2>2, <2>4, <3>1, <3>3
  <2> QED BY <2>3, <2>4
<1> QED BY <1>2, <1>3

LEMMA PastIs ==
  ASSUME Readable, NEW at \in 0 .. SourceSize, NEW S, "nul" \notin S
  PROVE  /\ Past(at, S) \in at .. SourceSize /\ Char(Past(at, S)) \notin S
         /\ \A k \in at .. Past(at, S) - 1 : Char(k) \in S
<1> DEFINE Ends == {q \in at .. Len(source) : Char(q) \notin S}
           Is(q) == Char(q) \notin S /\ \A k \in at .. q - 1 : Char(k) \in S
<1>1. SourceSize \in 0 .. Len(source) /\ Len(source) \in Nat
  BY SizeIs
<1>2. SourceSize \in Ends
  BY <1>1, SizeIs
<1>3. PICK q \in Ends : \A r \in Ends : q <= r
  <2>1. Ends \subseteq Nat
    BY <1>1
  <2> HIDE DEF Ends
  <2> QED BY <1>2, <2>1, LeastNat
<1>4. q \in at .. Len(source) /\ Is(q)
  BY <1>1, <1>3
<1>5. Past(at, S) \in at .. Len(source) /\ Is(Past(at, S))
  <2>1. Past(at, S) = CHOOSE r \in at .. Len(source) : Is(r)
    BY Zenon DEF Past
  <2> HIDE DEF Is
  <2> QED BY <1>4, <2>1
<1> DEFINE p0 == Past(at, S)
<1>6. p0 <= SourceSize
  <2> SUFFICES ASSUME p0 > SourceSize PROVE FALSE
    BY <1>1, <1>5
  <2>1. SourceSize \in at .. p0 - 1
    BY <1>1, <1>5
  <2>2. Char(SourceSize) = "nul"
    BY SizeIs
  <2> HIDE DEF p0
  <2> QED BY <1>5, <2>1, <2>2 DEF p0
<1> QED BY <1>1, <1>5, <1>6

(* The first end of a line from a place on. *)
LEMMA LineEndIs ==
  ASSUME Readable, NEW at \in 0 .. SourceSize, NEW peek \in Nat, LineEnds(at, peek) # {}
  PROVE  /\ LineEnd(at, peek) \in at + peek .. SourceSize - 1
         /\ Char(LineEnd(at, peek)) \in {"newline", "eof"}
         /\ \A k \in at + peek .. LineEnd(at, peek) - 1 : Char(k) \notin {"newline", "eof"}
<1> DEFINE Ends == LineEnds(at, peek)
           Is(j) == \A k \in Ends : j <= k
<1>1. SourceSize \in Nat /\ \A j : j \in Ends <=> j \in at + peek .. SourceSize - 1 /\ Char(j) \in {"newline", "eof"}
  <2>1. SourceSize \in Nat
    BY SizeIs
  <2> QED BY <2>1 DEF LineEnds
<1>2. PICK j \in Ends : Is(j)
  <2>1. Ends \subseteq Nat
    BY <1>1
  <2> HIDE DEF Ends
  <2> QED BY <2>1, LeastNat DEF Ends
<1> DEFINE e == LineEnd(at, peek)
<1>3. e \in Ends /\ Is(e)
  <2>1. e = CHOOSE i \in Ends : Is(i)
    BY Zenon DEF LineEnd
  <2> HIDE DEF Is, Ends, e
  <2> QED BY <1>2, <2>1
<1> HIDE DEF e, Ends
<1>4. \A k \in at + peek .. e - 1 : Char(k) \notin {"newline", "eof"}
  <2> SUFFICES ASSUME NEW k \in at + peek .. e - 1, Char(k) \in {"newline", "eof"} PROVE FALSE
    OBVIOUS
  <2>1. e \in at + peek .. SourceSize - 1
    BY <1>1, <1>3
  <2>2. k \in at + peek .. SourceSize - 1 /\ ~(e <= k)
    BY <1>1, <2>1
  <2>3. k \in Ends
    BY <1>1, <2>2
  <2> QED BY <1>3, <2>2, <2>3
<1> QED BY <1>1, <1>3, <1>4 DEF e

-----------------------------------------------------------------------------
(* One token.                                                              *)

(* The counter tasm_lexer_peek keeps is not zero on the last line only.    *)
LastLine(at, peek) == peek # 0 => \A k \in at .. SourceSize - 2 : Char(k) # "newline"

(* What every function of the lexer sees to. *)
Lexed(n, at, peek) ==
  /\ n \in Scanned /\ n.at >= at /\ (n.at = at => n.peek = peek)
  /\ NoEOF(at) => NoEOF(n.at)
  /\ LastLine(at, peek) => LastLine(n.at, n.peek)
  /\ n.token.type = "QUOTA" => PrevChar(n.at) = "quote"

LEMMA ResultIs ==
  ASSUME NEW type \in TokenType, NEW value \in Value, NEW at \in 0 .. SourceSize, NEW peek \in Nat
  PROVE  /\ Result(type, value, at, peek) \in Scanned
         /\ Result(type, value, at, peek).at = at /\ Result(type, value, at, peek).peek = peek
         /\ Result(type, value, at, peek).token.type = type
         /\ Result(type, value, at, peek).token.value = value
<1>1. PICK l \in {"no", "hung", "corrupt"} : l = IF Len(value) >= TempCap THEN "corrupt" ELSE "no"
  OBVIOUS
<1>2. Result(type, value, at, peek) =
        [token |-> [type |-> type, value |-> value], at |-> at, peek |-> peek, lost |-> l]
  BY <1>1 DEF Result
<1> QED BY <1>2 DEF Scanned, Token

LEMMA OneIs == \A c \in Character : <<c>> \in Value /\ <<c>> # NoText
<1> SUFFICES ASSUME NEW c \in Character PROVE <<c>> \in Value /\ <<c>> # NoText
  OBVIOUS
<1>1. <<c>>[1] # NoText[1]
  BY CharAssumption DEF NoText
<1> QED BY <1>1 DEF Value

LEMMA NullIs == NoText \in Value
  BY DEF NoText, Value

LEMMA EmptyIs == <<>> \in Value
  BY DEF Value

LEMMA KeepsPeek ==
  ASSUME Readable, NEW at \in 0 .. SourceSize, NEW peek \in Nat,
         NEW end \in at .. SourceSize, NoEOF(at) => NoEOF(end), NEW type \in TokenType, NEW value \in Value,
         type = "QUOTA" => PrevChar(end) = "quote"
  PROVE  Lexed(Result(type, value, end, peek), at, peek)
<1>1. SourceSize \in Nat /\ end \in 0 .. SourceSize
  BY SizeIs
<1>2. PICK n : n = Result(type, value, end, peek)
  OBVIOUS
<1>3. n \in Scanned /\ n.at = end /\ n.peek = peek /\ n.token.type = type
  BY <1>1, <1>2, ResultIs
<1>4. LastLine(at, peek) => LastLine(end, peek)
  BY <1>1 DEF LastLine
<1>5. Lexed(n, at, peek)
  BY <1>1, <1>3, <1>4 DEF Lexed
<1> QED BY <1>2, <1>5

LEMMA Hangs ==
  ASSUME Readable, NEW at \in 0 .. SourceSize, NEW peek \in Nat
  PROVE  Lexed(Hang(at, peek), at, peek) /\ Hang(at, peek).lost # "no"
<1>1. Hang(at, peek) = [token |-> [type |-> "NONE", value |-> NoText], at |-> at, peek |-> peek,
                        lost |-> "hung"]
  BY DEF Hang
<1>2. "NONE" \in TokenType
  BY DEF TokenType
<1> QED BY <1>1, <1>2, NullIs, SizeIs DEF Lexed, Scanned, Token

LEMMA TextIs ==
  ASSUME Readable, NEW at \in 0 .. SourceSize, NEW end \in at .. SourceSize
  PROVE  Text(at, end) \in Seq(Character) /\ Text(at, end) \in Value
<1>1. SourceSize \in 0 .. Len(source) /\ Len(source) \in Nat /\ source \in Seq(Character)
  BY SizeIs DEF Readable
<1>2. at + 1 \in 1 .. Len(source) + 1 /\ end \in at .. Len(source)
  BY <1>1
<1>3. Text(at, end) \in Seq(Character)
  BY <1>1, <1>2 DEF Text
<1> QED BY <1>3 DEF Value

LEMMA IdLexed ==
  ASSUME Readable, NEW at \in 0 .. SourceSize, NEW peek \in Nat
  PROVE  Lexed(CollectId(at, peek), at, peek)
<1>1. PICK end : end = Past(at, Letter \union Digit)
  OBVIOUS
<1>2. "nul" \notin Letter \union Digit /\ "eof" \notin Letter \union Digit
  BY CharAssumption DEF Special
<1>3. end \in at .. SourceSize /\ \A k \in at .. end - 1 : Char(k) \in Letter \union Digit
  BY <1>1, <1>2, PastIs
<1>4. NoEOF(at) => NoEOF(end)
  BY <1>2, <1>3, Through
<1>5. PICK text \in Value : text = Text(at, end)
  BY <1>3, TextIs
<1>6. PICK type \in TokenType : /\ type = IF text \in DOMAIN Keyword THEN Keyword[text] ELSE "ID"
                               /\ type # "QUOTA"
  <2>1. "ID" \in TokenType /\ KeywordTypes \subseteq TokenType
    BY DEF TokenType
  <2>2. "QUOTA" \notin KeywordTypes
    BY DEF KeywordTypes, OpTypes
  <2> QED BY <2>1, <2>2, KeywordAssumption
<1>7. CollectId(at, peek) = Result(type, text, end, peek)
  BY <1>1, <1>5, <1>6 DEF CollectId
<1> QED BY <1>3, <1>4, <1>6, <1>7, KeepsPeek

LEMMA NumberLexed ==
  ASSUME Readable, NEW at \in 0 .. SourceSize, NEW peek \in Nat
  PROVE  Lexed(CollectNumber(at, peek), at, peek)
<1>1. PICK whole : whole = Past(at, Digit)
  OBVIOUS
<1>2. "nul" \notin Digit /\ "eof" \notin Digit
  BY CharAssumption DEF Special
<1>3. whole \in at .. SourceSize /\ \A k \in at .. whole - 1 : Char(k) \in Digit
  BY <1>1, <1>2, PastIs
<1>4. (NoEOF(at) => NoEOF(whole)) /\ SourceSize \in Nat /\ whole \in 0 .. SourceSize
  BY <1>2, <1>3, Through, SizeIs
<1>5. {"DECIMAL", "FLOAT"} \subseteq TokenType
  BY DEF TokenType, NumberTypes
<1>6. CASE Char(whole) = "dot"
  <2>1. Advance(whole) = whole + 1 /\ whole + 1 \in whole .. SourceSize /\ (NoEOF(whole) => NoEOF(whole + 1))
    BY <1>4, <1>6, AdvanceIs
  <2>2. PICK next \in 0 .. SourceSize : next = whole + 1
    BY <1>4, <2>1
  <2>3. PICK end : end = Past(next, Digit)
    OBVIOUS
  <2>4. end \in next .. SourceSize /\ \A k \in next .. end - 1 : Char(k) \in Digit
    BY <1>2, <2>2, <2>3, PastIs
  <2>5. (NoEOF(at) => NoEOF(end)) /\ end \in at .. SourceSize
    BY <1>2, <1>3, <1>4, <2>1, <2>2, <2>4, Through
  <2>6. CollectNumber(at, peek) = Result("FLOAT", Text(at, end), end, peek)
    BY <1>1, <1>6, <2>2, <2>3 DEF CollectNumber
  <2> QED BY <1>5, <2>5, <2>6, TextIs, KeepsPeek
<1>7. CASE Char(whole) # "dot"
  <2>1. CollectNumber(at, peek) = Result("DECIMAL", Text(at, whole), whole, peek)
    BY <1>1, <1>7 DEF CollectNumber
  <2> QED BY <1>3, <1>4, <1>5, <2>1, TextIs, KeepsPeek
<1> QED BY <1>6, <1>7

LEMMA PrefixedLexed ==
  ASSUME Readable, NEW at \in 0 .. SourceSize, NEW peek \in Nat,
         Char(at) \notin {"eof", "nul"}, Char(at + 1) \notin {"eof", "nul"},
         NEW type \in NumberTypes, NEW digits \in SUBSET HexDigit
  PROVE  Lexed(CollectPrefixed(type, digits, at, peek), at, peek)
<1>1. SourceSize \in Nat /\ at + 2 \in 0 .. SourceSize /\ (NoEOF(at) => NoEOF(at + 2))
  <2>1. at + 1 \in at .. SourceSize /\ (NoEOF(at) => NoEOF(at + 1))
    BY AdvanceIs
  <2>2. PICK b \in 0 .. SourceSize : b = at + 1
    BY <2>1
  <2>3. b + 1 \in b .. SourceSize /\ (NoEOF(b) => NoEOF(b + 1))
    BY <2>1, <2>2, AdvanceIs
  <2>4. b + 1 = at + 2
    BY <2>2
  <2> QED BY <2>1, <2>2, <2>3, <2>4, SizeIs
<1>2. PICK next \in 0 .. SourceSize : next = at + 2
  BY <1>1
<1>3. PICK end : end = Past(next, digits)
  OBVIOUS
<1>4. "nul" \notin digits /\ "eof" \notin digits
  BY CharAssumption DEF Special
<1>5. end \in next .. SourceSize /\ \A k \in next .. end - 1 : Char(k) \in digits
  BY <1>2, <1>3, <1>4, PastIs
<1>6. (NoEOF(at) => NoEOF(end)) /\ end \in at .. SourceSize
  BY <1>1, <1>2, <1>4, <1>5, Through
<1>7. type \in TokenType /\ type # "QUOTA"
  BY DEF TokenType, NumberTypes
<1>8. CollectPrefixed(type, digits, at, peek) = Result(type, Text(next, end), end, peek)
  BY <1>2, <1>3 DEF CollectPrefixed
<1> QED BY <1>5, <1>6, <1>7, <1>8, TextIs, KeepsPeek

-----------------------------------------------------------------------------
(* Strings, characters, and the token at the cursor.                       *)

LEMMA CharIs == ASSUME Readable, NEW at \in 0 .. SourceSize PROVE Char(at) \in Character
<1>1. Len(source) \in Nat /\ SourceSize \in Nat /\ source \in Seq(Character) /\ "nul" \in Character
  BY SizeIs, CharAssumption DEF Readable, Special
<1>2. CASE at < Len(source)
  <2>1. at + 1 \in 1 .. Len(source)
    BY <1>1, <1>2
  <2> QED BY <1>1, <1>2, <2>1 DEF Char
<1>3. CASE ~(at < Len(source))
  BY <1>1, <1>3 DEF Char
<1> QED BY <1>2, <1>3

LEMMA NotNull == \A v \in Seq(Character) : v \in Value /\ v # NoText
<1> SUFFICES ASSUME NEW v \in Seq(Character) PROVE v \in Value /\ v # NoText
  OBVIOUS
<1>1. v \in Value
  BY DEF Value
<1>2. ASSUME v = NoText PROVE FALSE
  <2>1. 1 \in 1 .. Len(v) /\ v[1] = "null"
    BY <1>2 DEF NoText
  <2> QED BY <2>1, CharAssumption
<1> QED BY <1>1, <1>2

LEMMA UnescapedIs ==
  ASSUME NEW v \in Seq(Character), NEW c
  PROVE  /\ Unescaped(v, c) \in Seq(Character) /\ Len(Unescaped(v, c)) \in Nat
         /\ Len(Unescaped(v, c)) >= Len(v)
  BY CharAssumption DEF Unescaped

LEMMA TakeOneIs ==
  ASSUME Readable, NEW s \in TakeState
  PROVE  /\ TakeOne(s) \in TakeState /\ TakeOne(s).at >= s.at
         /\ NoEOF(s.at) => NoEOF(TakeOne(s).at)
         /\ Len(TakeOne(s).val) >= Len(s.val)
         /\ TakeOne(s).at > s.at \/ Len(TakeOne(s).val) = Len(s.val) + 1
         /\ Char(s.at) \notin {"eof", "nul"} => TakeOne(s).at # s.at
<1>1. s.at \in 0 .. SourceSize /\ s.val \in Seq(Character) /\ Len(s.val) \in Nat /\ SourceSize \in Nat
  BY SizeIs DEF TakeState
<1>2. PICK next : next = Advance(s.at)
  OBVIOUS
<1>3. /\ next \in s.at .. SourceSize /\ (NoEOF(s.at) => NoEOF(next))
      /\ next = IF Char(s.at) \in {"eof", "nul"} THEN s.at ELSE s.at + 1
  BY <1>1, <1>2, AdvanceIs
<1>4. next \in 0 .. SourceSize
  BY <1>1, <1>3
<1>5. CASE Char(s.at) = "backslash"
  <2>1. PICK end : end = Advance(next)
    OBVIOUS
  <2>2. end \in next .. SourceSize /\ (NoEOF(next) => NoEOF(end))
    BY <1>4, <2>1, AdvanceIs
  <2>3. PICK v : v = Unescaped(s.val, Char(next))
    OBVIOUS
  <2>4. v \in Seq(Character) /\ Len(v) \in Nat /\ Len(v) >= Len(s.val)
    BY <1>1, <2>3, UnescapedIs
  <2>5. TakeOne(s) = [at |-> end, val |-> v]
    BY <1>2, <1>5, <2>1, <2>3 DEF TakeOne
  <2>6. PICK t : t = TakeOne(s) /\ t.at = end /\ t.val = v /\ t = [at |-> end, val |-> v]
    BY <2>5
  <2>7. t \in TakeState /\ t.at > s.at
    BY <1>1, <1>3, <1>4, <1>5, <2>2, <2>4, <2>6 DEF TakeState
  <2> QED BY <1>1, <1>3, <1>4, <2>2, <2>4, <2>6, <2>7
<1>6. CASE Char(s.at) # "backslash"
  <2>1. PICK v : v = Append(s.val, Char(s.at))
    OBVIOUS
  <2>2. v \in Seq(Character) /\ Len(v) = Len(s.val) + 1
    BY <1>1, <2>1, CharIs
  <2>3. TakeOne(s) = [at |-> next, val |-> v]
    BY <1>2, <1>6, <2>1 DEF TakeOne
  <2>4. PICK t : t = TakeOne(s) /\ t.at = next /\ t.val = v /\ t = [at |-> next, val |-> v]
    BY <2>3
  <2>5. t \in TakeState
    BY <1>4, <2>2, <2>4 DEF TakeState
  <2>6. next >= s.at /\ (Char(s.at) \notin {"eof", "nul"} => next # s.at)
    BY <1>1, <1>3
  <2> QED BY <1>1, <1>3, <2>2, <2>4, <2>5, <2>6
<1> QED BY <1>5, <1>6

(* What the loop counts down: characters to read, or to take. *)
Room(v, limit) == IF Len(v) > limit THEN 0 ELSE limit + 1 - Len(v)

LEMMA RoomIs ==
  ASSUME NEW limit \in Nat, NEW v \in Seq(Character), NEW w \in Seq(Character), Len(w) >= Len(v)
  PROVE  /\ Room(v, limit) \in Nat /\ Room(w, limit) \in Nat /\ Room(w, limit) <= Room(v, limit)
         /\ Len(w) = Len(v) + 1 /\ ~(Len(v) > limit) => Room(w, limit) < Room(v, limit)
<1>1. Len(v) \in Nat /\ Len(w) \in Nat
  OBVIOUS
<1> QED BY <1>1 DEF Room

(* The loop of tasm_lexer_collect_str comes to an end, at or behind where  *)
(* it starts; behind, if there is a character to take.                     *)
LEMMA TakenIs ==
  ASSUME Readable, NEW start \in 0 .. SourceSize, NEW limit \in Nat
  PROVE  /\ Taken(start, limit) \in TakeState
         /\ Taken(start, limit).at \in start .. SourceSize
         /\ NoEOF(start) => NoEOF(Taken(start, limit).at)
         /\ Char(start) \notin {"quote", "eof", "nul"} => Taken(start, limit).at # start
<1>1. SourceSize \in Nat
  BY SizeIs
<1> DEFINE E == {s \in TakeState : Char(s.at) = "quote" \/ Len(s.val) > limit}
           b == [s \in TakeState |-> s]
           next == [s \in TakeState |-> TakeOne(s)]
           mu == [s \in TakeState |-> SourceSize - s.at + Room(s.val, limit)]
<1>2. next \in [TakeState -> TakeState]
  BY TakeOneIs
<1>3. ASSUME NEW s \in TakeState
      PROVE  s.at \in 0 .. SourceSize /\ s.val \in Seq(Character) /\ Room(s.val, limit) \in Nat
  <2>1. s.at \in 0 .. SourceSize /\ s.val \in Seq(Character)
    BY DEF TakeState
  <2>2. Len(s.val) \in Nat
    BY <2>1
  <2> QED BY <2>1, <2>2 DEF Room
<1>4. mu \in [TakeState -> Nat]
  <2> SUFFICES ASSUME NEW s \in TakeState PROVE SourceSize - s.at + Room(s.val, limit) \in Nat
    OBVIOUS
  <2> QED BY <1>1, <1>3
<1>5. ASSUME NEW s \in TakeState, s \notin E PROVE mu[next[s]] < mu[s]
  <2>1. PICK t \in TakeState : t = TakeOne(s)
    BY TakeOneIs
  <2>2. t.at >= s.at /\ Len(t.val) >= Len(s.val) /\ (t.at > s.at \/ Len(t.val) = Len(s.val) + 1)
    BY <2>1, TakeOneIs
  <2>3. s.val \in Seq(Character) /\ t.val \in Seq(Character) /\ ~(Len(s.val) > limit)
    BY <1>3, <1>5
  <2>4. /\ Room(t.val, limit) <= Room(s.val, limit)
        /\ Len(t.val) = Len(s.val) + 1 => Room(t.val, limit) < Room(s.val, limit)
    BY <2>2, <2>3, RoomIs
  <2>5. mu[next[s]] = SourceSize - t.at + Room(t.val, limit) /\ mu[s] = SourceSize - s.at + Room(s.val, limit)
    BY <2>1
  <2>6. t.at \in 0 .. SourceSize /\ Room(t.val, limit) \in Nat /\ s.at \in 0 .. SourceSize /\ Room(s.val, limit) \in Nat
    BY <1>3
  <2> HIDE DEF mu, next
  <2> QED BY <1>1, <2>2, <2>4, <2>5, <2>6
<1>6. \A s \in TakeState : s \in E \/ mu[next[s]] < mu[s]
  <2> HIDE DEF E, mu, next
  <2> QED BY <1>5
<1> DEFINE Body(f, s) == IF Char(s.at) = "quote" \/ Len(s.val) > limit THEN s ELSE f[TakeOne(s)]
           take == CHOOSE f : f = [s \in TakeState |-> Body(f, s)]
<1>7. ASSUME NEW f PROVE [s \in TakeState |-> Body(f, s)] =
                         [s \in TakeState |-> IF s \in E THEN b[s] ELSE f[next[s]]]
  <2>1. \A s \in TakeState : Body(f, s) = IF s \in E THEN b[s] ELSE f[next[s]]
    OBVIOUS
  <2> HIDE DEF Body, E, b, next
  <2> QED BY <2>1
<1>8. Descends(TakeState, E, next, mu)
  <2> HIDE DEF E, next, mu
  <2> QED BY <1>2, <1>4, <1>6 DEF Descends
<1>9. Loops(take, TakeState, E, b, next)
  <2> HIDE DEF Body, E, b, next, mu
  <2>1. \E f : Loops(f, TakeState, E, b, next)
    BY <1>8, LoopEnds
  <2>2. \E f : f = [s \in TakeState |-> Body(f, s)]
    BY <1>7, <2>1 DEF Loops
  <2>3. take = [s \in TakeState |-> Body(take, s)]
    BY <2>2
  <2> HIDE DEF take
  <2> QED BY <1>7, <2>3 DEF Loops
<1> DEFINE first == [at |-> start, val |-> <<>>]
           From(n) == {s \in TakeState : s.at \in n .. SourceSize /\ (NoEOF(start) => NoEOF(s.at))}
<1>10. Taken(start, limit) = take[first]
  BY DEF Taken
<1> HIDE DEF take
<1>11. first \in TakeState
  BY DEF TakeState
<1>12. ASSUME NEW n \in 0 .. SourceSize PROVE \A s \in From(n) : take[s] \in From(n)
  <2>1. \A u \in From(n) : IF u \in E THEN b[u] \in From(n) ELSE next[u] \in From(n)
    <3> SUFFICES ASSUME NEW u \in From(n) PROVE u \in From(n) /\ TakeOne(u) \in From(n)
      OBVIOUS
    <3>1. u \in TakeState /\ u.at \in n .. SourceSize /\ (NoEOF(start) => NoEOF(u.at))
      OBVIOUS
    <3>2. TakeOne(u) \in TakeState /\ TakeOne(u).at >= u.at /\ (NoEOF(start) => NoEOF(TakeOne(u).at))
      BY <3>1, TakeOneIs
    <3>3. TakeOne(u).at \in n .. SourceSize
      BY <1>1, <1>3, <3>1, <3>2
    <3> QED BY <3>2, <3>3
  <2>2. Keeps(TakeState, From(n), From(n), E, b, next)
    <3>1. From(n) \subseteq TakeState
      OBVIOUS
    <3> HIDE DEF next, E, b, From
    <3> QED BY <2>1, <3>1 DEF Keeps
  <2> HIDE DEF next, mu, E, b, From
  <2> QED BY <1>8, <1>9, <2>2, LoopKeeps
<1>13. take[first] \in From(start)
  <2>1. first \in From(start)
    BY <1>1, <1>11
  <2> HIDE DEF From, first
  <2> QED BY <1>12, <2>1
<1>14. ASSUME Char(start) \notin {"quote", "eof", "nul"} PROVE take[first].at # start
  <2>1. first \notin E
    BY <1>14
  <2>2. take[first] = take[TakeOne(first)]
    <3>1. take[first] = IF first \in E THEN b[first] ELSE take[next[first]]
      <4> HIDE DEF E, b, next, first
      <4> QED BY <1>11, <1>9 DEF Loops
    <3>2. next[first] = TakeOne(first)
      <4> HIDE DEF first
      <4> QED BY <1>11
    <3> HIDE DEF E, b, next, first
    <3> QED BY <2>1, <3>1, <3>2
  <2>3. first.at = start
    OBVIOUS
  <2>4. PICK t \in TakeState : t = TakeOne(first)
    <3> HIDE DEF first
    <3> QED BY <1>11, TakeOneIs
  <2>5. t.at >= start /\ t.at # start /\ (NoEOF(start) => NoEOF(t.at))
    <3> HIDE DEF first
    <3> QED BY <1>11, <1>14, <2>3, <2>4, TakeOneIs
  <2>6. PICK n \in 0 .. SourceSize : n = t.at
    BY <1>3
  <2>7. t \in From(n) /\ n > start
    BY <1>1, <2>5, <2>6
  <2>8. take[t] \in From(n)
    <3> HIDE DEF From
    <3> QED BY <1>12, <2>7
  <2>9. take[t].at \in n .. SourceSize
    BY <2>8
  <2> HIDE DEF From, first
  <2> QED BY <1>1, <2>2, <2>4, <2>7, <2>9
<1> QED BY <1>10, <1>13, <1>14

LEMMA StrLexed ==
  ASSUME Readable, NEW at \in 0 .. SourceSize, NEW peek \in Nat, InString(at)
  PROVE  /\ Lexed(CollectStr(at, peek), at, peek)
         /\ CollectStr(at, peek).lost = "no" => CollectStr(at, peek).token.value # NoText
<1>1. SourceSize \in Nat
  BY SizeIs
<1>2. CASE LineEnds(at, peek) = {}
  <2>1. CollectStr(at, peek) = Hang(at, peek)
    BY <1>2 DEF CollectStr
  <2> QED BY <2>1, Hangs
<1>3. CASE LineEnds(at, peek) # {}
  <2>1. PICK j : j = LineEnd(at, peek)
    OBVIOUS
  <2>2. /\ j \in at + peek .. SourceSize - 1
        /\ \A k \in at + peek .. j - 1 : Char(k) \notin {"newline", "eof"}
    BY <1>3, <2>1, LineEndIs
  <2>3. PICK limit \in Nat : limit = j - at - peek
    BY <2>2
  <2>4. PICK s : s = Taken(at, limit)
    OBVIOUS
  <2>5. at \in 0 .. SourceSize - 1
    BY <1>1, <2>2
  <2>6. Char(at) \notin {"quote", "eof", "nul"}
    BY <2>5, SizeIs DEF InString
  <2>7. s \in TakeState /\ s.at \in at .. SourceSize /\ (NoEOF(at) => NoEOF(s.at)) /\ s.at # at
    BY <2>4, <2>6, TakenIs
  <2>8. s.val \in Seq(Character) /\ s.val \in Value /\ s.val # NoText
    BY <2>7, NotNull DEF TakeState
  <2>9. PICK rest : rest = PeekReset(at, j)
    OBVIOUS
  <2>10. rest \in Nat /\ (rest # 0 => j = SourceSize - 1)
    BY <1>1, <2>2, <2>9 DEF PeekReset
  <2>11. LastLine(at, peek) => LastLine(s.at, rest)
    <3> SUFFICES ASSUME LastLine(at, peek), rest # 0, NEW k \in s.at .. SourceSize - 2 PROVE Char(k) # "newline"
      BY DEF LastLine
    <3>1. j = SourceSize - 1 /\ k \in at .. SourceSize - 2
      BY <1>1, <2>7, <2>10
    <3>2. CASE k >= at + peek
      <4>1. k \in at + peek .. j - 1
        BY <1>1, <3>1, <3>2
      <4> QED BY <2>2, <4>1
    <3>3. CASE k < at + peek
      <4>1. peek # 0
        BY <3>1, <3>3
      <4> QED BY <3>1, <4>1 DEF LastLine
    <3> QED BY <3>1, <3>2, <3>3
  <2>12. CollectStr(at, peek) = Result("STRING", s.val, s.at, rest)
    BY <1>3, <2>1, <2>3, <2>4, <2>9 DEF CollectStr
  <2>13. "STRING" \in TokenType /\ s.at \in 0 .. SourceSize
    BY <1>1, <2>7 DEF TokenType
  <2>14. PICK n : n = Result("STRING", s.val, s.at, rest)
    OBVIOUS
  <2>15. n \in Scanned /\ n.at = s.at /\ n.peek = rest /\ n.token.type = "STRING" /\ n.token.value = s.val
    BY <2>8, <2>10, <2>13, <2>14, ResultIs
  <2>16. Lexed(n, at, peek)
    BY <1>1, <2>7, <2>11, <2>13, <2>15 DEF Lexed
  <2> QED BY <2>8, <2>12, <2>14, <2>15, <2>16
<1> QED BY <1>2, <1>3

LEMMA CharLexed ==
  ASSUME Readable, NEW at \in 0 .. SourceSize, NEW peek \in Nat
  PROVE  Lexed(CollectChar(at, peek), at, peek)
<1>1. PICK next : next = Advance(at)
  OBVIOUS
<1>2. next \in at .. SourceSize /\ (NoEOF(at) => NoEOF(next))
  BY <1>1, AdvanceIs
<1>3. next \in 0 .. SourceSize /\ SourceSize \in Nat
  BY <1>2, SizeIs
<1>4. PICK end : end = Advance(next)
  OBVIOUS
<1>5. end \in next .. SourceSize /\ (NoEOF(next) => NoEOF(end))
  BY <1>2, <1>3, <1>4, AdvanceIs
<1>6. end \in at .. SourceSize /\ (NoEOF(at) => NoEOF(end))
  BY <1>2, <1>3, <1>5
<1>7. {"CHAR", "NONE"} \subseteq TokenType /\ <<Char(at)>> \in Value
  BY CharIs, OneIs DEF TokenType
<1>8. CASE Char(next) = "apost"
  <2>1. CollectChar(at, peek) = Result("CHAR", <<Char(at)>>, next, peek)
    BY <1>1, <1>8 DEF CollectChar
  <2> QED BY <1>2, <1>7, <2>1, KeepsPeek
<1>9. CASE Char(next) # "apost"
  <2>1. CollectChar(at, peek) = Result("NONE", NoText, end, peek)
    BY <1>1, <1>4, <1>9 DEF CollectChar
  <2> QED BY <1>5, <1>6, <1>7, <2>1, NullIs, KeepsPeek
<1> QED BY <1>8, <1>9

LEMMA OneCharIs ==
  /\ DOMAIN OneChar = {"newline", "colon", "apost", "quote", "at", "minus", "eof"}
  /\ \A c \in DOMAIN OneChar : OneChar[c] \in TokenType /\ (OneChar[c] = "QUOTA" => c = "quote")
<1>1. DOMAIN OneChar = {"newline", "colon", "apost", "quote", "at", "minus", "eof"}
  BY DEF OneChar
<1>2. ASSUME NEW c \in DOMAIN OneChar PROVE OneChar[c] \in TokenType /\ (OneChar[c] = "QUOTA" => c = "quote")
  BY <1>1 DEF OneChar, TokenType
<1> QED BY <1>1, <1>2

LEMMA OneCharLexed ==
  ASSUME Readable, NEW at \in 0 .. SourceSize, NEW peek \in Nat
  PROVE  /\ Lexed(CollectOneChar(at, peek), at, peek)
         /\ Char(at) \in {"quote", "newline", "eof", "apost"} =>
              CollectOneChar(at, peek).token.value # NoText
<1>1. PICK c \in Character : c = Char(at)
  BY CharIs
<1>2. <<c>> \in Value /\ <<c>> # NoText
  BY OneIs
<1>3. PICK next : next = Advance(at)
  OBVIOUS
<1>4. /\ next \in at .. SourceSize /\ (NoEOF(at) => NoEOF(next))
      /\ next = IF Char(at) \in {"eof", "nul"} THEN at ELSE at + 1
  BY <1>3, AdvanceIs
<1>5. next \in 0 .. SourceSize /\ SourceSize \in Nat
  BY <1>4, SizeIs
<1>6. CASE c = "semicolon"
  <2>1. CASE LineEnds(at, 0) = {}
    <3>1. CollectOneChar(at, peek) = Hang(at, peek)
      BY <1>1, <1>6, <2>1 DEF CollectOneChar
    <3> QED BY <1>1, <1>6, <3>1, Hangs
  <2>2. CASE LineEnds(at, 0) # {}
    <3>1. PICK end : end = LineEnd(at, 0)
      OBVIOUS
    <3>2. end \in at + 0 .. SourceSize - 1 /\ \A k \in at + 0 .. end - 1 : Char(k) \notin {"newline", "eof"}
      BY <2>2, <3>1, LineEndIs
    <3>3. end \in at .. SourceSize /\ \A k \in at .. end - 1 : Char(k) # "eof"
      BY <1>5, <3>2
    <3>4. NoEOF(at) => NoEOF(end)
      BY <3>3, Through
    <3>5. CollectOneChar(at, peek) = Result("COMMENT", <<c>>, end, peek)
      BY <1>1, <1>6, <2>2, <3>1 DEF CollectOneChar
    <3>6. "COMMENT" \in TokenType
      BY DEF TokenType
    <3> QED BY <1>1, <1>2, <1>6, <3>3, <3>4, <3>5, <3>6, KeepsPeek
  <2> QED BY <2>1, <2>2
<1>7. CASE c \in DOMAIN OneChar
  <2>1. PICK type \in TokenType : type = OneChar[c] /\ (type = "QUOTA" => c = "quote")
    BY <1>7, OneCharIs
  <2>2. c # "semicolon"
    BY <1>7, OneCharIs
  <2>3. CollectOneChar(at, peek) = Result(type, <<c>>, next, peek)
    BY <1>1, <1>3, <1>7, <2>1, <2>2 DEF CollectOneChar
  <2>4. type = "QUOTA" => PrevChar(next) = "quote"
    BY <1>1, <1>4, <2>1 DEF PrevChar
  <2>5. Result(type, <<c>>, next, peek).token.value = <<c>>
    BY <1>2, <1>5, ResultIs
  <2> QED BY <1>2, <1>4, <2>3, <2>4, <2>5, KeepsPeek
<1>8. CASE c # "semicolon" /\ c \notin DOMAIN OneChar
  <2>1. CollectOneChar(at, peek) = Result("NONE", NoText, next, peek)
    BY <1>1, <1>3, <1>8 DEF CollectOneChar
  <2>2. "NONE" \in TokenType /\ Char(at) \notin {"quote", "newline", "eof", "apost"}
    BY <1>1, <1>8, OneCharIs DEF TokenType
  <2> QED BY <1>4, <2>1, <2>2, NullIs, KeepsPeek
<1> QED BY <1>6, <1>7, <1>8

(* Of the next token: that of the lexer's functions, and that a string is  *)
(* never a null pointer.                                                   *)
LEMMA NextLexed ==
  ASSUME Readable, NEW at0 \in 0 .. SourceSize, NEW peek \in Nat
  PROVE  /\ Lexed(NextToken(at0, peek), at0, peek)
         /\ PrevChar(at0) = "quote" /\ NextToken(at0, peek).lost = "no" =>
              NextToken(at0, peek).token.value # NoText
<1>1. CASE InString(at0)
  <2>1. NextToken(at0, peek) = CollectStr(at0, peek)
    BY <1>1 DEF NextToken
  <2> QED BY <1>1, <2>1, StrLexed
<1>2. CASE ~InString(at0) /\ InChar(at0)
  <2>1. NextToken(at0, peek) = CollectChar(at0, peek)
    BY <1>2 DEF NextToken
  <2>2. PrevChar(at0) # "quote"
    BY <1>2 DEF InChar
  <2> QED BY <2>1, <2>2, CharLexed
<1>3. CASE ~InString(at0) /\ ~InChar(at0)
  <2>1. PICK at : at = Past(at0, {"space"})
    OBVIOUS
  <2>2. at \in at0 .. SourceSize /\ Char(at) # "space" /\ \A k \in at0 .. at - 1 : Char(k) = "space"
    BY <2>1, PastIs
  <2>3. at \in 0 .. SourceSize /\ SourceSize \in Nat /\ at >= at0
    BY <2>2, SizeIs
  <2>4. (NoEOF(at0) => NoEOF(at)) /\ (LastLine(at0, peek) => LastLine(at, peek))
    BY <2>2, <2>3, Through DEF LastLine
  <2>5. ASSUME NEW n, Lexed(n, at, peek) PROVE Lexed(n, at0, peek)
    BY <2>3, <2>4, <2>5 DEF Lexed, Scanned
  <2>6. PrevChar(at0) = "quote" => at = at0 /\ Char(at) \in {"quote", "newline", "eof", "apost"}
    <3> SUFFICES ASSUME PrevChar(at0) = "quote" PROVE at = at0 /\ Char(at0) \in {"quote", "newline", "eof", "apost"}
      OBVIOUS
    <3>1. Char(at0) \in {"quote", "newline", "eof", "apost"}
      BY <1>3 DEF InString
    <3>2. ~(at0 \in at0 .. at - 1)
      BY <2>2, <3>1
    <3> QED BY <2>2, <2>3, <3>1, <3>2
  <2>7. CASE Char(at) \in Letter
    <3>1. NextToken(at0, peek) = CollectId(at, peek)
      BY <1>3, <2>1, <2>7 DEF NextToken
    <3>2. PrevChar(at0) # "quote"
      BY <2>6, <2>7, CharAssumption DEF Special
    <3> QED BY <2>3, <2>4, <2>5, <3>1, <3>2, IdLexed
  <2>8. ASSUME Char(at) \notin Letter, NEW c, c \in {"b", "x"}, Char(at) = "0", Char(at + 1) = c
        PROVE  /\ Lexed(NextToken(at0, peek), at0, peek)
               /\ PrevChar(at0) # "quote"
    <3>1. /\ Char(at) \notin {"eof", "nul"} /\ Char(at + 1) \notin {"eof", "nul"}
          /\ {"0", "1"} \in SUBSET HexDigit /\ HexDigit \in SUBSET HexDigit
          /\ {"BINARY", "HEX"} \subseteq NumberTypes
      BY <2>8, CharAssumption DEF NumberTypes
    <3>2. NextToken(at0, peek) = IF c = "b" THEN CollectPrefixed("BINARY", {"0", "1"}, at, peek)
                                            ELSE CollectPrefixed("HEX", HexDigit, at, peek)
      BY <1>3, <2>1, <2>8 DEF NextToken
    <3>3. /\ Lexed(CollectPrefixed("BINARY", {"0", "1"}, at, peek), at, peek)
          /\ Lexed(CollectPrefixed("HEX", HexDigit, at, peek), at, peek)
      BY <2>3, <2>4, <3>1, PrefixedLexed
    <3> QED BY <2>5, <2>6, <2>8, <3>2, <3>3
  <2>9. CASE /\ Char(at) \notin Letter /\ Char(at) \in Digit
             /\ ~(Char(at) = "0" /\ Char(at + 1) \in {"b", "x"})
    <3>1. NextToken(at0, peek) = CollectNumber(at, peek)
      BY <1>3, <2>1, <2>9 DEF NextToken
    <3>2. PrevChar(at0) # "quote"
      BY <2>6, <2>9, CharAssumption DEF Special
    <3> QED BY <2>3, <2>4, <2>5, <3>1, <3>2, NumberLexed
  <2>10. CASE Char(at) \notin Letter /\ Char(at) \notin Digit
    <3>1. Char(at) # "0"
      BY <2>10, CharAssumption
    <3>2. NextToken(at0, peek) = CollectOneChar(at, peek)
      BY <1>3, <2>1, <2>10, <3>1 DEF NextToken
    <3> QED BY <2>3, <2>4, <2>5, <2>6, <3>2, OneCharLexed
  <2> QED BY <2>7, <2>8, <2>9, <2>10
<1> QED BY <1>1, <1>2, <1>3

-----------------------------------------------------------------------------
(* The parser's own state.                                                 *)

(* Besides its domain: the cursor is not behind the end of the file, the   *)
(* counter not left behind but on the last line, no null pointer read, and *)
(* none about to be: a token behind a quote has a text.                    *)
Sane(q) ==
  /\ q \in State /\ NoEOF(q.at) /\ LastLine(q.at, q.peek) /\ q.lost # "crashed"
  /\ q.nxt.type = "QUOTA" => PrevChar(q.at) = "quote"
  /\ q.cur.type = "QUOTA" /\ q.lost = "no" => q.nxt.value # NoText

LEMMA StateIs ==
  ASSUME NEW q \in State
  PROVE  /\ q.cur \in Token /\ q.nxt \in Token /\ q.at \in 0 .. SourceSize /\ q.peek \in Nat
         /\ q.err \in BOOLEAN /\ q.lost \in {"no", "hung", "corrupt", "crashed"}
         /\ q = [cur |-> q.cur, nxt |-> q.nxt, at |-> q.at, peek |-> q.peek, err |-> q.err, lost |-> q.lost]
         /\ q.cur.type \in TokenType /\ q.cur.value \in Value
         /\ q.nxt.type \in TokenType /\ q.nxt.value \in Value
  BY DEF State, Token

(* The tokens move up. *)
LEMMA ShiftIs ==
  ASSUME Readable, NEW q \in State, NEW n, n = NextToken(q.at, q.peek), q.lost = "no"
  PROVE  /\ n \in Scanned
         /\ Shift[q] = [cur |-> q.nxt, nxt |-> n.token, at |-> n.at, peek |-> n.peek, err |-> q.err,
                        lost |-> n.lost]
         /\ Shift[q] \in State
<1>1. n \in Scanned
  BY StateIs, NextLexed DEF Lexed
<1>2. Shift[q] = Follow[q][n]
  BY DEF Shift
<1>3. Follow[q][n] = [q EXCEPT !.cur = q.nxt, !.nxt = n.token, !.at = n.at, !.peek = n.peek, !.lost = n.lost]
  BY <1>1 DEF Follow
<1>4. PICK r : r = [cur |-> q.nxt, nxt |-> n.token, at |-> n.at, peek |-> n.peek, err |-> q.err,
                    lost |-> n.lost]
  OBVIOUS
<1>5. Shift[q] = r
  BY <1>2, <1>3, <1>4 DEF State
<1>6. r \in State
  BY <1>1, <1>4, StateIs DEF State, Scanned
<1> QED BY <1>1, <1>4, <1>5, <1>6

LEMMA ShiftLost == ASSUME NEW q \in State, q.lost # "no" PROVE Shift[q] = q
  BY DEF Shift

LEMMA ShiftSane == ASSUME Readable, NEW q, Sane(q) PROVE Sane(Shift[q])
<1>1. q \in State
  BY DEF Sane
<1>2. CASE q.lost # "no"
  BY <1>1, <1>2, ShiftLost
<1>3. CASE q.lost = "no"
  <2>1. PICK n : n = NextToken(q.at, q.peek)
    OBVIOUS
  <2>2. PICK r \in State : /\ r = Shift[q]
                           /\ r = [cur |-> q.nxt, nxt |-> n.token, at |-> n.at, peek |-> n.peek,
                                   err |-> q.err, lost |-> n.lost]
    BY <1>1, <1>3, <2>1, ShiftIs
  <2>3. /\ Lexed(n, q.at, q.peek)
        /\ PrevChar(q.at) = "quote" /\ n.lost = "no" => n.token.value # NoText
    BY <1>1, <2>1, StateIs, NextLexed
  <2>4. NoEOF(n.at) /\ LastLine(n.at, n.peek) /\ (n.token.type = "QUOTA" => PrevChar(n.at) = "quote")
        /\ n.lost \in {"no", "hung", "corrupt"}
    BY <2>3 DEF Sane, Lexed, Scanned
  <2>5. r.cur = q.nxt /\ r.nxt = n.token /\ r.at = n.at /\ r.peek = n.peek /\ r.lost = n.lost
    BY <2>2
  <2>6. Sane(r)
    BY <2>3, <2>4, <2>5 DEF Sane
  <2> QED BY <2>2, <2>6
<1> QED BY <1>2, <1>3

LEMMA FailIs ==
  ASSUME NEW q \in State
  PROVE  /\ Fail(q) \in State /\ Fail(q).cur = q.cur /\ Fail(q).nxt = q.nxt
         /\ Fail(q).at = q.at /\ Fail(q).peek = q.peek /\ Fail(q).lost = q.lost
         /\ Fail(q).err = TRUE
<1>1. Fail(q) \in State
  BY DEF Fail, State
<1>2. Fail(q).err = TRUE
  BY DEF Fail, State
<1> QED BY <1>1, <1>2 DEF Fail, State

LEMMA FailSane == ASSUME NEW q, Sane(q) PROVE Sane(Fail(q))
<1>1. q \in State
  BY DEF Sane
<1>2. PICK r \in State : /\ r = Fail(q) /\ r.cur = q.cur /\ r.nxt = q.nxt /\ r.at = q.at /\ r.peek = q.peek
                         /\ r.lost = q.lost
  BY <1>1, FailIs
<1>3. Sane(r)
  BY <1>2 DEF Sane
<1> QED BY <1>2, <1>3

(* What the parser's own functions keep. *)
LEMMA StepsSane ==
  ASSUME Readable, NEW q, Sane(q)
  PROVE  /\ \A type \in TokenType : Sane(Eat[q][type]) /\ Sane(EatIf[q][type])
         /\ Sane(Report[q])
         /\ \A types \in SUBSET TokenType : Sane(ReportIf[q][types])
<1>1. q \in State
  BY DEF Sane
<1>2. Sane(Shift[q]) /\ Sane(Fail(q)) /\ Sane(Fail(Shift[q]))
  BY ShiftSane, FailSane
<1>3. Report[q] = Fail(Shift[q])
  BY <1>1 DEF Report
<1>4. ASSUME NEW type \in TokenType PROVE Sane(Eat[q][type]) /\ Sane(EatIf[q][type])
  <2>1. Eat[q][type] = IF q.cur.type = type THEN Shift[q] ELSE Fail(q)
    BY <1>1 DEF Eat
  <2>2. EatIf[q][type] = IF q.cur.type = type THEN Shift[q] ELSE q
    BY <1>1 DEF EatIf
  <2> QED BY <1>2, <2>1, <2>2
<1>5. ASSUME NEW types \in SUBSET TokenType PROVE Sane(ReportIf[q][types])
  <2>1. ReportIf[q][types] = IF q.cur.type \in types THEN Report[q] ELSE q
    BY <1>1 DEF ReportIf
  <2> QED BY <1>2, <1>3, <2>1
<1> QED BY <1>2, <1>3, <1>4, <1>5

LEMMA TypesIs ==
  /\ {"EOF", "ENDLINE", "COMMENT", "MINUS", "APOST", "CHAR", "QUOTA", "STRING", "ID", "COLON", "DATA",
      "CTYPE", "CFUNCTION", "AT", "PROC", "ENDP", "NONE"} \subseteq TokenType
  /\ OpTypes \subseteq TokenType /\ Unexpected \subseteq TokenType
  BY DEF TokenType, KeywordTypes, Unexpected

LEMMA EndOfLineSane == ASSUME Readable, NEW q, Sane(q) PROVE Sane(EndOfLine[q])
<1>1. q \in State
  BY DEF Sane
<1>2. PICK r : r = EatIf[q]["COMMENT"]
  OBVIOUS
<1>3. Sane(r)
  BY <1>2, StepsSane, TypesIs
<1>4. Sane(Eat[r]["EOF"]) /\ Sane(Eat[r]["ENDLINE"])
  BY <1>3, StepsSane, TypesIs
<1>5. EndOfLine[q] = IF r.cur.type = "EOF" THEN Eat[r]["EOF"] ELSE Eat[r]["ENDLINE"]
  BY <1>1, <1>2 DEF EndOfLine
<1> QED BY <1>4, <1>5

(* Once lost the parser stays as it is but for its errors. *)
LEMMA EatLost ==
  ASSUME NEW q \in State, q.lost # "no", NEW type \in TokenType
  PROVE  Eat[q][type] \in State /\ Eat[q][type].lost = q.lost
<1>1. Shift[q] = q /\ Fail(q) \in State /\ Fail(q).lost = q.lost
  BY ShiftLost, FailIs
<1>2. Eat[q][type] = IF q.cur.type = type THEN Shift[q] ELSE Fail(q)
  BY DEF Eat
<1> QED BY <1>1, <1>2

-----------------------------------------------------------------------------
(* Literals and operands.                                                  *)

(* What each of them leaves behind. *)
Good(o) == Sane(o.p) /\ o.value \in Value \union {NoValue} /\ o.name \in Value \union {NoName}

LEMMA FoundGood ==
  ASSUME NEW q, Sane(q), NEW value \in Value \union {NoValue}
  PROVE  Good(Found(q, value))
BY DEF Found, Good

LEMMA NumLitGood ==
  ASSUME Readable, NEW q, Sane(q), NEW sign \in Value
  PROVE  Good(NumLit(q, sign))
<1>1. q.cur.value \in Value
  BY StateIs DEF Sane
<1>2. sign \o q.cur.value \in Value
  BY <1>1 DEF Value
<1> QED BY <1>2, ShiftSane, FoundGood DEF NumLit

LEMMA NumberOperandGood == ASSUME Readable, NEW q, Sane(q) PROVE Good(NumberOperand[q])
<1>1. q \in State
  BY DEF Sane
<1>2. PICK r : r = EatIf[q]["MINUS"]
  OBVIOUS
<1>3. Sane(r)
  BY <1>2, StepsSane, TypesIs
<1>4. PICK sign : sign = IF q.cur.type = "MINUS" THEN <<"minus">> ELSE <<>>
  OBVIOUS
<1>5. sign \in Value
  <2>1. <<"minus">> \in Value
    BY CharAssumption DEF Value, Special
  <2> QED BY <1>4, <2>1, EmptyIs
<1>6. Good(NumLit(r, sign)) /\ Good(Found(r, NoValue))
  BY <1>3, <1>5, NumLitGood, FoundGood
<1>7. NumberOperand[q] = IF r.cur.type \in NumberTypes THEN NumLit(r, sign) ELSE Found(r, NoValue)
  BY <1>1, <1>2, <1>4 DEF NumberOperand
<1> QED BY <1>6, <1>7

LEMMA CharLitGood == ASSUME Readable, NEW q, Sane(q) PROVE Good(CharLit[q])
<1>1. q \in State
  BY DEF Sane
<1>2. PICK r : r = Eat[q]["APOST"]
  OBVIOUS
<1>3. Sane(r)
  BY <1>2, StepsSane, TypesIs
<1>4. PICK s : s = Eat[r]["CHAR"]
  OBVIOUS
<1>5. Sane(s)
  BY <1>3, <1>4, StepsSane, TypesIs
<1>6. Sane(Eat[s]["APOST"]) /\ r.cur.value \in Value
  BY <1>3, <1>5, StepsSane, TypesIs, StateIs DEF Sane
<1>7. CharLit[q] = Found(Eat[s]["APOST"], r.cur.value)
  BY <1>1, <1>2, <1>4 DEF CharLit
<1> QED BY <1>6, <1>7, FoundGood

LEMMA UpToNulIs == ASSUME NEW text \in Value PROVE UpToNul(text) \in Value
<1> DEFINE Nuls == {k \in DOMAIN text : text[k] = "nul"}
           IsFirst(k) == text[k] = "nul" /\ \A j \in 1 .. k - 1 : text[j] # "nul"
<1>1. Len(text) \in Nat /\ DOMAIN text = 1 .. Len(text)
  BY DEF Value
<1>2. CASE Nuls = {}
  BY <1>2 DEF UpToNul
<1>3. CASE Nuls # {}
  <2>1. PICK f \in Nuls : \A k \in Nuls : f <= k
    <3>1. Nuls \subseteq Nat
      BY <1>1
    <3> HIDE DEF Nuls
    <3> QED BY <1>3, <3>1, LeastNat
  <2>2. f \in DOMAIN text /\ IsFirst(f)
    <3>1. ASSUME NEW j \in 1 .. f - 1, text[j] = "nul" PROVE FALSE
      <4>1. j \in Nuls /\ ~(f <= j)
        BY <1>1, <3>1
      <4> QED BY <2>1, <4>1
    <3> QED BY <3>1
  <2>3. PICK m \in DOMAIN text : m = CHOOSE k \in DOMAIN text : IsFirst(k)
    <3> HIDE DEF IsFirst
    <3> QED BY <2>2
  <2>4. UpToNul(text) = SubSeq(text, 1, m - 1)
    BY <1>3, <2>3 DEF UpToNul
  <2> QED BY <1>1, <2>4 DEF Value
<1> QED BY <1>2, <1>3

(* The token behind a quote has a text, so its length can be taken. *)
LEMMA StrLitGood == ASSUME Readable, NEW q, Sane(q), q.cur.type = "QUOTA" PROVE Good(StrLit[q])
<1>1. q \in State
  BY DEF Sane
<1>2. PICK r : r = Eat[q]["QUOTA"]
  OBVIOUS
<1>3. Sane(r)
  BY <1>2, StepsSane, TypesIs
<1>4. PICK t : t = Eat[r]["STRING"]
  OBVIOUS
<1>5. Sane(t)
  BY <1>3, <1>4, StepsSane, TypesIs
<1>6. PICK s : s = Eat[t]["QUOTA"]
  OBVIOUS
<1>7. Sane(s) /\ r.cur.value \in Value
  BY <1>3, <1>5, <1>6, StepsSane, TypesIs, StateIs DEF Sane
<1>8. r.cur.value = NoText => s.lost # "no"
  <2>1. r = Shift[q]
    BY <1>1, <1>2, TypesIs DEF Eat
  <2>2. CASE q.lost = "no"
    <3>1. PICK n : n = NextToken(q.at, q.peek)
      OBVIOUS
    <3>2. r = [cur |-> q.nxt, nxt |-> n.token, at |-> n.at, peek |-> n.peek, err |-> q.err, lost |-> n.lost]
      BY <1>1, <2>1, <2>2, <3>1, ShiftIs
    <3>3. r.cur = q.nxt
      BY <3>2
    <3> QED BY <2>2, <3>3 DEF Sane
  <2>3. CASE q.lost # "no"
    <3>1. r = q
      BY <1>1, <2>1, <2>3, ShiftLost
    <3>2. t \in State /\ t.lost = q.lost
      BY <1>1, <1>4, <2>3, <3>1, EatLost, TypesIs
    <3> QED BY <1>6, <2>3, <3>2, EatLost, TypesIs
  <2> QED BY <2>2, <2>3
<1>9. StrLit[q] = Found(s, UpToNul(r.cur.value))
  <2>1. StrLit[q] = IF r.cur.value = NoText /\ s.lost = "no" THEN Found([s EXCEPT !.lost = "crashed"], NoValue)
                    ELSE Found(s, UpToNul(r.cur.value))
    BY <1>1, <1>2, <1>4, <1>6 DEF StrLit
  <2> QED BY <1>8, <2>1
<1> QED BY <1>7, <1>9, UpToNulIs, FoundGood

LEMMA IntOperandGood == ASSUME Readable, NEW q, Sane(q) PROVE Good(IntOperand[q])
<1>1. q \in State
  BY DEF Sane
<1>2. Good(NumLit(q, <<>>)) /\ Good(Found(q, NoValue))
  BY NumLitGood, FoundGood, EmptyIs
<1>3. IntOperand[q] = IF q.cur.type \in {"DECIMAL", "HEX"} THEN NumLit(q, <<>>) ELSE Found(q, NoValue)
  BY <1>1 DEF IntOperand
<1> QED BY <1>2, <1>3

LEMMA LabelOperandGood == ASSUME Readable, NEW q, Sane(q) PROVE Good(LabelOperand[q])
<1>1. q \in State
  BY DEF Sane
<1>2. PICK o : o = [p |-> Shift[q], value |-> q.cur.value, name |-> q.cur.value]
  OBVIOUS
<1>3. Good(o)
  <2>1. o.p = Shift[q] /\ o.value = q.cur.value /\ o.name = q.cur.value
    BY <1>2
  <2> QED BY <1>1, <2>1, ShiftSane, StateIs DEF Good
<1>4. LabelOperand[q] = IF q.cur.type = "ID" THEN o ELSE Found(q, NoValue)
  BY <1>1, <1>2 DEF LabelOperand
<1> QED BY <1>3, <1>4, FoundGood

LEMMA OperandGood ==
  ASSUME Readable, NEW q, Sane(q), NEW type \in OpTypes
  PROVE  Good(Operand[q][type])
<1>1. q \in State
  BY DEF Sane
<1>2. Operand[q][type] =
        CASE type = "PLAIN" -> Found(q, <<>>)
          [] type = "PUSH"  -> IF q.cur.type = "APOST" THEN CharLit[q] ELSE NumberOperand[q]
          [] type = "INT"   -> IntOperand[q]
          [] type = "JUMP"  -> IF q.cur.type = "ID" THEN LabelOperand[q] ELSE IntOperand[q]
          [] type = "CALL"  -> LabelOperand[q]
  BY <1>1 DEF Operand
<1>3. /\ Good(Found(q, <<>>)) /\ Good(CharLit[q]) /\ Good(NumberOperand[q]) /\ Good(IntOperand[q])
      /\ Good(LabelOperand[q])
  BY FoundGood, CharLitGood, NumberOperandGood, IntOperandGood, LabelOperandGood, EmptyIs
<1>4. CASE type = "PLAIN"
  BY <1>2, <1>3, <1>4
<1>5. CASE type = "PUSH"
  BY <1>2, <1>3, <1>5
<1>6. CASE type = "INT"
  BY <1>2, <1>3, <1>6
<1>7. CASE type = "JUMP"
  BY <1>2, <1>3, <1>7
<1>8. CASE type = "CALL"
  BY <1>2, <1>3, <1>8
<1> QED BY <1>4, <1>5, <1>6, <1>7, <1>8 DEF OpTypes

-----------------------------------------------------------------------------
(* The loop of tasm_parse_cfunction.                                       *)

(* What it counts down: the characters left, then the tokens that are not  *)
(* yet the one the lexer gives for ever, the error not yet recorded, and   *)
(* whether the lexer still comes back.                                     *)
Stale(q) ==
  IF q.nxt # NextToken(q.at, q.peek).token THEN 2
  ELSE IF q.cur # NextToken(q.at, q.peek).token THEN 1 ELSE 0
Clean(q) == IF q.err THEN 0 ELSE 1
Alive(q) == IF q.lost = "no" THEN 1 ELSE 0
ToGo(q) == (5 * (SourceSize - q.at)) + Stale(q) + Clean(q) + Alive(q)

LEMMA ToGoIs ==
  ASSUME Readable, NEW q \in State
  PROVE  /\ ToGo(q) \in Nat /\ ToGo(q) >= 5 * (SourceSize - q.at)
         /\ ToGo(q) <= (5 * (SourceSize - q.at)) + 4
         /\ Stale(q) \in 0 .. 2 /\ Clean(q) \in 0 .. 1 /\ Alive(q) \in 0 .. 1
<1>1. SourceSize \in Nat /\ q.at \in 0 .. SourceSize
  BY SizeIs, StateIs
<1>2. Stale(q) \in 0 .. 2 /\ Clean(q) \in 0 .. 1 /\ Alive(q) \in 0 .. 1
  BY DEF Stale, Clean, Alive
<1>3. PICK k \in Nat : k = SourceSize - q.at
  BY <1>1
<1>4. ToGo(q) = (5 * k) + Stale(q) + Clean(q) + Alive(q)
  BY <1>3 DEF ToGo
<1> QED BY <1>2, <1>3, <1>4

LEMMA ArgumentMoves ==
  ASSUME Readable, NEW q \in State, q.lost = "no", NEW u \in {q, Fail(q)}, NEW r, r = Shift[u], r # q
  PROVE  r \in State /\ ToGo(r) < ToGo(q)
<1>1. /\ u \in State /\ u.cur = q.cur /\ u.nxt = q.nxt /\ u.at = q.at /\ u.peek = q.peek /\ u.lost = "no"
      /\ u.err \in {q.err, TRUE}
  BY FailIs
<1>2. PICK n : n = NextToken(q.at, q.peek)
  OBVIOUS
<1>3. /\ n \in Scanned /\ r \in State
      /\ r = [cur |-> q.nxt, nxt |-> n.token, at |-> n.at, peek |-> n.peek, err |-> u.err, lost |-> n.lost]
  BY <1>1, <1>2, ShiftIs
<1>4. r.cur = q.nxt /\ r.nxt = n.token /\ r.at = n.at /\ r.peek = n.peek /\ r.err = u.err /\ r.lost = n.lost
  BY <1>3
<1>5. q.at \in 0 .. SourceSize /\ r.at \in 0 .. SourceSize /\ SourceSize \in Nat /\ q.err \in BOOLEAN
  BY <1>3, SizeIs, StateIs
<1>6. n.at >= q.at /\ (n.at = q.at => n.peek = q.peek)
  BY <1>2, StateIs, NextLexed DEF Lexed
<1>7. CASE n.at # q.at
  <2>1. ToGo(r) <= (5 * (SourceSize - r.at)) + 4 /\ ToGo(q) >= 5 * (SourceSize - q.at)
    BY <1>3, ToGoIs
  <2>2. ToGo(r) \in Nat /\ ToGo(q) \in Nat
    BY <1>3, ToGoIs
  <2>3. r.at > q.at
    BY <1>4, <1>5, <1>6, <1>7
  <2> QED BY <1>3, <1>5, <2>1, <2>2, <2>3
<1>8. CASE n.at = q.at
  <2>1. NextToken(r.at, r.peek) = n
    BY <1>2, <1>4, <1>6, <1>8
  <2>2. Stale(r) = IF q.nxt # n.token THEN 1 ELSE 0
    BY <1>4, <2>1 DEF Stale
  <2>3. Stale(q) = IF q.nxt # n.token THEN 2 ELSE IF q.cur # n.token THEN 1 ELSE 0
    BY <1>2 DEF Stale
  <2>4. Clean(r) \in 0 .. 1 /\ Clean(q) \in 0 .. 1 /\ (Clean(r) = Clean(q) \/ Clean(r) = 0)
    <3>1. r.err = q.err \/ r.err = TRUE
      BY <1>1, <1>4
    <3>2. CASE r.err = q.err
      <4>1. Clean(r) = Clean(q)
        BY <3>2 DEF Clean
      <4> QED BY <1>3, <4>1, ToGoIs
    <3>3. CASE r.err = TRUE
      <4>1. Clean(r) = 0
        BY <3>3 DEF Clean
      <4> QED BY <1>3, <4>1, ToGoIs
    <3> QED BY <3>1, <3>2, <3>3
  <2>5. Alive(r) \in 0 .. 1 /\ Alive(q) = 1
    BY DEF Alive
  <2>6. PICK k \in Nat : k = SourceSize - q.at
    BY <1>5
  <2>7. ToGo(r) = (5 * k) + Stale(r) + Clean(r) + Alive(r) /\ ToGo(q) = (5 * k) + Stale(q) + Clean(q) + Alive(q)
    BY <1>4, <1>8, <2>6 DEF ToGo
  <2>8. CASE q.nxt # n.token \/ q.cur # n.token
    <3>1. Stale(r) \in 0 .. 1 /\ Stale(q) = Stale(r) + 1
      BY <2>2, <2>3, <2>8
    <3> QED BY <1>3, <2>4, <2>5, <2>6, <2>7, <3>1
  <2>9. CASE q.nxt = n.token /\ q.cur = n.token
    <3>1. Stale(r) = 0 /\ Stale(q) = 0
      BY <2>2, <2>3, <2>9
    <3>2. u.err # q.err \/ n.lost # "no"
      <4> SUFFICES ASSUME u.err = q.err, n.lost = "no" PROVE r = q
        OBVIOUS
      <4>1. r = [cur |-> q.cur, nxt |-> q.nxt, at |-> q.at, peek |-> q.peek, err |-> q.err, lost |-> q.lost]
        BY <1>3, <1>6, <1>8, <2>9
      <4> QED BY <4>1, StateIs
    <3>3. Clean(r) < Clean(q) \/ Alive(r) = 0
      <4>1. CASE n.lost # "no"
        <5>1. Alive(r) = 0
          BY <1>4, <4>1 DEF Alive
        <5> QED BY <5>1
      <4>2. CASE u.err # q.err
        <5>1. u.err = TRUE /\ q.err = FALSE
          BY <1>1, <1>5, <4>2
        <5>2. Clean(r) = 0 /\ Clean(q) = 1
          BY <1>4, <5>1 DEF Clean
        <5> QED BY <5>2
      <4> QED BY <3>2, <4>1, <4>2
    <3> QED BY <1>3, <2>4, <2>5, <2>6, <2>7, <3>1, <3>3
  <2> QED BY <2>8, <2>9
<1> QED BY <1>3, <1>7, <1>8

(* The loop ends or hangs in front of the end of its line, with the        *)
(* parser's state in order.                                                *)
LEMMA ArgumentsSane == ASSUME Readable, NEW q0, Sane(q0) PROVE Sane(Arguments[q0])
<1> DEFINE Stops(q) == q.lost # "no" \/ q.cur.type \in {"ENDLINE", "EOF", "COMMENT"}
           On(q) == Shift[IF q.cur.type = "CTYPE" THEN q ELSE Fail(q)]
           E == {q \in State : Stops(q) \/ On(q) = q}
           b == [q \in State |-> IF Stops(q) THEN q ELSE [q EXCEPT !.lost = "hung"]]
           next == [q \in State |-> On(q)]
           mu == [q \in State |-> ToGo(q)]
           G == {q \in State : Sane(q)}
           Body(f, q) == IF Stops(q) THEN q
                         ELSE IF On(q) = q THEN [q EXCEPT !.lost = "hung"] ELSE f[On(q)]
<1>1. ASSUME NEW q \in State PROVE On(q) \in State
  <2>1. \A u \in State : Shift[u] \in State
    BY ShiftIs, ShiftLost
  <2> QED BY <2>1, FailIs
<1>2. next \in [State -> State]
  <2> HIDE DEF On
  <2> QED BY <1>1
<1>3. mu \in [State -> Nat]
  BY ToGoIs
<1>4. ASSUME NEW q \in State, q \notin E PROVE mu[next[q]] < mu[q]
  <2>1. ~Stops(q) /\ On(q) # q
    BY <1>4
  <2>2. ToGo(On(q)) < ToGo(q)
    BY <2>1, ArgumentMoves
  <2>3. next[q] = On(q) /\ mu[q] = ToGo(q) /\ mu[On(q)] = ToGo(On(q))
    <3> HIDE DEF On
    <3> QED BY <1>1
  <2> HIDE DEF On, mu, next
  <2> QED BY <2>2, <2>3
<1>5. Descends(State, E, next, mu)
  <2> HIDE DEF E, next, mu
  <2> QED BY <1>2, <1>3, <1>4 DEF Descends
<1>6. ASSUME NEW f PROVE [q \in State |-> Body(f, q)] =
                         [q \in State |-> IF q \in E THEN b[q] ELSE f[next[q]]]
  <2>1. ASSUME NEW q \in State PROVE Body(f, q) = IF q \in E THEN b[q] ELSE f[next[q]]
    <3> HIDE DEF Stops, On
    <3> QED OBVIOUS
  <2> HIDE DEF Body, E, b, next
  <2> QED BY <2>1
<1>7. Arguments = CHOOSE f : f = [q \in State |-> Body(f, q)]
  BY DEF Arguments
<1>8. Loops(Arguments, State, E, b, next)
  <2> HIDE DEF Body, E, b, next, mu
  <2>1. \E f : Loops(f, State, E, b, next)
    BY <1>5, LoopEnds
  <2>2. \E f : f = [q \in State |-> Body(f, q)]
    BY <1>6, <2>1 DEF Loops
  <2>3. Arguments = [q \in State |-> Body(Arguments, q)]
    BY <1>7, <2>2
  <2> QED BY <1>6, <2>3 DEF Loops
<1>9. ASSUME NEW q \in G PROVE IF q \in E THEN b[q] \in G ELSE next[q] \in G
  <2>1. Sane(q) /\ q \in State
    OBVIOUS
  <2>2. Sane(On(q))
    BY <2>1, ShiftSane, FailSane
  <2>3. PICK h : h = [q EXCEPT !.lost = "hung"]
    OBVIOUS
  <2>4. Sane(h)
    <3>1. h = [cur |-> q.cur, nxt |-> q.nxt, at |-> q.at, peek |-> q.peek, err |-> q.err, lost |-> "hung"]
      BY <2>1, <2>3 DEF State
    <3>2. /\ h \in State /\ h.nxt = q.nxt /\ h.at = q.at /\ h.peek = q.peek /\ h.lost = "hung"
      BY <2>1, <3>1, StateIs DEF State
    <3> QED BY <2>1, <3>2 DEF Sane
  <2>5. b[q] = (IF Stops(q) THEN q ELSE h) /\ next[q] = On(q)
    <3> HIDE DEF Stops, On
    <3> QED BY <2>1, <2>3
  <2>6. b[q] \in State /\ Sane(b[q]) /\ next[q] \in State /\ Sane(next[q])
    <3>1. Sane(next[q]) /\ Sane(b[q])
      BY <2>1, <2>2, <2>4, <2>5
    <3> QED BY <3>1 DEF Sane
  <2> HIDE DEF b, next, E
  <2> QED BY <2>6
<1>10. Keeps(State, G, G, E, b, next)
  <2>1. G \subseteq State
    OBVIOUS
  <2> HIDE DEF G, E, b, next
  <2> QED BY <1>9, <2>1 DEF Keeps
<1>11. \A q \in G : Arguments[q] \in G
  <2> HIDE DEF G, E, b, next, mu
  <2> QED BY <1>5, <1>8, <1>10, LoopKeeps
<1>12. q0 \in G
  BY DEF Sane
<1> HIDE DEF E, b, next, mu
<1> QED BY <1>11, <1>12

-----------------------------------------------------------------------------
(* Lines.                                                                  *)

Name == Value \union {Top, NoName, NoValue}
Node == [kind : Kind, op : Name, in : Name, name : Name, value : Name]

(* What a line leaves behind. *)
Fine(l) == Sane(l.p) /\ l.nodes \in Seq(Node)

LEMMA NoNode == <<>> \in Seq(Node)
  OBVIOUS

LEMMA NodeOfIs ==
  ASSUME in \in Name, NEW kind \in Kind, NEW op \in Name, NEW name \in Name, NEW value \in Name
  PROVE  NodeOf(kind, op, name, value) \in Seq(Node)
<1>1. [kind |-> kind, op |-> op, in |-> in, name |-> name, value |-> value] \in Node
  BY DEF Node
<1> QED BY <1>1 DEF NodeOf

LEMMA NamesAre == Value \subseteq Name /\ NoText \in Name /\ Top \in Name /\ NoName \in Name /\ NoValue \in Name
  BY NullIs DEF Name

LEMMA LineIs ==
  ASSUME NEW q, Sane(q), NEW nodes \in Seq(Node)
  PROVE  Fine([p |-> q, nodes |-> nodes])
BY DEF Fine

LEMMA InstructionFine ==
  ASSUME Readable, in \in Name, NEW q, Sane(q), q.cur.type \in OpTypes
  PROVE  Fine(Instruction[q])
<1>1. q \in State
  BY DEF Sane
<1>2. PICK o : o = Operand[Shift[q]][q.cur.type]
  OBVIOUS
<1>3. Good(o)
  BY <1>2, ShiftSane, OperandGood
<1>4. Sane(o.p) /\ o.name \in Name
  BY <1>3 DEF Good, Name
<1>5. PICK r : r = IF o.value = NoValue THEN Report[o.p] ELSE o.p
  OBVIOUS
<1>6. Sane(EndOfLine[r])
  BY <1>4, <1>5, StepsSane, EndOfLineSane
<1>7. PICK kind \in Kind :
        kind = IF o.name = NoName THEN "inst" ELSE IF q.cur.type = "CALL" THEN "call" ELSE "jump"
  BY DEF Kind
<1>8. PICK nodes : nodes = NodeOf(kind, q.cur.value, o.name, NoValue)
  OBVIOUS
<1>9. nodes \in Seq(Node)
  BY <1>1, <1>4, <1>8, StateIs, NamesAre, NodeOfIs
<1>10. Instruction[q] = [p |-> EndOfLine[r], nodes |-> nodes]
  BY <1>1, <1>2, <1>5, <1>7, <1>8 DEF Instruction
<1> QED BY <1>6, <1>9, <1>10, LineIs

LEMMA LabelDeclFine ==
  ASSUME Readable, in \in Name, NEW q, Sane(q)
  PROVE  Fine(LabelDecl[q])
<1>1. q \in State
  BY DEF Sane
<1>2. PICK r : r = Eat[q]["ID"]
  OBVIOUS
<1>3. Sane(r)
  BY <1>2, StepsSane, TypesIs
<1>4. Sane(Eat[r]["COLON"])
  BY <1>3, StepsSane, TypesIs
<1>5. PICK nodes : nodes = NodeOf("label", NoText, q.cur.value, NoValue)
  OBVIOUS
<1>6. nodes \in Seq(Node)
  BY <1>1, <1>5, StateIs, NamesAre, NodeOfIs DEF Kind
<1>7. LabelDecl[q] = [p |-> Eat[r]["COLON"], nodes |-> nodes]
  BY <1>1, <1>2, <1>5 DEF LabelDecl
<1> QED BY <1>4, <1>6, <1>7, LineIs

LEMMA DataFine ==
  ASSUME Readable, in \in Name, NEW q, Sane(q)
  PROVE  Fine(Data[q])
<1>1. q \in State
  BY DEF Sane
<1>2. PICK r : r = Eat[q]["DATA"]
  OBVIOUS
<1>3. Sane(r)
  BY <1>2, StepsSane, TypesIs
<1>4. PICK v : v = IF r.cur.type = "QUOTA" THEN StrLit[r]
                   ELSE IF r.cur.type = "APOST" THEN CharLit[r] ELSE NumberOperand[r]
  OBVIOUS
<1>5. Good(v)
  BY <1>3, <1>4, StrLitGood, CharLitGood, NumberOperandGood
<1>6. Sane(v.p) /\ v.value \in Name
  BY <1>5 DEF Good, Name
<1>7. PICK nodes : nodes = NodeOf("data", NoText, NoName, v.value)
  OBVIOUS
<1>8. nodes \in Seq(Node)
  BY <1>6, <1>7, NamesAre, NodeOfIs DEF Kind
<1>9. Data[q] = [p |-> v.p, nodes |-> nodes]
  BY <1>1, <1>2, <1>4, <1>7 DEF Data
<1> QED BY <1>6, <1>8, <1>9, LineIs

LEMMA CfunctionFine == ASSUME Readable, NEW q, Sane(q) PROVE Fine(Cfunction[q])
<1>1. q \in State
  BY DEF Sane
<1>2. PICK r : r = Eat[q]["CFUNCTION"]
  OBVIOUS
<1>3. Sane(r)
  BY <1>2, StepsSane, TypesIs
<1>4. PICK s : s = Shift[IF r.cur.type = "CTYPE" THEN r ELSE Fail(r)]
  OBVIOUS
<1>5. Sane(s)
  BY <1>3, <1>4, ShiftSane, FailSane
<1>6. PICK t : t = Eat[s]["ID"]
  OBVIOUS
<1>7. Sane(t)
  BY <1>5, <1>6, StepsSane, TypesIs
<1>8. Cfunction[q] = [p |-> Arguments[t], nodes |-> <<>>]
  BY <1>1, <1>2, <1>4, <1>6 DEF Cfunction
<1> QED BY <1>7, <1>8, ArgumentsSane, NoNode, LineIs

LEMMA MetadataFine ==
  ASSUME Readable, in \in Name, NEW q, Sane(q)
  PROVE  Fine(Metadata[q])
<1>1. q \in State
  BY DEF Sane
<1>2. PICK r : r = Eat[q]["AT"]
  OBVIOUS
<1>3. Sane(r)
  BY <1>2, StepsSane, TypesIs
<1>4. Fine([p |-> Fail(r), nodes |-> <<>>])
  BY <1>3, FailSane, NoNode, LineIs
<1>5. Metadata[q] = CASE r.cur.type = "CFUNCTION" -> Cfunction[r]
                      [] r.cur.type = "DATA"      -> Data[r]
                      [] OTHER                    -> [p |-> Fail(r), nodes |-> <<>>]
  BY <1>1, <1>2 DEF Metadata
<1> QED BY <1>3, <1>4, <1>5, CfunctionFine, DataFine

LEMMA RestFine == ASSUME Readable, NEW q, Sane(q) PROVE Fine(Rest[q])
<1>1. q \in State
  BY DEF Sane
<1>2. PICK a : a = ReportIf[q][Unexpected]
  OBVIOUS
<1>3. Sane(a)
  BY <1>2, StepsSane, TypesIs
<1>4. PICK b : b = ReportIf[a][{"CFUNCTION", "CTYPE"}]
  OBVIOUS
<1>5. Sane(b)
  <2>1. {"CFUNCTION", "CTYPE"} \in SUBSET TokenType
    BY TypesIs
  <2> QED BY <1>3, <1>4, <2>1, StepsSane
<1>6. PICK r : r = ReportIf[b][{"ENDP"}]
  OBVIOUS
<1>7. Sane(r)
  <2>1. {"ENDP"} \in SUBSET TokenType
    BY TypesIs
  <2> QED BY <1>5, <1>6, <2>1, StepsSane
<1>8. PICK c : c = EatIf[r]["ENDLINE"]
  OBVIOUS
<1>9. Sane(c)
  BY <1>7, <1>8, StepsSane, TypesIs
<1>10. PICK d : d = EatIf[c]["COMMENT"]
  OBVIOUS
<1>11. Sane(d)
  BY <1>9, <1>10, StepsSane, TypesIs
<1>12. Sane(EatIf[d]["EOF"])
  BY <1>11, StepsSane, TypesIs
<1>13. Rest[q] = [p |-> EatIf[d]["EOF"], nodes |-> <<>>]
  BY <1>1, <1>2, <1>4, <1>6, <1>8, <1>10 DEF Rest
<1> QED BY <1>12, <1>13, NoNode, LineIs

LEMMA ParseLineFine ==
  ASSUME Readable, in \in Name, NEW q, Sane(q)
  PROVE  Fine(ParseLine[q])
<1>1. q \in State
  BY DEF Sane
<1>2. ParseLine[q] = IF IsLabelDecl(q) THEN LabelDecl[q]
                     ELSE IF q.cur.type \in OpTypes THEN Instruction[q]
                     ELSE IF q.cur.type = "AT" THEN Metadata[q] ELSE Rest[q]
  BY <1>1 DEF ParseLine
<1> QED BY <1>2, LabelDeclFine, InstructionFine, MetadataFine, RestFine

LEMMA ParseProcLineFine ==
  ASSUME Readable, in \in Name, NEW q, Sane(q)
  PROVE  Fine(ParseProcLine[q])
<1>1. q \in State
  BY DEF Sane
<1>2. {"PROC"} \in SUBSET TokenType /\ {"AT"} \in SUBSET TokenType /\ {"DATA"} \in SUBSET TokenType
  BY TypesIs
<1>3. PICK a : a = ReportIf[q][{"PROC"}]
  OBVIOUS
<1>4. Sane(a)
  BY <1>2, <1>3, StepsSane
<1>5. PICK b : b = ReportIf[a][{"AT"}]
  OBVIOUS
<1>6. Sane(b)
  BY <1>2, <1>4, <1>5, StepsSane
<1>7. PICK c : c = ReportIf[b][{"DATA"}]
  OBVIOUS
<1>8. Sane(c)
  BY <1>2, <1>6, <1>7, StepsSane
<1>9. ParseProcLine[q] = IF IsLabelDecl(q) THEN LabelDecl[q]
                         ELSE IF q.cur.type \in OpTypes THEN Instruction[q] ELSE Rest[c]
  BY <1>1, <1>3, <1>5, <1>7 DEF ParseProcLine
<1> QED BY <1>8, <1>9, LabelDeclFine, InstructionFine, RestFine

-----------------------------------------------------------------------------
(* The specification.                                                      *)

(* The inductive invariant. *)
Parsing ==
  /\ Readable /\ Sane(p) /\ (in = Top \/ in \in Value) /\ lines \in Seq(Node)
  /\ status \in {"running", "accepted", "rejected", "hung", "corrupt"}

LEMMA ParsingInit == Init => Parsing
<1> SUFFICES ASSUME Init PROVE Parsing
  OBVIOUS
<1>1. Readable
  BY FilesAssumption DEF Init, Readable
<1>2. Sane(InitParser)
  <2>1. PICK q : q = InitParser
    OBVIOUS
  <2>2. /\ q.cur = None /\ q.nxt = None /\ q.at = 0 /\ q.peek = 0 /\ q.err = FALSE /\ q.lost = "no"
        /\ q = [cur |-> None, nxt |-> None, at |-> 0, peek |-> 0, err |-> FALSE, lost |-> "no"]
    BY <2>1 DEF InitParser
  <2>3. None \in Token /\ None.type = "NONE"
    BY NullIs, TypesIs DEF None, Token
  <2>4. 0 \in 0 .. SourceSize
    BY <1>1, SizeIs
  <2>5. q \in State
    BY <2>2, <2>3, <2>4 DEF State
  <2>6. NoEOF(0) /\ LastLine(0, 0)
    BY DEF NoEOF, LastLine
  <2> QED BY <2>1, <2>2, <2>3, <2>5, <2>6 DEF Sane
<1>3. Sane(p)
  BY <1>1, <1>2, ShiftSane, StepsSane, TypesIs DEF Init
<1> QED BY <1>1, <1>3 DEF Init, Parsing

LEMMA ParsingNext == Parsing /\ [Next]_vars => Parsing'
<1> SUFFICES ASSUME Parsing, [Next]_vars PROVE Parsing'
  OBVIOUS
<1>1. Readable /\ Sane(p) /\ in \in Name /\ p \in State
  BY NamesAre DEF Parsing, Sane
<1>2. ASSUME UNCHANGED source, Sane(p') PROVE Readable' /\ Sane(p)'
  <2>1. SourceSize' = SourceSize
    BY <1>2 DEF SourceSize
  <2>2. State' = State
    BY <2>1 DEF State
  <2>3. \A at : Char(at)' = Char(at)
    BY <1>2 DEF Char
  <2>4. NoEOF(p.at)' = NoEOF(p'.at) /\ LastLine(p.at, p.peek)' = LastLine(p'.at, p'.peek)
    BY <1>2, <2>1, <2>3 DEF NoEOF, LastLine
  <2>5. PrevChar(p.at)' = PrevChar(p'.at)
    BY <2>3 DEF PrevChar
  <2> QED BY <1>1, <1>2, <2>2, <2>4, <2>5 DEF Sane, Readable
<1>3. ASSUME NEW l, Fine(l), Take(l) PROVE Sane(p') /\ lines' \in Seq(Node)
  BY <1>3 DEF Fine, Take, Parsing
<1>4. CASE FileLine
  <2>1. Fine(ParseLine[p])
    BY <1>1, ParseLineFine
  <2>2. Sane(p') /\ lines' \in Seq(Node) /\ UNCHANGED <<source, in, status>>
    BY <1>3, <1>4, <2>1 DEF FileLine
  <2> QED BY <1>2, <2>2 DEF Parsing
<1>5. CASE ProcBegin
  <2>1. PICK q : q = Eat[p]["PROC"]
    OBVIOUS
  <2>2. Sane(q) /\ q \in State
    BY <1>1, <2>1, StepsSane, TypesIs DEF Sane
  <2>3. q.cur.value \in Value
    BY <2>2, StateIs
  <2>4. PICK nodes : nodes = NodeOf("proc", NoText, q.cur.value, NoValue)
    OBVIOUS
  <2>5. nodes \in Seq(Node)
    BY <1>1, <2>3, <2>4, NamesAre, NodeOfIs DEF Kind
  <2>6. Fine([p |-> Eat[q]["ID"], nodes |-> nodes])
    BY <1>1, <2>2, <2>5, StepsSane, TypesIs, LineIs
  <2>7. Take([p |-> Eat[q]["ID"], nodes |-> nodes]) /\ in' = q.cur.value /\ UNCHANGED <<source, status>>
    BY <1>5, <2>1, <2>4 DEF ProcBegin
  <2>8. Sane(p') /\ lines' \in Seq(Node)
    BY <1>3, <2>6, <2>7
  <2> QED BY <1>2, <2>3, <2>7, <2>8 DEF Parsing
<1>6. CASE ProcLine
  <2>1. Fine(ParseProcLine[p])
    BY <1>1, ParseProcLineFine
  <2>2. Sane(p') /\ lines' \in Seq(Node) /\ UNCHANGED <<source, in, status>>
    BY <1>3, <1>6, <2>1 DEF ProcLine
  <2> QED BY <1>2, <2>2 DEF Parsing
<1>7. CASE ProcEnd
  <2>1. Sane(EndOfLine[Eat[p]["ENDP"]])
    BY <1>1, StepsSane, TypesIs, EndOfLineSane
  <2>2. Sane(p') /\ in' = Top /\ UNCHANGED <<source, lines, status>>
    BY <1>7, <2>1 DEF ProcEnd
  <2> QED BY <1>2, <2>2 DEF Parsing
<1>8. CASE FileEnd
  <2>1. Sane(p') /\ UNCHANGED <<source, in, lines>> /\ status' \in {"accepted", "rejected"}
    BY <1>1, <1>8, EndOfLineSane DEF FileEnd
  <2> QED BY <1>2, <2>1 DEF Parsing
<1>9. CASE Lost
  <2>1. p.lost \in {"hung", "corrupt"}
    BY <1>1, <1>9, StateIs DEF Lost, Sane
  <2>2. Sane(p') /\ UNCHANGED <<source, p, in, lines>> /\ status' \in {"hung", "corrupt"}
    BY <1>1, <1>9, <2>1 DEF Lost
  <2> QED BY <1>2, <2>2 DEF Parsing
<1>10. CASE UNCHANGED vars
  <2>1. Sane(p') /\ UNCHANGED <<source, p, in, lines, status>>
    BY <1>1, <1>10 DEF vars
  <2> QED BY <1>2, <2>1 DEF Parsing
<1> QED BY <1>4, <1>5, <1>6, <1>7, <1>8, <1>9, <1>10 DEF Next

LEMMA ParsingAlways == Spec => []Parsing
<1> QED BY ParsingInit, ParsingNext, PTL DEF Spec

(* Whatever the file is made of, every variable of the lexer and the       *)
(* parser stays in its domain, and the cursor never passes the character   *)
(* that ends the file: neither an advance, nor the search for the end of a *)
(* line, nor an escape in front of it (tasm_lexer.h:80-128).               *)
THEOREM ParserTyped == Spec => []TypeOK
<1>1. Parsing => TypeOK
  <2> SUFFICES ASSUME Parsing PROVE TypeOK
    OBVIOUS
  <2>1. p \in State /\ \A k \in 1 .. p.at : source[k] # "eof"
    BY DEF Parsing, Sane, NoEOF
  <2>2. \A k \in 1 .. Len(lines) : lines[k].kind \in Kind
    <3>1. lines \in Seq(Node)
      BY DEF Parsing
    <3>2. \A k \in 1 .. Len(lines) : lines[k] \in Node
      BY <3>1
    <3> QED BY <3>2 DEF Node
  <2> QED BY <2>1, <2>2 DEF TypeOK, Parsing
<1> QED BY <1>1, ParsingAlways, PTL

(* tasm_parse_str_lit takes the length of the token behind a quote without *)
(* a look at its type; that token is the string the lexer scans there, or  *)
(* one of a single character, and never a null pointer                     *)
(* (tasm_parser.h:874-885, tasm_lexer.h:124-128).                          *)
THEOREM NoNullRead == Spec => []NoNullLiteral
<1>1. Parsing => NoNullLiteral
  BY DEF Parsing, Sane, NoNullLiteral
<1> QED BY <1>1, ParsingAlways, PTL

(* The counter tasm_lexer_peek leaves behind a string is reset before a    *)
(* line begins that could be scanned with it (tasm_lexer.h:93-109).        *)
THEOREM PeekHarmless == Spec => []PeekStaysOnlyOnTheLastLine
<1>1. Parsing => PeekStaysOnlyOnTheLastLine
  BY DEF Parsing, Sane, LastLine, PeekStaysOnlyOnTheLastLine
<1> QED BY <1>1, ParsingAlways, PTL
=============================================================================
