--------------------------- MODULE KeyReaderProofs ---------------------------
(***************************************************************************)
(* Proofs about KeyReader, for a buffer of any length: the types, the      *)
(* bound on what is read into inBuf, that a line reported as pasted has no *)
(* typed text, and that the keys are those of the whole stream in their    *)
(* order.  For the last, Lexes(b, g, h) says that there is a run of the    *)
(* automaton over the bytes b from g to h: the bytes left in remainder are *)
(* a run from the start to what the automaton has seen, and bytesToKey     *)
(* finds the first key of that run.  Facts about all steps of a run take   *)
(* the least step that breaks them.                                        *)
(***************************************************************************)
EXTENDS KeyReader, WellFoundedInduction, SequenceTheorems, TLAPS

LEMMA Least ==
  ASSUME NEW S \in SUBSET Nat, S # {}
  PROVE  \E m \in S : \A k \in S : m <= k
<1> DEFINE R == {ss \in Nat \X Nat : ss[1] < ss[2]}
<1>1. IsWellFoundedOn(R, Nat)
  BY NatLessThanWellFounded DEF OpToRel
<1> HIDE DEF R
<1>2. PICK m \in S : \A k \in S : ~(<<k, m>> \in R)
  BY <1>1, WFMin
<1>3. ASSUME NEW k \in S PROVE m <= k
  <2>1. ~(k < m)
    BY <1>2 DEF R
  <2> QED BY <2>1
<1> QED BY <1>2, <1>3

LEMMA MinIn ==
  ASSUME NEW S \in SUBSET Nat, S # {}
  PROVE  Min(S) \in S /\ \A k \in S : Min(S) <= k
BY Least DEF Min

LEMMA RestType ==
  ASSUME NEW b \in Seq(Byte), NEW n \in 0..Len(b)
  PROVE  SubSeq(b, n + 1, Len(b)) \in Seq(Byte) /\ Len(SubSeq(b, n + 1, Len(b))) <= Len(b)
<1>1. \A i \in (n + 1)..Len(b) : b[i] \in Byte
  BY ElementOfSeq
<1>2. Len(b) \in Nat
  BY LenProperties
<1> QED BY <1>1, <1>2, SubSeqProperties

\* bytesToKey returns a key and a rest that is no longer than what it was given.
LEMMA KeyType ==
  ASSUME NEW b \in Seq(Byte), NEW p \in BOOLEAN
  PROVE  /\ BytesToKey(b, p).key \in Key
         /\ BytesToKey(b, p).rest \in Seq(Byte) /\ Len(BytesToKey(b, p).rest) <= Len(b)
<1> DEFINE Is(k, n) == [key |-> k, rest |-> SubSeq(b, n + 1, Len(b))]
           ends == {k \in 1..Len(b) : b[k] \in Last}
<1>1. \E k \in Key, n \in 0..Len(b) : BytesToKey(b, p) = Is(k, n)
  <2>1. Len(b) \in Nat
    BY LenProperties
  <2>2. {"none", "bad", "char"} \subseteq Key /\ Plain(b[1]) \in Key
    BY DEF Key, Plain
  <2>3. \A s : Sequence(s, p) \in Key
    BY DEF Sequence, Key
  <2>4. CASE b = <<>>
    <3>1. BytesToKey(b, p) = Is("none", 0)
      BY <2>4 DEF BytesToKey
    <3>2. "none" \in Key /\ 0 \in 0..Len(b)
      BY <2>1, <2>2
    <3> HIDE DEF Is
    <3> QED BY <3>1, <3>2
  <2>5. CASE b # <<>> /\ b[1] = "E"
    <3>1. CASE ends = {}
      <4>1. BytesToKey(b, p) = Is("none", 0)
        BY <2>5, <3>1 DEF BytesToKey
      <4>2. "none" \in Key /\ 0 \in 0..Len(b)
        BY <2>1, <2>2
      <4> HIDE DEF Is
      <4> QED BY <4>1, <4>2
    <3>2. CASE ends # {}
      <4>1. BytesToKey(b, p) = Is(Sequence(SubSeq(b, 1, Min(ends)), p), Min(ends))
        BY <2>5, <3>2 DEF BytesToKey
      <4>2. Min(ends) \in 0..Len(b)
        <5>1. ends \in SUBSET Nat
          BY <2>1
        <5>2. Min(ends) \in ends
          BY <3>2, <5>1, MinIn
        <5> QED BY <2>1, <5>2
      <4> QED BY <2>3, <4>1, <4>2
    <3> QED BY <3>1, <3>2
  <2>6. CASE b # <<>> /\ b[1] # "E"
    <3>1. Len(b) >= 1
      BY <2>1, <2>6, EmptySeq
    <3>2. \/ BytesToKey(b, p) = Is("none", 0)
          \/ Len(b) > 1 /\ BytesToKey(b, p) = Is("char", 2)
          \/ BytesToKey(b, p) = Is("bad", 1)
          \/ BytesToKey(b, p) = Is(Plain(b[1]), 1)
      BY <2>6 DEF BytesToKey
    <3>3. 0 \in 0..Len(b) /\ 1 \in 0..Len(b) /\ (Len(b) > 1 => 2 \in 0..Len(b))
      BY <2>1, <3>1
    <3> HIDE DEF Is
    <3> QED BY <2>2, <3>2, <3>3
  <2> QED BY <2>4, <2>5, <2>6
<1>2. PICK k \in Key, n \in 0..Len(b) : BytesToKey(b, p) = Is(k, n)
  BY <1>1
<1>3. BytesToKey(b, p).key = k /\ BytesToKey(b, p).rest = SubSeq(b, n + 1, Len(b))
  BY <1>2
<1> QED BY <1>3, RestType

LEMMA PlainType == \A c : Plain(c) \in Key
BY DEF Plain, Key

LEMMA SequenceType == \A s, p : Sequence(s, p) \in Key
BY DEF Sequence, Key

LexState == [part : Seq(Byte), paste : BOOLEAN, due : Seq(Key)]

LEMMA FreshType ==
  ASSUME NEW g \in LexState, NEW c \in Byte
  PROVE  Fresh(g, c) \in LexState
<1>1. <<c>> \in Seq(Byte) /\ <<>> \in Seq(Byte)
  BY EmptySeq
<1>2. Append(g.due, Plain(c)) \in Seq(Key)
  BY AppendProperties, PlainType DEF LexState
<1>3. \/ Fresh(g, c) = [g EXCEPT !.part = <<c>>]
      \/ Fresh(g, c) = [g EXCEPT !.part = <<>>]
      \/ Fresh(g, c) = [g EXCEPT !.part = <<>>, !.due = Append(@, Plain(c))]
  BY DEF Fresh
<1> QED BY <1>1, <1>2, <1>3 DEF LexState

LEMMA LexKeepsType ==
  ASSUME NEW g \in LexState, NEW c \in Byte
  PROVE  Lex(g, c) \in LexState
<1>1. CASE g.part = <<>> \/ (g.part = <<"u">> /\ c # "v")
  <2>1. Lex(g, c) = Fresh(g, c)
    BY <1>1 DEF Lex
  <2> QED BY <2>1, FreshType
<1>2. CASE g.part # <<>> /\ g.part = <<"u">> /\ c = "v"
  <2>1. Lex(g, c) = [g EXCEPT !.part = <<>>, !.due = Append(@, "char")]
    BY <1>2 DEF Lex
  <2>2. <<>> \in Seq(Byte) /\ "char" \in Key
    BY EmptySeq DEF Key
  <2>3. Append(g.due, "char") \in Seq(Key)
    BY <2>2, AppendProperties DEF LexState
  <2> QED BY <2>1, <2>2, <2>3 DEF LexState
<1>3. CASE g.part # <<>> /\ g.part # <<"u">> /\ c \in Last
  <2> DEFINE k == Sequence(Append(g.part, c), g.paste)
             p == IF k = "start" THEN TRUE ELSE IF k = "end" THEN FALSE ELSE g.paste
  <2>1. Lex(g, c) = [part |-> <<>>, paste |-> p, due |-> Append(g.due, k)]
    BY <1>3 DEF Lex
  <2>2. <<>> \in Seq(Byte) /\ k \in Key /\ p \in BOOLEAN
    BY EmptySeq, SequenceType DEF LexState
  <2> HIDE DEF k, p
  <2>3. Append(g.due, k) \in Seq(Key)
    BY <2>2, AppendProperties DEF LexState
  <2> QED BY <2>1, <2>2, <2>3 DEF LexState
<1>4. CASE g.part # <<>> /\ g.part # <<"u">> /\ c \notin Last
  <2>1. Append(g.part, c) \in Seq(Byte)
    BY AppendProperties DEF LexState
  <2>2. \/ Lex(g, c) = [g EXCEPT !.part = Append(g.part, c)]
        \/ Lex(g, c) = [g EXCEPT !.part = g.part]
    BY <1>4 DEF Lex
  <2> QED BY <2>1, <2>2 DEF LexState
<1> QED BY <1>1, <1>2, <1>3, <1>4

-----------------------------------------------------------------------------
(* Runs of the automaton *)

Start(p) == [part |-> <<>>, paste |-> p, due |-> <<>>]
Behead(g) == [g EXCEPT !.due = SubSeq(@, 2, Len(@))]

IsRun(s, b, g) ==
  /\ s \in [0..Len(b) -> LexState]
  /\ s[0] = g
  /\ \A i \in 1..Len(b) : s[i] = Lex(s[i - 1], b[i])

\* The automaton, started in g and given the bytes b, ends in h.
Lexes(b, g, h) == \E s \in [0..Len(b) -> LexState] : IsRun(s, b, g) /\ s[Len(b)] = h

LEMMA StartType ==
  ASSUME NEW p \in BOOLEAN
  PROVE  Start(p) \in LexState
<1>1. <<>> \in Seq(Byte) /\ <<>> \in Seq(Key)
  BY EmptySeq
<1> QED BY <1>1 DEF Start, LexState

LEMMA LexesNothing ==
  ASSUME NEW g \in LexState
  PROVE  Lexes(<<>>, g, g)
<1> DEFINE s == [i \in 0..0 |-> g]
<1>1. Len(<<>>) = 0
  BY EmptySeq
<1>2. s \in [0..0 -> LexState] /\ s[0] = g
  OBVIOUS
<1> HIDE DEF s
<1>3. IsRun(s, <<>>, g)
  BY <1>1, <1>2 DEF IsRun
<1> QED BY <1>1, <1>2, <1>3 DEF Lexes

\* One more byte is one more step.
LEMMA LexesByte ==
  ASSUME NEW b \in Seq(Byte), NEW c \in Byte, NEW g \in LexState, NEW h \in LexState,
         Lexes(b, g, h)
  PROVE  Lexes(Append(b, c), g, Lex(h, c))
<1> DEFINE n == Len(b)
           d == Append(b, c)
<1>1. PICK s \in [0..n -> LexState] : IsRun(s, b, g) /\ s[n] = h
  BY DEF Lexes
<1> DEFINE t == [i \in 0..(n + 1) |-> IF i = n + 1 THEN Lex(h, c) ELSE s[i]]
<1>2. /\ n \in Nat /\ d \in Seq(Byte) /\ Len(d) = n + 1 /\ d[n + 1] = c
      /\ \A i \in 1..n : d[i] = b[i]
  BY AppendProperties, LenProperties
<1>3. Lex(h, c) \in LexState
  BY LexKeepsType
<1>4. /\ t \in [0..(n + 1) -> LexState]
      /\ t[n + 1] = Lex(h, c) /\ \A i \in 0..n : t[i] = s[i]
  BY <1>1, <1>2, <1>3
<1> HIDE DEF n, d, t
<1>5. ASSUME NEW i \in 1..(n + 1) PROVE t[i] = Lex(t[i - 1], d[i])
  <2>1. CASE i = n + 1
    <3>1. n \in 0..n /\ i - 1 = n
      BY <1>2, <2>1
    <3> QED BY <1>1, <1>2, <1>4, <2>1, <3>1
  <2>2. CASE i # n + 1
    <3>1. i \in 1..n /\ i \in 0..n /\ i - 1 \in 0..n
      BY <1>2, <2>2
    <3>2. s[i] = Lex(s[i - 1], b[i])
      BY <1>1, <3>1 DEF IsRun, n
    <3> QED BY <1>2, <1>4, <3>1, <3>2
  <2> QED BY <2>1, <2>2
<1>6. t[0] = g
  <2>1. 0 \in 0..n
    BY <1>2
  <2> QED BY <1>1, <1>4, <2>1 DEF IsRun
<1>7. IsRun(t, d, g)
  BY <1>2, <1>4, <1>5, <1>6 DEF IsRun
<1> QED BY <1>2, <1>4, <1>7 DEF Lexes, d

\* What follows a part of the bytes starts where the part ended.
LEMMA LexesRest ==
  ASSUME NEW b \in Seq(Byte), NEW g \in LexState, NEW n \in 0..Len(b),
         NEW s \in [0..Len(b) -> LexState], IsRun(s, b, g)
  PROVE  Lexes(SubSeq(b, n + 1, Len(b)), s[n], s[Len(b)])
<1> DEFINE l == Len(b)
           d == SubSeq(b, n + 1, l)
           t == [i \in 0..(l - n) |-> s[n + i]]
<1>1. l \in Nat /\ n \in Nat /\ n <= l
  BY LenProperties
<1>2. d \in Seq(Byte) /\ Len(d) = l - n /\ \A i \in 1..(l - n) : d[i] = b[n + i]
  <2>1. \A i \in (n + 1)..l : b[i] \in Byte
    BY ElementOfSeq
  <2>2. /\ d \in Seq(Byte) /\ Len(d) = IF n + 1 <= l THEN l - (n + 1) + 1 ELSE 0
        /\ \A i \in 1..(l - (n + 1) + 1) : d[i] = b[(n + 1) + i - 1]
    BY <1>1, <2>1, SubSeqProperties
  <2> HIDE DEF d
  <2>3. Len(d) = l - n /\ l - (n + 1) + 1 = l - n
    BY <1>1, <2>2
  <2>4. \A i \in 1..(l - n) : (n + 1) + i - 1 = n + i
    BY <1>1
  <2> QED BY <2>2, <2>3, <2>4
<1>3. \A i \in 0..(l - n) : n + i \in 0..l
  BY <1>1
<1>4. t \in [0..(l - n) -> LexState] /\ \A i \in 0..(l - n) : t[i] = s[n + i]
  BY <1>3
<1>5. \A i \in 1..l : s[i] = Lex(s[i - 1], b[i])
  BY DEF IsRun
<1> HIDE DEF l, d, t
<1>6. ASSUME NEW i \in 1..(l - n) PROVE t[i] = Lex(t[i - 1], d[i])
  <2>1. i \in 0..(l - n) /\ i - 1 \in 0..(l - n) /\ n + i \in 1..l /\ n + (i - 1) = (n + i) - 1
    BY <1>1
  <2>2. s[n + i] = Lex(s[(n + i) - 1], b[n + i])
    BY <1>5, <2>1
  <2> QED BY <1>2, <1>4, <2>1, <2>2
<1>7. t[0] = s[n] /\ t[l - n] = s[l]
  <2>1. 0 \in 0..(l - n) /\ l - n \in 0..(l - n) /\ n + 0 = n /\ n + (l - n) = l
    BY <1>1
  <2> QED BY <1>4, <2>1
<1>8. IsRun(t, d, s[n])
  BY <1>2, <1>4, <1>6, <1>7 DEF IsRun
<1>9. Lexes(d, s[n], s[l])
  BY <1>2, <1>4, <1>7, <1>8 DEF Lexes
<1> QED BY <1>9 DEF d, l

-----------------------------------------------------------------------------
(* The first key that is due *)

LEMMA PrefixAppend ==
  ASSUME NEW b \in Seq(Byte), NEW n \in 1..Len(b)
  PROVE  SubSeq(b, 1, n) = Append(SubSeq(b, 1, n - 1), b[n])
<1> DEFINE d == SubSeq(b, 1, n)
           e == SubSeq(b, 1, n - 1)
<1>1. Len(b) \in Nat /\ n <= Len(b) /\ \A i \in 1..Len(b) : b[i] \in Byte
  BY LenProperties, ElementOfSeq
<1>2. d \in Seq(Byte) /\ Len(d) = n /\ \A i \in 1..n : d[i] = b[i]
  <2>1. \A i \in 1..n : b[i] \in Byte
    BY <1>1
  <2>2. d \in Seq(Byte) /\ Len(d) = n /\ \A i \in 1..n : d[i] = b[1 + i - 1]
    BY <1>1, <2>1, SubSeqProperties
  <2> HIDE DEF d
  <2> QED BY <2>2
<1>3. e \in Seq(Byte) /\ Len(e) = n - 1 /\ \A i \in 1..(n - 1) : e[i] = b[i]
  <2>1. \A i \in 1..(n - 1) : b[i] \in Byte
    BY <1>1
  <2>2. /\ e \in Seq(Byte) /\ Len(e) = IF 1 <= n - 1 THEN n - 1 - 1 + 1 ELSE 0
        /\ \A i \in 1..(n - 1 - 1 + 1) : e[i] = b[1 + i - 1]
    BY <1>1, <2>1, SubSeqProperties
  <2> HIDE DEF e
  <2>3. Len(e) = n - 1
    BY <2>2
  <2> QED BY <2>2, <2>3
<1> HIDE DEF d, e
<1>4. /\ Append(e, b[n]) \in Seq(Byte) /\ Len(Append(e, b[n])) = n
      /\ Append(e, b[n])[n] = b[n] /\ \A i \in 1..(n - 1) : Append(e, b[n])[i] = e[i]
  <2>1. b[n] \in Byte /\ Len(e) + 1 = n
    BY <1>1, <1>3
  <2> QED BY <1>3, <2>1, AppendProperties
<1>5. \A i \in 1..n : d[i] = Append(e, b[n])[i]
  BY <1>2, <1>3, <1>4
<1>6. d = Append(e, b[n])
  BY <1>2, <1>4, <1>5, SeqEqual
<1> QED BY <1>6 DEF d, e

LEMMA BeheadAppend ==
  ASSUME NEW d \in Seq(Key), d # <<>>, NEW k \in Key
  PROVE  /\ Append(d, k) # <<>> /\ Head(Append(d, k)) = Head(d)
         /\ SubSeq(Append(d, k), 2, Len(Append(d, k))) = Append(SubSeq(d, 2, Len(d)), k)
<1>1. Len(d) \in Nat /\ Len(d) # 0
  BY EmptySeq, LenProperties
<1> DEFINE e == Append(d, k)
           f == SubSeq(d, 2, Len(d))
<1>2. e \in Seq(Key) /\ Len(e) = Len(d) + 1 /\ e[Len(d) + 1] = k /\ \A i \in 1..Len(d) : e[i] = d[i]
  BY AppendProperties
<1>3. f \in Seq(Key) /\ Len(f) = Len(d) - 1 /\ \A i \in 1..(Len(d) - 1) : f[i] = d[i + 1]
  <2>1. \A i \in 2..Len(d) : d[i] \in Key
    BY ElementOfSeq
  <2>2. /\ f \in Seq(Key) /\ Len(f) = IF 2 <= Len(d) THEN Len(d) - 2 + 1 ELSE 0
        /\ \A i \in 1..(Len(d) - 2 + 1) : f[i] = d[2 + i - 1]
    BY <1>1, <2>1, SubSeqProperties
  <2> HIDE DEF f
  <2>3. \A i \in 1..(Len(d) - 1) : i \in 1..(Len(d) - 2 + 1) /\ 2 + i - 1 = i + 1
    BY <1>1
  <2>4. Len(f) = Len(d) - 1
    <3> DEFINE l == Len(d)
               m == Len(f)
    <3>1. l \in Nat /\ l # 0 /\ m = IF 2 <= l THEN l - 2 + 1 ELSE 0
      BY <1>1, <2>2
    <3> HIDE DEF l, m
    <3>2. m = l - 1
      BY <3>1
    <3> QED BY <3>2 DEF l, m
  <2>5. \A i \in 1..(Len(d) - 1) : f[i] = d[i + 1]
    BY <2>2, <2>3
  <2> QED BY <2>2, <2>4, <2>5
<1>4. /\ SubSeq(e, 2, Len(e)) \in Seq(Key) /\ Len(SubSeq(e, 2, Len(e))) = Len(d)
      /\ \A i \in 1..Len(d) : SubSeq(e, 2, Len(e))[i] = e[i + 1]
  <2>1. \A i \in 2..Len(e) : e[i] \in Key
    BY <1>2, ElementOfSeq
  <2> HIDE DEF e
  <2> QED BY <1>1, <1>2, <2>1, SubSeqProperties
<1>5. /\ Append(f, k) \in Seq(Key) /\ Len(Append(f, k)) = Len(d)
      /\ Append(f, k)[Len(d)] = k /\ \A i \in 1..(Len(d) - 1) : Append(f, k)[i] = f[i]
  <2> HIDE DEF f
  <2> QED BY <1>1, <1>3, AppendProperties
<1> HIDE DEF e, f
<1>6. \A i \in 1..Len(d) : SubSeq(e, 2, Len(e))[i] = Append(f, k)[i]
  BY <1>1, <1>2, <1>3, <1>4, <1>5
<1>7. SubSeq(e, 2, Len(e)) = Append(f, k)
  BY <1>4, <1>5, <1>6, SeqEqual
<1>8. e # <<>> /\ Head(e) = Head(d)
  <2>1. Len(e) # 0 /\ e[1] = d[1]
    BY <1>1, <1>2
  <2> QED BY <1>1, <1>2, <2>1, EmptySeq, HeadTailProperties
<1> QED BY <1>7, <1>8 DEF e, f

LEMMA BeheadType ==
  ASSUME NEW g \in LexState
  PROVE  Behead(g) \in LexState
<1>1. g.due \in Seq(Key) /\ Len(g.due) \in Nat
  BY LenProperties DEF LexState
<1>2. \A i \in 2..Len(g.due) : g.due[i] \in Key
  BY <1>1, ElementOfSeq
<1>3. SubSeq(g.due, 2, Len(g.due)) \in Seq(Key)
  BY <1>1, <1>2, SubSeqProperties
<1> QED BY <1>3 DEF Behead, LexState

LEMMA Fields ==
  ASSUME NEW g \in LexState
  PROVE  g = [part |-> g.part, paste |-> g.paste, due |-> g.due]
BY DEF LexState

LEMMA KeyAdded ==
  ASSUME NEW g \in LexState, NEW k \in Key
  PROVE  [g EXCEPT !.part = <<>>, !.due = Append(@, k)] =
           [part |-> <<>>, paste |-> g.paste, due |-> Append(g.due, k)]
<1> DEFINE h == [g EXCEPT !.part = <<>>, !.due = Append(@, k)]
           d == Append(g.due, k)
<1>1. <<>> \in Seq(Byte) /\ d \in Seq(Key)
  BY EmptySeq, AppendProperties DEF LexState
<1>2. h = [g EXCEPT !.part = <<>>, !.due = d]
  OBVIOUS
<1> HIDE DEF d, h
<1>3. h \in LexState
  BY <1>1, <1>2 DEF LexState
<1>4. h.part = <<>> /\ h.due = d /\ h.paste = g.paste
  <2>1. h.part = <<>>
    BY <1>2 DEF LexState
  <2>2. h.due = d
    BY <1>2 DEF LexState
  <2>3. h.paste = g.paste
    BY <1>2 DEF LexState
  <2> QED BY <2>1, <2>2, <2>3
<1>5. h = [part |-> h.part, paste |-> h.paste, due |-> h.due]
  BY <1>3, Fields
<1> QED BY <1>4, <1>5 DEF d, h

LEMMA StateFields ==
  ASSUME NEW g \in LexState
  PROVE  /\ \A q : [g EXCEPT !.part = q] = [part |-> q, paste |-> g.paste, due |-> g.due]
         /\ Behead(g) = [part |-> g.part, paste |-> g.paste, due |-> SubSeq(g.due, 2, Len(g.due))]
<1>2. \A q : [g EXCEPT !.part = q] = [part |-> q, paste |-> g.paste, due |-> g.due]
  BY DEF LexState
<1>4. \A d : [g EXCEPT !.due = d] = [part |-> g.part, paste |-> g.paste, due |-> d]
  BY DEF LexState
<1>5. Behead(g) = [part |-> g.part, paste |-> g.paste, due |-> SubSeq(g.due, 2, Len(g.due))]
  BY <1>4 DEF Behead
<1> QED BY <1>2, <1>5

\* What a step does to the sequence begun and to pasteActive, and the key it adds, if
\* any, do not depend on the keys that are due.
LEMMA LexAdds ==
  ASSUME NEW g \in LexState, NEW c \in Byte
  PROVE  \E q, p, k :
           \/ \A f \in LexState : f.part = g.part /\ f.paste = g.paste =>
                Lex(f, c) = [part |-> q, paste |-> p, due |-> f.due]
           \/ /\ k \in Key
              /\ \A f \in LexState : f.part = g.part /\ f.paste = g.paste =>
                   Lex(f, c) = [part |-> q, paste |-> p, due |-> Append(f.due, k)]
<1> DEFINE Same(f) == f \in LexState /\ f.part = g.part /\ f.paste = g.paste
<1>1. CASE g.part = <<>> \/ (g.part = <<"u">> /\ c # "v")
  <2>1. \A f : Same(f) => Lex(f, c) = Fresh(f, c)
    BY <1>1 DEF Lex
  <2>2. CASE c \in {"E", "u"}
    <3>1. \A f : Same(f) => Fresh(f, c) = [part |-> <<c>>, paste |-> g.paste, due |-> f.due]
      BY <2>2, StateFields DEF Fresh
    <3> QED BY <2>1, <3>1
  <2>3. CASE c \in {"v", "i"}
    <3>1. \A f : Same(f) => Fresh(f, c) = [part |-> <<>>, paste |-> g.paste, due |-> f.due]
      BY <2>3, StateFields DEF Fresh
    <3> QED BY <2>1, <3>1
  <2>4. CASE c \notin {"E", "u"} /\ c \notin {"v", "i"}
    <3> DEFINE k == Plain(c)
    <3>1. \A f : Same(f) => Fresh(f, c) =
                              [part |-> <<>>, paste |-> g.paste, due |-> Append(f.due, k)]
      <4> TAKE f
      <4> HAVE Same(f)
      <4>1. Fresh(f, c) = [f EXCEPT !.part = <<>>, !.due = Append(@, k)]
        BY <2>4 DEF Fresh
      <4>2. k \in Key
        BY PlainType
      <4> HIDE DEF k
      <4> QED BY <4>1, <4>2, KeyAdded
    <3>2. k \in Key
      BY PlainType
    <3> HIDE DEF k
    <3>3. \A f \in LexState : f.part = g.part /\ f.paste = g.paste =>
            Lex(f, c) = [part |-> <<>>, paste |-> g.paste, due |-> Append(f.due, k)]
      BY <2>1, <3>1
    <3> QED BY <3>2, <3>3
  <2> QED BY <2>2, <2>3, <2>4
<1>2. CASE g.part # <<>> /\ g.part = <<"u">> /\ c = "v"
  <2>1. \A f : Same(f) => Lex(f, c) = [part |-> <<>>, paste |-> g.paste, due |-> Append(f.due, "char")]
    <3> TAKE f
    <3> HAVE Same(f)
    <3>1. Lex(f, c) = [f EXCEPT !.part = <<>>, !.due = Append(@, "char")]
      BY <1>2 DEF Lex
    <3>2. "char" \in Key
      BY DEF Key
    <3> QED BY <3>1, <3>2, KeyAdded
  <2>2. "char" \in Key
    BY DEF Key
  <2> QED BY <2>1, <2>2
<1>3. CASE g.part # <<>> /\ g.part # <<"u">> /\ c \in Last
  <2> DEFINE k == Sequence(Append(g.part, c), g.paste)
             p == IF k = "start" THEN TRUE ELSE IF k = "end" THEN FALSE ELSE g.paste
  <2>1. \A f : Same(f) => Lex(f, c) = [part |-> <<>>, paste |-> p, due |-> Append(f.due, k)]
    BY <1>3 DEF Lex
  <2>2. k \in Key
    BY SequenceType
  <2> HIDE DEF k, p
  <2> QED BY <2>1, <2>2
<1>4. CASE g.part # <<>> /\ g.part # <<"u">> /\ c \notin Last
  <2> DEFINE q == IF Len(g.part) < 3 THEN Append(g.part, c) ELSE g.part
  <2>1. \A f : Same(f) => Lex(f, c) = [part |-> q, paste |-> g.paste, due |-> f.due]
    <3> TAKE f
    <3> HAVE Same(f)
    <3>1. Lex(f, c) = [f EXCEPT !.part = q]
      BY <1>4 DEF Lex
    <3> HIDE DEF q
    <3> QED BY <3>1, StateFields
  <2> HIDE DEF q
  <2> QED BY <2>1
<1> QED BY <1>1, <1>2, <1>3, <1>4

\* The automaton only adds keys at the end: the first one may be taken at any time.
LEMMA LexBehead ==
  ASSUME NEW g \in LexState, NEW c \in Byte, g.due # <<>>
  PROVE  /\ Lex(g, c).due # <<>> /\ Head(Lex(g, c).due) = Head(g.due)
         /\ Behead(Lex(g, c)) = Lex(Behead(g), c)
<1> DEFINE d == SubSeq(g.due, 2, Len(g.due))
<1>1. /\ Behead(g) \in LexState /\ Behead(g).part = g.part /\ Behead(g).paste = g.paste
      /\ Behead(g).due = d
  <2>1. Behead(g) = [part |-> g.part, paste |-> g.paste, due |-> d]
    BY StateFields
  <2> HIDE DEF d
  <2> QED BY <2>1, BeheadType
<1>2. g.due \in Seq(Key)
  BY DEF LexState
<1>3. PICK q, p, k :
        \/ \A f \in LexState : f.part = g.part /\ f.paste = g.paste =>
             Lex(f, c) = [part |-> q, paste |-> p, due |-> f.due]
        \/ /\ k \in Key
           /\ \A f \in LexState : f.part = g.part /\ f.paste = g.paste =>
                Lex(f, c) = [part |-> q, paste |-> p, due |-> Append(f.due, k)]
  BY LexAdds
<1> HIDE DEF d
<1>4. Lex(g, c) \in LexState
  BY LexKeepsType
<1>5. CASE \A f \in LexState : f.part = g.part /\ f.paste = g.paste =>
             Lex(f, c) = [part |-> q, paste |-> p, due |-> f.due]
  <2>1. Lex(g, c) = [part |-> q, paste |-> p, due |-> g.due]
    BY <1>5
  <2>2. Lex(Behead(g), c) = [part |-> q, paste |-> p, due |-> d]
    BY <1>1, <1>5
  <2>3. Lex(g, c).part = q /\ Lex(g, c).paste = p /\ Lex(g, c).due = g.due
    BY <2>1
  <2>4. Behead(Lex(g, c)) = [part |-> q, paste |-> p, due |-> d]
    BY <1>4, <2>3, StateFields DEF d
  <2> QED BY <2>2, <2>3, <2>4
<1>6. CASE /\ k \in Key
           /\ \A f \in LexState : f.part = g.part /\ f.paste = g.paste =>
                Lex(f, c) = [part |-> q, paste |-> p, due |-> Append(f.due, k)]
  <2>1. Lex(g, c) = [part |-> q, paste |-> p, due |-> Append(g.due, k)]
    BY <1>6
  <2>2. Lex(Behead(g), c) = [part |-> q, paste |-> p, due |-> Append(d, k)]
    BY <1>1, <1>6
  <2>3. Lex(g, c).part = q /\ Lex(g, c).paste = p /\ Lex(g, c).due = Append(g.due, k)
    BY <2>1
  <2>4. /\ Append(g.due, k) # <<>> /\ Head(Append(g.due, k)) = Head(g.due)
        /\ SubSeq(Append(g.due, k), 2, Len(Append(g.due, k))) = Append(d, k)
    BY <1>2, <1>6, BeheadAppend DEF d
  <2>5. Behead(Lex(g, c)) =
          [part |-> q, paste |-> p,
           due |-> SubSeq(Append(g.due, k), 2, Len(Append(g.due, k)))]
    BY <1>4, <2>3, StateFields
  <2> QED BY <2>2, <2>3, <2>4, <2>5
<1> QED BY <1>3, <1>5, <1>6

LEMMA LexesBehead ==
  ASSUME NEW b \in Seq(Byte), NEW g \in LexState, NEW h \in LexState,
         g.due # <<>>, Lexes(b, g, h)
  PROVE  h.due # <<>> /\ Head(h.due) = Head(g.due) /\ Lexes(b, Behead(g), Behead(h))
<1> DEFINE n == Len(b)
           Kept(f) == f.due # <<>> /\ Head(f.due) = Head(g.due)
<1>1. PICK s \in [0..n -> LexState] : IsRun(s, b, g) /\ s[n] = h
  BY DEF Lexes
<1>2. n \in Nat /\ \A i \in 1..n : b[i] \in Byte
  BY LenProperties, ElementOfSeq
<1>3. s[0] = g /\ \A i \in 1..n : s[i] = Lex(s[i - 1], b[i])
  BY <1>1 DEF IsRun
<1> HIDE DEF n, Kept
<1>4. ASSUME NEW i \in 1..n, Kept(s[i - 1])
      PROVE  Kept(s[i]) /\ Behead(s[i]) = Lex(Behead(s[i - 1]), b[i])
  <2>1. i - 1 \in 0..n /\ s[i - 1] \in LexState /\ b[i] \in Byte /\ s[i] = Lex(s[i - 1], b[i])
    BY <1>2, <1>3
  <2>2. s[i - 1].due # <<>>
    BY <1>4 DEF Kept
  <2> DEFINE f == s[i - 1]
  <2>3. f \in LexState /\ f.due # <<>> /\ s[i] = Lex(f, b[i])
    BY <2>1, <2>2
  <2> HIDE DEF f
  <2>4. /\ Lex(f, b[i]).due # <<>> /\ Head(Lex(f, b[i]).due) = Head(f.due)
        /\ Behead(Lex(f, b[i])) = Lex(Behead(f), b[i])
    BY <2>1, <2>3, LexBehead
  <2>5. Kept(s[i])
    BY <1>4, <2>3, <2>4 DEF Kept, f
  <2> QED BY <2>3, <2>4, <2>5 DEF f
<1>5. \A i \in 0..n : Kept(s[i])
  <2> DEFINE Not == {i \in 0..n : ~Kept(s[i])}
  <2> SUFFICES ASSUME Not # {} PROVE FALSE
    OBVIOUS
  <2>1. Not \in SUBSET Nat
    BY <1>2
  <2>2. PICK m \in Not : \A i \in Not : m <= i
    BY <2>1, Least
  <2>3. Kept(s[0])
    BY <1>3 DEF Kept
  <2>4. m # 0 /\ m \in 0..n /\ ~Kept(s[m])
    BY <2>3
  <2>5. m \in 1..n /\ m - 1 \in 0..n /\ ~(m <= m - 1)
    BY <1>2, <2>4
  <2>6. Kept(s[m - 1])
    BY <2>2, <2>5
  <2> QED BY <1>4, <2>4, <2>5, <2>6
<1> DEFINE t == [i \in 0..n |-> Behead(s[i])]
<1>6. t \in [0..n -> LexState] /\ \A i \in 0..n : t[i] = Behead(s[i])
  <2>1. \A i \in 0..n : Behead(s[i]) \in LexState
    BY BeheadType
  <2> QED BY <2>1
<1> HIDE DEF t
<1>7. \A i \in 1..n : t[i] = Lex(t[i - 1], b[i])
  <2> TAKE i \in 1..n
  <2>1. i - 1 \in 0..n /\ i \in 0..n
    BY <1>2
  <2> QED BY <1>4, <1>5, <1>6, <2>1
<1>8. 0 \in 0..n /\ n \in 0..n
  BY <1>2
<1>9. t[0] = Behead(g) /\ t[n] = Behead(h)
  BY <1>1, <1>3, <1>6, <1>8
<1>10. IsRun(t, b, Behead(g))
  BY <1>6, <1>7, <1>9 DEF IsRun, n
<1> QED BY <1>1, <1>5, <1>6, <1>8, <1>9, <1>10 DEF Kept, Lexes, n

-----------------------------------------------------------------------------
(* bytesToKey finds the first key that is due. *)

\* In a sequence begun, the automaton keeps the first three bytes (here written with
\* their number) and has no key until a byte ends it.
Begun(b, p, n) == [part |-> SubSeq(b, 1, IF n < 3 THEN n ELSE 3), paste |-> p, due |-> <<>>]

LEMMA StepsOne ==
  ASSUME NEW p \in BOOLEAN, NEW c \in Byte
  PROVE  /\ c \in {"E", "u"} => Lex(Start(p), c) = [part |-> <<c>>, paste |-> p, due |-> <<>>]
         /\ c \in {"v", "i"} => Lex(Start(p), c) = Start(p)
         /\ c \notin {"E", "u", "v", "i"} =>
              Lex(Start(p), c) = [part |-> <<>>, paste |-> p, due |-> <<Plain(c)>>]
<1>1. /\ Start(p) \in LexState /\ Start(p).part = <<>> /\ Start(p).paste = p
      /\ Start(p).due = <<>> /\ Lex(Start(p), c) = Fresh(Start(p), c)
  BY StartType DEF Start, Lex
<1> DEFINE g == Start(p)
<1> HIDE DEF g
<1>2. g \in LexState /\ g.part = <<>> /\ g.paste = p /\ g.due = <<>>
  BY <1>1 DEF g
<1>3. ASSUME c \in {"E", "u"} PROVE Fresh(g, c) = [part |-> <<c>>, paste |-> p, due |-> <<>>]
  <2>1. Fresh(g, c) = [g EXCEPT !.part = <<c>>]
    BY <1>3 DEF Fresh
  <2> QED BY <1>2, <2>1, StateFields
<1>4. ASSUME c \in {"v", "i"} PROVE Fresh(g, c) = g
  <2>1. Fresh(g, c) = [g EXCEPT !.part = <<>>]
    BY <1>4 DEF Fresh
  <2>2. [g EXCEPT !.part = <<>>] = [part |-> <<>>, paste |-> g.paste, due |-> g.due]
    BY <1>2, StateFields
  <2>3. g = [part |-> <<>>, paste |-> g.paste, due |-> g.due]
    BY <1>2, Fields
  <2> QED BY <2>1, <2>2, <2>3
<1>5. ASSUME c \notin {"E", "u", "v", "i"}
      PROVE  Fresh(g, c) = [part |-> <<>>, paste |-> p, due |-> <<Plain(c)>>]
  <2> DEFINE k == Plain(c)
  <2>1. Fresh(g, c) = [g EXCEPT !.part = <<>>, !.due = Append(@, k)]
    BY <1>5 DEF Fresh
  <2>2. k \in Key
    BY PlainType
  <2> HIDE DEF k
  <2>3. Append(<<>>, k) = <<k>>
    OBVIOUS
  <2>4. Fresh(g, c) = [part |-> <<>>, paste |-> g.paste, due |-> Append(g.due, k)]
    BY <1>2, <2>1, <2>2, KeyAdded
  <2> QED BY <1>2, <2>3, <2>4 DEF k
<1> QED BY <1>1, <1>3, <1>4, <1>5 DEF g

\* A key that is due after n bytes is the first one due at the end.
LEMMA FirstKey ==
  ASSUME NEW b \in Seq(Byte), NEW p \in BOOLEAN, NEW h \in LexState, NEW n \in 0..Len(b),
         NEW k \in Key, NEW q \in BOOLEAN,
         NEW s \in [0..Len(b) -> LexState], IsRun(s, b, Start(p)), s[Len(b)] = h,
         s[n] = [part |-> <<>>, paste |-> q, due |-> <<k>>]
  PROVE  /\ h.due # <<>> /\ Head(h.due) = k
         /\ Lexes(SubSeq(b, n + 1, Len(b)), Start(q), Behead(h))
<1> DEFINE d == SubSeq(b, n + 1, Len(b))
           g == s[n]
<1>1. d \in Seq(Byte)
  BY RestType
<1>2. Start(p) \in LexState
  BY StartType
<1>3. Lexes(d, g, h)
  BY <1>2, LexesRest
<1>4. g \in LexState
  OBVIOUS
<1>5. g.due = <<k>> /\ g.due # <<>> /\ Head(g.due) = k
  BY HeadTailProperties
<1>6. Behead(g) = Start(q)
  <2>1. SubSeq(<<k>>, 2, Len(<<k>>)) = <<>>
    OBVIOUS
  <2>2. Behead(g) = [part |-> g.part, paste |-> g.paste, due |-> SubSeq(g.due, 2, Len(g.due))]
    BY <1>4, StateFields
  <2> QED BY <1>5, <2>1, <2>2 DEF Start
<1> HIDE DEF d, g
<1>7. h.due # <<>> /\ Head(h.due) = Head(g.due) /\ Lexes(d, Behead(g), Behead(h))
  BY <1>1, <1>3, <1>4, <1>5, LexesBehead
<1> QED BY <1>5, <1>6, <1>7 DEF d

LEMMA SequenceBegun ==
  ASSUME NEW b \in Seq(Byte), NEW p \in BOOLEAN, NEW n \in 1..Len(b),
         NEW s \in [0..Len(b) -> LexState], IsRun(s, b, Start(p)),
         b[1] = "E", \A i \in 1..n : b[i] \notin Last
  PROVE  \A i \in 1..n : s[i] = Begun(b, p, i)
<1> DEFINE Not == {i \in 1..n : s[i] # Begun(b, p, i)}
<1> SUFFICES ASSUME Not # {} PROVE FALSE
  OBVIOUS
<1>1. Len(b) \in Nat /\ n <= Len(b)
  BY LenProperties
<1>2. PICK m \in Not : \A i \in Not : m <= i
  <2>1. Not \in SUBSET Nat
    OBVIOUS
  <2> HIDE DEF Not
  <2> QED BY <2>1, Least
<1>3. m \in 1..n /\ s[m] # Begun(b, p, m) /\ m \in 1..Len(b)
  BY <1>1
<1>4. s[m] = Lex(s[m - 1], b[m]) /\ s[0] = Start(p) /\ b[m] \in Byte /\ b[1] \in Byte
  BY <1>1, <1>3, ElementOfSeq DEF IsRun
<1>5. CASE m = 1
  <2>1. s[1] = [part |-> <<"E">>, paste |-> p, due |-> <<>>]
    BY <1>4, <1>5, StepsOne
  <2>2. SubSeq(b, 1, 1) = <<"E">>
    BY <1>1, SubSeqProperties
  <2> QED BY <1>3, <1>5, <2>1, <2>2 DEF Begun
<1>6. CASE m # 1
  <2> DEFINE w == IF m - 1 < 3 THEN m - 1 ELSE 3
             q == SubSeq(b, 1, w)
  <2>1. m - 1 \in 1..n /\ m > m - 1
    BY <1>3, <1>6
  <2>2. s[m - 1] = Begun(b, p, m - 1)
    BY <1>2, <2>1
  <2>3. w \in 1..3 /\ w < m /\ w <= Len(b)
    BY <1>1, <1>3, <2>1
  <2>4. q \in Seq(Byte) /\ Len(q) = w /\ q[1] = "E" /\ \A i \in 1..w : q[i] = b[i]
    <3>1. \A i \in 1..w : b[i] \in Byte
      BY <1>1, <2>3, ElementOfSeq
    <3> HIDE DEF w
    <3>2. q \in Seq(Byte) /\ Len(q) = w /\ \A i \in 1..w : q[i] = b[1 + i - 1]
      BY <1>1, <2>3, <3>1, SubSeqProperties
    <3>3. \A i \in 1..w : q[i] = b[i]
      BY <2>3, <3>2
    <3> QED BY <2>3, <3>2, <3>3
  <2>5. q # <<>> /\ q # <<"u">>
    BY <2>3, <2>4
  <2>6. b[m] \notin Last
    BY <1>3
  <2> DEFINE f == [part |-> q, paste |-> p, due |-> <<>>]
  <2>7. s[m - 1] = f /\ f \in LexState
    <3>1. s[m - 1] = f
      BY <2>2 DEF Begun
    <3>2. m - 1 \in 0..Len(b)
      BY <1>1, <2>1
    <3> HIDE DEF f
    <3> QED BY <3>1, <3>2
  <2> HIDE DEF q, w
  <2>8. f.part = q /\ f.paste = p /\ f.due = <<>>
    OBVIOUS
  <2> HIDE DEF f
  <2>9. Lex(f, b[m]) = [f EXCEPT !.part = IF Len(q) < 3 THEN Append(q, b[m]) ELSE q]
    BY <2>5, <2>6, <2>8 DEF Lex
  <2>10. Lex(f, b[m]) =
           [part |-> IF Len(q) < 3 THEN Append(q, b[m]) ELSE q, paste |-> p, due |-> <<>>]
    BY <2>7, <2>8, <2>9, StateFields
  <2>11. SubSeq(b, 1, IF m < 3 THEN m ELSE 3) = IF Len(q) < 3 THEN Append(q, b[m]) ELSE q
    <3>1. CASE w < 3
      <4>1. w = m - 1 /\ m <= 3 /\ m <= Len(b)
        BY <1>1, <1>3, <2>1, <3>1 DEF w
      <4>2. q = SubSeq(b, 1, m - 1)
        BY <4>1 DEF q
      <4>3. SubSeq(b, 1, m) = Append(q, b[m])
        BY <1>1, <1>3, <4>1, <4>2, PrefixAppend
      <4>4. (IF m < 3 THEN m ELSE 3) = m
        BY <1>3, <4>1
      <4> QED BY <2>4, <3>1, <4>3, <4>4
    <3>2. CASE ~(w < 3)
      <4>1. w = 3 /\ ~(m < 3)
        BY <1>3, <2>3, <3>2
      <4> QED BY <2>4, <4>1 DEF q
    <3> QED BY <3>1, <3>2
  <2>12. s[m] = Begun(b, p, m)
    BY <1>4, <2>7, <2>10, <2>11 DEF Begun
  <2> QED BY <1>3, <2>12
<1> QED BY <1>5, <1>6

After(k, p) == IF k = "start" THEN TRUE ELSE IF k = "end" THEN FALSE ELSE p

LEMMA NoneLeft ==
  ASSUME NEW b \in Seq(Byte)
  PROVE  SubSeq(b, 1, Len(b)) = b
<1>1. Len(b) \in Nat /\ \A i \in 1..Len(b) : b[i] \in Byte
  BY LenProperties, ElementOfSeq
<1> DEFINE d == SubSeq(b, 1, Len(b))
<1>2. d \in Seq(Byte) /\ Len(d) = Len(b) /\ \A i \in 1..Len(b) : d[i] = b[1 + i - 1]
  BY <1>1, SubSeqProperties
<1> HIDE DEF d
<1>3. \A i \in 1..Len(b) : d[i] = b[i]
  BY <1>1, <1>2
<1>4. d = b
  BY <1>2, <1>3, SeqEqual
<1> QED BY <1>4 DEF d

\* A sequence that has ended: three bytes tell it from the markers of a paste.
LEMMA SequenceEnds ==
  ASSUME NEW b \in Seq(Byte), NEW p \in BOOLEAN, NEW n \in 2..Len(b),
         NEW s \in [0..Len(b) -> LexState], IsRun(s, b, Start(p)),
         b[1] = "E", b[n] \in Last, \A i \in 1..(n - 1) : b[i] \notin Last,
         NEW k, k = Sequence(SubSeq(b, 1, n), p)
  PROVE  s[n] = [part |-> <<>>, paste |-> After(k, p), due |-> <<k>>]
<1> DEFINE m == n - 1
           w == IF m < 3 THEN m ELSE 3
           q == SubSeq(b, 1, w)
           f == [part |-> q, paste |-> p, due |-> <<>>]
<1>1. Len(b) \in Nat /\ m \in 1..Len(b) /\ m \in 0..Len(b) /\ n \in 1..Len(b) /\ n - 1 = m
  BY LenProperties
<1>2. s[n] = Lex(s[m], b[n]) /\ b[n] \in Byte
  BY <1>1, ElementOfSeq DEF IsRun
<1>3. s[m] = f
  <2>1. m \in 1..m
    BY <1>1
  <2>2. \A i \in 1..m : b[i] \notin Last
    OBVIOUS
  <2> HIDE DEF m
  <2>3. \A i \in 1..m : s[i] = Begun(b, p, i)
    BY <1>1, <2>2, SequenceBegun
  <2> QED BY <2>1, <2>3 DEF Begun
<1>4. w \in 1..3 /\ w <= m /\ w <= Len(b)
  BY <1>1
<1>5. q \in Seq(Byte) /\ Len(q) = w /\ q[1] = "E"
  <2>1. \A i \in 1..w : b[i] \in Byte
    BY <1>1, <1>4, ElementOfSeq
  <2> HIDE DEF w
  <2>2. q \in Seq(Byte) /\ Len(q) = w /\ \A i \in 1..w : q[i] = b[1 + i - 1]
    BY <1>1, <1>4, <2>1, SubSeqProperties
  <2> QED BY <1>4, <2>2
<1> HIDE DEF q
<1>6. q # <<>> /\ q # <<"u">>
  BY <1>4, <1>5
<1>7. f.part = q /\ f.paste = p /\ f.due = <<>>
  OBVIOUS
<1> HIDE DEF f, w
<1> DEFINE j == Sequence(Append(q, b[n]), p)
<1>8. Lex(f, b[n]) = [part |-> <<>>, paste |-> After(j, p), due |-> Append(<<>>, j)]
  BY <1>6, <1>7 DEF Lex, After
<1>9. j = k
  <2>1. CASE m <= 3
    <3>1. q = SubSeq(b, 1, n - 1)
      BY <1>1, <2>1 DEF q, w
    <3>2. SubSeq(b, 1, n) = Append(q, b[n])
      BY <1>1, <3>1, PrefixAppend
    <3> QED BY <3>2
  <2>2. CASE ~(m <= 3)
    <3>1. w = 3 /\ n > 3
      BY <1>1, <2>2 DEF w
    <3>2. Len(Append(q, b[n])) = 4
      <4>1. Append(q, b[n]) \in Seq(Byte) /\ Len(Append(q, b[n])) = Len(q) + 1
        BY <1>2, <1>5, AppendProperties
      <4> QED BY <1>5, <3>1, <4>1
    <3>3. Len(SubSeq(b, 1, n)) = n
      <4>1. \A i \in 1..n : b[i] \in Byte
        BY <1>1, ElementOfSeq
      <4> QED BY <1>1, <4>1, SubSeqProperties
    <3>4. Len(PasteStart) = 3 /\ Len(PasteEnd) = 3
      BY DEF PasteStart, PasteEnd
    <3>5. /\ Append(q, b[n]) # PasteStart /\ Append(q, b[n]) # PasteEnd
          /\ SubSeq(b, 1, n) # PasteStart /\ SubSeq(b, 1, n) # PasteEnd
      <4> DEFINE x == Append(q, b[n])
                 y == SubSeq(b, 1, n)
      <4>1. Len(x) # 3 /\ Len(y) # 3
        BY <1>1, <3>1, <3>2, <3>3
      <4> HIDE DEF x, y
      <4>2. x # PasteStart /\ x # PasteEnd /\ y # PasteStart /\ y # PasteEnd
        BY <3>4, <4>1
      <4> QED BY <4>2 DEF x, y
    <3> QED BY <3>5 DEF Sequence
  <2> QED BY <2>1, <2>2
<1>10. Append(<<>>, k) = <<k>>
  OBVIOUS
<1> HIDE DEF j
<1> QED BY <1>2, <1>3, <1>8, <1>9, <1>10

\* A byte that is in no rune changes nothing for what follows: the automaton forgets
\* the first byte of a rune when the second is not the right one.
LEMMA BadByte ==
  ASSUME NEW b \in Seq(Byte), NEW p \in BOOLEAN, NEW h \in LexState, Lexes(b, Start(p), h),
         Len(b) >= 1, b[1] \in {"v", "i"} \/ (b[1] = "u" /\ Len(b) > 1 /\ b[2] # "v")
  PROVE  Lexes(SubSeq(b, 2, Len(b)), Start(p), h)
<1> DEFINE l == Len(b)
           d == SubSeq(b, 2, l)
<1>1. PICK s \in [0..l -> LexState] : IsRun(s, b, Start(p)) /\ s[l] = h
  BY DEF Lexes
<1>2. l \in Nat /\ 1 \in 1..l /\ 1 \in 0..l /\ b[1] \in Byte
  BY LenProperties, ElementOfSeq
<1>3. s[1] = Lex(Start(p), b[1])
  BY <1>1, <1>2 DEF IsRun
<1>4. Start(p) \in LexState
  BY StartType
<1>5. Lexes(d, s[1], h)
  <2>1. Lexes(SubSeq(b, 1 + 1, l), s[1], s[l])
    BY <1>1, <1>2, <1>4, LexesRest
  <2> QED BY <1>1, <2>1
<1>6. CASE b[1] \in {"v", "i"}
  BY <1>2, <1>3, <1>5, <1>6, StepsOne
<1>7. CASE b[1] = "u" /\ Len(b) > 1 /\ b[2] # "v"
  <2> DEFINE g == [part |-> <<"u">>, paste |-> p, due |-> <<>>]
             m == l - 1
  <2>1. s[1] = g
    BY <1>2, <1>3, <1>7, StepsOne
  <2>2. m \in Nat \ {0} /\ d \in Seq(Byte) /\ Len(d) = m /\ d[1] = b[2] /\ d[1] \in Byte
    <3>1. \A i \in 2..l : b[i] \in Byte
      BY ElementOfSeq
    <3>2. d \in Seq(Byte) /\ Len(d) = l - 2 + 1 /\ \A i \in 1..(l - 2 + 1) : d[i] = b[2 + i - 1]
      BY <1>2, <1>7, <3>1, SubSeqProperties
    <3> HIDE DEF d
    <3>3. 1 \in 1..(l - 2 + 1) /\ 2 + 1 - 1 = 2 /\ 2 \in 2..l
      BY <1>2, <1>7
    <3>4. d[1] = b[2]
      BY <3>2, <3>3
    <3> QED BY <1>2, <1>7, <3>1, <3>2, <3>3, <3>4
  <2>3. Lex(g, d[1]) = Lex(Start(p), d[1])
    <3>1. g \in LexState /\ g.part = <<"u">> /\ g.paste = p /\ g.due = <<>>
      BY <1>2, <2>1
    <3>2. Start(p).part = <<>> /\ Start(p).paste = p /\ Start(p).due = <<>>
      BY DEF Start
    <3> HIDE DEF g, d
    <3>3. Lex(g, d[1]) = Fresh(g, d[1]) /\ Lex(Start(p), d[1]) = Fresh(Start(p), d[1])
      BY <1>7, <2>2, <3>1, <3>2 DEF Lex
    <3> DEFINE f == Start(p)
    <3> HIDE DEF f
    <3>0. f \in LexState /\ f.part = <<>> /\ f.paste = p /\ f.due = <<>>
      BY <1>4, <3>2 DEF f
    <3>4. \A q : [g EXCEPT !.part = q] = [f EXCEPT !.part = q]
      <4> TAKE q
      <4>1. [g EXCEPT !.part = q] = [part |-> q, paste |-> g.paste, due |-> g.due]
        BY <3>1, StateFields
      <4>2. [f EXCEPT !.part = q] = [part |-> q, paste |-> f.paste, due |-> f.due]
        BY <3>0, StateFields
      <4> QED BY <3>1, <3>0, <4>1, <4>2
    <3>5. \A k \in Key : [g EXCEPT !.part = <<>>, !.due = Append(@, k)] =
                            [f EXCEPT !.part = <<>>, !.due = Append(@, k)]
      <4> TAKE k \in Key
      <4>1. [g EXCEPT !.part = <<>>, !.due = Append(@, k)] =
              [part |-> <<>>, paste |-> g.paste, due |-> Append(g.due, k)]
        BY <3>1, KeyAdded
      <4>2. [f EXCEPT !.part = <<>>, !.due = Append(@, k)] =
              [part |-> <<>>, paste |-> f.paste, due |-> Append(f.due, k)]
        BY <3>0, KeyAdded
      <4> QED BY <3>1, <3>0, <4>1, <4>2
    <3>6. Fresh(g, d[1]) = Fresh(f, d[1])
      <4> DEFINE c == d[1]
                 k == Plain(c)
      <4>1. k \in Key
        BY PlainType
      <4>2. CASE c \in {"E", "u"}
        BY <3>4, <4>2 DEF Fresh
      <4>3. CASE c \in {"v", "i"}
        BY <3>4, <4>3 DEF Fresh
      <4>4. CASE c \notin {"E", "u"} /\ c \notin {"v", "i"}
        <5>1. /\ Fresh(g, c) = [g EXCEPT !.part = <<>>, !.due = Append(@, k)]
              /\ Fresh(f, c) = [f EXCEPT !.part = <<>>, !.due = Append(@, k)]
          BY <4>4 DEF Fresh
        <5> HIDE DEF k
        <5> QED BY <3>5, <4>1, <5>1
      <4> QED BY <4>2, <4>3, <4>4
    <3> QED BY <3>3, <3>6 DEF f
  <2> HIDE DEF d, m
  <2>4. PICK t \in [0..m -> LexState] : IsRun(t, d, g) /\ t[m] = h
    BY <1>5, <2>1, <2>2 DEF Lexes
  <2> DEFINE r == [i \in 0..m |-> IF i = 0 THEN Start(p) ELSE t[i]]
  <2>5. /\ r \in [0..m -> LexState] /\ r[0] = Start(p)
        /\ \A i \in 1..m : r[i] = t[i]
    BY <1>4, <2>2
  <2> HIDE DEF r, g
  <2>6. ASSUME NEW i \in 1..m PROVE r[i] = Lex(r[i - 1], d[i])
    <3>1. t[i] = Lex(t[i - 1], d[i]) /\ r[i] = t[i]
      BY <2>2, <2>4, <2>5 DEF IsRun
    <3>2. CASE i = 1
      <4>1. t[0] = g
        BY <2>4 DEF IsRun
      <4> QED BY <2>3, <2>5, <3>1, <3>2, <4>1
    <3>3. CASE i # 1
      <4>1. i - 1 \in 1..m
        BY <2>2, <3>3
      <4> QED BY <2>5, <3>1, <4>1
    <3> QED BY <3>2, <3>3
  <2>7. r[m] = h
    BY <2>2, <2>4, <2>5
  <2>8. IsRun(r, d, Start(p))
    BY <2>2, <2>5, <2>6 DEF IsRun
  <2>9. Lexes(d, Start(p), h)
    BY <2>2, <2>5, <2>7, <2>8 DEF Lexes
  <2> QED BY <2>9 DEF d
<1> QED BY <1>6, <1>7

\* bytesToKey on what is left of the bytes returns the first key that is due, and
\* leaves the bytes that the others come from; without a key none is due.
LEMMA FindsFirstKey ==
  ASSUME NEW b \in Seq(Byte), NEW p \in BOOLEAN, NEW h \in LexState, Lexes(b, Start(p), h),
         NEW k, NEW r, k = BytesToKey(b, p).key, r = BytesToKey(b, p).rest
  PROVE  /\ k \notin {"none", "bad"} =>
              /\ h.due # <<>> /\ Head(h.due) = k
              /\ Lexes(r, Start(After(k, p)), Behead(h))
         /\ k \in {"none", "bad"} => Lexes(r, Start(p), h)
         /\ k = "none" => h.due = <<>>
<1> DEFINE l == Len(b)
           Is(x, n) == [key |-> x, rest |-> SubSeq(b, n + 1, l)]
           ends == {i \in 1..l : b[i] \in Last}
<1>1. PICK s \in [0..l -> LexState] : IsRun(s, b, Start(p)) /\ s[l] = h
  BY DEF Lexes
<1>2. l \in Nat /\ s[0] = Start(p) /\ \A i \in 1..l : s[i] = Lex(s[i - 1], b[i]) /\ b[i] \in Byte
  BY <1>1, LenProperties, ElementOfSeq DEF IsRun
<1>3. Start(p).due = <<>> /\ Start(p) \in LexState
  BY StartType DEF Start
<1>4. ASSUME BytesToKey(b, p) = Is("none", 0) PROVE k = "none" /\ r = b
  BY <1>4, NoneLeft
<1>5. ASSUME NEW n \in 0..l, NEW x \in Key, NEW q \in BOOLEAN,
             BytesToKey(b, p) = Is(x, n), x \notin {"none", "bad"}, After(x, p) = q,
             s[n] = [part |-> <<>>, paste |-> q, due |-> <<x>>]
      PROVE  /\ k \notin {"none", "bad"}
             /\ h.due # <<>> /\ Head(h.due) = k
             /\ Lexes(r, Start(After(k, p)), Behead(h))
  <2>1. k = x /\ r = SubSeq(b, n + 1, l)
    BY <1>5
  <2>2. /\ h.due # <<>> /\ Head(h.due) = x
        /\ Lexes(SubSeq(b, n + 1, Len(b)), Start(q), Behead(h))
    BY <1>1, <1>5, FirstKey
  <2> QED BY <1>5, <2>1, <2>2
<1>6. CASE b = <<>>
  <2>1. BytesToKey(b, p) = Is("none", 0)
    BY <1>6 DEF BytesToKey
  <2>2. l = 0
    BY <1>6, EmptySeq
  <2>3. h.due = <<>>
    BY <1>1, <1>2, <1>3, <2>2
  <2> HIDE DEF Is
  <2> QED BY <1>4, <2>1, <2>3
<1>7. ASSUME b # <<>> PROVE l >= 1 /\ 1 \in 1..l /\ b[1] \in Byte /\ s[1] = Lex(Start(p), b[1])
  <2>1. l # 0
    BY <1>7, EmptySeq
  <2>2. l >= 1 /\ 1 \in 1..l /\ 1 - 1 = 0
    BY <1>2, <2>1
  <2> QED BY <1>2, <2>2
<1>8. CASE b # <<>> /\ b[1] = "E"
  <2>1. CASE ends = {}
    <3>1. BytesToKey(b, p) = Is("none", 0)
      BY <1>8, <2>1 DEF BytesToKey
    <3>2. \A i \in 1..l : b[i] \notin Last
      BY <2>1
    <3>3. s[l] = Begun(b, p, l)
      <4>1. l \in 1..Len(b)
        BY <1>2, <1>7, <1>8
      <4> QED BY <1>1, <1>7, <1>8, <3>2, <4>1, SequenceBegun
    <3>4. h.due = <<>>
      BY <1>1, <3>3 DEF Begun
    <3> HIDE DEF Is
    <3> QED BY <1>4, <3>1, <3>4
  <2>2. CASE ends # {}
    <3> DEFINE n == Min(ends)
               x == Sequence(SubSeq(b, 1, n), p)
    <3>1. BytesToKey(b, p) = Is(x, n)
      BY <1>8, <2>2 DEF BytesToKey
    <3>2. n \in ends /\ \A i \in ends : n <= i
      <4>1. ends \in SUBSET Nat
        BY <1>2
      <4> QED BY <2>2, <4>1, MinIn
    <3>3. x \in {"start", "end", "seq"} /\ x \in Key
      BY DEF Sequence, Key
    <3> HIDE DEF n, Is, x
    <3>4. n \in 1..l /\ b[n] \in Last
      BY <3>2
    <3>5. \A i \in 1..(n - 1) : b[i] \notin Last
      <4> TAKE i \in 1..(n - 1)
      <4>1. i \in 1..l /\ ~(n <= i)
        BY <1>2, <3>4
      <4> QED BY <3>2, <4>1
    <3>6. n # 1
      BY <1>8, <3>4 DEF Last
    <3>7. n \in 2..Len(b) /\ n \in 0..l
      BY <1>2, <3>4, <3>6
    <3>8. s[n] = [part |-> <<>>, paste |-> After(x, p), due |-> <<x>>]
      BY <1>1, <1>8, <3>4, <3>5, <3>7, SequenceEnds DEF x
    <3>9. After(x, p) \in BOOLEAN /\ x \notin {"none", "bad"}
      BY <3>3 DEF After
    <3> QED BY <1>5, <3>1, <3>3, <3>7, <3>8, <3>9
  <2> QED BY <2>1, <2>2
<1>9. CASE b = <<"u">>
  <2>1. BytesToKey(b, p) = Is("none", 0)
    BY <1>9 DEF BytesToKey
  <2>2. l = 1 /\ b[1] = "u" /\ b # <<>>
    BY <1>9
  <2>3. h.due = <<>>
    <3>1. s[1] = [part |-> <<"u">>, paste |-> p, due |-> <<>>]
      BY <1>7, <2>2, StepsOne
    <3> QED BY <1>1, <2>2, <3>1
  <2> HIDE DEF Is
  <2> QED BY <1>4, <2>1, <2>3
<1>10. CASE b # <<>> /\ b[1] # "E" /\ b # <<"u">> /\ Len(b) > 1 /\ b[1] = "u" /\ b[2] = "v"
  <2>1. BytesToKey(b, p) = Is("char", 2)
    BY <1>10 DEF BytesToKey
  <2>2. s[1] = [part |-> <<"u">>, paste |-> p, due |-> <<>>]
    BY <1>7, <1>10, StepsOne
  <2>3. 2 \in 1..l /\ 2 \in 0..l /\ 2 - 1 = 1 /\ 1 \in 0..l
    BY <1>2, <1>10
  <2>4. s[2] = Lex(s[1], "v")
    BY <1>2, <1>10, <2>3
  <2> DEFINE g == s[1]
  <2>5. g \in LexState /\ g.part = <<"u">> /\ g.paste = p /\ g.due = <<>>
    BY <2>2, <2>3
  <2> HIDE DEF g
  <2>6. Lex(g, "v") = [g EXCEPT !.part = <<>>, !.due = Append(@, "char")]
    BY <2>5 DEF Lex
  <2>7. "char" \in Key /\ Append(<<>>, "char") = <<"char">>
    BY DEF Key
  <2>8. Lex(g, "v") = [part |-> <<>>, paste |-> p, due |-> <<"char">>]
    BY <2>5, <2>6, <2>7, KeyAdded
  <2>9. After("char", p) = p
    BY DEF After
  <2> HIDE DEF Is
  <2> QED BY <1>5, <2>1, <2>3, <2>4, <2>7, <2>8, <2>9 DEF g
<1>11. CASE /\ b # <<>> /\ b[1] # "E" /\ b # <<"u">>
            /\ (Len(b) > 1 /\ b[1] = "u" /\ b[2] # "v") \/ b[1] \in {"v", "i"}
  <2>1. BytesToKey(b, p) = Is("bad", 1)
    BY <1>11 DEF BytesToKey
  <2>2. k = "bad" /\ r = SubSeq(b, 2, l)
    BY <2>1
  <2>3. Lexes(SubSeq(b, 2, Len(b)), Start(p), h)
    BY <1>7, <1>11, BadByte
  <2> QED BY <2>2, <2>3
<1>12. CASE /\ b # <<>> /\ b[1] # "E" /\ b # <<"u">>
            /\ ~(Len(b) > 1 /\ b[1] = "u") /\ b[1] \notin {"v", "i"}
  <2> DEFINE x == Plain(b[1])
  <2>1. BytesToKey(b, p) = Is(x, 1)
    BY <1>12 DEF BytesToKey
  <2>2. b[1] # "u"
    <3> SUFFICES ASSUME b[1] = "u" PROVE FALSE
      OBVIOUS
    <3>1. Len(b) = 1
      <4>1. l >= 1
        BY <1>7, <1>12
      <4>2. ~(l > 1)
        BY <1>12
      <4> HIDE DEF l
      <4>3. l = 1
        BY <1>2, <4>1, <4>2
      <4> QED BY <4>3 DEF l
    <3>2. b = <<"u">>
      <4>1. <<"u">> \in Seq(Byte) /\ Len(<<"u">>) = 1 /\ <<"u">>[1] = "u"
        BY DEF Byte
      <4>2. \A i \in 1..1 : b[i] = <<"u">>[i]
        BY <4>1
      <4> QED BY <3>1, <4>1, <4>2, SeqEqual
    <3> QED BY <1>12, <3>2
  <2>3. s[1] = [part |-> <<>>, paste |-> p, due |-> <<x>>]
    BY <1>7, <1>12, <2>2, StepsOne
  <2>4. x \in Key /\ x \in {"enter", "ctrlD", "char"}
    BY DEF Plain, Key
  <2> HIDE DEF Is, x
  <2>5. After(x, p) = p /\ x \notin {"none", "bad"}
    BY <2>4 DEF After
  <2>6. 1 \in 0..l
    BY <1>2, <1>7, <1>12
  <2> QED BY <1>5, <2>1, <2>3, <2>4, <2>5, <2>6
<1> QED BY <1>6, <1>8, <1>9, <1>10, <1>11, <1>12

-----------------------------------------------------------------------------
(* The state *)

LEMMA TakeType ==
  ASSUME TypeOK, NEW k \in Key, Take(k)
  PROVE  /\ rem' \in Seq(Byte) /\ Len(rem') <= BufLen /\ key' \in Key
         /\ lexed' \in LexState
         /\ UNCHANGED <<wire, gone, got>>
<1>1. rem \in Seq(Byte) /\ paste \in BOOLEAN /\ lexed \in LexState /\ Len(rem) <= BufLen
  BY DEF TypeOK, LexState
<1>2. NextKey.rest \in Seq(Byte) /\ Len(NextKey.rest) <= Len(rem)
  BY <1>1, KeyType DEF NextKey
<1>3. rem' \in Seq(Byte) /\ Len(rem') <= BufLen
  BY <1>1, <1>2, KeyAssumption, LenProperties DEF Take, KeyAssumption
<1>4. SubSeq(lexed.due, 2, Len(lexed.due)) \in Seq(Key)
  <2>1. lexed.due \in Seq(Key) /\ Len(lexed.due) \in Nat
    BY <1>1, LenProperties DEF LexState
  <2>2. \A i \in 2..Len(lexed.due) : lexed.due[i] \in Key
    BY <2>1, ElementOfSeq
  <2> QED BY <2>1, <2>2, SubSeqProperties
<1>5. lexed' \in LexState
  BY <1>1, <1>4 DEF Take, LexState
<1> QED BY <1>3, <1>5 DEF Take

\* A line that counts as pasted has no typed text, and a line without text none.
Pasted ==
  /\ pasted => ~typed
  /\ at \in {"parse", "read"} /\ empty => ~typed

Inv == TypeOK /\ Pasted

LEMMA ReadLineKeeps ==
  ASSUME Inv, ReadLine
  PROVE  Inv'
BY DEF Inv, TypeOK, Pasted, ReadLine

LEMMA NextInv ==
  ASSUME Inv, [Next]_vars
  PROVE  Inv'
<1> USE DEF Inv
<1>1. ASSUME NEW item \in Typing, Type(item) PROVE Inv'
  <2>1. item \in Seq(Byte)
    <3>1. \A b1, b2, b3 \in Byte : /\ <<b1>> \in Seq(Byte) /\ <<b1, b2>> \in Seq(Byte)
                                  /\ <<b1, b2, b3>> \in Seq(Byte)
      OBVIOUS
    <3>2. {"E", "P", "Q", "t", "a", "n", "r", "d", "u", "v", "i"} \subseteq Byte
      BY DEF Byte
    <3>3. Typing \subseteq Seq(Byte)
      BY <3>1, <3>2 DEF Typing, PasteStart, PasteEnd
    <3> QED BY <3>3
  <2> QED BY <1>1, <2>1 DEF Type, TypeOK, Pasted, readerVars
<1>2. CASE HangUp
  BY <1>2 DEF HangUp, TypeOK, Pasted, readerVars
<1>3. CASE Fill
  <2>1. Head(wire) \in Byte /\ Tail(wire) \in Seq(Byte)
    BY <1>3, HeadTailProperties DEF Fill, TypeOK
  <2>2. Append(rem, Head(wire)) \in Seq(Byte) /\ Len(Append(rem, Head(wire))) = Len(rem) + 1
    BY <2>1, AppendProperties DEF TypeOK
  <2>3. Len(rem) + 1 <= BufLen
    BY <1>3, KeyAssumption, LenProperties DEF Fill, TypeOK, KeyAssumption
  <2>4. lexed' \in LexState
    BY <1>3, <2>1, LexKeepsType DEF Fill, TypeOK, LexState
  <2> QED BY <1>3, <2>1, <2>2, <2>3, <2>4 DEF Fill, TypeOK, Pasted, LexState
<1>4. CASE ReadReturns
  BY <1>4 DEF ReadReturns, TypeOK, Pasted
<1>16. CASE ReadFails
  BY <1>16 DEF ReadFails, TypeOK, Pasted, readerVars
<1>5. CASE CtrlD
  <2>1. Take("ctrlD")
    BY <1>5 DEF CtrlD
  <2> QED BY <1>5, <2>1, TakeType DEF CtrlD, TypeOK, Pasted, LexState, Key
<1>6. CASE PasteStarts
  <2>1. Take("start")
    BY <1>6 DEF PasteStarts
  <2> QED BY <1>6, <2>1, TakeType DEF PasteStarts, Take, TypeOK, Pasted, LexState, Key
<1>7. CASE PasteEnds
  <2>1. Take("end")
    BY <1>7 DEF PasteEnds
  <2> QED BY <1>7, <2>1, TakeType DEF PasteEnds, Take, TypeOK, Pasted, LexState, Key
<1>8. CASE Text
  <2>1. PICK k \in {"char", "seq", "ctrlD"} : Take(k)
    BY <1>8 DEF Text
  <2> QED BY <1>8, <2>1, TakeType DEF Text, Take, TypeOK, Pasted, LexState, Key
<1>9. CASE Edit
  <2>1. PICK k \in {"seq", "ctrlD"} : Take(k)
    BY <1>9 DEF Edit
  <2> QED BY <1>9, <2>1, TakeType DEF Edit, Take, TypeOK, Pasted, LexState, Key
<1>10. CASE Enter
  <2>1. Take("enter")
    BY <1>10 DEF Enter
  <2> QED BY <1>10, <2>1, TakeType DEF Enter, Take, TypeOK, Pasted, LexState, Key
<1>11. CASE Await
  <2>1. /\ NextKey.rest \in Seq(Byte) /\ Len(NextKey.rest) <= Len(rem)
        /\ NextKey.key \in Key
    BY KeyType DEF NextKey, TypeOK
  <2>2. Len(NextKey.rest) <= BufLen
    BY <2>1, KeyAssumption, LenProperties DEF TypeOK, KeyAssumption
  <2> QED BY <1>11, <2>1, <2>2 DEF Await, TypeOK, Pasted
<1>12. CASE Leave \/ OpenSession
  BY <1>12 DEF Leave, OpenSession, TypeOK, Pasted, readerVars
<1>13. CASE NextLine \/ SessionEnds
  BY <1>13, ReadLineKeeps DEF NextLine, SessionEnds
<1>14. CASE SessionReads
  <2>1. Tail(wire) \in Seq(Byte)
    BY <1>14, HeadTailProperties DEF SessionReads, TypeOK
  <2> QED BY <1>14, <2>1 DEF SessionReads, TypeOK, Pasted, readerVars
<1>15. CASE UNCHANGED vars
  BY <1>15 DEF vars, readerVars, TypeOK, Pasted, NextKey
<1> QED BY <1>1, <1>2, <1>3, <1>4, <1>5, <1>6, <1>7, <1>8, <1>9, <1>10, <1>11, <1>12,
           <1>13, <1>14, <1>15, <1>16 DEF Next, Terminal

THEOREM InvHolds == Spec => []Inv
<1>1. Init => Inv
  <2>1. <<>> \in Seq(Byte) /\ <<>> \in Seq(Key) /\ Len(<<>>) = 0
    BY EmptySeq
  <2> SUFFICES ASSUME Init PROVE Inv
    OBVIOUS
  <2>2. lexed \in LexState
    BY <2>1 DEF Init, LexState
  <2>3. Len(rem) <= BufLen
    BY <2>1, KeyAssumption DEF Init, KeyAssumption
  <2> QED BY <2>1, <2>2, <2>3 DEF Init, Inv, TypeOK, Pasted, Key, LexState
<1>2. Inv /\ [Next]_vars => Inv'
  BY NextInv
<1> QED BY <1>1, <1>2, PTL DEF Spec

\* For a buffer of any length: what a Read brings fits behind the remainder, and the
\* rest of the state is what it is taken for.
THEOREM TypeCorrect == Spec => []TypeOK
BY InvHolds, PTL DEF Inv

\* No line with typed text in it is reported as pasted and ends the panel.
THEOREM OnlyPasted == Spec => []PastedOnly
<1>1. Inv => PastedOnly
  BY DEF Inv, Pasted, PastedOnly
<1> QED BY <1>1, InvHolds, PTL

-----------------------------------------------------------------------------
(* The order of the keys *)

\* What is left of the bytes read is what the automaton saw after the last key taken;
\* ReadLine waits only after it has found no key.
Reads ==
  /\ Lexes(rem, Start(paste), lexed)
  /\ at = "read" /\ ~got => key \in {"none", "bad"} /\ (key = "none" => lexed.due = <<>>)

\* Taking a key takes the first one that is due, and leaves the rest in step.
LEMMA TakesFirst ==
  ASSUME TypeOK, Reads, NEW k \in Key \ {"none", "bad"}, Take(k)
  PROVE  /\ lexed.due # <<>> /\ key' = Head(lexed.due)
         /\ Lexes(rem', Start(After(k, paste)), lexed')
<1>1. rem \in Seq(Byte) /\ paste \in BOOLEAN /\ lexed \in LexState
  BY DEF TypeOK, LexState
<1>2. /\ k = BytesToKey(rem, paste).key /\ rem' = BytesToKey(rem, paste).rest
      /\ key' = k /\ lexed' = Behead(lexed)
  BY DEF Take, NextKey, Behead
<1>3. Lexes(rem, Start(paste), lexed)
  BY DEF Reads
<1> QED BY <1>1, <1>2, <1>3, FindsFirstKey

LEMMA ReadsKept ==
  ASSUME TypeOK, Reads, [Next]_vars
  PROVE  Reads'
<1>1. /\ rem \in Seq(Byte) /\ wire \in Seq(Byte) /\ paste \in BOOLEAN /\ lexed \in LexState
      /\ Start(paste) \in LexState
  BY StartType DEF TypeOK, LexState
<1>2. ASSUME UNCHANGED <<rem, paste, lexed>>, at' = at \/ at' # "read", UNCHANGED <<got, key>> \/ at' # "read"
      PROVE  Reads'
  BY <1>2 DEF Reads
<1>3. ASSUME NEW item \in Typing, Type(item) PROVE Reads'
  BY <1>2, <1>3 DEF Type, readerVars
<1>4. CASE HangUp
  BY <1>2, <1>4 DEF HangUp, readerVars
<1>5. CASE Fill
  <2>1. Head(wire) \in Byte
    BY <1>1, <1>5, HeadTailProperties DEF Fill
  <2>2. Lexes(Append(rem, Head(wire)), Start(paste), Lex(lexed, Head(wire)))
    BY <1>1, <2>1, LexesByte DEF Reads
  <2> QED BY <1>5, <2>2 DEF Fill, Reads
<1>6. CASE ReadReturns
  BY <1>2, <1>6 DEF ReadReturns
<1>7. CASE ReadFails
  BY <1>2, <1>7 DEF ReadFails, readerVars
<1>8. ASSUME NEW k \in Key \ {"none", "bad"}, Take(k), paste' = After(k, paste), at' # "read"
      PROVE  Reads'
  BY <1>8, TakesFirst DEF Reads
<1>9. {"ctrlD", "start", "end", "char", "seq", "enter"} \subseteq Key \ {"none", "bad"}
  BY DEF Key
<1>10. CASE CtrlD
  BY <1>8, <1>9, <1>10 DEF CtrlD, After
<1>11. CASE PasteStarts
  <2>1. at = "parse" /\ at' = at
    BY <1>11 DEF PasteStarts, Take
  <2> QED BY <1>8, <1>9, <1>11, <2>1 DEF PasteStarts, After
<1>12. CASE PasteEnds
  <2>1. at = "parse" /\ at' = at
    BY <1>12 DEF PasteEnds, Take
  <2> QED BY <1>8, <1>9, <1>12, <2>1 DEF PasteEnds, After
<1>13. CASE Text \/ Edit
  <2>1. PICK k \in {"char", "seq", "ctrlD"} : Take(k)
    BY <1>13 DEF Text, Edit
  <2>2. at = "parse" /\ at' = at /\ paste' = paste
    BY <1>13, <2>1 DEF Text, Edit, Take
  <2>3. After(k, paste) = paste
    BY <2>1 DEF After
  <2> QED BY <1>8, <1>9, <2>1, <2>2, <2>3
<1>14. CASE Enter
  BY <1>8, <1>9, <1>14 DEF Enter, After
<1>15. CASE Await
  <2>1. /\ NextKey.key = BytesToKey(rem, paste).key /\ NextKey.rest = BytesToKey(rem, paste).rest
        /\ Lexes(rem, Start(paste), lexed)
    BY DEF NextKey, Reads
  <2>2. Lexes(NextKey.rest, Start(paste), lexed) /\ (NextKey.key = "none" => lexed.due = <<>>)
    BY <1>1, <1>15, <2>1, FindsFirstKey DEF Await
  <2> QED BY <1>15, <2>2 DEF Await, Reads
<1>16. CASE Leave \/ OpenSession
  BY <1>2, <1>16 DEF Leave, OpenSession, readerVars
<1>17. CASE NextLine \/ SessionEnds
  BY <1>2, <1>17 DEF NextLine, SessionEnds, ReadLine
<1>18. CASE SessionReads
  BY <1>2, <1>18 DEF SessionReads, readerVars
<1>19. CASE UNCHANGED vars
  BY <1>2, <1>19 DEF vars, readerVars
<1> QED BY <1>3, <1>4, <1>5, <1>6, <1>7, <1>10, <1>11, <1>12, <1>13, <1>14, <1>15, <1>16,
           <1>17, <1>18, <1>19 DEF Next, Terminal

THEOREM ReadsHolds == Spec => []Reads
<1>1. Init => Reads
  <2> SUFFICES ASSUME Init PROVE Reads
    OBVIOUS
  <2>1. rem = <<>> /\ lexed = Start(paste) /\ paste = FALSE /\ at # "read"
    BY DEF Init, Start
  <2>2. Start(FALSE) \in LexState
    BY StartType
  <2>3. Lexes(<<>>, Start(FALSE), Start(FALSE))
    BY <2>2, LexesNothing
  <2> QED BY <2>1, <2>3 DEF Reads
<1>2. Reads /\ TypeOK /\ [Next]_vars => Reads'
  BY ReadsKept
<1> QED BY <1>1, <1>2, TypeCorrect, PTL DEF Spec

\* However the bytes are split over reads, lines and sessions, and however long the
\* buffer is, readLine acts on the keys that a reader of the whole stream would see,
\* in their order.
THEOREM KeysAreInOrder == Spec => KeysInOrder
<1>1. TypeOK /\ Reads /\ [Next]_vars =>
        [at = "parse" /\ rem' # rem /\ key' \notin {"none", "bad"} =>
           lexed.due # <<>> /\ key' = Head(lexed.due)]_vars
  <2> SUFFICES ASSUME TypeOK, Reads, Next,
                      at = "parse", rem' # rem, key' \notin {"none", "bad"}
               PROVE  lexed.due # <<>> /\ key' = Head(lexed.due)
    OBVIOUS
  <2>1. {"ctrlD", "start", "end", "char", "seq", "enter"} \subseteq Key \ {"none", "bad"}
    BY DEF Key
  <2>2. \E k \in {"ctrlD", "start", "end", "char", "seq", "enter"} : Take(k)
    <3>1. CASE \E item \in Typing : Type(item)
      BY <3>1 DEF Type, readerVars
    <3>2. CASE HangUp \/ SessionReads \/ SessionEnds
      BY <3>2 DEF HangUp, SessionReads, SessionEnds, readerVars
    <3>3. CASE Fill \/ ReadReturns \/ ReadFails
      BY <3>3 DEF Fill, ReadReturns, ReadFails
    <3>4. CASE Leave \/ NextLine \/ OpenSession
      BY <3>4 DEF Leave, NextLine, OpenSession
    <3>5. CASE Await
      BY <3>5 DEF Await
    <3>6. CASE CtrlD \/ PasteStarts \/ PasteEnds \/ Text \/ Edit \/ Enter
      BY <3>6 DEF CtrlD, PasteStarts, PasteEnds, Text, Edit, Enter
    <3> QED BY <3>1, <3>2, <3>3, <3>4, <3>5, <3>6 DEF Next, Terminal
  <2> QED BY <2>1, <2>2, TakesFirst
<1> QED BY <1>1, TypeCorrect, ReadsHolds, PTL DEF Spec, KeysInOrder

\* ReadLine asks for more only when every key it has got is dealt with, unless a byte
\* was in no rune.
THEOREM WaitsOnlyForInput == Spec => []WaitsForInput
<1>1. Reads => WaitsForInput
  BY DEF Reads, WaitsForInput
<1> QED BY <1>1, ReadsHolds, PTL
=============================================================================
