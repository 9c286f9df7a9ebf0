-------------------------- MODULE LineEditorProofs --------------------------
(***************************************************************************)
(* Proofs about LineEditor, for any alphabet, prompt, window and depth of  *)
(* the history: the cursor stays in the line, the ring keeps its bounds,   *)
(* an edit is local to the cursor, the ring with its wrapping indices      *)
(* implements Recall, and the user sees the prompt and the line.           *)
(*                                                                         *)
(* For the last one characters are counted from the prompt's first, row by *)
(* row: a screen with W columns shows a picture f, a function on Nat, when *)
(* place <<y, x>> has f[y * W + x].  What is sent to the screen is shown   *)
(* to change the picture, one operation after the other, up to redrawing a *)
(* line from some character on; each key is then an instance of that.      *)
(***************************************************************************)
EXTENDS LineEditor, WellFoundedInduction, SequenceTheorems, TLAPS

\* A set of numbers has a smallest one.
LEMMA LeastIn ==
  ASSUME NEW S \in SUBSET Nat, S # {}
  PROVE  \E m \in S : \A k \in S : m <= k
<1> DEFINE R == {ss \in Nat \X Nat : ss[1] < ss[2]}
<1>1. IsWellFoundedOn(R, Nat)
  BY NatLessThanWellFounded DEF OpToRel
<1> HIDE DEF R
<1>2. PICK m \in S : \A k \in S : ~(<<k, m>> \in R)
  BY <1>1, WFMin
<1>3. ASSUME NEW k \in S PROVE m <= k
  <2>1. ~(k < m)
    BY <1>2 DEF R
  <2> QED BY <2>1
<1> QED BY <1>2, <1>3

LEMMA MinIn ==
  ASSUME NEW S \in SUBSET Nat, S # {}
  PROVE  Min(S) \in S /\ \A k \in S : Min(S) <= k
BY LeastIn DEF Min

\* A set of numbers up to p has a greatest one.
LEMMA MaxIn ==
  ASSUME NEW p \in Nat, NEW S \in SUBSET (0..p), S # {}
  PROVE  Max(S) \in S /\ \A k \in S : k <= Max(S)
<1> DEFINE T == {k \in 0..p : p - k \in S}
<1>1. T \in SUBSET Nat /\ T # {}
  <2>1. PICK k \in S : TRUE
    OBVIOUS
  <2>2. p - k \in T
    OBVIOUS
  <2> QED BY <2>2
<1>2. PICK t \in T : \A u \in T : t <= u
  BY <1>1, LeastIn
<1>3. \A k \in S : p - t >= k
  <2>1. ASSUME NEW k \in S PROVE p - t >= k
    <3>1. p - k \in T
      OBVIOUS
    <3> QED BY <1>2, <3>1
  <2> QED BY <2>1
<1> QED BY <1>2, <1>3 DEF Max

LEMMA SlotItself == ASSUME NEW h \in Nat PROVE h - 0 = h /\ ~(h < 0)
OBVIOUS

\* The slot n behind slot h is another one of the ring.
LEMMA SlotBehind ==
  ASSUME NEW d \in Nat \ {0}, NEW h \in 0..(d - 1), NEW n \in 1..(d - 1)
  PROVE  LET new == IF h - n < 0 THEN h - n + d ELSE h - n
         IN new \in 0..(d - 1) /\ new # h
<1>1. CASE h < n
  <2>1. h - n < 0 /\ h - n + d \in 0..(d - 1) /\ h - n + d # h
    BY <1>1
  <2> QED BY <2>1
<1>2. CASE n <= h
  <2>1. ~(h - n < 0) /\ h - n \in 0..(d - 1) /\ h - n # h
    BY <1>2
  <2> QED BY <2>1
<1> QED BY <1>1, <1>2

\* The index of the next slot of the ring.
LEMMA NextSlot ==
  ASSUME NEW d \in Nat \ {0}, NEW h \in 0..(d - 1)
  PROVE  (h + 1) % d = IF h + 1 = d THEN 0 ELSE h + 1
<1>1. CASE h + 1 = d
  BY <1>1
<1>2. CASE h + 1 < d
  BY <1>2
<1> QED BY <1>1, <1>2

-----------------------------------------------------------------------------
(* Words *)

LEMMA LeftCount ==
  ASSUME NEW l \in Seq(Rune), NEW p \in 0..Len(l)
  PROVE  CountToLeftWord(l, p) \in 0..p
<1> DEFINE word == {k \in 1..(p - 1) : At(l, k) # Space}
           last == IF word = {} THEN 0 ELSE Max(word)
           gap == {k \in 1..last : At(l, k) = Space}
<1>0. p \in Nat /\ word \in SUBSET (0..p) /\ \A k \in word : k \in 1..(p - 1)
  OBVIOUS
<1> HIDE DEF word
<1>1. last \in 0..p /\ (word # {} => last \in 1..(p - 1))
  <2>1. CASE word = {}
    BY <1>0, <2>1
  <2>2. CASE word # {}
    <3>1. Max(word) \in word
      BY <1>0, <2>2, MaxIn
    <3> QED BY <1>0, <2>2, <3>1
  <2> QED BY <2>1, <2>2
<1>2. (IF gap = {} THEN 0 ELSE Max(gap) + 1) \in 0..p
  <2>1. CASE gap = {}
    BY <1>0, <2>1
  <2>2. CASE gap # {}
    <3>1. word # {}
      BY <2>2
    <3>2. gap \in SUBSET (0..(p - 1)) /\ p - 1 \in Nat
      BY <1>0, <1>1, <3>1
    <3> HIDE DEF gap
    <3>3. Max(gap) \in gap
      BY <2>2, <3>2, MaxIn
    <3>4. Max(gap) \in 0..(p - 1)
      BY <3>2, <3>3
    <3> QED BY <1>0, <2>2, <3>4
  <2> QED BY <2>1, <2>2
<1>3. CountToLeftWord(l, p) = IF p = 0 THEN 0 ELSE p - (IF gap = {} THEN 0 ELSE Max(gap) + 1)
  BY DEF CountToLeftWord, word
<1> HIDE DEF gap
<1> QED BY <1>2, <1>3

LEMMA RightCount ==
  ASSUME NEW l \in Seq(Rune), NEW p \in 0..Len(l)
  PROVE  p + CountToRightWord(l, p) \in p..Len(l)
<1> DEFINE gaps == {Len(l)} \cup {k \in p..(Len(l) - 1) : At(l, k) = Space}
           gap == Min(gaps)
           words == {Len(l)} \cup {k \in gap..(Len(l) - 1) : At(l, k) # Space}
<1>1. gap \in gaps
  <2>1. gaps \in SUBSET Nat /\ gaps # {}
    OBVIOUS
  <2> QED BY <2>1, MinIn
<1>2. gap \in p..Len(l)
  BY <1>1
<1> HIDE DEF gap
<1>3. Min(words) \in words
  <2>1. words \in SUBSET Nat /\ words # {}
    BY <1>2
  <2> QED BY <2>1, MinIn
<1>4. Min(words) \in p..Len(l)
  BY <1>2, <1>3
<1>5. CountToRightWord(l, p) = Min(words) - p
  BY DEF CountToRightWord, gap
<1> HIDE DEF words
<1> QED BY <1>4, <1>5

\* What the extremum of a set is, once it is found.
LEMMA MaxIs ==
  ASSUME NEW p \in Nat, NEW S \in SUBSET (0..p), NEW m \in S, \A k \in S : k <= m
  PROVE  Max(S) = m
<1>1. Max(S) \in S /\ \A k \in S : k <= Max(S)
  BY MaxIn
<1>2. \A x \in S : x \in Int /\ x <= m
  OBVIOUS
<1>3. \A x \in S : m <= x => x = m
  BY <1>2
<1> QED BY <1>1, <1>3

LEMMA MinIs ==
  ASSUME NEW S \in SUBSET Nat, NEW m \in S, \A k \in S : m <= k
  PROVE  Min(S) = m
<1>1. Min(S) \in S /\ \A k \in S : Min(S) <= k
  BY MinIn
<1>2. \A x \in S : x \in Int /\ m <= x
  OBVIOUS
<1>3. \A x \in S : x <= m => x = m
  BY <1>2
<1> QED BY <1>1, <1>3

\* Where words start, as a reader sees it.
Starts(l) ==
  {k \in 0..(Len(l) - 1) : At(l, k) # Space /\ (k > 0 => At(l, k - 1) = Space)}

\* Going left stops at the last start before the cursor, or passes one at 1.
LEMMA LeftWord ==
  ASSUME NEW l \in Seq(Rune), NEW p \in 0..Len(l)
  PROVE  LET left == Max({0} \cup {k \in Starts(l) : k < p})
         IN p - CountToLeftWord(l, p) = IF left = 1 THEN 0 ELSE left
<1> DEFINE word == {k \in 1..(p - 1) : At(l, k) # Space}
           last == IF word = {} THEN 0 ELSE Max(word)
           gap == {k \in 1..last : At(l, k) = Space}
           stop == IF gap = {} THEN 0 ELSE Max(gap) + 1
           S == {0} \cup {k \in Starts(l) : k < p}
<1>0. p \in Nat /\ Len(l) \in Nat /\ p <= Len(l)
  OBVIOUS
<1>1. S \in SUBSET (0..p) /\ 0 \in S
  BY <1>0 DEF Starts
<1>2. \A k \in S : k = 0 \/ (/\ k \in 1..(p - 1) /\ At(l, k) # Space
                            /\ At(l, k - 1) = Space)
  BY <1>0 DEF Starts
<1>3. \A k \in 1..(p - 1) : At(l, k) # Space /\ At(l, k - 1) = Space => k \in S
  BY <1>0 DEF Starts
<1>4. CountToLeftWord(l, p) = IF p = 0 THEN 0 ELSE p - stop
  BY DEF CountToLeftWord
<1>5. /\ last \in 0..p /\ (word # {} => last \in word)
      /\ \A k \in 1..(p - 1) : At(l, k) # Space => k <= last
  <2>1. word \in SUBSET (0..p) /\ \A k \in word : k \in 0..p
    BY <1>0
  <2>2. CASE word = {}
    BY <1>0, <2>2
  <2>3. CASE word # {}
    <3> HIDE DEF word
    <3>1. Max(word) \in word /\ \A k \in word : k <= Max(word)
      BY <1>0, <2>1, <2>3, MaxIn
    <3> USE DEF word
    <3> QED BY <1>0, <2>1, <2>3, <3>1
  <2> QED BY <2>2, <2>3
<1>6. \A k \in 1..(p - 1) : k \in word <=> At(l, k) # Space
  OBVIOUS
<1>7. word # {} => last \in 1..(p - 1) /\ At(l, last) # Space
  BY <1>5
<1> HIDE DEF word, last
<1>8. CASE gap = {}
  <2>1. \A k \in 1..(p - 1) : k <= last => At(l, k) # Space
    BY <1>5, <1>8
  <2>2. \A k \in S : k \in {0, 1}
    <3> SUFFICES ASSUME NEW k \in S, k # 0, k # 1 PROVE FALSE
      OBVIOUS
    <3>1. /\ k \in 1..(p - 1) /\ k - 1 \in 1..(p - 1)
          /\ At(l, k) # Space /\ At(l, k - 1) = Space
      <4> HIDE DEF S
      <4> QED BY <1>0, <1>2
    <3>2. k <= last
      BY <1>5, <3>1
    <3>3. k - 1 <= last
      BY <1>5, <3>1, <3>2
    <3> QED BY <2>1, <3>1, <3>3
  <2>3. Max(S) \in {0, 1}
    <3> HIDE DEF S
    <3>1. Max(S) \in S
      BY <1>0, <1>1, MaxIn
    <3> QED BY <2>2, <3>1
  <2> QED BY <1>0, <1>4, <1>8, <2>3
<1>9. CASE gap # {}
  <2> DEFINE g == Max(gap)
  <2>1. g \in gap /\ \A k \in gap : k <= g
    <3>1. gap \in SUBSET (0..p)
      BY <1>0, <1>5
    <3> HIDE DEF gap
    <3> QED BY <1>0, <1>9, <3>1, MaxIn
  <2>2. g \in 1..last /\ At(l, g) = Space
    BY <2>1
  <2>3. \A k \in 1..last : At(l, k) = Space => k <= g
    BY <2>1
  <2> HIDE DEF g
  <2>4. word # {}
    BY <2>2 DEF last
  <2>5. g < last /\ g + 1 \in 1..(p - 1) /\ g \in Nat /\ last \in 1..(p - 1)
    BY <1>7, <2>2, <2>4
  <2>6. At(l, g + 1) # Space
    <3>1. g + 1 \in 1..last /\ ~(g + 1 <= g)
      BY <2>5
    <3> QED BY <2>3, <3>1
  <2>7. g + 1 \in S
    <3>1. (g + 1) - 1 = g
      BY <2>5
    <3> HIDE DEF S
    <3> QED BY <1>3, <2>2, <2>5, <2>6, <3>1
  <2>8. ASSUME NEW k \in S PROVE k <= g + 1
    <3> SUFFICES ASSUME ~(k <= g + 1) PROVE FALSE
      OBVIOUS
    <3>1. k \in 0..p
      BY <1>1
    <3> HIDE DEF S
    <3>2. /\ k \in 1..(p - 1) /\ At(l, k) # Space /\ At(l, k - 1) = Space
      BY <1>2, <2>5, <3>1
    <3>3. k <= last
      BY <1>5, <3>2
    <3>4. k - 1 \in 1..last /\ ~(k - 1 <= g)
      BY <2>5, <3>2, <3>3
    <3> QED BY <2>3, <3>2, <3>4
  <2>9. Max(S) = g + 1
    <3> HIDE DEF S
    <3> QED BY <1>0, <1>1, <2>7, <2>8, MaxIs
  <2>10. stop = g + 1
    BY <1>9 DEF g
  <2> HIDE DEF S, stop, gap
  <2>11. p - CountToLeftWord(l, p) = g + 1 /\ g + 1 # 1
    BY <1>0, <1>4, <2>2, <2>5, <2>10
  <2> USE DEF S
  <2> QED BY <2>9, <2>11
<1> QED BY <1>8, <1>9

\* Going right stops at the next start, or at the end.
LEMMA RightWord ==
  ASSUME NEW l \in Seq(Rune), NEW p \in 0..Len(l)
  PROVE  p + CountToRightWord(l, p) = Min({Len(l)} \cup {k \in Starts(l) : k > p})
<1> DEFINE gaps == {Len(l)} \cup {k \in p..(Len(l) - 1) : At(l, k) = Space}
           gap == Min(gaps)
           words == {Len(l)} \cup {k \in gap..(Len(l) - 1) : At(l, k) # Space}
           m == Min(words)
           S == {Len(l)} \cup {k \in Starts(l) : k > p}
<1>0. p \in Nat /\ Len(l) \in Nat /\ p <= Len(l)
  OBVIOUS
<1>1. gap \in gaps /\ \A k \in gaps : gap <= k
  <2>1. gaps \in SUBSET Nat /\ gaps # {}
    OBVIOUS
  <2> QED BY <2>1, MinIn
<1>2. gap \in p..Len(l) /\ (gap < Len(l) => At(l, gap) = Space)
  BY <1>0, <1>1
<1>3. \A k \in p..(Len(l) - 1) : At(l, k) = Space => gap <= k
  BY <1>1
<1> HIDE DEF gap
<1>4. m \in words /\ \A k \in words : m <= k
  <2>1. words \in SUBSET Nat /\ words # {}
    BY <1>2
  <2> QED BY <2>1, MinIn
<1>5. m \in gap..Len(l) /\ (m < Len(l) => At(l, m) # Space)
  BY <1>0, <1>2, <1>4
<1>6. \A k \in gap..(Len(l) - 1) : At(l, k) # Space => m <= k
  BY <1>4
<1> HIDE DEF m
<1>7. m \in S
  <2>1. CASE m = Len(l)
    BY <2>1
  <2>2. CASE m < Len(l)
    <3>1. m > gap /\ m \in 1..(Len(l) - 1) /\ m > p
      BY <1>0, <1>2, <1>5, <2>2
    <3>2. m - 1 \in gap..(Len(l) - 1) /\ ~(m <= m - 1)
      BY <1>0, <1>2, <3>1
    <3>3. At(l, m - 1) = Space /\ At(l, m) # Space
      BY <1>5, <1>6, <2>2, <3>2
    <3> QED BY <3>1, <3>3 DEF Starts
  <2> QED BY <1>0, <1>2, <1>5, <2>1, <2>2
<1>8. ASSUME NEW k \in S PROVE m <= k
  <2>1. CASE k = Len(l)
    BY <1>0, <1>2, <1>5, <2>1
  <2>2. CASE k # Len(l)
    <3>1. /\ k \in 0..(Len(l) - 1) /\ k > p
          /\ At(l, k) # Space /\ At(l, k - 1) = Space
      BY <1>0, <2>2 DEF Starts
    <3>2. k - 1 \in p..(Len(l) - 1)
      BY <1>0, <3>1
    <3>3. gap <= k - 1
      BY <1>3, <3>1, <3>2
    <3>4. k \in gap..(Len(l) - 1)
      BY <1>0, <1>2, <3>1, <3>3
    <3> QED BY <1>6, <3>1, <3>4
  <2> QED BY <2>1, <2>2
<1>9. Min(S) = m
  <2>1. S \in SUBSET Nat
    BY <1>0 DEF Starts
  <2> HIDE DEF S
  <2> QED BY <1>7, <1>8, <2>1, MinIs
<1>10. CountToRightWord(l, p) = m - p
  BY DEF CountToRightWord, gap, m
<1>11. p + CountToRightWord(l, p) = m
  BY <1>0, <1>2, <1>5, <1>10
<1> QED BY <1>9, <1>11

-----------------------------------------------------------------------------
(* The line and the cursor *)

LEMMA Parts ==
  ASSUME NEW l \in Seq(Rune), NEW i \in 0..Len(l), NEW j \in 0..Len(l)
  PROVE  /\ SubSeq(l, 1, i) \in Seq(Rune) /\ Len(SubSeq(l, 1, i)) = i
         /\ SubSeq(l, j + 1, Len(l)) \in Seq(Rune)
         /\ Len(SubSeq(l, j + 1, Len(l))) = Len(l) - j
<1>1. \A k \in 1..Len(l) : l[k] \in Rune
  OBVIOUS
<1>2. \A k \in 1..i : l[k] \in Rune
  BY <1>1
<1>3. \A k \in (j + 1)..Len(l) : l[k] \in Rune
  BY <1>1
<1> QED BY <1>2, <1>3, SubSeqProperties

LEMMA InsertedType ==
  ASSUME LineType, NEW r \in Rune, Insert(r)
  PROVE  line' \in Seq(Rune) /\ pos' \in 0..Len(line')
<1> DEFINE before == SubSeq(line, 1, pos)
           after == SubSeq(line, pos + 1, Len(line))
<1>1. /\ before \in Seq(Rune) /\ Len(before) = pos
      /\ after \in Seq(Rune) /\ Len(after) \in Nat
  BY Parts DEF LineType
<1>2. line' = before \o <<r>> \o after /\ pos' = pos + 1 /\ pos \in Nat
  BY DEF Insert, LineType
<1> HIDE DEF before, after
<1>3. <<r>> \in Seq(Rune) /\ Len(<<r>>) = 1
  OBVIOUS
<1>4. before \o <<r>> \in Seq(Rune) /\ Len(before \o <<r>>) = pos + 1
  BY <1>1, <1>3, ConcatProperties
<1> DEFINE before2 == before \o <<r>>
<1>5. line' = before2 \o after
  BY <1>2
<1> HIDE DEF before2
<1>6. line' \in Seq(Rune) /\ Len(line') = pos + 1 + Len(after)
  <2>1. before2 \in Seq(Rune) /\ Len(before2) = pos + 1
    BY <1>4 DEF before2
  <2> QED BY <1>1, <1>5, <2>1, ConcatProperties
<1> QED BY <1>1, <1>2, <1>6

LEMMA ErasedType ==
  ASSUME LineType, NEW p \in 0..Len(line), NEW n \in Nat, Erase(p, n)
  PROVE  line' \in Seq(Rune) /\ pos' \in 0..Len(line')
<1> DEFINE k == IF p < n THEN p ELSE n
<1>1. p - k \in 0..Len(line)
  BY DEF LineType
<1>2. /\ line' = SubSeq(line, 1, p - k) \o SubSeq(line, p + 1, Len(line))
      /\ pos' = p - k
  BY DEF Erase
<1> HIDE DEF k
<1>3. /\ SubSeq(line, 1, p - k) \in Seq(Rune) /\ Len(SubSeq(line, 1, p - k)) = p - k
      /\ SubSeq(line, p + 1, Len(line)) \in Seq(Rune)
  BY <1>1, Parts DEF LineType
<1> QED BY <1>1, <1>2, <1>3, ConcatProperties

-----------------------------------------------------------------------------
(* The ring *)

LEMMA EntryType ==
  ASSUME EditorAssumption, HistoryType, NEW n \in 0..(size - 1)
  PROVE  NthPreviousEntry(n) \in Seq(Rune)
BY DEF EditorAssumption, HistoryType, NthPreviousEntry

\* An addition makes every entry one older, drops the one that was Depth old, and
\* never reaches the slot of another one that still counts.
LEMMA AddShifts ==
  ASSUME EditorAssumption, HistoryType, NEW e \in Seq(Rune), Add(e)
  PROVE  /\ entries' \in [0..(Depth - 1) -> Seq(Rune)]
         /\ head' \in 0..(Depth - 1)
         /\ size' \in 1..Depth /\ size' = IF size < Depth THEN size + 1 ELSE Depth
         /\ \A n \in 0..(size' - 1) :
              NthPreviousEntry(n)' = IF n = 0 THEN e ELSE NthPreviousEntry(n - 1)
<1>1. head' = IF head + 1 = Depth THEN 0 ELSE head + 1
  BY NextSlot DEF Add, EditorAssumption, HistoryType
<1>2. size' \in 1..Depth /\ size' = IF size < Depth THEN size + 1 ELSE Depth
  BY DEF Add, EditorAssumption, HistoryType
<1>3. entries' = [entries EXCEPT ![head'] = e]
  BY DEF Add
<1>4. head' \in 0..(Depth - 1)
  BY <1>1 DEF EditorAssumption, HistoryType
<1>5. ASSUME NEW n \in 0..(size' - 1)
      PROVE  NthPreviousEntry(n)' = IF n = 0 THEN e ELSE NthPreviousEntry(n - 1)
  <2>0. n \in 0..(Depth - 1) /\ Depth \in Nat /\ head' \in Int
    BY <1>2, <1>4 DEF EditorAssumption, HistoryType
  <2>1. CASE n = 0
    <3>0. head' \in Nat
      BY <1>4, <2>0
    <3>1. head' - 0 = head' /\ ~(head' < 0)
      BY ONLY <3>0, SlotItself
    <3>2. NthPreviousEntry(0)' = entries'[head']
      BY <3>1 DEF NthPreviousEntry
    <3>3. NthPreviousEntry(n)' = entries'[head']
      BY <2>1, <3>2, Zenon
    <3> QED BY <1>3, <1>4, <2>1, <3>3 DEF HistoryType
  <2>2. CASE n # 0
    <3> DEFINE new == IF head' - n < 0 THEN head' - n + Depth ELSE head' - n
    <3>1. new \in 0..(Depth - 1) /\ new # head'
      <4>1. n \in 1..(Depth - 1) /\ Depth \in Nat \ {0}
        BY <2>0, <2>2 DEF EditorAssumption
      <4> QED BY <1>4, <4>1, SlotBehind
    <3>2. new = IF head - (n - 1) < 0 THEN head - (n - 1) + Depth ELSE head - (n - 1)
      BY <1>1, <1>2, <2>2 DEF EditorAssumption, HistoryType
    <3>3. NthPreviousEntry(n)' = entries[new]
      BY <1>3, <3>1 DEF NthPreviousEntry, HistoryType
    <3> QED BY <2>2, <3>2, <3>3 DEF NthPreviousEntry
  <2> QED BY <2>1, <2>2
<1>6. entries' \in [0..(Depth - 1) -> Seq(Rune)]
  BY <1>3, <1>4 DEF HistoryType
<1> QED BY <1>2, <1>4, <1>5, <1>6

-----------------------------------------------------------------------------
(* Every step *)

\* The keys that change the line, one lemma for the positions and texts they use.
LEMMA EraseKeys ==
  ASSUME LineType, EraseKey
  PROVE  /\ line' \in Seq(Rune) /\ pos' \in 0..Len(line')
         /\ UNCHANGED <<reading, histVars>>
<1>1. CASE Backspace
  BY <1>1, ErasedType DEF Backspace, Erase, LineType
<1>2. CASE DeleteWord
  <2>1. CountToLeftWord(line, pos) \in Nat
    BY LeftCount DEF LineType
  <2> QED BY <1>2, <2>1, ErasedType DEF DeleteWord, Erase, LineType
<1>3. CASE DeleteLine
  BY <1>3, Parts DEF DeleteLine, LineType
<1>4. CASE CtrlU
  BY <1>4, ErasedType DEF CtrlU, Erase, LineType
<1>5. CASE CtrlD
  <2>1. pos + 1 \in 0..Len(line)
    BY <1>5 DEF CtrlD, LineType
  <2> QED BY <1>5, <2>1, ErasedType DEF CtrlD, Erase, LineType
<1> QED BY <1>1, <1>2, <1>3, <1>4, <1>5 DEF EraseKey

LEMMA CursorKeys ==
  ASSUME LineType, CursorKey
  PROVE  UNCHANGED <<reading, line, exact, histVars>> /\ pos' \in 0..Len(line)
<1>1. CASE Left \/ Right \/ Home \/ End
  BY <1>1 DEF Left, Right, Home, End, Go, LineType
<1>2. CASE AltLeft
  <2>1. pos - CountToLeftWord(line, pos) \in 0..Len(line)
    BY LeftCount DEF LineType
  <2> QED BY <1>2, <2>1 DEF AltLeft, Go
<1>3. CASE AltRight
  <2>1. pos + CountToRightWord(line, pos) \in 0..Len(line)
    BY RightCount DEF LineType
  <2> QED BY <1>3, <2>1 DEF AltRight, Go
<1> QED BY <1>1, <1>2, <1>3 DEF CursorKey

LEMMA NextTypes ==
  ASSUME EditorAssumption, LineType, HistoryType, [Next]_vars
  PROVE  LineType' /\ HistoryType'
<1>1. CASE StartLine \/ PanelClears \/ ClearScreen \/ (\E w \in Widths : Widen(w) \/ Narrow(w))
  BY <1>1 DEF StartLine, PanelClears, ClearScreen, Widen, Narrow, LineType, HistoryType, histVars
<1>2. ASSUME NEW r \in Rune, Typed(r) \/ Pasted(r) PROVE LineType' /\ HistoryType'
  <2>1. Insert(r) /\ UNCHANGED <<reading, histVars>>
    BY <1>2 DEF Typed, Pasted, Insert
  <2>2. line' \in Seq(Rune) /\ pos' \in 0..Len(line')
    BY <2>1, InsertedType
  <2> QED BY <2>1, <2>2 DEF LineType, HistoryType, histVars
<1>3. CASE CursorKey
  BY <1>3, CursorKeys DEF LineType, HistoryType, histVars
<1>4. CASE EraseKey
  BY <1>4, EraseKeys DEF LineType, HistoryType, histVars
<1>5. CASE Up
  <2>1. historyIndex + 1 \in 0..(size - 1)
    BY <1>5 DEF Up, HasEntry, HistoryType, EditorAssumption
  <2>2. NthPreviousEntry(historyIndex + 1) \in Seq(Rune)
    BY <2>1, EntryType
  <2>3. line' \in Seq(Rune) /\ pos' = Len(line') /\ reading' = reading
    BY <1>5, <2>2 DEF Up, SetLine
  <2>4. LineType'
    BY <2>3 DEF LineType
  <2>5. HistoryType'
    BY <1>5, <2>1 DEF Up, SetLine, HistoryType, LineType
  <2> QED BY <2>4, <2>5
<1>6. CASE Down
  <2>1. historyIndex \in 0..(size - 1)
    BY <1>6 DEF Down, HistoryType, EditorAssumption
  <2>2. historyIndex # 0 => NthPreviousEntry(historyIndex - 1) \in Seq(Rune)
    BY <2>1, EntryType DEF HistoryType, EditorAssumption
  <2>3. line' \in Seq(Rune) /\ pos' = Len(line') /\ reading' = reading
    BY <1>6, <2>2 DEF Down, SetLine, HistoryType
  <2>4. LineType'
    BY <2>3 DEF LineType
  <2>5. HistoryType'
    BY <1>6, <2>1 DEF Down, SetLine, HistoryType, EditorAssumption
  <2> QED BY <2>4, <2>5
<1>7. ASSUME NEW e \in {line, <<>>}, Submit(e) PROVE LineType' /\ HistoryType'
  <2>1. e \in Seq(Rune) /\ Add(e)
    BY <1>7, EmptySeq DEF LineType, Submit
  <2>2. LineType'
    <3>1. line' = <<>> /\ pos' = 0 /\ reading' = FALSE
      BY <1>7 DEF Submit
    <3>2. <<>> \in Seq(Rune) /\ 0 \in 0..Len(<<>>)
      BY EmptySeq
    <3>3. line' \in Seq(Rune) /\ pos' \in 0..Len(line')
      BY ONLY <3>1, <3>2, Zenon
    <3> QED BY <3>1, <3>3 DEF LineType
  <2>3. HistoryType'
    BY <1>7, <2>1, AddShifts DEF Submit, HistoryType, EditorAssumption
  <2> QED BY <2>2, <2>3
<1>8. CASE UNCHANGED vars
  BY <1>8 DEF vars, histVars, LineType, HistoryType
<1> QED BY <1>1, <1>2, <1>3, <1>4, <1>5, <1>6, <1>7, <1>8 DEF Next, Enter, CtrlC

\* Whatever keys are pressed, for any prompt, window and depth of the history: the
\* cursor is in the line, the ring and the walk through it are in their bounds.
THEOREM CursorInLine == Spec => [](LineType /\ HistoryType)
<1>1. Init => LineType /\ HistoryType
  <2> SUFFICES ASSUME Init PROVE LineType /\ HistoryType
    OBVIOUS
  <2>1. <<>> \in Seq(Rune) /\ Len(<<>>) = 0
    BY EmptySeq
  <2>2. LineType
    <3>1. 0 \in 0..Len(<<>>)
      BY <2>1
    <3> QED BY <2>1, <3>1, Zenon DEF Init, LineType
  <2>3. HistoryType
    BY <2>1, EditorAssumption DEF Init, HistoryType, EditorAssumption
  <2> QED BY <2>2, <2>3
<1>2. LineType /\ HistoryType /\ [Next]_vars => (LineType /\ HistoryType)'
  BY EditorAssumption, NextTypes
<1> QED BY <1>1, <1>2, PTL DEF Spec

\* For lines of every length and every alphabet, the word keys find the words.
THEOREM WordKeys == Spec => []WordsFound
<1>1. LineType => WordsFound
  <2> SUFFICES ASSUME LineType PROVE WordsFound
    OBVIOUS
  <2>1. line \in Seq(Rune) /\ pos \in 0..Len(line)
    BY DEF LineType
  <2> QED BY <2>1, LeftWord, RightWord DEF WordsFound, Starts
<1> QED BY <1>1, CursorInLine, PTL

-----------------------------------------------------------------------------
(* Refinement *)

LEMMA PastType ==
  ASSUME EditorAssumption, HistoryType
  PROVE  /\ Len(Past) = size
         /\ \A i \in 1..size : Past[i] = NthPreviousEntry(i - 1)
<1>1. size \in Nat
  BY DEF HistoryType, EditorAssumption
<1>2. Past \in [1..size -> Seq(Rune)]
  <2>1. ASSUME NEW i \in 1..size PROVE NthPreviousEntry(i - 1) \in Seq(Rune)
    BY <1>1, EntryType
  <2> QED BY <2>1 DEF Past
<1>3. Past \in Seq(Seq(Rune)) /\ DOMAIN Past = 1..size
  BY <1>1, <1>2
<1> QED BY <1>1, <1>3 DEF Past

LEMMA PastKept ==
  ASSUME UNCHANGED <<entries, head, size>>
  PROVE  Past' = Past
BY DEF Past, NthPreviousEntry

LEMMA PastShifts ==
  ASSUME EditorAssumption, HistoryType, NEW e \in Seq(Rune), Add(e)
  PROVE  Past' = [i \in 1..(IF Len(Past) < Depth THEN Len(Past) + 1 ELSE Depth) |->
                    IF i = 1 THEN e ELSE Past[i - 1]]
<1>1. size \in Nat /\ Depth \in Nat \ {0} /\ size <= Depth
  BY DEF HistoryType, EditorAssumption
<1>2. size' = IF Len(Past) < Depth THEN Len(Past) + 1 ELSE Depth
  BY AddShifts, PastType
<1>3. ASSUME NEW i \in 1..size'
      PROVE  NthPreviousEntry(i - 1)' = IF i = 1 THEN e ELSE Past[i - 1]
  <2>1. size' \in Nat /\ size' <= size + 1 /\ i - 1 \in 0..(size' - 1)
    BY <1>1, AddShifts
  <2>2. NthPreviousEntry(i - 1)' = IF i - 1 = 0 THEN e ELSE NthPreviousEntry(i - 1 - 1)
    BY <2>1, AddShifts
  <2>3. CASE i = 1
    BY <2>2, <2>3
  <2>4. CASE i # 1
    <3>1. i - 1 \in 1..size /\ i - 1 # 0
      BY <1>1, <2>1, <2>4
    <3> QED BY <2>2, <2>4, <3>1, PastType
  <2> QED BY <2>3, <2>4
<1>4. Past' = [i \in 1..size' |-> NthPreviousEntry(i - 1)']
  BY DEF Past
<1>5. Past' = [i \in 1..size' |-> IF i = 1 THEN e ELSE Past[i - 1]]
  BY <1>3, <1>4
<1> QED BY <1>2, <1>5

LEMMA RecallStep ==
  ASSUME EditorAssumption, LineType, HistoryType, [Next]_vars
  PROVE  [RC!Next]_(RC!vars)
<1> USE DEF RC!Next, RC!vars
<1>1. CASE StartLine \/ PanelClears \/ ClearScreen \/ (\E w \in Widths : Widen(w) \/ Narrow(w))
  BY <1>1, PastKept DEF StartLine, PanelClears, ClearScreen, Widen, Narrow, histVars
<1>2. ASSUME NEW r \in Rune, Typed(r) \/ Pasted(r) PROVE RC!Next
  BY <1>2, PastKept DEF Typed, Pasted, Insert, histVars, RC!Edit
<1>3. CASE CursorKey
  BY <1>3, PastKept, CursorKeys DEF histVars
<1>4. CASE EraseKey
  BY <1>4, PastKept, EraseKeys DEF histVars, RC!Edit
<1>5. CASE Up
  <2>1. Past' = Past /\ Len(Past) = size
    BY <1>5, PastKept, PastType DEF Up
  <2>2. historyIndex + 1 \in 0..(size - 1)
    BY <1>5 DEF Up, HasEntry, HistoryType, EditorAssumption
  <2>3. Past[historyIndex + 1 + 1] = NthPreviousEntry(historyIndex + 1)
    <3>1. PICK k \in 1..size : k = historyIndex + 1 + 1 /\ k - 1 = historyIndex + 1
      BY <2>2 DEF HistoryType, EditorAssumption
    <3>2. Past[k] = NthPreviousEntry(k - 1)
      BY PastType
    <3> QED BY <3>1, <3>2, Zenon
  <2>4. RC!Older
    BY <1>5, <2>1, <2>2, <2>3 DEF Up, SetLine, RC!Older, HistoryType, EditorAssumption
  <2> QED BY <2>4
<1>6. CASE Down
  <2>1. Past' = Past
    BY <1>6, PastKept DEF Down
  <2>2. historyIndex \in 0..(size - 1)
    BY <1>6 DEF Down, HistoryType, EditorAssumption
  <2>3. historyIndex # 0 => Past[historyIndex] = NthPreviousEntry(historyIndex - 1)
    BY <2>2, PastType DEF HistoryType, EditorAssumption
  <2>4. RC!Newer
    BY <1>6, <2>1, <2>2, <2>3 DEF Down, SetLine, RC!Newer
  <2> QED BY <2>4
<1>7. ASSUME NEW e \in {line, <<>>}, Submit(e) PROVE RC!Next
  <2>1. e \in Seq(Rune) /\ Add(e)
    BY <1>7, EmptySeq DEF LineType, Submit
  <2>2. Past' = [i \in 1..(IF Len(Past) < Depth THEN Len(Past) + 1 ELSE Depth) |->
                    IF i = 1 THEN e ELSE Past[i - 1]]
    BY <2>1, PastShifts
  <2>3. RC!Submit
    BY <1>7, <2>2 DEF Submit, RC!Submit
  <2> QED BY <2>3
<1>8. CASE UNCHANGED vars
  BY <1>8, PastKept DEF vars, histVars
<1> QED BY <1>1, <1>2, <1>3, <1>4, <1>5, <1>6, <1>7, <1>8 DEF Next, Enter, CtrlC

\* For any depth of the history, stRingBuffer and the walk of the up and down keys
\* through it do what a plain list of the last Depth lines would.
THEOREM ImplementsRecall == Spec => RecallImplemented
<1>1. Init => RC!Init
  <2> SUFFICES ASSUME Init PROVE RC!Init
    OBVIOUS
  <2>1. Past = <<>>
    BY DEF Init, Past
  <2> QED BY <2>1 DEF Init, RC!Init
<1>2. LineType /\ HistoryType /\ [Next]_vars => [RC!Next]_(RC!vars)
  BY EditorAssumption, RecallStep
<1> QED BY <1>1, <1>2, CursorInLine, PTL DEF Spec, RecallImplemented, RC!Spec

-----------------------------------------------------------------------------
(* Edits *)

LEMMA Halves ==
  ASSUME NEW b \in Seq(Rune), NEW c \in Seq(Rune)
  PROVE  /\ SubSeq(b \o c, 1, Len(b)) = b
         /\ SubSeq(b \o c, Len(b) + 1, Len(b \o c)) = c
<1>1. /\ b \o c \in Seq(Rune) /\ Len(b \o c) = Len(b) + Len(c)
      /\ Len(b) \in Nat /\ Len(c) \in Nat
      /\ \A i \in 1..(Len(b) + Len(c)) :
           (b \o c)[i] = IF i <= Len(b) THEN b[i] ELSE c[i - Len(b)]
  BY ConcatProperties, LenProperties
<1>2. /\ SubSeq(b \o c, 1, Len(b)) \in Seq(Rune)
      /\ Len(SubSeq(b \o c, 1, Len(b))) = Len(b)
      /\ \A i \in 1..Len(b) : SubSeq(b \o c, 1, Len(b))[i] = b[i]
  <2>1. \A i \in 1..Len(b) : (b \o c)[i] \in Rune /\ (b \o c)[i] = b[i]
    BY <1>1, ElementOfSeq
  <2> QED BY <1>1, <2>1, SubSeqProperties
<1>3. /\ SubSeq(b \o c, Len(b) + 1, Len(b \o c)) \in Seq(Rune)
      /\ Len(SubSeq(b \o c, Len(b) + 1, Len(b \o c))) = Len(c)
      /\ \A i \in 1..Len(c) : SubSeq(b \o c, Len(b) + 1, Len(b \o c))[i] = c[i]
  <2>1. \A i \in (Len(b) + 1)..(Len(b) + Len(c)) : (b \o c)[i] \in Rune
    BY <1>1, ElementOfSeq
  <2>2. \A i \in 1..Len(c) : (b \o c)[Len(b) + 1 + i - 1] = c[i]
    BY <1>1
  <2> QED BY <1>1, <2>1, <2>2, SubSeqProperties
<1> QED BY <1>2, <1>3, SeqEqual

LEMMA InsertLocal ==
  ASSUME LineType, NEW r \in Rune, Insert(r)
  PROVE  /\ SubSeq(line', 1, pos') = Append(SubSeq(line, 1, pos), r)
         /\ SubSeq(line', pos' + 1, Len(line')) = SubSeq(line, pos + 1, Len(line))
<1> DEFINE before == SubSeq(line, 1, pos)
           after == SubSeq(line, pos + 1, Len(line))
           longer == Append(before, r)
<1>1. before \in Seq(Rune) /\ Len(before) = pos /\ after \in Seq(Rune)
  BY Parts DEF LineType
<1>2. line' = before \o <<r>> \o after /\ pos' = pos + 1
  BY DEF Insert
<1> HIDE DEF before, after
<1>3. longer \in Seq(Rune) /\ Len(longer) = pos + 1 /\ longer = before \o <<r>>
  BY <1>1, AppendProperties, AppendIsConcat
<1>4. line' = longer \o after /\ pos' = Len(longer)
  BY <1>2, <1>3
<1> HIDE DEF longer
<1>5. SubSeq(line', 1, pos') = longer /\ SubSeq(line', pos' + 1, Len(line')) = after
  BY <1>1, <1>3, <1>4, Halves
<1> QED BY <1>5 DEF before, after, longer

LEMMA EraseLocal ==
  ASSUME LineType, NEW p \in 0..Len(line), NEW n \in Nat, Erase(p, n)
  PROVE  /\ pos' = p - (IF p < n THEN p ELSE n) /\ pos' \in 0..p
         /\ SubSeq(line', 1, pos') = SubSeq(line, 1, pos')
         /\ SubSeq(line', pos' + 1, Len(line')) = SubSeq(line, p + 1, Len(line))
<1>1. pos' = p - (IF p < n THEN p ELSE n) /\ pos' \in 0..p /\ pos' \in 0..Len(line)
  BY DEF Erase, LineType
<1>2. line' = SubSeq(line, 1, pos') \o SubSeq(line, p + 1, Len(line))
  BY DEF Erase
<1>3. /\ SubSeq(line, 1, pos') \in Seq(Rune) /\ Len(SubSeq(line, 1, pos')) = pos'
      /\ SubSeq(line, p + 1, Len(line)) \in Seq(Rune)
  BY <1>1, Parts DEF LineType
<1> DEFINE b == SubSeq(line, 1, pos')
           c == SubSeq(line, p + 1, Len(line))
<1> HIDE DEF b, c
<1>4. b \in Seq(Rune) /\ Len(b) = pos' /\ c \in Seq(Rune) /\ line' = b \o c
  BY <1>2, <1>3 DEF b, c
<1>5. SubSeq(line', 1, pos') = b /\ SubSeq(line', pos' + 1, Len(line')) = c
  <2>1. SubSeq(b \o c, 1, Len(b)) = b /\ SubSeq(b \o c, Len(b) + 1, Len(b \o c)) = c
    BY <1>4, Halves
  <2> QED BY <1>4, <2>1, Zenon
<1> QED BY <1>1, <1>5 DEF b, c

LEMMA EditStep ==
  ASSUME EditorAssumption, LineType, HistoryType, [Next]_vars
  PROVE  [EditsAtCursor]_vars
<1> SUFFICES ASSUME Next, line' # line, reading', historyIndex' = historyIndex
             PROVE  EditsAtCursor
  BY DEF EditsAtCursor
<1>1. pos \in 0..Len(line) /\ Len(line) \in Nat
  BY DEF LineType
<1>2. ASSUME NEW r \in Rune, Typed(r) \/ Pasted(r) PROVE EditsAtCursor
  BY <1>2, InsertLocal DEF Typed, Pasted, EditsAtCursor
<1>3. ASSUME NEW n \in Nat, Erase(pos, n) PROVE EditsAtCursor
  <2>1. pos' \in 0..pos
    BY <1>1, <1>3, EraseLocal
  <2> QED BY <1>1, <1>3, <2>1, EraseLocal DEF EditsAtCursor
<1>4. CASE CtrlD
  <2>1. pos + 1 \in 0..Len(line) /\ Erase(pos + 1, 1)
    BY <1>1, <1>4 DEF CtrlD
  <2>2. pos' = pos
    BY <1>1, <2>1, EraseLocal
  <2>3. SubSeq(line', pos' + 1, Len(line')) = SubSeq(line, pos + 1 + 1, Len(line))
    BY <2>1, EraseLocal
  <2>4. SubSeq(line', 1, pos') = SubSeq(line, 1, pos)
    BY <2>1, <2>2, EraseLocal
  <2>5. pos + 1 \in pos..Len(line)
    BY <1>1, <2>1
  <2> QED BY <2>3, <2>4, <2>5 DEF EditsAtCursor
<1>5. CASE DeleteLine
  <2>1. line' = SubSeq(line, 1, pos) /\ pos' = pos
    BY <1>5 DEF DeleteLine
  <2>2. SubSeq(line, 1, pos) \in Seq(Rune) /\ Len(SubSeq(line, 1, pos)) = pos
    BY Parts DEF LineType
  <2>3. SubSeq(line', 1, pos') = SubSeq(line, 1, pos)
    BY <2>1, <2>2, SubSeqFull
  <2>4. SubSeq(line', pos' + 1, Len(line')) = <<>>
    BY <1>1, <2>1, <2>2, SubSeqEmpty
  <2>5. SubSeq(line, Len(line) + 1, Len(line)) = <<>> /\ Len(line) \in pos..Len(line)
    BY <1>1, SubSeqEmpty
  <2> QED BY <2>3, <2>4, <2>5 DEF EditsAtCursor
<1>6. CASE EraseKey
  <2>1. CountToLeftWord(line, pos) \in Nat
    BY LeftCount DEF LineType
  <2> QED BY <1>1, <1>3, <1>4, <1>5, <1>6, <2>1 DEF EraseKey, Backspace, DeleteWord, CtrlU
<1>7. ~(CursorKey \/ StartLine \/ PanelClears \/ ClearScreen)
  BY CursorKeys DEF StartLine, PanelClears, ClearScreen
<1>8. ~(\E w \in Widths : Widen(w) \/ Narrow(w))
  BY DEF Widen, Narrow
<1>9. ~(Enter \/ CtrlC)
  BY DEF Enter, CtrlC, Submit
<1>10. ~(Up \/ Down)
  <2>1. historyIndex \in Int /\ historyIndex + 1 # historyIndex /\ historyIndex - 1 # historyIndex
    BY DEF HistoryType, EditorAssumption
  <2> QED BY <2>1 DEF Up, Down
<1> QED BY <1>2, <1>6, <1>7, <1>8, <1>9, <1>10 DEF Next

\* An edit adds one character or takes some away at the cursor, and leaves the other
\* side of the line as it was.
THEOREM EditsAreLocal == Spec => EditsLocal
<1>1. LineType /\ HistoryType /\ [Next]_vars => [EditsAtCursor]_vars
  BY EditorAssumption, EditStep
<1> QED BY <1>1, CursorInLine, PTL DEF Spec, EditsLocal

-----------------------------------------------------------------------------
(* Pictures of the screen *)

Glyph == Rune \cup {Mark}

\* A terminal with its screen: both cursors are in the window.
Screen ==
  {t \in [cursorX : Nat, cursorY : Nat, maxLine : Nat, termWidth : Widths,
          x : Nat, y : 0..Rows, wrap : BOOLEAN, cell : [Place -> Glyph]] :
     t.cursorX < t.termWidth /\ t.x < t.termWidth}

\* Characters are counted from the prompt's first, row by row.  The terminal believes
\* that the cursor is at character n, in a row it knows of.
Stands(t, n) ==
  /\ t.cursorX = n % t.termWidth /\ t.cursorY = n \div t.termWidth
  /\ t.cursorY <= t.maxLine

\* The next character the screen gets is drawn at n.
Pen(t, n) ==
  IF t.wrap THEN t.x = t.termWidth - 1 /\ n % t.termWidth = 0 /\ n \div t.termWidth = t.y + 1
            ELSE t.x = n % t.termWidth /\ t.y = n \div t.termWidth

\* What the screen has at every place.
Picture == [Nat -> Glyph]
Text(s) == [k \in Nat |-> IF k < Len(s) THEN s[k + 1] ELSE Space]
Over(f, n, s) == [k \in Nat |-> IF n <= k /\ k < n + Len(s) THEN s[k - n + 1] ELSE f[k]]

\* Every place of the window has its character of f.
Shows(t, f) ==
  \A q \in Place :
    t.cell[q] = IF q[2] < t.termWidth THEN f[q[1] * t.termWidth + q[2]] ELSE Space

\* The screen shows f and its cursor is at n.
Sees(t, n, f) == ~t.wrap /\ Pen(t, n) /\ Shows(t, f)

\* The character the cursor is at, and the one after the last.
Here == IF reading THEN Len(Prompt) + pos ELSE 0
There == IF reading THEN Len(Prompt) + Len(line) ELSE 0

\* The terminal's picture of the screen is right, and so is the screen.
Painted ==
  /\ term \in Screen /\ exact \in BOOLEAN
  /\ Stands(term, Here) /\ There \div term.termWidth <= term.maxLine
  /\ ~reading => line = <<>> /\ pos = 0 /\ term.x = 0
  /\ exact => Sees(term, Here, Text(IF reading THEN Prompt \o line ELSE <<>>))

\* Lines fit on the screen, the remembered ones too.
Bounded ==
  /\ Len(line) <= MaxPasted /\ Len(historyPending) <= MaxPasted
  /\ \A i \in DOMAIN entries : Len(entries[i]) <= MaxPasted
-----------------------------------------------------------------------------
(* Rows and columns *)

\* Division with rest, as the provers need it spelled out.
LEMMA Division ==
  ASSUME NEW n \in Nat, NEW w \in Nat \ {0}
  PROVE  n \div w \in Nat /\ n % w \in 0..(w - 1) /\ n = (n \div w) * w + (n % w)
OBVIOUS

\* Quotient and rest are determined.
LEMMA DivisionIs ==
  ASSUME NEW a \in Nat, NEW w \in Nat \ {0}, NEW b \in 0..(w - 1)
  PROVE  (a * w + b) \div w = a /\ (a * w + b) % w = b
OBVIOUS

\* A later character is in no earlier row.
LEMMA RowsGrow ==
  ASSUME NEW n \in Nat, NEW m \in Nat, n <= m, NEW w \in Nat \ {0}
  PROVE  n \div w <= m \div w
OBVIOUS

\* The next character is in the next column, or starts a row.
LEMMA NextPlace ==
  ASSUME NEW n \in Nat, NEW w \in Nat \ {0}
  PROVE  /\ (n + 1) % w = IF n % w = w - 1 THEN 0 ELSE (n % w) + 1
         /\ (n + 1) \div w = IF n % w = w - 1 THEN (n \div w) + 1 ELSE n \div w
OBVIOUS

\* k characters on from character n (advanceCursor counts from its column).
LEMMA FurtherPlace ==
  ASSUME NEW n \in Nat, NEW k \in Nat, NEW w \in Nat \ {0}
  PROVE  /\ ((n % w) + k) % w = (n + k) % w
         /\ (n \div w) + (((n % w) + k) \div w) = (n + k) \div w
<1> DEFINE a == n \div w
           b == n % w
           c == (b + k) \div w
           d == (b + k) % w
<1>1. a \in Nat /\ b \in 0..(w - 1) /\ n = a * w + b
  BY Division
<1>2. b + k \in Nat
  BY <1>1
<1>3. c \in Nat /\ d \in 0..(w - 1) /\ b + k = c * w + d
  BY <1>2, Division
<1> HIDE DEF a, b, c, d
<1>4. n + k = (a + c) * w + d
  <2>1. (a + c) * w = a * w + c * w
    BY <1>1, <1>3
  <2>2. a * w \in Nat /\ c * w \in Nat
    BY <1>1, <1>3
  <2> DEFINE x == a * w
             y == c * w
  <2>3. n = x + b /\ b + k = y + d /\ x \in Nat /\ y \in Nat
    BY <1>1, <1>3, <2>2
  <2> HIDE DEF x, y
  <2>4. n + k = (x + y) + d
    BY <1>1, <1>3, <2>3
  <2> QED BY <2>1, <2>4 DEF x, y
<1>5. (n + k) \div w = a + c /\ (n + k) % w = d
  <2>1. a + c \in Nat
    BY <1>1, <1>3
  <2> QED BY <1>3, <1>4, <2>1, DivisionIs
<1> QED BY <1>5 DEF a, b, c, d

\* Every place of the window is one character.
LEMMA OnePlace ==
  ASSUME NEW n \in Nat, NEW a \in Nat, NEW w \in Nat \ {0}, NEW b \in 0..(w - 1)
  PROVE  /\ a * w + b \in Nat
         /\ a * w + b = n <=> a = n \div w /\ b = n % w
<1>1. a * w + b \in Nat
  OBVIOUS
<1>2. a * w + b = n => a = n \div w /\ b = n % w
  BY DivisionIs
<1>3. a = n \div w /\ b = n % w => a * w + b = n
  BY Division
<1> QED BY <1>1, <1>2, <1>3

-----------------------------------------------------------------------------
(* What the screen does *)

\* The widest window decides on the columns that are modelled.
LEMMA WindowType ==
  ASSUME NEW t \in Screen
  PROVE  /\ t.termWidth \in Widths /\ t.termWidth \in Nat \ {0}
         /\ Rows \in Nat /\ 0..(t.termWidth - 1) \subseteq Columns
<1>1. t.termWidth \in Widths /\ Widths \subseteq Nat \ {0} /\ Rows \in Nat
  BY EditorAssumption DEF EditorAssumption, Screen
<1>2. PICK m \in Widths : \A w \in Widths : w <= m
  BY EditorAssumption DEF EditorAssumption
<1>3. Max(Widths) = m
  <2>1. m \in Nat /\ Widths \in SUBSET (0..m)
    BY <1>1, <1>2
  <2> QED BY <1>2, <2>1, MaxIs
<1>4. Columns = 0..(m - 1)
  BY <1>3 DEF Columns
<1> DEFINE w == t.termWidth
<1>5. w \in Nat \ {0} /\ m \in Nat \ {0} /\ w <= m
  BY <1>1, <1>2
<1> HIDE DEF w
<1>6. 0..(w - 1) \subseteq 0..(m - 1)
  BY <1>5
<1> QED BY <1>1, <1>4, <1>6 DEF w

\* The fields of a terminal.
LEMMA ScreenIs ==
  ASSUME NEW t \in Screen
  PROVE  /\ t.cursorX \in 0..(t.termWidth - 1) /\ t.cursorY \in Nat /\ t.maxLine \in Nat
         /\ t.x \in 0..(t.termWidth - 1) /\ t.y \in 0..Rows /\ t.wrap \in BOOLEAN
         /\ t.cell \in [Place -> Glyph]
BY WindowType DEF Screen

\* "\r\n".
LEMMA NewRowDoes ==
  ASSUME NEW t \in Screen
  PROVE  /\ NewRow(t) \in Screen
         /\ NewRow(t).x = 0 /\ NewRow(t).y = Clamp(t.y + 1, Rows) /\ ~NewRow(t).wrap
         /\ NewRow(t).cell = t.cell /\ NewRow(t).cursorX = t.cursorX
         /\ NewRow(t).cursorY = t.cursorY /\ NewRow(t).maxLine = t.maxLine
         /\ NewRow(t).termWidth = t.termWidth
<1> DEFINE y == Clamp(t.y + 1, Rows)
<1>1. y \in 0..Rows
  BY WindowType, ScreenIs DEF Clamp
<1> HIDE DEF y
<1>2. NewRow(t) = [t EXCEPT !.x = 0, !.y = y, !.wrap = FALSE]
  BY DEF NewRow, y
<1>3. 0 < t.termWidth /\ 0 \in Nat
  BY WindowType
<1>4. t.cursorX < t.termWidth
  BY DEF Screen
<1>5. NewRow(t) \in [cursorX : Nat, cursorY : Nat, maxLine : Nat, termWidth : Widths,
          x : Nat, y : 0..Rows, wrap : BOOLEAN, cell : [Place -> Glyph]]
  BY <1>1, <1>2, <1>3, Zenon DEF Screen
<1>6. /\ NewRow(t).x = 0 /\ NewRow(t).y = y /\ NewRow(t).wrap = FALSE
         /\ NewRow(t).cell = t.cell /\ NewRow(t).cursorX = t.cursorX
         /\ NewRow(t).cursorY = t.cursorY /\ NewRow(t).maxLine = t.maxLine
         /\ NewRow(t).termWidth = t.termWidth
  BY <1>2, Zenon DEF Screen
<1> QED BY <1>3, <1>4, <1>5, <1>6 DEF y, Screen

\* One character on the screen, field by field.
LEMMA PutDoes ==
  ASSUME NEW t \in Screen, NEW ch \in Glyph
  PROVE  LET q == IF t.wrap THEN <<Clamp(t.y + 1, Rows), 0>> ELSE <<t.y, t.x>>
             full == q[2] = t.termWidth - 1
             u == Put(t, ch)
         IN /\ u \in Screen /\ q \in Place
            /\ u.x = IF full THEN q[2] ELSE q[2] + 1
            /\ u.y = q[1] /\ (u.wrap <=> full)
            /\ u.cell = [t.cell EXCEPT ![q] = ch]
            /\ u.cursorX = t.cursorX /\ u.cursorY = t.cursorY /\ u.maxLine = t.maxLine
            /\ u.termWidth = t.termWidth
<1> DEFINE q == IF t.wrap THEN <<Clamp(t.y + 1, Rows), 0>> ELSE <<t.y, t.x>>
           full == q[2] = t.termWidth - 1
           x == IF full THEN q[2] ELSE q[2] + 1
           y == q[1]
           cell == [t.cell EXCEPT ![q] = ch]
           u == Put(t, ch)
<1>0. /\ t.termWidth \in Nat \ {0} /\ Rows \in Nat /\ t.x \in 0..(t.termWidth - 1)
      /\ t.y \in 0..Rows
  BY WindowType, ScreenIs
<1>1. Clamp(t.y + 1, Rows) \in 0..Rows
  BY <1>0 DEF Clamp
<1>2. q[1] \in 0..Rows /\ q[2] \in 0..(t.termWidth - 1)
  <2>1. CASE t.wrap
    BY <1>0, <1>1, <2>1
  <2>2. CASE ~t.wrap
    BY <1>0, <2>2
  <2> QED BY <2>1, <2>2
<1>3. q \in Place
  <2>1. q = <<q[1], q[2]>>
    OBVIOUS
  <2>2. q[2] \in Columns
    BY <1>2, WindowType
  <2> HIDE DEF q
  <2> QED BY <1>2, <2>1, <2>2 DEF Place
<1>4. u = [t EXCEPT !.cell = [t.cell EXCEPT ![q] = ch], !.y = q[1], !.x = x, !.wrap = full]
  BY DEF Put
<1> HIDE DEF q
<1>5. x \in Nat /\ x < t.termWidth /\ y \in 0..Rows /\ full \in BOOLEAN
  BY <1>0, <1>2
<1>6. cell \in [Place -> Glyph]
  BY <1>3, ScreenIs
<1>7. u = [t EXCEPT !.cell = cell, !.y = y, !.x = x, !.wrap = full]
  BY <1>4
<1> HIDE DEF x, y, cell, full, u
<1>8. u \in [cursorX : Nat, cursorY : Nat, maxLine : Nat, termWidth : Widths,
          x : Nat, y : 0..Rows, wrap : BOOLEAN, cell : [Place -> Glyph]]
  BY <1>5, <1>6, <1>7, Zenon DEF Screen
<1>9. /\ u.x = x /\ u.y = y /\ u.wrap = full /\ u.cell = cell
      /\ u.cursorX = t.cursorX /\ u.cursorY = t.cursorY /\ u.maxLine = t.maxLine
      /\ u.termWidth = t.termWidth
  BY <1>7, Zenon DEF Screen
<1>10. u \in Screen
  <2>1. t.cursorX < t.termWidth
    BY DEF Screen
  <2> QED BY <1>5, <1>8, <1>9, <2>1 DEF Screen
<1> QED BY <1>3, <1>9, <1>10 DEF x, y, cell, full, u, q

\* The cursor's relative moves, field by field.
LEMMA MoveDoes ==
  ASSUME NEW t \in Screen, NEW down \in Int, NEW right \in Int
  PROVE  LET u == Move(t, down, right) IN
         /\ u \in Screen /\ u.cell = t.cell
         /\ u.cursorX = t.cursorX /\ u.cursorY = t.cursorY /\ u.maxLine = t.maxLine
         /\ u.termWidth = t.termWidth
         /\ ~t.wrap => /\ ~u.wrap
                       /\ u.y = Clamp(t.y + down, Rows)
                       /\ u.x = Clamp(t.x + right, t.termWidth - 1)
<1> DEFINE u == Move(t, down, right)
           y == Clamp(t.y + down, Rows)
           x == Clamp(t.x + right, t.termWidth - 1)
<1>0. /\ t.termWidth \in Nat \ {0} /\ Rows \in Nat /\ t.x \in 0..(t.termWidth - 1)
      /\ t.y \in 0..Rows
  BY WindowType, ScreenIs
<1>1. y \in 0..Rows /\ x \in Nat /\ x < t.termWidth
  BY <1>0 DEF Clamp
<1>2. CASE down = 0 /\ right = 0
  <2>1. u = t
    BY <1>2 DEF Move
  <2>2. y = t.y /\ x = t.x
    BY <1>0, <1>2 DEF Clamp
  <2> HIDE DEF x, y, u
  <2>3. u \in Screen
    BY <2>1
  <2> QED BY <2>1, <2>2, <2>3 DEF x, y, u
<1>3. CASE ~(down = 0 /\ right = 0)
  <2>1. u = [t EXCEPT !.y = y, !.x = x, !.wrap = FALSE]
    BY <1>3 DEF Move
  <2> HIDE DEF u, x, y
  <2>2. u \in [cursorX : Nat, cursorY : Nat, maxLine : Nat, termWidth : Widths,
            x : Nat, y : 0..Rows, wrap : BOOLEAN, cell : [Place -> Glyph]]
    BY <1>1, <2>1, Zenon DEF Screen
  <2>3. /\ u.x = x /\ u.y = y /\ u.wrap = FALSE /\ u.cell = t.cell
        /\ u.cursorX = t.cursorX /\ u.cursorY = t.cursorY /\ u.maxLine = t.maxLine
        /\ u.termWidth = t.termWidth
    BY <2>1, Zenon DEF Screen
  <2>4. u \in Screen
    <3>1. t.cursorX < t.termWidth
      BY DEF Screen
    <3> QED BY <1>1, <2>2, <2>3, <3>1 DEF Screen
  <2> QED BY <2>3, <2>4 DEF u, x, y
<1> QED BY <1>2, <1>3

\* A picture with one character changed is a picture.
LEMMA PictureOver ==
  ASSUME NEW f \in Picture, NEW n \in Nat, NEW ch \in Glyph
  PROVE  [f EXCEPT ![n] = ch] \in Picture
BY DEF Picture

\* The screen draws a character where its pen is.
LEMMA PutSees ==
  ASSUME NEW t \in Screen, NEW n \in Nat, NEW f \in Picture, NEW ch \in Glyph,
         Pen(t, n), Shows(t, f), n \div t.termWidth <= Rows
  PROVE  /\ Pen(Put(t, ch), n + 1) /\ (Put(t, ch).wrap <=> (n + 1) % t.termWidth = 0)
         /\ Shows(Put(t, ch), [f EXCEPT ![n] = ch])
<1> DEFINE w == t.termWidth
           q == IF t.wrap THEN <<Clamp(t.y + 1, Rows), 0>> ELSE <<t.y, t.x>>
           full == q[2] = t.termWidth - 1
           u == Put(t, ch)
           a == n \div w
           b == n % w
<1>1. w \in Nat \ {0} /\ Rows \in Nat
  BY WindowType
<1>2. /\ q \in Place /\ u.x = (IF full THEN q[2] ELSE q[2] + 1)
      /\ u.y = q[1] /\ (u.wrap <=> full) /\ u.cell = [t.cell EXCEPT ![q] = ch]
      /\ u.termWidth = w
  BY PutDoes
<1>3. a \in Nat /\ b \in 0..(w - 1)
  BY <1>1, Division
<1>4. q[1] = a /\ q[2] = b
  <2>1. CASE t.wrap
    <3>1. t.y + 1 = a /\ b = 0 /\ a <= Rows
      BY <2>1 DEF Pen
    <3>2. Clamp(t.y + 1, Rows) = a
      BY <1>1, <1>3, <3>1 DEF Clamp
    <3> QED BY <2>1, <3>1, <3>2
  <2>2. CASE ~t.wrap
    BY <2>2 DEF Pen
  <2> QED BY <2>1, <2>2
<1>5. /\ (n + 1) % w = IF b = w - 1 THEN 0 ELSE b + 1
      /\ (n + 1) \div w = IF b = w - 1 THEN a + 1 ELSE a
  BY <1>1, NextPlace
<1>6. t.cell \in [Place -> Glyph]
  BY ScreenIs
<1>7. \A p \in Place :
        t.cell[p] = IF p[2] < w THEN f[p[1] * w + p[2]] ELSE Space
  BY DEF Shows
<1> HIDE DEF w, q, u, a, b
<1>8. full <=> b = w - 1
  BY <1>4 DEF w
<1> HIDE DEF full
<1>9. (u.wrap <=> (n + 1) % w = 0) /\ Pen(u, n + 1)
  <2>1. CASE full
    <3>1. u.wrap /\ u.x = w - 1 /\ u.y = a /\ (n + 1) % w = 0 /\ (n + 1) \div w = a + 1
      BY <1>2, <1>4, <1>5, <1>8, <2>1
    <3> QED BY <1>2, <3>1 DEF Pen
  <2>2. CASE ~full
    <3>1. /\ ~u.wrap /\ u.x = b + 1 /\ u.y = a /\ (n + 1) % w = b + 1 /\ (n + 1) \div w = a
          /\ b + 1 # 0
      BY <1>2, <1>3, <1>4, <1>5, <1>8, <2>2
    <3> QED BY <1>2, <3>1 DEF Pen
  <2> QED BY <2>1, <2>2
<1>10. ASSUME NEW p \in Place
       PROVE  u.cell[p] = IF p[2] < w THEN [f EXCEPT ![n] = ch][p[1] * w + p[2]] ELSE Space
  <2>1. /\ p[1] \in Nat /\ p[2] \in Nat /\ p = <<p[1], p[2]>> /\ q = <<a, b>>
    <3>1. Columns \subseteq Nat
      BY DEF Columns
    <3>2. \A z \in Place : z[1] \in 0..Rows /\ z[2] \in Columns /\ z = <<z[1], z[2]>>
      BY DEF Place
    <3> QED BY <1>2, <1>4, <3>1, <3>2
  <2>2. CASE p = q
    <3>1. p[1] = a /\ p[2] = b /\ p[2] < w /\ p[2] \in 0..(w - 1)
      BY <1>1, <1>3, <1>4, <2>2
    <3>2. p[1] * w + p[2] = n
      BY <1>1, <2>1, <3>1, OnePlace DEF a, b
    <3>3. [f EXCEPT ![n] = ch][n] = ch
      BY DEF Picture
    <3>4. u.cell[p] = ch
      BY <1>2, <1>6, <2>2
    <3> QED BY <3>1, <3>2, <3>3, <3>4
  <2>3. CASE p # q
    <3>1. u.cell[p] = t.cell[p]
      BY <1>2, <1>6, <2>3
    <3>2. ASSUME p[2] < w PROVE [f EXCEPT ![n] = ch][p[1] * w + p[2]] = f[p[1] * w + p[2]]
      <4> DEFINE i == p[1] * w + p[2]
      <4>1. p[2] \in 0..(w - 1)
        BY <1>1, <2>1, <3>2
      <4>2. ~(p[1] = a /\ p[2] = b)
        BY <2>1, <2>3
      <4>3. i \in Nat /\ i # n
        BY <1>1, <2>1, <4>1, <4>2, OnePlace DEF a, b
      <4> HIDE DEF i
      <4>4. [f EXCEPT ![n] = ch][i] = f[i]
        BY <4>3 DEF Picture
      <4> QED BY <4>4 DEF i
    <3> QED BY <1>7, <3>1, <3>2
  <2> QED BY <2>2, <2>3
<1>11. Shows(u, [f EXCEPT ![n] = ch])
  BY <1>2, <1>10 DEF Shows
<1> QED BY <1>9, <1>11 DEF u, w

\* advanceCursor, field by field.
LEMMA AdvanceIs ==
  ASSUME NEW t \in Screen, NEW k \in Nat
  PROVE  LET to == t.cursorX + k
             row == t.cursorY + to \div t.termWidth
             u == AdvanceCursor(t, k)
         IN /\ u \in Screen /\ u.cursorX = to % t.termWidth /\ u.cursorY = row
            /\ u.maxLine = (IF row > t.maxLine THEN row ELSE t.maxLine)
            /\ u.cell = t.cell /\ u.termWidth = t.termWidth
            /\ IF k > 0 /\ to % t.termWidth = 0
               THEN u.x = 0 /\ u.y = Clamp(t.y + 1, Rows) /\ ~u.wrap
               ELSE u.x = t.x /\ u.y = t.y /\ u.wrap = t.wrap
<1> DEFINE w == t.termWidth
           to == t.cursorX + k
           row == t.cursorY + to \div w
           x == to % w
           ml == IF row > t.maxLine THEN row ELSE t.maxLine
           s == [t EXCEPT !.cursorX = x, !.cursorY = row, !.maxLine = ml]
           u == AdvanceCursor(t, k)
<1>1. w \in Nat \ {0} /\ w \in Widths
  BY WindowType
<1>2. t.cursorX \in Nat /\ t.cursorY \in Nat /\ t.maxLine \in Nat /\ t.x < t.termWidth
  BY DEF Screen
<1>3. to \in Nat
  BY <1>2
<1>4. u = IF k > 0 /\ s.cursorX = 0 THEN NewRow(s) ELSE s
  BY DEF AdvanceCursor
<1> HIDE DEF to, w, u
<1>5. x \in Nat /\ x < w /\ row \in Nat
  <2>1. to \div w \in Nat /\ to % w \in 0..(w - 1)
    BY <1>1, <1>3, Division
  <2> QED BY <1>1, <1>2, <2>1
<1> HIDE DEF x, row
<1>6. ml \in Nat
  BY <1>2, <1>5
<1>7. /\ s.x = t.x /\ s.y = t.y /\ s.wrap = t.wrap /\ s.cell = t.cell
      /\ s.cursorX = x /\ s.cursorY = row /\ s.maxLine = ml /\ s.termWidth = t.termWidth
  BY Zenon DEF Screen
<1> HIDE DEF ml
<1>8. s \in [cursorX : Nat, cursorY : Nat, maxLine : Nat, termWidth : Widths,
          x : Nat, y : 0..Rows, wrap : BOOLEAN, cell : [Place -> Glyph]]
  BY <1>5, <1>6, Zenon DEF Screen
<1> HIDE DEF s
<1>9. s \in Screen
  BY <1>2, <1>5, <1>7, <1>8 DEF Screen, w
<1>10. CASE k > 0 /\ x = 0
  <2>1. u = NewRow(s)
    BY <1>4, <1>7, <1>10
  <2>2. /\ u \in Screen /\ u.x = 0 /\ u.y = Clamp(s.y + 1, Rows) /\ ~u.wrap
        /\ u.cell = s.cell /\ u.cursorX = s.cursorX
        /\ u.cursorY = s.cursorY /\ u.maxLine = s.maxLine
        /\ u.termWidth = s.termWidth
    BY <1>9, <2>1, NewRowDoes
  <2> QED BY <1>7, <1>10, <2>2 DEF ml, x, row, to, w, u
<1>11. CASE ~(k > 0 /\ x = 0)
  <2>1. u = s
    BY <1>4, <1>7, <1>11
  <2> QED BY <1>7, <1>9, <1>11, <2>1 DEF ml, x, row, to, w, u
<1> QED BY <1>10, <1>11

\* The terminal's cursor goes on by k, and the screen's with it.
LEMMA AdvanceDoes ==
  ASSUME NEW t \in Screen, NEW n \in Nat, NEW k \in Nat, Stands(t, n)
  PROVE  LET u == AdvanceCursor(t, k) IN
         /\ u \in Screen /\ Stands(u, n + k) /\ u.cell = t.cell
         /\ u.termWidth = t.termWidth /\ t.maxLine <= u.maxLine
         /\ k > 0 /\ Pen(t, n + k) /\ (t.wrap <=> (n + k) % t.termWidth = 0)
              /\ (n + k) \div t.termWidth <= Rows
            => ~u.wrap /\ Pen(u, n + k)
<1> DEFINE w == t.termWidth
           to == t.cursorX + k
           row == t.cursorY + to \div w
           u == AdvanceCursor(t, k)
<1>1. w \in Nat \ {0} /\ Rows \in Nat /\ t.maxLine \in Nat /\ t.wrap \in BOOLEAN
  BY WindowType, ScreenIs
<1>2. /\ u \in Screen /\ u.cursorX = to % w /\ u.cursorY = row
      /\ u.maxLine = (IF row > t.maxLine THEN row ELSE t.maxLine)
      /\ u.cell = t.cell /\ u.termWidth = w
      /\ IF k > 0 /\ to % w = 0
         THEN u.x = 0 /\ u.y = Clamp(t.y + 1, Rows) /\ ~u.wrap
         ELSE u.x = t.x /\ u.y = t.y /\ u.wrap = t.wrap
  BY AdvanceIs
<1>3. to % w = (n + k) % w /\ row = (n + k) \div w
  <2>1. to = (n % w) + k /\ t.cursorY = n \div w
    BY DEF Stands
  <2>2. row = (n \div w) + (((n % w) + k) \div w) /\ to % w = ((n % w) + k) % w
    BY <2>1
  <2> HIDE DEF row, to, w
  <2> QED BY <1>1, <2>2, FurtherPlace
<1>4. (n + k) \div w \in Nat /\ (n + k) % w \in 0..(w - 1)
  <2>1. n + k \in Nat
    OBVIOUS
  <2> QED BY <1>1, <2>1, Division
<1> HIDE DEF row, to, w, u
<1>5. Stands(u, n + k) /\ t.maxLine <= u.maxLine
  BY <1>1, <1>2, <1>3, <1>4 DEF Stands
<1>6. ASSUME k > 0, Pen(t, n + k), t.wrap <=> (n + k) % w = 0, (n + k) \div w <= Rows
      PROVE  ~u.wrap /\ Pen(u, n + k)
  <2>1. CASE (n + k) % w = 0
    <3>1. (n + k) \div w = t.y + 1
      BY <1>6, <2>1 DEF Pen, w
    <3>2. u.x = 0 /\ u.y = Clamp(t.y + 1, Rows) /\ ~u.wrap
      BY <1>2, <1>3, <1>6, <2>1
    <3>3. u.y = (n + k) \div w
      BY <1>1, <1>4, <1>6, <3>1, <3>2 DEF Clamp
    <3> QED BY <1>2, <2>1, <3>2, <3>3 DEF Pen
  <2>2. CASE (n + k) % w # 0
    <3>1. u.x = t.x /\ u.y = t.y /\ u.wrap = t.wrap /\ ~t.wrap
      BY <1>2, <1>3, <1>6, <2>2
    <3> QED BY <1>2, <1>6, <3>1 DEF Pen, w
  <2> QED BY <2>1, <2>2
<1> QED BY <1>2, <1>5, <1>6 DEF u, w

\* Induction up to n, for a set of numbers.
LEMMA Reaches ==
  ASSUME NEW n \in Nat, NEW T, 0 \in T, \A i \in 1..n : i - 1 \in T => i \in T
  PROVE  0..n \subseteq T
<1> DEFINE S == {i \in 0..n : i \notin T}
<1>1. S \in SUBSET Nat
  OBVIOUS
<1>2. ASSUME S # {} PROVE FALSE
  <2>1. PICK m \in S : \A k \in S : m <= k
    BY <1>1, <1>2, LeastIn
  <2>2. m \in 1..n /\ m - 1 \in 0..n /\ ~(m <= m - 1)
    BY <2>1
  <2>3. m - 1 \in T
    BY <2>1, <2>2
  <2> QED BY <2>1, <2>2, <2>3
<1> QED BY <1>2

\* The fold takes the last index first.
LEMMA LastOf ==
  ASSUME NEW n \in Nat, NEW s \in SUBSET (1..(n + 1)), n + 1 \in s
  PROVE  Max(s) = n + 1 /\ s \ {n + 1} \in SUBSET (1..n)
<1>1. Max(s) = n + 1
  <2>1. n + 1 \in Nat /\ s \in SUBSET (0..(n + 1)) /\ \A k \in s : k <= n + 1
    OBVIOUS
  <2> QED BY <2>1, MaxIs
<1> QED BY <1>1

\* A fold from the left is well defined: whatever is folded, there is a function that
\* satisfies its recursive definition.
LEMMA FoldExists ==
  ASSUME NEW F \in [Screen \X Glyph -> Screen], NEW base \in Screen, NEW text \in Seq(Glyph)
  PROVE  \E g \in [SUBSET (1..Len(text)) -> Screen] :
           \A s \in SUBSET (1..Len(text)) :
             g[s] = IF s = {} THEN base ELSE F[<<g[s \ {Max(s)}], text[Max(s)]>>]
<1> DEFINE Folded(g, n) ==
             \A s \in SUBSET (1..n) :
               g[s] = IF s = {} THEN base ELSE F[<<g[s \ {Max(s)}], text[Max(s)]>>]
           T == {n \in 0..Len(text) : \E g \in [SUBSET (1..n) -> Screen] : Folded(g, n)}
<1>0. Len(text) \in Nat /\ \A i \in 1..Len(text) : text[i] \in Glyph
  BY LenProperties, ElementOfSeq
<1>1. 0 \in T
  <2> DEFINE g == [s \in SUBSET (1..0) |-> base]
  <2>1. \A s \in SUBSET (1..0) : s = {}
    OBVIOUS
  <2>2. g \in [SUBSET (1..0) -> Screen] /\ Folded(g, 0)
    BY <2>1
  <2> HIDE DEF g, Folded
  <2>3. \E k \in [SUBSET (1..0) -> Screen] : Folded(k, 0)
    BY <2>2
  <2>4. 0 \in 0..Len(text)
    BY <1>0
  <2> QED BY <2>3, <2>4, Zenon
<1>2. ASSUME NEW i \in 1..Len(text), i - 1 \in T PROVE i \in T
  <2> DEFINE n == i - 1
  <2>1. n \in Nat /\ n + 1 = i /\ n + 1 \in 1..Len(text)
    BY <1>0
  <2>2. PICK g \in [SUBSET (1..n) -> Screen] : Folded(g, n)
    BY <1>2
  <2> HIDE DEF n
  <2> DEFINE h == [s \in SUBSET (1..(n + 1)) |->
                     IF n + 1 \in s THEN F[<<g[s \ {n + 1}], text[n + 1]>>] ELSE g[s]]
  <2>3. ASSUME NEW s \in SUBSET (1..(n + 1)), n + 1 \notin s
        PROVE  s \in SUBSET (1..n)
    BY <2>1, <2>3
  <2>4. ASSUME NEW s \in SUBSET (1..(n + 1)) PROVE h[s] \in Screen
    <3>1. CASE n + 1 \in s
      <4>1. s \ {n + 1} \in SUBSET (1..n) /\ text[n + 1] \in Glyph
        BY <1>0, <2>1, <3>1, LastOf
      <4> QED BY <2>2, <3>1, <4>1
    <3>2. CASE n + 1 \notin s
      BY <2>2, <2>3, <3>2
    <3> QED BY <3>1, <3>2
  <2>5. h \in [SUBSET (1..(n + 1)) -> Screen]
    BY <2>4
  <2>6. \A s \in SUBSET (1..n) : s \in SUBSET (1..(n + 1)) /\ n + 1 \notin s /\ h[s] = g[s]
    BY <2>1
  <2>7. ASSUME NEW s \in SUBSET (1..(n + 1))
        PROVE  h[s] = IF s = {} THEN base ELSE F[<<h[s \ {Max(s)}], text[Max(s)]>>]
    <3>1. CASE n + 1 \in s
      <4>1. Max(s) = n + 1 /\ s \ {n + 1} \in SUBSET (1..n) /\ s # {}
        BY <2>1, <3>1, LastOf
      <4>2. h[s] = F[<<g[s \ {n + 1}], text[n + 1]>>] /\ h[s \ {n + 1}] = g[s \ {n + 1}]
        BY <2>6, <3>1, <4>1
      <4> HIDE DEF h
      <4> QED BY <4>1, <4>2
    <3>2. CASE n + 1 \notin s /\ s # {}
      <4>1. s \in SUBSET (1..n) /\ h[s] = g[s]
        BY <2>3, <3>2
      <4>2. g[s] = F[<<g[s \ {Max(s)}], text[Max(s)]>>]
        BY <2>2, <3>2, <4>1
      <4>3. s \ {Max(s)} \in SUBSET (1..n)
        BY <4>1
      <4>4. h[s \ {Max(s)}] = g[s \ {Max(s)}]
        BY <2>6, <4>3
      <4> HIDE DEF h
      <4> QED BY <3>2, <4>1, <4>2, <4>4
    <3>3. CASE s = {}
      <4>1. s \in SUBSET (1..n)
        BY <3>3
      <4>2. h[s] = g[s] /\ g[s] = base
        BY <2>2, <2>6, <3>3, <4>1
      <4> HIDE DEF h
      <4> QED BY <3>3, <4>2
    <3> QED BY <3>1, <3>2, <3>3
  <2> HIDE DEF h
  <2>8. Folded(h, n + 1)
    BY <2>7
  <2>9. \E k \in [SUBSET (1..(n + 1)) -> Screen] : Folded(k, n + 1)
    BY <2>5, <2>8
  <2> HIDE DEF Folded
  <2>10. \E k \in [SUBSET (1..i) -> Screen] : Folded(k, i)
    BY <2>1, <2>9
  <2> QED BY <1>0, <2>10
<1> HIDE DEF T
<1>3. 0..Len(text) \subseteq T
  BY <1>0, <1>1, <1>2, Reaches
<1>4. Len(text) \in T
  BY <1>0, <1>3
<1> QED BY <1>4 DEF T

\* The indices the fold goes through.
LEMMA Unfolds ==
  ASSUME NEW n \in Nat, NEW i \in 1..n
  PROVE  /\ 1..i \in SUBSET (1..n) /\ 1..i # {}
         /\ Max(1..i) = i /\ (1..i) \ {i} = 1..(i - 1)
<1>1. Max(1..i) = i
  <2>1. i \in Nat /\ 1..i \in SUBSET (0..i) /\ i \in 1..i /\ \A k \in 1..i : k <= i
    OBVIOUS
  <2> QED BY <2>1, MaxIs
<1> QED BY <1>1

\* What satisfies it takes one character after the other.
Folding(iter, F, t, text) ==
  /\ iter[{}] = t
  /\ \A s \in SUBSET (1..Len(text)) :
       s # {} /\ iter[s \ {Max(s)}] \in Screen =>
         iter[s] = F[<<iter[s \ {Max(s)}], text[Max(s)]>>]

\* Taking the characters of text from t on leads to u.
Leads(F, t, text, u) ==
  \E w \in [0..Len(text) -> Screen] :
    /\ w[0] = t /\ w[Len(text)] = u
    /\ \A i \in 1..Len(text) : w[i] = F[<<w[i - 1], text[i]>>]

\* A fold is a run, one state for each prefix of the text.
LEMMA FoldRuns ==
  ASSUME NEW F \in [Screen \X Glyph -> Screen], NEW t \in Screen, NEW text \in Seq(Glyph),
         NEW iter, Folding(iter, F, t, text)
  PROVE  Leads(F, t, text, iter[1..Len(text)])
<1> DEFINE n == Len(text)
           w == [i \in 0..n |-> iter[1..i]]
           T == {i \in 0..n : w[i] \in Screen}
<1>0. n \in Nat /\ \A i \in 1..n : text[i] \in Glyph
  BY LenProperties, ElementOfSeq
<1> HIDE DEF n
<1>1. w[0] = t /\ w[n] = iter[1..n]
  <2>1. 1..0 = {} /\ 0 \in 0..n /\ n \in 0..n
    BY <1>0
  <2> QED BY <2>1 DEF Folding
<1>2. ASSUME NEW i \in 1..n, w[i - 1] \in Screen PROVE w[i] = F[<<w[i - 1], text[i]>>]
  <2>1. /\ 1..i \in SUBSET (1..n) /\ 1..i # {} /\ Max(1..i) = i
        /\ (1..i) \ {i} = 1..(i - 1)
    BY <1>0, Unfolds
  <2>2. i \in 0..n /\ i - 1 \in 0..n
    BY <1>0
  <2>3. iter[1..(i - 1)] \in Screen
    BY <1>2, <2>2
  <2>4. iter[1..i] = F[<<iter[(1..i) \ {Max(1..i)}], text[Max(1..i)]>>]
    BY <2>1, <2>3 DEF n, Folding
  <2> QED BY <2>1, <2>2, <2>4
<1>3. w = [i \in 0..n |-> w[i]]
  OBVIOUS
<1> HIDE DEF w
<1>4. 0 \in T
  BY <1>0, <1>1
<1>5. ASSUME NEW i \in 1..n, i - 1 \in T PROVE i \in T
  <2>1. w[i - 1] \in Screen /\ text[i] \in Glyph
    BY <1>0, <1>5
  <2>2. w[i] = F[<<w[i - 1], text[i]>>]
    BY <1>2, <2>1
  <2>3. w[i] \in Screen /\ i \in 0..n
    BY <1>0, <2>1, <2>2
  <2> QED BY <2>3
<1>6. \A i \in 0..n : w[i] \in Screen
  <2> HIDE DEF T
  <2>1. 0..n \subseteq T
    BY <1>0, <1>4, <1>5, Reaches
  <2> QED BY <2>1 DEF T
<1>7. \A i \in 1..n : w[i] = F[<<w[i - 1], text[i]>>]
  <2>1. \A i \in 1..n : i - 1 \in 0..n
    BY <1>0
  <2> QED BY <1>2, <1>6, <2>1
<1>8. w \in [0..n -> Screen]
  BY <1>3, <1>6
<1> QED BY <1>1, <1>7, <1>8 DEF n, Leads

\* What both folds of LineEditor come to.
LEMMA PutType ==
  ASSUME NEW t \in Screen, NEW ch \in Glyph
  PROVE  Put(t, ch) \in Screen
BY PutDoes

\* The screens that queueing a text goes through.
LEMMA QueueSteps ==
  ASSUME NEW t \in Screen, NEW text \in Seq(Glyph)
  PROVE  \E w \in [0..Len(text) -> Screen] :
           /\ w[0] = t /\ w[Len(text)] = Queue(t, text)
           /\ \A i \in 1..Len(text) : w[i] = Put(w[i - 1], text[i])
<1> DEFINE n == Len(text)
           F == [p \in Screen \X Glyph |-> Put(p[1], p[2])]
           Eq(g) == g = [s \in SUBSET (DOMAIN text) |-> IF s = {} THEN t
                           ELSE Put(g[s \ {Max(s)}], text[Max(s)])]
           iter == CHOOSE k : Eq(k)
<1>0. n \in Nat /\ DOMAIN text = 1..n /\ \A i \in 1..n : text[i] \in Glyph
  BY LenProperties, ElementOfSeq
<1>1. Queue(t, text) = iter[1..n]
  BY <1>0 DEF Queue, FoldLeft, MapThenFoldSet
<1>2. /\ F \in [Screen \X Glyph -> Screen]
      /\ \A u \in Screen, ch \in Glyph : F[<<u, ch>>] = Put(u, ch)
  BY PutType
<1> HIDE DEF F, n
<1>3. PICK g \in [SUBSET (1..n) -> Screen] :
        \A s \in SUBSET (1..n) :
          g[s] = IF s = {} THEN t ELSE F[<<g[s \ {Max(s)}], text[Max(s)]>>]
  <2>1. \E g \in [SUBSET (1..Len(text)) -> Screen] :
          \A s \in SUBSET (1..Len(text)) :
            g[s] = IF s = {} THEN t ELSE F[<<g[s \ {Max(s)}], text[Max(s)]>>]
    BY <1>2, FoldExists
  <2> QED BY <2>1 DEF n
<1>4. ASSUME NEW s \in SUBSET (1..n), s # {} PROVE text[Max(s)] \in Glyph
  <2>1. s \in SUBSET (0..n)
    BY <1>0
  <2>2. Max(s) \in 1..n
    BY <1>0, <1>4, <2>1, MaxIn
  <2> QED BY <1>0, <2>2
<1>5. Eq(iter)
  <2>1. ASSUME NEW s \in SUBSET (1..n), s # {}
        PROVE  g[s] = Put(g[s \ {Max(s)}], text[Max(s)])
    <3>1. g[s \ {Max(s)}] \in Screen
      BY <2>1
    <3> QED BY <1>2, <1>3, <1>4, <2>1, <3>1
  <2>2. Eq(g)
    BY <1>0, <1>3, <2>1
  <2> HIDE DEF Eq
  <2> QED BY <2>2
<1> HIDE DEF iter
<1>6. /\ iter[{}] = t
      /\ \A s \in SUBSET (1..n) : s # {} =>
           iter[s] = Put(iter[s \ {Max(s)}], text[Max(s)])
  BY <1>0, <1>5
<1> HIDE DEF Eq
<1>7. \A s \in SUBSET (1..n) :
        s # {} /\ iter[s \ {Max(s)}] \in Screen =>
          iter[s] = F[<<iter[s \ {Max(s)}], text[Max(s)]>>]
  BY <1>2, <1>4, <1>6
<1>8. PICK w \in [0..n -> Screen] :
        /\ w[0] = t /\ w[n] = iter[1..n]
        /\ \A i \in 1..n : w[i] = F[<<w[i - 1], text[i]>>]
  <2>1. iter[{}] = t
    BY <1>6
  <2>2. \A s \in SUBSET (1..Len(text)) :
          s # {} /\ iter[s \ {Max(s)}] \in Screen =>
            iter[s] = F[<<iter[s \ {Max(s)}], text[Max(s)]>>]
    BY <1>7 DEF n
  <2>3. Folding(iter, F, t, text)
    BY <2>1, <2>2 DEF Folding
  <2>4. Leads(F, t, text, iter[1..Len(text)])
    BY <1>2, <2>3, FoldRuns
  <2> QED BY <2>4 DEF n, Leads
<1>9. ASSUME NEW i \in 1..n PROVE w[i] = Put(w[i - 1], text[i])
  <2>1. i - 1 \in 0..n
    BY <1>0
  <2> QED BY <1>0, <1>2, <1>8, <2>1
<1> QED BY <1>1, <1>8, <1>9 DEF n

\* Drawing a character gives a terminal.
LEMMA DrawType ==
  ASSUME NEW t \in Screen, NEW ch \in Glyph
  PROVE  AdvanceCursor(Put(t, ch), 1) \in Screen
<1>1. Put(t, ch) \in Screen
  BY PutDoes
<1> DEFINE u == Put(t, ch)
<1> HIDE DEF u
<1>2. AdvanceCursor(u, 1) \in Screen
  BY <1>1, AdvanceIs DEF u
<1> QED BY <1>2 DEF u

\* The screens that writeLine goes through.
LEMMA WriteSteps ==
  ASSUME NEW t \in Screen, NEW text \in Seq(Glyph)
  PROVE  \E w \in [0..Len(text) -> Screen] :
           /\ w[0] = t /\ w[Len(text)] = WriteLine(t, text)
           /\ \A i \in 1..Len(text) : w[i] = AdvanceCursor(Put(w[i - 1], text[i]), 1)
<1> DEFINE n == Len(text)
           F == [p \in Screen \X Glyph |-> AdvanceCursor(Put(p[1], p[2]), 1)]
           Eq(g) == g = [s \in SUBSET (DOMAIN text) |-> IF s = {} THEN t
                           ELSE AdvanceCursor(Put(g[s \ {Max(s)}], text[Max(s)]), 1)]
           iter == CHOOSE k : Eq(k)
<1>0. n \in Nat /\ DOMAIN text = 1..n /\ \A i \in 1..n : text[i] \in Glyph
  BY LenProperties, ElementOfSeq
<1>1. WriteLine(t, text) = iter[1..n]
  BY <1>0 DEF WriteLine, FoldLeft, MapThenFoldSet
<1>2. /\ F \in [Screen \X Glyph -> Screen]
      /\ \A u \in Screen, ch \in Glyph : F[<<u, ch>>] = AdvanceCursor(Put(u, ch), 1)
  BY DrawType
<1> HIDE DEF F, n
<1>3. PICK g \in [SUBSET (1..n) -> Screen] :
        \A s \in SUBSET (1..n) :
          g[s] = IF s = {} THEN t ELSE F[<<g[s \ {Max(s)}], text[Max(s)]>>]
  <2>1. \E g \in [SUBSET (1..Len(text)) -> Screen] :
          \A s \in SUBSET (1..Len(text)) :
            g[s] = IF s = {} THEN t ELSE F[<<g[s \ {Max(s)}], text[Max(s)]>>]
    BY <1>2, FoldExists
  <2> QED BY <2>1 DEF n
<1>4. ASSUME NEW s \in SUBSET (1..n), s # {} PROVE text[Max(s)] \in Glyph
  <2>1. s \in SUBSET (0..n)
    BY <1>0
  <2>2. Max(s) \in 1..n
    BY <1>0, <1>4, <2>1, MaxIn
  <2> QED BY <1>0, <2>2
<1>5. Eq(iter)
  <2>1. ASSUME NEW s \in SUBSET (1..n), s # {}
        PROVE  g[s] = AdvanceCursor(Put(g[s \ {Max(s)}], text[Max(s)]), 1)
    <3>1. g[s \ {Max(s)}] \in Screen
      BY <2>1
    <3> QED BY <1>2, <1>3, <1>4, <2>1, <3>1
  <2>2. Eq(g)
    BY <1>0, <1>3, <2>1
  <2> HIDE DEF Eq
  <2> QED BY <2>2
<1> HIDE DEF iter
<1>6. /\ iter[{}] = t
      /\ \A s \in SUBSET (1..n) : s # {} =>
           iter[s] = AdvanceCursor(Put(iter[s \ {Max(s)}], text[Max(s)]), 1)
  BY <1>0, <1>5
<1> HIDE DEF Eq
<1>7. \A s \in SUBSET (1..n) :
        s # {} /\ iter[s \ {Max(s)}] \in Screen =>
          iter[s] = F[<<iter[s \ {Max(s)}], text[Max(s)]>>]
  BY <1>2, <1>4, <1>6
<1>8. PICK w \in [0..n -> Screen] :
        /\ w[0] = t /\ w[n] = iter[1..n]
        /\ \A i \in 1..n : w[i] = F[<<w[i - 1], text[i]>>]
  <2>1. iter[{}] = t
    BY <1>6
  <2>2. \A s \in SUBSET (1..Len(text)) :
          s # {} /\ iter[s \ {Max(s)}] \in Screen =>
            iter[s] = F[<<iter[s \ {Max(s)}], text[Max(s)]>>]
    BY <1>7 DEF n
  <2>3. Folding(iter, F, t, text)
    BY <2>1, <2>2 DEF Folding
  <2>4. Leads(F, t, text, iter[1..Len(text)])
    BY <1>2, <2>3, FoldRuns
  <2> QED BY <2>4 DEF n, Leads
<1>9. ASSUME NEW i \in 1..n PROVE w[i] = AdvanceCursor(Put(w[i - 1], text[i]), 1)
  <2>1. i - 1 \in 0..n
    BY <1>0
  <2> QED BY <1>0, <1>2, <1>8, <2>1
<1> QED BY <1>1, <1>8, <1>9 DEF n

-----------------------------------------------------------------------------
(* Text on the screen *)

\* The first i characters of s, from place n on.
Part(f, n, s, i) == [k \in Nat |-> IF n <= k /\ k < n + i THEN s[k - n + 1] ELSE f[k]]

\* Drawing one more character of a text.
LEMMA PartIs ==
  ASSUME NEW f \in Picture, NEW n \in Nat, NEW s \in Seq(Glyph)
  PROVE  /\ Part(f, n, s, 0) = f
         /\ \A i \in 0..Len(s) : Part(f, n, s, i) \in Picture
         /\ \A i \in 1..Len(s) :
              Part(f, n, s, i) = [Part(f, n, s, i - 1) EXCEPT ![n + (i - 1)] = s[i]]
         /\ Part(f, n, s, Len(s)) = Over(f, n, s)
<1>0. Len(s) \in Nat /\ \A i \in 1..Len(s) : s[i] \in Glyph
  BY LenProperties, ElementOfSeq
<1>1. Part(f, n, s, 0) = f
  <2>1. \A k \in Nat : ~(n <= k /\ k < n + 0)
    OBVIOUS
  <2> QED BY <2>1 DEF Part, Picture
<1>2. ASSUME NEW i \in 0..Len(s) PROVE Part(f, n, s, i) \in Picture
  <2>1. ASSUME NEW k \in Nat, n <= k, k < n + i PROVE s[k - n + 1] \in Glyph
    <3>1. k - n + 1 \in 1..Len(s)
      BY <1>0, <2>1
    <3> QED BY <1>0, <3>1
  <2>2. \A k \in Nat : f[k] \in Glyph
    BY DEF Picture
  <2> QED BY <2>1, <2>2 DEF Part, Picture
<1>3. ASSUME NEW i \in 1..Len(s)
      PROVE  Part(f, n, s, i) = [Part(f, n, s, i - 1) EXCEPT ![n + (i - 1)] = s[i]]
  <2> DEFINE g == Part(f, n, s, i)
             h == Part(f, n, s, i - 1)
             e == [h EXCEPT ![n + (i - 1)] = s[i]]
  <2>0. i \in 0..Len(s) /\ i - 1 \in 0..Len(s) /\ n + (i - 1) \in Nat /\ i \in Nat
    BY <1>0
  <2>1. g \in [Nat -> Glyph] /\ h \in [Nat -> Glyph]
    BY <1>2, <2>0 DEF Picture
  <2>2. ASSUME NEW k \in Nat PROVE g[k] = e[k]
    <3>1. CASE k = n + (i - 1)
      <4>1. k - n + 1 = i /\ n <= k /\ k < n + i
        BY <2>0, <3>1
      <4>2. g[k] = s[i]
        BY <4>1 DEF Part
      <4> HIDE DEF g, h
      <4> QED BY <2>1, <3>1, <4>2
    <3>2. CASE k # n + (i - 1)
      <4>1. (n <= k /\ k < n + i) <=> (n <= k /\ k < n + (i - 1))
        BY <2>0, <3>2
      <4>2. g[k] = h[k]
        BY <4>1 DEF Part
      <4> HIDE DEF g, h
      <4> QED BY <2>1, <3>2, <4>2
    <3> QED BY <3>1, <3>2
  <2>3. e \in [Nat -> Glyph]
    <3> HIDE DEF h
    <3> QED BY <1>0, <2>1
  <2> HIDE DEF g, e
  <2>4. g = e
    BY <2>1, <2>2, <2>3
  <2> QED BY <2>4 DEF g, e
<1>4. Part(f, n, s, Len(s)) = Over(f, n, s)
  BY DEF Part, Over
<1> QED BY <1>1, <1>2, <1>3, <1>4

\* One character, and the terminal's idea of it.
LEMMA DrawOne ==
  ASSUME NEW t \in Screen, NEW n \in Nat, NEW ch \in Glyph, Stands(t, n)
  PROVE  LET u == AdvanceCursor(Put(t, ch), 1) IN
         /\ u \in Screen /\ Stands(u, n + 1)
         /\ u.termWidth = t.termWidth /\ t.maxLine <= u.maxLine
         /\ \A f \in Picture :
              Sees(t, n, f) /\ (n + 1) \div t.termWidth <= Rows =>
                Sees(u, n + 1, [f EXCEPT ![n] = ch])
<1> DEFINE v == Put(t, ch)
           u == AdvanceCursor(v, 1)
           w == t.termWidth
<1>0. w \in Nat \ {0} /\ Rows \in Nat
  BY WindowType
<1>1. /\ v \in Screen /\ v.cursorX = t.cursorX /\ v.cursorY = t.cursorY
      /\ v.maxLine = t.maxLine /\ v.termWidth = w
  BY PutDoes
<1>2. ASSUME NEW f \in Picture, Sees(t, n, f), (n + 1) \div w <= Rows
      PROVE  /\ Pen(v, n + 1) /\ (v.wrap <=> (n + 1) % w = 0)
             /\ Shows(v, [f EXCEPT ![n] = ch])
  <2>1. n \div w <= Rows
    <3>1. n + 1 \in Nat /\ n <= n + 1
      OBVIOUS
    <3>2. n \div w <= (n + 1) \div w /\ n \div w \in Nat /\ (n + 1) \div w \in Nat
      BY <1>0, <3>1, RowsGrow, Division
    <3> HIDE DEF w
    <3> QED BY <1>0, <1>2, <3>2
  <2>2. Pen(t, n) /\ Shows(t, f)
    BY <1>2 DEF Sees
  <2> QED BY <2>1, <2>2, PutSees
<1>3. Stands(v, n)
  BY <1>1 DEF Stands
<1> HIDE DEF v, w
<1>4. /\ u \in Screen /\ Stands(u, n + 1) /\ u.cell = v.cell
      /\ u.termWidth = v.termWidth /\ v.maxLine <= u.maxLine
      /\ 1 > 0 /\ Pen(v, n + 1) /\ (v.wrap <=> (n + 1) % v.termWidth = 0)
           /\ (n + 1) \div v.termWidth <= Rows
         => ~u.wrap /\ Pen(u, n + 1)
  BY <1>1, <1>3, AdvanceDoes
<1> HIDE DEF u
<1>5. ASSUME NEW f \in Picture, Sees(t, n, f), (n + 1) \div w <= Rows
      PROVE  Sees(u, n + 1, [f EXCEPT ![n] = ch])
  <2>1. ~u.wrap /\ Pen(u, n + 1)
    <3>1. /\ Pen(v, n + 1) /\ (v.wrap <=> (n + 1) % v.termWidth = 0)
          /\ (n + 1) \div v.termWidth <= Rows
      BY <1>1, <1>2, <1>5, Zenon
    <3>2. 1 > 0
      OBVIOUS
    <3> QED BY <1>4, <3>1, <3>2
  <2>2. Shows(u, [f EXCEPT ![n] = ch])
    BY <1>2, <1>4, <1>5 DEF Shows
  <2> QED BY <2>1, <2>2 DEF Sees
<1> QED BY <1>1, <1>4, <1>5 DEF u, v, w

\* Drawing text from n on leads from t to u.
Wrote(t, u, n, text) ==
  /\ u \in Screen /\ Stands(u, n + Len(text))
  /\ u.termWidth = t.termWidth /\ t.maxLine <= u.maxLine
  /\ \A f \in Picture : Sees(t, n, f) => Sees(u, n + Len(text), Over(f, n, text))

\* All rows before a row of the screen are there.
LEMMA RowsBefore ==
  ASSUME NEW n \in Nat, NEW m \in Nat, NEW w \in Nat \ {0}, m \div w <= Rows, n <= m
  PROVE  n \div w <= Rows
<1>1. n \div w <= m \div w /\ n \div w \in Nat /\ m \div w \in Nat
  BY RowsGrow, Division
<1>2. Rows \in Nat
  BY EditorAssumption DEF EditorAssumption
<1> QED BY <1>1, <1>2

\* writeLine draws the text, and the terminal knows where the cursor is then.
LEMMA WriteLineWrites ==
  ASSUME NEW t \in Screen, NEW n \in Nat, NEW text \in Seq(Glyph), Stands(t, n),
         (n + Len(text)) \div t.termWidth <= Rows
  PROVE  Wrote(t, WriteLine(t, text), n, text)
<1> DEFINE len == Len(text)
           w == t.termWidth
<1>0. /\ len \in Nat /\ w \in Nat \ {0} /\ t.maxLine \in Nat
      /\ \A i \in 1..len : text[i] \in Glyph
  BY WindowType, ScreenIs, LenProperties, ElementOfSeq
<1>1. PICK s \in [0..len -> Screen] :
        /\ s[0] = t /\ s[len] = WriteLine(t, text)
        /\ \A i \in 1..len : s[i] = AdvanceCursor(Put(s[i - 1], text[i]), 1)
  BY WriteSteps
<1> DEFINE Good(i) ==
             /\ s[i].termWidth = w /\ t.maxLine <= s[i].maxLine /\ Stands(s[i], n + i)
             /\ \A f \in Picture : Sees(t, n, f) => Sees(s[i], n + i, Part(f, n, text, i))
           T == {i \in 0..len : Good(i)}
<1>2. 0 \in T
  <2>1. n + 0 = n /\ 0 \in 0..len
    BY <1>0
  <2>2. \A f \in Picture : Part(f, n, text, 0) = f
    BY PartIs
  <2> QED BY <1>0, <1>1, <2>1, <2>2
<1>3. ASSUME NEW i \in 1..len, i - 1 \in T PROVE i \in T
  <2> DEFINE v == s[i - 1]
             u == s[i]
             m == n + (i - 1)
  <2>1. /\ v \in Screen /\ u \in Screen /\ text[i] \in Glyph /\ m \in Nat /\ m + 1 = n + i
        /\ i \in 0..len
    BY <1>0
  <2>2. u = AdvanceCursor(Put(v, text[i]), 1)
    BY <1>1
  <2>3. /\ v.termWidth = w /\ t.maxLine <= v.maxLine /\ Stands(v, m)
        /\ \A f \in Picture : Sees(t, n, f) => Sees(v, m, Part(f, n, text, i - 1))
    BY <1>3
  <2>4. (m + 1) \div w <= Rows
    <3>1. n + i \in Nat /\ n + len \in Nat /\ n + i <= n + len
      BY <1>0
    <3>2. (n + i) \div w <= Rows
      BY <1>0, <3>1, RowsBefore
    <3> QED BY <2>1, <3>2
  <2> HIDE DEF v, u, m
  <2>5. /\ Stands(u, m + 1) /\ u.termWidth = w /\ v.maxLine <= u.maxLine
        /\ \A f \in Picture :
              Sees(v, m, f) /\ (m + 1) \div w <= Rows =>
                Sees(u, m + 1, [f EXCEPT ![m] = text[i]])
    BY <2>1, <2>2, <2>3, DrawOne
  <2>6. ASSUME NEW f \in Picture, Sees(t, n, f)
        PROVE  Sees(u, n + i, Part(f, n, text, i))
    <3>1. Part(f, n, text, i) = [Part(f, n, text, i - 1) EXCEPT ![m] = text[i]]
      BY PartIs DEF m
    <3>2. Part(f, n, text, i - 1) \in Picture
      <4>1. i - 1 \in 0..len
        BY <1>0
      <4> QED BY <4>1, PartIs
    <3> QED BY <2>1, <2>3, <2>4, <2>5, <2>6, <3>1, <3>2
  <2>7. t.maxLine <= u.maxLine
    <3>1. v.maxLine \in Nat /\ u.maxLine \in Nat
      BY <2>1, ScreenIs
    <3> QED BY <1>0, <2>3, <2>5, <3>1
  <2>8. Good(i)
    BY <2>1, <2>5, <2>6, <2>7 DEF u
  <2> QED BY <2>1, <2>8
<1>4. 0..len \subseteq T
  <2> HIDE DEF T
  <2> QED BY <1>0, <1>2, <1>3, Reaches
<1>5. Good(len)
  BY <1>0, <1>4
<1>6. \A f \in Picture : Part(f, n, text, len) = Over(f, n, text)
  BY PartIs
<1>7. s[len] \in Screen
  BY <1>0
<1> QED BY <1>1, <1>5, <1>6, <1>7 DEF Wrote

\* So does queueing it and calling advanceCursor once.
LEMMA QueueWrites ==
  ASSUME NEW t \in Screen, NEW n \in Nat, NEW text \in Seq(Glyph), Stands(t, n),
         (n + Len(text)) \div t.termWidth <= Rows, Len(text) > 0
  PROVE  Wrote(t, AdvanceCursor(Queue(t, text), Len(text)), n, text)
<1> DEFINE len == Len(text)
           w == t.termWidth
<1>0. /\ len \in Nat /\ len > 0 /\ w \in Nat \ {0} /\ t.maxLine \in Nat
      /\ \A i \in 1..len : text[i] \in Glyph
  BY WindowType, ScreenIs, LenProperties, ElementOfSeq
<1>1. PICK s \in [0..len -> Screen] :
        /\ s[0] = t /\ s[len] = Queue(t, text)
        /\ \A i \in 1..len : s[i] = Put(s[i - 1], text[i])
  BY QueueSteps
<1> DEFINE Good(i) ==
             /\ s[i].termWidth = w /\ s[i].maxLine = t.maxLine
             /\ s[i].cursorX = t.cursorX /\ s[i].cursorY = t.cursorY
             /\ \A f \in Picture : Sees(t, n, f) =>
                  /\ Pen(s[i], n + i) /\ Shows(s[i], Part(f, n, text, i))
                  /\ i > 0 => (s[i].wrap <=> (n + i) % w = 0)
           T == {i \in 0..len : Good(i)}
<1>2. 0 \in T
  <2>1. n + 0 = n /\ 0 \in 0..len /\ ~(0 > 0)
    BY <1>0
  <2>2. \A f \in Picture : Part(f, n, text, 0) = f
    BY PartIs
  <2> QED BY <1>0, <1>1, <2>1, <2>2 DEF Sees
<1>3. ASSUME NEW i \in 1..len, i - 1 \in T PROVE i \in T
  <2> DEFINE v == s[i - 1]
             u == s[i]
             m == n + (i - 1)
  <2>1. /\ v \in Screen /\ text[i] \in Glyph /\ m \in Nat /\ m + 1 = n + i
        /\ i \in 0..len
    BY <1>0
  <2>2. u = Put(v, text[i])
    BY <1>1
  <2>3. /\ v.termWidth = w /\ v.maxLine = t.maxLine
        /\ v.cursorX = t.cursorX /\ v.cursorY = t.cursorY
        /\ \A f \in Picture : Sees(t, n, f) =>
             Pen(v, m) /\ Shows(v, Part(f, n, text, i - 1))
    BY <1>3
  <2>4. m \div w <= Rows
    <3>1. n + len \in Nat /\ m <= n + len
      BY <1>0
    <3> HIDE DEF m
    <3> QED BY <1>0, <2>1, <3>1, RowsBefore
  <2> HIDE DEF v, u, m
  <2>5. /\ u.termWidth = w /\ u.maxLine = t.maxLine
        /\ u.cursorX = t.cursorX /\ u.cursorY = t.cursorY
    BY <2>1, <2>2, <2>3, PutDoes
  <2>6. ASSUME NEW f \in Picture, Sees(t, n, f)
        PROVE  /\ Pen(u, n + i) /\ Shows(u, Part(f, n, text, i))
               /\ u.wrap <=> (n + i) % w = 0
    <3>1. Part(f, n, text, i) = [Part(f, n, text, i - 1) EXCEPT ![m] = text[i]]
      BY PartIs DEF m
    <3>2. Part(f, n, text, i - 1) \in Picture
      <4>1. i - 1 \in 0..len
        BY <1>0
      <4> QED BY <4>1, PartIs
    <3> DEFINE g == Part(f, n, text, i - 1)
    <3>3. g \in Picture /\ Pen(v, m) /\ Shows(v, g) /\ m \div v.termWidth <= Rows
      BY <2>3, <2>4, <2>6, <3>2
    <3> HIDE DEF g
    <3>4. /\ Pen(u, m + 1) /\ (u.wrap <=> (m + 1) % v.termWidth = 0)
          /\ Shows(u, [g EXCEPT ![m] = text[i]])
      BY <2>1, <2>2, <3>3, PutSees
    <3> QED BY <2>1, <2>3, <3>1, <3>4 DEF g
  <2>7. Good(i)
    BY <2>5, <2>6 DEF u
  <2> QED BY <2>1, <2>7
<1>4. 0..len \subseteq T
  <2> HIDE DEF T
  <2> QED BY <1>0, <1>2, <1>3, Reaches
<1>5. Good(len)
  BY <1>0, <1>4
<1>6. \A f \in Picture : Part(f, n, text, len) = Over(f, n, text)
  BY PartIs
<1> DEFINE q == Queue(t, text)
           u == AdvanceCursor(q, len)
<1>7. q \in Screen /\ q = s[len]
  BY <1>0, <1>1
<1>8. /\ Stands(q, n) /\ q.termWidth = w /\ q.maxLine = t.maxLine
      /\ \A f \in Picture : Sees(t, n, f) =>
           /\ Pen(q, n + len) /\ Shows(q, Over(f, n, text))
           /\ q.wrap <=> (n + len) % w = 0
  BY <1>0, <1>5, <1>6, <1>7 DEF Stands
<1> HIDE DEF q, len, w
<1>9. /\ u \in Screen /\ Stands(u, n + len) /\ u.cell = q.cell
      /\ u.termWidth = q.termWidth /\ q.maxLine <= u.maxLine
      /\ len > 0 /\ Pen(q, n + len) /\ (q.wrap <=> (n + len) % q.termWidth = 0)
           /\ (n + len) \div q.termWidth <= Rows
         => ~u.wrap /\ Pen(u, n + len)
  BY <1>0, <1>7, <1>8, AdvanceDoes
<1> HIDE DEF u
<1>10. ASSUME NEW f \in Picture, Sees(t, n, f)
       PROVE  Sees(u, n + len, Over(f, n, text))
  <2>1. /\ len > 0 /\ Pen(q, n + len) /\ (q.wrap <=> (n + len) % q.termWidth = 0)
        /\ (n + len) \div q.termWidth <= Rows
    BY <1>0, <1>8, <1>10 DEF len, w
  <2>2. ~u.wrap /\ Pen(u, n + len)
    BY <1>9, <2>1
  <2>3. Shows(u, Over(f, n, text))
    BY <1>8, <1>9, <1>10 DEF Shows
  <2> QED BY <2>2, <2>3 DEF Sees
<1> QED BY <1>8, <1>9, <1>10 DEF Wrote, u, q, len, w

\* The cursor goes from where it stands to character p of the line.
Went(t, u, m) ==
  /\ u \in Screen /\ Stands(u, m)
  /\ u.termWidth = t.termWidth /\ u.maxLine = t.maxLine

\* moveCursorToPos: the screen's cursor comes along, if it was where it was thought.
LEMMA MoveCursorMoves ==
  ASSUME NEW t \in Screen, NEW p \in Nat,
         (Len(Prompt) + p) \div t.termWidth <= t.maxLine
  PROVE  /\ Went(t, MoveCursorToPos(t, p), Len(Prompt) + p)
         /\ \A n \in Nat, f \in Picture :
              Stands(t, n) /\ Sees(t, n, f) /\ (Len(Prompt) + p) \div t.termWidth <= Rows =>
                Sees(MoveCursorToPos(t, p), Len(Prompt) + p, f)
<1> DEFINE w == t.termWidth
           to == Len(Prompt) + p
           x == to % w
           y == to \div w
           s == [t EXCEPT !.cursorX = x, !.cursorY = y]
           u == MoveCursorToPos(t, p)
<1>1. w \in Nat \ {0} /\ Rows \in Nat /\ to \in Nat
  BY WindowType, EditorAssumption, LenProperties DEF EditorAssumption
<1>2. x \in 0..(w - 1) /\ y \in Nat
  BY <1>1, Division
<1>3. /\ t.x < t.termWidth /\ t.cursorX \in Int /\ t.cursorY \in Int
  BY DEF Screen
<1>4. u = Move(s, y - t.cursorY, x - t.cursorX)
  BY DEF MoveCursorToPos
<1>5. x \in Nat /\ x < w
  BY <1>1, <1>2
<1> HIDE DEF x, y, u, to
<1>6. /\ s.x = t.x /\ s.y = t.y /\ s.wrap = t.wrap /\ s.cell = t.cell
      /\ s.cursorX = x /\ s.cursorY = y /\ s.maxLine = t.maxLine /\ s.termWidth = w
  BY Zenon DEF Screen
<1>7. s \in [cursorX : Nat, cursorY : Nat, maxLine : Nat, termWidth : Widths,
          x : Nat, y : 0..Rows, wrap : BOOLEAN, cell : [Place -> Glyph]]
  BY <1>2, <1>5, Zenon DEF Screen
<1> HIDE DEF s, w
<1>8. s \in Screen
  BY <1>3, <1>5, <1>6, <1>7 DEF Screen, w
<1>9. y - t.cursorY \in Int /\ x - t.cursorX \in Int
  BY <1>2, <1>3, <1>5
<1>10. /\ u \in Screen /\ u.cell = s.cell
       /\ u.cursorX = s.cursorX /\ u.cursorY = s.cursorY /\ u.maxLine = s.maxLine
       /\ u.termWidth = s.termWidth
       /\ ~s.wrap => /\ ~u.wrap
                     /\ u.y = Clamp(s.y + (y - t.cursorY), Rows)
                     /\ u.x = Clamp(s.x + (x - t.cursorX), s.termWidth - 1)
  BY <1>4, <1>8, <1>9, MoveDoes
<1>11. Went(t, u, to)
  BY <1>6, <1>10 DEF Went, Stands, x, y, w, to
<1>12. ASSUME NEW n \in Nat, NEW f \in Picture, Stands(t, n), Sees(t, n, f), y <= Rows
       PROVE  Sees(u, to, f)
  <2>1. ~t.wrap /\ t.x = t.cursorX /\ t.y = t.cursorY
    BY <1>12 DEF Sees, Pen, Stands
  <2>2. u.y = y
    <3>1. s.y + (y - t.cursorY) = y
      BY <1>2, <1>3, <1>6, <2>1
    <3> QED BY <1>1, <1>2, <1>6, <1>10, <1>12, <2>1, <3>1 DEF Clamp
  <2>3. u.x = x
    <3>1. s.x + (x - t.cursorX) = x
      BY <1>3, <1>5, <1>6, <2>1
    <3> QED BY <1>1, <1>5, <1>6, <1>10, <2>1, <3>1 DEF Clamp
  <2>4. ~u.wrap /\ Pen(u, to)
    BY <1>6, <1>10, <2>1, <2>2, <2>3 DEF Pen, x, y
  <2>5. Shows(u, f)
    BY <1>6, <1>10, <1>12 DEF Shows, Sees, w
  <2> QED BY <2>4, <2>5 DEF Sees
<1> QED BY <1>11, <1>12 DEF u, to, y, w

-----------------------------------------------------------------------------
(* A line on the screen *)

\* The line is behind the prompt.
Behind == Len(Prompt)
Line(l) == Text(Prompt \o l)

\* Prompts and lines are texts.
LEMMA PromptType ==
  /\ Prompt \in Seq(Glyph) /\ Behind \in Nat \ {0}
  /\ \A l \in Seq(Rune) : l \in Seq(Glyph)
<1>1. Prompt \in Seq({Mark}) /\ Prompt # <<>>
  BY EditorAssumption DEF EditorAssumption
<1>2. {Mark} \subseteq Glyph /\ Rune \subseteq Glyph
  BY DEF Glyph
<1>3. Behind \in Nat \ {0}
  BY <1>1, EmptySeq, LenProperties DEF Behind
<1> QED BY <1>1, <1>2, <1>3

\* Blanks are a text.
LEMMA Blank ==
  ASSUME NEW n \in Nat
  PROVE  /\ Blanks(n) \in Seq(Glyph) /\ Len(Blanks(n)) = n
         /\ \A i \in 1..n : Blanks(n)[i] = Space
<1>1. Space \in Glyph
  BY EditorAssumption DEF EditorAssumption, Glyph
<1> QED BY <1>1 DEF Blanks

\* What a text looks like on an empty screen is a picture.
LEMMA TextType ==
  ASSUME NEW s \in Seq(Glyph)
  PROVE  Text(s) \in Picture
<1>1. Space \in Glyph
  BY EditorAssumption DEF EditorAssumption, Glyph
<1>2. Len(s) \in Nat /\ \A i \in 1..Len(s) : s[i] \in Glyph
  BY LenProperties, ElementOfSeq
<1>3. \A k \in Nat : k < Len(s) => k + 1 \in 1..Len(s)
  BY <1>2
<1> QED BY <1>1, <1>2, <1>3 DEF Text, Picture

\* A picture that is drawn over is one.
LEMMA OverType ==
  ASSUME NEW f \in Picture, NEW n \in Nat, NEW s \in Seq(Glyph)
  PROVE  Over(f, n, s) \in Picture
<1>1. Len(s) \in 0..Len(s)
  BY LenProperties
<1> QED BY <1>1, PartIs

\* What the prompt and a line look like, character by character.
LEMMA LineIs ==
  ASSUME NEW l \in Seq(Rune)
  PROVE  /\ Line(l) \in Picture /\ Len(Prompt \o l) = Behind + Len(l)
         /\ \A k \in Nat : Line(l)[k] = IF k < Behind THEN Prompt[k + 1]
                                        ELSE IF k < Behind + Len(l) THEN l[k - Behind + 1]
                                        ELSE Space
<1> DEFINE s == Prompt \o l
<1>1. /\ Prompt \in Seq(Glyph) /\ l \in Seq(Glyph) /\ Behind \in Nat /\ Len(l) \in Nat
  BY PromptType, LenProperties
<1>2. /\ s \in Seq(Glyph) /\ Len(s) = Behind + Len(l)
      /\ \A i \in 1..(Behind + Len(l)) :
           s[i] = IF i <= Behind THEN Prompt[i] ELSE l[i - Behind]
  BY <1>1, ConcatProperties DEF Behind
<1> HIDE DEF s
<1>3. Text(s) \in Picture
  BY <1>2, TextType
<1>4. ASSUME NEW k \in Nat
      PROVE  Text(s)[k] = IF k < Behind THEN Prompt[k + 1]
                          ELSE IF k < Behind + Len(l) THEN l[k - Behind + 1] ELSE Space
  <2>1. Text(s)[k] = IF k < Behind + Len(l) THEN s[k + 1] ELSE Space
    BY <1>2 DEF Text
  <2>2. CASE k < Behind
    <3>1. k + 1 \in 1..(Behind + Len(l)) /\ k + 1 <= Behind /\ k < Behind + Len(l)
      BY <1>1, <2>2
    <3>2. s[k + 1] = Prompt[k + 1]
      BY <1>2, <3>1
    <3> QED BY <2>1, <2>2, <3>1, <3>2
  <2>3. CASE ~(k < Behind) /\ k < Behind + Len(l)
    <3>1. /\ k + 1 \in 1..(Behind + Len(l)) /\ ~(k + 1 <= Behind)
          /\ (k + 1) - Behind = k - Behind + 1
      BY <1>1, <2>3
    <3>2. s[k + 1] = l[(k + 1) - Behind]
      BY <1>2, <3>1
    <3> QED BY <2>1, <2>3, <3>1, <3>2
  <2>4. CASE ~(k < Behind) /\ ~(k < Behind + Len(l))
    BY <2>1, <2>4
  <2> QED BY <2>2, <2>3, <2>4
<1> QED BY <1>2, <1>3, <1>4 DEF s, Line

\* Drawing what a line has from p on, and blanks over what is left of the old one,
\* makes the old line the new one.
LEMMA OverTail ==
  ASSUME NEW l \in Seq(Rune), NEW new \in Seq(Rune), NEW p \in 0..Len(l), p <= Len(new),
         \A i \in 1..p : new[i] = l[i],
         NEW b \in Nat, Len(l) <= Len(new) + b
  PROVE  Over(Over(Line(l), Behind + p, SubSeq(new, p + 1, Len(new))),
              Behind + Len(new), Blanks(b)) = Line(new)
<1> DEFINE tail == SubSeq(new, p + 1, Len(new))
           f == Over(Line(l), Behind + p, tail)
           g == Over(f, Behind + Len(new), Blanks(b))
           n == Len(new)
<1>1. /\ Behind \in Nat /\ Len(l) \in Nat /\ n \in Nat /\ p \in Nat /\ p <= Len(l) /\ p <= n
      /\ Len(l) <= n + b
  BY PromptType, LenProperties
<1>2. /\ tail \in Seq(Rune) /\ Len(tail) = n - p
      /\ \A i \in 1..(n - p) : tail[i] = new[p + i]
  <2>1. \A i \in (p + 1)..n : new[i] \in Rune
    BY <1>1, ElementOfSeq
  <2>2. /\ tail \in Seq(Rune) /\ Len(tail) = IF p + 1 <= n THEN n - (p + 1) + 1 ELSE 0
        /\ \A i \in 1..(n - (p + 1) + 1) : tail[i] = new[(p + 1) + i - 1]
    BY <1>1, <2>1, SubSeqProperties
  <2> HIDE DEF tail, n
  <2>3. Len(tail) = n - p /\ n - (p + 1) + 1 = n - p
    BY <1>1, <2>2
  <2>4. \A i \in 1..(n - p) : (p + 1) + i - 1 = p + i
    BY <1>1
  <2> QED BY <2>2, <2>3, <2>4
<1>3. Len(Blanks(b)) = b /\ \A i \in 1..b : Blanks(b)[i] = Space
  BY Blank
<1> DEFINE L(k) == IF k < Behind THEN Prompt[k + 1]
                   ELSE IF k < Behind + Len(l) THEN l[k - Behind + 1] ELSE Space
           N(k) == IF k < Behind THEN Prompt[k + 1]
                   ELSE IF k < Behind + n THEN new[k - Behind + 1] ELSE Space
<1>4. /\ \A k \in Nat : Line(l)[k] = L(k) /\ Line(new)[k] = N(k)
      /\ Line(new) \in Picture
  BY LineIs
<1>5. /\ \A k \in Nat : f[k] = IF Behind + p <= k /\ k < Behind + p + Len(tail)
                               THEN tail[k - (Behind + p) + 1] ELSE Line(l)[k]
      /\ \A k \in Nat : g[k] = IF Behind + n <= k /\ k < Behind + n + Len(Blanks(b))
                               THEN Blanks(b)[k - (Behind + n) + 1] ELSE f[k]
      /\ g = [k \in Nat |-> g[k]]
  BY DEF Over
<1> HIDE DEF tail, f, g, n, L, N
<1>6. ASSUME NEW k \in Nat PROVE g[k] = N(k)
  <2>1. CASE k < Behind + p
    <3>1. ~(Behind + n <= k) /\ ~(Behind + p <= k)
      BY <1>1, <2>1
    <3>2. g[k] = L(k)
      BY <1>4, <1>5, <3>1
    <3>3. ASSUME ~(k < Behind)
          PROVE  /\ k < Behind + Len(l) /\ k < Behind + n
                 /\ l[k - Behind + 1] = new[k - Behind + 1]
      <4>1. k - Behind + 1 \in 1..p
        BY <1>1, <2>1, <3>3
      <4> QED BY <1>1, <2>1, <4>1
    <3> QED BY <3>2, <3>3 DEF L, N
  <2>2. CASE Behind + p <= k /\ k < Behind + n
    <3>1. ~(Behind + n <= k) /\ k < Behind + p + Len(tail) /\ ~(k < Behind)
      BY <1>1, <1>2, <2>2
    <3>2. k - (Behind + p) + 1 \in 1..(n - p) /\ p + (k - (Behind + p) + 1) = k - Behind + 1
      BY <1>1, <2>2
    <3>3. g[k] = new[k - Behind + 1]
      BY <1>2, <1>5, <2>2, <3>1, <3>2
    <3> QED BY <2>2, <3>1, <3>3 DEF N
  <2>3. CASE Behind + n <= k /\ k < Behind + n + b
    <3>1. k - (Behind + n) + 1 \in 1..b /\ ~(k < Behind) /\ ~(k < Behind + n)
      BY <1>1, <2>3
    <3>2. g[k] = Space
      BY <1>3, <1>5, <2>3, <3>1
    <3> QED BY <3>1, <3>2 DEF N
  <2>4. CASE Behind + n + b <= k
    <3>1. /\ ~(k < Behind + n + b) /\ ~(k < Behind + p + Len(tail))
          /\ ~(k < Behind) /\ ~(k < Behind + n) /\ ~(k < Behind + Len(l))
      BY <1>1, <1>2, <2>4
    <3>2. g[k] = L(k)
      BY <1>3, <1>4, <1>5, <3>1
    <3> QED BY <3>1, <3>2 DEF L, N
  <2> QED BY <1>1, <2>1, <2>2, <2>3, <2>4
<1>7. Line(new) = [k \in Nat |-> Line(new)[k]]
  BY <1>4 DEF Picture
<1>8. g = Line(new)
  BY <1>4, <1>5, <1>6, <1>7
<1> QED BY <1>8 DEF f, g, tail, n

\* Drawing nothing changes nothing.
LEMMA WroteNothing ==
  ASSUME NEW t \in Screen, NEW n \in Nat, Stands(t, n), NEW s \in Seq(Glyph), Len(s) = 0
  PROVE  Wrote(t, t, n, s)
<1>1. \A f \in Picture : Over(f, n, s) = f
  <2>1. ASSUME NEW f \in Picture PROVE Over(f, n, s) = f
    <3>1. \A k \in Nat : ~(n <= k /\ k < n + Len(s))
      OBVIOUS
    <3> QED BY <3>1 DEF Over, Picture
  <2> QED BY <2>1
<1>2. n + Len(s) = n /\ t.maxLine <= t.maxLine
  BY ScreenIs
<1> QED BY <1>1, <1>2 DEF Wrote

\* A line that was shown is redrawn from p on as a new one, with the cursor at q.
Drawn(t, u, l, new, p, q) ==
  /\ u \in Screen /\ u.termWidth = t.termWidth
  /\ Stands(u, Behind + q) /\ (Behind + Len(new)) \div u.termWidth <= u.maxLine
  /\ Sees(t, Behind + p, Line(l)) => Sees(u, Behind + q, Line(new))

\* Draw the tail of the new line, hide the rest of the old one, go to q: the common
\* shape of the keys that edit.
LEMMA Redraw ==
  ASSUME NEW t \in Screen, NEW l \in Seq(Rune), NEW new \in Seq(Rune),
         NEW p \in 0..Len(l), p <= Len(new), \A i \in 1..p : new[i] = l[i],
         NEW b \in Nat, Len(l) <= Len(new) + b,
         (Behind + Len(new) + b) \div t.termWidth <= Rows,
         NEW q \in 0..Len(new), NEW u, NEW v,
         Wrote(t, u, Behind + p, SubSeq(new, p + 1, Len(new))),
         Wrote(u, v, Behind + Len(new), Blanks(b))
  PROVE  Drawn(t, MoveCursorToPos(v, q), l, new, p, q)
<1> DEFINE n == Len(new)
           w == t.termWidth
           tail == SubSeq(new, p + 1, n)
           f == Over(Line(l), Behind + p, tail)
           x == MoveCursorToPos(v, q)
<1>1. /\ Behind \in Nat /\ n \in Nat /\ w \in Nat \ {0} /\ p \in Nat /\ p <= n
      /\ q \in Nat /\ q <= n
  BY PromptType, LenProperties, WindowType
<1>2. tail \in Seq(Rune) /\ Len(tail) = n - p
  <2>1. p \in 0..Len(new)
    BY <1>1
  <2> QED BY <2>1, Parts
<1>3. /\ u \in Screen /\ u.termWidth = w /\ (Behind + p) + Len(tail) = Behind + n
      /\ \A g \in Picture : Sees(t, Behind + p, g) => Sees(u, Behind + n, Over(g, Behind + p, tail))
  <2>1. (Behind + p) + Len(tail) = Behind + n
    BY <1>1, <1>2
  <2> QED BY <2>1 DEF Wrote
<1>4. /\ v \in Screen /\ v.termWidth = w /\ Stands(v, (Behind + n) + b)
      /\ \A g \in Picture : Sees(u, Behind + n, g) =>
           Sees(v, (Behind + n) + b, Over(g, Behind + n, Blanks(b)))
  BY <1>3, Blank DEF Wrote
<1>5. /\ Line(l) \in Picture /\ f \in Picture
  <2>1. tail \in Seq(Glyph) /\ Behind + p \in Nat
    BY <1>1, <1>2, PromptType
  <2> HIDE DEF tail
  <2> QED BY <2>1, LineIs, OverType
<1>6. Over(f, Behind + n, Blanks(b)) = Line(new)
  BY <1>1, OverTail
<1> HIDE DEF n, w, tail, f, x
<1>7. /\ (Behind + n) \div w <= v.maxLine /\ (Behind + q) \div w <= v.maxLine
      /\ (Behind + q) \div w <= Rows
  <2>1. /\ Behind + n \in Nat /\ Behind + q \in Nat /\ (Behind + n) + b \in Nat
        /\ Behind + n <= (Behind + n) + b /\ Behind + q <= (Behind + n) + b
    BY <1>1
  <2>2. ((Behind + n) + b) \div w <= v.maxLine
    BY <1>4 DEF Stands
  <2>3. /\ (Behind + n) \div w <= ((Behind + n) + b) \div w
        /\ (Behind + q) \div w <= ((Behind + n) + b) \div w
        /\ (Behind + n) \div w \in Nat /\ (Behind + q) \div w \in Nat
        /\ ((Behind + n) + b) \div w \in Nat
    BY <1>1, <2>1, RowsGrow, Division
  <2>4. v.maxLine \in Nat
    BY <1>4, ScreenIs
  <2>5. ((Behind + n) + b) \div w <= Rows /\ Rows \in Nat
    BY EditorAssumption DEF n, w, EditorAssumption
  <2> QED BY <2>2, <2>3, <2>4, <2>5
<1>8. /\ Went(v, x, Behind + q)
      /\ \A m \in Nat, g \in Picture : Stands(v, m) /\ Sees(v, m, g) => Sees(x, Behind + q, g)
  <2>1. (Len(Prompt) + q) \div v.termWidth <= v.maxLine /\ (Len(Prompt) + q) \div v.termWidth <= Rows
    BY <1>4, <1>7 DEF Behind
  <2> QED BY <1>1, <1>4, <2>1, MoveCursorMoves DEF Behind, x
<1>9. ASSUME Sees(t, Behind + p, Line(l)) PROVE Sees(x, Behind + q, Line(new))
  <2>1. Sees(v, (Behind + n) + b, Line(new))
    BY <1>3, <1>4, <1>5, <1>6, <1>9 DEF f
  <2>2. (Behind + n) + b \in Nat /\ Line(new) \in Picture
    BY <1>1, LineIs
  <2> QED BY <1>4, <1>8, <2>1, <2>2
<1> QED BY <1>4, <1>7, <1>8, <1>9 DEF Drawn, Went, n, w, x

-----------------------------------------------------------------------------
(* The keys *)

\* The invariant while a line is read.
LEMMA PaintedIs ==
  ASSUME Painted, reading
  PROVE  /\ term \in Screen /\ exact \in BOOLEAN /\ Stands(term, Behind + pos)
         /\ (Behind + Len(line)) \div term.termWidth <= term.maxLine
         /\ exact => Sees(term, Behind + pos, Line(line))
BY DEF Painted, Here, There, Behind, Line

\* What a step has to establish for it.
LEMMA PaintedBy ==
  ASSUME reading' = TRUE, exact' \in BOOLEAN, term' \in Screen, Stands(term', Behind + pos'),
         (Behind + Len(line')) \div term'.termWidth <= term'.maxLine,
         exact' => Sees(term', Behind + pos', Line(line'))
  PROVE  Painted'
BY DEF Painted, Here, There, Behind, Line

\* There are rows enough for every line.
LEMMA RoomForLines ==
  ASSUME NEW t \in Screen, NEW n \in Nat, n <= MaxPasted
  PROVE  (Behind + n) \div t.termWidth < Rows /\ (Behind + n) \div t.termWidth <= Rows
<1> DEFINE w == t.termWidth
<1>1. w \in Widths /\ w \in Nat \ {0} /\ Behind \in Nat /\ MaxPasted \in Nat /\ Rows \in Nat
  BY WindowType, PromptType, EditorAssumption DEF EditorAssumption
<1>2. (Behind + MaxPasted) \div w < Rows
  BY <1>1, EditorAssumption DEF EditorAssumption, Behind
<1> HIDE DEF w
<1>3. Behind + n \in Nat /\ Behind + MaxPasted \in Nat /\ Behind + n <= Behind + MaxPasted
  BY <1>1
<1>4. /\ (Behind + n) \div w <= (Behind + MaxPasted) \div w
      /\ (Behind + n) \div w \in Nat /\ (Behind + MaxPasted) \div w \in Nat
  BY <1>1, <1>3, RowsGrow, Division
<1> QED BY <1>1, <1>2, <1>4 DEF w

\* All rows before a row the terminal knows of are known.
LEMMA RowsKnown ==
  ASSUME NEW t \in Screen, NEW n \in Nat, NEW m \in Nat, n <= m, m \div t.termWidth <= t.maxLine
  PROVE  n \div t.termWidth <= t.maxLine
<1> DEFINE w == t.termWidth
<1>1. w \in Nat \ {0} /\ t.maxLine \in Nat
  BY WindowType, ScreenIs
<1> HIDE DEF w
<1>2. n \div w <= m \div w /\ n \div w \in Nat /\ m \div w \in Nat
  BY <1>1, RowsGrow, Division
<1> QED BY <1>1, <1>2 DEF w

\* The cursor goes to a character of the line.
LEMMA ToCharacter ==
  ASSUME Painted, LineType, reading, Bounded, NEW p \in 0..Len(line)
  PROVE  LET t == MoveCursorToPos(term, p) IN
         /\ t \in Screen /\ Stands(t, Behind + p)
         /\ t.termWidth = term.termWidth /\ t.maxLine = term.maxLine
         /\ exact => Sees(t, Behind + p, Line(line))
<1>1. /\ term \in Screen /\ Stands(term, Behind + pos)
      /\ (Behind + Len(line)) \div term.termWidth <= term.maxLine
      /\ exact => Sees(term, Behind + pos, Line(line))
  BY PaintedIs
<1>2. line \in Seq(Rune) /\ p \in Nat /\ pos \in Nat /\ Behind \in Nat /\ Len(line) \in Nat
  BY PromptType, LenProperties DEF LineType
<1>3. Len(line) <= MaxPasted /\ MaxPasted \in Nat
  BY EditorAssumption DEF Bounded, EditorAssumption
<1>4. (Behind + p) \div term.termWidth <= term.maxLine
  <2>1. Behind + p \in Nat /\ Behind + Len(line) \in Nat /\ Behind + p <= Behind + Len(line)
    BY <1>2
  <2> QED BY <1>1, <2>1, RowsKnown
<1>5. (Behind + p) \div term.termWidth <= Rows
  <2>1. p <= MaxPasted
    BY <1>2, <1>3
  <2> QED BY <1>1, <1>2, <2>1, RoomForLines
<1>6. Line(line) \in Picture /\ Behind + pos \in Nat
  BY <1>2, LineIs
<1> DEFINE t == MoveCursorToPos(term, p)
<1>7. /\ Went(term, t, Behind + p)
      /\ \A n \in Nat, f \in Picture :
           Stands(term, n) /\ Sees(term, n, f) /\ (Behind + p) \div term.termWidth <= Rows =>
             Sees(t, Behind + p, f)
  BY <1>1, <1>2, <1>4, MoveCursorMoves DEF Behind
<1> HIDE DEF t
<1>8. exact => Sees(t, Behind + p, Line(line))
  BY <1>1, <1>5, <1>6, <1>7
<1> QED BY <1>7, <1>8 DEF Went, t

\* The keys that move the cursor.
LEMMA CursorKeyPaints ==
  ASSUME Painted, Bounded, LineType, CursorKey
  PROVE  Painted' /\ Bounded'
<1>1. /\ UNCHANGED <<reading, line, exact, histVars>> /\ pos' \in 0..Len(line)
      /\ reading /\ term' = MoveCursorToPos(term, pos')
  BY CursorKeys DEF CursorKey, Left, Right, Home, End, AltLeft, AltRight, Go
<1>2. /\ term' \in Screen /\ Stands(term', Behind + pos')
      /\ term'.termWidth = term.termWidth /\ term'.maxLine = term.maxLine
      /\ exact => Sees(term', Behind + pos', Line(line))
  BY <1>1, ToCharacter
<1>3. /\ reading' = TRUE /\ exact' \in BOOLEAN /\ line' = line /\ exact' = exact
      /\ (Behind + Len(line)) \div term.termWidth <= term.maxLine
  BY <1>1, PaintedIs DEF LineType
<1>4. Painted'
  BY <1>2, <1>3, PaintedBy
<1>5. Bounded'
  BY <1>1 DEF Bounded, histVars
<1> QED BY <1>4, <1>5

\* A key that draws the line anew from character p on, as seen from t.
LEMMA RedrawPaints ==
  ASSUME NEW t, NEW l, NEW p, Drawn(t, term', l, line', p, pos'),
         exact' => Sees(t, Behind + p, Line(l)), reading' = TRUE, exact' \in BOOLEAN
  PROVE  Painted'
<1>1. exact' => Sees(term', Behind + pos', Line(line'))
  BY DEF Drawn
<1> QED BY <1>1, PaintedBy DEF Drawn

\* What a line was before the character put into it, and after.
LEMMA InsertedIs ==
  ASSUME LineType, NEW r \in Rune, Insert(r)
  PROVE  /\ line' \in Seq(Rune) /\ Len(line') = Len(line) + 1 /\ pos' = pos + 1
         /\ \A i \in 1..pos : line'[i] = line[i]
<1> DEFINE before == SubSeq(line, 1, pos)
           after == SubSeq(line, pos + 1, Len(line))
           longer == before \o <<r>>
<1>0. pos \in Nat /\ Len(line) \in Nat /\ pos \in 0..Len(line) /\ line \in Seq(Rune)
  BY LenProperties DEF LineType
<1>1. /\ before \in Seq(Rune) /\ Len(before) = pos
      /\ after \in Seq(Rune) /\ Len(after) = Len(line) - pos
  BY <1>0, Parts
<1>2. \A i \in 1..pos : before[i] = line[i]
  <2>1. \A i \in 1..pos : line[i] \in Rune /\ 1 + i - 1 = i
    BY <1>0, ElementOfSeq
  <2> QED BY <1>0, <2>1, SubSeqProperties
<1>3. line' = longer \o after /\ pos' = pos + 1
  BY DEF Insert
<1> HIDE DEF before, after
<1>4. <<r>> \in Seq(Rune) /\ Len(<<r>>) = 1
  OBVIOUS
<1>5. /\ longer \in Seq(Rune) /\ Len(longer) = pos + 1
      /\ \A i \in 1..pos : longer[i] = line[i]
  BY <1>0, <1>1, <1>2, <1>4, ConcatProperties
<1> HIDE DEF longer
<1> DEFINE new == longer \o after
<1>6. /\ new \in Seq(Rune) /\ Len(new) = (pos + 1) + (Len(line) - pos)
      /\ \A i \in 1..pos : new[i] = longer[i]
  <2>1. /\ new \in Seq(Rune) /\ Len(new) = Len(longer) + Len(after)
        /\ \A i \in 1..(Len(longer) + Len(after)) :
             new[i] = IF i <= Len(longer) THEN longer[i] ELSE after[i - Len(longer)]
    BY <1>1, <1>5, ConcatProperties
  <2>2. Len(longer) = pos + 1 /\ Len(after) = Len(line) - pos
    BY <1>1, <1>5
  <2> HIDE DEF new
  <2>3. \A i \in 1..pos : i \in 1..(Len(longer) + Len(after)) /\ i <= Len(longer)
    BY <1>0, <2>2
  <2> QED BY <2>1, <2>2, <2>3
<1>7. new = line'
  BY <1>3
<1> HIDE DEF new
<1>8. (pos + 1) + (Len(line) - pos) = Len(line) + 1
  BY <1>0
<1> QED BY <1>3, <1>5, <1>6, <1>7, <1>8

\* A tail of a line is drawn, and the blanks that hide the rest of an old one.
LEMMA TailWrites ==
  ASSUME NEW t \in Screen, NEW new \in Seq(Rune), Len(new) <= MaxPasted,
         NEW p \in 0..Len(new), Stands(t, Behind + p)
  PROVE  LET tail == SubSeq(new, p + 1, Len(new))
             u == WriteLine(t, tail)
         IN Wrote(t, u, Behind + p, tail) /\ u \in Screen /\ Stands(u, Behind + Len(new))
<1> DEFINE n == Len(new)
           tail == SubSeq(new, p + 1, n)
<1>1. p \in Nat /\ n \in Nat /\ Behind \in Nat /\ n <= MaxPasted
  BY PromptType, LenProperties
<1>2. tail \in Seq(Rune) /\ Len(tail) = n - p
  BY Parts
<1>3. (Behind + n) \div t.termWidth <= Rows
  BY <1>1, RoomForLines
<1> HIDE DEF tail, n
<1>4. Behind + p \in Nat /\ (Behind + p) + Len(tail) = Behind + n /\ tail \in Seq(Glyph)
  <2>1. tail \in Seq(Glyph)
    BY <1>2, PromptType
  <2> DEFINE m == Len(tail)
  <2>2. m = n - p
    BY <1>2
  <2> HIDE DEF m
  <2>3. Behind + p \in Nat /\ (Behind + p) + m = Behind + n
    BY <1>1, <2>2
  <2> QED BY <2>1, <2>3 DEF m
<1>5. Wrote(t, WriteLine(t, tail), Behind + p, tail)
  BY <1>3, <1>4, WriteLineWrites
<1> QED BY <1>4, <1>5 DEF Wrote, tail, n

\* The three ways in which the code writes blanks, one of them for none.
LEMMA BlanksWrite ==
  ASSUME NEW u \in Screen, NEW n \in Nat, NEW b \in Nat, n + b <= MaxPasted,
         Stands(u, Behind + n)
  PROVE  /\ Wrote(u, WriteLine(u, Blanks(b)), Behind + n, Blanks(b))
         /\ b > 0 => Wrote(u, AdvanceCursor(Queue(u, Blanks(b)), b), Behind + n, Blanks(b))
         /\ b = 0 => Wrote(u, u, Behind + n, Blanks(b))
<1>1. Blanks(b) \in Seq(Glyph) /\ Len(Blanks(b)) = b
  BY Blank
<1>2. Behind \in Nat /\ n + b \in Nat /\ (Behind + n) + b = Behind + (n + b) /\ Behind + n \in Nat
  BY PromptType
<1>3. (Behind + (n + b)) \div u.termWidth <= Rows
  BY <1>2, RoomForLines
<1> DEFINE s == Blanks(b)
<1> HIDE DEF s
<1>4. s \in Seq(Glyph) /\ Len(s) = b /\ (Behind + n + Len(s)) \div u.termWidth <= Rows
  BY <1>1, <1>2, <1>3 DEF s
<1>5. Wrote(u, WriteLine(u, s), Behind + n, s)
  BY <1>2, <1>4, WriteLineWrites
<1>6. b > 0 => Wrote(u, AdvanceCursor(Queue(u, s), b), Behind + n, s)
  BY <1>2, <1>4, QueueWrites
<1>7. b = 0 => Wrote(u, u, Behind + n, s)
  BY <1>2, <1>4, WroteNothing
<1> QED BY <1>5, <1>6, <1>7 DEF s

\* Redraw, with room for it known from the bound on lines.
LEMMA RedrawFits ==
  ASSUME NEW t \in Screen, NEW l \in Seq(Rune), NEW new \in Seq(Rune),
         NEW p \in 0..Len(l), p <= Len(new), \A i \in 1..p : new[i] = l[i],
         NEW b \in Nat, Len(l) <= Len(new) + b, Len(new) + b <= MaxPasted,
         NEW q \in 0..Len(new), NEW u, NEW v,
         Wrote(t, u, Behind + p, SubSeq(new, p + 1, Len(new))),
         Wrote(u, v, Behind + Len(new), Blanks(b))
  PROVE  Drawn(t, MoveCursorToPos(v, q), l, new, p, q)
<1> DEFINE n == Len(new)
<1>1. n \in Nat /\ Behind \in Nat
  BY PromptType, LenProperties
<1>2. n + b <= MaxPasted
  OBVIOUS
<1> HIDE DEF n
<1>3. n + b \in Nat /\ Behind + (n + b) = Behind + n + b
  BY <1>1
<1>4. (Behind + n + b) \div t.termWidth <= Rows
  <2>1. (Behind + (n + b)) \div t.termWidth <= Rows
    BY <1>2, <1>3, RoomForLines
  <2> QED BY <1>3, <2>1
<1> QED BY <1>4, Redraw DEF n

\* addKeyToLine.
LEMMA InsertPaints ==
  ASSUME Painted, Bounded, LineType, NEW r \in Rune, Typed(r) \/ Pasted(r)
  PROVE  Painted' /\ Bounded'
<1> DEFINE tail == SubSeq(line', pos + 1, Len(line'))
           u == WriteLine(term, tail)
<1>0. /\ Insert(r) /\ reading = TRUE /\ Len(line) < MaxPasted /\ reading' = TRUE
      /\ exact' = exact /\ UNCHANGED histVars /\ term' = MoveCursorToPos(u, pos')
  BY DEF Typed, Pasted, Insert, LineType
<1>1. /\ line' \in Seq(Rune) /\ Len(line') = Len(line) + 1 /\ pos' = pos + 1
      /\ \A i \in 1..pos : line'[i] = line[i]
  BY <1>0, InsertedIs
<1>2. /\ line \in Seq(Rune) /\ pos \in 0..Len(line) /\ pos \in Nat /\ Len(line) \in Nat
      /\ MaxPasted \in Nat
  BY LenProperties, EditorAssumption DEF LineType, EditorAssumption
<1>3. /\ Len(line') + 0 <= MaxPasted /\ pos' \in 0..Len(line') /\ pos <= Len(line')
      /\ pos \in 0..Len(line') /\ Len(line') \in Nat
      /\ Len(line) <= Len(line') + 0 /\ Len(line') <= MaxPasted
  BY <1>0, <1>1, <1>2
<1>4. /\ term \in Screen /\ exact \in BOOLEAN /\ Stands(term, Behind + pos)
      /\ exact => Sees(term, Behind + pos, Line(line))
  BY <1>0, PaintedIs
<1>5. /\ Wrote(term, u, Behind + pos, tail)
      /\ u \in Screen /\ Stands(u, Behind + Len(line'))
  BY <1>1, <1>3, <1>4, TailWrites
<1>6. Wrote(u, u, Behind + Len(line'), Blanks(0))
  BY <1>3, <1>5, BlanksWrite
<1> HIDE DEF u
<1>7. Drawn(term, term', line, line', pos, pos')
  <2>1. Drawn(term, MoveCursorToPos(u, pos'), line, line', pos, pos')
    BY <1>1, <1>2, <1>3, <1>4, <1>5, <1>6, RedrawFits
  <2> QED BY <1>0, <2>1
<1>8. Painted'
  BY <1>0, <1>4, <1>7, RedrawPaints
<1>9. Bounded'
  BY <1>0, <1>3 DEF Bounded, histVars
<1> QED BY <1>8, <1>9

\* What eraseNPreviousChars leaves of a line.
LEMMA ErasedIs ==
  ASSUME LineType, NEW p \in 0..Len(line), NEW n \in Nat, Erase(p, n)
  PROVE  LET k == IF p < n THEN p ELSE n IN
         /\ line' \in Seq(Rune) /\ Len(line') = Len(line) - k /\ pos' = p - k
         /\ k \in 1..p /\ pos' \in 0..Len(line) /\ pos' \in 0..Len(line')
         /\ \A i \in 1..pos' : line'[i] = line[i]
         /\ SubSeq(line', pos' + 1, Len(line')) = SubSeq(line, p + 1, Len(line))
<1> DEFINE k == IF p < n THEN p ELSE n
           b == SubSeq(line, 1, p - k)
           c == SubSeq(line, p + 1, Len(line))
<1>0. line \in Seq(Rune) /\ Len(line) \in Nat /\ p \in Nat
  BY LenProperties DEF LineType
<1>1. k \in 1..p /\ p - k \in 0..Len(line)
  BY <1>0 DEF Erase
<1>2. line' = b \o c /\ pos' = p - k
  BY DEF Erase
<1>3. SubSeq(line', pos' + 1, Len(line')) = c
  BY EraseLocal
<1> HIDE DEF k
<1>4. /\ b \in Seq(Rune) /\ Len(b) = p - k /\ c \in Seq(Rune) /\ Len(c) = Len(line) - p
  BY <1>0, <1>1, Parts
<1>5. \A i \in 1..(p - k) : b[i] = line[i]
  <2>1. \A i \in 1..(p - k) : line[i] \in Rune /\ 1 + i - 1 = i
    BY <1>0, <1>1, ElementOfSeq
  <2> QED BY <1>0, <1>1, <2>1, SubSeqProperties
<1> HIDE DEF b, c
<1> DEFINE new == b \o c
<1>6. /\ new \in Seq(Rune) /\ Len(new) = (p - k) + (Len(line) - p)
      /\ \A i \in 1..(p - k) : new[i] = b[i]
  <2>1. /\ new \in Seq(Rune) /\ Len(new) = Len(b) + Len(c)
        /\ \A i \in 1..(Len(b) + Len(c)) : new[i] = IF i <= Len(b) THEN b[i] ELSE c[i - Len(b)]
    BY <1>4, ConcatProperties
  <2> HIDE DEF new
  <2>2. \A i \in 1..(p - k) : i \in 1..(Len(b) + Len(c)) /\ i <= Len(b)
    BY <1>0, <1>1, <1>4
  <2> QED BY <1>4, <2>1, <2>2
<1>7. new = line'
  BY <1>2
<1> HIDE DEF new
<1>8. (p - k) + (Len(line) - p) = Len(line) - k /\ p - k \in 0..(Len(line) - k)
  BY <1>0, <1>1
<1> QED BY <1>1, <1>2, <1>3, <1>5, <1>6, <1>7, <1>8 DEF k, c

\* eraseNPreviousChars.
LEMMA ErasePaints ==
  ASSUME Painted, Bounded, LineType, NEW p \in 0..Len(line), NEW n \in Nat, Erase(p, n)
  PROVE  Painted' /\ Bounded'
<1> DEFINE k == IF p < n THEN p ELSE n
           t == MoveCursorToPos(term, p - k)
           u == WriteLine(t, SubSeq(line, p + 1, Len(line)))
           v == AdvanceCursor(Queue(u, Blanks(k)), k)
<1>0. /\ reading = TRUE /\ reading' = TRUE /\ exact' = exact /\ UNCHANGED histVars
      /\ term' = MoveCursorToPos(v, p - k)
  BY DEF Erase, LineType
<1>1. /\ line' \in Seq(Rune) /\ Len(line') = Len(line) - k /\ pos' = p - k
      /\ k \in 1..p /\ pos' \in 0..Len(line) /\ pos' \in 0..Len(line')
      /\ \A i \in 1..pos' : line'[i] = line[i]
      /\ SubSeq(line', pos' + 1, Len(line')) = SubSeq(line, p + 1, Len(line))
  BY ErasedIs
<1> HIDE DEF k
<1>2. /\ line \in Seq(Rune) /\ Len(line) \in Nat /\ MaxPasted \in Nat /\ Len(line) <= MaxPasted
      /\ p \in Nat /\ p <= Len(line)
  BY LenProperties, EditorAssumption DEF LineType, EditorAssumption, Bounded
<1>3. /\ Len(line') + k <= MaxPasted /\ Len(line') <= MaxPasted /\ Len(line') \in Nat
      /\ pos' <= Len(line') /\ Len(line) <= Len(line') + k /\ k \in Nat /\ k > 0
  BY <1>1, <1>2
<1>4. /\ t \in Screen /\ Stands(t, Behind + pos')
      /\ exact => Sees(t, Behind + pos', Line(line))
  BY <1>0, <1>1, ToCharacter
<1> HIDE DEF t
<1>5. /\ Wrote(t, u, Behind + pos', SubSeq(line', pos' + 1, Len(line')))
      /\ u \in Screen /\ Stands(u, Behind + Len(line'))
  BY <1>1, <1>3, <1>4, TailWrites
<1> HIDE DEF u
<1>6. Wrote(u, v, Behind + Len(line'), Blanks(k))
  BY <1>3, <1>5, BlanksWrite
<1> HIDE DEF v
<1>7. Drawn(t, term', line, line', pos', pos')
  <2>1. Drawn(t, MoveCursorToPos(v, pos'), line, line', pos', pos')
    BY <1>1, <1>2, <1>3, <1>4, <1>5, <1>6, RedrawFits
  <2> QED BY <1>0, <1>1, <2>1
<1>8. Painted'
  BY <1>0, <1>4, <1>7, PaintedIs, RedrawPaints
<1>9. Bounded'
  BY <1>0, <1>3 DEF Bounded, histVars
<1> QED BY <1>8, <1>9

\* deleteLine hides the tail only.
LEMMA DeleteLinePaints ==
  ASSUME Painted, Bounded, LineType, DeleteLine
  PROVE  Painted' /\ Bounded'
<1> DEFINE b == Len(line) - pos
           v == WriteLine(term, Blanks(b))
<1>0. /\ reading = TRUE /\ reading' = TRUE /\ exact' = exact /\ UNCHANGED histVars
      /\ line' = SubSeq(line, 1, pos) /\ pos' = pos /\ pos < Len(line)
      /\ term' = MoveCursorToPos(v, pos)
  BY DEF DeleteLine, LineType
<1>1. /\ line \in Seq(Rune) /\ Len(line) \in Nat /\ MaxPasted \in Nat /\ Len(line) <= MaxPasted
      /\ pos \in Nat /\ pos \in 0..Len(line)
  BY LenProperties, EditorAssumption DEF LineType, EditorAssumption, Bounded
<1>2. line' \in Seq(Rune) /\ Len(line') = pos
  BY <1>0, <1>1, Parts
<1>3. \A i \in 1..pos : line'[i] = line[i]
  <2>1. \A i \in 1..pos : line[i] \in Rune /\ 1 + i - 1 = i
    BY <1>1, ElementOfSeq
  <2> QED BY <1>0, <1>1, <2>1, SubSeqProperties
<1>4. /\ b \in Nat /\ b > 0 /\ Len(line') + b <= MaxPasted /\ pos <= Len(line')
      /\ Len(line) <= Len(line') + b /\ Len(line') \in Nat /\ pos \in 0..Len(line')
      /\ Len(line') <= MaxPasted
  BY <1>0, <1>1, <1>2
<1> HIDE DEF b
<1>5. /\ term \in Screen /\ exact \in BOOLEAN /\ Stands(term, Behind + pos)
      /\ exact => Sees(term, Behind + pos, Line(line))
  BY <1>0, PaintedIs
<1> DEFINE tail == SubSeq(line', pos + 1, Len(line'))
<1>6. Wrote(term, term, Behind + pos, tail)
  <2>1. tail \in Seq(Rune) /\ Len(tail) = Len(line') - pos
    BY <1>2, <1>4, Parts
  <2> HIDE DEF tail
  <2>2. tail \in Seq(Glyph) /\ Behind + pos \in Nat
    BY <1>1, <2>1, PromptType
  <2>3. Len(tail) = 0
    BY <1>1, <1>2, <2>1
  <2> QED BY <1>5, <2>2, <2>3, WroteNothing
<1>7. Wrote(term, v, Behind + Len(line'), Blanks(b))
  <2>1. Stands(term, Behind + Len(line'))
    BY <1>2, <1>5
  <2> QED BY <1>4, <1>5, <2>1, BlanksWrite
<1> HIDE DEF v
<1>8. Drawn(term, term', line, line', pos, pos')
  <2>1. Drawn(term, MoveCursorToPos(v, pos), line, line', pos, pos)
    BY <1>1, <1>2, <1>3, <1>4, <1>5, <1>6, <1>7, RedrawFits
  <2> QED BY <1>0, <2>1
<1>9. Painted'
  BY <1>0, <1>5, <1>8, RedrawPaints
<1>10. Bounded'
  BY <1>0, <1>4 DEF Bounded, histVars
<1> QED BY <1>9, <1>10

-----------------------------------------------------------------------------
(* Whole lines *)

\* A line drawn from its first character on, over an old one.
LEMMA DrawLineDraws ==
  ASSUME NEW t \in Screen, NEW old \in Seq(Rune), NEW new \in Seq(Rune),
         Len(old) <= MaxPasted, Len(new) <= MaxPasted, NEW q \in 0..Len(new), Stands(t, Behind)
  PROVE  Drawn(t, MoveCursorToPos(WriteLine(WriteLine(t, new),
                    Blanks(IF Len(old) > Len(new) THEN Len(old) - Len(new) ELSE 0)), q),
               old, new, 0, q)
<1> DEFINE b == IF Len(old) > Len(new) THEN Len(old) - Len(new) ELSE 0
           u == WriteLine(t, new)
           v == WriteLine(u, Blanks(b))
<1>1. /\ Len(old) \in Nat /\ Len(new) \in Nat /\ MaxPasted \in Nat /\ Behind \in Nat
  BY LenProperties, PromptType, EditorAssumption DEF EditorAssumption
<1>2. b \in Nat /\ Len(new) + b <= MaxPasted /\ Len(old) <= Len(new) + b
  BY <1>1
<1> HIDE DEF b
<1>3. /\ 0 \in 0..Len(old) /\ 0 <= Len(new) /\ 0 \in 0..Len(new) /\ \A i \in 1..0 : new[i] = old[i]
      /\ Behind + 0 = Behind /\ 0 + 1 = 1
  BY <1>1
<1>4. SubSeq(new, 0 + 1, Len(new)) = new
  BY <1>3, SubSeqFull
<1>5. Stands(t, Behind + 0)
  BY <1>3
<1>6. /\ Wrote(t, u, Behind + 0, SubSeq(new, 0 + 1, Len(new)))
      /\ u \in Screen /\ Stands(u, Behind + Len(new))
  <2>1. LET tail == SubSeq(new, 0 + 1, Len(new))
            s == WriteLine(t, tail)
        IN Wrote(t, s, Behind + 0, tail) /\ s \in Screen /\ Stands(s, Behind + Len(new))
    BY <1>3, <1>5, TailWrites
  <2> QED BY <1>4, <2>1
<1> HIDE DEF u
<1>7. Wrote(u, v, Behind + Len(new), Blanks(b))
  BY <1>1, <1>2, <1>6, BlanksWrite
<1> HIDE DEF v
<1>8. Drawn(t, MoveCursorToPos(v, q), old, new, 0, q)
  BY <1>2, <1>3, <1>6, <1>7, RedrawFits
<1> QED BY <1>8 DEF v, u, b

\* setLine, as the keys that walk through the history call it.
LEMMA SetLinePaints ==
  ASSUME Painted, Bounded, LineType, reading, reading' = reading, exact' = exact,
         NEW new \in Seq(Rune), Len(new) <= MaxPasted, SetLine(new)
  PROVE  Painted' /\ Len(line') <= MaxPasted
<1> DEFINE t == MoveCursorToPos(term, 0)
<1>1. /\ line \in Seq(Rune) /\ Len(line) \in Nat /\ Len(line) <= MaxPasted /\ Len(new) \in Nat
      /\ 0 \in 0..Len(line) /\ Len(new) \in 0..Len(new) /\ Behind \in Nat
  BY LenProperties, PromptType DEF LineType, Bounded
<1>2. /\ line' = new /\ pos' = Len(new) /\ reading' = TRUE
      /\ term' = MoveCursorToPos(WriteLine(WriteLine(t, new),
                   Blanks(IF Len(line) > Len(new) THEN Len(line) - Len(new) ELSE 0)), Len(new))
  BY DEF SetLine, DrawLine, LineType
<1>3. /\ t \in Screen /\ Stands(t, Behind + 0)
      /\ exact => Sees(t, Behind + 0, Line(line))
  BY <1>1, ToCharacter
<1> HIDE DEF t
<1>4. Behind + 0 = Behind
  BY <1>1
<1>5. Drawn(t, term', line, line', 0, pos')
  <2>1. Stands(t, Behind)
    BY <1>3, <1>4
  <2>2. Drawn(t, MoveCursorToPos(WriteLine(WriteLine(t, new),
                   Blanks(IF Len(line) > Len(new) THEN Len(line) - Len(new) ELSE 0)), Len(new)),
              line, new, 0, Len(new))
    BY <1>1, <1>3, <2>1, DrawLineDraws
  <2> QED BY <1>2, <2>2
<1>6. exact' \in BOOLEAN /\ (exact' => Sees(t, Behind + 0, Line(line)))
  BY <1>3 DEF Painted
<1> QED BY <1>2, <1>5, <1>6, RedrawPaints

\* The up and down keys.
LEMMA WalkPaints ==
  ASSUME EditorAssumption, Painted, Bounded, LineType, HistoryType, Up \/ Down
  PROVE  Painted' /\ Bounded'
<1>1. /\ reading /\ reading' = reading /\ exact' = exact
      /\ UNCHANGED <<entries, head, size>>
  BY DEF Up, Down
<1>2. ASSUME NEW n \in 0..(size - 1)
      PROVE  NthPreviousEntry(n) \in Seq(Rune) /\ Len(NthPreviousEntry(n)) <= MaxPasted
  <2>1. (IF head - n < 0 THEN head - n + Depth ELSE head - n) \in DOMAIN entries
    BY DEF HistoryType, EditorAssumption
  <2> QED BY <1>2, <2>1, EntryType DEF Bounded, NthPreviousEntry
<1>3. CASE Up
  <2>1. historyIndex + 1 \in 0..(size - 1)
    BY <1>3 DEF Up, HasEntry, HistoryType, EditorAssumption
  <2>2. Painted' /\ Len(line') <= MaxPasted
    <3>1. SetLine(NthPreviousEntry(historyIndex + 1))
      BY <1>3 DEF Up
    <3> QED BY <1>1, <1>2, <2>1, <3>1, SetLinePaints
  <2>3. Len(historyPending') <= MaxPasted
    <3>1. historyPending' = line \/ historyPending' = historyPending
      BY <1>3 DEF Up
    <3> QED BY <3>1 DEF Bounded
  <2> QED BY <1>1, <2>2, <2>3 DEF Bounded
<1>4. CASE Down
  <2>1. historyIndex \in 0..(size - 1)
    BY <1>4 DEF Down, HistoryType, EditorAssumption
  <2>2. PICK new \in Seq(Rune) : Len(new) <= MaxPasted /\ SetLine(new)
    <3>1. CASE historyIndex = 0
      <4>1. SetLine(historyPending) /\ historyPending \in Seq(Rune) /\ Len(historyPending) <= MaxPasted
        BY <1>4, <3>1 DEF Down, HistoryType, Bounded
      <4> QED BY <4>1
    <3>2. CASE historyIndex # 0
      <4>1. historyIndex - 1 \in 0..(size - 1)
        BY <2>1, <3>2 DEF HistoryType, EditorAssumption
      <4>2. SetLine(NthPreviousEntry(historyIndex - 1))
        BY <1>4, <3>2 DEF Down
      <4> QED BY <1>2, <4>1, <4>2
    <3> QED BY <3>1, <3>2
  <2>3. Painted' /\ Len(line') <= MaxPasted
    BY <1>1, <2>2, SetLinePaints
  <2>4. historyPending' = historyPending
    BY <1>4 DEF Down
  <2> QED BY <1>1, <2>3, <2>4 DEF Bounded
<1> QED BY <1>3, <1>4

-----------------------------------------------------------------------------
(* The prompt on an empty screen *)

\* The prompt on an empty screen looks like the prompt and an empty line.
LEMMA PromptIs == Over(Text(<<>>), 0, Prompt) = Line(<<>>)
<1>1. /\ <<>> \in Seq(Rune) /\ Len(<<>>) = 0 /\ Behind \in Nat /\ Prompt \in Seq(Glyph)
      /\ Len(Prompt) = Behind
  BY EmptySeq, PromptType DEF Behind
<1>2. /\ Line(<<>>) \in Picture
      /\ \A k \in Nat : Line(<<>>)[k] = IF k < Behind THEN Prompt[k + 1]
                                        ELSE IF k < Behind + Len(<<>>) THEN <<>>[k - Behind + 1]
                                        ELSE Space
  BY <1>1, LineIs
<1>3. \A k \in Nat : ~(k < Behind) => ~(k < Behind + Len(<<>>))
  BY <1>1
<1>4. \A k \in Nat : Line(<<>>)[k] = IF k < Behind THEN Prompt[k + 1] ELSE Space
  BY <1>2, <1>3
<1> DEFINE f == Over(Text(<<>>), 0, Prompt)
<1>5. \A k \in Nat : f[k] = IF k < Behind THEN Prompt[k + 1] ELSE Space
  <2> SUFFICES ASSUME NEW k \in Nat
               PROVE  f[k] = IF k < Behind THEN Prompt[k + 1] ELSE Space
    OBVIOUS
  <2>1. f[k] = IF 0 <= k /\ k < 0 + Len(Prompt) THEN Prompt[k - 0 + 1] ELSE Text(<<>>)[k]
    BY DEF Over
  <2>2. Text(<<>>)[k] = Space
    BY <1>1 DEF Text
  <2>3. 0 <= k /\ k - 0 + 1 = k + 1 /\ 0 + Behind = Behind
    BY <1>1
  <2> HIDE DEF f
  <2> QED BY <1>1, <2>1, <2>2, <2>3
<1>6. f = [k \in Nat |-> f[k]] /\ Line(<<>>) = [k \in Nat |-> Line(<<>>)[k]]
  BY <1>2 DEF Over, Picture
<1> HIDE DEF f
<1>7. f = Line(<<>>)
  BY <1>4, <1>5, <1>6
<1> QED BY <1>7 DEF f

\* An empty screen.
LEMMA EmptyPicture == Text(<<>>) \in Picture /\ \A k \in Nat : Text(<<>>)[k] = Space
<1>1. <<>> \in Seq(Glyph) /\ Len(<<>>) = 0
  BY EmptySeq
<1> QED BY <1>1, TextType DEF Text

\* Both ways of printing the prompt (readLine and the repaints).
LEMMA PromptWrites ==
  ASSUME NEW t \in Screen, Stands(t, 0), NEW u,
         u = WriteLine(t, Prompt) \/ u = AdvanceCursor(Queue(t, Prompt), Len(Prompt))
  PROVE  /\ u \in Screen /\ Stands(u, Behind) /\ u.termWidth = t.termWidth
         /\ t.maxLine <= u.maxLine
         /\ Sees(t, 0, Text(<<>>)) => Sees(u, Behind, Line(<<>>))
<1>1. /\ Prompt \in Seq(Glyph) /\ Len(Prompt) = Behind /\ Behind \in Nat \ {0}
      /\ 0 + Behind = Behind /\ Behind > 0 /\ Behind + 0 = Behind /\ MaxPasted \in Nat
      /\ 0 <= MaxPasted
  BY PromptType, EditorAssumption DEF Behind, EditorAssumption
<1>2. (0 + Len(Prompt)) \div t.termWidth <= Rows
  <2>1. (Behind + 0) \div t.termWidth <= Rows
    BY <1>1, RoomForLines
  <2> QED BY <1>1, <2>1
<1>3. Wrote(t, u, 0, Prompt)
  <2>1. Wrote(t, WriteLine(t, Prompt), 0, Prompt)
    BY <1>1, <1>2, WriteLineWrites
  <2>2. Len(Prompt) > 0
    BY <1>1
  <2>3. Wrote(t, AdvanceCursor(Queue(t, Prompt), Len(Prompt)), 0, Prompt)
    BY <1>1, <1>2, <2>2, QueueWrites
  <2> QED BY <2>1, <2>3
<1>4. Text(<<>>) \in Picture
  BY EmptyPicture
<1>5. Stands(u, Behind)
  BY <1>1, <1>3 DEF Wrote
<1>6. Sees(t, 0, Text(<<>>)) => Sees(u, Behind, Line(<<>>))
  BY <1>1, <1>3, <1>4, PromptIs DEF Wrote
<1> QED BY <1>3, <1>5, <1>6 DEF Wrote

\* The row of the terminal's cursor is known to it.
LEMMA StandsKnown ==
  ASSUME NEW t, NEW n, Stands(t, n)
  PROVE  n \div t.termWidth <= t.maxLine
BY DEF Stands

\* readLine begins.
LEMMA StartPaints ==
  ASSUME Painted, Bounded, LineType, StartLine
  PROVE  Painted' /\ Bounded'
<1>1. /\ ~reading /\ reading' = TRUE /\ line' = line /\ pos' = pos /\ exact' = exact
      /\ UNCHANGED histVars /\ line = <<>> /\ pos = 0 /\ term \in Screen /\ exact \in BOOLEAN
      /\ Stands(term, 0)
      /\ exact => Sees(term, 0, Text(<<>>))
  BY DEF StartLine, Painted, Here
<1>2. term.cursorX = 0 /\ term.cursorY = 0
  <2> DEFINE w == term.termWidth
  <2>1. w \in Nat \ {0} /\ term.cursorX = 0 % w /\ term.cursorY = 0 \div w
    BY <1>1, WindowType DEF Stands
  <2> HIDE DEF w
  <2> QED BY <2>1
<1>3. term' = WriteLine(term, Prompt)
  BY <1>2 DEF StartLine
<1>4. /\ term' \in Screen /\ Stands(term', Behind)
      /\ exact => Sees(term', Behind, Line(<<>>))
  BY <1>1, <1>3, PromptWrites
<1>5. Behind + pos' = Behind /\ Behind + Len(line') = Behind
  <2>1. Len(<<>>) = 0 /\ Behind \in Nat
    BY PromptType
  <2> QED BY <1>1, <2>1
<1>6. Painted'
  BY <1>1, <1>4, <1>5, StandsKnown, PaintedBy
<1> QED BY <1>1, <1>6 DEF Bounded, histVars

-----------------------------------------------------------------------------
(* Rows that are cleared *)

\* Character 0 is in the corner.
LEMMA FirstPlace ==
  ASSUME NEW w \in Nat \ {0}
  PROVE  0 % w = 0 /\ 0 \div w = 0
OBVIOUS

\* Below the row of its last character a line shows nothing.
LEMMA BlankBelow ==
  ASSUME NEW l \in Seq(Rune), NEW w \in Nat \ {0}, NEW a \in Nat, NEW b \in 0..(w - 1),
         (Behind + Len(l)) \div w < a
  PROVE  a * w + b \in Nat /\ Line(l)[a * w + b] = Space
<1> DEFINE n == Behind + Len(l)
           k == a * w + b
<1>1. Behind \in Nat /\ Len(l) \in Nat /\ n \in Nat /\ n \div w < a
  BY PromptType, LenProperties
<1>2. k \in Nat /\ k \div w = a
  BY OnePlace, DivisionIs
<1> HIDE DEF n, k
<1>3. ~(k <= n)
  <2>1. k <= n => a <= n \div w
    BY <1>1, <1>2, RowsGrow
  <2>2. n \div w \in Nat
    BY <1>1, Division
  <2> QED BY <1>1, <2>1, <2>2
<1>4. ~(k < Behind) /\ ~(k < Behind + Len(l))
  BY <1>1, <1>2, <1>3 DEF n
<1>5. Line(l)[k] = Space
  BY <1>2, <1>4, LineIs
<1> QED BY <1>2, <1>5 DEF k

\* The places of the screen.
LEMMA PlaceIs ==
  ASSUME NEW t \in Screen, NEW q \in Place
  PROVE  /\ q = <<q[1], q[2]>> /\ q[1] \in 0..Rows /\ q[1] \in Nat /\ q[2] \in Columns
         /\ q[2] < t.termWidth => q[2] \in 0..(t.termWidth - 1)
<1>1. t.termWidth \in Nat \ {0} /\ Rows \in Nat
  BY WindowType
<1>2. q = <<q[1], q[2]>> /\ q[1] \in 0..Rows /\ q[2] \in Columns
  BY DEF Place
<1>3. q[2] \in Int /\ 0 <= q[2]
  BY <1>2 DEF Columns
<1> QED BY <1>1, <1>2, <1>3

\* A blank screen with the cursor in its corner shows the empty text.
LEMMA BlankSees ==
  ASSUME NEW t \in Screen, t.x = 0, t.y = 0, ~t.wrap, \A q \in Place : t.cell[q] = Space
  PROVE  Sees(t, 0, Text(<<>>))
<1>1. t.termWidth \in Nat \ {0} /\ 0 % t.termWidth = 0 /\ 0 \div t.termWidth = 0
  BY WindowType, FirstPlace
<1>2. Pen(t, 0)
  BY <1>1 DEF Pen
<1>3. ASSUME NEW q \in Place, q[2] < t.termWidth
      PROVE  Text(<<>>)[q[1] * t.termWidth + q[2]] = Space
  <2>1. q[1] * t.termWidth + q[2] \in Nat
    BY <1>1, <1>3, PlaceIs, OnePlace
  <2> QED BY <2>1, EmptyPicture
<1>4. Shows(t, Text(<<>>))
  BY <1>3 DEF Shows
<1> QED BY <1>2, <1>4 DEF Sees

\* An erased screen.
LEMMA ClearAllDoes ==
  ASSUME NEW t \in Screen
  PROVE  LET u == ClearAll(t) IN
         /\ u \in Screen /\ u.x = 0 /\ u.y = 0 /\ ~u.wrap /\ \A q \in Place : u.cell[q] = Space
         /\ u.cursorX = t.cursorX /\ u.cursorY = t.cursorY /\ u.maxLine = t.maxLine
         /\ u.termWidth = t.termWidth
<1> DEFINE u == ClearAll(t)
           cell == [q \in Place |-> Space]
<1>1. cell \in [Place -> Glyph] /\ \A q \in Place : cell[q] = Space
  BY EditorAssumption DEF EditorAssumption, Glyph
<1>2. u = [t EXCEPT !.cell = cell, !.x = 0, !.y = 0, !.wrap = FALSE]
  BY DEF ClearAll
<1>3. 0 \in Nat /\ 0 \in 0..Rows /\ 0 < t.termWidth /\ t.cursorX < t.termWidth
  BY WindowType DEF Screen
<1> HIDE DEF u, cell
<1>4. u \in [cursorX : Nat, cursorY : Nat, maxLine : Nat, termWidth : Widths,
          x : Nat, y : 0..Rows, wrap : BOOLEAN, cell : [Place -> Glyph]]
  BY <1>1, <1>2, <1>3, Zenon DEF Screen
<1>5. /\ u.x = 0 /\ u.y = 0 /\ u.wrap = FALSE /\ u.cell = cell
      /\ u.cursorX = t.cursorX /\ u.cursorY = t.cursorY /\ u.maxLine = t.maxLine
      /\ u.termWidth = t.termWidth
  BY <1>2, Zenon DEF Screen
<1>6. u \in Screen
  BY <1>3, <1>4, <1>5 DEF Screen
<1> QED BY <1>1, <1>5, <1>6 DEF u

\* Erased rows.
LEMMA ClearRowsDoes ==
  ASSUME NEW t \in Screen, NEW n \in Nat
  PROVE  LET u == ClearRows(t, n) IN
         /\ u \in Screen /\ u.x = t.x /\ u.y = t.y /\ u.wrap = t.wrap
         /\ \A q \in Place :
              u.cell[q] = IF q[1] \in t.y..(t.y + n) THEN Space ELSE t.cell[q]
         /\ u.cursorX = t.cursorX /\ u.cursorY = t.cursorY /\ u.maxLine = t.maxLine
         /\ u.termWidth = t.termWidth
<1> DEFINE u == ClearRows(t, n)
           cell == [q \in Place |-> IF q[1] \in t.y..(t.y + n) THEN Space ELSE t.cell[q]]
<1>1. /\ cell \in [Place -> Glyph]
      /\ \A q \in Place : cell[q] = IF q[1] \in t.y..(t.y + n) THEN Space ELSE t.cell[q]
  <2>1. Space \in Glyph /\ t.cell \in [Place -> Glyph]
    BY ScreenIs, EditorAssumption DEF EditorAssumption, Glyph
  <2> QED BY <2>1
<1>2. u = [t EXCEPT !.cell = cell]
  BY DEF ClearRows
<1>3. t.x < t.termWidth /\ t.cursorX < t.termWidth
  BY DEF Screen
<1> HIDE DEF u, cell
<1>4. u \in [cursorX : Nat, cursorY : Nat, maxLine : Nat, termWidth : Widths,
          x : Nat, y : 0..Rows, wrap : BOOLEAN, cell : [Place -> Glyph]]
  BY <1>1, <1>2, Zenon DEF Screen
<1>5. /\ u.x = t.x /\ u.y = t.y /\ u.wrap = t.wrap /\ u.cell = cell
      /\ u.cursorX = t.cursorX /\ u.cursorY = t.cursorY /\ u.maxLine = t.maxLine
      /\ u.termWidth = t.termWidth
  BY <1>2, Zenon DEF Screen
<1>6. u \in Screen
  BY <1>3, <1>4, <1>5 DEF Screen
<1> QED BY <1>1, <1>5, <1>6 DEF u

\* The terminal starts to count from where the cursor is.
LEMMA FromHere ==
  ASSUME NEW t \in Screen
  PROVE  LET u == [t EXCEPT !.cursorX = 0, !.cursorY = 0] IN
         /\ u \in Screen /\ u.x = t.x /\ u.y = t.y /\ u.wrap = t.wrap /\ u.cell = t.cell
         /\ u.maxLine = t.maxLine /\ u.termWidth = t.termWidth /\ Stands(u, 0)
<1> DEFINE u == [t EXCEPT !.cursorX = 0, !.cursorY = 0]
<1>1. /\ 0 \in Nat /\ 0 < t.termWidth /\ t.x < t.termWidth
      /\ 0 % t.termWidth = 0 /\ 0 \div t.termWidth = 0 /\ t.maxLine \in Nat
  BY WindowType, FirstPlace, ScreenIs DEF Screen
<1>2. u \in [cursorX : Nat, cursorY : Nat, maxLine : Nat, termWidth : Widths,
          x : Nat, y : 0..Rows, wrap : BOOLEAN, cell : [Place -> Glyph]]
  BY <1>1, Zenon DEF Screen
<1>3. /\ u.x = t.x /\ u.y = t.y /\ u.wrap = t.wrap /\ u.cell = t.cell
      /\ u.cursorX = 0 /\ u.cursorY = 0 /\ u.maxLine = t.maxLine
      /\ u.termWidth = t.termWidth
  BY Zenon DEF Screen
<1> HIDE DEF u
<1>4. u \in Screen
  BY <1>1, <1>2, <1>3 DEF Screen
<1>5. Stands(u, 0)
  <2>1. 0 <= t.maxLine
    BY <1>1
  <2> QED BY <1>1, <1>3, <2>1 DEF Stands
<1> QED BY <1>3, <1>4, <1>5 DEF u

\* Home and HostsPage.
LEMMA PanelPaints ==
  ASSUME Painted, Bounded, LineType, PanelClears
  PROVE  Painted' /\ Bounded'
<1>1. /\ reading' = FALSE /\ line' = line /\ pos' = pos /\ exact' = TRUE
      /\ UNCHANGED histVars /\ line = <<>> /\ pos = 0 /\ term \in Screen
      /\ Stands(term, 0) /\ term' = ClearAll(term)
  BY DEF PanelClears, Painted, Here, LineType
<1>2. /\ term' \in Screen /\ term'.x = 0 /\ term'.y = 0 /\ ~term'.wrap
      /\ \A q \in Place : term'.cell[q] = Space
      /\ Stands(term', 0)
  BY <1>1, ClearAllDoes DEF Stands
<1>3. Sees(term', 0, Text(<<>>))
  BY <1>2, BlankSees
<1>4. 0 \div term'.termWidth <= term'.maxLine
  BY <1>2, StandsKnown
<1>5. Painted'
  BY <1>1, <1>2, <1>3, <1>4 DEF Painted, Here, There
<1> QED BY <1>1, <1>5 DEF Bounded, histVars

-----------------------------------------------------------------------------
(* The line painted anew *)

\* CtrlL.
LEMMA ClearScreenPaints ==
  ASSUME Painted, Bounded, LineType, ClearScreen
  PROVE  Painted' /\ Bounded'
<1> DEFINE blank == ClearAll(term)
           cleared == [blank EXCEPT !.cursorX = 0, !.cursorY = 0]
           prompted == AdvanceCursor(Queue(cleared, Prompt), Len(Prompt))
           t == MoveCursorToPos(prompted, 0)
           none == IF Len(line) > Len(line) THEN Len(line) - Len(line) ELSE 0
<1>1. /\ reading' = TRUE /\ line' = line /\ pos' = pos /\ exact' = TRUE
      /\ UNCHANGED histVars /\ term \in Screen
      /\ term' = MoveCursorToPos(WriteLine(WriteLine(t, line), Blanks(none)), pos)
  BY DEF ClearScreen, Painted, LineType, DrawLine
<1>2. /\ line \in Seq(Rune) /\ Len(line) \in Nat /\ pos \in 0..Len(line) /\ Behind \in Nat
      /\ Len(line) <= MaxPasted /\ MaxPasted \in Nat /\ Behind + 0 = Behind
  BY LenProperties, PromptType, EditorAssumption DEF LineType, Bounded, EditorAssumption
<1>3. /\ blank \in Screen /\ blank.x = 0 /\ blank.y = 0 /\ ~blank.wrap
      /\ \A q \in Place : blank.cell[q] = Space
  BY <1>1, ClearAllDoes
<1> HIDE DEF blank
<1>4. /\ cleared \in Screen /\ cleared.x = 0 /\ cleared.y = 0 /\ ~cleared.wrap
      /\ cleared.cell = blank.cell /\ Stands(cleared, 0)
  BY <1>3, FromHere
<1> HIDE DEF cleared
<1>5. Sees(cleared, 0, Text(<<>>))
  BY <1>3, <1>4, BlankSees
<1>6. prompted \in Screen /\ Stands(prompted, Behind) /\ Sees(prompted, Behind, Line(<<>>))
  BY <1>4, <1>5, PromptWrites
<1> HIDE DEF prompted
<1>7. <<>> \in Seq(Rune) /\ Len(<<>>) = 0 /\ Line(<<>>) \in Picture
  BY EmptySeq, LineIs
<1>8. t \in Screen /\ Stands(t, Behind) /\ Sees(t, Behind, Line(<<>>))
  <2>1. /\ (Behind + 0) \div prompted.termWidth <= prompted.maxLine
        /\ (Behind + 0) \div prompted.termWidth <= Rows
    <3>1. 0 <= MaxPasted
      BY <1>2
    <3> QED BY <1>2, <1>6, <3>1, StandsKnown, RoomForLines
  <2>2. /\ Went(prompted, t, Behind + 0)
        /\ \A n \in Nat, f \in Picture :
             Stands(prompted, n) /\ Sees(prompted, n, f)
                /\ (Behind + 0) \div prompted.termWidth <= Rows =>
               Sees(t, Behind + 0, f)
    BY <1>6, <2>1, MoveCursorMoves DEF Behind
  <2> HIDE DEF t
  <2>3. Sees(t, Behind + 0, Line(<<>>))
    BY <1>2, <1>6, <1>7, <2>1, <2>2
  <2> QED BY <1>2, <2>2, <2>3 DEF Went
<1> HIDE DEF t
<1>9. none = IF Len(<<>>) > Len(line) THEN Len(<<>>) - Len(line) ELSE 0
  BY <1>2, <1>7
<1> HIDE DEF none
<1>10. Drawn(t, term', <<>>, line', 0, pos')
  <2>1. Len(<<>>) <= MaxPasted
    BY <1>2, <1>7
  <2> QED BY <1>1, <1>2, <1>7, <1>8, <1>9, <2>1, DrawLineDraws
<1>11. Painted'
  <2>1. Sees(t, Behind + 0, Line(<<>>)) /\ exact' \in BOOLEAN
    BY <1>1, <1>2, <1>8
  <2> QED BY <1>1, <1>10, <2>1, RedrawPaints
<1> QED BY <1>1, <1>11 DEF Bounded, histVars

\* The corner from which Repaint clears and draws.
Corner(t) == [Move(t, -t.cursorY, -t.cursorX) EXCEPT !.cursorX = 0, !.cursorY = 0]

\* clearAndRepaintLinePlusNPrevious, whatever was on the screen: if the rows it clears
\* were all that was used, the line is what is seen.
LEMMA RepaintDoes ==
  ASSUME LineType, Len(line) <= MaxPasted, NEW t \in Screen, NEW n \in Nat
  PROVE  LET u == Repaint(t, n) IN
         /\ u \in Screen /\ Stands(u, Behind + pos)
         /\ (Behind + Len(line)) \div u.termWidth <= u.maxLine
         /\ Sees(ClearRows(Corner(t), n), 0, Text(<<>>)) => Sees(u, Behind + pos, Line(line))
<1> DEFINE moved == Move(t, -t.cursorY, -t.cursorX)
           top == Corner(t)
           cleared == ClearRows(top, n)
           prompted == AdvanceCursor(Queue(cleared, Prompt), Len(Prompt))
           v == WriteLine(prompted, line)
           u == MoveCursorToPos(v, pos)
<1>1. /\ line \in Seq(Rune) /\ Len(line) \in Nat /\ pos \in 0..Len(line) /\ Behind \in Nat
      /\ Len(line) <= MaxPasted /\ MaxPasted \in Nat /\ Behind + 0 = Behind
  BY LenProperties, PromptType, EditorAssumption DEF LineType, EditorAssumption
<1>2. moved \in Screen
  <2>1. -t.cursorY \in Int /\ -t.cursorX \in Int
    BY ScreenIs
  <2> QED BY <2>1, MoveDoes
<1>3. top \in Screen /\ Stands(top, 0)
  <2>1. top = [moved EXCEPT !.cursorX = 0, !.cursorY = 0]
    BY DEF Corner
  <2> HIDE DEF top, moved
  <2> QED BY <1>2, <2>1, FromHere
<1>4. u = Repaint(t, n)
  BY DEF Repaint, Corner
<1> HIDE DEF top
<1>5. cleared \in Screen /\ Stands(cleared, 0)
  BY <1>3, ClearRowsDoes DEF Stands
<1> HIDE DEF cleared
<1>6. /\ prompted \in Screen /\ Stands(prompted, Behind)
      /\ Sees(cleared, 0, Text(<<>>)) => Sees(prompted, Behind, Line(<<>>))
  BY <1>5, PromptWrites
<1> HIDE DEF prompted
<1>7. <<>> \in Seq(Rune) /\ Len(<<>>) = 0
  BY EmptySeq
<1>8. /\ 0 \in 0..Len(<<>>) /\ 0 <= Len(line) /\ 0 \in 0..Len(line)
      /\ \A i \in 1..0 : line[i] = <<>>[i]
      /\ 0 \in Nat /\ Len(<<>>) <= Len(line) + 0 /\ Len(line) + 0 <= MaxPasted
      /\ Stands(prompted, Behind + 0) /\ 0 + 1 = 1
  BY <1>1, <1>6, <1>7
<1>9. SubSeq(line, 0 + 1, Len(line)) = line
  BY <1>1, <1>8, SubSeqFull
<1>10. /\ Wrote(prompted, v, Behind + 0, SubSeq(line, 0 + 1, Len(line)))
       /\ v \in Screen /\ Stands(v, Behind + Len(line))
  <2>1. LET tail == SubSeq(line, 0 + 1, Len(line))
            s == WriteLine(prompted, tail)
        IN Wrote(prompted, s, Behind + 0, tail) /\ s \in Screen /\ Stands(s, Behind + Len(line))
    BY <1>1, <1>6, <1>8, TailWrites
  <2> QED BY <1>9, <2>1
<1> HIDE DEF v
<1>11. Wrote(v, v, Behind + Len(line), Blanks(0))
  BY <1>1, <1>8, <1>10, BlanksWrite
<1>12. Drawn(prompted, u, <<>>, line, 0, pos)
  BY <1>1, <1>6, <1>7, <1>8, <1>10, <1>11, RedrawFits
<1> HIDE DEF u
<1>13. Sees(cleared, 0, Text(<<>>)) => Sees(u, Behind + pos, Line(line))
  <2>1. Sees(prompted, Behind, Line(<<>>)) => Sees(u, Behind + pos, Line(line))
    BY <1>1, <1>12 DEF Drawn
  <2> QED BY <1>6, <2>1
<1> QED BY <1>4, <1>12, <1>13 DEF Drawn, cleared, top

-----------------------------------------------------------------------------
(* The window *)

\* Only character 0 is in the corner.
LEMMA NotInCorner ==
  ASSUME NEW n \in Nat \ {0}, NEW w \in Nat \ {0}
  PROVE  ~(n % w = 0 /\ n \div w = 0)
OBVIOUS

\* A window of another width.
LEMMA ResizeDoes ==
  ASSUME NEW t \in Screen, NEW w \in Widths, t.cursorX < w, t.x < w
  PROVE  LET u == [t EXCEPT !.termWidth = w] IN
         /\ u \in Screen /\ u.x = t.x /\ u.y = t.y /\ u.wrap = t.wrap /\ u.cell = t.cell
         /\ u.cursorX = t.cursorX /\ u.cursorY = t.cursorY /\ u.maxLine = t.maxLine
         /\ u.termWidth = w
<1> DEFINE u == [t EXCEPT !.termWidth = w]
<1>1. u \in [cursorX : Nat, cursorY : Nat, maxLine : Nat, termWidth : Widths,
          x : Nat, y : 0..Rows, wrap : BOOLEAN, cell : [Place -> Glyph]]
  BY Zenon DEF Screen
<1>2. /\ u.x = t.x /\ u.y = t.y /\ u.wrap = t.wrap /\ u.cell = t.cell
      /\ u.cursorX = t.cursorX /\ u.cursorY = t.cursorY /\ u.maxLine = t.maxLine
      /\ u.termWidth = w
  BY Zenon DEF Screen
<1> HIDE DEF u
<1>3. u \in Screen
  BY <1>1, <1>2 DEF Screen
<1> QED BY <1>2, <1>3 DEF u

\* Resizing between two lines: the screen is empty and stays so.
LEMMA ResizeIdle ==
  ASSUME Painted, ~reading, NEW w \in Widths,
         term' = [term EXCEPT !.termWidth = w], UNCHANGED <<reading, line, pos, exact>>
  PROVE  Painted'
<1>1. /\ term \in Screen /\ exact \in BOOLEAN /\ Stands(term, 0) /\ term.x = 0
      /\ line = <<>> /\ pos = 0
      /\ exact => Sees(term, 0, Text(<<>>))
  BY DEF Painted, Here
<1>2. /\ term.termWidth \in Nat \ {0} /\ w \in Nat \ {0}
      /\ 0 % term.termWidth = 0 /\ 0 \div term.termWidth = 0 /\ 0 % w = 0 /\ 0 \div w = 0
      /\ term.maxLine \in Nat
  <2>1. w \in Nat \ {0}
    BY EditorAssumption DEF EditorAssumption
  <2> QED BY <1>1, <2>1, WindowType, FirstPlace, ScreenIs
<1>3. term.cursorX = 0 /\ term.cursorY = 0
  BY <1>1, <1>2 DEF Stands
<1>4. 0 < w
  BY <1>2
<1>5. /\ term' \in Screen /\ term'.x = 0 /\ term'.y = term.y /\ term'.wrap = term.wrap
      /\ term'.cell = term.cell /\ term'.cursorX = 0 /\ term'.cursorY = 0
      /\ term'.maxLine = term.maxLine /\ term'.termWidth = w
  BY <1>1, <1>3, <1>4, ResizeDoes
<1>6. 0 <= term.maxLine
  BY <1>2
<1>7. Stands(term', 0) /\ 0 \div term'.termWidth <= term'.maxLine
  BY <1>2, <1>5, <1>6 DEF Stands
<1>8. ASSUME exact PROVE Sees(term', 0, Text(<<>>))
  <2>1. ~term.wrap /\ term.y = 0 /\ Shows(term, Text(<<>>))
    BY <1>1, <1>2, <1>8 DEF Sees, Pen
  <2>2. \A q \in Place : term.cell[q] = Space
    <3> SUFFICES ASSUME NEW q \in Place PROVE term.cell[q] = Space
      OBVIOUS
    <3>1. CASE q[2] < term.termWidth
      <4>1. q[1] * term.termWidth + q[2] \in Nat
        BY <1>1, <1>2, <3>1, PlaceIs, OnePlace
      <4>2. term.cell[q] = Text(<<>>)[q[1] * term.termWidth + q[2]]
        BY <2>1, <3>1 DEF Shows
      <4> QED BY <4>1, <4>2, EmptyPicture
    <3>2. CASE ~(q[2] < term.termWidth)
      BY <2>1, <3>2 DEF Shows
    <3> QED BY <3>1, <3>2
  <2> QED BY <1>5, <2>1, <2>2, BlankSees
<1>9. ~reading' /\ line' = <<>> /\ pos' = 0 /\ exact' = exact
  BY <1>1
<1> QED BY <1>1, <1>5, <1>7, <1>8, <1>9 DEF Painted, Here, There

\* While a line is read the prompt keeps the cursor away from the corner.
LEMMA PromptThere ==
  ASSUME Painted, LineType, reading
  PROVE  ~(line = <<>> /\ term.cursorX = 0 /\ term.cursorY = 0)
<1>1. term \in Screen /\ Stands(term, Behind + pos)
  BY PaintedIs
<1>2. Behind + pos \in Nat \ {0} /\ term.termWidth \in Nat \ {0}
  BY <1>1, PromptType, WindowType DEF LineType
<1>3. ~((Behind + pos) % term.termWidth = 0 /\ (Behind + pos) \div term.termWidth = 0)
  BY <1>2, NotInCorner
<1> QED BY <1>1, <1>3 DEF Stands

\* A window that gets wider keeps its rows: those the line was in are cleared.
LEMMA WideIsClear ==
  ASSUME NEW l \in Seq(Rune), NEW t \in Screen, NEW n \in Nat, Stands(t, n), Sees(t, n, Line(l)),
         (Behind + Len(l)) \div t.termWidth <= t.maxLine,
         NEW w \in Widths, t.termWidth < w
  PROVE  Sees(ClearRows(Corner([t EXCEPT !.termWidth = w]), t.maxLine), 0, Text(<<>>))
<1> DEFINE wide == [t EXCEPT !.termWidth = w]
           moved == Move(wide, -wide.cursorY, -wide.cursorX)
           top == Corner(wide)
           u == ClearRows(top, t.maxLine)
<1>1. /\ t.termWidth \in Nat \ {0} /\ w \in Nat \ {0} /\ t.x < w /\ t.cursorX < w
      /\ t.maxLine \in Nat /\ Rows \in Nat
  <2>1. w \in Nat \ {0}
    BY EditorAssumption DEF EditorAssumption
  <2>2. /\ t.termWidth \in Nat \ {0} /\ t.x \in 0..(t.termWidth - 1)
        /\ t.cursorX \in 0..(t.termWidth - 1) /\ t.maxLine \in Nat /\ Rows \in Nat
    BY WindowType, ScreenIs
  <2> QED BY <2>1, <2>2
<1>2. /\ wide \in Screen /\ wide.x = t.x /\ wide.y = t.y /\ wide.wrap = t.wrap
      /\ wide.cell = t.cell /\ wide.cursorX = t.cursorX /\ wide.cursorY = t.cursorY
      /\ wide.termWidth = w
  BY <1>1, ResizeDoes
<1> HIDE DEF wide
<1>3. ~t.wrap /\ t.x = t.cursorX /\ t.y = t.cursorY /\ t.x \in Nat /\ t.y \in Nat
  BY ScreenIs DEF Sees, Pen, Stands
<1>4. /\ moved \in Screen /\ moved.cell = t.cell /\ moved.termWidth = w
      /\ ~moved.wrap /\ moved.x = 0 /\ moved.y = 0
  <2> DEFINE down == -wide.cursorY
             right == -wide.cursorX
  <2>1. /\ down \in Int /\ right \in Int
        /\ t.y + down = 0 /\ t.x + right = 0
    BY <1>2, <1>3
  <2> HIDE DEF down, right
  <2>2. /\ moved \in Screen /\ moved.cell = wide.cell /\ moved.termWidth = wide.termWidth
        /\ ~wide.wrap => /\ ~moved.wrap
                         /\ moved.y = Clamp(wide.y + down, Rows)
                         /\ moved.x = Clamp(wide.x + right, wide.termWidth - 1)
    BY <1>2, <2>1, MoveDoes DEF down, right
  <2>3. Clamp(0, Rows) = 0 /\ Clamp(0, w - 1) = 0
    BY <1>1 DEF Clamp
  <2> QED BY <1>2, <1>3, <2>1, <2>2, <2>3
<1>5. /\ top \in Screen /\ top.x = 0 /\ top.y = 0 /\ ~top.wrap /\ top.cell = t.cell
      /\ top.termWidth = w
  <2>1. top = [moved EXCEPT !.cursorX = 0, !.cursorY = 0]
    BY DEF Corner
  <2> HIDE DEF top, moved
  <2> QED BY <1>4, <2>1, FromHere
<1> HIDE DEF top
<1>6. /\ u \in Screen /\ u.x = 0 /\ u.y = 0 /\ ~u.wrap
      /\ \A q \in Place : u.cell[q] = IF q[1] \in 0..(0 + t.maxLine) THEN Space ELSE t.cell[q]
  <2> DEFINE k == t.maxLine
             c == t.cell
  <2>1. k \in Nat /\ top.cell = c
    BY <1>1, <1>5
  <2> HIDE DEF k, c
  <2>2. /\ ClearRows(top, k) \in Screen /\ ClearRows(top, k).x = top.x
        /\ ClearRows(top, k).y = top.y /\ ClearRows(top, k).wrap = top.wrap
        /\ \A q \in Place : ClearRows(top, k).cell[q] =
                            IF q[1] \in top.y..(top.y + k) THEN Space ELSE top.cell[q]
    BY <1>5, <2>1, ClearRowsDoes
  <2>3. u = ClearRows(top, k)
    BY DEF k
  <2> HIDE DEF u
  <2>4. /\ u \in Screen /\ u.x = 0 /\ u.y = 0 /\ ~u.wrap
        /\ \A q \in Place : u.cell[q] = IF q[1] \in 0..(0 + k) THEN Space ELSE c[q]
    BY <1>5, <2>1, <2>2, <2>3
  <2> QED BY <2>4 DEF k, c
<1> HIDE DEF u
<1>7. ASSUME NEW q \in Place PROVE u.cell[q] = Space
  <2>1. q[1] \in Nat /\ (q[2] < t.termWidth => q[2] \in 0..(t.termWidth - 1))
    BY PlaceIs
  <2>2. CASE q[1] <= t.maxLine
    <3>1. q[1] \in 0..(0 + t.maxLine)
      BY <1>1, <2>1, <2>2
    <3> QED BY <1>6, <3>1
  <2>3. CASE ~(q[1] <= t.maxLine)
    <3>1. q[1] \notin 0..(0 + t.maxLine)
      BY <1>1, <2>1, <2>3
    <3>2. (Behind + Len(l)) \div t.termWidth < q[1]
      <4>1. Behind + Len(l) \in Nat
        BY PromptType, LenProperties
      <4>2. (Behind + Len(l)) \div t.termWidth \in Nat
        BY <1>1, <4>1, Division
      <4> QED BY <1>1, <2>1, <2>3, <4>2
    <3>3. t.cell[q] = IF q[2] < t.termWidth THEN Line(l)[q[1] * t.termWidth + q[2]] ELSE Space
      BY DEF Sees, Shows
    <3>4. q[2] < t.termWidth => Line(l)[q[1] * t.termWidth + q[2]] = Space
      BY <1>1, <2>1, <3>2, BlankBelow
    <3> QED BY <1>6, <3>1, <3>3, <3>4
  <2> QED BY <2>2, <2>3
<1>8. Sees(u, 0, Text(<<>>))
  BY <1>6, <1>7, BlankSees
<1> QED BY <1>8 DEF u, top, wide

\* SetSize with a wider window.
LEMMA WidenPaints ==
  ASSUME Painted, Bounded, LineType, NEW w \in Widths, Widen(w)
  PROVE  Painted' /\ Bounded'
<1> DEFINE wide == [term EXCEPT !.termWidth = w]
<1>0. /\ w > term.termWidth /\ UNCHANGED <<reading, line, pos, exact, histVars>>
      /\ term' = IF line = <<>> /\ term.cursorX = 0 /\ term.cursorY = 0 THEN wide
                 ELSE Repaint(wide, term.maxLine)
  BY DEF Widen
<1>1. CASE ~reading
  <2>1. line = <<>> /\ term \in Screen /\ Stands(term, 0)
    BY <1>1 DEF Painted, Here
  <2>2. term.cursorX = 0 /\ term.cursorY = 0
    BY <2>1, WindowType, FirstPlace DEF Stands
  <2>3. Painted'
    BY <1>0, <1>1, <2>1, <2>2, ResizeIdle
  <2> QED BY <1>0, <2>3 DEF Bounded, histVars
<1>2. CASE reading
  <2>1. /\ term \in Screen /\ exact \in BOOLEAN /\ Stands(term, Behind + pos)
        /\ (Behind + Len(line)) \div term.termWidth <= term.maxLine
        /\ exact => Sees(term, Behind + pos, Line(line))
    BY <1>2, PaintedIs
  <2>2. /\ line \in Seq(Rune) /\ Behind + pos \in Nat /\ Len(line) <= MaxPasted
        /\ w \in Nat /\ term.termWidth \in Nat /\ term.maxLine \in Nat
        /\ term.x \in 0..(term.termWidth - 1) /\ term.cursorX \in 0..(term.termWidth - 1)
    BY <2>1, PromptType, WindowType, ScreenIs, EditorAssumption
    DEF LineType, Bounded, EditorAssumption
  <2>3. term' = Repaint(wide, term.maxLine)
    BY <1>0, <1>2, PromptThere
  <2>4. wide \in Screen
    <3>1. term.cursorX < w /\ term.x < w
      BY <1>0, <2>2
    <3> QED BY <2>1, <3>1, ResizeDoes
  <2>5. exact => Sees(ClearRows(Corner(wide), term.maxLine), 0, Text(<<>>))
    <3>1. term.termWidth < w
      BY <1>0, <2>2
    <3> QED BY <2>1, <2>2, <3>1, WideIsClear
  <2> HIDE DEF wide
  <2>6. /\ term' \in Screen /\ Stands(term', Behind + pos)
        /\ (Behind + Len(line)) \div term'.termWidth <= term'.maxLine
        /\ exact => Sees(term', Behind + pos, Line(line))
    BY <2>2, <2>3, <2>4, <2>5, RepaintDoes
  <2>7. /\ reading' = TRUE /\ line' = line /\ pos' = pos /\ exact' = exact
    BY <1>0, <1>2 DEF LineType
  <2>8. Painted'
    BY <2>1, <2>6, <2>7, PaintedBy
  <2> QED BY <1>0, <2>8 DEF Bounded, histVars
<1> QED BY <1>1, <1>2

\* SetSize with a narrower one: only the terminal's own idea is kept.
LEMMA NarrowPaints ==
  ASSUME Painted, Bounded, LineType, NEW w \in Widths, Narrow(w)
  PROVE  Painted' /\ Bounded'
<1> DEFINE blank == ClearAll(term)
           x == Clamp(blank.cursorX, w - 1)
           y == blank.cursorY * 2
           small == [blank EXCEPT !.termWidth = w, !.cursorX = x, !.cursorY = y]
<1>0. /\ UNCHANGED <<reading, line, pos, histVars>>
      /\ IF line = <<>> /\ term.cursorX = 0 /\ term.cursorY = 0
         THEN term' = [term EXCEPT !.termWidth = w] /\ UNCHANGED exact
         ELSE term' = Repaint(small, term.maxLine * 2) /\ exact' = FALSE
  BY DEF Narrow
<1>1. CASE ~reading
  <2>1. line = <<>> /\ term \in Screen /\ Stands(term, 0)
    BY <1>1 DEF Painted, Here
  <2>2. term.cursorX = 0 /\ term.cursorY = 0
    BY <2>1, WindowType, FirstPlace DEF Stands
  <2>3. Painted'
    BY <1>0, <1>1, <2>1, <2>2, ResizeIdle
  <2> QED BY <1>0, <2>3 DEF Bounded, histVars
<1>2. CASE reading
  <2>1. term \in Screen
    BY <1>2, PaintedIs
  <2>2. term' = Repaint(small, term.maxLine * 2) /\ exact' = FALSE
    BY <1>0, <1>2, PromptThere
  <2>3. /\ blank \in Screen /\ blank.x = 0 /\ blank.cursorX \in Nat /\ blank.cursorY \in Nat
        /\ w \in Nat \ {0} /\ term.maxLine * 2 \in Nat
    <3>1. blank \in Screen /\ blank.x = 0
      BY <2>1, ClearAllDoes
    <3> HIDE DEF blank
    <3>2. blank.cursorX \in Nat /\ blank.cursorY \in Nat /\ term.maxLine \in Nat
      BY <2>1, <3>1, ScreenIs, WindowType
    <3>3. w \in Nat \ {0}
      BY EditorAssumption DEF EditorAssumption
    <3> QED BY <3>1, <3>2, <3>3
  <2> HIDE DEF blank
  <2>4. x \in Nat /\ x < w /\ y \in Nat /\ 0 < w
    BY <2>3 DEF Clamp
  <2> HIDE DEF x, y
  <2>5. small \in Screen
    <3>1. small \in [cursorX : Nat, cursorY : Nat, maxLine : Nat, termWidth : Widths,
              x : Nat, y : 0..Rows, wrap : BOOLEAN, cell : [Place -> Glyph]]
      BY <2>3, <2>4, Zenon DEF Screen
    <3>2. small.x = blank.x /\ small.cursorX = x /\ small.termWidth = w
      BY <2>3, Zenon DEF Screen
    <3> HIDE DEF small
    <3> QED BY <2>3, <2>4, <3>1, <3>2 DEF Screen
  <2> HIDE DEF small
  <2>6. Len(line) <= MaxPasted
    BY DEF Bounded
  <2>7. /\ term' \in Screen /\ Stands(term', Behind + pos)
        /\ (Behind + Len(line)) \div term'.termWidth <= term'.maxLine
    BY <2>2, <2>3, <2>5, <2>6, RepaintDoes
  <2>8. reading' = TRUE /\ line' = line /\ pos' = pos /\ exact' \in BOOLEAN /\ ~exact'
    BY <1>0, <1>2, <2>2 DEF LineType
  <2>9. Painted'
    BY <2>7, <2>8, PaintedBy
  <2> QED BY <1>0, <2>9 DEF Bounded, histVars
<1> QED BY <1>1, <1>2

-----------------------------------------------------------------------------
(* The next row *)

\* What NextRow does to the screen it has gone to the end of the line on.
LEMMA ShiftDoes ==
  ASSUME NEW s \in Screen, s.x = 0, ~s.wrap
  PROVE  LET u == [s EXCEPT !.cursorX = 0, !.cursorY = 0, !.maxLine = 0, !.y = 0,
                            !.cell = [q \in Place |-> IF q[1] + s.y <= Rows
                                                      THEN @[<<q[1] + s.y, q[2]>>] ELSE Space]]
         IN /\ u \in Screen /\ Stands(u, 0) /\ u.x = 0 /\ u.y = 0 /\ ~u.wrap /\ u.maxLine = 0
            /\ \A q \in Place :
                 \/ u.cell[q] = Space
                 \/ /\ <<q[1] + s.y, q[2]>> \in Place
                    /\ u.cell[q] = s.cell[<<q[1] + s.y, q[2]>>]
<1> DEFINE cell == [q \in Place |-> IF q[1] + s.y <= Rows
                                    THEN s.cell[<<q[1] + s.y, q[2]>>] ELSE Space]
           u == [s EXCEPT !.cursorX = 0, !.cursorY = 0, !.maxLine = 0, !.y = 0, !.cell = cell]
<1>1. /\ 0 \in Nat /\ 0 < s.termWidth /\ 0 % s.termWidth = 0 /\ 0 \div s.termWidth = 0
      /\ 0 \in 0..Rows /\ Rows \in Nat /\ s.y \in 0..Rows
  BY WindowType, FirstPlace, ScreenIs
<1>2. ASSUME NEW q \in Place, q[1] + s.y <= Rows
      PROVE  <<q[1] + s.y, q[2]>> \in Place
  <2>1. q[1] \in Nat /\ q[2] \in Columns
    BY PlaceIs
  <2>2. q[1] + s.y \in 0..Rows
    BY <1>1, <1>2, <2>1
  <2> QED BY <2>1, <2>2 DEF Place
<1>3. cell \in [Place -> Glyph]
  <2>1. Space \in Glyph /\ s.cell \in [Place -> Glyph]
    BY ScreenIs, EditorAssumption DEF EditorAssumption, Glyph
  <2> QED BY <1>2, <2>1
<1>4. ASSUME NEW q \in Place
      PROVE  \/ cell[q] = Space
             \/ /\ <<q[1] + s.y, q[2]>> \in Place
                /\ cell[q] = s.cell[<<q[1] + s.y, q[2]>>]
  BY <1>2
<1> HIDE DEF cell
<1>5. u \in [cursorX : Nat, cursorY : Nat, maxLine : Nat, termWidth : Widths,
          x : Nat, y : 0..Rows, wrap : BOOLEAN, cell : [Place -> Glyph]]
  BY <1>1, <1>3, Zenon DEF Screen
<1>6. /\ u.cursorX = 0 /\ u.cursorY = 0 /\ u.maxLine = 0 /\ u.y = 0 /\ u.cell = cell
      /\ u.x = s.x /\ u.wrap = s.wrap /\ u.termWidth = s.termWidth
  BY Zenon DEF Screen
<1> HIDE DEF u
<1>7. u \in Screen /\ Stands(u, 0)
  BY <1>1, <1>5, <1>6 DEF Screen, Stands
<1>8. /\ u \in Screen /\ Stands(u, 0) /\ u.x = 0 /\ u.y = 0 /\ ~u.wrap /\ u.maxLine = 0
      /\ \A q \in Place :
           \/ u.cell[q] = Space
           \/ /\ <<q[1] + s.y, q[2]>> \in Place
              /\ u.cell[q] = s.cell[<<q[1] + s.y, q[2]>>]
  BY <1>4, <1>6, <1>7
<1> QED BY <1>8 DEF u, cell

\* The end of a line: nothing of it is below its last row.
LEMMA SubmitPaints ==
  ASSUME Painted, Bounded, LineType, HistoryType, EditorAssumption,
         NEW e \in Seq(Rune), Len(e) <= MaxPasted, Submit(e)
  PROVE  Painted' /\ Bounded'
<1> DEFINE n == Behind + Len(line)
           t == MoveCursorToPos(term, Len(line))
           s == NewRow(t)
<1>0. /\ reading = TRUE /\ reading' = FALSE /\ line' = <<>> /\ pos' = 0 /\ Add(e)
      /\ exact' = exact /\ historyPending' = historyPending
      /\ term' = [s EXCEPT !.cursorX = 0, !.cursorY = 0, !.maxLine = 0, !.y = 0,
                           !.cell = [q \in Place |-> IF q[1] + s.y <= Rows
                                                     THEN @[<<q[1] + s.y, q[2]>>] ELSE Space]]
  BY DEF Submit, NextRow, LineType
<1>1. /\ line \in Seq(Rune) /\ Len(line) \in Nat /\ Len(line) \in 0..Len(line)
      /\ Behind \in Nat /\ n \in Nat /\ MaxPasted \in Nat /\ Len(line) <= MaxPasted
      /\ Len(<<>>) = 0 /\ Rows \in Nat
  BY LenProperties, PromptType DEF LineType, Bounded, EditorAssumption
<1>2. /\ t \in Screen /\ Stands(t, n) /\ t.termWidth \in Nat \ {0}
      /\ exact => Sees(t, n, Line(line))
  <2>1. /\ t \in Screen /\ Stands(t, n)
        /\ exact => Sees(t, n, Line(line))
    BY <1>0, <1>1, ToCharacter
  <2> HIDE DEF t
  <2> QED BY <2>1, WindowType
<1> HIDE DEF t
<1>3. n \div t.termWidth < Rows
  BY <1>1, <1>2, RoomForLines
<1>4. /\ s \in Screen /\ s.x = 0 /\ s.y = Clamp(t.y + 1, Rows) /\ ~s.wrap /\ s.cell = t.cell
  BY <1>2, NewRowDoes
<1> HIDE DEF s
<1>5. /\ term' \in Screen /\ Stands(term', 0) /\ term'.x = 0 /\ term'.y = 0 /\ ~term'.wrap
      /\ term'.maxLine = 0
      /\ \A q \in Place :
           \/ term'.cell[q] = Space
           \/ /\ <<q[1] + s.y, q[2]>> \in Place
              /\ term'.cell[q] = s.cell[<<q[1] + s.y, q[2]>>]
  BY <1>0, <1>4, ShiftDoes
<1>6. ASSUME exact PROVE Sees(term', 0, Text(<<>>))
  <2>1. ~t.wrap /\ t.y = n \div t.termWidth /\ Shows(t, Line(line))
    BY <1>2, <1>6 DEF Sees, Pen
  <2>2. n \div t.termWidth \in Nat
    BY <1>1, <1>2, Division
  <2>3. s.y = (n \div t.termWidth) + 1
    BY <1>1, <1>3, <1>4, <2>1, <2>2 DEF Clamp
  <2>4. ASSUME NEW q \in Place PROVE term'.cell[q] = Space
    <3> DEFINE r == <<q[1] + s.y, q[2]>>
    <3>1. CASE term'.cell[q] = Space
      BY <3>1
    <3>2. CASE r \in Place /\ term'.cell[q] = s.cell[r]
      <4>1. r[1] = q[1] + s.y /\ r[2] = q[2]
        OBVIOUS
      <4> HIDE DEF r
      <4>2. r[1] \in Nat /\ q[1] \in Nat /\ (r[2] < t.termWidth => r[2] \in 0..(t.termWidth - 1))
        BY <1>2, <3>2, PlaceIs
      <4>3. n \div t.termWidth < r[1]
        BY <2>2, <2>3, <4>1, <4>2
      <4>4. t.cell[r] = IF r[2] < t.termWidth THEN Line(line)[r[1] * t.termWidth + r[2]] ELSE Space
        BY <2>1, <3>2 DEF Shows
      <4>5. r[2] < t.termWidth => Line(line)[r[1] * t.termWidth + r[2]] = Space
        <5> DEFINE a == r[1]
                   b == r[2]
                   w == t.termWidth
        <5>1. /\ a \in Nat /\ w \in Nat \ {0} /\ (Behind + Len(line)) \div w < a
              /\ b < w => b \in 0..(w - 1)
          BY <1>2, <4>2, <4>3
        <5> HIDE DEF a, b, w
        <5>2. b < w => Line(line)[a * w + b] = Space
          BY <1>1, <5>1, BlankBelow
        <5> QED BY <5>2 DEF a, b, w
      <4> QED BY <1>4, <3>2, <4>4, <4>5
    <3> QED BY <1>5, <3>1, <3>2
  <2> QED BY <1>5, <2>4, BlankSees
<1>7. 0 \div term'.termWidth <= term'.maxLine
  BY <1>5, StandsKnown
<1>8. Painted'
  <2>1. exact' \in BOOLEAN /\ (exact' => Sees(term', 0, Text(<<>>)))
    BY <1>0, <1>6 DEF Painted
  <2> QED BY <1>0, <1>5, <1>7, <2>1 DEF Painted, Here, There
<1>9. Bounded'
  <2>1. head' \in 0..(Depth - 1)
    BY <1>0, AddShifts
  <2>2. entries' = [entries EXCEPT ![head'] = e] /\ DOMAIN entries = 0..(Depth - 1)
    BY <1>0 DEF Add, HistoryType
  <2>3. \A i \in DOMAIN entries' : entries'[i] = e \/ (i \in DOMAIN entries /\ entries'[i] = entries[i])
    BY <2>1, <2>2
  <2>4. Len(line') <= MaxPasted
    BY <1>0, <1>1
  <2> QED BY <1>0, <2>3, <2>4 DEF Bounded
<1> QED BY <1>8, <1>9

-----------------------------------------------------------------------------
(* What the user sees *)

\* The invariant holds at the start.
LEMMA StartsPainted ==
  ASSUME Init, EditorAssumption
  PROVE  Painted /\ Bounded
<1>1. /\ <<>> \in Seq(Rune) /\ Len(<<>>) = 0 /\ MaxPasted \in Nat /\ 0 <= MaxPasted
  BY EmptySeq DEF EditorAssumption
<1> DEFINE cell == [q \in Place |-> Space]
<1>2. PICK w \in Widths :
        term = [cursorX |-> 0, cursorY |-> 0, maxLine |-> 0, termWidth |-> w,
                x |-> 0, y |-> 0, wrap |-> FALSE, cell |-> cell]
  BY DEF Init
<1>3. cell \in [Place -> Glyph] /\ \A q \in Place : cell[q] = Space
  BY DEF EditorAssumption, Glyph
<1> HIDE DEF cell
<1>4. w \in Nat \ {0} /\ 0 \in 0..Rows /\ 0 < w
  BY DEF EditorAssumption
<1>5. term \in Screen
  BY <1>2, <1>3, <1>4 DEF Screen
<1>6. 0 % w = 0 /\ 0 \div w = 0
  BY <1>4, FirstPlace
<1>7. Stands(term, 0) /\ 0 \div term.termWidth <= term.maxLine
  BY <1>2, <1>6 DEF Stands
<1>8. term.x = 0 /\ term.y = 0 /\ ~term.wrap /\ \A q \in Place : term.cell[q] = Space
  BY <1>2, <1>3
<1>9. Sees(term, 0, Text(<<>>))
  BY <1>5, <1>8, BlankSees
<1>10. reading = FALSE /\ line = <<>> /\ pos = 0 /\ exact = TRUE
  BY DEF Init
<1>11. Painted
  BY <1>5, <1>7, <1>8, <1>9, <1>10 DEF Painted, Here, There
<1>12. Bounded
  BY <1>1 DEF Bounded, Init
<1> QED BY <1>11, <1>12

\* The keys that erase.
LEMMA EraseKeyPaints ==
  ASSUME Painted, Bounded, LineType, EraseKey
  PROVE  Painted' /\ Bounded'
<1>1. pos \in 0..Len(line) /\ pos \in Nat /\ line \in Seq(Rune)
  BY DEF LineType
<1>2. CASE Backspace
  BY <1>1, <1>2, ErasePaints DEF Backspace
<1>3. CASE DeleteWord
  <2>1. CountToLeftWord(line, pos) \in Nat
    BY <1>1, LeftCount
  <2> QED BY <1>1, <1>3, <2>1, ErasePaints DEF DeleteWord
<1>4. CASE DeleteLine
  BY <1>4, DeleteLinePaints
<1>5. CASE CtrlU
  BY <1>1, <1>5, ErasePaints DEF CtrlU
<1>6. CASE CtrlD
  <2>1. pos + 1 \in 0..Len(line)
    BY <1>1, <1>6 DEF CtrlD
  <2> QED BY <1>6, <2>1, ErasePaints DEF CtrlD
<1> QED BY <1>2, <1>3, <1>4, <1>5, <1>6 DEF EraseKey

\* Every step keeps the invariant.
LEMMA StepPaints ==
  ASSUME EditorAssumption, LineType, HistoryType, Painted, Bounded, [Next]_vars
  PROVE  Painted' /\ Bounded'
<1>1. CASE StartLine \/ PanelClears \/ ClearScreen
  BY <1>1, StartPaints, PanelPaints, ClearScreenPaints
<1>2. ASSUME NEW r \in Rune, Typed(r) \/ Pasted(r) PROVE Painted' /\ Bounded'
  BY <1>2, InsertPaints
<1>3. CASE CursorKey \/ EraseKey
  BY <1>3, CursorKeyPaints, EraseKeyPaints
<1>4. CASE Up \/ Down
  BY <1>4, WalkPaints
<1>5. ASSUME NEW e \in {line, <<>>}, Submit(e) PROVE Painted' /\ Bounded'
  <2>1. e \in Seq(Rune) /\ Len(e) <= MaxPasted
    <3>1. Len(<<>>) = 0 /\ 0 <= MaxPasted
      BY DEF EditorAssumption
    <3> QED BY <3>1, EmptySeq DEF LineType, Bounded
  <2> QED BY <1>5, <2>1, SubmitPaints
<1>6. ASSUME NEW w \in Widths, Widen(w) \/ Narrow(w) PROVE Painted' /\ Bounded'
  BY <1>6, WidenPaints, NarrowPaints
<1>7. CASE UNCHANGED vars
  <2>1. Painted'
    BY <1>7 DEF vars, Painted, Here, There
  <2>2. Bounded'
    BY <1>7 DEF vars, histVars, Bounded
  <2> QED BY <2>1, <2>2
<1> QED BY <1>1, <1>2, <1>3, <1>4, <1>5, <1>6, <1>7 DEF Next, Enter, CtrlC

\* The inductive invariant of the editor, for every prompt, alphabet and window: the
\* terminal knows where its cursor is and how many rows the line has, and as long as
\* the screen reacts to resizing as it expects, the screen has the prompt, the line
\* and nothing else.
THEOREM ScreenHolds == Spec => [](Painted /\ Bounded)
<1>1. Init => Painted /\ Bounded
  BY EditorAssumption, StartsPainted
<1>2. LineType /\ HistoryType /\ Painted /\ Bounded /\ [Next]_vars => (Painted /\ Bounded)'
  BY EditorAssumption, StepPaints
<1> QED BY <1>1, <1>2, CursorInLine, PTL DEF Spec

\* The line, the history and the screen have their types: with CursorInLine, the
\* terminal's cursor is in a column of the window and the screen's on a place of it.
THEOREM TypeCorrect == Spec => []TypeOK
<1>1. Painted => ScreenType
  <2> SUFFICES ASSUME Painted PROVE ScreenType
    OBVIOUS
  <2>1. term \in Screen /\ exact \in BOOLEAN
    BY DEF Painted
  <2>2. /\ term.termWidth \in Widths /\ term.cursorX \in 0..(term.termWidth - 1)
        /\ term.cursorY \in Nat /\ term.maxLine \in Nat
        /\ term.cell \in [Place -> Glyph] /\ term.y \in 0..Rows /\ term.x \in Columns
    BY <2>1, ScreenIs, WindowType
  <2> QED BY <2>1, <2>2 DEF ScreenType, Glyph, Place
<1> QED BY <1>1, CursorInLine, ScreenHolds, PTL DEF TypeOK

\* For every line, prompt and width of the window, whatever keys are pressed and
\* however the window grows: the user sees the prompt and the line, and the cursor
\* where the next key acts.
THEOREM UserSeesLine == Spec => []ScreenShowsLine
<1>1. LineType /\ Painted => ScreenShowsLine
  <2> SUFFICES ASSUME LineType, Painted, exact PROVE ScreenShowsLine
    BY DEF ScreenShowsLine
  <2> DEFINE w == term.termWidth
             text == IF reading THEN Prompt \o line ELSE <<>>
             at == IF reading THEN Len(Prompt) + pos ELSE 0
  <2>1. /\ term \in Screen /\ w \in Nat \ {0} /\ Stands(term, at) /\ Sees(term, at, Text(text))
    BY WindowType DEF Painted, Here
  <2>2. term.x = at % w /\ term.y = at \div w /\ ~term.wrap
    BY <2>1 DEF Sees, Pen
  <2>3. term.cursorX = at % w /\ term.cursorY = at \div w
    BY <2>1 DEF Stands
  <2>4. Len(text) \in Nat
    <3>1. CASE reading
      BY <3>1, PromptType, LineIs DEF LineType
    <3>2. CASE ~reading
      BY <3>2
    <3> QED BY <3>1, <3>2
  <2> HIDE DEF text
  <2>5. ASSUME NEW q \in Place
        PROVE  LET k == q[1] * w + q[2] + 1
               IN term.cell[q] = IF q[2] < w /\ k <= Len(text) THEN text[k] ELSE Space
    <3> DEFINE i == q[1] * w + q[2]
    <3>1. term.cell[q] = IF q[2] < w THEN Text(text)[i] ELSE Space
      BY <2>1, Zenon DEF Sees, Shows
    <3>2. CASE q[2] < w
      <4>1. i \in Nat
        BY <2>1, <3>2, PlaceIs, OnePlace
      <4>2. Text(text)[i] = IF i < Len(text) THEN text[i + 1] ELSE Space
        BY <4>1 DEF Text
      <4> HIDE DEF i
      <4>3. i < Len(text) <=> i + 1 <= Len(text)
        BY <2>4, <4>1
      <4> QED BY <3>1, <3>2, <4>2, <4>3 DEF i
    <3>3. CASE ~(q[2] < w)
      BY <3>1, <3>3
    <3> QED BY <3>2, <3>3
  <2> HIDE DEF at, w
  <2>6. /\ <<term.y, term.x>> = <<at \div w, at % w>> /\ ~term.wrap
        /\ <<term.cursorY, term.cursorX>> = <<term.y, term.x>>
    BY <2>2, <2>3
  <2> QED BY <2>5, <2>6 DEF ScreenShowsLine, text, at, w
<1> QED BY <1>1, CursorInLine, ScreenHolds, PTL
=============================================================================
