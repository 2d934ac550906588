--------------------------- MODULE NuExtractProofs ---------------------------
(***************************************************************************)
(* Proofs about NuExtract, for pages of any text, any limits, any number   *)
(* of chunks and answers made from any objects.                            *)
(*                                                                         *)
(*   - LimitKept: LimitRespected.  Texts, their sizes, and what each loop  *)
(*     of the chunker keeps below the limit.                               *)
(*   - TextKept: NoTextLost.  The letters of texts, what each loop does    *)
(*     with them, and texts within texts.                                  *)
(*   - RepairKept: RepairFaithful.  The walk that looks for the end of an  *)
(*     object and for trailing commas agrees with the parser as long as    *)
(*     the text is JSON so far; what closing a truncated object does; and  *)
(*     what is left of one with a comma before each closing bracket.       *)
(*   - NothingLost and GapsTold: NoItemLost and GapsAreReported, from the  *)
(*     invariant MergeInv of the merge.                                    *)
(***************************************************************************)
EXTENDS NuExtract, FiltersProofs, FiniteSetTheorems

-----------------------------------------------------------------------------
(* The sizes of texts.                                                     *)

LEMMA WideFinite ==
  ASSUME NEW t \in Text
  PROVE  IsFiniteSet(Wide(t)) /\ Cardinality(Wide(t)) \in Nat /\ Len(t) \in Nat
<1>1. Len(t) \in Nat
  BY DEF Text
<1>2. IsFiniteSet(1 .. Len(t)) /\ Wide(t) \in SUBSET (1 .. Len(t))
  BY <1>1, FS_Interval DEF Wide
<1>3. IsFiniteSet(Wide(t))
  BY <1>2, FS_Subset
<1> QED
  BY <1>1, <1>3, FS_CardinalityType

LEMMA SizeType ==
  ASSUME NEW t \in Text
  PROVE  Size(t) \in Nat /\ Size(t) = Len(t) + Cardinality(Wide(t)) /\ Size(t) >= Len(t)
BY WideFinite DEF Size

\* A set of numbers moved along by d.
Moved(P, d) == {k + d : k \in P}

LEMMA MovedCount ==
  ASSUME NEW P \in SUBSET Int, IsFiniteSet(P), NEW d \in Int
  PROVE  IsFiniteSet(Moved(P, d)) /\ Cardinality(Moved(P, d)) = Cardinality(P)
<1> DEFINE f == [k \in P |-> k + d]
<1>1. f \in Bijection(P, Moved(P, d))
  <2>1. f \in [P -> Moved(P, d)]
    BY DEF Moved
  <2>2. \A a, b \in P : f[a] = f[b] => a = b
    OBVIOUS
  <2>3. \A b \in Moved(P, d) : \E a \in P : f[a] = b
    BY DEF Moved
  <2> HIDE DEF f
  <2> QED
    BY <2>1, <2>2, <2>3 DEF Bijection, Injection, IsInjective, Surjection
<1> HIDE DEF f
<1>2. ExistsBijection(P, Moved(P, d))
  BY <1>1 DEF ExistsBijection
<1> QED
  BY <1>2, FS_Bijection

LEMMA TextConcat ==
  ASSUME NEW s \in Text, NEW t \in Text
  PROVE  /\ s \o t \in Text /\ Len(s \o t) = Len(s) + Len(t)
         /\ \A i \in 1 .. Len(s) : (s \o t)[i] = s[i]
         /\ \A i \in 1 .. Len(t) : (s \o t)[i + Len(s)] = t[i]
<1>1. \A u, v \in Seq(Runes) :
        /\ u \o v \in Seq(Runes) /\ Len(u \o v) = Len(u) + Len(v)
        /\ \A i \in 1 .. Len(u) : (u \o v)[i] = u[i]
        /\ \A i \in 1 .. Len(v) : (u \o v)[i + Len(u)] = v[i]
  BY Concat
<1> QED
  BY <1>1 DEF Text

LEMMA SizeConcat ==
  ASSUME NEW s \in Text, NEW t \in Text
  PROVE  s \o t \in Text /\ Size(s \o t) = Size(s) + Size(t)
<1> DEFINE u == s \o t
           n == Len(s)
           m == Len(t)
<1>1. /\ u \in Text /\ Len(u) = n + m /\ n \in Nat /\ m \in Nat
      /\ \A i \in 1 .. n : u[i] = s[i]
      /\ \A i \in 1 .. m : u[i + n] = t[i]
  BY TextConcat, WideFinite
<1> HIDE DEF u, n, m
<1>2. Wide(u) = Wide(s) \cup Moved(Wide(t), n)
  <2>1. ASSUME NEW i \in Wide(u) PROVE i \in Wide(s) \cup Moved(Wide(t), n)
    <3>1. CASE i <= n
      BY <1>1, <2>1, <3>1 DEF Wide, n
    <3>2. CASE i > n
      <4>1. i - n \in 1 .. m /\ u[(i - n) + n] = t[i - n] /\ i = (i - n) + n
        BY <1>1, <2>1, <3>2 DEF Wide
      <4>2. i - n \in Wide(t)
        BY <2>1, <4>1 DEF Wide, m
      <4> QED
        BY <4>1, <4>2 DEF Moved
    <3> QED
      BY <1>1, <2>1, <3>1, <3>2 DEF Wide
  <2>2. ASSUME NEW i \in Wide(s) PROVE i \in Wide(u)
    BY <1>1, <2>2 DEF Wide, n
  <2>3. ASSUME NEW i \in Moved(Wide(t), n) PROVE i \in Wide(u)
    <3>1. PICK k \in Wide(t) : i = k + n
      BY <2>3 DEF Moved
    <3>2. k \in 1 .. m /\ IsWide(t[k])
      BY DEF Wide, m
    <3>3. i \in 1 .. Len(u) /\ u[i] = t[k]
      BY <1>1, <3>1, <3>2
    <3> QED
      BY <3>2, <3>3 DEF Wide
  <2> QED
    BY <2>1, <2>2, <2>3
<1>3. Wide(s) \cap Moved(Wide(t), n) = {}
  BY <1>1 DEF Wide, Moved, n, m
<1>4. /\ IsFiniteSet(Moved(Wide(t), n))
      /\ Cardinality(Moved(Wide(t), n)) = Cardinality(Wide(t))
  <2>1. Wide(t) \in SUBSET Int /\ n \in Int
    BY <1>1 DEF Wide
  <2> QED
    BY <2>1, WideFinite, MovedCount
<1>5. Cardinality(Wide(u)) = Cardinality(Wide(s)) + Cardinality(Wide(t))
  <2>1. IsFiniteSet(Wide(s))
    BY WideFinite
  <2>2. Cardinality(Wide(s) \cup Moved(Wide(t), n))
          = Cardinality(Wide(s)) + Cardinality(Moved(Wide(t), n))
                - Cardinality(Wide(s) \cap Moved(Wide(t), n))
    BY <1>4, <2>1, FS_Union
  <2>3. Cardinality(Wide(s) \cap Moved(Wide(t), n)) = 0
    BY <1>3, FS_EmptySet
  <2>4. Cardinality(Wide(s)) \in Nat /\ Cardinality(Wide(t)) \in Nat
    BY WideFinite
  <2> QED
    BY <1>2, <1>4, <2>2, <2>3, <2>4
<1>6. /\ Size(u) = n + m + Cardinality(Wide(u))
      /\ Size(s) = n + Cardinality(Wide(s)) /\ Size(t) = m + Cardinality(Wide(t))
  BY <1>1, SizeType DEF n, m
<1> QED
  BY <1>1, <1>5, <1>6, WideFinite DEF u

LEMMA SizeSubSeq ==
  ASSUME NEW t \in Text, NEW i \in 1 .. Len(t), NEW j \in 1 .. Len(t)
  PROVE  SubSeq(t, i, j) \in Text /\ Size(SubSeq(t, i, j)) <= Size(t)
<1> DEFINE u == SubSeq(t, i, j)
           n == Len(t)
<1>1. /\ u \in Text /\ n \in Nat /\ Len(u) \in Nat /\ i \in 1 .. n /\ j \in 1 .. n
      /\ Len(u) <= n
      /\ \A k \in 1 .. Len(u) : k + (i - 1) \in 1 .. n /\ u[k] = t[k + (i - 1)]
  BY SMTT(20) DEF Text
<1> HIDE DEF u, n
<1>2. Moved(Wide(u), i - 1) \in SUBSET Wide(t)
  BY <1>1 DEF Moved, Wide, n
<1>3. Cardinality(Moved(Wide(u), i - 1)) = Cardinality(Wide(u))
  <2>1. Wide(u) \in SUBSET Int /\ i - 1 \in Int /\ IsFiniteSet(Wide(u))
    BY <1>1, WideFinite DEF Wide
  <2> QED
    BY <2>1, MovedCount
<1>4. Cardinality(Wide(u)) <= Cardinality(Wide(t))
  BY <1>2, <1>3, FS_Subset, WideFinite
<1>5. Size(u) = Len(u) + Cardinality(Wide(u)) /\ Size(t) = n + Cardinality(Wide(t))
  BY <1>1, SizeType DEF n
<1> QED
  BY <1>1, <1>4, <1>5, WideFinite DEF u

LEMMA SizeShort ==
  /\ <<>> \in Text /\ Size(<<>>) = 0
  /\ \A r \in Runes : <<r>> \in Text /\ Size(<<r>>) <= 2
<1>1. <<>> \in Text /\ Size(<<>>) = 0
  <2>1. Wide(<<>>) = {}
    BY DEF Wide
  <2>2. <<>> \in Text /\ Len(<<>>) = 0
    BY DEF Text
  <2>3. Cardinality(Wide(<<>>)) = 0
    BY <2>1, FS_EmptySet
  <2> QED
    BY <2>2, <2>3 DEF Size
<1>2. ASSUME NEW r \in Runes PROVE <<r>> \in Text /\ Size(<<r>>) <= 2
  <2>1. <<r>> \in Text /\ Len(<<r>>) = 1
    BY DEF Text
  <2>2. IsFiniteSet({1}) /\ Cardinality({1}) = 1
    BY FS_Singleton
  <2>3. Cardinality(Wide(<<r>>)) <= 1
    <3>1. Wide(<<r>>) \in SUBSET {1}
      BY <2>1 DEF Wide
    <3>2. Cardinality(Wide(<<r>>)) <= Cardinality({1})
      BY <2>2, <3>1, FS_Subset
    <3> QED
      BY <2>2, <3>2
  <2>4. Cardinality(Wide(<<r>>)) \in Nat
    BY <2>1, WideFinite
  <2> QED
    BY <2>1, <2>3, <2>4 DEF Size
<1> QED
  BY <1>1, <1>2

\* The least and the greatest of some places of a text.
LEMMA GreatestNumber ==
  ASSUME NEW n \in Nat, NEW V \in SUBSET (1 .. n), V # {}
  PROVE  \E m \in V : \A k \in V : k <= m
<1> DEFINE LettersOf == {n - k : k \in V}
<1>1. LettersOf \in SUBSET Nat /\ LettersOf # {}
  <2>1. \A k \in V : n - k \in Nat
    OBVIOUS
  <2>2. PICK k \in V : TRUE
    OBVIOUS
  <2>3. n - k \in LettersOf
    OBVIOUS
  <2> QED
    BY <2>1, <2>3
<1>2. PICK w \in LettersOf : \A k \in LettersOf : w <= k
  BY <1>1, LeastNumber
<1>3. PICK m \in V : w = n - m
  BY <1>2
<1>4. ASSUME NEW k \in V PROVE k <= m
  <2>1. n - m <= n - k
    BY <1>2, <1>3
  <2> QED
    BY <2>1
<1> QED
  BY <1>4

LEMMA TrimSize ==
  ASSUME NEW t \in Text PROVE TrimSpace(t) \in Text /\ Size(TrimSpace(t)) <= Size(t)
<1> DEFINE solid == {i \in 1 .. Len(t) : t[i] \notin {"\n", "_"}}
           first == CHOOSE i \in solid : \A j \in solid : i <= j
           last == CHOOSE i \in solid : \A j \in solid : j <= i
<1>1. CASE solid = {}
  <2>1. TrimSpace(t) = <<>>
    BY <1>1 DEF TrimSpace
  <2> QED
    BY <2>1, SizeShort, SizeType
<1>2. CASE solid # {}
  <2>1. TrimSpace(t) = SubSeq(t, first, last)
    BY <1>2 DEF TrimSpace
  <2>2. solid \in SUBSET (1 .. Len(t)) /\ Len(t) \in Nat
    BY WideFinite
  <2> HIDE DEF solid
  <2>3. solid \in SUBSET Nat
    BY <2>2
  <2>4. first \in solid
    BY <1>2, <2>3, LeastNumber
  <2>5. last \in solid
    BY <1>2, <2>2, GreatestNumber
  <2>6. first \in 1 .. Len(t) /\ last \in 1 .. Len(t)
    BY <2>2, <2>4, <2>5
  <2> HIDE DEF first, last
  <2> QED
    BY <2>1, <2>6, SizeSubSeq
<1> QED
  BY <1>1, <1>2

-----------------------------------------------------------------------------
(* What the chunker's loops make of texts.                                 *)

\* The texts that fit into m bytes.
Fitting(m) == {t \in Text : Size(t) <= m}

LEMMA JoinLineType ==
  ASSUME NEW text \in Text, NEW line \in Text PROVE JoinLine(text, line) \in Text
<1>1. <<"\n">> \in Text
  <2>1. "\n" \in Runes
    BY RunesAssumption
  <2> QED
    BY <2>1, SizeShort
<1> QED
  BY <1>1, TextConcat DEF JoinLine

\* A list whose last element is replaced.
LEMMA LastChanged ==
  ASSUME NEW S, NEW s \in Seq(S), s # <<>>, NEW e \in S
  PROVE  [s EXCEPT ![Len(s)] = e] \in {t \in Seq(S) : t # <<>>}
<1>1. Len(s) \in Nat /\ Len(s) >= 1 /\ \A i \in 1 .. Len(s) : s[i] \in S
  OBVIOUS
<1> DEFINE t == [s EXCEPT ![Len(s)] = e]
<1>2. t = [i \in 1 .. Len(s) |-> IF i = Len(s) THEN e ELSE s[i]]
  OBVIOUS
<1> HIDE DEF t
<1>3. t \in Seq(S) /\ Len(t) = Len(s)
  <2> DEFINE n == Len(s)
  <2>1. t \in [1 .. n -> S] /\ n \in Nat
    BY <1>1, <1>2
  <2> HIDE DEF n
  <2>2. t \in Seq(S) /\ Len(t) = n
    BY <2>1
  <2> QED
    BY <2>2 DEF n
<1>4. t # <<>>
  BY <1>1, <1>3
<1> QED
  BY <1>3, <1>4 DEF t

LEMMA LinesType ==
  ASSUME NEW text \in Text
  PROVE  Lines(text) \in Seq(Text) /\ Lines(text) # <<>>
<1> DEFINE step == [ls \in Seq(Text) |-> [r \in Runes |->
                      IF r = "\n" THEN Append(ls, <<>>)
                      ELSE [ls EXCEPT ![Len(ls)] = Append(@, r)]]]
           A == {ls \in Seq(Text) : ls # <<>>}
<1>1. << <<>> >> \in A
  BY SizeShort
<1>2. ASSUME NEW ls \in A, NEW r \in Runes PROVE step[ls][r] \in A
  <2>1. step[ls][r] = IF r = "\n" THEN Append(ls, <<>>)
                      ELSE [ls EXCEPT ![Len(ls)] = Append(@, r)]
    OBVIOUS
  <2>2. Append(ls, <<>>) \in A
    BY SizeShort
  <2>3. [ls EXCEPT ![Len(ls)] = Append(@, r)] \in A
    <3>1. Len(ls) \in 1 .. Len(ls) /\ ls[Len(ls)] \in Text
      OBVIOUS
    <3>2. Append(ls[Len(ls)], r) \in Text
      BY <3>1 DEF Text
    <3> QED
      BY <3>1, <3>2, LastChanged
  <2> QED
    BY <2>1, <2>2, <2>3
<1>3. text \in Seq(Runes)
  BY DEF Text
<1> HIDE DEF step, A
<1>4. Iterate(step, << <<>> >>, text) \in A
  BY <1>1, <1>2, <1>3, IterateKeeps
<1>5. Lines(text) = Iterate(step, << <<>> >>, text)
  BY DEF Lines, step
<1> QED
  BY <1>4, <1>5 DEF A

\* Whole runes are put together up to the limit; a part of one rune may be two
\* bytes long whatever the limit.
LEMMA PartsFit ==
  ASSUME NEW value \in Text, NEW maxBytes \in Int, NEW m \in Nat, m >= 2, m >= maxBytes
  PROVE  splitUTF8(value, maxBytes) \in Seq(Fitting(m))
<1> DEFINE step == [parts \in Seq(Text) |-> [r \in Runes |->
             IF Last(parts) = <<>> \/ Size(Append(Last(parts), r)) <= maxBytes
             THEN [parts EXCEPT ![Len(parts)] = Append(@, r)]
             ELSE Append(parts, <<r>>)]]
           A == {parts \in Seq(Fitting(m)) : parts # <<>>}
<1>1. << <<>> >> \in A
  <2>1. <<>> \in Fitting(m)
    BY SizeShort DEF Fitting
  <2> HIDE DEF Fitting
  <2> QED
    BY <2>1
<1>2. ASSUME NEW parts \in A, NEW r \in Runes PROVE step[parts][r] \in A
  <2>1. parts \in Seq(Fitting(m)) /\ parts # <<>> /\ Seq(Fitting(m)) \subseteq Seq(Text)
    BY DEF Fitting
  <2>2. Last(parts) = parts[Len(parts)] /\ Len(parts) \in 1 .. Len(parts)
        /\ Last(parts) \in Fitting(m)
    <3> HIDE DEF Fitting
    <3> QED
      BY <2>1 DEF Last
  <2> DEFINE longer == Append(Last(parts), r)
  <2>3. step[parts][r] = IF Last(parts) = <<>> \/ Size(longer) <= maxBytes
                         THEN [parts EXCEPT ![Len(parts)] = longer]
                         ELSE Append(parts, <<r>>)
    BY <2>1, <2>2
  <2>4. <<r>> \in Fitting(m)
    <3>1. <<r>> \in Text /\ Size(<<r>>) <= 2
      BY SizeShort
    <3>2. Size(<<r>>) \in Nat
      BY <3>1, SizeType
    <3> QED
      BY <3>1, <3>2 DEF Fitting
  <2>5. Append(parts, <<r>>) \in A
    <3> HIDE DEF Fitting
    <3> QED
      BY <2>1, <2>4
  <2>6. ASSUME Last(parts) = <<>> \/ Size(longer) <= maxBytes
        PROVE  [parts EXCEPT ![Len(parts)] = longer] \in A
    <3>1. longer \in Text
      BY <2>2 DEF Fitting, Text
    <3>2. CASE Last(parts) = <<>>
      <4>1. longer = <<r>>
        BY <3>2
      <4> HIDE DEF longer
      <4>2. longer \in Fitting(m)
        BY <2>4, <4>1
      <4> HIDE DEF Fitting
      <4> QED
        BY <2>1, <4>2, LastChanged
    <3>3. CASE Size(longer) <= maxBytes
      <4>1. longer \in Fitting(m)
        BY <3>1, <3>3, SizeType DEF Fitting
      <4> HIDE DEF longer, Fitting
      <4> QED
        BY <2>1, <4>1, LastChanged
    <3> QED
      BY <2>6, <3>2, <3>3
  <2> HIDE DEF step, A, longer
  <2> QED
    BY <2>3, <2>5, <2>6
<1>3. value \in Seq(Runes)
  BY DEF Text
<1>4. A \subseteq Seq(Fitting(m))
  OBVIOUS
<1> HIDE DEF step, A
<1>5. Iterate(step, << <<>> >>, value) \in A
  BY <1>1, <1>2, <1>3, IterateKeeps
<1>6. splitUTF8(value, maxBytes) = Iterate(step, << <<>> >>, value)
  BY DEF splitUTF8, step
<1> QED
  BY <1>4, <1>5, <1>6

\* Every piece of a block fits.
LEMMA PiecesFit ==
  ASSUME NEW block \in Text, NEW maxBytes \in Int, NEW m \in Nat, m >= 2, m >= maxBytes
  PROVE  splitOversizedBlock(block, maxBytes) \in Seq(Fitting(m))
<1> DEFINE Packing == [parts : Seq(Text), cur : Text]
           pack == [st \in Packing |-> [part \in Text |->
             IF Size(JoinLine(st.cur, part)) > maxBytes
             THEN [parts |-> Append(st.parts, st.cur), cur |-> part]
             ELSE [st EXCEPT !.cur = JoinLine(@, part)]]]
           packLine == [st \in Packing |-> [line \in Text |->
             Iterate(pack, st, splitUTF8(line, maxBytes))]]
           empty == [parts |-> <<>>, cur |-> <<>>]
           end == Iterate(packLine, empty, Lines(block))
           A == [parts : Seq(Fitting(m)), cur : Fitting(m)]
<1>1. empty \in A
  BY SizeShort DEF Fitting
<1>2. A \subseteq Packing
  BY DEF Fitting
<1>3. ASSUME NEW st \in A, NEW part \in Fitting(m) PROVE pack[st][part] \in A
  <2> DEFINE joined == JoinLine(st.cur, part)
  <2>1. pack[st][part] = IF Size(joined) > maxBytes
                         THEN [parts |-> Append(st.parts, st.cur), cur |-> part]
                         ELSE [st EXCEPT !.cur = joined]
    BY <1>2 DEF Fitting
  <2>2. st.parts \in Seq(Fitting(m)) /\ st.cur \in Fitting(m)
    OBVIOUS
  <2>3. Append(st.parts, st.cur) \in Seq(Fitting(m))
    <3> HIDE DEF Fitting
    <3> QED
      BY <2>2
  <2>4. joined \in Text
    BY <2>2, JoinLineType DEF Fitting
  <2>5. ASSUME ~ (Size(joined) > maxBytes) PROVE joined \in Fitting(m)
    BY <2>4, <2>5, SizeType DEF Fitting
  <2> HIDE DEF Fitting, joined, pack
  <2>6. [st EXCEPT !.cur = joined] = [parts |-> st.parts, cur |-> joined]
    OBVIOUS
  <2> QED
    BY <2>1, <2>2, <2>3, <2>5, <2>6
<1>4. ASSUME NEW st \in A, NEW line \in Text PROVE packLine[st][line] \in A
  <2>1. packLine[st][line] = Iterate(pack, st, splitUTF8(line, maxBytes))
    <3> HIDE DEF pack, A
    <3> QED
      BY <1>2
  <2>2. splitUTF8(line, maxBytes) \in Seq(Fitting(m))
    BY PartsFit
  <2> HIDE DEF pack, packLine, A, Fitting
  <2> QED
    BY <1>3, <2>1, <2>2, IterateKeeps
<1>5. end \in A
  <2>1. Lines(block) \in Seq(Text)
    BY LinesType
  <2> HIDE DEF packLine, A, empty
  <2> QED
    BY <1>1, <1>4, <2>1, IterateKeeps
<1>6. splitOversizedBlock(block, maxBytes) =
        IF Size(block) <= maxBytes THEN <<block>>
        ELSE IF end.cur = <<>> THEN end.parts ELSE Append(end.parts, end.cur)
  BY DEF splitOversizedBlock
<1> HIDE DEF end
<1>7. CASE Size(block) <= maxBytes
  <2>1. block \in Fitting(m)
    BY <1>7, SizeType DEF Fitting
  <2> HIDE DEF Fitting
  <2> QED
    BY <1>6, <1>7, <2>1
<1>8. CASE ~ (Size(block) <= maxBytes)
  <2>1. end.parts \in Seq(Fitting(m)) /\ end.cur \in Fitting(m)
    BY <1>5
  <2> HIDE DEF Fitting
  <2> QED
    BY <1>6, <1>8, <2>1
<1> QED
  BY <1>7, <1>8

LEMMA FirstLineType ==
  ASSUME NEW block \in Text PROVE firstLine(block) \in Text
BY LinesType DEF firstLine

\* What the splitting loop keeps: its chunks fit, and so does the current one.
FittingState(m) ==
  [chunks : Seq(Fitting(m)), cur : Fitting(m), heading : Text, seen : SUBSET Text]

LEMMA FlushFits ==
  ASSUME NEW m \in Nat, NEW st \in FittingState(m)
  PROVE  /\ flush(st) \in FittingState(m) /\ flush(st).cur = <<>>
         /\ flush(st).heading = st.heading /\ flush(st).seen = st.seen
<1> DEFINE chunk == TrimSpace(st.cur)
           reset == [st EXCEPT !.cur = <<>>]
           flushed == [reset EXCEPT !.chunks = Append(st.chunks, chunk)]
<1>1. /\ st = [chunks |-> st.chunks, cur |-> st.cur, heading |-> st.heading, seen |-> st.seen]
      /\ st.chunks \in Seq(Fitting(m)) /\ st.cur \in Fitting(m)
      /\ st.heading \in Text /\ st.seen \in SUBSET Text
  <2> HIDE DEF Fitting
  <2> QED
    BY DEF FittingState
<1>2. chunk \in Fitting(m) /\ <<>> \in Fitting(m)
  <2>1. st.cur \in Text /\ Size(st.cur) <= m
    BY <1>1 DEF Fitting
  <2>2. chunk \in Text /\ Size(chunk) <= Size(st.cur) /\ Size(st.cur) \in Nat
    BY <2>1, TrimSize, SizeType
  <2>3. Size(chunk) \in Nat
    BY <2>2, SizeType
  <2> QED
    BY <2>1, <2>2, <2>3, SizeShort DEF Fitting
<1> HIDE DEF Fitting, chunk
<1>3. /\ reset \in FittingState(m) /\ reset.cur = <<>> /\ reset.chunks = st.chunks
      /\ reset.heading = st.heading /\ reset.seen = st.seen
  BY <1>2 DEF FittingState
<1>4. Append(st.chunks, chunk) \in Seq(Fitting(m))
  BY <1>1, <1>2
<1>5. ASSUME NEW r \in FittingState(m), NEW c \in Seq(Fitting(m))
      PROVE  /\ [r EXCEPT !.chunks = c] \in FittingState(m)
             /\ [r EXCEPT !.chunks = c].cur = r.cur
             /\ [r EXCEPT !.chunks = c].heading = r.heading
             /\ [r EXCEPT !.chunks = c].seen = r.seen
  BY DEF FittingState
<1>6. flush(st) = IF chunk = <<>> THEN reset ELSE flushed
  BY <1>3 DEF flush, chunk
<1> HIDE DEF reset
<1> QED
  BY <1>3, <1>4, <1>5, <1>6

LEMMA AppendFits ==
  ASSUME NEW m \in Nat, NEW st \in FittingState(m), NEW text \in Fitting(m)
  PROVE  appendPart(st, text, m) \in FittingState(m)
<1> DEFINE part == TrimSpace(text)
           prefix == IF st.heading # <<>> /\ part # st.heading
                     THEN st.heading \o <<"\n", "\n">> ELSE <<>>
           separator == IF st.cur = <<>> THEN 0 ELSE 2
           start == IF Size(prefix) + Size(part) <= m
                    THEN [flush(st) EXCEPT !.cur = prefix] ELSE flush(st)
           room == Size(st.cur) + separator + Size(part) <= m
           base0 == IF room THEN st ELSE start
<1>1. /\ st = [chunks |-> st.chunks, cur |-> st.cur, heading |-> st.heading, seen |-> st.seen]
      /\ st.chunks \in Seq(Fitting(m)) /\ st.cur \in Fitting(m)
      /\ st.heading \in Text /\ st.seen \in SUBSET Text
  <2> HIDE DEF Fitting
  <2> QED
    BY DEF FittingState
<1>2. /\ part \in Text /\ Size(part) \in Nat /\ Size(part) <= m
      /\ st.cur \in Text /\ Size(st.cur) \in Nat
  <2>1. text \in Text /\ Size(text) <= m /\ st.cur \in Text
    BY <1>1 DEF Fitting
  <2>2. part \in Text /\ Size(part) <= Size(text) /\ Size(text) \in Nat
        /\ Size(st.cur) \in Nat
    BY <2>1, TrimSize, SizeType
  <2>3. Size(part) \in Nat
    BY <2>2, SizeType
  <2> QED
    BY <2>1, <2>2, <2>3
<1>3. prefix \in Text /\ Size(prefix) \in Nat
  <2>1. "\n" \in Runes
    BY RunesAssumption
  <2>2. <<"\n", "\n">> \in Text
    BY <2>1 DEF Text
  <2>3. st.heading \o <<"\n", "\n">> \in Text
    BY <1>1, <2>2, TextConcat
  <2> HIDE DEF part
  <2>4. prefix \in Text
    BY <2>3, SizeShort
  <2> HIDE DEF prefix
  <2> QED
    BY <2>4, SizeType
<1> HIDE DEF part, prefix
<1>4. flush(st) \in FittingState(m) /\ flush(st).cur = <<>>
  BY FlushFits
<1>5. appendPart(st, text, m) = IF part = <<>> THEN st ELSE [base0 EXCEPT !.cur = base0.cur \o part]
  BY DEF appendPart, part, prefix
<1>6. ASSUME NEW b \in FittingState(m), NEW c \in Fitting(m)
      PROVE  [b EXCEPT !.cur = c] \in FittingState(m) /\ [b EXCEPT !.cur = c].cur = c
  <2> HIDE DEF Fitting
  <2>1. [b EXCEPT !.cur = c] =
          [chunks |-> b.chunks, cur |-> c, heading |-> b.heading, seen |-> b.seen]
    BY DEF FittingState
  <2> QED
    BY <2>1 DEF FittingState
<1>7. ASSUME NEW c \in Text, Size(c) + Size(part) <= m PROVE c \o part \in Fitting(m)
  <2>1. c \o part \in Text /\ Size(c \o part) = Size(c) + Size(part)
    BY <1>2, SizeConcat
  <2> QED
    BY <1>7, <2>1 DEF Fitting
<1>8. base0 \in FittingState(m) /\ base0.cur \in Text /\ Size(base0.cur) + Size(part) <= m
  <2>1. CASE room
    BY <1>2, <2>1
  <2>2. CASE ~ room /\ Size(prefix) + Size(part) <= m
    <3>1. prefix \in Fitting(m)
      BY <1>2, <1>3, <2>2 DEF Fitting
    <3>2. base0 = [flush(st) EXCEPT !.cur = prefix]
      BY <2>2
    <3> QED
      BY <1>3, <1>4, <1>6, <2>2, <3>1, <3>2
  <2>3. CASE ~ room /\ ~ (Size(prefix) + Size(part) <= m)
    <3>1. base0 = flush(st)
      BY <2>3
    <3> HIDE DEF base0
    <3>2. base0.cur = <<>> /\ Size(base0.cur) = 0 /\ base0.cur \in Text
      BY <1>4, <3>1, SizeShort
    <3> QED
      BY <1>2, <1>4, <3>1, <3>2
  <2> QED
    BY <2>1, <2>2, <2>3
<1> HIDE DEF base0
<1>9. base0.cur \o part \in Fitting(m)
  BY <1>7, <1>8
<1> QED
  BY <1>5, <1>6, <1>8, <1>9

\* A block's heading, its pieces' limit and the block itself are noted; its
\* pieces leave room for the heading where that leaves room for anything.
LEMMA BlockFits ==
  ASSUME NEW m \in Nat, m >= 2, NEW st \in FittingState(m), NEW text \in Text
  PROVE  addBlock(st, text, m) \in FittingState(m)
<1> DEFINE block == TrimSpace(text)
           heading == IF isHeading(block) THEN firstLine(block) ELSE st.heading
           crumb == Size(heading) + 2
           limited == heading # <<>> /\ block # heading /\ crumb < m
           partLimit == IF limited THEN m - crumb ELSE m
           parts == splitOversizedBlock(block, partLimit)
           marked == [st EXCEPT !.seen = st.seen \union {block}]
           noted == [marked EXCEPT !.heading = heading]
           step == [s \in Splitting |-> [p \in Text |-> appendPart(s, p, m)]]
<1>1. st.heading \in Text /\ st.seen \in SUBSET Text
  BY DEF FittingState
<1>2. block \in Text
  BY TrimSize
<1> HIDE DEF block
<1>3. heading \in Text
  BY <1>1, <1>2, FirstLineType
<1> HIDE DEF heading
<1>4. partLimit \in Int /\ m >= partLimit
  BY <1>3, SizeType
<1> HIDE DEF partLimit
<1>5. parts \in Seq(Fitting(m))
  BY <1>2, <1>4, PiecesFit
<1>6. noted \in FittingState(m)
  <2>1. marked \in FittingState(m)
    <3>1. st.seen \union {block} \in SUBSET Text
      BY <1>1, <1>2
    <3> HIDE DEF Fitting
    <3> QED
      BY <3>1 DEF FittingState
  <2> HIDE DEF marked, Fitting
  <2> QED
    BY <1>3, <2>1 DEF FittingState
<1>7. FittingState(m) \subseteq Splitting /\ Fitting(m) \subseteq Text
  BY DEF FittingState, Splitting, Fitting
<1>8. ASSUME NEW s \in FittingState(m), NEW p \in Fitting(m)
      PROVE  step[s][p] \in FittingState(m)
  <2>1. step[s][p] = appendPart(s, p, m)
    BY <1>7
  <2> QED
    BY <2>1, AppendFits
<1>9. addBlock(st, text, m) = IF block \in st.seen THEN st ELSE Iterate(step, noted, parts)
  BY DEF addBlock, block, heading, partLimit
<1> HIDE DEF step, noted, parts
<1>10. Iterate(step, noted, parts) \in FittingState(m)
  BY <1>5, <1>6, <1>8, IterateKeeps
<1> QED
  BY <1>9, <1>10

LEMMA BlocksType ==
  ASSUME NEW text \in Text PROVE markdownBlocks(text) \in Seq(Text)
<1> DEFINE Flush(st) == IF st.cur = <<>> THEN st.blocks ELSE Append(st.blocks, st.cur)
           A == [blocks : Seq(Text), cur : Text]
           step == [st \in A |-> [line \in Text |->
        CASE TrimSpace(line) = <<>> -> [blocks |-> Flush(st), cur |-> <<>>]
          [] TrimSpace(line) # <<>> /\ Head(TrimSpace(line)) = "#" ->
               [blocks |-> Flush(st), cur |-> line]
          [] OTHER -> [st EXCEPT !.cur = JoinLine(st.cur, line)]]]
           empty == [blocks |-> <<>>, cur |-> <<>>]
<1>1. empty \in A
  BY SizeShort
<1>2. ASSUME NEW st \in A PROVE Flush(st) \in Seq(Text)
  OBVIOUS
<1>3. ASSUME NEW st \in A, NEW line \in Text PROVE step[st][line] \in A
  <2> DEFINE joined == [st EXCEPT !.cur = JoinLine(st.cur, line)]
  <2>1. joined \in A
    <3>1. JoinLine(st.cur, line) \in Text
      BY JoinLineType
    <3> QED
      BY <3>1
  <2>2. [blocks |-> Flush(st), cur |-> <<>>] \in A
        /\ [blocks |-> Flush(st), cur |-> line] \in A
    BY <1>2, SizeShort
  <2>3. step[st][line] \in {joined, [blocks |-> Flush(st), cur |-> <<>>],
                            [blocks |-> Flush(st), cur |-> line]}
    <3> HIDE DEF Flush
    <3> QED
      OBVIOUS
  <2> HIDE DEF step, joined, A, Flush
  <2> QED
    BY <2>1, <2>2, <2>3
<1> DEFINE end == Iterate(step, empty, Lines(text))
<1>4. end \in A
  <2>1. Lines(text) \in Seq(Text)
    BY LinesType
  <2> HIDE DEF step, A, empty
  <2> QED
    BY <1>1, <1>3, <2>1, IterateKeeps
<1>5. markdownBlocks(text) = Flush(end)
  BY DEF markdownBlocks
<1> HIDE DEF end, Flush, A
<1> QED
  BY <1>2, <1>4, <1>5

\* Every chunk fits into a limit of two bytes or more.
LEMMA ChunksFit ==
  ASSUME NEW content \in Text, NEW m \in Nat, m >= 2
  PROVE  splitSemanticMarkdown(content, m) \in Seq(Fitting(m))
<1> DEFINE text == TrimSpace(content)
           empty == [chunks |-> <<>>, cur |-> <<>>, heading |-> <<>>, seen |-> {}]
           step == [s \in Splitting |-> [b \in Text |-> addBlock(s, b, m)]]
           end == Iterate(step, empty, markdownBlocks(text))
<1>1. text \in Text
  BY TrimSize
<1> HIDE DEF text
<1>2. splitSemanticMarkdown(content, m) =
        IF text = <<>> \/ m <= 0 \/ Size(text) <= m THEN <<text>> ELSE flush(end).chunks
  BY DEF splitSemanticMarkdown, text
<1>3. CASE text = <<>> \/ m <= 0 \/ Size(text) <= m
  <2>1. text \in Fitting(m)
    BY <1>1, <1>3, SizeShort DEF Fitting
  <2> HIDE DEF Fitting
  <2> QED
    BY <1>2, <1>3, <2>1
<1>4. CASE ~ (text = <<>> \/ m <= 0 \/ Size(text) <= m)
  <2>1. empty \in FittingState(m)
    <3>1. <<>> \in Fitting(m) /\ <<>> \in Text
      BY SizeShort DEF Fitting
    <3> HIDE DEF Fitting
    <3> QED
      BY <3>1 DEF FittingState
  <2>2. FittingState(m) \subseteq Splitting
    BY DEF FittingState, Splitting, Fitting
  <2>3. ASSUME NEW s \in FittingState(m), NEW b \in Text PROVE step[s][b] \in FittingState(m)
    <3>1. step[s][b] = addBlock(s, b, m)
      BY <2>2
    <3> QED
      BY <3>1, BlockFits
  <2> HIDE DEF step, empty
  <2>4. end \in FittingState(m)
    <3>1. markdownBlocks(text) \in Seq(Text)
      BY <1>1, BlocksType
    <3> QED
      BY <2>1, <2>3, <3>1, IterateKeeps
  <2> HIDE DEF end
  <2>5. flush(end).chunks \in Seq(Fitting(m))
    <3>1. flush(end) \in FittingState(m)
      BY <2>4, FlushFits
    <3> HIDE DEF Fitting
    <3> QED
      BY <3>1 DEF FittingState
  <2> QED
    BY <1>2, <1>4, <2>5
<1> QED
  BY <1>3, <1>4

\* The limit of a page that is not split yet holds a rune.
Splittable ==
  /\ doc \in Text /\ limit \in Nat
  /\ total = 0 => limit >= 2
  /\ chunks \in Seq(Fitting(limit))

LEMMA PagesType == Pages \subseteq Text
<1> DEFINE write == [text \in Text |-> [b \in Text |->
                  IF text = <<>> THEN b ELSE text \o <<"\n", "\n">> \o b]]
<1> SUFFICES ASSUME NEW bs \in BoundedSeq(Blocks, MaxBlocks)
             PROVE  Iterate(write, <<>>, bs) \in Text
  BY DEF Pages
<1>1. bs \in Seq(Text)
  BY BlocksAssumption, SizesAssumption DEF BoundedSeq, SeqOf
<1>2. ASSUME NEW text \in Text, NEW b \in Text PROVE write[text][b] \in Text
  <2>1. <<"\n", "\n">> \in Text
    <3>1. "\n" \in Runes
      BY RunesAssumption
    <3> QED
      BY <3>1 DEF Text
  <2>2. text \o <<"\n", "\n">> \in Text
    BY <2>1, TextConcat
  <2>3. text \o <<"\n", "\n">> \o b \in Text
    BY <2>2, TextConcat
  <2> QED
    BY <2>3
<1> HIDE DEF write
<1> QED
  BY <1>1, <1>2, SizeShort, IterateKeeps

\* The hard limit of chunker.go is respected, for every page, every configured
\* limit that holds a rune and every size of context.
THEOREM LimitKept ==
  ASSUME 1 \notin Limits PROVE Spec => []LimitRespected
<1>1. Init => Splittable
  <2> SUFFICES ASSUME Init PROVE Splittable
    OBVIOUS
  <2>1. PICK configured \in Limits, context \in ContextTokens :
          limit = contextBudget(context, configured, Schema)
    BY DEF Init
  <2>2. limit \in Nat /\ limit >= 2
    <3>1. configured \in Nat /\ configured # 1 /\ context \in Int
      BY SizesAssumption
    <3>2. \A b \in Int : Larger(256, b) \in Nat /\ Larger(256, b) >= 256
      BY DEF Larger
    <3> QED
      BY <2>1, <3>1, <3>2 DEF contextBudget, Smaller, Larger, Schema
  <2>3. chunks = <<>> /\ doc \in Text
    BY PagesType DEF Init
  <2> HIDE DEF Fitting
  <2> QED
    BY <2>2, <2>3 DEF Splittable
<1>2. Splittable /\ [Next]_vars => Splittable'
  <2> SUFFICES ASSUME Splittable, [Next]_vars PROVE Splittable'
    OBVIOUS
  <2>1. CASE Split
    <3>1. chunks' \in Seq(Fitting(limit)) /\ UNCHANGED <<doc, limit>> /\ total = 0
      BY <2>1, ChunksFit DEF Split, Splittable
    <3> HIDE DEF Fitting
    <3> QED
      BY <2>1, <3>1 DEF Splittable
  <2>2. CASE StartInference
    <3>1. doc' = <<>> /\ chunks' = <<>> /\ limit' = 0 /\ total' # 0
      BY <2>2, SizesAssumption DEF StartInference
    <3> HIDE DEF Fitting
    <3> QED
      BY <3>1, SizeShort DEF Splittable
  <2>3. CASE Infer \/ InferFails \/ Accept \/ Retry \/ GiveUp \/ Finish \/ UNCHANGED vars
    <3>1. UNCHANGED <<doc, limit, chunks, total>>
      BY <2>3 DEF Infer, InferFails, Accept, Retry, GiveUp, Finish, pageVars, vars
    <3> HIDE DEF Fitting
    <3> QED
      BY <3>1 DEF Splittable
  <2> QED
    BY <2>1, <2>2, <2>3 DEF Next
<1>3. Splittable => LimitRespected
  <2> SUFFICES ASSUME Splittable, NEW c \in ToSet(chunks) PROVE Size(c) <= limit
    BY DEF LimitRespected
  <2>1. c \in Fitting(limit)
    <3> HIDE DEF Fitting
    <3> QED
      BY DEF Splittable, ToSet
  <2> QED
    BY <2>1 DEF Fitting
<1> QED
  BY <1>1, <1>2, <1>3, PTL DEF Spec

-----------------------------------------------------------------------------
(* The letters of texts.                                                   *)

LEMMA ConcatAssoc ==
  ASSUME NEW r \in Text, NEW s \in Text, NEW t \in Text
  PROVE  (r \o s) \o t = r \o (s \o t)
<1> DEFINE u == (r \o s) \o t
           v == r \o (s \o t)
           n == Len(r) + Len(s) + Len(t)
<1>1. r \o s \in Text /\ s \o t \in Text /\ Len(r \o s) = Len(r) + Len(s)
      /\ Len(s \o t) = Len(s) + Len(t)
  BY TextConcat
<1>2. u \in Text /\ v \in Text /\ Len(u) = n /\ Len(v) = n
  <2>1. u \in Text /\ v \in Text /\ Len(u) = Len(r \o s) + Len(t)
        /\ Len(v) = Len(r) + Len(s \o t)
    BY <1>1, TextConcat
  <2>2. Len(r) \in Nat /\ Len(s) \in Nat /\ Len(t) \in Nat
    BY WideFinite
  <2> HIDE DEF u, v
  <2> QED
    BY <1>1, <2>1, <2>2
<1>3. \A i \in 1 .. n : u[i] = v[i]
  BY SMTT(30) DEF Text
<1>4. u = [i \in 1 .. n |-> u[i]] /\ v = [i \in 1 .. n |-> v[i]]
  <2> HIDE DEF u, v, n
  <2> QED
    BY <1>2 DEF Text
<1> HIDE DEF u, v
<1>5. u = v
  BY <1>3, <1>4
<1> QED
  BY <1>5 DEF u, v

LEMMA EmptyConcat ==
  ASSUME NEW t \in Text
  PROVE  t \o <<>> = t /\ <<>> \o t = t /\ \A r \in Runes : t \o <<r>> = Append(t, r)
<1>1. t \o <<>> = t /\ <<>> \o t = t
  BY DEF Text
<1>2. ASSUME NEW r \in Runes PROVE t \o <<r>> = Append(t, r)
  <2>1. t \o Append(<<>>, r) = Append(t \o <<>>, r)
    <3>1. <<>> \in Seq(Runes) /\ t \in Seq(Runes)
      BY DEF Text
    <3> QED
      BY <3>1, AppendConcat
  <2>2. Append(<<>>, r) = <<r>>
    OBVIOUS
  <2> QED
    BY <1>1, <2>1, <2>2
<1> QED
  BY <1>1, <1>2

LEMMA LettersConcat ==
  ASSUME NEW s \in Text, NEW t \in Text
  PROVE  Letters(s) \in Text /\ Letters(s \o t) = Letters(s) \o Letters(t)
<1>1. s \in Seq(Runes) /\ t \in Seq(Runes)
  BY DEF Text
<1> DEFINE T == Runes \ {"\n", "_", "#"}
<1> HIDE DEF T
<1>2. Filter(s, T) \in Seq(Runes)
  BY <1>1, FilterPlaces
<1>3. Filter(s \o t, T) = Filter(s, T) \o Filter(t, T)
  BY <1>1, FilterConcat
<1> QED
  BY <1>2, <1>3 DEF Letters, Text, T

\* Spaces, line ends and heading marks are no letters.
LEMMA NoLetters ==
  ASSUME NEW t \in Text, \A i \in 1 .. Len(t) : t[i] \in {"\n", "_", "#"}
  PROVE  Letters(t) = <<>>
<1>1. t \in Seq(Runes)
  BY DEF Text
<1> QED
  BY <1>1, FilterNone DEF Letters

LEMMA WrittenAppend ==
  /\ Written(<<>>) = <<>>
  /\ \A ts \in Seq(Text), t \in Text :
       Written(ts) \in Text /\ Written(Append(ts, t)) = Written(ts) \o t
<1> DEFINE step == [text \in Text |-> [t \in Text |-> text \o t]]
<1>1. Written(<<>>) = <<>>
  BY IterateEmpty DEF Written
<1>2. ASSUME NEW ts \in Seq(Text), NEW t \in Text
      PROVE  Written(ts) \in Text /\ Written(Append(ts, t)) = Written(ts) \o t
  <2>1. \A a \in Text, x \in Text : step[a][x] = a \o x /\ step[a][x] \in Text
    BY TextConcat
  <2>2. Written(ts) = Iterate(step, <<>>, ts)
        /\ Written(Append(ts, t)) = Iterate(step, <<>>, Append(ts, t))
    BY DEF Written
  <2> HIDE DEF step
  <2>3. Iterate(step, <<>>, ts) \in Text
    BY <2>1, SizeShort, IterateKeeps
  <2>4. Iterate(step, <<>>, Append(ts, t)) = step[Iterate(step, <<>>, ts)][t]
    BY <2>1, SizeShort, IterateAppend
  <2> QED
    BY <2>1, <2>2, <2>3, <2>4
<1> QED
  BY <1>1, <1>2

\* The letters of some texts, one after the other.
LettersOf(ts) == Letters(Written(ts))

LEMMA LettersAppend ==
  /\ LettersOf(<<>>) = <<>> /\ Letters(<<>>) = <<>>
  /\ \A ts \in Seq(Text), t \in Text :
       LettersOf(ts) \in Text /\ LettersOf(Append(ts, t)) = LettersOf(ts) \o Letters(t)
<1>1. Letters(<<>>) = <<>>
  BY FilterEmpty DEF Letters
<1> QED
  BY <1>1, WrittenAppend, LettersConcat DEF LettersOf

\* A last text that grows.
LEMMA LettersLonger ==
  ASSUME NEW ts \in Seq(Text), ts # <<>>, NEW t \in Text
  PROVE  LET longer == [ts EXCEPT ![Len(ts)] = ts[Len(ts)] \o t]
         IN  longer \in Seq(Text) /\ longer # <<>>
             /\ LettersOf(longer) = LettersOf(ts) \o Letters(t)
<1> DEFINE n == Len(ts)
           last == ts[n]
           front == [i \in 1 .. n - 1 |-> ts[i]]
           longer == [ts EXCEPT ![n] = last \o t]
<1>1. n \in Nat /\ n >= 1 /\ last \in Text /\ front \in Seq(Text) /\ Len(front) = n - 1
      /\ \A i \in 1 .. n - 1 : front[i] = ts[i]
  <2>1. n \in Nat /\ n >= 1 /\ ts \in [1 .. n -> Text]
    OBVIOUS
  <2>2. last \in Text
    BY <2>1
  <2>3. front \in Seq(Text) /\ Len(front) = n - 1 /\ \A i \in 1 .. n - 1 : front[i] = ts[i]
    <3>1. front \in [1 .. n - 1 -> Text] /\ n - 1 \in Nat
      BY <2>1
    <3> QED
      BY <3>1
  <2> HIDE DEF n, last, front
  <2> QED
    BY <2>1, <2>2, <2>3
<1>2. last \o t \in Text
  BY <1>1, TextConcat
<1>3. longer \in Seq(Text) /\ longer # <<>>
  <2> HIDE DEF last
  <2> QED
    BY <1>2, LastChanged
<1>4. longer = [i \in 1 .. n |-> IF i = n THEN last \o t ELSE ts[i]] /\ ts = [i \in 1 .. n |-> ts[i]]
  <2>1. ts = [i \in 1 .. n |-> ts[i]]
    OBVIOUS
  <2> HIDE DEF last, n
  <2> QED
    BY <2>1
<1> HIDE DEF longer, last, front, n
<1>5. ASSUME NEW e \in Text PROVE Append(front, e) = [i \in 1 .. n |-> IF i = n THEN e ELSE ts[i]]
  <2> DEFINE f == Append(front, e)
  <2>1. f \in Seq(Text) /\ Len(f) = n /\ \A i \in 1 .. n : f[i] = IF i = n THEN e ELSE ts[i]
    BY <1>1
  <2> HIDE DEF f
  <2>2. f = [i \in 1 .. n |-> f[i]]
    BY <2>1
  <2>3. f = [i \in 1 .. n |-> IF i = n THEN e ELSE ts[i]]
    BY <2>1, <2>2
  <2> QED
    BY <2>3 DEF f
<1>6. longer = Append(front, last \o t)
  BY <1>2, <1>4, <1>5
<1>7. ts = Append(front, last)
  <2>1. Append(front, last) = [i \in 1 .. n |-> IF i = n THEN last ELSE ts[i]]
    BY <1>1, <1>5
  <2>2. \A i \in 1 .. n : (IF i = n THEN last ELSE ts[i]) = ts[i]
    BY DEF last
  <2> QED
    BY <1>4, <2>1, <2>2
<1>8. LettersOf(longer) = LettersOf(front) \o Letters(last \o t)
      /\ LettersOf(ts) = LettersOf(front) \o Letters(last)
      /\ LettersOf(front) \in Text
  BY <1>1, <1>2, <1>6, <1>7, LettersAppend
<1>9. Letters(last \o t) = Letters(last) \o Letters(t) /\ Letters(last) \in Text
      /\ Letters(t) \in Text
  BY <1>1, LettersConcat
<1>10. LettersOf(longer) = LettersOf(ts) \o Letters(t)
  <2> DEFINE a == LettersOf(front)
             b == Letters(last)
             c == Letters(t)
  <2>1. a \in Text /\ b \in Text /\ c \in Text
    BY <1>8, <1>9
  <2>2. LettersOf(longer) = a \o (b \o c) /\ LettersOf(ts) = a \o b
    BY <1>8, <1>9
  <2> HIDE DEF a, b, c
  <2>3. (a \o b) \o c = a \o (b \o c)
    BY <2>1, ConcatAssoc, ZenonT(40)
  <2>4. LettersOf(longer) = LettersOf(ts) \o c
    BY <2>2, <2>3
  <2> QED
    BY <2>4 DEF c
<1> QED
  BY <1>3, <1>10 DEF longer, last, n

\* Each step of a loop over runes adds its rune's letters to M of the state,
\* or each step of a loop over texts those of its text.
GathersRunes(A, M, step) ==
  /\ \A a \in A : M[a] \in Text
  /\ \A a \in A, r \in Runes :
       step[a][r] \in A /\ M[step[a][r]] = M[a] \o Letters(<<r>>)

GathersTexts(A, M, step) ==
  /\ \A a \in A : M[a] \in Text
  /\ \A a \in A, t \in Text :
       step[a][t] \in A /\ M[step[a][t]] = M[a] \o Letters(t)

LEMMA RunesGathered ==
  ASSUME NEW A, NEW M, NEW step, NEW start \in A, NEW text \in Text,
         GathersRunes(A, M, step)
  PROVE  /\ Iterate(step, start, text) \in A
         /\ M[Iterate(step, start, text)] = M[start] \o Letters(text)
<1> DEFINE it(s) == Iterate(step, start, s)
           P == {s \in Seq(Runes) : it(s) \in A /\ M[it(s)] = M[start] \o Letters(s)}
<1>0. /\ \A a \in A : M[a] \in Text
      /\ \A a \in A, r \in Runes :
           step[a][r] \in A /\ M[step[a][r]] = M[a] \o Letters(<<r>>)
  BY DEF GathersRunes
<1>1. <<>> \in P
  <2>1. it(<<>>) = start
    BY IterateEmpty
  <2>2. M[start] \o Letters(<<>>) = M[start]
    BY <1>0, LettersAppend, EmptyConcat
  <2> QED
    BY <2>1, <2>2
<1>2. ASSUME NEW s \in P, NEW r \in Runes PROVE Append(s, r) \in P
  <2>1. s \in Seq(Runes) /\ it(s) \in A /\ M[it(s)] = M[start] \o Letters(s)
    OBVIOUS
  <2>2. it(Append(s, r)) = step[it(s)][r]
    <3>1. \A a \in A, x \in Runes : step[a][x] \in A
      BY <1>0
    <3> HIDE DEF P
    <3> QED
      BY <2>1, <3>1, IterateAppend
  <2> HIDE DEF it
  <2>3. it(Append(s, r)) \in A /\ M[it(Append(s, r))] = M[it(s)] \o Letters(<<r>>)
    BY <1>0, <2>1, <2>2
  <2> DEFINE a == M[start]
             b == Letters(s)
             c == Letters(<<r>>)
  <2>4. s \in Text /\ <<r>> \in Text /\ Append(s, r) = s \o <<r>>
        /\ Append(s, r) \in Seq(Runes)
    BY <2>1, SizeShort, EmptyConcat DEF Text
  <2>5. a \in Text /\ b \in Text /\ c \in Text /\ Letters(Append(s, r)) = b \o c
    <3>1. a \in Text
      BY <1>0
    <3>2. \A t \in Text : Letters(t) \in Text
      BY LettersConcat
    <3>3. Letters(s \o <<r>>) = Letters(s) \o Letters(<<r>>)
      BY <2>4, LettersConcat
    <3>4. b \in Text /\ c \in Text
      BY <2>4, <3>2
    <3> HIDE DEF a
    <3> QED
      BY <2>4, <3>1, <3>3, <3>4
  <2>6. M[it(Append(s, r))] = (a \o b) \o c
    BY <2>1, <2>3
  <2> HIDE DEF a, b, c
  <2>7. (a \o b) \o c = a \o (b \o c)
    BY <2>5, ConcatAssoc
  <2>8. M[it(Append(s, r))] = a \o Letters(Append(s, r))
    BY <2>5, <2>6, <2>7
  <2> QED
    BY <2>3, <2>4, <2>8 DEF a
<1>3. P = Seq(Runes)
  <2>1. P \in SUBSET Seq(Runes)
    OBVIOUS
  <2> HIDE DEF P
  <2> QED
    BY <1>1, <1>2, <2>1, SeqInductionSet
<1>4. text \in P
  BY <1>3 DEF Text
<1> QED
  BY <1>4

\* The same for a loop over texts.
LEMMA TextsGathered ==
  ASSUME NEW A, NEW M, NEW step, NEW start \in A, NEW texts \in Seq(Text),
         GathersTexts(A, M, step)
  PROVE  /\ Iterate(step, start, texts) \in A
         /\ M[Iterate(step, start, texts)] = M[start] \o LettersOf(texts)
<1> DEFINE it(s) == Iterate(step, start, s)
           P == {s \in Seq(Text) : it(s) \in A /\ M[it(s)] = M[start] \o LettersOf(s)}
<1>0. /\ \A a \in A : M[a] \in Text
      /\ \A a \in A, t \in Text :
           step[a][t] \in A /\ M[step[a][t]] = M[a] \o Letters(t)
  BY DEF GathersTexts
<1>1. <<>> \in P
  <2>1. it(<<>>) = start
    BY IterateEmpty
  <2>2. M[start] \o LettersOf(<<>>) = M[start]
    BY <1>0, LettersAppend, EmptyConcat
  <2> QED
    BY <2>1, <2>2
<1>2. ASSUME NEW s \in P, NEW t \in Text PROVE Append(s, t) \in P
  <2>1. s \in Seq(Text) /\ it(s) \in A /\ M[it(s)] = M[start] \o LettersOf(s)
    OBVIOUS
  <2>2. it(Append(s, t)) = step[it(s)][t]
    BY <1>0, <2>1, IterateAppend
  <2> HIDE DEF it
  <2>3. it(Append(s, t)) \in A /\ M[it(Append(s, t))] = M[it(s)] \o Letters(t)
    BY <1>0, <2>1, <2>2
  <2> DEFINE a == M[start]
             b == LettersOf(s)
             c == Letters(t)
  <2>4. Append(s, t) \in Seq(Text)
    BY <2>1
  <2>5. a \in Text /\ b \in Text /\ c \in Text /\ LettersOf(Append(s, t)) = b \o c
    BY <1>0, <2>1, LettersAppend, LettersConcat
  <2>6. M[it(Append(s, t))] = (a \o b) \o c
    BY <2>1, <2>3
  <2> HIDE DEF a, b, c
  <2>7. (a \o b) \o c = a \o (b \o c)
    BY <2>5, ConcatAssoc
  <2>8. M[it(Append(s, t))] = a \o LettersOf(Append(s, t))
    BY <2>5, <2>6, <2>7
  <2> QED
    BY <2>3, <2>4, <2>8 DEF a
<1>3. P = Seq(Text)
  <2>1. P \in SUBSET Seq(Text)
    OBVIOUS
  <2> HIDE DEF P
  <2> QED
    BY <1>1, <1>2, <2>1, SeqInductionSet
<1>4. texts \in P
  BY <1>3
<1> QED
  BY <1>4

\* Lists of at least one text, and their letters.
Started == {ts \in Seq(Text) : ts # <<>>}
Gathered == [ts \in Started |-> LettersOf(ts)]

LEMMA StartedEmpty ==
  << <<>> >> \in Started /\ LettersOf(<< <<>> >>) = <<>> /\ Gathered \in [Started -> Text]
<1>1. << <<>> >> = Append(<<>>, <<>>) /\ <<>> \in Seq(Text) /\ <<>> \in Text
  BY SizeShort
<1>2. LettersOf(<< <<>> >>) = <<>>
  <2>1. LettersOf(Append(<<>>, <<>>)) = LettersOf(<<>>) \o Letters(<<>>)
    BY <1>1, LettersAppend
  <2>2. LettersOf(<<>>) = <<>> /\ Letters(<<>>) = <<>> /\ <<>> \o <<>> = <<>>
    BY <1>1, LettersAppend, EmptyConcat
  <2> QED
    BY <1>1, <2>1, <2>2
<1>3. \A ts \in Seq(Text) : LettersOf(ts) \in Text
  BY <1>1, LettersAppend
<1> QED
  BY <1>1, <1>2, <1>3 DEF Started, Gathered

LEMMA AppendStarted ==
  \A ts \in Seq(Text), t \in Text : Append(ts, t) \in Started
<1>1. ASSUME NEW ts \in Seq(Text), NEW t \in Text PROVE Append(ts, t) \in Started
  <2> DEFINE u == Append(ts, t)
  <2>1. u \in Seq(Text) /\ Len(u) = Len(ts) + 1 /\ Len(ts) \in Nat
    OBVIOUS
  <2> HIDE DEF u
  <2>2. u # <<>>
    BY <2>1
  <2> QED
    BY <2>1, <2>2 DEF Started, u
<1> QED
  BY <1>1

\* Splitting at lines loses no letter.
LEMMA LinesLetters ==
  ASSUME NEW text \in Text PROVE LettersOf(Lines(text)) = Letters(text)
<1> DEFINE step == [ls \in Seq(Text) |-> [r \in Runes |->
                      IF r = "\n" THEN Append(ls, <<>>)
                      ELSE [ls EXCEPT ![Len(ls)] = Append(@, r)]]]
<1>1. ASSUME NEW ls \in Started, NEW r \in Runes
      PROVE  step[ls][r] \in Started
             /\ Gathered[step[ls][r]] = Gathered[ls] \o Letters(<<r>>)
  <2>1. ls \in Seq(Text) /\ ls # <<>> /\ <<r>> \in Text /\ ls[Len(ls)] \in Text
    BY SizeShort DEF Started
  <2>2. CASE r = "\n"
    <3>1. step[ls][r] = Append(ls, <<>>)
      BY <2>1, <2>2
    <3>2. Letters(<<r>>) = Letters(<<>>)
      <4>1. Len(<<r>>) = 1 /\ <<r>>[1] = r
        OBVIOUS
      <4>2. \A i \in 1 .. Len(<<r>>) : <<r>>[i] \in {"\n", "_", "#"}
        <5>1. ASSUME NEW i \in 1 .. Len(<<r>>) PROVE <<r>>[i] = r
          <6>1. i = 1
            BY <4>1
          <6> QED
            BY <4>1, <6>1
        <5>2. r \in {"\n", "_", "#"}
          BY <2>2
        <5> HIDE DEF step
        <5> QED
          BY <5>1, <5>2
      <4> QED
        BY <2>1, <4>2, NoLetters, LettersAppend
    <3>3. Append(ls, <<>>) \in Started
      BY <2>1, SizeShort, AppendStarted
    <3>4. LettersOf(Append(ls, <<>>)) = LettersOf(ls) \o Letters(<<>>)
      BY <2>1, SizeShort, LettersAppend
    <3> HIDE DEF step
    <3> QED
      BY <2>1, <3>1, <3>2, <3>3, <3>4 DEF Gathered
  <2>3. CASE r # "\n"
    <3> DEFINE longer == [ls EXCEPT ![Len(ls)] = ls[Len(ls)] \o <<r>>]
    <3>1. step[ls][r] = longer
      BY <2>1, <2>3, EmptyConcat
    <3>2. longer \in Started /\ LettersOf(longer) = LettersOf(ls) \o Letters(<<r>>)
      BY <2>1, LettersLonger DEF Started
    <3> HIDE DEF step, longer
    <3> QED
      BY <3>1, <3>2 DEF Gathered
  <2> QED
    BY <2>2, <2>3
<1> HIDE DEF step
<1> DEFINE A == Started
           M == Gathered
           start == << <<>> >>
<1>2. Iterate(step, start, text) \in A
      /\ M[Iterate(step, start, text)] = M[start] \o Letters(text)
  <2>1. GathersRunes(A, M, step) /\ start \in A
    BY <1>1, StartedEmpty DEF GathersRunes
  <2> HIDE DEF A, M, start
  <2> QED
    BY <2>1, RunesGathered
<1>3. Lines(text) = Iterate(step, << <<>> >>, text)
  BY DEF Lines, step
<1> QED
  BY <1>2, <1>3, StartedEmpty, LettersConcat, EmptyConcat DEF Gathered

\* Splitting at runes loses no letter, whatever the limit.
LEMMA PartsLetters ==
  ASSUME NEW value \in Text, NEW maxBytes \in Int
  PROVE  splitUTF8(value, maxBytes) \in Seq(Text)
         /\ LettersOf(splitUTF8(value, maxBytes)) = Letters(value)
<1> DEFINE step == [parts \in Seq(Text) |-> [r \in Runes |->
             IF Last(parts) = <<>> \/ Size(Append(Last(parts), r)) <= maxBytes
             THEN [parts EXCEPT ![Len(parts)] = Append(@, r)]
             ELSE Append(parts, <<r>>)]]
<1>1. ASSUME NEW ls \in Started, NEW r \in Runes
      PROVE  step[ls][r] \in Started
             /\ Gathered[step[ls][r]] = Gathered[ls] \o Letters(<<r>>)
  <2> DEFINE longer == [ls EXCEPT ![Len(ls)] = ls[Len(ls)] \o <<r>>]
             last == ls[Len(ls)]
             fits == last = <<>> \/ Size(Append(last, r)) <= maxBytes
  <2>1. ls \in Seq(Text) /\ ls # <<>> /\ <<r>> \in Text /\ last \in Text
    BY SizeShort DEF Started
  <2>2. step[ls][r] = IF fits THEN longer ELSE Append(ls, <<r>>)
    BY <2>1, EmptyConcat DEF Last
  <2>3. longer \in Started /\ LettersOf(longer) = LettersOf(ls) \o Letters(<<r>>)
    BY <2>1, LettersLonger DEF Started
  <2>4. Append(ls, <<r>>) \in Started
        /\ LettersOf(Append(ls, <<r>>)) = LettersOf(ls) \o Letters(<<r>>)
    BY <2>1, AppendStarted, LettersAppend
  <2> HIDE DEF step, longer, fits
  <2> QED
    BY <2>2, <2>3, <2>4 DEF Gathered
<1> HIDE DEF step
<1> DEFINE A == Started
           M == Gathered
           start == << <<>> >>
<1>2. Iterate(step, start, value) \in A
      /\ M[Iterate(step, start, value)] = M[start] \o Letters(value)
  <2>1. GathersRunes(A, M, step) /\ start \in A
    BY <1>1, StartedEmpty DEF GathersRunes
  <2> HIDE DEF A, M, start
  <2> QED
    BY <2>1, RunesGathered
<1>3. splitUTF8(value, maxBytes) = Iterate(step, << <<>> >>, value)
  BY DEF splitUTF8, step
<1>4. splitUTF8(value, maxBytes) \in Seq(Text)
  BY <1>2, <1>3 DEF Started
<1> QED
  BY <1>2, <1>3, <1>4, StartedEmpty, LettersConcat, EmptyConcat DEF Gathered

LEMMA JoinLetters ==
  ASSUME NEW text \in Text, NEW line \in Text
  PROVE  /\ JoinLine(text, line) \in Text
         /\ Letters(JoinLine(text, line)) = Letters(text) \o Letters(line)
<1>1. CASE text = <<>>
  <2>1. JoinLine(text, line) = line
    BY <1>1 DEF JoinLine
  <2>2. Letters(text) = <<>> /\ Letters(line) \in Text
    BY <1>1, LettersAppend, LettersConcat
  <2> QED
    BY <2>1, <2>2, EmptyConcat
<1>2. CASE text # <<>>
  <2> DEFINE nl == <<"\n">>
  <2>1. nl \in Text /\ Len(nl) = 1 /\ nl[1] = "\n"
    BY RunesAssumption, SizeShort
  <2>2. JoinLine(text, line) = text \o nl \o line
    BY <1>2 DEF JoinLine
  <2> HIDE DEF nl
  <2>3. Letters(nl) = <<>>
    <3>1. \A i \in 1 .. Len(nl) : nl[i] = "\n"
      BY <2>1
    <3>2. \A i \in 1 .. Len(nl) : nl[i] \in {"\n", "_", "#"}
      BY <3>1
    <3> QED
      BY <2>1, <3>2, NoLetters
  <2>4. text \o nl \in Text /\ Letters(text \o nl) = Letters(text) \o Letters(nl)
        /\ Letters(text) \in Text
    BY <2>1, TextConcat, LettersConcat
  <2>5. Letters(text \o nl) = Letters(text)
    BY <2>3, <2>4, EmptyConcat
  <2> DEFINE u == text \o nl
  <2>6. u \in Text /\ Letters(u) = Letters(text) /\ JoinLine(text, line) = u \o line
    BY <2>2, <2>4, <2>5
  <2> HIDE DEF u
  <2>7. u \o line \in Text /\ Letters(u \o line) = Letters(u) \o Letters(line)
    BY <2>6, TextConcat, LettersConcat
  <2> QED
    BY <2>6, <2>7
<1> QED
  BY <1>1, <1>2

\* A text in two parts.
LEMMA SplitConcat ==
  ASSUME NEW t \in Text, NEW i \in 0 .. Len(t)
  PROVE  LET a == SubSeq(t, 1, i)
             b == SubSeq(t, i + 1, Len(t))
         IN  /\ a \in Text /\ b \in Text /\ t = a \o b
             /\ Len(a) = i /\ Len(b) = Len(t) - i
             /\ \A k \in 1 .. i : a[k] = t[k]
             /\ \A k \in 1 .. Len(t) - i : b[k] = t[k + i]
<1> DEFINE n == Len(t)
           a == SubSeq(t, 1, i)
           b == SubSeq(t, i + 1, n)
           c == a \o b
<1>1. n \in Nat /\ i \in Int /\ t \in [1 .. n -> Runes]
  BY DEF Text
<1>2. /\ a \in Text /\ Len(a) = i
      /\ \A k \in 1 .. i : a[k] = t[k]
  BY DEF Text
<1>3. /\ b \in Text /\ Len(b) = n - i
      /\ \A k \in 1 .. n - i : b[k] = t[k + i]
  BY DEF Text
<1> HIDE DEF a, b, n
<1>4. /\ c \in Text /\ Len(c) = Len(a) + Len(b)
      /\ \A k \in 1 .. Len(a) : c[k] = a[k]
      /\ \A k \in 1 .. Len(b) : c[k + Len(a)] = b[k]
  BY <1>2, <1>3, TextConcat
<1>5. Len(c) = n
  BY <1>1, <1>2, <1>3, <1>4
<1>6. ASSUME NEW k \in 1 .. n PROVE c[k] = t[k]
  <2>1. CASE k <= i
    BY <1>2, <1>4, <2>1
  <2>2. CASE k > i
    <3>1. k - i \in 1 .. n - i /\ (k - i) + i = k
      BY <1>1, <2>2
    <3> QED
      BY <1>2, <1>3, <1>4, <3>1
  <2>3. k <= i \/ k > i
    BY <1>1
  <2> HIDE DEF c
  <2> QED
    BY <2>1, <2>2, <2>3
<1>7. c = [k \in 1 .. n |-> c[k]] /\ t = [k \in 1 .. n |-> t[k]]
  <2>1. c = [k \in 1 .. n |-> c[k]]
    <3> HIDE DEF c
    <3> QED
      BY <1>4, <1>5 DEF Text
  <2> QED
    BY <1>1, <2>1
<1>8. c = t
  <2> HIDE DEF c
  <2> QED
    BY <1>6, <1>7
<1> QED
  BY <1>2, <1>3, <1>8 DEF a, b, n

\* What a text ends or begins with that is no letter can be cut off.
LEMMA CutLetters ==
  ASSUME NEW t \in Text, NEW i \in 0 .. Len(t)
  PROVE  LET a == SubSeq(t, 1, i)
             b == SubSeq(t, i + 1, Len(t))
         IN  /\ a \in Text /\ b \in Text
             /\ (\A k \in 1 .. i : t[k] \in {"\n", "_"}) => Letters(t) = Letters(b)
             /\ (\A k \in i + 1 .. Len(t) : t[k] \in {"\n", "_"}) => Letters(t) = Letters(a)
<1> DEFINE a == SubSeq(t, 1, i)
           b == SubSeq(t, i + 1, Len(t))
<1>1. /\ a \in Text /\ b \in Text /\ t = a \o b
      /\ Len(a) = i /\ Len(b) = Len(t) - i
      /\ \A k \in 1 .. i : a[k] = t[k]
      /\ \A k \in 1 .. Len(t) - i : b[k] = t[k + i]
  BY SplitConcat
<1>2. Len(t) \in Nat
  BY WideFinite
<1> HIDE DEF a, b
<1>3. Letters(t) = Letters(a) \o Letters(b) /\ Letters(a) \in Text /\ Letters(b) \in Text
  BY <1>1, LettersConcat
<1>4. ASSUME \A k \in 1 .. i : t[k] \in {"\n", "_"} PROVE Letters(t) = Letters(b)
  <2>1. Letters(a) = <<>>
    BY <1>1, <1>4, NoLetters
  <2> QED
    BY <1>3, <2>1, EmptyConcat
<1>5. ASSUME \A k \in i + 1 .. Len(t) : t[k] \in {"\n", "_"} PROVE Letters(t) = Letters(a)
  <2>1. ASSUME NEW k \in 1 .. Len(b) PROVE b[k] \in {"\n", "_", "#"}
    <3>1. k + i \in i + 1 .. Len(t) /\ b[k] = t[k + i]
      BY <1>1, <1>2
    <3> QED
      BY <1>5, <3>1
  <2>2. Letters(b) = <<>>
    BY <1>1, <2>1, NoLetters
  <2> QED
    BY <1>3, <2>2, EmptyConcat
<1> QED
  BY <1>1, <1>4, <1>5 DEF a, b

\* Trimming a text leaves its letters.
LEMMA TrimLetters ==
  ASSUME NEW t \in Text PROVE Letters(TrimSpace(t)) = Letters(t)
<1> DEFINE n == Len(t)
           solid == {i \in 1 .. n : t[i] \notin {"\n", "_"}}
           first == CHOOSE i \in solid : \A j \in solid : i <= j
           last == CHOOSE i \in solid : \A j \in solid : j <= i
<1>1. n \in Nat /\ solid \in SUBSET (1 .. n)
  BY WideFinite
<1>2. \A i \in 1 .. n : i \notin solid => t[i] \in {"\n", "_"}
  OBVIOUS
<1>3. CASE solid = {}
  <2>1. TrimSpace(t) = <<>>
    BY <1>3 DEF TrimSpace
  <2>2. \A i \in 1 .. n : t[i] \in {"\n", "_", "#"}
    BY <1>2, <1>3
  <2> QED
    BY <2>1, <2>2, NoLetters, LettersAppend
<1>4. CASE solid # {}
  <2>1. TrimSpace(t) = SubSeq(t, first, last)
    BY <1>4 DEF TrimSpace
  <2> HIDE DEF solid
  <2>2. first \in solid /\ \A j \in solid : first <= j
    <3>1. solid \in SUBSET Nat
      BY <1>1
    <3> QED
      BY <1>4, <3>1, LeastNumber
  <2>3. last \in solid /\ \A j \in solid : j <= last
    BY <1>1, <1>4, GreatestNumber
  <2> HIDE DEF first, last
  <2>4. first \in 1 .. n /\ last \in 1 .. n /\ first <= last
    BY <1>1, <2>2, <2>3
  <2> DEFINE a == SubSeq(t, 1, last)
             b == SubSeq(a, first, Len(a))
  <2>5. last \in 0 .. n /\ \A k \in last + 1 .. n : t[k] \in {"\n", "_"}
    <3>1. ASSUME NEW k \in last + 1 .. n PROVE k \in 1 .. n /\ ~ (k <= last)
      BY <1>1, <2>4
    <3>2. last \in 0 .. n
      BY <1>1, <2>4
    <3> HIDE DEF n
    <3> QED
      BY <1>2, <2>3, <3>1, <3>2
  <2>6. a \in Text /\ Len(a) = last /\ Letters(t) = Letters(a) /\ \A k \in 1 .. last : a[k] = t[k]
    BY <2>5, CutLetters, SplitConcat
  <2> HIDE DEF a
  <2>7. first - 1 \in 0 .. Len(a) /\ (first - 1) + 1 = first
        /\ \A k \in 1 .. first - 1 : a[k] \in {"\n", "_"}
    <3>1. ASSUME NEW k \in 1 .. first - 1 PROVE a[k] \in {"\n", "_"}
      <4>1. k \in 1 .. n /\ k \in 1 .. last /\ ~ (first <= k)
        BY <1>1, <2>4
      <4> QED
        BY <1>2, <2>2, <2>6, <4>1
    <3>2. first - 1 \in 0 .. last /\ (first - 1) + 1 = first
      BY <1>1, <2>4
    <3> QED
      BY <2>6, <3>1, <3>2
  <2>8. Letters(a) = Letters(b)
    BY <2>6, <2>7, CutLetters
  <2>9. b = SubSeq(t, first, last)
    <3>1. SubSeq(SubSeq(t, 1, last), first, last) = SubSeq(t, first, last)
      BY <2>4, SMTT(20) DEF Text
    <3> QED
      BY <2>6, <3>1 DEF a
  <2> QED
    BY <2>1, <2>6, <2>8, <2>9
<1> QED
  BY <1>3, <1>4

\* A loop that packs texts: the letters of what it has packed and packs.
Packing == [parts : Seq(Text), cur : Text]
Packed == [st \in Packing |-> LettersOf(st.parts) \o Letters(st.cur)]

LEMMA PackedType ==
  ASSUME NEW st \in Packing
  PROVE  /\ st.parts \in Seq(Text) /\ st.cur \in Text
         /\ Packed[st] = LettersOf(st.parts) \o Letters(st.cur) /\ Packed[st] \in Text
         /\ LettersOf(st.parts) \in Text /\ Letters(st.cur) \in Text
         /\ Append(st.parts, st.cur) \in Seq(Text)
         /\ LettersOf(Append(st.parts, st.cur)) = Packed[st]
<1>1. st.parts \in Seq(Text) /\ st.cur \in Text
  BY DEF Packing
<1>2. Packed[st] = LettersOf(st.parts) \o Letters(st.cur)
  BY DEF Packed
<1>3. LettersOf(st.parts) \in Text /\ Letters(st.cur) \in Text
  BY <1>1, LettersAppend, LettersConcat
<1>4. LettersOf(st.parts) \o Letters(st.cur) \in Text
  BY <1>3, TextConcat
<1>5. Append(st.parts, st.cur) \in Seq(Text)
  BY <1>1
<1>6. LettersOf(Append(st.parts, st.cur)) = LettersOf(st.parts) \o Letters(st.cur)
  BY <1>1, LettersAppend
<1> QED
  BY <1>1, <1>2, <1>3, <1>4, <1>5, <1>6

\* A text joined to the current one, or begun when that one is packed.
LEMMA PackJoins ==
  ASSUME NEW st \in Packing, NEW part \in Text
  PROVE  LET joined == [st EXCEPT !.cur = JoinLine(st.cur, part)]
             begun == [parts |-> Append(st.parts, st.cur), cur |-> part]
         IN  /\ joined \in Packing /\ Packed[joined] = Packed[st] \o Letters(part)
             /\ begun \in Packing /\ Packed[begun] = Packed[st] \o Letters(part)
<1> DEFINE joined == [st EXCEPT !.cur = JoinLine(st.cur, part)]
           begun == [parts |-> Append(st.parts, st.cur), cur |-> part]
<1>1. /\ st.parts \in Seq(Text) /\ st.cur \in Text
      /\ Packed[st] = LettersOf(st.parts) \o Letters(st.cur) /\ Packed[st] \in Text
      /\ LettersOf(st.parts) \in Text /\ Letters(st.cur) \in Text
      /\ Append(st.parts, st.cur) \in Seq(Text)
      /\ LettersOf(Append(st.parts, st.cur)) = Packed[st]
  BY PackedType
<1>2. JoinLine(st.cur, part) \in Text
      /\ Letters(JoinLine(st.cur, part)) = Letters(st.cur) \o Letters(part)
      /\ Letters(part) \in Text
  BY <1>1, JoinLetters, LettersConcat
<1>3. joined \in Packing /\ joined.parts = st.parts /\ joined.cur = JoinLine(st.cur, part)
  BY <1>2 DEF Packing
<1>4. begun \in Packing /\ begun.parts = Append(st.parts, st.cur) /\ begun.cur = part
  BY <1>1 DEF Packing
<1> HIDE DEF joined, begun
<1>5. Packed[joined] = LettersOf(st.parts) \o Letters(JoinLine(st.cur, part))
      /\ Packed[begun] = LettersOf(Append(st.parts, st.cur)) \o Letters(part)
  BY <1>3, <1>4 DEF Packed
<1>6. (LettersOf(st.parts) \o Letters(st.cur)) \o Letters(part)
        = LettersOf(st.parts) \o (Letters(st.cur) \o Letters(part))
  <2>1. /\ LettersOf(st.parts) \in Text /\ Letters(st.cur) \in Text
        /\ Letters(part) \in Text
    BY <1>1, <1>2
  <2> QED
    BY <2>1, ConcatAssoc, ZenonT(40)
<1>7. Packed[joined] = Packed[st] \o Letters(part)
  BY <1>1, <1>2, <1>5, <1>6
<1>8. Packed[begun] = Packed[st] \o Letters(part)
  BY <1>1, <1>5
<1> QED
  BY <1>3, <1>4, <1>7, <1>8 DEF joined, begun

\* The pieces of an oversized block hold its letters.
LEMMA PiecesLetters ==
  ASSUME NEW block \in Text, NEW maxBytes \in Int
  PROVE  /\ splitOversizedBlock(block, maxBytes) \in Seq(Text)
         /\ LettersOf(splitOversizedBlock(block, maxBytes)) = Letters(block)
<1> DEFINE pack == [st \in Packing |-> [part \in Text |->
             IF Size(JoinLine(st.cur, part)) > maxBytes
             THEN [parts |-> Append(st.parts, st.cur), cur |-> part]
             ELSE [st EXCEPT !.cur = JoinLine(st.cur, part)]]]
           packLine == [st \in Packing |-> [line \in Text |->
             Iterate(pack, st, splitUTF8(line, maxBytes))]]
           none == [parts |-> <<>>, cur |-> <<>>]
           end == Iterate(packLine, none, Lines(block))
<1>1. splitOversizedBlock(block, maxBytes) =
        IF Size(block) <= maxBytes THEN <<block>>
        ELSE IF end.cur = <<>> THEN end.parts ELSE Append(end.parts, end.cur)
  BY DEF splitOversizedBlock, Packing
<1>2. GathersTexts(Packing, Packed, pack)
  <2>1. ASSUME NEW st \in Packing, NEW part \in Text
        PROVE  pack[st][part] \in Packing
               /\ Packed[pack[st][part]] = Packed[st] \o Letters(part)
    <3> DEFINE joined == [st EXCEPT !.cur = JoinLine(st.cur, part)]
               begun == [parts |-> Append(st.parts, st.cur), cur |-> part]
    <3>1. pack[st][part] = IF Size(JoinLine(st.cur, part)) > maxBytes THEN begun ELSE joined
      OBVIOUS
    <3>2. /\ joined \in Packing /\ Packed[joined] = Packed[st] \o Letters(part)
          /\ begun \in Packing /\ Packed[begun] = Packed[st] \o Letters(part)
      BY PackJoins
    <3> HIDE DEF pack, joined, begun
    <3> QED
      BY <3>1, <3>2
  <2> HIDE DEF pack
  <2> QED
    BY <2>1, PackedType DEF GathersTexts
<1>3. GathersTexts(Packing, Packed, packLine)
  <2>1. ASSUME NEW st \in Packing, NEW line \in Text
        PROVE  /\ packLine[st][line] \in Packing
               /\ Packed[packLine[st][line]] = Packed[st] \o Letters(line)
    <3>1. splitUTF8(line, maxBytes) \in Seq(Text)
          /\ LettersOf(splitUTF8(line, maxBytes)) = Letters(line)
      BY PartsLetters
    <3>2. packLine[st][line] = Iterate(pack, st, splitUTF8(line, maxBytes))
      OBVIOUS
    <3> DEFINE texts == splitUTF8(line, maxBytes)
    <3>3. texts \in Seq(Text)
      BY <3>1
    <3> HIDE DEF pack, packLine, texts
    <3>4. Iterate(pack, st, texts) \in Packing
          /\ Packed[Iterate(pack, st, texts)] = Packed[st] \o LettersOf(texts)
      BY <1>2, <3>3, TextsGathered
    <3> QED
      BY <3>1, <3>2, <3>4 DEF texts
  <2> HIDE DEF pack, packLine
  <2> QED
    BY <2>1, PackedType DEF GathersTexts
<1> HIDE DEF pack, packLine
<1>4. none \in Packing /\ Packed[none] = <<>>
  <2>1. none \in Packing
    BY SizeShort DEF Packing
  <2> QED
    BY <2>1, LettersAppend, EmptyConcat, SizeShort DEF Packed
<1>5. Lines(block) \in Seq(Text) /\ LettersOf(Lines(block)) = Letters(block)
      /\ Letters(block) \in Text
  BY LinesType, LinesLetters, LettersConcat
<1> HIDE DEF none
<1>6. end \in Packing /\ Packed[end] = Letters(block)
  <2> DEFINE texts == Lines(block)
  <2>2. texts \in Seq(Text)
    BY <1>5
  <2> HIDE DEF texts
  <2>3. Iterate(packLine, none, texts) \in Packing
        /\ Packed[Iterate(packLine, none, texts)] = Packed[none] \o LettersOf(texts)
    <3>1. none \in Packing
      BY <1>4
    <3> QED
      BY <1>3, <2>2, <3>1, TextsGathered
  <2>1. end \in Packing /\ Packed[end] = Packed[none] \o LettersOf(Lines(block))
    BY <2>3 DEF texts
  <2> HIDE DEF end
  <2> QED
    BY <1>4, <1>5, <2>1, EmptyConcat
<1> HIDE DEF end
<1>7. CASE Size(block) <= maxBytes
  <2>1. <<block>> = Append(<<>>, block) /\ <<>> \in Seq(Text) /\ <<block>> \in Seq(Text)
    OBVIOUS
  <2>2. LettersOf(<<block>>) = Letters(block)
    <3>1. LettersOf(Append(<<>>, block)) = LettersOf(<<>>) \o Letters(block)
      BY <2>1, LettersAppend
    <3>2. LettersOf(<<>>) = <<>> /\ <<>> \o Letters(block) = Letters(block)
      BY <1>5, LettersAppend, EmptyConcat
    <3> QED
      BY <2>1, <3>1, <3>2
  <2> QED
    BY <1>1, <1>7, <2>1, <2>2
<1>8. CASE ~ (Size(block) <= maxBytes)
  <2>1. /\ end.parts \in Seq(Text) /\ end.cur \in Text
        /\ Packed[end] = LettersOf(end.parts) \o Letters(end.cur)
        /\ LettersOf(end.parts) \in Text
        /\ Append(end.parts, end.cur) \in Seq(Text)
        /\ LettersOf(Append(end.parts, end.cur)) = Packed[end]
    BY <1>6, PackedType
  <2>2. end.cur = <<>> => LettersOf(end.parts) = Packed[end]
    <3>1. LettersOf(end.parts) \o <<>> = LettersOf(end.parts)
      BY <2>1, EmptyConcat
    <3>2. Letters(<<>>) = <<>>
      BY LettersAppend
    <3> QED
      BY <2>1, <3>1, <3>2
  <2> QED
    BY <1>1, <1>6, <1>8, <2>1, <2>2
<1> QED
  BY <1>7, <1>8

\* The blocks of a text hold its letters.
LEMMA BlocksLetters ==
  ASSUME NEW text \in Text PROVE LettersOf(markdownBlocks(text)) = Letters(text)
<1> DEFINE Flush(st) == IF st.cur = <<>> THEN st.blocks ELSE Append(st.blocks, st.cur)
           A == [blocks : Seq(Text), cur : Text]
           M == [st \in A |-> LettersOf(st.blocks) \o Letters(st.cur)]
           step == [st \in A |-> [line \in Text |->
        CASE TrimSpace(line) = <<>> -> [blocks |-> Flush(st), cur |-> <<>>]
          [] TrimSpace(line) # <<>> /\ Head(TrimSpace(line)) = "#" ->
               [blocks |-> Flush(st), cur |-> line]
          [] OTHER -> [st EXCEPT !.cur = JoinLine(st.cur, line)]]]
           empty == [blocks |-> <<>>, cur |-> <<>>]
<1>1. markdownBlocks(text) = Flush(Iterate(step, empty, Lines(text)))
  BY DEF markdownBlocks
<1>2. ASSUME NEW st \in A
      PROVE  /\ st.blocks \in Seq(Text) /\ st.cur \in Text
             /\ M[st] = LettersOf(st.blocks) \o Letters(st.cur) /\ M[st] \in Text
             /\ LettersOf(st.blocks) \in Text /\ Letters(st.cur) \in Text
             /\ Flush(st) \in Seq(Text) /\ LettersOf(Flush(st)) = M[st]
  <2>1. st.blocks \in Seq(Text) /\ st.cur \in Text
    OBVIOUS
  <2>2. M[st] = LettersOf(st.blocks) \o Letters(st.cur)
    OBVIOUS
  <2> HIDE DEF A, M
  <2>3. LettersOf(st.blocks) \in Text /\ Letters(st.cur) \in Text
    BY <2>1, LettersAppend, LettersConcat
  <2>4. M[st] \in Text
    BY <2>2, <2>3, TextConcat
  <2>5. CASE st.cur = <<>>
    <3>1. LettersOf(st.blocks) = M[st]
      BY <2>2, <2>3, <2>5, LettersAppend, EmptyConcat
    <3> QED
      BY <2>1, <2>2, <2>3, <2>4, <2>5, <3>1
  <2>6. CASE st.cur # <<>>
    <3>1. Append(st.blocks, st.cur) \in Seq(Text)
          /\ LettersOf(Append(st.blocks, st.cur)) = M[st]
      BY <2>1, <2>2, LettersAppend
    <3> QED
      BY <2>1, <2>2, <2>3, <2>4, <2>6, <3>1
  <2> QED
    BY <2>5, <2>6
<1>3. ASSUME NEW st \in A, NEW line \in Text
      PROVE  step[st][line] \in A /\ M[step[st][line]] = M[st] \o Letters(line)
  <2> DEFINE trimmed == TrimSpace(line)
             ended == [blocks |-> Flush(st), cur |-> <<>>]
             begun == [blocks |-> Flush(st), cur |-> line]
             joined == [st EXCEPT !.cur = JoinLine(st.cur, line)]
  <2>1. trimmed \in Text /\ Letters(trimmed) = Letters(line) /\ Letters(line) \in Text
        /\ <<>> \in Text
    BY TrimSize, TrimLetters, LettersConcat, SizeShort
  <2>2. \/ trimmed = <<>> /\ step[st][line] = ended
        \/ step[st][line] = begun
        \/ step[st][line] = joined
    OBVIOUS
  <2>3. /\ st.blocks \in Seq(Text) /\ st.cur \in Text
        /\ M[st] = LettersOf(st.blocks) \o Letters(st.cur) /\ M[st] \in Text
        /\ LettersOf(st.blocks) \in Text /\ Letters(st.cur) \in Text
        /\ Flush(st) \in Seq(Text) /\ LettersOf(Flush(st)) = M[st]
    BY <1>2
  <2>4. JoinLine(st.cur, line) \in Text
        /\ Letters(JoinLine(st.cur, line)) = Letters(st.cur) \o Letters(line)
    BY <2>3, JoinLetters
  <2> HIDE DEF Flush, trimmed
  <2>5. ended \in A /\ ended.blocks = Flush(st) /\ ended.cur = <<>>
    BY <2>1, <2>3
  <2>6. begun \in A /\ begun.blocks = Flush(st) /\ begun.cur = line
    BY <2>3
  <2>7. joined \in A /\ joined.blocks = st.blocks /\ joined.cur = JoinLine(st.cur, line)
    BY <2>4
  <2> HIDE DEF step, ended, begun, joined
  <2>8. /\ M[ended] = LettersOf(Flush(st)) \o Letters(<<>>)
        /\ M[begun] = LettersOf(Flush(st)) \o Letters(line)
        /\ M[joined] = LettersOf(st.blocks) \o Letters(JoinLine(st.cur, line))
    BY <2>5, <2>6, <2>7
  <2> HIDE DEF A, M
  <2>9. ASSUME trimmed = <<>> PROVE M[ended] = M[st] \o Letters(line)
    BY <2>1, <2>3, <2>8, <2>9
  <2>10. M[begun] = M[st] \o Letters(line)
    BY <2>3, <2>8
  <2>11. M[joined] = M[st] \o Letters(line)
    <3>1. (LettersOf(st.blocks) \o Letters(st.cur)) \o Letters(line)
            = LettersOf(st.blocks) \o (Letters(st.cur) \o Letters(line))
      <4>1. LettersOf(st.blocks) \in Text /\ Letters(st.cur) \in Text
            /\ Letters(line) \in Text
        BY <2>1, <2>3
      <4> QED
        BY <4>1, ConcatAssoc, SMTT(20)
    <3> QED
      BY <2>3, <2>4, <2>8, <3>1
  <2> QED
    BY <2>2, <2>5, <2>6, <2>7, <2>9, <2>10, <2>11
<1> DEFINE end == Iterate(step, empty, Lines(text))
<1>4. empty \in A /\ M[empty] = <<>>
  <2>1. empty \in A
    BY SizeShort
  <2>2. M[empty] = LettersOf(<<>>) \o Letters(<<>>)
    BY <2>1
  <2> HIDE DEF A, M, empty
  <2> QED
    BY <2>1, <2>2, LettersAppend, EmptyConcat, SizeShort
<1> HIDE DEF step, empty, A, M, Flush
<1>5. GathersTexts(A, M, step)
  BY <1>2, <1>3 DEF GathersTexts
<1>6. Lines(text) \in Seq(Text) /\ LettersOf(Lines(text)) = Letters(text)
      /\ Letters(text) \in Text
  BY LinesType, LinesLetters, LettersConcat
<1>7. end \in A /\ M[end] = M[empty] \o LettersOf(Lines(text))
  <2> DEFINE texts == Lines(text)
  <2>1. texts \in Seq(Text)
    BY <1>6
  <2> HIDE DEF texts
  <2>2. Iterate(step, empty, texts) \in A
        /\ M[Iterate(step, empty, texts)] = M[empty] \o LettersOf(texts)
    <3>1. empty \in A
      BY <1>4
    <3> QED
      BY <1>5, <2>1, <3>1, TextsGathered
  <2> QED
    BY <2>2 DEF texts
<1> HIDE DEF end
<1>8. M[end] = Letters(text)
  BY <1>4, <1>6, <1>7, EmptyConcat
<1>9. LettersOf(Flush(end)) = M[end]
  BY <1>2, <1>7
<1> QED
  BY <1>1, <1>8, <1>9 DEF end

-----------------------------------------------------------------------------
(* Texts within texts.                                                     *)

\* The runes of s stand in t at the given places, in their order.
WithinAt(places, s, t) ==
  /\ \A i \in 1 .. Len(s) : places[i] \in 1 .. Len(t) /\ s[i] = t[places[i]]
  /\ \A i, j \in 1 .. Len(s) : i < j => places[i] < places[j]

Within(s, t) == \E places : WithinAt(places, s, t)

LEMMA WithinSelf ==
  ASSUME NEW s \in Text PROVE Within(s, s)
<1> DEFINE n == Len(s)
           places == [i \in 1 .. n |-> i]
<1>1. n \in Nat /\ \A i \in 1 .. n : places[i] = i
  BY WideFinite
<1> HIDE DEF places
<1>2. WithinAt(places, s, s)
  BY <1>1 DEF WithinAt
<1> QED
  BY <1>2 DEF Within

LEMMA WithinLonger ==
  ASSUME NEW s \in Text, NEW t \in Text, NEW u \in Text, Within(s, t)
  PROVE  Within(s, t \o u)
<1>1. PICK places : WithinAt(places, s, t)
  BY DEF Within
<1> DEFINE v == t \o u
<1>2. Len(v) = Len(t) + Len(u) /\ \A i \in 1 .. Len(t) : v[i] = t[i]
  BY TextConcat
<1>3. Len(t) \in Nat /\ Len(u) \in Nat
  BY WideFinite
<1> HIDE DEF v
<1>4. WithinAt(places, s, v)
  BY <1>1, <1>2, <1>3 DEF WithinAt
<1> QED
  BY <1>4 DEF Within, v

LEMMA WithinBoth ==
  ASSUME NEW s \in Text, NEW t \in Text, NEW u \in Text, Within(s, t)
  PROVE  Within(s \o u, t \o u)
<1>1. PICK places : WithinAt(places, s, t)
  BY DEF Within
<1> DEFINE a == s \o u
           b == t \o u
           m == Len(s)
           n == Len(t)
           k == Len(u)
           to == [i \in 1 .. m + k |-> IF i <= m THEN places[i] ELSE (i - m) + n]
<1>2. /\ Len(a) = m + k
      /\ \A i \in 1 .. m : a[i] = s[i]
      /\ \A i \in 1 .. k : a[i + m] = u[i]
  BY TextConcat
<1>3. /\ Len(b) = n + k
      /\ \A i \in 1 .. n : b[i] = t[i]
      /\ \A i \in 1 .. k : b[i + n] = u[i]
  BY TextConcat
<1>4. m \in Nat /\ n \in Nat /\ k \in Nat
  BY WideFinite
<1>5. /\ \A i \in 1 .. m : places[i] \in 1 .. n /\ s[i] = t[places[i]]
      /\ \A i, j \in 1 .. m : i < j => places[i] < places[j]
  BY <1>1 DEF WithinAt
<1>6. \A i \in 1 .. m + k : to[i] = IF i <= m THEN places[i] ELSE (i - m) + n
  OBVIOUS
<1> HIDE DEF a, b, m, n, k, to
<1>7. ASSUME NEW i \in 1 .. m + k PROVE to[i] \in 1 .. n + k /\ a[i] = b[to[i]]
  <2>1. CASE i <= m
    <3>1. i \in 1 .. m /\ to[i] = places[i]
      BY <1>4, <1>6, <2>1
    <3> QED
      BY <1>2, <1>3, <1>4, <1>5, <3>1
  <2>2. CASE i > m
    <3>1. i - m \in 1 .. k /\ (i - m) + m = i /\ to[i] = (i - m) + n
      BY <1>4, <1>6, <2>2
    <3>2. a[i] = u[i - m]
      BY <1>2, <3>1
    <3>3. b[to[i]] = u[i - m]
      BY <1>3, <3>1
    <3> QED
      BY <1>4, <3>1, <3>2, <3>3
  <2> QED
    BY <1>4, <2>1, <2>2
<1>8. ASSUME NEW i \in 1 .. m + k, NEW j \in 1 .. m + k, i < j PROVE to[i] < to[j]
  <2>1. CASE j <= m
    <3>1. i \in 1 .. m /\ j \in 1 .. m
      BY <1>4, <1>8, <2>1
    <3> QED
      BY <1>4, <1>5, <1>6, <1>8, <2>1, <3>1
  <2>2. CASE i <= m /\ j > m
    <3>1. i \in 1 .. m /\ to[i] = places[i] /\ to[j] = (j - m) + n
      BY <1>4, <1>6, <2>2
    <3>2. places[i] \in 1 .. n
      BY <1>5, <3>1
    <3> QED
      BY <1>4, <2>2, <3>1, <3>2
  <2>3. CASE i > m
    BY <1>4, <1>6, <1>8, <2>3
  <2> QED
    BY <1>4, <1>8, <2>1, <2>2, <2>3
<1>9. WithinAt(to, a, b)
  BY <1>2, <1>3, <1>7, <1>8 DEF WithinAt
<1> QED
  BY <1>9 DEF Within, a, b

\* Looking for each rune of s at the first place left of t finds them all.
LEMMA WithinEmbeds ==
  ASSUME NEW s \in Text, NEW t \in Text, Within(s, t) PROVE Embeds(s, t)
<1>1. PICK places : WithinAt(places, s, t)
  BY DEF Within
<1> DEFINE m == Len(s)
           n == Len(t)
           A == 0 .. m
           step == [k \in Nat |-> [r \in Runes |->
                      IF k < m /\ s[k + 1] = r THEN k + 1 ELSE k]]
           found == Iterate(step, 0, t)
<1>2. m \in Nat /\ n \in Nat /\ t \in Seq(Runes) /\ \A j \in 1 .. n : t[j] \in Runes
  BY WideFinite DEF Text
<1>3. \A k \in A, r \in Runes : step[k][r] = IF k < m /\ s[k + 1] = r THEN k + 1 ELSE k
  BY <1>2
<1>4. Embeds(s, t) <=> m = found
  BY DEF Embeds
<1>5. \A i \in 1 .. m : places[i] \in 1 .. n /\ s[i] = t[places[i]]
  BY <1>1 DEF WithinAt
<1>6. \A i, j \in 1 .. m : i < j => places[i] < places[j]
  BY <1>1 DEF WithinAt
<1> HIDE DEF m, step
<1>7. PICK g : Iterates(g, A, step, 0, t)
  <2>1. 0 \in A
    BY <1>2
  <2>2. \A k \in A, r \in Runes : step[k][r] \in A
    BY <1>2, <1>3
  <2> HIDE DEF A
  <2> QED
    BY <1>2, <2>1, <2>2, IterateSteps
<1>8. /\ found = g[n] /\ g[0] = 0
      /\ \A j \in 0 .. n : g[j] \in A
      /\ \A j \in 1 .. n : g[j] = step[g[j - 1]][t[j]]
  BY <1>7 DEF Iterates
<1> HIDE DEF found, n
<1> DEFINE P == {j \in Nat : j <= n => \A i \in 1 .. m : places[i] <= j => i <= g[j]}
<1>9. 0 \in P
  BY <1>2, <1>5
<1>10. ASSUME NEW j \in P PROVE j + 1 \in P
  <2> SUFFICES ASSUME j + 1 <= n, NEW i \in 1 .. m, places[i] <= j + 1 PROVE i <= g[j + 1]
    OBVIOUS
  <2>1. j \in Nat /\ j <= n /\ \A h \in 1 .. m : places[h] <= j => h <= g[j]
    BY <1>2
  <2>2. g[j] \in A /\ t[j + 1] \in Runes /\ g[j + 1] = step[g[j]][t[j + 1]]
    BY <1>2, <1>8, <2>1
  <2>3. g[j + 1] = IF g[j] < m /\ s[g[j] + 1] = t[j + 1] THEN g[j] + 1 ELSE g[j]
    BY <1>3, <2>2
  <2>4. g[j] \in Nat /\ g[j] <= m
    BY <1>2, <2>2
  <2>5. CASE places[i] <= j
    BY <1>2, <2>1, <2>3, <2>4, <2>5
  <2>6. CASE places[i] = j + 1
    <3>1. i - 1 <= g[j]
      <4>1. CASE i = 1
        BY <2>4, <4>1
      <4>2. CASE i > 1
        <5>1. i - 1 \in 1 .. m /\ i - 1 < i
          BY <1>2, <4>2
        <5>2. places[i - 1] < places[i] /\ places[i - 1] \in 1 .. n
          BY <1>5, <1>6, <5>1
        <5>3. places[i - 1] <= j
          BY <2>1, <2>6, <5>2
        <5> QED
          BY <2>1, <5>1, <5>3
      <4> QED
        BY <1>2, <4>1, <4>2
    <3>2. CASE i <= g[j]
      BY <1>2, <2>3, <2>4, <3>2
    <3>3. CASE i - 1 = g[j]
      <4>1. g[j] < m /\ g[j] + 1 = i
        BY <1>2, <3>3
      <4>2. s[i] = t[j + 1]
        BY <1>5, <2>6
      <4> QED
        BY <2>3, <4>1, <4>2
    <3> QED
      BY <1>2, <2>4, <3>1, <3>2, <3>3
  <2> QED
    <3>1. places[i] \in Int
      BY <1>5
    <3> QED
      BY <2>1, <2>5, <2>6, <3>1
<1>11. P = Nat
  <2>1. P \in SUBSET Nat
    OBVIOUS
  <2> HIDE DEF P
  <2> QED
    BY <1>9, <1>10, <2>1, NatInductionSet
<1>12. \A i \in 1 .. m : i <= g[n]
  <2>1. n \in P
    BY <1>2, <1>11
  <2> QED
    BY <1>2, <1>5, <2>1
<1>13. g[n] \in A
  BY <1>2, <1>8
<1>14. g[n] = m
  <2>1. CASE m = 0
    BY <1>13, <2>1
  <2>2. CASE m > 0
    <3>1. m \in 1 .. m
      BY <1>2, <2>2
    <3>2. m <= g[n]
      BY <1>12, <3>1
    <3> QED
      BY <1>2, <1>13, <3>2
  <2> QED
    BY <1>2, <2>1, <2>2
<1> QED
  BY <1>4, <1>8, <1>14

-----------------------------------------------------------------------------
(* What the splitting loop keeps of the blocks.                            *)

\* The letters of the chunks and of the one being packed.
Sent(st) == LettersOf(st.chunks) \o Letters(st.cur)

LEMMA SentType ==
  ASSUME NEW st \in Splitting
  PROVE  /\ st.chunks \in Seq(Text) /\ st.cur \in Text
         /\ st.heading \in Text /\ st.seen \in SUBSET Text
         /\ st = [chunks |-> st.chunks, cur |-> st.cur, heading |-> st.heading, seen |-> st.seen]
         /\ LettersOf(st.chunks) \in Text /\ Letters(st.cur) \in Text /\ Sent(st) \in Text
<1>1. /\ st.chunks \in Seq(Text) /\ st.cur \in Text
      /\ st.heading \in Text /\ st.seen \in SUBSET Text
      /\ st = [chunks |-> st.chunks, cur |-> st.cur, heading |-> st.heading, seen |-> st.seen]
  BY DEF Splitting
<1>2. LettersOf(st.chunks) \in Text /\ Letters(st.cur) \in Text
  BY <1>1, LettersAppend, LettersConcat
<1>3. Sent(st) \in Text
  BY <1>2, TextConcat DEF Sent
<1> QED
  BY <1>1, <1>2, <1>3

\* A state with another text being packed.
LEMMA Repacked ==
  ASSUME NEW st \in Splitting, NEW text \in Text
  PROVE  LET to == [st EXCEPT !.cur = text]
         IN  /\ to \in Splitting /\ to.chunks = st.chunks /\ to.cur = text
             /\ to.heading = st.heading /\ to.seen = st.seen
             /\ Sent(to) = LettersOf(st.chunks) \o Letters(text)
<1> DEFINE to == [st EXCEPT !.cur = text]
<1>1. /\ to \in Splitting /\ to.chunks = st.chunks /\ to.cur = text
      /\ to.heading = st.heading /\ to.seen = st.seen
  BY DEF Splitting
<1> HIDE DEF to
<1> QED
  BY <1>1 DEF Sent, to

LEMMA FlushSends ==
  ASSUME NEW st \in Splitting
  PROVE  /\ flush(st) \in Splitting /\ flush(st).cur = <<>>
         /\ flush(st).heading = st.heading /\ flush(st).seen = st.seen
         /\ LettersOf(flush(st).chunks) = Sent(st) /\ Sent(flush(st)) = Sent(st)
<1> DEFINE chunk == TrimSpace(st.cur)
           reset == [st EXCEPT !.cur = <<>>]
           flushed == [reset EXCEPT !.chunks = Append(reset.chunks, chunk)]
           end == flush(st)
<1>1. end = IF chunk = <<>> THEN reset ELSE flushed
  BY DEF flush
<1>2. /\ st.chunks \in Seq(Text) /\ st.cur \in Text
      /\ LettersOf(st.chunks) \in Text /\ Letters(st.cur) \in Text
  BY SentType
<1>3. chunk \in Text /\ Letters(chunk) = Letters(st.cur)
  BY <1>2, TrimSize, TrimLetters
<1> HIDE DEF chunk
<1>4. /\ reset \in Splitting /\ reset.chunks = st.chunks /\ reset.cur = <<>>
      /\ reset.heading = st.heading /\ reset.seen = st.seen
  BY SizeShort, Repacked
<1> HIDE DEF reset
<1>5. /\ flushed \in Splitting /\ flushed.chunks = Append(st.chunks, chunk)
      /\ flushed.cur = <<>> /\ flushed.heading = st.heading /\ flushed.seen = st.seen
  <2>1. Append(st.chunks, chunk) \in Seq(Text)
    BY <1>2, <1>3
  <2> QED
    BY <1>4, <2>1 DEF Splitting
<1> HIDE DEF flushed
<1>6. LettersOf(Append(st.chunks, chunk)) = Sent(st)
  BY <1>2, <1>3, LettersAppend DEF Sent
<1>7. chunk = <<>> => LettersOf(st.chunks) = Sent(st)
  <2>1. ASSUME chunk = <<>> PROVE Letters(st.cur) = <<>>
    BY <1>3, <2>1, LettersAppend
  <2>2. LettersOf(st.chunks) \o <<>> = LettersOf(st.chunks)
    BY <1>2, EmptyConcat
  <2> QED
    BY <2>1, <2>2 DEF Sent
<1>8. /\ end \in Splitting /\ end.cur = <<>>
      /\ end.heading = st.heading /\ end.seen = st.seen
      /\ LettersOf(end.chunks) = Sent(st)
  BY <1>1, <1>4, <1>5, <1>6, <1>7
<1> HIDE DEF end
<1>9. Sent(end) = LettersOf(end.chunks)
  <2>1. LettersOf(end.chunks) \in Text
    BY <1>8, SentType
  <2> QED
    BY <1>8, <2>1, LettersAppend, EmptyConcat DEF Sent
<1> QED
  BY <1>8, <1>9 DEF end

\* A part is written after all that was, the heading it repeats before it.
LEMMA AppendSends ==
  ASSUME NEW m \in Int, NEW st \in Splitting, NEW text \in Text,
         NEW s \in Text, Within(s, Sent(st))
  PROVE  LET end == appendPart(st, text, m)
         IN  /\ end \in Splitting /\ end.seen = st.seen
             /\ Within(s \o Letters(text), Sent(end))
<1> DEFINE part == TrimSpace(text)
           prefix == IF st.heading # <<>> /\ part # st.heading
                     THEN st.heading \o <<"\n", "\n">> ELSE <<>>
           separator == IF st.cur = <<>> THEN 0 ELSE 2
           carried == [flush(st) EXCEPT !.cur = prefix]
           start == IF Size(prefix) + Size(part) <= m THEN carried ELSE flush(st)
           room == Size(st.cur) + separator + Size(part) <= m
           from == IF room THEN st ELSE start
           to == [from EXCEPT !.cur = from.cur \o part]
           end == appendPart(st, text, m)
<1>1. end = IF part = <<>> THEN st ELSE to
  BY DEF appendPart
<1>2. part \in Text /\ Letters(part) = Letters(text) /\ Letters(text) \in Text
      /\ st.heading \in Text /\ Sent(st) \in Text
  BY TrimSize, TrimLetters, LettersConcat, SentType
<1>3. prefix \in Text
  <2>1. <<"\n", "\n">> \in Text
    <3>1. "\n" \in Runes
      BY RunesAssumption
    <3> QED
      BY <3>1 DEF Text
  <2>2. st.heading \o <<"\n", "\n">> \in Text
    BY <1>2, <2>1, TextConcat
  <2> QED
    BY <2>2, SizeShort
<1> HIDE DEF end, part, prefix
<1>4. /\ flush(st) \in Splitting /\ flush(st).seen = st.seen
      /\ LettersOf(flush(st).chunks) = Sent(st) /\ Sent(flush(st)) = Sent(st)
  BY FlushSends
<1>5. carried \in Splitting /\ carried.seen = st.seen
      /\ Sent(carried) = Sent(st) \o Letters(prefix)
  BY <1>3, <1>4, Repacked
<1> HIDE DEF carried
<1>6. from \in Splitting /\ from.seen = st.seen /\ Within(s, Sent(from))
  <2>1. Letters(prefix) \in Text
    BY <1>3, LettersConcat
  <2>2. Within(s, Sent(carried))
    BY <1>2, <1>5, <2>1, WithinLonger
  <2>3. from \in {st, carried, flush(st)}
    OBVIOUS
  <2> HIDE DEF from
  <2> QED
    BY <1>4, <1>5, <2>2, <2>3
<1> HIDE DEF from
<1>7. /\ from.cur \in Text /\ LettersOf(from.chunks) \in Text /\ Letters(from.cur) \in Text
      /\ Sent(from) \in Text
  BY <1>6, SentType
<1>8. from.cur \o part \in Text
      /\ Letters(from.cur \o part) = Letters(from.cur) \o Letters(text)
  <2> DEFINE c == from.cur
  <2>1. c \in Text
    BY <1>7
  <2> HIDE DEF c
  <2>2. c \o part \in Text /\ Letters(c \o part) = Letters(c) \o Letters(part)
    BY <1>2, <2>1, TextConcat, LettersConcat
  <2> QED
    BY <1>2, <2>2 DEF c
<1>9. /\ to \in Splitting /\ to.seen = st.seen
      /\ Sent(to) = LettersOf(from.chunks) \o Letters(from.cur \o part)
  BY <1>6, <1>8, Repacked
<1> HIDE DEF to
<1>10. Sent(to) = Sent(from) \o Letters(text)
  <2>1. (LettersOf(from.chunks) \o Letters(from.cur)) \o Letters(text)
          = LettersOf(from.chunks) \o (Letters(from.cur) \o Letters(text))
    <3>1. /\ LettersOf(from.chunks) \in Text /\ Letters(from.cur) \in Text
          /\ Letters(text) \in Text
      BY <1>2, <1>7
    <3> QED
      BY <3>1, ConcatAssoc, SMTT(20)
  <2> QED
    BY <1>8, <1>9, <2>1 DEF Sent
<1>11. Within(s \o Letters(text), Sent(to))
  <2>1. Within(s \o Letters(text), Sent(from) \o Letters(text))
    BY <1>2, <1>6, <1>7, WithinBoth
  <2> QED
    BY <1>10, <2>1
<1>12. part = <<>> => s \o Letters(text) = s
  BY <1>2, LettersAppend, EmptyConcat
<1> QED
  BY <1>1, <1>9, <1>11, <1>12 DEF end

\* Parts are written one after the other.
LEMMA PartsSent ==
  ASSUME NEW m \in Int, NEW st \in Splitting, NEW parts \in Seq(Text),
         NEW s \in Text, Within(s, Sent(st))
  PROVE  LET end == Iterate([r \in Splitting |-> [p \in Text |-> appendPart(r, p, m)]],
                            st, parts)
         IN  /\ end \in Splitting /\ end.seen = st.seen
             /\ Within(s \o LettersOf(parts), Sent(end))
<1> DEFINE step == [r \in Splitting |-> [p \in Text |-> appendPart(r, p, m)]]
           it(ps) == Iterate(step, st, ps)
           P == {ps \in Seq(Text) : /\ it(ps) \in Splitting /\ it(ps).seen = st.seen
                                    /\ Within(s \o LettersOf(ps), Sent(it(ps)))}
<1>1. \A r \in Splitting, p \in Text : step[r][p] = appendPart(r, p, m) /\ step[r][p] \in Splitting
  <2>1. ASSUME NEW r \in Splitting, NEW p \in Text PROVE appendPart(r, p, m) \in Splitting
    <3>1. Sent(r) \in Text /\ Within(Sent(r), Sent(r))
      BY SentType, WithinSelf
    <3> QED
      BY <3>1, AppendSends
  <2> QED
    BY <2>1
<1> HIDE DEF step
<1>2. <<>> \in P
  <2>1. it(<<>>) = st
    BY IterateEmpty
  <2>2. s \o LettersOf(<<>>) = s
    BY LettersAppend, EmptyConcat
  <2>3. <<>> \in Seq(Text) /\ Within(s \o LettersOf(<<>>), Sent(st))
    <3>1. Within(s \o LettersOf(<<>>), Sent(st))
      <4> DEFINE u == s \o LettersOf(<<>>)
      <4>1. u = s
        BY <2>2
      <4> HIDE DEF u
      <4>2. Within(u, Sent(st))
        BY <4>1
      <4> QED
        BY <4>2 DEF u
    <3> HIDE DEF P
    <3> QED
      BY <3>1
  <2> HIDE DEF it
  <2> QED
    BY <2>1, <2>3
<1>3. ASSUME NEW ps \in P, NEW p \in Text PROVE Append(ps, p) \in P
  <2>1. /\ ps \in Seq(Text) /\ it(ps) \in Splitting /\ it(ps).seen = st.seen
        /\ Within(s \o LettersOf(ps), Sent(it(ps)))
    OBVIOUS
  <2>2. it(Append(ps, p)) = appendPart(it(ps), p, m)
    <3>1. \A r \in Splitting, x \in Text : step[r][x] \in Splitting
      BY <1>1
    <3>2. it(Append(ps, p)) = step[it(ps)][p]
      BY <2>1, <3>1, IterateAppend
    <3> HIDE DEF it
    <3> QED
      BY <1>1, <2>1, <3>2
  <2> HIDE DEF it
  <2>3. LettersOf(ps) \in Text
        /\ LettersOf(Append(ps, p)) = LettersOf(ps) \o Letters(p) /\ Letters(p) \in Text
    BY <2>1, LettersAppend, LettersConcat
  <2>4. s \o LettersOf(ps) \in Text
    BY <2>3, TextConcat
  <2> DEFINE end == appendPart(it(ps), p, m)
             u == s \o LettersOf(ps)
  <2>5. u \in Text /\ Within(u, Sent(it(ps)))
    BY <2>1, <2>4
  <2> HIDE DEF u
  <2>6. end \in Splitting /\ end.seen = it(ps).seen /\ Within(u \o Letters(p), Sent(end))
    BY <2>1, <2>5, AppendSends
  <2>7. u \o Letters(p) = s \o LettersOf(Append(ps, p))
    <3>1. (s \o LettersOf(ps)) \o Letters(p) = s \o (LettersOf(ps) \o Letters(p))
      BY <2>3, ConcatAssoc
    <3> QED
      BY <2>3, <3>1 DEF u
  <2> HIDE DEF end
  <2>8. it(Append(ps, p)) = end
    BY <2>2 DEF end
  <2>9. Append(ps, p) \in Seq(Text)
    BY <2>1
  <2> QED
    BY <2>1, <2>6, <2>7, <2>8, <2>9
<1>4. P = Seq(Text)
  <2>1. P \in SUBSET Seq(Text)
    OBVIOUS
  <2> HIDE DEF P
  <2> QED
    BY <1>2, <1>3, <2>1, SeqInductionSet
<1>5. parts \in P
  BY <1>4
<1> QED
  BY <1>5 DEF step

\* A new block is written after all that was, in one piece or more.
LEMMA BlockSent ==
  ASSUME NEW m \in Int, NEW st \in Splitting, NEW text \in Text,
         NEW s \in Text, Within(s, Sent(st)), TrimSpace(text) \notin st.seen
  PROVE  LET end == addBlock(st, text, m)
         IN  /\ end \in Splitting /\ end.seen = st.seen \union {TrimSpace(text)}
             /\ Within(s \o Letters(text), Sent(end))
<1> DEFINE block == TrimSpace(text)
           heading == IF isHeading(block) THEN firstLine(block) ELSE st.heading
           crumb == Size(heading) + 2
           limited == heading # <<>> /\ block # heading /\ crumb < m
           partLimit == IF limited THEN m - crumb ELSE m
           parts == splitOversizedBlock(block, partLimit)
           marked == [st EXCEPT !.seen = st.seen \union {block}]
           noted == [marked EXCEPT !.heading = heading]
           step == [r \in Splitting |-> [p \in Text |-> appendPart(r, p, m)]]
<1>1. /\ st.chunks \in Seq(Text) /\ st.cur \in Text
      /\ st.heading \in Text /\ st.seen \in SUBSET Text
  BY SentType
<1>2. block \in Text /\ Letters(block) = Letters(text)
  BY TrimSize, TrimLetters
<1>3. addBlock(st, text, m) = IF block \in st.seen THEN st ELSE Iterate(step, noted, parts)
  BY DEF addBlock
<1>4. block \notin st.seen
  OBVIOUS
<1> HIDE DEF block
<1>5. heading \in Text
  BY <1>1, <1>2, FirstLineType
<1> HIDE DEF heading
<1>6. partLimit \in Int
  BY <1>5, SizeType
<1> HIDE DEF partLimit
<1>7. parts \in Seq(Text) /\ LettersOf(parts) = Letters(text)
  BY <1>2, <1>6, PiecesLetters
<1>8. /\ noted \in Splitting /\ noted.seen = st.seen \union {block}
      /\ noted.chunks = st.chunks /\ noted.cur = st.cur
  <2>1. st.seen \union {block} \in SUBSET Text
    BY <1>1, <1>2
  <2>2. /\ marked \in Splitting /\ marked.seen = st.seen \union {block}
        /\ marked.chunks = st.chunks /\ marked.cur = st.cur
    BY <2>1 DEF Splitting
  <2> HIDE DEF marked
  <2> QED
    BY <1>5, <2>2 DEF Splitting
<1> HIDE DEF noted, parts
<1>9. Within(s, Sent(noted))
  BY <1>8 DEF Sent
<1> DEFINE end == Iterate(step, noted, parts)
<1>10. end \in Splitting /\ end.seen = noted.seen
       /\ Within(s \o LettersOf(parts), Sent(end))
  BY <1>7, <1>8, <1>9, PartsSent
<1> HIDE DEF end
<1>11. addBlock(st, text, m) = end
  BY <1>3, <1>4 DEF end
<1> QED
  BY <1>7, <1>8, <1>10, <1>11 DEF block

LEMMA FirstAppend ==
  /\ FirstOccurrences(<<>>) = <<>>
  /\ \A bs \in Seq(Text), b \in Text :
       /\ FirstOccurrences(bs) \in Seq(Text)
       /\ FirstOccurrences(Append(bs, b)) =
            IF TrimSpace(b) \in ToSet(FirstOccurrences(bs)) THEN FirstOccurrences(bs)
            ELSE Append(FirstOccurrences(bs), TrimSpace(b))
<1> DEFINE step == [kept \in Seq(Text) |-> [b \in Text |->
             IF TrimSpace(b) \in ToSet(kept) THEN kept ELSE Append(kept, TrimSpace(b))]]
<1>1. \A bs : FirstOccurrences(bs) = Iterate(step, <<>>, bs)
  BY DEF FirstOccurrences
<1>2. \A kept \in Seq(Text), b \in Text :
        step[kept][b] = IF TrimSpace(b) \in ToSet(kept) THEN kept ELSE Append(kept, TrimSpace(b))
  OBVIOUS
<1>3. \A kept \in Seq(Text), b \in Text : step[kept][b] \in Seq(Text)
  <2>1. \A b \in Text : TrimSpace(b) \in Text
    BY TrimSize
  <2>2. \A kept \in Seq(Text), t \in Text : Append(kept, t) \in Seq(Text)
    OBVIOUS
  <2> HIDE DEF step
  <2> QED
    BY <1>2, <2>1, <2>2
<1>4. <<>> \in Seq(Text)
  OBVIOUS
<1> HIDE DEF step
<1>5. FirstOccurrences(<<>>) = <<>>
  BY <1>1, IterateEmpty
<1>6. ASSUME NEW bs \in Seq(Text), NEW b \in Text
      PROVE  /\ FirstOccurrences(bs) \in Seq(Text)
             /\ FirstOccurrences(Append(bs, b)) =
                  IF TrimSpace(b) \in ToSet(FirstOccurrences(bs)) THEN FirstOccurrences(bs)
                  ELSE Append(FirstOccurrences(bs), TrimSpace(b))
  <2>1. Iterate(step, <<>>, bs) \in Seq(Text)
    BY <1>3, <1>4, IterateKeeps
  <2>2. Iterate(step, <<>>, Append(bs, b)) = step[Iterate(step, <<>>, bs)][b]
    <3> DEFINE none == <<>>
    <3>1. none \in Seq(Text)
      OBVIOUS
    <3> HIDE DEF none
    <3>2. Iterate(step, none, Append(bs, b)) = step[Iterate(step, none, bs)][b]
      BY <1>3, <3>1, IterateAppend
    <3> QED
      BY <3>2 DEF none
  <2> QED
    BY <1>1, <1>2, <2>1, <2>2
<1> QED
  BY <1>5, <1>6

LEMMA ToSetAppend ==
  ToSet(<<>>) = {} /\ \A s \in Seq(Text), t \in Text : ToSet(Append(s, t)) = ToSet(s) \union {t}
<1>1. ASSUME NEW s \in Seq(Text), NEW t \in Text PROVE ToSet(Append(s, t)) = ToSet(s) \union {t}
  <2> DEFINE u == Append(s, t)
             n == Len(s)
  <2>1. /\ n \in Nat /\ DOMAIN s = 1 .. n /\ DOMAIN u = 1 .. n + 1
        /\ \A i \in 1 .. n : u[i] = s[i]
        /\ u[n + 1] = t
    OBVIOUS
  <2> HIDE DEF u, n
  <2>2. ToSet(u) \subseteq ToSet(s) \union {t}
    BY <2>1 DEF ToSet
  <2>3. ToSet(s) \union {t} \subseteq ToSet(u)
    BY <2>1 DEF ToSet
  <2> QED
    BY <2>2, <2>3 DEF u
<1>2. ToSet(<<>>) = {}
  BY DEF ToSet
<1> QED
  BY <1>1, <1>2

\* The loop over the blocks: seen is what it has kept, and it is all sent.
LEMMA BlocksSent ==
  ASSUME NEW m \in Int, NEW blocks \in Seq(Text)
  PROVE  LET end == Iterate([s \in Splitting |-> [b \in Text |-> addBlock(s, b, m)]],
                            [chunks |-> <<>>, cur |-> <<>>, heading |-> <<>>, seen |-> {}],
                            blocks)
         IN  end \in Splitting /\ Within(LettersOf(FirstOccurrences(blocks)), Sent(end))
<1> DEFINE step == [s \in Splitting |-> [b \in Text |-> addBlock(s, b, m)]]
           empty == [chunks |-> <<>>, cur |-> <<>>, heading |-> <<>>, seen |-> {}]
           it(bs) == Iterate(step, empty, bs)
           First(bs) == FirstOccurrences(bs)
           P == {bs \in Seq(Text) : /\ it(bs) \in Splitting
           /\ it(bs).seen = ToSet(First(bs))
                                    /\ Within(LettersOf(First(bs)), Sent(it(bs)))}
<1>1. ASSUME NEW st \in Splitting, NEW b \in Text, TrimSpace(b) \in st.seen
      PROVE  addBlock(st, b, m) = st
  BY <1>1 DEF addBlock
<1>2. ASSUME NEW st \in Splitting, NEW b \in Text PROVE addBlock(st, b, m) \in Splitting
  <2>1. CASE TrimSpace(b) \in st.seen
    BY <1>1, <2>1
  <2>2. CASE TrimSpace(b) \notin st.seen
    <3>1. Sent(st) \in Text /\ Within(Sent(st), Sent(st))
      BY SentType, WithinSelf
    <3> QED
      BY <2>2, <3>1, BlockSent
  <2> QED
    BY <2>1, <2>2
<1>3. \A st \in Splitting, b \in Text : step[st][b] = addBlock(st, b, m) /\ step[st][b] \in Splitting
  BY <1>2
<1>4. /\ empty \in Splitting /\ empty.chunks = <<>> /\ empty.cur = <<>> /\ empty.seen = {}
  BY SizeShort DEF Splitting
<1> HIDE DEF step, empty
<1>5. <<>> \in P
  <2>1. it(<<>>) = empty
    BY IterateEmpty
  <2>2. First(<<>>) = <<>> /\ ToSet(<<>>) = {} /\ LettersOf(<<>>) = <<>>
    BY FirstAppend, ToSetAppend, LettersAppend
  <2>3. Sent(empty) = <<>>
    BY <1>4, LettersAppend, EmptyConcat, SizeShort DEF Sent
  <2>4. Within(<<>>, <<>>) /\ <<>> \in Seq(Text)
    BY SizeShort, WithinSelf
  <2> HIDE DEF it, First
  <2> QED
    BY <1>4, <2>1, <2>2, <2>3, <2>4
<1>6. ASSUME NEW bs \in P, NEW b \in Text PROVE Append(bs, b) \in P
  <2>1. /\ bs \in Seq(Text) /\ it(bs) \in Splitting /\ it(bs).seen = ToSet(First(bs))
        /\ Within(LettersOf(First(bs)), Sent(it(bs)))
    OBVIOUS
  <2>2. it(Append(bs, b)) = addBlock(it(bs), b, m)
    <3>1. \A st \in Splitting, x \in Text : step[st][x] \in Splitting
      BY <1>3
    <3>2. it(Append(bs, b)) = step[it(bs)][b]
      BY <1>4, <2>1, <3>1, IterateAppend
    <3> HIDE DEF it
    <3> QED
      BY <1>3, <2>1, <3>2
  <2>3. /\ First(bs) \in Seq(Text)
        /\ First(Append(bs, b)) = IF TrimSpace(b) \in ToSet(First(bs)) THEN First(bs)
                                  ELSE Append(First(bs), TrimSpace(b))
    BY <2>1, FirstAppend
  <2>4. Append(bs, b) \in Seq(Text)
    BY <2>1
  <2>5. TrimSpace(b) \in Text /\ Letters(TrimSpace(b)) = Letters(b) /\ Letters(b) \in Text
    BY TrimSize, TrimLetters, LettersConcat
  <2> HIDE DEF it, First
  <2>6. CASE TrimSpace(b) \in ToSet(First(bs))
    <3>1. it(Append(bs, b)) = it(bs) /\ First(Append(bs, b)) = First(bs)
      BY <1>1, <2>1, <2>2, <2>3, <2>6
    <3> QED
      BY <2>1, <2>4, <3>1
  <2>7. CASE TrimSpace(b) \notin ToSet(First(bs))
    <3> DEFINE end == addBlock(it(bs), b, m)
               s == LettersOf(First(bs))
    <3>1. s \in Text
      BY <2>3, LettersAppend
    <3>2. Within(s, Sent(it(bs))) /\ TrimSpace(b) \notin it(bs).seen
      BY <2>1, <2>7
    <3> HIDE DEF s
    <3>3. /\ end \in Splitting /\ end.seen = it(bs).seen \union {TrimSpace(b)}
          /\ Within(s \o Letters(b), Sent(end))
      BY <2>1, <3>1, <3>2, BlockSent
    <3>4. First(Append(bs, b)) = Append(First(bs), TrimSpace(b))
      BY <2>3, <2>7
    <3>5. LettersOf(Append(First(bs), TrimSpace(b))) = s \o Letters(b)
      BY <2>3, <2>5, LettersAppend DEF s
    <3>6. ToSet(Append(First(bs), TrimSpace(b))) = ToSet(First(bs)) \union {TrimSpace(b)}
      BY <2>3, <2>5, ToSetAppend
    <3> HIDE DEF end
    <3>7. it(Append(bs, b)) = end
      BY <2>2 DEF end
    <3> QED
      BY <2>1, <2>4, <3>3, <3>4, <3>5, <3>6, <3>7
  <2> QED
    BY <2>6, <2>7
<1>7. P = Seq(Text)
  <2>1. P \in SUBSET Seq(Text)
    OBVIOUS
  <2> HIDE DEF P
  <2> QED
    BY <1>5, <1>6, <2>1, SeqInductionSet
<1>8. blocks \in P
  BY <1>7
<1> QED
  BY <1>8 DEF step, empty

\* A page that is not split holds its blocks, the repeated ones too.
LEMMA FirstWithin ==
  ASSUME NEW blocks \in Seq(Text) PROVE Within(LettersOf(FirstOccurrences(blocks)), LettersOf(blocks))
<1> DEFINE First(bs) == FirstOccurrences(bs)
           P == {bs \in Seq(Text) : Within(LettersOf(First(bs)), LettersOf(bs))}
<1>1. <<>> \in P
  <2>1. First(<<>>) = <<>> /\ LettersOf(<<>>) = <<>>
    BY FirstAppend, LettersAppend
  <2>2. Within(<<>>, <<>>) /\ <<>> \in Seq(Text)
    BY SizeShort, WithinSelf
  <2> HIDE DEF First
  <2> QED
    BY <2>1, <2>2
<1>2. ASSUME NEW bs \in P, NEW b \in Text PROVE Append(bs, b) \in P
  <2>1. bs \in Seq(Text) /\ Within(LettersOf(First(bs)), LettersOf(bs))
        /\ Append(bs, b) \in Seq(Text)
    OBVIOUS
  <2>2. /\ First(bs) \in Seq(Text)
        /\ First(Append(bs, b)) = IF TrimSpace(b) \in ToSet(First(bs)) THEN First(bs)
                                  ELSE Append(First(bs), TrimSpace(b))
    BY <2>1, FirstAppend
  <2>3. TrimSpace(b) \in Text /\ Letters(TrimSpace(b)) = Letters(b) /\ Letters(b) \in Text
    BY TrimSize, TrimLetters, LettersConcat
  <2> HIDE DEF First
  <2> DEFINE s == LettersOf(First(bs))
             t == LettersOf(bs)
             l == Letters(b)
  <2>4. s \in Text /\ t \in Text /\ l \in Text /\ Within(s, t)
    BY <2>1, <2>2, <2>3, LettersAppend
  <2>5. LettersOf(Append(bs, b)) = t \o l
    BY <2>1, LettersAppend
  <2>6. LettersOf(First(Append(bs, b))) = s \/ LettersOf(First(Append(bs, b))) = s \o l
    <3>1. LettersOf(Append(First(bs), TrimSpace(b))) = s \o l
      BY <2>2, <2>3, LettersAppend
    <3> HIDE DEF s, l
    <3>2. CASE TrimSpace(b) \in ToSet(First(bs))
      BY <2>2, <3>2 DEF s
    <3>3. CASE TrimSpace(b) \notin ToSet(First(bs))
      BY <2>2, <3>1, <3>3
    <3> QED
      BY <3>2, <3>3
  <2> HIDE DEF s, t, l
  <2>7. Within(s, t \o l) /\ Within(s \o l, t \o l)
    BY <2>4, WithinLonger, WithinBoth
  <2> QED
    BY <2>1, <2>5, <2>6, <2>7
<1>3. P = Seq(Text)
  <2>1. P \in SUBSET Seq(Text)
    OBVIOUS
  <2> HIDE DEF P
  <2> QED
    BY <1>1, <1>2, <2>1, SeqInductionSet
<1>4. blocks \in P
  BY <1>3
<1> QED
  BY <1>4

\* Every page: the chunks hold the letters of its blocks.
LEMMA ChunksHoldBlocks ==
  ASSUME NEW content \in Text, NEW m \in Int
  PROVE  LET cs == splitSemanticMarkdown(content, m)
             blocks == FirstOccurrences(markdownBlocks(TrimSpace(content)))
         IN  /\ cs \in Seq(Text) /\ blocks \in Seq(Text)
             /\ LettersOf(cs) \in Text /\ LettersOf(blocks) \in Text
             /\ Within(LettersOf(blocks), LettersOf(cs))
<1> DEFINE text == TrimSpace(content)
           empty == [chunks |-> <<>>, cur |-> <<>>, heading |-> <<>>, seen |-> {}]
           step == [s \in Splitting |-> [b \in Text |-> addBlock(s, b, m)]]
           end == Iterate(step, empty, markdownBlocks(text))
           cs == splitSemanticMarkdown(content, m)
           blocks == FirstOccurrences(markdownBlocks(text))
<1>1. cs = IF text = <<>> \/ m <= 0 \/ Size(text) <= m THEN <<text>> ELSE flush(end).chunks
  BY DEF splitSemanticMarkdown
<1>2. text \in Text
  BY TrimSize
<1> HIDE DEF cs, text
<1>3. markdownBlocks(text) \in Seq(Text) /\ LettersOf(markdownBlocks(text)) = Letters(text)
      /\ Letters(text) \in Text
  BY <1>2, BlocksType, BlocksLetters, LettersConcat
<1>4. blocks \in Seq(Text) /\ LettersOf(blocks) \in Text
  <2>1. blocks \in Seq(Text)
    BY <1>2, <1>3, FirstAppend
  <2> HIDE DEF blocks
  <2> QED
    BY <2>1, LettersAppend
<1>5. CASE text = <<>> \/ m <= 0 \/ Size(text) <= m
  <2>1. <<text>> = Append(<<>>, text) /\ <<>> \in Seq(Text) /\ <<text>> \in Seq(Text)
    BY <1>2
  <2>2. LettersOf(<<text>>) = Letters(text)
    <3>1. LettersOf(Append(<<>>, text)) = LettersOf(<<>>) \o Letters(text)
          /\ LettersOf(<<>>) = <<>>
      BY <1>2, <2>1, LettersAppend
    <3> QED
      BY <1>3, <2>1, <3>1, EmptyConcat
  <2>3. Within(LettersOf(blocks), Letters(text))
    BY <1>3, FirstWithin
  <2> HIDE DEF blocks
  <2> QED
    BY <1>1, <1>3, <1>4, <1>5, <2>1, <2>2, <2>3 DEF cs, text, blocks
<1>6. CASE ~ (text = <<>> \/ m <= 0 \/ Size(text) <= m)
  <2>1. end \in Splitting /\ Within(LettersOf(blocks), Sent(end))
    BY <1>3, BlocksSent
  <2> HIDE DEF end
  <2>2. flush(end) \in Splitting /\ LettersOf(flush(end).chunks) = Sent(end)
    BY <2>1, FlushSends
  <2>3. flush(end).chunks \in Seq(Text) /\ LettersOf(flush(end).chunks) \in Text
    BY <2>2, SentType
  <2>4. cs = flush(end).chunks
    BY <1>1, <1>6
  <2> HIDE DEF blocks
  <2> QED
    BY <1>4, <2>1, <2>2, <2>3, <2>4 DEF cs, text, blocks
<1> QED
  BY <1>5, <1>6

\* No letter of a page is lost, for every page, every limit and every size
\* of context: what the chunker drops repeats an earlier block.
THEOREM TextKept == Spec => []NoTextLost
<1> DEFINE Inv == doc \in Text /\ limit \in Int /\ NoTextLost
<1>1. Init => Inv
  <2> SUFFICES ASSUME Init PROVE Inv
    OBVIOUS
  <2>1. PICK configured \in Limits, context \in ContextTokens :
          limit = contextBudget(context, configured, Schema)
    BY DEF Init
  <2>2. limit \in Int
    <3>1. configured \in Nat /\ context \in Int
      BY SizesAssumption
    <3>2. \A b \in Int : Larger(256, b) \in Nat /\ Larger(256, b) >= 256
      BY DEF Larger
    <3> QED
      BY <2>1, <3>1, <3>2 DEF contextBudget, Smaller, Larger, Schema
  <2>3. chunks = <<>> /\ doc \in Text
    BY PagesType DEF Init
  <2> QED
    BY <2>2, <2>3 DEF NoTextLost
<1>2. Inv /\ [Next]_vars => Inv'
  <2> SUFFICES ASSUME Inv, [Next]_vars PROVE Inv'
    OBVIOUS
  <2>1. CASE Split
    <3>1. UNCHANGED <<doc, limit>> /\ chunks' = splitSemanticMarkdown(doc, limit)
      BY <2>1 DEF Split
    <3> DEFINE cs == splitSemanticMarkdown(doc, limit)
               blocks == FirstOccurrences(markdownBlocks(TrimSpace(doc)))
    <3>2. LettersOf(cs) \in Text /\ LettersOf(blocks) \in Text
          /\ Within(LettersOf(blocks), LettersOf(cs))
      BY ChunksHoldBlocks
    <3> HIDE DEF cs, blocks
    <3>3. Embeds(LettersOf(blocks), LettersOf(cs))
      BY <3>2, WithinEmbeds
    <3>4. Embeds(Letters(Written(FirstOccurrences(markdownBlocks(TrimSpace(doc))))),
                 Letters(Written(splitSemanticMarkdown(doc, limit))))
      BY <3>3 DEF LettersOf, cs, blocks
    <3>5. NoTextLost'
      BY <3>1, <3>4 DEF NoTextLost
    <3> QED
      BY <3>1, <3>5
  <2>2. CASE StartInference
    BY <2>2, SizeShort DEF StartInference, NoTextLost
  <2>3. CASE Infer \/ InferFails \/ Accept \/ Retry \/ GiveUp \/ Finish \/ UNCHANGED vars
    <3>1. UNCHANGED <<doc, limit, chunks>>
      BY <2>3 DEF Infer, InferFails, Accept, Retry, GiveUp, Finish, pageVars, vars
    <3> QED
      BY <3>1 DEF NoTextLost
  <2> QED
    BY <2>1, <2>2, <2>3 DEF Next
<1>3. Inv => NoTextLost
  OBVIOUS
<1> QED
  BY <1>1, <1>2, <1>3, PTL DEF Spec

-----------------------------------------------------------------------------
(* Answers: the walk of the repair and the parser, over their prefixes.    *)

\* A loop that stays in A.
Stays(step, A, E) == \A a \in A, e \in E : step[a][e] \in A

\* What the loop has made of start after each element of s.
Unrolled(step, start, s, A) ==
  /\ Iterate(step, start, SubSeq(s, 1, 0)) = start
  /\ \A k \in 0 .. Len(s) : Iterate(step, start, SubSeq(s, 1, k)) \in A
  /\ \A k \in 1 .. Len(s) : Iterate(step, start, SubSeq(s, 1, k)) =
       step[Iterate(step, start, SubSeq(s, 1, k - 1))][s[k]]

\* A prefix and the one before it.
LEMMA PrefixOneMore ==
  ASSUME NEW S, NEW s \in Seq(S), NEW k \in 1 .. Len(s)
  PROVE  SubSeq(s, 1, k) = Append(SubSeq(s, 1, k - 1), s[k])
<1>1. k \in Nat /\ Len(s) \in Nat /\ k - 1 \in Nat /\ s[k] \in S
  OBVIOUS
<1> DEFINE p == SubSeq(s, 1, k)
           q == Append(SubSeq(s, 1, k - 1), s[k])
<1>2. p \in Seq(S) /\ Len(p) = k /\ \A i \in 1 .. k : p[i] = s[i]
  OBVIOUS
<1>3. q \in Seq(S) /\ Len(q) = k
  BY <1>1
<1>4. \A i \in 1 .. k : q[i] = s[i]
  BY <1>1
<1> HIDE DEF p, q
<1>5. p = [i \in 1 .. k |-> p[i]] /\ q = [i \in 1 .. k |-> q[i]]
  BY <1>2, <1>3
<1>6. p = q
  BY <1>2, <1>4, <1>5
<1> QED
  BY <1>6 DEF p, q

\* A loop over longer and longer prefixes of a sequence.
LEMMA PrefixSteps ==
  ASSUME NEW A, NEW E, NEW s \in Seq(E), NEW step, NEW start \in A,
         Stays(step, A, E)
  PROVE  Unrolled(step, start, s, A)
<1>1. ASSUME NEW k \in 0 .. Len(s) PROVE SubSeq(s, 1, k) \in Seq(E)
  OBVIOUS
<1>2. ASSUME NEW k \in 1 .. Len(s)
      PROVE  SubSeq(s, 1, k) = Append(SubSeq(s, 1, k - 1), s[k]) /\ s[k] \in E
  BY PrefixOneMore
<1>3. SubSeq(s, 1, 0) = <<>>
  OBVIOUS
<1>4. Iterate(step, start, <<>>) = start
  BY IterateEmpty
<1>5. ASSUME NEW k \in 0 .. Len(s) PROVE Iterate(step, start, SubSeq(s, 1, k)) \in A
  <2> DEFINE p == SubSeq(s, 1, k)
  <2>1. p \in Seq(E)
    BY <1>1
  <2> HIDE DEF p
  <2>2. Iterate(step, start, p) \in A
    BY <2>1, IterateKeeps DEF Stays
  <2> QED
    BY <2>2 DEF p
<1>6. ASSUME NEW k \in 1 .. Len(s)
      PROVE  Iterate(step, start, SubSeq(s, 1, k)) =
               step[Iterate(step, start, SubSeq(s, 1, k - 1))][s[k]]
  <2> DEFINE p == SubSeq(s, 1, k - 1)
             e == s[k]
  <2>1. p \in Seq(E) /\ e \in E /\ SubSeq(s, 1, k) = Append(p, e)
    BY <1>1, <1>2, k - 1 \in 0 .. Len(s)
  <2> HIDE DEF p, e
  <2>2. Iterate(step, start, Append(p, e)) = step[Iterate(step, start, p)][e]
    BY <2>1, IterateAppend DEF Stays
  <2> QED
    BY <2>1, <2>2 DEF p, e
<1> QED
  BY <1>3, <1>4, <1>5, <1>6 DEF Unrolled

LEMMA WalkType ==
  ASSUME NEW w \in Walks, NEW t \in Tokens PROVE Walk(w, t) \in Walks
<1>1. /\ w.escaped \in BOOLEAN /\ w.inString \in BOOLEAN
      /\ w.stack \in Seq(Closers) /\ w.depth \in Int
  BY DEF Walks
<1>2. CASE w.escaped
  BY <1>1, <1>2 DEF Walk, Walks, Quiet
<1>3. CASE ~w.escaped /\ w.inString
  BY <1>1, <1>3 DEF Walk, Walks, Quiet
<1>4. CASE Quiet(w) /\ t \in Openers
  <2>1. Walk(w, t) = Outside(Append(w.stack, CloserOf(t)), w.depth + 1)
    BY <1>4 DEF Walk, Quiet, Openers, Closers
  <2>2. Append(w.stack, CloserOf(t)) \in Seq(Closers)
    <3>1. CloserOf(t) \in Closers
      BY DEF CloserOf, Closers
    <3> QED
      BY <1>1, <3>1
  <2> QED
    BY <1>1, <2>1, <2>2 DEF Outside, Walks
<1>5. CASE Quiet(w) /\ t \in Closers
  <2> DEFINE left == IF w.stack # <<>> /\ Last(w.stack) = t THEN Front(w.stack)
                                                            ELSE w.stack
  <2>1. Walk(w, t) = Outside(left, w.depth - 1)
    BY <1>5 DEF Walk, Quiet, Openers, Closers
  <2>2. left \in Seq(Closers)
    BY <1>1 DEF Front
  <2> QED
    BY <1>1, <2>1, <2>2 DEF Outside, Walks
<1>6. CASE Quiet(w) /\ t \notin Openers \union Closers
  BY <1>1, <1>6 DEF Walk, Walks, Quiet
<1> QED
  BY <1>2, <1>3, <1>4, <1>5, <1>6 DEF Quiet

\* The walk over s, one token at a time.
LEMMA AfterSteps ==
  ASSUME NEW s \in Seq(Tokens)
  PROVE  /\ After(s)[0] = Outside(<<>>, 0)
         /\ \A k \in 0 .. Len(s) : After(s)[k] \in Walks
         /\ \A k \in 1 .. Len(s) : After(s)[k] = Walk(After(s)[k - 1], s[k])
<1> DEFINE step == [st \in Walks |-> [t \in Tokens |-> Walk(st, t)]]
           start == Outside(<<>>, 0)
<1>1. /\ \A w \in Walks, t \in Tokens : step[w][t] = Walk(w, t)
      /\ Stays(step, Walks, Tokens)
  BY WalkType DEF Stays
<1>2. start \in Walks
  BY DEF Outside, Walks
<1>3. \A k \in 0 .. Len(s) : After(s)[k] = Iterate(step, start, SubSeq(s, 1, k))
  BY DEF After
<1>4. \A k \in 1 .. Len(s) : s[k] \in Tokens /\ k - 1 \in 0 .. Len(s) /\ k \in 0 .. Len(s)
  OBVIOUS
<1>5. 0 \in 0 .. Len(s)
  OBVIOUS
<1> HIDE DEF step, start
<1>6. Unrolled(step, start, s, Walks)
  BY <1>1, <1>2, PrefixSteps
<1>7. After(s)[0] = start /\ \A k \in 0 .. Len(s) : After(s)[k] \in Walks
  BY <1>3, <1>5, <1>6 DEF Unrolled
<1>8. ASSUME NEW k \in 1 .. Len(s) PROVE After(s)[k] = Walk(After(s)[k - 1], s[k])
  <2>1. After(s)[k] = step[After(s)[k - 1]][s[k]]
    BY <1>3, <1>4, <1>6 DEF Unrolled
  <2> QED
    BY <1>1, <1>4, <1>7, <2>1
<1> QED
  BY <1>7, <1>8 DEF start

LEMMA JsonType ==
  ASSUME NEW j \in Parses, NEW t \in Tokens PROVE JsonStep(j, t) \in Parses
<1>1. j.stack \in Seq(Closers) /\ j.want \in Wants
  BY DEF Parses
<1>2. /\ t \in Openers => Append(j.stack, CloserOf(t)) \in Seq(Closers)
      /\ Front(j.stack) \in Seq(Closers)
  <2>1. CloserOf(t) \in Closers
    BY DEF CloserOf, Closers
  <2>2. Front(j.stack) \in Seq(Closers)
    BY <1>1 DEF Front
  <2> QED
    BY <1>1, <2>1, <2>2
<1>3. /\ \A v \in Wants : [stack |-> j.stack, want |-> v] \in Parses
      /\ [stack |-> Front(j.stack), want |-> "more"] \in Parses
      /\ t \in Openers => [stack |-> Append(j.stack, CloserOf(t)),
                           want |-> IF t = "lbrace" THEN "member" ELSE "item"] \in Parses
  BY <1>1, <1>2 DEF Parses, Wants
<1> QED
  BY <1>3 DEF JsonStep, Wants

\* The state of the parser after k tokens of s.
Read(s, k) == Parse(SubSeq(s, 1, k))

LEMMA ReadSteps ==
  ASSUME NEW s \in Seq(Tokens)
  PROVE  /\ Read(s, 0) = [stack |-> <<>>, want |-> "value"]
         /\ Read(s, Len(s)) = Parse(s)
         /\ \A k \in 0 .. Len(s) : Read(s, k) \in Parses
         /\ \A k \in 1 .. Len(s) : Read(s, k) = JsonStep(Read(s, k - 1), s[k])
<1> DEFINE step == [st \in Parses |-> [t \in Tokens |-> JsonStep(st, t)]]
           start == [stack |-> <<>>, want |-> "value"]
<1>1. /\ \A w \in Parses, t \in Tokens : step[w][t] = JsonStep(w, t)
      /\ Stays(step, Parses, Tokens)
  BY JsonType DEF Stays
<1>2. start \in Parses
  BY DEF Parses, Wants
<1>3. \A k \in 0 .. Len(s) : Read(s, k) = Iterate(step, start, SubSeq(s, 1, k))
  BY DEF Read, Parse
<1>4. \A k \in 1 .. Len(s) : s[k] \in Tokens /\ k - 1 \in 0 .. Len(s) /\ k \in 0 .. Len(s)
  OBVIOUS
<1>5. 0 \in 0 .. Len(s) /\ SubSeq(s, 1, Len(s)) = s
  OBVIOUS
<1> HIDE DEF step, start
<1>6. Unrolled(step, start, s, Parses)
  BY <1>1, <1>2, PrefixSteps
<1>7. Read(s, 0) = start /\ \A k \in 0 .. Len(s) : Read(s, k) \in Parses
  BY <1>3, <1>5, <1>6 DEF Unrolled
<1>8. ASSUME NEW k \in 1 .. Len(s) PROVE Read(s, k) = JsonStep(Read(s, k - 1), s[k])
  <2>1. Read(s, k) = step[Read(s, k - 1)][s[k]]
    BY <1>3, <1>4, <1>6 DEF Unrolled
  <2> QED
    BY <1>1, <1>4, <1>7, <2>1
<1>9. Read(s, Len(s)) = Parse(s)
  BY <1>5 DEF Read
<1> QED
  BY <1>7, <1>8, <1>9 DEF start

\* Texts that begin alike are read alike.
LEMMA AlikeSoFar ==
  ASSUME NEW s \in Seq(Tokens), NEW u \in Seq(Tokens), NEW n \in Nat,
         n <= Len(s), n <= Len(u), \A k \in 1 .. n : s[k] = u[k]
  PROVE  \A k \in 0 .. n : After(s)[k] = After(u)[k] /\ Read(s, k) = Read(u, k)
<1> TAKE k \in 0 .. n
<1> DEFINE p == SubSeq(s, 1, k)
           q == SubSeq(u, 1, k)
<1>1. p = q
  <2>1. p = [i \in 1 .. k |-> s[i]] /\ q = [i \in 1 .. k |-> u[i]]
    OBVIOUS
  <2>2. \A i \in 1 .. k : s[i] = u[i]
    OBVIOUS
  <2> QED
    BY <2>1, <2>2
<1>2. k \in 0 .. Len(s) /\ k \in 0 .. Len(u)
  OBVIOUS
<1> QED
  BY <1>1, <1>2 DEF After, Read

LEMMA AfterStep ==
  ASSUME NEW s \in Seq(Tokens), NEW k \in 1 .. Len(s)
  PROVE  /\ After(s)[k] = Walk(After(s)[k - 1], s[k]) /\ s[k] \in Tokens
         /\ After(s)[k] \in Walks /\ After(s)[k - 1] \in Walks
<1>1. k - 1 \in 0 .. Len(s) /\ k \in 0 .. Len(s) /\ s[k] \in Tokens
  OBVIOUS
<1> QED
  BY <1>1, AfterSteps

LEMMA ReadStep ==
  ASSUME NEW s \in Seq(Tokens), NEW k \in 1 .. Len(s)
  PROVE  /\ Read(s, k) = JsonStep(Read(s, k - 1), s[k]) /\ s[k] \in Tokens
         /\ Read(s, k) \in Parses /\ Read(s, k - 1) \in Parses
<1>1. k - 1 \in 0 .. Len(s) /\ k \in 0 .. Len(s) /\ s[k] \in Tokens
  OBVIOUS
<1> QED
  BY <1>1, ReadSteps

LEMMA ReadEnds ==
  ASSUME NEW s \in Seq(Tokens)
  PROVE  Read(s, 0) = [stack |-> <<>>, want |-> "value"] /\ Read(s, Len(s)) = Parse(s)
BY ReadSteps

-----------------------------------------------------------------------------
(* Where the text is JSON so far, the walk and the parser agree.           *)

\* The parser is inside a string, and after a backslash in one.
Inside == {"keyText", "keyEscape", "text", "escape"}
Escaping == {"keyEscape", "escape"}

\* A walk and the parser see the same brackets and the same strings.
Agree(w, j) ==
  /\ w.stack = j.stack /\ w.depth = Len(j.stack)
  /\ w.inString <=> j.want \in Inside
  /\ w.escaped <=> j.want \in Escaping

LEMMA ParseFacts ==
  ASSUME NEW j \in Parses
  PROVE  /\ j = [stack |-> j.stack, want |-> j.want]
         /\ j.stack \in Seq(Closers) /\ j.want \in Wants /\ Len(j.stack) \in Nat
         /\ j.stack # <<>> => Last(j.stack) \in Closers
BY DEF Parses, Last

\* What a step of the parser may do to the brackets.
LEMMA JsonMoves ==
  ASSUME NEW j \in Parses, NEW t \in Tokens, JsonStep(j, t).want # "bad"
  PROVE  \/ /\ j.want \in {"value", "item"} /\ t \in Openers
            /\ JsonStep(j, t) = [stack |-> Append(j.stack, CloserOf(t)),
                                 want |-> IF t = "lbrace" THEN "member" ELSE "item"]
         \/ /\ j.want \in {"more", "item", "member"} /\ t \in Closers
            /\ j.stack # <<>> /\ Last(j.stack) = t
            /\ JsonStep(j, t) = [stack |-> Front(j.stack), want |-> "more"]
         \/ /\ j.want \in Inside \/ t \notin Openers \union Closers
            /\ JsonStep(j, t).stack = j.stack
            /\ JsonStep(j, t).want \in Inside <=>
                 IF t = "'" THEN j.want \notin Inside \/ j.want \in Escaping
                            ELSE j.want \in Inside
            /\ JsonStep(j, t).want \in Escaping <=>
                 t = "\\" /\ j.want \in Inside \ Escaping
            /\ t = "comma" /\ j.want \notin Inside =>
                 j.want = "more" /\ JsonStep(j, t).want \in {"key", "value"}
<1> DEFINE i == JsonStep(j, t)
<1>1. "" \notin Closers /\ j.want \in Wants
  BY ParseFacts DEF Closers
<1>2. CASE j.want \in Inside
  <2>1. i.stack = j.stack
    BY <1>2 DEF JsonStep, Inside, Openers, Closers
  <2>2. /\ i.want \in Inside <=> (t = "'" => j.want \in Escaping)
        /\ i.want \in Escaping <=> t = "\\" /\ j.want \in Inside \ Escaping
    BY <1>2 DEF JsonStep, Inside, Escaping, Openers, Closers
  <2> HIDE DEF i
  <2> QED
    BY <1>2, <2>1, <2>2 DEF i
<1>3. CASE t \in Openers /\ j.want \notin Inside
  <2>1. j.want \in {"value", "item"}
    BY <1>1, <1>3 DEF JsonStep, Wants, Inside, Openers, Closers
  <2>2. i = [stack |-> Append(j.stack, CloserOf(t)),
             want |-> IF t = "lbrace" THEN "member" ELSE "item"]
    BY <1>3, <2>1 DEF JsonStep, Openers, Closers
  <2> HIDE DEF i
  <2> QED
    BY <1>3, <2>1, <2>2 DEF i
<1>4. CASE t \in Closers /\ j.want \notin Inside
  <2>1. j.want \in {"more", "item", "member"} /\ j.stack # <<>> /\ Last(j.stack) = t
    BY <1>1, <1>4 DEF JsonStep, Wants, Inside, Openers, Closers
  <2>2. i = [stack |-> Front(j.stack), want |-> "more"]
    BY <1>4, <2>1 DEF JsonStep, Openers, Closers
  <2> HIDE DEF i
  <2> QED
    BY <1>4, <2>1, <2>2 DEF i
<1>5. CASE t \notin Openers \union Closers /\ j.want \notin Inside
  <2>1. i.stack = j.stack
    BY <1>5 DEF JsonStep, Inside, Openers, Closers
  <2>2. /\ i.want \in Inside <=> t = "'"
        /\ i.want \notin Escaping
        /\ t = "comma" => j.want = "more" /\ i.want \in {"key", "value"}
    BY <1>1, <1>5 DEF JsonStep, Inside, Escaping, Openers, Closers, Wants
  <2>3. j.want \notin Escaping
    BY <1>5 DEF Inside, Escaping
  <2> HIDE DEF i
  <2> QED
    BY <1>5, <2>1, <2>2, <2>3 DEF i
<1> QED
  BY <1>2, <1>3, <1>4, <1>5
LEMMA BadStays ==
  ASSUME NEW j \in Parses, NEW t \in Tokens, j.want = "bad"
  PROVE  JsonStep(j, t).want = "bad"
BY DEF JsonStep

\* Nothing follows a value.
LEMMA NothingFollows ==
  ASSUME NEW j \in Parses, NEW t \in Tokens, j.want = "more", j.stack = <<>>
  PROVE  JsonStep(j, t).want = "bad"
BY DEF JsonStep, Closers

LEMMA AgreeStep ==
  ASSUME NEW w \in Walks, NEW j \in Parses, NEW t \in Tokens, Agree(w, j),
         JsonStep(j, t).want # "bad"
  PROVE  Agree(Walk(w, t), JsonStep(j, t))
<1> DEFINE i == JsonStep(j, t)
<1>1. /\ w.escaped \in BOOLEAN /\ w.inString \in BOOLEAN
      /\ w.stack = j.stack /\ w.stack \in Seq(Closers) /\ w.depth = Len(w.stack)
      /\ w.inString <=> j.want \in Inside
      /\ w.escaped <=> j.want \in Escaping
      /\ w.escaped => w.inString
  BY DEF Agree, Walks, Escaping, Inside
<1>2. CASE /\ j.want \in {"value", "item"} /\ t \in Openers
           /\ i = [stack |-> Append(j.stack, CloserOf(t)),
                   want |-> IF t = "lbrace" THEN "member" ELSE "item"]
  <2>1. Quiet(w)
    BY <1>1, <1>2 DEF Quiet, Inside, Escaping
  <2>2. Walk(w, t) = Outside(Append(w.stack, CloserOf(t)), w.depth + 1)
    BY <1>2, <2>1 DEF Walk, Quiet, Openers, Closers
  <2>3. CloserOf(t) \in Closers
    BY DEF CloserOf, Closers
  <2>4. Len(Append(w.stack, CloserOf(t))) = w.depth + 1
    BY <1>1, <2>3
  <2> HIDE DEF i
  <2>5. i.want \notin Inside /\ i.want \notin Escaping
        /\ i.stack = Append(w.stack, CloserOf(t))
    BY <1>1, <1>2 DEF Inside, Escaping
  <2> QED
    BY <2>2, <2>4, <2>5 DEF Agree, Outside, i
<1>3. CASE /\ j.want \in {"more", "item", "member"} /\ t \in Closers
           /\ j.stack # <<>> /\ Last(j.stack) = t
           /\ i = [stack |-> Front(j.stack), want |-> "more"]
  <2>1. Quiet(w)
    BY <1>1, <1>3 DEF Quiet, Inside, Escaping
  <2>2. Walk(w, t) = Outside(Front(w.stack), w.depth - 1)
    BY <1>1, <1>3, <2>1 DEF Walk, Quiet, Openers, Closers
  <2>3. Len(Front(w.stack)) = w.depth - 1
    BY <1>1, <1>3 DEF Front
  <2>4. i.want \notin Inside /\ i.want \notin Escaping /\ i.stack = Front(w.stack)
    BY <1>1, <1>3 DEF Inside, Escaping
  <2> HIDE DEF i
  <2> QED
    BY <2>2, <2>3, <2>4 DEF Agree, Outside, i
<1>4. CASE /\ j.want \in Inside \/ t \notin Openers \union Closers
           /\ i.stack = j.stack
           /\ i.want \in Inside <=>
                IF t = "'" THEN j.want \notin Inside \/ j.want \in Escaping
                           ELSE j.want \in Inside
           /\ i.want \in Escaping <=> t = "\\" /\ j.want \in Inside \ Escaping
  <2> HIDE DEF i
  <2>1. Walk(w, t).stack = w.stack /\ Walk(w, t).depth = w.depth
    BY <1>1, <1>4 DEF Walk, Walks, Quiet
  <2>2. Walk(w, t).inString <=> i.want \in Inside
    BY <1>1, <1>4 DEF Walk, Walks, Quiet
  <2>3. Walk(w, t).escaped <=> i.want \in Escaping
    BY <1>1, <1>4 DEF Walk, Walks, Quiet
  <2> QED
    BY <1>1, <1>4, <2>1, <2>2, <2>3 DEF Agree, i
<1> QED
  BY <1>2, <1>3, <1>4, JsonMoves

\* A JSON object.
Object(o) == o \in Seq(Tokens) /\ Len(o) >= 2 /\ o[1] = "lbrace" /\ IsJSON(o)

LEMMA ObjectFacts ==
  ASSUME NEW o, Object(o)
  PROVE  /\ o \in Seq(Tokens) /\ Len(o) \in Nat /\ Len(o) >= 2 /\ o[1] = "lbrace"
         /\ Parse(o) = [stack |-> <<>>, want |-> "more"]
<1>1. o \in Seq(Tokens) /\ Len(o) >= 2 /\ o[1] = "lbrace" /\ IsJSON(o)
  BY Zenon DEF Object
<1>2. Len(o) \in Nat
  BY <1>1
<1>3. Parse(o) = [stack |-> <<>>, want |-> "more"]
  BY <1>1, Zenon DEF IsJSON
<1> QED
  BY <1>1, <1>2, <1>3

LEMMA NeverBad ==
  ASSUME NEW o, Object(o) PROVE \A k \in 0 .. Len(o) : Read(o, k).want # "bad"
<1> DEFINE n == Len(o)
           P == {i \in Nat : i <= n => Read(o, n - i).want # "bad"}
<1>1. o \in Seq(Tokens) /\ n \in Nat
  BY ObjectFacts
<1>2. 0 \in P
  <2>1. Read(o, n) = [stack |-> <<>>, want |-> "more"]
    BY <1>1, ReadEnds, ObjectFacts
  <2>2. n - 0 = n
    BY <1>1
  <2> QED
    BY <2>1, <2>2
<1>3. ASSUME NEW i \in P PROVE i + 1 \in P
  <2> SUFFICES ASSUME i + 1 <= n PROVE Read(o, n - (i + 1)).want # "bad"
    OBVIOUS
  <2> DEFINE k == n - i
  <2>1. k \in 1 .. Len(o) /\ n - (i + 1) = k - 1 /\ k - 1 \in 0 .. Len(o)
    BY <1>1
  <2>2. Read(o, k).want # "bad"
    BY <1>1, <2>1
  <2>3. /\ Read(o, k) = JsonStep(Read(o, k - 1), o[k]) /\ Read(o, k - 1) \in Parses
        /\ o[k] \in Tokens
    <3> HIDE DEF k, n, P
    <3> QED
      BY <1>1, <2>1, ReadStep
  <2> QED
    BY <2>1, <2>2, <2>3, BadStays
<1>4. P = Nat
  <2>1. P \in SUBSET Nat
    OBVIOUS
  <2> HIDE DEF P
  <2> QED
    BY <1>2, <1>3, <2>1, NatInductionSet
<1>5. ASSUME NEW k \in 0 .. n PROVE Read(o, k).want # "bad"
  <2>1. n - k \in Nat /\ n - k <= n /\ n - (n - k) = k
    BY <1>1
  <2>2. n - k \in P
    BY <1>4, <2>1
  <2> QED
    BY <2>1, <2>2
<1> QED
  BY <1>5

\* The walk agrees with the parser as long as what is read may become JSON.
LEMMA AgreeSoFar ==
  ASSUME NEW s \in Seq(Tokens), NEW n \in 0 .. Len(s),
         \A k \in 0 .. n : Read(s, k).want # "bad"
  PROVE  \A k \in 0 .. n : Agree(After(s)[k], Read(s, k))
<1> DEFINE P == {k \in Nat : k <= n => Agree(After(s)[k], Read(s, k))}
<1>1. 0 \in P
  BY AfterSteps, ReadSteps DEF Agree, Outside, Inside, Escaping
<1>2. ASSUME NEW k \in P PROVE k + 1 \in P
  <2> SUFFICES ASSUME k + 1 <= n PROVE Agree(After(s)[k + 1], Read(s, k + 1))
    OBVIOUS
  <2>1. k + 1 \in 1 .. Len(s) /\ k \in 0 .. Len(s) /\ (k + 1) - 1 = k /\ k + 1 \in 0 .. n
    OBVIOUS
  <2>2. Agree(After(s)[k], Read(s, k))
    BY <2>1
  <2>3. After(s)[k + 1] = Walk(After(s)[k], s[k + 1]) /\ After(s)[k] \in Walks
    BY <2>1, AfterSteps
  <2>4. Read(s, k + 1) = JsonStep(Read(s, k), s[k + 1]) /\ Read(s, k) \in Parses
    BY <2>1, ReadSteps
  <2>5. s[k + 1] \in Tokens
    BY <2>1
  <2> QED
    BY <2>1, <2>2, <2>3, <2>4, <2>5, AgreeStep
<1>3. P = Nat
  <2>1. P \in SUBSET Nat
    OBVIOUS
  <2> HIDE DEF P
  <2> QED
    BY <1>1, <1>2, <2>1, NatInductionSet
<1>4. ASSUME NEW k \in 0 .. n PROVE Agree(After(s)[k], Read(s, k))
  <2>1. k \in P
    BY <1>3
  <2> QED
    BY <2>1
<1> QED
  BY <1>4

\* Before its end, an object has brackets open.
LEMMA OpenBefore ==
  ASSUME NEW o, Object(o), NEW k \in 1 .. Len(o) - 1
  PROVE  Read(o, k).stack # <<>>
<1> DEFINE n == Len(o)
           P == {i \in Nat : i \in 1 .. n /\ Read(o, i).stack = <<>> =>
                                Read(o, i).want = "more"}
<1>1. o \in Seq(Tokens) /\ n \in Nat /\ n >= 2
  BY ObjectFacts
<1>2. Read(o, 1).stack # <<>>
  <2>1. 1 \in 1 .. Len(o) /\ 1 - 1 = 0 /\ 1 \in 0 .. Len(o)
    BY <1>1
  <2>2. /\ Read(o, 1) = JsonStep(Read(o, 0), o[1]) /\ Read(o, 0) \in Parses
        /\ Read(o, 0) = [stack |-> <<>>, want |-> "value"]
        /\ o[1] = "lbrace" /\ Read(o, 1).want # "bad"
    BY <1>1, <2>1, ReadStep, ReadEnds, NeverBad, ObjectFacts
  <2>3. o[1] \in Openers /\ o[1] \in Tokens
    BY <2>2 DEF Openers, Tokens
  <2>4. JsonStep(Read(o, 0), o[1]).stack = Append(<<>>, CloserOf(o[1]))
    <3> DEFINE j == Read(o, 0)
    <3>1. j \in Parses /\ j.want = "value" /\ j.stack = <<>>
          /\ JsonStep(j, o[1]).want # "bad"
      BY <2>2
    <3> HIDE DEF j
    <3>2. JsonStep(j, o[1]).stack = Append(j.stack, CloserOf(o[1]))
      BY <2>3, <3>1, JsonMoves DEF Inside, Openers, Closers
    <3> QED
      BY <3>1, <3>2 DEF j
  <2>5. Append(<<>>, CloserOf(o[1])) # <<>>
    BY DEF CloserOf
  <2> QED
    BY <2>2, <2>4, <2>5, Zenon
<1>3. 0 \in P
  OBVIOUS
<1>4. ASSUME NEW i \in 1 .. n, i + 1 <= n, i \in P PROVE Read(o, i).stack # <<>>
  <2> SUFFICES ASSUME Read(o, i).stack = <<>> PROVE FALSE
    OBVIOUS
  <2>1. Read(o, i).want = "more"
    BY <1>4
  <2>2. Read(o, i) \in Parses /\ Read(o, i + 1) = JsonStep(Read(o, i), o[i + 1])
        /\ o[i + 1] \in Tokens
    <3>1. i + 1 \in 1 .. Len(o) /\ (i + 1) - 1 = i /\ i \in 0 .. Len(o)
      BY <1>1, <1>4
    <3> QED
      BY <1>1, <3>1, ReadSteps
  <2>3. Read(o, i + 1).want = "bad"
    BY <2>1, <2>2, NothingFollows
  <2>4. i + 1 \in 0 .. Len(o)
    BY <1>1, <1>4
  <2> QED
    BY <2>3, <2>4, NeverBad
<1>5. ASSUME NEW i \in P PROVE i + 1 \in P
  <2> SUFFICES ASSUME i + 1 <= n, Read(o, i + 1).stack = <<>>
               PROVE  Read(o, i + 1).want = "more"
    OBVIOUS
  <2>1. i # 0
    BY <1>2
  <2>2. Read(o, i).stack # <<>>
    BY <1>4, <2>1
  <2>3. i + 1 \in 1 .. Len(o) /\ (i + 1) - 1 = i /\ i \in 0 .. Len(o)
        /\ i + 1 \in 0 .. Len(o)
    BY <1>1
  <2>4. /\ Read(o, i) \in Parses /\ Read(o, i + 1) = JsonStep(Read(o, i), o[i + 1])
        /\ o[i + 1] \in Tokens
    BY <1>1, <2>3, ReadSteps
  <2>5. Read(o, i + 1).want # "bad"
    BY <2>3, NeverBad
  <2>6. /\ Append(Read(o, i).stack, CloserOf(o[i + 1])) # <<>>
    <3>1. Read(o, i).stack \in Seq(Closers) /\ CloserOf(o[i + 1]) \in Closers
      BY <2>4, ParseFacts DEF CloserOf, Closers
    <3> QED
      BY <3>1
  <2> QED
    <3> DEFINE j == Read(o, i)
               t == o[i + 1]
    <3>1. j \in Parses /\ t \in Tokens /\ JsonStep(j, t).want # "bad"
          /\ JsonStep(j, t).stack = <<>> /\ j.stack # <<>>
          /\ Append(j.stack, CloserOf(t)) # <<>> /\ Read(o, i + 1) = JsonStep(j, t)
      BY <2>2, <2>4, <2>5, <2>6
    <3> HIDE DEF j, t
    <3>2. JsonStep(j, t) = [stack |-> Front(j.stack), want |-> "more"]
      BY <3>1, JsonMoves
    <3> QED
      BY <3>1, <3>2
<1>6. P = Nat
  <2>1. P \in SUBSET Nat
    OBVIOUS
  <2> HIDE DEF P
  <2> QED
    BY <1>3, <1>5, <2>1, NatInductionSet
<1> HIDE DEF P
<1>7. k \in 1 .. n /\ k + 1 <= n /\ k \in P
  BY <1>1, <1>6
<1> QED
  BY <1>4, <1>7

\* The last token of an object closes its last bracket.
LEMMA ObjectCloses ==
  ASSUME NEW o, Object(o)
  PROVE  /\ o[Len(o)] \in Closers /\ Quiet(After(o)[Len(o) - 1])
         /\ After(o)[Len(o)].depth = 0
<1> DEFINE n == Len(o)
           j == Read(o, n - 1)
<1>1. o \in Seq(Tokens) /\ n \in Nat /\ n >= 2
  BY ObjectFacts
<1>2. n \in 1 .. Len(o) /\ n - 1 \in 1 .. Len(o) - 1 /\ n - 1 \in 0 .. Len(o)
      /\ n \in 0 .. Len(o)
  BY <1>1
<1>3. j.stack # <<>>
  BY <1>2, OpenBefore
<1>4. /\ j \in Parses /\ o[n] \in Tokens /\ Read(o, n) = JsonStep(j, o[n])
      /\ Read(o, n) = [stack |-> <<>>, want |-> "more"]
  BY <1>1, <1>2, ReadStep, ReadEnds, ObjectFacts
<1>5. Agree(After(o)[n - 1], j) /\ Agree(After(o)[n], Read(o, n))
  <2>1. \A k \in 0 .. n : Read(o, k).want # "bad"
    BY NeverBad
  <2>2. n \in 0 .. Len(o)
    BY <1>2
  <2> HIDE DEF n
  <2>3. \A k \in 0 .. n : Agree(After(o)[k], Read(o, k))
    BY <1>1, <2>1, <2>2, AgreeSoFar
  <2> QED
    BY <1>1, <2>3 DEF n
<1> HIDE DEF n, j
<1>6. Append(j.stack, CloserOf(o[n])) # <<>>
  <2>1. j.stack \in Seq(Closers) /\ CloserOf(o[n]) \in Closers
    BY <1>4, ParseFacts DEF CloserOf, Closers
  <2> QED
    BY <2>1
<1>7. j.want \in {"more", "item", "member"} /\ o[n] \in Closers
  <2> DEFINE t == o[n]
  <2>1. j \in Parses /\ t \in Tokens /\ JsonStep(j, t).want # "bad"
        /\ JsonStep(j, t).stack = <<>> /\ j.stack # <<>>
        /\ Append(j.stack, CloserOf(t)) # <<>>
    BY <1>3, <1>4, <1>6
  <2> HIDE DEF t
  <2>2. j.want \in {"more", "item", "member"} /\ t \in Closers
    BY <2>1, JsonMoves
  <2> QED
    BY <2>2 DEF t
<1>8. j.want \notin Inside /\ j.want \notin Escaping
  BY <1>7 DEF Inside, Escaping
<1>9. Quiet(After(o)[n - 1]) /\ After(o)[n].depth = 0
  BY <1>4, <1>5, <1>8 DEF Agree, Quiet
<1> QED
  BY <1>7, <1>9 DEF n

-----------------------------------------------------------------------------
(* Whole objects: their end is found and nothing is dropped.               *)

\* What the parser and the walk know after k tokens of an object.
LEMMA ObjectAgrees ==
  ASSUME NEW o, Object(o), NEW k \in 0 .. Len(o)
  PROVE  /\ Read(o, k).want # "bad" /\ Read(o, k) \in Parses
         /\ After(o)[k] \in Walks /\ Agree(After(o)[k], Read(o, k))
<1>1. o \in Seq(Tokens) /\ Len(o) \in 0 .. Len(o)
  BY ObjectFacts
<1>2. \A m \in 0 .. Len(o) : Read(o, m).want # "bad"
  BY NeverBad
<1>3. \A m \in 0 .. Len(o) : Agree(After(o)[m], Read(o, m))
  <2> DEFINE n == Len(o)
  <2>1. n \in 0 .. Len(o) /\ \A m \in 0 .. n : Read(o, m).want # "bad"
    BY <1>1, <1>2
  <2> HIDE DEF n
  <2>2. \A m \in 0 .. n : Agree(After(o)[m], Read(o, m))
    BY <1>1, <2>1, AgreeSoFar
  <2> QED
    BY <2>2 DEF n
<1> QED
  BY <1>1, <1>2, <1>3, AfterSteps, ReadSteps

LEMMA DeepBefore ==
  ASSUME NEW o, Object(o), NEW k \in 1 .. Len(o) - 1 PROVE After(o)[k].depth # 0
<1>1. k \in 0 .. Len(o)
  BY ObjectFacts
<1>2. Read(o, k).stack # <<>> /\ Read(o, k).stack \in Seq(Closers)
  BY <1>1, OpenBefore, ObjectAgrees, ParseFacts
<1>3. After(o)[k].depth = Len(Read(o, k).stack)
  BY <1>1, ObjectAgrees DEF Agree
<1> QED
  BY <1>2, <1>3

\* The places where a text may end the object it starts with.
Ends(s) == {k \in 1 .. Len(s) :
              s[k] \in Closers /\ Quiet(After(s)[k - 1]) /\ After(s)[k].depth = 0}

LEMMA EndsBefore ==
  ASSUME NEW o, Object(o), NEW s \in Seq(Tokens), NEW m \in Nat,
         m <= Len(s), m <= Len(o), \A i \in 1 .. m : s[i] = o[i]
  PROVE  \A k \in 1 .. m : k \in Ends(s) <=> k = Len(o)
<1>1. o \in Seq(Tokens) /\ Len(o) \in Nat /\ Len(s) \in Nat
  BY ObjectFacts
<1>2. \A i \in 0 .. m : After(s)[i] = After(o)[i]
  BY <1>1, AlikeSoFar
<1>3. ASSUME NEW k \in 1 .. m PROVE k \in Ends(s) <=> k = Len(o)
  <2>1. /\ k \in 1 .. Len(s) /\ s[k] = o[k] /\ k - 1 \in 0 .. m /\ k \in 0 .. m
        /\ k # Len(o) => k \in 1 .. Len(o) - 1
    BY <1>1
  <2>2. After(s)[k] = After(o)[k] /\ After(s)[k - 1] = After(o)[k - 1]
    BY <1>2, <2>1
  <2>3. CASE k = Len(o)
    BY <2>1, <2>2, <2>3, ObjectCloses DEF Ends
  <2>4. CASE k # Len(o)
    BY <2>1, <2>2, <2>4, DeepBefore DEF Ends
  <2> QED
    BY <2>3, <2>4
<1> QED
  BY <1>3

\* A text that starts with an object has its end found.
LEMMA EndFound ==
  ASSUME NEW o, Object(o), NEW s \in Seq(Tokens), Len(o) <= Len(s),
         \A i \in 1 .. Len(o) : s[i] = o[i]
  PROVE  ObjectEnd(s) = Len(o)
<1> DEFINE n == Len(o)
<1>1. n \in Nat /\ n >= 2 /\ Len(s) \in Nat
  BY ObjectFacts
<1>2. \A k \in 1 .. n : k \in Ends(s) <=> k = n
  BY <1>1, EndsBefore
<1>3. n \in Ends(s) /\ \A k \in Ends(s) : n <= k
  <2>1. \A k \in Ends(s) : k \in 1 .. Len(s)
    BY DEF Ends
  <2> QED
    BY <1>1, <1>2, <2>1
<1>4. ObjectEnd(s) = IF Ends(s) = {} THEN 0
                     ELSE CHOOSE k \in Ends(s) : \A i \in Ends(s) : k <= i
  BY DEF ObjectEnd, Ends
<1>5. \A k \in Ends(s) : k \in Nat
  BY <1>1 DEF Ends
<1> HIDE DEF n
<1>6. (CHOOSE k \in Ends(s) : \A i \in Ends(s) : k <= i) = n
  BY <1>1, <1>3, <1>5
<1> QED
  BY <1>3, <1>4, <1>6 DEF n

\* A part of one that starts with it has none.
LEMMA NoEnd ==
  ASSUME NEW o, Object(o), NEW m \in 1 .. Len(o) - 1
  PROVE  ObjectEnd(SubSeq(o, 1, m)) = 0
<1> DEFINE p == SubSeq(o, 1, m)
<1>1. o \in Seq(Tokens) /\ Len(o) \in Nat
  BY ObjectFacts
<1>2. p \in Seq(Tokens) /\ Len(p) = m /\ (\A i \in 1 .. m : p[i] = o[i]) /\ m \in Nat
      /\ m <= Len(o)
  BY <1>1
<1> HIDE DEF p
<1>3. \A k \in 1 .. m : k \in Ends(p) <=> k = Len(o)
  BY <1>2, EndsBefore
<1>4. Ends(p) = {}
  BY <1>1, <1>2, <1>3 DEF Ends
<1> QED
  BY <1>4 DEF ObjectEnd, Ends, p

\* What Without has kept of the first k tokens.
Kept(s, dropped, k) ==
  Iterate([r \in Seq(Tokens) |-> [i \in Nat |->
             IF i \in dropped THEN r ELSE Append(r, s[i])]],
          <<>>, SubSeq([i \in 1 .. Len(s) |-> i], 1, k))

LEMMA KeptSteps ==
  ASSUME NEW s \in Seq(Tokens), NEW D
  PROVE  /\ Kept(s, D, 0) = <<>> /\ Kept(s, D, Len(s)) = Without(s, D)
         /\ \A k \in 0 .. Len(s) : Kept(s, D, k) \in Seq(Tokens)
         /\ \A k \in 1 .. Len(s) : Kept(s, D, k) =
              IF k \in D THEN Kept(s, D, k - 1) ELSE Append(Kept(s, D, k - 1), s[k])
<1> DEFINE step == [r \in Seq(Tokens) |-> [i \in Nat |->
                      IF i \in D THEN r ELSE Append(r, s[i])]]
           all == [i \in 1 .. Len(s) |-> i]
           E == 1 .. Len(s)
           A == Seq(Tokens)
<1>1. all \in Seq(E) /\ Len(all) = Len(s) /\ \A k \in 1 .. Len(s) : all[k] = k
  OBVIOUS
<1>2. \A r \in A, k \in E : step[r][k] = IF k \in D THEN r ELSE Append(r, s[k])
  OBVIOUS
<1>3. \A r \in A, k \in E : step[r][k] \in A
  <2> SUFFICES ASSUME NEW r \in A, NEW k \in E PROVE step[r][k] \in A
    OBVIOUS
  <2>1. step[r][k] = IF k \in D THEN r ELSE Append(r, s[k])
    BY <1>2
  <2>2. s[k] \in Tokens /\ Append(r, s[k]) \in A
    OBVIOUS
  <2> HIDE DEF step
  <2> QED
    BY <2>1, <2>2
<1>4. <<>> \in A
  OBVIOUS
<1>5. \A k : Kept(s, D, k) = Iterate(step, <<>>, SubSeq(all, 1, k))
  BY DEF Kept
<1>6. Without(s, D) = Iterate(step, <<>>, all)
  BY DEF Without
<1>7. SubSeq(all, 1, Len(s)) = all
  OBVIOUS
<1>8. Len(s) \in Nat /\ E = 1 .. Len(s)
  OBVIOUS
<1> DEFINE start == <<>>
<1>9. start \in A /\ Stays(step, A, E)
  BY <1>3, <1>4 DEF Stays
<1> HIDE DEF step, all, A, E, start
<1>10. Unrolled(step, start, all, A)
  BY <1>1, <1>9, PrefixSteps
<1>11. /\ Kept(s, D, 0) = <<>> /\ Kept(s, D, Len(s)) = Without(s, D)
       /\ \A k \in 0 .. Len(s) : Kept(s, D, k) \in A
  BY <1>1, <1>5, <1>6, <1>7, <1>10 DEF Unrolled, start
<1>12. ASSUME NEW k \in 1 .. Len(s)
       PROVE  Kept(s, D, k) = IF k \in D THEN Kept(s, D, k - 1)
                                        ELSE Append(Kept(s, D, k - 1), s[k])
  <2>1. Kept(s, D, k) = step[Kept(s, D, k - 1)][k]
    BY <1>1, <1>5, <1>10 DEF Unrolled, start
  <2>2. Kept(s, D, k - 1) \in A /\ k \in E
    BY <1>8, <1>11, k - 1 \in 0 .. Len(s)
  <2> QED
    BY <1>2, <2>1, <2>2
<1> QED
  BY <1>11, <1>12 DEF A

LEMMA KeptStep ==
  ASSUME NEW s \in Seq(Tokens), NEW D, NEW k \in 1 .. Len(s)
  PROVE  /\ k \in D => Kept(s, D, k) = Kept(s, D, k - 1)
         /\ k \notin D => Kept(s, D, k) = Append(Kept(s, D, k - 1), s[k])
         /\ Kept(s, D, k - 1) \in Seq(Tokens) /\ Kept(s, D, k) \in Seq(Tokens)
<1>1. k - 1 \in 0 .. Len(s) /\ k \in 0 .. Len(s)
  OBVIOUS
<1>2. \A i \in 1 .. Len(s) : Kept(s, D, i) =
        IF i \in D THEN Kept(s, D, i - 1) ELSE Append(Kept(s, D, i - 1), s[i])
  BY KeptSteps, Zenon
<1>3. \A i \in 0 .. Len(s) : Kept(s, D, i) \in Seq(Tokens)
  BY KeptSteps, Zenon
<1> QED
  BY <1>1, <1>2, <1>3, Zenon

\* As long as nothing is dropped, everything is kept.
LEMMA KeptAll ==
  ASSUME NEW s \in Seq(Tokens), NEW D, NEW m \in 0 .. Len(s), \A k \in 1 .. m : k \notin D
  PROVE  Kept(s, D, m) = SubSeq(s, 1, m)
<1> DEFINE P == {k \in Nat : k <= m => Kept(s, D, k) = SubSeq(s, 1, k)}
<1>1. 0 \in P
  BY KeptSteps
<1>2. ASSUME NEW k \in P PROVE k + 1 \in P
  <2> SUFFICES ASSUME k + 1 <= m PROVE Kept(s, D, k + 1) = SubSeq(s, 1, k + 1)
    OBVIOUS
  <2>1. k + 1 \in 1 .. Len(s) /\ k + 1 \in 1 .. m /\ (k + 1) - 1 = k
    OBVIOUS
  <2>2. Kept(s, D, k + 1) = Append(SubSeq(s, 1, k), s[k + 1])
    <3>1. Kept(s, D, k) = SubSeq(s, 1, k) /\ k + 1 \notin D
      BY <2>1
    <3> DEFINE i == k + 1
    <3>2. i \in 1 .. Len(s) /\ i \notin D /\ i - 1 = k
      BY <2>1, <3>1
    <3> HIDE DEF i
    <3>3. Kept(s, D, i) = Append(Kept(s, D, k), s[i])
      BY <3>2, KeptStep
    <3> QED
      BY <3>1, <3>3 DEF i
  <2>3. SubSeq(s, 1, k + 1) = Append(SubSeq(s, 1, k), s[k + 1])
    <3> DEFINE i == k + 1
    <3>1. i \in 1 .. Len(s) /\ i - 1 = k
      BY <2>1
    <3> HIDE DEF i
    <3>2. SubSeq(s, 1, i) = Append(SubSeq(s, 1, i - 1), s[i])
      BY <3>1, PrefixOneMore
    <3> QED
      BY <3>1, <3>2 DEF i
  <2> QED
    BY <2>2, <2>3
<1>3. P = Nat
  <2>1. P \in SUBSET Nat
    OBVIOUS
  <2> HIDE DEF P
  <2> QED
    BY <1>1, <1>2, <2>1, NatInductionSet
<1>4. m \in P
  BY <1>3
<1> QED
  BY <1>4

LEMMA WithoutNothing ==
  ASSUME NEW s \in Seq(Tokens), NEW D, \A k \in 1 .. Len(s) : k \notin D
  PROVE  Without(s, D) = s
<1>1. Len(s) \in 0 .. Len(s) /\ SubSeq(s, 1, Len(s)) = s
  OBVIOUS
<1>2. Kept(s, D, Len(s)) = SubSeq(s, 1, Len(s))
  <2> DEFINE n == Len(s)
  <2>1. n \in 0 .. Len(s) /\ \A k \in 1 .. n : k \notin D
    BY <1>1
  <2> HIDE DEF n
  <2>2. Kept(s, D, n) = SubSeq(s, 1, n)
    BY <2>1, KeptAll
  <2> QED
    BY <2>2 DEF n
<1> QED
  BY <1>1, <1>2, KeptSteps

\* In an object, a comma outside strings comes after a value and before another.
LEMMA AfterComma ==
  ASSUME NEW o, Object(o), NEW k \in 1 .. Len(o) - 1,
         o[k] = "comma", Quiet(After(o)[k - 1])
  PROVE  /\ o[k + 1] \notin Closers
         /\ Read(o, k - 1).want = "more" /\ Read(o, k).want \in {"key", "value"}
         /\ Read(o, k).stack = Read(o, k - 1).stack
<1>1. /\ o \in Seq(Tokens) /\ k \in 1 .. Len(o) /\ k + 1 \in 1 .. Len(o)
      /\ (k + 1) - 1 = k
      /\ k \in 0 .. Len(o) /\ k - 1 \in 0 .. Len(o) /\ k + 1 \in 0 .. Len(o)
  BY ObjectFacts
<1> DEFINE h == Read(o, k - 1)
           j == Read(o, k)
           t == o[k + 1]
<1>2. /\ h \in Parses /\ j \in Parses /\ j = JsonStep(h, "comma") /\ "comma" \in Tokens
      /\ j.want # "bad"
  BY <1>1, ReadStep, ObjectAgrees
<1>3. JsonStep(j, t).want # "bad" /\ t \in Tokens
  BY <1>1, ReadStep, ObjectAgrees
<1>4. h.want \notin Inside
  BY <1>1, ObjectAgrees DEF Agree, Quiet
<1> HIDE DEF h, j, t
<1>5. h.want = "more" /\ j.want \in {"key", "value"} /\ j.stack = h.stack
  <2>1. "comma" \notin Openers \union Closers /\ "comma" # "'"
        /\ JsonStep(h, "comma").want # "bad"
    BY <1>2 DEF Openers, Closers
  <2> QED
    BY <1>2, <1>4, <2>1, JsonMoves
<1>6. t \notin Closers
  <2>1. j.want \notin Inside /\ j.want \notin {"more", "item", "member"}
        /\ Openers \cap Closers = {}
    BY <1>5 DEF Inside, Openers, Closers
  <2> QED
    BY <1>2, <1>3, <2>1, JsonMoves
<1> QED
  BY <1>5, <1>6 DEF h, j, t

\* The places of the commas stripTrailingCommas drops.
Trailing(s) == {k \in 1 .. Len(s) : /\ s[k] = "comma" /\ Quiet(After(s)[k - 1])
                                    /\ k < Len(s) /\ s[k + 1] \in Closers}

\* An object has no trailing commas.
LEMMA StripObject ==
  ASSUME NEW o, Object(o) PROVE stripTrailingCommas(o) = o
<1>1. o \in Seq(Tokens) /\ Len(o) \in Nat
  BY ObjectFacts
<1>2. \A k \in 1 .. Len(o) : k \notin Trailing(o)
  <2> SUFFICES ASSUME NEW k \in 1 .. Len(o), k \in Trailing(o) PROVE FALSE
    OBVIOUS
  <2>1. k \in 1 .. Len(o) - 1
    BY <1>1 DEF Trailing
  <2>2. o[k] = "comma" /\ Quiet(After(o)[k - 1]) /\ o[k + 1] \in Closers
    BY DEF Trailing
  <2> QED
    BY <2>1, <2>2, AfterComma
<1>3. Without(o, Trailing(o)) = o
  BY <1>1, <1>2, WithoutNothing
<1> QED
  BY <1>3 DEF stripTrailingCommas, Trailing

\* What the repair makes of a text from its first brace on.
Repaired(rest) ==
  LET end       == ObjectEnd(rest)
      candidate == IF end # 0 THEN SubSeq(rest, 1, end) ELSE repairTruncated(rest)
      cleaned   == stripTrailingCommas(candidate)
      none      == [json |-> <<>>, repaired |-> FALSE, ok |-> FALSE]
  IN  IF ~ IsJSON(cleaned) THEN none
      ELSE [json |-> cleaned, repaired |-> end = 0 \/ cleaned # candidate,
            ok |-> TRUE]

LEMMA LeastChosen ==
  ASSUME NEW V \in SUBSET Nat, NEW i \in V, \A m \in V : i <= m
  PROVE  (CHOOSE k \in V : \A m \in V : k <= m) = i
<1> DEFINE c == CHOOSE k \in V : \A m \in V : k <= m
<1>1. c \in V /\ \A m \in V : c <= m
  OBVIOUS
<1>2. c <= i /\ i <= c /\ c \in Nat /\ i \in Nat
  BY <1>1
<1> HIDE DEF c
<1>3. c = i
  BY <1>2
<1> QED
  BY <1>3 DEF c

LEMMA FromFirstBrace ==
  ASSUME NEW s \in Seq(Tokens), NEW i \in 1 .. Len(s), s[i] = "lbrace",
         \A k \in 1 .. Len(s) : s[k] = "lbrace" => i <= k
  PROVE  extractAndRepairJSON(s) = Repaired(SubSeq(s, i, Len(s)))
<1> DEFINE opens == {k \in 1 .. Len(s) : s[k] = "lbrace"}
           start == CHOOSE k \in opens : \A m \in opens : k <= m
<1>1. i \in opens /\ i \in Nat /\ \A m \in opens : i <= m
  OBVIOUS
<1>0. \A m \in opens : m \in Nat
  OBVIOUS
<1>2. start = i
  <2> HIDE DEF opens
  <2>1. (CHOOSE k \in opens : \A m \in opens : k <= m) = i
    <3>1. opens \in SUBSET Nat
      BY <1>0
    <3> QED
      BY <1>1, <3>1, LeastChosen
  <2> QED
    BY <2>1
<1>3. opens # {}
  BY <1>1
<1> HIDE DEF start
<1>4. start = CHOOSE k \in opens : \A m \in opens : k <= m
  BY DEF start
<1> HIDE DEF opens
<1>5. extractAndRepairJSON(s) = Repaired(SubSeq(s, start, Len(s)))
  BY <1>3, <1>4 DEF extractAndRepairJSON, Repaired, opens
<1> QED
  BY <1>2, <1>5

\* A whole object in a fence is returned as it is.
LEMMA WholeRepaired ==
  ASSUME NEW o, Object(o)
  PROVE  extractAndRepairJSON(<<"x">> \o o \o <<"x", "rbrace">>) =
           [json |-> o, repaired |-> FALSE, ok |-> TRUE]
<1> DEFINE s == <<"x">> \o o \o <<"x", "rbrace">>
           rest == SubSeq(s, 2, Len(s))
           n == Len(o)
<1>1. o \in Seq(Tokens) /\ n \in Nat /\ n >= 2 /\ o[1] = "lbrace"
  BY ObjectFacts
<1>2. <<"x">> \in Seq(Tokens) /\ <<"x", "rbrace">> \in Seq(Tokens)
  BY DEF Tokens, Closers
<1>3. /\ s \in Seq(Tokens) /\ Len(s) = n + 3 /\ s[1] = "x"
      /\ \A k \in 1 .. n : s[k + 1] = o[k]
  <2> DEFINE a == <<"x">> \o o
             b == <<"x", "rbrace">>
  <2>1. a \in Seq(Tokens) /\ Len(a) = n + 1 /\ a[1] = "x"
        /\ \A k \in 1 .. n : a[k + 1] = o[k]
    BY <1>1, <1>2
  <2>2. b \in Seq(Tokens) /\ Len(b) = 2
    BY <1>2
  <2> HIDE DEF a, b
  <2>3. a \o b \in Seq(Tokens) /\ Len(a \o b) = n + 3
        /\ \A k \in 1 .. n + 1 : (a \o b)[k] = a[k]
    <3> HIDE DEF n
    <3>1. a \o b \in Seq(Tokens) /\ Len(a \o b) = Len(a) + Len(b)
      BY <2>1, <2>2, Concat
    <3>2. \A k \in 1 .. Len(a) : (a \o b)[k] = a[k]
      <4>1. \A s1, s2 \in Seq(Tokens) : \A k \in 1 .. Len(s1) : (s1 \o s2)[k] = s1[k]
        BY Concat
      <4> QED
        BY <2>1, <2>2, <4>1, Zenon
    <3> QED
      BY <1>1, <2>1, <2>2, <3>1, <3>2
  <2>4. (a \o b)[1] = "x" /\ \A k \in 1 .. n : (a \o b)[k + 1] = o[k]
    BY <1>1, <2>1, <2>3
  <2> QED
    BY <2>3, <2>4 DEF a, b
<1> HIDE DEF s
<1>4. /\ rest \in Seq(Tokens) /\ Len(rest) = n + 2
      /\ \A k \in 1 .. n : rest[k] = o[k]
  BY <1>1, <1>3
<1>5. extractAndRepairJSON(s) = Repaired(rest)
  <2>1. 2 \in 1 .. Len(s) /\ s[2] = "lbrace"
    BY <1>1, <1>3, 1 \in 1 .. n
  <2>2. \A k \in 1 .. Len(s) : s[k] = "lbrace" => 2 <= k
    BY <1>3
  <2> QED
    BY <1>3, <2>1, <2>2, FromFirstBrace
<1>6. SubSeq(rest, 1, n) = o
  <2> HIDE DEF rest, n
  <2>1. SubSeq(rest, 1, n) = [k \in 1 .. n |-> rest[k]]
    BY <1>1, <1>4
  <2>2. o = [k \in 1 .. n |-> o[k]]
    BY <1>1 DEF n
  <2> QED
    BY <1>4, <2>1, <2>2
<1> HIDE DEF rest
<1>7. ObjectEnd(rest) = n
  BY <1>1, <1>4, EndFound
<1>8. stripTrailingCommas(o) = o /\ IsJSON(o)
  BY StripObject DEF Object
<1> HIDE DEF n
<1>9. Repaired(rest) = [json |-> o, repaired |-> FALSE, ok |-> TRUE]
  <2>1. n # 0
    BY <1>1
  <2> QED
    BY <2>1, <1>6, <1>7, <1>8, Zenon DEF Repaired
<1> QED
  BY <1>5, <1>9 DEF s

-----------------------------------------------------------------------------
(* Truncated objects: what closing them can make whole.                    *)

\* What may be closed, and what no bracket ends.
Closable == {"more", "item", "member"}
Lost == {"bad", "text", "keyText", "colon", "value", "key"}

LEMMA CloseStep ==
  ASSUME NEW j \in Parses, j.want \in Closable, j.stack # <<>>
  PROVE  JsonStep(j, Last(j.stack)) = [stack |-> Front(j.stack), want |-> "more"]
<1>1. Last(j.stack) \in Closers
  BY ParseFacts
<1> DEFINE t == Last(j.stack)
<1>2. t \in Closers /\ t = Last(j.stack)
  BY <1>1
<1> HIDE DEF t
<1>3. JsonStep(j, t) = [stack |-> Front(j.stack), want |-> "more"]
  BY <1>2 DEF JsonStep, Closable, Openers, Closers
<1> QED
  BY <1>3 DEF t

LEMMA LostStep ==
  ASSUME NEW j \in Parses, NEW t \in Closers, j.want \in Lost
  PROVE  JsonStep(j, t).want \in Lost
BY DEF JsonStep, Lost, Openers, Closers

LEMMA Reversed ==
  ASSUME NEW S, NEW s \in Seq(S)
  PROVE  /\ Reverse(s) \in Seq(S) /\ Len(Reverse(s)) = Len(s) /\ Len(s) \in Nat
         /\ \A i \in 1 .. Len(s) : Reverse(s)[i] = s[Len(s) - i + 1]
BY DEF Reverse

\* u and the closers of the brackets it leaves open.
Closed(u) == u \o Reverse(Parse(u).stack)

LEMMA ClosedFacts ==
  ASSUME NEW u \in Seq(Tokens)
  PROVE  LET stack == Parse(u).stack
             n     == Len(u)
         IN  /\ Parse(u) \in Parses /\ stack \in Seq(Closers) /\ n \in Nat
             /\ Len(stack) \in Nat
             /\ Closed(u) \in Seq(Tokens) /\ Len(Closed(u)) = n + Len(stack)
             /\ \A i \in 1 .. n : Closed(u)[i] = u[i]
             /\ \A i \in 1 .. Len(stack) : /\ Closed(u)[n + i] = stack[Len(stack) - i + 1]
                                           /\ Closed(u)[n + i] \in Closers
             /\ Read(Closed(u), n) = Parse(u)
<1> DEFINE stack == Parse(u).stack
           n     == Len(u)
           r == Reverse(stack)
           c == u \o r
<1>1. Parse(u) \in Parses /\ n \in Nat
  <2>1. n \in Nat /\ n \in 0 .. Len(u)
    OBVIOUS
  <2> QED
    BY <2>1, ReadSteps, ReadEnds
<1>2. stack \in Seq(Closers) /\ Len(stack) \in Nat
  BY <1>1, ParseFacts
<1> HIDE DEF stack
<1>3. /\ r \in Seq(Closers) /\ Len(r) = Len(stack)
      /\ \A i \in 1 .. Len(stack) : r[i] = stack[Len(stack) - i + 1]
  BY <1>2, Reversed
<1>4. \A i \in 1 .. Len(stack) : r[i] \in Closers
  BY <1>3
<1> HIDE DEF r
<1>5. r \in Seq(Tokens)
  <2>1. Closers \subseteq Tokens
    BY DEF Tokens
  <2> QED
    BY <1>3, <2>1
<1>6. /\ c \in Seq(Tokens) /\ Len(c) = n + Len(stack)
      /\ \A i \in 1 .. n : c[i] = u[i]
      /\ \A i \in 1 .. Len(stack) : c[i + n] = r[i]
  <2>1. /\ c \in Seq(Tokens) /\ Len(c) = Len(u) + Len(r)
        /\ \A i \in 1 .. Len(u) : c[i] = u[i]
        /\ \A i \in 1 .. Len(r) : c[i + Len(u)] = r[i]
    BY <1>5, Concat
  <2> HIDE DEF c
  <2> QED
    BY <1>3, <2>1
<1>7. Closed(u) = c
  BY DEF Closed, c, r, stack
<1> HIDE DEF c
<1>8. Read(c, n) = Parse(u)
  <2>1. n <= Len(c) /\ n <= Len(u) /\ n \in 0 .. n
    BY <1>1, <1>2, <1>6
  <2>2. Read(c, n) = Read(u, n)
    BY <1>1, <1>6, <2>1, AlikeSoFar
  <2> QED
    BY <2>2, ReadEnds
<1>9. \A i \in 1 .. Len(stack) : n + i = i + n
  BY <1>1, <1>2
<1> QED
  BY <1>1, <1>2, <1>3, <1>4, <1>6, <1>7, <1>8, <1>9 DEF stack

\* Closing brackets makes a text JSON when nothing else is missing.
LEMMA ClosingWorks ==
  ASSUME NEW u \in Seq(Tokens), Parse(u).want \in Closable, Parse(u).stack # <<>>
  PROVE  IsJSON(Closed(u))
<1> DEFINE stack == Parse(u).stack
           n == Len(u)
           d == Len(stack)
           c == Closed(u)
           Right(i) == /\ Read(c, n + i).stack = SubSeq(stack, 1, d - i)
                       /\ Read(c, n + i).want \in Closable
                       /\ i > 0 => Read(c, n + i).want = "more"
           P == {i \in Nat : i <= d => Right(i)}
<1>1. /\ Parse(u) \in Parses /\ stack \in Seq(Closers) /\ n \in Nat /\ d \in Nat
      /\ c \in Seq(Tokens) /\ Len(c) = n + d
      /\ \A i \in 1 .. d : c[n + i] = stack[d - i + 1]
      /\ Read(c, n) = Parse(u)
  BY ClosedFacts
<1>2. stack # <<>> /\ Parse(u).want \in Closable
  OBVIOUS
<1> HIDE DEF c, stack, d, n
<1>3. d >= 1
  BY <1>1, <1>2 DEF d
<1>4. Right(0)
  <2>1. n + 0 = n /\ SubSeq(stack, 1, d - 0) = stack
    BY <1>1 DEF d
  <2> QED
    BY <1>1, <1>2, <2>1 DEF stack
<1>5. ASSUME NEW i \in Nat, i + 1 <= d, Right(i) PROVE Right(i + 1)
  <2> DEFINE j == Read(c, n + i)
             k == n + i + 1
  <2>1. k \in 1 .. Len(c) /\ k - 1 = n + i /\ n + (i + 1) = k /\ i + 1 \in 1 .. d
    BY <1>1, <1>5
  <2>2. j \in Parses /\ Read(c, k) = JsonStep(j, c[k])
    BY <1>1, <2>1, ReadStep
  <2>3. j.stack = SubSeq(stack, 1, d - i) /\ j.want \in Closable
    BY <1>5
  <2>4. /\ Len(j.stack) = d - i /\ j.stack # <<>> /\ Last(j.stack) = stack[d - i]
        /\ Front(j.stack) = SubSeq(stack, 1, d - (i + 1))
    <3>1. d - i \in Nat /\ d - i >= 1 /\ d - i <= Len(stack) /\ d - i - 1 = d - (i + 1)
      BY <1>1, <1>5 DEF d
    <3> DEFINE e == d - i
    <3>2. e \in 1 .. Len(stack) /\ j.stack = SubSeq(stack, 1, e) /\ e - 1 = d - (i + 1)
      BY <2>3, <3>1
    <3> HIDE DEF e, j
    <3> DEFINE v == SubSeq(stack, 1, e)
    <3>6. v \in Seq(Closers) /\ Len(v) = e /\ v[e] = stack[e] /\ e >= 1
      BY <1>1, <3>2
    <3> HIDE DEF v
    <3>7. Len(v) = e /\ v # <<>> /\ Last(v) = stack[e]
      BY <3>6 DEF Last
    <3>3. Len(j.stack) = e /\ j.stack # <<>> /\ Last(j.stack) = stack[e]
      BY <3>2, <3>7 DEF v
    <3>4. SubSeq(SubSeq(stack, 1, e), 1, e - 1) = SubSeq(stack, 1, e - 1)
      BY <1>1, <3>2
    <3>5. Front(j.stack) = SubSeq(stack, 1, e - 1)
      BY <3>2, <3>3, <3>4 DEF Front
    <3> QED
      BY <3>2, <3>3, <3>5 DEF e
  <2>5. c[k] = Last(j.stack)
    <3> DEFINE e == i + 1
    <3>1. e \in 1 .. d /\ n + e = k
      BY <2>1
    <3>2. d - e + 1 = d - i
      BY <1>1
    <3> HIDE DEF e
    <3>3. c[n + e] = stack[d - e + 1]
      BY <1>1, <3>1
    <3> QED
      BY <2>4, <3>1, <3>2, <3>3
  <2> HIDE DEF j, k
  <2>6. Read(c, k) = [stack |-> SubSeq(stack, 1, d - (i + 1)), want |-> "more"]
    BY <2>2, <2>3, <2>4, <2>5, CloseStep
  <2> QED
    BY <2>1, <2>6 DEF Closable
<1>6. P = Nat
  <2> HIDE DEF Right
  <2>1. P \in SUBSET Nat /\ 0 \in P
    BY <1>4
  <2>2. ASSUME NEW i \in P PROVE i + 1 \in P
    <3>1. i \in Nat
      OBVIOUS
    <3>2. i + 1 <= d => i <= d
      BY <1>1, <3>1
    <3> QED
      BY <1>5, <3>1, <3>2
  <2> HIDE DEF P
  <2> QED
    BY <2>1, <2>2, NatInductionSet
<1>7. Right(d)
  <2>1. d \in P
    BY <1>1, <1>6
  <2> HIDE DEF Right
  <2> QED
    BY <1>1, <2>1
<1>8. Read(c, Len(c)).stack = <<>> /\ Read(c, Len(c)).want = "more"
  <2>1. SubSeq(stack, 1, d - d) = <<>>
    BY <1>1
  <2>2. d > 0 /\ Len(c) = n + d
    BY <1>1, <1>3
  <2>3. Read(c, n + d).stack = SubSeq(stack, 1, d - d) /\ Read(c, n + d).want = "more"
    BY <1>7, <2>2
  <2> QED
    BY <2>1, <2>2, <2>3
<1>9. Parse(c) \in Parses /\ Parse(c) = Read(c, Len(c))
  <2>1. Len(c) \in 0 .. Len(c)
    BY <1>1
  <2> QED
    BY <1>1, <2>1, ReadSteps, ReadEnds
<1>10. Parse(c) = [stack |-> <<>>, want |-> "more"]
  BY <1>8, <1>9, ParseFacts
<1> QED
  BY <1>10, Zenon DEF IsJSON, c

\* Nor does it otherwise.
LEMMA ClosingFails ==
  ASSUME NEW u \in Seq(Tokens), Parse(u).want \in Lost
  PROVE  ~ IsJSON(Closed(u))
<1> DEFINE stack == Parse(u).stack
           n == Len(u)
           d == Len(stack)
           c == Closed(u)
           P == {i \in Nat : i <= d => Read(c, n + i).want \in Lost}
<1>1. /\ n \in Nat /\ d \in Nat
      /\ c \in Seq(Tokens) /\ Len(c) = n + d
      /\ \A i \in 1 .. d : c[n + i] \in Closers
      /\ Read(c, n) = Parse(u)
  BY ClosedFacts
<1> HIDE DEF c, stack, d, n
<1>2. 0 \in P
  <2>1. n + 0 = n
    BY <1>1
  <2> QED
    BY <1>1, <2>1
<1>3. ASSUME NEW i \in P PROVE i + 1 \in P
  <2> SUFFICES ASSUME i + 1 <= d PROVE Read(c, n + (i + 1)).want \in Lost
    OBVIOUS
  <2> DEFINE k == n + i + 1
  <2>1. k \in 1 .. Len(c) /\ k - 1 = n + i /\ n + (i + 1) = k /\ i + 1 \in 1 .. d
    BY <1>1
  <2>2. Read(c, n + i) \in Parses /\ Read(c, k) = JsonStep(Read(c, n + i), c[k])
    BY <1>1, <2>1, ReadStep
  <2>3. Read(c, n + i).want \in Lost /\ c[k] \in Closers
    BY <1>1, <2>1
  <2> HIDE DEF k
  <2> QED
    BY <2>1, <2>2, <2>3, LostStep
<1>4. P = Nat
  <2>1. P \in SUBSET Nat
    OBVIOUS
  <2> HIDE DEF P
  <2> QED
    BY <1>2, <1>3, <2>1, NatInductionSet
<1>5. Read(c, Len(c)).want \in Lost
  <2>1. d \in P
    BY <1>1, <1>4
  <2> QED
    BY <1>1, <2>1
<1>6. Parse(c).want # "more"
  BY <1>1, <1>5, ReadEnds DEF Lost
<1>7. Parse(c) # [stack |-> <<>>, want |-> "more"]
  BY <1>6
<1> QED
  BY <1>7, Zenon DEF IsJSON, c

\* The first m tokens of o, with the string they end in closed.
Begun(o, m) == SubSeq(o, 1, m)
Quoted(o, m) == IF After(o)[m].inString THEN Append(Begun(o, m), "'") ELSE Begun(o, m)

LEMMA BegunFacts ==
  ASSUME NEW o, Object(o), NEW m \in 0 .. Len(o)
  PROVE  /\ Begun(o, m) \in Seq(Tokens) /\ Len(Begun(o, m)) = m /\ m \in Nat
         /\ \A i \in 1 .. m : Begun(o, m)[i] = o[i]
         /\ \A i \in 0 .. m : After(Begun(o, m))[i] = After(o)[i]
         /\ Parse(Begun(o, m)) = Read(o, m)
<1>1. o \in Seq(Tokens) /\ Len(o) \in Nat
  BY ObjectFacts
<1> DEFINE p == Begun(o, m)
<1>2. /\ p \in Seq(Tokens) /\ Len(p) = m /\ m \in Nat /\ m <= Len(o)
      /\ \A i \in 1 .. m : p[i] = o[i]
  BY <1>1 DEF Begun
<1>3. Parse(p) = Read(o, m)
  BY DEF Read, Begun
<1> HIDE DEF p
<1>4. \A i \in 0 .. m : After(p)[i] = After(o)[i]
  BY <1>1, <1>2, AlikeSoFar
<1> QED
  BY <1>2, <1>3, <1>4 DEF p

\* A quote ends a string, and leaves the brackets.
LEMMA QuoteStep ==
  ASSUME NEW j \in Parses, j.want \in Inside
  PROVE  /\ JsonStep(j, "'").stack = j.stack
         /\ j.want = "text" => JsonStep(j, "'").want = "more"
         /\ j.want # "text" => JsonStep(j, "'").want \in Lost
BY DEF JsonStep, Inside, Lost

LEMMA QuotedFacts ==
  ASSUME NEW o, Object(o), NEW m \in 1 .. Len(o) - 1
  PROVE  LET j == Read(o, m)
             u == Quoted(o, m)
         IN  /\ u \in Seq(Tokens) /\ m \in Nat /\ m <= Len(u)
             /\ Len(u) = IF j.want \in Inside THEN m + 1 ELSE m
             /\ \A i \in 1 .. m : u[i] = o[i]
             /\ j.want \in Inside => u[m + 1] = "'"
             /\ Parse(u).stack = j.stack
             /\ j.want \notin Inside => Parse(u) = j
             /\ j.want \in Inside =>
                  IF j.want = "text" THEN Parse(u).want = "more"
                                     ELSE Parse(u).want \in Lost
<1> DEFINE p == Begun(o, m)
           j == Read(o, m)
           u == Quoted(o, m)
<1>1. m \in 0 .. Len(o)
  BY ObjectFacts
<1>2. /\ p \in Seq(Tokens) /\ Len(p) = m /\ m \in Nat
      /\ \A i \in 1 .. m : p[i] = o[i]
      /\ Parse(p) = j /\ j \in Parses
      /\ After(o)[m].inString <=> j.want \in Inside
  BY <1>1, BegunFacts, ObjectAgrees DEF Agree
<1>3. u = IF j.want \in Inside THEN Append(p, "'") ELSE p
  BY <1>2 DEF Quoted
<1> HIDE DEF p, j, u
<1>4. CASE j.want \notin Inside
  BY <1>2, <1>3, <1>4 DEF j, u
<1>5. CASE j.want \in Inside
  <2>1. "'" \in Tokens
    BY DEF Tokens
  <2>2. /\ u \in Seq(Tokens) /\ Len(u) = m + 1 /\ u[m + 1] = "'"
        /\ \A i \in 1 .. m : u[i] = p[i]
    BY <1>2, <1>3, <1>5, <2>1
  <2>3. Parse(u) = JsonStep(j, "'")
    <3>1. m + 1 \in 1 .. Len(u) /\ (m + 1) - 1 = m /\ m <= Len(u) /\ m <= Len(p)
          /\ m \in 0 .. m
      BY <1>2, <2>2
    <3>2. Read(u, m + 1) = JsonStep(Read(u, m), u[m + 1])
      BY <2>2, <3>1, ReadStep
    <3>3. Read(u, m) = Read(p, m)
      BY <1>2, <2>2, <3>1, AlikeSoFar
    <3>4. Read(p, m) = j /\ Read(u, m + 1) = Parse(u)
      BY <1>2, <2>2, ReadEnds
    <3> QED
      BY <2>2, <3>2, <3>3, <3>4
  <2>4. /\ Parse(u).stack = j.stack
        /\ IF j.want = "text" THEN Parse(u).want = "more" ELSE Parse(u).want \in Lost
    BY <1>2, <1>5, <2>3, QuoteStep
  <2> QED
    BY <1>2, <1>5, <2>2, <2>4 DEF j, u
<1> QED
  BY <1>4, <1>5

\* The repair of an object that was cut closes its string and its brackets.
LEMMA CutClosed ==
  ASSUME NEW o, Object(o), NEW m \in 1 .. Len(o) - 1
  PROVE  repairTruncated(Begun(o, m)) = Closed(Quoted(o, m))
<1> DEFINE p == Begun(o, m)
           u == Quoted(o, m)
           w == After(o)[m]
           r == Reverse(w.stack)
<1>1. m \in 0 .. Len(o)
  BY ObjectFacts
<1>2. p \in Seq(Tokens) /\ Len(p) = m /\ After(p)[m] = w /\ w.stack = Read(o, m).stack
  BY <1>1, BegunFacts, ObjectAgrees DEF Agree
<1>3. repairTruncated(p) = p \o (IF w.inString THEN <<"'">> ELSE <<>>) \o r
  BY <1>2 DEF repairTruncated
<1>4. u = p \o (IF w.inString THEN <<"'">> ELSE <<>>)
  <2>1. p \o <<>> = p
    BY <1>2
  <2>2. p \o <<"'">> = Append(p, "'")
    <3>1. "'" \in Tokens
      BY DEF Tokens
    <3> HIDE DEF p
    <3> DEFINE e == "'"
    <3>2. e \in Tokens
      BY <3>1
    <3> HIDE DEF e
    <3>3. p \o <<e>> = Append(p, e)
      <4>1. /\ p \o <<e>> \in Seq(Tokens) /\ Len(p \o <<e>>) = Len(p) + 1
            /\ Append(p, e) \in Seq(Tokens) /\ Len(Append(p, e)) = Len(p) + 1
            /\ \A i \in 1 .. Len(p) + 1 : (p \o <<e>>)[i] = Append(p, e)[i]
        BY <1>2, <3>2
      <4> DEFINE x == p \o <<e>>
                 y == Append(p, e)
                 k == Len(p) + 1
      <4>2. x \in Seq(Tokens) /\ y \in Seq(Tokens) /\ Len(x) = k /\ Len(y) = k
            /\ \A i \in 1 .. k : x[i] = y[i]
        BY <4>1
      <4> HIDE DEF x, y, k
      <4>3. x = [i \in 1 .. k |-> x[i]] /\ y = [i \in 1 .. k |-> y[i]]
        BY <4>2
      <4>4. x = y
        BY <4>2, <4>3
      <4> QED
        BY <4>4 DEF x, y
    <3> QED
      BY <3>3 DEF e
  <2> QED
    BY <2>1, <2>2 DEF Quoted
<1>5. Parse(u).stack = w.stack
  BY <1>2, QuotedFacts
<1> HIDE DEF p, u, w
<1>6. repairTruncated(p) = u \o r
  BY <1>3, <1>4
<1> QED
  BY <1>5, <1>6 DEF Closed, p, u

\* A comma that separates values ends what is left.
EndsInComma(o, m) == o[m] = "comma" /\ Quiet(After(o)[m - 1])

LEMMA TrailingCut ==
  ASSUME NEW o, Object(o), NEW m \in 1 .. Len(o) - 1
  PROVE  \A k \in 1 .. Len(Closed(Quoted(o, m))) :
            k \in Trailing(Closed(Quoted(o, m))) <=> k = m /\ EndsInComma(o, m)
<1> DEFINE u == Quoted(o, m)
           c == Closed(u)
           j == Read(o, m)
           d == Len(j.stack)
<1>1. /\ u \in Seq(Tokens) /\ m \in Nat /\ m <= Len(u)
      /\ Len(u) = IF j.want \in Inside THEN m + 1 ELSE m
      /\ \A i \in 1 .. m : u[i] = o[i]
      /\ j.want \in Inside => u[m + 1] = "'"
      /\ Parse(u).stack = j.stack
  BY QuotedFacts
<1>2. /\ c \in Seq(Tokens) /\ Len(c) = Len(u) + d /\ d \in Nat /\ Len(u) \in Nat
      /\ \A i \in 1 .. Len(u) : c[i] = u[i]
      /\ \A i \in 1 .. d : c[Len(u) + i] \in Closers
  BY <1>1, ClosedFacts
<1>3. o \in Seq(Tokens) /\ Len(o) \in Nat /\ m <= Len(o) /\ m < Len(o)
      /\ m \in 0 .. Len(o)
  BY <1>1, ObjectFacts
<1>4. d >= 1
  <2>1. j.stack # <<>> /\ j.stack \in Seq(Closers)
    BY <1>3, OpenBefore, ObjectAgrees, ParseFacts
  <2> QED
    BY <2>1
<1> HIDE DEF c, u, j, d
<1>5. \A i \in 1 .. m : c[i] = o[i]
  <2> TAKE i \in 1 .. m
  <2>1. i \in 1 .. Len(u) /\ u[i] = o[i]
    BY <1>1, <1>2
  <2> QED
    BY <1>2, <2>1
<1>6. \A i \in 0 .. m : After(c)[i] = After(o)[i]
  <2>1. m <= Len(c)
    BY <1>1, <1>2
  <2> QED
    BY <1>1, <1>2, <1>3, <1>5, <2>1, AlikeSoFar
<1>7. ASSUME NEW k \in 1 .. Len(c), k < m PROVE k \notin Trailing(c)
  <2> SUFFICES ASSUME k \in Trailing(c) PROVE FALSE
    OBVIOUS
  <2>1. k \in 1 .. Len(o) - 1 /\ k \in 1 .. m /\ k + 1 \in 1 .. m /\ k - 1 \in 0 .. m
    BY <1>1, <1>3, <1>7
  <2>2. c[k] = "comma" /\ Quiet(After(c)[k - 1]) /\ c[k + 1] \in Closers
    BY DEF Trailing
  <2>3. o[k] = "comma" /\ Quiet(After(o)[k - 1]) /\ o[k + 1] \in Closers
    BY <1>5, <1>6, <2>1, <2>2
  <2> QED
    BY <2>1, <2>3, AfterComma
<1>8. ASSUME NEW k \in 1 .. Len(c), m < k PROVE k \notin Trailing(c)
  <2>1. "comma" \notin Closers /\ "comma" # "'"
    BY DEF Closers
  <2>2. CASE k <= Len(u)
    <3>1. k = m + 1 /\ j.want \in Inside /\ k \in 1 .. Len(u)
      BY <1>1, <1>2, <1>8, <2>2
    <3>2. c[k] = "'"
      BY <1>1, <1>2, <3>1
    <3> QED
      BY <2>1, <3>2 DEF Trailing
  <2>3. CASE k > Len(u)
    <3>1. k - Len(u) \in 1 .. d /\ Len(u) + (k - Len(u)) = k
      BY <1>2, <1>8, <2>3
    <3>2. c[k] \in Closers
      BY <1>2, <3>1
    <3> QED
      BY <2>1, <3>2 DEF Trailing
  <2> QED
    BY <1>1, <1>2, <2>2, <2>3
<1>9. m \in Trailing(c) <=> EndsInComma(o, m)
  <2>1. m \in 1 .. m /\ m \in 1 .. Len(c) /\ m - 1 \in 0 .. m /\ m < Len(c)
    <3>1. m < Len(c) /\ Len(c) \in Nat
      BY <1>1, <1>2, <1>4
    <3> QED
      BY <1>1, <3>1
  <2>2. m \in Trailing(c) => EndsInComma(o, m)
    BY <1>5, <1>6, <2>1 DEF Trailing, EndsInComma
  <2>3. ASSUME EndsInComma(o, m) PROVE m \in Trailing(c)
    <3>1. j.want \in {"key", "value"}
      BY <2>3, AfterComma DEF EndsInComma, j
    <3>2. Len(u) = m
      BY <1>1, <3>1 DEF Inside
    <3>3. c[m + 1] \in Closers
      BY <1>2, <1>4, <3>2, 1 \in 1 .. d
    <3> QED
      BY <1>5, <1>6, <2>1, <2>3, <3>3 DEF Trailing, EndsInComma
  <2> QED
    BY <2>2, <2>3
<1>10. \A k \in 1 .. Len(c) : k \in Trailing(c) <=> k = m /\ EndsInComma(o, m)
  <2> TAKE k \in 1 .. Len(c)
  <2>1. k < m \/ k = m \/ m < k
    BY <1>1, <1>2
  <2> QED
    BY <1>1, <1>7, <1>8, <1>9, <2>1
<1> QED
  BY <1>10 DEF c, u

LEMMA ClosedWith ==
  ASSUME NEW u \in Seq(Tokens), NEW stack, Parse(u).stack = stack
  PROVE  /\ Closed(u) \in Seq(Tokens) /\ Len(Closed(u)) = Len(u) + Len(stack)
         /\ Len(u) \in Nat /\ Len(stack) \in Nat
         /\ \A i \in 1 .. Len(u) : Closed(u)[i] = u[i]
         /\ \A i \in 1 .. Len(stack) : Closed(u)[Len(u) + i] = stack[Len(stack) - i + 1]
         /\ \A i \in 1 .. Len(stack) : Closed(u)[Len(u) + i] \in Closers
BY ClosedFacts

\* Without one of its tokens, those after it move up.
LEMMA WithoutOne ==
  ASSUME NEW s \in Seq(Tokens), NEW m \in 1 .. Len(s), NEW D,
         \A k \in 1 .. Len(s) : k \in D <=> k = m
  PROVE  Without(s, D) = [i \in 1 .. Len(s) - 1 |-> IF i < m THEN s[i] ELSE s[i + 1]]
<1> DEFINE Left(k) == [i \in 1 .. k - 1 |-> IF i < m THEN s[i] ELSE s[i + 1]]
           n == Len(s)
           P == {i \in Nat : m + i <= n => Kept(s, D, m + i) = Left(m + i)}
<1>1. n \in Nat /\ m \in Nat /\ m - 1 \in 0 .. Len(s) /\ m <= n
  OBVIOUS
<1>2. 0 \in P
  <2>1. \A k \in 1 .. m - 1 : k \notin D
    BY <1>1
  <2>2. Kept(s, D, m - 1) = SubSeq(s, 1, m - 1)
    <3> DEFINE h == m - 1
    <3>1. h \in 0 .. Len(s) /\ \A k \in 1 .. h : k \notin D
      BY <1>1, <2>1
    <3> HIDE DEF h
    <3>2. Kept(s, D, h) = SubSeq(s, 1, h)
      BY <3>1, KeptAll
    <3> QED
      BY <3>2 DEF h
  <2>3. Kept(s, D, m) = Kept(s, D, m - 1)
    BY KeptStep
  <2>4. SubSeq(s, 1, m - 1) = Left(m)
    <3>1. SubSeq(s, 1, m - 1) = [i \in 1 .. m - 1 |-> s[i]]
      BY <1>1
    <3>2. \A i \in 1 .. m - 1 : i < m
      BY <1>1
    <3> QED
      BY <3>1, <3>2
  <2>5. m + 0 = m
    BY <1>1
  <2> QED
    BY <2>2, <2>3, <2>4, <2>5
<1>3. ASSUME NEW i \in P PROVE i + 1 \in P
  <2> SUFFICES ASSUME m + (i + 1) <= n PROVE Kept(s, D, m + (i + 1)) = Left(m + (i + 1))
    OBVIOUS
  <2> DEFINE k == m + (i + 1)
  <2>1. k \in 1 .. Len(s) /\ k - 1 = m + i /\ k # m /\ k - 1 \in Nat /\ k - 1 >= m
        /\ k \in Nat
    BY <1>1
  <2>2. Kept(s, D, k - 1) = Left(k - 1)
    <3>1. i \in Nat /\ m + i <= n
      BY <1>1
    <3>2. Kept(s, D, m + i) = Left(m + i)
      BY <3>1
    <3> QED
      BY <2>1, <3>2
  <2> HIDE DEF Left, k
  <2>3. Kept(s, D, k) = Append(Left(k - 1), s[k]) /\ Left(k - 1) \in Seq(Tokens)
    BY <2>1, <2>2, KeptStep
  <2> DEFINE x == Append(Left(k - 1), s[k])
             e == k - 1
  <2>4. Len(Left(k - 1)) = k - 2 /\ \A h \in 1 .. k - 2 :
            Left(k - 1)[h] = IF h < m THEN s[h] ELSE s[h + 1]
    BY <1>1, <2>1 DEF Left
  <2>5. s[k] \in Tokens
    BY <2>1
  <2>6. x \in Seq(Tokens) /\ Len(x) = e /\ \A h \in 1 .. k - 2 : x[h] = Left(k - 1)[h]
    BY <2>1, <2>3, <2>4, <2>5
  <2>7. x[k - 1] = s[k] /\ (k - 1) + 1 = k /\ ~ (k - 1 < m)
    BY <1>1, <2>1, <2>3, <2>4, <2>5
  <2> HIDE DEF x
  <2>8. \A h \in 1 .. e : x[h] = IF h < m THEN s[h] ELSE s[h + 1]
    BY <1>1, <2>1, <2>4, <2>6, <2>7
  <2>9. x = [h \in 1 .. e |-> x[h]]
    BY <2>6
  <2>10. x = [h \in 1 .. e |-> IF h < m THEN s[h] ELSE s[h + 1]]
    BY <2>8, <2>9
  <2>11. x = Left(k)
    BY <2>10 DEF Left, e
  <2> QED
    BY <2>3, <2>11 DEF k, x
<1>4. P = Nat
  <2>1. P \in SUBSET Nat
    OBVIOUS
  <2> HIDE DEF P
  <2> QED
    BY <1>2, <1>3, <2>1, NatInductionSet
<1>5. Kept(s, D, n) = Left(n)
  <2>1. n - m \in Nat /\ m + (n - m) = n
    BY <1>1
  <2>2. n - m \in P
    BY <1>4, <2>1
  <2> HIDE DEF Left, n
  <2> QED
    BY <1>1, <2>1, <2>2
<1> QED
  BY <1>5, KeptSteps

\* The comma an object was cut at is dropped.
LEMMA CommaDropped ==
  ASSUME NEW o, Object(o), NEW m \in 1 .. Len(o) - 1, EndsInComma(o, m)
  PROVE  stripTrailingCommas(Closed(Quoted(o, m))) = Closed(Begun(o, m - 1))
<1> DEFINE u == Quoted(o, m)
           v == Begun(o, m - 1)
           c == Closed(u)
           a == Closed(v)
           j == Read(o, m)
           d == Len(j.stack)
<1>1. o \in Seq(Tokens) /\ Len(o) \in Nat /\ m \in 0 .. Len(o) /\ m - 1 \in 0 .. Len(o)
      /\ m \in Nat
      /\ m >= 1
  BY ObjectFacts
<1>2. j.want \in {"key", "value"} /\ Read(o, m - 1).stack = j.stack
  BY AfterComma DEF EndsInComma
<1>3. j.want \notin Inside
  BY <1>2 DEF Inside
<1>4. u \in Seq(Tokens) /\ Len(u) = m /\ (\A i \in 1 .. m : u[i] = o[i])
      /\ Parse(u).stack = j.stack
  BY <1>3, QuotedFacts
<1>5. /\ v \in Seq(Tokens) /\ Len(v) = m - 1 /\ \A i \in 1 .. m - 1 : v[i] = o[i]
      /\ Parse(v).stack = j.stack
  <2> HIDE DEF j
  <2>1. Parse(v) = Read(o, m - 1)
    BY <1>1, BegunFacts
  <2>2. v \in Seq(Tokens) /\ Len(v) = m - 1 /\ \A i \in 1 .. m - 1 : v[i] = o[i]
    BY <1>1, BegunFacts
  <2> QED
    BY <1>2, <2>1, <2>2
<1> HIDE DEF u, v, j
<1>6. /\ c \in Seq(Tokens) /\ Len(c) = m + d /\ d \in Nat
      /\ \A i \in 1 .. m : c[i] = u[i]
      /\ \A i \in 1 .. d : c[m + i] = j.stack[d - i + 1]
  <2>1. /\ Closed(u) \in Seq(Tokens) /\ Len(Closed(u)) = Len(u) + Len(j.stack)
        /\ Len(u) \in Nat /\ Len(j.stack) \in Nat
        /\ \A i \in 1 .. Len(u) : Closed(u)[i] = u[i]
        /\ \A i \in 1 .. Len(j.stack) : 
             Closed(u)[Len(u) + i] = j.stack[Len(j.stack) - i + 1]
    <3> DEFINE k == j.stack
    <3>1. u \in Seq(Tokens) /\ Parse(u).stack = k
      BY <1>4
    <3> HIDE DEF k
    <3>2. /\ Closed(u) \in Seq(Tokens) /\ Len(Closed(u)) = Len(u) + Len(k)
          /\ Len(u) \in Nat /\ Len(k) \in Nat
          /\ \A i \in 1 .. Len(u) : Closed(u)[i] = u[i]
          /\ \A i \in 1 .. Len(k) : Closed(u)[Len(u) + i] = k[Len(k) - i + 1]
      BY <3>1, ClosedWith
    <3> QED
      BY <3>2 DEF k
  <2> HIDE DEF c
  <2> QED
    BY <1>4, <2>1 DEF c
<1>7. /\ a \in Seq(Tokens) /\ Len(a) = (m - 1) + d
      /\ \A i \in 1 .. m - 1 : a[i] = v[i]
      /\ \A i \in 1 .. d : a[(m - 1) + i] = j.stack[d - i + 1]
  <2>1. /\ Closed(v) \in Seq(Tokens) /\ Len(Closed(v)) = Len(v) + Len(j.stack)
        /\ Len(v) \in Nat /\ Len(j.stack) \in Nat
        /\ \A i \in 1 .. Len(v) : Closed(v)[i] = v[i]
        /\ \A i \in 1 .. Len(j.stack) : 
             Closed(v)[Len(v) + i] = j.stack[Len(j.stack) - i + 1]
    <3> DEFINE k == j.stack
    <3>1. v \in Seq(Tokens) /\ Parse(v).stack = k
      BY <1>5
    <3> HIDE DEF k
    <3>2. /\ Closed(v) \in Seq(Tokens) /\ Len(Closed(v)) = Len(v) + Len(k)
          /\ Len(v) \in Nat /\ Len(k) \in Nat
          /\ \A i \in 1 .. Len(v) : Closed(v)[i] = v[i]
          /\ \A i \in 1 .. Len(k) : Closed(v)[Len(v) + i] = k[Len(k) - i + 1]
      BY <3>1, ClosedWith
    <3> QED
      BY <3>2 DEF k
  <2> HIDE DEF a
  <2> QED
    BY <1>5, <2>1 DEF a
<1>8. \A k \in 1 .. Len(c) : k \in Trailing(c) <=> k = m
  BY TrailingCut DEF c, u
<1> HIDE DEF c, a, d
<1>9. Without(c, Trailing(c)) =
        [i \in 1 .. Len(c) - 1 |-> IF i < m THEN c[i] ELSE c[i + 1]]
  <2>1. m \in 1 .. Len(c)
    BY <1>1, <1>6
  <2> QED
    BY <1>6, <1>8, <2>1, WithoutOne
<1>10. ASSUME NEW i \in 1 .. Len(a) PROVE a[i] = IF i < m THEN c[i] ELSE c[i + 1]
  <2>1. CASE i < m
    <3>1. i \in 1 .. m - 1 /\ i \in 1 .. m
      BY <1>1, <2>1
    <3> QED
      BY <1>4, <1>5, <1>6, <1>7, <2>1, <3>1
  <2>2. CASE i >= m
    <3> DEFINE h == i - (m - 1)
    <3>1. h \in 1 .. d /\ (m - 1) + h = i /\ m + h = i + 1 /\ ~ (i < m)
      BY <1>1, <1>6, <1>7, <2>2
    <3> HIDE DEF h
    <3>2. a[(m - 1) + h] = j.stack[d - h + 1] /\ c[m + h] = j.stack[d - h + 1]
      BY <1>6, <1>7, <3>1
    <3> QED
      BY <3>1, <3>2
  <2> QED
    BY <1>1, <1>7, <2>1, <2>2
<1>11. a = [i \in 1 .. Len(a) |-> a[i]] /\ Len(a) = Len(c) - 1
  BY <1>1, <1>6, <1>7
<1>12. Without(c, Trailing(c)) = a
  <2> DEFINE e == Len(a)
  <2>1. a = [i \in 1 .. e |-> IF i < m THEN c[i] ELSE c[i + 1]]
    BY <1>10, <1>11
  <2> QED
    BY <1>9, <1>11, <2>1
<1> QED
  BY <1>12 DEF stripTrailingCommas, Trailing, c, a, u, v

\* json starts like o and ends in brackets that close it.
CutAt(o, m, json, b) ==
  /\ json \in Seq(Tokens) /\ b \in Nat /\ b <= Len(json)
  /\ \A i \in 1 .. b : json[i] = o[i]
  /\ \A i \in 1 .. Len(json) : b < i => json[i] # "comma"
  /\ \/ b = m
     \/ b = m - 1 /\ o[m] = "comma" /\ Read(o, m - 1).want = "more"
  /\ b = m /\ Read(o, m).want \notin Inside =>
       Len(json) = m + Len(Read(o, m).stack) /\ json[m + 1] = Last(Read(o, m).stack)

LEMMA CutRepaired ==
  ASSUME NEW o, Object(o), NEW m \in 1 .. Len(o) - 1
  PROVE  LET g    == extractAndRepairJSON(SubSeq(o, 1, m))
             want == Read(o, m).want
         IN  /\ g.ok <=> \/ want \in {"more", "item", "member", "text"}
                         \/ want \in {"key", "value"} /\ o[m] = "comma"
             /\ g.ok => g.repaired /\ \E b : CutAt(o, m, g.json, b)
<1> DEFINE p == Begun(o, m)
           u == Quoted(o, m)
           c == Closed(u)
           j == Read(o, m)
           h == Read(o, m - 1)
           g == extractAndRepairJSON(p)
           cleaned == stripTrailingCommas(c)
<1>1. o \in Seq(Tokens) /\ Len(o) \in Nat /\ m \in 0 .. Len(o) /\ m - 1 \in 0 .. Len(o)
      /\ m \in Nat /\ m >= 1 /\ o[1] = "lbrace" /\ m \in 1 .. Len(o)
  BY ObjectFacts
<1>2. /\ p \in Seq(Tokens) /\ Len(p) = m /\ \A i \in 1 .. m : p[i] = o[i]
  BY <1>1, BegunFacts
<1>3. g = Repaired(p)
  <2>1. 1 \in 1 .. Len(p) /\ p[1] = "lbrace" /\ (\A k \in 1 .. Len(p) : 1 <= k)
        /\ SubSeq(p, 1, Len(p)) = p
    BY <1>1, <1>2
  <2> HIDE DEF p
  <2> QED
    BY <1>2, <2>1, FromFirstBrace
<1>4. ObjectEnd(p) = 0 /\ repairTruncated(p) = c
  BY NoEnd, CutClosed DEF Begun
<1>5. IF IsJSON(cleaned) THEN g = [json |-> cleaned, repaired |-> TRUE, ok |-> TRUE]
                         ELSE g.ok = FALSE
  <2> HIDE DEF p, c, cleaned, g
  <2>1. cleaned = stripTrailingCommas(c)
    BY DEF cleaned
  <2>2. CASE IsJSON(cleaned)
    BY <1>3, <1>4, <2>1, <2>2, Zenon DEF Repaired
  <2>3. CASE ~IsJSON(cleaned)
    <3>1. g = [json |-> <<>>, repaired |-> FALSE, ok |-> FALSE]
      BY <1>3, <1>4, <2>1, <2>3, Zenon DEF Repaired
    <3> QED
      BY <2>3, <3>1
  <2> QED
    BY <2>2, <2>3
<1>6. /\ u \in Seq(Tokens) /\ m <= Len(u) /\ Len(u) \in Nat
      /\ Len(u) = IF j.want \in Inside THEN m + 1 ELSE m
      /\ \A i \in 1 .. m : u[i] = o[i]
      /\ j.want \in Inside => u[m + 1] = "'"
      /\ Parse(u).stack = j.stack
      /\ j.want \notin Inside => Parse(u) = j
      /\ j.want \in Inside =>
                  IF j.want = "text" THEN Parse(u).want = "more"
                                     ELSE Parse(u).want \in Lost
  BY QuotedFacts
<1>7. /\ j \in Parses /\ j.want # "bad" /\ j.want \in Wants /\ j.stack # <<>>
      /\ j.stack \in Seq(Closers) /\ Len(j.stack) \in Nat
  BY <1>1, ObjectAgrees, ParseFacts, OpenBefore
<1> DEFINE good == \/ j.want \in {"more", "item", "member", "text"}
                   \/ j.want \in {"key", "value"} /\ o[m] = "comma"
           Result == /\ IsJSON(cleaned) <=> good
                     /\ good => \E b : CutAt(o, m, cleaned, b)
<1>8. ASSUME EndsInComma(o, m) PROVE Result
  <2> DEFINE v == Begun(o, m - 1)
  <2>1. cleaned = Closed(v)
    BY <1>8, CommaDropped
  <2>2. j.want \in {"key", "value"} /\ h.want = "more" /\ h.stack = j.stack
        /\ o[m] = "comma"
    BY <1>8, AfterComma DEF EndsInComma
  <2>3. v \in Seq(Tokens) /\ Len(v) = m - 1 /\ (\A i \in 1 .. m - 1 : v[i] = o[i])
        /\ Parse(v) = h
    BY <1>1, BegunFacts
  <2> HIDE DEF v, h, cleaned
  <2>4. IsJSON(Closed(v))
    <3>1. Parse(v).want \in Closable /\ Parse(v).stack # <<>>
      BY <1>7, <2>2, <2>3 DEF Closable
    <3> QED
      BY <2>3, <3>1, ClosingWorks
  <2>5. CutAt(o, m, cleaned, m - 1)
    <3> DEFINE a == Closed(v)
               d == Len(j.stack)
    <3>1. /\ a \in Seq(Tokens) /\ Len(a) = (m - 1) + d
          /\ \A i \in 1 .. m - 1 : a[i] = v[i]
          /\ \A i \in 1 .. d : a[(m - 1) + i] \in Closers
      BY <2>2, <2>3, ClosedFacts
    <3> HIDE DEF a, d
    <3>2. d \in Nat /\ m - 1 \in Nat
      BY <1>1, <1>7 DEF d
    <3>3. ASSUME NEW i \in 1 .. Len(a), m - 1 < i PROVE a[i] # "comma"
      <4>1. i - (m - 1) \in 1 .. d /\ (m - 1) + (i - (m - 1)) = i
        BY <1>1, <3>1, <3>2, <3>3
      <4>2. a[i] \in Closers
        BY <3>1, <4>1
      <4> QED
        BY <4>2 DEF Closers
    <3>4. m - 1 <= Len(a) /\ m - 1 # m
      BY <1>1, <3>1, <3>2
    <3>5. cleaned = a
      BY <2>1 DEF a
    <3>6. \A i \in 1 .. m - 1 : a[i] = o[i]
      BY <2>3, <3>1
    <3> QED
      BY <2>2, <3>1, <3>2, <3>3, <3>4, <3>5, <3>6 DEF CutAt, h
  <2> QED
    BY <2>1, <2>2, <2>4, <2>5
<1>9. ASSUME ~EndsInComma(o, m) PROVE Result
  <2>1. cleaned = c
    <3>1. \A k \in 1 .. Len(c) : k \notin Trailing(c)
      BY <1>9, TrailingCut
    <3>2. c \in Seq(Tokens)
      BY <1>6, ClosedFacts
    <3> HIDE DEF c
    <3>3. Without(c, Trailing(c)) = c
      BY <3>1, <3>2, WithoutNothing
    <3> QED
      BY <3>3 DEF stripTrailingCommas, Trailing
  <2>2. j.want \in {"key", "value"} => o[m] # "comma"
    <3> SUFFICES ASSUME j.want \in {"key", "value"}, o[m] = "comma" PROVE FALSE
      OBVIOUS
    <3>1. /\ h \in Parses /\ j = JsonStep(h, o[m]) /\ o[m] \in Tokens
      BY <1>1, ReadStep
    <3>2. h.want \in Inside
      <4>1. After(o)[m - 1] \in Walks /\ Agree(After(o)[m - 1], h)
        BY <1>1, ObjectAgrees
      <4>2. ~Quiet(After(o)[m - 1])
        BY <1>9 DEF EndsInComma
      <4> QED
        BY <4>1, <4>2 DEF Agree, Quiet, Escaping, Inside
    <3>3. j.want \notin Inside
      BY DEF Inside
    <3> HIDE DEF h, j
    <3>4. JsonStep(h, "comma").want \in Inside
      <4>1. JsonStep(h, "comma").want # "bad" /\ "comma" \in Tokens /\ "comma" # "'"
            /\ h.want \notin {"value", "item"} /\ h.want \notin {"more", "item", "member"}
        BY <1>7, <3>1, <3>2 DEF Inside
      <4> QED
        BY <3>1, <3>2, <4>1, JsonMoves
    <3> QED
      BY <3>1, <3>3, <3>4
  <2>3. IsJSON(c) <=> good
    <3>1. CASE Parse(u).want \in Closable
      <4>1. IsJSON(c)
        BY <1>6, <1>7, <3>1, ClosingWorks
      <4>2. good
        BY <1>6, <3>1 DEF Closable, Inside, Lost
      <4> QED
        BY <4>1, <4>2
    <3>2. CASE Parse(u).want \in Lost
      <4>1. ~IsJSON(c)
        BY <1>6, <3>2, ClosingFails
      <4>2. ~good
        BY <1>6, <2>2, <3>2 DEF Closable, Inside, Lost
      <4> QED
        BY <4>1, <4>2
    <3>3. Parse(u).want \in Closable \union Lost
      BY <1>6, <1>7 DEF Closable, Lost, Wants, Inside
    <3> QED
      BY <3>1, <3>2, <3>3
  <2>4. CutAt(o, m, c, m)
    <3> DEFINE d == Len(j.stack)
    <3>1. /\ c \in Seq(Tokens) /\ Len(c) = Len(u) + d /\ d \in Nat
          /\ \A i \in 1 .. Len(u) : c[i] = u[i]
          /\ \A i \in 1 .. d : c[Len(u) + i] = j.stack[d - i + 1]
          /\ \A i \in 1 .. d : c[Len(u) + i] \in Closers
      <4> DEFINE k == j.stack
      <4>1. u \in Seq(Tokens) /\ Parse(u).stack = k
        BY <1>6
      <4> HIDE DEF k, u
      <4>2. /\ Closed(u) \in Seq(Tokens) /\ Len(Closed(u)) = Len(u) + Len(k)
            /\ Len(k) \in Nat
            /\ \A i \in 1 .. Len(u) : Closed(u)[i] = u[i]
            /\ \A i \in 1 .. Len(k) : Closed(u)[Len(u) + i] = k[Len(k) - i + 1]
            /\ \A i \in 1 .. Len(k) : Closed(u)[Len(u) + i] \in Closers
        BY <4>1, ClosedWith
      <4> QED
        BY <4>2 DEF k
    <3> HIDE DEF c, u, d
    <3>2. d >= 1 /\ j.stack[d] = Last(j.stack)
      BY <1>7, <3>1 DEF d, Last
    <3> HIDE DEF j
    <3>3. \A i \in 1 .. m : c[i] = o[i]
      <4> TAKE i \in 1 .. m
      <4>1. i \in 1 .. Len(u)
        BY <1>1, <1>6
      <4> QED
        BY <1>6, <3>1, <4>1
    <3>4. ASSUME NEW i \in 1 .. Len(c), m < i PROVE c[i] # "comma"
      <4>1. CASE i <= Len(u)
        <5>1. j.want \in Inside /\ i = m + 1 /\ i \in 1 .. Len(u)
          BY <1>1, <1>6, <3>4, <4>1
        <5> QED
          BY <1>6, <3>1, <5>1
      <4>2. CASE i > Len(u)
        <5>1. i - Len(u) \in 1 .. d /\ Len(u) + (i - Len(u)) = i
          BY <1>6, <3>1, <4>2
        <5>2. c[i] \in Closers
          BY <3>1, <5>1
        <5> QED
          BY <5>2 DEF Closers
      <4> QED
        BY <1>6, <3>1, <4>1, <4>2
    <3>5. j.want \notin Inside => Len(c) = m + d /\ c[m + 1] = Last(j.stack)
      <4> SUFFICES ASSUME j.want \notin Inside
                   PROVE  Len(c) = m + d /\ c[m + 1] = Last(j.stack)
        OBVIOUS
      <4>1. Len(u) = m /\ 1 \in 1 .. d /\ d - 1 + 1 = d
        BY <1>6, <3>1, <3>2
      <4> QED
        BY <3>1, <3>2, <4>1
    <3>6. m <= Len(c)
      BY <1>1, <1>6, <3>1
    <3> QED
      BY <1>1, <3>1, <3>3, <3>4, <3>5, <3>6 DEF CutAt, j, d
  <2> HIDE DEF c, cleaned, good
  <2> QED
    BY <2>1, <2>3, <2>4
<1>10. Result
  <2> HIDE DEF Result
  <2> QED
    BY <1>8, <1>9
<1> HIDE DEF g, good, cleaned
<1>11. (g.ok <=> good) /\ (g.ok => g.repaired /\ \E b : CutAt(o, m, g.json, b))
  <2>1. CASE IsJSON(cleaned)
    <3>1. g = [json |-> cleaned, repaired |-> TRUE, ok |-> TRUE] /\ good
          /\ \E b : CutAt(o, m, cleaned, b)
      BY <1>5, <1>10, <2>1, Zenon
    <3> QED
      BY <3>1
  <2>2. CASE ~IsJSON(cleaned)
    <3>1. g.ok = FALSE /\ ~good
      BY <1>5, <1>10, <2>2, Zenon
    <3> QED
      BY <3>1
  <2> QED
    BY <2>1, <2>2
<1> QED
  BY <1>11 DEF g, good, p, Begun

LEMMA CommasCount ==
  ASSUME NEW s \in Seq(Tokens)
  PROVE  IsFiniteSet(Commas(s, 2)) /\ Cardinality(Commas(s, 2)) \in Nat
<1>1. Len(s) \in Nat
  OBVIOUS
<1>2. IsFiniteSet(1 .. Len(s)) /\ Commas(s, 2) \in SUBSET (1 .. Len(s))
  BY <1>1, FS_Interval DEF Commas
<1>3. IsFiniteSet(Commas(s, 2))
  BY <1>2, FS_Subset
<1> QED
  BY <1>3, FS_CardinalityType

LEMMA FieldType ==
  ASSUME NEW json \in Seq(Tokens)
  PROVE  LET f == FieldOf(json)
         IN  /\ f.kind \in {"none", "scalar", "list"} /\ f.count \in Nat
             /\ f.kind # "list" => f.count = 0
             /\ Len(json) < 6 => f.kind = "none"
             /\ Len(json) >= 6 => f.kind = IF json[6] = "[" THEN "list" ELSE "scalar"
             /\ f.kind = "list" => f.count = IF json[7] = "]" THEN 0
                                             ELSE Cardinality(Commas(json, 2)) + 1
<1>1. Cardinality(Commas(json, 2)) \in Nat /\ Len(json) \in Nat
  BY CommasCount
<1> QED
  BY <1>1 DEF FieldOf

\* An object of one field.
OneField(o) == Object(o) /\ IsPrefix(<<"lbrace", "'", "x", "'", ":">>, o)

LEMMA ObjectsAre ==
  ASSUME NEW o \in Objects
  PROVE  Object(o) /\ (o = <<"lbrace", "rbrace">> \/ OneField(o))
<1> DEFINE start == <<"lbrace", "'", "x", "'", ":">>
<1>1. /\ o \in Seq(Tokens)
      /\ o = <<"lbrace", "rbrace">> \/ IsPrefix(start, o)
  BY ObjectsAssumption, Zenon
<1>2. IsJSON(o)
  BY ObjectsAssumption, Zenon
<1>3. CASE o = <<"lbrace", "rbrace">>
  <2>1. Len(o) = 2 /\ o[1] = "lbrace"
    BY <1>3
  <2>2. Object(o)
    <3>1. Len(o) >= 2
      BY <2>1
    <3> QED
      BY <1>1, <1>2, <2>1, <3>1, Zenon DEF Object
  <2> QED
    BY <1>3, <2>2
<1>4. CASE IsPrefix(start, o)
  <2>1. Len(start) = 5
    OBVIOUS
  <2>2. Len(o) >= 5 /\ SubSeq(start, 1, 5) = SubSeq(o, 1, 5)
    <3> HIDE DEF start
    <3> QED
      BY <1>1, <1>4, <2>1 DEF IsPrefix
  <2>3. SubSeq(start, 1, 5)[1] = "lbrace" /\ SubSeq(o, 1, 5)[1] = o[1]
    BY <1>1, <2>2
  <2>4. Len(o) >= 2 /\ o[1] = "lbrace"
    BY <1>1, <2>2, <2>3
  <2>5. Object(o)
    BY <1>1, <1>2, <2>4, Zenon DEF Object
  <2> QED
    BY <1>4, <2>5 DEF OneField
<1> QED
  BY <1>1, <1>3, <1>4

LEMMA OneFieldReads ==
  ASSUME NEW o, OneField(o)
  PROVE  /\ o \in Seq(Tokens) /\ Len(o) >= 5 /\ Len(o) \in Nat
         /\ o[1] = "lbrace" /\ o[2] = "'" /\ o[3] = "x" /\ o[4] = "'" /\ o[5] = ":"
         /\ Read(o, 1) = [stack |-> <<"rbrace">>, want |-> "member"]
         /\ Read(o, 2).want = "keyText" /\ Read(o, 3).want = "keyText"
         /\ Read(o, 4).want = "colon"
         /\ Read(o, 5) = [stack |-> <<"rbrace">>, want |-> "value"]
<1> DEFINE start == <<"lbrace", "'", "x", "'", ":">>
<1>1. o \in Seq(Tokens) /\ Len(o) \in Nat
  BY ObjectFacts DEF OneField
<1>2. Len(start) = 5 /\ start = SubSeq(start, 1, 5)
  OBVIOUS
<1>3. Len(o) >= 5 /\ start = SubSeq(o, 1, 5)
  <2>1. IsPrefix(start, o)
    BY DEF OneField
  <2> HIDE DEF start
  <2> QED
    BY <1>1, <1>2, <2>1 DEF IsPrefix
<1>4. \A i \in 1 .. 5 : o[i] = start[i]
  <2>1. \A i \in 1 .. 5 : SubSeq(o, 1, 5)[i] = o[i]
    BY <1>1, <1>3
  <2> HIDE DEF start
  <2> QED
    BY <1>3, <2>1
<1>5. o[1] = "lbrace" /\ o[2] = "'" /\ o[3] = "x" /\ o[4] = "'" /\ o[5] = ":"
  BY <1>4
<1> HIDE DEF start
<1>6. \A k \in {1, 2, 3, 4, 5} : Read(o, k) = JsonStep(Read(o, k - 1), o[k])
  <2> TAKE k \in {1, 2, 3, 4, 5}
  <2>1. k \in 1 .. Len(o)
    BY <1>1, <1>3
  <2> QED
    BY <1>1, <2>1, ReadStep
<1>7. Read(o, 0) = [stack |-> <<>>, want |-> "value"]
  BY <1>1, ReadEnds
<1>8. /\ Read(o, 1) = JsonStep(Read(o, 0), "lbrace")
      /\ Read(o, 2) = JsonStep(Read(o, 1), "'")
      /\ Read(o, 3) = JsonStep(Read(o, 2), "x")
      /\ Read(o, 4) = JsonStep(Read(o, 3), "'")
      /\ Read(o, 5) = JsonStep(Read(o, 4), ":")
  BY <1>5, <1>6
<1>9. JsonStep([stack |-> <<>>, want |-> "value"], "lbrace") =
        [stack |-> <<"rbrace">>, want |-> "member"]
  BY DEF JsonStep, Openers, Closers, CloserOf
<1>10. \A stack :
         /\ JsonStep([stack |-> stack, want |-> "member"], "'") =
              [stack |-> stack, want |-> "keyText"]
         /\ JsonStep([stack |-> stack, want |-> "keyText"], "x") =
              [stack |-> stack, want |-> "keyText"]
         /\ JsonStep([stack |-> stack, want |-> "keyText"], "'") =
              [stack |-> stack, want |-> "colon"]
         /\ JsonStep([stack |-> stack, want |-> "colon"], ":") =
              [stack |-> stack, want |-> "value"]
  BY DEF JsonStep, Openers, Closers
<1>11. Read(o, 1) = [stack |-> <<"rbrace">>, want |-> "member"]
  BY <1>7, <1>8, <1>9
<1> DEFINE k == <<"rbrace">>
<1> HIDE DEF k
<1>12. Read(o, 1) = [stack |-> k, want |-> "member"]
  BY <1>11 DEF k
<1>13. Read(o, 2) = [stack |-> k, want |-> "keyText"]
  BY <1>8, <1>10, <1>12
<1>14. Read(o, 3) = [stack |-> k, want |-> "keyText"]
  BY <1>8, <1>10, <1>13
<1>15. Read(o, 4) = [stack |-> k, want |-> "colon"]
  BY <1>8, <1>10, <1>14
<1>16. Read(o, 5) = [stack |-> k, want |-> "value"]
  BY <1>8, <1>10, <1>15
<1>17. Read(o, 5) = [stack |-> <<"rbrace">>, want |-> "value"]
  BY <1>16 DEF k
<1> QED
  BY <1>1, <1>3, <1>5, <1>11, <1>13, <1>14, <1>15, <1>17

LEMMA PairAppend ==
  ASSUME NEW S, NEW x \in S, NEW y \in S PROVE Append(<<x>>, y) = <<x, y>>
<1> DEFINE a == Append(<<x>>, y)
           p == <<x, y>>
<1>1. a \in Seq(S) /\ p \in Seq(S) /\ Len(a) = 2 /\ Len(p) = 2
      /\ \A i \in 1 .. 2 : a[i] = p[i]
  OBVIOUS
<1> HIDE DEF a, p
<1>2. a = [i \in 1 .. 2 |-> a[i]] /\ p = [i \in 1 .. 2 |-> p[i]]
  BY <1>1
<1>3. a = p
  BY <1>1, <1>2
<1> QED
  BY <1>3 DEF a, p

\* What is left of a list after the cut: no comma is counted that o has not.
LEMMA FewerCommas ==
  ASSUME NEW o, Object(o), NEW m \in 1 .. Len(o) - 1, NEW json, NEW b,
         CutAt(o, m, json, b)
  PROVE  Cardinality(Commas(json, 2)) <= Cardinality(Commas(o, 2))
<1>1. /\ o \in Seq(Tokens) /\ Len(o) \in Nat
      /\ json \in Seq(Tokens) /\ b \in Nat /\ b <= Len(json) /\ b <= Len(o)
      /\ \A i \in 1 .. b : json[i] = o[i]
      /\ \A i \in 1 .. Len(json) : b < i => json[i] # "comma"
  BY ObjectFacts DEF CutAt
<1>2. \A i \in 0 .. b : After(json)[i] = After(o)[i]
  BY <1>1, AlikeSoFar
<1>3. Commas(json, 2) \subseteq Commas(o, 2)
  <2> SUFFICES ASSUME NEW k \in Commas(json, 2) PROVE k \in Commas(o, 2)
    OBVIOUS
  <2>1. /\ k \in 1 .. Len(json) /\ json[k] = "comma"
        /\ Quiet(After(json)[k - 1]) /\ After(json)[k - 1].depth = 2
    BY DEF Commas
  <2>2. k <= b
    BY <1>1, <2>1
  <2>3. k \in 1 .. Len(o) /\ k \in 1 .. b /\ k - 1 \in 0 .. b
    BY <1>1, <2>1, <2>2
  <2>4. o[k] = json[k] /\ After(o)[k - 1] = After(json)[k - 1]
    BY <1>1, <1>2, <2>3
  <2> QED
    BY <2>1, <2>3, <2>4 DEF Commas
<1> QED
  BY <1>1, <1>3, CommasCount, FS_Subset

LEMMA CutField ==
  ASSUME NEW o \in Objects, NEW m \in 1 .. Len(o) - 1,
         extractAndRepairJSON(SubSeq(o, 1, m)).ok
  PROVE  LET f == FieldOf(extractAndRepairJSON(SubSeq(o, 1, m)).json)
         IN  f.kind \in {"none", FieldOf(o).kind} /\ f.count <= FieldOf(o).count
<1> DEFINE g == extractAndRepairJSON(SubSeq(o, 1, m))
           json == g.json
           f == FieldOf(json)
           want == Read(o, m).want
<1>1. Object(o) /\ o \in Seq(Tokens) /\ Len(o) \in Nat
  BY ObjectsAre, ObjectFacts
<1>2. \/ want \in {"more", "item", "member", "text"}
      \/ want \in {"key", "value"} /\ o[m] = "comma"
  BY <1>1, CutRepaired
<1>3. PICK b : CutAt(o, m, json, b)
  BY <1>1, CutRepaired
<1> HIDE DEF g
<1>4. /\ json \in Seq(Tokens) /\ Len(json) \in Nat /\ b \in Nat /\ b <= Len(json)
      /\ m \in Nat
      /\ \A i \in 1 .. b : json[i] = o[i]
      /\ \/ b = m
         \/ b = m - 1 /\ o[m] = "comma" /\ Read(o, m - 1).want = "more"
      /\ b = m /\ want \notin Inside =>
           Len(json) = m + Len(Read(o, m).stack) /\ json[m + 1] = Last(Read(o, m).stack)
  BY <1>1, <1>3 DEF CutAt
<1> HIDE DEF json
<1>5. /\ FieldOf(o).count \in Nat /\ f.kind \in {"none", "scalar", "list"}
      /\ f.kind # "list" => f.count = 0
  BY <1>1, <1>4, FieldType
<1>6. CASE m = 1
  <2>1. Read(o, 1) = [stack |-> <<"rbrace">>, want |-> "member"] /\ o[1] = "lbrace"
    <3>1. CASE OneField(o)
      BY <3>1, OneFieldReads
    <3>2. CASE o = <<"lbrace", "rbrace">>
      <4>1. 1 \in 1 .. Len(o) /\ o[1] = "lbrace"
        BY <3>2
      <4>2. Read(o, 1) = JsonStep(Read(o, 0), "lbrace")
            /\ Read(o, 0) = [stack |-> <<>>, want |-> "value"]
        BY <1>1, <4>1, ReadStep, ReadEnds, 1 - 1 = 0
      <4>3. JsonStep([stack |-> <<>>, want |-> "value"], "lbrace") =
              [stack |-> <<"rbrace">>, want |-> "member"]
        BY DEF JsonStep, Openers, Closers, CloserOf
      <4> QED
        BY <4>1, <4>2, <4>3
    <3> QED
      BY <3>1, <3>2, ObjectsAre
  <2>2. b = 1 /\ want = "member" /\ want \notin Inside
    BY <1>4, <1>6, <2>1 DEF Inside
  <2>3. Len(json) = 2
    <3>1. Read(o, m).stack = <<"rbrace">> /\ Len(<<"rbrace">>) = 1
      BY <1>6, <2>1
    <3> DEFINE k == Read(o, m).stack
    <3>2. Len(k) = 1
      BY <3>1
    <3> HIDE DEF k
    <3>3. Len(json) = m + Len(k)
      BY <1>4, <1>6, <2>2 DEF k
    <3> QED
      BY <1>6, <3>2, <3>3
  <2>4. f.kind = "none"
    BY <1>4, <2>3, FieldType
  <2> QED
    BY <1>5, <2>4 DEF json, g
<1>7. CASE m # 1
  <2>1. OneField(o)
    <3>1. o = <<"lbrace", "rbrace">> => Len(o) = 2
      OBVIOUS
    <3>2. Len(o) # 2
      <4> SUFFICES ASSUME Len(o) = 2 PROVE FALSE
        OBVIOUS
      <4>1. m \in 1 .. 2 - 1
        OBVIOUS
      <4>2. m = 1
        BY <4>1
      <4> QED
        BY <1>7, <4>2
    <3> QED
      BY <3>1, <3>2, ObjectsAre
  <2>2. /\ o[5] = ":" /\ Read(o, 2).want = "keyText" /\ Read(o, 3).want = "keyText"
        /\ Read(o, 4).want = "colon"
        /\ Read(o, 5) = [stack |-> <<"rbrace">>, want |-> "value"]
    BY <2>1, OneFieldReads
  <2>3. m >= 6
    <3>1. m \in {2, 3, 4, 5} => FALSE
      BY <1>2, <2>2
    <3> QED
      BY <1>4, <1>7, <3>1
  <2>4. b >= 6
    <3>1. m = 6 => b = 6
      BY <1>4, <2>2
    <3> QED
      BY <1>4, <2>3, <3>1
  <2>5. Len(json) >= 6 /\ Len(o) >= 6 /\ json[6] = o[6]
    BY <1>1, <1>4, <2>3, <2>4
  <2>6. f.kind = FieldOf(o).kind
    BY <1>1, <1>4, <2>5, FieldType
  <2>7. CASE f.kind # "list"
    BY <1>5, <2>6, <2>7 DEF json, g
  <2>8. CASE f.kind = "list"
    <3>1. o[6] = "["
      BY <1>1, <1>4, <2>5, <2>8, FieldType
    <3>2. Read(o, 6) = [stack |-> <<"rbrace", "]">>, want |-> "item"]
      <4>1. 6 \in 1 .. Len(o) /\ 6 - 1 = 5
        BY <1>1, <2>5
      <4>2. Read(o, 6) = JsonStep([stack |-> <<"rbrace">>, want |-> "value"], "[")
        BY <1>1, <2>2, <3>1, <4>1, ReadStep
      <4>3. Append(<<"rbrace">>, "]") = <<"rbrace", "]">>
        <5>1. "rbrace" \in Closers /\ "]" \in Closers
          BY DEF Closers
        <5> QED
          BY <5>1, PairAppend
      <4> QED
        BY <4>2, <4>3 DEF JsonStep, Openers, Closers, CloserOf
    <3>3. CASE b = 6
      <4>1. m = 6
        <5>1. m = 7 => FALSE
          BY <1>4, <3>2, <3>3
        <5> QED
          BY <1>4, <3>3, <5>1
      <4>2. want \notin Inside
        BY <3>2, <4>1 DEF Inside
      <4>3. json[7] = "]"
        <5>1. Last(<<"rbrace", "]">>) = "]"
          BY DEF Last
        <5> QED
          <6>1. Read(o, m).stack = <<"rbrace", "]">> /\ m + 1 = 7 /\ b = m
            BY <3>2, <3>3, <4>1
          <6>2. json[m + 1] = Last(Read(o, m).stack)
            BY <1>4, <4>2, <6>1
          <6> QED
            BY <5>1, <6>1, <6>2
      <4>4. f.count = 0
        BY <1>4, <2>8, <4>3, FieldType
      <4> QED
        BY <1>5, <2>6, <4>4 DEF json, g
    <3>4. CASE b >= 7
      <4>1. json[7] = o[7]
        BY <1>4, <3>4
      <4>2. Cardinality(Commas(json, 2)) <= Cardinality(Commas(o, 2))
        BY <1>1, <1>3, FewerCommas
      <4>3. Cardinality(Commas(json, 2)) \in Nat /\ Cardinality(Commas(o, 2)) \in Nat
        BY <1>1, <1>4, CommasCount
      <4>4. f.count <= FieldOf(o).count
        <5>1. f.count = IF json[7] = "]" THEN 0 ELSE Cardinality(Commas(json, 2)) + 1
          BY <1>4, <2>8, FieldType
        <5>2. FieldOf(o).count = IF o[7] = "]" THEN 0 ELSE Cardinality(Commas(o, 2)) + 1
          BY <1>1, <2>6, <2>8, FieldType
        <5> HIDE DEF f
        <5> QED
          BY <4>1, <4>2, <4>3, <5>1, <5>2
      <4> QED
        BY <2>6, <4>4 DEF json, g
    <3> QED
      BY <1>4, <2>4, <3>3, <3>4
  <2> QED
    BY <2>7, <2>8
<1> QED
  BY <1>6, <1>7

-----------------------------------------------------------------------------
(* Objects with trailing commas.                                           *)

\* A comma before every closing bracket: what WithCommas has made of k tokens.
Spaced(o, k) ==
  Iterate([r \in Seq(Tokens) |-> [i \in Nat |->
             IF o[i] \in Closers /\ Quiet(After(o)[i - 1])
             THEN r \o <<"comma", o[i]>> ELSE Append(r, o[i])]],
          <<>>, SubSeq([i \in 1 .. Len(o) |-> i], 1, k))

LEMMA TwoAppends ==
  ASSUME NEW s \in Seq(Tokens), NEW t \in Tokens
  PROVE  /\ s \o <<"comma", t>> = Append(Append(s, "comma"), t)
         /\ Append(s, "comma") \in Seq(Tokens)
         /\ Append(Append(s, "comma"), t) \in Seq(Tokens)
<1> DEFINE a == s \o <<"comma", t>>
           b == Append(Append(s, "comma"), t)
           c == Append(s, "comma")
           p == <<"comma", t>>
<1>1. "comma" \in Tokens
  BY DEF Tokens
<1>2. p \in Seq(Tokens) /\ Len(p) = 2 /\ p[1] = "comma" /\ p[2] = t
  BY <1>1
<1>3. c \in Seq(Tokens) /\ Len(c) = Len(s) + 1 /\ c[Len(s) + 1] = "comma"
      /\ \A i \in 1 .. Len(s) : c[i] = s[i]
  BY <1>1
<1> HIDE DEF p, c
<1> DEFINE n == Len(s)
<1>4. n \in Nat /\ 1 \in 1 .. Len(p) /\ 2 \in 1 .. Len(p)
  BY <1>2
<1>5. /\ s \o p \in Seq(Tokens) /\ Len(s \o p) = n + 2
      /\ \A i \in 1 .. n : (s \o p)[i] = s[i]
      /\ (s \o p)[n + 1] = "comma" /\ (s \o p)[n + 2] = t
  <2>1. s \o p \in Seq(Tokens) /\ Len(s \o p) = n + Len(p)
    BY <1>2, Concat
  <2>2. \A i \in 1 .. n : (s \o p)[i] = s[i]
    BY <1>2, Concat
  <2>3. \A i \in 1 .. Len(p) : (s \o p)[i + n] = p[i]
    <3>1. \A x, y \in Seq(Tokens) : \A i \in 1 .. Len(y) : (x \o y)[i + Len(x)] = y[i]
      BY Concat
    <3> QED
      BY <1>2, <3>1, Zenon
  <2> HIDE DEF n
  <2>4. (s \o p)[1 + n] = "comma" /\ (s \o p)[2 + n] = t
    BY <1>2, <1>4, <2>3
  <2> QED
    BY <1>2, <1>4, <2>1, <2>2, <2>4
<1>6. /\ Append(c, t) \in Seq(Tokens) /\ Len(Append(c, t)) = n + 2
      /\ \A i \in 1 .. n : Append(c, t)[i] = s[i]
      /\ Append(c, t)[n + 1] = "comma" /\ Append(c, t)[n + 2] = t
  BY <1>3
<1> HIDE DEF n
<1>7. \A i \in 1 .. n + 2 : (s \o p)[i] = Append(c, t)[i]
  <2> TAKE i \in 1 .. n + 2
  <2>1. i \in 1 .. n \/ i = n + 1 \/ i = n + 2
    BY <1>4
  <2> QED
    BY <2>1, <1>5, <1>6
<1>8. ASSUME NEW x \in Seq(Tokens), Len(x) = n + 2 PROVE x = [i \in 1 .. n + 2 |-> x[i]]
  BY <1>8
<1>9. s \o p = Append(c, t)
  <2>1. s \o p = [i \in 1 .. n + 2 |-> (s \o p)[i]]
    BY <1>5, <1>8
  <2>2. Append(c, t) = [i \in 1 .. n + 2 |-> Append(c, t)[i]]
    BY <1>6, <1>8
  <2> QED
    BY <1>7, <2>1, <2>2, Zenon
<1> QED
  BY <1>3, <1>6, <1>9 DEF p, c

LEMMA SpacedSteps ==
  ASSUME NEW o \in Seq(Tokens)
  PROVE  /\ Spaced(o, 0) = <<>> /\ Spaced(o, Len(o)) = WithCommas(o)
         /\ \A k \in 0 .. Len(o) : Spaced(o, k) \in Seq(Tokens)
         /\ \A k \in 1 .. Len(o) : Spaced(o, k) =
              IF o[k] \in Closers /\ Quiet(After(o)[k - 1])
              THEN Append(Append(Spaced(o, k - 1), "comma"), o[k])
              ELSE Append(Spaced(o, k - 1), o[k])
<1> DEFINE In(k) == o[k] \in Closers /\ Quiet(After(o)[k - 1])
           step == [r \in Seq(Tokens) |-> [i \in Nat |->
                      IF In(i) THEN r \o <<"comma", o[i]>> ELSE Append(r, o[i])]]
           all == [i \in 1 .. Len(o) |-> i]
           E == 1 .. Len(o)
           A == Seq(Tokens)
           start == <<>>
<1>1. all \in Seq(E) /\ Len(all) = Len(o) /\ \A k \in 1 .. Len(o) : all[k] = k
  OBVIOUS
<1>2. start \in A
  OBVIOUS
<1>3. \A k : Spaced(o, k) = Iterate(step, start, SubSeq(all, 1, k))
  BY DEF Spaced
<1>4. WithCommas(o) = Iterate(step, start, all)
  BY DEF WithCommas
<1>5. SubSeq(all, 1, Len(o)) = all
  OBVIOUS
<1>6. Len(o) \in Nat /\ E = 1 .. Len(o) /\ \A k \in E : o[k] \in Tokens
  OBVIOUS
<1>7. ASSUME NEW r \in A, NEW k \in E
      PROVE  /\ step[r][k] \in A
             /\ step[r][k] = IF In(k) THEN Append(Append(r, "comma"), o[k])
                                      ELSE Append(r, o[k])
  <2>1. step[r][k] = IF In(k) THEN r \o <<"comma", o[k]>> ELSE Append(r, o[k])
    OBVIOUS
  <2>2. o[k] \in Tokens /\ Append(r, o[k]) \in A
    BY <1>6
  <2> HIDE DEF step, In, E
  <2>3. r \o <<"comma", o[k]>> = Append(Append(r, "comma"), o[k])
        /\ Append(Append(r, "comma"), o[k]) \in A
    BY <2>2, TwoAppends
  <2> QED
    BY <2>1, <2>2, <2>3
<1>8. Stays(step, A, E)
  BY <1>7 DEF Stays
<1> HIDE DEF step, all, A, E, start, In
<1>9. Unrolled(step, start, all, A)
  BY <1>1, <1>2, <1>8, PrefixSteps
<1>10. /\ Spaced(o, 0) = <<>> /\ Spaced(o, Len(o)) = WithCommas(o)
       /\ \A k \in 0 .. Len(o) : Spaced(o, k) \in A
  BY <1>1, <1>3, <1>4, <1>5, <1>9 DEF Unrolled, start
<1>11. ASSUME NEW k \in 1 .. Len(o)
       PROVE  Spaced(o, k) = IF In(k) THEN Append(Append(Spaced(o, k - 1), "comma"), o[k])
                                      ELSE Append(Spaced(o, k - 1), o[k])
  <2>1. Spaced(o, k) = step[Spaced(o, k - 1)][k]
    BY <1>1, <1>3, <1>9 DEF Unrolled
  <2>2. Spaced(o, k - 1) \in A /\ k \in E
    BY <1>6, <1>10, k - 1 \in 0 .. Len(o)
  <2> QED
    BY <1>7, <2>1, <2>2
<1> QED
  BY <1>10, <1>11 DEF A, In

LEMMA SpacedStep ==
  ASSUME NEW o \in Seq(Tokens), NEW k \in 1 .. Len(o)
  PROVE  /\ o[k] \in Closers /\ Quiet(After(o)[k - 1]) =>
              Spaced(o, k) = Append(Append(Spaced(o, k - 1), "comma"), o[k])
         /\ ~ (o[k] \in Closers /\ Quiet(After(o)[k - 1])) =>
              Spaced(o, k) = Append(Spaced(o, k - 1), o[k])
<1>1. \A i \in 1 .. Len(o) : Spaced(o, i) =
              IF o[i] \in Closers /\ Quiet(After(o)[i - 1])
              THEN Append(Append(Spaced(o, i - 1), "comma"), o[i])
              ELSE Append(Spaced(o, i - 1), o[i])
  BY SpacedSteps, Zenon
<1> QED
  BY <1>1, Zenon

\* One token more.
LEMMA OneMore ==
  ASSUME NEW s \in Seq(Tokens), NEW t \in Tokens
  PROVE  LET u == Append(s, t)
             n == Len(s)
         IN  /\ u \in Seq(Tokens) /\ n \in Nat /\ Len(u) = n + 1 /\ u[n + 1] = t
             /\ \A i \in 1 .. n : u[i] = s[i]
             /\ \A i \in 0 .. n : After(u)[i] = After(s)[i]
             /\ After(u)[n + 1] = Walk(After(s)[n], t) /\ After(s)[n] \in Walks
<1> DEFINE u == Append(s, t)
           n == Len(s)
<1>1. /\ u \in Seq(Tokens) /\ n \in Nat /\ Len(u) = n + 1 /\ u[n + 1] = t
      /\ \A i \in 1 .. n : u[i] = s[i]
  OBVIOUS
<1> HIDE DEF u
<1>2. \A i \in 0 .. n : After(u)[i] = After(s)[i]
  <2>1. n <= Len(u) /\ n <= Len(s)
    BY <1>1
  <2> HIDE DEF n
  <2> QED
    BY <1>1, <2>1, AlikeSoFar
<1>3. After(u)[n + 1] = Walk(After(u)[n], t)
  <2> DEFINE k == n + 1
  <2>1. k \in 1 .. Len(u) /\ k - 1 = n /\ u[k] = t
    BY <1>1
  <2> HIDE DEF k
  <2>2. After(u)[k] = Walk(After(u)[k - 1], u[k])
    BY <1>1, <2>1, AfterStep
  <2> HIDE DEF n
  <2> QED
    BY <2>1, <2>2 DEF k
<1>4. n \in 0 .. n
  BY <1>1
<1>5. After(s)[n] \in Walks
  BY <1>4, AfterSteps
<1> QED
  BY <1>1, <1>2, <1>3, <1>4, <1>5 DEF u

LEMMA EndsOneMore ==
  ASSUME NEW s \in Seq(Tokens), NEW t \in Tokens
  PROVE  \A i : i \in Ends(Append(s, t)) <=>
           \/ i \in Ends(s)
           \/ /\ i = Len(s) + 1 /\ t \in Closers /\ Quiet(After(s)[Len(s)])
              /\ Walk(After(s)[Len(s)], t).depth = 0
<1> DEFINE u == Append(s, t)
           n == Len(s)
<1>1. /\ n \in Nat /\ Len(u) = n + 1 /\ u[n + 1] = t
      /\ \A i \in 1 .. n : u[i] = s[i]
      /\ \A i \in 0 .. n : After(u)[i] = After(s)[i]
      /\ After(u)[n + 1] = Walk(After(s)[n], t)
  BY OneMore
<1> HIDE DEF u
<1>2. ASSUME NEW i \in 1 .. n PROVE i \in Ends(u) <=> i \in Ends(s)
  <2>1. i \in 0 .. n /\ i - 1 \in 0 .. n /\ i \in 1 .. Len(u) /\ i \in 1 .. Len(s)
    BY <1>1
  <2> HIDE DEF n
  <2> QED
    BY <1>1, <2>1 DEF Ends
<1>3. n + 1 \in Ends(u) <=> /\ t \in Closers /\ Quiet(After(s)[n])
                            /\ Walk(After(s)[n], t).depth = 0
  <2>1. n + 1 \in 1 .. Len(u) /\ (n + 1) - 1 = n /\ n \in 0 .. n
    BY <1>1
  <2> HIDE DEF n
  <2> QED
    BY <1>1, <2>1 DEF Ends
<1>4. \A i \in Ends(u) : i \in 1 .. n \/ i = n + 1
  BY <1>1 DEF Ends
<1>5. \A i \in Ends(s) : i \in 1 .. n
  BY DEF Ends
<1> HIDE DEF n
<1>6. n + 1 \notin 1 .. n
  BY <1>1 DEF n
<1>7. \A i : i \in Ends(u) <=>
           \/ i \in Ends(s)
           \/ /\ i = n + 1 /\ t \in Closers /\ Quiet(After(s)[n])
              /\ Walk(After(s)[n], t).depth = 0
  BY <1>2, <1>3, <1>4, <1>5, Zenon
<1> QED
  BY <1>7 DEF u, n

\* What is kept of a part does not depend on the rest.
LEMMA KeptAlike ==
  ASSUME NEW s \in Seq(Tokens), NEW u \in Seq(Tokens), NEW D, NEW F, NEW m \in Nat,
         m <= Len(s), m <= Len(u),
         \A k \in 1 .. m : s[k] = u[k] /\ (k \in D <=> k \in F)
  PROVE  Kept(s, D, m) = Kept(u, F, m)
<1> DEFINE P == {k \in Nat : k <= m => Kept(s, D, k) = Kept(u, F, k)}
<1>1. 0 \in P
  BY KeptSteps
<1>2. ASSUME NEW k \in P PROVE k + 1 \in P
  <2> SUFFICES ASSUME k + 1 <= m PROVE Kept(s, D, k + 1) = Kept(u, F, k + 1)
    OBVIOUS
  <2> DEFINE i == k + 1
  <2>1. /\ i \in 1 .. Len(s) /\ i \in 1 .. Len(u) /\ i - 1 = k
        /\ s[i] = u[i] /\ (i \in D <=> i \in F) /\ Kept(s, D, k) = Kept(u, F, k)
    OBVIOUS
  <2> HIDE DEF i
  <2>2. /\ i \in D => Kept(s, D, i) = Kept(s, D, k)
        /\ i \notin D => Kept(s, D, i) = Append(Kept(s, D, k), s[i])
    BY <2>1, KeptStep
  <2>3. /\ i \in F => Kept(u, F, i) = Kept(u, F, k)
        /\ i \notin F => Kept(u, F, i) = Append(Kept(u, F, k), u[i])
    BY <2>1, KeptStep
  <2>4. Kept(s, D, i) = Kept(u, F, i)
    BY <2>1, <2>2, <2>3, Zenon
  <2> QED
    BY <2>4 DEF i
<1>3. P = Nat
  <2>1. P \in SUBSET Nat
    OBVIOUS
  <2> HIDE DEF P
  <2> QED
    BY <1>1, <1>2, <2>1, NatInductionSet
<1>4. m \in P
  BY <1>3
<1> QED
  BY <1>4

LEMMA StripIsKept ==
  ASSUME NEW s \in Seq(Tokens)
  PROVE  stripTrailingCommas(s) = Kept(s, Trailing(s), Len(s))
BY KeptSteps DEF stripTrailingCommas, Trailing

\* Where a comma and the closer after it stand at the end.
AtEnd(s, t) == /\ Len(s) # 0 /\ s[Len(s)] = "comma"
               /\ Quiet(After(s)[Len(s) - 1]) /\ t \in Closers

LEMMA TrailingOneMore ==
  ASSUME NEW s \in Seq(Tokens), NEW t \in Tokens, NEW k \in 1 .. Len(s)
  PROVE  k \in Trailing(Append(s, t)) <=> k \in Trailing(s) \/ (k = Len(s) /\ AtEnd(s, t))
<1> DEFINE u == Append(s, t)
           n == Len(s)
<1>1. /\ n \in Nat /\ Len(u) = n + 1 /\ u[n + 1] = t
      /\ \A i \in 1 .. n : u[i] = s[i]
      /\ \A i \in 0 .. n : After(u)[i] = After(s)[i]
  BY OneMore
<1> HIDE DEF u
<1>2. k \in 1 .. n /\ k \in 1 .. Len(u) /\ k < Len(u) /\ k - 1 \in 0 .. n /\ n # 0
  BY <1>1
<1>3. u[k] = s[k] /\ After(u)[k - 1] = After(s)[k - 1]
  BY <1>1, <1>2
<1>4. CASE k = n
  <2>1. u[k + 1] = t /\ ~ (k < Len(s))
    BY <1>1, <1>4
  <2>2. k \notin Trailing(s)
    BY <2>1 DEF Trailing
  <2>3. k \in Trailing(u) <=> s[k] = "comma" /\ Quiet(After(s)[k - 1]) /\ t \in Closers
    BY <1>2, <1>3, <2>1 DEF Trailing
  <2>4. AtEnd(s, t) <=> s[k] = "comma" /\ Quiet(After(s)[k - 1]) /\ t \in Closers
    BY <1>2, <1>4 DEF AtEnd
  <2> QED
    BY <1>4, <2>2, <2>3, <2>4, Zenon DEF u
<1>5. CASE k # n
  <2>1. k + 1 \in 1 .. n /\ k < Len(s)
    BY <1>2, <1>5
  <2>2. u[k + 1] = s[k + 1]
    BY <1>1, <2>1
  <2>3. k \in Trailing(u) <=> s[k] = "comma" /\ Quiet(After(s)[k - 1])
        /\ s[k + 1] \in Closers
    BY <1>2, <1>3, <2>2 DEF Trailing
  <2>4. k \in Trailing(s) <=> s[k] = "comma" /\ Quiet(After(s)[k - 1])
        /\ s[k + 1] \in Closers
    BY <2>1 DEF Trailing
  <2> QED
    BY <1>5, <2>3, <2>4, Zenon DEF u
<1> QED
  BY <1>4, <1>5 DEF u

LEMMA StripOneMore ==
  ASSUME NEW s \in Seq(Tokens), NEW t \in Tokens, ~ AtEnd(s, t)
  PROVE  stripTrailingCommas(Append(s, t)) = Append(stripTrailingCommas(s), t)
<1> DEFINE u == Append(s, t)
           n == Len(s)
           i == n + 1
<1>1. u \in Seq(Tokens) /\ n \in Nat /\ Len(u) = n + 1 /\ u[n + 1] = t
      /\ \A k \in 1 .. n : u[k] = s[k]
  BY OneMore
<1>2. \A k \in 1 .. n : k \in Trailing(u) <=> k \in Trailing(s)
  BY TrailingOneMore
<1> HIDE DEF u
<1>3. i \notin Trailing(u) /\ i \in 1 .. Len(u) /\ i - 1 = n /\ u[i] = t /\ Len(u) = i
  BY <1>1 DEF Trailing
<1> HIDE DEF i
<1>4. Kept(u, Trailing(u), i) = Append(Kept(u, Trailing(u), n), t)
  BY <1>1, <1>3, KeptStep
<1>5. Kept(u, Trailing(u), n) = Kept(s, Trailing(s), n)
  <2>1. n <= Len(u) /\ n <= Len(s)
    BY <1>1
  <2> HIDE DEF n
  <2> QED
    BY <1>1, <1>2, <2>1, KeptAlike
<1> HIDE DEF n
<1>6. stripTrailingCommas(u) = Kept(u, Trailing(u), i)
  BY <1>1, <1>3, StripIsKept
<1>7. stripTrailingCommas(s) = Kept(s, Trailing(s), n)
  BY StripIsKept DEF n
<1> QED
  BY <1>4, <1>5, <1>6, <1>7 DEF u

LEMMA StripTwoMore ==
  ASSUME NEW s \in Seq(Tokens), NEW t \in Closers, Quiet(After(s)[Len(s)])
  PROVE  stripTrailingCommas(Append(Append(s, "comma"), t)) =
           Append(stripTrailingCommas(s), t)
<1> DEFINE c == Append(s, "comma")
           u == Append(c, t)
           n == Len(s)
           i == n + 1
           m == n + 2
<1>1. t \in Tokens /\ "comma" \in Tokens /\ "comma" \notin Closers
  BY DEF Tokens, Closers
<1>2. c \in Seq(Tokens) /\ n \in Nat /\ Len(c) = n + 1 /\ c[n + 1] = "comma"
      /\ (\A k \in 1 .. n : c[k] = s[k]) /\ \A k \in 0 .. n : After(c)[k] = After(s)[k]
  BY <1>1, OneMore
<1>3. \A k \in 1 .. n : k \in Trailing(c) <=> k \in Trailing(s)
  BY <1>1, TrailingOneMore DEF AtEnd
<1> HIDE DEF c
<1>4. u \in Seq(Tokens) /\ Len(u) = n + 2 /\ u[n + 2] = t
      /\ \A k \in 1 .. n + 1 : u[k] = c[k]
  BY <1>1, <1>2, OneMore
<1>5. \A k \in 1 .. n + 1 :
        k \in Trailing(u) <=> k \in Trailing(c) \/ (k = n + 1 /\ AtEnd(c, t))
  BY <1>1, <1>2, TrailingOneMore
<1>6. AtEnd(c, t)
  <2>1. n \in 0 .. n /\ Len(c) - 1 = n /\ Len(c) # 0
    BY <1>2
  <2> QED
    BY <1>2, <2>1 DEF AtEnd
<1> HIDE DEF u
<1>7. /\ i \in Trailing(u) /\ i \in 1 .. Len(u) /\ i - 1 = n
      /\ m \notin Trailing(u) /\ m \in 1 .. Len(u) /\ m - 1 = i /\ u[m] = t /\ Len(u) = m
  BY <1>2, <1>4, <1>5, <1>6 DEF Trailing
<1>8. \A k \in 1 .. n : u[k] = s[k] /\ (k \in Trailing(u) <=> k \in Trailing(s))
  BY <1>2, <1>3, <1>4, <1>5
<1>9. Kept(u, Trailing(u), n) = Kept(s, Trailing(s), n)
  <2>1. n <= Len(u) /\ n <= Len(s)
    BY <1>2, <1>4
  <2> HIDE DEF n
  <2> QED
    BY <1>2, <1>4, <1>8, <2>1, KeptAlike
<1> HIDE DEF n, i, m
<1>10. Kept(u, Trailing(u), i) = Kept(u, Trailing(u), n)
  BY <1>4, <1>7, KeptStep
<1>11. Kept(u, Trailing(u), m) = Append(Kept(u, Trailing(u), i), t)
  <2>1. Kept(u, Trailing(u), m) = Append(Kept(u, Trailing(u), m - 1), u[m])
    BY <1>4, <1>7, KeptStep, Zenon
  <2> QED
    BY <1>7, <2>1
<1>12. stripTrailingCommas(u) = Kept(u, Trailing(u), m)
  BY <1>4, <1>7, StripIsKept
<1>13. stripTrailingCommas(s) = Kept(s, Trailing(s), n)
  BY StripIsKept DEF n
<1> QED
  BY <1>9, <1>10, <1>11, <1>12, <1>13 DEF u, c

\* What is known of an object written with trailing commas up to its token k:
\* the walk is where the object's is, and stripping gives back the object.
SpacedWell(o, k) ==
  LET s == Spaced(o, k)
  IN  /\ s \in Seq(Tokens) /\ k <= Len(s)
      /\ After(s)[Len(s)] = After(o)[k]
      /\ stripTrailingCommas(s) = SubSeq(o, 1, k)
      /\ k # 0 => s[1] = "lbrace"
      /\ \A i \in Ends(s) : i = Len(s) /\ k = Len(o)
      /\ k = Len(o) => Len(s) \in Ends(s) /\ Len(o) < Len(s)

LEMMA SpacedStart ==
  ASSUME NEW o, Object(o) PROVE SpacedWell(o, 0)
<1>1. o \in Seq(Tokens) /\ Len(o) # 0 /\ SubSeq(o, 1, 0) = <<>>
  BY ObjectFacts
<1>2. Spaced(o, 0) = <<>>
  BY <1>1, SpacedSteps
<1>3. <<>> \in Seq(Tokens) /\ Len(<<>>) = 0
  OBVIOUS
<1>4. After(<<>>)[0] = Outside(<<>>, 0) /\ After(o)[0] = Outside(<<>>, 0)
  BY <1>1, <1>3, AfterSteps
<1>5. Ends(<<>>) = {}
  BY <1>3 DEF Ends
<1>6. stripTrailingCommas(<<>>) = <<>>
  <2>1. Kept(<<>>, Trailing(<<>>), 0) = <<>>
    BY <1>3, KeptSteps
  <2> QED
    BY <1>3, <2>1, StripIsKept
<1> DEFINE s == <<>>
           p == SubSeq(o, 1, 0)
<1>7. /\ Spaced(o, 0) = s /\ s \in Seq(Tokens) /\ Len(s) = 0 /\ Ends(s) = {}
      /\ After(s)[0] = After(o)[0] /\ stripTrailingCommas(s) = p
  BY <1>1, <1>2, <1>3, <1>4, <1>5, <1>6
<1> HIDE DEF s, p
<1>8. 0 <= Len(s) /\ 0 # Len(o)
  BY <1>1, <1>7
<1> QED
  BY <1>7, <1>8 DEF SpacedWell, p

\* A closing bracket outside strings is given a comma, which is dropped again.
LEMMA SpacedCloser ==
  ASSUME NEW o, Object(o), NEW k \in 1 .. Len(o), SpacedWell(o, k - 1),
         o[k] \in Closers, Quiet(After(o)[k - 1])
  PROVE  SpacedWell(o, k)
<1> DEFINE s == Spaced(o, k - 1)
           t == o[k]
           c == Append(s, "comma")
           u == Append(c, t)
           n == Len(s)
<1>1. /\ o \in Seq(Tokens) /\ Len(o) \in Nat /\ k \in Nat /\ k # 0 /\ o[1] = "lbrace"
      /\ t \in Tokens /\ k - 1 # Len(o) /\ t \in Closers
  BY ObjectFacts
<1>2. Spaced(o, k) = u
  BY <1>1, SpacedStep
<1>3. /\ s \in Seq(Tokens) /\ k - 1 <= n /\ n \in Nat
      /\ After(s)[n] = After(o)[k - 1]
      /\ stripTrailingCommas(s) = SubSeq(o, 1, k - 1)
      /\ k - 1 # 0 => s[1] = "lbrace"
      /\ Ends(s) = {}
  BY <1>1 DEF SpacedWell
<1> HIDE DEF s
<1>4. "comma" \in Tokens /\ "comma" \notin Openers \union Closers /\ "comma" # "'"
  BY DEF Tokens, Openers, Closers
<1>5. /\ c \in Seq(Tokens) /\ Len(c) = n + 1 /\ (\A i \in 1 .. n : c[i] = s[i])
      /\ After(c)[n + 1] = Walk(After(s)[n], "comma") /\ After(s)[n] \in Walks
  BY <1>3, <1>4, OneMore
<1>6. After(c)[n + 1] = After(o)[k - 1]
  <2>1. Walk(After(o)[k - 1], "comma") = After(o)[k - 1]
    BY <1>4 DEF Walk, Quiet
  <2> QED
    BY <1>3, <1>5, <2>1
<1>7. Ends(c) = {}
  BY <1>3, <1>4, EndsOneMore
<1> HIDE DEF c
<1>8. /\ u \in Seq(Tokens) /\ Len(u) = n + 2 /\ (\A i \in 1 .. n + 1 : u[i] = c[i])
      /\ After(u)[n + 2] = Walk(After(c)[n + 1], t)
  <2> DEFINE m == n + 1
  <2>1. Len(c) = m /\ m + 1 = n + 2
    BY <1>3, <1>5
  <2> HIDE DEF m
  <2>2. /\ u \in Seq(Tokens) /\ Len(u) = m + 1 /\ (\A i \in 1 .. m : u[i] = c[i])
        /\ After(u)[m + 1] = Walk(After(c)[m], t)
    BY <1>1, <1>5, <2>1, OneMore
  <2> QED
    BY <2>1, <2>2 DEF m
<1>9. After(u)[n + 2] = After(o)[k]
  BY <1>1, <1>6, <1>8, AfterStep
<1>10. \A i \in Ends(u) : i = n + 2 /\ After(o)[k].depth = 0
  <2>1. \A i \in Ends(u) : i = Len(c) + 1 /\ Walk(After(c)[Len(c)], t).depth = 0
    BY <1>1, <1>5, <1>7, EndsOneMore
  <2> DEFINE m == Len(c)
  <2>2. m = n + 1 /\ m + 1 = n + 2 /\ n \in Nat
    BY <1>3, <1>5
  <2> QED
    BY <1>8, <1>9, <2>1, <2>2
<1>11. k = Len(o) => n + 2 \in Ends(u)
  <2> SUFFICES ASSUME k = Len(o) PROVE n + 2 \in Ends(u)
    OBVIOUS
  <2>1. After(o)[k].depth = 0
    BY ObjectCloses
  <2>2. n + 2 = Len(c) + 1
    BY <1>3, <1>5
  <2>3. Quiet(After(c)[Len(c)]) /\ Walk(After(c)[Len(c)], t).depth = 0
    BY <1>5, <1>6, <1>8, <1>9, <2>1
  <2> QED
    BY <1>1, <1>5, <2>2, <2>3, EndsOneMore
<1>12. stripTrailingCommas(u) = SubSeq(o, 1, k)
  <2>1. stripTrailingCommas(u) = Append(stripTrailingCommas(s), t)
    BY <1>1, <1>3, StripTwoMore DEF c
  <2> QED
    BY <1>1, <1>3, <2>1, PrefixOneMore
<1>13. u[1] = "lbrace"
  <2>1. k # 1
    BY <1>1 DEF Closers
  <2>2. k - 1 # 0 /\ 1 \in 1 .. n /\ 1 \in 1 .. n + 1
    BY <1>1, <1>3, <2>1
  <2> QED
    BY <1>3, <1>5, <1>8, <2>2
<1> HIDE DEF u, n, t
<1>14. \A i \in Ends(u) : i = n + 2 /\ k = Len(o)
  <2>1. k # Len(o) => k \in 1 .. Len(o) - 1
    BY <1>1
  <2> QED
    BY <1>10, <2>1, DeepBefore
<1>15. k <= n + 2 /\ k < n + 2
  BY <1>1, <1>3
<1>16. k = Len(o) => Len(o) < n + 2
  BY <1>15
<1> QED
  BY <1>2, <1>8, <1>9, <1>11, <1>12, <1>13, <1>14, <1>15, <1>16 DEF SpacedWell

\* Every other token is copied.
LEMMA SpacedCopy ==
  ASSUME NEW o, Object(o), NEW k \in 1 .. Len(o), SpacedWell(o, k - 1),
         ~ (o[k] \in Closers /\ Quiet(After(o)[k - 1]))
  PROVE  SpacedWell(o, k)
<1> DEFINE s == Spaced(o, k - 1)
           t == o[k]
           u == Append(s, t)
           n == Len(s)
<1>1. /\ o \in Seq(Tokens) /\ Len(o) \in Nat /\ k \in Nat /\ k # 0 /\ o[1] = "lbrace"
      /\ t \in Tokens /\ k - 1 # Len(o) /\ k # Len(o)
  BY ObjectFacts, ObjectCloses
<1>2. Spaced(o, k) = u
  BY <1>1, SpacedStep
<1>3. /\ s \in Seq(Tokens) /\ k - 1 <= n /\ n \in Nat
      /\ After(s)[n] = After(o)[k - 1]
      /\ stripTrailingCommas(s) = SubSeq(o, 1, k - 1)
      /\ k - 1 # 0 => s[1] = "lbrace"
      /\ Ends(s) = {}
  BY <1>1 DEF SpacedWell
<1> HIDE DEF s
<1>4. /\ u \in Seq(Tokens) /\ Len(u) = n + 1 /\ u[n + 1] = t
      /\ (\A i \in 1 .. n : u[i] = s[i])
      /\ After(u)[n + 1] = Walk(After(s)[n], t) /\ After(s)[n] \in Walks
  BY <1>1, <1>3, OneMore
<1>5. After(u)[n + 1] = After(o)[k]
  BY <1>1, <1>3, <1>4, AfterStep
<1>6. Ends(u) = {}
  BY <1>1, <1>3, EndsOneMore
<1>7. ~ AtEnd(s, t)
  <2> SUFFICES ASSUME AtEnd(s, t) PROVE FALSE
    OBVIOUS
  <2>1. /\ n # 0 /\ s[n] = "comma" /\ Quiet(After(s)[n - 1]) /\ t \in Closers
    BY DEF AtEnd
  <2>2. n \in 1 .. Len(s)
    BY <1>3, <2>1
  <2>3. After(s)[n] = Walk(After(s)[n - 1], "comma")
    <3> HIDE DEF n
    <3> QED
      BY <1>3, <2>1, <2>2, AfterStep
  <2>4. Walk(After(s)[n - 1], "comma") = After(s)[n - 1]
    BY <2>1 DEF Walk, Quiet, Openers, Closers
  <2>5. Quiet(After(o)[k - 1])
    BY <1>3, <2>1, <2>3, <2>4
  <2> QED
    BY <2>1, <2>5
<1>8. stripTrailingCommas(u) = SubSeq(o, 1, k)
  <2>1. stripTrailingCommas(u) = Append(stripTrailingCommas(s), t)
    BY <1>1, <1>3, <1>7, StripOneMore
  <2> QED
    BY <1>1, <1>3, <2>1, PrefixOneMore
<1>9. u[1] = "lbrace"
  <2>1. CASE k = 1
    <3>1. n = 0
      <4>1. s = <<>>
        BY <1>1, <2>1, SpacedSteps DEF s
      <4> QED
        BY <4>1
    <3> QED
      BY <1>1, <1>4, <2>1, <3>1
  <2>2. CASE k # 1
    <3>1. k - 1 # 0 /\ 1 \in 1 .. n
      BY <1>1, <1>3, <2>2
    <3> QED
      BY <1>3, <1>4, <3>1
  <2> QED
    BY <2>1, <2>2
<1> HIDE DEF u, n, t
<1>10. k <= n + 1
  BY <1>1, <1>3
<1> QED
  BY <1>1, <1>2, <1>4, <1>5, <1>6, <1>8, <1>9, <1>10 DEF SpacedWell

LEMMA SpacedAll ==
  ASSUME NEW o, Object(o) PROVE SpacedWell(o, Len(o))
<1> DEFINE P == {k \in Nat : k <= Len(o) => SpacedWell(o, k)}
<1>1. Len(o) \in Nat
  BY ObjectFacts
<1>2. 0 \in P
  BY SpacedStart
<1>3. ASSUME NEW k \in P PROVE k + 1 \in P
  <2> SUFFICES ASSUME k + 1 <= Len(o) PROVE SpacedWell(o, k + 1)
    OBVIOUS
  <2> DEFINE i == k + 1
  <2>1. i \in 1 .. Len(o) /\ i - 1 = k /\ SpacedWell(o, k)
    BY <1>1
  <2> HIDE DEF i
  <2>2. SpacedWell(o, i - 1)
    BY <2>1
  <2>3. SpacedWell(o, i)
    BY <2>1, <2>2, SpacedCloser, SpacedCopy
  <2> QED
    BY <2>3 DEF i
<1>4. P = Nat
  <2>1. P \in SUBSET Nat
    OBVIOUS
  <2> HIDE DEF P
  <2> QED
    BY <1>2, <1>3, <2>1, NatInductionSet
<1> QED
  BY <1>1, <1>4

\* An object with trailing commas is returned without them.
LEMMA CommasRepaired ==
  ASSUME NEW o, Object(o)
  PROVE  /\ WithCommas(o) \o <<"x">> \in Seq(Tokens)
         /\ extractAndRepairJSON(WithCommas(o) \o <<"x">>) =
              [json |-> o, repaired |-> TRUE, ok |-> TRUE]
<1> DEFINE c == WithCommas(o)
           u == Append(c, "x")
           n == Len(c)
<1>1. o \in Seq(Tokens) /\ Len(o) \in Nat /\ Len(o) >= 2 /\ SubSeq(o, 1, Len(o)) = o
  BY ObjectFacts
<1>2. c = Spaced(o, Len(o))
  BY <1>1, SpacedSteps
<1>3. /\ c \in Seq(Tokens) /\ stripTrailingCommas(c) = o /\ c[1] = "lbrace"
      /\ (\A i \in Ends(c) : i = n) /\ n \in Ends(c) /\ Len(o) < n
  BY <1>1, <1>2, SpacedAll DEF SpacedWell
<1> HIDE DEF c
<1>4. n \in Nat /\ n > 2 /\ c # o
  BY <1>1, <1>3
<1>5. "x" \in Tokens /\ "x" \notin Closers
  BY DEF Tokens, Closers
<1>6. /\ u \in Seq(Tokens) /\ Len(u) = n + 1 /\ (\A i \in 1 .. n : u[i] = c[i])
      /\ c \o <<"x">> = u
  <2>1. c \o <<"x">> = u
    BY <1>3, <1>5
  <2> QED
    BY <1>3, <1>5, <2>1, OneMore
<1>7. \A i : i \in Ends(u) <=> i = n
  BY <1>3, <1>5, EndsOneMore
<1> HIDE DEF u
<1>8. ObjectEnd(u) = n
  <2>1. ObjectEnd(u) = IF Ends(u) = {} THEN 0
                       ELSE CHOOSE k \in Ends(u) : \A i \in Ends(u) : k <= i
    BY DEF ObjectEnd, Ends
  <2> HIDE DEF n
  <2>2. Ends(u) \in SUBSET Nat /\ n \in Ends(u) /\ \A i \in Ends(u) : n <= i
    BY <1>4, <1>7
  <2>3. (CHOOSE k \in Ends(u) : \A i \in Ends(u) : k <= i) = n
    BY <2>2, LeastChosen
  <2> QED
    BY <2>1, <2>2, <2>3
<1>9. SubSeq(u, 1, n) = c
  <2> HIDE DEF n
  <2>1. SubSeq(u, 1, n) = [i \in 1 .. n |-> u[i]]
    BY <1>4, <1>6
  <2>2. c = [i \in 1 .. n |-> c[i]]
    BY <1>3 DEF n
  <2> QED
    BY <1>6, <2>1, <2>2
<1>10. extractAndRepairJSON(u) = Repaired(u)
  <2>1. 1 \in 1 .. Len(u) /\ u[1] = "lbrace" /\ SubSeq(u, 1, Len(u)) = u
    BY <1>3, <1>4, <1>6
  <2>2. \A k \in 1 .. Len(u) : u[k] = "lbrace" => 1 <= k
    OBVIOUS
  <2> QED
    BY <1>6, <2>1, <2>2, FromFirstBrace
<1> HIDE DEF n
<1>11. IsJSON(o) /\ n # 0
  BY <1>4 DEF Object
<1>12. Repaired(u) = [json |-> o, repaired |-> TRUE, ok |-> TRUE]
  <2>1. stripTrailingCommas(SubSeq(u, 1, n)) = o /\ o # SubSeq(u, 1, n)
    BY <1>3, <1>4, <1>9
  <2> QED
    BY <1>8, <1>11, <2>1, Zenon DEF Repaired
<1> QED
  BY <1>6, <1>10, <1>12 DEF c

-----------------------------------------------------------------------------
(* What the repair makes of each answer a model may give.                  *)

\* Nothing is made of an answer that was cut before its first token.
LEMMA NothingRepaired ==
  /\ extractAndRepairJSON(<<>>) = [json |-> <<>>, repaired |-> FALSE, ok |-> FALSE]
  /\ Parse(<<>>).want = "value"
<1>1. {k \in 1 .. Len(<<>>) : <<>>[k] = "lbrace"} = {}
  OBVIOUS
<1>2. extractAndRepairJSON(<<>>) = [json |-> <<>>, repaired |-> FALSE, ok |-> FALSE]
  BY <1>1, Zenon DEF extractAndRepairJSON
<1>3. <<>> \in Seq(Tokens) /\ Len(<<>>) = 0
  OBVIOUS
<1>4. Parse(<<>>) = [stack |-> <<>>, want |-> "value"]
  <2>1. Read(<<>>, 0) = [stack |-> <<>>, want |-> "value"]
        /\ Read(<<>>, Len(<<>>)) = Parse(<<>>)
    BY <1>3, ReadEnds
  <2> QED
    BY <1>3, <2>1
<1> QED
  BY <1>2, <1>4

\* What the repair makes of an output, in the words of RepairFaithful.
Faithful(out, got) ==
  LET end      == Parse(OutputText(out))
      comma    == out.kept > 0 /\ out.of[out.kept] = "comma"
      closable == \/ end.want \in {"more", "item", "member", "text"}
                  \/ end.want \in {"key", "value"} /\ comma
      field    == FieldOf(got.json)
  IN  IF out.form = "cut"
      THEN /\ got.ok <=> closable
           /\ got.ok => /\ got.repaired
                        /\ field.kind \in {"none", FieldOf(out.of).kind}
                        /\ field.count <= FieldOf(out.of).count
      ELSE got = [json |-> out.of, repaired |-> out.form = "commas", ok |-> TRUE]

LEMMA OutputForms ==
  ASSUME NEW out \in Outputs
  PROVE  /\ out.of \in Objects
         /\ \/ out.form = "whole" /\ out.kept = 0
            \/ out.form = "commas" /\ out.kept = 0
            \/ out.form = "cut" /\ out.kept \in 0 .. Len(out.of) - 1
BY DEF Outputs

LEMMA WholeFaithful ==
  ASSUME NEW out \in Outputs, out.form = "whole"
  PROVE  LET got == extractAndRepairJSON(OutputText(out))
         IN  Faithful(out, got) /\ got.json \in Seq(Tokens)
<1> DEFINE o == out.of
<1>1. Object(o) /\ o \in Seq(Tokens)
  BY OutputForms, ObjectsAre, ObjectFacts
<1>2. OutputText(out) = <<"x">> \o o \o <<"x", "rbrace">>
  BY DEF OutputText
<1>3. extractAndRepairJSON(OutputText(out)) =
        [json |-> o, repaired |-> FALSE, ok |-> TRUE]
  BY <1>1, <1>2, WholeRepaired
<1> DEFINE got == extractAndRepairJSON(OutputText(out))
<1> HIDE DEF got
<1>4. got = [json |-> out.of, repaired |-> FALSE, ok |-> TRUE]
  BY <1>3 DEF got
<1>5. out.form # "cut" /\ (out.form = "commas") = FALSE
  OBVIOUS
<1>6. Faithful(out, got)
  BY <1>4, <1>5, Zenon DEF Faithful
<1>7. got.json \in Seq(Tokens)
  BY <1>1, <1>4
<1> QED
  BY <1>6, <1>7 DEF got

LEMMA CommasFaithful ==
  ASSUME NEW out \in Outputs, out.form = "commas"
  PROVE  LET got == extractAndRepairJSON(OutputText(out))
         IN  Faithful(out, got) /\ got.json \in Seq(Tokens)
<1> DEFINE o == out.of
<1>1. Object(o) /\ o \in Seq(Tokens)
  BY OutputForms, ObjectsAre, ObjectFacts
<1>2. OutputText(out) = WithCommas(o) \o <<"x">>
  BY DEF OutputText
<1>3. extractAndRepairJSON(OutputText(out)) =
        [json |-> o, repaired |-> TRUE, ok |-> TRUE]
  BY <1>1, <1>2, CommasRepaired
<1> DEFINE got == extractAndRepairJSON(OutputText(out))
<1> HIDE DEF got
<1>4. got = [json |-> out.of, repaired |-> TRUE, ok |-> TRUE]
  BY <1>3 DEF got
<1>5. out.form # "cut" /\ (out.form = "commas") = TRUE
  OBVIOUS
<1>6. Faithful(out, got)
  BY <1>4, <1>5, Zenon DEF Faithful
<1>7. got.json \in Seq(Tokens)
  BY <1>1, <1>4
<1> QED
  BY <1>6, <1>7 DEF got

LEMMA CutFaithful ==
  ASSUME NEW out \in Outputs, out.form = "cut"
  PROVE  LET got == extractAndRepairJSON(OutputText(out))
         IN  Faithful(out, got) /\ got.json \in Seq(Tokens)
<1> DEFINE o == out.of
           m == out.kept
           text == OutputText(out)
           got == extractAndRepairJSON(text)
<1>1. /\ Object(o) /\ o \in Seq(Tokens) /\ Len(o) \in Nat /\ o \in Objects
      /\ m \in 0 .. Len(o) - 1
  BY OutputForms, ObjectsAre, ObjectFacts
<1>2. text = SubSeq(o, 1, m)
  BY DEF OutputText
<1> HIDE DEF text
<1>3. CASE m = 0
  <2>1. text = <<>>
    BY <1>1, <1>2, <1>3
  <2>2. got.json = <<>> /\ got.ok = FALSE /\ Parse(text).want = "value" /\ ~ (m > 0)
    BY <1>3, <2>1, NothingRepaired
  <2>3. Faithful(out, got)
    BY <2>2 DEF Faithful, text
  <2>4. <<>> \in Seq(Tokens)
    OBVIOUS
  <2> QED
    BY <2>2, <2>3, <2>4 DEF text
<1>4. CASE m # 0
  <2>1. m \in 1 .. Len(o) - 1 /\ m > 0
    BY <1>1, <1>4
  <2> DEFINE want == Read(o, m).want
  <2>2. Parse(text).want = want
    BY <1>2 DEF Read
  <2>3. /\ got.ok <=> \/ want \in {"more", "item", "member", "text"}
                      \/ want \in {"key", "value"} /\ o[m] = "comma"
        /\ got.ok => got.repaired
    BY <1>1, <1>2, <2>1, CutRepaired
  <2>4. got.ok => got.json \in Seq(Tokens)
    BY <1>1, <1>2, <2>1, CutRepaired DEF CutAt
  <2>5. ~ got.ok => got.json = <<>>
    BY Zenon DEF extractAndRepairJSON
  <2>6. got.ok => /\ FieldOf(got.json).kind \in {"none", FieldOf(o).kind}
                  /\ FieldOf(got.json).count <= FieldOf(o).count
    BY <1>1, <1>2, <2>1, CutField
  <2> HIDE DEF got, want
  <2>7. Faithful(out, got)
    BY <2>1, <2>2, <2>3, <2>6, Zenon DEF Faithful, text
  <2>8. got.json \in Seq(Tokens)
    <3>1. <<>> \in Seq(Tokens)
      OBVIOUS
    <3> QED
      BY <2>4, <2>5, <3>1
  <2> QED
    BY <2>7, <2>8 DEF got, text
<1> QED
  BY <1>3, <1>4

LEMMA AnswerFacts ==
  ASSUME NEW a \in Answers
  PROVE  /\ a.field.kind \in {"none", "scalar", "list"} /\ a.field.count \in Nat
         /\ a.field.kind # "list" => a.field.count = 0
         /\ a.output.form = "cut" /\ a.got.ok => a.got.repaired
         /\ Faithful(a.output, a.got) /\ a.field = FieldOf(a.got.json)
<1>1. PICK out \in Outputs :
        a = [output |-> out, got |-> extractAndRepairJSON(OutputText(out)),
             field |-> FieldOf(extractAndRepairJSON(OutputText(out)).json)]
  BY DEF Answers
<1> DEFINE got == extractAndRepairJSON(OutputText(out))
<1>2. Faithful(out, got) /\ got.json \in Seq(Tokens)
  BY OutputForms, WholeFaithful, CommasFaithful, CutFaithful
<1> HIDE DEF got
<1>3. a.output = out /\ a.got = got /\ a.field = FieldOf(got.json)
  BY <1>1 DEF got
<1>4. /\ a.field.kind \in {"none", "scalar", "list"} /\ a.field.count \in Nat
      /\ a.field.kind # "list" => a.field.count = 0
  BY <1>2, <1>3, FieldType
<1>5. out.form = "cut" /\ got.ok => got.repaired
  BY <1>2, Zenon DEF Faithful
<1> QED
  BY <1>2, <1>3, <1>4, <1>5

LEMMA AnswerFaithful ==
  ASSUME answer \in Answers PROVE RepairFaithful
<1>1. Faithful(answer.output, answer.got) /\ answer.field = FieldOf(answer.got.json)
  BY AnswerFacts
<1> QED
  BY <1>1, Zenon DEF Faithful, RepairFaithful

-----------------------------------------------------------------------------
(* The merge.                                                              *)

Before(x, y) == x[1] < y[1] \/ (x[1] = y[1] /\ x[2] < y[2])

Place == Nat \X Nat

\* What chunk c may give: nothing, a scalar, or a list of its own items.
Field(c, f) ==
  /\ f.kind \in {"none", "scalar", "list"}
  /\ f.items \in Seq(Place)
  /\ \A k \in 1 .. Len(f.items) : f.items[k] = <<c, k>>
  /\ f.kind # "list" => f.items = <<>>

\* Each chunk that is done has given a field or was skipped, the first one has
\* given one, and a truncated one has left its mark.
Accounted ==
  /\ at \in Nat
  /\ at > 0 => total \in Nat \ {0} /\ at <= total + 1
  /\ outcome = "ok" => at > 0 /\ at = total + 1
  /\ answer = NoAnswer \/ answer \in Answers
  /\ skipped \subseteq 2 .. (at - 1)
  /\ DOMAIN given \subseteq 1 .. (at - 1)
  /\ \A c \in 1 .. (at - 1) : (c \in skipped) <=> (c \notin DOMAIN given)
  /\ cut => repaired

\* The merged list holds the items that chunks gave, in their order.
Lists(items, fields) ==
  /\ items \in Seq(Place)
  /\ \A i \in 1 .. Len(items) :
        \E c \in DOMAIN fields : \E k \in 1 .. Len(fields[c].items) :
           items[i] = fields[c].items[k]
  /\ \A c \in DOMAIN fields : \A k \in 1 .. Len(fields[c].items) :
        \E i \in 1 .. Len(items) : items[i] = fields[c].items[k]
  /\ \A i, j \in 1 .. Len(items) : i < j => Before(items[i], items[j])

Merged ==
  /\ \A c \in DOMAIN given : Field(c, given[c])
  /\ at > 1 =>
       IF given[1].kind = "scalar" THEN base = given[1]
       ELSE base.kind \in {"none", "list"} /\ Lists(base.items, given)

MergeInv == Accounted /\ Merged

\* An answer gives a field of its chunk.
LEMMA ParsedField ==
  ASSUME NEW c \in Nat, NEW a \in Answers PROVE Field(c, Parsed(c, a))
<1>1. a.field.kind \in {"none", "scalar", "list"} /\ a.field.count \in Nat
      /\ (a.field.kind # "list" => a.field.count = 0)
  BY AnswerFacts
<1> DEFINE n == a.field.count
           s == [k \in 1 .. n |-> <<c, k>>]
<1>2. s \in Seq(Place) /\ Len(s) = n /\ \A k \in 1 .. n : s[k] = <<c, k>>
  BY <1>1 DEF Place
<1>3. Parsed(c, a).items = s /\ Parsed(c, a).kind = a.field.kind
  BY DEF Parsed
<1> HIDE DEF s, n
<1>4. n = 0 => s = <<>>
  BY <1>2
<1> QED
  BY <1>1, <1>2, <1>3, <1>4 DEF Field, n

\* The next chunk's list is appended.
LEMMA AppendList ==
  ASSUME Accounted, Merged, at > 1, NEW f, Field(at, f), NEW items, Lists(items, given)
  PROVE  Lists(items \o f.items, Given(at, f))
<1> DEFINE r == items \o f.items
           fields == Given(at, f)
<1>1. /\ items \in Seq(Place) /\ f.items \in Seq(Place)
      /\ at \in Nat /\ DOMAIN given \subseteq 1 .. (at - 1)
  BY DEF Lists, Field, Accounted
<1>2. /\ r \in Seq(Place) /\ Len(r) = Len(items) + Len(f.items)
      /\ \A i \in 1 .. Len(items) : r[i] = items[i]
      /\ \A i \in 1 .. Len(f.items) : r[i + Len(items)] = f.items[i]
      /\ Len(items) \in Nat /\ Len(f.items) \in Nat
  <2>1. \A s, t \in Seq(Place) :
          /\ s \o t \in Seq(Place) /\ Len(s \o t) = Len(s) + Len(t)
          /\ \A i \in 1 .. Len(s) : (s \o t)[i] = s[i]
          /\ \A i \in 1 .. Len(t) : (s \o t)[i + Len(s)] = t[i]
          /\ Len(s) \in Nat /\ Len(t) \in Nat
    BY Concat
  <2> QED
    BY <1>1, <2>1
<1> HIDE DEF r
<1>3. DOMAIN fields = DOMAIN given \union {at} /\ fields[at] = f
      /\ \A c \in DOMAIN given : fields[c] = given[c]
  BY <1>1 DEF Given
<1> HIDE DEF fields
<1>4. ASSUME NEW i \in 1 .. Len(r)
      PROVE  \/ i \in 1 .. Len(items) /\ r[i] = items[i]
             \/ /\ i - Len(items) \in 1 .. Len(f.items) /\ i > Len(items)
                /\ r[i] = f.items[i - Len(items)] /\ r[i] = <<at, i - Len(items)>>
  <2>1. CASE i <= Len(items)
    BY <1>2, <2>1
  <2>2. CASE i > Len(items)
    <3> DEFINE k == i - Len(items)
    <3>1. k \in 1 .. Len(f.items) /\ i = k + Len(items)
      BY <1>2, <2>2
    <3> HIDE DEF k
    <3>2. r[i] = f.items[k] /\ f.items[k] = <<at, k>>
      BY <1>2, <3>1 DEF Field
    <3> QED
      BY <2>2, <3>1, <3>2 DEF k
  <2> QED
    BY <1>2, <2>1, <2>2
<1>5. \A i \in 1 .. Len(items) : items[i] \in Place /\ items[i][1] \in 1 .. (at - 1)
  <2> SUFFICES ASSUME NEW i \in 1 .. Len(items)
               PROVE  items[i] \in Place /\ items[i][1] \in 1 .. (at - 1)
    OBVIOUS
  <2>1. PICK c \in DOMAIN given :
          \E k \in 1 .. Len(given[c].items) : items[i] = given[c].items[k]
    BY DEF Lists
  <2>2. PICK k \in 1 .. Len(given[c].items) : items[i] = given[c].items[k]
    BY <2>1
  <2>3. items[i] = <<c, k>>
    BY <2>2 DEF Merged, Field
  <2>4. items[i] \in Place
    BY <1>1, Entries
  <2>5. items[i][1] = c
    BY <2>3
  <2> QED
    BY <1>1, <2>4, <2>5
<1>6. ASSUME NEW i \in 1 .. Len(r), NEW j \in 1 .. Len(r), i < j
      PROVE  Before(r[i], r[j])
  <2>1. CASE i \in 1 .. Len(items) /\ j \in 1 .. Len(items)
    BY <1>2, <1>6, <2>1 DEF Lists
  <2>2. CASE i \in 1 .. Len(items) /\ j \notin 1 .. Len(items)
    <3>1. r[i] = items[i] /\ r[j] = <<at, j - Len(items)>>
      BY <1>2, <1>4, <2>2
    <3>2. r[i][1] \in 1 .. (at - 1) /\ r[j][1] = at
      BY <1>5, <2>2, <3>1
    <3>3. r[i][1] < r[j][1]
      BY <1>1, <3>2
    <3> QED
      BY <3>3 DEF Before
  <2>3. CASE i \notin 1 .. Len(items)
    <3>1. r[i] = <<at, i - Len(items)>> /\ r[j] = <<at, j - Len(items)>>
      <4>1. j \notin 1 .. Len(items)
        BY <1>2, <1>6, <2>3
      <4> QED
        BY <1>4, <2>3, <4>1
    <3>2. r[i][1] = at /\ r[j][1] = at /\ r[i][2] = i - Len(items)
          /\ r[j][2] = j - Len(items)
      BY <3>1
    <3>3. i - Len(items) < j - Len(items)
      BY <1>2, <1>6
    <3> QED
      BY <3>2, <3>3 DEF Before
  <2> QED
    BY <2>1, <2>2, <2>3
<1>7. ASSUME NEW i \in 1 .. Len(r)
      PROVE  \E c \in DOMAIN fields : \E k \in 1 .. Len(fields[c].items) :
                r[i] = fields[c].items[k]
  <2>1. CASE i \in 1 .. Len(items) /\ r[i] = items[i]
    <3>1. PICK c \in DOMAIN given :
            \E k \in 1 .. Len(given[c].items) : items[i] = given[c].items[k]
      BY <2>1 DEF Lists
    <3> QED
      BY <1>3, <2>1, <3>1
  <2>2. CASE i - Len(items) \in 1 .. Len(f.items) /\ r[i] = f.items[i - Len(items)]
    BY <1>3, <2>2
  <2> QED
    BY <1>4, <2>1, <2>2
<1>8. ASSUME NEW c \in DOMAIN fields, NEW k \in 1 .. Len(fields[c].items)
      PROVE  \E i \in 1 .. Len(r) : r[i] = fields[c].items[k]
  <2>1. CASE c \in DOMAIN given
    <3>1. PICK i \in 1 .. Len(items) : items[i] = given[c].items[k]
      BY <1>3, <1>8, <2>1 DEF Lists
    <3>2. i \in 1 .. Len(r) /\ r[i] = items[i]
      BY <1>2
    <3>3. fields[c].items[k] = given[c].items[k]
      BY <1>3, <2>1
    <3> QED
      BY <3>1, <3>2, <3>3
  <2>2. CASE c = at
    <3>1. k \in 1 .. Len(f.items) /\ fields[c].items[k] = f.items[k]
      BY <1>3, <1>8, <2>2
    <3>2. k + Len(items) \in 1 .. Len(r) /\ r[k + Len(items)] = f.items[k]
      BY <1>2, <3>1
    <3> QED
      BY <3>1, <3>2
  <2> QED
    BY <1>3, <2>1, <2>2
<1>9. Lists(r, fields)
  BY <1>2, <1>6, <1>7, <1>8 DEF Lists
<1> QED
  BY <1>9 DEF r, fields

\* Steps that accept no answer.
LEMMA MergeFrame ==
  ASSUME MergeInv, UNCHANGED <<base, given>>, at' \in Nat, at > 1 \/ at' <= 1
  PROVE  Merged'
<1>1. at \in Nat
  BY DEF MergeInv, Accounted
<1>2. at' > 1 => at > 1
  BY <1>1
<1> QED
  BY <1>2 DEF MergeInv, Merged

\* The answer of a chunk is merged with those of the chunks before it.
LEMMA AcceptMerges == ASSUME MergeInv, Accept PROVE Merged'
<1> DEFINE f == Parsed(at, answer)
<1>1. /\ at \in 1 .. total /\ answer \in Answers
      /\ base' = Merge(at, f) /\ given' = Given(at, f) /\ at' = at + 1
  BY DEF Accept, Pending, NextChunk, MergeInv, Accounted
<1>2. at \in Nat /\ at >= 1 /\ DOMAIN given \subseteq 1 .. (at - 1)
  BY <1>1 DEF MergeInv, Accounted
<1>3. Field(at, f)
  BY <1>1, <1>2, ParsedField
<1> HIDE DEF f
<1>4. DOMAIN given' = DOMAIN given \union {at} /\ given'[at] = f
      /\ \A c \in DOMAIN given : given'[c] = given[c]
  BY <1>1, <1>2 DEF Given
<1>5. \A c \in DOMAIN given' : Field(c, given'[c])
  BY <1>3, <1>4 DEF MergeInv, Merged
<1>6. CASE at = 1
  <2>1. DOMAIN given' = {1} /\ given'[1] = f /\ base' = f
    BY <1>1, <1>2, <1>4, <1>6 DEF Merge
  <2>2. Lists(f.items, given')
    <3>1. f.items \in Seq(Place) /\ \A k \in 1 .. Len(f.items) : f.items[k] = <<at, k>>
      BY <1>3 DEF Field
    <3>2. \A i, j \in 1 .. Len(f.items) : i < j => Before(f.items[i], f.items[j])
      <4> SUFFICES ASSUME NEW i \in 1 .. Len(f.items), NEW j \in 1 .. Len(f.items), i < j
                   PROVE  Before(f.items[i], f.items[j])
        OBVIOUS
      <4>1. f.items[i] = <<at, i>> /\ f.items[j] = <<at, j>>
        BY <3>1
      <4> QED
        BY <4>1 DEF Before
    <3> QED
      BY <2>1, <3>1, <3>2 DEF Lists
  <2> QED
    BY <1>3, <1>5, <2>1, <2>2 DEF Merged, Field
<1>7. CASE at > 1
  <2>1. 1 \in DOMAIN given /\ given'[1] = given[1]
    <3>1. 1 \in DOMAIN given
      BY <1>2, <1>7 DEF MergeInv, Accounted
    <3> QED
      BY <1>4, <3>1
  <2>2. CASE given[1].kind = "scalar"
    <3>1. base = given[1] /\ base' = base
      <4>1. base = given[1]
        BY <1>7, <2>2 DEF MergeInv, Merged
      <4>2. base.kind = "scalar"
        BY <2>2, <4>1
      <4> QED
        BY <1>1, <1>7, <4>1, <4>2 DEF Merge
    <3> QED
      BY <1>5, <2>1, <2>2, <3>1 DEF Merged
  <2>3. CASE given[1].kind # "scalar"
    <3>1. base.kind \in {"none", "list"} /\ Lists(base.items, given)
      BY <1>7, <2>3 DEF MergeInv, Merged
    <3>2. Lists(base.items \o f.items, given')
      BY <1>1, <1>3, <1>7, <3>1, AppendList DEF MergeInv
    <3>3. CASE f.kind = "list"
      <4>1. base' = [f EXCEPT !.items = base.items \o f.items]
        BY <1>1, <1>7, <3>1, <3>3 DEF Merge
      <4>2. base'.items = base.items \o f.items /\ base'.kind = f.kind
        <5>1. f = [kind |-> f.kind, items |-> f.items]
          BY DEF f, Parsed
        <5> QED
          BY <4>1, <5>1
      <4> QED
        BY <1>5, <2>1, <2>3, <3>2, <3>3, <4>2 DEF Merged
    <3>4. CASE f.kind # "list"
      <4>1. base' = base
        BY <1>1, <1>7, <3>4 DEF Merge
      <4>2. f.items = <<>> /\ base.items \in Seq(Place)
        BY <1>3, <3>1, <3>4 DEF Field, Lists
      <4>3. base.items \o f.items = base.items
        BY <4>2
      <4> QED
        BY <1>5, <2>1, <2>3, <3>1, <3>2, <4>1, <4>3 DEF Merged
    <3> QED
      BY <3>3, <3>4
  <2> QED
    BY <2>2, <2>3
<1> QED
  BY <1>2, <1>6, <1>7

LEMMA AccountedStep == ASSUME MergeInv, [Next]_vars PROVE Accounted'
<1>1. CASE Split
  BY <1>1 DEF Split, MergeInv, Accounted, mergeVars
<1>2. CASE StartInference
  BY <1>2, SizesAssumption DEF StartInference, MergeInv, Accounted, mergeVars
<1>3. CASE Infer
  BY <1>3 DEF Infer, Pending, MergeInv, Accounted, mergeVars
<1>4. CASE InferFails
  BY <1>4 DEF InferFails, MergeInv, Accounted, mergeVars
<1>5. CASE Accept
  <2>1. at \in 1 .. total /\ outcome = "running" /\ answer \in Answers /\ answer.got.ok
    BY <1>5 DEF Accept, Pending, MergeInv, Accounted
  <2>2. DOMAIN given' = DOMAIN given \union {at}
    BY <1>5 DEF Accept, Given
  <2>3. answer.output.form = "cut" => answer.got.repaired
    BY <2>1, AnswerFacts
  <2>4. /\ at' = at + 1 /\ answer' = NoAnswer /\ UNCHANGED <<total, skipped, outcome>>
        /\ cut' = (cut \/ answer.output.form = "cut")
        /\ repaired' = (repaired \/ answer.got.repaired)
    BY <1>5 DEF Accept, NextChunk
  <2>5. /\ at \in Nat /\ at > 0 /\ total \in Nat \ {0} /\ at <= total
        /\ skipped \subseteq 2 .. (at - 1) /\ DOMAIN given \subseteq 1 .. (at - 1)
        /\ \A c \in 1 .. (at - 1) : (c \in skipped) <=> (c \notin DOMAIN given)
    BY <2>1 DEF MergeInv, Accounted
  <2>6. skipped' \subseteq 2 .. (at' - 1) /\ DOMAIN given' \subseteq 1 .. (at' - 1)
    BY <2>2, <2>4, <2>5
  <2>7. ASSUME NEW c \in 1 .. (at' - 1) PROVE (c \in skipped') <=> (c \notin DOMAIN given')
    <3>1. c \in 1 .. (at - 1) \/ c = at
      BY <2>4, <2>5
    <3>2. at \notin skipped
      BY <2>5
    <3> QED
      BY <2>2, <2>4, <2>5, <3>1, <3>2
  <2>8. cut' => repaired'
    BY <2>3, <2>4 DEF MergeInv, Accounted
  <2> QED
    BY <2>1, <2>4, <2>5, <2>6, <2>7, <2>8 DEF Accounted
<1>6. CASE Retry
  BY <1>6 DEF Retry, MergeInv, Accounted, mergeVars
<1>7. CASE GiveUp
  <2>1. at \in 1 .. total /\ outcome = "running"
    BY <1>7 DEF GiveUp, Pending
  <2>2. CASE at = 1
    BY <1>7, <2>1, <2>2 DEF GiveUp, MergeInv, Accounted
  <2>3. CASE at # 1
    <3>1. /\ at' = at + 1 /\ answer' = NoAnswer /\ skipped' = skipped \union {at}
          /\ UNCHANGED <<total, outcome, given, cut, repaired>>
      BY <1>7, <2>3 DEF GiveUp, NextChunk
    <3>2. /\ at \in Nat /\ at > 1 /\ total \in Nat \ {0} /\ at <= total
          /\ skipped \subseteq 2 .. (at - 1) /\ DOMAIN given \subseteq 1 .. (at - 1)
          /\ \A c \in 1 .. (at - 1) : (c \in skipped) <=> (c \notin DOMAIN given)
          /\ (cut => repaired)
      BY <2>1, <2>3 DEF MergeInv, Accounted
    <3>3. skipped' \subseteq 2 .. (at' - 1) /\ DOMAIN given' \subseteq 1 .. (at' - 1)
      BY <3>1, <3>2
    <3>4. ASSUME NEW c \in 1 .. (at' - 1)
          PROVE  (c \in skipped') <=> (c \notin DOMAIN given')
      <4>1. c \in 1 .. (at - 1) \/ c = at
        BY <3>1, <3>2
      <4>2. at \notin DOMAIN given
        BY <3>2
      <4> QED
        BY <3>1, <3>2, <4>1, <4>2
    <3> QED
      BY <2>1, <3>1, <3>2, <3>3, <3>4 DEF Accounted
  <2> QED
    BY <2>2, <2>3
<1>8. CASE Finish
  BY <1>8 DEF Finish, MergeInv, Accounted, mergeVars
<1>9. CASE UNCHANGED vars
  BY <1>9 DEF vars, MergeInv, Accounted, mergeVars
<1> QED
  BY <1>1, <1>2, <1>3, <1>4, <1>5, <1>6, <1>7, <1>8, <1>9 DEF Next

LEMMA MergeStep == MergeInv /\ [Next]_vars => MergeInv'
<1> SUFFICES ASSUME MergeInv, [Next]_vars PROVE MergeInv'
  OBVIOUS
<1>0. Accounted' /\ at' \in Nat
  BY AccountedStep DEF Accounted
<1>1. CASE Accept
  BY <1>1, <1>0, AcceptMerges DEF MergeInv
<1>2. CASE GiveUp
  <2>1. UNCHANGED <<base, given>> /\ (at > 1 \/ at' <= 1)
    <3>1. at \in Nat /\ at \in 1 .. total /\ UNCHANGED <<base, given>>
      BY <1>2 DEF GiveUp, Pending, MergeInv, Accounted
    <3>2. at = 1 => at' = at
      BY <1>2 DEF GiveUp
    <3> QED
      BY <3>1, <3>2
  <2> QED
    BY <2>1, <1>0, MergeFrame DEF MergeInv
<1>3. CASE StartInference
  <2>1. UNCHANGED <<base, given>> /\ at' <= 1
    BY <1>3 DEF StartInference, mergeVars
  <2> QED
    BY <2>1, <1>0, MergeFrame DEF MergeInv
<1>4. CASE Split \/ Infer \/ InferFails \/ Retry \/ Finish \/ UNCHANGED vars
  <2>1. UNCHANGED <<base, given, at>>
    BY <1>4 DEF Split, Infer, InferFails, Retry, Finish, vars, mergeVars
  <2>2. at > 1 \/ at' <= 1
    BY <2>1 DEF MergeInv, Accounted
  <2> QED
    BY <2>1, <2>2, <1>0, MergeFrame DEF MergeInv
<1> QED
  BY <1>1, <1>2, <1>3, <1>4 DEF Next

THEOREM MergeInvariant == Spec => []MergeInv
<1>1. Init => MergeInv
  BY DEF Init, MergeInv, Accounted, Merged
<1> QED
  BY <1>1, MergeStep, PTL DEF Spec

\* Whatever objects the answers are made from, the repair gives back a whole
\* one as it is, one with trailing commas without them, and a truncated one
\* exactly when closing it can make it whole.
THEOREM RepairKept == Spec => []RepairFaithful
<1>1. MergeInv => RepairFaithful
  <2>1. CASE answer = NoAnswer
    BY <2>1 DEF RepairFaithful
  <2>2. CASE answer \in Answers
    BY <2>2, AnswerFaithful
  <2> QED
    BY <2>1, <2>2 DEF MergeInv, Accounted
<1> QED
  BY <1>1, MergeInvariant, PTL

\* However the chunks' answers come out, the result holds the items of each list
\* that was accepted, in order and once.
THEOREM NothingLost == Spec => []NoItemLost
<1>1. MergeInv => NoItemLost
  <2> SUFFICES ASSUME MergeInv, outcome = "ok" PROVE NoItemLost
    BY DEF NoItemLost
  <2>1. at > 1
    BY DEF MergeInv, Accounted
  <2>2. CASE given[1].kind = "scalar"
    BY <2>1, <2>2 DEF MergeInv, Merged, NoItemLost
  <2>3. CASE given[1].kind # "scalar"
    <3>1. Lists(base.items, given)
      BY <2>1, <2>3 DEF MergeInv, Merged
    <3>2. DOMAIN base.items = 1 .. Len(base.items)
          /\ \A c \in DOMAIN given : DOMAIN given[c].items = 1 .. Len(given[c].items)
      BY <3>1 DEF Lists, MergeInv, Merged, Field
    <3>3. \A i, j \in DOMAIN base.items :
             i < j => Before(base.items[i], base.items[j])
      BY <3>1, <3>2 DEF Lists
    <3>4. ASSUME NEW x \in ToSet(base.items)
          PROVE  \E c \in DOMAIN given : x \in ToSet(given[c].items)
      <4>1. PICK i \in 1 .. Len(base.items) : x = base.items[i]
        BY <3>2 DEF ToSet
      <4>2. PICK c \in DOMAIN given :
              \E k \in 1 .. Len(given[c].items) : base.items[i] = given[c].items[k]
        BY <3>1, <4>1 DEF Lists
      <4> QED
        BY <3>2, <4>1, <4>2 DEF ToSet
    <3>5. ASSUME NEW c \in DOMAIN given, NEW x \in ToSet(given[c].items)
          PROVE  x \in ToSet(base.items)
      <4>1. PICK k \in 1 .. Len(given[c].items) : x = given[c].items[k]
        BY <3>2 DEF ToSet
      <4>2. PICK i \in 1 .. Len(base.items) : base.items[i] = given[c].items[k]
        BY <3>1, <4>1 DEF Lists
      <4> QED
        BY <3>2, <4>1, <4>2 DEF ToSet
    <3>6. ToSet(base.items) = UNION {ToSet(given[c].items) : c \in DOMAIN given}
      BY <3>4, <3>5
    <3> QED
      BY <2>3, <3>3, <3>6 DEF NoItemLost, Before
  <2> QED
    BY <2>2, <2>3
<1> QED
  BY <1>1, MergeInvariant, PTL

\* A result tells what is missing from it.
THEOREM GapsTold == Spec => []GapsAreReported
<1>1. MergeInv => GapsAreReported
  BY DEF MergeInv, Accounted, GapsAreReported
<1> QED
  BY <1>1, MergeInvariant, PTL

=============================================================================
