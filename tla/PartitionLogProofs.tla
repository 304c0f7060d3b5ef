------------------------- MODULE PartitionLogProofs -------------------------
(***************************************************************************)
(* What the two scans of a partition log return, for every log.            *)
(***************************************************************************)
EXTENDS PartitionLog, SequenceTheorems, WellFoundedInduction, TLAPS

\* A non-empty set of naturals has a least element.
LEMMA LeastElement ==
    ASSUME NEW S \in SUBSET Nat, S # {}
    PROVE  \E i \in S : \A j \in S : i <= j
<1> DEFINE R == {p \in Nat \X Nat : p[1] < p[2]}
<1>1. IsWellFoundedOn(R, Nat)
  BY NatLessThanWellFounded DEF OpToRel
<1>2. PICK i \in S : \A j \in S : <<j, i>> \notin R
  BY <1>1, WFMin
<1>3. ASSUME NEW j \in S PROVE i <= j
  <2>1. i \in Nat /\ j \in Nat
    OBVIOUS
  <2>2. j < i => <<j, i>> \in R
    BY <2>1
  <2>3. <<j, i>> \notin R
    BY <1>2
  <2>4. QED
    BY <2>1, <2>2, <2>3
<1>4. QED
  BY <1>3

\* log_end_offset of a file of whole batches is an offset.
LEMMA LogEndOffsetType ==
    ASSUME NEW S, NEW log \in Seq(Batch(S))
    PROVE  LogEndOffset(log) \in Nat
<1>1. CASE log = <<>>
  BY <1>1 DEF LogEndOffset
<1>2. CASE log # <<>>
  <2>1. Len(log) \in 1 .. Len(log)
    BY <1>2, EmptySeq
  <2>2. log[Len(log)] \in Batch(S)
    BY <2>1, ElementOfSeq
  <2>3. QED
    BY <1>2, <2>2 DEF LogEndOffset, EndOffset, Batch
<1>3. QED
  BY <1>1, <1>2

\* read_log_from_offset returns batches of the log, in their order.
LEMMA ReadLogFromType ==
    ASSUME NEW S, NEW log \in Seq(Batch(S)), NEW o \in Int
    PROVE  ReadLogFrom(log, o) \in Seq(Batch(S))
<1> DEFINE hits == {i \in DOMAIN log : EndOffset(log[i]) > o}
<1> DEFINE first == CHOOSE i \in hits : \A j \in hits : i <= j
<1>1. CASE hits = {}
  BY <1>1, EmptySeq DEF ReadLogFrom
<1>2. CASE hits # {}
  <2>1. hits \in SUBSET Nat
    BY LenProperties
  <2>2. \E i \in hits : \A j \in hits : i <= j
    BY <1>2, <2>1, LeastElement
  <2>3. first \in hits
    BY <2>2
  <2>4. first \in 1 .. Len(log)
    BY <2>3, LenProperties
  <2>5. \A i \in first .. Len(log) : log[i] \in Batch(S)
    BY <2>4, ElementOfSeq, LenProperties
  <2>6. SubSeq(log, first, Len(log)) \in Seq(Batch(S))
    <3>1. first \in Int /\ Len(log) \in Int
      BY <2>4, LenProperties
    <3>2. QED
      BY <3>1, <2>5, SubSeqProperties
  <2>7. QED
    BY <1>2, <2>6 DEF ReadLogFrom
<1>3. QED
  BY <1>1, <1>2

\* The heart of handle_produce_request: a batch appended at the offset that
\* log_end_offset returns keeps the offsets contiguous.
LEMMA AppendAtEnd ==
    ASSUME NEW S, NEW log \in Seq(Batch(S)), Contiguous(log),
           NEW b \in Batch(S), b.base = LogEndOffset(log)
    PROVE  Contiguous(Append(log, b))
<1> DEFINE new == Append(log, b)
<1>1. /\ new \in Seq(Batch(S))
      /\ Len(new) = Len(log) + 1
      /\ \A i \in 1 .. Len(log) : new[i] = log[i]
      /\ new[Len(log) + 1] = b
  BY AppendProperties
<1>2. Len(log) \in Nat /\ DOMAIN log = 1 .. Len(log) /\ DOMAIN new = 1 .. Len(log) + 1
  BY <1>1, LenProperties
<1>3. SUFFICES ASSUME NEW i \in DOMAIN new
               PROVE  new[i].base = IF i = 1 THEN 0 ELSE EndOffset(new[i - 1])
  BY DEF Contiguous
<1>4. CASE i \in 1 .. Len(log)
  <2>1. i # 1 => i - 1 \in 1 .. Len(log)
    BY <1>2, <1>4
  <2>2. log[i].base = IF i = 1 THEN 0 ELSE EndOffset(log[i - 1])
    BY <1>2, <1>4 DEF Contiguous
  <2>3. QED
    BY <1>1, <1>4, <2>1, <2>2
<1>5. CASE i = Len(log) + 1 /\ log = <<>>
  BY <1>1, <1>2, <1>5, EmptySeq DEF LogEndOffset
<1>6. CASE i = Len(log) + 1 /\ log # <<>>
  <2>1. Len(log) \in 1 .. Len(log)
    BY <1>6, EmptySeq
  <2>2. i # 1 /\ i - 1 = Len(log)
    BY <1>2, <1>6, <2>1
  <2>3. QED
    BY <1>1, <1>6, <2>1, <2>2 DEF LogEndOffset
<1>7. QED
  BY <1>2, <1>4, <1>5, <1>6

-----------------------------------------------------------------------------
(* Logs with contiguous offsets. *)

LEMMA BatchFields ==
    ASSUME NEW S, NEW l \in Seq(Batch(S))
    PROVE  \A i \in 1 .. Len(l) : /\ l[i].base \in Nat /\ l[i].count \in Nat \ {0}
                                  /\ EndOffset(l[i]) \in Nat /\ l[i].base < EndOffset(l[i])
<1>1. \A i \in 1 .. Len(l) : l[i] \in Batch(S)
  BY ElementOfSeq
<1>2. QED
  BY <1>1 DEF Batch, EndOffset

\* A batch lies wholly in front of every later one.
LEMMA BatchesInOrder ==
    ASSUME NEW S, NEW l \in Seq(Batch(S)), Contiguous(l)
    PROVE  \A i \in DOMAIN l : \A j \in 1 .. i - 1 : EndOffset(l[j]) <= l[i].base
<1> DEFINE Bad == {i \in DOMAIN l : \E j \in 1 .. i - 1 : EndOffset(l[j]) > l[i].base}
<1>1. Len(l) \in Nat /\ DOMAIN l = 1 .. Len(l)
  BY LenProperties
<1>2. \A i \in 1 .. Len(l) : /\ l[i].base \in Nat
                               /\ EndOffset(l[i]) \in Nat /\ l[i].base < EndOffset(l[i])
  BY BatchFields
<1>3. ASSUME Bad # {}
      PROVE  FALSE
  <2>1. PICK i \in Bad : \A k \in Bad : i <= k
    <3>1. Bad \in SUBSET Nat
      BY <1>1
    <3>2. QED
      BY <1>3, <3>1, LeastElement
  <2>2. PICK j \in 1 .. i - 1 : EndOffset(l[j]) > l[i].base
    OBVIOUS
  <2>3. i \in 2 .. Len(l) /\ i - 1 \in 1 .. Len(l) /\ j \in 1 .. Len(l)
    BY <1>1, <2>2
  <2>4. l[i].base = EndOffset(l[i - 1])
    BY <1>1, <2>3 DEF Contiguous
  <2>5. CASE j = i - 1
    BY <1>2, <2>2, <2>3, <2>4, <2>5
  <2>6. CASE j # i - 1
    <3>1. j \in 1 .. (i - 1) - 1
      BY <2>2, <2>3, <2>6
    <3>2. i - 1 \notin Bad
      BY <2>1, <2>3
    <3>3. EndOffset(l[j]) <= l[i - 1].base
      BY <1>1, <1>2, <2>3, <3>1, <3>2
    <3>4. QED
      BY <1>2, <2>2, <2>3, <2>4, <3>3
  <2>7. QED
    BY <2>5, <2>6
<1>4. QED
  BY <1>1, <1>2, <1>3

\* A fetch finds the batch that covers the fetch offset, first.
LEMMA ReadFindsBatch ==
    ASSUME NEW S, NEW l \in Seq(Batch(S)), Contiguous(l),
           NEW i \in DOMAIN l, NEW o \in Nat, Covers(l[i], o)
    PROVE  ReadLogFrom(l, o) = SubSeq(l, i, Len(l))
<1> DEFINE hits == {k \in DOMAIN l : EndOffset(l[k]) > o}
<1> DEFINE first == CHOOSE k \in hits : \A j \in hits : k <= j
<1>1. Len(l) \in Nat /\ DOMAIN l = 1 .. Len(l)
  BY LenProperties
<1>2. \A k \in 1 .. Len(l) : /\ l[k].base \in Nat
                               /\ EndOffset(l[k]) \in Nat /\ l[k].base < EndOffset(l[k])
  BY BatchFields
<1>3. i \in hits
  BY DEF Covers
<1>4. \A k \in hits : i <= k
  <2>1. SUFFICES ASSUME NEW k \in hits, k < i
                 PROVE  FALSE
    BY <1>1
  <2>2. EndOffset(l[k]) <= l[i].base
    BY <1>1, <2>1, BatchesInOrder
  <2>3. QED
    BY <1>1, <1>2, <2>1, <2>2 DEF Covers
<1>5. first = i
  <2>1. first \in hits /\ \A j \in hits : first <= j
    BY <1>3, <1>4
  <2>2. QED
    BY <1>1, <1>3, <1>4, <2>1
<1>6. QED
  BY <1>3, <1>5 DEF ReadLogFrom

\* Its first batch is that one.
LEMMA ReadBeginsAt ==
    ASSUME NEW S, NEW l \in Seq(Batch(S)), Contiguous(l), NEW i \in DOMAIN l
    PROVE  /\ ReadLogFrom(l, l[i].base) # <<>>
           /\ ReadLogFrom(l, l[i].base)[1] = l[i]
<1>1. Len(l) \in Nat /\ DOMAIN l = 1 .. Len(l)
  BY LenProperties
<1>2. l[i].base \in Nat /\ l[i].base < EndOffset(l[i])
  BY <1>1, BatchFields
<1>3. ReadLogFrom(l, l[i].base) = SubSeq(l, i, Len(l))
  BY <1>2, ReadFindsBatch DEF Covers
<1>4. \A k \in i .. Len(l) : l[k] \in Batch(S)
  BY <1>1, ElementOfSeq
<1>5. /\ SubSeq(l, i, Len(l)) \in Seq(Batch(S))
      /\ Len(SubSeq(l, i, Len(l))) = Len(l) - i + 1
      /\ SubSeq(l, i, Len(l))[1] = l[i]
  BY <1>1, <1>4, SubSeqProperties
<1>6. SubSeq(l, i, Len(l)) # <<>>
  BY <1>1, <1>5, EmptySeq
<1>7. QED
  BY <1>3, <1>5, <1>6

\* The batches lie in the log in this order, beginning with the k-th, which
\* has the record at the offset.
PartOfLog(l, batches, k, offset) ==
    /\ k \in DOMAIN l
    /\ k + Len(batches) - 1 <= Len(l)
    /\ \A i \in DOMAIN batches : batches[i] = l[k + i - 1]
    /\ Covers(l[k], offset)

\* A fetch that is not answered with nothing is answered with a part of the
\* log from the fetch offset on.
LEMMA ReadIsPart ==
    ASSUME NEW S, NEW l \in Seq(Batch(S)), Contiguous(l), NEW o \in Nat,
           ReadLogFrom(l, o) # <<>>
    PROVE  \E k \in DOMAIN l : PartOfLog(l, ReadLogFrom(l, o), k, o)
<1> DEFINE hits == {k \in DOMAIN l : EndOffset(l[k]) > o}
<1>1. Len(l) \in Nat /\ DOMAIN l = 1 .. Len(l)
  BY LenProperties
<1>2. \A k \in 1 .. Len(l) : /\ l[k].base \in Nat
                             /\ EndOffset(l[k]) \in Nat /\ l[k].base < EndOffset(l[k])
  BY BatchFields
<1>3. hits # {} /\ hits \in SUBSET Nat
  BY <1>1 DEF ReadLogFrom
<1>4. PICK k \in hits : \A j \in hits : k <= j
  BY <1>3, LeastElement
<1>5. Covers(l[k], o)
  <2>1. CASE k = 1
    <3>1. l[1].base = 0
      BY <1>1, <1>4, <2>1 DEF Contiguous
    <3>2. QED
      BY <1>4, <2>1, <3>1 DEF Covers
  <2>2. CASE k # 1
    <3>1. k - 1 \in 1 .. Len(l) /\ k - 1 \notin hits
      BY <1>1, <1>4, <2>2
    <3>2. l[k].base = EndOffset(l[k - 1])
      BY <1>1, <1>4, <2>2 DEF Contiguous
    <3>3. EndOffset(l[k - 1]) <= o
      BY <1>1, <1>2, <3>1
    <3>4. QED
      BY <1>4, <3>2, <3>3 DEF Covers
  <2>3. QED
    BY <2>1, <2>2
<1>6. ReadLogFrom(l, o) = SubSeq(l, k, Len(l))
  BY <1>4, <1>5, ReadFindsBatch
<1>7. \A i \in k .. Len(l) : l[i] \in Batch(S)
  BY <1>1, ElementOfSeq
<1>8. /\ SubSeq(l, k, Len(l)) \in Seq(Batch(S))
      /\ Len(SubSeq(l, k, Len(l))) = Len(l) - k + 1
      /\ \A i \in 1 .. Len(l) - k + 1 : SubSeq(l, k, Len(l))[i] = l[k + i - 1]
  BY <1>1, <1>4, <1>7, SubSeqProperties
<1>9. DOMAIN SubSeq(l, k, Len(l)) = 1 .. Len(l) - k + 1
  BY <1>8, LenProperties
<1>10. PartOfLog(l, SubSeq(l, k, Len(l)), k, o)
  BY <1>1, <1>4, <1>5, <1>8, <1>9 DEF PartOfLog
<1>11. QED
  BY <1>4, <1>6, <1>10

\* The end of the log is the end of its last batch, beyond every other.
LEMMA LogEndBounds ==
    ASSUME NEW S, NEW l \in Seq(Batch(S)), Contiguous(l), NEW i \in DOMAIN l
    PROVE  EndOffset(l[i]) <= LogEndOffset(l)
<1>1. Len(l) \in Nat /\ DOMAIN l = 1 .. Len(l) /\ Len(l) \in DOMAIN l
  BY LenProperties
<1>2. \A k \in 1 .. Len(l) : /\ l[k].base \in Nat
                             /\ EndOffset(l[k]) \in Nat /\ l[k].base < EndOffset(l[k])
  BY BatchFields
<1>3. LogEndOffset(l) = EndOffset(l[Len(l)])
  BY <1>1, EmptySeq DEF LogEndOffset
<1>4. CASE i = Len(l)
  BY <1>1, <1>2, <1>3, <1>4
<1>5. CASE i # Len(l)
  <2>1. i \in 1 .. Len(l) - 1
    BY <1>1, <1>5
  <2>2. EndOffset(l[i]) <= l[Len(l)].base
    BY <1>1, <2>1, BatchesInOrder
  <2>3. QED
    BY <1>1, <1>2, <1>3, <2>2
<1>6. QED
  BY <1>4, <1>5

\* Every offset in front of the end is in a batch, and in one only.
LEMMA OffsetIsCovered ==
    ASSUME NEW S, NEW l \in Seq(Batch(S)), Contiguous(l),
           NEW x \in Nat, x < LogEndOffset(l)
    PROVE  \E i \in DOMAIN l : Covers(l[i], x)
<1> DEFINE hits == {k \in DOMAIN l : EndOffset(l[k]) > x}
<1>1. Len(l) \in Nat /\ DOMAIN l = 1 .. Len(l)
  BY LenProperties
<1>2. \A k \in 1 .. Len(l) : /\ l[k].base \in Nat
                             /\ EndOffset(l[k]) \in Nat /\ l[k].base < EndOffset(l[k])
  BY BatchFields
<1>3. l # <<>>
  BY DEF LogEndOffset
<1>4. Len(l) \in hits
  BY <1>1, <1>2, <1>3, EmptySeq DEF LogEndOffset
<1>5. PICK k \in hits : \A j \in hits : k <= j
  <2>1. hits \in SUBSET Nat /\ hits # {}
    BY <1>1, <1>4
  <2>2. QED
    BY <2>1, LeastElement
<1>6. CASE k = 1
  BY <1>1, <1>2, <1>5, <1>6 DEF Contiguous, Covers
<1>7. CASE k # 1
  <2>1. k - 1 \in 1 .. Len(l) /\ k - 1 \notin hits
    BY <1>1, <1>5, <1>7
  <2>2. l[k].base = EndOffset(l[k - 1])
    BY <1>1, <1>5, <1>7 DEF Contiguous
  <2>3. EndOffset(l[k - 1]) <= x
    BY <1>1, <1>2, <2>1
  <2>4. QED
    BY <1>5, <2>2, <2>3 DEF Covers
<1>8. QED
  BY <1>6, <1>7

LEMMA CoveredOnce ==
    ASSUME NEW S, NEW l \in Seq(Batch(S)), Contiguous(l), NEW x \in Int,
           NEW i \in DOMAIN l, NEW j \in DOMAIN l, Covers(l[i], x), Covers(l[j], x)
    PROVE  i = j
<1>1. i \in Nat /\ j \in Nat /\ i >= 1 /\ j >= 1 /\ DOMAIN l = 1 .. Len(l)
  BY LenProperties
<1>2. /\ l[i].base \in Nat /\ EndOffset(l[i]) \in Nat
      /\ l[j].base \in Nat /\ EndOffset(l[j]) \in Nat
  BY <1>1, BatchFields
<1>3. ~(i < j)
  <2>1. i < j => EndOffset(l[i]) <= l[j].base
    BY <1>1, BatchesInOrder
  <2>2. QED
    BY <1>2, <2>1 DEF Covers
<1>4. ~(j < i)
  <2>1. j < i => EndOffset(l[j]) <= l[i].base
    BY <1>1, BatchesInOrder
  <2>2. QED
    BY <1>2, <2>1 DEF Covers
<1>5. QED
  BY <1>1, <1>3, <1>4

\* What read_log_from_offset promises a fetch: the batches are the log's, it
\* finds none only if there is nothing from the offset on, and each record
\* from the offset to the end is in exactly one of them.
LEMMA ReadDelivers ==
    ASSUME NEW S, NEW l \in Seq(Batch(S)), Contiguous(l), NEW o \in Nat,
           NEW data, data = ReadLogFrom(l, o)
    PROVE  /\ data # <<>> <=> o < LogEndOffset(l)
           /\ \A i \in DOMAIN data : \E j \in DOMAIN l : l[j] = data[i]
           /\ \A x \in o .. LogEndOffset(l) - 1 : \E i \in DOMAIN data :
                {h \in DOMAIN data : Covers(data[h], x)} = {i}
<1>1. Len(l) \in Nat /\ DOMAIN l = 1 .. Len(l)
  BY LenProperties
<1>2. \A i \in 1 .. Len(l) : /\ l[i].base \in Nat
                             /\ EndOffset(l[i]) \in Nat /\ l[i].base < EndOffset(l[i])
  BY BatchFields
<1>3. LogEndOffset(l) \in Nat
  BY LogEndOffsetType
<1>4. CASE o < LogEndOffset(l)
  <2>1. PICK k \in DOMAIN l : Covers(l[k], o)
    BY <1>4, OffsetIsCovered
  <2>2. data = SubSeq(l, k, Len(l))
    BY <2>1, ReadFindsBatch
  <2>3. /\ data \in Seq(Batch(S)) /\ Len(data) = Len(l) - k + 1
        /\ \A i \in 1 .. Len(l) - k + 1 : data[i] = l[k + i - 1]
    <3>1. \A i \in k .. Len(l) : l[i] \in Batch(S)
      BY <1>1, ElementOfSeq
    <3>2. QED
      BY <1>1, <2>2, <3>1, SubSeqProperties
  <2>4. DOMAIN data = 1 .. Len(l) - k + 1
    BY <2>3, LenProperties
  <2>5. data # <<>>
    BY <1>1, <2>3, EmptySeq
  <2>6. ASSUME NEW i \in DOMAIN data
        PROVE  k + i - 1 \in DOMAIN l /\ l[k + i - 1] = data[i]
    BY <1>1, <2>3, <2>4
  <2>7. ASSUME NEW x \in o .. LogEndOffset(l) - 1
        PROVE  \E i \in DOMAIN data : {h \in DOMAIN data : Covers(data[h], x)} = {i}
    <3>1. x \in Nat /\ o <= x /\ x < LogEndOffset(l)
      BY <1>3
    <3>2. PICK j \in DOMAIN l : Covers(l[j], x)
      BY <3>1, OffsetIsCovered
    <3>3. k <= j
      <4>1. ASSUME j < k
            PROVE  FALSE
        <5>1. EndOffset(l[j]) <= l[k].base
          BY <1>1, <4>1, BatchesInOrder
        <5>2. QED
          BY <1>1, <1>2, <2>1, <3>1, <3>2, <5>1 DEF Covers
      <4>2. QED
        BY <1>1, <4>1
    <3>4. j - k + 1 \in DOMAIN data /\ data[j - k + 1] = l[j]
      BY <1>1, <2>3, <2>4, <3>3, SMTT(30)
    <3>5. ASSUME NEW h \in DOMAIN data, Covers(data[h], x)
          PROVE  h = j - k + 1
      <4>1. Covers(l[k + h - 1], x) /\ k + h - 1 \in DOMAIN l
        BY <2>6, <3>5
      <4>2. k + h - 1 = j
        BY <3>1, <3>2, <4>1, CoveredOnce
      <4>3. QED
        BY <1>1, <2>4, <4>2
    <3>6. {h \in DOMAIN data : Covers(data[h], x)} = {j - k + 1}
      BY <3>2, <3>4, <3>5
    <3>7. QED
      BY <3>4, <3>6
  <2>8. QED
    BY <1>4, <2>5, <2>6, <2>7
<1>5. CASE ~(o < LogEndOffset(l))
  <2>1. data = <<>>
    <3>1. ASSUME data # <<>>
          PROVE  FALSE
      <4>1. PICK k \in DOMAIN l : Covers(l[k], o)
        BY <3>1, ReadIsPart DEF PartOfLog
      <4>2. EndOffset(l[k]) <= LogEndOffset(l)
        BY LogEndBounds
      <4>3. QED
        BY <1>1, <1>2, <1>3, <1>5, <4>1, <4>2 DEF Covers
    <3>2. QED
      BY <3>1
  <2>2. o .. LogEndOffset(l) - 1 = {}
    BY <1>3, <1>5
  <2>3. QED
    BY <1>5, <2>1, <2>2
<1>6. QED
  BY <1>4, <1>5
=============================================================================
