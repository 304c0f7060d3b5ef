--------------------------- MODULE LogFileProofs ----------------------------
(***************************************************************************)
(* Theorems about LogFile, for any records, bounds and cuts.               *)
(*                                                                         *)
(* The scans are loops over positions that the file itself gives.  The     *)
(* positions a loop visits are the least set that holds 0 and with each    *)
(* header also where that header says the next one is: a statement without *)
(* recursion, and the rest of the proofs only needs sets of positions that *)
(* a scan cannot leave.                                                    *)
(***************************************************************************)
EXTENDS LogFile, PartitionLogProofs

\* A set of positions that the loop cannot leave.
Closed(f, S) == \A x \in S : x + 3 <= Len(f) => next_pos(f, x) \in S

\* The headers found by a loop that starts at pos.
Found(f, pos) ==
    {q \in Nat : /\ q + 3 <= Len(f)
                 /\ \A S \in SUBSET Nat : pos \in S /\ Closed(f, S) => q \in S}

LEMMA NextPos ==
    ASSUME NEW f \in Seq(Nat), NEW pos \in Nat, pos + 3 <= Len(f)
    PROVE  next_pos(f, pos) \in Nat /\ pos < next_pos(f, pos)
<1>1. pos + 2 \in 1 .. Len(f)
  BY LenProperties
<1>2. f[pos + 2] \in Nat
  BY <1>1, ElementOfSeq
<1>3. QED
  BY <1>2 DEF next_pos

\* Found unrolled once: this is the loop.
LEMMA FoundUnrolled ==
    ASSUME NEW f \in Seq(Nat), NEW pos \in Nat
    PROVE  Found(f, pos) =
             IF pos + 3 > Len(f) THEN {} ELSE {pos} \cup Found(f, next_pos(f, pos))
<1>1. Len(f) \in Nat
  BY LenProperties
<1>2. CASE pos + 3 > Len(f)
  <2>1. Closed(f, {pos}) /\ {pos} \in SUBSET Nat
    BY <1>1, <1>2 DEF Closed
  <2>2. ASSUME NEW q \in Found(f, pos)
        PROVE  FALSE
    <3>1. q \in {pos} /\ q + 3 <= Len(f)
      BY <2>1 DEF Found
    <3>2. QED
      BY <1>1, <1>2, <3>1
  <2>3. QED
    BY <1>2, <2>2
<1>3. CASE ~(pos + 3 > Len(f))
  <2>1. PICK next \in Nat : next = next_pos(f, pos)
    BY <1>1, <1>3, NextPos
  <2>2. pos + 3 <= Len(f)
    BY <1>1, <1>3
  <2>3. ASSUME NEW q \in Found(f, pos)
        PROVE  q \in {pos} \cup Found(f, next)
    <3>1. SUFFICES ASSUME q # pos, NEW S \in SUBSET Nat, next \in S, Closed(f, S)
                   PROVE  q \in S
      BY DEF Found
    <3>2. Closed(f, S \cup {pos}) /\ S \cup {pos} \in SUBSET Nat
      BY <2>1, <3>1 DEF Closed
    <3>3. q \in S \cup {pos}
      BY <3>2 DEF Found
    <3>4. QED
      BY <3>1, <3>3
  <2>4. pos \in Found(f, pos)
    BY <2>2 DEF Found
  <2>5. ASSUME NEW q \in Found(f, next)
        PROVE  q \in Found(f, pos)
    <3>1. ASSUME NEW S \in SUBSET Nat, pos \in S, Closed(f, S)
          PROVE  q \in S
      <4>1. next \in S
        BY <2>1, <2>2, <3>1 DEF Closed
      <4>2. QED
        BY <3>1, <4>1 DEF Found
    <3>2. QED
      BY <3>1 DEF Found
  <2>6. Found(f, pos) = {pos} \cup Found(f, next)
    BY <2>3, <2>4, <2>5
  <2>7. QED
    BY <1>3, <2>1, <2>6
<1>4. QED
  BY <1>2, <1>3

\* The headers that the loop visits are those: whatever function satisfies
\* the recursion of Headers has these values.
LEMMA HeadersAre ==
    ASSUME NEW f \in Seq(Nat)
    PROVE  Headers(f) = Found(f, 0)
<1> DEFINE loop(v) == [pos \in Nat |->
                         IF pos + 3 > Len(f) THEN {} ELSE {pos} \cup v[next_pos(f, pos)]]
<1> DEFINE visit == CHOOSE v : v = loop(v)
<1>1. Headers(f) = visit[0]
  BY DEF Headers
<1>2. Len(f) \in Nat
  BY LenProperties
<1>3. \E v : v = loop(v)
  <2> DEFINE w == [pos \in Nat |-> Found(f, pos)]
  <2>1. ASSUME NEW pos \in Nat
        PROVE  w[pos] = IF pos + 3 > Len(f) THEN {} ELSE {pos} \cup w[next_pos(f, pos)]
    <3>1. CASE pos + 3 > Len(f)
      BY <3>1, FoundUnrolled
    <3>2. CASE ~(pos + 3 > Len(f))
      <4>1. next_pos(f, pos) \in Nat
        BY <1>2, <3>2, NextPos
      <4>2. QED
        BY <3>2, <4>1, FoundUnrolled
    <3>3. QED
      BY <3>1, <3>2
  <2>2. w = [pos \in Nat |-> w[pos]]
    OBVIOUS
  <2> HIDE DEF w
  <2>3. w = loop(w)
    BY <2>1, <2>2
  <2>4. QED
    BY <2>3
<1>4. visit = loop(visit)
  BY <1>3
<1> HIDE DEF visit
<1>5. ASSUME NEW pos \in Nat
      PROVE  visit[pos] = IF pos + 3 > Len(f) THEN {} ELSE {pos} \cup visit[next_pos(f, pos)]
  BY <1>4
<1>6. ASSUME NEW pos \in Nat, visit[pos] # Found(f, pos)
      PROVE  pos + 3 <= Len(f)
  <2>1. CASE pos + 3 > Len(f)
    <3>1. visit[pos] = {}
      BY <1>5, <2>1
    <3>2. Found(f, pos) = {}
      BY <2>1, FoundUnrolled
    <3>3. QED
      BY <1>6, <3>1, <3>2
  <2>2. QED
    BY <1>2, <2>1
<1>7. ASSUME visit[0] # Found(f, 0)
      PROVE  FALSE
  \* the last position at which the two differ
  <2> DEFINE Bad == {d \in Nat : \E pos \in Nat :
                       pos + d = Len(f) /\ visit[pos] # Found(f, pos)}
  <2>1. Len(f) \in Bad
    BY <1>2, <1>7
  <2>2. PICK d \in Bad : \A e \in Bad : d <= e
    BY <2>1, LeastElement
  <2>3. PICK pos \in Nat : pos + d = Len(f) /\ visit[pos] # Found(f, pos)
    OBVIOUS
  <2>4. pos + 3 <= Len(f)
    BY <1>6, <2>3
  <2>5. PICK next \in Nat : next = next_pos(f, pos) /\ pos < next
    BY <2>4, NextPos
  <2>6. visit[next] # Found(f, next)
    <3>1. ~(pos + 3 > Len(f))
      BY <1>2, <2>4
    <3>2. visit[pos] = {pos} \cup visit[next]
      BY <1>5, <2>5, <3>1
    <3>3. Found(f, pos) = {pos} \cup Found(f, next)
      BY <2>5, <3>1, FoundUnrolled
    <3>4. QED
      BY <2>3, <3>2, <3>3
  <2>7. next + 3 <= Len(f)
    BY <1>6, <2>6
  <2>8. Len(f) - next \in Bad
    BY <1>2, <2>6, <2>7
  <2>9. d <= Len(f) - next
    BY <2>2, <2>8
  <2>10. QED
    BY <1>2, <2>3, <2>5, <2>9
<1>8. QED
  BY <1>1, <1>7

-----------------------------------------------------------------------------
(* Any file at all. *)

LEMMA GreatestElement ==
    ASSUME NEW S \in SUBSET Nat, S # {}, NEW bound \in Nat, \A x \in S : x <= bound
    PROVE  \E i \in S : \A j \in S : j <= i
<1> DEFINE Below == {d \in Nat : \E x \in S : x + d = bound}
<1>1. PICK x \in S : TRUE
  OBVIOUS
<1>2. bound - x \in Below
  OBVIOUS
<1>3. PICK d \in Below : \A e \in Below : d <= e
  BY <1>2, LeastElement
<1>4. PICK i \in S : i + d = bound
  OBVIOUS
<1>5. ASSUME NEW j \in S
      PROVE  j <= i
  <2>1. bound - j \in Below
    OBVIOUS
  <2>2. d <= bound - j
    BY <1>3, <2>1
  <2>3. QED
    BY <1>4, <2>2
<1>6. QED
  BY <1>5

LEMMA HeadersType ==
    ASSUME NEW f \in Seq(Nat), NEW q \in Headers(f)
    PROVE  /\ q \in Nat /\ q + 3 <= Len(f)
           /\ base_offset(f, q) \in Nat /\ record_count(f, q) \in Nat
<1>1. q \in Nat /\ q + 3 <= Len(f) /\ Len(f) \in Nat
  BY HeadersAre, LenProperties DEF Found
<1>2. q + 1 \in 1 .. Len(f) /\ q + 3 \in 1 .. Len(f)
  BY <1>1
<1>3. QED
  BY <1>1, <1>2, ElementOfSeq DEF base_offset, record_count

\* The scan returns an offset whatever the file holds.
LEMMA EndType ==
    ASSUME NEW f \in Seq(Nat)
    PROVE  log_end_offset(f) \in Nat
<1>1. CASE Headers(f) = {}
  BY <1>1 DEF log_end_offset
<1>2. CASE Headers(f) # {}
  <2> DEFINE last == CHOOSE p \in Headers(f) : \A q \in Headers(f) : q <= p
  <2>1. Len(f) \in Nat
    BY LenProperties
  <2>2. Headers(f) \in SUBSET Nat /\ \A q \in Headers(f) : q <= Len(f)
    BY <2>1, HeadersType
  <2>3. \E p \in Headers(f) : \A q \in Headers(f) : q <= p
    BY <1>2, <2>1, <2>2, GreatestElement
  <2>4. last \in Headers(f)
    BY <2>3
  <2> HIDE DEF last
  <2>5. base_offset(f, last) + record_count(f, last) \in Nat
    BY <2>4, HeadersType
  <2>6. QED
    BY <1>2, <2>5 DEF log_end_offset, last
<1>3. QED
  BY <1>1, <1>2

-----------------------------------------------------------------------------
(* Files that begin with whole batches. *)

Records == UNION {[1 .. n -> Data] : n \in 1 .. MaxRecords}

\* The cells from start to end are those of the batch.
Lies(f, b, start, end) ==
    /\ end = start + 3 + Len(b.src) /\ end <= Len(f)
    /\ f[start + 1] = b.base /\ f[start + 2] = 1 + Len(b.src) /\ f[start + 3] = b.count
    /\ \A m \in 1 .. Len(b.src) : f[start + 3 + m] = b.src[m]

\* The first n batches lie at the beginning of the file, one after another.
Laid(f, bs, n, ends) ==
    /\ ends \in [0 .. n -> Nat] /\ ends[0] = 0
    /\ \A i \in 1 .. n : Lies(f, bs[i], ends[i - 1], ends[i])

\* These batches lie in the file, and nothing else.
LaidWhole(f, bs) == \E ends : Laid(f, bs, Len(bs), ends) /\ ends[Len(bs)] = Len(f)

LEMMA RecordsType ==
    ASSUME NEW r \in Records
    PROVE  r \in Seq(Nat) /\ Len(r) \in Nat \ {0} /\ DOMAIN r = 1 .. Len(r)
<1>1. PICK n \in 1 .. MaxRecords : r \in [1 .. n -> Data]
  BY DEF Records
<1>2. n \in Nat \ {0} /\ Data \subseteq Nat
  BY LogFileAssumption
<1>3. r \in Seq(Nat) /\ Len(r) = n
  <2>1. r \in [1 .. n -> Nat]
    BY <1>1, <1>2
  <2>2. r \in Seq(Nat)
    BY <1>2, <2>1, SeqDef
  <2>3. DOMAIN r = 1 .. n /\ DOMAIN r = 1 .. Len(r) /\ Len(r) \in Nat
    BY <2>1, <2>2, LenProperties
  <2>4. QED
    BY <1>2, <2>2, <2>3
<1>4. QED
  BY <1>2, <1>3, LenProperties

LEMMA LiesHeader ==
    ASSUME NEW f \in Seq(Nat), NEW b \in Batch(Records), NEW start \in Nat, NEW end \in Nat,
           Lies(f, b, start, end)
    PROVE  /\ start + 3 <= Len(f) /\ start + 3 < end /\ next_pos(f, start) = end
           /\ base_offset(f, start) + record_count(f, start) = EndOffset(b)
           /\ Len(b.src) \in Nat \ {0}
<1>1. Len(b.src) \in Nat \ {0} /\ Len(f) \in Nat /\ b.base \in Nat /\ b.count \in Nat
  <2>1. b.src \in Records /\ b.base \in Nat /\ b.count \in Nat
    BY DEF Batch
  <2>2. QED
    BY <2>1, RecordsType, LenProperties
<1>2. /\ end = start + 3 + Len(b.src) /\ end <= Len(f)
      /\ f[start + 1] = b.base /\ f[start + 2] = 1 + Len(b.src) /\ f[start + 3] = b.count
  BY DEF Lies
<1>3. next_pos(f, start) = end
  <2>1. PICK len \in Nat : len = Len(b.src)
    BY <1>1
  <2>2. f[start + 2] = 1 + len /\ end = start + 3 + len
    BY <1>2, <2>1
  <2>3. start + 2 + (1 + len) = end
    BY <2>2
  <2>4. QED
    BY <2>2, <2>3 DEF next_pos
<1>4. base_offset(f, start) + record_count(f, start) = EndOffset(b)
  BY <1>2 DEF base_offset, record_count, EndOffset
<1>5. start + 3 <= Len(f) /\ start + 3 < end
  <2>1. PICK len \in Nat \ {0} : len = Len(b.src)
    BY <1>1
  <2>2. PICK size \in Nat : size = Len(f)
    BY <1>1
  <2>3. end = start + 3 + len /\ end <= size
    BY <1>2, <2>1, <2>2
  <2>4. QED
    BY <2>2, <2>3
<1>6. QED
  BY <1>1, <1>3, <1>4, <1>5

\* Each batch ends after those before it.
LEMMA EndsInOrder ==
    ASSUME NEW f \in Seq(Nat), NEW bs \in Seq(Batch(Records)), NEW n \in 0 .. Len(bs),
           NEW ends, Laid(f, bs, n, ends), NEW i \in 0 .. n, NEW j \in 0 .. n, i < j
    PROVE  ends[i] < ends[j]
<1>1. n \in Nat /\ Len(bs) \in Nat
  BY LenProperties
<1>2. ASSUME NEW k \in 1 .. n
      PROVE  ends[k - 1] \in Nat /\ ends[k] \in Nat /\ ends[k - 1] < ends[k]
  <2>1. bs[k] \in Batch(Records)
    BY <1>1, ElementOfSeq
  <2>2. ends[k - 1] \in Nat /\ ends[k] \in Nat /\ Lies(f, bs[k], ends[k - 1], ends[k])
    BY <1>1 DEF Laid
  <2>3. ends[k - 1] + 3 < ends[k]
    BY <2>1, <2>2, LiesHeader
  <2>4. QED
    BY <2>2, <2>3
<1>3. SUFFICES ASSUME ~(ends[i] < ends[j])
               PROVE  FALSE
  OBVIOUS
<1> DEFINE Bad == {k \in 0 .. n : i < k /\ ~(ends[i] < ends[k])}
<1>4. j \in Bad /\ Bad \in SUBSET Nat
  BY <1>1, <1>3
<1>5. PICK k \in Bad : \A h \in Bad : k <= h
  BY <1>4, LeastElement
<1>6. k \in 1 .. n /\ i \in Nat /\ i <= k - 1 /\ k - 1 \in 0 .. n
  BY <1>1
<1>7. k - 1 \notin Bad
  BY <1>5, <1>6
<1>8. k - 1 = i \/ ends[i] < ends[k - 1]
  BY <1>6, <1>7
<1>9. ends[i] \in Nat
  BY DEF Laid
<1>10. ends[i] < ends[k]
  <2>1. ends[k - 1] \in Nat /\ ends[k] \in Nat /\ ends[k - 1] < ends[k]
    BY <1>2, <1>6
  <2>2. PICK x \in Nat : x = ends[i]
    BY <1>9
  <2>3. PICK y \in Nat : y = ends[k - 1]
    BY <2>1
  <2>4. PICK z \in Nat : z = ends[k]
    BY <2>1
  <2>5. x <= y /\ y < z
    BY <1>8, <2>1, <2>2, <2>3, <2>4
  <2>6. QED
    BY <2>2, <2>4, <2>5
<1>11. QED
  BY <1>10

\* The scans find the header of each of these batches, and no other before
\* the last one ends.
LEMMA LaidHeaders ==
    ASSUME NEW f \in Seq(Nat), NEW bs \in Seq(Batch(Records)), NEW n \in 0 .. Len(bs),
           NEW ends, Laid(f, bs, n, ends)
    PROVE  /\ \A i \in 1 .. n : ends[i - 1] \in Headers(f)
           /\ \A q \in Headers(f) : ends[n] <= q \/ \E i \in 1 .. n : q = ends[i - 1]
<1>1. n \in Nat /\ Len(bs) \in Nat /\ ends[0] = 0 /\ \A i \in 0 .. n : ends[i] \in Nat
  BY LenProperties DEF Laid
<1>2. ASSUME NEW i \in 1 .. n
      PROVE  /\ ends[i - 1] \in Nat /\ ends[i] \in Nat /\ ends[i - 1] + 3 <= Len(f)
             /\ next_pos(f, ends[i - 1]) = ends[i]
  <2>1. bs[i] \in Batch(Records)
    BY <1>1, ElementOfSeq
  <2>2. ends[i - 1] \in Nat /\ ends[i] \in Nat /\ Lies(f, bs[i], ends[i - 1], ends[i])
    BY <1>1 DEF Laid
  <2>3. QED
    BY <2>1, <2>2, LiesHeader
<1>3. ASSUME NEW S \in SUBSET Nat, 0 \in S, Closed(f, S), NEW i \in 0 .. n, ends[i] \notin S
      PROVE  FALSE
  <2> DEFINE Bad == {k \in 0 .. n : ends[k] \notin S}
  <2>1. i \in Bad /\ Bad \in SUBSET Nat
    BY <1>1, <1>3
  <2>2. PICK k \in Bad : \A h \in Bad : k <= h
    BY <2>1, LeastElement
  <2>3. k # 0 /\ k \in 0 .. n /\ ends[k] \notin S
    BY <1>1, <1>3
  <2>4. k \in 1 .. n /\ k - 1 \in 0 .. n
    BY <1>1, <2>3
  <2>5. ends[k - 1] \in S
    BY <1>1, <2>2, <2>4
  <2>6. ends[k] \in S
    BY <1>2, <1>3, <2>4, <2>5 DEF Closed
  <2>7. QED
    BY <2>3, <2>6
<1>4. ASSUME NEW i \in 1 .. n
      PROVE  ends[i - 1] \in Headers(f)
  <2>1. i - 1 \in 0 .. n
    BY <1>1
  <2>2. \A S \in SUBSET Nat : 0 \in S /\ Closed(f, S) => ends[i - 1] \in S
    BY <1>3, <2>1
  <2>3. ends[i - 1] \in Found(f, 0)
    BY <1>2, <2>2 DEF Found
  <2>4. QED
    BY <2>3, HeadersAre
<1> DEFINE Starts == {ends[i - 1] : i \in 1 .. n}
<1> DEFINE Behind == {x \in Nat : ends[n] <= x}
<1>5. ASSUME NEW x \in Starts \cup Behind, x + 3 <= Len(f)
      PROVE  next_pos(f, x) \in Starts \cup Behind
  <2>1. CASE x \in Starts
    <3>1. PICK i \in 1 .. n : x = ends[i - 1]
      BY <2>1
    <3>2. next_pos(f, x) = ends[i] /\ ends[i] \in Nat
      BY <1>2, <3>1
    <3>3. CASE i = n
      BY <1>1, <3>2, <3>3
    <3>4. CASE i # n
      <4>1. i + 1 \in 1 .. n /\ (i + 1) - 1 = i
        BY <1>1, <3>4
      <4>2. QED
        BY <3>2, <4>1
    <3>5. QED
      BY <3>3, <3>4
  <2>2. CASE x \in Behind
    <3>1. next_pos(f, x) \in Nat /\ x < next_pos(f, x)
      BY <1>5, <2>2, NextPos
    <3>2. ends[n] \in Nat
      BY <1>1
    <3>3. QED
      BY <2>2, <3>1, <3>2
  <2>3. QED
    BY <2>1, <2>2
<1>6. 0 \in Starts \cup Behind
  <2>1. CASE n = 0
    BY <1>1, <2>1
  <2>2. CASE n # 0
    <3>1. 1 \in 1 .. n /\ 1 - 1 = 0
      BY <1>1, <2>2
    <3>2. QED
      BY <1>1, <3>1
  <2>3. QED
    BY <2>1, <2>2
<1>7. Starts \cup Behind \in SUBSET Nat
  BY <1>2
<1>8. Closed(f, Starts \cup Behind)
  BY <1>5 DEF Closed
<1>9. ASSUME NEW q \in Headers(f)
      PROVE  q \in Starts \cup Behind
  BY <1>6, <1>7, <1>8, HeadersAre DEF Found
<1>10. QED
  BY <1>4, <1>9

-----------------------------------------------------------------------------
(* Appends. *)

\* What is appended disturbs no batch.
LEMMA LaidStays ==
    ASSUME NEW f \in Seq(Nat), NEW t \in Seq(Nat),
           NEW bs \in Seq(Batch(Records)), NEW more \in Seq(Batch(Records)),
           NEW n \in 0 .. Len(bs), \A i \in 1 .. n : more[i] = bs[i],
           NEW ends, Laid(f, bs, n, ends)
    PROVE  Laid(f \o t, more, n, ends)
<1>1. n \in Nat /\ Len(bs) \in Nat /\ Len(f) \in Nat /\ Len(t) \in Nat
  BY LenProperties
<1>2. /\ Len(f \o t) = Len(f) + Len(t)
      /\ \A x \in 1 .. Len(f) : (f \o t)[x] = f[x]
  BY <1>1, ConcatProperties
<1>3. ASSUME NEW i \in 1 .. n
      PROVE  Lies(f \o t, more[i], ends[i - 1], ends[i])
  <2>1. i \in 1 .. Len(bs) /\ i \in 0 .. n /\ i - 1 \in 0 .. n
    BY <1>1
  <2>2. bs[i] \in Batch(Records) /\ more[i] = bs[i]
    BY <2>1, ElementOfSeq
  <2>3. PICK b \in Batch(Records) : b = bs[i] /\ b = more[i]
    BY <2>2
  <2>4. ends[i - 1] \in Nat /\ ends[i] \in Nat
    BY <2>1 DEF Laid
  <2>5. PICK start \in Nat : start = ends[i - 1]
    BY <2>4
  <2>6. PICK end \in Nat : end = ends[i]
    BY <2>4
  <2>7. Lies(f, b, start, end)
    BY <2>3, <2>5, <2>6 DEF Laid
  <2>8. PICK len \in Nat \ {0} : len = Len(b.src)
    BY <2>7, LiesHeader
  <2>9. end = start + 3 + len /\ end <= Len(f)
    BY <2>7, <2>8 DEF Lies
  <2>10. /\ start + 1 \in 1 .. Len(f) /\ start + 2 \in 1 .. Len(f) /\ start + 3 \in 1 .. Len(f)
        /\ \A m \in 1 .. len : start + 3 + m \in 1 .. Len(f)
        /\ end <= Len(f) + Len(t)
    <3>1. PICK size \in Nat : size = Len(f)
      BY <1>1
    <3>2. PICK added \in Nat : added = Len(t)
      BY <1>1
    <3>3. end = start + 3 + len /\ end <= size
      BY <2>9, <3>1
    <3>4. /\ start + 1 \in 1 .. size /\ start + 2 \in 1 .. size /\ start + 3 \in 1 .. size
          /\ end <= size + added
      BY <3>3
    <3>5. ASSUME NEW m \in 1 .. len
          PROVE  start + 3 + m \in 1 .. size
      BY <3>3
    <3>6. QED
      BY <3>1, <3>2, <3>4, <3>5
  <2>11. Lies(f \o t, b, start, end)
    <3>1. /\ f[start + 1] = b.base /\ f[start + 2] = 1 + len /\ f[start + 3] = b.count
          /\ \A m \in 1 .. len : f[start + 3 + m] = b.src[m]
      BY <2>7, <2>8 DEF Lies
    <3>2. /\ (f \o t)[start + 1] = f[start + 1] /\ (f \o t)[start + 2] = f[start + 2]
          /\ (f \o t)[start + 3] = f[start + 3]
      BY <1>2, <2>10
    <3>3. ASSUME NEW m \in 1 .. len
          PROVE  (f \o t)[start + 3 + m] = b.src[m]
      <4>1. start + 3 + m \in 1 .. Len(f)
        BY <2>10
      <4>2. QED
        BY <1>2, <3>1, <4>1
    <3>4. end = start + 3 + len /\ end <= Len(f \o t)
      BY <1>2, <2>9, <2>10
    <3>5. QED
      BY <2>8, <3>1, <3>2, <3>3, <3>4 DEF Lies
  <2>12. QED
    BY <2>3, <2>5, <2>6, <2>11
<1>4. QED
  BY <1>3 DEF Laid

\* The cells of an encoded batch.
LEMMA EncodeIs ==
    ASSUME NEW base \in Nat, NEW sent \in [count : Nat, records : Records]
    PROVE  /\ Encode(base, sent) \in Seq(Nat)
           /\ Len(Encode(base, sent)) = 3 + Len(sent.records)
           /\ Encode(base, sent)[1] = base
           /\ Encode(base, sent)[2] = 1 + Len(sent.records)
           /\ Encode(base, sent)[3] = sent.count
           /\ \A m \in 1 .. Len(sent.records) : Encode(base, sent)[3 + m] = sent.records[m]
<1>1. PICK r \in Seq(Nat) : r = sent.records
  BY RecordsType
<1>2. PICK len \in Nat : r = sent.records /\ len = Len(r)
  BY <1>1, LenProperties
<1>3. PICK count \in Nat : count = sent.count
  OBVIOUS
<1>4. PICK head : head = <<base, 1 + len, count>>
  OBVIOUS
<1>5. /\ head \in Seq(Nat) /\ Len(head) = 3
      /\ head[1] = base /\ head[2] = 1 + len /\ head[3] = count
  BY <1>2, <1>4
<1>6. Encode(base, sent) = head \o r
  BY <1>2, <1>3, <1>4 DEF Encode
<1>7. /\ head \o r \in Seq(Nat) /\ Len(head \o r) = Len(head) + Len(r)
      /\ \A i \in 1 .. Len(head) + Len(r) :
           (head \o r)[i] = IF i <= Len(head) THEN head[i] ELSE r[i - Len(head)]
  BY <1>5, ConcatProperties
<1>8. /\ head \o r \in Seq(Nat) /\ Len(head \o r) = 3 + len
      /\ \A i \in 1 .. 3 + len : (head \o r)[i] = IF i <= 3 THEN head[i] ELSE r[i - 3]
  BY <1>2, <1>5, <1>7
<1>9. \A m \in 1 .. len : (head \o r)[3 + m] = r[m]
  <2>1. ASSUME NEW m \in 1 .. len
        PROVE  (head \o r)[3 + m] = r[m]
    <3>1. 3 + m \in 1 .. 3 + len /\ ~(3 + m <= 3) /\ (3 + m) - 3 = m
      BY <1>2
    <3>2. QED
      BY <1>8, <3>1
  <2>2. QED
    BY <2>1
<1>10. /\ (head \o r)[1] = base /\ (head \o r)[2] = 1 + len /\ (head \o r)[3] = count
  <2>1. 1 \in 1 .. 3 + len /\ 2 \in 1 .. 3 + len /\ 3 \in 1 .. 3 + len
    BY <1>2
  <2>2. 1 <= 3 /\ 2 <= 3 /\ 3 <= 3
    OBVIOUS
  <2>3. (head \o r)[1] = head[1] /\ (head \o r)[2] = head[2] /\ (head \o r)[3] = head[3]
    BY <1>8, <2>1, <2>2
  <2>4. QED
    BY <1>5, <2>3
<1>11. QED
  BY <1>2, <1>3, <1>6, <1>8, <1>9, <1>10

\* A whole batch that is appended to whole batches lies behind them.
LEMMA LaidMore ==
    ASSUME NEW f \in Seq(Nat), NEW bs \in Seq(Batch(Records)), NEW n \in Nat, n = Len(bs),
           NEW ends, Laid(f, bs, n, ends), ends[n] = Len(f),
           NEW base \in Nat, NEW sent \in [count : Nat \ {0}, records : Records]
    PROVE  LET b == [base |-> base, count |-> sent.count, src |-> sent.records]
           IN  LaidWhole(f \o Encode(base, sent), Append(bs, b))
<1>1. PICK b : b = [base |-> base, count |-> sent.count, src |-> sent.records]
  OBVIOUS
<1>2. PICK t : t = Encode(base, sent)
  OBVIOUS
<1>3. b.src = sent.records /\ b.base = base /\ b.count = sent.count
  BY <1>1
<1>4. Len(sent.records) \in Nat \ {0}
  BY RecordsType
<1>5. PICK len \in Nat \ {0} : len = Len(b.src) /\ b.src = sent.records
  BY <1>3, <1>4
<1>6. /\ t \in Seq(Nat) /\ Len(t) = 3 + len
      /\ t[1] = b.base /\ t[2] = 1 + len /\ t[3] = b.count
      /\ \A m \in 1 .. len : t[3 + m] = b.src[m]
  <2>1. sent \in [count : Nat, records : Records]
    OBVIOUS
  <2>2. /\ Encode(base, sent) \in Seq(Nat)
        /\ Len(Encode(base, sent)) = 3 + Len(sent.records)
        /\ Encode(base, sent)[1] = base
        /\ Encode(base, sent)[2] = 1 + Len(sent.records)
        /\ Encode(base, sent)[3] = sent.count
        /\ \A m \in 1 .. Len(sent.records) : Encode(base, sent)[3 + m] = sent.records[m]
    BY <2>1, EncodeIs
  <2>3. QED
    BY <1>2, <1>5, <1>3, <2>2
<1>7. b \in Batch(Records)
  BY <1>1 DEF Batch
<1>8. /\ Append(bs, b) \in Seq(Batch(Records)) /\ Len(Append(bs, b)) = n + 1
      /\ Append(bs, b)[n + 1] = b
      /\ \A i \in 1 .. n : Append(bs, b)[i] = bs[i]
  BY <1>7, AppendProperties
<1>9. Laid(f \o t, Append(bs, b), n, ends)
  <2>1. n \in 0 .. Len(bs)
    OBVIOUS
  <2>2. PICK new \in Seq(Batch(Records)) : new = Append(bs, b)
    BY <1>8
  <2>3. \A i \in 1 .. n : new[i] = bs[i]
    BY <1>8, <2>2
  <2>4. Laid(f \o t, new, n, ends)
    BY <1>6, <2>1, <2>3, LaidStays
  <2>5. QED
    BY <2>2, <2>4
<1>10. PICK size \in Nat : size = Len(f)
  BY LenProperties
<1>11. /\ f \o t \in Seq(Nat) /\ Len(f \o t) = size + (3 + len)
      /\ \A i \in 1 .. size + (3 + len) :
           (f \o t)[i] = IF i <= size THEN f[i] ELSE t[i - size]
  <2>1. /\ f \o t \in Seq(Nat) /\ Len(f \o t) = Len(f) + Len(t)
        /\ \A i \in 1 .. Len(f) + Len(t) :
             (f \o t)[i] = IF i <= Len(f) THEN f[i] ELSE t[i - Len(f)]
    <3>1. t \in Seq(Nat)
      BY <1>6
    <3>2. QED
      BY <3>1, ConcatProperties
  <2>2. PICK added \in Nat : added = Len(t) /\ added = 3 + len
    BY <1>6
  <2>3. /\ Len(f \o t) = size + added
        /\ \A i \in 1 .. size + added : (f \o t)[i] = IF i <= size THEN f[i] ELSE t[i - size]
    BY <1>10, <2>1, <2>2
  <2>4. QED
    BY <2>1, <2>2, <2>3
<1>12. ASSUME NEW k \in 1 .. 3 + len
      PROVE  (f \o t)[size + k] = t[k]
  <2>1. size + k \in 1 .. size + (3 + len) /\ ~(size + k <= size) /\ (size + k) - size = k
    BY <1>5, <1>10
  <2>2. QED
    BY <1>11, <2>1
<1>13. Lies(f \o t, b, size, size + (3 + len))
  <2>1. 1 \in 1 .. 3 + len /\ 2 \in 1 .. 3 + len /\ 3 \in 1 .. 3 + len
    BY <1>5
  <2>2. /\ (f \o t)[size + 1] = b.base /\ (f \o t)[size + 2] = 1 + len
        /\ (f \o t)[size + 3] = b.count
    BY <1>6, <1>12, <2>1
  <2>3. ASSUME NEW m \in 1 .. len
        PROVE  (f \o t)[size + 3 + m] = b.src[m]
    <3>1. 3 + m \in 1 .. 3 + len /\ size + (3 + m) = size + 3 + m
      BY <1>5, <1>10
    <3>2. QED
      BY <1>6, <1>12, <3>1
  <2>4. size + (3 + len) = size + 3 + len /\ size + (3 + len) <= Len(f \o t)
    BY <1>10, <1>11
  <2>5. QED
    BY <1>5, <2>2, <2>3, <2>4 DEF Lies
<1> DEFINE more == [i \in 0 .. n + 1 |-> IF i = n + 1 THEN size + (3 + len) ELSE ends[i]]
<1>14. /\ more[n + 1] = size + (3 + len) /\ more[n] = size
       /\ \A i \in 0 .. n : more[i] = ends[i]
  BY <1>10
<1>15. more \in [0 .. n + 1 -> Nat] /\ more[0] = 0
  <2>1. \A i \in 0 .. n : ends[i] \in Nat
    BY DEF Laid
  <2>2. ASSUME NEW i \in 0 .. n + 1, i # n + 1
        PROVE  i \in 0 .. n
    BY <2>2
  <2>3. 0 \in 0 .. n /\ ends[0] = 0 /\ size + (3 + len) \in Nat
    BY DEF Laid
  <2>4. \A i \in 0 .. n + 1 : more[i] \in Nat
    BY <1>14, <2>1, <2>2, <2>3
  <2>5. QED
    BY <1>14, <2>3, <2>4
<1> HIDE DEF more
<1>16. ASSUME NEW i \in 1 .. n + 1
       PROVE  Lies(f \o t, Append(bs, b)[i], more[i - 1], more[i])
  <2>1. CASE i = n + 1
    <3>1. i - 1 = n
      BY <2>1
    <3>2. QED
      BY <1>8, <1>13, <1>14, <2>1, <3>1
  <2>2. CASE i # n + 1
    <3>1. i \in 1 .. n /\ i \in 0 .. n /\ i - 1 \in 0 .. n
      BY <2>2
    <3>2. QED
      BY <1>9, <1>14, <3>1 DEF Laid
  <2>3. QED
    BY <2>1, <2>2
<1>17. Laid(f \o t, Append(bs, b), n + 1, more)
  BY <1>15, <1>16 DEF Laid
<1>18. LaidWhole(f \o t, Append(bs, b))
  <2>1. more[n + 1] = Len(f \o t) /\ Len(Append(bs, b)) = n + 1
    BY <1>8, <1>11, <1>14
  <2>2. QED
    BY <1>17, <2>1 DEF LaidWhole
<1>19. QED
  BY <1>2, <1>1, <1>18

\* On whole batches the scan for the end computes LogEndOffset.
LEMMA EndOfWhole ==
    ASSUME NEW f \in Seq(Nat), NEW bs \in Seq(Batch(Records)), NEW n \in Nat, n = Len(bs),
           NEW ends, Laid(f, bs, n, ends), ends[n] = Len(f)
    PROVE  log_end_offset(f) = LogEndOffset(bs)
<1>1. /\ n \in 0 .. Len(bs) /\ Len(f) \in Nat
      /\ \A i \in 0 .. n : ends[i] \in Nat
  <2>1. n \in 0 .. Len(bs) /\ Len(f) \in Nat
    BY LenProperties
  <2>2. ends \in [0 .. n -> Nat]
    BY DEF Laid
  <2>3. QED
    BY <2>1, <2>2
<1>2. \A q \in Headers(f) : \E i \in 1 .. n : q = ends[i - 1]
  <2>1. ASSUME NEW q \in Headers(f), ends[n] <= q
        PROVE  FALSE
    BY <1>1, <2>1, HeadersType
  <2>2. \A q \in Headers(f) : ends[n] <= q \/ \E i \in 1 .. n : q = ends[i - 1]
    <3>1. PICK k \in 0 .. Len(bs) : k = n
      BY <1>1
    <3>2. Laid(f, bs, k, ends)
      BY <3>1
    <3>3. ASSUME NEW q \in Headers(f)
          PROVE  ends[k] <= q \/ \E i \in 1 .. k : q = ends[i - 1]
      BY <3>2, LaidHeaders
    <3>4. QED
      BY <3>1, <3>3
  <2>3. QED
    BY <2>1, <2>2
<1>3. CASE n = 0
  <2>1. 1 .. n = {}
    BY <1>3
  <2>2. Headers(f) = {} /\ bs = <<>>
    BY <1>2, <1>3, <2>1, EmptySeq
  <2>3. QED
    BY <2>2 DEF log_end_offset, LogEndOffset
<1>4. CASE n # 0
  <2>1. n \in 1 .. n /\ n - 1 \in 0 .. n
    BY <1>4
  <2>2. PICK last \in Nat : last = ends[n - 1]
    BY <1>1, <2>1
  <2>3. last \in Headers(f)
    BY <1>1, <2>1, <2>2, LaidHeaders
  <2>4. ASSUME NEW q \in Headers(f)
        PROVE  q <= last /\ q \in Nat
    <3>1. PICK i \in 1 .. n : q = ends[i - 1]
      BY <1>2
    <3>2. i - 1 \in 0 .. n /\ (i - 1 < n - 1 \/ i - 1 = n - 1)
      OBVIOUS
    <3>3. q \in Nat
      BY <1>1, <3>1, <3>2
    <3>4. CASE i - 1 = n - 1
      BY <2>2, <3>1, <3>3, <3>4
    <3>5. CASE i - 1 < n - 1
      <4>1. ends[i - 1] < ends[n - 1]
        BY <1>1, <2>1, <3>2, <3>5, EndsInOrder
      <4>2. QED
        BY <2>2, <3>1, <3>3, <4>1
    <3>6. QED
      BY <3>2, <3>3, <3>4, <3>5
  <2>5. (CHOOSE p \in Headers(f) : \A q \in Headers(f) : q <= p) = last
    <3>1. \A p \in Headers(f) : (\A q \in Headers(f) : q <= p) => p = last
      BY <2>3, <2>4
    <3>2. QED
      BY <2>3, <2>4, <3>1
  <2>6. bs[n] \in Batch(Records) /\ Lies(f, bs[n], last, ends[n])
    BY <1>1, <2>1, <2>2, ElementOfSeq DEF Laid
  <2>7. base_offset(f, last) + record_count(f, last) = EndOffset(bs[n])
    BY <1>1, <2>6, LiesHeader
  <2>8. bs # <<>>
    BY <1>4, EmptySeq
  <2>9. QED
    BY <2>3, <2>5, <2>7, <2>8 DEF log_end_offset, LogEndOffset
<1>5. QED
  BY <1>3, <1>4

-----------------------------------------------------------------------------
(* Reads. *)

\* The cells of a batch that lies in the file are what was encoded.
LEMMA LiesIsEncode ==
    ASSUME NEW f \in Seq(Nat), NEW b \in Batch(Records), NEW start \in Nat, NEW end \in Nat,
           Lies(f, b, start, end)
    PROVE  /\ SubSeq(f, start + 1, end) =
                Encode(b.base, [count |-> b.count, records |-> b.src])
           /\ Len(Encode(b.base, [count |-> b.count, records |-> b.src])) = end - start
<1>1. b.base \in Nat /\ b.count \in Nat /\ b.src \in Records
  BY DEF Batch
<1>2. PICK sent : sent = [count |-> b.count, records |-> b.src]
  OBVIOUS
<1>3. sent.count = b.count /\ sent.records = b.src
  BY <1>2
<1>4. PICK e : e = Encode(b.base, sent)
  OBVIOUS
<1>5. PICK len \in Nat \ {0} : len = Len(b.src)
  BY <1>1, RecordsType
<1>6. /\ e \in Seq(Nat) /\ Len(e) = 3 + len
      /\ e[1] = b.base /\ e[2] = 1 + len /\ e[3] = b.count
      /\ \A m \in 1 .. len : e[3 + m] = b.src[m]
  <2>1. PICK base \in Nat : base = b.base
    BY <1>1
  <2>2. sent \in [count : Nat, records : Records]
    BY <1>1, <1>2
  <2>3. /\ Encode(base, sent) \in Seq(Nat)
        /\ Len(Encode(base, sent)) = 3 + Len(sent.records)
        /\ Encode(base, sent)[1] = base
        /\ Encode(base, sent)[2] = 1 + Len(sent.records)
        /\ Encode(base, sent)[3] = sent.count
        /\ \A m \in 1 .. Len(sent.records) : Encode(base, sent)[3 + m] = sent.records[m]
    BY <2>2, EncodeIs
  <2>4. QED
    BY <1>3, <1>4, <1>5, <2>1, <2>3
<1>7. PICK size \in Nat : size = Len(f)
  BY LenProperties
<1>8. /\ end = start + 3 + len /\ end <= size
      /\ f[start + 1] = b.base /\ f[start + 2] = 1 + len /\ f[start + 3] = b.count
      /\ \A m \in 1 .. len : f[start + 3 + m] = b.src[m]
  BY <1>5, <1>7 DEF Lies
<1>9. ASSUME NEW i \in 1 .. 3 + len
      PROVE  f[start + i] = e[i]
  <2>1. CASE i \in {1, 2, 3}
    BY <1>6, <1>8, <2>1
  <2>2. CASE i \notin {1, 2, 3}
    <3>1. PICK m \in 1 .. len : i = 3 + m
      <4>1. i - 3 \in 1 .. len /\ i = 3 + (i - 3)
        BY <2>2
      <4>2. QED
        BY <4>1
    <3>2. start + i = start + 3 + m
      BY <3>1
    <3>3. QED
      BY <1>6, <1>8, <3>1, <3>2
  <2>3. QED
    BY <2>1, <2>2
<1>10. PICK g : g = SubSeq(f, start + 1, end)
  OBVIOUS
<1>11. g \in Seq(Nat) /\ Len(g) = 3 + len /\ \A i \in 1 .. 3 + len : g[i] = f[start + i]
  <2>1. \A i \in start + 1 .. end : f[i] \in Nat
    <3>1. ASSUME NEW i \in start + 1 .. end
          PROVE  f[i] \in Nat
      <4>1. i \in 1 .. Len(f)
        BY <1>7, <1>8
      <4>2. QED
        BY <4>1, ElementOfSeq
    <3>2. QED
      BY <3>1
  <2>2. PICK from \in Int : from = start + 1
    OBVIOUS
  <2>3. \A i \in from .. end : f[i] \in Nat
    BY <2>1, <2>2
  <2>4. /\ SubSeq(f, from, end) \in Seq(Nat)
        /\ Len(SubSeq(f, from, end)) = IF from <= end THEN end - from + 1 ELSE 0
        /\ \A i \in 1 .. end - from + 1 : SubSeq(f, from, end)[i] = f[from + i - 1]
    BY <2>3, SubSeqProperties
  <2>5. from <= end /\ end - from + 1 = 3 + len
    BY <1>8, <2>2
  <2>6. \A i \in 1 .. 3 + len : from + i - 1 = start + i
    BY <2>2
  <2>7. g = SubSeq(f, from, end)
    BY <1>10, <2>2
  <2>8. g \in Seq(Nat) /\ Len(g) = 3 + len
    BY <2>4, <2>5, <2>7
  <2>9. \A i \in 1 .. 3 + len : g[i] = f[from + i - 1]
    BY <2>4, <2>5, <2>7
  <2>10. QED
    BY <2>6, <2>8, <2>9
<1>12. g = e
  <2>1. e \in Seq(Nat) /\ g \in Seq(Nat) /\ Len(g) = Len(e)
    BY <1>6, <1>11
  <2>2. \A i \in 1 .. Len(g) : g[i] = e[i]
    BY <1>9, <1>11
  <2>3. QED
    BY <2>1, <2>2, SeqEqual
<1>13. Len(e) = end - start
  BY <1>6, <1>8
<1>14. QED
  BY <1>2, <1>4, <1>10, <1>12, <1>13

\* A file of whole batches is the concatenation of their encodings.
LEMMA EncodeAllIs ==
    ASSUME NEW f \in Seq(Nat), NEW bs \in Seq(Batch(Records)), NEW n \in Nat, n = Len(bs),
           NEW ends, Laid(f, bs, n, ends), ends[n] = Len(f)
    PROVE  EncodeAll(bs) = f
<1> DEFINE code(i) == Encode(bs[i].base, [count |-> bs[i].count, records |-> bs[i].src])
<1> DEFINE step(v) == [i \in 0 .. Len(bs) |-> IF i = 0 THEN <<>> ELSE v[i - 1] \o code(i)]
<1> DEFINE enc == CHOOSE v : v = step(v)
<1>1. EncodeAll(bs) = enc[Len(bs)]
  BY DEF EncodeAll
<1>2. ends[0] = 0 /\ \A i \in 0 .. n : ends[i] \in Nat
  BY DEF Laid
<1>3. PICK size \in Nat : size = Len(f)
  BY LenProperties
<1>4. ASSUME NEW i \in 1 .. n
      PROVE  /\ i \in 0 .. n /\ i - 1 \in 0 .. n
             /\ SubSeq(f, 1, ends[i - 1]) \o code(i) = SubSeq(f, 1, ends[i])
  <2>1. i \in 0 .. n /\ i - 1 \in 0 .. n /\ i \in 1 .. Len(bs)
    OBVIOUS
  <2>2. PICK b \in Batch(Records) : b = bs[i]
    BY <2>1, ElementOfSeq
  <2>3. PICK start \in Nat : start = ends[i - 1]
    BY <1>2, <2>1
  <2>4. PICK end \in Nat : end = ends[i]
    BY <1>2, <2>1
  <2>5. Lies(f, b, start, end)
    BY <2>2, <2>3, <2>4 DEF Laid
  <2>6. SubSeq(f, start + 1, end) = code(i)
    <3>1. SubSeq(f, start + 1, end) =
            Encode(b.base, [count |-> b.count, records |-> b.src])
      BY <2>5, LiesIsEncode
    <3>2. QED
      BY <2>2, <3>1
  <2>7. start + 3 < end /\ end <= size
    BY <1>3, <2>5, LiesHeader DEF Lies
  <2>8. 1 \in 1 .. size + 1 /\ start \in 1 - 1 .. size /\ end \in start .. size
    BY <2>7
  <2>9. SubSeq(f, 1, start) \o SubSeq(f, start + 1, end) = SubSeq(f, 1, end)
    BY <1>3, <2>8, ConcatAdjacentSubSeq
  <2>10. QED
    BY <2>1, <2>3, <2>4, <2>6, <2>9
<1>5. SubSeq(f, 1, ends[0]) = <<>>
  BY <1>2, SubSeqEmpty
<1> HIDE DEF code
<1>6. \E v : v = step(v)
  <2> DEFINE w == [i \in 0 .. Len(bs) |-> SubSeq(f, 1, ends[i])]
  <2>1. ASSUME NEW i \in 0 .. Len(bs)
        PROVE  w[i] = IF i = 0 THEN <<>> ELSE w[i - 1] \o code(i)
    <3>1. CASE i = 0
      BY <1>5, <3>1
    <3>2. CASE i # 0
      <4>1. i \in 1 .. n /\ i - 1 \in 0 .. Len(bs)
        BY <3>2
      <4>2. QED
        BY <1>4, <3>2, <4>1
    <3>3. QED
      BY <3>1, <3>2
  <2>2. w = [i \in 0 .. Len(bs) |-> w[i]]
    OBVIOUS
  <2> HIDE DEF w
  <2>3. w = step(w)
    BY <2>1, <2>2
  <2>4. QED
    BY <2>3
<1>7. enc = step(enc)
  BY <1>6
<1> HIDE DEF enc
<1>8. ASSUME NEW i \in 0 .. n
      PROVE  enc[i] = IF i = 0 THEN <<>> ELSE enc[i - 1] \o code(i)
  BY <1>7
<1> DEFINE Bad == {i \in 0 .. n : enc[i] # SubSeq(f, 1, ends[i])}
<1>9. ASSUME Bad # {}
      PROVE  FALSE
  <2>1. Bad \in SUBSET Nat
    OBVIOUS
  <2>2. PICK i \in Bad : \A j \in Bad : i <= j
    BY <1>9, <2>1, LeastElement
  <2>3. i # 0
    BY <1>5, <1>8
  <2>4. i \in 1 .. n /\ i - 1 \in 0 .. n /\ i - 1 \notin Bad
    <3>1. i \in 1 .. n /\ i - 1 \in 0 .. n /\ ~(i <= i - 1)
      BY <2>3
    <3>2. QED
      BY <2>2, <3>1
  <2>5. enc[i - 1] = SubSeq(f, 1, ends[i - 1])
    BY <2>4
  <2>6. enc[i] = SubSeq(f, 1, ends[i])
    BY <1>4, <1>8, <2>3, <2>4, <2>5
  <2>7. QED
    BY <2>6
<1>10. enc[n] = SubSeq(f, 1, Len(f))
  <2>1. n \in 0 .. n /\ n \notin Bad
    BY <1>9
  <2>2. QED
    BY <2>1
<1>11. QED
  BY <1>1, <1>10, SubSeqFull

LEMMA Shifted ==
    ASSUME NEW start \in Nat, NEW rest \in Nat, NEW len \in Nat \ {0},
           NEW x \in Nat, NEW y \in Nat, NEW u \in Nat, NEW v \in Nat,
           start + u = x, start + v = y, y = x + 3 + len, y <= start + rest
    PROVE  /\ v = u + 3 + len /\ v <= rest
           /\ u + 1 \in 1 .. rest /\ u + 2 \in 1 .. rest /\ u + 3 \in 1 .. rest
           /\ start + (u + 1) = x + 1 /\ start + (u + 2) = x + 2 /\ start + (u + 3) = x + 3
           /\ \A m \in 1 .. len : u + 3 + m \in 1 .. rest /\ start + (u + 3 + m) = x + 3 + m
<1>1. v = u + 3 + len /\ v <= rest
  OBVIOUS
<1>2. ASSUME NEW m \in 1 .. len
      PROVE  u + 3 + m \in 1 .. rest /\ start + (u + 3 + m) = x + 3 + m
  BY <1>1
<1>3. u + 1 \in 1 .. rest /\ u + 2 \in 1 .. rest /\ u + 3 \in 1 .. rest
  BY <1>1
<1>4. start + (u + 1) = x + 1 /\ start + (u + 2) = x + 2 /\ start + (u + 3) = x + 3
  OBVIOUS
<1>5. QED
  BY <1>1, <1>2, <1>3, <1>4

\* The rest of a file of whole batches, from one of them on, is one, too.
LEMMA LaidRest ==
    ASSUME NEW f \in Seq(Nat), NEW bs \in Seq(Batch(Records)), NEW n \in Nat, n = Len(bs),
           NEW ends, Laid(f, bs, n, ends), ends[n] = Len(f), NEW k \in 1 .. n
    PROVE  EncodeAll(SubSeq(bs, k, n)) = SubSeq(f, ends[k - 1] + 1, Len(f))
<1>1. PICK count \in Nat \ {0} : count = n - k + 1
  <2>1. n - k + 1 \in Nat \ {0}
    OBVIOUS
  <2>2. QED
    BY <2>1
<1>2. PICK size \in Nat : size = Len(f)
  BY LenProperties
<1>3. \A i \in 0 .. n : ends[i] \in Nat
  BY DEF Laid
<1>4. PICK start \in Nat : start = ends[k - 1]
  <2>1. k - 1 \in 0 .. n
    OBVIOUS
  <2>2. QED
    BY <1>3, <2>1
<1>5. PICK part : part = SubSeq(bs, k, n)
  OBVIOUS
<1>6. part \in Seq(Batch(Records)) /\ Len(part) = count /\ \A i \in 1 .. count : part[i] = bs[k + i - 1]
  <2>1. ASSUME NEW i \in k .. n
        PROVE  bs[i] \in Batch(Records)
    <3>1. i \in 1 .. Len(bs)
      OBVIOUS
    <3>2. QED
      BY <3>1, ElementOfSeq
  <2>2. /\ SubSeq(bs, k, n) \in Seq(Batch(Records))
        /\ Len(SubSeq(bs, k, n)) = IF k <= n THEN n - k + 1 ELSE 0
        /\ \A i \in 1 .. n - k + 1 : SubSeq(bs, k, n)[i] = bs[k + i - 1]
    BY <2>1, SubSeqProperties
  <2>3. QED
    BY <1>1, <1>5, <2>2
<1>7. start <= size
  <2>1. k \in 1 .. Len(bs)
    OBVIOUS
  <2>2. bs[k] \in Batch(Records)
    BY <2>1, ElementOfSeq
  <2>3. PICK end \in Nat : end = ends[k]
    BY <1>3
  <2>4. Lies(f, bs[k], start, end)
    BY <1>4, <2>3 DEF Laid
  <2>5. start + 3 <= Len(f)
    BY <2>2, <2>4, LiesHeader
  <2>6. QED
    BY <1>2, <2>5
<1>8. PICK g : g = SubSeq(f, start + 1, size)
  OBVIOUS
<1>9. PICK rest \in Nat : start + rest = size
  <2>1. size - start \in Nat /\ start + (size - start) = size
    BY <1>7
  <2>2. QED
    BY <2>1
<1>10. g \in Seq(Nat) /\ Len(g) = rest /\ \A i \in 1 .. rest : g[i] = f[start + i]
  <2>1. PICK from \in Int : from = start + 1
    OBVIOUS
  <2>2. ASSUME NEW i \in from .. size
        PROVE  f[i] \in Nat
    <3>1. i \in 1 .. Len(f)
      BY <1>2, <2>1
    <3>2. QED
      BY <3>1, ElementOfSeq
  <2>3. /\ SubSeq(f, from, size) \in Seq(Nat)
        /\ Len(SubSeq(f, from, size)) = IF from <= size THEN size - from + 1 ELSE 0
        /\ \A i \in 1 .. size - from + 1 : SubSeq(f, from, size)[i] = f[from + i - 1]
    <3>1. \A i \in from .. size : f[i] \in Nat
      BY <2>2
    <3>2. QED
      BY <3>1, SubSeqProperties
  <2>4. size - from + 1 = rest /\ (from <= size \/ rest = 0)
    <3>1. start + rest = size
      BY <1>9
    <3>2. size = from + rest - 1
      BY <2>1, <3>1
    <3>3. QED
      BY <3>2
  <2>5. \A i \in 1 .. rest : from + i - 1 = start + i
    BY <2>1
  <2>6. QED
    BY <1>8, <2>1, <2>3, <2>4, <2>5
<1> DEFINE pos == [i \in 0 .. count |-> ends[k - 1 + i] - start]
<1>11. ASSUME NEW i \in 1 .. count
       PROVE  /\ pos[i - 1] \in Nat /\ pos[i] \in Nat
              /\ Lies(g, part[i], pos[i - 1], pos[i])
  <2>1. PICK j \in 1 .. n : j = k + i - 1
    <3>1. k + i - 1 \in 1 .. n
      BY <1>1
    <3>2. QED
      BY <3>1
  <2>2. j \in 0 .. n /\ j - 1 \in 0 .. n /\ k - 1 \in 0 .. n /\ k - 1 <= j - 1
    BY <2>1
  <2>3. PICK b \in Batch(Records) : b = bs[j] /\ b = part[i]
    <3>1. bs[j] \in Batch(Records)
      BY ElementOfSeq
    <3>2. QED
      BY <1>6, <2>1, <3>1
  <2>4. PICK x \in Nat : x = ends[j - 1]
    BY <1>3, <2>2
  <2>5. PICK y \in Nat : y = ends[j]
    BY <1>3, <2>2
  <2>6. Lies(f, b, x, y)
    BY <2>3, <2>4, <2>5 DEF Laid
  <2>7. start <= x
    <3>1. CASE k - 1 = j - 1
      BY <1>4, <2>4, <3>1
    <3>2. CASE k - 1 < j - 1
      <4>1. n \in 0 .. Len(bs)
        OBVIOUS
      <4>2. ends[k - 1] < ends[j - 1]
        BY <2>2, <3>2, <4>1, EndsInOrder
      <4>3. QED
        BY <1>4, <2>4, <4>2
    <3>3. QED
      BY <2>2, <3>1, <3>2
  <2>8. PICK len \in Nat \ {0} : len = Len(b.src)
    BY <2>6, LiesHeader
  <2>9. /\ y = x + 3 + len /\ y <= size
        /\ f[x + 1] = b.base /\ f[x + 2] = 1 + len /\ f[x + 3] = b.count
        /\ \A m \in 1 .. len : f[x + 3 + m] = b.src[m]
    BY <1>2, <2>6, <2>8 DEF Lies
  <2>10. y = x + 3 + len /\ y <= size
    BY <2>9
  <2>11. /\ x - start \in Nat /\ start + (x - start) = x
        /\ y - start \in Nat /\ start + (y - start) = y
    BY <2>7, <2>10
  <2>12. PICK u \in Nat : u = x - start /\ start + u = x
    BY <2>11
  <2>13. PICK v \in Nat : v = y - start /\ start + v = y
    BY <2>11
  <2>14. y <= start + rest
    BY <1>9, <2>10
  <2>15. /\ v = u + 3 + len /\ v <= rest
         /\ u + 1 \in 1 .. rest /\ u + 2 \in 1 .. rest /\ u + 3 \in 1 .. rest
         /\ start + (u + 1) = x + 1 /\ start + (u + 2) = x + 2 /\ start + (u + 3) = x + 3
         /\ \A m \in 1 .. len : u + 3 + m \in 1 .. rest /\ start + (u + 3 + m) = x + 3 + m
    BY <2>10, <2>14, <2>12, <2>13, Shifted
  <2>16. ASSUME NEW m \in 1 .. len
         PROVE  g[u + 3 + m] = b.src[m]
    <3>1. u + 3 + m \in 1 .. rest /\ start + (u + 3 + m) = x + 3 + m
      BY <2>15
    <3>2. QED
      BY <1>10, <2>9, <3>1
  <2>17. g[u + 1] = b.base /\ g[u + 2] = 1 + len /\ g[u + 3] = b.count
    <3>1. \A c \in 1 .. rest : g[c] = f[start + c]
      BY <1>10
    <3>2. g[u + 1] = f[start + (u + 1)] /\ g[u + 2] = f[start + (u + 2)] /\ g[u + 3] = f[start + (u + 3)]
      BY <2>15, <3>1
    <3>3. g[u + 1] = f[x + 1] /\ g[u + 2] = f[x + 2] /\ g[u + 3] = f[x + 3]
      BY <2>15, <3>2
    <3>4. QED
      BY <2>9, <3>3
  <2>18. Lies(g, b, u, v)
    BY <1>10, <2>8, <2>15, <2>16, <2>17 DEF Lies
  <2>19. pos[i - 1] = u /\ pos[i] = v
    <3>1. /\ i \in 0 .. count /\ i - 1 \in 0 .. count
          /\ k - 1 + i = j /\ k - 1 + (i - 1) = j - 1
      BY <2>1
    <3>2. QED
      BY <2>4, <2>5, <2>12, <2>13, <3>1
  <2>20. QED
    BY <2>3, <2>18, <2>19
<1>12. pos[0] = 0 /\ pos[count] = rest
  <2>1. 0 \in 0 .. count /\ count \in 0 .. count /\ k - 1 + 0 = k - 1 /\ k - 1 + count = n
    BY <1>1
  <2>2. pos[0] = ends[k - 1] - start /\ pos[count] = ends[n] - start
    BY <2>1
  <2>3. pos[0] = start - start /\ pos[count] = size - start
    BY <1>2, <1>4, <2>2
  <2>4. start - start = 0 /\ size - start = rest
    BY <1>9
  <2>5. QED
    BY <2>3, <2>4
<1>13. pos \in [0 .. count -> Nat]
  <2>1. ASSUME NEW i \in 0 .. count
        PROVE  pos[i] \in Nat
    <3>1. CASE i = 0
      BY <1>12, <3>1
    <3>2. CASE i # 0
      <4>1. i \in 1 .. count
        BY <3>2
      <4>2. QED
        BY <1>11, <4>1
    <3>3. QED
      BY <3>1, <3>2
  <2> DEFINE same == [i \in 0 .. count |-> pos[i]]
  <2>2. same \in [0 .. count -> Nat]
    BY <2>1
  <2>3. QED
    BY <2>2
<1> HIDE DEF pos
<1>14. Laid(g, part, count, pos)
  BY <1>11, <1>12, <1>13 DEF Laid
<1>15. EncodeAll(part) = g
  <2>1. PICK h \in Nat : h = count
    OBVIOUS
  <2>2. QED
    BY <1>6, <1>10, <1>12, <1>14, <2>1, EncodeAllIs
<1>16. QED
  BY <1>2, <1>4, <1>5, <1>8, <1>15

\* A read from an offset that one of the whole batches holds starts there.
LEMMA FirstHit ==
    ASSUME NEW f \in Seq(Nat), NEW bs \in Seq(Batch(Records)), NEW n \in Nat, n = Len(bs),
           NEW ends, Laid(f, bs, n, ends), Contiguous(bs),
           NEW k \in 1 .. n, NEW o \in Nat, Covers(bs[k], o)
    PROVE  read_log_from_offset(f, o) = SubSeq(f, ends[k - 1] + 1, Len(f))
<1> DEFINE hits == {p \in Headers(f) : base_offset(f, p) + record_count(f, p) > o}
<1>1. /\ n \in 0 .. Len(bs) /\ DOMAIN bs = 1 .. n
      /\ \A i \in 0 .. n : ends[i] \in Nat
  <2>1. n \in 0 .. Len(bs) /\ DOMAIN bs = 1 .. n
    BY LenProperties
  <2>2. ends \in [0 .. n -> Nat]
    BY DEF Laid
  <2>3. QED
    BY <2>1, <2>2
<1>2. ASSUME NEW i \in 1 .. n
      PROVE  /\ ends[i - 1] \in Headers(f)
             /\ base_offset(f, ends[i - 1]) + record_count(f, ends[i - 1]) = EndOffset(bs[i])
             /\ EndOffset(bs[i]) \in Nat /\ bs[i].base \in Nat
  <2>1. i \in 1 .. Len(bs) /\ i \in 0 .. n /\ i - 1 \in 0 .. n
    BY <1>1
  <2>2. bs[i] \in Batch(Records)
    BY <2>1, ElementOfSeq
  <2>3. PICK x \in Nat : x = ends[i - 1]
    BY <1>1, <2>1
  <2>4. PICK y \in Nat : y = ends[i]
    BY <1>1, <2>1
  <2>5. Lies(f, bs[i], x, y)
    BY <2>3, <2>4 DEF Laid
  <2>6. base_offset(f, x) + record_count(f, x) = EndOffset(bs[i])
    BY <2>2, <2>5, LiesHeader
  <2>7. ends[i - 1] \in Headers(f)
    <3>1. PICK h \in 0 .. Len(bs) : h = n
      BY <1>1
    <3>2. Laid(f, bs, h, ends)
      BY <3>1
    <3>3. \A m \in 1 .. h : ends[m - 1] \in Headers(f)
      BY <3>2, LaidHeaders
    <3>4. QED
      BY <3>1, <3>3
  <2>8. EndOffset(bs[i]) \in Nat /\ bs[i].base \in Nat
    BY <2>1, BatchFields
  <2>9. QED
    BY <2>3, <2>6, <2>7, <2>8
<1>3. PICK start \in Nat : start = ends[k - 1]
  <2>1. k - 1 \in 0 .. n
    OBVIOUS
  <2>2. QED
    BY <1>1, <2>1
<1>4. start \in hits
  <2>1. ends[k - 1] \in hits
    BY <1>2 DEF Covers
  <2>2. QED
    BY <1>3, <2>1
<1>5. ASSUME NEW q \in hits
      PROVE  q \in Nat /\ start <= q
  <2>1. q \in Nat /\ q \in Headers(f)
    BY HeadersType
  <2>2. CASE ends[n] <= q
    <3>1. k - 1 \in 0 .. n /\ n \in 0 .. n /\ k - 1 < n
      OBVIOUS
    <3>2. ends[k - 1] < ends[n]
      BY <1>1, <3>1, EndsInOrder
    <3>3. PICK last \in Nat : last = ends[n]
      BY <1>1, <3>1
    <3>4. start < last /\ last <= q
      BY <1>3, <2>2, <3>2, <3>3
    <3>5. QED
      BY <2>1, <3>4
  <2>3. CASE \E i \in 1 .. n : q = ends[i - 1]
    <3>1. PICK i \in 1 .. n : q = ends[i - 1]
      BY <2>3
    <3>2. EndOffset(bs[i]) > o
      BY <1>2, <3>1
    <3>3. ~(i < k)
      <4>1. ASSUME i < k
            PROVE  FALSE
        <5>1. i \in 1 .. k - 1 /\ k \in DOMAIN bs
          BY <1>1, <4>1
        <5>2. EndOffset(bs[i]) <= bs[k].base
          BY <5>1, BatchesInOrder
        <5>3. bs[k].base <= o
          BY DEF Covers
        <5>4. QED
          BY <1>2, <3>2, <5>2, <5>3
      <4>2. QED
        BY <4>1
    <3>4. CASE i = k
      BY <1>3, <2>1, <3>1, <3>4
    <3>5. CASE i # k
      <4>1. k - 1 \in 0 .. n /\ i - 1 \in 0 .. n /\ k - 1 < i - 1
        BY <3>3, <3>5
      <4>2. ends[k - 1] < ends[i - 1]
        BY <1>1, <4>1, EndsInOrder
      <4>3. QED
        BY <1>3, <2>1, <3>1, <4>2
    <3>6. QED
      BY <3>4, <3>5
  <2>4. ends[n] <= q \/ \E i \in 1 .. n : q = ends[i - 1]
    <3>1. PICK h \in 0 .. Len(bs) : h = n
      BY <1>1
    <3>2. Laid(f, bs, h, ends)
      BY <3>1
    <3>3. ends[h] <= q \/ \E i \in 1 .. h : q = ends[i - 1]
      BY <2>1, <3>2, LaidHeaders
    <3>4. QED
      BY <3>1, <3>3
  <2>5. QED
    BY <2>2, <2>3, <2>4
<1>6. (CHOOSE p \in hits : \A q \in hits : p <= q) = start
  <2>1. ASSUME NEW p \in hits, \A q \in hits : p <= q
        PROVE  p = start
    <3>1. p <= start /\ start <= p /\ p \in Nat
      BY <1>4, <1>5, <2>1
    <3>2. QED
      BY <3>1
  <2>2. \A q \in hits : start <= q
    BY <1>5
  <2> HIDE DEF hits
  <2>3. QED
    BY <1>4, <2>1, <2>2
<1>7. read_log_from_offset(f, o) = SubSeq(f, start + 1, Len(f))
  BY <1>4, <1>6 DEF read_log_from_offset
<1>8. QED
  BY <1>3, <1>7

\* On a file of whole batches the scans compute what PartitionLog says.
LEMMA ScansOfWhole ==
    ASSUME NEW f \in Seq(Nat), NEW bs \in Seq(Batch(Records)), NEW n \in Nat, n = Len(bs),
           NEW ends, Laid(f, bs, n, ends), ends[n] = Len(f), Contiguous(bs),
           NEW o \in Nat
    PROVE  read_log_from_offset(f, o) = EncodeAll(ReadLogFrom(bs, o))
<1>1. DOMAIN bs = 1 .. n /\ \A i \in 0 .. n : ends[i] \in Nat
  <2>1. DOMAIN bs = 1 .. n
    BY LenProperties
  <2>2. ends \in [0 .. n -> Nat]
    BY DEF Laid
  <2>3. QED
    BY <2>1, <2>2
<1>2. CASE \E k \in DOMAIN bs : Covers(bs[k], o)
  <2>1. PICK k \in 1 .. n : Covers(bs[k], o)
    BY <1>1, <1>2
  <2>2. k \in DOMAIN bs /\ k - 1 \in 0 .. n
    BY <1>1
  <2>3. PICK start \in Nat : start = ends[k - 1]
    BY <1>1, <2>2
  <2>4. read_log_from_offset(f, o) = SubSeq(f, start + 1, Len(f))
    <3>1. read_log_from_offset(f, o) = SubSeq(f, ends[k - 1] + 1, Len(f))
      BY <2>1, FirstHit
    <3>2. QED
      BY <2>3, <3>1
  <2>5. EncodeAll(SubSeq(bs, k, n)) = SubSeq(f, start + 1, Len(f))
    <3>1. EncodeAll(SubSeq(bs, k, n)) = SubSeq(f, ends[k - 1] + 1, Len(f))
      BY LaidRest
    <3>2. QED
      BY <2>3, <3>1
  <2>6. ReadLogFrom(bs, o) = SubSeq(bs, k, Len(bs))
    BY <2>1, <2>2, ReadFindsBatch
  <2>7. QED
    BY <2>4, <2>5, <2>6
<1>3. CASE ~\E k \in DOMAIN bs : Covers(bs[k], o)
  <2>1. PICK last \in Nat : last = LogEndOffset(bs)
    BY LogEndOffsetType
  <2>2. last <= o
    <3>1. ~(o < LogEndOffset(bs))
      BY <1>3, OffsetIsCovered
    <3>2. QED
      BY <2>1, <3>1
  <2>3. ASSUME NEW i \in 1 .. n
        PROVE  ~(EndOffset(bs[i]) > o) /\ EndOffset(bs[i]) \in Nat
    <3>1. i \in DOMAIN bs /\ i \in 1 .. Len(bs)
      BY <1>1
    <3>2. EndOffset(bs[i]) <= LogEndOffset(bs)
      BY <3>1, LogEndBounds
    <3>3. EndOffset(bs[i]) \in Nat
      BY <3>1, BatchFields
    <3>4. QED
      BY <2>1, <2>2, <3>2, <3>3
  <2>4. ReadLogFrom(bs, o) = <<>>
    <3>1. {i \in DOMAIN bs : EndOffset(bs[i]) > o} = {}
      BY <1>1, <2>3
    <3>2. QED
      BY <3>1 DEF ReadLogFrom
  <2>5. ASSUME NEW q \in Headers(f)
        PROVE  ~(base_offset(f, q) + record_count(f, q) > o)
    <3>1. PICK i \in 1 .. n : q = ends[i - 1]
      <4>1. PICK h \in 0 .. Len(bs) : h = n
        OBVIOUS
      <4>2. Laid(f, bs, h, ends)
        BY <4>1
      <4>3. ends[h] <= q \/ \E i \in 1 .. h : q = ends[i - 1]
        BY <4>2, LaidHeaders
      <4>4. q \in Nat /\ q + 3 <= Len(f) /\ Len(f) \in Nat
        BY HeadersType, LenProperties
      <4>5. ~(ends[n] <= q)
        BY <4>4
      <4>6. QED
        BY <4>1, <4>3, <4>5
    <3>2. i \in 1 .. Len(bs) /\ i \in 0 .. n /\ i - 1 \in 0 .. n
      OBVIOUS
    <3>3. bs[i] \in Batch(Records)
      BY <3>2, ElementOfSeq
    <3>4. PICK x \in Nat : x = ends[i - 1]
      BY <1>1, <3>2
    <3>5. PICK y \in Nat : y = ends[i]
      BY <1>1, <3>2
    <3>6. Lies(f, bs[i], x, y)
      BY <3>4, <3>5 DEF Laid
    <3>7. base_offset(f, x) + record_count(f, x) = EndOffset(bs[i])
      BY <3>3, <3>6, LiesHeader
    <3>8. QED
      BY <2>3, <3>1, <3>4, <3>7
  <2>6. read_log_from_offset(f, o) = <<>>
    <3>1. {q \in Headers(f) : base_offset(f, q) + record_count(f, q) > o} = {}
      BY <2>5
    <3>2. QED
      BY <3>1 DEF read_log_from_offset
  <2>7. EncodeAll(<<>>) = <<>>
    <3>1. PICK none : none = <<>>
      OBVIOUS
    <3>2. PICK nil \in Seq(Batch(Records)) : nil = none /\ Len(nil) = 0
      BY <3>1, EmptySeq
    <3>3. PICK zero \in Seq(Nat) : zero = none /\ Len(zero) = 0
      BY <3>1, EmptySeq
    <3>4. PICK z \in Nat : z = 0
      OBVIOUS
    <3> DEFINE at == [i \in 0 .. z |-> 0]
    <3>5. at \in [0 .. z -> Nat] /\ at[0] = 0 /\ at[z] = 0 /\ 1 .. z = {}
      BY <3>4
    <3> HIDE DEF at
    <3>6. Laid(zero, nil, z, at)
      BY <3>5 DEF Laid
    <3>7. z = Len(nil) /\ at[z] = Len(zero)
      BY <3>2, <3>3, <3>4, <3>5
    <3>8. EncodeAll(nil) = zero
      BY <3>6, <3>7, EncodeAllIs
    <3>9. QED
      BY <3>1, <3>2, <3>3, <3>8
  <2>8. QED
    BY <2>4, <2>6, <2>7
<1>4. QED
  BY <1>2, <1>3

BeginsWith(f, o, b) ==
    LET bytes == Encode(b.base, [count |-> b.count, records |-> b.src])
        read  == read_log_from_offset(f, o)
    IN  Len(read) >= Len(bytes) /\ SubSeq(read, 1, Len(bytes)) = bytes

\* A read from an offset of a batch begins with that batch.
LEMMA ReadBeginsWith ==
    ASSUME NEW f \in Seq(Nat), NEW bs \in Seq(Batch(Records)), NEW n \in Nat, n = Len(bs),
           NEW ends, Laid(f, bs, n, ends), Contiguous(bs),
           NEW k \in 1 .. n, NEW o \in Nat, Covers(bs[k], o)
    PROVE  BeginsWith(f, o, bs[k])
<1>1. \A i \in 0 .. n : ends[i] \in Nat
  BY DEF Laid
<1>2. k \in 1 .. Len(bs) /\ k \in 0 .. n /\ k - 1 \in 0 .. n
  OBVIOUS
<1>3. PICK b \in Batch(Records) : b = bs[k]
  BY <1>2, ElementOfSeq
<1>4. PICK start \in Nat : start = ends[k - 1]
  BY <1>1, <1>2
<1>5. PICK end \in Nat : end = ends[k]
  BY <1>1, <1>2
<1>6. Lies(f, b, start, end)
  BY <1>3, <1>4, <1>5 DEF Laid
<1>7. PICK size \in Nat : size = Len(f)
  BY LenProperties
<1>8. start + 3 < end /\ end <= size
  BY <1>6, <1>7, LiesHeader DEF Lies
<1>9. PICK bytes : bytes = Encode(b.base, [count |-> b.count, records |-> b.src])
  OBVIOUS
<1>10. bytes = SubSeq(f, start + 1, end) /\ Len(bytes) = end - start
  <2>1. /\ SubSeq(f, start + 1, end) =
             Encode(b.base, [count |-> b.count, records |-> b.src])
        /\ Len(Encode(b.base, [count |-> b.count, records |-> b.src])) = end - start
    BY <1>6, LiesIsEncode
  <2>2. QED
    BY <1>9, <2>1
<1>11. read_log_from_offset(f, o) = SubSeq(f, start + 1, size)
  <2>1. read_log_from_offset(f, o) = SubSeq(f, ends[k - 1] + 1, Len(f))
    BY FirstHit, SMTT(30)
  <2>2. QED
    BY <1>4, <1>7, <2>1
<1>12. PICK from \in 1 .. size : from = start + 1
  <2>1. start + 1 \in 1 .. size
    BY <1>8
  <2>2. QED
    BY <2>1
<1>13. PICK len \in 1 .. size - from + 1 : len = end - start
  <2>1. end - start \in 1 .. size - from + 1
    BY <1>8, <1>12
  <2>2. QED
    BY <2>1
<1>14. SubSeq(SubSeq(f, from, size), 1, len) = SubSeq(f, from, end)
  <2>1. /\ from \in 1 .. Len(f) /\ size \in 1 .. Len(f)
        /\ 1 \in 1 .. size - from + 1 /\ len \in 1 .. size - from + 1
    BY <1>7, <1>12
  <2>2. SubSeq(SubSeq(f, from, size), 1, len) = SubSeq(f, from + 1 - 1, from + len - 1)
    BY <2>1, SubSeqOfSubSeq
  <2>3. from + 1 - 1 = from /\ from + len - 1 = end
    BY <1>12, <1>13
  <2>4. QED
    BY <2>2, <2>3
<1>15. Len(SubSeq(f, from, size)) = size - from + 1
  <2>1. ASSUME NEW i \in from .. size
        PROVE  f[i] \in Nat
    <3>1. i \in 1 .. Len(f)
      BY <1>7
    <3>2. QED
      BY <3>1, ElementOfSeq
  <2>2. \A i \in from .. size : f[i] \in Nat
    BY <2>1
  <2>3. Len(SubSeq(f, from, size)) = IF from <= size THEN size - from + 1 ELSE 0
    BY <2>2, SubSeqProperties
  <2>4. QED
    BY <2>3
<1>16. PICK read : read = read_log_from_offset(f, o)
  OBVIOUS
<1>17. Len(bytes) = len /\ Len(read) = size - from + 1 /\ SubSeq(read, 1, len) = bytes
  BY <1>10, <1>11, <1>12, <1>13, <1>14, <1>15, <1>16
<1>18. len <= size - from + 1
  OBVIOUS
<1>19. Len(read) >= Len(bytes) /\ SubSeq(read, 1, Len(bytes)) = bytes
  BY <1>17, <1>18
<1>20. QED
  BY <1>3, <1>9, <1>16, <1>19 DEF BeginsWith

-----------------------------------------------------------------------------
(* The inductive invariant. *)

\* The first n answered batches have offsets that follow on and lie at the
\* beginning of the file; if no append was odd, they are all there is in it.
WholePrefix(f, bs, n, o) ==
    LET whole == SubSeq(bs, 1, n)
    IN  /\ Contiguous(whole)
        /\ \E ends : /\ Laid(f, whole, n, ends)
                     /\ ~o => n = Len(bs) /\ ends[n] = Len(f)

\* The same of the state.  (Values are named first, because the provers
\* cannot tell what becomes in the next state of a recursive definition
\* that is applied to a variable.)
PrefixInv ==
    \E f, bs, n, o : /\ f = file /\ bs = batches /\ n = intact /\ o = odd
                     /\ WholePrefix(f, bs, n, o)

IInv == TypeOK /\ PrefixInv

LEMMA PrefixIs ==
    ASSUME NEW bs \in Seq(Batch(Records)), NEW n \in Nat, n <= Len(bs)
    PROVE  /\ SubSeq(bs, 1, n) \in Seq(Batch(Records)) /\ Len(SubSeq(bs, 1, n)) = n
           /\ \A i \in 1 .. n : SubSeq(bs, 1, n)[i] = bs[i]
<1>1. \A i \in 1 .. n : bs[i] \in Batch(Records)
  <2>1. ASSUME NEW i \in 1 .. n
        PROVE  bs[i] \in Batch(Records)
    <3>1. i \in 1 .. Len(bs)
      BY LenProperties
    <3>2. QED
      BY <3>1, ElementOfSeq
  <2>2. QED
    BY <2>1
<1>2. PICK one \in Int : one = 1
  OBVIOUS
<1>3. /\ SubSeq(bs, one, n) \in Seq(Batch(Records))
      /\ Len(SubSeq(bs, one, n)) = IF one <= n THEN n - one + 1 ELSE 0
      /\ \A i \in 1 .. n - one + 1 : SubSeq(bs, one, n)[i] = bs[one + i - 1]
  BY <1>1, <1>2, SubSeqProperties
<1>4. Len(SubSeq(bs, 1, n)) = n /\ n - one + 1 = n /\ \A i \in 1 .. n : one + i - 1 = i
  BY <1>2, <1>3
<1>5. QED
  BY <1>2, <1>3, <1>4

\* Whatever is appended, and whatever is answered later.
LEMMA PrefixStays ==
    ASSUME NEW f \in Seq(Nat), NEW t \in Seq(Nat), NEW n \in Nat, NEW o,
           NEW bs \in Seq(Batch(Records)), NEW more \in Seq(Batch(Records)),
           n <= Len(bs), n <= Len(more), \A i \in 1 .. n : more[i] = bs[i],
           WholePrefix(f, bs, n, o)
    PROVE  WholePrefix(f \o t, more, n, TRUE)
<1>1. PICK whole \in Seq(Batch(Records)) :
        /\ whole = SubSeq(bs, 1, n) /\ Len(whole) = n /\ \A i \in 1 .. n : whole[i] = bs[i]
  BY PrefixIs
<1>2. PICK same \in Seq(Batch(Records)) :
        /\ same = SubSeq(more, 1, n) /\ Len(same) = n /\ \A i \in 1 .. n : same[i] = more[i]
  BY PrefixIs
<1>3. same = whole
  BY <1>1, <1>2, SeqEqual
<1>4. PICK ends : Laid(f, whole, n, ends)
  BY <1>1 DEF WholePrefix
<1>5. Laid(f \o t, whole, n, ends)
  <2>1. PICK h \in 0 .. Len(whole) : h = n
    BY <1>1
  <2>2. Laid(f, whole, h, ends) /\ \A i \in 1 .. h : whole[i] = whole[i]
    BY <1>4, <2>1
  <2>3. Laid(f \o t, whole, h, ends)
    BY <2>2, LaidStays
  <2>4. QED
    BY <2>1, <2>3
<1>6. Contiguous(whole)
  BY <1>1 DEF WholePrefix
<1>7. QED
  BY <1>2, <1>3, <1>5, <1>6 DEF WholePrefix

\* One more batch at the end of whole batches.
LEMMA PrefixGrows ==
    ASSUME NEW f \in Seq(Nat), NEW bs \in Seq(Batch(Records)), NEW n \in Nat, n <= Len(bs),
           WholePrefix(f, bs, n, FALSE),
           NEW sent \in [count : Nat \ {0}, records : Records]
    PROVE  LET base == log_end_offset(f)
               b == [base |-> base, count |-> sent.count, src |-> sent.records]
           IN  /\ n = Len(bs)
               /\ WholePrefix(f \o Encode(base, sent), Append(bs, b), n + 1, FALSE)
<1>1. PICK base \in Nat : base = log_end_offset(f)
  BY EndType
<1>2. n = Len(bs) /\ SubSeq(bs, 1, n) = bs /\ Contiguous(bs)
  <2>1. n = Len(bs)
    BY DEF WholePrefix
  <2>2. SubSeq(bs, 1, n) = bs
    BY <2>1, SubSeqFull
  <2>3. QED
    BY <2>1, <2>2 DEF WholePrefix
<1>3. PICK ends : Laid(f, bs, n, ends) /\ ends[n] = Len(f)
  BY <1>2 DEF WholePrefix
<1>4. base = LogEndOffset(bs)
  BY <1>2, <1>3, <1>1, EndOfWhole
<1>5. [base |-> base, count |-> sent.count, src |-> sent.records] \in Batch(Records)
  BY DEF Batch
<1>6. PICK new \in Batch(Records) :
        new = [base |-> base, count |-> sent.count, src |-> sent.records] /\ new.base = base
  BY <1>5
<1>7. PICK all \in Seq(Batch(Records)) : all = Append(bs, new) /\ Len(all) = n + 1
  <2>1. Append(bs, new) \in Seq(Batch(Records)) /\ Len(Append(bs, new)) = Len(bs) + 1
    BY AppendProperties
  <2>2. QED
    BY <1>2, <2>1
<1>8. Contiguous(all)
  BY <1>2, <1>4, <1>6, <1>7, AppendAtEnd
<1>9. PICK more : /\ Laid(f \o Encode(base, sent), all, n + 1, more)
                  /\ more[n + 1] = Len(f \o Encode(base, sent))
  <2>1. n = Len(bs)
    BY <1>2
  <2>2. Laid(f, bs, n, ends)
    BY <1>3
  <2>3. ends[n] = Len(f)
    BY <1>3
  <2>4. LaidWhole(f \o Encode(base, sent),
                  Append(bs, [base |-> base, count |-> sent.count, src |-> sent.records]))
    BY <2>1, <2>2, <2>3, LaidMore
  <2>5. LaidWhole(f \o Encode(base, sent), all)
    BY <1>6, <1>7, <2>4
  <2>6. QED
    BY <1>7, <2>5 DEF LaidWhole
<1>10. SubSeq(all, 1, n + 1) = all
  BY <1>7, SubSeqFull
<1>11. WholePrefix(f \o Encode(base, sent), all, n + 1, FALSE)
  BY <1>7, <1>8, <1>9, <1>10 DEF WholePrefix
<1>12. QED
  BY <1>2, <1>1, <1>6, <1>7, <1>11

LEMMA SentType ==
    ASSUME NEW sent \in Sent
    PROVE  sent \in [count : Nat \ {0}, records : Records]
<1>1. sent \in [count : {1, 2}, records : Records]
  BY DEF Sent, Records
<1>2. QED
  BY <1>1

LEMMA InvStep == IInv /\ [Next]_vars => IInv'
<1> SUFFICES ASSUME IInv, [Next]_vars
             PROVE  IInv'
  OBVIOUS
<1>1. /\ file \in Seq(Nat) /\ batches \in Seq(Batch(Records))
      /\ intact \in Nat /\ intact <= Len(batches) /\ odd \in BOOLEAN
      /\ Len(batches) \in Nat
  <2>1. /\ file \in Seq(Nat) /\ batches \in Seq(Batch(Records))
        /\ intact \in 0 .. Len(batches) /\ odd \in BOOLEAN
    BY DEF IInv, TypeOK, Records
  <2>2. Len(batches) \in Nat
    BY <2>1, LenProperties
  <2>3. QED
    BY <2>1, <2>2
<1>2. WholePrefix(file, batches, intact, odd)
  BY DEF IInv, PrefixInv
<1>3. ASSUME file' \in Seq(Nat), batches' \in Seq(Batch(Records)), intact' \in 0 .. Len(batches'),
             odd' \in BOOLEAN,
             WholePrefix(file', batches', intact', odd')
      PROVE  IInv'
  <2>1. TypeOK'
    BY <1>3 DEF TypeOK, Records
  <2>2. PrefixInv'
    BY <1>3 DEF PrefixInv
  <2>3. QED
    BY <2>1, <2>2 DEF IInv
<1>4. PICK f \in Seq(Nat) : f = file
  BY <1>1
<1>5. PICK bs \in Seq(Batch(Records)) : bs = batches
  BY <1>1
<1>6. PICK n \in Nat : n = intact /\ n <= Len(bs)
  BY <1>1, <1>5
<1>7. PICK base \in Nat : base = log_end_offset(f)
  BY EndType
<1>8. base = log_end_offset(file)
  BY <1>4, <1>7
\* What is left of an odd append, as the model's three ways to make one.
<1>9. ASSUME NEW t \in Seq(Nat), file' = file \o t, odd' = TRUE, UNCHANGED <<batches, intact>>
      PROVE  IInv'
  <2>1. WholePrefix(f, bs, n, odd)
    BY <1>2, <1>4, <1>5, <1>6
  <2>2. WholePrefix(f \o t, bs, n, TRUE)
    BY <1>6, <2>1, PrefixStays
  <2>3. f \o t \in Seq(Nat)
    BY ConcatProperties
  <2>4. WholePrefix(file', batches', intact', odd')
    BY <1>4, <1>5, <1>6, <1>9, <2>2
  <2>5. QED
    BY <1>1, <1>3, <1>4, <1>9, <2>3, <2>4
<1>10. ASSUME NEW sent \in Sent, Produce(sent)
       PROVE  IInv'
  <2>1. sent \in [count : Nat \ {0}, records : Records]
    BY SentType
  <2>2. PICK b : b = [base |-> base, count |-> sent.count, src |-> sent.records]
    OBVIOUS
  <2>3. PICK t \in Seq(Nat) : t = Encode(base, sent)
    <3>1. sent \in [count : Nat, records : Records]
      BY <2>1
    <3>2. Encode(base, sent) \in Seq(Nat)
      BY <3>1, EncodeIs
    <3>3. QED
      BY <3>2
  <2>4. PICK all \in Seq(Batch(Records)) : /\ all = Append(bs, b) /\ Len(all) = Len(bs) + 1
                                            /\ \A i \in 1 .. Len(bs) : all[i] = bs[i]
    <3>1. PICK new \in Batch(Records) : new = b
      BY <2>1, <2>2 DEF Batch
    <3>2. /\ Append(bs, new) \in Seq(Batch(Records)) /\ Len(Append(bs, new)) = Len(bs) + 1
          /\ \A i \in 1 .. Len(bs) : Append(bs, new)[i] = bs[i]
      BY AppendProperties
    <3>3. QED
      BY <3>1, <3>2
  <2>5. /\ file' = f \o t /\ batches' = all /\ odd' = odd
        /\ intact' = IF odd THEN intact ELSE intact + 1
    BY <1>4, <1>5, <1>8, <1>10, <2>2, <2>3, <2>4 DEF Produce
  <2>6. f \o t \in Seq(Nat)
    BY ConcatProperties
  <2>7. CASE odd
    <3>1. WholePrefix(f, bs, n, odd)
      BY <1>2, <1>4, <1>5, <1>6
    <3>2. Len(bs) \in Nat
      BY <1>1, <1>5
    <3>3. n <= Len(all) /\ \A i \in 1 .. n : all[i] = bs[i]
      BY <1>6, <2>4, <3>2
    <3>4. WholePrefix(f \o t, all, n, TRUE)
      BY <1>6, <3>1, <3>3, PrefixStays
    <3>5. odd' = TRUE /\ intact' = n
      BY <1>1, <1>6, <2>5, <2>7
    <3>6. intact' \in 0 .. Len(all)
      BY <1>6, <2>4, <3>2, <3>3, <3>5
    <3>7. QED
      BY <1>3, <2>5, <2>6, <3>4, <3>5, <3>6
  <2>8. CASE ~odd
    <3>1. odd = FALSE
      BY <1>1, <2>8
    <3>2. WholePrefix(f, bs, n, FALSE)
      BY <1>2, <1>4, <1>5, <1>6, <3>1
    <3>3. n = Len(bs) /\ WholePrefix(f \o t, all, n + 1, FALSE)
      <4>1. /\ n = Len(bs)
            /\ WholePrefix(f \o Encode(log_end_offset(f), sent),
                 Append(bs, [base |-> log_end_offset(f), count |-> sent.count,
                             src |-> sent.records]),
                 n + 1, FALSE)
        BY <1>6, <2>1, <3>2, PrefixGrows
      <4>2. QED
        BY <1>7, <2>2, <2>3, <2>4, <4>1
    <3>4. odd' = FALSE /\ intact' = n + 1
      BY <1>6, <2>5, <3>1
    <3>5. intact' \in 0 .. Len(all)
      BY <2>4, <3>3, <3>4
    <3>6. QED
      BY <1>3, <2>5, <2>6, <3>3, <3>4, <3>5
  <2>9. QED
    BY <2>7, <2>8
<1>11. ASSUME NEW sent \in Sent, NEW written \in Cuts, ProduceTorn(sent, written)
       PROVE  IInv'
  <2>1. sent \in [count : Nat, records : Records]
    BY SentType
  <2>2. PICK e \in Seq(Nat) : e = Encode(base, sent) /\ Len(e) = 3 + Len(sent.records)
    <3>1. Encode(base, sent) \in Seq(Nat) /\ Len(Encode(base, sent)) = 3 + Len(sent.records)
      BY <2>1, EncodeIs
    <3>2. QED
      BY <3>1
  <2>3. written \in Nat /\ written < Len(e)
    BY <1>11, <2>2, LogFileAssumption DEF ProduceTorn
  <2>4. PICK t \in Seq(Nat) : t = SubSeq(e, 1, written)
    <3>1. ASSUME NEW i \in 1 .. written
          PROVE  e[i] \in Nat
      <4>1. PICK len \in Nat : len = Len(e)
        BY LenProperties
      <4>2. i \in 1 .. Len(e)
        BY <2>3, <4>1
      <4>3. QED
        BY <4>2, ElementOfSeq
    <3>2. SubSeq(e, 1, written) \in Seq(Nat)
      BY <2>3, <3>1, SubSeqProperties
    <3>3. QED
      BY <3>2
  <2>5. file' = file \o t /\ odd' = TRUE /\ UNCHANGED <<batches, intact>>
    BY <1>8, <1>11, <2>2, <2>4 DEF ProduceTorn
  <2>6. QED
    BY <1>9, <2>5
<1>12. ASSUME ProduceNothing
       PROVE  IInv'
  <2>1. PICK t \in Seq(Nat) : t = <<base>>
    <3>1. <<base>> \in Seq(Nat)
      OBVIOUS
    <3>2. QED
      BY <3>1
  <2>2. file' = file \o t /\ odd' = TRUE /\ UNCHANGED <<batches, intact>>
    <3>1. Append(f, base) = f \o <<base>>
      BY AppendIsConcat
    <3>2. QED
      BY <1>4, <1>8, <1>12, <2>1, <3>1 DEF ProduceNothing
  <2>3. QED
    BY <1>9, <2>2
<1>13. CASE UNCHANGED vars
  <2>1. file' = file /\ batches' = batches /\ intact' = intact /\ odd' = odd
    BY <1>13 DEF vars
  <2>2. QED
    BY <1>1, <1>2, <1>3, <2>1
<1>14. QED
  BY <1>10, <1>11, <1>12, <1>13 DEF Next

LEMMA InvInit == Init => IInv
<1> SUFFICES ASSUME Init
             PROVE  IInv
  OBVIOUS
<1>1. PICK none \in Seq(Batch(Records)) : none = <<>> /\ Len(none) = 0
  BY EmptySeq
<1>2. PICK nil \in Seq(Nat) : nil = <<>> /\ Len(nil) = 0
  BY EmptySeq
<1>3. file = nil /\ batches = none /\ intact = 0 /\ odd = FALSE
  BY <1>1, <1>2 DEF Init
<1>4. TypeOK
  <2>1. file \in Seq(Nat) /\ batches \in Seq(Batch(Records)) /\ odd \in BOOLEAN
    BY <1>3
  <2>2. intact \in 0 .. Len(batches)
    BY <1>1, <1>3
  <2>3. QED
    BY <2>1, <2>2 DEF TypeOK, Records
<1>5. WholePrefix(nil, none, 0, FALSE)
  <2>1. SubSeq(none, 1, 0) = none
    BY <1>1, SubSeqEmpty
  <2>2. Contiguous(none)
    BY <1>1 DEF Contiguous
  <2> DEFINE at == [i \in 0 .. 0 |-> 0]
  <2>3. Laid(nil, none, 0, at) /\ at[0] = Len(nil)
    BY <1>2 DEF Laid
  <2>4. QED
    BY <1>1, <2>1, <2>2, <2>3 DEF WholePrefix
<1>6. PrefixInv
  BY <1>3, <1>5 DEF PrefixInv
<1>7. QED
  BY <1>4, <1>6 DEF IInv

\* The batches answered before the first append that was cut short lie whole
\* at the beginning of the file, in order, and with no such append they fill
\* it, whatever handle_produce_request appends later and however little of it
\* gets to the disk.
THEOREM Invariance == Spec => []IInv
BY InvInit, InvStep, PTL DEF Spec

\* What the log file and the record of its appends are made of.
THEOREM TypeCorrect == Spec => []TypeOK
<1>1. IInv => TypeOK
  BY DEF IInv
<1>2. QED
  BY <1>1, Invariance, PTL

LEMMA InvScans == IInv => ScansAgree
<1> SUFFICES ASSUME IInv, ~odd
             PROVE  /\ log_end_offset(file) = LogEndOffset(batches)
                    /\ \A o \in 0 .. LogEndOffset(batches) + 1 :
                         read_log_from_offset(file, o) = EncodeAll(ReadLogFrom(batches, o))
  BY DEF ScansAgree
<1>1. file \in Seq(Nat) /\ batches \in Seq(Batch(Records)) /\ intact \in 0 .. Len(batches)
  BY DEF IInv, TypeOK, Records
<1>2. PICK n \in Nat : n = intact /\ n = Len(batches)
  <2>1. intact = Len(batches)
    BY DEF IInv, PrefixInv, WholePrefix
  <2>2. QED
    BY <1>1, <2>1, LenProperties
<1>3. SubSeq(batches, 1, n) = batches
  BY <1>1, <1>2, SubSeqFull
<1>4. WholePrefix(file, batches, n, odd)
  BY <1>2 DEF IInv, PrefixInv
<1>5. PICK ends : Laid(file, batches, n, ends) /\ ends[n] = Len(file)
  BY <1>3, <1>4 DEF WholePrefix
<1>6. Contiguous(batches)
  BY <1>3, <1>4 DEF WholePrefix
<1>7. log_end_offset(file) = LogEndOffset(batches)
  BY <1>1, <1>2, <1>5, EndOfWhole
<1>8. PICK last \in Nat : last = LogEndOffset(batches)
  BY <1>1, LogEndOffsetType
<1>9. ASSUME NEW o \in 0 .. last + 1
      PROVE  read_log_from_offset(file, o) = EncodeAll(ReadLogFrom(batches, o))
  <2>1. o \in Nat
    OBVIOUS
  <2>2. QED
    BY <1>1, <1>2, <1>5, <1>6, <2>1, ScansOfWhole
<1>10. QED
  BY <1>7, <1>8, <1>9

\* On a file of whole batches, of whatever number and size, log_end_offset
\* and read_log_from_offset of app/tools.py compute, byte by byte, what the
\* sequence of batches says: so module Broker may use those operators.
THEOREM ScansCompute == Spec => []ScansAgree
BY Invariance, InvScans, PTL

LEMMA InvEarlier == IInv => EarlierBatchesStayReadable
<1> SUFFICES ASSUME IInv, NEW i \in 1 .. intact,
                    NEW o \in batches[i].base .. EndOffset(batches[i]) - 1
             PROVE  BeginsWith(file, o, batches[i])
  BY DEF EarlierBatchesStayReadable, BeginsWith
<1>1. /\ file \in Seq(Nat) /\ batches \in Seq(Batch(Records)) /\ intact \in Nat
      /\ intact <= Len(batches)
  <2>1. /\ file \in Seq(Nat) /\ batches \in Seq(Batch(Records)) /\ intact \in 0 .. Len(batches)
    BY DEF IInv, TypeOK, Records
  <2>2. Len(batches) \in Nat
    BY <2>1, LenProperties
  <2>3. QED
    BY <2>1, <2>2
<1>2. PICK n \in Nat : n = intact
  BY <1>1
<1>3. PICK whole \in Seq(Batch(Records)) :
        /\ whole = SubSeq(batches, 1, n) /\ n = Len(whole)
        /\ \A k \in 1 .. n : whole[k] = batches[k]
  BY <1>1, <1>2, PrefixIs
<1>4. WholePrefix(file, batches, n, odd)
  BY <1>2 DEF IInv, PrefixInv
<1>5. PICK ends : Laid(file, whole, n, ends) /\ Contiguous(whole)
  BY <1>3, <1>4 DEF WholePrefix
<1>6. PICK k \in 1 .. n : k = i
  BY <1>2
<1>7. whole[k] = batches[i]
  BY <1>3, <1>6
<1>8. k \in 1 .. Len(whole)
  BY <1>3
<1>9. whole[k].base \in Nat /\ EndOffset(whole[k]) \in Nat
  BY <1>8, BatchFields
<1>10. o \in whole[k].base .. EndOffset(whole[k]) - 1
  BY <1>7
<1>11. PICK at \in Nat : at = o /\ Covers(whole[k], at)
  <2>1. o \in Nat /\ Covers(whole[k], o)
    BY <1>9, <1>10 DEF Covers
  <2>2. QED
    BY <2>1
<1>12. PICK f \in Seq(Nat) : f = file
  BY <1>1
<1>13. n = Len(whole)
  BY <1>3
<1>14. Laid(f, whole, n, ends)
  BY <1>5, <1>12
<1>15. Contiguous(whole)
  BY <1>5
<1>16. Covers(whole[k], at)
  BY <1>11
<1>17. BeginsWith(f, at, whole[k])
  BY <1>13, <1>14, <1>15, <1>16, ReadBeginsWith
<1>18. QED
  BY <1>7, <1>11, <1>12, <1>17

\* A record acknowledged before the first append that was cut short is read
\* back at its offset, however many odd appends follow it.
THEOREM EarlierReadable == Spec => []EarlierBatchesStayReadable
BY Invariance, InvEarlier, PTL

=============================================================================
