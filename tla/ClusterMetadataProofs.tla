----------------------- MODULE ClusterMetadataProofs ------------------------
(***************************************************************************)
(* Theorems about the cluster metadata, for any topic names and bounds.    *)
(*                                                                         *)
(* What the tool has still to write is as much a part of the invariants as *)
(* what is on disk: its batches must fit behind the file as it is, and     *)
(* their uuids must be nobody else's, before any of them is written.       *)
(* That a uuid goes with one name is what makes the loops of the handlers  *)
(* agree: each is shown to compute the same two relations.                 *)
(***************************************************************************)
EXTENDS ClusterMetadata, SequenceTheorems, WellFoundedInduction, TLAPS

\* A header begins where the item in front of it says that its batch ends.
Follows(prev, item) == item.offset_delta = HEADER => item.base = prev.base + prev.count
Chained(s) == \A i \in DOMAIN s : i > 1 => Follows(s[i - 1], s[i])

\* What is still to be written fits behind the file.
Fits ==
    pending # <<>> /\ pending[1].offset_delta = HEADER =>
        /\ file = <<>> => pending[1].base = 1
        /\ file # <<>> /\ ~Lost(file, Len(file)) => Follows(file[Len(file)], pending[1])

OffsetsInv == MetadataOffsetsFollow /\ Chained(pending) /\ Fits

\* Some record names the topic with this uuid.
Registers(items, uuid, name) == \E i \in DOMAIN items : items[i].value = Topic(name, uuid)

\* On disk, about to be, in the broker's memory or a client's: the name goes
\* with the uuid.
Known(uuid, name) ==
    \/ Registers(file, uuid, name)
    \/ Registers(pending, uuid, name)
    \/ \E i \in DOMAIN loaded : loaded[i] = Topic(name, uuid)
    \/ <<uuid, name>> \in promised

IdsInv ==
    \A uuid \in Uuid : \A name \in Names : Known(uuid, name) =>
        /\ uuid <= uuids
        /\ \A other \in Names : Known(uuid, other) => other = name

IInv == TypeOK /\ OffsetsInv /\ IdsInv

-----------------------------------------------------------------------------
(* Items and batches. *)

LEMMA ConcatDomain ==
    ASSUME NEW S, NEW s \in Seq(S), NEW t \in Seq(S)
    PROVE  /\ s \o t \in Seq(S)
           /\ Len(s) \in Nat /\ Len(t) \in Nat /\ Len(s \o t) = Len(s) + Len(t)
           /\ DOMAIN s = 1 .. Len(s) /\ DOMAIN t = 1 .. Len(t)
           /\ DOMAIN (s \o t) = 1 .. Len(s) + Len(t)
           /\ \A i \in 1 .. Len(s) : (s \o t)[i] = s[i]
           /\ \A i \in Len(s) + 1 .. Len(s) + Len(t) : (s \o t)[i] = t[i - Len(s)]
           /\ \A i \in 1 .. Len(t) : (s \o t)[Len(s) + i] = t[i]
<1>1. /\ Len(s) \in Nat /\ DOMAIN s = 1 .. Len(s)
      /\ Len(t) \in Nat /\ DOMAIN t = 1 .. Len(t)
  BY LenProperties
<1>2. /\ s \o t \in Seq(S) /\ Len(s \o t) = Len(s) + Len(t)
      /\ \A i \in 1 .. Len(s) + Len(t) :
           (s \o t)[i] = IF i <= Len(s) THEN s[i] ELSE t[i - Len(s)]
  BY ConcatProperties
<1>3. DOMAIN (s \o t) = 1 .. Len(s) + Len(t)
  BY <1>2, LenProperties
<1>4. \A i \in 1 .. Len(t) : (s \o t)[Len(s) + i] = t[i]
  <2>1. ASSUME NEW i \in 1 .. Len(t)
        PROVE  /\ Len(s) + i \in 1 .. Len(s) + Len(t)
               /\ ~(Len(s) + i <= Len(s)) /\ Len(s) + i - Len(s) = i
    BY <1>1
  <2>2. QED
    BY <1>2, <2>1
<1>5. QED
  BY <1>1, <1>2, <1>3, <1>4

LEMMA TopicValue ==
    ASSUME NEW v \in Values
    PROVE  /\ v.type = "topic" <=> \E name \in Names : \E uuid \in Uuid : v = Topic(name, uuid)
           /\ v.type = "topic" => /\ v = Topic(v.name, v.uuid)
                                  /\ v.name \in Names /\ v.uuid \in Uuid
BY DEF Values, NoValue, FeatureLevel, Topic, Partition

LEMMA ChainedConcat ==
    ASSUME NEW s \in Seq(Item), NEW t \in Seq(Item), Chained(s), Chained(t),
           Len(s) > 0, Len(t) > 0, Follows(s[Len(s)], t[1])
    PROVE  Chained(s \o t)
<1>1. ASSUME NEW i \in DOMAIN (s \o t), i > 1
      PROVE  Follows((s \o t)[i - 1], (s \o t)[i])
  <2>0. /\ Len(s) \in Nat /\ Len(t) \in Nat /\ i \in 1 .. Len(s) + Len(t)
        /\ DOMAIN s = 1 .. Len(s) /\ DOMAIN t = 1 .. Len(t)
    BY ConcatDomain
  <2>1. CASE i <= Len(s)
    <3>1. i \in 1 .. Len(s) /\ i - 1 \in 1 .. Len(s)
      BY <1>1, <2>0, <2>1
    <3>2. (s \o t)[i - 1] = s[i - 1] /\ (s \o t)[i] = s[i]
      BY <3>1, ConcatDomain
    <3>3. Follows(s[i - 1], s[i])
      BY <1>1, <2>0, <3>1 DEF Chained
    <3>4. QED
      BY <3>2, <3>3
  <2>2. CASE i = Len(s) + 1
    <3>1. i - 1 = Len(s) /\ Len(s) \in 1 .. Len(s) /\ 1 \in 1 .. Len(t)
      BY <2>0, <2>2
    <3>2. (s \o t)[i - 1] = s[Len(s)] /\ (s \o t)[i] = t[1]
      BY <2>2, <3>1, ConcatDomain
    <3>3. QED
      BY <3>2
  <2>3. CASE i > Len(s) + 1
    <3>1. /\ i \in Len(s) + 1 .. Len(s) + Len(t) /\ i - 1 \in Len(s) + 1 .. Len(s) + Len(t)
          /\ i - Len(s) \in 1 .. Len(t) /\ i - Len(s) > 1
          /\ i - 1 - Len(s) = i - Len(s) - 1
      BY <2>0, <2>3
    <3>2. (s \o t)[i - 1] = t[i - Len(s) - 1] /\ (s \o t)[i] = t[i - Len(s)]
      BY <3>1, ConcatDomain
    <3>3. Follows(t[i - Len(s) - 1], t[i - Len(s)])
      BY <2>0, <3>1 DEF Chained
    <3>4. QED
      BY <3>2, <3>3
  <2>4. i <= Len(s) \/ i = Len(s) + 1 \/ i > Len(s) + 1
    BY <2>0
  <2>5. QED
    BY <2>1, <2>2, <2>3, <2>4
<1>2. QED
  BY <1>1 DEF Chained

LEMMA RegistersConcat ==
    ASSUME NEW s \in Seq(Item), NEW t \in Seq(Item), NEW uuid, NEW name,
           Registers(s \o t, uuid, name)
    PROVE  Registers(s, uuid, name) \/ Registers(t, uuid, name)
<1>1. PICK i \in DOMAIN (s \o t) : (s \o t)[i].value = Topic(name, uuid)
  BY DEF Registers
<1>2. CASE i \in 1 .. Len(s)
  BY <1>1, <1>2, ConcatDomain DEF Registers
<1>3. CASE i \in Len(s) + 1 .. Len(s) + Len(t)
  <2>1. i - Len(s) \in DOMAIN t /\ (s \o t)[i] = t[i - Len(s)]
    BY <1>3, ConcatDomain
  <2>2. QED
    BY <1>1, <2>1 DEF Registers
<1>4. QED
  BY <1>1, <1>2, <1>3, ConcatDomain

\* What a run of the tool writes from this base offset on, and up to where.
Run(s, base, end) ==
    /\ s \in Seq(Item) /\ Len(s) > 0 /\ Chained(s)
    /\ s[1].offset_delta = HEADER /\ s[1].base = base
    /\ s[Len(s)].base + s[Len(s)].count = end

LEMMA RunConcat ==
    ASSUME NEW s, NEW t, NEW base, NEW mid, NEW end, Run(s, base, mid), Run(t, mid, end)
    PROVE  Run(s \o t, base, end)
<1>1. /\ s \in Seq(Item) /\ t \in Seq(Item)
      /\ Len(s) \in Nat /\ Len(t) \in Nat /\ Len(s) > 0 /\ Len(t) > 0
  BY LenProperties DEF Run
<1>2. Follows(s[Len(s)], t[1])
  BY DEF Run, Follows
<1>3. s \o t \in Seq(Item) /\ Len(s \o t) = Len(s) + Len(t)
  BY <1>1, ConcatDomain
<1>4. Chained(s \o t)
  BY <1>1, <1>2, ChainedConcat DEF Run
<1>5. (s \o t)[1] = s[1]
  <2>1. 1 \in 1 .. Len(s)
    BY <1>1
  <2>2. QED
    BY <1>1, <2>1, ConcatDomain
<1>6. (s \o t)[Len(s) + Len(t)] = t[Len(t)]
  <2>1. Len(t) \in 1 .. Len(t)
    BY <1>1
  <2>2. QED
    BY <1>1, <2>1, ConcatDomain
<1>7. Len(s) + Len(t) > 0
  BY <1>1
<1>8. QED
  BY <1>3, <1>4, <1>5, <1>6, <1>7 DEF Run

\* The batch of one topic.
LEMMA TopicBatchRun ==
    ASSUME NEW name \in Names, NEW n \in 0 .. MaxPartitions, NEW uuid \in Uuid,
           NEW base \in Nat
    PROVE  /\ Run(TopicBatch(name, n, uuid, base), base, base + 1 + n)
           /\ \A u, m : Registers(TopicBatch(name, n, uuid, base), u, m) => u = uuid /\ m = name
<1> DEFINE val(i) == IF i = 1 THEN NoValue
                     ELSE IF i = 2 THEN Topic(name, uuid) ELSE Partition(i - 3, uuid)
<1> DEFINE item(i) == [base |-> base, count |-> n + 1, offset_delta |-> i - 2, value |-> val(i)]
<1> DEFINE batch == TopicBatch(name, n, uuid, base)
<1>1. n \in Nat /\ n + 1 \in Nat /\ n + 2 \in Nat /\ n + 2 > 0 /\ MaxPartitions \in Nat
  BY ClusterMetadataAssumption
<1>2. batch = [i \in 1 .. n + 2 |-> item(i)]
  BY DEF TopicBatch
<1>3. \A i \in 1 .. n + 2 : val(i) \in Values
  <2>1. ASSUME NEW i \in 1 .. n + 2, i # 1, i # 2
        PROVE  i - 3 \in 0 .. MaxPartitions - 1
    BY <1>1, <2>1
  <2>2. QED
    BY <2>1 DEF Values
<1>4. \A i \in 1 .. n + 2 : item(i) \in Item
  <2> HIDE DEF val
  <2>1. ASSUME NEW i \in 1 .. n + 2
        PROVE  i - 2 \in Nat \cup {HEADER}
    BY <1>1, <2>1 DEF HEADER
  <2>2. QED
    BY <1>1, <1>3, <2>1 DEF Item
<1>5. batch \in Seq(Item) /\ DOMAIN batch = 1 .. n + 2 /\ Len(batch) = n + 2
  <2> HIDE DEF item
  <2>1. [i \in 1 .. n + 2 |-> item(i)] \in Seq(Item)
    BY <1>1, <1>4, IsASeq
  <2>2. DOMAIN batch = 1 .. n + 2
    BY <1>2
  <2>3. Len(batch) = n + 2
    BY <1>1, <1>2, <2>1, <2>2, LenProperties
  <2>4. QED
    BY <1>2, <2>1, <2>2, <2>3
<1>6. Chained(batch)
  <2>1. ASSUME NEW i \in 1 .. n + 2, i > 1
        PROVE  item(i).offset_delta # HEADER
    BY <1>1, <2>1 DEF HEADER
  <2>2. QED
    BY <1>2, <1>5, <2>1 DEF Chained, Follows
<1>7. /\ batch[1].offset_delta = HEADER /\ batch[1].base = base
      /\ batch[n + 2].base + batch[n + 2].count = base + 1 + n
  BY <1>1, <1>2 DEF HEADER
<1>8. ASSUME NEW u, NEW m, Registers(batch, u, m)
      PROVE  u = uuid /\ m = name
  <2>1. PICK i \in 1 .. n + 2 : val(i) = Topic(m, u)
    BY <1>2, <1>5, <1>8 DEF Registers
  <2>2. i = 2
    BY <2>1 DEF Topic, Partition, NoValue
  <2>3. Topic(name, uuid) = Topic(m, u)
    BY <2>1, <2>2
  <2>4. Topic(name, uuid).uuid = Topic(m, u).uuid /\ Topic(name, uuid).name = Topic(m, u).name
    BY <2>3
  <2>5. QED
    BY <2>4 DEF Topic
<1>9. Run(batch, base, base + 1 + n)
  <2> HIDE DEF batch
  <2>1. QED
    BY <1>1, <1>5, <1>6, <1>7 DEF Run
<1>10. QED
  BY <1>8, <1>9

LEMMA WantedType ==
    ASSUME NEW wanted \in Wanted
    PROVE  /\ Len(wanted) \in {1, 2}
           /\ wanted[1][1] \in Names /\ wanted[1][2] \in 0 .. MaxPartitions
           /\ Len(wanted) = 2 => wanted[2][1] \in Names /\ wanted[2][2] \in 0 .. MaxPartitions
<1>1. PICK n \in 1 .. 2 : wanted \in [1 .. n -> Names \X (0 .. MaxPartitions)]
  BY DEF Wanted
<1>2. wanted \in Seq(Names \X (0 .. MaxPartitions)) /\ Len(wanted) = n
  BY <1>1
<1>3. \A i \in 1 .. n : wanted[i][1] \in Names /\ wanted[i][2] \in 0 .. MaxPartitions
  BY <1>1
<1>4. n \in {1, 2} /\ 1 \in 1 .. n /\ (n = 2 => 2 \in 1 .. n)
  BY <1>1
<1>5. QED
  BY <1>2, <1>3, <1>4

\* The batches of a run of the tool: they fit together and have new uuids.
LEMMA TopicBatchesRun ==
    ASSUME uuids \in Nat, NEW wanted \in Wanted, NEW base \in Nat,
           uuids + Len(wanted) <= MaxUuids
    PROVE  /\ \E end : Run(TopicBatches(wanted, base), base, end)
           /\ \A u, m : Registers(TopicBatches(wanted, base), u, m) =>
                 u \in uuids + 1 .. uuids + Len(wanted) /\ m = wanted[u - uuids][1]
           /\ uuids + Len(wanted) \in uuids .. MaxUuids
<1> DEFINE first == TopicBatch(wanted[1][1], wanted[1][2], new_uuid(1), base)
<1> DEFINE second == TopicBatch(wanted[2][1], wanted[2][2], new_uuid(2), base + 1 + wanted[1][2])
<1>1. /\ Len(wanted) = 1 => TopicBatches(wanted, base) = first
      /\ Len(wanted) = 2 => TopicBatches(wanted, base) = first \o second
  BY DEF TopicBatches
<1>2. \A i \in 1 .. Len(wanted) : new_uuid(i) \in Uuid /\ new_uuid(i) = uuids + i
  BY WantedType, ClusterMetadataAssumption DEF new_uuid, Uuid
<1>3. PICK mid \in Nat : mid = base + 1 + wanted[1][2]
  BY WantedType, ClusterMetadataAssumption
<1>4. /\ Run(first, base, mid)
      /\ \A u, m : Registers(first, u, m) => u = uuids + 1 /\ m = wanted[1][1]
  <2>1. PICK name \in Names, n \in 0 .. MaxPartitions, uuid \in Uuid :
          name = wanted[1][1] /\ n = wanted[1][2] /\ uuid = new_uuid(1) /\ uuid = uuids + 1
    BY <1>2, WantedType
  <2>2. first = TopicBatch(name, n, uuid, base) /\ mid = base + 1 + n
    BY <1>3, <2>1
  <2> HIDE DEF first
  <2>3. /\ Run(first, base, base + 1 + n)
        /\ \A u, m : Registers(first, u, m) => u = uuid /\ m = name
    BY <2>2, TopicBatchRun
  <2>4. QED
    BY <2>1, <2>2, <2>3
<1> HIDE DEF first
<1>5. ASSUME Len(wanted) = 2
      PROVE  /\ \E end : Run(second, mid, end)
             /\ \A u, m : Registers(second, u, m) => u = uuids + 2 /\ m = wanted[2][1]
  <2>1. PICK name \in Names, n \in 0 .. MaxPartitions, uuid \in Uuid :
          name = wanted[2][1] /\ n = wanted[2][2] /\ uuid = new_uuid(2) /\ uuid = uuids + 2
    BY <1>2, <1>5, WantedType
  <2>2. second = TopicBatch(name, n, uuid, mid)
    BY <1>3, <2>1
  <2> HIDE DEF second
  <2>3. /\ Run(second, mid, mid + 1 + n)
        /\ \A u, m : Registers(second, u, m) => u = uuid /\ m = name
    BY <2>2, TopicBatchRun
  <2>4. QED
    BY <2>1, <2>3
<1> HIDE DEF second
<1>6. uuids + Len(wanted) \in uuids .. MaxUuids
  BY WantedType, ClusterMetadataAssumption
<1>7. CASE Len(wanted) = 1
  <2>1. TopicBatches(wanted, base) = first
    BY <1>1, <1>7
  <2>2. \A u : u = uuids + 1 => u \in uuids + 1 .. uuids + 1 /\ u - uuids = 1
    OBVIOUS
  <2>3. QED
    BY <1>4, <1>6, <1>7, <2>1, <2>2
<1>8. CASE Len(wanted) = 2
  <2>1. TopicBatches(wanted, base) = first \o second
    BY <1>1, <1>8
  <2>2. PICK end : Run(second, mid, end)
    BY <1>5, <1>8
  <2>3. Run(first \o second, base, end)
    BY <1>4, <2>2, RunConcat
  <2>4. ASSUME NEW u, NEW m, Registers(first \o second, u, m)
        PROVE  u \in uuids + 1 .. uuids + 2 /\ m = wanted[u - uuids][1]
    <3>1. first \in Seq(Item) /\ second \in Seq(Item)
      BY <1>4, <2>2 DEF Run
    <3>2. \/ u = uuids + 1 /\ m = wanted[1][1]
          \/ u = uuids + 2 /\ m = wanted[2][1]
      BY <1>4, <1>5, <1>8, <2>4, <3>1, RegistersConcat
    <3>3. uuids + 1 - uuids = 1 /\ uuids + 2 - uuids = 2
      OBVIOUS
    <3>4. QED
      BY <3>2, <3>3
  <2>5. QED
    BY <1>6, <1>8, <2>1, <2>3, <2>4
<1>9. QED
  BY <1>7, <1>8, WantedType

LEMMA FeatureBatchRun ==
    /\ Run(FeatureBatch, 1, 2)
    /\ \A u, m : ~Registers(FeatureBatch, u, m)
<1> DEFINE val(i) == IF i = 1 THEN NoValue ELSE FeatureLevel
<1> DEFINE item(i) == [base |-> 1, count |-> 1, offset_delta |-> i - 2, value |-> val(i)]
<1>1. FeatureBatch = [i \in 1 .. 2 |-> item(i)]
  BY DEF FeatureBatch
<1>2. \A i \in 1 .. 2 : item(i) \in Item
  <2>1. \A i \in 1 .. 2 : val(i) \in Values /\ i - 2 \in Nat \cup {HEADER}
    BY DEF Values, HEADER
  <2> HIDE DEF val
  <2>2. QED
    BY <2>1 DEF Item
<1>3. FeatureBatch \in Seq(Item) /\ DOMAIN FeatureBatch = 1 .. 2 /\ Len(FeatureBatch) = 2
  <2> HIDE DEF item
  <2>1. [i \in 1 .. 2 |-> item(i)] \in Seq(Item)
    BY <1>2, IsASeq
  <2>2. DOMAIN FeatureBatch = 1 .. 2
    BY <1>1
  <2>3. QED
    BY <1>1, <2>1, <2>2, LenProperties
<1>4. /\ FeatureBatch[1].offset_delta = HEADER /\ FeatureBatch[1].base = 1
      /\ FeatureBatch[2].base + FeatureBatch[2].count = 2
      /\ FeatureBatch[2].offset_delta # HEADER
  BY <1>1 DEF HEADER
<1>5. Chained(FeatureBatch)
  <2>1. \A i \in 1 .. 2 : i > 1 => i = 2
    OBVIOUS
  <2>2. QED
    BY <1>3, <1>4, <2>1 DEF Chained, Follows
<1>6. ASSUME NEW u, NEW m
      PROVE  ~Registers(FeatureBatch, u, m)
  <2>1. FeatureLevel # Topic(m, u) /\ NoValue # Topic(m, u)
    BY DEF FeatureLevel, NoValue, Topic
  <2>2. QED
    BY <1>1, <1>3, <2>1 DEF Registers
<1>7. Run(FeatureBatch, 1, 2)
  BY <1>3, <1>4, <1>5 DEF Run
<1>8. QED
  BY <1>6, <1>7

-----------------------------------------------------------------------------
(* Files. *)

\* Behind a place that is lost all is lost.
LEMMA LostStays ==
    ASSUME NEW f \in Seq(Item), NEW i \in DOMAIN f, NEW k \in DOMAIN f, i <= k, Lost(f, i)
    PROVE  Lost(f, k)
<1>1. DOMAIN f = 1 .. Len(f) /\ Len(f) \in Nat
  BY LenProperties
<1>2. PICK j \in 1 .. i - 1 : f[j].offset_delta + 1 < f[j].count /\ f[j + 1].offset_delta = HEADER
  BY DEF Lost
<1>3. j \in 1 .. k - 1
  BY <1>1, <1>2
<1>4. QED
  BY <1>2, <1>3 DEF Lost

\* A file that ends where a reader still has its place is followed to its end.
LEMMA FollowedToTheEnd ==
    ASSUME NEW f \in Seq(Item), f # <<>>, ~Lost(f, Len(f))
    PROVE  /\ Followed(f) = {Len(f)}
           /\ {k \in DOMAIN f : Lost(f, k)} = {}
<1>1. DOMAIN f = 1 .. Len(f) /\ Len(f) \in Nat \ {0}
  BY LenProperties, EmptySeq
<1>2. \A k \in DOMAIN f : ~Lost(f, k)
  <2>1. Len(f) \in DOMAIN f /\ \A k \in DOMAIN f : k <= Len(f)
    BY <1>1
  <2>2. QED
    BY <2>1, LostStays
<1>3. ASSUME NEW i \in DOMAIN f, i # Len(f)
      PROVE  i < Len(f) /\ ~Lost(f, i + 1)
  <2>1. i < Len(f) /\ i + 1 \in DOMAIN f
    BY <1>1, <1>3
  <2>2. QED
    BY <1>2, <2>1
<1>4. Len(f) \in DOMAIN f /\ ~(Len(f) < Len(f))
  BY <1>1
<1>5. QED
  BY <1>2, <1>3, <1>4 DEF Followed

\* What is read of a file: its values or nothing.
LEMMA ReadValues ==
    ASSUME NEW f \in Seq(Item), NEW found
    PROVE  /\ Read(f, found) \in Seq(Values)
           /\ DOMAIN Read(f, found) = DOMAIN f
           /\ \A i \in DOMAIN f : Read(f, found)[i] \in {NoValue, f[i].value}
<1> DEFINE val(i) == IF Lost(f, i) /\ i - f[i].offset_delta - 1 \notin found THEN NoValue
                     ELSE f[i].value
<1>1. Len(f) \in Nat /\ DOMAIN f = 1 .. Len(f)
  BY LenProperties
<1>2. Read(f, found) = [i \in 1 .. Len(f) |-> val(i)]
  BY <1>1 DEF Read
<1>3. \A i \in 1 .. Len(f) : val(i) \in {NoValue, f[i].value}
  OBVIOUS
<1> HIDE DEF val
<1>4. ASSUME NEW i \in 1 .. Len(f)
      PROVE  val(i) \in Values
  <2>1. f[i].value \in Values
    <3>1. f[i] \in Item
      BY ElementOfSeq
    <3>2. QED
      BY <3>1 DEF Item
  <2>2. NoValue \in Values
    BY DEF Values
  <2>3. QED
    BY <1>3, <2>1, <2>2
<1>5. [i \in 1 .. Len(f) |-> val(i)] \in Seq(Values)
  BY <1>1, <1>4, IsASeq
<1>6. QED
  BY <1>1, <1>2, <1>3, <1>5

-----------------------------------------------------------------------------
(* The steps. *)

\* What generate and append_topics leave to be written.
LEMMA generateWrites ==
    ASSUME TypeOK, NEW wanted \in Wanted, generate(wanted)
    PROVE  /\ file' = <<>> /\ UNCHANGED <<up, loaded, promised>>
           /\ uuids' = uuids + Len(wanted) /\ uuids' \in uuids .. MaxUuids
           /\ \E end : Run(pending', 1, end)
           /\ \A u, m : Registers(pending', u, m) =>
                 u \in uuids + 1 .. uuids + Len(wanted) /\ m = wanted[u - uuids][1]
<1>1. uuids \in Nat /\ uuids + Len(wanted) <= MaxUuids /\ 2 \in Nat
  BY ClusterMetadataAssumption DEF TypeOK, generate
<1>2. PICK batches, end :
        /\ batches = TopicBatches(wanted, 2)
        /\ Run(batches, 2, end)
        /\ \A u, m : Registers(batches, u, m) =>
                 u \in uuids + 1 .. uuids + Len(wanted) /\ m = wanted[u - uuids][1]
        /\ uuids + Len(wanted) \in uuids .. MaxUuids
  BY <1>1, TopicBatchesRun
<1>3. pending' = FeatureBatch \o batches
  BY <1>2 DEF generate
<1>4. Run(pending', 1, end)
  BY <1>2, <1>3, FeatureBatchRun, RunConcat
<1>5. ASSUME NEW u, NEW m, Registers(pending', u, m)
      PROVE  Registers(batches, u, m)
  <2>1. FeatureBatch \in Seq(Item) /\ batches \in Seq(Item)
    BY <1>2, FeatureBatchRun DEF Run
  <2>2. QED
    BY <1>3, <1>5, <2>1, FeatureBatchRun, RegistersConcat
<1>6. QED
  BY <1>2, <1>4, <1>5 DEF generate

\* append_topics: with its first batch where the file ends, if that can be
\* told.
LEMMA append_topicsWrites ==
    ASSUME TypeOK, NEW wanted \in Wanted, append_topics(wanted)
    PROVE  /\ UNCHANGED <<file, up, loaded, promised>>
           /\ uuids' = uuids + Len(wanted) /\ uuids' \in uuids .. MaxUuids
           /\ \E base \in next_base_offset : \E end : Run(pending', base, end)
           /\ \A u, m : Registers(pending', u, m) =>
                 u \in uuids + 1 .. uuids + Len(wanted) /\ m = wanted[u - uuids][1]
<1>1. uuids \in Nat /\ uuids + Len(wanted) <= MaxUuids
  BY ClusterMetadataAssumption DEF TypeOK, append_topics
<1>2. PICK base \in next_base_offset : pending' = TopicBatches(wanted, base)
  BY DEF append_topics
<1>3. base \in Nat
  <2>1. file \in Seq(Item)
    BY DEF TypeOK
  <2>2. \A i \in DOMAIN file : file[i].base + file[i].count \in Nat
    <3>1. \A i \in DOMAIN file : file[i] \in Item
      BY <2>1, ElementOfSeq, LenProperties
    <3>2. QED
      BY <3>1 DEF Item
  <2>3. Followed(file) \subseteq DOMAIN file
    BY DEF Followed
  <2>4. CASE file = <<>>
    BY <2>4 DEF next_base_offset
  <2>5. CASE file # <<>>
    <3>1. \/ \E i \in DOMAIN file : base = file[i].base + file[i].count
          \/ base \in StrayOffsets
      BY <2>3, <2>5 DEF next_base_offset
    <3>2. QED
      BY <2>2, <3>1, ClusterMetadataAssumption
  <2>6. QED
    BY <2>4, <2>5
<1>4. QED
  BY <1>1, <1>2, <1>3, TopicBatchesRun DEF append_topics

LEMMA WriteWrites ==
    ASSUME TypeOK, Write
    PROVE  /\ UNCHANGED <<uuids, up, loaded, promised>>
           /\ file' \in Seq(Item) /\ pending' \in Seq(Item)
           /\ Len(file) \in Nat /\ Len(pending) \in Nat
           /\ Len(file') = Len(file) + 1 /\ Len(pending') = Len(pending) - 1
           /\ DOMAIN file = 1 .. Len(file) /\ DOMAIN file' = 1 .. Len(file) + 1
           /\ DOMAIN pending = 1 .. Len(pending) /\ DOMAIN pending' = 1 .. Len(pending) - 1
           /\ \A i \in 1 .. Len(file) : file'[i] = file[i]
           /\ file'[Len(file) + 1] = pending[1] /\ 1 \in DOMAIN pending /\ pending # <<>>
           /\ \A i \in 1 .. Len(pending) - 1 : pending'[i] = pending[i + 1]
<1>1. /\ pending # <<>> /\ file' = Append(file, Head(pending)) /\ pending' = Tail(pending)
      /\ UNCHANGED <<uuids, up, loaded, promised>>
  BY DEF Write
<1>2. file \in Seq(Item) /\ pending \in Seq(Item)
  BY DEF TypeOK
<1>3. /\ Len(file) \in Nat /\ DOMAIN file = 1 .. Len(file)
      /\ Len(pending) \in Nat \ {0} /\ DOMAIN pending = 1 .. Len(pending)
  BY <1>1, <1>2, LenProperties, EmptySeq
<1>4. /\ Head(pending) \in Item /\ Tail(pending) \in Seq(Item)
      /\ Len(Tail(pending)) = Len(pending) - 1
      /\ \A i \in 1 .. Len(Tail(pending)) : Tail(pending)[i] = pending[i + 1]
  BY <1>1, <1>2, HeadTailProperties
<1>5. Head(pending) = pending[1]
  BY <1>1, <1>2
<1>6. /\ file' \in Seq(Item) /\ Len(file') = Len(file) + 1
      /\ \A i \in 1 .. Len(file) : file'[i] = file[i]
      /\ file'[Len(file) + 1] = pending[1]
  BY <1>1, <1>2, <1>4, <1>5, AppendProperties
<1>7. DOMAIN file' = 1 .. Len(file) + 1 /\ DOMAIN pending' = 1 .. Len(pending) - 1
  BY <1>1, <1>3, <1>4, <1>6, LenProperties
<1>8. QED
  BY <1>1, <1>3, <1>4, <1>6, <1>7

\* What was written is lost as before or not.
LEMMA WriteLosesNothing ==
    ASSUME TypeOK, Write, NEW i \in DOMAIN file
    PROVE  Lost(file', i) <=> Lost(file, i)
<1>1. \A j \in 1 .. i - 1 : file'[j] = file[j] /\ file'[j + 1] = file[j + 1]
  <2>1. Len(file) \in Nat /\ i \in 1 .. Len(file) /\ \A k \in 1 .. Len(file) : file'[k] = file[k]
    BY WriteWrites
  <2>2. \A j \in 1 .. i - 1 : j \in 1 .. Len(file) /\ j + 1 \in 1 .. Len(file)
    BY <2>1
  <2>3. QED
    BY <2>1, <2>2
<1>2. QED
  BY <1>1 DEF Lost

LEMMA OffsetsStep ==
    ASSUME TypeOK, OffsetsInv, [Next]_vars
    PROVE  OffsetsInv'
<1>1. ASSUME NEW wanted \in Wanted, generate(wanted)
      PROVE  OffsetsInv'
  <2>1. file' = <<>> /\ DOMAIN file' = {}
    BY <1>1, generateWrites
  <2>2. PICK end : Run(pending', 1, end)
    BY <1>1, generateWrites
  <2>3. MetadataOffsetsFollow'
    BY <2>1 DEF MetadataOffsetsFollow
  <2>4. Fits'
    BY <2>1, <2>2 DEF Run, Fits
  <2>5. QED
    BY <2>2, <2>3, <2>4 DEF OffsetsInv, Run, Chained, Follows
<1>2. ASSUME NEW wanted \in Wanted, append_topics(wanted)
      PROVE  OffsetsInv'
  <2>1. file' = file /\ file \in Seq(Item)
    BY <1>2, append_topicsWrites DEF TypeOK
  <2>2. PICK base \in next_base_offset : \E end : Run(pending', base, end)
    BY <1>2, append_topicsWrites
  <2>3. MetadataOffsetsFollow'
    BY <2>1 DEF OffsetsInv, MetadataOffsetsFollow, Lost
  <2>4. file = <<>> => base = 1
    BY <2>2 DEF next_base_offset
  <2>5. ASSUME file # <<>>, ~Lost(file, Len(file))
        PROVE  base = file[Len(file)].base + file[Len(file)].count
    BY <2>1, <2>2, <2>5, FollowedToTheEnd DEF next_base_offset
  <2>6. pending'[1].base = base
    BY <2>2 DEF Run
  <2>7. Fits'
    <3>1. file' = <<>> => pending'[1].base = 1
      BY <2>1, <2>4, <2>6
    <3>2. file' # <<>> /\ ~Lost(file, Len(file)) => Follows(file[Len(file)], pending'[1])
      BY <2>1, <2>5, <2>6 DEF Follows
    <3>3. QED
      BY <2>1, <3>1, <3>2 DEF Fits, Lost, Follows
  <2>8. QED
    BY <2>2, <2>3, <2>7 DEF OffsetsInv, Run, Chained, Follows
<1>3. CASE Write
  <2>1. PICK n \in Nat : n = Len(file) /\ Len(pending) \in Nat
    BY <1>3, WriteWrites
  <2>2. /\ DOMAIN file = 1 .. n /\ DOMAIN file' = 1 .. n + 1 /\ Len(file') = n + 1
        /\ file'[n + 1] = pending[1] /\ pending # <<>>
        /\ \A i \in 1 .. n : file'[i] = file[i]
        /\ \A i \in 1 .. n : Lost(file', i) <=> Lost(file, i)
    BY <1>3, <2>1, WriteWrites, WriteLosesNothing
  <2>3. (file = <<>> <=> n = 0)
    BY <2>1, EmptySeq DEF TypeOK
  <2>4. ASSUME NEW i \in DOMAIN file', file'[i].offset_delta = HEADER
        PROVE  /\ i = 1 => file'[i].base = 1
               /\ i > 1 /\ ~Lost(file', i - 1) => file'[i].base = file'[i - 1].base + file'[i - 1].count
    <3>1. CASE i \in 1 .. n
      <4>1. file'[i] = file[i] /\ (i > 1 => i - 1 \in 1 .. n)
        BY <2>1, <2>2, <3>1
      <4>2. /\ i = 1 => file[i].base = 1
            /\ i > 1 /\ ~Lost(file, i - 1) => file[i].base = file[i - 1].base + file[i - 1].count
        BY <2>2, <2>4, <3>1, <4>1 DEF OffsetsInv, MetadataOffsetsFollow
      <4>3. QED
        BY <2>2, <4>1, <4>2
    <3>2. CASE i = n + 1
      <4>1. file'[i] = pending[1] /\ pending[1].offset_delta = HEADER
        BY <2>2, <2>4, <3>2
      <4>2. /\ file = <<>> => pending[1].base = 1
            /\ file # <<>> /\ ~Lost(file, n) => pending[1].base = file[n].base + file[n].count
        BY <2>1, <2>2, <4>1 DEF OffsetsInv, Fits, Follows
      <4>3. i = 1 => n = 0
        BY <2>1, <3>2
      <4>4. i > 1 => n \in 1 .. n /\ i - 1 = n /\ n # 0
        BY <2>1, <3>2
      <4>5. QED
        BY <2>2, <2>3, <4>1, <4>2, <4>3, <4>4
    <3>3. QED
      BY <2>1, <2>2, <2>4, <3>1, <3>2
  <2>5. MetadataOffsetsFollow'
    BY <2>4 DEF MetadataOffsetsFollow
  <2>6. PICK m \in Nat : m = Len(pending) /\ m > 0
    BY <1>3, <2>1, WriteWrites
  <2>7. /\ DOMAIN pending = 1 .. m /\ DOMAIN pending' = 1 .. m - 1
        /\ \A i \in 1 .. m - 1 : pending'[i] = pending[i + 1]
    BY <1>3, <2>6, WriteWrites
  <2>8. \A i \in 1 .. m : i > 1 => Follows(pending[i - 1], pending[i])
    BY <2>7 DEF OffsetsInv, Chained
  <2>9. ASSUME NEW i \in DOMAIN pending', i > 1
        PROVE  Follows(pending'[i - 1], pending'[i])
    <3>1. /\ i \in 1 .. m - 1 /\ i - 1 \in 1 .. m - 1 /\ i + 1 \in 1 .. m /\ i + 1 > 1
          /\ i + 1 - 1 = i /\ i - 1 + 1 = i
      BY <2>6, <2>7, <2>9
    <3>2. pending'[i] = pending[i + 1] /\ pending'[i - 1] = pending[i]
      BY <2>7, <3>1
    <3>3. Follows(pending[i], pending[i + 1])
      BY <2>8, <3>1
    <3>4. QED
      BY <3>2, <3>3
  <2>10. Chained(pending')
    BY <2>9 DEF Chained
  <2>11. ASSUME pending' # <<>>
         PROVE  Follows(file'[Len(file')], pending'[1])
    <3>1. m > 1
      <4>1. Len(pending') = m - 1 /\ pending' \in Seq(Item)
        BY <1>3, <2>6, WriteWrites
      <4>2. m - 1 # 0
        BY <2>11, <4>1, EmptySeq
      <4>3. QED
        BY <2>6, <4>2
    <3>2. 1 \in 1 .. m - 1 /\ 1 + 1 \in 1 .. m /\ 1 + 1 > 1 /\ 1 + 1 - 1 = 1
      BY <2>6, <3>1
    <3>3. Follows(pending[1], pending[1 + 1])
      BY <2>8, <3>2
    <3>4. pending'[1] = pending[1 + 1]
      BY <2>7, <3>2
    <3>5. QED
      BY <2>2, <3>3, <3>4
  <2>12. Fits'
    <3>1. file' # <<>>
      <4>1. file' \in Seq(Item) /\ Len(file') # 0
        BY <1>3, <2>1, <2>2, WriteWrites
      <4>2. QED
        BY <4>1, EmptySeq
    <3>2. QED
      BY <2>11, <3>1 DEF Fits, Follows
  <2>13. QED
    BY <2>5, <2>10, <2>12 DEF OffsetsInv, Chained, Follows
<1>4. CASE ToolDies
  <2>1. file' = file /\ pending' = <<>> /\ DOMAIN pending' = {}
    BY <1>4 DEF ToolDies
  <2>2. MetadataOffsetsFollow'
    BY <2>1 DEF OffsetsInv, MetadataOffsetsFollow, Lost
  <2>3. QED
    BY <2>1, <2>2 DEF OffsetsInv, Chained, Fits
<1>5. CASE UNCHANGED <<file, pending>>
  BY <1>5 DEF OffsetsInv, MetadataOffsetsFollow, Chained, Fits, Follows, Lost
<1>6. QED
  BY <1>1, <1>2, <1>3, <1>4, <1>5 DEF Next, vars, Start, Stop, Describe

-----------------------------------------------------------------------------
(* Loops over records.  Each is a recursive function; it exists, and what    *)
(* holds at its start and is kept by every step holds in the end.            *)

\* A non-empty set of naturals has a least element.
LEMMA LeastElement ==
    ASSUME NEW S \in SUBSET Nat, S # {}
    PROVE  \E i \in S : \A j \in S : i <= j
<1> DEFINE R == {p \in Nat \X Nat : p[1] < p[2]}
<1>1. IsWellFoundedOn(R, Nat)
  BY NatLessThanWellFounded DEF OpToRel
<1>2. PICK i \in S : \A j \in S : <<j, i>> \notin R
  BY <1>1, WFMin
<1>3. ASSUME NEW j \in S PROVE i <= j
  <2>1. i \in Nat /\ j \in Nat
    OBVIOUS
  <2>2. j < i => <<j, i>> \in R
    BY <2>1
  <2>3. <<j, i>> \notin R
    BY <1>2
  <2>4. QED
    BY <2>1, <2>2, <2>3
<1>4. QED
  BY <1>3

LEMMA UpTo ==
    ASSUME NEW n \in Nat, NEW Good, 0 \in Good, \A i \in 1 .. n : i - 1 \in Good => i \in Good
    PROVE  \A i \in 0 .. n : i \in Good
<1> DEFINE Bad == {i \in 0 .. n : i \notin Good}
<1>1. SUFFICES ASSUME Bad # {} PROVE FALSE
  OBVIOUS
<1>2. Bad \in SUBSET Nat
  OBVIOUS
<1>3. PICK i \in Bad : \A j \in Bad : i <= j
  <2> HIDE DEF Bad
  <2>1. QED
    BY <1>1, <1>2, LeastElement
<1>4. i \in 1 .. n /\ i - 1 \in 0 .. n /\ ~(i <= i - 1)
  BY <1>3
<1>5. i - 1 \in Good
  BY <1>3, <1>4
<1>6. QED
  BY <1>3, <1>4, <1>5

\* f takes these steps from this start.
TakesSteps(f, T, start, step, recs) ==
    /\ f \in [0 .. Len(recs) -> T]
    /\ f[0] = start
    /\ \A i \in 1 .. Len(recs) : f[i] = step[<<f[i - 1], recs[i]>>]

LEMMA LoopExists ==
    ASSUME NEW T, NEW start \in T, NEW step \in [T \X Values -> T], NEW recs \in Seq(Values)
    PROVE  \E f : TakesSteps(f, T, start, step, recs)
<1> DEFINE Takes(n, f) == f[0] = start /\ \A i \in 1 .. n : f[i] = step[<<f[i - 1], recs[i]>>]
<1> DEFINE Good == {n \in Nat : \E f \in [0 .. n -> T] : Takes(n, f)}
<1>1. Len(recs) \in Nat /\ DOMAIN recs = 1 .. Len(recs)
      /\ \A i \in 1 .. Len(recs) : recs[i] \in Values
  BY LenProperties, ElementOfSeq
<1>2. 0 \in Good
  <2>1. PICK f : f = [i \in 0 .. 0 |-> start]
    OBVIOUS
  <2>2. f \in [0 .. 0 -> T] /\ Takes(0, f)
    BY <2>1
  <2>3. QED
    BY <2>2
<1>3. ASSUME NEW n \in 1 .. Len(recs), n - 1 \in Good
      PROVE  n \in Good
  <2>1. PICK f \in [0 .. n - 1 -> T] : Takes(n - 1, f)
    BY <1>3
  <2>2. PICK m \in Nat : m = n - 1 /\ n = m + 1 /\ n \in Nat
    BY <1>1
  <2>3. f[m] \in T /\ recs[n] \in Values
    BY <1>1, <2>1, <2>2
  <2>4. PICK x \in T : x = step[<<f[m], recs[n]>>]
    BY <2>3
  <2>5. PICK g : g = [i \in 0 .. n |-> IF i = n THEN x ELSE f[i]]
    OBVIOUS
  <2>6. \A i \in 0 .. n : g[i] = IF i = n THEN x ELSE f[i]
    BY <2>5
  <2>7. \A i \in 0 .. n : i # n => i \in 0 .. m /\ f[i] \in T
    BY <2>1, <2>2
  <2>8. g \in [0 .. n -> T]
    BY <2>4, <2>5, <2>7
  <2>9. g[0] = start
    <3>1. 0 \in 0 .. n /\ 0 # n
      BY <2>2
    <3>2. QED
      BY <2>1, <2>6, <3>1
  <2>10. ASSUME NEW i \in 1 .. n
         PROVE  g[i] = step[<<g[i - 1], recs[i]>>]
    <3>1. i \in 0 .. n /\ i - 1 \in 0 .. n /\ i - 1 # n
      BY <2>2
    <3>2. g[i - 1] = f[i - 1]
      BY <2>6, <3>1
    <3>3. CASE i = n
      <4>1. g[i] = x /\ i - 1 = m
        BY <2>2, <2>6, <3>1, <3>3
      <4>2. QED
        BY <2>4, <3>2, <3>3, <4>1
    <3>4. CASE i # n
      <4>1. i \in 1 .. n - 1
        BY <2>2, <3>4
      <4>2. f[i] = step[<<f[i - 1], recs[i]>>]
        BY <2>1, <4>1
      <4>3. QED
        BY <2>6, <3>1, <3>2, <3>4, <4>2
    <3>5. QED
      BY <3>3, <3>4
  <2>11. Takes(n, g)
    BY <2>9, <2>10
  <2>12. QED
    BY <2>2, <2>8, <2>11
<1> HIDE DEF Good
<1>4. Len(recs) \in Good
  <2>1. \A n \in 0 .. Len(recs) : n \in Good
    BY <1>1, <1>2, <1>3, UpTo
  <2>2. QED
    BY <1>1, <2>1
<1>5. QED
  BY <1>4 DEF Good, TakesSteps

-----------------------------------------------------------------------------
(* What all the loops compute: by which names a uuid was registered in the   *)
(* first i records, and which partitions came behind such a registration.    *)

Ids == 0 .. MaxPartitions - 1

Named(recs, i) == [u \in Uuid |-> {n \in Names : \E k \in 1 .. i : recs[k] = Topic(n, u)}]
Belong(recs, i) ==
    [u \in Uuid |-> [n \in Names |->
        {p \in Ids : \E k \in 1 .. i : recs[k] = Partition(p, u) /\ n \in Named(recs, k - 1)[u]}]]

OneName(names) == \A u \in Uuid : \A n \in names[u] : \A m \in names[u] : n = m

\* What one record adds to the two relations N and B, of which only B and N
\* are known, not where they come from.
Relations(N, B) ==
    /\ N \in [Uuid -> SUBSET Names] /\ B \in [Uuid -> [Names -> SUBSET Ids]]
    /\ OneName(N)
    /\ \A u \in Uuid : \A n \in Names : \A p \in B[u][n] : n \in N[u]

AddsTopic(v, N, B, M, C) ==
    /\ v.type = "topic" /\ v.uuid \in Uuid /\ v.name \in Names
    /\ \A u \in Uuid : \A n \in Names : n \in M[u] <=> n \in N[u] \/ (u = v.uuid /\ n = v.name)
    /\ C = B
AddsPartition(v, N, B, M, C) ==
    /\ v.type = "partition" /\ v.uuid \in Uuid /\ v.id \in Ids
    /\ M = N
    /\ \A u \in Uuid : \A n \in Names : \A p \in Ids :
         p \in C[u][n] <=> p \in B[u][n] \/ (u = v.uuid /\ p = v.id /\ n \in N[u])
AddsNothing(v, N, B, M, C) == v.type \notin {"topic", "partition"} /\ M = N /\ C = B

Adds(v, N, B, M, C) ==
    \/ AddsTopic(v, N, B, M, C)
    \/ AddsPartition(v, N, B, M, C)
    \/ AddsNothing(v, N, B, M, C)

LEMMA NoRecordsYet ==
    ASSUME NEW recs
    PROVE  /\ \A u \in Uuid : Named(recs, 0)[u] = {}
           /\ \A u \in Uuid : \A n \in Names : Belong(recs, 0)[u][n] = {}
<1>1. 1 .. 0 = {}
  OBVIOUS
<1>2. QED
  BY <1>1 DEF Named, Belong

LEMMA RecordAdds ==
    ASSUME NEW recs \in Seq(Values), NEW i \in 1 .. Len(recs)
    PROVE  Adds(recs[i], Named(recs, i - 1), Belong(recs, i - 1), Named(recs, i), Belong(recs, i))
<1> DEFINE v == recs[i]
<1>1. v \in Values
  BY ElementOfSeq
<1>2. i \in Nat /\ i - 1 \in Nat /\ 1 .. i = 1 .. i - 1 \cup {i}
  BY LenProperties
<1>3. ASSUME NEW u \in Uuid, NEW n \in Names
      PROVE  n \in Named(recs, i)[u] <=> n \in Named(recs, i - 1)[u] \/ v = Topic(n, u)
  BY <1>2 DEF Named
<1>4. ASSUME NEW u \in Uuid, NEW n \in Names, NEW p \in Ids
      PROVE  p \in Belong(recs, i)[u][n] <=>
                \/ p \in Belong(recs, i - 1)[u][n]
                \/ v = Partition(p, u) /\ n \in Named(recs, i - 1)[u]
  <2>1. ASSUME NEW m
        PROVE  p \in Belong(recs, m)[u][n] <=>
                 \E k \in 1 .. m : recs[k] = Partition(p, u) /\ n \in Named(recs, k - 1)[u]
    BY DEF Belong
  <2>2. QED
    BY <1>2, <2>1
<1>5. /\ Named(recs, i) \in [Uuid -> SUBSET Names] /\ Named(recs, i - 1) \in [Uuid -> SUBSET Names]
      /\ Belong(recs, i) \in [Uuid -> [Names -> SUBSET Ids]]
      /\ Belong(recs, i - 1) \in [Uuid -> [Names -> SUBSET Ids]]
  <2>1. \A m : Named(recs, m) \in [Uuid -> SUBSET Names]
    BY DEF Named
  <2>2. \A m : Belong(recs, m) \in [Uuid -> [Names -> SUBSET Ids]]
    BY DEF Belong
  <2>3. QED
    BY <2>1, <2>2
<1>6. (\A u \in Uuid : \A n \in Names : v # Topic(n, u)) => Named(recs, i) = Named(recs, i - 1)
  <2>1. SUFFICES ASSUME \A u \in Uuid : \A n \in Names : v # Topic(n, u)
                 PROVE  Named(recs, i) = Named(recs, i - 1)
    OBVIOUS
  <2>2. PICK new : new = Named(recs, i)
    OBVIOUS
  <2>3. PICK old : old = Named(recs, i - 1)
    OBVIOUS
  <2>4. \A u \in Uuid : \A n \in Names : n \in new[u] <=> n \in old[u]
    BY <1>3, <2>1, <2>2, <2>3
  <2>5. new \in [Uuid -> SUBSET Names] /\ old \in [Uuid -> SUBSET Names]
    BY <1>5, <2>2, <2>3
  <2>6. \A u \in Uuid : new[u] = old[u]
    BY <2>4, <2>5
  <2>7. new = old
    BY <2>5, <2>6
  <2>8. QED
    BY <2>2, <2>3, <2>7
<1>7. (\A u \in Uuid : \A p \in Ids : v # Partition(p, u)) => Belong(recs, i) = Belong(recs, i - 1)
  <2>1. SUFFICES ASSUME \A u \in Uuid : \A p \in Ids : v # Partition(p, u)
                 PROVE  Belong(recs, i) = Belong(recs, i - 1)
    OBVIOUS
  <2>2. PICK new : new = Belong(recs, i)
    OBVIOUS
  <2>3. PICK old : old = Belong(recs, i - 1)
    OBVIOUS
  <2>4. \A u \in Uuid : \A n \in Names : \A p \in Ids : p \in new[u][n] <=> p \in old[u][n]
    BY <1>4, <2>1, <2>2, <2>3
  <2>5. new \in [Uuid -> [Names -> SUBSET Ids]] /\ old \in [Uuid -> [Names -> SUBSET Ids]]
    BY <1>5, <2>2, <2>3
  <2>6. ASSUME NEW u \in Uuid
        PROVE  new[u] = old[u]
    <3>1. new[u] \in [Names -> SUBSET Ids] /\ old[u] \in [Names -> SUBSET Ids]
      BY <2>5
    <3>2. \A n \in Names : new[u][n] = old[u][n]
      BY <2>4, <3>1
    <3>3. QED
      BY <3>1, <3>2
  <2>7. new = old
    BY <2>5, <2>6
  <2>8. QED
    BY <2>2, <2>3, <2>7
<1>8. CASE v.type = "topic"
  <2>1. v = Topic(v.name, v.uuid) /\ v.name \in Names /\ v.uuid \in Uuid
    BY <1>1, <1>8, TopicValue
  <2>2. \A u \in Uuid : \A p \in Ids : v # Partition(p, u)
    BY <1>8 DEF Partition
  <2>3. \A u \in Uuid : \A n \in Names : v = Topic(n, u) <=> u = v.uuid /\ n = v.name
    BY <2>1 DEF Topic
  <2>4. QED
    BY <1>3, <1>7, <1>8, <2>1, <2>2, <2>3 DEF Adds, AddsTopic
<1>9. CASE v.type = "partition"
  <2>1. v = Partition(v.id, v.uuid) /\ v.id \in Ids /\ v.uuid \in Uuid
    BY <1>1, <1>9 DEF Values, NoValue, FeatureLevel, Topic, Partition, Ids
  <2>2. \A u \in Uuid : \A n \in Names : v # Topic(n, u)
    BY <1>9 DEF Topic
  <2>3. \A u \in Uuid : \A p \in Ids : v = Partition(p, u) <=> u = v.uuid /\ p = v.id
    BY <2>1 DEF Partition
  <2>4. QED
    BY <1>4, <1>6, <1>9, <2>1, <2>2, <2>3 DEF Adds, AddsPartition
<1>10. CASE v.type \notin {"topic", "partition"}
  BY <1>6, <1>7, <1>10 DEF Adds, AddsNothing, Topic, Partition
<1>11. QED
  BY <1>8, <1>9, <1>10

\* If no uuid has two names in the end it has not on the way.
LEMMA RelationsUpTo ==
    ASSUME NEW recs \in Seq(Values), OneName(Named(recs, Len(recs))), NEW i \in 0 .. Len(recs)
    PROVE  Relations(Named(recs, i), Belong(recs, i))
<1>1. Len(recs) \in Nat
  BY LenProperties
<1>2. \A u \in Uuid : Named(recs, i)[u] \subseteq Named(recs, Len(recs))[u]
  <2>1. 1 .. i \subseteq 1 .. Len(recs)
    BY <1>1
  <2>2. QED
    BY <2>1 DEF Named
<1>3. OneName(Named(recs, i))
  BY <1>2 DEF OneName
<1>4. ASSUME NEW u \in Uuid, NEW n \in Names, NEW p \in Belong(recs, i)[u][n]
      PROVE  n \in Named(recs, i)[u]
  <2>1. PICK k \in 1 .. i : n \in Named(recs, k - 1)[u]
    BY DEF Belong
  <2>2. 1 .. k - 1 \subseteq 1 .. i
    BY <1>1
  <2>3. QED
    BY <2>1, <2>2 DEF Named
<1>5. Named(recs, i) \in [Uuid -> SUBSET Names]
  BY DEF Named
<1>6. Belong(recs, i) \in [Uuid -> [Names -> SUBSET Ids]]
  BY DEF Belong
<1>7. QED
  BY <1>3, <1>4, <1>5, <1>6 DEF Relations

-----------------------------------------------------------------------------
(* Dictionaries with uuids for keys. *)

Dict(X) == UNION {[D -> X] : D \in SUBSET Uuid}

LEMMA DictType ==
    ASSUME NEW X, NEW d \in Dict(X)
    PROVE  /\ DOMAIN d \subseteq Uuid
           /\ d \in [DOMAIN d -> X]
           /\ \A u \in DOMAIN d : d[u] \in X
BY DEF Dict

LEMMA IsDict ==
    ASSUME NEW X, NEW d, DOMAIN d \subseteq Uuid, d \in [DOMAIN d -> X]
    PROVE  d \in Dict(X)
BY DEF Dict

\* e is d with x put at u.
PutAt(e, d, u, x) ==
    /\ DOMAIN e = DOMAIN d \cup {u} /\ e[u] = x
    /\ \A k \in DOMAIN d : k # u => e[k] = d[k]

LEMMA putIs ==
    ASSUME NEW X, NEW d \in Dict(X), NEW u \in Uuid, NEW x \in X
    PROVE  put(d, u, x) \in Dict(X) /\ PutAt(put(d, u, x), d, u, x)
<1>1. DOMAIN d \subseteq Uuid /\ \A k \in DOMAIN d : d[k] \in X
  BY DictType
<1>2. PICK e : e = put(d, u, x)
  OBVIOUS
<1>3. e = [k \in DOMAIN d \cup {u} |-> IF k = u THEN x ELSE d[k]]
  BY <1>2 DEF put
<1>4. DOMAIN e = DOMAIN d \cup {u}
  BY <1>3
<1>5. \A k \in DOMAIN d \cup {u} : e[k] = IF k = u THEN x ELSE d[k]
  BY <1>3
<1>6. e \in [DOMAIN e -> X] /\ DOMAIN e \subseteq Uuid
  BY <1>1, <1>3, <1>4
<1>7. e \in Dict(X)
  BY <1>6, IsDict
<1>8. PutAt(e, d, u, x)
  BY <1>4, <1>5 DEF PutAt
<1>9. QED
  BY <1>2, <1>7, <1>8

LEMMA NoKeys ==
    ASSUME NEW X
    PROVE  <<>> \in Dict(X) /\ DOMAIN <<>> = {}
<1>1. PICK e : e = <<>>
  OBVIOUS
<1>2. DOMAIN e = {} /\ e \in [{} -> X]
  BY <1>1
<1>3. e \in Dict(X)
  BY <1>2, IsDict
<1>4. QED
  BY <1>1, <1>2, <1>3

\* The dictionary has of these names those in W, of each uuid at most one.
DictIs(d, N, W) ==
    \A u \in Uuid : \A n \in Names : (u \in DOMAIN d /\ d[u] = n) <=> n \in N[u] /\ n \in W

LEMMA putName ==
    ASSUME NEW N, NEW B, NEW M, NEW C, NEW v, Relations(N, B), Relations(M, C),
           AddsTopic(v, N, B, M, C), NEW W \in SUBSET Names, v.name \in W,
           NEW d \in Dict(Names), DictIs(d, N, W)
    PROVE  put(d, v.uuid, v.name) \in Dict(Names) /\ DictIs(put(d, v.uuid, v.name), M, W)
<1>1. PICK u0 \in Uuid : u0 = v.uuid
  BY DEF AddsTopic
<1>2. PICK n0 \in Names : n0 = v.name /\ n0 \in W
  BY DEF AddsTopic
<1>3. PICK e : e = put(d, u0, n0)
  OBVIOUS
<1>4. /\ e \in Dict(Names) /\ DOMAIN e = DOMAIN d \cup {u0} /\ e[u0] = n0
      /\ \A k \in DOMAIN d : k # u0 => e[k] = d[k]
  <2>1. put(d, u0, n0) \in Dict(Names) /\ PutAt(put(d, u0, n0), d, u0, n0)
    BY putIs
  <2>2. QED
    BY <1>3, <2>1 DEF PutAt
<1>5. /\ \A u \in Uuid : \A n \in Names : n \in M[u] <=> n \in N[u] \/ (u = u0 /\ n = n0)
      /\ \A n \in M[u0] : \A m \in M[u0] : n = m
  BY <1>1, <1>2 DEF AddsTopic, Relations, OneName
<1>6. ASSUME NEW u \in Uuid, NEW n \in Names
      PROVE  (u \in DOMAIN e /\ e[u] = n) <=> n \in M[u] /\ n \in W
  <2>1. (u \in DOMAIN d /\ d[u] = n) <=> n \in N[u] /\ n \in W
    BY DEF DictIs
  <2>2. CASE u = u0
    BY <1>2, <1>4, <1>5, <2>2
  <2>3. CASE u # u0
    BY <1>4, <1>5, <2>1, <2>3
  <2>4. QED
    BY <2>2, <2>3
<1>7. QED
  BY <1>1, <1>2, <1>3, <1>4, <1>6 DEF DictIs

\* The partitions of a topic that was registered get one more.
LEMMA OneMore ==
    ASSUME NEW N, NEW B, NEW M, NEW C, NEW v, Relations(N, B), Relations(M, C),
           AddsPartition(v, N, B, M, C), NEW u \in Uuid, NEW n \in Names
    PROVE  C[u][n] = IF u = v.uuid /\ n \in N[u] THEN B[u][n] \cup {v.id} ELSE B[u][n]
<1>1. PICK p0 \in Ids : p0 = v.id
  BY DEF AddsPartition
<1>2. C[u][n] \subseteq Ids /\ B[u][n] \subseteq Ids
  BY DEF Relations
<1>3. \A p \in Ids : p \in C[u][n] <=> p \in B[u][n] \/ (u = v.uuid /\ p = p0 /\ n \in N[u])
  BY <1>1 DEF AddsPartition
<1>4. QED
  BY <1>1, <1>2, <1>3

-----------------------------------------------------------------------------
(* Produce and list offsets. *)

ProduceTables == [topic_uuid_to_name : Dict(Names), valid_partitions : SUBSET (Names \X Ids)]

PairsAre(valid, B) ==
    \A n \in Names : \A p \in Ids : <<n, p>> \in valid <=> \E u \in Uuid : p \in B[u][n]
ProduceIs(t, N, B) == DictIs(t.topic_uuid_to_name, N, Names) /\ PairsAre(t.valid_partitions, B)

LEMMA ProduceStep ==
    ASSUME NEW N, NEW B, NEW M, NEW C, NEW v, Relations(N, B), Relations(M, C),
           Adds(v, N, B, M, C), NEW t \in ProduceTables, ProduceIs(t, N, B)
    PROVE  produce_record(t, v) \in ProduceTables /\ ProduceIs(produce_record(t, v), M, C)
<1>1. PICK d : d = t.topic_uuid_to_name
  OBVIOUS
<1>2. PICK valid : valid = t.valid_partitions
  OBVIOUS
<1>3. /\ d \in Dict(Names) /\ valid \in SUBSET (Names \X Ids)
      /\ t = [topic_uuid_to_name |-> d, valid_partitions |-> valid]
      /\ DictIs(d, N, Names) /\ PairsAre(valid, B)
  BY <1>1, <1>2 DEF ProduceTables, ProduceIs
<1>4. CASE AddsTopic(v, N, B, M, C)
  <2>1. PICK e : e = put(d, v.uuid, v.name)
    OBVIOUS
  <2>2. e \in Dict(Names) /\ DictIs(e, M, Names)
    <3>1. v.name \in Names
      BY <1>4 DEF AddsTopic
    <3>2. QED
      BY <1>3, <1>4, <2>1, <3>1, putName
  <2>3. v.type = "topic" /\ C = B
    BY <1>4 DEF AddsTopic
  <2>4. produce_record(t, v) = [topic_uuid_to_name |-> e, valid_partitions |-> valid]
    BY <1>3, <2>1, <2>3 DEF produce_record
  <2>5. QED
    BY <1>3, <2>2, <2>3, <2>4 DEF ProduceTables, ProduceIs
<1>5. CASE AddsPartition(v, N, B, M, C)
  <2>1. PICK u0 \in Uuid : u0 = v.uuid
    BY <1>5 DEF AddsPartition
  <2>2. PICK p0 \in Ids : p0 = v.id
    BY <1>5 DEF AddsPartition
  <2>3. /\ v.type = "partition" /\ M = N
        /\ \A u \in Uuid : \A n \in Names : \A p \in Ids :
             p \in C[u][n] <=> p \in B[u][n] \/ (u = u0 /\ p = p0 /\ n \in N[u0])
    BY <1>5, <2>1, <2>2 DEF AddsPartition
  <2>4. CASE u0 \in DOMAIN d
    <3>1. PICK n0 \in Names : n0 = d[u0]
      BY <1>3, <2>4, DictType
    <3>2. \A n \in Names : n \in N[u0] <=> n = n0
      BY <1>3, <2>4, <3>1 DEF DictIs
    <3>3. PICK more : more = valid \cup {<<n0, p0>>}
      OBVIOUS
    <3>4. produce_record(t, v) = [topic_uuid_to_name |-> d, valid_partitions |-> more]
      BY <1>3, <2>1, <2>2, <2>3, <2>4, <3>1, <3>3 DEF produce_record
    <3>5. ASSUME NEW n \in Names, NEW p \in Ids
          PROVE  <<n, p>> \in more <=> \E u \in Uuid : p \in C[u][n]
      <4>1. <<n, p>> \in more <=> <<n, p>> \in valid \/ (n = n0 /\ p = p0)
        BY <3>3
      <4>2. <<n, p>> \in valid <=> \E u \in Uuid : p \in B[u][n]
        BY <1>3 DEF PairsAre
      <4>3. \A u \in Uuid : p \in C[u][n] <=> p \in B[u][n] \/ (u = u0 /\ p = p0 /\ n = n0)
        BY <2>3, <3>2
      <4>4. QED
        BY <4>1, <4>2, <4>3
    <3>6. more \in SUBSET (Names \X Ids)
      BY <1>3, <3>3
    <3>7. PairsAre(more, C)
      BY <3>5 DEF PairsAre
    <3>8. QED
      BY <1>3, <2>3, <3>4, <3>6, <3>7 DEF ProduceTables, ProduceIs
  <2>5. CASE u0 \notin DOMAIN d
    <3>1. \A n \in Names : n \notin N[u0]
      BY <1>3, <2>5 DEF DictIs
    <3>2. \A u \in Uuid : \A n \in Names : \A p \in Ids : p \in C[u][n] <=> p \in B[u][n]
      BY <2>3, <3>1
    <3>3. PairsAre(valid, C)
      BY <1>3, <3>2 DEF PairsAre
    <3>4. produce_record(t, v) = t
      BY <1>3, <2>1, <2>3, <2>5 DEF produce_record
    <3>5. QED
      BY <1>3, <2>3, <3>3, <3>4 DEF ProduceTables, ProduceIs
  <2>6. QED
    BY <2>4, <2>5
<1>6. CASE AddsNothing(v, N, B, M, C)
  <2>1. produce_record(t, v) = t
    BY <1>6 DEF produce_record, AddsNothing
  <2>2. QED
    BY <1>6, <2>1 DEF AddsNothing
<1>7. QED
  BY <1>4, <1>5, <1>6 DEF Adds

LEMMA ProduceLoop ==
    ASSUME NEW recs \in Seq(Values), OneName(Named(recs, Len(recs)))
    PROVE  /\ produce_tables(recs) \in ProduceTables
           /\ ProduceIs(produce_tables(recs), Named(recs, Len(recs)), Belong(recs, Len(recs)))
<1> DEFINE body(f) == [i \in 0 .. Len(recs) |->
                         IF i = 0 THEN ProduceStart ELSE produce_record(f[i - 1], recs[i])]
<1> DEFINE upto == CHOOSE f : f = body(f)
<1> DEFINE Is(i, t) == t \in ProduceTables /\ ProduceIs(t, Named(recs, i), Belong(recs, i))
<1>1. produce_tables(recs) = upto[Len(recs)]
  BY DEF produce_tables
<1>2. PICK size \in Nat : size = Len(recs)
  BY LenProperties
<1>3. Is(0, ProduceStart)
  BY NoKeys, NoRecordsYet DEF ProduceStart, ProduceTables, ProduceIs, DictIs, PairsAre
<1>4. ASSUME NEW i \in 1 .. size, NEW t, Is(i - 1, t)
      PROVE  Is(i, produce_record(t, recs[i]))
  <2>1. i - 1 \in 0 .. size /\ i \in 0 .. size
    OBVIOUS
  <2>2. Relations(Named(recs, i - 1), Belong(recs, i - 1)) /\ Relations(Named(recs, i), Belong(recs, i))
    BY <1>2, <2>1, RelationsUpTo
  <2>3. Adds(recs[i], Named(recs, i - 1), Belong(recs, i - 1), Named(recs, i), Belong(recs, i))
    BY <1>2, RecordAdds
  <2>4. QED
    BY <1>4, <2>2, <2>3, ProduceStep
<1> HIDE DEF Is
<1>5. \E f : f = body(f)
  <2>1. PICK any \in ProduceTables : TRUE
    BY <1>3 DEF Is
  <2> DEFINE step == [x \in ProduceTables \X Values |->
                        IF produce_record(x[1], x[2]) \in ProduceTables
                        THEN produce_record(x[1], x[2]) ELSE any]
  <2>2. step \in [ProduceTables \X Values -> ProduceTables]
    OBVIOUS
  <2>3. \A t \in ProduceTables : \A v \in Values :
          produce_record(t, v) \in ProduceTables => step[<<t, v>>] = produce_record(t, v)
    OBVIOUS
  <2> HIDE DEF step
  <2>4. PICK f \in [0 .. size -> ProduceTables] :
          /\ f[0] = ProduceStart
          /\ \A i \in 1 .. size : f[i] = step[<<f[i - 1], recs[i]>>]
    <3>1. PICK T : T = ProduceTables
      OBVIOUS
    <3>2. PICK start \in T : start = ProduceStart
      BY <1>3, <3>1 DEF Is
    <3>3. step \in [T \X Values -> T]
      BY <2>2, <3>1
    <3>4. PICK f : TakesSteps(f, T, start, step, recs)
      BY <3>3, LoopExists
    <3>5. QED
      BY <1>2, <3>1, <3>2, <3>4 DEF TakesSteps
  <2>5. ASSUME NEW i \in 1 .. size, Is(i - 1, f[i - 1])
        PROVE  f[i] = produce_record(f[i - 1], recs[i]) /\ Is(i, f[i])
    <3>1. Is(i, produce_record(f[i - 1], recs[i]))
      BY <1>4, <2>5
    <3>2. recs[i] \in Values
      BY <1>2, ElementOfSeq
    <3>3. QED
      BY <2>3, <2>4, <2>5, <3>1, <3>2 DEF Is
  <2> DEFINE Good == {i \in 0 .. size : Is(i, f[i])}
  <2>6. 0 \in Good
    BY <1>3, <2>4
  <2>7. \A i \in 1 .. size : i - 1 \in Good => i \in Good
    BY <2>5
  <2>8. \A i \in 0 .. size : Is(i, f[i])
    <3> HIDE DEF Good
    <3>1. \A i \in 0 .. size : i \in Good
      BY <2>6, <2>7, UpTo
    <3>2. QED
      BY <3>1 DEF Good
  <2>9. \A i \in 1 .. size : i - 1 \in 0 .. size
    OBVIOUS
  <2>10. \A i \in 1 .. size : f[i] = produce_record(f[i - 1], recs[i])
    BY <2>5, <2>8, <2>9
  <2>11. f = [i \in 0 .. size |-> IF i = 0 THEN ProduceStart ELSE produce_record(f[i - 1], recs[i])]
    BY <2>4, <2>10
  <2>12. QED
    BY <1>2, <2>11
<1>6. upto = body(upto)
  BY <1>5
<1> HIDE DEF upto
<1>7. /\ upto[0] = ProduceStart
      /\ \A i \in 1 .. size : upto[i] = produce_record(upto[i - 1], recs[i])
  BY <1>2, <1>6
<1> DEFINE Good == {i \in 0 .. size : Is(i, upto[i])}
<1>8. 0 \in Good
  BY <1>3, <1>7
<1>9. \A i \in 1 .. size : i - 1 \in Good => i \in Good
  BY <1>4, <1>7
<1>10. Is(size, upto[size])
  <2> HIDE DEF Good
  <2>1. \A i \in 0 .. size : i \in Good
    BY <1>8, <1>9, UpTo
  <2>2. QED
    BY <2>1 DEF Good
<1>11. Is(Len(recs), upto[Len(recs)])
  BY <1>2, <1>10
<1>12. QED
  BY <1>1, <1>11 DEF Is

-----------------------------------------------------------------------------
(* Fetch. *)

FetchIs(t, N, B) == DictIs(t, N, Names)

LEMMA FetchStep ==
    ASSUME NEW N, NEW B, NEW M, NEW C, NEW v, Relations(N, B), Relations(M, C),
           Adds(v, N, B, M, C), NEW t \in Dict(Names), FetchIs(t, N, B)
    PROVE  fetch_record(t, v) \in Dict(Names) /\ FetchIs(fetch_record(t, v), M, C)
<1>1. CASE AddsTopic(v, N, B, M, C)
  <2>1. v.type = "topic" /\ v.name \in Names /\ DictIs(t, N, Names)
    BY <1>1 DEF AddsTopic, FetchIs
  <2>2. put(t, v.uuid, v.name) \in Dict(Names) /\ DictIs(put(t, v.uuid, v.name), M, Names)
    BY <1>1, <2>1, putName
  <2>3. QED
    BY <2>1, <2>2 DEF fetch_record, FetchIs
<1>2. CASE AddsPartition(v, N, B, M, C)
  BY <1>2 DEF AddsPartition, fetch_record, FetchIs
<1>3. CASE AddsNothing(v, N, B, M, C)
  BY <1>3 DEF AddsNothing, fetch_record, FetchIs
<1>4. QED
  BY <1>1, <1>2, <1>3 DEF Adds

LEMMA FetchLoop ==
    ASSUME NEW recs \in Seq(Values), OneName(Named(recs, Len(recs)))
    PROVE  /\ existing_topics_by_uuid(recs) \in Dict(Names)
           /\ FetchIs(existing_topics_by_uuid(recs), Named(recs, Len(recs)), Belong(recs, Len(recs)))
<1> DEFINE body(f) == [i \in 0 .. Len(recs) |->
                         IF i = 0 THEN <<>> ELSE fetch_record(f[i - 1], recs[i])]
<1> DEFINE upto == CHOOSE f : f = body(f)
<1> DEFINE Is(i, t) == t \in Dict(Names) /\ FetchIs(t, Named(recs, i), Belong(recs, i))
<1>1. existing_topics_by_uuid(recs) = upto[Len(recs)]
  BY DEF existing_topics_by_uuid
<1>2. PICK size \in Nat : size = Len(recs)
  BY LenProperties
<1>3. Is(0, <<>>)
  BY NoKeys, NoRecordsYet DEF FetchIs, DictIs
<1>4. ASSUME NEW i \in 1 .. size, NEW t, Is(i - 1, t)
      PROVE  Is(i, fetch_record(t, recs[i]))
  <2>1. i - 1 \in 0 .. size /\ i \in 0 .. size
    OBVIOUS
  <2>2. Relations(Named(recs, i - 1), Belong(recs, i - 1)) /\ Relations(Named(recs, i), Belong(recs, i))
    BY <1>2, <2>1, RelationsUpTo
  <2>3. Adds(recs[i], Named(recs, i - 1), Belong(recs, i - 1), Named(recs, i), Belong(recs, i))
    BY <1>2, RecordAdds
  <2>4. QED
    BY <1>4, <2>2, <2>3, FetchStep
<1> HIDE DEF Is
<1>5. \E f : f = body(f)
  <2>1. PICK any \in Dict(Names) : TRUE
    BY <1>3 DEF Is
  <2> DEFINE step == [x \in Dict(Names) \X Values |->
                        IF fetch_record(x[1], x[2]) \in Dict(Names)
                        THEN fetch_record(x[1], x[2]) ELSE any]
  <2>2. step \in [Dict(Names) \X Values -> Dict(Names)]
    OBVIOUS
  <2>3. \A t \in Dict(Names) : \A v \in Values :
          fetch_record(t, v) \in Dict(Names) => step[<<t, v>>] = fetch_record(t, v)
    OBVIOUS
  <2> HIDE DEF step
  <2>4. PICK f \in [0 .. size -> Dict(Names)] :
          /\ f[0] = <<>>
          /\ \A i \in 1 .. size : f[i] = step[<<f[i - 1], recs[i]>>]
    <3>1. PICK T : T = Dict(Names)
      OBVIOUS
    <3>2. PICK start \in T : start = <<>>
      BY <1>3, <3>1 DEF Is
    <3>3. step \in [T \X Values -> T]
      BY <2>2, <3>1
    <3>4. PICK f : TakesSteps(f, T, start, step, recs)
      BY <3>3, LoopExists
    <3>5. QED
      BY <1>2, <3>1, <3>2, <3>4 DEF TakesSteps
  <2>5. ASSUME NEW i \in 1 .. size, Is(i - 1, f[i - 1])
        PROVE  f[i] = fetch_record(f[i - 1], recs[i]) /\ Is(i, f[i])
    <3>1. Is(i, fetch_record(f[i - 1], recs[i]))
      BY <1>4, <2>5
    <3>2. recs[i] \in Values
      BY <1>2, ElementOfSeq
    <3>3. QED
      BY <2>3, <2>4, <2>5, <3>1, <3>2 DEF Is
  <2> DEFINE Good == {i \in 0 .. size : Is(i, f[i])}
  <2>6. 0 \in Good
    BY <1>3, <2>4
  <2>7. \A i \in 1 .. size : i - 1 \in Good => i \in Good
    BY <2>5
  <2>8. \A i \in 0 .. size : Is(i, f[i])
    <3> HIDE DEF Good
    <3>1. \A i \in 0 .. size : i \in Good
      BY <2>6, <2>7, UpTo
    <3>2. QED
      BY <3>1 DEF Good
  <2>9. \A i \in 1 .. size : i - 1 \in 0 .. size
    OBVIOUS
  <2>10. \A i \in 1 .. size : f[i] = fetch_record(f[i - 1], recs[i])
    BY <2>5, <2>8, <2>9
  <2>11. f = [i \in 0 .. size |-> IF i = 0 THEN <<>> ELSE fetch_record(f[i - 1], recs[i])]
    BY <2>4, <2>10
  <2>12. QED
    BY <1>2, <2>11
<1>6. upto = body(upto)
  BY <1>5
<1> HIDE DEF upto
<1>7. /\ upto[0] = <<>>
      /\ \A i \in 1 .. size : upto[i] = fetch_record(upto[i - 1], recs[i])
  BY <1>2, <1>6
<1> DEFINE Good == {i \in 0 .. size : Is(i, upto[i])}
<1>8. 0 \in Good
  BY <1>3, <1>7
<1>9. \A i \in 1 .. size : i - 1 \in Good => i \in Good
  BY <1>4, <1>7
<1>10. Is(size, upto[size])
  <2> HIDE DEF Good
  <2>1. \A i \in 0 .. size : i \in Good
    BY <1>8, <1>9, UpTo
  <2>2. QED
    BY <2>1 DEF Good
<1>11. Is(Len(recs), upto[Len(recs)])
  BY <1>2, <1>10
<1>12. QED
  BY <1>1, <1>11 DEF Is

-----------------------------------------------------------------------------
(* Metadata. *)

MetadataTables == [topic_names : Dict(Names), topic_partitions : Dict(SUBSET Ids)]

\* The topics that a request means.
Meant(all, requested) == IF all THEN Names ELSE requested

MetadataIs(t, N, B, W) ==
    /\ DictIs(t.topic_names, N, W)
    /\ DOMAIN t.topic_partitions = DOMAIN t.topic_names
    /\ \A u \in DOMAIN t.topic_names : t.topic_partitions[u] = B[u][t.topic_names[u]]

LEMMA MetadataStep ==
    ASSUME NEW N, NEW B, NEW M, NEW C, NEW v, Relations(N, B), Relations(M, C),
           Adds(v, N, B, M, C), NEW all \in BOOLEAN, NEW requested \in SUBSET Names,
           NEW t \in MetadataTables, MetadataIs(t, N, B, Meant(all, requested))
    PROVE  /\ metadata_record(t, v, all, requested) \in MetadataTables
           /\ MetadataIs(metadata_record(t, v, all, requested), M, C, Meant(all, requested))
<1>0. PICK W \in SUBSET Names : W = Meant(all, requested)
  BY DEF Meant
<1>1. PICK d : d = t.topic_names
  OBVIOUS
<1>2. PICK q : q = t.topic_partitions
  OBVIOUS
<1>3. /\ d \in Dict(Names) /\ q \in Dict(SUBSET Ids)
      /\ t = [topic_names |-> d, topic_partitions |-> q]
      /\ DictIs(d, N, W) /\ DOMAIN q = DOMAIN d
      /\ \A u \in DOMAIN d : q[u] = B[u][d[u]]
  BY <1>0, <1>1, <1>2 DEF MetadataTables, MetadataIs
<1>4. /\ DOMAIN d \subseteq Uuid
      /\ \A u \in DOMAIN d : d[u] \in Names /\ d[u] \in N[u] /\ q[u] \in SUBSET Ids
  <2>1. DOMAIN d \subseteq Uuid /\ \A u \in DOMAIN d : d[u] \in Names
    BY <1>3, DictType
  <2>2. \A u \in DOMAIN q : q[u] \in SUBSET Ids
    <3>1. PICK X : X = SUBSET Ids
      OBVIOUS
    <3>2. q \in Dict(X)
      BY <1>3, <3>1
    <3>3. \A u \in DOMAIN q : q[u] \in X
      BY <3>2, DictType
    <3>4. QED
      BY <3>1, <3>3
  <2>3. QED
    BY <1>3, <2>1, <2>2 DEF DictIs
<1>5. \A n \in Names : n \in W <=> all \/ n \in requested
  BY <1>0 DEF Meant
\* What a new table has to be for the step to be right.
<1>6. ASSUME NEW e \in Dict(Names), NEW r \in Dict(SUBSET Ids), DictIs(e, M, W),
             DOMAIN r = DOMAIN e, \A u \in DOMAIN e : r[u] = C[u][e[u]],
             metadata_record(t, v, all, requested) = [topic_names |-> e, topic_partitions |-> r]
      PROVE  /\ metadata_record(t, v, all, requested) \in MetadataTables
             /\ MetadataIs(metadata_record(t, v, all, requested), M, C, Meant(all, requested))
  BY <1>0, <1>6 DEF MetadataTables, MetadataIs
<1>7. CASE AddsTopic(v, N, B, M, C) /\ v.name \in W
  <2>1. PICK u0 \in Uuid : u0 = v.uuid
    BY <1>7 DEF AddsTopic
  <2>2. PICK n0 \in Names : n0 = v.name
    BY <1>7 DEF AddsTopic
  <2>3. PICK e : e = put(d, u0, n0)
    OBVIOUS
  <2>4. e \in Dict(Names) /\ DictIs(e, M, W)
    BY <1>3, <1>7, <2>1, <2>2, <2>3, putName
  <2>5. DOMAIN e = DOMAIN d \cup {u0} /\ e[u0] = n0 /\ \A k \in DOMAIN d : k # u0 => e[k] = d[k]
    <3>1. PutAt(put(d, u0, n0), d, u0, n0)
      BY <1>3, putIs
    <3>2. QED
      BY <2>3, <3>1 DEF PutAt
  <2>6. /\ v.type = "topic" /\ C = B /\ (all \/ v.name \in requested)
        /\ n0 \in M[u0] /\ N[u0] \subseteq M[u0]
        /\ \A n \in M[u0] : n = n0
    <3>1. /\ v.type = "topic" /\ C = B
          /\ \A u \in Uuid : \A n \in Names : n \in M[u] <=> n \in N[u] \/ (u = u0 /\ n = n0)
      BY <1>7, <2>1, <2>2 DEF AddsTopic
    <3>2. N[u0] \subseteq Names /\ M[u0] \subseteq Names /\ \A n \in M[u0] : \A m \in M[u0] : n = m
      BY DEF Relations, OneName
    <3>3. all \/ v.name \in requested
      BY <1>5, <1>7, <2>2
    <3>4. n0 \in M[u0] /\ N[u0] \subseteq M[u0]
      BY <3>1, <3>2
    <3>5. QED
      BY <3>1, <3>2, <3>3, <3>4
  <2>7. CASE u0 \in DOMAIN d
    <3>1. d[u0] = n0
      BY <1>4, <2>6, <2>7
    <3>2. DOMAIN e = DOMAIN d /\ \A u \in DOMAIN d : e[u] = d[u]
      BY <2>5, <2>7, <3>1
    <3>3. metadata_record(t, v, all, requested) = [topic_names |-> e, topic_partitions |-> q]
      BY <1>3, <2>1, <2>2, <2>3, <2>6, <2>7 DEF metadata_record
    <3>4. DOMAIN q = DOMAIN e /\ \A u \in DOMAIN e : q[u] = C[u][e[u]]
      BY <1>3, <2>6, <3>2
    <3>5. QED
      BY <1>3, <1>6, <2>4, <3>3, <3>4
  <2>8. CASE u0 \notin DOMAIN d
    <3>1. PICK r : r = put(q, u0, {})
      OBVIOUS
    <3>2. r \in Dict(SUBSET Ids) /\ DOMAIN r = DOMAIN q \cup {u0} /\ r[u0] = {}
          /\ \A k \in DOMAIN q : k # u0 => r[k] = q[k]
      <4>1. PICK X : X = SUBSET Ids
        OBVIOUS
      <4>2. PICK x \in X : x = {}
        BY <4>1
      <4>3. q \in Dict(X)
        BY <1>3, <4>1
      <4>4. put(q, u0, x) \in Dict(X) /\ PutAt(put(q, u0, x), q, u0, x)
        BY <4>3, putIs
      <4>5. QED
        BY <3>1, <4>1, <4>2, <4>4 DEF PutAt
    <3>3. metadata_record(t, v, all, requested) = [topic_names |-> e, topic_partitions |-> r]
      BY <1>3, <2>1, <2>2, <2>3, <2>6, <2>8, <3>1 DEF metadata_record
    <3>4. B[u0][n0] = {}
      <4>1. n0 \notin N[u0]
        BY <1>3, <1>7, <2>2, <2>8 DEF DictIs
      <4>2. QED
        BY <4>1 DEF Relations
    <3>5. DOMAIN r = DOMAIN e
      BY <1>3, <2>5, <3>2
    <3>6. ASSUME NEW u \in DOMAIN e
          PROVE  r[u] = C[u][e[u]]
      <4>1. CASE u = u0
        BY <2>5, <2>6, <3>2, <3>4, <4>1
      <4>2. CASE u # u0
        BY <1>3, <2>5, <2>6, <3>2, <4>2
      <4>3. QED
        BY <4>1, <4>2
    <3>7. QED
      BY <1>6, <2>4, <3>2, <3>3, <3>5, <3>6
  <2>9. QED
    BY <2>7, <2>8
<1>8. CASE AddsTopic(v, N, B, M, C) /\ v.name \notin W
  <2>1. /\ v.type = "topic" /\ C = B /\ ~(all \/ v.name \in requested)
        /\ \A u \in Uuid : \A n \in Names : n \in M[u] <=> n \in N[u] \/ (u = v.uuid /\ n = v.name)
    BY <1>5, <1>8 DEF AddsTopic
  <2>2. DictIs(d, M, W)
    BY <1>3, <1>8, <2>1 DEF DictIs
  <2>3. metadata_record(t, v, all, requested) = [topic_names |-> d, topic_partitions |-> q]
    BY <1>3, <2>1 DEF metadata_record
  <2>4. QED
    BY <1>3, <1>6, <2>1, <2>2, <2>3
<1>9. CASE AddsPartition(v, N, B, M, C)
  <2>1. PICK u0 \in Uuid : u0 = v.uuid
    BY <1>9 DEF AddsPartition
  <2>2. PICK p0 \in Ids : p0 = v.id
    BY <1>9 DEF AddsPartition
  <2>3. v.type = "partition" /\ M = N
    BY <1>9 DEF AddsPartition
  <2>4. ASSUME NEW u \in DOMAIN d
        PROVE  C[u][d[u]] = IF u = u0 THEN q[u] \cup {p0} ELSE q[u]
    <3>1. PICK n \in Names : n = d[u] /\ n \in N[u]
      BY <1>4
    <3>2. u \in Uuid
      BY <1>4
    <3>3. C[u][n] = IF u = v.uuid /\ n \in N[u] THEN B[u][n] \cup {v.id} ELSE B[u][n]
      BY <1>9, <3>2, OneMore
    <3>4. QED
      BY <1>3, <2>1, <2>2, <3>1, <3>3
  <2>5. CASE u0 \in DOMAIN d
    <3>1. PICK r : r = [q EXCEPT ![u0] = @ \cup {p0}]
      OBVIOUS
    <3>2. DOMAIN r = DOMAIN q /\ \A u \in DOMAIN q : r[u] = IF u = u0 THEN q[u] \cup {p0} ELSE q[u]
      BY <3>1
    <3>3. r \in Dict(SUBSET Ids)
      <4>1. PICK X : X = SUBSET Ids
        OBVIOUS
      <4>2. \A u \in DOMAIN q : r[u] \in X
        BY <1>3, <1>4, <3>2, <4>1
      <4>3. r \in [DOMAIN r -> X] /\ DOMAIN r \subseteq Uuid
        BY <1>3, <1>4, <3>1, <3>2, <4>2
      <4>4. r \in Dict(X)
        BY <4>3, IsDict
      <4>5. QED
        BY <4>1, <4>4
    <3>4. metadata_record(t, v, all, requested) = [topic_names |-> d, topic_partitions |-> r]
      BY <1>3, <2>1, <2>2, <2>3, <2>5, <3>1 DEF metadata_record
    <3>5. DOMAIN r = DOMAIN d /\ \A u \in DOMAIN d : r[u] = C[u][d[u]]
      BY <1>3, <2>4, <3>2
    <3>6. QED
      BY <1>3, <1>6, <2>3, <3>3, <3>4, <3>5
  <2>6. CASE u0 \notin DOMAIN d
    <3>1. metadata_record(t, v, all, requested) = [topic_names |-> d, topic_partitions |-> q]
      BY <1>3, <2>1, <2>3, <2>6 DEF metadata_record
    <3>2. \A u \in DOMAIN d : q[u] = C[u][d[u]]
      BY <2>4, <2>6
    <3>3. QED
      BY <1>3, <1>6, <2>3, <3>1, <3>2
  <2>7. QED
    BY <2>5, <2>6
<1>10. CASE AddsNothing(v, N, B, M, C)
  <2>1. metadata_record(t, v, all, requested) = [topic_names |-> d, topic_partitions |-> q]
    BY <1>3, <1>10 DEF metadata_record, AddsNothing
  <2>2. M = N /\ C = B
    BY <1>10 DEF AddsNothing
  <2>3. QED
    BY <1>3, <1>6, <2>1, <2>2
<1>11. QED
  BY <1>7, <1>8, <1>9, <1>10 DEF Adds

LEMMA MetadataLoop ==
    ASSUME NEW recs \in Seq(Values), NEW all \in BOOLEAN, NEW requested \in SUBSET Names,
           OneName(Named(recs, Len(recs)))
    PROVE  /\ metadata_tables(recs, all, requested) \in MetadataTables
           /\ MetadataIs(metadata_tables(recs, all, requested), Named(recs, Len(recs)), Belong(recs, Len(recs)), Meant(all, requested))
<1> DEFINE body(f) == [i \in 0 .. Len(recs) |->
                         IF i = 0 THEN MetadataStart ELSE metadata_record(f[i - 1], recs[i], all, requested)]
<1> DEFINE upto == CHOOSE f : f = body(f)
<1> DEFINE Is(i, t) == t \in MetadataTables /\ MetadataIs(t, Named(recs, i), Belong(recs, i), Meant(all, requested))
<1>1. metadata_tables(recs, all, requested) = upto[Len(recs)]
  BY DEF metadata_tables
<1>2. PICK size \in Nat : size = Len(recs)
  BY LenProperties
<1>3. Is(0, MetadataStart)
  BY NoKeys, NoRecordsYet DEF MetadataStart, MetadataTables, MetadataIs, DictIs
<1>4. ASSUME NEW i \in 1 .. size, NEW t, Is(i - 1, t)
      PROVE  Is(i, metadata_record(t, recs[i], all, requested))
  <2>1. i - 1 \in 0 .. size /\ i \in 0 .. size
    OBVIOUS
  <2>2. Relations(Named(recs, i - 1), Belong(recs, i - 1)) /\ Relations(Named(recs, i), Belong(recs, i))
    BY <1>2, <2>1, RelationsUpTo
  <2>3. Adds(recs[i], Named(recs, i - 1), Belong(recs, i - 1), Named(recs, i), Belong(recs, i))
    BY <1>2, RecordAdds
  <2>4. QED
    BY <1>4, <2>2, <2>3, MetadataStep
<1> HIDE DEF Is
<1>5. \E f : f = body(f)
  <2>1. PICK any \in MetadataTables : TRUE
    BY <1>3 DEF Is
  <2> DEFINE step == [x \in MetadataTables \X Values |->
                        IF metadata_record(x[1], x[2], all, requested) \in MetadataTables
                        THEN metadata_record(x[1], x[2], all, requested) ELSE any]
  <2>2. step \in [MetadataTables \X Values -> MetadataTables]
    OBVIOUS
  <2>3. \A t \in MetadataTables : \A v \in Values :
          metadata_record(t, v, all, requested) \in MetadataTables => step[<<t, v>>] = metadata_record(t, v, all, requested)
    OBVIOUS
  <2> HIDE DEF step
  <2>4. PICK f \in [0 .. size -> MetadataTables] :
          /\ f[0] = MetadataStart
          /\ \A i \in 1 .. size : f[i] = step[<<f[i - 1], recs[i]>>]
    <3>1. PICK T : T = MetadataTables
      OBVIOUS
    <3>2. PICK start \in T : start = MetadataStart
      BY <1>3, <3>1 DEF Is
    <3>3. step \in [T \X Values -> T]
      BY <2>2, <3>1
    <3>4. PICK f : TakesSteps(f, T, start, step, recs)
      BY <3>3, LoopExists
    <3>5. QED
      BY <1>2, <3>1, <3>2, <3>4 DEF TakesSteps
  <2>5. ASSUME NEW i \in 1 .. size, Is(i - 1, f[i - 1])
        PROVE  f[i] = metadata_record(f[i - 1], recs[i], all, requested) /\ Is(i, f[i])
    <3>1. Is(i, metadata_record(f[i - 1], recs[i], all, requested))
      BY <1>4, <2>5
    <3>2. recs[i] \in Values
      BY <1>2, ElementOfSeq
    <3>3. QED
      BY <2>3, <2>4, <2>5, <3>1, <3>2 DEF Is
  <2> DEFINE Good == {i \in 0 .. size : Is(i, f[i])}
  <2>6. 0 \in Good
    BY <1>3, <2>4
  <2>7. \A i \in 1 .. size : i - 1 \in Good => i \in Good
    BY <2>5
  <2>8. \A i \in 0 .. size : Is(i, f[i])
    <3> HIDE DEF Good
    <3>1. \A i \in 0 .. size : i \in Good
      BY <2>6, <2>7, UpTo
    <3>2. QED
      BY <3>1 DEF Good
  <2>9. \A i \in 1 .. size : i - 1 \in 0 .. size
    OBVIOUS
  <2>10. \A i \in 1 .. size : f[i] = metadata_record(f[i - 1], recs[i], all, requested)
    BY <2>5, <2>8, <2>9
  <2>11. f = [i \in 0 .. size |-> IF i = 0 THEN MetadataStart ELSE metadata_record(f[i - 1], recs[i], all, requested)]
    BY <2>4, <2>10
  <2>12. QED
    BY <1>2, <2>11
<1>6. upto = body(upto)
  BY <1>5
<1> HIDE DEF upto
<1>7. /\ upto[0] = MetadataStart
      /\ \A i \in 1 .. size : upto[i] = metadata_record(upto[i - 1], recs[i], all, requested)
  BY <1>2, <1>6
<1> DEFINE Good == {i \in 0 .. size : Is(i, upto[i])}
<1>8. 0 \in Good
  BY <1>3, <1>7
<1>9. \A i \in 1 .. size : i - 1 \in Good => i \in Good
  BY <1>4, <1>7
<1>10. Is(size, upto[size])
  <2> HIDE DEF Good
  <2>1. \A i \in 0 .. size : i \in Good
    BY <1>8, <1>9, UpTo
  <2>2. QED
    BY <2>1 DEF Good
<1>11. Is(Len(recs), upto[Len(recs)])
  BY <1>2, <1>10
<1>12. QED
  BY <1>1, <1>11 DEF Is
-----------------------------------------------------------------------------
(* Describe. *)

Described == [name : Names, partitions : SUBSET Ids]

DescribeIs(t, N, B, W) ==
    /\ \A u \in Uuid : \A n \in Names :
         (u \in DOMAIN t /\ t[u].name = n) <=> n \in N[u] /\ n \in W
    /\ \A u \in DOMAIN t : t[u].partitions = B[u][t[u].name]

LEMMA DescribeStep ==
    ASSUME NEW N, NEW B, NEW M, NEW C, NEW v, Relations(N, B), Relations(M, C),
           Adds(v, N, B, M, C), NEW requested \in SUBSET Names,
           NEW t \in Dict(Described), DescribeIs(t, N, B, requested)
    PROVE  /\ describe_record(t, v, requested) \in Dict(Described)
           /\ DescribeIs(describe_record(t, v, requested), M, C, requested)
<1>1. PICK X : X = Described
  OBVIOUS
<1>2. /\ DOMAIN t \subseteq Uuid /\ t \in [DOMAIN t -> X]
      /\ \A u \in DOMAIN t : t[u] \in X
  <2>1. t \in Dict(X)
    BY <1>1
  <2>2. QED
    BY <2>1, DictType
<1>3. \A u \in DOMAIN t : /\ t[u].name \in Names /\ t[u].partitions \in SUBSET Ids
                         /\ t[u] = [name |-> t[u].name, partitions |-> t[u].partitions]
  BY <1>1, <1>2 DEF Described
<1>4. \A u \in DOMAIN t : t[u].name \in N[u] /\ t[u].name \in requested
  BY <1>2, <1>3 DEF DescribeIs
<1>5. \A u \in DOMAIN t : t[u].partitions = B[u][t[u].name]
  BY DEF DescribeIs
<1>6. CASE AddsTopic(v, N, B, M, C)
  <2>1. PICK u0 \in Uuid : u0 = v.uuid
    BY <1>6 DEF AddsTopic
  <2>2. PICK n0 \in Names : n0 = v.name
    BY <1>6 DEF AddsTopic
  <2>3. /\ v.type = "topic" /\ C = B
        /\ \A u \in Uuid : \A n \in Names : n \in M[u] <=> n \in N[u] \/ (u = u0 /\ n = n0)
    BY <1>6, <2>1, <2>2 DEF AddsTopic
  <2>4. \A u \in Uuid : N[u] \subseteq Names /\ \A n \in M[u] : \A m \in M[u] : n = m
    BY DEF Relations, OneName
  <2>5. CASE n0 \in requested /\ u0 \notin DOMAIN t
    <3>1. PICK new : new = [name |-> n0, partitions |-> {}]
      OBVIOUS
    <3>2. PICK e : e = put(t, u0, new)
      OBVIOUS
    <3>3. /\ e \in Dict(Described) /\ DOMAIN e = DOMAIN t \cup {u0} /\ e[u0] = new
          /\ \A k \in DOMAIN t : k # u0 => e[k] = t[k]
      <4>1. new \in X /\ t \in Dict(X)
        BY <1>1, <3>1 DEF Described
      <4>2. put(t, u0, new) \in Dict(X) /\ PutAt(put(t, u0, new), t, u0, new)
        BY <4>1, putIs
      <4>3. QED
        BY <1>1, <3>2, <4>2 DEF PutAt
    <3>4. describe_record(t, v, requested) = e
      BY <2>1, <2>2, <2>3, <2>5, <3>1, <3>2 DEF describe_record
    <3>5. ASSUME NEW u \in Uuid, NEW n \in Names
          PROVE  (u \in DOMAIN e /\ e[u].name = n) <=> n \in M[u] /\ n \in requested
      <4>1. (u \in DOMAIN t /\ t[u].name = n) <=> n \in N[u] /\ n \in requested
        BY DEF DescribeIs
      <4>2. CASE u = u0
        <5>1. u \in DOMAIN e /\ e[u].name = n0
          BY <3>1, <3>3, <4>2
        <5>2. n0 \in M[u]
          BY <2>3, <4>2
        <5>3. n \in M[u] <=> n = n0
          BY <2>4, <5>2
        <5>4. QED
          BY <2>5, <5>1, <5>3
      <4>3. CASE u # u0
        <5>1. (u \in DOMAIN e <=> u \in DOMAIN t) /\ (u \in DOMAIN t => e[u] = t[u])
          BY <3>3, <4>3
        <5>2. n \in M[u] <=> n \in N[u]
          BY <2>3, <4>3
        <5>3. QED
          BY <4>1, <5>1, <5>2
      <4>4. QED
        BY <4>2, <4>3
    <3>6. B[u0][n0] = {}
      <4>1. n0 \notin N[u0]
        BY <2>5 DEF DescribeIs
      <4>2. QED
        BY <4>1 DEF Relations
    <3>7. ASSUME NEW u \in DOMAIN e
          PROVE  e[u].partitions = C[u][e[u].name]
      <4>1. CASE u = u0
        <5>1. e[u] = new /\ new.name = n0 /\ new.partitions = {}
          BY <3>1, <3>3, <4>1
        <5>2. C[u][n0] = {}
          BY <2>3, <3>6, <4>1
        <5>3. QED
          BY <5>1, <5>2
      <4>2. CASE u # u0
        BY <1>5, <2>3, <3>3, <4>2
      <4>3. QED
        BY <4>1, <4>2
    <3>8. QED
      BY <3>3, <3>4, <3>5, <3>7 DEF DescribeIs
  <2>6. CASE ~(n0 \in requested /\ u0 \notin DOMAIN t)
    <3>1. describe_record(t, v, requested) = t
      BY <2>1, <2>2, <2>3, <2>6 DEF describe_record
    <3>2. ASSUME NEW u \in Uuid, NEW n \in Names, n \in requested
          PROVE  n \in M[u] <=> n \in N[u]
      <4>1. CASE u = u0 /\ n = n0
        <5>1. t[u0].name \in N[u0] /\ t[u0].name \in Names /\ u0 \in DOMAIN t
          BY <1>3, <1>4, <2>6, <3>2, <4>1
        <5>2. t[u0].name \in M[u0] /\ n0 \in M[u0]
          BY <2>3, <5>1
        <5>3. t[u0].name = n0
          BY <2>4, <5>2
        <5>4. QED
          BY <2>3, <4>1, <5>1, <5>3
      <4>2. CASE ~(u = u0 /\ n = n0)
        BY <2>3, <4>2
      <4>3. QED
        BY <4>1, <4>2
    <3>3. DescribeIs(t, M, C, requested)
      BY <2>3, <3>2 DEF DescribeIs
    <3>4. QED
      BY <3>1, <3>3
  <2>7. QED
    BY <2>5, <2>6
<1>7. CASE AddsPartition(v, N, B, M, C)
  <2>1. PICK u0 \in Uuid : u0 = v.uuid
    BY <1>7 DEF AddsPartition
  <2>2. PICK p0 \in Ids : p0 = v.id
    BY <1>7 DEF AddsPartition
  <2>3. v.type = "partition" /\ M = N
    BY <1>7 DEF AddsPartition
  <2>4. ASSUME NEW u \in DOMAIN t
        PROVE  C[u][t[u].name] = IF u = u0 THEN t[u].partitions \cup {p0} ELSE t[u].partitions
    <3>1. PICK n \in Names : n = t[u].name /\ n \in N[u]
      BY <1>3, <1>4
    <3>2. u \in Uuid
      BY <1>2
    <3>3. C[u][n] = IF u = v.uuid /\ n \in N[u] THEN B[u][n] \cup {v.id} ELSE B[u][n]
      BY <1>7, <3>2, OneMore
    <3>4. QED
      BY <1>5, <2>1, <2>2, <3>1, <3>3
  <2>5. CASE u0 \in DOMAIN t
    <3>1. PICK e : e = [t EXCEPT ![u0].partitions = @ \cup {p0}]
      OBVIOUS
    <3>2. PICK new : new = [name |-> t[u0].name, partitions |-> t[u0].partitions \cup {p0}]
      OBVIOUS
    <3>3. DOMAIN e = DOMAIN t /\ e[u0] = new /\ \A u \in DOMAIN t : u # u0 => e[u] = t[u]
      <4>1. [t[u0] EXCEPT !.partitions = @ \cup {p0}] = new
        <5>1. PICK old : old = t[u0] /\ old = [name |-> t[u0].name, partitions |-> t[u0].partitions]
          BY <1>3, <2>5
        <5>2. [old EXCEPT !.partitions = @ \cup {p0}] = new
          BY <3>2, <5>1
        <5>3. QED
          BY <5>1, <5>2
      <4>2. QED
        BY <2>5, <3>1, <4>1
    <3>4. e \in Dict(Described)
      <4>1. new \in X
        BY <1>1, <1>3, <2>5, <3>2 DEF Described
      <4>2. e \in [DOMAIN e -> X] /\ DOMAIN e \subseteq Uuid
        <5>1. e = [u \in DOMAIN t |-> e[u]]
          BY <3>1
        <5>2. \A u \in DOMAIN t : e[u] \in X
          BY <1>2, <3>3, <4>1
        <5>3. QED
          BY <1>2, <3>3, <5>1, <5>2
      <4>3. e \in Dict(X)
        BY <4>2, IsDict
      <4>4. QED
        BY <1>1, <4>3
    <3>5. describe_record(t, v, requested) = e
      BY <2>1, <2>2, <2>3, <2>5, <3>1 DEF describe_record
    <3>6. \A u \in DOMAIN t : e[u].name = t[u].name
      BY <3>2, <3>3
    <3>7. ASSUME NEW u \in DOMAIN e
          PROVE  e[u].partitions = C[u][e[u].name]
      <4>1. e[u].name = t[u].name /\ u \in DOMAIN t
        BY <3>3, <3>6
      <4>2. e[u].partitions = IF u = u0 THEN t[u].partitions \cup {p0} ELSE t[u].partitions
        BY <3>2, <3>3, <4>1
      <4>3. QED
        BY <2>4, <4>1, <4>2
    <3>8. \A u \in Uuid : \A n \in Names :
            (u \in DOMAIN e /\ e[u].name = n) <=> n \in M[u] /\ n \in requested
      BY <2>3, <3>3, <3>6 DEF DescribeIs
    <3>9. QED
      BY <3>4, <3>5, <3>7, <3>8 DEF DescribeIs
  <2>6. CASE u0 \notin DOMAIN t
    <3>1. describe_record(t, v, requested) = t
      BY <2>1, <2>3, <2>6 DEF describe_record
    <3>2. \A u \in DOMAIN t : t[u].partitions = C[u][t[u].name]
      BY <2>4, <2>6
    <3>3. QED
      BY <2>3, <3>1, <3>2 DEF DescribeIs
  <2>7. QED
    BY <2>5, <2>6
<1>8. CASE AddsNothing(v, N, B, M, C)
  <2>1. describe_record(t, v, requested) = t
    BY <1>8 DEF describe_record, AddsNothing
  <2>2. QED
    BY <1>8, <2>1 DEF AddsNothing
<1>9. QED
  BY <1>6, <1>7, <1>8 DEF Adds

LEMMA DescribeLoop ==
    ASSUME NEW recs \in Seq(Values), NEW requested \in SUBSET Names,
           OneName(Named(recs, Len(recs)))
    PROVE  /\ describe_topics(recs, requested) \in Dict(Described)
           /\ DescribeIs(describe_topics(recs, requested), Named(recs, Len(recs)), Belong(recs, Len(recs)), requested)
<1> DEFINE body(f) == [i \in 0 .. Len(recs) |->
                         IF i = 0 THEN <<>> ELSE describe_record(f[i - 1], recs[i], requested)]
<1> DEFINE upto == CHOOSE f : f = body(f)
<1> DEFINE Is(i, t) == t \in Dict(Described) /\ DescribeIs(t, Named(recs, i), Belong(recs, i), requested)
<1>1. describe_topics(recs, requested) = upto[Len(recs)]
  BY DEF describe_topics
<1>2. PICK size \in Nat : size = Len(recs)
  BY LenProperties
<1>3. Is(0, <<>>)
  BY NoKeys, NoRecordsYet DEF DescribeIs
<1>4. ASSUME NEW i \in 1 .. size, NEW t, Is(i - 1, t)
      PROVE  Is(i, describe_record(t, recs[i], requested))
  <2>1. i - 1 \in 0 .. size /\ i \in 0 .. size
    OBVIOUS
  <2>2. Relations(Named(recs, i - 1), Belong(recs, i - 1)) /\ Relations(Named(recs, i), Belong(recs, i))
    BY <1>2, <2>1, RelationsUpTo
  <2>3. Adds(recs[i], Named(recs, i - 1), Belong(recs, i - 1), Named(recs, i), Belong(recs, i))
    BY <1>2, RecordAdds
  <2>4. QED
    BY <1>4, <2>2, <2>3, DescribeStep
<1> HIDE DEF Is
<1>5. \E f : f = body(f)
  <2>1. PICK any \in Dict(Described) : TRUE
    BY <1>3 DEF Is
  <2> DEFINE step == [x \in Dict(Described) \X Values |->
                        IF describe_record(x[1], x[2], requested) \in Dict(Described)
                        THEN describe_record(x[1], x[2], requested) ELSE any]
  <2>2. step \in [Dict(Described) \X Values -> Dict(Described)]
    OBVIOUS
  <2>3. \A t \in Dict(Described) : \A v \in Values :
          describe_record(t, v, requested) \in Dict(Described) => step[<<t, v>>] = describe_record(t, v, requested)
    OBVIOUS
  <2> HIDE DEF step
  <2>4. PICK f \in [0 .. size -> Dict(Described)] :
          /\ f[0] = <<>>
          /\ \A i \in 1 .. size : f[i] = step[<<f[i - 1], recs[i]>>]
    <3>1. PICK T : T = Dict(Described)
      OBVIOUS
    <3>2. PICK start \in T : start = <<>>
      BY <1>3, <3>1 DEF Is
    <3>3. step \in [T \X Values -> T]
      BY <2>2, <3>1
    <3>4. PICK f : TakesSteps(f, T, start, step, recs)
      BY <3>3, LoopExists
    <3>5. QED
      BY <1>2, <3>1, <3>2, <3>4 DEF TakesSteps
  <2>5. ASSUME NEW i \in 1 .. size, Is(i - 1, f[i - 1])
        PROVE  f[i] = describe_record(f[i - 1], recs[i], requested) /\ Is(i, f[i])
    <3>1. Is(i, describe_record(f[i - 1], recs[i], requested))
      BY <1>4, <2>5
    <3>2. recs[i] \in Values
      BY <1>2, ElementOfSeq
    <3>3. QED
      BY <2>3, <2>4, <2>5, <3>1, <3>2 DEF Is
  <2> DEFINE Good == {i \in 0 .. size : Is(i, f[i])}
  <2>6. 0 \in Good
    BY <1>3, <2>4
  <2>7. \A i \in 1 .. size : i - 1 \in Good => i \in Good
    BY <2>5
  <2>8. \A i \in 0 .. size : Is(i, f[i])
    <3> HIDE DEF Good
    <3>1. \A i \in 0 .. size : i \in Good
      BY <2>6, <2>7, UpTo
    <3>2. QED
      BY <3>1 DEF Good
  <2>9. \A i \in 1 .. size : i - 1 \in 0 .. size
    OBVIOUS
  <2>10. \A i \in 1 .. size : f[i] = describe_record(f[i - 1], recs[i], requested)
    BY <2>5, <2>8, <2>9
  <2>11. f = [i \in 0 .. size |-> IF i = 0 THEN <<>> ELSE describe_record(f[i - 1], recs[i], requested)]
    BY <2>4, <2>10
  <2>12. QED
    BY <1>2, <2>11
<1>6. upto = body(upto)
  BY <1>5
<1> HIDE DEF upto
<1>7. /\ upto[0] = <<>>
      /\ \A i \in 1 .. size : upto[i] = describe_record(upto[i - 1], recs[i], requested)
  BY <1>2, <1>6
<1> DEFINE Good == {i \in 0 .. size : Is(i, upto[i])}
<1>8. 0 \in Good
  BY <1>3, <1>7
<1>9. \A i \in 1 .. size : i - 1 \in Good => i \in Good
  BY <1>4, <1>7
<1>10. Is(size, upto[size])
  <2> HIDE DEF Good
  <2>1. \A i \in 0 .. size : i \in Good
    BY <1>8, <1>9, UpTo
  <2>2. QED
    BY <2>1 DEF Good
<1>11. Is(Len(recs), upto[Len(recs)])
  BY <1>2, <1>10
<1>12. QED
  BY <1>1, <1>11 DEF Is

-----------------------------------------------------------------------------
(* What the handlers answer. *)

\* The uuids known have one name each, so the loops over what was loaded do
\* what their lemmas say.
LEMMA LoadedOneName ==
    ASSUME TypeOK, IdsInv
    PROVE  loaded \in Seq(Values) /\ OneName(Named(loaded, Len(loaded)))
<1>1. loaded \in Seq(Values) /\ DOMAIN loaded = 1 .. Len(loaded)
  BY LenProperties DEF TypeOK
<1>2. ASSUME NEW u \in Uuid, NEW n \in Named(loaded, Len(loaded))[u]
      PROVE  n \in Names /\ Known(u, n)
  BY <1>1, <1>2 DEF Named, Known
<1>3. QED
  BY <1>1, <1>2 DEF IdsInv, OneName

\* In the end each name of a uuid is that of a topic record, and the other way.
LEMMA NamedIs ==
    ASSUME NEW recs \in Seq(Values), NEW u \in Uuid, NEW n
    PROVE  n \in Named(recs, Len(recs))[u] <=>
             n \in Names /\ \E i \in DOMAIN recs : recs[i] = Topic(n, u)
<1>1. DOMAIN recs = 1 .. Len(recs)
  BY LenProperties
<1>2. QED
  BY <1>1 DEF Named

LEMMA AcceptedIs ==
    ASSUME NEW recs \in Seq(Values), OneName(Named(recs, Len(recs)))
    PROVE  /\ Accepted(recs) \subseteq Names \X Ids
           /\ PairsAre(Accepted(recs), Belong(recs, Len(recs)))
<1>1. PICK t \in ProduceTables : t = produce_tables(recs)
  BY ProduceLoop
<1>2. PICK N : N = Named(recs, Len(recs))
  OBVIOUS
<1>3. PICK B : B = Belong(recs, Len(recs))
  OBVIOUS
<1>4. PICK d : d = t.topic_uuid_to_name
  OBVIOUS
<1>5. /\ DictIs(d, N, Names) /\ PairsAre(t.valid_partitions, B)
      /\ t.valid_partitions \subseteq Names \X Ids
  BY <1>1, <1>2, <1>3, <1>4, ProduceLoop DEF ProduceIs, ProduceTables
<1>6. \A u \in Uuid : \A n \in Names : \A p \in B[u][n] : n \in N[u]
  <2>1. Len(recs) \in 0 .. Len(recs)
    BY LenProperties
  <2>2. Relations(N, B)
    BY <1>2, <1>3, <2>1, RelationsUpTo
  <2>3. QED
    BY <2>2 DEF Relations
<1>7. Accepted(recs) = {p \in t.valid_partitions : p[1] \in {d[u] : u \in DOMAIN d}}
  BY <1>1, <1>4 DEF Accepted
<1>8. ASSUME NEW p \in t.valid_partitions
      PROVE  p[1] \in {d[u] : u \in DOMAIN d}
  <2>1. PICK n \in Names, id \in Ids : p = <<n, id>>
    BY <1>5
  <2>2. PICK u \in Uuid : id \in B[u][n]
    BY <1>5, <2>1 DEF PairsAre
  <2>3. u \in DOMAIN d /\ d[u] = n
    BY <1>5, <1>6, <2>2 DEF DictIs
  <2>4. QED
    BY <2>1, <2>3
<1>9. Accepted(recs) = t.valid_partitions
  BY <1>7, <1>8
<1>10. QED
  BY <1>3, <1>5, <1>9

\* The entries of an answer about the topics in W: one for each uuid of such
\* a topic, and errors only for names that no uuid has.
EntriesAre(E, N, B, W) ==
    /\ \A e \in E :
         \/ e.error = 0 /\ \E u \in Uuid : e.name \in N[u] /\ e.name \in W /\ e.partitions = B[u][e.name]
         \/ e.error = 3 /\ e.name \in W /\ e.partitions = {} /\ \A u \in Uuid : e.name \notin N[u]
    /\ \A u \in Uuid : \A n \in W : n \in N[u] =>
         \E e \in E : e.error = 0 /\ e.name = n /\ e.partitions = B[u][n]

\* No name asked for is left out.
EntriesFor(E, W) == \A n \in W : \E e \in E : e.name = n

Listed(E) == UNION {{<<e.name, p>> : p \in e.partitions} : e \in E}
Errors(E) == {<<e.name, e.error>> : e \in E}

LEMMA ListedIs ==
    ASSUME NEW N, NEW B, Relations(N, B), NEW W \in SUBSET Names, NEW E, EntriesAre(E, N, B, W),
           NEW pairs, pairs \subseteq Names \X Ids, PairsAre(pairs, B)
    PROVE  Listed(E) = {x \in pairs : x[1] \in W}
<1>1. /\ N \in [Uuid -> SUBSET Names] /\ B \in [Uuid -> [Names -> SUBSET Ids]]
      /\ \A u \in Uuid : \A n \in Names : \A p \in B[u][n] : n \in N[u]
  BY DEF Relations
<1>2. ASSUME NEW x \in Listed(E)
      PROVE  x \in pairs /\ x[1] \in W
  <2>1. PICK e \in E : \E p \in e.partitions : x = <<e.name, p>>
    BY <1>2 DEF Listed
  <2>2. PICK p \in e.partitions : x = <<e.name, p>>
    BY <2>1
  <2>3. PICK u \in Uuid : e.name \in N[u] /\ e.name \in W /\ e.partitions = B[u][e.name]
    BY <2>2 DEF EntriesAre
  <2>4. PICK n \in Names : n = e.name /\ n \in W
    BY <2>3
  <2>5. p \in B[u][n] /\ p \in Ids
    BY <1>1, <2>2, <2>3, <2>4
  <2>6. QED
    BY <2>2, <2>4, <2>5 DEF PairsAre
<1>3. ASSUME NEW x \in pairs, x[1] \in W
      PROVE  x \in Listed(E)
  <2>1. PICK n \in Names, p \in Ids : x = <<n, p>>
    OBVIOUS
  <2>2. PICK u \in Uuid : p \in B[u][n]
    BY <2>1 DEF PairsAre
  <2>3. n \in N[u] /\ n \in W
    BY <1>1, <1>3, <2>1, <2>2
  <2>4. PICK e \in E : e.error = 0 /\ e.name = n /\ e.partitions = B[u][n]
    BY <2>3 DEF EntriesAre
  <2>5. x \in {<<e.name, q>> : q \in e.partitions}
    BY <2>1, <2>2, <2>4
  <2>6. QED
    BY <2>5 DEF Listed
<1>4. QED
  BY <1>2, <1>3

LEMMA ErrorsAgree ==
    ASSUME NEW N, NEW B, NEW W, NEW E, NEW F, EntriesAre(E, N, B, W), EntriesAre(F, N, B, W),
           EntriesFor(E, W), EntriesFor(F, W)
    PROVE  Errors(E) \subseteq Errors(F)
<1>1. SUFFICES ASSUME NEW e \in E
               PROVE  \E f \in F : f.name = e.name /\ f.error = e.error
  BY DEF Errors
<1>2. CASE e.error = 0
  <2>1. PICK u \in Uuid : e.name \in N[u] /\ e.name \in W
    BY <1>2 DEF EntriesAre
  <2>2. PICK f \in F : f.error = 0 /\ f.name = e.name
    BY <2>1 DEF EntriesAre
  <2>3. QED
    BY <1>2, <2>2
<1>3. CASE e.error # 0
  <2>1. e.error = 3 /\ e.name \in W /\ \A u \in Uuid : e.name \notin N[u]
    BY <1>3 DEF EntriesAre
  <2>2. PICK f \in F : f.name = e.name
    BY <2>1 DEF EntriesFor
  <2>3. f.error = 3
    BY <2>1, <2>2 DEF EntriesAre
  <2>4. QED
    BY <2>1, <2>2, <2>3
<1>4. QED
  BY <1>2, <1>3

LEMMA MetadataAnswers ==
    ASSUME NEW recs \in Seq(Values), OneName(Named(recs, Len(recs))),
           NEW all \in BOOLEAN, NEW requested \in SUBSET Names
    PROVE  /\ EntriesAre(metadata(recs, all, requested), Named(recs, Len(recs)),
                         Belong(recs, Len(recs)), Meant(all, requested))
           /\ ~all => EntriesFor(metadata(recs, all, requested), requested)
<1>1. PICK t \in MetadataTables : t = metadata_tables(recs, all, requested)
  BY MetadataLoop
<1>2. PICK N : N = Named(recs, Len(recs))
  OBVIOUS
<1>3. PICK B : B = Belong(recs, Len(recs))
  OBVIOUS
<1>4. PICK W \in SUBSET Names : W = Meant(all, requested)
  BY DEF Meant
<1>5. PICK d \in Dict(Names) : d = t.topic_names
  BY DEF MetadataTables
<1>6. PICK q : q = t.topic_partitions
  OBVIOUS
<1>7. /\ DictIs(d, N, W) /\ \A u \in DOMAIN d : q[u] = B[u][d[u]]
      /\ DOMAIN d \subseteq Uuid /\ \A u \in DOMAIN d : d[u] \in Names
  <2>1. MetadataIs(t, N, B, W)
    BY <1>1, <1>2, <1>3, <1>4, MetadataLoop
  <2>2. QED
    BY <1>5, <1>6, <2>1, DictType DEF MetadataIs
<1> DEFINE entry(u) == [error |-> 0, name |-> d[u], partitions |-> q[u]]
<1> DEFINE missing(n) == [error |-> 3, name |-> n, partitions |-> {}]
<1>8. PICK topics : topics = {entry(u) : u \in DOMAIN d}
  OBVIOUS
<1>9. PICK unknown : unknown = IF all THEN {} ELSE requested \ {topic.name : topic \in topics}
  OBVIOUS
<1>10. metadata(recs, all, requested) = topics \cup {missing(n) : n \in unknown}
  BY <1>1, <1>5, <1>6, <1>8, <1>9 DEF metadata
<1>11. \A n \in W : n \in {topic.name : topic \in topics} <=> \E u \in Uuid : n \in N[u]
  <2>1. \A u \in DOMAIN d : entry(u) \in topics /\ entry(u).name = d[u]
    BY <1>8
  <2>2. \A topic \in topics : \E u \in DOMAIN d : topic.name = d[u]
    BY <1>8
  <2> HIDE DEF entry
  <2>3. \A n : n \in {topic.name : topic \in topics} <=> \E u \in DOMAIN d : n = d[u]
    BY <2>1, <2>2
  <2>4. \A n \in W : (\E u \in DOMAIN d : n = d[u]) <=> \E u \in Uuid : n \in N[u]
    BY <1>7 DEF DictIs
  <2>5. QED
    BY <2>3, <2>4
<1>12. ASSUME NEW u \in DOMAIN d
       PROVE  /\ entry(u) \in topics
              /\ entry(u).error = 0 /\ entry(u).name \in W
              /\ u \in Uuid /\ entry(u).name \in N[u] /\ entry(u).partitions = B[u][entry(u).name]
  BY <1>7, <1>8 DEF DictIs
<1>13. ASSUME NEW n \in unknown
       PROVE  n \in W /\ (\A u \in Uuid : n \notin N[u])
  <2>1. ~all /\ n \in requested /\ n \notin {topic.name : topic \in topics}
    BY <1>9, <1>13
  <2>2. n \in W
    BY <1>4, <2>1 DEF Meant
  <2>3. QED
    BY <1>11, <2>1, <2>2
<1>14. PICK E : E = metadata(recs, all, requested)
  OBVIOUS
<1>15. ASSUME NEW e \in E
       PROVE  \/ e.error = 0 /\ \E u \in Uuid : e.name \in N[u] /\ e.name \in W /\ e.partitions = B[u][e.name]
              \/ e.error = 3 /\ e.name \in W /\ e.partitions = {} /\ \A u \in Uuid : e.name \notin N[u]
  <2>1. CASE e \in topics
    BY <1>8, <1>12, <2>1
  <2>2. CASE e \notin topics
    <3>1. PICK n \in unknown : e = missing(n)
      BY <1>10, <1>14, <2>2
    <3>2. QED
      BY <1>13, <3>1
  <2>3. QED
    BY <2>1, <2>2
<1>16. ASSUME NEW u \in Uuid, NEW n \in W, n \in N[u]
       PROVE  \E e \in E : e.error = 0 /\ e.name = n /\ e.partitions = B[u][n]
  <2>1. u \in DOMAIN d /\ d[u] = n
    BY <1>7, <1>16 DEF DictIs
  <2>2. entry(u) \in E /\ entry(u).error = 0 /\ entry(u).name = n /\ entry(u).partitions = B[u][n]
    BY <1>10, <1>12, <1>14, <2>1
  <2>3. QED
    BY <2>2
<1>17. EntriesAre(E, N, B, W)
  BY <1>15, <1>16 DEF EntriesAre
<1>18. ASSUME ~all, NEW n \in requested
       PROVE  \E e \in E : e.name = n
  <2>1. CASE n \in unknown
    <3>1. missing(n) \in E /\ missing(n).name = n
      BY <1>10, <1>14, <2>1
    <3>2. QED
      BY <3>1
  <2>2. CASE n \notin unknown
    <3>1. PICK topic \in topics : topic.name = n
      BY <1>9, <1>18, <2>2
    <3>2. QED
      BY <1>10, <1>14, <3>1
  <2>3. QED
    BY <2>1, <2>2
<1>19. QED
  BY <1>2, <1>3, <1>4, <1>14, <1>17, <1>18 DEF EntriesFor

LEMMA DescribeAnswers ==
    ASSUME NEW recs \in Seq(Values), OneName(Named(recs, Len(recs))), NEW requested \in SUBSET Names
    PROVE  /\ EntriesAre(describe(recs, requested), Named(recs, Len(recs)),
                         Belong(recs, Len(recs)), requested)
           /\ EntriesFor(describe(recs, requested), requested)
           /\ \A e \in describe(recs, requested) : e.error = 0 =>
                e.topic_id \in Uuid /\ e.name \in Named(recs, Len(recs))[e.topic_id]
<1>1. PICK t \in Dict(Described) : t = describe_topics(recs, requested)
  BY DescribeLoop
<1>2. PICK N : N = Named(recs, Len(recs))
  OBVIOUS
<1>3. PICK B : B = Belong(recs, Len(recs))
  OBVIOUS
<1>4. /\ DOMAIN t \subseteq Uuid /\ \A u \in DOMAIN t : t[u].name \in Names
      /\ \A u \in Uuid : \A n \in Names :
           (u \in DOMAIN t /\ t[u].name = n) <=> n \in N[u] /\ n \in requested
      /\ \A u \in DOMAIN t : t[u].partitions = B[u][t[u].name]
  <2>1. DescribeIs(t, N, B, requested)
    BY <1>1, <1>2, <1>3, DescribeLoop
  <2>2. DOMAIN t \subseteq Uuid /\ \A u \in DOMAIN t : t[u] \in Described
    <3>1. PICK X : X = Described
      OBVIOUS
    <3>2. t \in Dict(X)
      BY <3>1
    <3>3. DOMAIN t \subseteq Uuid /\ \A u \in DOMAIN t : t[u] \in X
      BY <3>2, DictType
    <3>4. QED
      BY <3>1, <3>3
  <2>3. QED
    BY <2>1, <2>2 DEF DescribeIs, Described
<1> DEFINE entry(u) == [error |-> 0, name |-> t[u].name, topic_id |-> u,
                        partitions |-> t[u].partitions]
<1> DEFINE missing(n) == [error |-> 3, name |-> n, topic_id |-> NO_UUID, partitions |-> {}]
<1>5. PICK unknown : unknown = requested \ {t[u].name : u \in DOMAIN t}
  OBVIOUS
<1>6. describe(recs, requested) = {entry(u) : u \in DOMAIN t} \cup {missing(n) : n \in unknown}
  BY <1>1, <1>5 DEF describe
<1>7. PICK E : E = describe(recs, requested)
  OBVIOUS
<1>8. ASSUME NEW u \in DOMAIN t
      PROVE  /\ entry(u) \in E
             /\ entry(u).error = 0 /\ entry(u).name \in requested /\ entry(u).topic_id = u
             /\ u \in Uuid /\ entry(u).name \in N[u] /\ entry(u).partitions = B[u][entry(u).name]
  BY <1>4, <1>6, <1>7
<1>9. ASSUME NEW n \in unknown
      PROVE  n \in requested /\ (\A u \in Uuid : n \notin N[u]) /\ missing(n) \in E
  BY <1>4, <1>5, <1>6, <1>7
<1>10. ASSUME NEW e \in E
       PROVE  \/ /\ e.error = 0 /\ e.topic_id \in Uuid /\ e.name \in N[e.topic_id]
                 /\ \E u \in Uuid : e.name \in N[u] /\ e.name \in requested /\ e.partitions = B[u][e.name]
              \/ /\ e.error = 3 /\ e.name \in requested /\ e.partitions = {}
                 /\ \A u \in Uuid : e.name \notin N[u]
  <2>1. ASSUME NEW u \in DOMAIN t, e = entry(u)
        PROVE  /\ e.error = 0 /\ e.topic_id \in Uuid /\ e.name \in N[e.topic_id]
               /\ \E w \in Uuid : e.name \in N[w] /\ e.name \in requested /\ e.partitions = B[w][e.name]
    BY <1>8, <2>1
  <2>2. ASSUME NEW n \in unknown, e = missing(n)
        PROVE  /\ e.error = 3 /\ e.name \in requested /\ e.partitions = {}
               /\ \A u \in Uuid : e.name \notin N[u]
    BY <1>9, <2>2
  <2>3. (\E u \in DOMAIN t : e = entry(u)) \/ \E n \in unknown : e = missing(n)
    BY <1>6, <1>7
  <2>4. QED
    BY <2>1, <2>2, <2>3
<1>11. ASSUME NEW u \in Uuid, NEW n \in requested, n \in N[u]
       PROVE  \E e \in E : e.error = 0 /\ e.name = n /\ e.partitions = B[u][n]
  <2>1. u \in DOMAIN t /\ t[u].name = n
    BY <1>4, <1>11
  <2>2. entry(u) \in E /\ entry(u).error = 0 /\ entry(u).name = n /\ entry(u).partitions = B[u][n]
    BY <1>8, <2>1
  <2>3. QED
    BY <2>2
<1>12. EntriesAre(E, N, B, requested)
  BY <1>10, <1>11 DEF EntriesAre
<1>13. ASSUME NEW n \in requested
       PROVE  \E e \in E : e.name = n
  <2>1. CASE n \in unknown
    <3>1. missing(n) \in E /\ missing(n).name = n
      BY <1>9, <2>1
    <3>2. QED
      BY <3>1
  <2>2. CASE n \notin unknown
    <3>1. PICK u \in DOMAIN t : t[u].name = n
      BY <1>5, <2>2
    <3>2. entry(u) \in E /\ entry(u).name = n
      BY <1>8, <3>1
    <3>3. QED
      BY <3>2
  <2>3. QED
    BY <2>1, <2>2
<1>14. \A e \in E : e.error = 0 => e.topic_id \in Uuid /\ e.name \in N[e.topic_id]
  <2>1. 0 # 3
    OBVIOUS
  <2>2. QED
    BY <1>10, <2>1
<1>15. QED
  BY <1>2, <1>3, <1>7, <1>12, <1>13, <1>14 DEF EntriesFor

-----------------------------------------------------------------------------
(* Types and uuids. *)

\* What a client learns.
LEMMA DescribeTells ==
    ASSUME TypeOK, IdsInv, NEW requested \in SUBSET Names, Describe(requested), NEW t \in promised'
    PROVE  \/ t \in promised
           \/ \E uuid \in Uuid : \E name \in Names :
                /\ t = <<uuid, name>>
                /\ \E i \in DOMAIN loaded : loaded[i] = Topic(name, uuid)
<1>1. CASE t \notin promised
  <2>1. PICK e \in describe(loaded, requested) : e.error = 0 /\ t = <<e.topic_id, e.name>>
    BY <1>1 DEF Describe
  <2>2. loaded \in Seq(Values) /\ OneName(Named(loaded, Len(loaded)))
    BY LoadedOneName
  <2>3. e.topic_id \in Uuid /\ e.name \in Named(loaded, Len(loaded))[e.topic_id]
    BY <2>1, <2>2, DescribeAnswers
  <2>4. QED
    BY <2>1, <2>2, <2>3, NamedIs
<1>2. QED
  BY <1>1

LEMMA TypeStep ==
    ASSUME IInv, [Next]_vars
    PROVE  TypeOK'
<1>0. TypeOK /\ IdsInv
  BY DEF IInv
<1> USE DEF TypeOK
<1>1. ASSUME NEW wanted \in Wanted, generate(wanted)
      PROVE  TypeOK'
  <2>1. uuids' \in uuids .. MaxUuids /\ file' = <<>>
    BY <1>0, <1>1, generateWrites
  <2>2. uuids' \in 0 .. MaxUuids /\ file' \in Seq(Item)
    BY <1>0, <2>1, EmptySeq
  <2>3. pending' \in Seq(Item) /\ UNCHANGED <<up, loaded, promised>>
    BY <1>0, <1>1, generateWrites DEF Run
  <2>4. QED
    BY <1>0, <2>2, <2>3
<1>2. ASSUME NEW wanted \in Wanted, append_topics(wanted)
      PROVE  TypeOK'
  <2>1. uuids' \in uuids .. MaxUuids /\ UNCHANGED <<file, up, loaded, promised>>
    BY <1>0, <1>2, append_topicsWrites
  <2>2. uuids' \in 0 .. MaxUuids
    BY <1>0, <2>1
  <2>3. pending' \in Seq(Item)
    BY <1>0, <1>2, append_topicsWrites DEF Run
  <2>4. QED
    BY <1>0, <2>1, <2>2, <2>3
<1>3. CASE Write
  BY <1>0, <1>3, WriteWrites
<1>4. CASE ToolDies
  BY <1>0, <1>4, EmptySeq DEF ToolDies
<1>5. CASE Start
  <2>1. PICK found : loaded' = Read(file, found)
    BY <1>5 DEF Start
  <2>2. loaded' \in Seq(Values)
    BY <1>0, <2>1, ReadValues
  <2>3. QED
    BY <1>0, <1>5, <2>2 DEF Start
<1>6. CASE Stop
  BY <1>0, <1>6, EmptySeq DEF Stop
<1>7. ASSUME NEW requested \in SUBSET Names, Describe(requested)
      PROVE  TypeOK'
  <2>1. \A t \in promised' : t \in Uuid \X Names
    BY <1>0, <1>7, DescribeTells
  <2>2. QED
    BY <1>0, <1>7, <2>1 DEF Describe
<1>8. CASE UNCHANGED vars
  BY <1>0, <1>8 DEF vars
<1>9. QED
  BY <1>1, <1>2, <1>3, <1>4, <1>5, <1>6, <1>7, <1>8 DEF Next

\* Steps other than a run of the tool make no uuid known with a new name.
LEMMA KnownBefore ==
    ASSUME TypeOK, IdsInv, NEW uuid \in Uuid, NEW name \in Names, Known(uuid, name)',
           \/ Write \/ ToolDies \/ Start \/ Stop \/ UNCHANGED vars
           \/ \E requested \in SUBSET Names : Describe(requested)
    PROVE  Known(uuid, name)
<1>1. CASE Write
  <2>1. Registers(file, uuid, name)' => Registers(file, uuid, name) \/ Registers(pending, uuid, name)
    <3>1. SUFFICES ASSUME NEW i \in DOMAIN file', file'[i].value = Topic(name, uuid)
                   PROVE  Registers(file, uuid, name) \/ Registers(pending, uuid, name)
      BY DEF Registers
    <3>2. CASE i \in 1 .. Len(file)
      BY <1>1, <3>1, <3>2, WriteWrites DEF Registers
    <3>3. CASE i = Len(file) + 1
      <4>1. file'[i] = pending[1] /\ 1 \in DOMAIN pending
        BY <1>1, <3>3, WriteWrites
      <4>2. QED
        BY <3>1, <4>1 DEF Registers
    <3>4. QED
      BY <1>1, <3>1, <3>2, <3>3, WriteWrites
  <2>2. Registers(pending, uuid, name)' => Registers(pending, uuid, name)
    <3>1. SUFFICES ASSUME NEW i \in DOMAIN pending', pending'[i].value = Topic(name, uuid)
                   PROVE  Registers(pending, uuid, name)
      BY DEF Registers
    <3>2. i + 1 \in DOMAIN pending /\ pending'[i] = pending[i + 1]
      BY <1>1, <3>1, WriteWrites
    <3>3. QED
      BY <3>1, <3>2 DEF Registers
  <2>3. UNCHANGED <<loaded, promised>>
    BY <1>1 DEF Write
  <2>4. QED
    BY <2>1, <2>2, <2>3 DEF Known
<1>2. CASE ToolDies
  <2>1. DOMAIN pending' = {} /\ UNCHANGED <<file, loaded, promised>>
    BY <1>2 DEF ToolDies
  <2>2. QED
    BY <2>1 DEF Known, Registers
<1>3. CASE Start
  <2>1. PICK found : loaded' = Read(file, found) /\ UNCHANGED <<file, pending, promised>>
    BY <1>3 DEF Start
  <2>2. DOMAIN loaded' = DOMAIN file /\ \A i \in DOMAIN file : loaded'[i] \in {NoValue, file[i].value}
    BY <2>1, ReadValues DEF TypeOK
  <2>3. NoValue # Topic(name, uuid)
    BY DEF NoValue, Topic
  <2>4. QED
    BY <2>1, <2>2, <2>3 DEF Known, Registers
<1>4. CASE Stop
  <2>1. DOMAIN loaded' = {} /\ UNCHANGED <<file, pending, promised>>
    BY <1>4 DEF Stop
  <2>2. QED
    BY <2>1 DEF Known, Registers
<1>5. ASSUME NEW requested \in SUBSET Names, Describe(requested)
      PROVE  Known(uuid, name)
  <2>1. UNCHANGED <<file, pending, loaded>>
    BY <1>5 DEF Describe
  <2>2. <<uuid, name>> \in promised' =>
          \/ <<uuid, name>> \in promised
          \/ \E i \in DOMAIN loaded : loaded[i] = Topic(name, uuid)
    <3>1. SUFFICES ASSUME NEW t \in promised', t = <<uuid, name>>, t \notin promised
                   PROVE  \E i \in DOMAIN loaded : loaded[i] = Topic(name, uuid)
      OBVIOUS
    <3>2. PICK u \in Uuid, n \in Names :
            t = <<u, n>> /\ \E i \in DOMAIN loaded : loaded[i] = Topic(n, u)
      BY <1>5, <3>1, DescribeTells
    <3>3. QED
      BY <3>1, <3>2
  <2>3. QED
    BY <2>1, <2>2 DEF Known, Registers
<1>6. CASE UNCHANGED vars
  BY <1>6 DEF vars, Known, Registers
<1>7. QED
  BY <1>1, <1>2, <1>3, <1>4, <1>5, <1>6

\* A run of the tool draws new ones.
LEMMA KnownByTool ==
    ASSUME TypeOK, NEW wanted \in Wanted, generate(wanted) \/ append_topics(wanted),
           NEW uuid \in Uuid, NEW name \in Names, Known(uuid, name)'
    PROVE  \/ Known(uuid, name)
           \/ uuid \in uuids + 1 .. uuids' /\ name = wanted[uuid - uuids][1]
<1>1. CASE generate(wanted)
  <2>1. DOMAIN file' = {} /\ UNCHANGED <<loaded, promised>> /\ uuids' = uuids + Len(wanted)
    BY <1>1, generateWrites
  <2>2. Registers(pending', uuid, name) =>
          uuid \in uuids + 1 .. uuids + Len(wanted) /\ name = wanted[uuid - uuids][1]
    BY <1>1, generateWrites
  <2>3. QED
    BY <2>1, <2>2 DEF Known, Registers
<1>2. CASE append_topics(wanted)
  <2>1. UNCHANGED <<file, loaded, promised>> /\ uuids' = uuids + Len(wanted)
    BY <1>2, append_topicsWrites
  <2>2. Registers(pending', uuid, name) =>
          uuid \in uuids + 1 .. uuids + Len(wanted) /\ name = wanted[uuid - uuids][1]
    BY <1>2, append_topicsWrites
  <2>3. QED
    BY <2>1, <2>2 DEF Known, Registers
<1>3. QED
  BY <1>1, <1>2

LEMMA IdsStep ==
    ASSUME IInv, [Next]_vars
    PROVE  IdsInv'
<1>1. TypeOK /\ IdsInv /\ uuids \in Nat
  BY ClusterMetadataAssumption DEF IInv, TypeOK
<1>2. ASSUME NEW wanted \in Wanted, generate(wanted) \/ append_topics(wanted)
      PROVE  IdsInv'
  <2>1. uuids' \in Nat /\ uuids <= uuids'
    <3>1. uuids' \in uuids .. MaxUuids /\ MaxUuids \in Nat
      BY <1>1, <1>2, generateWrites, append_topicsWrites, ClusterMetadataAssumption
    <3>2. QED
      BY <1>1, <3>1
  <2>2. ASSUME NEW uuid \in Uuid, NEW name \in Names, Known(uuid, name)',
               NEW other \in Names, Known(uuid, other)'
        PROVE  uuid <= uuids' /\ other = name
    <3>1. uuid \in Nat
      BY DEF Uuid
    <3>2. /\ \/ Known(uuid, name)
             \/ uuid \in uuids + 1 .. uuids' /\ name = wanted[uuid - uuids][1]
          /\ \/ Known(uuid, other)
             \/ uuid \in uuids + 1 .. uuids' /\ other = wanted[uuid - uuids][1]
      BY <1>1, <1>2, <2>2, KnownByTool
    <3>3. Known(uuid, name) \/ Known(uuid, other) => uuid <= uuids
      BY <1>1 DEF IdsInv
    <3>4. Known(uuid, name) /\ Known(uuid, other) => other = name
      BY <1>1 DEF IdsInv
    <3>5. uuid \in uuids + 1 .. uuids' => ~(uuid <= uuids) /\ uuid <= uuids'
      BY <1>1, <2>1, <3>1
    <3>6. CASE Known(uuid, name)
      BY <1>1, <2>1, <3>1, <3>2, <3>3, <3>4, <3>5, <3>6
    <3>7. CASE ~Known(uuid, name)
      BY <3>2, <3>3, <3>5, <3>7
    <3>8. QED
      BY <3>6, <3>7
  <2>3. QED
    BY <2>2 DEF IdsInv
<1>3. ASSUME \/ Write \/ ToolDies \/ Start \/ Stop \/ UNCHANGED vars
             \/ \E requested \in SUBSET Names : Describe(requested)
      PROVE  IdsInv'
  <2>1. \A uuid \in Uuid : \A name \in Names : Known(uuid, name)' => Known(uuid, name)
    BY <1>1, <1>3, KnownBefore
  <2>2. uuids' = uuids
    BY <1>3 DEF Write, ToolDies, Start, Stop, Describe, vars
  <2>3. QED
    BY <1>1, <2>1, <2>2 DEF IdsInv
<1>4. QED
  BY <1>2, <1>3 DEF Next

LEMMA Initially ==
    ASSUME Init
    PROVE  IInv
<1>1. DOMAIN file = {} /\ DOMAIN pending = {} /\ DOMAIN loaded = {} /\ pending = <<>>
  BY DEF Init
<1>2. TypeOK
  <2>1. <<>> \in Seq(Item) /\ <<>> \in Seq(Values)
    BY EmptySeq
  <2>2. 0 \in 0 .. MaxUuids
    BY ClusterMetadataAssumption
  <2>3. QED
    BY <2>1, <2>2 DEF Init, TypeOK
<1>3. OffsetsInv
  BY <1>1 DEF OffsetsInv, MetadataOffsetsFollow, Chained, Fits
<1>4. \A uuid, name : ~Known(uuid, name)
  BY <1>1 DEF Known, Registers, Init
<1>5. QED
  BY <1>2, <1>3, <1>4 DEF IInv, IdsInv

\* The inductive invariant: what is on disk and what is about to be fit
\* together, and each uuid goes with one name wherever it is remembered.
THEOREM Invariance == Spec => []IInv
<1>1. Init => IInv
  BY Initially
<1>2. ASSUME IInv, [Next]_vars
      PROVE  IInv'
  BY <1>2, TypeStep, OffsetsStep, IdsStep DEF IInv
<1>3. QED
  BY <1>1, <1>2, PTL DEF Spec

\* The file, what is left to be written and what a broker loads are headers
\* and records of the kinds the loaders know.
THEOREM TypeCorrect == Spec => []TypeOK
<1>1. IInv => TypeOK
  BY DEF IInv
<1>2. QED
  BY <1>1, Invariance, PTL

\* However often the tool is run, killed anywhere in a batch and run again, a
\* batch begins at the offset behind the one in front of it, torn or not, as
\* long as nothing in front of that one was cut short.
THEOREM OffsetsFollowOn == Spec => []MetadataOffsetsFollow
<1>1. IInv => MetadataOffsetsFollow
  BY DEF IInv, OffsetsInv
<1>2. QED
  BY <1>1, Invariance, PTL

\* Fetch finds by a uuid the name that it is known with.
LEMMA FetchFinds ==
    ASSUME IInv, NEW uuid \in DOMAIN existing_topics_by_uuid(loaded)
    PROVE  /\ uuid \in Uuid /\ existing_topics_by_uuid(loaded)[uuid] \in Names
           /\ existing_topics_by_uuid(loaded)[uuid] \in Named(loaded, Len(loaded))[uuid]
           /\ Known(uuid, existing_topics_by_uuid(loaded)[uuid])
<1>1. loaded \in Seq(Values) /\ OneName(Named(loaded, Len(loaded)))
  BY LoadedOneName DEF IInv
<1>2. PICK d \in Dict(Names) : d = existing_topics_by_uuid(loaded)
  BY <1>1, FetchLoop
<1>3. DictIs(d, Named(loaded, Len(loaded)), Names)
  BY <1>1, <1>2, FetchLoop DEF FetchIs
<1>4. uuid \in Uuid /\ d[uuid] \in Names
  BY <1>2, DictType
<1>5. d[uuid] \in Named(loaded, Len(loaded))[uuid]
  BY <1>2, <1>3, <1>4 DEF DictIs
<1>6. Known(uuid, d[uuid])
  BY <1>1, <1>4, <1>5, NamedIs DEF Known
<1>7. QED
  BY <1>2, <1>4, <1>5, <1>6

\* A topic id that a client once learnt names that topic for ever or nothing
\* at all, however the metadata is generated anew and the broker restarted.
THEOREM IdsNameOneTopic == Spec => []TopicIdsStayTrue
<1>1. ASSUME IInv
      PROVE  TopicIdsStayTrue
  <2>1. SUFFICES ASSUME NEW t \in promised, t[1] \in DOMAIN existing_topics_by_uuid(loaded)
                 PROVE  existing_topics_by_uuid(loaded)[t[1]] = t[2]
    BY DEF TopicIdsStayTrue
  <2>2. PICK uuid \in Uuid, told \in Names : t = <<uuid, told>>
    BY <1>1 DEF IInv, TypeOK
  <2>3. PICK name \in Names : /\ name = existing_topics_by_uuid(loaded)[uuid]
                             /\ Known(uuid, name)
    BY <1>1, <2>1, <2>2, FetchFinds
  <2>4. Known(uuid, told)
    BY <2>2 DEF Known
  <2>5. QED
    BY <1>1, <2>2, <2>3, <2>4 DEF IInv, IdsInv
<1>2. QED
  BY <1>1, Invariance, PTL

\* The loops of Produce, ListOffsets, Fetch, Metadata and Describe, each with
\* dictionaries and a filter of its own, come to the same topics, partitions
\* and ids, because no uuid ever has two names.
THEOREM TablesAgree == Spec => []HandlersAgree
<1>1. ASSUME IInv
      PROVE  HandlersAgree
  <2>1. loaded \in Seq(Values) /\ OneName(Named(loaded, Len(loaded)))
    BY <1>1, LoadedOneName DEF IInv
  <2>2. PICK N : N = Named(loaded, Len(loaded))
    OBVIOUS
  <2>3. PICK B : B = Belong(loaded, Len(loaded))
    OBVIOUS
  <2>4. Relations(N, B)
    <3>1. Len(loaded) \in 0 .. Len(loaded)
      BY <2>1, LenProperties
    <3>2. QED
      BY <2>1, <2>2, <2>3, <3>1, RelationsUpTo
  <2>5. PICK pairs : pairs = Accepted(loaded)
    OBVIOUS
  <2>6. pairs \subseteq Names \X Ids /\ PairsAre(pairs, B)
    BY <2>1, <2>3, <2>5, AcceptedIs
  <2>7. Listed(metadata(loaded, TRUE, {})) = pairs
    <3>1. PICK E : E = metadata(loaded, TRUE, {})
      OBVIOUS
    <3>2. EntriesAre(E, N, B, Names)
      <4>1. {} \in SUBSET Names /\ TRUE \in BOOLEAN
        OBVIOUS
      <4>2. EntriesAre(E, N, B, Meant(TRUE, {}))
        BY <2>1, <2>2, <2>3, <3>1, <4>1, MetadataAnswers
      <4>3. QED
        BY <4>2 DEF Meant
    <3>3. PICK W \in SUBSET Names : W = Names
      OBVIOUS
    <3>4. Listed(E) = {x \in pairs : x[1] \in W}
      BY <2>4, <2>6, <3>2, <3>3, ListedIs
    <3>5. {x \in pairs : x[1] \in W} = pairs
      BY <2>6, <3>3
    <3>6. QED
      BY <3>1, <3>4, <3>5
  <2>8. ASSUME NEW requested \in SUBSET Names
        PROVE  /\ Listed(metadata(loaded, FALSE, requested)) = {x \in pairs : x[1] \in requested}
               /\ Listed(describe(loaded, requested)) = {x \in pairs : x[1] \in requested}
               /\ Errors(describe(loaded, requested)) = Errors(metadata(loaded, FALSE, requested))
    <3>1. PICK E : E = metadata(loaded, FALSE, requested)
      OBVIOUS
    <3>2. PICK F : F = describe(loaded, requested)
      OBVIOUS
    <3>3. EntriesAre(E, N, B, requested) /\ EntriesFor(E, requested)
      <4>1. PICK all \in BOOLEAN : all = FALSE
        OBVIOUS
      <4>2. /\ EntriesAre(metadata(loaded, all, requested), N, B, Meant(all, requested))
            /\ ~all => EntriesFor(metadata(loaded, all, requested), requested)
        BY <2>1, <2>2, <2>3, MetadataAnswers
      <4>3. QED
        BY <3>1, <4>1, <4>2 DEF Meant
    <3>4. EntriesAre(F, N, B, requested) /\ EntriesFor(F, requested)
      BY <2>1, <2>2, <2>3, <3>2, DescribeAnswers
    <3>5. Listed(E) = {x \in pairs : x[1] \in requested}
      BY <2>4, <2>6, <3>3, ListedIs
    <3>6. Listed(F) = {x \in pairs : x[1] \in requested}
      BY <2>4, <2>6, <3>4, ListedIs
    <3>7. Errors(E) \subseteq Errors(F) /\ Errors(F) \subseteq Errors(E)
      BY <3>3, <3>4, ErrorsAgree
    <3>8. QED
      BY <3>1, <3>2, <3>5, <3>6, <3>7
  <2>9. ASSUME NEW requested \in SUBSET Names, NEW e \in describe(loaded, requested), e.error = 0
        PROVE  /\ e.topic_id \in DOMAIN existing_topics_by_uuid(loaded)
               /\ existing_topics_by_uuid(loaded)[e.topic_id] = e.name
    <3>1. e.topic_id \in Uuid /\ e.name \in Named(loaded, Len(loaded))[e.topic_id]
      BY <2>1, <2>9, DescribeAnswers
    <3>2. e.name \in Names
      BY <3>1 DEF Named
    <3>3. DictIs(existing_topics_by_uuid(loaded), Named(loaded, Len(loaded)), Names)
      BY <2>1, FetchLoop DEF FetchIs
    <3>4. QED
      BY <3>1, <3>2, <3>3 DEF DictIs
  <2>10. QED
    BY <2>5, <2>7, <2>8, <2>9 DEF HandlersAgree, Listed, Errors
<1>2. QED
  BY <1>1, Invariance, PTL

-----------------------------------------------------------------------------
(* Appending. *)

\* What a reader who does not find his place again accepts of the file: it
\* follows from the uuids having one name each.
LEMMA ReadOneName ==
    ASSUME NEW f \in Seq(Item), NEW found,
           \A u \in Uuid : \A n \in Names : \A m \in Names :
             Registers(f, u, n) /\ Registers(f, u, m) => n = m
    PROVE  /\ Read(f, found) \in Seq(Values)
           /\ OneName(Named(Read(f, found), Len(Read(f, found))))
<1>1. PICK recs \in Seq(Values) : recs = Read(f, found)
  BY ReadValues
<1>2. DOMAIN recs = DOMAIN f /\ \A i \in DOMAIN f : recs[i] \in {NoValue, f[i].value}
  BY <1>1, ReadValues
<1>3. ASSUME NEW u \in Uuid, NEW n \in Named(recs, Len(recs))[u]
      PROVE  n \in Names /\ Registers(f, u, n)
  <2>1. n \in Names /\ \E i \in DOMAIN recs : recs[i] = Topic(n, u)
    BY <1>3, NamedIs
  <2>2. NoValue # Topic(n, u)
    BY DEF NoValue, Topic
  <2>3. QED
    BY <1>2, <2>1, <2>2 DEF Registers
<1>4. OneName(Named(recs, Len(recs)))
  BY <1>3 DEF OneName
<1>5. QED
  BY <1>1, <1>4

\* More records, more partitions.
LEMMA BelongGrows ==
    ASSUME NEW old \in Seq(Values), NEW new \in Seq(Values), Len(old) <= Len(new),
           \A i \in 1 .. Len(old) : new[i] = old[i],
           NEW u \in Uuid, NEW n \in Names, NEW p \in Belong(old, Len(old))[u][n]
    PROVE  p \in Belong(new, Len(new))[u][n]
<1>1. Len(old) \in Nat /\ Len(new) \in Nat
  BY LenProperties
<1>2. p \in Ids /\ \E k \in 1 .. Len(old) : old[k] = Partition(p, u) /\ n \in Named(old, k - 1)[u]
  BY DEF Belong
<1>3. PICK k \in 1 .. Len(old) : old[k] = Partition(p, u) /\ n \in Named(old, k - 1)[u]
  BY <1>2
<1>4. k \in 1 .. Len(new) /\ new[k] = Partition(p, u)
  BY <1>1, <1>3
<1>5. n \in Named(new, k - 1)[u]
  <2>1. PICK j \in 1 .. k - 1 : old[j] = Topic(n, u)
    BY <1>3 DEF Named
  <2>2. j \in 1 .. Len(old)
    BY <1>1
  <2>3. new[j] = Topic(n, u)
    BY <2>1, <2>2
  <2>4. QED
    BY <2>3 DEF Named
<1>6. QED
  BY <1>2, <1>4, <1>5 DEF Belong

\* Appending to the file takes no partition away from the brokers that start
\* later, wherever the tool is killed and whatever it appends behind.
THEOREM AppendsOnlyAdd == Spec => AppendOnlyAdds
<1>1. ASSUME IInv, [Next]_vars, file' # <<>>
      PROVE  Accepted(Read(file, {})) \subseteq Accepted(Read(file, {}))'
  <2>0. TypeOK /\ IdsInv /\ IInv' /\ TypeOK' /\ IdsInv'
    BY <1>1, TypeStep, OffsetsStep, IdsStep DEF IInv
  <2>1. CASE file' = file
    BY <2>1 DEF Read, Lost
  <2>2. CASE file' # file
    <3>1. Write
      <4>1. ASSUME NEW wanted \in Wanted, generate(wanted)
            PROVE  FALSE
        BY <1>1, <4>1 DEF generate
      <4>2. QED
        BY <1>1, <2>2, <4>1 DEF Next, vars, append_topics, ToolDies, Start, Stop, Describe
    <3>2. PICK old \in Seq(Values) : old = Read(file, {})
      BY <2>0, ReadValues DEF TypeOK
    <3>3. PICK new \in Seq(Values) : new = Read(file', {})
      BY <2>0, ReadValues DEF TypeOK
    <3>4. /\ OneName(Named(old, Len(old))) /\ OneName(Named(new, Len(new)))
      <4>1. \A u \in Uuid : \A n \in Names : \A m \in Names :
              Registers(file, u, n) /\ Registers(file, u, m) => n = m
        BY <2>0 DEF IdsInv, Known
      <4>2. \A u \in Uuid : \A n \in Names : \A m \in Names :
              Registers(file', u, n) /\ Registers(file', u, m) => n = m
        BY <2>0 DEF IdsInv, Known, Registers
      <4>3. file \in Seq(Item) /\ file' \in Seq(Item)
        BY <2>0 DEF TypeOK
      <4>4. QED
        BY <3>2, <3>3, <4>1, <4>2, <4>3, ReadOneName
    <3>5. Len(old) <= Len(new) /\ \A i \in 1 .. Len(old) : new[i] = old[i]
      <4>1. /\ DOMAIN old = DOMAIN file /\ DOMAIN new = DOMAIN file'
            /\ \A i \in DOMAIN file : old[i] = IF Lost(file, i) /\ i - file[i].offset_delta - 1 \notin {}
                                               THEN NoValue ELSE file[i].value
            /\ \A i \in DOMAIN file' : new[i] = IF Lost(file', i) /\ i - file'[i].offset_delta - 1 \notin {}
                                                THEN NoValue ELSE file'[i].value
        BY <3>2, <3>3 DEF Read
      <4>2. /\ Len(file) \in Nat /\ DOMAIN file = 1 .. Len(file) /\ DOMAIN file' = 1 .. Len(file) + 1
            /\ \A i \in 1 .. Len(file) : file'[i] = file[i]
        BY <2>0, <3>1, WriteWrites
      <4>3. \A i \in DOMAIN file : Lost(file', i) <=> Lost(file, i)
        BY <2>0, <3>1, WriteLosesNothing
      <4>4. \A i \in DOMAIN file : new[i] = old[i]
        BY <4>1, <4>2, <4>3
      <4>5. /\ DOMAIN old = 1 .. Len(old) /\ DOMAIN new = 1 .. Len(new)
            /\ Len(old) \in Nat /\ Len(new) \in Nat
        BY LenProperties
      <4>6. Len(old) = Len(file) /\ Len(new) = Len(file) + 1
        BY <4>1, <4>2, <4>5
      <4>7. QED
        BY <4>1, <4>2, <4>4, <4>5, <4>6
    <3>6. ASSUME NEW x \in Accepted(old)
          PROVE  x \in Accepted(new)
      <4>1. PICK n \in Names, p \in Ids : x = <<n, p>>
        BY <3>4, AcceptedIs
      <4>2. PICK u \in Uuid : p \in Belong(old, Len(old))[u][n]
        BY <3>4, <4>1, AcceptedIs DEF PairsAre
      <4>3. p \in Belong(new, Len(new))[u][n]
        BY <3>5, <4>2, BelongGrows
      <4>4. QED
        BY <3>4, <4>1, <4>3, AcceptedIs DEF PairsAre
    <3>7. Accepted(Read(file, {}))' = Accepted(new)
      BY <3>3 DEF Accepted, produce_tables, produce_record, ProduceStart, put, Read, Lost
    <3>8. QED
      BY <3>2, <3>6, <3>7
  <2>3. QED
    BY <2>1, <2>2
<1>2. QED
  BY <1>1, Invariance, PTL DEF Spec, AppendOnlyAdds
=============================================================================
