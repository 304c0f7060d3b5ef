---------------------------- MODULE MetadataBytes ---------------------------
(***************************************************************************)
(* The cluster metadata file byte for byte: what the encoders of           *)
(* tools/create_cluster_metadata.py write, cut off anywhere by a full disk *)
(* or the death of the tool, and what the parsers of                       *)
(* app/messages/cluster_metadata_log.py make of it.  Module                *)
(* ClusterMetadata works with whole records; this one shows why it may,    *)
(* and what happens when the tool appends to a file with a torn end.       *)
(***************************************************************************)
EXTENDS Numbers, SequencesExt

CONSTANTS
    Wanted,         \* command lines: sequences of <<name, partitions>>
    FeatureName,    \* b"metadata.version"
    Stamp,          \* 8 bytes: the time at which the tool runs
    Checksum,       \* 4 bytes, which nobody checks
    MaxRuns,        \* bound: runs of the tool
    MaxCuts,        \* bound: runs of the tool that are cut short
    MaxCutBytes     \* bound: runs that write more are not cut short

\* The names that the parsers can read back: the tool writes the length of a
\* longer one in two bytes, and Value.get reads one.
Names == {name \in Seq(Byte) : Len(name) <= 126}

\* A topic's batch stays within what bytes_to_int computes here.
ASSUME MetadataBytesAssumption ==
    /\ Wanted \subseteq Seq(Names \X (0 .. Huge - 2))
    /\ FeatureName \in Names
    /\ Stamp \in Seq(Byte) /\ Len(Stamp) = 8
    /\ Checksum \in Seq(Byte) /\ Len(Checksum) = 4
    /\ MaxRuns \in Nat /\ MaxCuts \in Nat /\ MaxCutBytes \in Nat

VARIABLES
    file,           \* the bytes on disk
    torn,           \* whether some run since the last generate was cut short
    runs,           \* how often the tool was run
    cuts,           \* how many of the runs were cut short
    whole,          \* the values of the records that are whole on disk
    intended,       \* those the runs meant to write
    intact          \* those in front of the first cut

vars == <<file, torn, runs, cuts, whole, intended, intact>>

\* The value of a record, of whatever type.
Value(type, name, uuid, id) == [type |-> type, name |-> name, uuid |-> uuid, id |-> id]
FEATURE_LEVEL == 12
TOPIC         == 2
PARTITION     == 3
UNREGISTER    == 1

\* uuid4() for the i-th topic of a run: 16 bytes unlike all others.
uuid4(run, i) == [k \in 1 .. 16 |-> (160 + 8 * run + i) % 256]

-----------------------------------------------------------------------------
(* Encoders: tools/create_cluster_metadata.py *)

\* _zigzag; the tool encodes nothing below -1.
_zigzag(n) == encode_uvarint[IF n < 0 THEN -2 * n - 1 ELSE 2 * n]

_compact_string(s) == encode_uvarint[Len(s) + 1] \o s

_record(offset_delta, type, body) ==
    LET payload == <<0>> \o _zigzag(0) \o _zigzag(offset_delta) \o _zigzag(-1)
                     \o _zigzag(0) \o <<1, type>> \o body \o <<0>>
    IN  _zigzag(Len(payload)) \o payload

_feature_level_record ==
    _record(0, FEATURE_LEVEL,
      <<1>> \o _compact_string(FeatureName) \o int_to_bytes(20, 2) \o <<0>>)

_topic_record(name, uuid) ==
    _record(0, TOPIC, <<1>> \o _compact_string(name) \o uuid \o <<0>>)

\* Replicas and those in sync are the one broker; nobody is removed or added.
_partition_record(id, uuid, offset_delta) ==
    LET bid == int_to_bytes(1, 4)
    IN  _record(offset_delta, PARTITION,
          <<1>> \o int_to_bytes(id, 4) \o uuid \o <<2>> \o bid \o <<2>> \o bid \o <<1, 1>>
            \o bid \o int_to_bytes(0, 4) \o int_to_bytes(0, 4) \o <<1, 0>>)

\* _batch: 61 bytes and the records.
_batch(base_offset, records) ==
    LET body == int_to_bytes(1, 4) \o <<2>> \o Checksum
                \o int_to_bytes(0, 2) \o int_to_bytes(Len(records) - 1, 4)
                \o Stamp \o Stamp \o int_to_bytes(-1, 8) \o int_to_bytes(-1, 2)
                \o int_to_bytes(-1, 4) \o int_to_bytes(Len(records), 4)
                \o FlattenSeq(records)
    IN  int_to_bytes(base_offset, 8) \o int_to_bytes(Len(body), 4) \o body

\* _next_base_offset: the last header found by hopping from batch to batch.
_next_base_offset ==
    LET int(pos, size) == bytes_to_int(read_bytes(file, pos, size))
        scan[at \in Nat \X Nat] ==   \* a position, and the offset so far
          IF at[1] + 61 > Len(file) THEN at[2]
          ELSE scan[<<at[1] + 12 + int(at[1] + 8, 4), int(at[1], 8) + int(at[1] + 57, 4)>>]
    IN  scan[<<0, 1>>]

-----------------------------------------------------------------------------
(* Parsers: app/messages/cluster_metadata_log.py *)

\* The number in one byte less 1, of a compact string or array.
length_at(data, pos) == bytes_to_int(read_bytes(data, pos, 1)) - 1

\* Behind a compact array that starts at `pos`; range() of -1 is empty.
behind_array(data, pos, size) ==
    pos + 1 + (IF length_at(data, pos) < 0 THEN 0 ELSE length_at(data, pos)) * size

\* parse_data of the four values, version first; a length of -1 is not
\* checked.  (partition_id_NoVersion is a faulty variant.)
partition_id_NoVersion(data, pos) == bytes_to_int(read_bytes(data, pos, 4))
partition_id(data, pos) == bytes_to_int(read_bytes(data, pos + 1, 4))
parse_feature_level(data, pos) ==
    LET n == length_at(data, pos + 1)
    IN  [value |-> Value(FEATURE_LEVEL, read_bytes(data, pos + 2, n), <<>>, 0),
         pos |-> pos + 2 + n + 3]
parse_topic(data, pos) ==
    LET n == length_at(data, pos + 1)
    IN  [value |-> Value(TOPIC, read_bytes(data, pos + 2, n),
                         read_bytes(data, pos + 2 + n, 16), 0),
         pos |-> pos + 2 + n + 17]
parse_partition(data, pos) ==
    LET isr         == behind_array(data, pos + 21, 4)
        removing    == behind_array(data, isr, 4)
        adding      == behind_array(data, removing, 4)
        directories == behind_array(data, adding, 4) + 12
    IN  [value |-> Value(PARTITION, <<>>, read_bytes(data, pos + 5, 16), partition_id(data, pos)),
         pos |-> behind_array(data, directories, 16) + 1]
parse_unregister(data, pos) ==
    [value |-> Value(UNREGISTER, <<>>, <<>>, bytes_to_int(read_bytes(data, pos + 1, 4))),
     pos |-> pos + 14]
parse_data(type, data, pos) ==
    CASE type = FEATURE_LEVEL -> parse_feature_level(data, pos)
      [] type = TOPIC         -> parse_topic(data, pos)
      [] type = PARTITION     -> parse_partition(data, pos)
      [] type = UNREGISTER    -> parse_unregister(data, pos)

\* The varint `gap` bytes behind another one, which may not be there.
Behind(varint, data, gap) ==
    IF varint.ok THEN read_varint(data, varint.pos + gap) ELSE varint

\* The length, the attributes, the times, the key and the value's size.
read_head(data, pos) ==
    LET key == Behind(Behind(Behind(read_varint(data, pos), data, 1), data, 0), data, 0)
    IN  Behind(key, data, IF key.n > 0 THEN key.n ELSE 0)

\* One record from `pos` on: its values are empty if one of its reads raises.
parse_record(data, pos) ==
    LET head == read_head(data, pos)
        type == bytes_to_int(read_bytes(data, head.pos + 1, 1))
        read == parse_data(type, data, head.pos + 2)
    IN  IF head.ok /\ type \in {FEATURE_LEVEL, TOPIC, PARTITION, UNREGISTER}
        THEN [values |-> <<read.value>>, pos |-> read.pos + 1]
        ELSE [values |-> <<>>, pos |-> pos]

\* The records of a batch: as many as it says, or up to the first that
\* cannot be parsed.
parse_records(data, pos, count) ==
    LET from[at \in Nat \X Nat] ==   \* a position, and how many records are left
          LET record == parse_record(data, at[1])
          IN  IF at[2] = 0 \/ record.values = <<>> THEN <<>>
              ELSE record.values \o from[<<record.pos, at[2] - 1>>]
    IN  from[<<pos, count>>]

\* read_record.  (read_record_AllOrNothing and batch_end_OfRecords are faulty
\* variants.)
record_count(data, pos) == bytes_to_int(read_bytes(data, pos + 57, 4))
read_record_AllOrNothing(data, pos) ==
    LET records == parse_records(data, pos + 61, record_count(data, pos))
    IN  IF Len(records) = record_count(data, pos) THEN records ELSE <<>>
read_record(data, pos) == parse_records(data, pos + 61, record_count(data, pos))

\* Where the next batch is, whatever became of the records of this one.
batch_end_OfRecords(data, pos) == pos + bytes_to_int(read_bytes(data, pos + 8, 4))
batch_end(data, pos) == pos + 12 + bytes_to_int(read_bytes(data, pos + 8, 4))

read_cluster_metadata_log(data) ==
    LET from[pos \in Nat] ==
          IF pos >= Len(data) THEN <<>> ELSE read_record(data, pos) \o from[batch_end(data, pos)]
    IN  from[0]
loaded == read_cluster_metadata_log(file)

\* The partitions that Produce and ListOffsets take for valid (and Metadata
\* and DescribeTopicPartitions list, by ClusterMetadata's HandlersAgree).  A
\* second topic record with the same uuid would replace the first one's name
\* and take that from the existing topics; uuids are distinct, and no bytes
\* behind a cut are taken to repeat one.
Served(values) ==
    UNION {{<<values[i].name, values[j].id>> :
              j \in {k \in i + 1 .. Len(values) :
                       values[k].type = PARTITION /\ values[k].uuid = values[i].uuid}} :
             i \in {k \in DOMAIN values : values[k].type = TOPIC}}

-----------------------------------------------------------------------------

\* What a run writes: batches, each with its bytes, where its records end in
\* them, and the values of these records.
Batch(base_offset, records, values) ==
    [bytes  |-> _batch(base_offset, records),
     ends   |-> [i \in DOMAIN records |-> 61 + Len(FlattenSeq(SubSeq(records, 1, i)))],
     values |-> values]

FeatureBatch ==
    Batch(1, <<_feature_level_record>>, <<Value(FEATURE_LEVEL, FeatureName, <<>>, 0)>>)

TopicBatch(base_offset, name, partitions, uuid) ==
    Batch(base_offset,
      <<_topic_record(name, uuid)>>
        \o [p \in 1 .. partitions |-> _partition_record(p - 1, uuid, p)],
      <<Value(TOPIC, name, uuid, 0)>>
        \o [p \in 1 .. partitions |-> Value(PARTITION, <<>>, uuid, p - 1)])

\* One batch for each topic of the command line, behind one another.
\* (base_offsets_ByPartitions is a faulty variant.)
base_offsets_ByPartitions(first, topics) ==
    LET base[i \in DOMAIN topics] == IF i = 1 THEN first ELSE base[i - 1] + topics[i - 1][2]
    IN  base
base_offsets(first, topics) ==
    LET base[i \in DOMAIN topics] == IF i = 1 THEN first ELSE base[i - 1] + 1 + topics[i - 1][2]
    IN  base
TopicBatches(first, topics) ==
    [i \in DOMAIN topics |->
       TopicBatch(base_offsets(first, topics)[i], topics[i][1], topics[i][2], uuid4(runs, i))]

Bytes(batches)  == FlattenSeq([i \in DOMAIN batches |-> batches[i].bytes])
Values(batches) == FlattenSeq([i \in DOMAIN batches |-> batches[i].values])

\* The values of the records that end within the first `written` bytes.
WholeOf(batches, written) ==
    LET start(i) == Len(Bytes(SubSeq(batches, 1, i - 1)))
        values(i) == SubSeq(batches[i].values, 1,
                       Cardinality({k \in DOMAIN batches[i].ends :
                                      start(i) + batches[i].ends[k] <= written}))
    IN  FlattenSeq([i \in DOMAIN batches |-> values(i)])

\* How many bytes a run can leave of those it means to write.
Written(bytes) ==
    {Len(bytes)} \cup IF cuts < MaxCuts /\ Len(bytes) <= MaxCutBytes
                     THEN 0 .. Len(bytes) - 1 ELSE {}

\* generate: the file is opened anew and holds the feature level first.
generate(topics) ==
    LET batches == <<FeatureBatch>> \o TopicBatches(2, topics)
        bytes   == Bytes(batches)
    IN  /\ runs < MaxRuns
        /\ runs' = runs + 1
        /\ \E written \in Written(bytes) :
             /\ file' = SubSeq(bytes, 1, written)
             /\ torn' = (written < Len(bytes))
             /\ cuts' = IF torn' THEN cuts + 1 ELSE cuts
             /\ whole' = WholeOf(batches, written)
             /\ intact' = whole'
             /\ intended' = Values(batches)

\* append_topics: behind whatever is there.
append_topics(topics) ==
    LET batches == TopicBatches(_next_base_offset, topics)
        bytes   == Bytes(batches)
    IN  /\ runs < MaxRuns
        /\ runs' = runs + 1
        /\ \E written \in Written(bytes) :
             /\ file' = file \o SubSeq(bytes, 1, written)
             /\ torn' = (torn \/ written < Len(bytes))
             /\ cuts' = IF written < Len(bytes) THEN cuts + 1 ELSE cuts
             /\ whole' = whole \o WholeOf(batches, written)
             /\ intact' = IF torn THEN intact ELSE whole'
             /\ intended' = intended \o Values(batches)

Init ==
    /\ file = <<>>
    /\ torn = FALSE
    /\ runs = 0
    /\ cuts = 0
    /\ whole = <<>>
    /\ intended = <<>>
    /\ intact = <<>>

Next == \E topics \in Wanted : generate(topics) \/ append_topics(topics)

Spec == Init /\ [][Next]_vars

-----------------------------------------------------------------------------

\* What the tool wrote without being cut off is what the broker loads,
\* value for value: names, ids and partition numbers survive the encoders
\* and parsers, which were written apart from each other.
WholeFilesLoadWhole ==
    ~torn => loaded = intended

\* Over several runs the records are numbered without a gap: one run of the
\* tool finds in the bytes the offset where the one before it stopped.
NewBatchesFollow ==
    ~torn /\ Len(intended) < Huge => _next_base_offset = 1 + Len(intended)

\* A broker that loads a file with a cut in it, wherever the cut is and
\* whatever was appended behind it, serves every partition whose record was
\* complete in front of the cut.
CutsLoseNothingInFront == Served(intact) \subseteq Served(loaded)

\* And it serves none that the tool did not mean to register: a topic with a
\* shortened name or id never has a partition.
TornFilesServeNothingElse == Served(loaded) \subseteq Served(intended)

\* The docstring of the tool: it registers topics "so our broker can serve"
\* them.  So a topic is served once a run that asked for it has written all
\* of it.
WrittenTopicsAreServed == Served(whole) \subseteq Served(loaded)
=============================================================================
