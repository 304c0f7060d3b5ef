-------------------------- MODULE ClusterMetadata ---------------------------
(***************************************************************************)
(* The cluster metadata log: written by tools/create_cluster_metadata.py,  *)
(* which never asks whether a broker is running, read once by each broker  *)
(* that starts, and gone through by every handler with a loop of its own.  *)
(*                                                                         *)
(* The file is the sequence of what the tool writes, for each batch a      *)
(* header and then its records.  The tool may be killed, or a broker       *)
(* started, between any two of them, and the next run appends to whatever  *)
(* is there.  (Cuts inside a header or a record are in MetadataBytes.)     *)
(***************************************************************************)
EXTENDS Integers, Sequences

CONSTANTS
    Names,          \* topic names
    MaxPartitions,  \* bound: partitions given to one topic
    MaxUuids,       \* bound: topics ever created
    StrayOffsets    \* numbers that a scan finds where no header begins

ASSUME ClusterMetadataAssumption ==
    /\ MaxPartitions \in Nat
    /\ MaxUuids \in Nat
    /\ StrayOffsets \subseteq Nat

VARIABLES
    file,           \* the headers and records on disk
    pending,        \* what the running tool has still to write
    uuids,          \* how many uuids were drawn; the next one is new
    up,
    loaded,         \* the record values of the running broker
    promised        \* pairs <<uuid, name>> clients learnt from Describe

vars == <<file, pending, uuids, up, loaded, promised>>

Uuid == 1 .. MaxUuids
NO_UUID == 0        \* topic id of an unknown topic in a Describe response

NoValue == [type |-> "none"]    \* of a header
FeatureLevel == [type |-> "feature"]
Topic(name, uuid) == [type |-> "topic", name |-> name, uuid |-> uuid]
Partition(id, uuid) == [type |-> "partition", id |-> id, uuid |-> uuid]

Values == {NoValue, FeatureLevel} \cup {Topic(n, u) : n \in Names, u \in Uuid}
            \cup {Partition(p, u) : p \in 0 .. MaxPartitions - 1, u \in Uuid}

\* A header (offset_delta -1) or a record, with what the header says of the
\* batch: its base offset and the number of its records.
HEADER == -1
Item == [base : Nat, count : Nat, offset_delta : Nat \cup {HEADER}, value : Values]

-----------------------------------------------------------------------------
(* Reading a file.  A batch that was cut short announces more records than *)
(* it has.  What was appended behind it lies within the length that it     *)
(* announces, so whoever hops over it loses the place.                     *)

\* Something lies in front of item i that was cut short.
Lost(f, i) ==
    \E j \in 1 .. i - 1 : f[j].offset_delta + 1 < f[j].count /\ f[j + 1].offset_delta = HEADER

\* The last item that a reader comes to without losing the place.
Followed(f) == {i \in DOMAIN f : ~Lost(f, i) /\ (i < Len(f) => Lost(f, i + 1))}

\* What the broker's parsers make of the file, if they happen to find the
\* headers at `found` again after they lost the place: record values, and of
\* what they pass over nothing.
Read(f, found) ==
    [i \in DOMAIN f |->
        IF Lost(f, i) /\ i - f[i].offset_delta - 1 \notin found THEN NoValue ELSE f[i].value]

-----------------------------------------------------------------------------
(* tools/create_cluster_metadata.py *)

\* What the command line asks for: topics and their numbers of partitions.
Wanted == UNION {[1 .. n -> Names \X (0 .. MaxPartitions)] : n \in 1 .. 2}

\* Definitions in the style of new_uuid_FromOne are faulty variants of the
\* definition that follows them, to see that a property fails with them.

\* uuid4() of the i-th topic of a run of the tool.
new_uuid_FromOne(i) == i
new_uuid(i) == uuids + i

\* The batch of one topic: header, topic record, partition records.
TopicBatch_FromOne(name, n, uuid, base) ==
    [i \in 1 .. n + 2 |->
        [base |-> base, count |-> n + 1, offset_delta |-> i - 2,
         value |-> IF i = 1 THEN NoValue
                   ELSE IF i = 2 THEN Topic(name, uuid) ELSE Partition(i - 2, uuid)]]
TopicBatch(name, n, uuid, base) ==
    [i \in 1 .. n + 2 |->
        [base |-> base, count |-> n + 1, offset_delta |-> i - 2,
         value |-> IF i = 1 THEN NoValue
                   ELSE IF i = 2 THEN Topic(name, uuid) ELSE Partition(i - 3, uuid)]]

\* The batches of all the topics wanted, from this base offset on.
TopicBatches(wanted, base) ==
    LET first == TopicBatch(wanted[1][1], wanted[1][2], new_uuid(1), base)
    IN  IF Len(wanted) = 1 THEN first
        ELSE first \o TopicBatch(wanted[2][1], wanted[2][2], new_uuid(2),
                                 base + 1 + wanted[1][2])

FeatureBatch ==
    [i \in 1 .. 2 |-> [base |-> 1, count |-> 1, offset_delta |-> i - 2,
                       value |-> IF i = 1 THEN NoValue ELSE FeatureLevel]]

\* _next_base_offset: the header it hops to last decides, and which one that
\* is, is known as long as it keeps its place.  It asks the header and not
\* whether the records are there.
next_base_offset_ByRecords ==
    IF file = <<>> THEN {1}
    ELSE {file[i].base + file[i].offset_delta + 1 : i \in Followed(file)}
           \cup {file[i].base + file[i].count : i \in {k \in DOMAIN file : Lost(file, k)}}
           \cup (IF Lost(file, Len(file)) THEN StrayOffsets ELSE {})
next_base_offset ==
    IF file = <<>> THEN {1}
    ELSE {file[i].base + file[i].count :
            i \in Followed(file) \cup {k \in DOMAIN file : Lost(file, k)}}
           \cup (IF Lost(file, Len(file)) THEN StrayOffsets ELSE {})

\* generate(): opens the file anew.
generate(wanted) ==
    /\ pending = <<>>
    /\ uuids + Len(wanted) <= MaxUuids
    /\ file' = <<>>
    /\ pending' = FeatureBatch \o TopicBatches(wanted, 2)
    /\ uuids' = uuids + Len(wanted)
    /\ UNCHANGED <<up, loaded, promised>>

\* append_topics(): behind whatever the file ends with; a name may well be
\* in it already.
append_topics(wanted) ==
    /\ pending = <<>>
    /\ uuids + Len(wanted) <= MaxUuids
    /\ \E base \in next_base_offset : pending' = TopicBatches(wanted, base)
    /\ uuids' = uuids + Len(wanted)
    /\ UNCHANGED <<file, up, loaded, promised>>

\* The next header or record gets to the disk.
Write ==
    /\ pending # <<>>
    /\ file' = Append(file, Head(pending))
    /\ pending' = Tail(pending)
    /\ UNCHANGED <<uuids, up, loaded, promised>>

ToolDies ==
    /\ pending # <<>>
    /\ pending' = <<>>
    /\ UNCHANGED <<file, uuids, up, loaded, promised>>

-----------------------------------------------------------------------------
(* The handlers.  Each goes through all records with a loop of its own and *)
(* fills dictionaries, written here as functions of the keys they have.    *)

\* d[key] = value
put(d, key, value) == [k \in DOMAIN d \cup {key} |-> IF k = key THEN value ELSE d[k]]

\* handle_produce_request and handle_list_offsets_request, for one record;
\* a uuid that is there already is overwritten.
ProduceStart == [topic_uuid_to_name |-> <<>>, valid_partitions |-> {}]
produce_record_Renewed(t, v) ==
    CASE v.type = "topic" ->
           [t EXCEPT !.topic_uuid_to_name = put(@, v.uuid, v.name),
                     !.valid_partitions = {p \in @ : p[1] # v.name}]
      [] v.type = "partition" /\ v.uuid \in DOMAIN t.topic_uuid_to_name ->
           [t EXCEPT !.valid_partitions = @ \cup {<<t.topic_uuid_to_name[v.uuid], v.id>>}]
      [] OTHER -> t
produce_record(t, v) ==
    CASE v.type = "topic" ->
           [t EXCEPT !.topic_uuid_to_name = put(@, v.uuid, v.name)]
      [] v.type = "partition" /\ v.uuid \in DOMAIN t.topic_uuid_to_name ->
           [t EXCEPT !.valid_partitions = @ \cup {<<t.topic_uuid_to_name[v.uuid], v.id>>}]
      [] OTHER -> t
produce_tables(recs) ==
    LET upto[i \in 0 .. Len(recs)] ==
          IF i = 0 THEN ProduceStart ELSE produce_record(upto[i - 1], recs[i])
    IN  upto[Len(recs)]

\* is_valid, for all names and partitions.
Accepted(recs) ==
    LET t == produce_tables(recs)
        existing_topics == {t.topic_uuid_to_name[u] : u \in DOMAIN t.topic_uuid_to_name}
    IN  {p \in t.valid_partitions : p[1] \in existing_topics}

\* handle_fetch_request: existing_topics_by_uuid.  By name a topic is looked
\* up for its uuid only, which no response up to version 12 has a field for.
fetch_record(by_uuid, v) ==
    IF v.type = "topic" THEN put(by_uuid, v.uuid, v.name) ELSE by_uuid
existing_topics_by_uuid(recs) ==
    LET upto[i \in 0 .. Len(recs)] ==
          IF i = 0 THEN <<>> ELSE fetch_record(upto[i - 1], recs[i])
    IN  upto[Len(recs)]

\* handle_metadata_request: a uuid is overwritten, its partitions are kept;
\* with `all` no names were given and all topics are meant.
MetadataStart == [topic_names |-> <<>>, topic_partitions |-> <<>>]
metadata_record(t, v, all, requested) ==
    CASE v.type = "topic" /\ (all \/ v.name \in requested) ->
           [topic_names |-> put(t.topic_names, v.uuid, v.name),
            topic_partitions |->
              IF v.uuid \in DOMAIN t.topic_partitions THEN t.topic_partitions
              ELSE put(t.topic_partitions, v.uuid, {})]
      [] v.type = "partition" /\ v.uuid \in DOMAIN t.topic_names ->
           [t EXCEPT !.topic_partitions[v.uuid] = @ \cup {v.id}]
      [] OTHER -> t
metadata_tables(recs, all, requested) ==
    LET upto[i \in 0 .. Len(recs)] ==
          IF i = 0 THEN MetadataStart
          ELSE metadata_record(upto[i - 1], recs[i], all, requested)
    IN  upto[Len(recs)]

\* Its answer.  (The order of topics and partitions is not modelled.)
metadata(recs, all, requested) ==
    LET t == metadata_tables(recs, all, requested)
        topics == {[error |-> 0, name |-> t.topic_names[u], partitions |-> t.topic_partitions[u]] :
                     u \in DOMAIN t.topic_names}
        unknown == IF all THEN {} ELSE requested \ {topic.name : topic \in topics}
    IN  topics \cup {[error |-> 3, name |-> name, partitions |-> {}] : name \in unknown}

\* handle_describe_topic_partition_request: a uuid that is there already is
\* left as it is.
describe_record_ByName(topics, v, requested) ==
    CASE v.type = "topic" /\ v.name \in requested
           /\ (\A u \in DOMAIN topics : topics[u].name # v.name) ->
           put(topics, v.uuid, [name |-> v.name, partitions |-> {}])
      [] v.type = "partition" /\ v.uuid \in DOMAIN topics ->
           [topics EXCEPT ![v.uuid].partitions = @ \cup {v.id}]
      [] OTHER -> topics
describe_record(topics, v, requested) ==
    CASE v.type = "topic" /\ v.name \in requested /\ v.uuid \notin DOMAIN topics ->
           put(topics, v.uuid, [name |-> v.name, partitions |-> {}])
      [] v.type = "partition" /\ v.uuid \in DOMAIN topics ->
           [topics EXCEPT ![v.uuid].partitions = @ \cup {v.id}]
      [] OTHER -> topics
describe_topics(recs, requested) ==
    LET upto[i \in 0 .. Len(recs)] ==
          IF i = 0 THEN <<>> ELSE describe_record(upto[i - 1], recs[i], requested)
    IN  upto[Len(recs)]

describe(recs, requested) ==
    LET topics == describe_topics(recs, requested)
        unknown == requested \ {topics[u].name : u \in DOMAIN topics}
    IN  {[error |-> 0, name |-> topics[u].name, topic_id |-> u,
          partitions |-> topics[u].partitions] : u \in DOMAIN topics}
        \cup {[error |-> 3, name |-> name, topic_id |-> NO_UUID, partitions |-> {}] :
                name \in unknown}

-----------------------------------------------------------------------------
(* The broker. *)

\* get_cluster_metadata; no file at all counts as no records.
Start ==
    /\ ~up
    /\ up' = TRUE
    /\ \E found \in SUBSET {i \in DOMAIN file : file[i].offset_delta = HEADER /\ Lost(file, i)} :
         loaded' = Read(file, found)
    /\ UNCHANGED <<file, pending, uuids, promised>>

Stop ==
    /\ up
    /\ up' = FALSE
    /\ loaded' = <<>>
    /\ UNCHANGED <<file, pending, uuids, promised>>

\* A client asks for these topics and learns their uuids.
Describe(requested) ==
    /\ up
    /\ promised' = promised \cup
         {<<e.topic_id, e.name>> : e \in {d \in describe(loaded, requested) : d.error = 0}}
    /\ UNCHANGED <<file, pending, uuids, up, loaded>>

-----------------------------------------------------------------------------

Init ==
    /\ file = <<>>
    /\ pending = <<>>
    /\ uuids = 0
    /\ up = FALSE
    /\ loaded = <<>>
    /\ promised = {}

Next ==
    \/ \E wanted \in Wanted : generate(wanted) \/ append_topics(wanted)
    \/ Write \/ ToolDies
    \/ Start \/ Stop
    \/ \E requested \in SUBSET Names : Describe(requested)

Spec == Init /\ [][Next]_vars

-----------------------------------------------------------------------------

TypeOK ==
    /\ file \in Seq(Item)
    /\ pending \in Seq(Item)
    /\ uuids \in 0 .. MaxUuids
    /\ up \in BOOLEAN
    /\ loaded \in Seq(Values)
    /\ promised \subseteq Uuid \X Names

\* However the tool is run, killed anywhere in a batch and run again, a batch
\* begins at the offset behind the one in front of it: the base offsets that
\* generate computes and that append_topics finds by scanning fit together,
\* and behind a batch cut short the offsets of its missing records are left
\* out and never given to others.  Only where a reader had lost the place
\* already (a third run behind a cut), nothing is claimed.
MetadataOffsetsFollow ==
    \A i \in DOMAIN file : file[i].offset_delta = HEADER =>
        /\ i = 1 => file[i].base = 1
        /\ i > 1 /\ ~Lost(file, i - 1) => file[i].base = file[i - 1].base + file[i - 1].count

\* The loops of the handlers were written apart, one overwriting where the
\* other keeps the first and one filtering while it joins, but they agree,
\* also when a name was registered twice or the file was cut short: Produce
\* and ListOffsets accept exactly the partitions that Metadata and Describe
\* list, these two know the same topics, and every topic id that Describe
\* tells is one by which Fetch finds that topic.
HandlersAgree ==
    LET listed(entries) == UNION {{<<e.name, p>> : p \in e.partitions} : e \in entries}
        errors(entries) == {<<e.name, e.error>> : e \in entries}
        by_uuid == existing_topics_by_uuid(loaded)
    IN  /\ listed(metadata(loaded, TRUE, {})) = Accepted(loaded)
        /\ \A requested \in SUBSET Names :
             LET described == describe(loaded, requested)
                 answered  == metadata(loaded, FALSE, requested)
             IN  /\ listed(answered) = {p \in Accepted(loaded) : p[1] \in requested}
                 /\ listed(described) = listed(answered)
                 /\ errors(described) = errors(answered)
                 /\ \A e \in described : e.error = 0 =>
                      e.topic_id \in DOMAIN by_uuid /\ by_uuid[e.topic_id] = e.name

\* A topic id a client once learnt names that topic for ever or nothing at
\* all: a fetch by uuid never reads another topic's log, not even after the
\* metadata was generated anew and the broker restarted.
TopicIdsStayTrue ==
    LET by_uuid == existing_topics_by_uuid(loaded)
    IN  \A t \in promised : t[1] \in DOMAIN by_uuid => by_uuid[t[1]] = t[2]

\* Appending to the metadata takes no partition away from the brokers that
\* start later, also when the same name is appended again with fewer
\* partitions, the tool is killed half-way, or appends behind a cut.
AppendOnlyAdds ==
    [][file' # <<>> => Accepted(Read(file, {})) \subseteq Accepted(Read(file, {}))']_vars
=============================================================================
