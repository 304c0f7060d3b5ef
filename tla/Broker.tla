------------------------------- MODULE Broker -------------------------------
(***************************************************************************)
(* The running broker (app/main.py), its connections, and the three        *)
(* handlers that touch partition logs: Produce, Fetch and ListOffsets.     *)
(*                                                                         *)
(* One asyncio task serves each connection: it reads a request, runs the   *)
(* handler, writes the response and drains.  A handler awaits nothing, so  *)
(* while one runs the event loop runs no other task; `Scheduled` says so,  *)
(* and everything about offsets rests on it.  The broker may die at any    *)
(* step; only the logs and the metadata file outlive it.                   *)
(*                                                                         *)
(* An append is one step here; module LogFile is about interrupted ones.   *)
(***************************************************************************)
EXTENDS PartitionLog, FiniteSets

CONSTANTS
    Conns,          \* connections; each is opened at most once
    Topics,         \* topic names
    PartitionIds,   \* partition indexes that requests mention
    Workload,       \* the request bodies clients send
    Nameless,       \* the empty topic name
    MetadataAtFirst,\* what the metadata file registers to begin with
    Registrations,  \* what the tool may add to it
    MaxRequests,    \* bound: requests sent on one connection
    HighWater,      \* undelivered responses above which drain() waits
    Readers         \* connections whose client keeps reading (fairness only)

NO_ERROR == 0
UNKNOWN_TOPIC_OR_PARTITION == 3
UNKNOWN_TOPIC_ID == 100
Errors == {NO_ERROR, UNKNOWN_TOPIC_OR_PARTITION, UNKNOWN_TOPIC_ID}

LATEST == -1        \* ListOffsets timestamp that asks for the end of the log

LogApis  == {"Produce", "Fetch", "ListOffsets"}
OtherApis ==        \* answered from memory; bodies are not modelled here
    {"ApiVersions", "Metadata", "DescribeTopicPartitions", "InitProducerId"}
APIKEYS  == LogApis \cup OtherApis
\* What a message can turn out to be: a request, one whose key is not in
\* APIKEYS, or one whose parser raises.
Kinds    == APIKEYS \cup {"UnknownKey", "Unparsable"}

TopicPartitions == Topics \X PartitionIds

\* What the handlers look up in the metadata log.  A topic may be there
\* without partitions.
Metadata == [topics: SUBSET Topics, partitions: SUBSET TopicPartitions]

\* A partition entry of a request.  `arg` is the number of records to append
\* (Produce), the fetch offset (Fetch) or the timestamp (ListOffsets).
Part == [tp: TopicPartitions, arg: Int]
Body == [api: Kinds, api_version: Nat, parts: Seq(Part)]

\* Which entry of which request of which connection a batch came from.
Source == Conns \X (Nat \ {0}) \X (Nat \ {0})

\* A partition entry of a response: `offset` is the base offset, the high
\* watermark or the listed offset, `data` the batches of a fetch.
PartResponse == [tp: TopicPartitions, error: Errors, offset: Int,
                 data: Seq(Batch(Source))]
\* `cid` is the correlation id.  Clients number their requests, so it is
\* the request's place on its connection.
Response == [cid: Nat \ {0}, parts: Seq(PartResponse)]

ASSUME WorkloadAssumption ==
    /\ Workload \subseteq Body
    \* a record batch holds at least one record
    /\ \A body \in Workload : body.api = "Produce" =>
           \A i \in DOMAIN body.parts : body.parts[i].arg \in Nat \ {0}
    \* fetch offsets are read as unsigned
    /\ \A body \in Workload : body.api = "Fetch" =>
           \A i \in DOMAIN body.parts : body.parts[i].arg \in Nat
    \* the bodies of the other requests name no partitions
    /\ \A body \in Workload : body.api \notin LogApis => body.parts = <<>>

ASSUME BoundAssumption ==
    /\ MaxRequests \in Nat
    /\ HighWater \in Nat
    /\ PartitionIds \subseteq Nat /\ 0 \in PartitionIds
    /\ MetadataAtFirst \in Metadata
    /\ Registrations \subseteq [topic: Topics, partitions: SUBSET TopicPartitions]
    /\ Readers \subseteq Conns

VARIABLES
    \* on disk
    logs,               \* each partition's log file
    metadata_file,      \* what the metadata log registers
    \* the broker process
    up,                 \* it is running
    cluster_metadata,   \* what it read of metadata_file when it started
    task,               \* where each connection's handle_client stands
    taken,              \* how many requests it has read
    part,               \* the partition entry its handler is at
    partition_responses,\* the entries answered so far
    leo,                \* the end of the log it looked up last: base_offset in
                        \* handle_produce_request, leo in handle_fetch_request
    \* clients and sockets
    socket,             \* "none", "open", or "gone": closed or reset
    requests,           \* all that was sent on each connection
    responses,          \* all that was written to each connection
    delivered           \* how many of these the client has read

disk    == <<logs, metadata_file>>
handler == <<part, partition_responses, leo>>
client  == <<socket, requests, delivered>>
vars    == <<disk, up, cluster_metadata, task, taken, handler, client,
             responses>>

\* A handler is between two entries, or has the end of a log and is about
\* to append to that log or to read it.
Busy  == {"handle", "append", "fetch"}
Tasks == Busy \cup {"none", "read", "drain", "closed"}

TypeOK ==
    /\ logs \in [TopicPartitions -> Seq(Batch(Source))]
    /\ metadata_file \in Metadata
    /\ up \in BOOLEAN
    /\ cluster_metadata \in Metadata
    /\ task \in [Conns -> Tasks]
    /\ taken \in [Conns -> Nat]
    /\ \A c \in Conns : taken[c] <= Len(requests[c])
    /\ part \in [Conns -> Nat \ {0}]
    /\ partition_responses \in [Conns -> Seq(PartResponse)]
    /\ leo \in [Conns -> Nat]
    /\ socket \in [Conns -> {"none", "open", "gone"}]
    /\ requests \in [Conns -> Seq(Workload)]
    /\ responses \in [Conns -> Seq(Response)]
    /\ delivered \in [Conns -> Nat]

NoMetadata == [topics |-> {}, partitions |-> {}]

Init ==
    /\ logs = [tp \in TopicPartitions |-> <<>>]
    /\ metadata_file = MetadataAtFirst
    /\ up = FALSE
    /\ cluster_metadata = NoMetadata
    /\ task = [c \in Conns |-> "none"]
    /\ taken = [c \in Conns |-> 0]
    /\ part = [c \in Conns |-> 1]
    /\ partition_responses = [c \in Conns |-> <<>>]
    /\ leo = [c \in Conns |-> 0]
    /\ socket = [c \in Conns |-> "none"]
    /\ requests = [c \in Conns |-> <<>>]
    /\ responses = [c \in Conns |-> <<>>]
    /\ delivered = [c \in Conns |-> 0]

-----------------------------------------------------------------------------
(* What the handlers look at. *)

(* Definitions in the style of Scheduled_AnyTime are faulty variants of the *)
(* definition that follows them, of which the README says which property   *)
(* notices; no action uses them.                                           *)

\* The request the task of c is handling, and the entry it is at.
Current(c) == requests[c][taken[c]]
HasEntry(c) == part[c] \in DOMAIN Current(c).parts
Entry_AlwaysFirst(c) == Current(c).parts[1]
Entry(c) == Current(c).parts[part[c]]

\* main.py: no await between the two reads of a request and the drain of its
\* response, so no other handler is in the middle of its work.
Scheduled_AnyTime(c) == up
Scheduled_DrainBlocks(c) ==
    up /\ \A d \in Conns \ {c} : task[d] \notin Busy \cup {"drain"}
Scheduled(c) ==
    up /\ \A d \in Conns \ {c} : task[d] \notin Busy

\* The partition is known to the metadata the broker loaded (is_valid).
is_valid(tp) ==
    tp[1] \in cluster_metadata.topics /\ tp \in cluster_metadata.partitions

\* The handler of c is at an entry of a request with this API key.
Handling(c, api) ==
    /\ Scheduled(c)
    /\ task[c] = "handle"
    /\ Current(c).api = api
    /\ HasEntry(c)

\* handle_fetch_request finds the topic: from version 13 on by the uuid it
\* has in the metadata, before by name, and a name is taken as it is unless
\* it is empty.
ByName(c) == Current(c).api_version < 13
Resolves(c) ==
    IF ByName(c) THEN Entry(c).tp[1] # Nameless
                 ELSE Entry(c).tp[1] \in cluster_metadata.topics

\* It appends `response` to its answer and goes on with entry `next`.
Answer(c, response, next) ==
    /\ partition_responses' = [partition_responses EXCEPT ![c] = Append(@, response)]
    /\ part' = [part EXCEPT ![c] = next]

PartAnswer(tp, error, offset, data) ==
    [tp |-> tp, error |-> error, offset |-> offset, data |-> data]

\* The handler's locals are gone.
Forget_FromZero(c) ==
    /\ part' = [part EXCEPT ![c] = 0]
    /\ partition_responses' = [partition_responses EXCEPT ![c] = <<>>]
    /\ leo' = [leo EXCEPT ![c] = 0]
Forget(c) ==
    /\ part' = [part EXCEPT ![c] = 1]
    /\ partition_responses' = [partition_responses EXCEPT ![c] = <<>>]
    /\ leo' = [leo EXCEPT ![c] = 0]

-----------------------------------------------------------------------------
(* The process, and the tool that edits the metadata file. *)

\* main(): reads the metadata once and starts to serve.
Start ==
    /\ ~up
    /\ up' = TRUE
    /\ cluster_metadata' = metadata_file
    /\ UNCHANGED <<disk, task, taken, handler, client, responses>>

\* The process dies: its tasks, their locals and its sockets are gone.
Crash ==
    /\ up
    /\ up' = FALSE
    /\ cluster_metadata' = NoMetadata
    /\ task' = [c \in Conns |-> IF task[c] = "none" THEN "none" ELSE "closed"]
    /\ socket' = [c \in Conns |-> IF socket[c] = "none" THEN "none" ELSE "gone"]
    /\ part' = [c \in Conns |-> 1]
    /\ partition_responses' = [c \in Conns |-> <<>>]
    /\ leo' = [c \in Conns |-> 0]
    /\ UNCHANGED <<disk, taken, requests, delivered, responses>>

\* tools/create_cluster_metadata.py --append, which can be run at any time,
\* also under a running broker, and for a topic that is there already.
AppendTopics(new) ==
    /\ metadata_file' = [topics     |-> metadata_file.topics \cup {new.topic},
                         partitions |-> metadata_file.partitions \cup new.partitions]
    /\ UNCHANGED <<logs, up, cluster_metadata, task, taken, handler, client,
                   responses>>

-----------------------------------------------------------------------------
(* Clients. *)

\* A client connects and asyncio starts handle_client.
Accept(c) ==
    /\ up
    /\ socket[c] = "none"
    /\ socket' = [socket EXCEPT ![c] = "open"]
    /\ task' = [task EXCEPT ![c] = "read"]
    /\ UNCHANGED <<disk, up, cluster_metadata, taken, handler, requests,
                   delivered, responses>>

\* It sends a request, without waiting for the answers to earlier ones.
Send(c, body) ==
    /\ socket[c] = "open"
    /\ Len(requests[c]) < MaxRequests
    /\ requests' = [requests EXCEPT ![c] = Append(@, body)]
    /\ UNCHANGED <<disk, up, cluster_metadata, task, taken, handler, socket,
                   delivered, responses>>

\* It reads the next response.
Receive(c) ==
    /\ socket[c] = "open"
    /\ delivered[c] < Len(responses[c])
    /\ delivered' = [delivered EXCEPT ![c] = @ + 1]
    /\ UNCHANGED <<disk, up, cluster_metadata, task, taken, handler, socket,
                   requests, responses>>

\* It closes or resets the connection, or the network does.  What it sent
\* before may still reach the broker.
CloseSocket(c) ==
    /\ socket[c] = "open"
    /\ socket' = [socket EXCEPT ![c] = "gone"]
    /\ UNCHANGED <<disk, up, cluster_metadata, task, taken, handler, requests,
                   delivered, responses>>

-----------------------------------------------------------------------------
(* handle_client and process_request. *)

\* An API key that is not in APIKEYS is logged and skipped; a message the
\* parser chokes on, or an empty one, ends the connection.
AfterReading_AnswersAll(kind) ==
    IF kind = "Unparsable" THEN "closed" ELSE "handle"
AfterReading(kind) ==
    CASE kind = "UnknownKey" -> "read"
      [] kind = "Unparsable" -> "closed"
      [] kind \in APIKEYS    -> "handle"

\* A whole message has arrived.
ReadMessage(c) ==
    /\ Scheduled(c)
    /\ task[c] = "read"
    /\ taken[c] < Len(requests[c])
    /\ taken' = [taken EXCEPT ![c] = @ + 1]
    /\ task' = [task EXCEPT ![c] = AfterReading(requests[c][taken[c] + 1].api)]
    /\ UNCHANGED <<disk, up, cluster_metadata, handler, client, responses>>

\* End of file or a reset, with or without unread messages before it.
ReadEnds(c) ==
    /\ Scheduled(c)
    /\ task[c] = "read"
    /\ socket[c] = "gone"
    /\ task' = [task EXCEPT ![c] = "closed"]
    /\ UNCHANGED <<disk, up, cluster_metadata, taken, handler, client, responses>>

\* The handler is through: writer.write, and on to drain().
Reply(c) ==
    /\ Scheduled(c)
    /\ task[c] = "handle"
    /\ ~HasEntry(c)
    /\ responses' = [responses EXCEPT ![c] =
           Append(@, [cid |-> taken[c], parts |-> partition_responses[c]])]
    /\ task' = [task EXCEPT ![c] = "drain"]
    /\ Forget(c)
    /\ UNCHANGED <<disk, up, cluster_metadata, taken, client>>

\* drain() returns once little enough is left in the write buffer.
Drained(c) ==
    /\ Scheduled(c)
    /\ task[c] = "drain"
    /\ Len(responses[c]) - delivered[c] <= HighWater
    /\ task' = [task EXCEPT ![c] = "read"]
    /\ UNCHANGED <<disk, up, cluster_metadata, taken, handler, client, responses>>

\* drain() raises ConnectionResetError.
DrainFails_Never(c) == FALSE
DrainFails(c) ==
    /\ Scheduled(c)
    /\ task[c] = "drain"
    /\ socket[c] = "gone"
    /\ task' = [task EXCEPT ![c] = "closed"]
    /\ UNCHANGED <<disk, up, cluster_metadata, taken, handler, client, responses>>

\* The handler raises: the operating system refuses to open, read or write
\* the log of the entry at hand (OSError), or a value does not fit its field
\* of the response (int_to_bytes, called from get_bytes).  The answer is
\* lost, what was appended for its entries is not.
HandlerFails(c) ==
    /\ Scheduled(c)
    /\ \/ task[c] = "handle" /\ ~HasEntry(c)
       \/ task[c] = "append"
       \/ task[c] = "fetch" /\ logs[Entry(c).tp] # <<>>
       \/ Handling(c, "Produce") /\ is_valid(Entry(c).tp)
       \/ /\ Handling(c, "Fetch") /\ Resolves(c)
          /\ logs[Entry(c).tp] # <<>>
       \/ /\ Handling(c, "ListOffsets") /\ is_valid(Entry(c).tp)
          /\ Entry(c).arg = LATEST /\ logs[Entry(c).tp] # <<>>
    /\ task' = [task EXCEPT ![c] = "closed"]
    /\ Forget(c)
    /\ UNCHANGED <<disk, up, cluster_metadata, taken, client, responses>>

-----------------------------------------------------------------------------
(* handle_produce_request, one entry at a time. *)

ProduceReject(c) ==
    /\ Handling(c, "Produce")
    /\ ~is_valid(Entry(c).tp)
    /\ Answer(c, PartAnswer(Entry(c).tp, UNKNOWN_TOPIC_OR_PARTITION, -1, <<>>),
              part[c] + 1)
    /\ UNCHANGED <<disk, up, cluster_metadata, task, taken, leo, client,
                   responses>>

\* base_offset = log_end_offset(log_path)
ProduceLookup(c) ==
    /\ Handling(c, "Produce")
    /\ is_valid(Entry(c).tp)
    /\ leo' = [leo EXCEPT ![c] = LogEndOffset(logs[Entry(c).tp])]
    /\ task' = [task EXCEPT ![c] = "append"]
    /\ UNCHANGED <<disk, up, cluster_metadata, taken, part, partition_responses,
                   client, responses>>

\* The producer is told where its first record is.
ProduceAnswer_LastOffset(c) ==
    PartAnswer(Entry(c).tp, NO_ERROR, leo[c] + Entry(c).arg - 1, <<>>)
ProduceAnswer(c) == PartAnswer(Entry(c).tp, NO_ERROR, leo[c], <<>>)

\* raw[0:8] = base_offset; f.write(raw)
ProduceAppend(c) ==
    /\ Scheduled(c)
    /\ task[c] = "append"
    /\ LET batch == [base |-> leo[c], count |-> Entry(c).arg,
                     src |-> <<c, taken[c], part[c]>>]
       IN  logs' = [logs EXCEPT ![Entry(c).tp] = Append(@, batch)]
    /\ Answer(c, ProduceAnswer(c), part[c] + 1)
    /\ task' = [task EXCEPT ![c] = "handle"]
    /\ UNCHANGED <<metadata_file, up, cluster_metadata, taken, leo, client,
                   responses>>

-----------------------------------------------------------------------------
(* handle_fetch_request, one entry at a time. *)

UnknownTopic(c) ==
    IF ByName(c) THEN UNKNOWN_TOPIC_OR_PARTITION ELSE UNKNOWN_TOPIC_ID

\* One error stands for all partitions of the topic.
FetchUnknownTopic(c) ==
    /\ Handling(c, "Fetch")
    /\ ~Resolves(c)
    /\ LET parts == Current(c).parts
           topic == Entry(c).tp[1]
       IN  \E next \in part[c] + 1 .. Len(parts) + 1 :
             /\ \A i \in part[c] .. next - 1 : parts[i].tp[1] = topic
             /\ next \in DOMAIN parts => parts[next].tp[1] # topic
             /\ Answer(c, PartAnswer(<<topic, 0>>, UnknownTopic(c), 0, <<>>), next)
    /\ UNCHANGED <<disk, up, cluster_metadata, task, taken, leo, client,
                   responses>>

\* leo = log_end_offset(log_path); no test of whether the partition exists
\* or the fetch offset is within it.
FetchLookup(c) ==
    /\ Handling(c, "Fetch")
    /\ Resolves(c)
    /\ leo' = [leo EXCEPT ![c] = LogEndOffset(logs[Entry(c).tp])]
    /\ task' = [task EXCEPT ![c] = "fetch"]
    /\ UNCHANGED <<disk, up, cluster_metadata, taken, part, partition_responses,
                   client, responses>>

\* log_data = read_log_from_offset(log_path, fetch_off): a second read of
\* the file, and the answer with the end that the first one found.
FetchRead(c) ==
    /\ Scheduled(c)
    /\ task[c] = "fetch"
    /\ Answer(c, PartAnswer(Entry(c).tp, NO_ERROR, leo[c],
                            ReadLogFrom(logs[Entry(c).tp], Entry(c).arg)), part[c] + 1)
    /\ task' = [task EXCEPT ![c] = "handle"]
    /\ UNCHANGED <<disk, up, cluster_metadata, taken, leo, client, responses>>

-----------------------------------------------------------------------------
(* handle_list_offsets_request, one entry at a time. *)

\* Every timestamp but LATEST is answered with the earliest offset.
ListedOffset_LastRecord(log, timestamp) ==
    IF timestamp = LATEST /\ log # <<>> THEN LogEndOffset(log) - 1 ELSE 0
ListedOffset(log, timestamp) ==
    IF timestamp = LATEST THEN LogEndOffset(log) ELSE 0

ListOffsetsPartition(c) ==
    /\ Handling(c, "ListOffsets")
    /\ LET tp == Entry(c).tp
       IN  Answer(c, IF is_valid(tp)
                     THEN PartAnswer(tp, NO_ERROR, ListedOffset(logs[tp], Entry(c).arg), <<>>)
                     ELSE PartAnswer(tp, UNKNOWN_TOPIC_OR_PARTITION, -1, <<>>),
                  part[c] + 1)
    /\ UNCHANGED <<disk, up, cluster_metadata, task, taken, leo, client,
                   responses>>

-----------------------------------------------------------------------------

Handle(c) ==
    \/ ProduceReject(c) \/ ProduceLookup(c) \/ ProduceAppend(c)
    \/ FetchUnknownTopic(c) \/ FetchLookup(c) \/ FetchRead(c)
    \/ ListOffsetsPartition(c)

\* The steps the event loop takes for connection c.
Serve(c) ==
    \/ ReadMessage(c) \/ ReadEnds(c)
    \/ Handle(c) \/ Reply(c)
    \/ Drained(c) \/ DrainFails(c)

Client(c) ==
    \/ Accept(c) \/ Receive(c) \/ CloseSocket(c)
    \/ \E body \in Workload : Send(c, body)

Next ==
    \/ Start \/ Crash
    \/ \E new \in Registrations : AppendTopics(new)
    \/ \E c \in Conns : Client(c) \/ Serve(c) \/ HandlerFails(c)

Spec == Init /\ [][Next]_vars

\* What the event loop owes every connection, and a reading client itself.
\* Clients need not send, the process need not restart, and nothing is
\* assumed of a client outside Readers.
FairSpec ==
    /\ Spec
    /\ \A c \in Conns : WF_vars(Serve(c))
    /\ \A c \in Readers : WF_vars(Receive(c))

-----------------------------------------------------------------------------
(* Safety. *)

\* Every log's offsets start at 0 and follow on without gap or overlap,
\* whatever is interleaved: no two appends used the same end offset
\* (produce.py reads it, then appends, and holds no lock).
OffsetsContiguous == \A tp \in TopicPartitions : Contiguous(logs[tp])

\* The end offset that a handler has looked up is still the end of the log
\* when it appends there, or reads the data that it answers with that end
\* (there is another call of the file system in between).
EndOffsetIsFresh ==
    \A c \in Conns :
        task[c] \in {"append", "fetch"} => leo[c] = LogEndOffset(logs[Entry(c).tp])

\* Where the batches of a produce entry are.
Placed(src) ==
    UNION {{[tp |-> tp, base |-> logs[tp][i].base, count |-> logs[tp][i].count] :
              i \in {j \in DOMAIN logs[tp] : logs[tp][j].src = src}} :
            tp \in TopicPartitions}

\* A produce response tells the truth about each entry and stays true, also
\* after a crash and a restart: an entry is answered without error if and
\* only if its records are in the log it named, once, at the offset given.
AcksTellTheTruth ==
    \A c \in Conns : \A n \in DOMAIN responses[c] :
        LET cid   == responses[c][n].cid
            asked == requests[c][cid].parts
            parts == responses[c][n].parts
        IN  requests[c][cid].api = "Produce" =>
                /\ Len(parts) = Len(asked)
                /\ \A k \in DOMAIN asked :
                     Placed(<<c, cid, k>>) =
                       IF parts[k].error = NO_ERROR
                       THEN {[tp |-> asked[k].tp, base |-> parts[k].offset,
                              count |-> asked[k].arg]}
                       ELSE {}

\* The entry a batch came from was sent before that of a later batch.
SentBefore(a, b) == a[2] < b[2] \/ (a[2] = b[2] /\ a[3] < b[3])

\* Each batch in a log is an entry some client sent for that log, and the
\* batches of one connection lie in it in the order they were sent, none
\* twice: pipelined requests are not reordered (one task per connection).
LogsHoldWhatWasSent ==
    \A tp \in TopicPartitions : LET log == logs[tp] IN
        \A i \in DOMAIN log :
            /\ LET c == log[i].src[1]
                   cid == log[i].src[2]
                   k == log[i].src[3]
               IN  /\ cid <= taken[c]
                   /\ requests[c][cid].api = "Produce"
                   /\ requests[c][cid].parts[k] = [tp |-> tp, arg |-> log[i].count]
            /\ \A j \in 1 .. i - 1 :
                   log[j].src[1] = log[i].src[1] => SentBefore(log[j].src, log[i].src)

\* The responses on a connection answer the requests with a known API key,
\* each once, in the order sent, and none is skipped; only the last request
\* read may be without answer, and not when its task reads on.
AnswersInOrder ==
    \A c \in Conns :
        LET cids  == {responses[c][n].cid : n \in DOMAIN responses[c]}
            known == {i \in 1 .. taken[c] : requests[c][i].api \in APIKEYS}
        IN  /\ \A m, n \in DOMAIN responses[c] :
                   m < n => responses[c][m].cid < responses[c][n].cid
            /\ cids \subseteq known
            /\ known \ {taken[c]} \subseteq cids
            /\ task[c] \in {"read", "drain"} => known = cids

\* A fetch answer holds every record from the fetch offset up to the high
\* watermark, each in exactly one batch, as the log still has them, and it
\* holds nothing only when there is nothing from that offset on.
FetchDeliversAll ==
    \A c \in Conns : \A n \in DOMAIN responses[c] :
        LET cid   == responses[c][n].cid
            parts == responses[c][n].parts
        IN  requests[c][cid].api = "Fetch" =>
              \A k \in DOMAIN parts : parts[k].error = NO_ERROR =>
                \E asked \in {requests[c][cid].parts[j] : j \in DOMAIN requests[c][cid].parts} :
                  /\ asked.tp = parts[k].tp
                  /\ \A o \in asked.arg .. parts[k].offset - 1 :
                       Cardinality({i \in DOMAIN parts[k].data :
                                      Covers(parts[k].data[i], o)}) = 1
                  /\ \A i \in DOMAIN parts[k].data :
                       \E j \in DOMAIN logs[asked.tp] :
                           logs[asked.tp][j] = parts[k].data[i]
                  /\ parts[k].data # <<>> <=> asked.arg < parts[k].offset

\* The end offsets a response reports: of a produce entry the offset after
\* its records, of a fetch the high watermark, of a listing the latest.
Ends(c, r) ==
    LET body == requests[c][r.cid]
        good == {k \in DOMAIN r.parts : r.parts[k].error = NO_ERROR}
    IN  CASE body.api = "Produce" ->
               {[tp |-> r.parts[k].tp, end |-> r.parts[k].offset + body.parts[k].arg] : k \in good}
          [] body.api = "Fetch" ->
               {[tp |-> r.parts[k].tp, end |-> r.parts[k].offset] : k \in good}
          [] body.api = "ListOffsets" ->
               {[tp |-> r.parts[k].tp, end |-> r.parts[k].offset] :
                   k \in {j \in good : body.parts[j].arg = LATEST}}
          [] OTHER -> {}

Reported == UNION {UNION {Ends(c, responses[c][n]) : n \in DOMAIN responses[c]} : c \in Conns}

\* No client, on any connection, before or after a restart, is told of an end
\* of a partition that lies before one that was reported to anybody earlier.
EndsNeverRecede ==
    [][\A c \in Conns : Len(responses'[c]) > Len(responses[c]) =>
         \A now \in Ends(c, responses[c][Len(responses[c])])' :
           \A then \in Reported : then.tp = now.tp => then.end <= now.end]_vars

-----------------------------------------------------------------------------
(* Liveness. *)

Answered(c, i) ==
    \E n \in 1 .. delivered[c] : n \in DOMAIN responses[c] /\ responses[c][n].cid = i

\* A request with a known API key is answered, and the answer reaches the
\* client, or the broker is done with that connection.  Other clients that
\* never read (drain() waits for them) do not matter.
RequestsAreAnswered ==
    \A c \in Readers : \A i \in 1 .. MaxRequests :
        (i <= Len(requests[c]) /\ requests[c][i].api \in APIKEYS)
            ~> (Answered(c, i) \/ task[c] = "closed")

\* The broker lets go of every connection that is gone, whatever its task
\* was waiting for.
ConnectionsAreReleased ==
    \A c \in Conns : (socket[c] = "gone") ~> (task[c] = "closed")
=============================================================================
