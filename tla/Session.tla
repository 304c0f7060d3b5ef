------------------------------- MODULE Session ------------------------------
(***************************************************************************)
(* A client and the broker, byte for byte.  The client asks for the        *)
(* supported versions, as every Kafka client does when it connects, takes  *)
(* for each API the highest version that both know, and sends requests.    *)
(* The broker parses, its handler decides, the response is encoded and the *)
(* client reads it.                                                        *)
(*                                                                         *)
(* What handlers decide is the business of Broker and ClusterMetadata;     *)
(* here they decide anything that has the right form.                      *)
(***************************************************************************)
EXTENDS KafkaProtocol

CONSTANTS
    Clients,        \* the version ranges that clients know, per API
    Contents,       \* what they can ask, per API
    PartitionCounts,\* how many partitions a topic can have
    LogData,        \* what a log file can hold
    MaxRequests     \* bound: requests on the connection

ASSUME SessionAssumption ==
    /\ Clients \subseteq [APIS -> Nat \X Nat]
    /\ PartitionCounts \subseteq Nat
    /\ MaxRequests \in Nat

VARIABLES
    client,         \* the version ranges this client knows
    learnt,         \* the ranges the broker told it
    step,           \* of the current exchange
    asked,          \* what the client meant to ask
    message,        \* the request's bytes
    parsed,         \* what the broker read
    meant,          \* what the handler meant to answer
    reply,          \* the response's bytes
    answer          \* what the client read, and where it stopped reading

vars == <<client, learnt, step, asked, message, parsed, meant, reply, answer>>

Steps == {"idle", "sent", "parsed", "replied", "dropped", "read"}
NOTHING == <<>>

-----------------------------------------------------------------------------
(* api_key.py *)

\* ApiKeyConstants.
ApiKey ==
    [api \in APIS |->
        CASE api = "Produce" -> 0 [] api = "Fetch" -> 1 [] api = "ListOffsets" -> 2
          [] api = "Metadata" -> 3 [] api = "ApiVersions" -> 18
          [] api = "InitProducerId" -> 22 [] api = "DescribeTopicPartitions" -> 75]

\* The versions that the broker says it supports.
Advertised ==
    [api \in APIS |->
        CASE api = "ApiVersions"    -> <<0, 4>>
          [] api = "DescribeTopicPartitions" -> <<0, 4>>
          [] api = "Fetch"          -> <<0, 16>>
          [] api = "InitProducerId" -> <<0, 4>>
          [] api = "ListOffsets"    -> <<1, 5>>
          [] api = "Metadata"       -> <<0, 5>>
          [] api = "Produce"        -> <<0, 11>>]

\* The order in which handle_api_version_request lists them.
Listed == <<"ApiVersions", "DescribeTopicPartitions", "Fetch", "InitProducerId",
            "ListOffsets", "Metadata", "Produce">>

-----------------------------------------------------------------------------
(* What the handlers answer.  `ok` is whether the broker knows the topic   *)
(* and the partition, `n` how many partitions a topic has, `data` the log. *)

Items(list) == IF list = NULL THEN <<>> ELSE list
Each(list, Op(_)) == [i \in DOMAIN Items(list) |-> Op(Items(list)[i])]
Upto(n) == [i \in 1 .. n |-> i - 1]

ApiVersionsAnswer(v) ==
    IF v <= 11
    THEN [error |-> 0,
          keys |-> Each(Listed, LAMBDA api : [key |-> ApiKey[api], min |-> Advertised[api][1],
                                              max |-> Advertised[api][2]])]
    ELSE [error |-> 35, keys |-> <<>>]

ProduceAnswer(body, ok) ==
    [topics |-> Each(body.topics, LAMBDA t :
        [name |-> t.name, partitions |-> Each(t.partitions, LAMBDA p :
            IF ok THEN [index |-> p.index, error |-> 0, base_offset |-> 300, start_offset |-> 0]
            ELSE [index |-> p.index, error |-> 3, base_offset |-> -1, start_offset |-> -1])])]

FetchPartition(index, error, end, data) ==
    [index |-> index, error |-> error, high_watermark |-> end, stable_offset |-> end,
     start_offset |-> 0, records |-> data]

\* Empty records are null in the flexible versions.  An id may be unknown; a
\* name never is, unless it is empty.
FetchAnswer(v, body, ok, data) ==
    LET none    == IF v >= 12 THEN NULL ELSE <<>>
        records == IF data = <<>> THEN none ELSE data
        partitions(t) ==
          IF v >= 13 /\ ~ok THEN <<FetchPartition(0, 100, 0, none)>>
          ELSE IF v < 13 /\ Items(t.name) = <<>> THEN <<FetchPartition(0, 3, 0, none)>>
          ELSE Each(t.partitions, LAMBDA p : FetchPartition(p.index, 0, 300, records))
    IN  [topics |-> Each(body.topics, LAMBDA t :
            IF v >= 13 THEN [topic_id |-> t.topic_id, partitions |-> partitions(t)]
            ELSE [name |-> t.name, partitions |-> partitions(t)])]

ListOffsetsAnswer(body, ok) ==
    [topics |-> Each(body.topics, LAMBDA t :
        [name |-> t.name, partitions |-> Each(t.partitions, LAMBDA p :
            IF ~ok THEN [index |-> p.index, error |-> 3, offset |-> -1, leader_epoch |-> 0]
            ELSE [index |-> p.index, error |-> 0, leader_epoch |-> 0,
                  offset |-> IF p.timestamp = -1 THEN 300 ELSE 0])])]

\* A topic as Metadata and DescribeTopicPartitions tell of it.
TopicAnswer(name, ok, n) ==
    [name |-> name, error |-> IF ok THEN 0 ELSE 3, topic_id |-> IF ok THEN 9 ELSE 0,
     partitions |-> Each(IF ok THEN Upto(n) ELSE <<>>, LAMBDA p :
        [error |-> 0, index |-> p, leader |-> 1, leader_epoch |-> 0,
         replicas |-> <<[id |-> 1]>>, isr |-> <<[id |-> 1]>>])]

\* No list of topics stands for all there are.
MetadataAnswer(body, ok, n) ==
    [brokers |-> <<[node_id |-> 1, host |-> <<108, 104>>, port |-> 9092]>>,
     cluster_id |-> <<108, 99>>, controller_id |-> 1,
     topics |-> IF body.topics # NULL
                THEN Each(body.topics, LAMBDA t : TopicAnswer(t.name, ok, n))
                ELSE IF ok THEN <<TopicAnswer(<<103>>, ok, n)>> ELSE <<>>]

DescribeAnswer(body, ok, n) ==
    [topics |-> Each(body.topics, LAMBDA t : TopicAnswer(t.name, ok, n))]

InitProducerIdAnswer == [error |-> 0, producer_id |-> 0, producer_epoch |-> 0]

\* All the answers there can be; each goes out under the request's id.
Answers(api, v, body) ==
    LET with_id(a) == a @@ [correlation_id |-> body.correlation_id]
        answers ==
          CASE api = "ApiVersions"    -> {ApiVersionsAnswer(v)}
            [] api = "Produce"        -> {ProduceAnswer(body, ok) : ok \in BOOLEAN}
            [] api = "Fetch"          ->
                 {FetchAnswer(v, body, ok, data) : ok \in BOOLEAN, data \in LogData}
            [] api = "ListOffsets"    -> {ListOffsetsAnswer(body, ok) : ok \in BOOLEAN}
            [] api = "Metadata"       ->
                 {MetadataAnswer(body, ok, n) : ok \in BOOLEAN, n \in PartitionCounts}
            [] api = "InitProducerId" -> {InitProducerIdAnswer}
            [] api = "DescribeTopicPartitions" ->
                 {DescribeAnswer(body, ok, n) : ok \in BOOLEAN, n \in PartitionCounts}
    IN  {with_id(a) : a \in answers}

-----------------------------------------------------------------------------

\* The highest version of an API that both sides know, if there is any.
Common(api) ==
    LET highest == IF client[api][2] < learnt[api][2] THEN client[api][2] ELSE learnt[api][2]
        lowest  == IF client[api][1] > learnt[api][1] THEN client[api][1] ELSE learnt[api][1]
    IN  {v \in {highest} : v >= lowest}

\* The first request asks for the versions, in the highest the client knows.
Choices(api) ==
    IF learnt # NOTHING THEN Common(api)
    ELSE IF api = "ApiVersions" THEN {client[api][2]} ELSE {}

Send(api, v, content) ==
    /\ step = "idle"
    /\ asked.correlation_id < MaxRequests
    /\ v \in Choices(api)
    \* before version 1 there is no null list of topics
    /\ ~(api = "Metadata" /\ v = 0 /\ content.topics = NULL)
    /\ asked' = content @@ [api_key |-> ApiKey[api], api_version |-> v,
                            correlation_id |-> asked.correlation_id + 1]
    /\ message' = Write(ClientWrites(api, v), asked')
    /\ step' = "sent"
    /\ UNCHANGED <<client, learnt, parsed, meant, reply, answer>>

\* process_request looks the key up, the parsers look at the version.
api_of(data) ==
    CHOOSE api \in APIS : ApiKey[api] = bytes_to_int(read_bytes(data, 0, 2))
version_of(data) == bytes_to_int(read_bytes(data, 2, 2))

Parse ==
    /\ step = "sent"
    /\ parsed' = Read(RequestLayout(api_of(message), version_of(message)), message, 0).value
    /\ step' = "parsed"
    /\ UNCHANGED <<client, learnt, asked, message, meant, reply, answer>>

asked_api == CHOOSE api \in APIS : ApiKey[api] = asked.api_key
ReadAsWritten == Agree(ClientWrites(asked_api, asked.api_version), asked, parsed)

\* A number too large for its field raises, and the connection is dropped.
\* (What comes of a request that was misread is not followed up.  `= TRUE` has
\* TLC evaluate the condition as a whole.)
Reply(content) ==
    LET api == api_of(message)
        v   == version_of(message)
    IN  /\ step = "parsed"
        /\ ReadAsWritten = TRUE
        /\ content \in Answers(api, v, parsed)
        /\ meant' = content
        /\ reply' = Write(ResponseLayout(api, v), content)
        /\ step' = IF \E i \in DOMAIN reply' : reply'[i] > 255 THEN "dropped" ELSE "replied"
        /\ UNCHANGED <<client, learnt, asked, message, parsed, answer>>

\* The ranges that an answer to ApiVersions tells.
Ranges(keys) ==
    [api \in APIS |->
        LET told == {i \in DOMAIN keys : keys[i].key = ApiKey[api]}
        IN  IF told = {} THEN <<1, 0>>
            ELSE LET k == keys[CHOOSE i \in told : TRUE] IN <<k.min, k.max>>]

ReadReply ==
    /\ step = "replied"
    /\ answer' = Read(ClientReads(asked_api, asked.api_version), reply, 0)
    /\ learnt' = IF asked_api = "ApiVersions" THEN Ranges(Items(answer'.value.keys)) ELSE learnt
    /\ step' = "read"
    /\ UNCHANGED <<client, asked, message, parsed, meant, reply>>

AnsweredAsMeant ==
    /\ Agree(ClientReads(asked_api, asked.api_version), meant, answer.value)
    /\ answer.pos = Len(reply)
    /\ answer.value.correlation_id = asked.correlation_id

\* The client goes on with its next request, if it made sense of the answer.
Forget ==
    /\ step = "read"
    /\ AnsweredAsMeant = TRUE
    /\ step' = "idle"
    /\ message' = NOTHING /\ parsed' = NOTHING /\ meant' = NOTHING
    /\ reply' = NOTHING /\ answer' = NOTHING
    /\ asked' = [correlation_id |-> asked.correlation_id]
    /\ UNCHANGED <<client, learnt>>

Init ==
    /\ client \in Clients
    /\ learnt = NOTHING
    /\ step = "idle"
    /\ asked = [correlation_id |-> 0]
    /\ message = NOTHING /\ parsed = NOTHING /\ meant = NOTHING
    /\ reply = NOTHING /\ answer = NOTHING

Next ==
    \/ \E api \in APIS : \E v \in Choices(api), content \in Contents[api] :
         Send(api, v, content)
    \/ Parse
    \/ step = "parsed" /\ \E content \in Answers(api_of(message), version_of(message), parsed) :
         Reply(content)
    \/ ReadReply
    \/ Forget

Spec == Init /\ [][Next]_vars

-----------------------------------------------------------------------------

\* Advertised versions that the broker does not speak.  Produce: the parser
\* for 3 to 8 takes 0 to 2 as well and reads a transactional_id that came
\* with 3.  Fetch: see FetchSince12Understood.  InitProducerId: the one parser
\* is for flexible versions, which begin with 2.
Misread ==
    [api \in APIS |->
        CASE api = "Produce" -> 0 .. 2 [] api = "Fetch" -> 12 .. 14
          [] api = "InitProducerId" -> 0 .. 1 [] OTHER -> {}]

\* Advertised versions whose answers it writes otherwise.  Produce: the append
\* time came with 2.  Fetch: throttle_time came with 1, and last_stable_offset
\* with 4, where the encoder writes it from 5 on.  ListOffsets: throttle_time
\* came with 2.  ApiVersions and InitProducerId: the one encoder is for flexible
\* versions, which begin with 3 and 2.
Miswritten ==
    [api \in APIS |->
        CASE api = "Produce" -> 0 .. 1 [] api = "Fetch" -> {0, 4}
          [] api = "ListOffsets" -> {1} [] api = "ApiVersions" -> 0 .. 2
          [] api = "InitProducerId" -> 0 .. 1 [] OTHER -> {}]

\* What the broker reads of a request, through parsers that differ from
\* version to version, is what the client wrote, in every field that both
\* sides know: topics, partitions, offsets, timestamps, records and ids.  So
\* it is in every advertised version but the Misread ones, as long as the
\* lengths that are read as one byte, those of the flexible versions, do not
\* exceed 126.
RequestsUnderstood ==
    step = "parsed" /\ asked.api_version \notin Misread[asked_api]
      /\ FitsOneByte(RequestLayout(asked_api, asked.api_version), asked) => ReadAsWritten

\* What the client reads of the response is what the handler meant, the
\* response ends where the client expects, and it answers this request; in
\* every advertised version but the Miswritten ones, and again as long as
\* what is written as one byte, such as the number of partitions that
\* DescribeTopicPartitions tells, does not exceed 126.
AnswersUnderstood ==
    step = "read" /\ asked.api_version \notin Miswritten[asked_api]
      /\ FitsOneByte(ResponseLayout(asked_api, asked.api_version), meant) => AnsweredAsMeant

\* The docstring in fetch.py: requests of version 12 and later are parsed,
\* with topic names in version 12 and topic ids from 13 on.
FetchSince12Understood ==
    step = "parsed" /\ asked_api = "Fetch" /\ asked.api_version >= 12 => ReadAsWritten
=============================================================================
