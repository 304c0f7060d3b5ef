---------------------------- MODULE KafkaProtocol ---------------------------
(***************************************************************************)
(* The other side of module Formats: how clients of the Kafka protocol     *)
(* (kafka-python in tools/ and in the performance tests) write requests    *)
(* and read responses.  The protocol is not part of the repository: this   *)
(* is its published definition for the versions the broker advertises.     *)
(***************************************************************************)
EXTENDS Formats

\* From this version on lengths are uvarints and tagged fields follow.
FlexibleSince ==
    [api \in APIS |->
        CASE api = "Produce" -> 9 [] api = "Fetch" -> 12 [] api = "ListOffsets" -> 6
          [] api = "Metadata" -> 9 [] api = "ApiVersions" -> 3
          [] api = "InitProducerId" -> 2 [] api = "DescribeTopicPartitions" -> 0]

Flexible(api, v) == v >= FlexibleSince[api]

String(flexible, name) == Str(name, IF flexible THEN "uvarint" ELSE "int16")
Blob(flexible, name)   == Str(name, IF flexible THEN "uvarint" ELSE "int32")
List(flexible, name, of) ==
    Arr(name, IF flexible THEN "uvarint" ELSE "int32", of)
Structs(flexible, name, of) == List(flexible, name, of \o When(flexible, <<Tags>>))
Ids(flexible, name) == List(flexible, name, <<Int32("id")>>)

RequestBody(api, v) ==
    LET x == Flexible(api, v)
    IN  CASE api = "Produce" ->
               When(v >= 3, <<String(x, "transactional_id")>>)
               \o <<Num("acks", 2, 1), Num("timeout", 4, 30000),
                    Structs(x, "topics",
                      <<String(x, "name"),
                        Structs(x, "partitions", <<Int32("index"), Blob(x, "records")>>)>>)>>
          [] api = "Fetch" ->
               When(v <= 14, <<Num("replica_id", 4, -1)>>)
               \o <<Num("max_wait", 4, 500), Num("min_bytes", 4, 1)>>
               \o When(v >= 3, <<Num("max_bytes", 4, 1000)>>)
               \o When(v >= 4, <<Int8("isolation")>>)
               \o When(v >= 7, <<Int32("session_id"), Num("session_epoch", 4, -1)>>)
               \o <<Structs(x, "topics",
                      <<IF v >= 13 THEN Uuid("topic_id") ELSE String(x, "name"),
                        Structs(x, "partitions",
                          <<Int32("index")>> \o When(v >= 9, <<Num("leader_epoch", 4, -1)>>)
                          \o <<Int64("fetch_offset")>>
                          \o When(v >= 12, <<Num("last_epoch", 4, -1)>>)
                          \o When(v >= 5, <<Num("start_offset", 8, -1)>>)
                          \o <<Num("max_bytes", 4, 1000)>>)>>)>>
               \o When(v >= 7,
                    <<Structs(x, "forgotten",
                        <<IF v >= 13 THEN Uuid("topic_id") ELSE String(x, "name"),
                          Ids(x, "partitions")>>)>>)
               \o When(v >= 11, <<String(x, "rack_id")>>)
          [] api = "ListOffsets" ->
               <<Num("replica_id", 4, -1)>> \o When(v >= 2, <<Int8("isolation")>>)
               \o <<Structs(x, "topics",
                      <<String(x, "name"),
                        Structs(x, "partitions",
                          <<Int32("index")>> \o When(v >= 4, <<Num("leader_epoch", 4, -1)>>)
                          \o <<Int64("timestamp")>>)>>)>>
          [] api = "Metadata" ->
               <<Structs(x, "topics", <<String(x, "name")>>)>>
               \o When(v >= 4, <<Int8("auto_create")>>)
          [] api = "ApiVersions" ->
               When(v >= 3, <<String(x, "software_name"), String(x, "software_version")>>)
          [] api = "InitProducerId" ->
               <<String(x, "transactional_id"), Num("timeout", 4, 60000)>>
               \o When(v >= 3, <<Num("producer_id", 8, -1), Num("producer_epoch", 2, -1)>>)
          [] api = "DescribeTopicPartitions" ->
               <<Structs(x, "topics", <<String(x, "name")>>), Num("limit", 4, 2000),
                 Num("cursor", 1, -1)>>

ClientWrites(api, v) ==
    <<Int16("api_key"), Int16("api_version"), Int32("correlation_id"),
      Str("client_id", "int16")>>
    \o When(Flexible(api, v), <<Tags>>)
    \o RequestBody(api, v) \o When(Flexible(api, v), <<Tags>>)

ResponseBody(api, v) ==
    LET x == Flexible(api, v)
    IN  CASE api = "Produce" ->
               <<Structs(x, "topics",
                   <<String(x, "name"),
                     Structs(x, "partitions",
                       <<Int32("index"), Int16("error"), Int64("base_offset")>>
                       \o When(v >= 2, <<Int64("append_time")>>)
                       \o When(v >= 5, <<Int64("start_offset")>>)
                       \o When(v >= 8,
                            <<Structs(x, "record_errors", <<Int32("index"), String(x, "message")>>),
                              String(x, "message")>>))>>)>>
               \o When(v >= 1, <<Int32("throttle_time")>>)
          [] api = "Fetch" ->
               When(v >= 1, <<Int32("throttle_time")>>)
               \o When(v >= 7, <<Int16("error"), Int32("session_id")>>)
               \o <<Structs(x, "topics",
                      <<IF v >= 13 THEN Uuid("topic_id") ELSE String(x, "name"),
                        Structs(x, "partitions",
                          <<Int32("index"), Int16("error"), Int64("high_watermark")>>
                          \o When(v >= 4, <<Int64("stable_offset")>>)
                          \o When(v >= 5, <<Int64("start_offset")>>)
                          \o When(v >= 4,
                               <<Structs(x, "aborted", <<Int64("producer_id"), Int64("offset")>>)>>)
                          \o When(v >= 11, <<Int32("preferred")>>)
                          \o <<Blob(x, "records")>>)>>)>>
          [] api = "ListOffsets" ->
               When(v >= 2, <<Int32("throttle_time")>>)
               \o <<Structs(x, "topics",
                      <<String(x, "name"),
                        Structs(x, "partitions",
                          <<Int32("index"), Int16("error"), Int64("timestamp"), Int64("offset")>>
                          \o When(v >= 4, <<Int32("leader_epoch")>>))>>)>>
          [] api = "Metadata" ->
               When(v >= 3, <<Int32("throttle_time")>>)
               \o <<Structs(x, "brokers",
                      <<Int32("node_id"), String(x, "host"), Int32("port")>>
                      \o When(v >= 1, <<String(x, "rack")>>))>>
               \o When(v >= 2, <<String(x, "cluster_id")>>)
               \o When(v >= 1, <<Int32("controller_id")>>)
               \o <<Structs(x, "topics",
                      <<Int16("error"), String(x, "name")>> \o When(v >= 1, <<Int8("is_internal")>>)
                      \o <<Structs(x, "partitions",
                             <<Int16("error"), Int32("index"), Int32("leader"),
                               Ids(x, "replicas"), Ids(x, "isr")>>
                             \o When(v >= 5, <<Ids(x, "offline")>>))>>)>>
          [] api = "ApiVersions" ->
               <<Int16("error"),
                 Structs(x, "keys", <<Int16("key"), Int16("min"), Int16("max")>>)>>
               \o When(v >= 1, <<Int32("throttle_time")>>)
          [] api = "InitProducerId" ->
               <<Int32("throttle_time"), Int16("error"), Int64("producer_id"),
                 Int16("producer_epoch")>>
          [] api = "DescribeTopicPartitions" ->
               <<Int32("throttle_time"),
                 Structs(x, "topics",
                   <<Int16("error"), String(x, "name"), Uuid("topic_id"), Int8("is_internal"),
                     Structs(x, "partitions",
                       <<Int16("error"), Int32("index"), Int32("leader"), Int32("leader_epoch"),
                         Ids(x, "replicas"), Ids(x, "isr"), Ids(x, "eligible"),
                         Ids(x, "last_eligible"), Ids(x, "offline")>>),
                     Int32("authorized")>>),
                 Int8("cursor")>>

\* Answers to ApiVersions never have tagged fields in their header.
ClientReads(api, v) ==
    <<Int32("correlation_id")>>
    \o When(Flexible(api, v) /\ api # "ApiVersions", <<Tags>>)
    \o ResponseBody(api, v) \o When(Flexible(api, v), <<Tags>>)
=============================================================================
