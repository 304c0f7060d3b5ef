------------------------------- MODULE Formats ------------------------------
(***************************************************************************)
(* What stands in a message: for each API and version the layout that the  *)
(* broker's parsers and encoders use (app/messages), and the one that the  *)
(* Kafka protocol defines, which is what clients use.                      *)
(***************************************************************************)
EXTENDS Wire

APIS == {"Produce", "Fetch", "ListOffsets", "Metadata", "ApiVersions",
         "InitProducerId", "DescribeTopicPartitions"}

\* The fields that are there from some version on.
When(condition, fields) == IF condition THEN fields ELSE <<>>
Either(condition, a, b) == IF condition THEN a ELSE b

Int8(name)  == Num(name, 1, 0)
Int16(name) == Num(name, 2, 0)
Int32(name) == Num(name, 4, 0)
Int64(name) == Num(name, 8, 0)
Uuid(name)  == Num(name, 16, 0)
Tags        == Int8("tags")

-----------------------------------------------------------------------------
(* Parsers of requests. *)

\* read_header and read_header_flexible.
read_header ==
    <<Int16("api_key"), Int16("api_version"), Int32("correlation_id"),
      Str("client_id", "uint16")>>
read_header_flexible == Append(read_header, Tags)

produce_request(v) ==
    Either(v >= 9, read_header_flexible, read_header) \o
    Either(v >= 9,
      <<Str("transactional_id", "byte"), Int16("acks"), Int32("timeout"),
        Arr("topics", "byte",
          <<Str("name", "byte"),
            Arr("partitions", "byte",
              <<Int32("index"), Str("records", "unchecked_uvarint"), Tags>>), Tags>>), Tags>>,
      <<Str("transactional_id", "int16"), Int16("acks"), Int32("timeout"),
        Arr("topics", "uint32",
          <<Str("name", "uint16"),
            Arr("partitions", "uint32",
              <<Int32("index"), Str("records", "uint32")>>)>>)>>)

fetch_request_flexible(v) ==
    <<Int32("max_wait"), Int32("min_bytes"), Int32("max_bytes"), Int8("isolation"),
      Int32("session_id"), Int32("session_epoch"),
      Arr("topics", "byte",
        <<Either(v >= 13, Uuid("topic_id"), Str("name", "byte")),
          Arr("partitions", "byte",
            <<Int32("index"), Int32("leader_epoch"), Int64("fetch_offset"),
              Int32("last_epoch"), Int64("start_offset"), Int32("max_bytes"), Tags>>),
          Tags>>),
      Arr("forgotten", "byte",
        <<Uuid("topic_id"), Arr("partitions", "byte", <<Int32("index")>>), Tags>>),
      Str("rack_id", "byte"), Tags>>

fetch_request_legacy(v) ==
    <<Int32("replica_id"), Int32("max_wait"), Int32("min_bytes")>>
    \o When(v >= 3, <<Int32("max_bytes")>>)
    \o When(v >= 4, <<Int8("isolation")>>)
    \o When(v >= 7, <<Int32("session_id"), Int32("session_epoch")>>)
    \o <<Arr("topics", "uint32",
           <<Str("name", "uint16"),
             Arr("partitions", "uint32",
               <<Int32("index")>> \o When(v >= 9, <<Int32("leader_epoch")>>)
               \o <<Int64("fetch_offset")>> \o When(v >= 5, <<Int64("start_offset")>>)
               \o <<Int32("max_bytes")>>)>>)>>
    \o When(v >= 7,
         <<Arr("forgotten", "uint32",
             <<Str("name", "uint16"), Arr("partitions", "uint32", <<Int32("index")>>)>>)>>)
    \o When(v >= 11, <<Str("rack_id", "uint16")>>)

fetch_request(v) ==
    Either(v >= 12, read_header_flexible \o fetch_request_flexible(v),
                    read_header \o fetch_request_legacy(v))

list_offsets_request(v) ==
    read_header \o <<Int32("replica_id")>> \o When(v >= 2, <<Int8("isolation")>>)
    \o <<Arr("topics", "uint32",
           <<Str("name", "uint16"),
             Arr("partitions", "uint32",
               <<Int32("index")>> \o When(v >= 4, <<Int32("leader_epoch")>>)
               \o <<Int64("timestamp")>>)>>)>>

metadata_request(v) ==
    read_header \o <<Arr("topics", "int32", <<Str("name", "uint16")>>)>>
    \o When(v >= 4, <<Int8("auto_create")>>) \o When(v >= 8, <<Int16("authorized")>>)

api_versions_request ==
    read_header_flexible \o
    <<Str("software_name", "byte"), Str("software_version", "byte"), Tags>>

init_producer_id_request ==
    read_header_flexible \o
    <<Str("transactional_id", "byte"), Int32("timeout"), Int64("producer_id"),
      Int16("producer_epoch"), Tags>>

describe_request ==
    read_header_flexible \o
    <<Arr("topics", "byte", <<Str("name", "unchecked"), Tags>>), Int32("limit"),
      Int8("cursor"), Tags>>

RequestLayout(api, v) ==
    CASE api = "Produce"        -> produce_request(v)
      [] api = "Fetch"          -> fetch_request(v)
      [] api = "ListOffsets"    -> list_offsets_request(v)
      [] api = "Metadata"       -> metadata_request(v)
      [] api = "ApiVersions"    -> api_versions_request
      [] api = "InitProducerId" -> init_producer_id_request
      [] api = "DescribeTopicPartitions" -> describe_request

-----------------------------------------------------------------------------
(* Encoders of responses. *)

ResponseHeaderV0 == <<Int32("correlation_id")>>
ResponseHeaderV1 == Append(ResponseHeaderV0, Tags)

produce_response_partition(v) ==
    <<Int32("index"), Int16("error"), Int64("base_offset"), Num("append_time", 8, -1)>>
    \o When(v >= 5, <<Int64("start_offset")>>)
    \o When(v >= 9, <<Arr("record_errors", "uvarint", <<>>), Num("message", 1, 0), Tags>>)
    \o When(v = 8,  <<Arr("record_errors", "int32", <<>>), Num("message", 2, -1)>>)

produce_response(v) ==
    LET partitions == produce_response_partition(v)
    IN  Either(v >= 9, ResponseHeaderV1, ResponseHeaderV0) \o
        Either(v >= 9,
          <<Arr("topics", "byte",
              <<Str("name", "uvarint"), Arr("partitions", "byte", partitions), Tags>>),
            Int32("throttle_time"), Tags>>,
          <<Arr("topics", "int32",
              <<Str("name", "int16"), Arr("partitions", "int32", partitions)>>),
            Int32("throttle_time")>>)

fetch_response_partition ==
    <<Int32("index"), Int16("error"), Int64("high_watermark"), Int64("stable_offset"),
      Int64("start_offset"), Arr("aborted", "uvarint", <<>>), Num("preferred", 4, -1),
      Str("records", "uvarint"), Tags>>

fetch_response_partition_legacy_StartOffsetLater(v) ==
    <<Int32("index"), Int16("error"), Int64("high_watermark")>>
    \o When(v >= 5, <<Int64("stable_offset")>>) \o When(v >= 6, <<Int64("start_offset")>>)
    \o When(v >= 4, <<Num("aborted_count", 4, -1)>>) \o When(v >= 11, <<Num("preferred", 4, -1)>>)
    \o <<Str("records", "int32")>>
fetch_response_partition_legacy(v) ==
    <<Int32("index"), Int16("error"), Int64("high_watermark")>>
    \o When(v >= 5, <<Int64("stable_offset")>>) \o When(v >= 5, <<Int64("start_offset")>>)
    \o When(v >= 4, <<Num("aborted_count", 4, -1)>>) \o When(v >= 11, <<Num("preferred", 4, -1)>>)
    \o <<Str("records", "int32")>>

fetch_response(v) ==
    Either(v >= 12, ResponseHeaderV1, ResponseHeaderV0) \o
    <<Int32("throttle_time")>>
    \o When(v >= 7, <<Int16("error"), Int32("session_id")>>)
    \o Either(v >= 12,
         <<Arr("topics", "byte",
             <<Either(v >= 13, Uuid("topic_id"), Str("name", "uvarint")),
               Arr("partitions", "byte", fetch_response_partition), Tags>>), Tags>>,
         <<Arr("topics", "int32",
             <<Str("name", "int16"),
               Arr("partitions", "int32", fetch_response_partition_legacy(v))>>)>>)

list_offsets_response(v) ==
    ResponseHeaderV0 \o
    <<Int32("throttle_time"),
      Arr("topics", "int32",
        <<Str("name", "int16"),
          Arr("partitions", "int32",
            <<Int32("index"), Int16("error"), Num("timestamp", 8, -1), Int64("offset")>>
            \o When(v >= 4, <<Int32("leader_epoch")>>))>>)>>

metadata_response(v) ==
    ResponseHeaderV0 \o When(v >= 3, <<Int32("throttle_time")>>)
    \o <<Arr("brokers", "int32",
           <<Int32("node_id"), Str("host", "int16"), Int32("port")>>
           \o When(v >= 1, <<Str("rack", "int16")>>))>>
    \o When(v >= 2, <<Str("cluster_id", "int16")>>)
    \o When(v >= 1, <<Int32("controller_id")>>)
    \o <<Arr("topics", "int32",
           <<Int16("error"), Str("name", "int16")>> \o When(v >= 1, <<Int8("is_internal")>>)
           \o <<Arr("partitions", "int32",
                  <<Int16("error"), Int32("index"), Int32("leader")>>
                  \o When(v >= 7, <<Int32("leader_epoch")>>)
                  \o <<Arr("replicas", "int32", <<Int32("id")>>),
                       Arr("isr", "int32", <<Int32("id")>>)>>
                  \o When(v >= 5, <<Arr("offline", "int32", <<>>)>>))>>
           \o When(v >= 8, <<Int32("authorized")>>))>>
    \o When(v >= 8, <<Int32("authorized")>>)

api_versions_response ==
    ResponseHeaderV0 \o
    <<Int16("error"),
      Arr("keys", "byte", <<Int16("key"), Int16("min"), Int16("max"), Tags>>),
      Int32("throttle_time"), Tags>>

init_producer_id_response ==
    ResponseHeaderV1 \o
    <<Int32("throttle_time"), Int16("error"), Int64("producer_id"),
      Int16("producer_epoch"), Tags>>

describe_response ==
    LET nodes(name) == Arr(name, "byte", <<Int32("id")>>)
    IN  ResponseHeaderV1 \o
        <<Int32("throttle_time"),
          Arr("topics", "byte",
            <<Int16("error"), Str("name", "byte"), Uuid("topic_id"), Int8("is_internal"),
              Arr("partitions", "byte",
                <<Int16("error"), Int32("index"), Int32("leader"), Int32("leader_epoch"),
                  nodes("replicas"), nodes("isr"), nodes("eligible"), nodes("last_eligible"),
                  nodes("offline"), Tags>>),
              Int32("authorized"), Tags>>),
          Num("cursor", 1, -1), Tags>>

ResponseLayout(api, v) ==
    CASE api = "Produce"        -> produce_response(v)
      [] api = "Fetch"          -> fetch_response(v)
      [] api = "ListOffsets"    -> list_offsets_response(v)
      [] api = "Metadata"       -> metadata_response(v)
      [] api = "ApiVersions"    -> api_versions_response
      [] api = "InitProducerId" -> init_producer_id_response
      [] api = "DescribeTopicPartitions" -> describe_response
=============================================================================
