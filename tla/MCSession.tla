------------------------------ MODULE MCSession -----------------------------
(***************************************************************************)
(* Small instances of Session for TLC: clients by the versions they know,  *)
(* and requests whose lengths and counts lie at the limits.                *)
(***************************************************************************)
EXTENDS Session

\* A client of today, which knows more than the broker does.
Modern ==
    [api \in APIS |->
        CASE api = "Produce" -> <<3, 12>> [] api = "Fetch" -> <<4, 17>>
          [] api = "ListOffsets" -> <<1, 10>> [] api = "Metadata" -> <<0, 13>>
          [] api = "ApiVersions" -> <<0, 4>> [] api = "InitProducerId" -> <<0, 5>>
          [] api = "DescribeTopicPartitions" -> <<0, 0>>]

\* The same, but for one API an old one that knows no version after v.
Old(api, v) == [Modern EXCEPT ![api] = <<0, v>>]

\* For each API and each version that the broker advertises and the protocol
\* has, a client that negotiates just that version.
AdvertisedClients ==
    UNION {{Old(api, v) : v \in Advertised[api][1] .. Advertised[api][2]} :
             api \in APIS \ {"DescribeTopicPartitions"}}
      \cup {Modern}
Fetch12Clients == {Old("Fetch", v) : v \in 12 .. 16}

\* Names of one byte, the longest whose length still fits one byte on both
\* sides, and one that is longer.
Short == <<103>>
Name(n) == [i \in 1 .. n |-> 96 + (i % 26)]
Longest == Name(126)
TooLong == Name(127)

\* Lengths of record batches need a second byte from 127 on.
MCLogData == {<<>>, Name(130)}

From == [client_id |-> <<99>>]

MCContents ==
    [api \in APIS |->
        CASE api = "Produce" ->
               {From @@ [transactional_id |-> NULL, topics |->
                  <<[name |-> Longest, partitions |-> <<[index |-> 0, records |-> Name(130)],
                                                     [index |-> 1, records |-> Short]>>],
                    [name |-> Short, partitions |-> <<[index |-> 0, records |-> Name(126)]>>]>>],
                From @@ [transactional_id |-> Short, topics |-> <<>>],
                From @@ [topics |->
                  <<[name |-> TooLong, partitions |-> <<[index |-> 0, records |-> Short]>>]>>]}
          [] api = "Fetch" ->
               {From @@ [rack_id |-> Short, topics |->
                  <<[name |-> Longest, topic_id |-> 7, partitions |->
                       <<[index |-> 0, fetch_offset |-> 0], [index |-> 1, fetch_offset |-> 300]>>],
                    [name |-> Short, topic_id |-> 8, partitions |->
                       <<[index |-> 2, fetch_offset |-> 70000]>>]>>],
                From @@ [topics |->
                  <<[name |-> TooLong, topic_id |-> 7, partitions |->
                       <<[index |-> 0, fetch_offset |-> 0]>>]>>],
                From @@ [topics |-> <<>>, forgotten |->
                  <<[name |-> Short, topic_id |-> 7, partitions |-> <<[id |-> 0], [id |-> 1]>>]>>]}
          [] api = "ListOffsets" ->
               {From @@ [topics |->
                  <<[name |-> Longest, partitions |-> <<[index |-> 0, timestamp |-> -1],
                                                     [index |-> 1, timestamp |-> -2]>>],
                    [name |-> Short, partitions |-> <<[index |-> 0, timestamp |-> 77]>>]>>]}
          [] api = "Metadata" ->
               {From @@ [topics |-> NULL], From @@ [topics |-> <<>>],
                From @@ [topics |-> <<[name |-> Short], [name |-> Longest]>>]}
          [] api = "ApiVersions" ->
               {From @@ [software_name |-> Short, software_version |-> <<49>>]}
          [] api = "InitProducerId" ->
               {From @@ [transactional_id |-> NULL], From @@ [transactional_id |-> Short]}
          [] api = "DescribeTopicPartitions" ->
               {From @@ [topics |-> <<[name |-> Longest], [name |-> Short]>>],
                From @@ [topics |-> <<[name |-> TooLong]>>]}]
=============================================================================
