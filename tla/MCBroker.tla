------------------------------ MODULE MCBroker ------------------------------
(***************************************************************************)
(* Small instances of Broker for TLC: the topics, and one workload for     *)
(* each configuration.                                                     *)
(***************************************************************************)
EXTENDS BrokerCommitLog, TLC

CONSTANTS c1, c2, t1, t2, nameless

MCConns == {c1, c2}

Entries(topic, arg) == <<[tp |-> <<topic, 0>>, arg |-> arg]>>
Req(api, version, parts) == [api |-> api, api_version |-> version, parts |-> parts]

-----------------------------------------------------------------------------
(* What is stored and read.  t1 is registered with one partition and t2    *)
(* with none; the tool can add one, which is known after a restart.        *)

StoreTopics        == {t1, t2, nameless}
StoreMetadata      == [topics |-> {t1, t2}, partitions |-> {<<t1, 0>>}]
StoreRegistrations == {[topic |-> t2, partitions |-> {<<t2, 0>>}]}

\* One partition that is unknown at first and one that is known, twice.
ProduceMany == Req("Produce", 9, Entries(t2, 1) \o Entries(t1, 1) \o Entries(t1, 2))

\* From the start, inside a batch, and beyond the end; by name, without a
\* name, and by uuid.
FetchByName == Req("Fetch", 12, Entries(nameless, 0) \o Entries(t1, 1))
FetchById   == Req("Fetch", 13, Entries(t2, 0) \o Entries(t1, 2))
ListMany    == Req("ListOffsets", 1, Entries(t2, LATEST) \o Entries(t1, LATEST))

StoreWorkload == {ProduceMany, FetchByName, FetchById, ListMany}
ConnSymmetry  == Permutations(MCConns)

-----------------------------------------------------------------------------
(* Who is answered, and what the answers to several partitions say         *)
(* together.  Both topics are known.  Here the two clients differ.         *)

AnswerTopics   == {t1, t2, nameless}
AnswerMetadata == [topics |-> {t1, t2}, partitions |-> {<<t1, 0>>, <<t2, 0>>}]
ProduceBoth == Req("Produce", 9, Entries(t1, 1) \o Entries(t2, 1))
FetchBoth   == Req("Fetch", 13, Entries(t2, 0) \o Entries(t1, 0))
UnknownKey  == Req("UnknownKey", 0, <<>>)
Unparsable  == Req("Unparsable", 0, <<>>)

AnswerWorkload == {ProduceBoth, FetchBoth, UnknownKey, Unparsable}

\* c2's client may send and never read.
MCReaders == {c1}
=============================================================================
