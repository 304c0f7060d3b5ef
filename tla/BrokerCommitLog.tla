-------------------------- MODULE BrokerCommitLog ---------------------------
(***************************************************************************)
(* The broker implements CommitLog.  A stream is the sequence of records   *)
(* that the batches of a log stand for; the facts told are those in the    *)
(* responses written.                                                      *)
(***************************************************************************)
EXTENDS Broker

\* The records of a log or of a piece of one, batch by batch.
RecordAt(log, offset) ==
    LET b == CHOOSE b \in {log[i] : i \in DOMAIN log} : Covers(b, offset)
    IN  <<b.src, offset - b.base + 1>>

Stream(log) == [n \in 1 .. LogEndOffset(log) |-> RecordAt(log, n - 1)]

\* The records of fetched batches, which start at data[1].base.
Fetched(data) ==
    IF data = <<>> THEN <<>>
    ELSE [n \in 1 .. LogEndOffset(data) - data[1].base |->
             RecordAt(data, data[1].base + n - 1)]

Stored(by, tp, offset, count) ==
    [kind |-> "stored", by |-> by, tp |-> tp, offset |-> offset, count |-> count]
Refused(by)      == [kind |-> "refused", by |-> by]
End(by, tp, end) == [kind |-> "end", by |-> by, tp |-> tp, end |-> end]
Read(by, tp, from, records) ==
    [kind |-> "read", by |-> by, tp |-> tp, from |-> from, records |-> records]

\* What response entry k to `body` tells its client.
FactsOf(by, body, k, p) ==
    CASE body.api = "Produce" /\ p.error # NO_ERROR -> {Refused(by)}
      [] body.api = "Produce" /\ p.error = NO_ERROR ->
           {Stored(by, p.tp, p.offset, body.parts[k].arg)}
      [] body.api = "Fetch" /\ p.error = NO_ERROR ->
           {End(by, p.tp, p.offset)} \cup
           (IF p.data = <<>> THEN {}
            ELSE {Read(by, p.tp, p.data[1].base, Fetched(p.data))})
      [] body.api = "ListOffsets" /\ p.error = NO_ERROR /\ body.parts[k].arg = LATEST ->
           {End(by, p.tp, p.offset)}
      [] OTHER -> {}

Told ==
    UNION {UNION {UNION {FactsOf(<<c, responses[c][n].cid, k>>,
                                 requests[c][responses[c][n].cid], k,
                                 responses[c][n].parts[k]) :
                         k \in DOMAIN responses[c][n].parts} :
                  n \in DOMAIN responses[c]} :
           c \in Conns}

Abstract == INSTANCE CommitLog WITH
    Partitions <- TopicPartitions,
    Entries    <- Source,
    stream     <- [tp \in TopicPartitions |-> Stream(logs[tp])],
    told       <- Told

\* Every step of the broker publishes one produce entry whole, gives one
\* answer whose facts (ends, contents, acknowledgements and refusals of all
\* its partitions) hold together at that instant, or changes nothing that
\* clients can see.
ImplementsCommitLog == Abstract!Spec
=============================================================================
