------------------------------ MODULE Delivery ------------------------------
(***************************************************************************)
(* Producers that retry and a consumer that follows, over connections that *)
(* lose requests and answers: what becomes of a message end to end.  The   *)
(* broker hands the same producer id and epoch to everybody                *)
(* (init_producer_id.py) and never looks at sequence numbers, so a retry   *)
(* is a new append.                                                        *)
(*                                                                         *)
(* One partition; an append is one step, which Broker shows it to be.  The *)
(* clients are kafka-python's, as tools/producer.py, tools/consumer.py and *)
(* the load tests use them.                                                *)
(***************************************************************************)
EXTENDS PartitionLog, FiniteSets

CONSTANTS
    Producers,
    Counts,         \* how many records a message can have
    MaxMessages,    \* bound: messages of a producer
    Retries,        \* how often a producer sends a message again (0 in tools/)
    StartOffsets,   \* where a consumer may begin
    MaxLosses       \* bound: requests and answers lost

ASSUME DeliveryAssumption ==
    /\ Counts \subseteq Nat \ {0}
    /\ MaxMessages \in Nat /\ Retries \in Nat /\ MaxLosses \in Nat
    /\ StartOffsets \subseteq Nat

\* The n-th message of a producer, sent for the a-th time.
Source  == Producers \X (Nat \ {0}) \X (Nat \ {0})
Message == [src : Source, count : Nat \ {0}]

VARIABLES
    log,            \* of the partition
    sending,        \* per producer: the message it wants an answer for, or Idle
    sent,           \* how many messages it has begun to send
    requests,       \* produce requests under way
    answers,        \* answers under way: the batch as it was stored
    acked,          \* answers that arrived in time
    start, position,\* where the consumer began, and what it will fetch next
    fetched,        \* the answer to its fetch, or Nothing
    consumed,       \* what it took: offset to records
    losses          \* how many requests and answers were lost

vars == <<log, sending, sent, requests, answers, acked, start, position, fetched,
          consumed, losses>>
producer == <<sending, sent, requests, answers, acked>>
consumer == <<start, position, fetched, consumed>>

Idle    == [src |-> <<>>, count |-> 0]
Nothing == [batches |-> <<>>, waiting |-> FALSE]

TypeOK ==
    /\ log \in Seq(Batch(Source))
    /\ sending \in [Producers -> Message \cup {Idle}]
    /\ sent \in [Producers -> Nat]
    /\ requests \subseteq Message
    /\ answers \subseteq Batch(Source) /\ acked \subseteq Batch(Source)
    /\ start \in Nat /\ position \in Nat /\ losses \in Nat
    /\ fetched \in [batches : Seq(Batch(Source)), waiting : BOOLEAN]

-----------------------------------------------------------------------------
(* Producers *)

Send(p, count) ==
    /\ sending[p] = Idle
    /\ sent[p] < MaxMessages
    /\ LET message == [src |-> <<p, sent[p] + 1, 1>>, count |-> count]
       IN  /\ sending' = [sending EXCEPT ![p] = message]
           /\ requests' = requests \cup {message}
    /\ sent' = [sent EXCEPT ![p] = @ + 1]
    /\ UNCHANGED <<log, answers, acked, consumer, losses>>

\* No answer in time, be it lost or late: the connection is closed, with an
\* answer that may be on it, and the request is sent again on another.  The
\* first request may still be under way.
Closing(p) == {batch \in answers : batch.src # sending[p].src}

Retry(p) ==
    /\ sending[p] # Idle
    /\ sending[p].src[3] <= Retries
    /\ LET again == [sending[p] EXCEPT !.src[3] = @ + 1]
       IN  /\ sending' = [sending EXCEPT ![p] = again]
           /\ requests' = requests \cup {again}
    /\ answers' = Closing(p)
    /\ UNCHANGED <<log, sent, acked, consumer, losses>>

\* The last attempt failed, for all the producer knows.
GiveUp(p) ==
    /\ sending[p] # Idle
    /\ sending[p].src[3] > Retries
    /\ sending' = [sending EXCEPT ![p] = Idle]
    /\ answers' = Closing(p)
    /\ UNCHANGED <<log, sent, requests, acked, consumer, losses>>

Acknowledged(batch) ==
    LET p == batch.src[1]
    IN  /\ batch \in answers
        /\ answers' = answers \ {batch}
        /\ acked' = acked \cup {batch}
        /\ sending' = [sending EXCEPT ![p] = Idle]
        /\ UNCHANGED <<log, sent, requests, consumer, losses>>

-----------------------------------------------------------------------------
(* The broker *)

\* handle_init_producer_id_request: the id and epoch of every producer.
InitProducerId(p) == [producer_id |-> 0, producer_epoch |-> 0]

\* The base offset a request gets.  (Definitions in the style of Base_IfNew are
\* faulty variants of the definition behind them, to see that a property fails
\* with them: this one trusts the producer id and the sequence number, as a
\* broker may whose ids are its own, and names the offset of the first attempt.)
SameSequence(message, batch) ==
    /\ InitProducerId(batch.src[1]) = InitProducerId(message.src[1])
    /\ batch.src[2] = message.src[2]
Base_IfNew(message) ==
    LET same == {i \in DOMAIN log : SameSequence(message, log[i])}
    IN  IF same = {} THEN LogEndOffset(log) ELSE log[CHOOSE i \in same : TRUE].base
Base_OfLast(message) == LogEndOffset(log) - 1
Base(message) == LogEndOffset(log)
Stored(message) == [base |-> Base(message), count |-> message.count, src |-> message.src]

\* handle_produce_request; there is no connection to answer an attempt on that
\* its producer gave up.
Handled_MayRepeat(message) == requests
Handled(message) == requests \ {message}
Produce(message) ==
    /\ message \in requests
    /\ requests' = Handled(message)
    /\ log' = Append(log, Stored(message))
    /\ answers' = IF sending[message.src[1]] = message
                  THEN answers \cup {Stored(message)} ELSE answers
    /\ UNCHANGED <<sending, sent, acked, consumer, losses>>

\* A request or an answer goes down with its connection.
Lose ==
    /\ losses < MaxLosses
    /\ losses' = losses + 1
    /\ \/ \E message \in requests :
            requests' = requests \ {message} /\ UNCHANGED answers
       \/ \E batch \in answers :
            answers' = answers \ {batch} /\ UNCHANGED requests
    /\ UNCHANGED <<log, sending, sent, acked, consumer>>

-----------------------------------------------------------------------------
(* The consumer *)

\* handle_fetch_request
Fetched_Aligned(offset) ==
    IF \E i \in DOMAIN log : log[i].base = offset THEN ReadLogFrom(log, offset) ELSE <<>>
Fetched(offset) == ReadLogFrom(log, offset)

Fetch ==
    /\ fetched = Nothing
    /\ fetched' = [batches |-> Fetched(position), waiting |-> TRUE]
    /\ UNCHANGED <<log, producer, start, position, consumed, losses>>

\* The records that batches hold at an offset: one, or none.
RecordsAt(batches, offset) ==
    {<<batches[i].src, offset - batches[i].base>> :
        i \in {i \in DOMAIN batches : Covers(batches[i], offset)}}

\* The client passes over records in front of its position.
Consume ==
    /\ fetched.waiting
    /\ fetched' = Nothing
    /\ LET batches == fetched.batches
           end == IF batches = <<>> THEN position ELSE LogEndOffset(batches)
       IN  /\ position' = end
           /\ consumed' = [o \in start .. end - 1 |->
                              IF o < position THEN consumed[o] ELSE RecordsAt(batches, o)]
    /\ UNCHANGED <<log, producer, start, losses>>

\* The answer to the fetch is lost; the client fetches again.
LoseFetched ==
    /\ fetched.waiting
    /\ losses < MaxLosses
    /\ losses' = losses + 1
    /\ fetched' = Nothing
    /\ UNCHANGED <<log, producer, start, position, consumed>>

Init ==
    /\ log = <<>>
    /\ sending = [p \in Producers |-> Idle]
    /\ sent = [p \in Producers |-> 0]
    /\ requests = {} /\ answers = {} /\ acked = {}
    /\ start \in StartOffsets /\ position = start
    /\ fetched = Nothing
    /\ consumed = <<>>
    /\ losses = 0

Next ==
    \/ \E p \in Producers : \/ \E count \in Counts : Send(p, count)
                            \/ Retry(p)
                            \/ GiveUp(p)
    \/ \E batch \in answers : Acknowledged(batch)
    \/ \E message \in requests : Produce(message)
    \/ Lose
    \/ Fetch \/ Consume \/ LoseFetched

Spec == Init /\ [][Next]_vars

\* The consumer of tools/consumer.py polls for ever, and the broker answers
\* whoever reads (RequestsAreAnswered of Broker).
FairSpec == Spec /\ WF_vars(Fetch) /\ WF_vars(Consume)

-----------------------------------------------------------------------------

\* Whoever reads at the offset a producer was told finds the message there,
\* as that attempt sent it, although all producers have the same id and
\* number their messages alike.
AckedIsStored ==
    \A batch \in acked :
        LET read == ReadLogFrom(log, batch.base)
        IN  read # <<>> /\ read[1] = batch

\* A message is stored at most once for each time it was sent; without
\* retries, at most once.  Nobody else removes duplicates.
CopiesWithinAttempts ==
    \A i, j \in DOMAIN log :
        /\ log[i].src = log[j].src => i = j
        /\ log[i].src[3] <= Retries + 1

\* The consumer has taken the records from its start up to its position, each
\* once and as they are in the log, although each fetch begins with a whole
\* batch and may be lost.
ConsumedIsTheLog ==
    position > start => consumed = [o \in start .. position - 1 |-> RecordsAt(log, o)]

\* What was acknowledged at or behind the consumer's start is consumed.
AckedIsConsumed ==
    \A o \in 0 .. Cardinality(Producers) * MaxMessages * (Retries + 1) :
        (o >= start /\ \E batch \in acked : Covers(batch, o)) ~> position > o
=============================================================================
