--------------------------- MODULE DeliveryProofs ---------------------------
(***************************************************************************)
(* Theorems about Delivery, for any producers, retries, losses and starts. *)
(*                                                                         *)
(* AckedIsStored is not inductive: what is acknowledged was an answer      *)
(* before, and an answer's batch is found by its offset only because the   *)
(* log's offsets are contiguous.  StoredInv adds both.                     *)
(***************************************************************************)
EXTENDS Delivery, PartitionLogProofs

StoredInv ==
    /\ TypeOK
    /\ Contiguous(log)
    /\ \A batch \in answers \cup acked : \E i \in DOMAIN log : log[i] = batch

-----------------------------------------------------------------------------
(* Types. *)

LEMMA StoredType ==
    ASSUME TypeOK, NEW message \in Message
    PROVE  /\ Stored(message) \in Batch(Source)
           /\ Stored(message).base = LogEndOffset(log)
<1>1. LogEndOffset(log) \in Nat
  BY LogEndOffsetType DEF TypeOK
<1>2. QED
  BY <1>1 DEF Stored, Base, Message, Batch

LEMMA AgainType ==
    ASSUME NEW message \in Message
    PROVE  /\ [message EXCEPT !.src[3] = @ + 1] =
                 [src |-> <<message.src[1], message.src[2], message.src[3] + 1>>,
                  count |-> message.count]
           /\ [message EXCEPT !.src[3] = @ + 1] \in Message
<1>1. message.src \in Producers \X (Nat \ {0}) \X (Nat \ {0}) /\ message.count \in Nat \ {0}
  BY DEF Message, Source
<1>2. [message.src EXCEPT ![3] = @ + 1] = <<message.src[1], message.src[2], message.src[3] + 1>>
  BY <1>1
<1>3. QED
  BY <1>1, <1>2 DEF Message, Source
\* Every step keeps the types.
LEMMA TypeStep ==
    ASSUME TypeOK, [Next]_vars
    PROVE  TypeOK'
<1> USE DEF producer, consumer
<1>1. CASE UNCHANGED vars
  BY <1>1 DEF TypeOK, vars
<1>2. ASSUME NEW p \in Producers, NEW count \in Counts, Send(p, count)
      PROVE  TypeOK'
  <2> DEFINE message == [src |-> <<p, sent[p] + 1, 1>>, count |-> count]
  <2>1. sent[p] \in Nat /\ count \in Nat \ {0}
    BY DeliveryAssumption DEF TypeOK
  <2>2. message \in Message
    BY <2>1 DEF Message, Source
  <2>3. /\ sending' = [sending EXCEPT ![p] = message]
        /\ requests' = requests \cup {message}
    BY <1>2 DEF Send
  <2>4. sent' \in [Producers -> Nat]
    BY <1>2, <2>1 DEF Send, TypeOK
  <2>5. sending' \in [Producers -> Message \cup {Idle}]
    BY <2>2, <2>3 DEF TypeOK
  <2>6. QED
    BY <1>2, <2>2, <2>3, <2>4, <2>5 DEF TypeOK, Send
<1>3. ASSUME NEW p \in Producers, Retry(p)
      PROVE  TypeOK'
  <2> DEFINE again == [sending[p] EXCEPT !.src[3] = @ + 1]
  <2>1. sending[p] \in Message
    BY <1>3 DEF TypeOK, Retry
  <2>2. again \in Message
    BY <2>1, AgainType
  <2>3. /\ sending' = [sending EXCEPT ![p] = again]
        /\ requests' = requests \cup {again}
    BY <1>3 DEF Retry
  <2>4. sending' \in [Producers -> Message \cup {Idle}]
    BY <2>2, <2>3 DEF TypeOK
  <2>5. QED
    BY <1>3, <2>2, <2>3, <2>4 DEF TypeOK, Retry, Closing
<1>4. ASSUME NEW p \in Producers, GiveUp(p)
      PROVE  TypeOK'
  BY <1>4 DEF TypeOK, GiveUp, Closing
<1>5. ASSUME NEW batch \in answers, Acknowledged(batch)
      PROVE  TypeOK'
  BY <1>5 DEF TypeOK, Acknowledged
<1>6. ASSUME NEW message \in requests, Produce(message)
      PROVE  TypeOK'
  <2>1. Stored(message) \in Batch(Source)
    BY StoredType DEF TypeOK
  <2>2. log' \in Seq(Batch(Source))
    BY <1>6, <2>1, AppendProperties DEF TypeOK, Produce
  <2>3. QED
    BY <1>6, <2>1, <2>2 DEF TypeOK, Produce, Handled
<1>7. CASE Lose
  BY <1>7 DEF TypeOK, Lose
<1>8. CASE Fetch
  <2>1. ReadLogFrom(log, position) \in Seq(Batch(Source))
    BY ReadLogFromType DEF TypeOK
  <2>2. fetched' \in [batches : Seq(Batch(Source)), waiting : BOOLEAN]
    BY <1>8, <2>1 DEF Fetch, Fetched
  <2>3. QED
    BY <1>8, <2>2 DEF TypeOK, Fetch
<1>9. Nothing \in [batches : Seq(Batch(Source)), waiting : BOOLEAN]
  BY EmptySeq DEF Nothing
<1>10. CASE Consume
  <2>1. fetched.batches \in Seq(Batch(Source))
    BY DEF TypeOK
  <2>2. LogEndOffset(fetched.batches) \in Nat
    BY <2>1, LogEndOffsetType
  <2>3. QED
    BY <1>9, <1>10, <2>2 DEF TypeOK, Consume
<1>11. CASE LoseFetched
  BY <1>9, <1>11 DEF TypeOK, LoseFetched
<1>12. QED
  BY <1>1, <1>2, <1>3, <1>4, <1>5, <1>6, <1>7, <1>8, <1>10, <1>11 DEF Next

LEMMA TypeInit ==
    ASSUME Init
    PROVE  TypeOK
<1>1. start \in Nat /\ position \in Nat
  BY DeliveryAssumption DEF Init
<1>2. fetched \in [batches : Seq(Batch(Source)), waiting : BOOLEAN]
  BY EmptySeq DEF Init, Nothing
<1>3. QED
  BY <1>1, <1>2, EmptySeq DEF Init, TypeOK

\* The state is what the comments at the variables say: batches have offsets,
\* answers are batches, the consumer has a position.
THEOREM TypeCorrect == Spec => []TypeOK
<1>1. Init => TypeOK
  BY TypeInit
<1>2. TypeOK /\ [Next]_vars => TypeOK'
  BY TypeStep
<1>3. QED
  BY <1>1, <1>2, PTL DEF Spec

-----------------------------------------------------------------------------
(* What was acknowledged is stored. *)

\* Only Produce changes the log, and it appends.
LEMMA LogGrows ==
    ASSUME TypeOK, [Next]_vars
    PROVE  \/ log' = log
           \/ \E message \in requests : Produce(message)
BY DEF Next, vars, Send, Retry, GiveUp, Acknowledged, Lose, Fetch, Consume, LoseFetched

\* A batch that is answered or acknowledged was before, or is stored now.
LEMMA AnswersGrow ==
    ASSUME TypeOK, [Next]_vars
    PROVE  \/ answers' \cup acked' \subseteq answers \cup acked
           \/ \E message \in requests :
                /\ Produce(message)
                /\ answers' \cup acked' \subseteq answers \cup acked \cup {Stored(message)}
BY DEF Next, vars, Send, Retry, GiveUp, Acknowledged, Produce, Lose, Fetch, Consume,
       LoseFetched, Closing, producer, consumer

\* What Produce does to the log.
LEMMA ProduceAppends ==
    ASSUME TypeOK, NEW message \in requests, Produce(message)
    PROVE  /\ message \in Message
           /\ Stored(message) \in Batch(Source)
           /\ DOMAIN log = 1 .. Len(log) /\ DOMAIN log' = 1 .. Len(log) + 1
           /\ Len(log) \in Nat /\ Len(log') = Len(log) + 1
           /\ \A i \in DOMAIN log : log'[i] = log[i]
           /\ log'[Len(log) + 1] = Stored(message)
<1>1. message \in Message /\ log \in Seq(Batch(Source))
  BY DEF TypeOK
<1>2. Stored(message) \in Batch(Source)
  BY <1>1, StoredType
<1>3. log' = Append(log, Stored(message))
  BY DEF Produce
<1>4. /\ log' \in Seq(Batch(Source))
      /\ Len(log') = Len(log) + 1
      /\ \A i \in 1 .. Len(log) : log'[i] = log[i]
      /\ log'[Len(log) + 1] = Stored(message)
  BY <1>1, <1>2, <1>3, AppendProperties
<1>5. QED
  BY <1>1, <1>2, <1>4, LenProperties

LEMMA StoredStep ==
    ASSUME StoredInv, [Next]_vars
    PROVE  StoredInv'
<1>1. TypeOK'
  BY TypeStep DEF StoredInv
<1>2. Contiguous(log)'
  <2>1. CASE log' = log
    BY <2>1 DEF StoredInv, Contiguous
  <2>2. ASSUME NEW message \in requests, Produce(message)
        PROVE  Contiguous(log)'
    <3>1. /\ Stored(message) \in Batch(Source)
          /\ Stored(message).base = LogEndOffset(log)
      BY StoredType DEF StoredInv, TypeOK
    <3>2. log' = Append(log, Stored(message))
      BY <2>2 DEF Produce
    <3>3. Contiguous(Append(log, Stored(message)))
      BY <3>1, AppendAtEnd DEF StoredInv, TypeOK
    <3>4. QED
      BY <3>2, <3>3
  <2>3. QED
    BY <2>1, <2>2, LogGrows DEF StoredInv
<1>3. ASSUME NEW batch \in answers' \cup acked'
      PROVE  \E i \in DOMAIN log' : log'[i] = batch
  <2>1. ASSUME batch \in answers \cup acked
        PROVE  \E i \in DOMAIN log' : log'[i] = batch
    <3>1. PICK i \in DOMAIN log : log[i] = batch
      BY <2>1 DEF StoredInv
    <3>2. CASE log' = log
      BY <3>1, <3>2
    <3>3. ASSUME NEW message \in requests, Produce(message)
          PROVE  \E k \in DOMAIN log' : log'[k] = batch
      BY <3>1, <3>3, ProduceAppends DEF StoredInv
    <3>4. QED
      BY <3>2, <3>3, LogGrows DEF StoredInv
  <2>2. ASSUME NEW message \in requests, Produce(message), batch = Stored(message)
        PROVE  \E i \in DOMAIN log' : log'[i] = batch
    <3>1. Len(log) + 1 \in DOMAIN log' /\ log'[Len(log) + 1] = batch
      BY <2>2, ProduceAppends DEF StoredInv
    <3>2. QED
      BY <3>1
  <2>3. QED
    BY <2>1, <2>2, AnswersGrow DEF StoredInv
<1>4. QED
  BY <1>1, <1>2, <1>3 DEF StoredInv

LEMMA StoredInitially ==
    ASSUME Init
    PROVE  StoredInv
<1>1. TypeOK
  BY TypeInit
<1>2. log = <<>> /\ answers = {} /\ acked = {}
  BY DEF Init
<1>3. DOMAIN log = {}
  BY <1>2
<1>4. QED
  BY <1>1, <1>2, <1>3 DEF StoredInv, Contiguous

LEMMA StoredImplies ==
    ASSUME StoredInv
    PROVE  AckedIsStored
<1>1. SUFFICES ASSUME NEW batch \in acked
               PROVE  LET read == ReadLogFrom(log, batch.base)
                      IN  read # <<>> /\ read[1] = batch
  BY DEF AckedIsStored
<1>2. PICK i \in DOMAIN log : log[i] = batch
  BY DEF StoredInv
<1>3. log \in Seq(Batch(Source)) /\ Contiguous(log)
  BY DEF StoredInv, TypeOK
<1>4. QED
  BY <1>2, <1>3, ReadBeginsAt

\* Whatever is sent, sent again, lost or answered late: whoever reads at an
\* offset that a producer was told finds its message there.
THEOREM AcknowledgedIsStored == Spec => []AckedIsStored
<1>1. Init => StoredInv
  BY StoredInitially
<1>2. StoredInv /\ [Next]_vars => StoredInv'
  BY StoredStep
<1>3. StoredInv => AckedIsStored
  BY StoredImplies
<1>4. QED
  BY <1>1, <1>2, <1>3, PTL DEF Spec

-----------------------------------------------------------------------------
(* A message is stored at most once for each time it was sent. *)

\* The attempt has been made: its producer has come as far as this message,
\* and is not at an earlier attempt of it.
Issued(src) ==
    LET p == src[1]
    IN  /\ src[2] <= sent[p]
        /\ src[3] <= Retries + 1
        /\ sending[p] # Idle /\ src[2] = sent[p] => src[3] <= sending[p].src[3]

CopiesInv ==
    /\ TypeOK
    /\ \A p \in Producers : sending[p] # Idle =>
           /\ sending[p].src[1] = p /\ sending[p].src[2] = sent[p]
           /\ Issued(sending[p].src)
    /\ \A m \in requests : Issued(m.src)
    /\ \A i \in DOMAIN log : Issued(log[i].src)
    /\ \A m, n \in requests : m.src = n.src => m = n
    /\ \A m \in requests : \A i \in DOMAIN log : m.src # log[i].src
    /\ \A i, j \in DOMAIN log : log[i].src = log[j].src => i = j

\* The parts of a source.
LEMMA SourceParts ==
    /\ \A m \in Message : m.src \in Source
    /\ \A src \in Source : src[1] \in Producers /\ src[2] \in Nat \ {0} /\ src[3] \in Nat \ {0}
BY DEF Message, Source

LEMMA LogSources ==
    ASSUME TypeOK
    PROVE  \A i \in DOMAIN log : log[i].src \in Source
<1>1. log \in Seq(Batch(Source))
  BY DEF TypeOK
<1>2. \A i \in DOMAIN log : log[i] \in Batch(Source)
  BY <1>1, ElementOfSeq, LenProperties
<1>3. QED
  BY <1>2 DEF Batch

\* Attempts are not taken back, and each new request is a new attempt.
LEMMA SendIssues ==
    ASSUME CopiesInv, NEW p \in Producers, NEW count \in Counts, Send(p, count)
    PROVE  /\ \A src \in Source : Issued(src) => Issued(src)'
           /\ \E m \in Message : /\ requests' = requests \cup {m}
                                 /\ ~Issued(m.src) /\ Issued(m.src)'
                                 /\ m.src[1] = p /\ m.src[2] = sent'[p]
                                 /\ sending' = [sending EXCEPT ![p] = m]
<1> DEFINE message == [src |-> <<p, sent[p] + 1, 1>>, count |-> count]
<1>1. TypeOK /\ sent[p] \in Nat /\ count \in Nat \ {0} /\ Retries \in Nat
  BY DeliveryAssumption DEF CopiesInv, TypeOK
<1>2. message \in Message
  BY <1>1 DEF Message, Source
<1>3. PICK m \in Message : m = message
  BY <1>2
<1>4. m.src[1] = p /\ m.src[2] = sent[p] + 1 /\ m.src[3] = 1
  BY <1>3
<1>5. /\ sending' = [sending EXCEPT ![p] = m]
      /\ requests' = requests \cup {m}
      /\ sent' = [sent EXCEPT ![p] = @ + 1]
      /\ sending[p] = Idle
  BY <1>3 DEF Send
<1>6. sent'[p] = sent[p] + 1 /\ sending'[p] = m
  BY <1>1, <1>5 DEF TypeOK
<1>7. \A q \in Producers \ {p} : sent'[q] = sent[q] /\ sending'[q] = sending[q]
  BY <1>1, <1>5 DEF TypeOK
<1>8. ASSUME NEW src \in Source, Issued(src)
      PROVE  Issued(src)'
  <2>1. src[1] \in Producers /\ src[2] \in Nat /\ src[3] \in Nat
    BY SourceParts
  <2>2. CASE src[1] = p
    BY <1>1, <1>6, <1>8, <2>1, <2>2 DEF Issued
  <2>3. CASE src[1] # p
    BY <1>7, <1>8, <2>1, <2>3 DEF Issued
  <2>4. QED
    BY <2>2, <2>3
<1>9. ~Issued(m.src)
  BY <1>1, <1>4 DEF Issued
<1>10. Issued(m.src)'
  BY <1>1, <1>4, <1>6 DEF Issued
<1>11. QED
  BY <1>4, <1>5, <1>6, <1>8, <1>9, <1>10

LEMMA RetryIssues ==
    ASSUME CopiesInv, NEW p \in Producers, Retry(p)
    PROVE  /\ \A src \in Source : Issued(src) => Issued(src)'
           /\ \E m \in Message : /\ requests' = requests \cup {m}
                                 /\ ~Issued(m.src) /\ Issued(m.src)'
                                 /\ m.src[1] = p /\ m.src[2] = sent'[p]
                                 /\ sending' = [sending EXCEPT ![p] = m]
<1> DEFINE s == sending[p].src
<1>1. TypeOK /\ sending[p] # Idle /\ sent[p] \in Nat /\ Retries \in Nat
  BY DeliveryAssumption DEF CopiesInv, TypeOK, Retry
<1>2. sending[p] \in Message /\ s \in Source
  BY <1>1, SourceParts DEF TypeOK
<1>3. s[1] = p /\ s[2] = sent[p] /\ s[3] \in Nat /\ s[3] <= Retries
  <2>1. s[1] = p /\ s[2] = sent[p]
    BY <1>1 DEF CopiesInv
  <2>2. s[3] \in Nat
    BY <1>2, SourceParts
  <2>3. s[3] <= Retries
    BY DEF Retry
  <2>4. QED
    BY <2>1, <2>2, <2>3
<1>4. PICK m \in Message :
        /\ m = [sending[p] EXCEPT !.src[3] = @ + 1]
        /\ m = [src |-> <<s[1], s[2], s[3] + 1>>, count |-> sending[p].count]
  BY <1>2, AgainType
<1>5. m.src = <<s[1], s[2], s[3] + 1>>
  BY <1>4
<1>6. m.src[1] = p /\ m.src[2] = sent[p] /\ m.src[3] = s[3] + 1
  BY <1>3, <1>5
<1>7. /\ sending' = [sending EXCEPT ![p] = m]
      /\ requests' = requests \cup {m}
      /\ sent' = sent
  BY <1>4 DEF Retry
<1>8. sending'[p] = m /\ \A q \in Producers \ {p} : sending'[q] = sending[q]
  BY <1>1, <1>7 DEF TypeOK
<1>9. ASSUME NEW src \in Source, Issued(src)
      PROVE  Issued(src)'
  <2>1. src[1] \in Producers /\ src[2] \in Nat /\ src[3] \in Nat
    BY SourceParts
  <2>2. CASE src[1] = p
    BY <1>1, <1>3, <1>6, <1>7, <1>8, <1>9, <2>1, <2>2 DEF Issued
  <2>3. CASE src[1] # p
    BY <1>7, <1>8, <1>9, <2>1, <2>3 DEF Issued
  <2>4. QED
    BY <2>2, <2>3
<1>10. ~Issued(m.src)
  BY <1>1, <1>3, <1>6 DEF Issued
<1>11. Issued(m.src)'
  BY <1>1, <1>3, <1>6, <1>7, <1>8 DEF Issued
<1>12. QED
  BY <1>6, <1>7, <1>9, <1>10, <1>11

\* The other steps make no attempt; Produce alone takes one into the log.
LEMMA OthersIssue ==
    ASSUME CopiesInv, [Next]_vars,
           \A p \in Producers : ~Retry(p) /\ \A count \in Counts : ~Send(p, count)
    PROVE  /\ requests' \subseteq requests
           /\ \A src \in Source : Issued(src) => Issued(src)'
           /\ \A p \in Producers : sending'[p] # Idle => sending'[p] = sending[p]
           /\ sent' = sent
<1> USE DEF producer, consumer
<1>1. sending \in [Producers -> Message \cup {Idle}] /\ TypeOK
  BY DEF CopiesInv, TypeOK
<1>2. CASE UNCHANGED vars
  BY <1>2 DEF vars, Issued
<1>3. ASSUME NEW p \in Producers, GiveUp(p)
      PROVE  /\ requests' = requests /\ sent' = sent
             /\ sending'[p] = Idle /\ \A q \in Producers \ {p} : sending'[q] = sending[q]
  BY <1>1, <1>3 DEF GiveUp
<1>4. ASSUME NEW batch \in answers, Acknowledged(batch)
      PROVE  /\ requests' = requests /\ sent' = sent
             /\ batch.src[1] \in Producers
             /\ sending'[batch.src[1]] = Idle
             /\ \A q \in Producers \ {batch.src[1]} : sending'[q] = sending[q]
  <2>1. batch.src \in Source
    BY <1>1 DEF TypeOK, Batch
  <2>2. batch.src[1] \in Producers
    BY <2>1, SourceParts
  <2>3. QED
    BY <1>1, <1>4, <2>2 DEF Acknowledged
<1>5. ASSUME NEW message \in requests, Produce(message)
      PROVE  requests' \subseteq requests /\ sent' = sent /\ sending' = sending
  BY <1>5 DEF Produce, Handled
<1>6. ASSUME Lose \/ Fetch \/ Consume \/ LoseFetched
      PROVE  requests' \subseteq requests /\ sent' = sent /\ sending' = sending
  BY <1>6 DEF Lose, Fetch, Consume, LoseFetched
<1>7. /\ requests' \subseteq requests /\ sent' = sent
      /\ \A p \in Producers : sending'[p] # Idle => sending'[p] = sending[p]
  BY <1>1, <1>2, <1>3, <1>4, <1>5, <1>6 DEF Next, vars
<1>8. ASSUME NEW src \in Source, Issued(src)
      PROVE  Issued(src)'
  <2>1. src[1] \in Producers
    BY SourceParts
  <2>2. QED
    BY <1>7, <1>8, <2>1 DEF Issued
<1>9. QED
  BY <1>7, <1>8

LEMMA CopiesStep ==
    ASSUME CopiesInv, [Next]_vars
    PROVE  CopiesInv'
<1>1. TypeOK /\ TypeOK'
  BY TypeStep DEF CopiesInv
<1>2. requests \subseteq Message
  BY <1>1 DEF TypeOK
<1>3. \A i \in DOMAIN log : log[i].src \in Source
  BY <1>1, LogSources
<1>4. ASSUME NEW p \in Producers, log' = log,
             \A src \in Source : Issued(src) => Issued(src)',
             \E m \in Message : /\ requests' = requests \cup {m}
                                /\ ~Issued(m.src) /\ Issued(m.src)'
                                /\ m.src[1] = p /\ m.src[2] = sent'[p]
                                /\ sending' = [sending EXCEPT ![p] = m],
             \A q \in Producers \ {p} : sent'[q] = sent[q]
      PROVE  CopiesInv'
  <2>1. PICK m \in Message : /\ requests' = requests \cup {m}
                             /\ ~Issued(m.src) /\ Issued(m.src)'
                             /\ m.src[1] = p /\ m.src[2] = sent'[p]
                             /\ sending' = [sending EXCEPT ![p] = m]
    BY <1>4
  <2>2. sending'[p] = m /\ \A q \in Producers \ {p} : sending'[q] = sending[q]
    BY <1>1, <2>1 DEF TypeOK
  <2>3. ASSUME NEW q \in Producers, sending'[q] # Idle
        PROVE  /\ sending'[q].src[1] = q /\ sending'[q].src[2] = sent'[q]
               /\ Issued(sending[q].src)'
    <3>1. CASE q = p
      BY <2>1, <2>2, <3>1 DEF Issued
    <3>2. CASE q # p
      <4>1. sending'[q] = sending[q] /\ sent'[q] = sent[q]
        BY <1>4, <2>2, <3>2
      <4>2. /\ sending[q].src[1] = q /\ sending[q].src[2] = sent[q]
            /\ Issued(sending[q].src)
        BY <2>3, <4>1 DEF CopiesInv
      <4>3. QED
        BY <4>1, <4>2 DEF Issued
    <3>3. QED
      BY <3>1, <3>2
  <2>4. \A n \in requests : Issued(n.src) /\ n.src \in Source
    BY <1>2, SourceParts DEF CopiesInv
  <2>5. \A n \in requests : n.src # m.src
    BY <2>1, <2>4
  <2>6. \A i \in DOMAIN log : log[i].src # m.src
    BY <2>1 DEF CopiesInv
  <2>7. \A n \in requests' : Issued(n.src)'
    BY <1>4, <2>1, <2>4
  <2>8. \A i \in DOMAIN log' : Issued(log[i].src)'
    BY <1>3, <1>4 DEF CopiesInv, Issued
  <2>9. \A n, o \in requests' : n.src = o.src => n = o
    BY <2>1, <2>5 DEF CopiesInv
  <2>10. \A n \in requests' : \A i \in DOMAIN log' : n.src # log'[i].src
    BY <1>4, <2>1, <2>6 DEF CopiesInv
  <2>11. \A i, j \in DOMAIN log' : log'[i].src = log'[j].src => i = j
    BY <1>4 DEF CopiesInv
  <2>12. QED
    BY <1>1, <2>3, <2>7, <2>8, <2>9, <2>10, <2>11 DEF CopiesInv
<1>5. ASSUME NEW p \in Producers, NEW count \in Counts, Send(p, count)
      PROVE  CopiesInv'
  <2>1. log' = log /\ \A q \in Producers \ {p} : sent'[q] = sent[q]
    BY <1>1, <1>5 DEF Send, TypeOK
  <2>2. QED
    BY <1>4, <1>5, <2>1, SendIssues
<1>6. ASSUME NEW p \in Producers, Retry(p)
      PROVE  CopiesInv'
  <2>1. log' = log /\ sent' = sent
    BY <1>6 DEF Retry
  <2>2. QED
    BY <1>4, <1>6, <2>1, RetryIssues
<1>7. ASSUME \A p \in Producers : ~Retry(p) /\ \A count \in Counts : ~Send(p, count)
      PROVE  CopiesInv'
  <2>1. /\ requests' \subseteq requests
        /\ \A src \in Source : Issued(src) => Issued(src)'
        /\ \A p \in Producers : sending'[p] # Idle => sending'[p] = sending[p]
        /\ sent' = sent
    BY <1>7, OthersIssue
  <2>2. \A p \in Producers : sending'[p] # Idle =>
           /\ sending'[p].src[1] = p /\ sending'[p].src[2] = sent'[p]
           /\ Issued(sending[p].src)'
    BY <2>1 DEF CopiesInv, Issued
  <2>3. \A n \in requests : n.src \in Source
    BY <1>2, SourceParts
  <2>4. /\ \A n \in requests' : Issued(n.src)'
        /\ \A n, o \in requests' : n.src = o.src => n = o
    BY <2>1, <2>3 DEF CopiesInv
  <2>5. CASE log' = log
    <3>1. \A i \in DOMAIN log' : Issued(log[i].src)'
      BY <1>3, <2>1, <2>5 DEF CopiesInv, Issued
    <3>2. /\ \A n \in requests' : \A i \in DOMAIN log' : n.src # log'[i].src
          /\ \A i, j \in DOMAIN log' : log'[i].src = log'[j].src => i = j
      BY <2>1, <2>5 DEF CopiesInv
    <3>3. QED
      BY <1>1, <2>2, <2>4, <3>1, <3>2 DEF CopiesInv
  <2>6. ASSUME NEW message \in requests, Produce(message)
        PROVE  CopiesInv'
    <3> DEFINE last == Len(log) + 1
    <3>1. /\ DOMAIN log = 1 .. Len(log) /\ DOMAIN log' = 1 .. last /\ Len(log) \in Nat
          /\ \A i \in DOMAIN log : log'[i] = log[i]
          /\ log'[last] = Stored(message)
      BY <1>1, <2>6, ProduceAppends
    <3>2. log'[last].src = message.src
      BY <3>1 DEF Stored
    <3>3. requests' = requests \ {message}
      BY <2>6 DEF Produce, Handled
    <3>4. \A i \in DOMAIN log' : i \in DOMAIN log \/ i = last
      BY <3>1
    <3>5. \A i \in DOMAIN log' : Issued(log[i].src)'
      <4>1. ASSUME NEW i \in DOMAIN log', NEW src, src = log'[i].src
            PROVE  Issued(src)'
        <5>1. CASE i \in DOMAIN log
          BY <1>3, <2>1, <3>1, <4>1, <5>1 DEF CopiesInv
        <5>2. CASE i = last
          BY <2>1, <2>3, <3>2, <4>1, <5>2 DEF CopiesInv
        <5>3. QED
          BY <3>4, <5>1, <5>2
      <4>2. QED
        BY <4>1 DEF Issued
    <3>6. \A n \in requests' : \A i \in DOMAIN log' : n.src # log'[i].src
      BY <3>1, <3>2, <3>3, <3>4 DEF CopiesInv
    <3>7. \A i, j \in DOMAIN log' : log'[i].src = log'[j].src => i = j
      BY <3>1, <3>2, <3>4 DEF CopiesInv
    <3>8. QED
      BY <1>1, <2>2, <2>4, <3>5, <3>6, <3>7 DEF CopiesInv
  <2>7. QED
    BY <1>1, <2>5, <2>6, LogGrows
<1>8. QED
  BY <1>5, <1>6, <1>7

LEMMA CopiesInitially ==
    ASSUME Init
    PROVE  CopiesInv
<1>1. TypeOK
  BY TypeInit
<1>2. log = <<>> /\ requests = {} /\ \A p \in Producers : sending[p] = Idle
  BY DEF Init
<1>3. DOMAIN log = {}
  BY <1>2
<1>4. QED
  BY <1>1, <1>2, <1>3 DEF CopiesInv

\* No message is stored more often than it was sent, by any producer, though
\* the broker removes no duplicates; with retries=0, never twice.
THEOREM StoredWithinAttempts == Spec => []CopiesWithinAttempts
<1>1. Init => CopiesInv
  BY CopiesInitially
<1>2. CopiesInv /\ [Next]_vars => CopiesInv'
  BY CopiesStep
<1>3. CopiesInv => CopiesWithinAttempts
  BY DEF CopiesInv, CopiesWithinAttempts, Issued
<1>4. QED
  BY <1>1, <1>2, <1>3, PTL DEF Spec

-----------------------------------------------------------------------------
(* What the consumer has is the log. *)

ConsumedInv ==
    /\ StoredInv
    /\ start <= position
    /\ start < position => position <= LogEndOffset(log)
    /\ ConsumedIsTheLog
    /\ fetched.batches # <<>> => \E k \in DOMAIN log : PartOfLog(log, fetched.batches, k, position)

\* From that offset to its own end, a part of the log holds the records that
\* the log holds.
LEMMA PartHoldsTheLog ==
    ASSUME NEW S, NEW l \in Seq(Batch(S)), Contiguous(l),
           NEW batches \in Seq(Batch(S)), batches # <<>>,
           NEW k \in DOMAIN l, NEW o \in Nat, PartOfLog(l, batches, k, o)
    PROVE  /\ o < LogEndOffset(batches)
           /\ LogEndOffset(batches) <= LogEndOffset(l)
           /\ \A x \in o .. LogEndOffset(batches) - 1 : RecordsAt(batches, x) = RecordsAt(l, x)
<1> DEFINE n == k + Len(batches) - 1
<1>1. /\ Len(l) \in Nat /\ DOMAIN l = 1 .. Len(l)
      /\ Len(batches) \in Nat \ {0} /\ DOMAIN batches = 1 .. Len(batches)
  BY LenProperties, EmptySeq
<1>2. \A i \in 1 .. Len(l) : /\ l[i].base \in Nat
                             /\ EndOffset(l[i]) \in Nat /\ l[i].base < EndOffset(l[i])
  BY BatchFields
<1>3. k \in 1 .. n /\ n \in 1 .. Len(l)
  BY <1>1 DEF PartOfLog
<1>4. batches[Len(batches)] = l[n]
  BY <1>1 DEF PartOfLog
<1>5. LogEndOffset(batches) = EndOffset(l[n])
  BY <1>4 DEF LogEndOffset
<1>6. l[k].base <= o /\ o < EndOffset(l[k])
  BY DEF PartOfLog, Covers
<1>7. \A i \in DOMAIN l : \A j \in 1 .. i - 1 : EndOffset(l[j]) <= l[i].base
  BY BatchesInOrder
<1>8. EndOffset(l[k]) <= EndOffset(l[n])
  <2>1. CASE k = n
    BY <1>2, <1>3, <2>1
  <2>2. CASE k # n
    <3>1. n \in DOMAIN l /\ k \in 1 .. n - 1
      BY <1>1, <1>3, <2>2
    <3>2. EndOffset(l[k]) <= l[n].base
      BY <1>7, <3>1
    <3>3. QED
      BY <1>1, <1>2, <1>3, <3>2
  <2>3. QED
    BY <2>1, <2>2
<1>9. EndOffset(l[n]) <= LogEndOffset(l)
  BY <1>1, <1>3, LogEndBounds
<1>10. ASSUME NEW x \in o .. EndOffset(l[n]) - 1
       PROVE  RecordsAt(batches, x) = RecordsAt(l, x)
  <2>0. x \in Int /\ o <= x /\ x < EndOffset(l[n])
    BY <1>2, <1>3
  <2>1. ASSUME NEW i \in DOMAIN batches, Covers(batches[i], x)
        PROVE  \E j \in DOMAIN l : Covers(l[j], x) /\ batches[i] = l[j]
    <3>1. k + i - 1 \in DOMAIN l
      BY <1>1, <1>3
    <3>2. batches[i] = l[k + i - 1]
      BY DEF PartOfLog
    <3>3. QED
      BY <2>1, <3>1, <3>2
  <2>2. ASSUME NEW j \in DOMAIN l, Covers(l[j], x)
        PROVE  \E i \in DOMAIN batches : Covers(batches[i], x) /\ batches[i] = l[j]
    <3>1. l[j].base <= x /\ x < EndOffset(l[j]) /\ j \in 1 .. Len(l)
      BY <1>1, <2>2 DEF Covers
    <3>2. k <= j
      <4>1. SUFFICES ASSUME j < k
                     PROVE  FALSE
        BY <1>1, <1>3, <3>1
      <4>2. j \in 1 .. k - 1
        BY <1>1, <3>1, <4>1
      <4>3. EndOffset(l[j]) <= l[k].base
        BY <1>7, <4>2
      <4>4. QED
        BY <1>1, <1>2, <1>6, <2>0, <3>1, <4>3
    <3>3. j <= n
      <4>1. SUFFICES ASSUME n < j
                     PROVE  FALSE
        BY <1>1, <1>3, <3>1
      <4>2. n \in 1 .. j - 1
        BY <1>1, <1>3, <3>1, <4>1
      <4>3. EndOffset(l[n]) <= l[j].base
        BY <1>7, <4>2
      <4>4. QED
        BY <1>2, <1>3, <2>0, <3>1, <4>3, SMTT(30)
    <3>4. j - k + 1 \in DOMAIN batches /\ k + (j - k + 1) - 1 = j
      BY <1>1, <1>3, <3>1, <3>2, <3>3
    <3>5. batches[j - k + 1] = l[j]
      BY <3>4 DEF PartOfLog
    <3>6. QED
      BY <2>2, <3>4, <3>5
  <2>3. ASSUME NEW r \in RecordsAt(batches, x)
        PROVE  r \in RecordsAt(l, x)
    <3>1. PICK i \in DOMAIN batches :
            Covers(batches[i], x) /\ r = <<batches[i].src, x - batches[i].base>>
      BY DEF RecordsAt
    <3>2. PICK j \in DOMAIN l : Covers(l[j], x) /\ batches[i] = l[j]
      BY <2>1, <3>1
    <3>3. QED
      BY <3>1, <3>2 DEF RecordsAt
  <2>4. ASSUME NEW r \in RecordsAt(l, x)
        PROVE  r \in RecordsAt(batches, x)
    <3>1. PICK j \in DOMAIN l : Covers(l[j], x) /\ r = <<l[j].src, x - l[j].base>>
      BY DEF RecordsAt
    <3>2. PICK i \in DOMAIN batches : Covers(batches[i], x) /\ batches[i] = l[j]
      BY <2>2, <3>1
    <3>3. QED
      BY <3>1, <3>2 DEF RecordsAt
  <2>5. QED
    BY <2>3, <2>4
<1>11. o < EndOffset(l[n])
  BY <1>1, <1>2, <1>3, <1>6, <1>8
<1>12. QED
  BY <1>5, <1>9, <1>10, <1>11

\* An append adds no record in front of the end, and moves none.
LEMMA AppendKeepsRecords ==
    ASSUME StoredInv, NEW message \in requests, Produce(message)
    PROVE  /\ LogEndOffset(log) \in Nat /\ LogEndOffset(log) <= LogEndOffset(log')
           /\ \A x \in 0 .. LogEndOffset(log) - 1 : RecordsAt(log', x) = RecordsAt(log, x)
           /\ \A batches \in Seq(Batch(Source)) : \A k, o :
                 PartOfLog(log, batches, k, o) => PartOfLog(log', batches, k, o)
<1> DEFINE last == Len(log) + 1
<1>1. TypeOK /\ log \in Seq(Batch(Source)) /\ log' \in Seq(Batch(Source))
  BY TypeStep DEF StoredInv, TypeOK, Next
<1>2. /\ DOMAIN log = 1 .. Len(log) /\ DOMAIN log' = 1 .. last
      /\ Len(log) \in Nat /\ Len(log') = last
      /\ \A i \in DOMAIN log : log'[i] = log[i]
      /\ log'[last] = Stored(message)
      /\ message \in Message
  BY <1>1, ProduceAppends
<1>3. log'[last].base = LogEndOffset(log)
  BY <1>1, <1>2, StoredType
<1>4. /\ log'[last].base \in Nat /\ EndOffset(log'[last]) \in Nat
      /\ log'[last].base < EndOffset(log'[last])
  BY <1>1, <1>2, BatchFields
<1>5. LogEndOffset(log') = EndOffset(log'[last])
  BY <1>1, <1>2, EmptySeq DEF LogEndOffset
<1>6. ASSUME NEW x \in 0 .. LogEndOffset(log) - 1
      PROVE  RecordsAt(log', x) = RecordsAt(log, x)
  <2>1. ~Covers(log'[last], x)
    BY <1>3, <1>4 DEF Covers
  <2>2. {i \in DOMAIN log' : Covers(log'[i], x)} = {i \in DOMAIN log : Covers(log[i], x)}
    BY <1>2, <2>1
  <2>3. \A i \in DOMAIN log : log'[i] = log[i]
    BY <1>2
  <2>4. QED
    BY <2>2, <2>3 DEF RecordsAt
<1>7. ASSUME NEW batches \in Seq(Batch(Source)), NEW k, NEW o, PartOfLog(log, batches, k, o)
      PROVE  PartOfLog(log', batches, k, o)
  <2>1. k \in DOMAIN log /\ k + Len(batches) - 1 <= Len(log)
    BY <1>7 DEF PartOfLog
  <2>2. k \in DOMAIN log' /\ log'[k] = log[k]
    BY <1>2, <2>1
  <2>3. ASSUME NEW i \in DOMAIN batches
        PROVE  batches[i] = log'[k + i - 1]
    <3>1. i \in 1 .. Len(batches) /\ Len(batches) \in Nat
      BY LenProperties
    <3>2. k + i - 1 \in DOMAIN log
      BY <1>2, <2>1, <3>1
    <3>3. QED
      BY <1>2, <1>7, <3>2 DEF PartOfLog
  <2>4. Covers(log'[k], o)
    BY <1>7, <2>2 DEF PartOfLog
  <2>5. k + Len(batches) - 1 <= Len(log')
    <3>1. k \in Nat /\ Len(batches) \in Nat
      BY <1>2, <2>1, LenProperties
    <3>2. QED
      BY <1>2, <2>1, <3>1
  <2>6. QED
    BY <2>2, <2>3, <2>4, <2>5 DEF PartOfLog
<1>8. QED
  BY <1>3, <1>4, <1>5, <1>6, <1>7

\* A fetch, and the consumer's taking of it.
LEMMA FetchStep ==
    ASSUME ConsumedInv, Fetch
    PROVE  fetched'.batches # <<>> =>
             \E k \in DOMAIN log' : PartOfLog(log', fetched'.batches, k, position')
<1>1. /\ log \in Seq(Batch(Source)) /\ Contiguous(log) /\ position \in Nat
  BY DEF ConsumedInv, StoredInv, TypeOK
<1>2. /\ fetched'.batches = ReadLogFrom(log, position)
      /\ log' = log /\ position' = position
  BY DEF Fetch, Fetched, consumer
<1>3. QED
  BY <1>1, <1>2, ReadIsPart

LEMMA ConsumeStep ==
    ASSUME ConsumedInv, Consume
    PROVE  /\ position <= position' /\ start' = start /\ log' = log
           /\ start' < position' => position' <= LogEndOffset(log')
           /\ ConsumedIsTheLog'
           /\ fetched' = Nothing
<1> DEFINE batches == fetched.batches
<1> DEFINE end == IF batches = <<>> THEN position ELSE LogEndOffset(batches)
<1>1. /\ log \in Seq(Batch(Source)) /\ Contiguous(log) /\ position \in Nat /\ start \in Nat
      /\ batches \in Seq(Batch(Source))
  BY DEF ConsumedInv, StoredInv, TypeOK
<1>2. /\ log' = log /\ start' = start /\ fetched' = Nothing /\ position' = end
      /\ consumed' = [o \in start .. end - 1 |->
                         IF o < position THEN consumed[o] ELSE RecordsAt(batches, o)]
  BY DEF Consume
<1>3. LogEndOffset(batches) \in Nat /\ LogEndOffset(log) \in Nat
  BY <1>1, LogEndOffsetType
<1>4. ASSUME start < position, NEW o \in start .. position - 1
      PROVE  consumed[o] = RecordsAt(log, o)
  BY <1>1, <1>4 DEF ConsumedInv, ConsumedIsTheLog
<1>5. CASE batches = <<>>
  <2>1. end = position
    BY <1>5
  <2>2. \A o \in start .. end - 1 : o < position /\ start < position
    BY <1>1, <2>1
  <2>3. consumed' = [o \in start .. position' - 1 |-> RecordsAt(log, o)]
    BY <1>2, <1>4, <2>1, <2>2
  <2>4. QED
    BY <1>1, <1>2, <2>1, <2>3 DEF ConsumedInv, ConsumedIsTheLog
<1>6. CASE batches # <<>>
  <2>1. PICK k \in DOMAIN log : PartOfLog(log, batches, k, position)
    BY <1>6 DEF ConsumedInv
  <2>2. /\ position < LogEndOffset(batches)
        /\ LogEndOffset(batches) <= LogEndOffset(log)
        /\ \A x \in position .. LogEndOffset(batches) - 1 : RecordsAt(batches, x) = RecordsAt(log, x)
    BY <1>1, <1>6, <2>1, PartHoldsTheLog
  <2>3. end = LogEndOffset(batches)
    BY <1>6
  <2>4. ASSUME NEW o \in start .. end - 1
        PROVE  consumed'[o] = RecordsAt(log, o)
    <3>1. CASE o < position
      BY <1>1, <1>2, <1>3, <1>4, <2>3, <2>4, <3>1
    <3>2. CASE ~(o < position)
      <4>1. o \in position .. LogEndOffset(batches) - 1
        BY <1>1, <1>3, <2>3, <3>2
      <4>2. QED
        BY <1>2, <2>2, <2>4, <3>2, <4>1
    <3>3. QED
      BY <3>1, <3>2
  <2>5. consumed' = [o \in start .. end - 1 |-> RecordsAt(log, o)]
    BY <1>2, <2>4
  <2>6. QED
    BY <1>1, <1>2, <1>3, <2>2, <2>3, <2>5 DEF ConsumedIsTheLog
<1>7. QED
  BY <1>5, <1>6

LEMMA ConsumedStep ==
    ASSUME ConsumedInv, [Next]_vars
    PROVE  ConsumedInv'
<1>1. StoredInv /\ StoredInv'
  BY StoredStep DEF ConsumedInv
<1>2. TypeOK /\ position \in Nat /\ start \in Nat /\ fetched.batches \in Seq(Batch(Source))
  BY <1>1 DEF StoredInv, TypeOK
<1>3. Nothing.batches = <<>>
  BY DEF Nothing
<1>4. CASE Fetch
  <2>1. UNCHANGED <<log, start, position, consumed>>
    BY <1>4 DEF Fetch
  <2>2. QED
    BY <1>1, <1>4, <2>1, FetchStep DEF ConsumedInv, ConsumedIsTheLog
<1>5. CASE Consume
  <2>1. start' <= position'
    <3>1. position' \in Nat
      BY <1>1 DEF StoredInv, TypeOK
    <3>2. QED
      BY <1>2, <1>5, <3>1, ConsumeStep DEF ConsumedInv
  <2>2. QED
    BY <1>1, <1>3, <1>5, <2>1, ConsumeStep DEF ConsumedInv
<1>6. CASE LoseFetched
  <2>1. UNCHANGED <<log, start, position, consumed>> /\ fetched' = Nothing
    BY <1>6 DEF LoseFetched
  <2>2. QED
    BY <1>1, <1>3, <2>1 DEF ConsumedInv, ConsumedIsTheLog
<1>7. ASSUME NEW message \in requests, Produce(message)
      PROVE  ConsumedInv'
  <2>1. UNCHANGED <<start, position, fetched, consumed>>
    BY <1>7 DEF Produce, consumer
  <2>2. /\ LogEndOffset(log) \in Nat /\ LogEndOffset(log) <= LogEndOffset(log')
        /\ \A x \in 0 .. LogEndOffset(log) - 1 : RecordsAt(log', x) = RecordsAt(log, x)
        /\ \A k, o : PartOfLog(log, fetched.batches, k, o) => PartOfLog(log', fetched.batches, k, o)
    BY <1>1, <1>2, <1>7, AppendKeepsRecords
  <2>3. LogEndOffset(log') \in Nat
    BY <1>1, LogEndOffsetType DEF StoredInv, TypeOK
  <2>4. start < position => position <= LogEndOffset(log')
    BY <1>2, <2>2, <2>3 DEF ConsumedInv
  <2>5. ASSUME start < position
        PROVE  consumed = [o \in start .. position - 1 |-> RecordsAt(log', o)]
    <3>1. \A o \in start .. position - 1 : o \in 0 .. LogEndOffset(log) - 1
      BY <1>2, <2>2, <2>5 DEF ConsumedInv
    <3>2. consumed = [o \in start .. position - 1 |-> RecordsAt(log, o)]
      BY <1>2, <2>5 DEF ConsumedInv, ConsumedIsTheLog
    <3>3. QED
      BY <2>2, <3>1, <3>2
  <2>6. ASSUME fetched.batches # <<>>
        PROVE  \E k \in DOMAIN log' : PartOfLog(log', fetched.batches, k, position)
    <3>1. PICK k \in DOMAIN log : PartOfLog(log, fetched.batches, k, position)
      BY <2>6 DEF ConsumedInv
    <3>2. PartOfLog(log', fetched.batches, k, position)
      BY <2>2, <3>1
    <3>3. QED
      BY <3>2 DEF PartOfLog
  <2>7. ConsumedIsTheLog'
    BY <1>2, <2>1, <2>5 DEF ConsumedIsTheLog
  <2>8. QED
    BY <1>1, <2>1, <2>4, <2>6, <2>7 DEF ConsumedInv
<1>8. CASE UNCHANGED <<log, consumer>>
  BY <1>1, <1>8 DEF ConsumedInv, ConsumedIsTheLog, consumer
<1>9. \/ Fetch \/ Consume \/ LoseFetched
      \/ \E message \in requests : Produce(message)
      \/ UNCHANGED <<log, consumer>>
  BY DEF Next, vars, Send, Retry, GiveUp, Acknowledged, Lose, consumer
<1>10. QED
  BY <1>4, <1>5, <1>6, <1>7, <1>8, <1>9

LEMMA ConsumedInitially ==
    ASSUME Init
    PROVE  ConsumedInv
<1>1. StoredInv
  BY StoredInitially
<1>2. position = start /\ start \in Nat /\ fetched.batches = <<>>
  BY DeliveryAssumption DEF Init, Nothing
<1>3. QED
  BY <1>1, <1>2 DEF ConsumedInv, ConsumedIsTheLog

\* A consumer has each record from its start up to its position once, as it
\* is in the log: also if it began inside a batch, if answers to its fetches
\* were lost, or if producers appended between a fetch and its answer.
THEOREM ConsumerFollowsTheLog == Spec => []ConsumedIsTheLog
<1>1. Init => ConsumedInv
  BY ConsumedInitially
<1>2. ConsumedInv /\ [Next]_vars => ConsumedInv'
  BY ConsumedStep
<1>3. ConsumedInv => ConsumedIsTheLog
  BY DEF ConsumedInv
<1>4. QED
  BY <1>1, <1>2, <1>3, PTL DEF Spec
=============================================================================
