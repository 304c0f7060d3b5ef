---------------------------- MODULE BrokerProofs ----------------------------
(***************************************************************************)
(* Theorems about Broker, for any connections, topics, workload and bounds.*)
(*                                                                         *)
(* OffsetsContiguous is not inductive: an append is safe only because the  *)
(* offset it uses is still the end of the log (EndOffsetIsFresh), which   *)
(* holds only because no other handler runs in between (OneHandler), and   *)
(* one has to know which request an appending handler is at                *)
(* (HandlersHaveRequests).  IInv is the conjunction.                       *)
(*                                                                         *)
(* The second part shows that the broker implements CommitLog.             *)
(***************************************************************************)
EXTENDS BrokerCommitLog, PartitionLogProofs, FiniteSetTheorems

Running(c) == task[c] \in Busy

\* At most one handler is between its two awaits.
OneHandler ==
    \A c, d \in Conns : Running(c) /\ Running(d) => c = d

\* A handler has a request, and one that appends or reads a log is at an
\* entry of a produce or a fetch request.
HandlersHaveRequests ==
    \A c \in Conns :
        /\ task[c] \in Busy \cup {"drain"} => taken[c] # 0
        /\ task[c] = "append" => HasEntry(c) /\ Current(c).api = "Produce"
        /\ task[c] = "fetch" => HasEntry(c) /\ Current(c).api = "Fetch"

IInv ==
    /\ TypeOK
    /\ OneHandler
    /\ HandlersHaveRequests
    /\ EndOffsetIsFresh
    /\ OffsetsContiguous

-----------------------------------------------------------------------------
(* The types of what the handlers look at. *)

LEMMA CurrentType ==
    ASSUME TypeOK, NEW c \in Conns, taken[c] # 0
    PROVE  /\ taken[c] \in 1 .. Len(requests[c])
           /\ Current(c) \in Workload
           /\ Current(c) \in Body
<1>1. requests[c] \in Seq(Workload) /\ taken[c] \in Nat /\ taken[c] <= Len(requests[c])
  BY DEF TypeOK
<1>2. taken[c] \in 1 .. Len(requests[c])
  BY <1>1, LenProperties
<1>3. Current(c) \in Workload
  BY <1>1, <1>2, ElementOfSeq DEF Current
<1>4. QED
  BY <1>2, <1>3, WorkloadAssumption

LEMMA EntryType ==
    ASSUME TypeOK, NEW c \in Conns, taken[c] # 0, HasEntry(c)
    PROVE  /\ Entry(c) \in Part
           /\ Entry(c).tp \in TopicPartitions
           /\ Entry(c).tp[1] \in Topics
           /\ Entry(c).arg \in Int
           /\ Current(c).api = "Produce" => Entry(c).arg \in Nat \ {0}
<1>1. Current(c) \in Body /\ Current(c) \in Workload
  BY CurrentType
<1>2. Current(c).parts \in Seq(Part)
  BY <1>1 DEF Body
<1>3. part[c] \in 1 .. Len(Current(c).parts)
  BY <1>2, LenProperties DEF HasEntry
<1>4. Entry(c) \in Part
  BY <1>2, <1>3, ElementOfSeq DEF Entry
<1>5. Current(c).api = "Produce" => Entry(c).arg \in Nat \ {0}
  BY <1>1, WorkloadAssumption DEF Entry, HasEntry
<1>6. QED
  BY <1>4, <1>5 DEF Part, TopicPartitions

LEMMA NoMetadataType == NoMetadata \in Metadata
BY DEF NoMetadata, Metadata

\* The error of a fetch whose topic is not found.
LEMMA UnknownTopicType ==
    ASSUME NEW c \in Conns
    PROVE  UnknownTopic(c) \in Errors /\ UnknownTopic(c) # NO_ERROR
BY DEF UnknownTopic, Errors, UNKNOWN_TOPIC_OR_PARTITION, UNKNOWN_TOPIC_ID, NO_ERROR

\* Reading a message, or skipping one, never leads straight to an append.
LEMMA ReadMessageTask ==
    ASSUME TypeOK, NEW c \in Conns, ReadMessage(c)
    PROVE  task'[c] \in {"read", "closed", "handle"}
<1> DEFINE kind == requests[c][taken[c] + 1].api
<1>1. requests[c] \in Seq(Workload) /\ taken[c] \in Nat /\ taken[c] < Len(requests[c])
  BY DEF TypeOK, ReadMessage
<1>2. taken[c] + 1 \in 1 .. Len(requests[c])
  BY <1>1, LenProperties
<1>3. requests[c][taken[c] + 1] \in Body
  BY <1>1, <1>2, ElementOfSeq, WorkloadAssumption
<1>4. kind \in APIKEYS \cup {"UnknownKey", "Unparsable"}
  BY <1>3 DEF Body, Kinds
<1>5. AfterReading(kind) \in {"read", "closed", "handle"}
  BY <1>4 DEF AfterReading
<1>6. task'[c] = AfterReading(kind)
  BY DEF TypeOK, ReadMessage
<1>7. QED
  BY <1>5, <1>6

LEMMA AnswerType ==
    ASSUME TypeOK, NEW c \in Conns, NEW r \in PartResponse, NEW next \in Nat \ {0},
           Answer(c, r, next)
    PROVE  /\ partition_responses' \in [Conns -> Seq(PartResponse)]
           /\ part' \in [Conns -> Nat \ {0}]
<1>1. partition_responses[c] \in Seq(PartResponse)
  BY DEF TypeOK
<1>2. Append(partition_responses[c], r) \in Seq(PartResponse)
  BY <1>1, AppendProperties
<1>3. QED
  BY <1>2 DEF TypeOK, Answer

LEMMA NothingType ==
    /\ <<>> \in Seq(Batch(Source))
    /\ <<>> \in Seq(PartResponse)
BY EmptySeq

LEMMA PartAnswerType ==
    ASSUME NEW tp \in TopicPartitions, NEW error \in Errors, NEW offset \in Int,
           NEW data \in Seq(Batch(Source))
    PROVE  PartAnswer(tp, error, offset, data) \in PartResponse
BY DEF PartAnswer, PartResponse

LEMMA EmptyAnswerType ==
    ASSUME NEW tp \in TopicPartitions, NEW error \in Errors, NEW offset \in Int
    PROVE  PartAnswer(tp, error, offset, <<>>) \in PartResponse
BY NothingType DEF PartAnswer, PartResponse

-----------------------------------------------------------------------------

\* Every step keeps the types.
LEMMA TypeStep ==
    ASSUME TypeOK, HandlersHaveRequests, [Next]_vars
    PROVE  TypeOK'
<1> USE DEF disk, handler, client, Tasks, Busy
<1>1. CASE UNCHANGED vars
  BY <1>1 DEF TypeOK, vars
<1>2. CASE Start
  BY <1>2 DEF TypeOK, Start
<1>3. CASE Crash
  <2>1. task' \in [Conns -> Tasks]
    BY <1>3 DEF TypeOK, Crash
  <2>2. socket' \in [Conns -> {"none", "open", "gone"}]
    BY <1>3 DEF TypeOK, Crash
  <2>3. partition_responses' \in [Conns -> Seq(PartResponse)]
    BY <1>3, NothingType DEF Crash
  <2>4. part' \in [Conns -> Nat \ {0}] /\ leo' \in [Conns -> Nat]
    BY <1>3 DEF Crash
  <2>5. QED
    BY <1>3, <2>1, <2>2, <2>3, <2>4, NoMetadataType DEF TypeOK, Crash
<1>4. ASSUME NEW new \in Registrations, AppendTopics(new)
      PROVE  TypeOK'
  <2>1. metadata_file.topics \cup {new.topic} \in SUBSET Topics
    BY BoundAssumption DEF TypeOK, Metadata
  <2>2. metadata_file.partitions \cup new.partitions \in SUBSET TopicPartitions
    BY BoundAssumption DEF TypeOK, Metadata
  <2>3. metadata_file' \in Metadata
    BY <1>4, <2>1, <2>2 DEF Metadata, AppendTopics
  <2>4. QED
    BY <1>4, <2>3 DEF TypeOK, AppendTopics
<1>5. ASSUME NEW c \in Conns PROVE Accept(c) => TypeOK'
  BY DEF TypeOK, Accept
<1>6. ASSUME NEW c \in Conns, NEW body \in Workload, Send(c, body) PROVE TypeOK'
  <2>1. requests[c] \in Seq(Workload)
    BY DEF TypeOK
  <2>2. /\ Append(requests[c], body) \in Seq(Workload)
        /\ Len(Append(requests[c], body)) = Len(requests[c]) + 1
    BY <2>1, AppendProperties
  <2>3. Len(requests[c]) \in Nat
    BY <2>1, LenProperties
  <2>4. requests' \in [Conns -> Seq(Workload)]
    BY <1>6, <2>2 DEF TypeOK, Send
  <2>5. \A d \in Conns : taken'[d] <= Len(requests'[d])
    BY <1>6, <2>2, <2>3 DEF TypeOK, Send
  <2>6. QED
    BY <1>6, <2>4, <2>5 DEF TypeOK, Send
<1>7. ASSUME NEW c \in Conns PROVE Receive(c) => TypeOK'
  BY DEF TypeOK, Receive
<1>8. ASSUME NEW c \in Conns PROVE CloseSocket(c) => TypeOK'
  BY DEF TypeOK, CloseSocket
<1>9. ASSUME NEW c \in Conns, ReadMessage(c) PROVE TypeOK'
  <2>1. requests[c] \in Seq(Workload)
    BY DEF TypeOK
  <2>2. Len(requests[c]) \in Nat
    BY <2>1, LenProperties
  <2>3. \A d \in Conns : taken'[d] <= Len(requests'[d])
    BY <1>9, <2>2 DEF TypeOK, ReadMessage
  <2>4. taken' \in [Conns -> Nat]
    BY <1>9 DEF TypeOK, ReadMessage
  <2>5. task' \in [Conns -> Tasks]
    BY <1>9, ReadMessageTask DEF TypeOK, ReadMessage
  <2>6. QED
    BY <1>9, <2>3, <2>4, <2>5 DEF TypeOK, ReadMessage
<1>10. ASSUME NEW c \in Conns PROVE ReadEnds(c) => TypeOK'
  BY DEF TypeOK, ReadEnds
<1>11. ASSUME NEW c \in Conns, Reply(c) PROVE TypeOK'
  <2>1. taken[c] \in Nat \ {0}
    BY <1>11 DEF TypeOK, Reply, HandlersHaveRequests
  <2>2. [cid |-> taken[c], parts |-> partition_responses[c]] \in Response
    BY <2>1 DEF TypeOK, Response
  <2>3. responses[c] \in Seq(Response)
    BY DEF TypeOK
  <2>4. Append(responses[c], [cid |-> taken[c], parts |-> partition_responses[c]])
          \in Seq(Response)
    BY <2>2, <2>3, AppendProperties
  <2>5. responses' \in [Conns -> Seq(Response)]
    BY <1>11, <2>4 DEF TypeOK, Reply
  <2>6. QED
    BY <1>11, <2>5, NothingType DEF TypeOK, Reply, Forget
<1>12. ASSUME NEW c \in Conns PROVE Drained(c) => TypeOK'
  BY DEF TypeOK, Drained
<1>13. ASSUME NEW c \in Conns PROVE DrainFails(c) => TypeOK'
  BY DEF TypeOK, DrainFails
<1>14. ASSUME NEW c \in Conns PROVE HandlerFails(c) => TypeOK'
  BY NothingType DEF TypeOK, HandlerFails, Forget
<1>15. ASSUME NEW c \in Conns, ProduceReject(c) PROVE TypeOK'
  <2>1. Entry(c).tp \in TopicPartitions
    BY <1>15, EntryType DEF ProduceReject, Handling, HandlersHaveRequests
  <2>2. PartAnswer(Entry(c).tp, UNKNOWN_TOPIC_OR_PARTITION, -1, <<>>) \in PartResponse
    BY <2>1, EmptyAnswerType DEF Errors
  <2>3. part[c] + 1 \in Nat \ {0}
    BY DEF TypeOK
  <2>4. /\ partition_responses' \in [Conns -> Seq(PartResponse)]
        /\ part' \in [Conns -> Nat \ {0}]
    BY <1>15, <2>2, <2>3, AnswerType DEF ProduceReject
  <2>5. QED
    BY <1>15, <2>4 DEF TypeOK, ProduceReject
<1>16. ASSUME NEW c \in Conns, ProduceLookup(c) PROVE TypeOK'
  <2>1. Entry(c).tp \in TopicPartitions
    BY <1>16, EntryType DEF ProduceLookup, Handling, HandlersHaveRequests
  <2>2. LogEndOffset(logs[Entry(c).tp]) \in Nat
    BY <2>1, LogEndOffsetType DEF TypeOK
  <2>3. QED
    BY <1>16, <2>2 DEF TypeOK, ProduceLookup
<1>17. ASSUME NEW c \in Conns, ProduceAppend(c) PROVE TypeOK'
  <2> DEFINE batch == [base |-> leo[c], count |-> Entry(c).arg,
                       src |-> <<c, taken[c], part[c]>>]
  <2>1. /\ taken[c] \in Nat \ {0}
        /\ HasEntry(c)
        /\ Current(c).api = "Produce"
    BY <1>17 DEF ProduceAppend, HandlersHaveRequests, TypeOK
  <2>2. Entry(c).tp \in TopicPartitions /\ Entry(c).arg \in Nat \ {0}
    BY <2>1, EntryType
  <2>3. leo[c] \in Nat /\ part[c] \in Nat \ {0}
    BY DEF TypeOK
  <2>4. batch \in Batch(Source)
    BY <2>1, <2>2, <2>3 DEF Batch, Source
  <2>5. Append(logs[Entry(c).tp], batch) \in Seq(Batch(Source))
    BY <2>2, <2>4, AppendProperties DEF TypeOK
  <2>6. logs' \in [TopicPartitions -> Seq(Batch(Source))]
    BY <1>17, <2>5 DEF TypeOK, ProduceAppend
  <2>7. ProduceAnswer(c) \in PartResponse
    BY <2>2, <2>3, EmptyAnswerType DEF Errors, ProduceAnswer
  <2>8. /\ partition_responses' \in [Conns -> Seq(PartResponse)]
        /\ part' \in [Conns -> Nat \ {0}]
    BY <1>17, <2>3, <2>7, AnswerType DEF ProduceAppend
  <2>9. QED
    BY <1>17, <2>6, <2>8 DEF TypeOK, ProduceAppend
<1>18. ASSUME NEW c \in Conns, FetchUnknownTopic(c) PROVE TypeOK'
  <2>1. Entry(c).tp[1] \in Topics
    BY <1>18, EntryType DEF FetchUnknownTopic, Handling, HandlersHaveRequests
  <2>2. PartAnswer(<<Entry(c).tp[1], 0>>, UnknownTopic(c), 0, <<>>) \in PartResponse
    <3>1. <<Entry(c).tp[1], 0>> \in TopicPartitions
      BY <2>1, BoundAssumption DEF TopicPartitions
    <3>2. QED
      BY <3>1, UnknownTopicType, EmptyAnswerType
  <2>3. PICK next \in part[c] + 1 .. Len(Current(c).parts) + 1 :
          Answer(c, PartAnswer(<<Entry(c).tp[1], 0>>, UnknownTopic(c), 0, <<>>), next)
    BY <1>18 DEF FetchUnknownTopic
  <2>4. next \in Nat \ {0}
    BY <2>3 DEF TypeOK
  <2>5. /\ partition_responses' \in [Conns -> Seq(PartResponse)]
        /\ part' \in [Conns -> Nat \ {0}]
    BY <2>2, <2>3, <2>4, AnswerType
  <2>6. QED
    BY <1>18, <2>5 DEF TypeOK, FetchUnknownTopic
<1>19. ASSUME NEW c \in Conns, FetchRead(c) PROVE TypeOK'
  <2> DEFINE log == logs[Entry(c).tp]
  <2>1. Entry(c).tp \in TopicPartitions /\ Entry(c).arg \in Int
    BY <1>19, EntryType DEF FetchRead, HandlersHaveRequests
  <2>2. log \in Seq(Batch(Source)) /\ leo[c] \in Int
    BY <2>1 DEF TypeOK
  <2>3. ReadLogFrom(log, Entry(c).arg) \in Seq(Batch(Source))
    BY <2>1, <2>2, ReadLogFromType
  <2>4. PartAnswer(Entry(c).tp, NO_ERROR, leo[c], ReadLogFrom(log, Entry(c).arg))
          \in PartResponse
    BY <2>1, <2>2, <2>3, PartAnswerType DEF Errors
  <2>5. part[c] + 1 \in Nat \ {0}
    BY DEF TypeOK
  <2>6. /\ partition_responses' \in [Conns -> Seq(PartResponse)]
        /\ part' \in [Conns -> Nat \ {0}]
    BY <1>19, <2>4, <2>5, AnswerType DEF FetchRead
  <2>7. task' \in [Conns -> Tasks]
    BY <1>19 DEF TypeOK, FetchRead
  <2>8. QED
    BY <1>19, <2>6, <2>7 DEF TypeOK, FetchRead
<1>20. ASSUME NEW c \in Conns, ListOffsetsPartition(c) PROVE TypeOK'
  <2> DEFINE tp == Entry(c).tp
  <2> DEFINE good == PartAnswer(tp, NO_ERROR, ListedOffset(logs[tp], Entry(c).arg), <<>>)
  <2> DEFINE bad == PartAnswer(tp, UNKNOWN_TOPIC_OR_PARTITION, -1, <<>>)
  <2>1. tp \in TopicPartitions
    BY <1>20, EntryType DEF ListOffsetsPartition, Handling, HandlersHaveRequests
  <2>2. ListedOffset(logs[tp], Entry(c).arg) \in Int
    BY <2>1, LogEndOffsetType DEF TypeOK, ListedOffset
  <2>3. good \in PartResponse
    BY <2>1, <2>2, EmptyAnswerType DEF Errors
  <2>4. bad \in PartResponse
    BY <2>1, EmptyAnswerType DEF Errors
  <2>5. part[c] + 1 \in Nat \ {0}
    BY DEF TypeOK
  <2>6. PICK r \in PartResponse : Answer(c, r, part[c] + 1)
    BY <1>20, <2>3, <2>4 DEF ListOffsetsPartition
  <2>7. /\ partition_responses' \in [Conns -> Seq(PartResponse)]
        /\ part' \in [Conns -> Nat \ {0}]
    BY <2>5, <2>6, AnswerType
  <2>8. QED
    BY <1>20, <2>7 DEF TypeOK, ListOffsetsPartition
<1>21. ASSUME NEW c \in Conns, FetchLookup(c) PROVE TypeOK'
  <2>1. Entry(c).tp \in TopicPartitions
    BY <1>21, EntryType DEF FetchLookup, Handling, HandlersHaveRequests
  <2>2. LogEndOffset(logs[Entry(c).tp]) \in Nat
    BY <2>1, LogEndOffsetType DEF TypeOK
  <2>3. QED
    BY <1>21, <2>2 DEF TypeOK, FetchLookup
<1>22. QED
  BY <1>1, <1>2, <1>3, <1>4, <1>5, <1>6, <1>7, <1>8, <1>9, <1>10, <1>11, <1>12,
     <1>13, <1>14, <1>15, <1>16, <1>17, <1>18, <1>19, <1>20, <1>21
     DEF Next, Client, Serve, Handle

-----------------------------------------------------------------------------

\* No await inside a handler: the event loop never starts a second one.
LEMMA OneHandlerStep ==
    ASSUME TypeOK, OneHandler, [Next]_vars
    PROVE  OneHandler'
<1> USE DEF OneHandler, Running, Busy, handler, TypeOK
<1>1. CASE UNCHANGED vars
  BY <1>1 DEF vars
<1>2. CASE Start
  BY <1>2 DEF Start
<1>3. CASE Crash
  BY <1>3 DEF Crash
<1>4. ASSUME NEW new, AppendTopics(new) PROVE OneHandler'
  BY <1>4 DEF AppendTopics
<1>5. ASSUME NEW c \in Conns, Client(c) PROVE OneHandler'
  BY <1>5 DEF Client, Accept, Receive, CloseSocket, Send
<1>6. ASSUME NEW c \in Conns, ReadMessage(c) PROVE OneHandler'
  BY <1>6 DEF ReadMessage, Scheduled
<1>7. ASSUME NEW c \in Conns, ReadEnds(c) \/ Reply(c) \/ Drained(c) \/ DrainFails(c)
      PROVE  OneHandler'
  BY <1>7 DEF ReadEnds, Reply, Drained, DrainFails
<1>8. ASSUME NEW c \in Conns, HandlerFails(c) PROVE OneHandler'
  BY <1>8 DEF HandlerFails
<1>9. ASSUME NEW c \in Conns,
             ProduceLookup(c) \/ ProduceAppend(c) \/ FetchLookup(c) \/ FetchRead(c)
      PROVE  OneHandler'
  BY <1>9 DEF ProduceLookup, ProduceAppend, FetchLookup, FetchRead, Handling
<1>10. ASSUME NEW c \in Conns,
              ProduceReject(c) \/ FetchUnknownTopic(c) \/ ListOffsetsPartition(c)
       PROVE  OneHandler'
  BY <1>10 DEF ProduceReject, FetchUnknownTopic, ListOffsetsPartition
<1>11. QED
  BY <1>1, <1>2, <1>3, <1>4, <1>5, <1>6, <1>7, <1>8, <1>9, <1>10
     DEF Next, Serve, Handle

\* A request that was read does not change when more are sent.
LEMMA CurrentStays ==
    ASSUME TypeOK, NEW c \in Conns, taken[c] # 0,
           NEW d \in Conns, NEW body \in Workload, Send(d, body)
    PROVE  /\ Current(c)' = Current(c)
           /\ HasEntry(c)' <=> HasEntry(c)
           /\ Entry(c)' = Entry(c)
<1>1. taken[c] \in 1 .. Len(requests[c]) /\ requests[c] \in Seq(Workload)
  BY CurrentType DEF TypeOK
<1>2. Append(requests[c], body)[taken[c]] = requests[c][taken[c]]
  BY <1>1, AppendProperties
<1>3. requests'[c][taken[c]] = requests[c][taken[c]]
  BY <1>2 DEF Send, TypeOK
<1>4. taken' = taken /\ part' = part
  BY DEF Send, handler
<1>5. Current(c)' = Current(c)
  BY <1>3, <1>4 DEF Current
<1>6. QED
  BY <1>4, <1>5 DEF HasEntry, Entry

\* What a step does to a handler that has the end of a log: nothing, unless it
\* is the one that looks it up.
LEMMA LookupStep ==
    ASSUME IInv, [Next]_vars, NEW c \in Conns, task'[c] \in {"append", "fetch"}
    PROVE  \/ /\ task[c] = task'[c]
              /\ UNCHANGED logs
              /\ leo'[c] = leo[c]
              /\ Current(c)' = Current(c) /\ Entry(c)' = Entry(c)
              /\ HasEntry(c)' <=> HasEntry(c)
           \/ ProduceLookup(c) \/ FetchLookup(c)
<1> USE DEF disk, handler, client, IInv, TypeOK
<1>1. ASSUME NEW body \in Workload, NEW d \in Conns, Send(d, body)
      PROVE  /\ task[c] = task'[c]
             /\ UNCHANGED logs
             /\ leo'[c] = leo[c]
             /\ Current(c)' = Current(c) /\ Entry(c)' = Entry(c)
             /\ HasEntry(c)' <=> HasEntry(c)
  <2>1. task[c] = task'[c]
    BY <1>1 DEF Send
  <2>2. taken[c] # 0
    BY <2>1 DEF HandlersHaveRequests, Busy
  <2>3. QED
    BY <1>1, <2>1, <2>2, CurrentStays DEF Send
<1>2. CASE /\ task[c] = task'[c]
           /\ UNCHANGED <<logs, requests>>
           /\ leo'[c] = leo[c]
           /\ taken'[c] = taken[c] /\ part'[c] = part[c]
  BY <1>2 DEF Current, Entry, HasEntry
<1>3. CASE UNCHANGED vars
  BY <1>2, <1>3 DEF vars
<1>4. CASE Start
  BY <1>2, <1>4 DEF Start
<1>5. CASE Crash
  BY <1>5 DEF Crash
<1>6. ASSUME NEW new, AppendTopics(new)
      PROVE  /\ task[c] = task'[c]
             /\ UNCHANGED <<logs, requests>>
             /\ leo'[c] = leo[c]
             /\ taken'[c] = taken[c] /\ part'[c] = part[c]
  BY <1>6 DEF AppendTopics
<1>7. ASSUME NEW d \in Conns, Accept(d) \/ Receive(d) \/ CloseSocket(d) \/ ReadEnds(d)
                                \/ Drained(d) \/ DrainFails(d)
      PROVE  /\ task[c] = task'[c]
             /\ UNCHANGED <<logs, requests>>
             /\ leo'[c] = leo[c]
             /\ taken'[c] = taken[c] /\ part'[c] = part[c]
  BY <1>7 DEF Accept, Receive, CloseSocket, ReadEnds, Drained, DrainFails
<1>8. ASSUME NEW d \in Conns, ReadMessage(d) \/ Reply(d) \/ HandlerFails(d)
      PROVE  /\ task[c] = task'[c]
             /\ UNCHANGED <<logs, requests>>
             /\ leo'[c] = leo[c]
             /\ taken'[c] = taken[c] /\ part'[c] = part[c]
  BY <1>8, ReadMessageTask DEF ReadMessage, Reply, HandlerFails, Forget
<1>9. ASSUME NEW d \in Conns, ProduceReject(d) \/ FetchUnknownTopic(d)
                                \/ ListOffsetsPartition(d)
      PROVE  /\ task[c] = task'[c]
             /\ UNCHANGED <<logs, requests>>
             /\ leo'[c] = leo[c]
             /\ taken'[c] = taken[c] /\ part'[c] = part[c]
  BY <1>9 DEF ProduceReject, FetchUnknownTopic, ListOffsetsPartition,
              Handling, Answer
<1>10. ASSUME NEW d \in Conns, ProduceLookup(d) \/ FetchLookup(d), d # c
       PROVE  /\ task[c] = task'[c]
              /\ UNCHANGED <<logs, requests>>
              /\ leo'[c] = leo[c]
              /\ taken'[c] = taken[c] /\ part'[c] = part[c]
  BY <1>10 DEF ProduceLookup, FetchLookup
<1>11. ASSUME NEW d \in Conns, ProduceAppend(d) \/ FetchRead(d) PROVE FALSE
  <2>1. task[d] \in Busy /\ task'[d] = "handle"
    BY <1>11 DEF ProduceAppend, FetchRead, Busy
  <2>2. c # d /\ task[c] \in Busy
    BY <1>11, <2>1 DEF ProduceAppend, FetchRead, Busy
  <2>3. QED
    BY <2>1, <2>2 DEF OneHandler, Running
<1>12. QED
  BY <1>1, <1>2, <1>3, <1>4, <1>5, <1>6, <1>7, <1>8, <1>9, <1>10, <1>11
     DEF Next, Client, Serve, Handle

LEMMA ServedRequestStep ==
    ASSUME IInv, [Next]_vars, NEW c \in Conns, task'[c] \in Busy \cup {"drain"}
    PROVE  taken'[c] # 0
<1> USE DEF IInv, TypeOK, HandlersHaveRequests, Busy, handler, client
<1>1. CASE UNCHANGED vars
  BY <1>1 DEF vars
<1>2. CASE Start
  BY <1>2 DEF Start
<1>3. CASE Crash
  BY <1>3 DEF Crash
<1>4. ASSUME NEW new, AppendTopics(new) PROVE taken'[c] # 0
  BY <1>4 DEF AppendTopics
<1>5. ASSUME NEW d \in Conns, Client(d) PROVE taken'[c] # 0
  BY <1>5 DEF Client, Accept, Receive, CloseSocket, Send
<1>6. ASSUME NEW d \in Conns, ReadMessage(d) PROVE taken'[c] # 0
  BY <1>6 DEF ReadMessage
<1>7. ASSUME NEW d \in Conns, ReadEnds(d) \/ Reply(d) \/ Drained(d) \/ DrainFails(d)
                                \/ HandlerFails(d)
      PROVE  taken'[c] # 0
  BY <1>7 DEF ReadEnds, Reply, Drained, DrainFails, HandlerFails
<1>8. ASSUME NEW d \in Conns, Handle(d) PROVE taken'[c] # 0
  BY <1>8 DEF Handle, ProduceReject, ProduceLookup, ProduceAppend, FetchUnknownTopic,
              FetchLookup, FetchRead, ListOffsetsPartition, Handling
<1>9. QED
  BY <1>1, <1>2, <1>3, <1>4, <1>5, <1>6, <1>7, <1>8 DEF Next, Serve

\* The end that a handler reads is the end it appends at.
LEMMA FreshStep ==
    ASSUME IInv, [Next]_vars
    PROVE  HandlersHaveRequests' /\ EndOffsetIsFresh'
<1>1. ASSUME NEW c \in Conns, task'[c] \in {"append", "fetch"}
      PROVE  /\ HasEntry(c)'
             /\ task'[c] = "append" => Current(c)'.api = "Produce"
             /\ task'[c] = "fetch" => Current(c)'.api = "Fetch"
             /\ leo'[c] = LogEndOffset(logs[Entry(c).tp])'
  <2>1. CASE ProduceLookup(c) \/ FetchLookup(c)
    <3>1. /\ UNCHANGED <<logs, requests, taken, part>>
          /\ HasEntry(c)
          /\ task'[c] = "append" => Current(c).api = "Produce"
          /\ task'[c] = "fetch" => Current(c).api = "Fetch"
          /\ leo'[c] = LogEndOffset(logs[Entry(c).tp])
      BY <2>1 DEF ProduceLookup, FetchLookup, Handling, disk, client, IInv, TypeOK
    <3>2. QED
      BY <3>1 DEF HasEntry, Current, Entry
  <2>2. CASE /\ task[c] = task'[c]
             /\ UNCHANGED logs
             /\ leo'[c] = leo[c]
             /\ Current(c)' = Current(c) /\ Entry(c)' = Entry(c)
             /\ HasEntry(c)' <=> HasEntry(c)
    BY <1>1, <2>2 DEF IInv, HandlersHaveRequests, EndOffsetIsFresh
  <2>3. QED
    BY <1>1, <2>1, <2>2, LookupStep
<1>2. HandlersHaveRequests'
  BY <1>1, ServedRequestStep DEF HandlersHaveRequests
<1>3. EndOffsetIsFresh'
  BY <1>1 DEF EndOffsetIsFresh
<1>4. QED
  BY <1>2, <1>3

\* Only ProduceAppend writes to a log.
LEMMA LogsStep ==
    ASSUME [Next]_vars
    PROVE  UNCHANGED logs \/ \E c \in Conns : ProduceAppend(c)
BY DEF Next, vars, Start, Crash, AppendTopics, Client, Accept, Send, Receive, CloseSocket,
       Serve, ReadMessage, ReadEnds, Reply, Drained, DrainFails, HandlerFails, Handle,
       ProduceReject, ProduceLookup, FetchUnknownTopic, FetchLookup, FetchRead,
       ListOffsetsPartition, disk

\* The batch an appending handler writes, and where.
LEMMA AppendedBatch ==
    ASSUME IInv, NEW c \in Conns, ProduceAppend(c)
    PROVE  \E b \in Batch(Source) :
             /\ b = [base |-> leo[c], count |-> Entry(c).arg,
                     src |-> <<c, taken[c], part[c]>>]
             /\ Entry(c).tp \in TopicPartitions
             /\ b.base = LogEndOffset(logs[Entry(c).tp])
             /\ logs' = [logs EXCEPT ![Entry(c).tp] = Append(@, b)]
<1> DEFINE b == [base |-> leo[c], count |-> Entry(c).arg,
                 src |-> <<c, taken[c], part[c]>>]
<1>1. /\ task[c] = "append" /\ taken[c] \in Nat \ {0}
      /\ HasEntry(c) /\ Current(c).api = "Produce"
  BY DEF ProduceAppend, IInv, HandlersHaveRequests, TypeOK, Busy
<1>2. Entry(c).tp \in TopicPartitions /\ Entry(c).arg \in Nat \ {0}
  BY <1>1, EntryType DEF IInv
<1>3. leo[c] \in Nat /\ part[c] \in Nat \ {0}
  BY DEF IInv, TypeOK
<1>4. b \in Batch(Source)
  BY <1>1, <1>2, <1>3 DEF Batch, Source
<1>5. b.base = LogEndOffset(logs[Entry(c).tp])
  BY <1>1 DEF IInv, EndOffsetIsFresh
<1>6. logs' = [logs EXCEPT ![Entry(c).tp] = Append(@, b)]
  BY DEF ProduceAppend
<1>7. QED
  BY <1>2, <1>4, <1>5, <1>6

LEMMA ContiguousStep ==
    ASSUME IInv, [Next]_vars
    PROVE  OffsetsContiguous'
<1>1. CASE UNCHANGED logs
  BY <1>1 DEF IInv, OffsetsContiguous
<1>2. ASSUME NEW c \in Conns, ProduceAppend(c) PROVE OffsetsContiguous'
  <2>1. PICK b \in Batch(Source) :
          /\ Entry(c).tp \in TopicPartitions
          /\ b.base = LogEndOffset(logs[Entry(c).tp])
          /\ logs' = [logs EXCEPT ![Entry(c).tp] = Append(@, b)]
    BY <1>2, AppendedBatch
  <2>2. SUFFICES ASSUME NEW tp \in TopicPartitions PROVE Contiguous(logs'[tp])
    BY DEF OffsetsContiguous
  <2>3. logs \in [TopicPartitions -> Seq(Batch(Source))] /\ Contiguous(logs[tp])
    BY DEF IInv, TypeOK, OffsetsContiguous
  <2>4. CASE tp # Entry(c).tp
    BY <2>1, <2>3, <2>4
  <2>5. CASE tp = Entry(c).tp
    <3>1. logs'[tp] = Append(logs[tp], b)
      BY <2>1, <2>3, <2>5
    <3>2. logs[tp] \in Seq(Batch(Source)) /\ b.base = LogEndOffset(logs[tp])
      BY <2>1, <2>3, <2>5
    <3>3. QED
      BY <2>3, <3>1, <3>2, AppendAtEnd
  <2>6. QED
    BY <2>4, <2>5
<1>3. QED
  BY <1>1, <1>2, LogsStep

-----------------------------------------------------------------------------

LEMMA InitIInv ==
    ASSUME Init
    PROVE  IInv
<1>1. TypeOK
  <2>1. <<>> \in Seq(Batch(Source)) /\ <<>> \in Seq(PartResponse)
    BY NothingType
  <2>2. <<>> \in Seq(Workload) /\ Len(<<>>) = 0 /\ <<>> \in Seq(Response)
    BY EmptySeq
  <2>3. /\ logs \in [TopicPartitions -> Seq(Batch(Source))]
        /\ partition_responses \in [Conns -> Seq(PartResponse)]
    BY <2>1 DEF Init
  <2>4. /\ requests \in [Conns -> Seq(Workload)]
        /\ responses \in [Conns -> Seq(Response)]
    BY <2>2 DEF Init
  <2>5. \A c \in Conns : taken[c] = 0 /\ Len(requests[c]) = 0
    BY <2>2 DEF Init
  <2>6. metadata_file \in Metadata /\ cluster_metadata \in Metadata
    BY NoMetadataType, BoundAssumption DEF Init
  <2>7. up \in BOOLEAN /\ task \in [Conns -> Tasks]
    BY DEF Init, Tasks, Busy
  <2>8. /\ taken \in [Conns -> Nat]
        /\ part \in [Conns -> Nat \ {0}]
        /\ leo \in [Conns -> Nat]
        /\ delivered \in [Conns -> Nat]
    BY DEF Init
  <2>9. socket \in [Conns -> {"none", "open", "gone"}]
    BY DEF Init
  <2>10. QED
    BY <2>3, <2>4, <2>5, <2>6, <2>7, <2>8, <2>9 DEF TypeOK
<1>2. OneHandler /\ HandlersHaveRequests /\ EndOffsetIsFresh
  BY DEF Init, OneHandler, Running, Busy, HandlersHaveRequests, EndOffsetIsFresh
<1>3. OffsetsContiguous
  BY DEF Init, OffsetsContiguous, Contiguous
<1>4. QED
  BY <1>1, <1>2, <1>3 DEF IInv

LEMMA IInvStep ==
    ASSUME IInv, [Next]_vars
    PROVE  IInv'
<1>1. TypeOK'
  BY TypeStep DEF IInv
<1>2. OneHandler'
  BY OneHandlerStep DEF IInv
<1>3. HandlersHaveRequests' /\ EndOffsetIsFresh'
  BY FreshStep
<1>4. OffsetsContiguous'
  BY ContiguousStep
<1>5. QED
  BY <1>1, <1>2, <1>3, <1>4 DEF IInv

\* IInv is inductive.
THEOREM Invariance == Spec => []IInv
<1>1. Init => IInv
  BY InitIInv
<1>2. IInv /\ [Next]_vars => IInv'
  BY IInvStep
<1>3. QED
  BY <1>1, <1>2, PTL DEF Spec

\* All variables keep to their types: among other things, every response
\* written consists of well-formed entries, and no request is read twice.
THEOREM TypeCorrect == Spec => []TypeOK
<1>1. IInv => TypeOK
  BY DEF IInv
<1>2. QED
  BY <1>1, Invariance, PTL

\* produce.py reads the end of the log and then appends, fetch.py reads it and
\* then the data, both without a lock: the end that was read is still the end
\* at the second step.
THEOREM FreshOffsets == Spec => []EndOffsetIsFresh
<1>1. IInv => EndOffsetIsFresh
  BY DEF IInv
<1>2. QED
  BY <1>1, Invariance, PTL

\* However many connections produce to however many partitions, and however
\* often the broker is killed, the offsets in every log start at 0 and
\* follow on without gap or overlap.
THEOREM ContiguousOffsets == Spec => []OffsetsContiguous
<1>1. IInv => OffsetsContiguous
  BY DEF IInv
<1>2. QED
  BY <1>1, Invariance, PTL

-----------------------------------------------------------------------------
(***************************************************************************)
(* What the broker's answers and logs say about what was sent.             *)
(*                                                                         *)
(* Each property speaks of responses that were written.  None of them is   *)
(* inductive: a response is right because the handler that built it had    *)
(* the same thing right of every entry answered so far.  So each invariant *)
(* here adds to its property what holds of the answer in progress, and     *)
(* HandlersKeepPlace says how the two handler locals, the entry it is at   *)
(* and the entries answered, belong together.                              *)
(***************************************************************************)

\* The answer a handler has so far, in the form of the response it will be.
InProgress(c) == [cid |-> taken[c], parts |-> partition_responses[c]]

\* A connection has a task only once it is accepted, and has read nothing
\* before.  A handler runs for a request with a known key; Produce and
\* ListOffsets answer the entries one by one; and no handler leaves its
\* locals to the next.
KeepsPlace(c) ==
    /\ socket[c] = "none" => task[c] = "none"
    /\ task[c] = "none" => taken[c] = 0
    /\ ~Running(c) => part[c] = 1 /\ partition_responses[c] = <<>>
    /\ Running(c) =>
         /\ Current(c).api \in APIKEYS
         /\ Current(c).api \in {"Produce", "ListOffsets"} =>
              /\ part[c] = Len(partition_responses[c]) + 1
              /\ part[c] <= Len(Current(c).parts) + 1

HandlersKeepPlace == \A c \in Conns : KeepsPlace(c)

PlaceInv == IInv /\ HandlersKeepPlace

\* The correlation ids answered on c, and those of the requests read with a
\* known key.
AnsweredCids(c) == {responses[c][n].cid : n \in DOMAIN responses[c]}
Known(c) == {i \in 1 .. taken[c] : requests[c][i].api \in APIKEYS}

\* The request a handler is at has no answer yet.
InOrder(c) ==
    /\ \A m, n \in DOMAIN responses[c] : m < n => responses[c][m].cid < responses[c][n].cid
    /\ AnsweredCids(c) \subseteq Known(c)
    /\ Known(c) \ {taken[c]} \subseteq AnsweredCids(c)
    /\ task[c] \in {"read", "drain"} => Known(c) = AnsweredCids(c)
    /\ Running(c) => taken[c] \notin AnsweredCids(c)

OrderInv == PlaceInv /\ \A c \in Conns : InOrder(c)

\* The handler has been through this produce entry.
Past(src) ==
    LET c == src[1]
    IN  src[2] < taken[c] \/ (src[2] = taken[c] /\ (Running(c) => src[3] < part[c]))

\* The batch is a produce entry sent for this log, and handled.
Sent(tp, b) ==
    LET body == requests[b.src[1]][b.src[2]]
    IN  /\ Past(b.src)
        /\ body.api = "Produce"
        /\ body.parts[b.src[3]] = [tp |-> tp, arg |-> b.count]

StoreInv ==
    /\ PlaceInv
    /\ \A tp \in TopicPartitions : \A i \in DOMAIN logs[tp] :
         /\ Sent(tp, logs[tp][i])
         /\ \A j \in 1 .. i - 1 : logs[tp][j].src[1] = logs[tp][i].src[1] =>
                SentBefore(logs[tp][j].src, logs[tp][i].src)

\* The entry of the response says where the produce entry's records are.
PlacedAt == [src \in Source |-> Placed(src)]
Truthful(src, asked, p) ==
    PlacedAt[src] = IF p.error = NO_ERROR
                    THEN {[tp |-> asked.tp, base |-> p.offset, count |-> asked.arg]}
                    ELSE {}

\* So does every entry of the response, or of the answer in progress.
TruthSoFar(c, r, body) ==
    body.api = "Produce" =>
        \A k \in DOMAIN r.parts : Truthful(<<c, r.cid, k>>, body.parts[k], r.parts[k])
TruthTold(c, r, body) ==
    body.api = "Produce" =>
        /\ Len(r.parts) = Len(body.parts)
        /\ \A k \in DOMAIN body.parts : Truthful(<<c, r.cid, k>>, body.parts[k], r.parts[k])

AcksInv ==
    /\ StoreInv
    /\ OrderInv
    /\ \A c \in Conns : \A n \in DOMAIN responses[c] :
           TruthTold(c, responses[c][n], requests[c][responses[c][n].cid])
    /\ \A c \in Conns : Running(c) => TruthSoFar(c, InProgress(c), Current(c))

\* The answer p to a fetch with this body delivers all from its offset on.
Asked(body) == {body.parts[j] : j \in DOMAIN body.parts}
EachOnce(p, from) ==
    \A o \in from .. p.offset - 1 :
        Cardinality({i \in DOMAIN p.data : Covers(p.data[i], o)}) = 1
DeliversAll(body, p) ==
    p.error = NO_ERROR =>
      \E asked \in Asked(body) :
        /\ asked.tp = p.tp
        /\ EachOnce(p, asked.arg)
        /\ \A i \in DOMAIN p.data :
             \E j \in DOMAIN logs[asked.tp] : logs[asked.tp][j] = p.data[i]
        /\ p.data # <<>> <=> asked.arg < p.offset
Delivered(r, body) ==
    body.api = "Fetch" => \A k \in DOMAIN r.parts : DeliversAll(body, r.parts[k])

FetchInv ==
    /\ OrderInv
    /\ \A c \in Conns : \A n \in DOMAIN responses[c] :
           Delivered(responses[c][n], requests[c][responses[c][n].cid])
    /\ \A c \in Conns : Running(c) => Delivered(InProgress(c), Current(c))

\* No end that was reported lies beyond the log, and an end in an answer in
\* progress is not before any that was reported.
Within(e) == e.tp \in TopicPartitions /\ e.end \in Int /\ e.end <= LogEndOffset(logs[e.tp])
EndsInv ==
    /\ OrderInv
    /\ \A e \in Reported : Within(e)
    /\ \A c \in Conns : Running(c) =>
         \A now \in Ends(c, InProgress(c)) :
           /\ Within(now)
           /\ \A then \in Reported : then.tp = now.tp => then.end <= now.end

-----------------------------------------------------------------------------
(* What a step can do to requests, handlers and answers. *)

\* No answer is given: a handler goes on as before or is gone, and what
\* comes to read is a task that was reading, draining or not there.
Settles ==
    /\ UNCHANGED <<logs, taken, responses>>
    /\ \A c \in Conns :
         /\ task'[c] = "none" => task[c] = "none"
         /\ task'[c] \in {"read", "drain"} => task[c] \in {"none", "read", "drain"}
         /\ \/ /\ Running(c)' <=> Running(c)
               /\ part'[c] = part[c] /\ partition_responses'[c] = partition_responses[c]
            \/ /\ ~Running(c)'
               /\ part'[c] = 1 /\ partition_responses'[c] = <<>>

\* A handler answers an entry without writing to a log.
Question(c) ==
    \/ ProduceReject(c) \/ FetchUnknownTopic(c) \/ FetchRead(c)
    \/ ListOffsetsPartition(c)

\* A handler answers an entry, and nothing else happens to any answer.
Answers(c, r, next) ==
    /\ Running(c) /\ HasEntry(c)
    /\ Answer(c, r, next) /\ part[c] < next
    /\ UNCHANGED <<taken, requests, responses>>
    /\ \A d \in Conns :
         /\ Running(d)' <=> Running(d)
         /\ ~Running(d) => task'[d] = task[d]

\* Only Accept gives a connection its task.
LEMMA AcceptedStep ==
    ASSUME PlaceInv, [Next]_vars
    PROVE  \A c \in Conns : socket'[c] = "none" => task'[c] = "none"
<1> USE DEF PlaceInv, HandlersKeepPlace, KeepsPlace, IInv, TypeOK, client
<1>1. CASE UNCHANGED vars
  BY <1>1 DEF vars
<1>2. CASE Start
  BY <1>2 DEF Start
<1>3. CASE Crash
  BY <1>3 DEF Crash
<1>4. ASSUME NEW new, AppendTopics(new)
      PROVE  UNCHANGED <<socket, task>>
  BY <1>4 DEF AppendTopics
<1>5. ASSUME NEW d \in Conns, Accept(d)
      PROVE  \A c \in Conns : socket'[c] = "none" => task'[c] = "none"
  BY <1>5 DEF Accept
<1>6. ASSUME NEW d \in Conns, CloseSocket(d)
      PROVE  \A c \in Conns : socket'[c] = "none" => task'[c] = "none"
  BY <1>6 DEF CloseSocket
<1>7. ASSUME NEW d \in Conns, Receive(d) \/ \E body \in Workload : Send(d, body)
      PROVE  UNCHANGED <<socket, task>>
  BY <1>7 DEF Receive, Send
<1>8. ASSUME NEW d \in Conns, Serve(d) \/ HandlerFails(d)
      PROVE  \A c \in Conns : socket'[c] = "none" => task'[c] = "none"
  <2>1. UNCHANGED socket /\ task[d] # "none"
    BY <1>8 DEF Serve, ReadMessage, ReadEnds, Reply, Drained, DrainFails, HandlerFails,
                Handle, ProduceReject, ProduceLookup, ProduceAppend, FetchUnknownTopic,
                FetchLookup, FetchRead, ListOffsetsPartition, Handling
  <2>2. \A c \in Conns \ {d} : task'[c] = task[c]
    BY <1>8 DEF Serve, ReadMessage, ReadEnds, Reply, Drained, DrainFails, HandlerFails,
                Handle, ProduceReject, ProduceLookup, ProduceAppend, FetchUnknownTopic,
                FetchLookup, FetchRead, ListOffsetsPartition
  <2>3. QED
    BY <2>1, <2>2
<1>9. QED
  BY <1>1, <1>2, <1>3, <1>4, <1>5, <1>6, <1>7, <1>8 DEF Next, Client

LEMMA StepKinds ==
    ASSUME PlaceInv, [Next]_vars
    PROVE  \/ Settles
           \/ \E c \in Conns : ReadMessage(c) \/ Reply(c) \/ ProduceAppend(c) \/ Question(c)
<1> USE DEF Settles, Running, Busy, disk, handler, client
<1>1. CASE UNCHANGED vars
  BY <1>1 DEF vars
<1>2. CASE Start
  BY <1>2 DEF Start
<1>3. CASE Crash
  BY <1>3 DEF Crash, PlaceInv, IInv, TypeOK
<1>4. ASSUME NEW new, AppendTopics(new)
      PROVE  Settles
  BY <1>4 DEF AppendTopics
<1>5. ASSUME NEW c \in Conns, Client(c)
      PROVE  Settles
  <2>1. \/ task' = task
        \/ task[c] = "none" /\ task' = [task EXCEPT ![c] = "read"]
    BY <1>5 DEF PlaceInv, HandlersKeepPlace, KeepsPlace, Client, Accept, Receive, CloseSocket, Send
  <2>2. UNCHANGED <<logs, taken, responses, part, partition_responses>>
    BY <1>5 DEF Client, Accept, Receive, CloseSocket, Send
  <2>3. QED
    BY <2>1, <2>2 DEF PlaceInv, IInv, TypeOK
<1>6. ASSUME NEW c \in Conns, ReadEnds(c) \/ Drained(c) \/ DrainFails(c)
      PROVE  Settles
  BY <1>6 DEF ReadEnds, Drained, DrainFails, PlaceInv, IInv, TypeOK
<1>7. ASSUME NEW c \in Conns, HandlerFails(c)
      PROVE  Settles
  BY <1>7 DEF HandlerFails, Forget, PlaceInv, IInv, TypeOK
<1>8. ASSUME NEW c \in Conns, ProduceLookup(c) \/ FetchLookup(c)
      PROVE  Settles
  BY <1>8 DEF ProduceLookup, FetchLookup, Handling, PlaceInv, IInv, TypeOK
<1>9. QED
  BY <1>1, <1>2, <1>3, <1>4, <1>5, <1>6, <1>7, <1>8
     DEF Next, Serve, Handle, Question

\* Requests that were sent stay as they are.
LEMMA RequestsStay ==
    ASSUME TypeOK, [Next]_vars, NEW c \in Conns
    PROVE  /\ Len(requests[c]) \in Nat /\ Len(requests'[c]) \in Nat
           /\ Len(requests[c]) <= Len(requests'[c])
           /\ \A i \in 1 .. Len(requests[c]) : requests'[c][i] = requests[c][i]
<1>1. requests[c] \in Seq(Workload) /\ Len(requests[c]) \in Nat
  BY LenProperties DEF TypeOK
<1>2. CASE requests' = requests
  BY <1>1, <1>2
<1>3. ASSUME NEW d \in Conns, NEW body \in Workload, Send(d, body)
      PROVE  /\ Len(requests'[c]) \in Nat
             /\ Len(requests[c]) <= Len(requests'[c])
             /\ \A i \in 1 .. Len(requests[c]) : requests'[c][i] = requests[c][i]
  <2>1. requests'[c] = IF c = d THEN Append(requests[c], body) ELSE requests[c]
    BY <1>3 DEF Send, TypeOK
  <2>2. /\ Len(Append(requests[c], body)) = Len(requests[c]) + 1
        /\ \A i \in 1 .. Len(requests[c]) : Append(requests[c], body)[i] = requests[c][i]
    BY <1>1, AppendProperties
  <2>3. QED
    BY <1>1, <2>1, <2>2
<1>4. requests' = requests \/ \E d \in Conns : \E body \in Workload : Send(d, body)
  <2>1. ASSUME NEW d \in Conns, Serve(d)
        PROVE  requests' = requests
    <3>1. Handle(d) => requests' = requests
      BY DEF Handle, ProduceReject, ProduceLookup, ProduceAppend, FetchUnknownTopic,
             FetchLookup, FetchRead, ListOffsetsPartition, client
    <3>2. ReadMessage(d) \/ ReadEnds(d) \/ Reply(d) \/ Drained(d) \/ DrainFails(d)
            => requests' = requests
      BY DEF ReadMessage, ReadEnds, Reply, Drained, DrainFails, client
    <3>3. QED
      BY <2>1, <3>1, <3>2 DEF Serve
  <2>2. ASSUME NEW d \in Conns, Client(d)
        PROVE  requests' = requests \/ \E body \in Workload : Send(d, body)
    BY <2>2 DEF Client, Accept, Receive, CloseSocket, client
  <2>3. ASSUME NEW d \in Conns, HandlerFails(d)
        PROVE  requests' = requests
    BY <2>3 DEF HandlerFails, client
  <2>4. Start \/ Crash => requests' = requests
    BY DEF Start, Crash, client
  <2>5. ASSUME NEW new \in Registrations, AppendTopics(new)
        PROVE  requests' = requests
    BY <2>5 DEF AppendTopics, client
  <2>6. UNCHANGED vars => requests' = requests
    BY DEF vars, client
  <2>7. ASSUME NEW d \in Conns, Client(d) \/ Serve(d) \/ HandlerFails(d)
        PROVE  requests' = requests \/ \E body \in Workload : Send(d, body)
    BY <2>1, <2>2, <2>3, <2>7
  <2>8. CASE \E d \in Conns : Client(d) \/ Serve(d) \/ HandlerFails(d)
    BY <2>7, <2>8
  <2>9. CASE \E new \in Registrations : AppendTopics(new)
    BY <2>5, <2>9
  <2>10. QED
    BY <2>4, <2>6, <2>8, <2>9 DEF Next
<1>5. QED
  BY <1>1, <1>2, <1>3, <1>4

\* The request at hand stays as it is, and so does every one read before.
LEMMA TakenStay ==
    ASSUME TypeOK, [Next]_vars, NEW c \in Conns
    PROVE  /\ taken[c] \in Nat /\ taken[c] <= Len(requests[c])
           /\ \A i \in 1 .. taken[c] : requests'[c][i] = requests[c][i]
<1>1. taken[c] \in Nat /\ taken[c] <= Len(requests[c])
  BY DEF TypeOK
<1>2. QED
  BY <1>1, RequestsStay

\* What the handlers that write nothing answer.
LEMMA QuestionAnswers ==
    ASSUME IInv, NEW c \in Conns, Question(c)
    PROVE  /\ UNCHANGED logs
           /\ Entry(c).tp \in TopicPartitions
           /\ \E r \in PartResponse : \E next \in Nat \ {0} :
                /\ Answers(c, r, next)
                /\ \/ /\ Current(c).api = "Produce" /\ next = part[c] + 1
                      /\ r.error # NO_ERROR
                   \/ /\ Current(c).api = "Fetch" /\ r.error # NO_ERROR
                   \/ /\ Current(c).api = "Fetch"
                      /\ r = PartAnswer(Entry(c).tp, NO_ERROR, LogEndOffset(logs[Entry(c).tp]),
                                        ReadLogFrom(logs[Entry(c).tp], Entry(c).arg))
                   \/ /\ Current(c).api = "ListOffsets" /\ next = part[c] + 1
                      /\ r.tp = Entry(c).tp
                      /\ r.error = NO_ERROR /\ Entry(c).arg = LATEST =>
                           r.offset = LogEndOffset(logs[Entry(c).tp])
<1> USE DEF Question, Answers
<1>1. /\ task[c] \in Busy /\ HasEntry(c) /\ Running(c)
      /\ UNCHANGED <<logs, taken, requests, responses>>
      /\ task' = [task EXCEPT ![c] = "handle"]
  <2>1. CASE FetchRead(c)
    BY <2>1 DEF FetchRead, Running, Busy, disk, client, IInv, HandlersHaveRequests
  <2>2. CASE ProduceReject(c) \/ FetchUnknownTopic(c) \/ ListOffsetsPartition(c)
    BY <2>2 DEF ProduceReject, FetchUnknownTopic, ListOffsetsPartition, Handling,
                Running, Busy, disk, client, IInv, TypeOK
  <2>3. QED
    BY <2>1, <2>2
<1>2. /\ Entry(c).tp \in TopicPartitions /\ Entry(c).tp[1] \in Topics
      /\ Entry(c).arg \in Int
  BY <1>1, EntryType DEF IInv, HandlersHaveRequests
<1>3. part[c] \in Nat \ {0} /\ part[c] + 1 \in Nat \ {0} /\ part[c] < part[c] + 1
  BY DEF IInv, TypeOK
<1>4. \A d \in Conns : /\ Running(d)' <=> Running(d)
                       /\ ~Running(d) => task'[d] = task[d]
  BY <1>1 DEF Running, Busy, IInv, TypeOK
<1> DEFINE tp == Entry(c).tp
<1>5. CASE ProduceReject(c)
  <2>1. PartAnswer(tp, UNKNOWN_TOPIC_OR_PARTITION, -1, <<>>) \in PartResponse
    BY <1>2, EmptyAnswerType DEF Errors
  <2>2. PartAnswer(tp, UNKNOWN_TOPIC_OR_PARTITION, -1, <<>>).error # NO_ERROR
    BY DEF PartAnswer, UNKNOWN_TOPIC_OR_PARTITION, NO_ERROR
  <2>3. QED
    BY <1>1, <1>2, <1>3, <1>4, <1>5, <2>1, <2>2 DEF ProduceReject, Handling
<1>6. CASE FetchUnknownTopic(c)
  <2> DEFINE r == PartAnswer(<<tp[1], 0>>, UnknownTopic(c), 0, <<>>)
  <2>1. <<tp[1], 0>> \in TopicPartitions
    BY <1>2, BoundAssumption DEF TopicPartitions
  <2>2. r \in PartResponse
    BY <2>1, UnknownTopicType, EmptyAnswerType
  <2>3. r.error # NO_ERROR
    BY UnknownTopicType DEF PartAnswer
  <2>4. PICK next \in part[c] + 1 .. Len(Current(c).parts) + 1 : Answer(c, r, next)
    BY <1>6 DEF FetchUnknownTopic
  <2>5. next \in Nat \ {0} /\ part[c] < next
    BY <1>3, <2>4
  <2>6. Current(c).api = "Fetch"
    BY <1>6 DEF FetchUnknownTopic, Handling
  <2>7. QED
    BY <1>1, <1>2, <1>4, <2>2, <2>3, <2>4, <2>5, <2>6
<1>7. CASE FetchRead(c)
  <2>1. logs[tp] \in Seq(Batch(Source))
    BY <1>2 DEF IInv, TypeOK
  <2>2. LogEndOffset(logs[tp]) \in Int
    BY <2>1, LogEndOffsetType
  <2>3. ReadLogFrom(logs[tp], Entry(c).arg) \in Seq(Batch(Source))
    BY <1>2, <2>1, ReadLogFromType
  <2>4. PartAnswer(tp, NO_ERROR, LogEndOffset(logs[tp]),
                   ReadLogFrom(logs[tp], Entry(c).arg)) \in PartResponse
    BY <1>2, <2>2, <2>3, PartAnswerType DEF Errors
  <2>5. Current(c).api = "Fetch" /\ leo[c] = LogEndOffset(logs[tp])
    BY <1>7 DEF FetchRead, IInv, HandlersHaveRequests, EndOffsetIsFresh
  <2>6. QED
    BY <1>1, <1>2, <1>3, <1>4, <1>7, <2>4, <2>5 DEF FetchRead
<1>8. CASE ListOffsetsPartition(c)
  <2> DEFINE good == PartAnswer(tp, NO_ERROR, ListedOffset(logs[tp], Entry(c).arg), <<>>)
  <2> DEFINE bad == PartAnswer(tp, UNKNOWN_TOPIC_OR_PARTITION, -1, <<>>)
  <2>1. LogEndOffset(logs[tp]) \in Nat
    BY <1>2, LogEndOffsetType DEF IInv, TypeOK
  <2>2. good \in PartResponse /\ bad \in PartResponse
    BY <1>2, <2>1, EmptyAnswerType DEF Errors, ListedOffset
  <2>3. good.tp = tp /\ bad.tp = tp
    BY DEF PartAnswer
  <2>4. /\ bad.error # NO_ERROR
        /\ Entry(c).arg = LATEST => good.offset = LogEndOffset(logs[tp])
    BY DEF PartAnswer, ListedOffset, UNKNOWN_TOPIC_OR_PARTITION, NO_ERROR
  <2>5. \E r \in {good, bad} : Answer(c, r, part[c] + 1)
    BY <1>8 DEF ListOffsetsPartition
  <2>6. Current(c).api = "ListOffsets"
    BY <1>8 DEF ListOffsetsPartition, Handling
  <2>7. QED
    BY <1>1, <1>2, <1>3, <1>4, <2>2, <2>3, <2>4, <2>5, <2>6
<1>9. QED
  BY <1>5, <1>6, <1>7, <1>8

LEMMA AppendAnswers ==
    ASSUME IInv, NEW c \in Conns, ProduceAppend(c)
    PROVE  /\ Answers(c, ProduceAnswer(c), part[c] + 1)
           /\ Current(c).api = "Produce"
           /\ ProduceAnswer(c) \in PartResponse
           /\ part[c] \in Nat \ {0} /\ taken[c] \in Nat \ {0}
<1>1. task[c] = "append" /\ HasEntry(c) /\ Current(c).api = "Produce"
  BY DEF ProduceAppend, IInv, HandlersHaveRequests
<1>2. /\ Answer(c, ProduceAnswer(c), part[c] + 1)
      /\ task' = [task EXCEPT ![c] = "handle"]
      /\ UNCHANGED <<taken, requests, responses>>
  BY DEF ProduceAppend, client
<1>3. \A d \in Conns : /\ Running(d)' <=> Running(d)
                       /\ ~Running(d) => task'[d] = task[d]
  BY <1>1, <1>2 DEF Running, Busy, IInv, TypeOK
<1>4. taken[c] \in Nat \ {0} /\ part[c] \in Nat \ {0} /\ leo[c] \in Nat
  BY <1>1 DEF IInv, TypeOK, HandlersHaveRequests, Busy
<1>5. Entry(c).tp \in TopicPartitions
  BY <1>1, <1>4, EntryType DEF IInv
<1>6. ProduceAnswer(c) \in PartResponse
  BY <1>4, <1>5, EmptyAnswerType DEF ProduceAnswer, Errors
<1>7. QED
  BY <1>1, <1>2, <1>3, <1>4, <1>6 DEF Answers, Running, Busy

-----------------------------------------------------------------------------
(* Handlers keep their place. *)

LEMMA CurrentSame ==
    ASSUME IInv, [Next]_vars, NEW c \in Conns, taken'[c] = taken[c], taken[c] # 0
    PROVE  Current(c)' = Current(c)
<1>1. taken[c] \in 1 .. taken[c] /\ TypeOK
  BY DEF IInv, TypeOK
<1>2. QED
  BY <1>1, TakenStay DEF Current

\* What ReadMessage does to the task that reads.
LEMMA ReadMessageStarts ==
    ASSUME IInv, NEW c \in Conns, ReadMessage(c)
    PROVE  /\ taken'[c] = taken[c] + 1 /\ taken[c] \in Nat
           /\ taken' = [taken EXCEPT ![c] = @ + 1]
           /\ \A d \in Conns \ {c} : taken'[d] = taken[d] /\ task'[d] = task[d]
           /\ UNCHANGED <<logs, requests, responses, part, partition_responses, socket>>
           /\ task[c] = "read" /\ ~Running(c)
           /\ task'[c] = AfterReading(Current(c)'.api)
           /\ Current(c)' = requests[c][taken[c] + 1]
           /\ Current(c)' \in Workload
           /\ task'[c] \in {"read", "closed", "handle"}
           /\ task'[c] = "handle" <=> Current(c)'.api \in APIKEYS
           /\ task'[c] = "read" <=> Current(c)'.api = "UnknownKey"
<1>1. taken' = [taken EXCEPT ![c] = @ + 1] /\ taken'[c] = taken[c] + 1 /\ taken[c] \in Nat
  BY DEF ReadMessage, IInv, TypeOK
<1>2. /\ UNCHANGED <<logs, requests, responses, part, partition_responses, socket>>
      /\ \A d \in Conns \ {c} : taken'[d] = taken[d] /\ task'[d] = task[d]
  BY DEF ReadMessage, disk, handler, client, IInv, TypeOK
<1>3. task[c] = "read" /\ ~Running(c)
  BY DEF ReadMessage, Running, Busy
<1>4. Current(c)' = requests[c][taken[c] + 1]
  BY <1>1, <1>2 DEF Current
<1>5. task'[c] = AfterReading(Current(c)'.api)
  BY <1>4 DEF ReadMessage, IInv, TypeOK
<1>6. Current(c)' \in Workload
  <2>1. requests[c] \in Seq(Workload) /\ taken[c] < Len(requests[c]) /\ Len(requests[c]) \in Nat
    BY LenProperties DEF ReadMessage, IInv, TypeOK
  <2>2. taken[c] + 1 \in 1 .. Len(requests[c])
    BY <1>1, <2>1
  <2>3. QED
    BY <1>4, <2>1, <2>2, ElementOfSeq
<1>7. Current(c)'.api \in APIKEYS \cup {"UnknownKey", "Unparsable"}
  BY <1>6, WorkloadAssumption DEF Body, Kinds
<1>8. /\ task'[c] \in {"read", "closed", "handle"}
      /\ task'[c] = "handle" <=> Current(c)'.api \in APIKEYS
      /\ task'[c] = "read" <=> Current(c)'.api = "UnknownKey"
  BY <1>5, <1>7 DEF AfterReading, APIKEYS, LogApis, OtherApis
<1>9. QED
  BY <1>1, <1>2, <1>3, <1>4, <1>5, <1>6, <1>8

\* What Reply does.
LEMMA ReplyWrites ==
    ASSUME PlaceInv, NEW c \in Conns, Reply(c)
    PROVE  /\ UNCHANGED <<logs, requests, taken, socket>>
           /\ Running(c) /\ ~HasEntry(c)
           /\ responses' = [responses EXCEPT ![c] = Append(@, InProgress(c))]
           /\ InProgress(c) \in Response
           /\ task'[c] = "drain" /\ ~Running(c)'
           /\ \A d \in Conns \ {c} : /\ task'[d] = task[d] /\ ~Running(d)
                                     /\ responses'[d] = responses[d]
           /\ part'[c] = 1 /\ partition_responses'[c] = <<>>
           /\ \A d \in Conns \ {c} : /\ part'[d] = part[d]
                                     /\ partition_responses'[d] = partition_responses[d]
<1> USE DEF PlaceInv, IInv, TypeOK
<1>1. /\ UNCHANGED <<logs, requests, taken, socket>>
      /\ Running(c) /\ ~HasEntry(c)
      /\ responses' = [responses EXCEPT ![c] = Append(@, InProgress(c))]
  BY DEF Reply, disk, client, Running, InProgress, Busy
<1>2. taken[c] \in Nat \ {0}
  BY DEF Reply, HandlersHaveRequests, Busy
<1>3. InProgress(c) \in Response
  BY <1>2 DEF InProgress, Response
<1>4. task' = [task EXCEPT ![c] = "drain"]
  BY DEF Reply
<1>5. \A d \in Conns \ {c} : ~Running(d)
  BY DEF Reply, Scheduled, Running
<1>6. /\ part' = [part EXCEPT ![c] = 1]
      /\ partition_responses' = [partition_responses EXCEPT ![c] = <<>>]
  BY DEF Reply, Forget
<1>7. QED
  BY <1>1, <1>3, <1>4, <1>5, <1>6 DEF Running, Busy

LEMMA PlaceStep ==
    ASSUME PlaceInv, [Next]_vars
    PROVE  PlaceInv'
<1>1. IInv /\ IInv' /\ TypeOK
  BY IInvStep DEF PlaceInv, IInv
<1>2. SUFFICES ASSUME NEW c \in Conns
               PROVE  KeepsPlace(c)'
  BY <1>1 DEF PlaceInv, HandlersKeepPlace
<1>3. KeepsPlace(c)
  BY DEF PlaceInv, HandlersKeepPlace
<1>4. socket'[c] = "none" => task'[c] = "none"
  BY AcceptedStep
<1>5. Running(c) => taken[c] # 0
  BY <1>1 DEF IInv, HandlersHaveRequests, Running
<1>6. CASE /\ taken'[c] = taken[c]
           /\ task'[c] = "none" => task[c] = "none"
           /\ Running(c)' <=> Running(c)
           /\ part'[c] = part[c] /\ partition_responses'[c] = partition_responses[c]
  BY <1>1, <1>3, <1>4, <1>5, <1>6, CurrentSame DEF KeepsPlace
<1>7. CASE Settles
  <2>1. CASE /\ ~Running(c)'
             /\ part'[c] = 1 /\ partition_responses'[c] = <<>>
    BY <1>3, <1>4, <1>7, <2>1 DEF KeepsPlace, Settles
  <2>2. QED
    BY <1>6, <1>7, <2>1 DEF Settles
<1>8. ASSUME NEW d \in Conns, ReadMessage(d)
      PROVE  KeepsPlace(c)'
  <2>1. CASE c # d
    BY <1>1, <1>6, <1>8, <2>1, ReadMessageStarts DEF Running
  <2>2. CASE c = d
    <3>1. /\ part'[c] = 1 /\ partition_responses'[c] = <<>>
          /\ task'[c] # "none"
          /\ Running(c)' => Current(c)'.api \in APIKEYS
          /\ Current(c)' \in Workload
      BY <1>1, <1>3, <1>8, <2>2, ReadMessageStarts DEF KeepsPlace, Running, Busy
    <3>2. Current(c)'.parts \in Seq(Part)
      BY <3>1, WorkloadAssumption DEF Body
    <3>3. part'[c] = Len(partition_responses'[c]) + 1
      BY <3>1, EmptySeq
    <3>4. part'[c] <= Len(Current(c)'.parts) + 1
      BY <3>1, <3>2, LenProperties
    <3>5. QED
      BY <1>4, <3>1, <3>3, <3>4 DEF KeepsPlace
  <2>3. QED
    BY <2>1, <2>2
<1>9. ASSUME NEW d \in Conns, Reply(d)
      PROVE  KeepsPlace(c)'
  <2>1. CASE c # d
    BY <1>1, <1>6, <1>9, <2>1, ReplyWrites DEF Running
  <2>2. CASE c = d
    BY <1>4, <1>9, <2>2, ReplyWrites DEF KeepsPlace
  <2>3. QED
    BY <2>1, <2>2
<1>10. ASSUME NEW d \in Conns, NEW r \in PartResponse, NEW next \in Nat \ {0},
              Answers(d, r, next),
              Current(d).api \in {"Produce", "ListOffsets"} => next = part[d] + 1
       PROVE  KeepsPlace(c)'
  <2>1. /\ taken'[c] = taken[c]
        /\ Running(c)' <=> Running(c)
        /\ task'[c] = "none" => task[c] = "none"
    BY <1>10 DEF Answers, Running, Busy
  <2>2. CASE c # d
    BY <1>1, <1>6, <1>10, <2>1, <2>2 DEF Answers, Answer, IInv, TypeOK
  <2>3. CASE c = d
    <3>1. Running(c) /\ HasEntry(c) /\ Current(c)' = Current(c)
      BY <1>1, <1>5, <1>10, <2>1, <2>3, CurrentSame DEF Answers
    <3>2. /\ part'[c] = next
          /\ partition_responses'[c] = Append(partition_responses[c], r)
          /\ partition_responses[c] \in Seq(PartResponse)
          /\ part[c] \in Nat \ {0}
      BY <1>1, <1>10, <2>3 DEF Answers, Answer, IInv, TypeOK
    <3>3. /\ Len(partition_responses'[c]) = Len(partition_responses[c]) + 1
          /\ Len(partition_responses[c]) \in Nat
      BY <3>2, AppendProperties, LenProperties
    <3>4. part[c] <= Len(Current(c).parts) /\ Len(Current(c).parts) \in Nat
      <4>1. Current(c).parts \in Seq(Part)
        BY <1>1, <1>5, <3>1, CurrentType DEF Body
      <4>2. QED
        BY <3>1, <4>1, LenProperties DEF HasEntry
    <3>5. QED
      BY <1>3, <1>4, <1>10, <2>1, <2>3, <3>1, <3>2, <3>3, <3>4 DEF KeepsPlace
  <2>4. QED
    BY <2>2, <2>3
<1>11. ASSUME NEW d \in Conns, Question(d)
       PROVE  KeepsPlace(c)'
  <2>1. PICK r \in PartResponse, next \in Nat \ {0} :
          /\ Answers(d, r, next)
          /\ Current(d).api \in {"Produce", "ListOffsets"} => next = part[d] + 1
    BY <1>1, <1>11, QuestionAnswers
  <2>2. QED
    BY <1>10, <2>1
<1>12. ASSUME NEW d \in Conns, ProduceAppend(d)
       PROVE  KeepsPlace(c)'
  <2>1. /\ ProduceAnswer(d) \in PartResponse
        /\ part[d] + 1 \in Nat \ {0}
        /\ Answers(d, ProduceAnswer(d), part[d] + 1)
    BY <1>1, <1>12, AppendAnswers
  <2>2. QED
    BY <1>10, <2>1
<1>13. QED
  BY <1>7, <1>8, <1>9, <1>11, <1>12, StepKinds

LEMMA PlaceInitially ==
    ASSUME Init
    PROVE  PlaceInv
BY InitIInv DEF Init, PlaceInv, HandlersKeepPlace, KeepsPlace, Running, Busy

-----------------------------------------------------------------------------
(* Answers come in order. *)

LEMMA KnownSame ==
    ASSUME TypeOK, [Next]_vars, NEW c \in Conns, taken'[c] = taken[c]
    PROVE  Known(c)' = Known(c)
<1>1. /\ taken[c] \in Nat
      /\ \A i \in 1 .. taken[c] : requests'[c][i] = requests[c][i]
  BY TakenStay
<1>2. QED
  BY <1>1 DEF Known

LEMMA OrderStep ==
    ASSUME OrderInv, [Next]_vars
    PROVE  OrderInv'
<1>1. PlaceInv /\ PlaceInv' /\ IInv /\ TypeOK
  BY PlaceStep DEF OrderInv, PlaceInv, IInv
<1>2. SUFFICES ASSUME NEW c \in Conns
               PROVE  InOrder(c)'
  BY <1>1 DEF OrderInv
<1>3. InOrder(c)
  BY DEF OrderInv
<1>4. taken[c] \in Nat
  BY <1>1 DEF TypeOK
<1>5. CASE /\ taken'[c] = taken[c] /\ responses'[c] = responses[c]
           /\ task'[c] \in {"read", "drain"} => task[c] \in {"none", "read", "drain"}
           /\ Running(c)' => Running(c)
  <2>1. AnsweredCids(c)' = AnsweredCids(c) /\ Known(c)' = Known(c)
    BY <1>1, <1>5, KnownSame DEF AnsweredCids
  <2>2. task[c] = "none" => Known(c) = {}
    BY <1>1 DEF PlaceInv, HandlersKeepPlace, KeepsPlace, Known
  <2>3. task'[c] \in {"read", "drain"} => Known(c) = AnsweredCids(c)
    BY <1>3, <1>5, <2>2 DEF InOrder
  <2>4. QED
    BY <1>3, <1>5, <2>1, <2>3 DEF InOrder
<1>6. CASE Settles
  BY <1>5, <1>6 DEF Settles
<1>7. ASSUME NEW d \in Conns, NEW r, NEW next, Answers(d, r, next)
      PROVE  InOrder(c)'
  BY <1>5, <1>7 DEF Answers, Running, Busy
<1>8. ASSUME NEW d \in Conns, ReadMessage(d)
      PROVE  InOrder(c)'
  <2>1. CASE c # d
    BY <1>1, <1>5, <1>8, <2>1, ReadMessageStarts DEF Running
  <2>2. CASE c = d
    <3>1. /\ taken'[c] = taken[c] + 1 /\ UNCHANGED <<requests, responses>>
          /\ task[c] = "read"
          /\ task'[c] # "drain"
          /\ task'[c] = "read" => Current(c)'.api = "UnknownKey"
      BY <1>1, <1>8, <2>2, ReadMessageStarts
    <3>2. AnsweredCids(c)' = AnsweredCids(c) /\ Known(c) = AnsweredCids(c)
      BY <1>3, <3>1 DEF AnsweredCids, InOrder
    <3>3. Known(c)' = Known(c) \cup
             (IF Current(c)'.api \in APIKEYS THEN {taken'[c]} ELSE {})
      <4>1. 1 .. taken'[c] = (1 .. taken[c]) \cup {taken'[c]}
        BY <1>4, <3>1
      <4>2. Current(c)' = requests[c][taken'[c]]
        BY <3>1 DEF Current
      <4>3. QED
        BY <3>1, <4>1, <4>2 DEF Known
    <3>4. taken'[c] \notin Known(c)
      BY <1>4, <3>1 DEF Known
    <3>5. task'[c] = "read" => Known(c)' = Known(c)
      BY <3>1, <3>3 DEF APIKEYS, LogApis, OtherApis
    <3>6. QED
      BY <1>3, <3>1, <3>2, <3>3, <3>4, <3>5 DEF InOrder
  <2>3. QED
    BY <2>1, <2>2
<1>9. ASSUME NEW d \in Conns, Reply(d)
      PROVE  InOrder(c)'
  <2>1. CASE c # d
    BY <1>1, <1>5, <1>9, <2>1, ReplyWrites DEF Running
  <2>2. CASE c = d
    <3>1. /\ responses'[c] = Append(responses[c], InProgress(c))
          /\ taken'[c] = taken[c] /\ requests' = requests
          /\ Running(c) /\ ~Running(c)'
          /\ responses[c] \in Seq(Response) /\ InProgress(c) \in Response
      BY <1>1, <1>9, <2>2, ReplyWrites DEF TypeOK
    <3>2. /\ Len(responses[c]) \in Nat
          /\ DOMAIN responses[c] = 1 .. Len(responses[c])
          /\ DOMAIN responses'[c] = 1 .. Len(responses[c]) + 1
          /\ \A i \in 1 .. Len(responses[c]) : responses'[c][i] = responses[c][i]
          /\ responses'[c][Len(responses[c]) + 1].cid = taken[c]
      BY <3>1, AppendProperties, LenProperties DEF InProgress
    <3>3. AnsweredCids(c)' = AnsweredCids(c) \cup {taken[c]}
      BY <3>2, SMTT(30) DEF AnsweredCids
    <3>4. taken[c] \in Known(c)
      BY <1>1, <1>4, <3>1
         DEF Known, PlaceInv, HandlersKeepPlace, KeepsPlace, Current, IInv,
             HandlersHaveRequests, Running
    <3>5. Known(c)' = Known(c)
      BY <3>1 DEF Known
    <3>6. \A n \in DOMAIN responses[c] : responses[c][n].cid < taken[c]
      <4>1. SUFFICES ASSUME NEW n \in DOMAIN responses[c]
                     PROVE  responses[c][n].cid < taken[c]
        OBVIOUS
      <4>2. responses[c][n].cid \in Known(c) /\ responses[c][n].cid # taken[c]
        BY <1>3, <3>1 DEF InOrder, AnsweredCids
      <4>3. QED
        BY <1>4, <4>2 DEF Known
    <3>7. \A m, n \in DOMAIN responses'[c] :
             m < n => responses'[c][m].cid < responses'[c][n].cid
      <4>1. SUFFICES ASSUME NEW m \in DOMAIN responses'[c], NEW n \in DOMAIN responses'[c], m < n
                     PROVE  responses'[c][m].cid < responses'[c][n].cid
        OBVIOUS
      <4>2. m \in DOMAIN responses[c] /\ responses'[c][m] = responses[c][m]
        BY <3>2, <4>1
      <4>3. CASE n \in DOMAIN responses[c]
        <5>1. responses'[c][n] = responses[c][n]
          BY <3>2, <4>3
        <5>2. QED
          BY <1>3, <4>1, <4>2, <4>3, <5>1 DEF InOrder
      <4>4. CASE n = Len(responses[c]) + 1
        BY <3>2, <3>6, <4>2, <4>4
      <4>5. QED
        BY <3>2, <4>3, <4>4
    <3>8. QED
      BY <1>3, <3>1, <3>3, <3>4, <3>5, <3>7 DEF InOrder
  <2>3. QED
    BY <2>1, <2>2
<1>10. ASSUME NEW d \in Conns, Question(d) \/ ProduceAppend(d)
       PROVE  InOrder(c)'
  BY <1>1, <1>7, <1>10, QuestionAnswers, AppendAnswers
<1>11. QED
  BY <1>1, <1>6, <1>8, <1>9, <1>10, StepKinds

LEMMA OrderInitially ==
    ASSUME Init
    PROVE  OrderInv
<1>1. PlaceInv
  BY PlaceInitially
<1>2. ASSUME NEW c \in Conns
      PROVE  InOrder(c)
  <2>1. taken[c] = 0 /\ responses[c] = <<>> /\ task[c] = "none"
    BY DEF Init
  <2>2. Known(c) = {} /\ AnsweredCids(c) = {}
    BY <2>1 DEF Known, AnsweredCids
  <2>3. QED
    BY <2>1, <2>2 DEF InOrder, Running
<1>3. QED
  BY <1>1, <1>2 DEF OrderInv

LEMMA OrderInvariance == Spec => []OrderInv
<1>1. Init => OrderInv
  BY OrderInitially
<1>2. OrderInv /\ [Next]_vars => OrderInv'
  BY OrderStep
<1>3. QED
  BY <1>1, <1>2, PTL DEF Spec

\* However requests are pipelined and handlers interleaved: the responses on
\* a connection answer the requests with a known API key, each once, in the
\* order sent, and at most the last one read is without answer.
THEOREM OrderedAnswers == Spec => []AnswersInOrder
<1>1. OrderInv => AnswersInOrder
  BY DEF OrderInv, InOrder, AnswersInOrder, AnsweredCids, Known
<1>2. QED
  BY <1>1, OrderInvariance, PTL

-----------------------------------------------------------------------------
(* The logs hold what was sent. *)

LEMMA PastStays ==
    ASSUME PlaceInv, [Next]_vars, NEW src \in Source, Past(src)
    PROVE  Past(src)'
<1> DEFINE c == src[1]
<1>1. c \in Conns /\ src[2] \in Nat \ {0} /\ src[3] \in Nat \ {0}
  BY DEF Source
<1>2. /\ IInv /\ taken[c] \in Nat /\ taken'[c] \in Nat
      /\ part[c] \in Nat \ {0} /\ part'[c] \in Nat \ {0}
  BY <1>1, PlaceStep DEF PlaceInv, IInv, TypeOK
<1>3. src[2] < taken[c] \/ (src[2] = taken[c] /\ (Running(c) => src[3] < part[c]))
  BY DEF Past
<1>4. CASE taken'[c] = taken[c] /\ (Running(c)' => Running(c) /\ part[c] <= part'[c])
  BY <1>1, <1>2, <1>3, <1>4 DEF Past
<1>5. CASE Settles
  BY <1>1, <1>2, <1>4, <1>5 DEF Settles
<1>6. ASSUME NEW d \in Conns, ReadMessage(d)
      PROVE  Past(src)'
  <2>1. CASE d # c
    BY <1>1, <1>2, <1>4, <1>6, <2>1, ReadMessageStarts DEF Running
  <2>2. CASE d = c
    BY <1>1, <1>2, <1>3, <1>6, <2>2, ReadMessageStarts DEF Past
  <2>3. QED
    BY <2>1, <2>2
<1>7. ASSUME NEW d \in Conns, Reply(d)
      PROVE  Past(src)'
  <2>1. CASE d # c
    BY <1>1, <1>2, <1>4, <1>7, <2>1, ReplyWrites DEF Running
  <2>2. CASE d = c
    BY <1>1, <1>4, <1>7, <2>2, ReplyWrites
  <2>3. QED
    BY <2>1, <2>2
<1>8. ASSUME NEW d \in Conns, NEW r, NEW next, Answers(d, r, next)
      PROVE  Past(src)'
  <2>1. part[c] <= part'[c]
    BY <1>1, <1>2, <1>8, SMTT(30) DEF Answers, Answer, IInv, TypeOK
  <2>2. QED
    BY <1>1, <1>4, <1>8, <2>1 DEF Answers
<1>9. ASSUME NEW d \in Conns, Question(d) \/ ProduceAppend(d)
      PROVE  Past(src)'
  BY <1>2, <1>8, <1>9, QuestionAnswers, AppendAnswers
<1>10. QED
  BY <1>5, <1>6, <1>7, <1>9, StepKinds

LEMMA SentStays ==
    ASSUME PlaceInv, [Next]_vars, NEW tp, NEW b \in Batch(Source), Sent(tp, b)
    PROVE  Sent(tp, b)'
<1>1. b.src \in Source /\ b.src[1] \in Conns /\ b.src[2] \in Nat \ {0}
  BY DEF Batch, Source
<1>2. Past(b.src)'
  BY <1>1, PastStays DEF Sent
<1>3. b.src[2] \in 1 .. taken[b.src[1]]
  BY <1>1, SMTT(30) DEF Sent, Past, PlaceInv, IInv, TypeOK
<1>4. requests'[b.src[1]][b.src[2]] = requests[b.src[1]][b.src[2]]
  BY <1>1, <1>3, TakenStay DEF PlaceInv, IInv
<1>5. QED
  BY <1>2, <1>4 DEF Sent

\* The batch an append adds, and what it is appended to.
LEMMA AppendedSent ==
    ASSUME PlaceInv, NEW c \in Conns, ProduceAppend(c)
    PROVE  \E tp \in TopicPartitions : \E b \in Batch(Source) :
             /\ tp = Entry(c).tp
             /\ b.src = <<c, taken[c], part[c]>>
             /\ b.base = leo[c] /\ b.count = Entry(c).arg
             /\ b.base = LogEndOffset(logs[tp])
             /\ logs' = [logs EXCEPT ![tp] = Append(@, b)]
             /\ Sent(tp, b)'
<1>1. IInv
  BY DEF PlaceInv
<1>2. PICK b \in Batch(Source) :
        /\ b = [base |-> leo[c], count |-> Entry(c).arg,
                src |-> <<c, taken[c], part[c]>>]
        /\ Entry(c).tp \in TopicPartitions
        /\ b.base = LogEndOffset(logs[Entry(c).tp])
        /\ logs' = [logs EXCEPT ![Entry(c).tp] = Append(@, b)]
  BY <1>1, AppendedBatch
<1>3. PICK tp \in TopicPartitions : tp = Entry(c).tp
  BY <1>2
<1>4. /\ HasEntry(c) /\ taken[c] # 0
      /\ Current(c).api = "Produce"
      /\ UNCHANGED <<requests, taken>>
      /\ part'[c] = part[c] + 1 /\ part[c] \in Nat
  BY <1>1, AppendAnswers DEF Answers, Answer, IInv, TypeOK
<1>5. Entry(c) \in Part
  BY <1>1, <1>4, EntryType DEF IInv
<1>6. Entry(c) = [tp |-> tp, arg |-> b.count]
  BY <1>2, <1>3, <1>5 DEF Part
<1>7. Past(b.src)'
  BY <1>2, <1>4 DEF Past
<1>8. Sent(tp, b)'
  BY <1>2, <1>4, <1>6, <1>7 DEF Sent, Current, Entry
<1>9. QED
  BY <1>2, <1>3, <1>8

LEMMA StoreStep ==
    ASSUME StoreInv, [Next]_vars
    PROVE  StoreInv'
<1>1. PlaceInv /\ PlaceInv' /\ IInv /\ TypeOK
  BY PlaceStep DEF StoreInv, PlaceInv, IInv
<1>2. SUFFICES ASSUME NEW tp \in TopicPartitions, NEW i \in DOMAIN logs'[tp],
                      NEW b, b = logs'[tp][i]
               PROVE  /\ Sent(tp, b)'
                      /\ \A j \in 1 .. i - 1 : logs'[tp][j].src[1] = b.src[1] =>
                             SentBefore(logs'[tp][j].src, b.src)
  BY <1>1 DEF StoreInv, Sent, Past, SentBefore
<1>3. logs[tp] \in Seq(Batch(Source)) /\ Len(logs[tp]) \in Nat
      /\ DOMAIN logs[tp] = 1 .. Len(logs[tp])
  BY <1>1, LenProperties DEF TypeOK
<1>4. ASSUME i \in DOMAIN logs[tp],
             \A j \in 1 .. i : logs'[tp][j] = logs[tp][j]
      PROVE  /\ Sent(tp, b)'
             /\ \A j \in 1 .. i - 1 : logs'[tp][j].src[1] = b.src[1] =>
                    SentBefore(logs'[tp][j].src, b.src)
  <2>1. i \in 1 .. i /\ b \in Batch(Source) /\ b = logs[tp][i]
    BY <1>2, <1>3, <1>4, ElementOfSeq
  <2>2. Sent(tp, b)'
    BY <1>1, <1>4, <2>1, SentStays DEF StoreInv
  <2>3. ASSUME NEW j \in 1 .. i - 1, logs'[tp][j].src[1] = b.src[1]
        PROVE  SentBefore(logs'[tp][j].src, b.src)
    <3>1. logs'[tp][j] = logs[tp][j]
      BY <1>3, <1>4
    <3>2. QED
      BY <1>4, <2>1, <2>3, <3>1 DEF StoreInv
  <2>4. QED
    BY <2>2, <2>3
<1>5. CASE UNCHANGED logs
  BY <1>4, <1>5
<1>6. ASSUME NEW c \in Conns, ProduceAppend(c)
      PROVE  /\ Sent(tp, b)'
             /\ \A j \in 1 .. i - 1 : logs'[tp][j].src[1] = b.src[1] =>
                    SentBefore(logs'[tp][j].src, b.src)
  <2>1. PICK at \in TopicPartitions, new \in Batch(Source) :
          /\ new.src = <<c, taken[c], part[c]>>
          /\ logs' = [logs EXCEPT ![at] = Append(@, new)]
          /\ Sent(at, new)'
    BY <1>1, <1>6, AppendedSent
  <2>2. CASE tp # at
    BY <1>1, <1>4, <2>1, <2>2 DEF TypeOK
  <2>3. CASE tp = at
    <3>1. logs'[tp] = Append(logs[tp], new)
      BY <1>1, <2>1, <2>3 DEF TypeOK
    <3>2. /\ Len(logs'[tp]) = Len(logs[tp]) + 1
          /\ DOMAIN logs'[tp] = 1 .. Len(logs[tp]) + 1
          /\ \A j \in 1 .. Len(logs[tp]) : logs'[tp][j] = logs[tp][j]
          /\ logs'[tp][Len(logs[tp]) + 1] = new
      BY <1>3, <3>1, AppendProperties, LenProperties
    <3>3. CASE i \in DOMAIN logs[tp]
      BY <1>3, <1>4, <3>2, <3>3
    <3>4. CASE i = Len(logs[tp]) + 1
      <4>1. b = new
        BY <1>2, <3>2, <3>4
      <4>2. ASSUME NEW j \in 1 .. i - 1, logs'[tp][j].src[1] = c
            PROVE  SentBefore(logs'[tp][j].src, b.src)
        <5>1. j \in DOMAIN logs[tp] /\ logs'[tp][j] = logs[tp][j]
          BY <1>3, <3>2, <3>4
        <5>2. Past(logs[tp][j].src)
          BY <5>1 DEF StoreInv, Sent
        <5>3. Running(c)
          BY <1>6 DEF ProduceAppend, Running, Busy
        <5>4. QED
          BY <2>1, <4>1, <4>2, <5>1, <5>2, <5>3 DEF Past, SentBefore
      <4>3. QED
        BY <2>1, <2>3, <4>1, <4>2
    <3>5. QED
      BY <1>3, <3>2, <3>3, <3>4
  <2>4. QED
    BY <2>2, <2>3
<1>7. QED
  BY <1>5, <1>6, LogsStep

LEMMA StoreInvariance == Spec => []StoreInv
<1>1. Init => StoreInv
  <2>1. ASSUME Init
        PROVE  StoreInv
    <3>1. \A tp \in TopicPartitions : DOMAIN logs[tp] = {}
      BY <2>1 DEF Init
    <3>2. QED
      BY <2>1, <3>1, PlaceInitially DEF StoreInv
  <2>2. QED
    BY <2>1
<1>2. StoreInv /\ [Next]_vars => StoreInv'
  BY StoreStep
<1>3. QED
  BY <1>1, <1>2, PTL DEF Spec

\* Each batch in a log is an entry some client sent for that log, and the
\* batches of one connection lie in it in the order they were sent, none
\* twice: nothing is duplicated or reordered between the socket and the file.
THEOREM LogsHoldTheSent == Spec => []LogsHoldWhatWasSent
<1>1. ASSUME StoreInv
      PROVE  LogsHoldWhatWasSent
  <2>1. ASSUME NEW tp \in TopicPartitions, NEW i \in DOMAIN logs[tp]
        PROVE  logs[tp][i].src[2] <= taken[logs[tp][i].src[1]]
    <3>1. logs[tp][i] \in Batch(Source)
      BY <1>1, ElementOfSeq, LenProperties DEF StoreInv, PlaceInv, IInv, TypeOK
    <3>2. PICK src \in Source : src = logs[tp][i].src
      BY <3>1 DEF Batch
    <3>3. src[2] \in Nat /\ taken[src[1]] \in Nat
      BY <1>1 DEF Source, StoreInv, PlaceInv, IInv, TypeOK
    <3>4. Past(src)
      BY <1>1, <3>2 DEF StoreInv, Sent
    <3>5. QED
      BY <3>2, <3>3, <3>4 DEF Past
  <2>2. QED
    BY <1>1, <2>1 DEF StoreInv, Sent, LogsHoldWhatWasSent
<1>2. QED
  BY <1>1, StoreInvariance, PTL

-----------------------------------------------------------------------------
(* What becomes of answers, and of answers in progress. *)

\* A response was there before, to the same request, or Reply writes it.
LEMMA ResponsesStep ==
    ASSUME OrderInv, [Next]_vars, NEW c \in Conns, NEW n \in DOMAIN responses'[c]
    PROVE  \/ /\ n \in DOMAIN responses[c] /\ responses'[c][n] = responses[c][n]
              /\ responses[c][n] \in Response
              /\ responses[c][n].cid \in 1 .. taken[c]
              /\ Running(c) => responses[c][n].cid # taken[c]
              /\ requests'[c][responses[c][n].cid] = requests[c][responses[c][n].cid]
           \/ /\ Reply(c)
              /\ n = Len(responses[c]) + 1 /\ responses'[c][n] = InProgress(c)
<1>1. PlaceInv /\ IInv /\ TypeOK /\ InOrder(c)
  BY DEF OrderInv, PlaceInv, IInv
<1>2. /\ responses[c] \in Seq(Response) /\ Len(responses[c]) \in Nat
      /\ DOMAIN responses[c] = 1 .. Len(responses[c])
  BY <1>1, LenProperties DEF TypeOK
<1>3. ASSUME n \in DOMAIN responses[c], responses'[c][n] = responses[c][n]
      PROVE  /\ responses[c][n] \in Response
             /\ responses[c][n].cid \in 1 .. taken[c]
             /\ Running(c) => responses[c][n].cid # taken[c]
             /\ requests'[c][responses[c][n].cid] = requests[c][responses[c][n].cid]
  <2>1. responses[c][n].cid \in AnsweredCids(c)
    BY <1>3 DEF AnsweredCids
  <2>2. responses[c][n].cid \in 1 .. taken[c]
    BY <1>1, <2>1 DEF InOrder, Known
  <2>3. responses[c][n] \in Response
    BY <1>2, <1>3, ElementOfSeq
  <2>4. QED
    BY <1>1, <2>1, <2>2, <2>3, TakenStay DEF InOrder
<1>4. CASE responses'[c] = responses[c]
  BY <1>3, <1>4
<1>5. CASE Reply(c)
  <2>1. /\ responses'[c] = Append(responses[c], InProgress(c))
        /\ InProgress(c) \in Response
    BY <1>1, <1>5, ReplyWrites DEF TypeOK
  <2>2. /\ DOMAIN responses'[c] = 1 .. Len(responses[c]) + 1
        /\ \A m \in 1 .. Len(responses[c]) : responses'[c][m] = responses[c][m]
        /\ responses'[c][Len(responses[c]) + 1] = InProgress(c)
    BY <1>2, <2>1, AppendProperties, LenProperties
  <2>3. QED
    BY <1>2, <1>3, <1>5, <2>2
<1>6. CASE Settles
  BY <1>4, <1>6 DEF Settles
<1>7. ASSUME NEW d \in Conns, ReadMessage(d) \/ Question(d) \/ ProduceAppend(d)
      PROVE  responses'[c] = responses[c]
  BY <1>1, <1>7, ReadMessageStarts, QuestionAnswers, AppendAnswers DEF Answers
<1>8. ASSUME NEW d \in Conns, d # c, Reply(d)
      PROVE  responses'[c] = responses[c]
  BY <1>1, <1>8, ReplyWrites
<1>9. QED
  BY <1>1, <1>4, <1>5, <1>6, <1>7, <1>8, StepKinds

\* A handler that runs has just read its request, or went on, and then its
\* request is the same and it answered one more entry or none.
LEMMA ProgressStep ==
    ASSUME PlaceInv, [Next]_vars, NEW c \in Conns, Running(c)'
    PROVE  \/ partition_responses'[c] = <<>>
           \/ /\ Running(c) /\ taken'[c] = taken[c] /\ Current(c)' = Current(c)
              /\ \/ /\ partition_responses'[c] = partition_responses[c]
                    /\ \A d \in Conns : ~ProduceAppend(d)
                 \/ Question(c)
                 \/ ProduceAppend(c)
<1>1. IInv /\ TypeOK
  BY DEF PlaceInv, IInv
<1>2. ASSUME Running(c), taken'[c] = taken[c]
      PROVE  Current(c)' = Current(c)
  BY <1>1, <1>2, CurrentSame DEF IInv, HandlersHaveRequests, Running
<1>3. ASSUME NEW d \in Conns, ProduceAppend(d)
      PROVE  /\ Running(d) /\ (Running(c)' <=> Running(c))
             /\ taken' = taken
             /\ responses' = responses
             /\ task[d] = "append"
  BY <1>1, <1>3, AppendAnswers DEF Answers, ProduceAppend
<1>4. ASSUME NEW d \in Conns, ProduceAppend(d)
      PROVE  d = c /\ Running(c)
  BY <1>1, <1>3, <1>4 DEF IInv, OneHandler
<1>5. CASE \E d \in Conns : ProduceAppend(d)
  BY <1>2, <1>3, <1>4, <1>5
<1>6. CASE /\ \A d \in Conns : ~ProduceAppend(d)
           /\ Running(c) /\ taken'[c] = taken[c]
           /\ partition_responses'[c] = partition_responses[c]
  BY <1>2, <1>6
<1>7. ASSUME \A d \in Conns : ~ProduceAppend(d), Settles
      PROVE  /\ Running(c) /\ taken'[c] = taken[c]
             /\ partition_responses'[c] = partition_responses[c]
  BY <1>7 DEF Settles
<1>8. ASSUME NEW d \in Conns, ReadMessage(d), d # c
      PROVE  /\ Running(c) /\ taken'[c] = taken[c]
             /\ partition_responses'[c] = partition_responses[c]
  BY <1>1, <1>8, ReadMessageStarts DEF Running
<1>9. ASSUME ReadMessage(c)
      PROVE  partition_responses'[c] = <<>>
  BY <1>1, <1>9, ReadMessageStarts DEF PlaceInv, HandlersKeepPlace, KeepsPlace
<1>10. ASSUME NEW d \in Conns, Reply(d)
       PROVE  FALSE
  BY <1>10, ReplyWrites DEF Running
<1>11. ASSUME NEW d \in Conns, Question(d)
       PROVE  \/ /\ Running(c) /\ taken'[c] = taken[c]
                 /\ partition_responses'[c] = partition_responses[c]
              \/ d = c /\ Running(c) /\ taken'[c] = taken[c]
  <2>1. PICK r \in PartResponse, next \in Nat \ {0} : Answers(d, r, next)
    BY <1>1, <1>11, QuestionAnswers
  <2>2. QED
    BY <1>1, <2>1 DEF Answers, Answer, TypeOK
<1>12. QED
  BY <1>2, <1>5, <1>6, <1>7, <1>8, <1>9, <1>10, <1>11, StepKinds

-----------------------------------------------------------------------------
(* Acknowledgements tell the truth. *)

LEMMA PlacedAtSource ==
    ASSUME NEW src \in Source
    PROVE  PlacedAt[src] = Placed(src) /\ PlacedAt'[src] = Placed(src)'
BY DEF PlacedAt

LEMMA NothingPlaced ==
    ASSUME StoreInv, NEW src \in Source, ~Past(src)
    PROVE  Placed(src) = {}
<1>1. ASSUME NEW tp \in TopicPartitions, NEW i \in DOMAIN logs[tp], logs[tp][i].src = src
      PROVE  FALSE
  BY <1>1 DEF StoreInv, Sent
<1>2. QED
  BY <1>1 DEF Placed

LEMMA PlacedByAppend ==
    ASSUME TypeOK, NEW at \in TopicPartitions, NEW new \in Batch(Source),
           logs' = [logs EXCEPT ![at] = Append(@, new)], NEW src
    PROVE  Placed(src)' = Placed(src) \cup
             (IF new.src = src THEN {[tp |-> at, base |-> new.base, count |-> new.count]}
              ELSE {})
<1> DEFINE entry(tp, b) == [tp |-> tp, base |-> b.base, count |-> b.count]
<1>1. ASSUME NEW tp \in TopicPartitions
      PROVE  /\ logs[tp] \in Seq(Batch(Source)) /\ Len(logs[tp]) \in Nat
             /\ DOMAIN logs[tp] = 1 .. Len(logs[tp])
  BY LenProperties DEF TypeOK
<1>2. /\ DOMAIN logs'[at] = 1 .. Len(logs[at]) + 1
      /\ \A i \in 1 .. Len(logs[at]) : logs'[at][i] = logs[at][i]
      /\ logs'[at][Len(logs[at]) + 1] = new
  <2>1. logs'[at] = Append(logs[at], new)
    BY DEF TypeOK
  <2>2. QED
    BY <1>1, <2>1, AppendProperties, LenProperties
<1>3. \A tp \in TopicPartitions \ {at} : logs'[tp] = logs[tp]
  BY DEF TypeOK
<1>4. ASSUME NEW tp \in TopicPartitions, NEW i \in DOMAIN logs[tp]
      PROVE  i \in DOMAIN logs'[tp] /\ logs'[tp][i] = logs[tp][i]
  BY <1>1, <1>2, <1>3
<1>5. ASSUME NEW tp \in TopicPartitions, NEW i \in DOMAIN logs'[tp]
      PROVE  \/ i \in DOMAIN logs[tp] /\ logs'[tp][i] = logs[tp][i]
             \/ tp = at /\ logs'[tp][i] = new
  BY <1>1, <1>2, <1>3
<1>6. Len(logs[at]) + 1 \in DOMAIN logs'[at]
  BY <1>1, <1>2
<1>7. ASSUME NEW x
      PROVE  x \in Placed(src) <=>
               \E tp \in TopicPartitions : \E i \in DOMAIN logs[tp] :
                   logs[tp][i].src = src /\ x = entry(tp, logs[tp][i])
  BY DEF Placed
<1>8. ASSUME NEW x
      PROVE  x \in Placed(src)' <=>
               \E tp \in TopicPartitions : \E i \in DOMAIN logs'[tp] :
                   logs'[tp][i].src = src /\ x = entry(tp, logs'[tp][i])
  BY DEF Placed
<1>9. ASSUME NEW x \in Placed(src)
      PROVE  x \in Placed(src)'
  BY <1>4, <1>7, <1>8
<1>10. ASSUME new.src = src
       PROVE  entry(at, new) \in Placed(src)'
  BY <1>2, <1>6, <1>8, <1>10
<1>11. ASSUME NEW x \in Placed(src)', x \notin Placed(src)
       PROVE  new.src = src /\ x = entry(at, new)
  BY <1>5, <1>7, <1>8, <1>11
<1>12. \A x : x \in Placed(src)' <=>
               x \in Placed(src) \/ (new.src = src /\ x = entry(at, new))
  BY <1>9, <1>10, <1>11
<1>13. QED
  BY <1>12

\* Where an append of c's handler leaves the other entries, and its own.
LEMMA PlacedStep ==
    ASSUME StoreInv, [Next]_vars, NEW src \in Source,
           \A c \in Conns : ProduceAppend(c) => src # <<c, taken[c], part[c]>>
    PROVE  Placed(src)' = Placed(src)
<1>1. CASE UNCHANGED logs
  BY <1>1 DEF Placed
<1>2. ASSUME NEW c \in Conns, ProduceAppend(c)
      PROVE  Placed(src)' = Placed(src)
  <2>1. PICK at \in TopicPartitions, new \in Batch(Source) :
          /\ new.src = <<c, taken[c], part[c]>>
          /\ logs' = [logs EXCEPT ![at] = Append(@, new)]
    BY <1>2, AppendedSent, SMTT(30) DEF StoreInv
  <2>2. Placed(src)' = Placed(src) \cup
           (IF new.src = src THEN {[tp |-> at, base |-> new.base, count |-> new.count]}
            ELSE {})
    BY <2>1, PlacedByAppend DEF StoreInv, PlaceInv, IInv
  <2>3. new.src # src
    BY <1>2, <2>1
  <2>4. QED
    BY <2>2, <2>3
<1>3. QED
  BY <1>1, <1>2, LogsStep

LEMMA TruthStays ==
    ASSUME StoreInv, [Next]_vars, NEW src \in Source, NEW asked, NEW p,
           \A c \in Conns : ProduceAppend(c) => src # <<c, taken[c], part[c]>>,
           Truthful(src, asked, p)
    PROVE  Truthful(src, asked, p)'
BY PlacedStep, PlacedAtSource DEF Truthful

LEMMA TruthSame ==
    ASSUME UNCHANGED logs, NEW src, NEW asked, NEW p
    PROVE  Truthful(src, asked, p)' <=> Truthful(src, asked, p)
<1>1. PlacedAt' = PlacedAt
  BY DEF PlacedAt, Placed
<1>2. QED
  BY <1>1 DEF Truthful

\* What the handler answers is true of the entry it answers, at once.
LEMMA TruthOfAppend ==
    ASSUME StoreInv, NEW c \in Conns, ProduceAppend(c), NEW asked, asked = Entry(c),
           NEW src, src = <<c, taken[c], part[c]>>, NEW p, p = ProduceAnswer(c)
    PROVE  Truthful(src, asked, p)'
<1>1. PlaceInv /\ IInv /\ TypeOK
  BY DEF StoreInv, PlaceInv, IInv
<1>2. PICK at \in TopicPartitions, new \in Batch(Source) :
        /\ at = Entry(c).tp
        /\ new.src = src
        /\ new.base = leo[c] /\ new.count = Entry(c).arg
        /\ logs' = [logs EXCEPT ![at] = Append(@, new)]
  BY <1>1, AppendedSent
<1>3. src \in Source /\ Running(c)
  <2>1. part[c] \in Nat \ {0} /\ taken[c] \in Nat \ {0}
    BY <1>1, AppendAnswers
  <2>2. QED
    BY <2>1 DEF Source, ProduceAppend, Running, Busy
<1>4. ~Past(src)
  BY <1>1, <1>3 DEF Past, TypeOK
<1>5. Placed(src)' = {[tp |-> at, base |-> new.base, count |-> new.count]}
  <2>1. Placed(src) = {}
    BY <1>3, <1>4, NothingPlaced
  <2>2. Placed(src)' = Placed(src) \cup
           (IF new.src = src THEN {[tp |-> at, base |-> new.base, count |-> new.count]}
            ELSE {})
    <3>1. TypeOK /\ logs' = [logs EXCEPT ![at] = Append(@, new)]
      BY <1>1, <1>2
    <3>2. QED
      BY <3>1, PlacedByAppend
  <2>3. (IF new.src = src THEN {[tp |-> at, base |-> new.base, count |-> new.count]} ELSE {})
           = {[tp |-> at, base |-> new.base, count |-> new.count]}
    BY <1>2
  <2>4. QED
    BY <2>1, <2>2, <2>3
<1>6. p.error = NO_ERROR /\ p.offset = leo[c]
  BY DEF ProduceAnswer, PartAnswer
<1>7. QED
  BY <1>2, <1>3, <1>5, <1>6, PlacedAtSource DEF Truthful

LEMMA TruthOfReject ==
    ASSUME StoreInv, NEW c \in Conns, Running(c), taken[c] # 0, NEW asked,
           NEW src, src = <<c, taken[c], part[c]>>, NEW p, p.error # NO_ERROR
    PROVE  Truthful(src, asked, p)
<1>1. src \in Source
  BY DEF Source, StoreInv, PlaceInv, IInv, TypeOK
<1>2. ~Past(src)
  BY DEF Past, StoreInv, PlaceInv, IInv, TypeOK
<1>3. QED
  BY <1>1, <1>2, NothingPlaced, PlacedAtSource DEF Truthful

LEMMA AcksStep ==
    ASSUME AcksInv, [Next]_vars
    PROVE  AcksInv'
<1>1. /\ StoreInv /\ StoreInv' /\ OrderInv /\ OrderInv'
      /\ PlaceInv /\ IInv /\ TypeOK
  BY StoreStep, OrderStep DEF AcksInv, StoreInv, PlaceInv, IInv
<1>2. ASSUME NEW c \in Conns, NEW n \in DOMAIN responses'[c],
             NEW r, r = responses'[c][n], NEW body, body = requests'[c][r.cid]
      PROVE  TruthTold(c, r, body)'
  <2>1. CASE /\ n \in DOMAIN responses[c] /\ r = responses[c][n]
             /\ r.cid \in 1 .. taken[c]
             /\ Running(c) => r.cid # taken[c]
             /\ body = requests[c][r.cid]
    <3>1. TruthTold(c, r, body)
      BY <2>1 DEF AcksInv
    <3>2. SUFFICES ASSUME body.api = "Produce", NEW k \in DOMAIN body.parts
                   PROVE  Truthful(<<c, r.cid, k>>, body.parts[k], r.parts[k])'
      BY <3>1 DEF TruthTold
    <3>3. body \in Body
      BY <1>1, <2>1, ElementOfSeq, WorkloadAssumption DEF TypeOK
    <3>4. k \in Nat \ {0} /\ taken[c] \in Nat
      BY <1>1, <3>3, LenProperties DEF Body, TypeOK
    <3>5. <<c, r.cid, k>> \in Source
      BY <2>1, <3>4 DEF Source
    <3>6. ASSUME NEW d \in Conns, ProduceAppend(d)
          PROVE  <<c, r.cid, k>> # <<d, taken[d], part[d]>>
      BY <2>1, <3>6 DEF ProduceAppend, Running, Busy
    <3>7. QED
      BY <1>1, <3>1, <3>2, <3>5, <3>6, TruthStays DEF TruthTold
  <2>2. CASE Reply(c) /\ r = InProgress(c)
    <3>1. /\ UNCHANGED <<logs, requests>> /\ Running(c) /\ ~HasEntry(c)
          /\ r.cid = taken[c] /\ r.parts = partition_responses[c]
          /\ body = Current(c)
      BY <1>1, <1>2, <2>2, ReplyWrites DEF InProgress, Current
    <3>2. TruthSoFar(c, r, body)
      BY <2>2, <3>1 DEF AcksInv
    <3>3. SUFFICES ASSUME body.api = "Produce"
                   PROVE  TruthTold(c, r, body)
      BY <3>1, TruthSame DEF TruthTold
    <3>4. /\ body.parts \in Seq(Part) /\ Len(body.parts) \in Nat
          /\ DOMAIN body.parts = 1 .. Len(body.parts)
      <4>1. taken[c] # 0
        BY <1>1, <3>1 DEF IInv, HandlersHaveRequests, Running
      <4>2. body.parts \in Seq(Part)
        BY <1>1, <3>1, <4>1, CurrentType DEF Body
      <4>3. QED
        BY <4>2, LenProperties
    <3>5. /\ part[c] = Len(r.parts) + 1 /\ part[c] <= Len(body.parts) + 1
          /\ part[c] \in Nat \ {0}
      BY <1>1, <3>1, <3>3 DEF PlaceInv, HandlersKeepPlace, KeepsPlace, TypeOK
    <3>6. r.parts \in Seq(PartResponse)
      BY <1>1, <3>1 DEF TypeOK
    <3>7. Len(r.parts) = Len(body.parts)
      BY <3>1, <3>4, <3>5, <3>6, LenProperties DEF HasEntry
    <3>8. DOMAIN r.parts = DOMAIN body.parts
      BY <3>4, <3>6, <3>7, LenProperties
    <3>9. QED
      BY <3>2, <3>3, <3>7, <3>8 DEF TruthSoFar, TruthTold
  <2>3. QED
    BY <1>1, <1>2, <2>1, <2>2, ResponsesStep
<1>3. ASSUME NEW c \in Conns, Running(c)',
             NEW r, r = [cid |-> taken'[c], parts |-> partition_responses'[c]],
             NEW body, body = requests'[c][taken'[c]]
      PROVE  TruthSoFar(c, r, body)'
  <2>1. CASE partition_responses'[c] = <<>>
    BY <1>3, <2>1 DEF TruthSoFar
  <2> DEFINE old == InProgress(c)
  <2>2. ASSUME Running(c), taken'[c] = taken[c], Current(c)' = Current(c)
        PROVE  /\ body = Current(c) /\ r.cid = taken[c] /\ taken[c] \in Nat \ {0}
               /\ TruthSoFar(c, old, body)
    BY <1>1, <1>3, <2>2
       DEF Current, AcksInv, IInv, HandlersHaveRequests, Running, TypeOK
  <2>3. ASSUME Running(c), taken'[c] = taken[c], Current(c)' = Current(c),
               body.api = "Produce", NEW k \in DOMAIN partition_responses[c],
               r.parts[k] = partition_responses[c][k]
        PROVE  Truthful(<<c, r.cid, k>>, body.parts[k], r.parts[k])'
    <3>1. k \in 1 .. Len(partition_responses[c]) /\ Len(partition_responses[c]) \in Nat
      BY <1>1, LenProperties DEF TypeOK
    <3>2. k # part[c]
      BY <1>1, <2>2, <2>3, <3>1 DEF PlaceInv, HandlersKeepPlace, KeepsPlace
    <3>3. <<c, r.cid, k>> \in Source
      BY <2>2, <2>3, <3>1 DEF Source
    <3>4. Truthful(<<c, r.cid, k>>, body.parts[k], r.parts[k])
      BY <2>2, <2>3 DEF TruthSoFar, InProgress
    <3>5. QED
      BY <1>1, <3>2, <3>3, <3>4, TruthStays
  <2>4. CASE /\ Running(c) /\ taken'[c] = taken[c] /\ Current(c)' = Current(c)
             /\ partition_responses'[c] = partition_responses[c]
    BY <1>3, <2>3, <2>4 DEF TruthSoFar
  <2>9. PICK src, asked : src = <<c, taken[c], part[c]>> /\ asked = Entry(c)
    OBVIOUS
  <2>5. ASSUME Running(c), taken'[c] = taken[c], Current(c)' = Current(c),
               NEW p \in PartResponse, NEW next, Answers(c, p, next),
               body.api = "Produce" => Truthful(src, asked, p)'
        PROVE  TruthSoFar(c, r, body)'
    <3>1. SUFFICES ASSUME body.api = "Produce", NEW k \in DOMAIN r.parts
                   PROVE  Truthful(<<c, r.cid, k>>, body.parts[k], r.parts[k])'
      BY DEF TruthSoFar
    <3>2. /\ r.parts = Append(partition_responses[c], p)
          /\ partition_responses[c] \in Seq(PartResponse)
      BY <1>1, <1>3, <2>5 DEF Answers, Answer, TypeOK
    <3>3. CASE k \in DOMAIN partition_responses[c]
      BY <2>3, <2>5, <3>1, <3>2, <3>3, AppendProperties, LenProperties
    <3>4. CASE k \notin DOMAIN partition_responses[c]
      <4>1. k = Len(partition_responses[c]) + 1 /\ r.parts[k] = p
        BY <3>2, <3>4, AppendProperties, LenProperties
      <4>2. k = part[c]
        BY <1>1, <2>2, <2>5, <3>1, <4>1 DEF PlaceInv, HandlersKeepPlace, KeepsPlace
      <4>3. src = <<c, r.cid, k>> /\ body.parts[k] = asked
        BY <2>2, <2>9, <2>5, <4>2 DEF Entry
      <4>4. Truthful(src, asked, p)'
        BY <2>5, <3>1
      <4>5. QED
        BY <4>1, <4>3, <4>4
    <3>5. QED
      BY <3>3, <3>4
  <2>6. CASE /\ Running(c) /\ taken'[c] = taken[c] /\ Current(c)' = Current(c)
             /\ Question(c)
    <3>1. PICK p \in PartResponse, next \in Nat \ {0} :
            /\ Answers(c, p, next) /\ UNCHANGED logs
            /\ Current(c).api = "Produce" => p.error # NO_ERROR
      BY <1>1, <2>6, QuestionAnswers
    <3>2. ASSUME body.api = "Produce"
          PROVE  Truthful(src, asked, p)'
      <4>1. Truthful(src, asked, p)
        BY <1>1, <2>2, <2>9, <2>6, <3>1, <3>2, TruthOfReject
      <4>2. QED
        BY <3>1, <4>1, TruthSame
    <3>3. QED
      BY <2>5, <2>6, <3>1, <3>2
  <2>7. CASE /\ Running(c) /\ taken'[c] = taken[c] /\ Current(c)' = Current(c)
             /\ ProduceAppend(c)
    <3>1. PICK p \in PartResponse : p = ProduceAnswer(c) /\ Answers(c, p, part[c] + 1)
      BY <1>1, <2>7, AppendAnswers
    <3>2. Truthful(src, asked, p)'
      BY <1>1, <2>7, <2>9, <3>1, TruthOfAppend
    <3>3. QED
      BY <2>5, <2>7, <3>1, <3>2
  <2>8. QED
    BY <1>1, <1>3, <2>1, <2>4, <2>6, <2>7, ProgressStep
<1>4. \A c \in Conns : \A n \in DOMAIN responses'[c] :
         TruthTold(c, responses[c][n], requests[c][responses[c][n].cid])'
  BY <1>2 DEF TruthTold, Truthful
<1>5. \A c \in Conns : Running(c)' => TruthSoFar(c, InProgress(c), Current(c))'
  BY <1>3 DEF TruthSoFar, Truthful, InProgress, Current
<1>6. QED
  BY <1>1, <1>4, <1>5 DEF AcksInv

LEMMA AcksInitially ==
    ASSUME Init
    PROVE  AcksInv
<1>1. \A tp \in TopicPartitions : DOMAIN logs[tp] = {}
  BY DEF Init
<1>2. \A c \in Conns : DOMAIN responses[c] = {} /\ ~Running(c)
  BY DEF Init, Running, Busy
<1>3. OrderInv /\ PlaceInv
  BY OrderInitially DEF OrderInv
<1>4. QED
  BY <1>1, <1>2, <1>3 DEF AcksInv, StoreInv

\* A produce response tells the truth about each entry, for good: it is
\* answered without error if and only if its records are in the log named,
\* once, at the offset given.  Crashes, restarts, other connections and
\* failing storage change nothing about it.
THEOREM TruthfulAcks == Spec => []AcksTellTheTruth
<1>1. Init => AcksInv
  BY AcksInitially
<1>2. AcksInv /\ [Next]_vars => AcksInv'
  BY AcksStep
<1>3. ASSUME AcksInv
      PROVE  AcksTellTheTruth
  <2>1. SUFFICES ASSUME NEW c \in Conns, NEW n \in DOMAIN responses[c],
                        NEW r, r = responses[c][n], NEW body, body = requests[c][r.cid],
                        body.api = "Produce"
                 PROVE  /\ Len(r.parts) = Len(body.parts)
                        /\ \A k \in DOMAIN body.parts :
                             Placed(<<c, r.cid, k>>) =
                               IF r.parts[k].error = NO_ERROR
                               THEN {[tp |-> body.parts[k].tp, base |-> r.parts[k].offset,
                                      count |-> body.parts[k].arg]}
                               ELSE {}
    BY DEF AcksTellTheTruth
  <2>2. TruthTold(c, r, body)
    BY <1>3, <2>1 DEF AcksInv
  <2>3. /\ r.cid \in AnsweredCids(c)
        /\ AnsweredCids(c) \subseteq Known(c)
    BY <1>3, <2>1 DEF AcksInv, OrderInv, InOrder, AnsweredCids
  <2>4. r.cid \in 1 .. taken[c] /\ taken[c] \in Nat /\ taken[c] <= Len(requests[c])
    BY <1>3, <2>3 DEF Known, AcksInv, OrderInv, PlaceInv, IInv, TypeOK
  <2>5. body \in Body
    BY <1>3, <2>1, <2>4, ElementOfSeq, WorkloadAssumption, LenProperties
       DEF AcksInv, OrderInv, PlaceInv, IInv, TypeOK
  <2>6. ASSUME NEW k \in DOMAIN body.parts
        PROVE  <<c, r.cid, k>> \in Source
    <3>1. k \in Nat \ {0}
      BY <2>5, LenProperties DEF Body
    <3>2. QED
      BY <2>4, <3>1 DEF Source
  <2>7. QED
    BY <2>1, <2>2, <2>6, PlacedAtSource DEF TruthTold, Truthful
<1>4. QED
  BY <1>1, <1>2, <1>3, PTL DEF Spec

-----------------------------------------------------------------------------
(* Fetches deliver all. *)

\* Logs only grow.
LEMMA LogsGrow ==
    ASSUME IInv, [Next]_vars, NEW tp \in TopicPartitions
    PROVE  /\ \A j \in DOMAIN logs[tp] : j \in DOMAIN logs'[tp] /\ logs'[tp][j] = logs[tp][j]
           /\ LogEndOffset(logs[tp]) \in Nat /\ LogEndOffset(logs'[tp]) \in Nat
           /\ LogEndOffset(logs[tp]) <= LogEndOffset(logs'[tp])
<1>1. /\ logs[tp] \in Seq(Batch(Source)) /\ logs'[tp] \in Seq(Batch(Source))
      /\ Len(logs[tp]) \in Nat /\ DOMAIN logs[tp] = 1 .. Len(logs[tp])
  BY IInvStep, LenProperties DEF IInv, TypeOK
<1>2. LogEndOffset(logs[tp]) \in Nat /\ LogEndOffset(logs'[tp]) \in Nat
  BY <1>1, LogEndOffsetType
<1>3. CASE logs'[tp] = logs[tp]
  BY <1>2, <1>3
<1>4. ASSUME NEW b \in Batch(Source), b.base = LogEndOffset(logs[tp]),
             logs'[tp] = Append(logs[tp], b)
      PROVE  /\ \A j \in DOMAIN logs[tp] : j \in DOMAIN logs'[tp] /\ logs'[tp][j] = logs[tp][j]
             /\ LogEndOffset(logs[tp]) <= LogEndOffset(logs'[tp])
  <2>1. /\ Len(logs'[tp]) = Len(logs[tp]) + 1 /\ DOMAIN logs'[tp] = 1 .. Len(logs[tp]) + 1
        /\ \A j \in 1 .. Len(logs[tp]) : logs'[tp][j] = logs[tp][j]
        /\ logs'[tp][Len(logs[tp]) + 1] = b
    BY <1>1, <1>4, AppendProperties, LenProperties
  <2>2. logs'[tp] # <<>>
    BY <1>1, <2>1, EmptySeq
  <2>3. LogEndOffset(logs'[tp]) = b.base + b.count
    BY <2>1, <2>2 DEF LogEndOffset, EndOffset
  <2>4. QED
    BY <1>1, <1>2, <1>4, <2>1, <2>3 DEF Batch
<1>5. ASSUME NEW c \in Conns, ProduceAppend(c)
      PROVE  \/ logs'[tp] = logs[tp]
             \/ \E b \in Batch(Source) : /\ b.base = LogEndOffset(logs[tp])
                                         /\ logs'[tp] = Append(logs[tp], b)
  <2>1. PICK b \in Batch(Source), at \in TopicPartitions :
          b.base = LogEndOffset(logs[at]) /\ logs' = [logs EXCEPT ![at] = Append(@, b)]
    <3>1. Entry(c).tp \in TopicPartitions
      BY <1>5, AppendedBatch
    <3>2. QED
      BY <1>5, <3>1, AppendedBatch
  <2>2. logs'[tp] = IF tp = at THEN Append(logs[tp], b) ELSE logs[tp]
    BY <2>1 DEF IInv, TypeOK
  <2>3. QED
    BY <2>1, <2>2
<1>6. QED
  BY <1>2, <1>3, <1>4, <1>5, LogsStep

LEMMA DeliversStays ==
    ASSUME IInv, [Next]_vars, NEW p, NEW body \in Body, DeliversAll(body, p)
    PROVE  DeliversAll(body, p)'
<1>1. SUFFICES ASSUME p.error = NO_ERROR
               PROVE  \E asked \in Asked(body) :
                        /\ asked.tp = p.tp
                        /\ EachOnce(p, asked.arg)
                        /\ \A i \in DOMAIN p.data :
                             \E j \in DOMAIN logs'[asked.tp] : logs'[asked.tp][j] = p.data[i]
                        /\ p.data # <<>> <=> asked.arg < p.offset
  BY DEF DeliversAll, EachOnce, Asked
<1>2. PICK asked \in Asked(body) :
        /\ asked.tp = p.tp
        /\ EachOnce(p, asked.arg)
        /\ \A i \in DOMAIN p.data :
             \E j \in DOMAIN logs[asked.tp] : logs[asked.tp][j] = p.data[i]
        /\ p.data # <<>> <=> asked.arg < p.offset
  BY <1>1 DEF DeliversAll
<1>3. asked.tp \in TopicPartitions
  <2>1. body.parts \in Seq(Part)
    BY DEF Body
  <2>2. asked \in Part
    BY <2>1, ElementOfSeq, LenProperties DEF Asked
  <2>3. QED
    BY <2>2 DEF Part
<1>4. \A j \in DOMAIN logs[asked.tp] :
        j \in DOMAIN logs'[asked.tp] /\ logs'[asked.tp][j] = logs[asked.tp][j]
  BY <1>3, LogsGrow
<1>5. \A i \in DOMAIN p.data :
        \E j \in DOMAIN logs'[asked.tp] : logs'[asked.tp][j] = p.data[i]
  <2>1. ASSUME NEW i \in DOMAIN p.data
        PROVE  \E j \in DOMAIN logs'[asked.tp] : logs'[asked.tp][j] = p.data[i]
    <3>1. PICK j \in DOMAIN logs[asked.tp] : logs[asked.tp][j] = p.data[i]
      BY <1>2
    <3>2. QED
      BY <1>4, <3>1
  <2>2. QED
    BY <2>1
<1>6. QED
  BY <1>2, <1>5

LEMMA DeliveredStays ==
    ASSUME IInv, [Next]_vars, NEW r, NEW body \in Body, Delivered(r, body)
    PROVE  Delivered(r, body)'
<1>1. SUFFICES ASSUME body.api = "Fetch", NEW k \in DOMAIN r.parts
               PROVE  DeliversAll(body, r.parts[k])'
  BY DEF Delivered
<1>2. DeliversAll(body, r.parts[k])
  BY <1>1 DEF Delivered
<1>3. QED
  BY <1>2, DeliversStays

\* What FetchRead answers.
LEMMA FetchDelivers ==
    ASSUME IInv, NEW c \in Conns, Running(c), HasEntry(c), Current(c).api = "Fetch",
           NEW p, p = PartAnswer(Entry(c).tp, NO_ERROR, LogEndOffset(logs[Entry(c).tp]),
                                 ReadLogFrom(logs[Entry(c).tp], Entry(c).arg))
    PROVE  DeliversAll(Current(c), p)
<1> DEFINE tp == Entry(c).tp
<1>1. taken[c] # 0 /\ Current(c) \in Workload
  BY CurrentType DEF IInv, HandlersHaveRequests, Running
<1>2. tp \in TopicPartitions
  BY <1>1, EntryType DEF IInv
<1>3. Entry(c).arg \in Nat
  BY <1>1, WorkloadAssumption DEF HasEntry, Entry
<1>4. logs[tp] \in Seq(Batch(Source)) /\ Contiguous(logs[tp])
  BY <1>2 DEF IInv, TypeOK, OffsetsContiguous
<1>5. /\ p.tp = tp /\ p.offset = LogEndOffset(logs[tp])
      /\ p.data = ReadLogFrom(logs[tp], Entry(c).arg)
  BY DEF PartAnswer
<1>6. /\ p.data # <<>> <=> Entry(c).arg < p.offset
      /\ \A i \in DOMAIN p.data : \E j \in DOMAIN logs[tp] : logs[tp][j] = p.data[i]
      /\ \A x \in Entry(c).arg .. p.offset - 1 : \E i \in DOMAIN p.data :
           {h \in DOMAIN p.data : Covers(p.data[h], x)} = {i}
  BY <1>3, <1>4, <1>5, ReadDelivers
<1>7. EachOnce(p, Entry(c).arg)
  <2>1. ASSUME NEW x \in Entry(c).arg .. p.offset - 1
        PROVE  Cardinality({h \in DOMAIN p.data : Covers(p.data[h], x)}) = 1
    <3>1. PICK i : {h \in DOMAIN p.data : Covers(p.data[h], x)} = {i}
      BY <1>6
    <3>2. Cardinality({i}) = 1
      BY FS_Singleton
    <3>3. QED
      BY <3>1, <3>2
  <2>2. QED
    BY <2>1 DEF EachOnce
<1>8. Entry(c) \in Asked(Current(c))
  BY DEF Asked, Entry, HasEntry
<1>9. QED
  BY <1>5, <1>6, <1>7, <1>8 DEF DeliversAll

LEMMA FetchInvStep ==
    ASSUME FetchInv, [Next]_vars
    PROVE  FetchInv'
<1>1. OrderInv /\ OrderInv' /\ PlaceInv /\ IInv /\ TypeOK
  BY OrderStep DEF FetchInv, OrderInv, PlaceInv, IInv
<1>2. ASSUME NEW c \in Conns, NEW n \in DOMAIN responses'[c],
             NEW r, r = responses'[c][n], NEW body, body = requests'[c][r.cid]
      PROVE  Delivered(r, body)'
  <2>1. CASE /\ n \in DOMAIN responses[c] /\ r = responses[c][n]
             /\ r.cid \in 1 .. taken[c]
             /\ body = requests[c][r.cid]
    <3>1. Delivered(r, body)
      BY <2>1 DEF FetchInv
    <3>2. body \in Body
      BY <1>1, <2>1, ElementOfSeq, WorkloadAssumption DEF TypeOK
    <3>3. QED
      BY <1>1, <3>1, <3>2, DeliveredStays
  <2>2. CASE Reply(c) /\ r = InProgress(c)
    <3>1. /\ Running(c) /\ r.cid = taken[c] /\ body = Current(c)
      BY <1>1, <1>2, <2>2, ReplyWrites DEF InProgress, Current
    <3>2. Delivered(r, body)
      BY <2>2, <3>1 DEF FetchInv
    <3>3. body \in Body
      BY <1>1, <3>1, CurrentType DEF IInv, HandlersHaveRequests, Running
    <3>4. QED
      BY <1>1, <3>2, <3>3, DeliveredStays
  <2>3. QED
    BY <1>1, <1>2, <2>1, <2>2, ResponsesStep
<1>3. ASSUME NEW c \in Conns, Running(c)',
             NEW r, r = [cid |-> taken'[c], parts |-> partition_responses'[c]],
             NEW body, body = requests'[c][taken'[c]]
      PROVE  Delivered(r, body)'
  <2>1. CASE partition_responses'[c] = <<>>
    BY <1>3, <2>1 DEF Delivered
  <2>2. ASSUME Running(c), taken'[c] = taken[c], Current(c)' = Current(c)
        PROVE  /\ body = Current(c) /\ body \in Body
               /\ body.api = "Fetch" =>
                    \A k \in DOMAIN partition_responses[c] :
                        DeliversAll(body, partition_responses[c][k])
    BY <1>1, <1>3, <2>2, CurrentType
       DEF Current, InProgress, FetchInv, Delivered, IInv, HandlersHaveRequests, Running
  <2>3. CASE /\ Running(c) /\ taken'[c] = taken[c] /\ Current(c)' = Current(c)
             /\ partition_responses'[c] = partition_responses[c]
    <3>1. Delivered(r, body)
      BY <1>3, <2>2, <2>3 DEF Delivered
    <3>2. QED
      BY <1>1, <2>2, <2>3, <3>1, DeliveredStays
  <2>4. ASSUME Running(c), taken'[c] = taken[c], Current(c)' = Current(c),
               NEW p \in PartResponse, NEW next, Answers(c, p, next),
               body.api = "Fetch" => DeliversAll(body, p)
        PROVE  Delivered(r, body)'
    <3>1. SUFFICES ASSUME body.api = "Fetch", NEW k \in DOMAIN r.parts
                   PROVE  DeliversAll(body, r.parts[k])
      <4>1. SUFFICES Delivered(r, body)
        BY <1>1, <2>2, <2>4, DeliveredStays
      <4>2. QED
        BY DEF Delivered
    <3>2. /\ r.parts = Append(partition_responses[c], p)
          /\ partition_responses[c] \in Seq(PartResponse)
      BY <1>1, <1>3, <2>4 DEF Answers, Answer, TypeOK
    <3>3. \/ k \in DOMAIN partition_responses[c] /\ r.parts[k] = partition_responses[c][k]
          \/ r.parts[k] = p
      BY <3>1, <3>2, AppendProperties, LenProperties
    <3>4. QED
      BY <2>2, <2>4, <3>1, <3>3
  <2>5. CASE /\ Running(c) /\ taken'[c] = taken[c] /\ Current(c)' = Current(c)
             /\ Question(c)
    <3>1. PICK p \in PartResponse, next \in Nat \ {0} :
            /\ Answers(c, p, next)
            /\ Current(c).api = "Fetch" =>
                 \/ p.error # NO_ERROR
                 \/ p = PartAnswer(Entry(c).tp, NO_ERROR, LogEndOffset(logs[Entry(c).tp]),
                                   ReadLogFrom(logs[Entry(c).tp], Entry(c).arg))
      BY <1>1, <2>5, QuestionAnswers
    <3>2. ASSUME body.api = "Fetch"
          PROVE  DeliversAll(body, p)
      <4>1. CASE p.error # NO_ERROR
        BY <4>1 DEF DeliversAll
      <4>2. CASE p = PartAnswer(Entry(c).tp, NO_ERROR, LogEndOffset(logs[Entry(c).tp]),
                                ReadLogFrom(logs[Entry(c).tp], Entry(c).arg))
        <5>1. Current(c).api = "Fetch" /\ HasEntry(c)
          BY <2>2, <2>5, <3>1, <3>2 DEF Answers
        <5>2. QED
          BY <1>1, <2>2, <2>5, <4>2, <5>1, FetchDelivers
      <4>3. QED
        BY <2>2, <2>5, <3>1, <3>2, <4>1, <4>2
    <3>3. QED
      BY <2>4, <2>5, <3>1, <3>2
  <2>6. CASE /\ Running(c) /\ taken'[c] = taken[c] /\ Current(c)' = Current(c)
             /\ ProduceAppend(c)
    <3>1. /\ Answers(c, ProduceAnswer(c), part[c] + 1)
          /\ Current(c).api = "Produce" /\ ProduceAnswer(c) \in PartResponse
      BY <1>1, <2>6, AppendAnswers
    <3>2. body.api # "Fetch"
      BY <2>2, <2>6, <3>1
    <3>3. QED
      BY <2>4, <2>6, <3>1, <3>2
  <2>7. QED
    BY <1>1, <1>3, <2>1, <2>3, <2>5, <2>6, ProgressStep
<1>4. \A c \in Conns : \A n \in DOMAIN responses'[c] :
         Delivered(responses[c][n], requests[c][responses[c][n].cid])'
  BY <1>2 DEF Delivered, DeliversAll
<1>5. \A c \in Conns : Running(c)' => Delivered(InProgress(c), Current(c))'
  BY <1>3 DEF Delivered, DeliversAll, InProgress, Current
<1>6. QED
  BY <1>1, <1>4, <1>5 DEF FetchInv

LEMMA FetchInitially ==
    ASSUME Init
    PROVE  FetchInv
<1>1. \A c \in Conns : DOMAIN responses[c] = {} /\ ~Running(c)
  BY DEF Init, Running, Busy
<1>2. QED
  BY <1>1, OrderInitially DEF FetchInv

\* A fetch answer holds every record from the fetch offset up to the high
\* watermark it gives, each in exactly one batch, as the log has them for
\* good, and it is empty only when there is nothing from that offset on.
THEOREM CompleteFetches == Spec => []FetchDeliversAll
<1>1. Init => FetchInv
  BY FetchInitially
<1>2. FetchInv /\ [Next]_vars => FetchInv'
  BY FetchInvStep
<1>3. ASSUME FetchInv
      PROVE  FetchDeliversAll
  BY <1>3 DEF FetchInv, Delivered, DeliversAll, EachOnce, Asked, FetchDeliversAll
<1>4. QED
  BY <1>1, <1>2, <1>3, PTL DEF Spec

-----------------------------------------------------------------------------
(* Reported ends never recede. *)

\* e is the end that entry p of the response to this body reports, where
\* asked is the entry of the body.
IsEnd(api, asked, p, e) ==
    /\ p.error = NO_ERROR
    /\ e = [tp |-> p.tp, end |-> IF api = "Produce" THEN p.offset + asked.arg ELSE p.offset]
    /\ api \in {"Produce", "Fetch", "ListOffsets"}
    /\ api = "ListOffsets" => asked.arg = LATEST
ReportsEnd(body, r, e) ==
    \E k \in DOMAIN r.parts : IsEnd(body.api, body.parts[k], r.parts[k], e)

LEMMA EndsMembers ==
    ASSUME NEW c, NEW r, NEW e
    PROVE  /\ e \in Ends(c, r) <=> ReportsEnd(requests[c][r.cid], r, e)
           /\ e \in Ends(c, r)' <=> ReportsEnd(requests'[c][r.cid], r, e)
<1>1. ASSUME NEW body, NEW k
      PROVE  IsEnd(body.api, body.parts[k], r.parts[k], e) <=>
               /\ r.parts[k].error = NO_ERROR
               /\ \/ /\ body.api = "Produce"
                     /\ e = [tp |-> r.parts[k].tp, end |-> r.parts[k].offset + body.parts[k].arg]
                  \/ /\ body.api = "Fetch"
                     /\ e = [tp |-> r.parts[k].tp, end |-> r.parts[k].offset]
                  \/ /\ body.api = "ListOffsets" /\ body.parts[k].arg = LATEST
                     /\ e = [tp |-> r.parts[k].tp, end |-> r.parts[k].offset]
  BY DEF IsEnd
<1>2. e \in Ends(c, r) <=> ReportsEnd(requests[c][r.cid], r, e)
  BY <1>1 DEF Ends, ReportsEnd
<1>3. e \in Ends(c, r)' <=> ReportsEnd(requests'[c][r.cid], r, e)
  BY <1>1 DEF Ends, ReportsEnd
<1>4. QED
  BY <1>2, <1>3

LEMMA ReportedMembers ==
    ASSUME NEW e
    PROVE  /\ e \in Reported <=> \E c \in Conns : \E n \in DOMAIN responses[c] :
                 ReportsEnd(requests[c][responses[c][n].cid], responses[c][n], e)
           /\ e \in Reported' <=> \E c \in Conns : \E n \in DOMAIN responses'[c] :
                 ReportsEnd(requests'[c][responses'[c][n].cid], responses'[c][n], e)
<1>1. e \in Reported <=> \E c \in Conns : \E n \in DOMAIN responses[c] :
                           e \in Ends(c, responses[c][n])
  BY DEF Reported
<1>2. e \in Reported' <=> \E c \in Conns : \E n \in DOMAIN responses'[c] :
                            e \in Ends(c, responses[c][n])'
  BY DEF Reported
<1>3. ASSUME NEW c \in Conns, NEW n
      PROVE  e \in Ends(c, responses[c][n])' <=>
               ReportsEnd(requests'[c][responses'[c][n].cid], responses'[c][n], e)
  <2>1. PICK r : r = responses'[c][n]
    OBVIOUS
  <2>2. e \in Ends(c, r)' <=> ReportsEnd(requests'[c][r.cid], r, e)
    BY EndsMembers
  <2>3. e \in Ends(c, responses[c][n])' <=> e \in Ends(c, r)'
    BY <2>1 DEF Ends
  <2>4. QED
    BY <2>1, <2>2, <2>3
<1>4. QED
  BY <1>1, <1>2, <1>3, EndsMembers

\* An end is reported first by the response that Reply writes.
LEMMA ReportedStep ==
    ASSUME OrderInv, [Next]_vars, NEW e \in Reported'
    PROVE  e \in Reported \/ \E c \in Conns : Reply(c) /\ Running(c) /\ e \in Ends(c, InProgress(c))
<1>1. PICK c \in Conns : \E n \in DOMAIN responses'[c] :
        ReportsEnd(requests'[c][responses'[c][n].cid], responses'[c][n], e)
  BY ReportedMembers
<1>2. PICK n \in DOMAIN responses'[c] :
        ReportsEnd(requests'[c][responses'[c][n].cid], responses'[c][n], e)
  BY <1>1
<1>3. CASE /\ n \in DOMAIN responses[c] /\ responses'[c][n] = responses[c][n]
           /\ requests'[c][responses[c][n].cid] = requests[c][responses[c][n].cid]
  BY <1>2, <1>3, ReportedMembers
<1>4. CASE Reply(c) /\ responses'[c][n] = InProgress(c)
  <2>1. requests' = requests /\ Running(c)
    BY <1>4, ReplyWrites DEF OrderInv
  <2>2. PICK r : r = InProgress(c)
    OBVIOUS
  <2>3. e \in Ends(c, r)
    BY <1>2, <1>4, <2>1, <2>2, EndsMembers
  <2>4. QED
    BY <1>4, <2>1, <2>2, <2>3
<1>5. QED
  BY <1>2, <1>3, <1>4, ResponsesStep

LEMMA WithinStays ==
    ASSUME IInv, [Next]_vars, NEW e, Within(e)
    PROVE  Within(e)'
BY LogsGrow DEF Within

LEMMA EndsStep ==
    ASSUME EndsInv, [Next]_vars
    PROVE  EndsInv'
<1>1. OrderInv /\ OrderInv' /\ PlaceInv /\ IInv /\ TypeOK
  BY OrderStep DEF EndsInv, OrderInv, PlaceInv, IInv
<1>2. ASSUME NEW e \in Reported'
      PROVE  Within(e)'
  <2>1. Within(e)
    BY <1>1, <1>2, ReportedStep DEF EndsInv
  <2>2. QED
    BY <1>1, <2>1, WithinStays
<1>3. ASSUME NEW c \in Conns, Running(c)',
             NEW r, r = [cid |-> taken'[c], parts |-> partition_responses'[c]],
             NEW body, body = requests'[c][taken'[c]],
             NEW now, ReportsEnd(body, r, now)
      PROVE  /\ Within(now)'
             /\ \A then \in Reported' : then.tp = now.tp => then.end <= now.end
  <2>1. ASSUME NEW then \in Reported'
        PROVE  then \in Reported /\ Within(then)
    BY <1>1, <1>3, <2>1, ReportedStep, ReplyWrites DEF Running, EndsInv
  <2>2. ASSUME Running(c), taken'[c] = taken[c], Current(c)' = Current(c)
        PROVE  /\ body = Current(c) /\ body \in Body
               /\ \A k \in DOMAIN partition_responses[c] :
                    IsEnd(body.api, body.parts[k], partition_responses[c][k], now) =>
                      /\ Within(now)
                      /\ \A then \in Reported : then.tp = now.tp => then.end <= now.end
    <3>1. body = Current(c) /\ body \in Body
      BY <1>1, <1>3, <2>2, CurrentType DEF Current, IInv, HandlersHaveRequests, Running
    <3>2. PICK was : was = InProgress(c)
      OBVIOUS
    <3>3. was.parts = partition_responses[c] /\ requests[c][was.cid] = body
      BY <3>1, <3>2 DEF InProgress, Current
    <3>4. ASSUME ReportsEnd(body, was, now)
          PROVE  /\ Within(now)
                 /\ \A then \in Reported : then.tp = now.tp => then.end <= now.end
      <4>1. now \in Ends(c, was)
        BY <3>3, <3>4, EndsMembers
      <4>2. QED
        BY <2>2, <3>2, <4>1 DEF EndsInv
    <3>5. QED
      BY <3>1, <3>3, <3>4 DEF ReportsEnd
  <2>3. CASE partition_responses'[c] = <<>>
    BY <1>3, <2>3 DEF ReportsEnd
  <2>4. CASE /\ Running(c) /\ taken'[c] = taken[c] /\ Current(c)' = Current(c)
             /\ partition_responses'[c] = partition_responses[c]
    <3>1. Within(now) /\ \A then \in Reported : then.tp = now.tp => then.end <= now.end
      BY <1>3, <2>2, <2>4 DEF ReportsEnd
    <3>2. QED
      BY <1>1, <2>1, <3>1, WithinStays
  <2>5. ASSUME Running(c), taken'[c] = taken[c], Current(c)' = Current(c),
               NEW p \in PartResponse, NEW next, Answers(c, p, next),
               NEW asked, asked = Entry(c),
               body.api \in {"Produce", "ListOffsets"} => next = part[c] + 1,
               \A any : IsEnd(body.api, any, p, now) /\ (body.api # "Fetch" => any = asked) =>
                   /\ now.tp \in TopicPartitions
                   /\ now.end = LogEndOffset(logs'[now.tp])
        PROVE  /\ Within(now)'
               /\ \A then \in Reported' : then.tp = now.tp => then.end <= now.end
    <3>1. PICK k \in DOMAIN r.parts : IsEnd(body.api, body.parts[k], r.parts[k], now)
      BY <1>3 DEF ReportsEnd
    <3>2. /\ r.parts = Append(partition_responses[c], p)
          /\ partition_responses[c] \in Seq(PartResponse)
      BY <1>1, <1>3, <2>5 DEF Answers, Answer, TypeOK
    <3>3. CASE k \in DOMAIN partition_responses[c]
      <4>1. r.parts[k] = partition_responses[c][k]
        BY <3>1, <3>2, <3>3, AppendProperties, LenProperties
      <4>2. Within(now) /\ \A then \in Reported : then.tp = now.tp => then.end <= now.end
        BY <2>2, <2>5, <3>1, <3>3, <4>1
      <4>3. QED
        BY <1>1, <2>1, <4>2, WithinStays
    <3>4. CASE k \notin DOMAIN partition_responses[c]
      <4>1. k = Len(partition_responses[c]) + 1 /\ r.parts[k] = p
        BY <3>1, <3>2, <3>4, AppendProperties, LenProperties
      <4>2. ASSUME body.api # "Fetch"
            PROVE  body.parts[k] = asked
        <5>1. body.api \in {"Produce", "ListOffsets"}
          BY <3>1, <4>2 DEF IsEnd
        <5>2. k = part[c]
          BY <1>1, <2>2, <2>5, <4>1, <5>1 DEF PlaceInv, HandlersKeepPlace, KeepsPlace
        <5>3. QED
          BY <2>2, <2>5, <5>2 DEF Entry
      <4>3. now.tp \in TopicPartitions /\ now.end = LogEndOffset(logs'[now.tp])
        BY <2>5, <3>1, <4>1, <4>2
      <4>4. LogEndOffset(logs'[now.tp]) \in Nat /\ LogEndOffset(logs[now.tp]) \in Nat
            /\ LogEndOffset(logs[now.tp]) <= LogEndOffset(logs'[now.tp])
        BY <1>1, <4>3, LogsGrow
      <4>5. Within(now)'
        BY <4>3, <4>4 DEF Within
      <4>6. ASSUME NEW then \in Reported', then.tp = now.tp
            PROVE  then.end <= now.end
        <5>1. then.end \in Int /\ then.end <= LogEndOffset(logs[now.tp])
          BY <2>1, <4>6 DEF Within
        <5>2. QED
          BY <4>3, <4>4, <5>1
      <4>7. QED
        BY <4>5, <4>6
    <3>5. QED
      BY <3>3, <3>4
  <2>6. CASE /\ Running(c) /\ taken'[c] = taken[c] /\ Current(c)' = Current(c)
             /\ Question(c)
    <3>0. PICK asked : asked = Entry(c)
      OBVIOUS
    <3>1. PICK at \in TopicPartitions : asked = Entry(c) /\ at = asked.tp
      BY <1>1, <2>6, <3>0, QuestionAnswers
    <3>2. PICK p \in PartResponse, next \in Nat \ {0} :
            /\ Answers(c, p, next) /\ UNCHANGED logs
            /\ \/ /\ body.api = "Produce" /\ next = part[c] + 1 /\ p.error # NO_ERROR
               \/ /\ body.api = "Fetch" /\ p.error # NO_ERROR
               \/ /\ body.api = "Fetch" /\ p.tp = at /\ p.offset = LogEndOffset(logs[at])
               \/ /\ body.api = "ListOffsets" /\ next = part[c] + 1 /\ p.tp = at
                  /\ p.error = NO_ERROR /\ asked.arg = LATEST => p.offset = LogEndOffset(logs[at])
      BY <1>1, <2>2, <2>6, <3>1, QuestionAnswers DEF PartAnswer
    <3>3. ASSUME NEW any, IsEnd(body.api, any, p, now), body.api # "Fetch" => any = asked
          PROVE  now.tp = at /\ now.end = LogEndOffset(logs[at])
      BY <3>2, <3>3 DEF IsEnd
    <3>4. QED
      BY <2>5, <2>6, <3>1, <3>2, <3>3
  <2>7. CASE /\ Running(c) /\ taken'[c] = taken[c] /\ Current(c)' = Current(c)
             /\ ProduceAppend(c)
    <3>1. PICK asked : asked = Entry(c)
      OBVIOUS
    <3>2. PICK at \in TopicPartitions : at = asked.tp
      BY <1>1, <2>7, <3>1, AppendedBatch
    <3>3. /\ Answers(c, ProduceAnswer(c), part[c] + 1)
          /\ Current(c).api = "Produce" /\ ProduceAnswer(c) \in PartResponse
      BY <1>1, <2>7, AppendAnswers
    <3>4. LogEndOffset(logs'[at]) = leo[c] + asked.arg
      <4>1. PICK b \in Batch(Source) :
              /\ b.base = leo[c] /\ b.count = asked.arg
              /\ logs' = [logs EXCEPT ![at] = Append(@, b)]
        BY <1>1, <2>7, <3>1, <3>2, AppendedBatch
      <4>2. logs[at] \in Seq(Batch(Source)) /\ logs'[at] = Append(logs[at], b)
        BY <1>1, <4>1 DEF TypeOK
      <4>3. /\ Len(logs'[at]) = Len(logs[at]) + 1 /\ Len(logs[at]) \in Nat
            /\ logs'[at][Len(logs[at]) + 1] = b
        BY <4>2, AppendProperties, LenProperties
      <4>4. logs'[at] # <<>>
        BY <4>3, EmptySeq
      <4>5. QED
        BY <4>1, <4>3, <4>4 DEF LogEndOffset, EndOffset
    <3>5. ASSUME NEW any, IsEnd(body.api, any, ProduceAnswer(c), now), body.api # "Fetch" => any = asked
          PROVE  now.tp = at /\ now.end = LogEndOffset(logs'[at])
      <4>1. body.api = "Produce" /\ any = asked
        BY <2>2, <2>7, <3>3, <3>5
      <4>2. ProduceAnswer(c).tp = at /\ ProduceAnswer(c).offset = leo[c]
        BY <3>1, <3>2 DEF ProduceAnswer, PartAnswer
      <4>3. QED
        BY <3>4, <3>5, <4>1, <4>2 DEF IsEnd
    <3>6. QED
      BY <2>5, <2>7, <3>1, <3>3, <3>5
  <2>8. QED
    BY <1>1, <1>3, <2>3, <2>4, <2>6, <2>7, ProgressStep
<1>4. ASSUME NEW c \in Conns, Running(c)', NEW now \in Ends(c, InProgress(c))'
      PROVE  /\ Within(now)'
             /\ \A then \in Reported' : then.tp = now.tp => then.end <= now.end
  <2>1. PICK r : r = [cid |-> taken'[c], parts |-> partition_responses'[c]]
    OBVIOUS
  <2>2. now \in Ends(c, r)'
    BY <1>4, <2>1 DEF Ends, InProgress
  <2>3. PICK body : body = requests'[c][taken'[c]]
    OBVIOUS
  <2>4. ReportsEnd(body, r, now)
    BY <2>1, <2>2, <2>3, EndsMembers
  <2>5. QED
    BY <1>3, <1>4, <2>1, <2>3, <2>4
<1>5. QED
  BY <1>1, <1>2, <1>4 DEF EndsInv

LEMMA EndsInitially ==
    ASSUME Init
    PROVE  EndsInv
<1>1. \A c \in Conns : DOMAIN responses[c] = {} /\ ~Running(c)
  BY DEF Init, Running, Busy
<1>2. Reported = {}
  BY <1>1, ReportedMembers
<1>3. QED
  BY <1>1, <1>2, OrderInitially DEF EndsInv

\* No client, on any connection, before or after a restart, is told of an end
\* of a partition that lies before one that was reported to anybody earlier.
THEOREM NoEndRecedes == Spec => EndsNeverRecede
<1>1. Init => EndsInv
  BY EndsInitially
<1>2. EndsInv /\ [Next]_vars => EndsInv'
  BY EndsStep
<1>3. ASSUME EndsInv, [Next]_vars
      PROVE  \A c \in Conns : Len(responses'[c]) > Len(responses[c]) =>
               \A now \in Ends(c, responses[c][Len(responses[c])])' :
                 \A then \in Reported : then.tp = now.tp => then.end <= now.end
  <2>1. SUFFICES ASSUME NEW c \in Conns, Len(responses'[c]) > Len(responses[c]),
                        NEW n, n = Len(responses'[c]), NEW r, r = responses'[c][n],
                        NEW now \in Ends(c, r)'
                 PROVE  \A then \in Reported : then.tp = now.tp => then.end <= now.end
    BY DEF Ends
  <2>2. /\ responses[c] \in Seq(Response) /\ responses'[c] \in Seq(Response)
    BY <1>3, OrderStep DEF EndsInv, OrderInv, PlaceInv, IInv, TypeOK
  <2>3. n \in DOMAIN responses'[c] /\ n \notin DOMAIN responses[c]
    BY <2>1, <2>2, LenProperties
  <2>4. Reply(c) /\ r = InProgress(c)
    BY <1>3, <2>1, <2>3, ResponsesStep DEF EndsInv
  <2>5. requests' = requests /\ Running(c)
    BY <1>3, <2>4, ReplyWrites DEF EndsInv, OrderInv
  <2>6. now \in Ends(c, r)
    BY <2>1, <2>5, EndsMembers
  <2>7. QED
    BY <1>3, <2>4, <2>5, <2>6 DEF EndsInv
<1>4. QED
  BY <1>1, <1>2, <1>3, PTL DEF Spec, EndsNeverRecede

-----------------------------------------------------------------------------
(* The broker implements CommitLog.  An answer is given in one step, but   *)
(* it was put together in many.  Its facts hold together when it is given  *)
(* because each still does at every step of the handler.  Acknowledgements *)
(* and refusals last (AcksInv); the ends and the contents of logs do not,  *)
(* but no other handler runs, and one that reads logs appends to none.     *)

\* What entry k of an answer to `body` says is how the logs are now.
UpToDate(body, k, p) ==
    p.error = NO_ERROR =>
      /\ body.api = "Produce" => p.tp = body.parts[k].tp
      /\ body.api = "Fetch" =>
           /\ p.offset = LogEndOffset(logs[p.tp])
           /\ p.data # <<>> =>
                Fetched(p.data) = SubSeq(Stream(logs[p.tp]), p.data[1].base + 1,
                                         LogEndOffset(logs[p.tp]))
      /\ body.api = "ListOffsets" /\ body.parts[k].arg = LATEST =>
           p.offset = LogEndOffset(logs[p.tp])

FactsInv ==
    /\ AcksInv
    /\ \A c \in Conns : Running(c) =>
         \A k \in DOMAIN partition_responses[c] :
           UpToDate(Current(c), k, partition_responses[c][k])

-----------------------------------------------------------------------------
(* Sequences. *)

LEMMA JoinIs ==
    ASSUME NEW R, NEW s \in Seq(R), NEW t \in Seq(R), NEW u \in Seq(R),
           Len(u) = Len(s) + Len(t),
           \A n \in 1 .. Len(s) : u[n] = s[n],
           \A n \in 1 .. Len(t) : u[Len(s) + n] = t[n]
    PROVE  u = s \o t
<1>1. Len(s) \in Nat /\ Len(t) \in Nat
  BY LenProperties
<1>2. /\ s \o t \in Seq(R) /\ Len(s \o t) = Len(s) + Len(t)
      /\ \A n \in 1 .. Len(s) + Len(t) :
           (s \o t)[n] = IF n <= Len(s) THEN s[n] ELSE t[n - Len(s)]
  BY ConcatProperties
<1>3. ASSUME NEW n \in 1 .. Len(u)
      PROVE  u[n] = (s \o t)[n]
  <2>1. CASE n <= Len(s)
    BY <1>1, <1>2, <2>1
  <2>2. CASE ~(n <= Len(s))
    <3>1. n - Len(s) \in 1 .. Len(t) /\ Len(s) + (n - Len(s)) = n
      BY <1>1, <2>2
    <3>2. PICK m \in 1 .. Len(t) : m = n - Len(s) /\ Len(s) + m = n
      BY <3>1
    <3>3. u[n] = t[m]
      BY <3>2
    <3>4. n \in 1 .. Len(s) + Len(t)
      BY <1>1
    <3>5. QED
      BY <1>2, <2>2, <3>2, <3>3, <3>4
  <2>3. QED
    BY <2>1, <2>2
<1>4. QED
  BY <1>2, <1>3, SeqEqual

LEMMA RestIs ==
    ASSUME NEW R, NEW s \in Seq(R), NEW from \in Nat, from < Len(s)
    PROVE  SubSeq(s, from + 1, Len(s)) = [n \in 1 .. Len(s) - from |-> s[from + n]]
<1>1. Len(s) \in Nat /\ DOMAIN s = 1 .. Len(s)
  BY LenProperties
<1>2. PICK first, last : first = from + 1 /\ last = Len(s)
  OBVIOUS
<1>3. PICK sub : sub = SubSeq(s, first, last)
  OBVIOUS
<1>4. \A i \in first .. last : s[i] \in R
  BY <1>1, <1>2, ElementOfSeq
<1>5. /\ sub \in Seq(R) /\ Len(sub) = last - first + 1
      /\ \A n \in 1 .. last - first + 1 : sub[n] = s[first + n - 1]
  <2>1. first \in Int /\ last \in Int /\ first <= last
    BY <1>1, <1>2
  <2>2. QED
    BY <1>3, <1>4, <2>1, SubSeqProperties
<1>6. /\ last - first + 1 = Len(s) - from
      /\ \A n \in 1 .. Len(s) - from : first + n - 1 = from + n
  BY <1>1, <1>2
<1>7. sub = [n \in 1 .. Len(sub) |-> sub[n]]
  BY <1>5, LenProperties
<1>8. QED
  BY <1>2, <1>3, <1>5, <1>6, <1>7, SMTT(30)

-----------------------------------------------------------------------------
(* The records a log stands for. *)

\* The record at an offset, when only one batch covers it.
LEMMA RecordAtOffset ==
    ASSUME NEW S, NEW l \in Seq(Batch(S)), NEW x \in Int, NEW i \in DOMAIN l,
           Covers(l[i], x), \A j \in DOMAIN l : Covers(l[j], x) => j = i
    PROVE  RecordAt(l, x) = <<l[i].src, x - l[i].base + 1>>
<1> DEFINE batches == {l[j] : j \in DOMAIN l}
<1>1. l[i] \in batches /\ \A b \in batches : Covers(b, x) => b = l[i]
  OBVIOUS
<1>2. (CHOOSE b \in batches : Covers(b, x)) = l[i]
  BY <1>1
<1>3. QED
  BY <1>2 DEF RecordAt

\* The stream of a log, record by record.
LEMMA StreamIs ==
    ASSUME NEW S, NEW l \in Seq(Batch(S)), Contiguous(l)
    PROVE  /\ Stream(l) \in Seq(S \X (Nat \ {0}))
           /\ Len(Stream(l)) = LogEndOffset(l) /\ LogEndOffset(l) \in Nat
           /\ DOMAIN Stream(l) = 1 .. LogEndOffset(l)
           /\ \A n \in 1 .. LogEndOffset(l) : Stream(l)[n] = RecordAt(l, n - 1)
           /\ \A n \in 1 .. LogEndOffset(l) : \E i \in DOMAIN l :
                /\ Covers(l[i], n - 1)
                /\ Stream(l)[n] = <<l[i].src, n - l[i].base>>
           /\ \A i \in DOMAIN l : \A n \in 1 .. l[i].count :
                /\ l[i].base + n \in 1 .. LogEndOffset(l)
                /\ Stream(l)[l[i].base + n] = <<l[i].src, n>>
<1>1. LogEndOffset(l) \in Nat /\ DOMAIN l = 1 .. Len(l)
  BY LogEndOffsetType, LenProperties
<1>2. ASSUME NEW i \in DOMAIN l
      PROVE  /\ l[i].base \in Nat /\ l[i].count \in Nat \ {0}
             /\ EndOffset(l[i]) = l[i].base + l[i].count
             /\ l[i] \in Batch(S) /\ l[i].src \in S
  <2>1. l[i] \in Batch(S)
    BY <1>1, ElementOfSeq
  <2>2. QED
    BY <2>1 DEF EndOffset, Batch
<1>3. ASSUME NEW i \in DOMAIN l, NEW x \in Int, Covers(l[i], x)
      PROVE  RecordAt(l, x) = <<l[i].src, x - l[i].base + 1>>
  <2>1. \A j \in DOMAIN l : Covers(l[j], x) => j = i
    BY <1>3, CoveredOnce
  <2>2. QED
    BY <1>3, <2>1, RecordAtOffset
<1>4. ASSUME NEW n \in 1 .. LogEndOffset(l)
      PROVE  \E i \in DOMAIN l : /\ Covers(l[i], n - 1)
                                 /\ RecordAt(l, n - 1) = <<l[i].src, n - l[i].base>>
                                 /\ RecordAt(l, n - 1) \in S \X (Nat \ {0})
  <2>1. n - 1 \in Nat /\ n - 1 < LogEndOffset(l) /\ n - 1 \in Int
    BY <1>1
  <2>2. PICK i \in DOMAIN l : Covers(l[i], n - 1)
    BY <2>1, OffsetIsCovered
  <2>3. RecordAt(l, n - 1) = <<l[i].src, n - 1 - l[i].base + 1>>
    BY <1>3, <2>1, <2>2
  <2>4. n - 1 - l[i].base + 1 = n - l[i].base /\ n - l[i].base \in Nat \ {0}
    BY <1>2, <2>1, <2>2 DEF Covers
  <2>5. QED
    BY <1>2, <2>2, <2>3, <2>4
<1>5. Stream(l) = [n \in 1 .. LogEndOffset(l) |-> RecordAt(l, n - 1)]
  BY DEF Stream
<1>6. Stream(l) \in Seq(S \X (Nat \ {0}))
  <2> DEFINE e(n) == RecordAt(l, n - 1)
  <2>1. \A n \in 1 .. LogEndOffset(l) : e(n) \in S \X (Nat \ {0})
    BY <1>4
  <2>2. Stream(l) = [n \in 1 .. LogEndOffset(l) |-> e(n)]
    BY <1>5
  <2> HIDE DEF e
  <2>3. QED
    BY <1>1, <2>1, <2>2, IsASeq
<1>7. Len(Stream(l)) = LogEndOffset(l) /\ DOMAIN Stream(l) = 1 .. LogEndOffset(l)
  BY <1>1, <1>5, <1>6, LenProperties
<1>8. \A n \in 1 .. LogEndOffset(l) : Stream(l)[n] = RecordAt(l, n - 1)
  BY <1>5
<1>9. ASSUME NEW i \in DOMAIN l, NEW n \in 1 .. l[i].count
      PROVE  /\ l[i].base + n \in 1 .. LogEndOffset(l)
             /\ Stream(l)[l[i].base + n] = <<l[i].src, n>>
  <2>1. EndOffset(l[i]) <= LogEndOffset(l)
    BY LogEndBounds
  <2>2. PICK x \in Nat : x = l[i].base + n - 1
    BY <1>2
  <2>3. /\ x + 1 \in 1 .. LogEndOffset(l) /\ l[i].base + n = x + 1
        /\ Covers(l[i], x) /\ x - l[i].base + 1 = n
    BY <1>1, <1>2, <2>1, <2>2, SMTT(30) DEF Covers
  <2>4. RecordAt(l, x) = <<l[i].src, n>>
    BY <1>3, <2>3
  <2>5. x + 1 - 1 = x
    OBVIOUS
  <2>6. QED
    BY <1>8, <2>3, <2>4, <2>5
<1>10. QED
  BY <1>1, <1>4, <1>6, <1>7, <1>8, <1>9

\* An append at the end puts the batch's records at the end of the stream.
LEMMA StreamOfAppend ==
    ASSUME NEW S, NEW l \in Seq(Batch(S)), Contiguous(l),
           NEW b \in Batch(S), b.base = LogEndOffset(l)
    PROVE  /\ Stream(Append(l, b)) = Stream(l) \o [n \in 1 .. b.count |-> <<b.src, n>>]
           /\ LogEndOffset(Append(l, b)) = LogEndOffset(l) + b.count
           /\ b.count \in Nat \ {0}
<1> DEFINE new == Append(l, b)
<1> DEFINE more == [n \in 1 .. b.count |-> <<b.src, n>>]
<1>1. /\ new \in Seq(Batch(S)) /\ Len(new) = Len(l) + 1 /\ Len(l) \in Nat
      /\ DOMAIN new = 1 .. Len(l) + 1 /\ DOMAIN l = 1 .. Len(l)
      /\ \A i \in 1 .. Len(l) : new[i] = l[i]
      /\ new[Len(l) + 1] = b
  BY AppendProperties, LenProperties
<1>2. Contiguous(new)
  BY AppendAtEnd
<1>3. b.count \in Nat \ {0} /\ b.src \in S
  BY DEF Batch
<1>4. LogEndOffset(new) = LogEndOffset(l) + b.count /\ LogEndOffset(l) \in Nat
  <2>1. new # <<>>
    BY <1>1, EmptySeq
  <2>2. QED
    BY <1>1, <2>1, LogEndOffsetType DEF LogEndOffset, EndOffset
<1>5. more \in Seq(S \X (Nat \ {0})) /\ Len(more) = b.count /\ DOMAIN more = 1 .. b.count
      /\ \A n \in 1 .. b.count : more[n] = <<b.src, n>>
  <2> DEFINE e(n) == <<b.src, n>>
  <2>1. \A n \in 1 .. b.count : e(n) \in S \X (Nat \ {0})
    BY <1>3
  <2>2. [n \in 1 .. b.count |-> e(n)] \in Seq(S \X (Nat \ {0}))
    <3> HIDE DEF e
    <3>1. QED
      BY <1>3, <2>1, IsASeq
  <2>3. QED
    BY <1>3, <2>2, LenProperties
<1> HIDE DEF more, new
<1>6. PICK R : Stream(new) \in Seq(R) /\ Stream(l) \in Seq(R) /\ more \in Seq(R)
  BY <1>1, <1>2, <1>5, StreamIs
<1>7. /\ Stream(new) \in Seq(R) /\ Stream(l) \in Seq(R) /\ more \in Seq(R)
      /\ Len(Stream(new)) = LogEndOffset(new) /\ Len(Stream(l)) = LogEndOffset(l)
      /\ \A i \in DOMAIN new : \A n \in 1 .. new[i].count :
           Stream(new)[new[i].base + n] = <<new[i].src, n>>
      /\ \A n \in 1 .. LogEndOffset(l) : \E i \in DOMAIN l :
           Covers(l[i], n - 1) /\ Stream(l)[n] = <<l[i].src, n - l[i].base>>
  <2>1. /\ Len(Stream(new)) = LogEndOffset(new)
        /\ \A i \in DOMAIN new : \A n \in 1 .. new[i].count :
             Stream(new)[new[i].base + n] = <<new[i].src, n>>
    <3>1. Len(Stream(new)) = LogEndOffset(new)
      BY <1>1, <1>2, StreamIs
    <3>2. new \in Seq(Batch(S)) /\ Contiguous(new)
      BY <1>1, <1>2
    <3>3. ASSUME NEW i \in DOMAIN new, NEW n \in 1 .. new[i].count
          PROVE  Stream(new)[new[i].base + n] = <<new[i].src, n>>
      BY <3>2, StreamIs
    <3>4. QED
      BY <3>1, <3>3
  <2>2. /\ Len(Stream(l)) = LogEndOffset(l)
        /\ \A n \in 1 .. LogEndOffset(l) : \E i \in DOMAIN l :
             Covers(l[i], n - 1) /\ Stream(l)[n] = <<l[i].src, n - l[i].base>>
    BY StreamIs
  <2>3. QED
    BY <1>6, <2>1, <2>2
<1>8. ASSUME NEW n \in 1 .. LogEndOffset(l)
      PROVE  Stream(new)[n] = Stream(l)[n]
  <2>1. PICK i \in DOMAIN l :
          Covers(l[i], n - 1) /\ Stream(l)[n] = <<l[i].src, n - l[i].base>>
    BY <1>7
  <2>2. l[i].base \in Nat /\ n - l[i].base \in 1 .. l[i].count
    <3>1. l[i] \in Batch(S)
      BY <1>1, ElementOfSeq
    <3>2. QED
      BY <1>4, <2>1, <3>1, SMTT(30) DEF Covers, EndOffset, Batch
  <2>3. PICK m \in 1 .. l[i].count : m = n - l[i].base
    BY <2>2
  <2>4. i \in DOMAIN new /\ new[i] = l[i]
    BY <1>1
  <2>5. Stream(new)[l[i].base + m] = <<l[i].src, m>>
    BY <1>7, <2>3, <2>4
  <2>6. l[i].base + m = n
    BY <1>4, <2>2, <2>3
  <2>7. QED
    BY <2>1, <2>3, <2>5, <2>6
<1>9. ASSUME NEW n \in 1 .. b.count
      PROVE  Stream(new)[LogEndOffset(l) + n] = more[n]
  <2>1. Len(l) + 1 \in DOMAIN new
    BY <1>1
  <2>2. QED
    BY <1>1, <1>5, <1>7, <2>1
<1>10. Stream(new) = Stream(l) \o more
  <2>1. PICK u, s : u = Stream(new) /\ s = Stream(l)
    OBVIOUS
  <2>2. /\ u \in Seq(R) /\ s \in Seq(R) /\ more \in Seq(R)
        /\ Len(u) = Len(s) + Len(more) /\ Len(s) = LogEndOffset(l)
    BY <1>4, <1>5, <1>7, <2>1
  <2>3. \A n \in 1 .. Len(s) : u[n] = s[n]
    BY <1>8, <2>1, <2>2
  <2>4. \A n \in 1 .. Len(more) : u[Len(s) + n] = more[n]
    BY <1>5, <1>9, <2>1, <2>2
  <2>5. u = s \o more
    BY <2>2, <2>3, <2>4, JoinIs
  <2>6. QED
    BY <2>1, <2>5
<1>11. QED
  BY <1>3, <1>4, <1>10 DEF more, new

\* What a fetch is answered with is the stream from its first batch on.
LEMMA FetchedIsStream ==
    ASSUME NEW S, NEW l \in Seq(Batch(S)), Contiguous(l), NEW o \in Nat,
           NEW data, data = ReadLogFrom(l, o), data # <<>>
    PROVE  /\ Fetched(data) = SubSeq(Stream(l), data[1].base + 1, LogEndOffset(l))
           /\ data[1].base \in Nat
<1>1. PICK k \in DOMAIN l : Covers(l[k], o)
  BY ReadIsPart DEF PartOfLog
<1>2. data = SubSeq(l, k, Len(l))
  BY <1>1, ReadFindsBatch
<1>3. Len(l) \in Nat /\ DOMAIN l = 1 .. Len(l) /\ k \in 1 .. Len(l)
  BY LenProperties
<1>4. /\ data \in Seq(Batch(S)) /\ Len(data) = Len(l) - k + 1
      /\ \A i \in 1 .. Len(l) - k + 1 : data[i] = l[k + i - 1]
      /\ DOMAIN data = 1 .. Len(l) - k + 1
  <2>1. \A i \in k .. Len(l) : l[i] \in Batch(S)
    BY <1>3, ElementOfSeq
  <2>2. /\ data \in Seq(Batch(S)) /\ Len(data) = Len(l) - k + 1
        /\ \A i \in 1 .. Len(l) - k + 1 : data[i] = l[k + i - 1]
    BY <1>2, <1>3, <2>1, SubSeqProperties
  <2>3. QED
    BY <2>2, LenProperties
<1>5. data[1] = l[k] /\ data[Len(data)] = l[Len(l)]
  BY <1>3, <1>4
<1>6. ASSUME NEW i \in DOMAIN l
      PROVE  /\ l[i].base \in Nat /\ l[i].count \in Nat \ {0}
             /\ EndOffset(l[i]) = l[i].base + l[i].count
  <2>1. l[i] \in Batch(S)
    BY <1>3, ElementOfSeq
  <2>2. QED
    BY <2>1 DEF EndOffset, Batch
<1>7. LogEndOffset(data) = LogEndOffset(l) /\ LogEndOffset(l) \in Nat
      /\ data[1].base \in Nat /\ data[1].base < LogEndOffset(l)
  <2>1. l # <<>>
    BY <1>3, EmptySeq
  <2>2. LogEndOffset(data) = LogEndOffset(l)
    BY <1>5, <2>1 DEF LogEndOffset
  <2>3. EndOffset(l[k]) <= LogEndOffset(l)
    BY LogEndBounds
  <2>4. QED
    BY <1>5, <1>6, <2>2, <2>3, LogEndOffsetType
<1> DEFINE from == data[1].base
<1>8. ASSUME NEW n \in 1 .. LogEndOffset(l) - from
      PROVE  RecordAt(data, from + n - 1) = Stream(l)[from + n]
  <2>1. from \in Nat /\ LogEndOffset(l) \in Nat /\ n \in Nat \ {0}
        /\ n <= LogEndOffset(l) - from
    BY <1>7
  <2> HIDE DEF from
  <2>2. /\ from + n - 1 \in Nat /\ from + n - 1 < LogEndOffset(l)
        /\ from <= from + n - 1
    BY <2>1
  <2>3. PICK x \in Nat : x = from + n - 1 /\ x < LogEndOffset(l) /\ from <= x
    BY <2>2
  <2> USE DEF from
  <2>4. PICK i \in DOMAIN l : Covers(l[i], x)
    BY <2>3, OffsetIsCovered
  <2>5. k <= i
    <3>1. SUFFICES ASSUME i < k
                   PROVE  FALSE
      BY <1>3
    <3>2. i \in 1 .. k - 1
      BY <1>3, <3>1
    <3>3. EndOffset(l[i]) <= l[k].base
      BY <3>2, BatchesInOrder
    <3>4. x < EndOffset(l[i]) /\ l[k].base <= x
      BY <1>5, <2>3, <2>4 DEF Covers
    <3>5. EndOffset(l[i]) \in Nat /\ l[k].base \in Nat
      BY <1>6
    <3>6. QED
      BY <3>3, <3>4, <3>5
  <2>6. PICK j \in DOMAIN data : j = i - k + 1 /\ data[j] = l[i]
    <3>1. i - k + 1 \in 1 .. Len(l) - k + 1 /\ k + (i - k + 1) - 1 = i
      BY <1>3, <2>5
    <3>2. QED
      BY <1>4, <3>1
  <2>7. ASSUME NEW h \in DOMAIN data, Covers(data[h], x)
        PROVE  h = j
    <3>1. k + h - 1 \in DOMAIN l /\ data[h] = l[k + h - 1]
      BY <1>3, <1>4
    <3>2. k + h - 1 = i
      BY <2>3, <2>4, <2>7, <3>1, CoveredOnce
    <3>3. QED
      BY <1>3, <1>4, <2>6, <3>2
  <2>8. RecordAt(data, x) = <<data[j].src, x - data[j].base + 1>>
    <3>1. Covers(data[j], x) /\ \A h \in DOMAIN data : Covers(data[h], x) => h = j
      BY <2>4, <2>6, <2>7
    <3>2. data \in Seq(Batch(S)) /\ x \in Int /\ j \in DOMAIN data
      BY <1>4
    <3>3. QED
      BY <3>1, <3>2, RecordAtOffset
  <2>9. RecordAt(l, x) = <<l[i].src, x - l[i].base + 1>>
    <3>1. \A h \in DOMAIN l : Covers(l[h], x) => h = i
      BY <2>4, CoveredOnce
    <3>2. QED
      BY <2>4, <3>1, RecordAtOffset
  <2>10. PICK m \in 1 .. LogEndOffset(l) : m = from + n /\ m - 1 = x
    BY <1>7, <2>3
  <2>11. Stream(l)[m] = RecordAt(l, m - 1)
    BY StreamIs
  <2>12. QED
    BY <2>3, <2>6, <2>8, <2>9, <2>10, <2>11
<1>9. PICK R : Stream(l) \in Seq(R) /\ Len(Stream(l)) = LogEndOffset(l)
  BY StreamIs
<1>10. SubSeq(Stream(l), from + 1, LogEndOffset(l))
         = [n \in 1 .. LogEndOffset(l) - from |-> Stream(l)[from + n]]
  <2>1. PICK st : st = Stream(l)
    OBVIOUS
  <2>2. st \in Seq(R) /\ Len(st) = LogEndOffset(l) /\ from \in Nat /\ from < Len(st)
    BY <1>7, <1>9, <2>1
  <2> HIDE DEF from
  <2>3. SubSeq(st, from + 1, Len(st)) = [n \in 1 .. Len(st) - from |-> st[from + n]]
    BY <2>2, RestIs
  <2>4. QED
    BY <2>1, <2>2, <2>3
<1>11. Fetched(data) = [n \in 1 .. LogEndOffset(l) - from |-> RecordAt(data, from + n - 1)]
  BY <1>7 DEF Fetched
<1>12. QED
  BY <1>7, <1>8, <1>10, <1>11
-----------------------------------------------------------------------------
(* Entries of answers in progress stay up to date. *)

LEMMA UpToDateSame ==
    ASSUME UNCHANGED logs, NEW body, NEW k, NEW p
    PROVE  UpToDate(body, k, p)' <=> UpToDate(body, k, p)
BY DEF UpToDate

\* A produce entry is not about how the logs are.
LEMMA UpToDateProduced ==
    ASSUME NEW body, body.api = "Produce", NEW k, NEW p
    PROVE  UpToDate(body, k, p)' <=> UpToDate(body, k, p)
BY DEF UpToDate

LEMMA AnsweredUpToDate ==
    ASSUME AcksInv, NEW c \in Conns, Question(c)
    PROVE  \E p \in PartResponse : \E next \in Nat \ {0} :
             Answers(c, p, next) /\ UNCHANGED logs /\
             \A k : k = Len(partition_responses[c]) + 1 => UpToDate(Current(c), k, p)
<1>1. PlaceInv /\ IInv /\ TypeOK /\ OffsetsContiguous
  BY DEF AcksInv, OrderInv, PlaceInv, IInv
<1>2. PICK p \in PartResponse, next \in Nat \ {0} :
        /\ Answers(c, p, next) /\ UNCHANGED logs /\ Entry(c).tp \in TopicPartitions
        /\ \/ Current(c).api = "Produce" /\ p.error # NO_ERROR
           \/ Current(c).api = "Fetch" /\ p.error # NO_ERROR
           \/ /\ Current(c).api = "Fetch"
              /\ p = PartAnswer(Entry(c).tp, NO_ERROR, LogEndOffset(logs[Entry(c).tp]),
                                ReadLogFrom(logs[Entry(c).tp], Entry(c).arg))
           \/ /\ Current(c).api = "ListOffsets" /\ p.tp = Entry(c).tp
              /\ p.error = NO_ERROR /\ Entry(c).arg = LATEST =>
                   p.offset = LogEndOffset(logs[Entry(c).tp])
  BY <1>1, QuestionAnswers
<1>3. SUFFICES ASSUME NEW k, k = Len(partition_responses[c]) + 1
               PROVE  UpToDate(Current(c), k, p)
  BY <1>2
<1>4. Running(c) /\ HasEntry(c) /\ taken[c] # 0
  BY <1>1, <1>2 DEF Answers, IInv, HandlersHaveRequests, Running
<1>5. CASE p.error # NO_ERROR
  BY <1>5 DEF UpToDate
<1>6. CASE /\ Current(c).api = "Fetch"
           /\ p = PartAnswer(Entry(c).tp, NO_ERROR, LogEndOffset(logs[Entry(c).tp]),
                             ReadLogFrom(logs[Entry(c).tp], Entry(c).arg))
  <2>1. PICK l, o : l = logs[Entry(c).tp] /\ o = Entry(c).arg
    OBVIOUS
  <2>2. l \in Seq(Batch(Source)) /\ Contiguous(l)
    BY <1>1, <1>2, <2>1 DEF TypeOK, OffsetsContiguous
  <2>3. o \in Nat
    <3>1. Current(c) \in Workload /\ Current(c) \in Body
      BY <1>1, <1>4, CurrentType
    <3>2. QED
      BY <1>4, <1>6, <2>1, <3>1, WorkloadAssumption DEF HasEntry, Entry
  <2>4. /\ p.tp = Entry(c).tp /\ p.offset = LogEndOffset(l)
        /\ p.data = ReadLogFrom(l, o)
    BY <1>6, <2>1 DEF PartAnswer
  <2>5. PICK data : data = p.data
    OBVIOUS
  <2>6. data # <<>> => Fetched(data) = SubSeq(Stream(l), data[1].base + 1, LogEndOffset(l))
    BY <2>2, <2>3, <2>4, <2>5, FetchedIsStream
  <2>7. QED
    BY <1>6, <2>1, <2>4, <2>5, <2>6 DEF UpToDate
<1>7. CASE /\ Current(c).api = "ListOffsets" /\ p.tp = Entry(c).tp
           /\ p.error = NO_ERROR /\ Entry(c).arg = LATEST =>
                p.offset = LogEndOffset(logs[Entry(c).tp])
  <2>1. part[c] = k
    BY <1>1, <1>3, <1>4, <1>7 DEF PlaceInv, HandlersKeepPlace, KeepsPlace
  <2>2. QED
    BY <1>7, <2>1 DEF UpToDate, Entry
<1>8. QED
  BY <1>2, <1>5, <1>6, <1>7

LEMMA FactsStep ==
    ASSUME FactsInv, [Next]_vars
    PROVE  FactsInv'
<1>1. AcksInv /\ AcksInv' /\ PlaceInv /\ IInv /\ TypeOK
  BY AcksStep DEF FactsInv, AcksInv, OrderInv, PlaceInv, IInv
<1>2. ASSUME NEW c \in Conns, Running(c)',
             NEW body, body = requests'[c][taken'[c]],
             NEW parts, parts = partition_responses'[c],
             NEW k \in DOMAIN parts, NEW p, p = parts[k]
      PROVE  UpToDate(body, k, p)'
  <2>1. CASE parts = <<>>
    BY <1>2, <2>1
  <2>2. ASSUME Running(c), Current(c)' = Current(c),
               k \in DOMAIN partition_responses[c], p = partition_responses[c][k]
        PROVE  body = Current(c) /\ UpToDate(body, k, p)
    BY <1>2, <2>2 DEF FactsInv, Current
  <2>3. CASE /\ Running(c) /\ Current(c)' = Current(c)
             /\ partition_responses'[c] = partition_responses[c]
             /\ \A d \in Conns : ~ProduceAppend(d)
    <3>1. UNCHANGED logs
      BY <2>3, LogsStep
    <3>2. QED
      BY <1>2, <2>2, <2>3, <3>1, UpToDateSame
  <2>4. ASSUME NEW new \in PartResponse, NEW next, Answers(c, new, next)
        PROVE  /\ k \in DOMAIN partition_responses[c] => p = partition_responses[c][k]
               /\ k \notin DOMAIN partition_responses[c] =>
                    k = Len(partition_responses[c]) + 1 /\ p = new
    <3>1. /\ parts = Append(partition_responses[c], new)
          /\ partition_responses[c] \in Seq(PartResponse)
      BY <1>1, <1>2, <2>4 DEF Answers, Answer, TypeOK
    <3>2. QED
      BY <1>2, <3>1, AppendProperties, LenProperties
  <2>5. CASE Running(c) /\ Current(c)' = Current(c) /\ Question(c)
    <3>1. PICK new \in PartResponse, next \in Nat \ {0} :
            Answers(c, new, next) /\ UNCHANGED logs /\
            \A h : h = Len(partition_responses[c]) + 1 => UpToDate(Current(c), h, new)
      BY <1>1, <2>5, AnsweredUpToDate
    <3>2. body = Current(c)
      BY <1>2, <2>5 DEF Current
    <3>3. UpToDate(body, k, p)
      BY <2>2, <2>4, <2>5, <3>1, <3>2
    <3>4. QED
      BY <3>1, <3>3, UpToDateSame
  <2>6. CASE Running(c) /\ Current(c)' = Current(c) /\ ProduceAppend(c)
    <3>1. /\ Answers(c, ProduceAnswer(c), part[c] + 1)
          /\ Current(c).api = "Produce" /\ ProduceAnswer(c) \in PartResponse
      BY <1>1, <2>6, AppendAnswers
    <3>2. body = Current(c)
      BY <1>2, <2>6 DEF Current
    <3>3. CASE k \in DOMAIN partition_responses[c]
      BY <2>2, <2>4, <2>6, <3>1, <3>2, <3>3, UpToDateProduced
    <3>4. CASE k \notin DOMAIN partition_responses[c]
      <4>1. k = Len(partition_responses[c]) + 1 /\ p = ProduceAnswer(c)
        BY <2>4, <3>1, <3>4
      <4>2. k = part[c]
        BY <1>1, <2>6, <3>1, <4>1 DEF PlaceInv, HandlersKeepPlace, KeepsPlace
      <4>3. p.tp = body.parts[k].tp
        BY <3>2, <4>1, <4>2 DEF ProduceAnswer, PartAnswer, Entry
      <4>4. QED
        BY <3>1, <3>2, <4>3, UpToDateProduced DEF UpToDate
    <3>5. QED
      BY <3>3, <3>4
  <2>7. QED
    BY <1>1, <1>2, <2>1, <2>3, <2>5, <2>6, ProgressStep
<1>3. \A c \in Conns : Running(c)' => \A k \in DOMAIN partition_responses'[c] :
        UpToDate(Current(c), k, partition_responses[c][k])'
  BY <1>2 DEF UpToDate, Current
<1>4. QED
  BY <1>1, <1>3 DEF FactsInv

-----------------------------------------------------------------------------
(* The facts that an answer in progress will tell hold now. *)

\* An entry is published when a batch in a log came from it.
LEMMA PublishedIs ==
    ASSUME TypeOK, OffsetsContiguous, NEW src
    PROVE  Abstract!Published(src) <=>
             \E tp \in TopicPartitions : \E i \in DOMAIN logs[tp] : logs[tp][i].src = src
<1>1. Abstract!Published(src) <=>
        \E tp \in TopicPartitions : \E n \in DOMAIN Stream(logs[tp]) :
          Stream(logs[tp])[n][1] = src
  BY DEF Abstract!Published
<1>2. ASSUME NEW tp \in TopicPartitions, NEW l, l = logs[tp]
      PROVE  (\E n \in DOMAIN Stream(l) : Stream(l)[n][1] = src)
               <=> \E i \in DOMAIN l : l[i].src = src
  <2>1. l \in Seq(Batch(Source)) /\ Contiguous(l)
    BY <1>2 DEF TypeOK, OffsetsContiguous
  <2>2. ASSUME NEW n \in DOMAIN Stream(l), Stream(l)[n][1] = src
        PROVE  \E i \in DOMAIN l : l[i].src = src
    <3>1. DOMAIN Stream(l) = 1 .. LogEndOffset(l)
          /\ \A m \in 1 .. LogEndOffset(l) : \E i \in DOMAIN l :
               Stream(l)[m] = <<l[i].src, m - l[i].base>>
      BY <2>1, StreamIs
    <3>2. QED
      BY <2>2, <3>1
  <2>3. ASSUME NEW i \in DOMAIN l, l[i].src = src
        PROVE  \E n \in DOMAIN Stream(l) : Stream(l)[n][1] = src
    <3>1. l[i] \in Batch(Source)
      BY <2>1, ElementOfSeq, LenProperties
    <3>2. 1 \in 1 .. l[i].count
      BY <3>1 DEF Batch
    <3>3. l[i].base + 1 \in DOMAIN Stream(l) /\ Stream(l)[l[i].base + 1] = <<src, 1>>
      BY <2>1, <2>3, <3>2, StreamIs
    <3>4. QED
      BY <3>3
  <2>4. QED
    BY <2>2, <2>3
<1>3. QED
  BY <1>1, <1>2

LEMMA PlacedIs ==
    ASSUME NEW src, NEW where
    PROVE  where \in Placed(src) <=>
             \E tp \in TopicPartitions : \E i \in DOMAIN logs[tp] :
               /\ logs[tp][i].src = src
               /\ where = [tp |-> tp, base |-> logs[tp][i].base, count |-> logs[tp][i].count]
BY DEF Placed

LEMMA StreamOfLog ==
    ASSUME TypeOK, OffsetsContiguous, NEW tp \in TopicPartitions
    PROVE  /\ Stream(logs[tp]) \in Seq(Source \X (Nat \ {0}))
           /\ Len(Stream(logs[tp])) = LogEndOffset(logs[tp])
           /\ LogEndOffset(logs[tp]) \in Nat
           /\ \A i \in DOMAIN logs[tp] :
                /\ logs[tp][i] \in Batch(Source)
                /\ logs[tp][i].base + logs[tp][i].count <= LogEndOffset(logs[tp])
                /\ \A n \in 1 .. logs[tp][i].count :
                     Stream(logs[tp])[logs[tp][i].base + n] = <<logs[tp][i].src, n>>
<1>1. PICK l : l = logs[tp]
  OBVIOUS
<1>2. l \in Seq(Batch(Source)) /\ Contiguous(l)
  BY <1>1 DEF TypeOK, OffsetsContiguous
<1>3. ASSUME NEW i \in DOMAIN l
      PROVE  /\ l[i] \in Batch(Source)
             /\ l[i].base + l[i].count <= LogEndOffset(l)
             /\ \A n \in 1 .. l[i].count : Stream(l)[l[i].base + n] = <<l[i].src, n>>
  <2>1. l[i] \in Batch(Source)
    BY <1>2, ElementOfSeq, LenProperties
  <2>2. EndOffset(l[i]) <= LogEndOffset(l)
    BY <1>2, LogEndBounds
  <2>3. \A n \in 1 .. l[i].count : Stream(l)[l[i].base + n] = <<l[i].src, n>>
    BY <1>2, StreamIs
  <2>4. QED
    BY <2>1, <2>2, <2>3 DEF EndOffset
<1>4. /\ Stream(l) \in Seq(Source \X (Nat \ {0}))
      /\ Len(Stream(l)) = LogEndOffset(l) /\ LogEndOffset(l) \in Nat
  BY <1>2, StreamIs
<1>5. QED
  BY <1>1, <1>3, <1>4

LEMMA FactsHold ==
    ASSUME FactsInv, NEW c \in Conns, Running(c),
           NEW k \in DOMAIN partition_responses[c],
           NEW p, p = partition_responses[c][k], NEW body, body = Current(c),
           NEW by, by = <<c, taken[c], k>>,
           NEW fact \in FactsOf(by, body, k, p)
    PROVE  Abstract!Holds(fact)
<1>1. AcksInv /\ TypeOK /\ OffsetsContiguous /\ IInv
  BY DEF FactsInv, AcksInv, OrderInv, PlaceInv, IInv
<1>2. /\ k \in Nat \ {0} /\ taken[c] \in Nat \ {0} /\ by \in Source
      /\ p \in PartResponse /\ p.tp \in TopicPartitions
  <2>1. partition_responses[c] \in Seq(PartResponse)
    BY <1>1 DEF TypeOK
  <2>2. p \in PartResponse /\ k \in Nat \ {0}
    BY <2>1, ElementOfSeq, LenProperties
  <2>3. taken[c] \in Nat \ {0}
    BY <1>1 DEF TypeOK, IInv, HandlersHaveRequests, Running
  <2>4. QED
    BY <2>2, <2>3 DEF PartResponse, Source
<1>3. UpToDate(body, k, p)
  BY DEF FactsInv
<1>4. /\ Len(Stream(logs[p.tp])) = LogEndOffset(logs[p.tp])
      /\ [tp \in TopicPartitions |-> Stream(logs[tp])][p.tp] = Stream(logs[p.tp])
  BY <1>1, <1>2, StreamOfLog
<1>5. body.api = "Produce" =>
        Placed(by) = IF p.error = NO_ERROR
                     THEN {[tp |-> body.parts[k].tp, base |-> p.offset,
                            count |-> body.parts[k].arg]}
                     ELSE {}
  <2>1. TruthSoFar(c, InProgress(c), body)
    BY <1>1 DEF AcksInv
  <2>2. body.api = "Produce" => Truthful(by, body.parts[k], p)
    BY <2>1 DEF TruthSoFar, InProgress
  <2>3. QED
    BY <1>2, <2>2, PlacedAtSource DEF Truthful
<1>6. CASE body.api = "Produce" /\ p.error # NO_ERROR
  <2>1. fact = Refused(by)
    BY <1>6 DEF FactsOf
  <2>2. ~Abstract!Published(by)
    <3>1. Placed(by) = {}
      BY <1>5, <1>6
    <3>2. ASSUME NEW tp \in TopicPartitions, NEW i \in DOMAIN logs[tp],
                 logs[tp][i].src = by
          PROVE  FALSE
      <4>1. PICK where :
              where = [tp |-> tp, base |-> logs[tp][i].base, count |-> logs[tp][i].count]
        OBVIOUS
      <4>2. where \in Placed(by)
        BY <3>2, <4>1, PlacedIs
      <4>3. QED
        BY <3>1, <4>2
    <3>3. QED
      BY <1>1, <3>2, PublishedIs
  <2>3. QED
    BY <2>1, <2>2 DEF Abstract!Holds, Refused
<1>7. CASE body.api = "Produce" /\ p.error = NO_ERROR
  <2>1. PICK count : count = body.parts[k].arg /\ fact = Stored(by, p.tp, p.offset, count)
    BY <1>7 DEF FactsOf
  <2>2. p.tp = body.parts[k].tp
    BY <1>3, <1>7 DEF UpToDate
  <2>3. PICK where : where = [tp |-> p.tp, base |-> p.offset, count |-> count]
    OBVIOUS
  <2>4. where \in Placed(by)
    BY <1>5, <1>7, <2>1, <2>2, <2>3
  <2>5. PICK i \in DOMAIN logs[p.tp] :
          logs[p.tp][i].src = by /\ logs[p.tp][i].base = p.offset /\ logs[p.tp][i].count = count
    <3>1. \E tp \in TopicPartitions : \E i \in DOMAIN logs[tp] :
            /\ logs[tp][i].src = by
            /\ where = [tp |-> tp, base |-> logs[tp][i].base, count |-> logs[tp][i].count]
      BY <2>4, PlacedIs
    <3>2. QED
      BY <2>3, <3>1
  <2>6. /\ p.offset + count <= Len(Stream(logs[p.tp]))
        /\ \A n \in 1 .. count : Stream(logs[p.tp])[p.offset + n] = <<by, n>>
    <3>1. /\ logs[p.tp][i].base + logs[p.tp][i].count <= LogEndOffset(logs[p.tp])
          /\ \A n \in 1 .. logs[p.tp][i].count :
               Stream(logs[p.tp])[logs[p.tp][i].base + n] = <<logs[p.tp][i].src, n>>
      BY <1>1, <1>2, StreamOfLog
    <3>2. QED
      BY <1>4, <2>5, <3>1
  <2>7. /\ fact.kind = "stored" /\ fact.by = by /\ fact.tp = p.tp
        /\ fact.offset = p.offset /\ fact.count = count
    BY <2>1 DEF Stored
  <2>8. /\ fact.offset + fact.count <= Len([tp \in TopicPartitions |-> Stream(logs[tp])][fact.tp])
        /\ \A n \in 1 .. fact.count :
             [tp \in TopicPartitions |-> Stream(logs[tp])][fact.tp][fact.offset + n]
               = <<fact.by, n>>
    BY <1>4, <2>6, <2>7
  <2>9. QED
    BY <2>7, <2>8 DEF Abstract!Holds
<1>8. CASE fact = End(by, p.tp, p.offset) /\ p.offset = LogEndOffset(logs[p.tp])
  BY <1>4, <1>8 DEF Abstract!Holds, End
<1>9. CASE /\ fact = Read(by, p.tp, p.data[1].base, Fetched(p.data))
           /\ Fetched(p.data) = SubSeq(Stream(logs[p.tp]), p.data[1].base + 1,
                                       LogEndOffset(logs[p.tp]))
  BY <1>4, <1>9 DEF Abstract!Holds, Read
<1>10. CASE body.api = "Fetch" /\ p.error = NO_ERROR
  BY <1>3, <1>8, <1>9, <1>10 DEF FactsOf, UpToDate
<1>11. CASE body.api = "ListOffsets" /\ p.error = NO_ERROR /\ body.parts[k].arg = LATEST
  BY <1>3, <1>8, <1>11 DEF FactsOf, UpToDate
<1>12. QED
  BY <1>6, <1>7, <1>10, <1>11 DEF FactsOf

-----------------------------------------------------------------------------
(* The facts told. *)

Tells(c, body, r, fact) ==
    \E k \in DOMAIN r.parts : fact \in FactsOf(<<c, r.cid, k>>, body, k, r.parts[k])

\* A fact is told when a response tells it.  The response and its request
\* have names here, so that it can be said of the next state as well.
ToldByAResponse ==
    \A fact : fact \in Told <=>
      \E c \in Conns : \E n, r, body :
        /\ n \in DOMAIN responses[c] /\ r = responses[c][n] /\ body = requests[c][r.cid]
        /\ Tells(c, body, r, fact)

LEMMA ToldIs == ToldByAResponse
<1>1. ASSUME NEW fact
      PROVE  fact \in Told <=> \E c \in Conns : \E n \in DOMAIN responses[c] :
                                 \E k \in DOMAIN responses[c][n].parts :
                                   fact \in FactsOf(<<c, responses[c][n].cid, k>>,
                                                   requests[c][responses[c][n].cid], k,
                                                   responses[c][n].parts[k])
  BY DEF Told
<1>2. QED
  BY <1>1 DEF ToldByAResponse, Tells

LEMMA ToldIsNext == ToldByAResponse'
BY ToldIs, PTL

LEMMA ToldMembers ==
    ASSUME NEW fact
    PROVE  /\ fact \in Told <=> \E c \in Conns : \E n \in DOMAIN responses[c] :
                 Tells(c, requests[c][responses[c][n].cid], responses[c][n], fact)
           /\ fact \in Told' <=> \E c \in Conns : \E n \in DOMAIN responses'[c] :
                 Tells(c, requests'[c][responses'[c][n].cid], responses'[c][n], fact)
<1>1. fact \in Told' <=>
        \E c \in Conns : \E n, r, body :
          /\ n \in DOMAIN responses'[c] /\ r = responses'[c][n] /\ body = requests'[c][r.cid]
          /\ Tells(c, body, r, fact)
  BY ToldIsNext DEF ToldByAResponse
<1>2. QED
  BY <1>1, ToldIs DEF ToldByAResponse

\* Who a fact is told to.
LEMMA TellsBy ==
    ASSUME NEW c, NEW body, NEW r, NEW fact, Tells(c, body, r, fact)
    PROVE  \E k \in DOMAIN r.parts : fact.by = <<c, r.cid, k>>
<1>1. PICK k \in DOMAIN r.parts : fact \in FactsOf(<<c, r.cid, k>>, body, k, r.parts[k])
  BY DEF Tells
<1>2. PICK by, p : by = <<c, r.cid, k>> /\ p = r.parts[k]
  OBVIOUS
<1>3. fact \in FactsOf(by, body, k, p)
  BY <1>1, <1>2
<1>4. fact.by = by
  BY <1>3 DEF FactsOf, Stored, Refused, End, Read
<1>5. QED
  BY <1>2, <1>4

\* What was told stays told.
LEMMA ToldStays ==
    ASSUME OrderInv, [Next]_vars, NEW fact \in Told
    PROVE  fact \in Told'
<1>1. TypeOK /\ PlaceInv /\ IInv
  BY DEF OrderInv, PlaceInv, IInv
<1>2. PICK c \in Conns : \E n \in DOMAIN responses[c] :
        Tells(c, requests[c][responses[c][n].cid], responses[c][n], fact)
  BY ToldMembers
<1>3. PICK n \in DOMAIN responses[c] :
        Tells(c, requests[c][responses[c][n].cid], responses[c][n], fact)
  BY <1>2
<1>4. n \in DOMAIN responses'[c] /\ responses'[c][n] = responses[c][n]
  <2>1. responses[c] \in Seq(Response)
    BY <1>1 DEF TypeOK
  <2>2. ASSUME NEW d \in Conns, Reply(d)
        PROVE  \/ responses'[c] = responses[c]
               \/ InProgress(c) \in Response /\ responses'[c] = Append(responses[c], InProgress(c))
    BY <1>1, <2>2, ReplyWrites DEF TypeOK
  <2>3. ASSUME NEW d \in Conns, ReadMessage(d) \/ Question(d) \/ ProduceAppend(d)
        PROVE  responses'[c] = responses[c]
    BY <1>1, <2>3, ReadMessageStarts, QuestionAnswers, AppendAnswers DEF Answers
  <2>4. \/ responses'[c] = responses[c]
        \/ InProgress(c) \in Response /\ responses'[c] = Append(responses[c], InProgress(c))
    BY <1>1, <2>2, <2>3, StepKinds DEF Settles
  <2>5. QED
    BY <2>1, <2>4, AppendProperties, LenProperties
<1>5. requests'[c][responses[c][n].cid] = requests[c][responses[c][n].cid]
  <2>1. InOrder(c) /\ responses[c][n].cid \in AnsweredCids(c)
    BY DEF OrderInv, AnsweredCids
  <2>2. responses[c][n].cid \in 1 .. taken[c]
    BY <2>1 DEF InOrder, Known
  <2>3. QED
    BY <1>1, <2>2, TakenStay
<1>6. Tells(c, requests'[c][responses'[c][n].cid], responses'[c][n], fact)
  BY <1>3, <1>4, <1>5
<1>7. QED
  BY <1>4, <1>6, ToldMembers

\* A fact is told first by a response that Reply writes.
LEMMA ToldFirst ==
    ASSUME OrderInv, [Next]_vars, NEW fact \in Told'
    PROVE  \/ fact \in Told
           \/ \E c \in Conns : /\ Reply(c) /\ Running(c)
                               /\ Tells(c, Current(c), InProgress(c), fact)
<1>1. PICK c \in Conns : \E n \in DOMAIN responses'[c] :
        Tells(c, requests'[c][responses'[c][n].cid], responses'[c][n], fact)
  BY ToldMembers
<1>2. PICK n \in DOMAIN responses'[c] :
        Tells(c, requests'[c][responses'[c][n].cid], responses'[c][n], fact)
  BY <1>1
<1>3. CASE /\ n \in DOMAIN responses[c] /\ responses'[c][n] = responses[c][n]
           /\ requests'[c][responses[c][n].cid] = requests[c][responses[c][n].cid]
  BY <1>2, <1>3, ToldMembers
<1>4. CASE Reply(c) /\ responses'[c][n] = InProgress(c)
  <2>1. requests' = requests /\ Running(c)
    BY <1>4, ReplyWrites DEF OrderInv
  <2>2. requests'[c][InProgress(c).cid] = Current(c)
    BY <2>1 DEF InProgress, Current
  <2>3. QED
    BY <1>2, <1>4, <2>1, <2>2
<1>5. QED
  BY <1>2, <1>3, <1>4, ResponsesStep

-----------------------------------------------------------------------------
(* Steps of the broker are steps of CommitLog. *)

\* Only an answer tells, and what it tells holds.
LEMMA TellStep ==
    ASSUME FactsInv, [Next]_vars, UNCHANGED logs
    PROVE  Abstract!Tell
<1>1. OrderInv
  BY DEF FactsInv, AcksInv
<1>2. Told \subseteq Told'
  BY <1>1, ToldStays
<1>3. ASSUME NEW fact \in Told' \ Told
      PROVE  Abstract!Holds(fact)
  <2>1. PICK c \in Conns : Running(c) /\ Tells(c, Current(c), InProgress(c), fact)
    BY <1>1, <1>3, ToldFirst
  <2>2. PICK k \in DOMAIN partition_responses[c] :
          fact \in FactsOf(<<c, taken[c], k>>, Current(c), k, partition_responses[c][k])
    BY <2>1 DEF Tells, InProgress
  <2>3. QED
    BY <2>1, <2>2, FactsHold
<1>4. [tp \in TopicPartitions |-> Stream(logs[tp])]'
        = [tp \in TopicPartitions |-> Stream(logs[tp])]
  OBVIOUS
<1>5. QED
  BY <1>2, <1>3, <1>4 DEF Abstract!Tell

\* An append publishes an entry that was neither published nor answered.
LEMMA PublishStep ==
    ASSUME FactsInv, NEW c \in Conns, ProduceAppend(c)
    PROVE  Abstract!Next
<1>1. /\ StoreInv /\ OrderInv /\ PlaceInv /\ IInv /\ TypeOK /\ OffsetsContiguous
      /\ InOrder(c)
  BY DEF FactsInv, AcksInv, OrderInv, PlaceInv, IInv
<1>2. PICK at \in TopicPartitions : at = Entry(c).tp
  BY <1>1, AppendedBatch
<1>3. PICK src : src = <<c, taken[c], part[c]>>
  OBVIOUS
<1>4. PICK b \in Batch(Source) : /\ b.src = src /\ b.base = LogEndOffset(logs[at])
                                 /\ logs' = [logs EXCEPT ![at] = Append(@, b)]
  BY <1>1, <1>3, <1>2, AppendedBatch
<1>5. /\ Running(c) /\ UNCHANGED <<requests, responses>>
      /\ part[c] \in Nat \ {0} /\ taken[c] \in Nat \ {0}
  BY <1>1, AppendAnswers DEF Answers
<1>6. src \in Source
  BY <1>3, <1>5 DEF Source
<1>7. ~Abstract!Published(src)
  <2>1. ~Past(src)
    BY <1>3, <1>5 DEF Past
  <2>2. Placed(src) = {}
    BY <1>1, <1>6, <2>1, NothingPlaced
  <2>3. ASSUME NEW tp \in TopicPartitions, NEW i \in DOMAIN logs[tp], logs[tp][i].src = src
        PROVE  FALSE
    <3>1. PICK where :
            where = [tp |-> tp, base |-> logs[tp][i].base, count |-> logs[tp][i].count]
      OBVIOUS
    <3>2. where \in Placed(src)
      BY <2>3, <3>1, PlacedIs
    <3>3. QED
      BY <2>2, <3>2
  <2>4. QED
    BY <1>1, <2>3, PublishedIs
<1>8. ASSUME NEW fact \in Told
      PROVE  fact.by # src
  <2>1. PICK d \in Conns : \E n \in DOMAIN responses[d] :
          Tells(d, requests[d][responses[d][n].cid], responses[d][n], fact)
    BY ToldMembers
  <2>2. PICK n \in DOMAIN responses[d] :
          Tells(d, requests[d][responses[d][n].cid], responses[d][n], fact)
    BY <2>1
  <2>3. PICK k : fact.by = <<d, responses[d][n].cid, k>>
    BY <2>2, TellsBy
  <2>4. responses[d][n].cid \in AnsweredCids(d)
    BY DEF AnsweredCids
  <2>5. QED
    BY <1>1, <1>3, <1>5, <2>3, <2>4 DEF InOrder
<1>9. Told' = Told
  BY <1>5 DEF Told
<1> DEFINE old == [tp \in TopicPartitions |-> Stream(logs[tp])]
<1> DEFINE new == [tp \in TopicPartitions |-> Stream(logs'[tp])]
<1> DEFINE more == [n \in 1 .. b.count |-> <<src, n>>]
<1>10. PICK l : l = logs[at]
  OBVIOUS
<1>11. /\ l \in Seq(Batch(Source)) /\ Contiguous(l)
       /\ logs'[at] = Append(l, b)
       /\ \A tp \in TopicPartitions : tp # at => logs'[tp] = logs[tp]
  BY <1>1, <1>4, <1>10 DEF TypeOK, OffsetsContiguous
<1>12. /\ Stream(Append(l, b)) = Stream(l) \o more
       /\ LogEndOffset(Append(l, b)) = LogEndOffset(l) + b.count
       /\ b.count \in Nat \ {0}
  <2>1. b.base = LogEndOffset(l)
    BY <1>4, <1>10
  <2>2. l \in Seq(Batch(Source)) /\ Contiguous(l)
    BY <1>11
  <2>3. /\ Stream(Append(l, b)) = Stream(l) \o [n \in 1 .. b.count |-> <<b.src, n>>]
        /\ LogEndOffset(Append(l, b)) = LogEndOffset(l) + b.count
        /\ b.count \in Nat \ {0}
    BY <2>1, <2>2, StreamOfAppend
  <2>4. QED
    BY <1>4, <2>3
<1>13. new = [old EXCEPT ![at] = @ \o more]
  BY <1>10, <1>11, <1>12
<1>14. /\ Len(old[at]) = LogEndOffset(l) /\ LogEndOffset(l) \in Nat
       /\ Len(new[at]) = LogEndOffset(l) + b.count
       /\ new[at][Len(new[at])] = <<src, b.count>>
  <2>1. Len(Stream(l)) = LogEndOffset(l) /\ LogEndOffset(l) \in Nat
    BY <1>11, StreamIs
  <2>2. PICK grown : grown = Append(l, b)
    OBVIOUS
  <2>3. grown \in Seq(Batch(Source)) /\ Contiguous(grown)
    BY <1>4, <1>10, <1>11, <2>2, AppendAtEnd, AppendProperties
  <2>4. Len(l) + 1 \in DOMAIN grown /\ grown[Len(l) + 1] = b
    BY <1>11, <2>2, AppendProperties, LenProperties
  <2>5. Len(Stream(grown)) = LogEndOffset(grown)
        /\ Stream(grown)[b.base + b.count] = <<b.src, b.count>>
    <3>1. \A n \in 1 .. b.count :
            Stream(grown)[grown[Len(l) + 1].base + n] = <<grown[Len(l) + 1].src, n>>
      BY <2>3, <2>4, StreamIs
    <3>2. b.count \in 1 .. b.count
      BY <1>12
    <3>3. Len(Stream(grown)) = LogEndOffset(grown)
      BY <2>3, StreamIs
    <3>4. QED
      BY <2>4, <3>1, <3>2, <3>3
  <2>6. QED
    BY <1>4, <1>10, <1>11, <1>12, <2>1, <2>2, <2>5
<1> HIDE DEF more
<1>15. /\ Len(new[at]) > Len(old[at]) /\ Len(new[at]) - Len(old[at]) = b.count
       /\ new[at][Len(new[at])][1] = src
  BY <1>12, <1>14, SMTT(30)
<1>16. /\ [tp \in TopicPartitions |-> Stream(logs[tp])]' = new
       /\ [tp \in TopicPartitions |-> Stream(logs[tp])] = old
  OBVIOUS
<1> HIDE DEF old, new
<1>17. Abstract!Grown(at) = b.count
  BY <1>15, <1>16 DEF Abstract!Grown
<1>18. Abstract!Publish(at, src, b.count)
  BY <1>7, <1>8, <1>9, <1>13, <1>16 DEF Abstract!Publish, more
<1>19. QED
  BY <1>15, <1>16, <1>17, <1>18 DEF Abstract!Next

\* For any constants: an append publishes one produce entry whole, for the
\* first time and before anything was told about it; and all the facts that
\* one answer tells hold together at the moment it is given.
THEOREM CommitLogImplemented == Spec => ImplementsCommitLog
<1>1. Init => FactsInv /\ Abstract!Init
  <2>1. SUFFICES ASSUME Init
                 PROVE  FactsInv /\ Abstract!Init
    OBVIOUS
  <2>2. FactsInv
    BY <2>1, AcksInitially DEF FactsInv, Init, Running, Busy
  <2>3. \A tp \in TopicPartitions : Stream(logs[tp]) = <<>>
    BY <2>1 DEF Init, Stream, LogEndOffset
  <2>4. Told = {}
    BY <2>1 DEF Init, Told
  <2>5. QED
    BY <2>2, <2>3, <2>4 DEF Abstract!Init
<1>2. FactsInv /\ [Next]_vars => FactsInv'
  BY FactsStep
<1>3. FactsInv /\ [Next]_vars =>
        [Abstract!Next]_<<[tp \in TopicPartitions |-> Stream(logs[tp])], Told>>
  <2>1. SUFFICES ASSUME FactsInv, [Next]_vars
                 PROVE  Abstract!Next
    OBVIOUS
  <2>2. CASE UNCHANGED logs
    BY <2>1, <2>2, TellStep DEF Abstract!Next
  <2>3. CASE \E c \in Conns : ProduceAppend(c)
    BY <2>1, <2>3, PublishStep
  <2>4. QED
    BY <2>1, <2>2, <2>3, LogsStep
<1>4. QED
  BY <1>1, <1>2, <1>3, PTL DEF Spec, ImplementsCommitLog, Abstract!Spec

=============================================================================
