-------------------------- MODULE DeploymentProofs --------------------------
(***************************************************************************)
(* Theorems about Deployment, for any topics, partitions, processes and    *)
(* bounds.                                                                 *)
(***************************************************************************)
EXTENDS Deployment, SequenceTheorems, TLAPS

Handlers == [step : HandlerSteps, part : Partitions, id : Nat, base : Nat, removed : Nat]
Scripts  == [step : ScriptSteps, name : Names, id : Nat, partitions : Nat, next : Nat,
             broker : Brokers \cup {Nobody}, alone : BOOLEAN]

-----------------------------------------------------------------------------
(* Types. *)

LEMMA HandlerType ==
    ASSUME TypeOK, handler # Idle
    PROVE  handler \in Handlers
BY DEF TypeOK, Handlers

LEMMA ScriptType ==
    ASSUME TypeOK, script # Idle
    PROVE  script \in Scripts
BY DEF TypeOK, Scripts

\* Who is at a step is not idle.
LEMMA StepsAreNotIdle ==
    /\ \A step \in HandlerSteps : step # Idle.step
    /\ \A step \in ScriptSteps : step # Idle.step
BY DEF HandlerSteps, ScriptSteps, Idle

LEMMA LogEnd ==
    ASSUME NEW l \in Seq(Record), l # <<>>
    PROVE  /\ Len(l) \in 1 .. Len(l)
           /\ l[Len(l)] \in Record
           /\ l[Len(l)].offset + 1 \in Nat
<1>1. Len(l) \in 1 .. Len(l)
  BY EmptySeq, LenProperties
<1>2. l[Len(l)] \in Record
  BY <1>1, ElementOfSeq
<1>3. QED
  BY <1>1, <1>2 DEF Record

LEMMA log_end_offsetType ==
    ASSUME TypeOK, NEW p \in Partitions
    PROVE  log_end_offset(p) \in Nat
<1>1. log[p] \in Seq(Record)
  BY DEF TypeOK
<1>2. CASE log[p] = <<>>
  BY <1>2 DEF log_end_offset
<1>3. CASE log[p] # <<>>
  BY <1>1, <1>3, LogEnd DEF log_end_offset
<1>4. QED
  BY <1>2, <1>3

LEMMA TypeInit ==
    ASSUME Init
    PROVE  TypeOK
<1>1. log \in [Partitions -> Seq(Record)]
  BY EmptySeq DEF Init
<1>2. QED
  BY <1>1 DEF Init, TypeOK

\* What a handler does.
LEMMA HandlerTypeStep ==
    ASSUME TypeOK
    PROVE  /\ \A p \in Partitions : Make(p) => TypeOK'
           /\ Look \/ Open \/ StorageFails \/ Write => TypeOK'
<1> USE DEF disk, brokers
<1>1. ASSUME NEW p \in Partitions, Make(p)
      PROVE  TypeOK'
  <2>1. port \in Brokers
    BY <1>1 DEF TypeOK, Make
  <2>2. PICK t \in cluster_metadata[port] :
          handler' = [step |-> "made", part |-> p, id |-> t.id, base |-> 0, removed |-> 0]
    BY <1>1 DEF Make
  <2>3. t \in Topic
    BY <2>1 DEF TypeOK
  <2>4. handler' \in Handlers
    BY <2>2, <2>3 DEF Handlers, HandlerSteps, Topic
  <2>5. QED
    BY <1>1, <2>4 DEF TypeOK, Make, Handlers
<1>2. CASE Look
  <2>1. handler \in Handlers
    BY <1>2, HandlerType, StepsAreNotIdle DEF Look, HandlerSteps
  <2>2. log_end_offset(handler.part) \in Nat
    BY <2>1, log_end_offsetType DEF Handlers
  <2>3. handler' \in Handlers
    BY <1>2, <2>1, <2>2 DEF Look, Handlers, HandlerSteps
  <2>4. QED
    BY <1>2, <2>3 DEF TypeOK, Look, Handlers
<1>3. CASE Open
  <2>1. handler \in Handlers
    BY <1>3, HandlerType, StepsAreNotIdle DEF Open, HandlerSteps
  <2>2. handler.part \in Partitions /\ handler.part \in dirs /\ removed[handler.part] \in Nat
    BY <1>3, <2>1 DEF TypeOK, Open, CanOpen, Handlers
  <2>3. handler' \in Handlers
    BY <1>3, <2>1, <2>2 DEF Open, Handlers, HandlerSteps
  <2>4. QED
    BY <1>3, <2>2, <2>3 DEF TypeOK, Open, Handlers
<1>4. CASE StorageFails
  BY <1>4 DEF TypeOK, StorageFails
<1>5. CASE Write
  <2> DEFINE record == [offset |-> handler.base, id |-> handler.id, number |-> writes + 1]
  <2>1. handler \in Handlers
    BY <1>5, HandlerType, StepsAreNotIdle DEF Write, HandlerSteps
  <2>2. record \in Record /\ writes + 1 \in Nat
    BY <2>1 DEF TypeOK, Handlers, Record
  <2>3. handler.part \in Partitions /\ handler.removed \in Nat
    BY <2>1 DEF Handlers
  <2>4. Append(log[handler.part], record) \in Seq(Record)
    BY <2>2, <2>3, AppendProperties DEF TypeOK
  <2>5. log' \in [Partitions -> Seq(Record)]
    BY <1>5, <2>3, <2>4 DEF TypeOK, Write, Written
  <2>6. acked' \subseteq [part : Partitions, record : Record, removed : Nat]
    BY <1>5, <2>2, <2>3 DEF TypeOK, Write
  <2>7. /\ handler' = Idle /\ writes' = writes + 1
        /\ UNCHANGED <<metadata_file, dirs, files, removed, brokers, script, runs, fresh>>
    BY <1>5 DEF Write
  <2>8. QED
    BY <2>2, <2>5, <2>6, <2>7 DEF TypeOK
<1>6. QED
  BY <1>1, <1>2, <1>3, <1>4, <1>5

\* What a process of the broker does.
LEMMA BrokerTypeStep ==
    ASSUME TypeOK, NEW b \in Brokers
    PROVE  LaunchByHand(b) \/ Load(b) \/ Bind(b) \/ Die(b) \/ StartBroker(b) => TypeOK'
<1> USE DEF disk, brokers
<1>1. CASE LaunchByHand(b)
  <2>1. script' = Idle \/ script' \in Scripts
    <3>1. CASE script = Idle
      BY <1>1, <3>1 DEF LaunchByHand
    <3>2. CASE script # Idle
      <4>1. script \in Scripts
        BY <3>2, ScriptType
      <4>2. QED
        BY <1>1, <3>2, <4>1 DEF LaunchByHand, Scripts
    <3>3. QED
      BY <3>1, <3>2
  <2>2. QED
    BY <1>1, <2>1 DEF TypeOK, LaunchByHand, Launch, Scripts
<1>2. CASE Load(b)
  BY <1>2 DEF TypeOK, Load
<1>3. CASE Bind(b)
  <2>1. script # Idle => script.id \in Nat
    BY ScriptType DEF Scripts
  <2>2. fresh' \in Nat
    BY <1>3, <2>1 DEF TypeOK, Bind
  <2>3. QED
    BY <1>3, <2>2 DEF TypeOK, Bind
<1>4. CASE Die(b)
  BY <1>4 DEF TypeOK, Die
<1>5. CASE StartBroker(b)
  <2>1. script \in Scripts
    BY <1>5, ScriptType, StepsAreNotIdle DEF StartBroker, ScriptSteps
  <2>2. script' \in Scripts
    BY <1>5, <2>1 DEF StartBroker, Scripts, ScriptSteps
  <2>3. QED
    BY <1>5, <2>2 DEF TypeOK, StartBroker, Launch, Scripts
<1>6. QED
  BY <1>1, <1>2, <1>3, <1>4, <1>5

\* What start.sh and the tool do.
LEMMA ScriptTypeStep ==
    ASSUME TypeOK
    PROVE  /\ \A name \in Names, n \in 1 .. MaxPartitions :
                  Begin(name, n) \/ GenerateTopic(name, n) \/ AppendTopic(name, n) => TypeOK'
           /\ RemoveFile \/ RemoveDirectory \/ Generate \/ FindListener \/ End \/ Abandon
                => TypeOK'
<1> USE DEF disk, brokers
<1>1. ASSUME NEW name \in Names, NEW n \in 1 .. MaxPartitions, Begin(name, n)
      PROVE  TypeOK'
  <2>1. n \in Nat /\ runs + 1 \in Nat
    BY DeploymentAssumption DEF TypeOK
  <2>2. script' \in Scripts
    BY <1>1, <2>1 DEF Begin, Scripts, ScriptSteps
  <2>3. QED
    BY <1>1, <2>1, <2>2 DEF TypeOK, Begin, Scripts
<1>2. ASSUME NEW name \in Names, NEW n \in 1 .. MaxPartitions,
             GenerateTopic(name, n) \/ AppendTopic(name, n)
      PROVE  TypeOK'
  <2>1. n \in Nat /\ runs + 1 \in Nat
    BY DeploymentAssumption DEF TypeOK
  <2>2. Registered(name, n) \in Topic
    BY <2>1 DEF Registered, Topic
  <2>3. metadata_file' \subseteq Topic
    BY <1>2, <2>2 DEF TypeOK, GenerateTopic, AppendTopic
  <2>4. runs' = runs + 1 /\ UNCHANGED <<disk, brokers, handler, script, writes, acked, fresh>>
    BY <1>2 DEF GenerateTopic, AppendTopic, RunTool
  <2>5. QED
    BY <2>1, <2>3, <2>4 DEF TypeOK
<1>3. CASE RemoveFile
  <2> DEFINE p == <<script.name, script.next>>
  <2>1. script \in Scripts
    BY <1>3, ScriptType, StepsAreNotIdle DEF RemoveFile, ScriptSteps
  <2>2. script' \in Scripts
    BY <1>3, <2>1 DEF RemoveFile, Scripts, ScriptSteps
  <2>3. log' \in [Partitions -> Seq(Record)]
    BY <1>3, EmptySeq DEF TypeOK, RemoveFile
  <2>4. removed' \in [Partitions -> Nat]
    <3>1. removed \in [Partitions -> Nat] /\ removed' = [removed EXCEPT ![p] = @ + 1]
      BY <1>3 DEF TypeOK, RemoveFile
    <3>2. \A q \in Partitions : removed[q] + 1 \in Nat
      BY <3>1
    <3>3. QED
      BY <3>1, <3>2
  <2>5. files' \subseteq dirs'
    BY <1>3 DEF TypeOK, RemoveFile
  <2>6. QED
    BY <1>3, <2>2, <2>3, <2>4, <2>5 DEF TypeOK, RemoveFile, Scripts
<1>4. CASE RemoveDirectory
  <2>1. script \in Scripts
    BY <1>4, ScriptType, StepsAreNotIdle DEF RemoveDirectory, ScriptSteps
  <2>2. script' = Idle \/ script' \in Scripts
    <3>1. script.next + 1 \in Nat
      BY <2>1 DEF Scripts
    <3>2. \/ script' = Idle
          \/ script' = [script EXCEPT !.step = "file", !.next = script.next + 1]
      BY <1>4 DEF RemoveDirectory
    <3>3. [script EXCEPT !.step = "file", !.next = script.next + 1] \in Scripts
      BY <2>1, <3>1 DEF Scripts, ScriptSteps
    <3>4. QED
      BY <3>2, <3>3
  <2>3. dirs' \subseteq Partitions /\ files' \subseteq dirs'
    BY <1>4 DEF TypeOK, RemoveDirectory
  <2>4. QED
    BY <1>4, <2>2, <2>3 DEF TypeOK, RemoveDirectory, Scripts
<1>5. CASE Generate
  <2>1. script \in Scripts
    BY <1>5, ScriptType, StepsAreNotIdle DEF Generate, ScriptSteps
  <2>2. script' \in Scripts
    BY <1>5, <2>1 DEF Generate, Scripts, ScriptSteps
  <2>3. metadata_file' \subseteq Topic
    BY <1>5, <2>1 DEF Generate, Scripts, Topic
  <2>4. QED
    BY <1>5, <2>2, <2>3 DEF TypeOK, Generate, Scripts
<1>6. CASE FindListener
  <2>1. script \in Scripts
    BY <1>6, ScriptType, StepsAreNotIdle DEF FindListener, ScriptSteps
  <2>2. script' \in Scripts
    BY <1>6, <2>1 DEF FindListener, Scripts, ScriptSteps
  <2>3. QED
    BY <1>6, <2>2 DEF TypeOK, FindListener, Scripts
<1>7. CASE End
  <2>1. script' = Idle
    BY <1>7 DEF End
  <2>2. /\ process' \in [Brokers -> {"none", "launched", "loaded", "serving", "dead"}]
        /\ cluster_metadata' \in [Brokers -> SUBSET Topic]
        /\ port' \in Brokers \cup {Nobody}
        /\ handler' = Idle \/ handler' = handler
    BY <1>7 DEF TypeOK, End
  <2>3. UNCHANGED <<metadata_file, disk, runs, writes, acked, fresh>>
    BY <1>7 DEF End
  <2>4. QED
    BY <2>1, <2>2, <2>3 DEF TypeOK
<1>8. CASE Abandon
  BY <1>8 DEF TypeOK, Abandon
<1>9. QED
  BY <1>1, <1>2, <1>3, <1>4, <1>5, <1>6, <1>7, <1>8

LEMMA TypeStep ==
    ASSUME TypeOK, [Next]_vars
    PROVE  TypeOK'
<1>1. CASE UNCHANGED vars
  BY <1>1 DEF TypeOK, vars, disk, brokers
<1>2. CASE Next
  BY <1>2, HandlerTypeStep, BrokerTypeStep, ScriptTypeStep DEF Next
<1>3. QED
  BY <1>1, <1>2

\* The state is what the comments at the variables say; above all, a log file
\* lies in a directory that is there: nobody makes one outside, though the
\* script removes directories under a handler.
THEOREM TypeCorrect == Spec => []TypeOK
<1>1. Init => TypeOK
  BY TypeInit
<1>2. TypeOK /\ [Next]_vars => TypeOK'
  BY TypeStep
<1>3. QED
  BY <1>1, <1>2, PTL DEF Spec

-----------------------------------------------------------------------------
(* Offsets follow on.  That needs to be known of a handler on its way: what *)
(* it looked up is still the end of the log, or the log was removed.        *)

AtEnd(p, offset) == log[p] = <<>> \/ offset = log[p][Len(log[p])].offset + 1

OffsetsInv ==
    /\ TypeOK
    /\ OffsetsFollowOn
    /\ handler.step \in {"looked", "opened"} => AtEnd(handler.part, handler.base)

\* Which steps change logs, and which the handler.
LEMMA LogSteps ==
    ASSUME TypeOK, [Next]_vars
    PROVE  \/ Write
           \/ RemoveFile
           \/ UNCHANGED <<log, removed, acked>>
BY DEF Next, vars, disk, brokers, LaunchByHand, Load, Bind, Die, StartBroker, Make, Look,
       Open, StorageFails, Begin, GenerateTopic, AppendTopic, RunTool, RemoveDirectory,
       Generate, FindListener, End, Abandon

LEMMA HandlerMoves ==
    ASSUME TypeOK, [Next]_vars
    PROVE  \/ Look \/ Open
           \/ \E p \in Partitions : Make(p)
           \/ handler' = Idle \/ handler' = handler
BY DEF Next, vars, disk, brokers, LaunchByHand, Load, Bind, Die, StartBroker,
       StorageFails, Write, Begin, GenerateTopic, AppendTopic, RunTool, RemoveFile,
       RemoveDirectory, Generate, FindListener, End, Abandon

\* A record at the end of a log keeps its offsets following on.
LEMMA AppendFollowsOn ==
    ASSUME NEW l \in Seq(Record), NEW r \in Record,
           \A i \in 1 .. Len(l) - 1 : l[i + 1].offset = l[i].offset + 1,
           l = <<>> \/ r.offset = l[Len(l)].offset + 1
    PROVE  \A i \in 1 .. Len(Append(l, r)) - 1 :
               Append(l, r)[i + 1].offset = Append(l, r)[i].offset + 1
<1> DEFINE new == Append(l, r)
<1>1. /\ Len(new) = Len(l) + 1 /\ Len(l) \in Nat
      /\ \A i \in 1 .. Len(l) : new[i] = l[i]
      /\ new[Len(l) + 1] = r
  BY AppendProperties, LenProperties
<1>2. l = <<>> => Len(l) = 0
  BY EmptySeq
<1>3. SUFFICES ASSUME NEW i \in 1 .. Len(l)
               PROVE  new[i + 1].offset = new[i].offset + 1
  BY <1>1
<1>4. CASE i = Len(l)
  <2>1. l # <<>> /\ new[i] = l[Len(l)] /\ new[i + 1] = r
    BY <1>1, <1>2, <1>3, <1>4
  <2>2. QED
    BY <2>1
<1>5. CASE i # Len(l)
  <2>1. i \in 1 .. Len(l) - 1 /\ i + 1 \in 1 .. Len(l)
    BY <1>1, <1>3, <1>5
  <2>2. new[i] = l[i] /\ new[i + 1] = l[i + 1]
    BY <1>1, <2>1
  <2>3. QED
    BY <2>1, <2>2
<1>6. QED
  BY <1>4, <1>5

\* What Write does, if the log is still the one that was opened.
LEMMA WriteAppends ==
    ASSUME TypeOK, Write
    PROVE  /\ handler \in Handlers /\ handler.step = "opened"
           /\ \E record \in Record :
                /\ record.offset = handler.base /\ record.id = handler.id
                /\ acked' = acked \cup {[part |-> handler.part, record |-> record,
                                         removed |-> handler.removed]}
                /\ log' = IF removed[handler.part] = handler.removed
                          THEN [log EXCEPT ![handler.part] = Append(@, record)] ELSE log
           /\ handler' = Idle /\ removed' = removed
<1> DEFINE record == [offset |-> handler.base, id |-> handler.id, number |-> writes + 1]
<1>1. handler \in Handlers
  BY HandlerType, StepsAreNotIdle DEF Write, HandlerSteps
<1>2. record \in Record
  BY <1>1 DEF TypeOK, Handlers, Record
<1>3. QED
  BY <1>1, <1>2 DEF Write, Written

\* RemoveFile removes one log file; a file that is not there is removed too.
LEMMA RemoveFileEmpties ==
    ASSUME TypeOK, RemoveFile
    PROVE  /\ script \in Scripts
           /\ \A p \in Partitions :
                IF p = <<script.name, script.next>>
                THEN log'[p] = <<>> /\ removed'[p] = removed[p] + 1
                ELSE log'[p] = log[p] /\ removed'[p] = removed[p]
           /\ UNCHANGED <<handler, acked>>
<1>1. script \in Scripts
  BY ScriptType, StepsAreNotIdle DEF RemoveFile, ScriptSteps
<1>2. QED
  BY <1>1 DEF TypeOK, RemoveFile

LEMMA OffsetsStep ==
    ASSUME OffsetsInv, [Next]_vars
    PROVE  OffsetsInv'
<1>1. TypeOK /\ TypeOK'
  BY TypeStep DEF OffsetsInv
<1>2. Idle.step \notin {"looked", "opened"}
  BY DEF Idle
<1>3. CASE Write
  <2> DEFINE p == handler.part
  <2>1. handler \in Handlers /\ p \in Partitions /\ AtEnd(p, handler.base)
    BY <1>1, <1>3, WriteAppends DEF OffsetsInv, Handlers
  <2>2. PICK record \in Record :
          /\ record.offset = handler.base
          /\ log' = IF removed[p] = handler.removed
                    THEN [log EXCEPT ![p] = Append(@, record)] ELSE log
    BY <1>1, <1>3, WriteAppends
  <2>3. log[p] \in Seq(Record) /\ (log[p] = <<>> \/ record.offset = log[p][Len(log[p])].offset + 1)
    BY <1>1, <2>1, <2>2 DEF TypeOK, AtEnd
  <2>4. \A i \in 1 .. Len(Append(log[p], record)) - 1 :
          Append(log[p], record)[i + 1].offset = Append(log[p], record)[i].offset + 1
    BY <2>1, <2>3, AppendFollowsOn DEF OffsetsInv, OffsetsFollowOn
  <2>5. \A q \in Partitions : log'[q] = log[q] \/ (q = p /\ log'[q] = Append(log[p], record))
    BY <1>1, <2>2 DEF TypeOK
  <2>6. OffsetsFollowOn'
    <3>1. ASSUME NEW q \in Partitions, NEW i \in 1 .. Len(log'[q]) - 1
          PROVE  log'[q][i + 1].offset = log'[q][i].offset + 1
      <4>1. CASE log'[q] = log[q]
        BY <3>1, <4>1 DEF OffsetsInv, OffsetsFollowOn
      <4>2. CASE q = p /\ log'[q] = Append(log[p], record)
        BY <2>4, <3>1, <4>2
      <4>3. QED
        BY <2>5, <4>1, <4>2
    <3>2. QED
      BY <3>1 DEF OffsetsFollowOn
  <2>7. handler' = Idle
    BY <1>1, <1>3, WriteAppends
  <2>8. QED
    BY <1>1, <1>2, <2>6, <2>7 DEF OffsetsInv
<1>4. CASE RemoveFile
  <2>1. \A q \in Partitions : log'[q] = <<>> \/ log'[q] = log[q]
    BY <1>1, <1>4, RemoveFileEmpties
  <2>2. OffsetsFollowOn'
    <3>1. Len(<<>>) = 0 /\ 1 .. 0 - 1 = {}
      OBVIOUS
    <3>2. QED
      BY <2>1, <3>1 DEF OffsetsInv, OffsetsFollowOn
  <2>3. handler' = handler
    BY <1>1, <1>4, RemoveFileEmpties
  <2>4. handler.step \in {"looked", "opened"} => handler.part \in Partitions
    BY <1>1, <1>2, HandlerType DEF Handlers
  <2>5. handler'.step \in {"looked", "opened"} => AtEnd(handler.part, handler.base)'
    BY <2>1, <2>3, <2>4 DEF OffsetsInv, AtEnd
  <2>6. QED
    BY <1>1, <2>2, <2>5 DEF OffsetsInv
<1>5. CASE log' = log
  <2>1. OffsetsFollowOn'
    BY <1>5 DEF OffsetsInv, OffsetsFollowOn
  <2>2. handler'.step \in {"looked", "opened"} => AtEnd(handler.part, handler.base)'
    <3>1. CASE Look
      <4>1. handler \in Handlers
        BY <1>1, <3>1, HandlerType, StepsAreNotIdle DEF Look, HandlerSteps
      <4>2. handler'.part = handler.part /\ handler'.base = log_end_offset(handler.part)
        BY <3>1, <4>1 DEF Look, Handlers
      <4>3. QED
        BY <1>5, <4>2 DEF AtEnd, log_end_offset
    <3>2. CASE Open
      <4>1. handler \in Handlers
        BY <1>1, <3>2, HandlerType, StepsAreNotIdle DEF Open, HandlerSteps
      <4>2. handler'.part = handler.part /\ handler'.base = handler.base /\ handler.step = "looked"
        BY <3>2, <4>1 DEF Open, Handlers
      <4>3. QED
        BY <1>5, <4>2 DEF OffsetsInv, AtEnd
    <3>3. ASSUME NEW p \in Partitions, Make(p)
          PROVE  handler'.step \notin {"looked", "opened"}
      BY <3>3 DEF Make
    <3>4. CASE handler' = Idle
      BY <1>2, <3>4
    <3>5. CASE handler' = handler
      BY <1>5, <3>5 DEF OffsetsInv, AtEnd
    <3>6. QED
      BY <1>1, <3>1, <3>2, <3>3, <3>4, <3>5, HandlerMoves
  <2>3. QED
    BY <1>1, <2>1, <2>2 DEF OffsetsInv
<1>6. QED
  BY <1>1, <1>3, <1>4, <1>5, LogSteps

LEMMA OffsetsInitially ==
    ASSUME Init
    PROVE  OffsetsInv
<1>1. TypeOK
  BY TypeInit
<1>2. \A p \in Partitions : Len(log[p]) = 0
  BY EmptySeq DEF Init
<1>3. OffsetsFollowOn
  BY <1>2 DEF OffsetsFollowOn
<1>4. handler.step \notin {"looked", "opened"}
  BY DEF Init, Idle
<1>5. QED
  BY <1>1, <1>3, <1>4 DEF OffsetsInv

\* However the script and the file operations of handlers interleave, no log
\* has an offset twice, or a gap.
THEOREM OffsetsAlwaysFollowOn == Spec => []OffsetsFollowOn
<1>1. Init => OffsetsInv
  BY OffsetsInitially
<1>2. OffsetsInv /\ [Next]_vars => OffsetsInv'
  BY OffsetsStep
<1>3. OffsetsInv => OffsetsFollowOn
  BY DEF OffsetsInv
<1>4. QED
  BY <1>1, <1>2, <1>3, PTL DEF Spec

-----------------------------------------------------------------------------
(* Records are there until the file is removed: files are removed once, and *)
(* nobody has opened one that is removed later on.                          *)

AckedInv ==
    /\ TypeOK
    /\ AckedUntilRemoved
    /\ \A a \in acked : a.removed <= removed[a.part]
    /\ handler.step = "opened" => handler.removed <= removed[handler.part]

LEMMA AckedStep ==
    ASSUME AckedInv, [Next]_vars
    PROVE  AckedInv'
<1>1. TypeOK /\ TypeOK'
  BY TypeStep DEF AckedInv
<1>2. Idle.step # "opened"
  BY DEF Idle
<1>3. \A a \in acked : a.part \in Partitions /\ a.removed \in Nat
  BY <1>1 DEF TypeOK
<1>4. CASE Write
  <2> DEFINE p == handler.part
  <2>1. handler \in Handlers /\ p \in Partitions /\ handler.removed <= removed[p]
    BY <1>1, <1>4, WriteAppends DEF AckedInv, Handlers
  <2>2. PICK record \in Record :
          /\ acked' = acked \cup {[part |-> p, record |-> record, removed |-> handler.removed]}
          /\ log' = IF removed[p] = handler.removed
                    THEN [log EXCEPT ![p] = Append(@, record)] ELSE log
    BY <1>1, <1>4, WriteAppends
  <2>3. handler' = Idle /\ removed' = removed
    BY <1>1, <1>4, WriteAppends
  <2>4. /\ Append(log[p], record) \in Seq(Record)
        /\ \A i \in DOMAIN log[p] : /\ i \in DOMAIN Append(log[p], record)
                                    /\ Append(log[p], record)[i] = log[p][i]
        /\ Len(log[p]) + 1 \in DOMAIN Append(log[p], record)
        /\ Append(log[p], record)[Len(log[p]) + 1] = record
    <3>1. log[p] \in Seq(Record)
      BY <1>1, <2>1 DEF TypeOK
    <3>2. QED
      BY <3>1, AppendProperties, LenProperties
  <2>5. ASSUME NEW a \in acked', a.removed = removed'[a.part]
        PROVE  \E i \in DOMAIN log'[a.part] : log'[a.part][i] = a.record
    <3>1. CASE a \in acked
      <4>1. PICK i \in DOMAIN log[a.part] : log[a.part][i] = a.record
        BY <2>3, <2>5, <3>1 DEF AckedInv, AckedUntilRemoved
      <4>2. log'[a.part] = log[a.part] \/ (a.part = p /\ log'[a.part] = Append(log[p], record))
        BY <1>1, <1>3, <2>2, <3>1 DEF TypeOK
      <4>3. QED
        BY <2>4, <4>1, <4>2
    <3>2. CASE a = [part |-> p, record |-> record, removed |-> handler.removed]
      <4>1. a.part = p /\ a.record = record /\ removed[p] = handler.removed
        BY <2>3, <2>5, <3>2
      <4>2. log'[p] = Append(log[p], record)
        BY <1>1, <2>1, <2>2, <4>1 DEF TypeOK
      <4>3. QED
        BY <2>4, <4>1, <4>2
    <3>3. QED
      BY <2>2, <2>5, <3>1, <3>2
  <2>6. \A a \in acked' : a.removed <= removed'[a.part]
    BY <2>1, <2>2, <2>3 DEF AckedInv
  <2>7. QED
    BY <1>1, <1>2, <2>3, <2>5, <2>6 DEF AckedInv, AckedUntilRemoved
<1>5. CASE RemoveFile
  <2> DEFINE p == <<script.name, script.next>>
  <2>1. /\ \A q \in Partitions : IF q = p THEN removed'[q] = removed[q] + 1
                                 ELSE log'[q] = log[q] /\ removed'[q] = removed[q]
        /\ handler' = handler /\ acked' = acked
    BY <1>1, <1>5, RemoveFileEmpties
  <2>2. removed \in [Partitions -> Nat]
    BY <1>1 DEF TypeOK
  <2>3. ASSUME NEW a \in acked'
        PROVE  /\ a.removed <= removed'[a.part]
               /\ a.removed = removed'[a.part] =>
                    \E i \in DOMAIN log'[a.part] : log'[a.part][i] = a.record
    <3>1. a \in acked /\ a.part \in Partitions /\ a.removed \in Nat
          /\ removed[a.part] \in Nat /\ a.removed <= removed[a.part]
      BY <1>3, <2>1, <2>2 DEF AckedInv
    <3>2. CASE a.part = p
      BY <2>1, <3>1, <3>2
    <3>3. CASE a.part # p
      BY <2>1, <3>1, <3>3 DEF AckedInv, AckedUntilRemoved
    <3>4. QED
      BY <3>2, <3>3
  <2>4. ASSUME handler.step = "opened"
        PROVE  handler.removed <= removed'[handler.part]
    <3>1. handler.part \in Partitions /\ handler.removed \in Nat
      BY <1>1, <1>2, <2>4, HandlerType DEF Handlers
    <3>2. removed[handler.part] \in Nat /\ handler.removed <= removed[handler.part]
      BY <2>2, <2>4, <3>1 DEF AckedInv
    <3>3. QED
      BY <2>1, <3>1, <3>2
  <2>5. QED
    BY <1>1, <2>1, <2>3, <2>4 DEF AckedInv, AckedUntilRemoved
<1>6. CASE UNCHANGED <<log, removed, acked>>
  <2>1. handler'.step = "opened" => handler'.removed <= removed'[handler'.part]
    <3>1. CASE Look
      <4>1. handler \in Handlers
        BY <1>1, <3>1, HandlerType, StepsAreNotIdle DEF Look, HandlerSteps
      <4>2. handler'.step = "looked"
        BY <3>1, <4>1 DEF Look, Handlers
      <4>3. QED
        BY <4>2
    <3>2. CASE Open
      <4>1. handler \in Handlers
        BY <1>1, <3>2, HandlerType, StepsAreNotIdle DEF Open, HandlerSteps
      <4>2. handler'.part = handler.part /\ handler'.removed = removed[handler.part]
        BY <3>2, <4>1 DEF Open, Handlers
      <4>3. removed[handler.part] \in Nat
        BY <1>1, <4>1 DEF TypeOK, Handlers
      <4>4. QED
        BY <1>6, <4>2, <4>3
    <3>3. ASSUME NEW p \in Partitions, Make(p)
          PROVE  handler'.step # "opened"
      BY <3>3 DEF Make
    <3>4. CASE handler' = Idle
      BY <1>2, <3>4
    <3>5. CASE handler' = handler
      BY <1>6, <3>5 DEF AckedInv
    <3>6. QED
      BY <1>1, <3>1, <3>2, <3>3, <3>4, <3>5, HandlerMoves
  <2>2. QED
    BY <1>1, <1>6, <2>1 DEF AckedInv, AckedUntilRemoved
<1>7. QED
  BY <1>1, <1>4, <1>5, <1>6, LogSteps

\* What was acknowledged is in the log at its offset until start.sh removes
\* the file, also when it removes one between the look at its end and the
\* write.
THEOREM AcknowledgedUntilRemoved == Spec => []AckedUntilRemoved
<1>1. Init => AckedInv
  <2>1. Init => TypeOK
    BY TypeInit
  <2>2. Init => acked = {} /\ handler.step # "opened"
    BY DEF Init, Idle
  <2>3. QED
    BY <2>1, <2>2 DEF AckedInv, AckedUntilRemoved
<1>2. AckedInv /\ [Next]_vars => AckedInv'
  BY AckedStep
<1>3. AckedInv => AckedUntilRemoved
  BY DEF AckedInv
<1>4. QED
  BY <1>1, <1>2, <1>3, PTL DEF Spec

-----------------------------------------------------------------------------
(* A topic that start.sh registers while no broker is alive begins with     *)
(* empty logs.  One has to follow the script: as long as no other broker    *)
(* was launched, only its own can be alive, and what it has emptied stays   *)
(* empty; and then what the brokers know: no topic older than this one.     *)

ProcessInv ==
    /\ port # Nobody => process[port] = "serving"
    /\ \A b \in Brokers : process[b] = "serving" => port = b
    /\ \A b \in Brokers : process[b] \notin {"loaded", "serving"} => cluster_metadata[b] = {}
    /\ handler # Idle => port # Nobody

\* The topic that the script registers.
Ours == [name |-> script.name, id |-> script.id, partitions |-> script.partitions]

\* Topics from t on; t itself is the only one of its id.
Since(t, topics) == \A u \in topics : u.id >= t.id /\ (u.id = t.id => u = t)

EmptyBelow(name, n) == \A p \in Partitions : p[1] = name /\ p[2] < n => log[p] = <<>>

\* The script began with no broker alive, and nobody has launched one by hand.
AloneInv ==
    /\ \A b \in Brokers : Alive(b) => b = script.broker
    /\ script.step = "file" => EmptyBelow(script.name, script.next)
    /\ script.step = "directory" => EmptyBelow(script.name, script.next + 1)
    /\ script.step = "start" => EmptyBelow(script.name, script.partitions)
    /\ script.step = "wait" /\ process[script.broker] \in {"launched", "loaded"} =>
         /\ EmptyBelow(script.name, script.partitions)
         /\ Since(Ours, cluster_metadata[script.broker])
    /\ script.step = "up" => process[script.broker] \notin {"launched", "loaded"}

ScriptInv ==
    script # Idle =>
        /\ script.id \in 1 .. runs
        /\ script.partitions <= MaxPartitions
        /\ script.step \in {"file", "directory", "start"} => script.broker = Nobody /\ fresh = 0
        /\ script.step \in {"wait", "up"} => script.broker \in Brokers
        /\ Since(Ours, metadata_file)
        /\ script.alone => AloneInv

\* What is known of the fresh topic, wherever something is known of it.
FreshTopic(t) ==
    /\ t.id = fresh /\ t.id <= runs /\ t.partitions <= MaxPartitions
    /\ Since(t, metadata_file)
    /\ \A b \in Brokers : Since(t, cluster_metadata[b])
    /\ handler # Idle => handler.id >= fresh
    /\ \A p \in Partitions : p[1] = t.name /\ p[2] < t.partitions =>
           \A k \in DOMAIN log[p] : log[p][k].id >= fresh

FreshInv == fresh # 0 => \E t \in Topic : FreshTopic(t)

OldTopicsInv == TypeOK /\ ProcessInv /\ ScriptInv /\ FreshInv

LEMMA ProcessStep ==
    ASSUME TypeOK, ProcessInv, [Next]_vars
    PROVE  ProcessInv'
<1> USE DEF disk, brokers
<1>1. /\ process \in [Brokers -> {"none", "launched", "loaded", "serving", "dead"}]
      /\ cluster_metadata \in [Brokers -> SUBSET Topic]
      /\ port \in Brokers \cup {Nobody} /\ Nobody \notin Brokers
  BY DeploymentAssumption DEF TypeOK
<1>2. ASSUME NEW b \in Brokers, Launch(b), UNCHANGED <<cluster_metadata, port, handler>>
      PROVE  ProcessInv'
  BY <1>1, <1>2 DEF ProcessInv, Launch
<1>3. ASSUME NEW b \in Brokers, Load(b)
      PROVE  ProcessInv'
  BY <1>1, <1>3 DEF ProcessInv, Load
<1>4. ASSUME NEW b \in Brokers, Bind(b)
      PROVE  ProcessInv'
  <2>1. CASE port = Nobody
    BY <1>1, <1>4, <2>1 DEF ProcessInv, Bind
  <2>2. CASE port # Nobody
    BY <1>1, <1>4, <2>2 DEF ProcessInv, Bind
  <2>3. QED
    BY <2>1, <2>2
<1>5. ASSUME NEW b \in Brokers, Die(b)
      PROVE  ProcessInv'
  BY <1>1, <1>5 DEF ProcessInv, Die, Alive
<1>6. CASE End
  <2>1. CASE Alive(script.broker) /\ script.broker \in Brokers
    BY <1>1, <1>6, <2>1 DEF ProcessInv, End, Alive
  <2>2. CASE ~Alive(script.broker)
    BY <1>1, <1>6, <2>2 DEF ProcessInv, End
  <2>3. CASE script.broker \notin Brokers
    <3>1. UNCHANGED <<process, cluster_metadata>>
      BY <1>1, <1>6, <2>3 DEF End
    <3>2. port' = port \/ port' = Nobody
      BY <1>6 DEF End
    <3>3. handler' = handler \/ handler' = Idle
      BY <1>6 DEF End
    <3>4. port = Nobody \/ port # script.broker
      BY <1>1, <2>3
    <3>5. port = script.broker => handler = Idle
      BY <3>4 DEF ProcessInv
    <3>6. port' = port /\ handler' = handler
      BY <1>1, <1>6, <3>4, <3>5 DEF End
    <3>7. QED
      BY <3>1, <3>6 DEF ProcessInv
  <2>4. QED
    BY <2>1, <2>2, <2>3
<1>7. ASSUME NEW p \in Partitions, Make(p)
      PROVE  ProcessInv'
  BY <1>7 DEF ProcessInv, Make
<1>8. CASE Look \/ Open
  <2>1. handler # Idle
    BY <1>8, StepsAreNotIdle DEF Look, Open, HandlerSteps
  <2>2. QED
    BY <1>8, <2>1 DEF ProcessInv, Look, Open
<1>9. CASE StorageFails \/ Write
  BY <1>9 DEF ProcessInv, StorageFails, Write
<1>10. CASE UNCHANGED <<process, cluster_metadata, port, handler>>
  BY <1>10 DEF ProcessInv
<1>11. \/ \E b \in Brokers : \/ Launch(b) /\ UNCHANGED <<cluster_metadata, port, handler>>
                             \/ Load(b) \/ Bind(b) \/ Die(b)
       \/ End \/ (\E p \in Partitions : Make(p)) \/ Look \/ Open \/ StorageFails \/ Write
       \/ UNCHANGED <<process, cluster_metadata, port, handler>>
  BY DEF Next, vars, LaunchByHand, StartBroker, Begin, GenerateTopic, AppendTopic, RunTool,
         RemoveFile, RemoveDirectory, Generate, FindListener, Abandon
<1>12. QED
  BY <1>2, <1>3, <1>4, <1>5, <1>6, <1>7, <1>8, <1>9, <1>10, <1>11

\* Logs of a name stay empty while nobody listens.
LEMMA EmptyStays ==
    ASSUME TypeOK, ProcessInv, [Next]_vars, port = Nobody, NEW name, NEW n, EmptyBelow(name, n)
    PROVE  EmptyBelow(name, n)'
<1>1. handler = Idle
  BY DEF ProcessInv
<1>2. ~Write
  BY <1>1, StepsAreNotIdle DEF Write, HandlerSteps
<1>3. CASE RemoveFile
  BY <1>3, RemoveFileEmpties DEF EmptyBelow
<1>4. CASE log' = log
  BY <1>4 DEF EmptyBelow
<1>5. QED
  BY <1>2, <1>3, <1>4, LogSteps

\* The script's own broker takes the port.
LEMMA OurBrokerBinds ==
    ASSUME TypeOK, ProcessInv, ScriptInv, NEW b \in Brokers, Bind(b), port = Nobody,
           script # Idle, script.broker = b, script.alone
    PROVE  FreshInv'
<1>1. script \in Scripts
  BY ScriptType
<1>2. process[b] = "loaded" /\ Alive(b) /\ AloneInv
  BY DEF Bind, Alive, ScriptInv
<1>3. script.step = "wait"
  BY <1>1, <1>2, DeploymentAssumption DEF Scripts, ScriptSteps, ScriptInv, AloneInv
<1>4. Since(Ours, metadata_file) /\ script.id \in 1 .. runs /\ script.partitions <= MaxPartitions
  BY DEF ScriptInv
<1>5. EmptyBelow(script.name, script.partitions) /\ Since(Ours, cluster_metadata[b])
  BY <1>2, <1>3 DEF AloneInv
<1>6. \A c \in Brokers \ {b} : cluster_metadata[c] = {}
  BY <1>2 DEF AloneInv, ProcessInv, Alive
<1>7. /\ fresh' = script.id
      /\ UNCHANGED <<metadata_file, log, cluster_metadata, handler, script, runs>>
  BY DEF Bind, disk
<1>8. handler = Idle
  BY DEF ProcessInv
<1>9. PICK t \in Topic : t = Ours
  BY <1>1 DEF Ours, Scripts, Topic
<1>10. /\ t.id = fresh' /\ t.id <= runs /\ t.partitions <= MaxPartitions
       /\ t.name = script.name /\ t.partitions = script.partitions
  <2>1. runs \in Nat
    BY DEF TypeOK
  <2>2. QED
    BY <1>4, <1>7, <1>9, <2>1 DEF Ours
<1>11. Since(t, metadata_file) /\ \A c \in Brokers : Since(t, cluster_metadata[c])
  BY <1>4, <1>5, <1>6, <1>9 DEF Since
<1>12. \A p \in Partitions : p[1] = t.name /\ p[2] < t.partitions => DOMAIN log[p] = {}
  <2>1. DOMAIN <<>> = {}
    OBVIOUS
  <2>2. QED
    BY <1>5, <1>10, <2>1 DEF EmptyBelow
<1>13. FreshTopic(t)'
  BY <1>7, <1>8, <1>10, <1>11, <1>12 DEF FreshTopic, Since
<1>14. QED
  BY <1>13 DEF FreshInv

LEMMA FreshMoves ==
    ASSUME TypeOK, [Next]_vars
    PROVE  \/ fresh' = fresh
           \/ fresh' = 0
           \/ \E b \in Brokers : /\ Bind(b) /\ port = Nobody
                                 /\ script # Idle /\ script.broker = b /\ script.alone
BY DEF Next, vars, LaunchByHand, Load, Bind, Die, StartBroker, Make, Look, Open, StorageFails,
       Write, Begin, GenerateTopic, AppendTopic, RunTool, RemoveFile, RemoveDirectory,
       Generate, FindListener, End, Abandon

\* What a step does to what the tool has written and brokers know, while the
\* fresh topic stays: topics come that are newer than any before.
LEMMA MetadataMoves ==
    ASSUME TypeOK, ScriptInv, [Next]_vars, fresh # 0, fresh' = fresh
    PROVE  /\ \/ metadata_file' = metadata_file /\ runs' = runs
              \/ /\ runs' = runs + 1
                 /\ \A u \in metadata_file' : u \in metadata_file \/ u.id = runs + 1
           /\ \A b \in Brokers : \/ cluster_metadata'[b] = cluster_metadata[b]
                                 \/ cluster_metadata'[b] = metadata_file
                                 \/ cluster_metadata'[b] = {}
<1> USE DEF disk, brokers
<1>1. cluster_metadata \in [Brokers -> SUBSET Topic]
  BY DEF TypeOK
<1>2. ~Generate /\ \A name \in Names, n \in 1 .. MaxPartitions : ~Begin(name, n)
  BY StepsAreNotIdle DEF Generate, Begin, ScriptInv, ScriptSteps
<1>3. ASSUME NEW name \in Names, NEW n \in 1 .. MaxPartitions,
             GenerateTopic(name, n) \/ AppendTopic(name, n)
      PROVE  /\ runs' = runs + 1
             /\ \A u \in metadata_file' : u \in metadata_file \/ u.id = runs + 1
  BY <1>3 DEF GenerateTopic, AppendTopic, RunTool, Registered
<1>4. \/ metadata_file' = metadata_file /\ runs' = runs
      \/ \E name \in Names, n \in 1 .. MaxPartitions :
             GenerateTopic(name, n) \/ AppendTopic(name, n)
  BY <1>2 DEF Next, vars, LaunchByHand, Load, Bind, Die, StartBroker, Make, Look, Open,
         StorageFails, Write, RemoveFile, RemoveDirectory, FindListener, End, Abandon
<1>5. \/ cluster_metadata' = cluster_metadata
      \/ \E b : cluster_metadata' = [cluster_metadata EXCEPT ![b] = {}]
      \/ \E b \in Brokers : cluster_metadata' = [cluster_metadata EXCEPT ![b] = metadata_file]
  BY DEF Next, vars, LaunchByHand, Load, Bind, Die, StartBroker, Make, Look, Open,
         StorageFails, Write, Begin, GenerateTopic, AppendTopic, RunTool, RemoveFile,
         RemoveDirectory, Generate, FindListener, End, Abandon
<1>6. QED
  BY <1>1, <1>3, <1>4, <1>5

LEMMA FreshStep ==
    ASSUME TypeOK, ProcessInv, ScriptInv, FreshInv, [Next]_vars
    PROVE  FreshInv'
<1>1. CASE fresh' = 0
  BY <1>1 DEF FreshInv
<1>2. ASSUME NEW b \in Brokers, Bind(b), port = Nobody,
             script # Idle, script.broker = b, script.alone
      PROVE  FreshInv'
  BY <1>2, OurBrokerBinds
<1>3. CASE fresh' = fresh /\ fresh # 0
  <2>1. PICK t \in Topic : FreshTopic(t)
    BY <1>3 DEF FreshInv
  <2>2. runs \in Nat /\ t.id \in Nat /\ t.id <= runs /\ metadata_file \subseteq Topic
    BY <2>1 DEF FreshTopic, TypeOK, Topic
  <2>3. Since(t, metadata_file') /\ t.id <= runs'
    <3>1. CASE metadata_file' = metadata_file /\ runs' = runs
      BY <2>1, <3>1 DEF FreshTopic
    <3>2. CASE /\ runs' = runs + 1
               /\ \A u \in metadata_file' : u \in metadata_file \/ u.id = runs + 1
      BY <2>1, <2>2, <3>2 DEF FreshTopic, Since
    <3>3. QED
      BY <1>3, <3>1, <3>2, MetadataMoves
  <2>4. \A b \in Brokers : Since(t, cluster_metadata'[b])
    BY <1>3, <2>1, MetadataMoves DEF FreshTopic, Since
  <2>5. handler' # Idle => handler'.id >= fresh
    <3>1. CASE Look \/ Open
      <4>1. handler # Idle /\ handler \in Handlers
        BY <3>1, HandlerType, StepsAreNotIdle DEF Look, Open, HandlerSteps
      <4>2. handler'.id = handler.id
        BY <3>1, <4>1 DEF Look, Open, Handlers
      <4>3. QED
        BY <2>1, <4>1, <4>2 DEF FreshTopic
    <3>2. ASSUME NEW p \in Partitions, Make(p)
          PROVE  handler'.id >= fresh
      <4>1. PICK u \in cluster_metadata[port] :
              /\ u.name = p[1]
              /\ handler' = [step |-> "made", part |-> p, id |-> u.id, base |-> 0, removed |-> 0]
        BY <3>2 DEF Make
      <4>2. port \in Brokers
        BY <3>2 DEF Make, TypeOK
      <4>3. QED
        BY <2>1, <4>1, <4>2 DEF FreshTopic, Since
    <3>3. CASE handler' = Idle \/ handler' = handler
      BY <2>1, <3>3 DEF FreshTopic
    <3>4. QED
      BY <3>1, <3>2, <3>3, HandlerMoves
  <2>6. \A p \in Partitions : p[1] = t.name /\ p[2] < t.partitions =>
            \A k \in DOMAIN log'[p] : log'[p][k].id >= fresh
    <3>1. CASE log' = log
      BY <2>1, <3>1 DEF FreshTopic
    <3>2. CASE RemoveFile
      <4>1. DOMAIN <<>> = {}
        OBVIOUS
      <4>2. \A p \in Partitions : log'[p] = <<>> \/ log'[p] = log[p]
        BY <3>2, RemoveFileEmpties
      <4>3. QED
        BY <2>1, <4>1, <4>2 DEF FreshTopic
    <3>3. CASE Write
      <4>1. handler # Idle
        BY <3>3, StepsAreNotIdle DEF Write, HandlerSteps
      <4>2. PICK record \in Record :
              /\ record.id = handler.id
              /\ log' = IF removed[handler.part] = handler.removed
                        THEN [log EXCEPT ![handler.part] = Append(@, record)] ELSE log
        BY <3>3, WriteAppends
      <4>3. ASSUME NEW p \in Partitions, p[1] = t.name /\ p[2] < t.partitions,
                   NEW k \in DOMAIN log'[p]
            PROVE  log'[p][k].id >= fresh
        <5>1. CASE log'[p] = log[p]
          BY <2>1, <4>3, <5>1 DEF FreshTopic
        <5>2. CASE p = handler.part /\ log'[p] = Append(log[p], record)
          <6>1. log[p] \in Seq(Record)
            BY DEF TypeOK
          <6>2. /\ DOMAIN log'[p] = 1 .. Len(log[p]) + 1 /\ Len(log[p]) \in Nat
                /\ \A i \in 1 .. Len(log[p]) : log'[p][i] = log[p][i]
                /\ log'[p][Len(log[p]) + 1] = record
                /\ DOMAIN log[p] = 1 .. Len(log[p])
            BY <5>2, <6>1, AppendProperties, LenProperties
          <6>3. record.id >= fresh
            BY <2>1, <4>1, <4>2 DEF FreshTopic
          <6>4. CASE k = Len(log[p]) + 1
            BY <6>2, <6>3, <6>4
          <6>5. CASE k \in 1 .. Len(log[p])
            BY <2>1, <4>3, <6>2, <6>5 DEF FreshTopic
          <6>6. QED
            BY <4>3, <6>2, <6>4, <6>5
        <5>3. log'[p] = log[p] \/ (p = handler.part /\ log'[p] = Append(log[p], record))
          BY <4>2 DEF TypeOK
        <5>4. QED
          BY <5>1, <5>2, <5>3
      <4>4. QED
        BY <4>3
    <3>4. QED
      BY <3>1, <3>2, <3>3, LogSteps
  <2>7. FreshTopic(t)'
    BY <1>3, <2>1, <2>3, <2>4, <2>5, <2>6 DEF FreshTopic
  <2>8. QED
    BY <2>7 DEF FreshInv
<1>4. CASE fresh' = fresh /\ fresh = 0
  BY <1>4 DEF FreshInv
<1>5. QED
  BY <1>1, <1>2, <1>3, <1>4, FreshMoves

\* While the script's broker, if any, has no port, nobody has.
LEMMA AloneNobodyListens ==
    ASSUME TypeOK, ProcessInv, AloneInv,
           script.broker = Nobody \/ process[script.broker] \in {"launched", "loaded"}
    PROVE  port = Nobody
<1>1. port # Nobody => port \in Brokers /\ process[port] = "serving" /\ Alive(port)
  BY DEF TypeOK, ProcessInv, Alive
<1>2. QED
  BY <1>1, DeploymentAssumption DEF AloneInv

\* Steps of the script itself.
LEMMA ScriptMoves ==
    ASSUME TypeOK, ProcessInv, ScriptInv, [Next]_vars,
           \/ \E name \in Names, n \in 1 .. MaxPartitions : Begin(name, n)
           \/ \E b \in Brokers : StartBroker(b)
           \/ RemoveFile \/ RemoveDirectory \/ Generate \/ FindListener \/ End \/ Abandon
    PROVE  ScriptInv'
<1> USE DEF disk, brokers
<1>1. runs \in Nat /\ MaxPartitions \in Nat /\ Nobody \notin Brokers
  BY DeploymentAssumption DEF TypeOK
<1>2. \A p \in Partitions : p[2] \in Nat
  BY <1>1 DEF Partitions
<1>3. ASSUME NEW name \in Names, NEW n \in 1 .. MaxPartitions, Begin(name, n)
      PROVE  ScriptInv'
  <2>1. /\ script'.id = runs + 1 /\ script'.partitions = n /\ script'.step = "file"
        /\ script'.broker = Nobody /\ script'.next = 0
        /\ script'.alone = (\A b \in Brokers : ~Alive(b))
        /\ fresh' = 0 /\ runs' = runs + 1 /\ process' = process /\ metadata_file' = {}
    BY <1>3 DEF Begin
  <2>2. EmptyBelow(script.name, script.next)'
    BY <1>2, <2>1 DEF EmptyBelow
  <2>3. script'.alone => AloneInv'
    BY <2>1, <2>2 DEF AloneInv, Alive
  <2>4. QED
    BY <1>1, <2>1, <2>3 DEF ScriptInv, Since
<1>4. CASE RemoveFile
  <2>1. script \in Scripts /\ script # Idle /\ script.step = "file" /\ script.next \in Nat
    BY <1>4, ScriptType, StepsAreNotIdle DEF RemoveFile, Scripts, ScriptSteps
  <2>2. /\ script'.step = "directory" /\ script'.next = script.next
        /\ script'.name = script.name /\ script'.id = script.id
        /\ script'.partitions = script.partitions /\ script'.broker = script.broker
        /\ script'.alone = script.alone
        /\ UNCHANGED <<metadata_file, process, cluster_metadata, runs, fresh>>
        /\ Ours' = Ours
    BY <1>4, <2>1 DEF RemoveFile, Scripts, Ours
  <2>3. ASSUME script.alone
        PROVE  EmptyBelow(script.name, script.next + 1)'
    <3>1. EmptyBelow(script.name, script.next)
      BY <2>1, <2>3 DEF ScriptInv, AloneInv
    <3>2. ASSUME NEW p \in Partitions, p[1] = script.name, p[2] < script.next + 1
          PROVE  log'[p] = <<>>
      <4>1. CASE p[2] < script.next
        BY <1>4, <3>1, <3>2, <4>1, RemoveFileEmpties DEF EmptyBelow
      <4>2. CASE p[2] = script.next
        <5>1. p = <<script.name, script.next>>
          BY <3>2, <4>2 DEF Partitions
        <5>2. QED
          BY <1>4, <5>1, RemoveFileEmpties
      <4>3. QED
        BY <1>2, <2>1, <3>2, <4>1, <4>2
    <3>3. QED
      BY <2>2, <3>2 DEF EmptyBelow
  <2>4. QED
    BY <2>1, <2>2, <2>3 DEF ScriptInv, AloneInv, Alive, Since
<1>5. CASE RemoveDirectory
  <2>1. script \in Scripts /\ script # Idle /\ script.step = "directory"
    BY <1>5, ScriptType, StepsAreNotIdle DEF RemoveDirectory, Scripts, ScriptSteps
  <2>2. CASE script' = Idle
    BY <2>2 DEF ScriptInv
  <2>3. CASE script' = [script EXCEPT !.step = "file", !.next = @ + 1]
    <3>1. /\ script'.step = "file" /\ script'.next = script.next + 1
          /\ script'.name = script.name /\ script'.id = script.id
          /\ script'.partitions = script.partitions /\ script'.broker = script.broker
          /\ script'.alone = script.alone /\ Ours' = Ours
      BY <2>1, <2>3 DEF Scripts, Ours
    <3>2. UNCHANGED <<metadata_file, process, cluster_metadata, runs, fresh, log>>
      BY <1>5 DEF RemoveDirectory
    <3>3. QED
      BY <2>1, <3>1, <3>2 DEF ScriptInv, AloneInv, Alive, EmptyBelow, Since
  <2>4. QED
    BY <1>5, <2>2, <2>3 DEF RemoveDirectory
<1>6. CASE Generate
  <2>1. script \in Scripts /\ script # Idle /\ script.step = "file"
        /\ script.next \in Nat /\ script.partitions \in Nat
    BY <1>6, ScriptType, StepsAreNotIdle DEF Generate, Scripts, ScriptSteps
  <2>2. script.partitions <= script.next
    BY <1>6, <2>1 DEF Generate, Doomed
  <2>3. /\ script'.step = "start"
        /\ script'.name = script.name /\ script'.id = script.id
        /\ script'.partitions = script.partitions /\ script'.broker = script.broker
        /\ script'.alone = script.alone
        /\ metadata_file' = {Ours}
        /\ UNCHANGED <<process, cluster_metadata, runs, fresh, log>>
    BY <1>6, <2>1 DEF Generate, Scripts, Ours
  <2>4. EmptyBelow(script.name, script.next) => EmptyBelow(script.name, script.partitions)
    BY <1>2, <2>1, <2>2 DEF EmptyBelow
  <2>5. EmptyBelow(script.name, script.partitions) => EmptyBelow(script.name, script.partitions)'
    BY <2>3 DEF EmptyBelow
  <2>6. Since(Ours, metadata_file)'
    <3>1. metadata_file' = {Ours'} /\ Ours'.id \in Nat
      BY <2>1, <2>3 DEF Ours, Scripts
    <3>2. QED
      BY <3>1 DEF Since
  <2>7. QED
    BY <2>1, <2>3, <2>4, <2>5, <2>6 DEF ScriptInv, AloneInv, Alive
<1>7. ASSUME NEW b \in Brokers, StartBroker(b)
      PROVE  ScriptInv'
  <2>1. script \in Scripts /\ script # Idle /\ script.step = "start" /\ script.broker = Nobody
    BY <1>7, ScriptType, StepsAreNotIdle DEF StartBroker, Scripts, ScriptSteps, ScriptInv
  <2>2. /\ script'.step = "wait"
        /\ script'.name = script.name /\ script'.id = script.id
        /\ script'.partitions = script.partitions /\ script'.broker = b
        /\ script'.alone = script.alone
        /\ UNCHANGED <<metadata_file, cluster_metadata, runs, fresh, log>>
        /\ process' = [process EXCEPT ![b] = "launched"]
    BY <1>7, <2>1 DEF StartBroker, Scripts, Launch
  <2>3. process'[b] = "launched" /\ \A c \in Brokers \ {b} : process'[c] = process[c]
    BY <2>2 DEF TypeOK
  <2>4. Ours' = Ours
    BY <2>2 DEF Ours
  <2>5. ASSUME script.alone
        PROVE  AloneInv'
    <3>1. AloneInv
      BY <2>1, <2>5 DEF ScriptInv
    <3>2. \A c \in Brokers : ~Alive(c)
      BY <1>1, <2>1, <3>1 DEF AloneInv
    <3>3. EmptyBelow(script.name, script.partitions)'
      BY <2>1, <2>2, <3>1 DEF AloneInv, EmptyBelow
    <3>4. Since(Ours, cluster_metadata[b])'
      BY <1>7, <2>2 DEF ProcessInv, StartBroker, Launch, Since
    <3>5. QED
      BY <2>2, <2>3, <3>2, <3>3, <3>4 DEF AloneInv, Alive
  <2>6. QED
    BY <2>1, <2>2, <2>4, <2>5 DEF ScriptInv, Since
<1>8. CASE FindListener
  <2>1. script \in Scripts /\ script # Idle /\ script.step = "wait" /\ port # Nobody
    BY <1>8, ScriptType, StepsAreNotIdle DEF FindListener, Scripts, ScriptSteps
  <2>2. /\ script'.step = "up"
        /\ script'.name = script.name /\ script'.id = script.id
        /\ script'.partitions = script.partitions /\ script'.broker = script.broker
        /\ script'.alone = script.alone
        /\ UNCHANGED <<metadata_file, process, runs>> /\ Ours' = Ours
    BY <1>8, <2>1 DEF FindListener, Scripts, Ours
  <2>3. ASSUME script.alone
        PROVE  AloneInv'
    <3>1. AloneInv
      BY <2>1, <2>3 DEF ScriptInv
    <3>2. process[script.broker] \notin {"launched", "loaded"}
      BY <2>1, <3>1, AloneNobodyListens
    <3>3. QED
      BY <2>2, <3>1, <3>2 DEF AloneInv, Alive
  <2>4. QED
    BY <2>1, <2>2, <2>3 DEF ScriptInv, Since
<1>9. CASE End \/ Abandon
  BY <1>9 DEF End, Abandon, ScriptInv
<1>10. QED
  BY <1>3, <1>4, <1>5, <1>6, <1>7, <1>8, <1>9

\* Steps of others, seen from the script.
OtherSteps ==
    \/ \E b \in Brokers : Load(b) \/ Bind(b) \/ Die(b)
    \/ \E p \in Partitions : Make(p)
    \/ Look \/ Open \/ StorageFails \/ Write
    \/ \E name \in Names, n \in 1 .. MaxPartitions :
           GenerateTopic(name, n) \/ AppendTopic(name, n)
    \/ UNCHANGED vars

LEMMA ProcessMoves ==
    ASSUME TypeOK, OtherSteps
    PROVE  /\ \A b \in Brokers :
                /\ Alive(b)' => Alive(b)
                /\ process'[b] = "launched" =>
                     process[b] = "launched" /\ cluster_metadata'[b] = cluster_metadata[b]
                /\ process'[b] = "loaded" =>
                     \/ process[b] = "loaded" /\ cluster_metadata'[b] = cluster_metadata[b]
                     \/ process[b] = "launched" /\ cluster_metadata'[b] = metadata_file
           /\ script' = script
<1> USE DEF disk, brokers
<1>1. /\ process \in [Brokers -> {"none", "launched", "loaded", "serving", "dead"}]
      /\ cluster_metadata \in [Brokers -> SUBSET Topic]
  BY DEF TypeOK
<1>2. ASSUME NEW c \in Brokers, Load(c), NEW b \in Brokers
      PROVE  /\ Alive(b)' => Alive(b)
             /\ process'[b] = "launched" =>
                  process[b] = "launched" /\ cluster_metadata'[b] = cluster_metadata[b]
             /\ process'[b] = "loaded" =>
                  \/ process[b] = "loaded" /\ cluster_metadata'[b] = cluster_metadata[b]
                  \/ process[b] = "launched" /\ cluster_metadata'[b] = metadata_file
             /\ script' = script
  BY <1>1, <1>2 DEF Load, Alive
<1>3. ASSUME NEW c \in Brokers, Bind(c) \/ Die(c), NEW b \in Brokers
      PROVE  /\ Alive(b)' => Alive(b)
             /\ process'[b] = "launched" =>
                  process[b] = "launched" /\ cluster_metadata'[b] = cluster_metadata[b]
             /\ process'[b] = "loaded" =>
                  process[b] = "loaded" /\ cluster_metadata'[b] = cluster_metadata[b]
             /\ script' = script
  BY <1>1, <1>3 DEF Bind, Die, Alive
<1>4. CASE UNCHANGED <<process, cluster_metadata, script>>
  BY <1>4 DEF Alive
<1>5. \/ \E b \in Brokers : Load(b) \/ Bind(b) \/ Die(b)
      \/ UNCHANGED <<process, cluster_metadata, script>>
  BY DEF OtherSteps, vars, Make, Look, Open, StorageFails, Write,
         GenerateTopic, AppendTopic, RunTool
<1>6. script' = script
  BY <1>5 DEF Load, Bind, Die
<1>7. QED
  BY <1>2, <1>3, <1>4, <1>5, <1>6

LEMMA OthersMove ==
    ASSUME TypeOK, ProcessInv, ScriptInv, [Next]_vars, OtherSteps
    PROVE  ScriptInv'
<1>1. script' = script
  BY ProcessMoves
<1>2. SUFFICES ASSUME script # Idle
               PROVE  ScriptInv'
  BY <1>1 DEF ScriptInv
<1>3. script \in Scripts /\ Ours' = Ours /\ Nobody \notin Brokers
  BY <1>1, <1>2, ScriptType, DeploymentAssumption DEF Ours
<1>4. runs \in Nat /\ runs' \in Nat /\ runs <= runs'
  BY TypeStep DEF OtherSteps, vars, disk, brokers, Load, Bind, Die, Make, Look, Open, StorageFails, Write,
         GenerateTopic, AppendTopic, RunTool, TypeOK
<1>5. Since(Ours, metadata_file)'
  <2>1. Since(Ours, metadata_file) /\ script.id \in 1 .. runs /\ Ours.id = script.id
    BY <1>2 DEF ScriptInv, Ours
  <2>2. CASE metadata_file' = metadata_file
    BY <1>3, <2>1, <2>2 DEF Since
  <2>3. ASSUME NEW name \in Names, NEW n \in 1 .. MaxPartitions,
               GenerateTopic(name, n) \/ AppendTopic(name, n)
        PROVE  Since(Ours, metadata_file)'
    <3>1. \A u \in metadata_file' : u \in metadata_file \/ u.id = runs + 1
      BY <2>3 DEF GenerateTopic, AppendTopic, Registered
    <3>2. QED
      BY <1>3, <1>4, <2>1, <3>1 DEF Since
  <2>4. QED
    BY <2>2, <2>3 DEF OtherSteps, vars, disk, brokers, Load, Bind, Die, Make, Look, Open,
                      StorageFails, Write
<1>6. script.broker = Nobody => fresh' = fresh
  BY <1>2, <1>3 DEF OtherSteps, vars, Load, Bind, Die, Make, Look, Open, StorageFails, Write,
              GenerateTopic, AppendTopic, RunTool
<1>7. ASSUME script.alone
      PROVE  AloneInv'
  <2> DEFINE b == script.broker
  <2>1. AloneInv
    BY <1>2, <1>7 DEF ScriptInv
  <2>2. \A c \in Brokers : Alive(c)' => c = b
    BY <2>1, ProcessMoves DEF AloneInv
  <2>3. ASSUME NEW n, EmptyBelow(script.name, n),
               b = Nobody \/ process[b] \in {"launched", "loaded"}
        PROVE  EmptyBelow(script.name, n)'
    <3>1. port = Nobody
      BY <2>1, <2>3, AloneNobodyListens
    <3>2. PICK name : name = script.name
      OBVIOUS
    <3>3. EmptyBelow(name, n)'
      BY <2>3, <3>1, <3>2, EmptyStays
    <3>4. QED
      BY <1>1, <3>2, <3>3 DEF EmptyBelow
  <2>4. /\ script.step = "file" => EmptyBelow(script.name, script.next)'
        /\ script.step = "directory" => EmptyBelow(script.name, script.next + 1)'
        /\ script.step = "start" => EmptyBelow(script.name, script.partitions)'
    <3>1. script.step \in {"file", "directory", "start"} => b = Nobody
      BY <1>2 DEF ScriptInv
    <3>2. ASSUME script.step = "file"
          PROVE  EmptyBelow(script.name, script.next)'
      <4>1. PICK n : n = script.next
        OBVIOUS
      <4>2. EmptyBelow(script.name, n)'
        BY <2>1, <2>3, <3>1, <3>2, <4>1 DEF AloneInv
      <4>3. QED
        BY <1>1, <4>1, <4>2 DEF EmptyBelow
    <3>3. ASSUME script.step = "directory"
          PROVE  EmptyBelow(script.name, script.next + 1)'
      <4>1. PICK n : n = script.next + 1
        OBVIOUS
      <4>2. EmptyBelow(script.name, n)'
        BY <2>1, <2>3, <3>1, <3>3, <4>1 DEF AloneInv
      <4>3. QED
        BY <1>1, <4>1, <4>2 DEF EmptyBelow
    <3>4. ASSUME script.step = "start"
          PROVE  EmptyBelow(script.name, script.partitions)'
      <4>1. PICK n : n = script.partitions
        OBVIOUS
      <4>2. EmptyBelow(script.name, n)'
        BY <2>1, <2>3, <3>1, <3>4, <4>1 DEF AloneInv
      <4>3. QED
        BY <1>1, <4>1, <4>2 DEF EmptyBelow
    <3>5. QED
      BY <3>2, <3>3, <3>4
  <2>5. script.step \in {"wait", "up"} => b \in Brokers
    BY <1>2 DEF ScriptInv
  <2>6. ASSUME script.step = "wait", process'[b] \in {"launched", "loaded"}
        PROVE  /\ EmptyBelow(script.name, script.partitions)'
               /\ Since(Ours, cluster_metadata'[b])
    <3>1. process[b] \in {"launched", "loaded"} /\ b \in Brokers
      BY <2>5, <2>6, ProcessMoves
    <3>2. EmptyBelow(script.name, script.partitions)
      BY <2>1, <2>6, <3>1 DEF AloneInv
    <3>3. PICK n : n = script.partitions
      OBVIOUS
    <3>4. EmptyBelow(script.name, n)'
      BY <2>3, <3>1, <3>2, <3>3
    <3>5. EmptyBelow(script.name, script.partitions)'
      BY <1>1, <3>3, <3>4 DEF EmptyBelow
    <3>6. Since(Ours, metadata_file) /\ Since(Ours, cluster_metadata[b])
      BY <1>2, <2>1, <2>6, <3>1 DEF ScriptInv, AloneInv
    <3>7. Since(Ours, cluster_metadata'[b])
      <4>1. \/ cluster_metadata'[b] = cluster_metadata[b]
            \/ cluster_metadata'[b] = metadata_file
        BY <2>6, <3>1, ProcessMoves
      <4>2. QED
        BY <3>6, <4>1 DEF Since
    <3>8. QED
      BY <3>5, <3>7
  <2>7. script.step = "up" => process'[b] \notin {"launched", "loaded"}
    BY <2>1, <2>5, ProcessMoves DEF AloneInv
  <2>8. QED
    BY <1>1, <1>3, <2>2, <2>4, <2>6, <2>7 DEF AloneInv, Since
<1>8. QED
  BY <1>1, <1>2, <1>3, <1>4, <1>5, <1>6, <1>7 DEF ScriptInv

\* A broker started by hand is company.
LEMMA LaunchMoves ==
    ASSUME TypeOK, ScriptInv, NEW b \in Brokers, LaunchByHand(b)
    PROVE  ScriptInv'
<1>1. CASE script = Idle
  BY <1>1 DEF LaunchByHand, ScriptInv
<1>2. CASE script # Idle
  <2>1. script \in Scripts
    BY <1>2, ScriptType
  <2>2. /\ script'.step = script.step /\ script'.id = script.id /\ script'.name = script.name
        /\ script'.partitions = script.partitions /\ script'.broker = script.broker
        /\ script'.alone = FALSE
        /\ UNCHANGED <<metadata_file, runs, fresh>> /\ Ours' = Ours
    BY <1>2, <2>1 DEF LaunchByHand, Scripts, Ours
  <2>3. QED
    BY <1>2, <2>2 DEF ScriptInv, Since
<1>3. QED
  BY <1>1, <1>2

LEMMA OldTopicsStep ==
    ASSUME OldTopicsInv, [Next]_vars
    PROVE  OldTopicsInv'
<1>1. TypeOK' /\ ProcessInv' /\ FreshInv'
  BY TypeStep, ProcessStep, FreshStep DEF OldTopicsInv
<1>2. \/ \E name \in Names, n \in 1 .. MaxPartitions : Begin(name, n)
      \/ \E b \in Brokers : StartBroker(b) \/ LaunchByHand(b)
      \/ RemoveFile \/ RemoveDirectory \/ Generate \/ FindListener \/ End \/ Abandon
      \/ OtherSteps
  BY DEF Next, OtherSteps
<1>3. ScriptInv'
  BY <1>2, ScriptMoves, OthersMove, LaunchMoves DEF OldTopicsInv
<1>4. QED
  BY <1>1, <1>3 DEF OldTopicsInv

LEMMA OldTopicsInitially ==
    ASSUME Init
    PROVE  OldTopicsInv
<1>1. TypeOK
  BY TypeInit
<1>2. ProcessInv /\ ScriptInv /\ FreshInv
  BY DEF Init, ProcessInv, ScriptInv, FreshInv
<1>3. QED
  BY <1>1, <1>2 DEF OldTopicsInv

LEMMA OldTopicsImplies ==
    ASSUME OldTopicsInv
    PROVE  NoRecordsOfOldTopics
<1>1. SUFFICES ASSUME port # Nobody, fresh # 0, NEW u \in cluster_metadata[port], u.id = fresh,
                      NEW i \in 0 .. u.partitions - 1,
                      NEW k \in DOMAIN log[<<u.name, i>>]
               PROVE  log[<<u.name, i>>][k].id >= u.id
  BY DEF NoRecordsOfOldTopics
<1>2. PICK t \in Topic : FreshTopic(t)
  BY <1>1 DEF OldTopicsInv, FreshInv
<1>3. port \in Brokers /\ u = t
  BY <1>1, <1>2 DEF OldTopicsInv, TypeOK, FreshTopic, Since
<1>4. t.name \in Names /\ t.partitions \in Nat /\ t.partitions <= MaxPartitions /\ MaxPartitions \in Nat
  BY <1>2, DeploymentAssumption DEF FreshTopic, Topic
<1>5. <<u.name, i>> \in Partitions
  BY <1>1, <1>3, <1>4 DEF Partitions
<1>6. PICK p \in Partitions : p = <<u.name, i>>
  BY <1>5
<1>7. p[1] = t.name /\ p[2] < t.partitions
  BY <1>1, <1>3, <1>4, <1>6
<1>8. QED
  BY <1>1, <1>2, <1>6, <1>7 DEF FreshTopic

\* Run with no broker alive, and none started by hand until its own listens,
\* start.sh gives its topic logs that hold nothing of a topic that had the
\* name before, and whatever happens then, topics registered by hand under
\* the same name included, this stays so until the script runs again.
THEOREM OldTopicsAreGone == Spec => []NoRecordsOfOldTopics
<1>1. Init => OldTopicsInv
  BY OldTopicsInitially
<1>2. OldTopicsInv /\ [Next]_vars => OldTopicsInv'
  BY OldTopicsStep
<1>3. OldTopicsInv => NoRecordsOfOldTopics
  BY OldTopicsImplies
<1>4. QED
  BY <1>1, <1>2, <1>3, PTL DEF Spec
=============================================================================
