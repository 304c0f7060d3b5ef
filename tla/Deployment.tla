----------------------------- MODULE Deployment -----------------------------
(***************************************************************************)
(* What tools/start.sh, the metadata tool and broker processes do to each  *)
(* other through the one data directory and the one port they share.  The  *)
(* script removes metadata and log directories, registers a topic anew and *)
(* starts a broker; brokers that are alive know nothing of it.             *)
(*                                                                         *)
(* Produce is split at every file operation, since another process can     *)
(* step in at each; one handler at a time is what Broker shows.  A batch   *)
(* is one record here, and the tool's writes are atomic (ClusterMetadata   *)
(* and MetadataBytes take them apart).                                     *)
(***************************************************************************)
EXTENDS Integers, Sequences, FiniteSets

CONSTANTS
    Names,          \* of topics
    MaxPartitions,  \* partitions of a topic
    Brokers,        \* processes of the broker that are ever started
    Nobody,         \* not a broker
    MaxRuns,        \* bound: runs of the script and of the tool
    MaxWrites       \* bound: records ever written

ASSUME DeploymentAssumption ==
    /\ Nobody \notin Brokers
    /\ MaxPartitions \in Nat /\ MaxRuns \in Nat /\ MaxWrites \in Nat

Partitions == Names \X (0 .. MaxPartitions)

\* A topic in the metadata, and a record: `id` is the topic it was sent to.
Topic  == [name : Names, id : Nat, partitions : Nat]
Record == [offset : Nat, id : Nat, number : Nat]

VARIABLES
    metadata_file,  \* the topics in the cluster metadata; none if it is not there
    dirs,           \* the log directories that are there
    files,          \* those that hold a log file
    log,            \* the records in it
    process,        \* of each broker: "none", "launched", "loaded", "serving", "dead"
    cluster_metadata, \* what it loaded
    port,           \* who listens on port 9092
    handler,        \* handle_produce_request of the broker that serves
    script,         \* where start.sh is
    runs,           \* how often the script or the tool was run
    writes,         \* how many records were written so far
    removed,        \* how often each log file was removed
    acked,          \* what producers were told
    fresh           \* the topic that start.sh registered with no broker alive, or 0

vars == <<metadata_file, dirs, files, log, process, cluster_metadata, port, handler,
          script, runs, writes, removed, acked, fresh>>
disk    == <<dirs, files, log, removed>>
brokers == <<process, cluster_metadata, port>>

HandlerSteps == {"made", "looked", "opened"}
ScriptSteps  == {"file", "directory", "start", "wait", "up"}

\* No request is being handled; no script runs.
Idle == [step |-> "idle"]

TypeOK ==
    /\ metadata_file \subseteq Topic
    /\ dirs \subseteq Partitions /\ files \subseteq dirs
    /\ log \in [Partitions -> Seq(Record)]
    /\ process \in [Brokers -> {"none", "launched", "loaded", "serving", "dead"}]
    /\ cluster_metadata \in [Brokers -> SUBSET Topic]
    /\ port \in Brokers \cup {Nobody}
    /\ handler \in {Idle} \cup [step : HandlerSteps, part : Partitions, id : Nat,
                                base : Nat, removed : Nat]
    /\ script \in {Idle} \cup [step : ScriptSteps, name : Names, id : Nat, partitions : Nat, next : Nat,
                               broker : Brokers \cup {Nobody}, alone : BOOLEAN]
    /\ runs \in Nat /\ writes \in Nat /\ fresh \in Nat
    /\ removed \in [Partitions -> Nat]
    /\ acked \subseteq [part : Partitions, record : Record, removed : Nat]

Alive(b) == process[b] \in {"launched", "loaded", "serving"}

-----------------------------------------------------------------------------
(* Processes of the broker: main() *)

\* By hand, or by start.sh.
Launch(b) ==
    /\ process[b] = "none"
    /\ process' = [process EXCEPT ![b] = "launched"]

LaunchByHand(b) ==
    /\ Launch(b)
    /\ script' = IF script = Idle THEN Idle ELSE [script EXCEPT !.alone = FALSE]
    /\ UNCHANGED <<metadata_file, disk, cluster_metadata, port, handler, runs, writes,
                   acked, fresh>>

\* get_cluster_metadata; a file that is not there is one without topics.
Load(b) ==
    /\ process[b] = "launched"
    /\ process' = [process EXCEPT ![b] = "loaded"]
    /\ cluster_metadata' = [cluster_metadata EXCEPT ![b] = metadata_file]
    /\ UNCHANGED <<metadata_file, disk, port, handler, script, runs, writes, acked, fresh>>

\* start_server; when the port is taken it raises, and the process ends.
Bind(b) ==
    /\ process[b] = "loaded"
    /\ IF port = Nobody
       THEN /\ port' = b
            /\ process' = [process EXCEPT ![b] = "serving"]
            /\ fresh' = IF script # Idle /\ script.broker = b /\ script.alone
                         THEN script.id ELSE fresh
            /\ UNCHANGED cluster_metadata
       ELSE /\ process' = [process EXCEPT ![b] = "dead"]
            /\ cluster_metadata' = [cluster_metadata EXCEPT ![b] = {}]
            /\ UNCHANGED <<port, fresh>>
    /\ UNCHANGED <<metadata_file, disk, handler, script, runs, writes,
                   acked>>

Die(b) ==
    /\ Alive(b)
    /\ process' = [process EXCEPT ![b] = "dead"]
    /\ port' = IF port = b THEN Nobody ELSE port
    /\ handler' = IF port = b THEN Idle ELSE handler
    /\ cluster_metadata' = [cluster_metadata EXCEPT ![b] = {}]
    /\ UNCHANGED <<metadata_file, disk, script, runs, writes, acked,
                   fresh>>

-----------------------------------------------------------------------------
(* handle_produce_request, one entry *)

\* is_valid, then os.makedirs.  A name that is registered twice has both
\* topics' partitions, and the record is for either.
Make(p) ==
    /\ port # Nobody
    /\ handler = Idle
    /\ \E t \in cluster_metadata[port] :
         /\ t.name = p[1] /\ p[2] < t.partitions
         /\ handler' = [step |-> "made", part |-> p, id |-> t.id, base |-> 0, removed |-> 0]
    /\ dirs' = dirs \cup {p}
    /\ UNCHANGED <<metadata_file, files, log, removed, brokers, script, runs, writes,
                   acked, fresh>>

\* log_end_offset.  (Definitions in the style of log_end_offset_ByCount are
\* faulty variants of the definition behind them, to see that a property fails
\* with them.)
log_end_offset_ByCount(p) == Len(log[p])
log_end_offset(p) ==
    IF log[p] = <<>> THEN 0 ELSE log[p][Len(log[p])].offset + 1

Look ==
    /\ handler.step = "made"
    /\ handler' = [handler EXCEPT !.step = "looked", !.base = log_end_offset(handler.part)]
    /\ UNCHANGED <<metadata_file, disk, brokers, script, runs, writes, acked, fresh>>

\* open(log_path, "ab") makes the file if need be, but not the directory.
CanOpen_Always(p) == TRUE
CanOpen(p) == p \in dirs
Open ==
    /\ handler.step = "looked"
    /\ CanOpen(handler.part)
    /\ handler' = [handler EXCEPT !.step = "opened", !.removed = removed[handler.part]]
    /\ files' = files \cup {handler.part}
    /\ UNCHANGED <<metadata_file, dirs, log, removed, brokers, script, runs, writes,
                   acked, fresh>>

\* FileNotFoundError, or any other OSError: the connection is dropped.
StorageFails ==
    /\ handler # Idle
    /\ handler' = Idle
    /\ UNCHANGED <<metadata_file, disk, brokers, script, runs, writes, acked, fresh>>

\* The write goes to the file that was opened, be it removed since or not.
Written_Truncates(records, record) == <<record>>
Written(records, record) == Append(records, record)

Write ==
    LET p == handler.part
        record == [offset |-> handler.base, id |-> handler.id, number |-> writes + 1]
    IN  /\ handler.step = "opened"
        /\ writes < MaxWrites
        /\ writes' = writes + 1
        /\ log' = IF removed[p] = handler.removed
                  THEN [log EXCEPT ![p] = Written(@, record)] ELSE log
        /\ acked' = acked \cup {[part |-> p, record |-> record, removed |-> handler.removed]}
        /\ handler' = Idle
        /\ UNCHANGED <<metadata_file, dirs, files, removed, brokers, script, runs, fresh>>

-----------------------------------------------------------------------------
(* tools/start.sh *)

\* rm of the metadata file.  Another run of the script may follow when this
\* one is over: its consumer runs until somebody stops it.
Begin(name, n) ==
    /\ script = Idle
    /\ runs < MaxRuns
    /\ runs' = runs + 1
    /\ metadata_file' = {}
    /\ script' = [step |-> "file", name |-> name, id |-> runs + 1,
                  partitions |-> n, next |-> 0, broker |-> Nobody, alone |-> \A b \in Brokers : ~Alive(b)]
    /\ fresh' = 0
    /\ UNCHANGED <<disk, brokers, handler, writes, acked>>

\* The partitions whose directories it removes: seq 0 $((PARTITIONS - 1)).
Doomed_ExceptLast(n) == 0 .. n - 2
Doomed(n) == 0 .. n - 1

\* rm -rf unlinks the file, then the directory, and fails if there is a file
\* again; then the script fails as well (set -e).
RemoveFile ==
    LET p == <<script.name, script.next>>
    IN  /\ script.step = "file" /\ script.next \in Doomed(script.partitions)
        /\ files' = files \ {p}
        /\ log' = [log EXCEPT ![p] = <<>>]
        /\ removed' = [removed EXCEPT ![p] = @ + 1]
        /\ script' = [script EXCEPT !.step = "directory"]
        /\ UNCHANGED <<metadata_file, dirs, brokers, handler, runs, writes, acked, fresh>>

RemoveDirectory ==
    LET p == <<script.name, script.next>>
    IN  /\ script.step = "directory"
        /\ IF p \in files
           THEN /\ script' = Idle
                /\ UNCHANGED dirs
           ELSE /\ script' = [script EXCEPT !.step = "file", !.next = @ + 1]
                /\ dirs' = dirs \ {p}
        /\ UNCHANGED <<metadata_file, files, log, removed, brokers, handler, runs, writes,
                       acked, fresh>>

\* The tool's generate.
Generate ==
    /\ script.step = "file" /\ script.next \notin Doomed(script.partitions)
    /\ metadata_file' = {[name |-> script.name, id |-> script.id,
                          partitions |-> script.partitions]}
    /\ script' = [script EXCEPT !.step = "start"]
    /\ UNCHANGED <<disk, brokers, handler, runs, writes, acked, fresh>>

StartBroker(b) ==
    /\ script.step = "start"
    /\ Launch(b)
    /\ script' = [script EXCEPT !.step = "wait", !.broker = b]
    /\ UNCHANGED <<metadata_file, disk, cluster_metadata, port, handler, runs, writes,
                   acked, fresh>>

\* lsof finds a listener, whoever it is: "Broker is up (pid $BROKER_PID)".
FindListener ==
    /\ script.step = "wait"
    /\ port # Nobody
    /\ script' = [script EXCEPT !.step = "up"]
    /\ UNCHANGED <<metadata_file, disk, brokers, handler, runs, writes, acked, fresh>>

\* The script ends: after ten seconds without a listener the consumer finds
\* none either; else somebody stops it.  The trap kills the script's broker.
End ==
    /\ script.step \in {"wait", "up"}
    /\ script' = Idle
    /\ LET b == script.broker
       IN  IF Alive(b)
           THEN /\ process' = [process EXCEPT ![b] = "dead"]
                /\ cluster_metadata' = [cluster_metadata EXCEPT ![b] = {}]
                /\ port' = IF port = b THEN Nobody ELSE port
                /\ handler' = IF port = b THEN Idle ELSE handler
           ELSE UNCHANGED <<brokers, handler>>
    /\ UNCHANGED <<metadata_file, disk, runs, writes, acked, fresh>>

\* It is killed, at whatever step, and its trap with it.
Abandon ==
    /\ script # Idle
    /\ script' = Idle
    /\ UNCHANGED <<metadata_file, disk, brokers, handler, runs, writes, acked, fresh>>

-----------------------------------------------------------------------------
(* tools/create_cluster_metadata.py, run by hand, at any time. *)

Registered(name, n) == [name |-> name, id |-> runs + 1, partitions |-> n]

RunTool ==
    /\ runs < MaxRuns
    /\ runs' = runs + 1
    /\ UNCHANGED <<disk, brokers, handler, script, writes, acked, fresh>>

\* generate: the file holds this topic and no other.
GenerateTopic(name, n) ==
    /\ RunTool
    /\ metadata_file' = {Registered(name, n)}

\* --append, also for a name that is registered already.
AppendTopic(name, n) ==
    /\ RunTool
    /\ metadata_file' = metadata_file \cup {Registered(name, n)}

Init ==
    /\ metadata_file = {}
    /\ dirs = {} /\ files = {}
    /\ log = [p \in Partitions |-> <<>>]
    /\ process = [b \in Brokers |-> "none"]
    /\ cluster_metadata = [b \in Brokers |-> {}]
    /\ port = Nobody
    /\ handler = Idle
    /\ script = Idle
    /\ runs = 0 /\ writes = 0 /\ fresh = 0
    /\ removed = [p \in Partitions |-> 0]
    /\ acked = {}

Next ==
    \/ \E b \in Brokers : LaunchByHand(b) \/ Load(b) \/ Bind(b) \/ Die(b) \/ StartBroker(b)
    \/ \E p \in Partitions : Make(p)
    \/ Look \/ Open \/ StorageFails \/ Write
    \/ \E name \in Names, n \in 1 .. MaxPartitions :
           Begin(name, n) \/ GenerateTopic(name, n) \/ AppendTopic(name, n)
    \/ RemoveFile \/ RemoveDirectory \/ Generate \/ FindListener \/ End \/ Abandon

Spec == Init /\ [][Next]_vars

-----------------------------------------------------------------------------

\* Whatever the script removes between the file operations of a produce
\* request, no offset of a log is given out twice and none is skipped after
\* the first: offsets follow on from that of the first record.
OffsetsFollowOn ==
    \A p \in Partitions : \A i \in 1 .. Len(log[p]) - 1 :
        log[p][i + 1].offset = log[p][i].offset + 1

\* What a producer was told is stored is stored under that offset, until the
\* script removes the file it was stored in.
AckedUntilRemoved ==
    \A a \in acked : a.removed = removed[a.part] =>
        \E i \in DOMAIN log[a.part] : log[a.part][i] = a.record

\* If no broker was alive when start.sh ran, and none was started by hand
\* before its own listened, then until it runs again the logs of the topic it
\* registered hold no record of a topic that had the name before.  Records of
\* one registered under that name later, by hand, go to the same logs.
NoRecordsOfOldTopics ==
    port # Nobody /\ fresh # 0 =>
        \A t \in cluster_metadata[port] : t.id = fresh =>
            \A i \in 0 .. t.partitions - 1 :
                \A k \in DOMAIN log[<<t.name, i>>] : log[<<t.name, i>>][k].id >= t.id
=============================================================================
