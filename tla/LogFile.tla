------------------------------- MODULE LogFile ------------------------------
(***************************************************************************)
(* One partition's log file, with the layout that app/tools.py scans, and  *)
(* what the scans make of a file whose last write was cut short: by a full *)
(* disk (OSError; the broker lives on) or by the death of the process.     *)
(*                                                                         *)
(* A file is a sequence of cells.  A cell stands for a field as wide as it *)
(* is on disk; a batch is                                                  *)
(*     base_offset (bytes 0..8), batch_length (8..12),                     *)
(*     record_count with all that precedes it (12..61), the records        *)
(* and batch_length counts the cells that follow it.  A write is cut short *)
(* between two cells.  A scan that has lost its place takes whatever cell  *)
(* it meets for the field it looks for, so all cells are natural numbers;  *)
(* what it meets on disk depends on the widths too, so of such scans only  *)
(* what holds for all Data and Cuts carries over.                          *)
(***************************************************************************)
EXTENDS PartitionLog, FiniteSets

CONSTANTS
    Data,           \* cells that records are made of
    MaxRecords,     \* bound: cells of records in a batch
    MaxCells,       \* bound: no append to a file of so many cells
    Cuts            \* how many cells a write that is cut short can leave

ASSUME LogFileAssumption ==
    /\ Data \subseteq Nat
    /\ MaxRecords \in Nat \ {0}
    /\ MaxCells \in Nat
    /\ Cuts \subseteq Nat \ {0}

VARIABLES
    file,           \* the cells of the log file
    batches,        \* the appends answered without error, in order
    intact,         \* how many of them precede the first odd write
    odd             \* some append left less or other than a whole batch

vars == <<file, batches, intact, odd>>

\* A batch as the producer sends it; its records' first cell tells them apart.
Sent == [count : {1, 2}, records : UNION {[1 .. n -> Data] : n \in 1 .. MaxRecords}]

\* handle_produce_request overwrites the base offset and appends the rest.
Encode(base, sent) ==
    <<base, 1 + Len(sent.records), sent.count>> \o sent.records

-----------------------------------------------------------------------------
(* The two scans. *)

base_offset(f, pos)  == f[pos + 1]
record_count(f, pos) == f[pos + 3]
\* (Definitions in the style of next_pos_LengthOnly are faulty variants of the
\* definition that follows them, to see that a property fails with them.)
next_pos_LengthOnly(f, pos) == pos + 1 + f[pos + 2]
next_pos(f, pos)     == pos + 2 + f[pos + 2]

\* The positions at which the loop finds a header: it stops when the file
\* ends before the record count, and never asks for the records.
Headers(f) ==
    LET visit[pos \in Nat] ==
          IF pos + 3 > Len(f) THEN {} ELSE {pos} \cup visit[next_pos(f, pos)]
    IN  visit[0]

\* log_end_offset: the last header decides.
log_end_offset_LastRecord(f) ==
    IF Headers(f) = {} THEN -1
    ELSE LET last == CHOOSE p \in Headers(f) : \A q \in Headers(f) : q <= p
         IN  base_offset(f, last) + record_count(f, last) - 1
log_end_offset(f) ==
    IF Headers(f) = {} THEN 0
    ELSE LET last == CHOOSE p \in Headers(f) : \A q \in Headers(f) : q <= p
         IN  base_offset(f, last) + record_count(f, last)

\* read_log_from_offset: from the first batch that ends after fetch_offset.
read_log_from_offset(f, fetch_offset) ==
    LET hits == {p \in Headers(f) : base_offset(f, p) + record_count(f, p) > fetch_offset}
        first == CHOOSE p \in hits : \A q \in hits : p <= q
    IN  IF hits = {} THEN <<>> ELSE SubSeq(f, first + 1, Len(f))

-----------------------------------------------------------------------------

Init ==
    /\ file = <<>>
    /\ batches = <<>>
    /\ intact = 0
    /\ odd = FALSE

\* The bound on appends.
MoreWrites == Len(file) < MaxCells

\* The append succeeds, and the producer is told the base offset.
Produce(sent) ==
    /\ MoreWrites
    /\ LET base == log_end_offset(file)
       IN  /\ file' = file \o Encode(base, sent)
           /\ batches' = Append(batches, [base |-> base, count |-> sent.count,
                                          src |-> sent.records])
    /\ intact' = IF odd THEN intact ELSE intact + 1
    /\ UNCHANGED odd

\* Only a part of it gets to the disk and nobody is answered.  If nothing
\* does, the file is as it was.
ProduceTorn(sent, written) ==
    /\ MoreWrites
    /\ written < 3 + Len(sent.records)
    /\ file' = file \o SubSeq(Encode(log_end_offset(file), sent), 1, written)
    /\ odd' = TRUE
    /\ UNCHANGED <<batches, intact>>

\* An entry without records: raw[0:8] = base_offset on an empty bytearray
\* leaves eight bytes to append, and the answer is a success.
ProduceNothing ==
    /\ MoreWrites
    /\ file' = Append(file, log_end_offset(file))
    /\ odd' = TRUE
    /\ UNCHANGED <<batches, intact>>

Next ==
    \/ \E sent \in Sent :
         \/ Produce(sent)
         \/ \E written \in Cuts : ProduceTorn(sent, written)
    \/ ProduceNothing

Spec == Init /\ [][Next]_vars

-----------------------------------------------------------------------------

TypeOK ==
    /\ file \in Seq(Nat)
    /\ batches \in Seq(Batch(UNION {[1 .. n -> Data] : n \in 1 .. MaxRecords}))
    /\ intact \in 0 .. Len(batches)
    /\ odd \in BOOLEAN

\* The bytes of answered batches.
EncodeAll(bs) ==
    LET enc[i \in 0 .. Len(bs)] ==
          IF i = 0 THEN <<>>
          ELSE enc[i - 1] \o Encode(bs[i].base, [count |-> bs[i].count, records |-> bs[i].src])
    IN  enc[Len(bs)]

\* On a file of whole batches the scans of app/tools.py compute, byte by
\* byte, what module PartitionLog says of the sequence of batches: this is
\* what entitles module Broker to use those operators.
ScansAgree ==
    ~odd =>
        /\ log_end_offset(file) = LogEndOffset(batches)
        /\ \A o \in 0 .. LogEndOffset(batches) + 1 :
             read_log_from_offset(file, o) = EncodeAll(ReadLogFrom(batches, o))

\* Whatever happened to later writes, records acknowledged before the first
\* odd write are found at their offsets: the answer to a fetch of any of
\* them begins with the batch that holds it.
EarlierBatchesStayReadable ==
    \A i \in 1 .. intact :
        LET b == batches[i]
            bytes == Encode(b.base, [count |-> b.count, records |-> b.src])
        IN  \A o \in b.base .. EndOffset(b) - 1 :
              LET read == read_log_from_offset(file, o)
              IN  Len(read) >= Len(bytes) /\ SubSeq(read, 1, Len(bytes)) = bytes

\* The docstring of log_end_offset: it is the next offset after the last
\* record in the log, so no acknowledged record lies at or beyond it.
EndIsAfterLastRecord ==
    \A i \in DOMAIN batches : EndOffset(batches[i]) <= log_end_offset(file)
=============================================================================
