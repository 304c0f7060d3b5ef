---------------------------- MODULE PartitionLog ----------------------------
(***************************************************************************)
(* One partition's log file <dir>/<topic>-<id>/00000000000000000000.log,   *)
(* at the level of whole record batches: the file is the sequence of its   *)
(* batches.  A batch keeps the three things the broker reads or writes of  *)
(* it: base_offset (bytes 0..8, which handle_produce_request overwrites),  *)
(* record_count (bytes 57..61, which the producer filled in) and, for the  *)
(* bytes it never looks at, `src`, the produce entry the batch came from.  *)
(*                                                                         *)
(* The file's layout, and what the same two scans compute on a file that   *)
(* holds an incomplete batch, is the business of module LogFile, which     *)
(* shows that on complete batches its byte scans compute these operators.  *)
(***************************************************************************)
EXTENDS Integers, Sequences

\* The batches of produce entries drawn from Sources.
Batch(Sources) == [base: Nat, count: Nat \ {0}, src: Sources]

\* The offset after the last record of a batch.
EndOffset(b) == b.base + b.count

\* app/tools.py log_end_offset: each batch overwrites `offset`, so the last
\* one decides; a missing or empty file gives 0.
LogEndOffset(log) == IF log = <<>> THEN 0 ELSE EndOffset(log[Len(log)])

\* (ReadLogFrom_ByBase is a faulty variant: a definition named like this is
\* there to see that a property of Broker fails with it, and is not used.)
\* app/tools.py read_log_from_offset: the suffix of the file that starts at
\* the first batch with a record at or after fetch_offset.
ReadLogFrom_ByBase(log, fetch_offset) ==
    SelectSeq(log, LAMBDA b : b.base >= fetch_offset)
ReadLogFrom(log, fetch_offset) ==
    LET hits  == {i \in DOMAIN log : EndOffset(log[i]) > fetch_offset}
        first == CHOOSE i \in hits : \A j \in hits : i <= j
    IN  IF hits = {} THEN <<>> ELSE SubSeq(log, first, Len(log))

-----------------------------------------------------------------------------

\* What the offsets of a log must look like: they start at 0 and each batch
\* begins where the one before it ended, so every offset below the end
\* belongs to one batch and to one only.
Contiguous(log) ==
    \A i \in DOMAIN log :
        log[i].base = IF i = 1 THEN 0 ELSE EndOffset(log[i - 1])

\* The batch holds the record at this offset.
Covers(b, offset) == b.base <= offset /\ offset < EndOffset(b)
=============================================================================
