----------------------------- MODULE CommitLog ------------------------------
(***************************************************************************)
(* What the broker promises about its partitions, with neither connections *)
(* nor handlers, processes or files.                                       *)
(*                                                                         *)
(* A partition is a stream of records that only grows.  The records of a   *)
(* produce entry go to the end of one stream, all at once and at most      *)
(* once.  Now and then clients are told facts about the streams.  All the  *)
(* facts of one answer hold at one instant: the one at which it is given.  *)
(* Whoever is told that an entry was refused can count on it for good.     *)
(***************************************************************************)
EXTENDS Naturals, Sequences

CONSTANTS
    Partitions,
    Entries         \* produce entries, and the questions answers belong to

VARIABLES
    stream,         \* stream[p][o + 1] is the record at offset o, <<entry, n>>
    told            \* all the facts clients were told

Record == Entries \X (Nat \ {0})

\* by: the entry of the request that the fact answers.
Fact ==
    [kind : {"stored"}, by : Entries, tp : Partitions, offset : Nat, count : Nat \ {0}]
      \cup
    [kind : {"refused"}, by : Entries]
      \cup
    [kind : {"end"}, by : Entries, tp : Partitions, end : Nat]
      \cup
    [kind : {"read"}, by : Entries, tp : Partitions, from : Nat, records : Seq(Record)]

Published(entry) ==
    \E p \in Partitions : \E i \in DOMAIN stream[p] : stream[p][i][1] = entry

Holds(fact) ==
    CASE fact.kind = "stored" ->
           /\ fact.offset + fact.count <= Len(stream[fact.tp])
           /\ \A n \in 1 .. fact.count :
                stream[fact.tp][fact.offset + n] = <<fact.by, n>>
      [] fact.kind = "refused" -> ~Published(fact.by)
      [] fact.kind = "end" -> fact.end = Len(stream[fact.tp])
      [] fact.kind = "read" ->
           fact.records = SubSeq(stream[fact.tp], fact.from + 1, Len(stream[fact.tp]))

Init ==
    /\ stream = [p \in Partitions |-> <<>>]
    /\ told = {}

\* The records of one entry, which was not published nor refused before.
Publish(p, entry, count) ==
    /\ ~Published(entry)
    /\ \A fact \in told : fact.by # entry
    /\ stream' = [stream EXCEPT ![p] = @ \o [n \in 1 .. count |-> <<entry, n>>]]
    /\ UNCHANGED told

\* One answer: the facts that were not told before.
Tell ==
    /\ told \subseteq told'
    /\ \A fact \in told' \ told : Holds(fact)
    /\ UNCHANGED stream

\* The entries of an append are seen in the stream it leaves behind.
Grown(p) == Len(stream'[p]) - Len(stream[p])

Next ==
    \/ Tell
    \/ \E p \in Partitions :
         /\ Len(stream'[p]) > Len(stream[p])
         /\ Publish(p, stream'[p][Len(stream'[p])][1], Grown(p))

Spec == Init /\ [][Next]_<<stream, told>>
=============================================================================
