------------------------------- MODULE Framing ------------------------------
(***************************************************************************)
(* One direction of a connection, byte by byte: a client writes messages   *)
(* with their size in front, TCP delivers them in pieces and may end       *)
(* anywhere, and Reader.read_full_message of app/connection.py waits for   *)
(* exactly as many bytes as it needs.  Broker takes this for granted: its  *)
(* ReadMessage takes one whole message, its ReadEnds the end of file.      *)
(***************************************************************************)
EXTENDS Integers, Sequences, SequencesExt

CONSTANTS
    Payloads,       \* what messages can say: sequences of bytes
    MaxMessages     \* bound: messages that the client writes

Byte == 0 .. 255

ASSUME FramingAssumption ==
    /\ Payloads \subseteq Seq(Byte)
    \* the length of a message fits into the four bytes in front of it
    /\ \A payload \in Payloads : Len(payload) \div (256 * 256 * 256) < 256
    /\ MaxMessages \in Nat

VARIABLES
    sent,           \* the messages written by the client
    outgoing,       \* bytes of them that have not arrived
    buffer,         \* bytes that have arrived and were not read
    stream,         \* "open", "ended" by an end of file, or "reset"
    size,           \* the size of the message being read; Unknown before that
    reading,        \* whether the task is still in its loop
    received        \* the messages read

vars == <<sent, outgoing, buffer, stream, size, reading, received>>

MESSAGE_SIZE_BYTES == 4
Unknown == -1

\* int.from_bytes(..., "big") of four bytes, and what the client writes.
\* (from_bytes_OfFrame and other definitions of this form are faulty variants
\* of the definition behind them, to see that a property fails with them.)
from_bytes_OfFrame(b) == ((b[1] * 256 + b[2]) * 256 + b[3]) * 256 + b[4] - 4
from_bytes(b) == ((b[1] * 256 + b[2]) * 256 + b[3]) * 256 + b[4]
Frame(payload) ==
    LET n == Len(payload)
        q == n \div 256
        r == q \div 256
    IN  <<r \div 256, r % 256, q % 256, n % 256>> \o payload

TypeOK ==
    /\ sent \in Seq(Payloads) /\ received \in Seq(Seq(Byte))
    /\ outgoing \in Seq(Byte) /\ buffer \in Seq(Byte)
    /\ stream \in {"open", "ended", "reset"} /\ reading \in BOOLEAN
    /\ size \in Nat \cup {Unknown}

-----------------------------------------------------------------------------
(* The client and the network. *)

SendMessage(payload) ==
    /\ stream = "open"
    /\ Len(sent) < MaxMessages
    /\ sent' = Append(sent, payload)
    /\ outgoing' = outgoing \o Frame(payload)
    /\ UNCHANGED <<buffer, stream, size, reading, received>>

\* The next n bytes arrive together, whatever messages they belong to.
Arrive(n) ==
    /\ stream = "open"
    /\ n \in 1 .. Len(outgoing)
    /\ buffer' = buffer \o SubSeq(outgoing, 1, n)
    /\ outgoing' = SubSeq(outgoing, n + 1, Len(outgoing))
    /\ UNCHANGED <<sent, stream, size, reading, received>>

\* The client closes, or dies with bytes still to be sent.
Close ==
    /\ stream = "open"
    /\ stream' = "ended"
    /\ outgoing' = <<>>
    /\ UNCHANGED <<sent, buffer, size, reading, received>>

Reset ==
    /\ stream # "reset"
    /\ stream' = "reset"
    /\ outgoing' = <<>>
    /\ UNCHANGED <<sent, buffer, size, reading, received>>

-----------------------------------------------------------------------------
(* Reader *)

Rest(n) == SubSeq(buffer, n + 1, Len(buffer))

\* readexactly raises at once when the connection was reset.
Waiting == reading /\ stream # "reset"

\* read_full_message: the first _read_exactly.
ReadSize ==
    /\ Waiting /\ size = Unknown
    /\ Len(buffer) >= MESSAGE_SIZE_BYTES
    /\ size' = from_bytes(SubSeq(buffer, 1, MESSAGE_SIZE_BYTES))
    /\ buffer' = Rest(MESSAGE_SIZE_BYTES)
    /\ UNCHANGED <<sent, outgoing, stream, reading, received>>

\* The second one.
ReadPayload_KeepsSize ==
    /\ Waiting /\ size > 0
    /\ Len(buffer) >= size
    /\ received' = Append(received, SubSeq(buffer, 1, size))
    /\ buffer' = Rest(size)
    /\ UNCHANGED <<sent, outgoing, stream, size, reading>>
ReadPayload ==
    /\ Waiting /\ size > 0
    /\ Len(buffer) >= size
    /\ received' = Append(received, SubSeq(buffer, 1, size))
    /\ buffer' = Rest(size)
    /\ size' = Unknown
    /\ UNCHANGED <<sent, outgoing, stream, reading>>

\* No bytes asked for are no bytes read: _read_exactly raises EOFError.
ReadNothing ==
    /\ Waiting /\ size = 0
    /\ reading' = FALSE
    /\ UNCHANGED <<sent, outgoing, buffer, stream, size, received>>

\* IncompleteReadError, when the rest can no longer come; ConnectionResetError,
\* whatever has come.
Needed_KeepsSize == IF size = Unknown THEN 0 ELSE size
Needed == IF size = Unknown THEN MESSAGE_SIZE_BYTES ELSE size
Incomplete_AtEof == stream = "ended"
Incomplete == stream = "ended" /\ Len(buffer) < Needed
ReadEnds ==
    /\ reading
    /\ Incomplete \/ stream = "reset"
    /\ reading' = FALSE
    /\ UNCHANGED <<sent, outgoing, buffer, stream, size, received>>

Read == ReadSize \/ ReadPayload \/ ReadNothing \/ ReadEnds

Init ==
    /\ sent = <<>> /\ outgoing = <<>> /\ buffer = <<>> /\ received = <<>>
    /\ stream = "open"
    /\ size = Unknown
    /\ reading = TRUE

Next ==
    \/ \E payload \in Payloads : SendMessage(payload)
    \/ \E n \in 1 .. Len(outgoing) : Arrive(n)
    \/ Close
    \/ Reset
    \/ Read

Spec == Init /\ [][Next]_vars
\* asyncio resumes a task whose bytes are there, or whose stream has ended.
FairSpec == Spec /\ WF_vars(Read)

-----------------------------------------------------------------------------

\* However the bytes are cut into pieces, messages are read as they were
\* written, one by one and in order.
MessagesAsSent == IsPrefix(received, sent)

\* The messages that have arrived whole, up to the first empty one.
Arrived ==
    LET lengths[k \in 0 .. Len(sent)] ==
          IF k = 0 THEN 0 ELSE lengths[k - 1] + Len(Frame(sent[k]))
        lost(k) == lengths[k] - lengths[Len(received)]
                     > Len(buffer) + IF size = Unknown THEN 0 ELSE MESSAGE_SIZE_BYTES
    IN  {k \in Len(received) .. Len(sent) :
           ~lost(k) /\ \A i \in 1 .. k : sent[i] # <<>>}

\* The end of the stream takes no message with it that came before it:
\* pipelined requests are handled although the client has closed already.
\* (A reset does take them.)
NothingLostAtTheEnd ==
    ~reading /\ stream # "reset" => \A k \in Arrived : k <= Len(received)

\* A message that has arrived is read in the end, and a stream that has ended
\* ends the task.
ArrivedMessagesAreRead ==
    /\ \A k \in 1 .. MaxMessages : k \in Arrived ~> Len(received) >= k \/ stream = "reset"
    /\ stream # "open" ~> ~reading
=============================================================================
