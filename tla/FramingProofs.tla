---------------------------- MODULE FramingProofs ---------------------------
(***************************************************************************)
(* Theorems about Framing, for any messages and however they are cut.      *)
(*                                                                         *)
(* Where a message begins is a sum over those before it.  The invariant    *)
(* does not count: it says that what is buffered and what is still to come *)
(* are together the frames of the messages that were not read.             *)
(* (PartitionLogProofs is here for LeastElement.)                          *)
(***************************************************************************)
EXTENDS Framing, PartitionLogProofs

\* frames[k] is all that was written behind message k.
Frames(msgs, frames) ==
    /\ frames \in [0 .. Len(msgs) -> Seq(Byte)]
    /\ frames[Len(msgs)] = <<>>
    /\ \A k \in 1 .. Len(msgs) : frames[k - 1] = Frame(msgs[k]) \o frames[k]

\* What the task has still to read of it: behind a size, the message first.
Unread(frames) ==
    IF size = Unknown THEN frames[Len(received)]
    ELSE sent[Len(received) + 1] \o frames[Len(received) + 1]

StreamInv ==
    \E frames, missing :
      /\ Frames(sent, frames)
      /\ missing \in Seq(Byte)
      /\ stream = "open" => missing = outgoing
      /\ buffer \o missing = Unread(frames)

\* The task is behind the messages it has read, and in front of the next one
\* or between its size and itself.
PlaceInv ==
    /\ Len(received) <= Len(sent)
    /\ \A i \in 1 .. Len(received) : received[i] = sent[i]
    /\ size # Unknown => /\ Len(received) < Len(sent)
                         /\ size = Len(sent[Len(received) + 1])

\* Why the loop was left.
EndInv ==
    ~reading => \/ stream = "reset"
                \/ size = 0
                \/ stream = "ended" /\ Len(buffer) < Needed

IInv == TypeOK /\ PlaceInv /\ StreamInv /\ EndInv

-----------------------------------------------------------------------------
(* Sequences of bytes. *)

LEMMA InTheSecond ==
    ASSUME NEW S, NEW s \in Seq(S), NEW t \in Seq(S), NEW i \in 1 .. Len(t)
    PROVE  (s \o t)[Len(s) + i] = t[i]
<1>1. PICK j : j = Len(s) + i
  OBVIOUS
<1>2. j \in 1 .. Len(s) + Len(t) /\ ~(j <= Len(s)) /\ j - Len(s) = i
  BY <1>1, LenProperties
<1>3. QED
  BY <1>1, <1>2, ConcatProperties

LEMMA Cancelled ==
    ASSUME NEW S, NEW a \in Seq(S), NEW b \in Seq(S), NEW c \in Seq(S), NEW d \in Seq(S),
           a \o b = c \o d, Len(a) = Len(c)
    PROVE  a = c /\ b = d
<1>1. /\ Len(a) \in Nat /\ Len(b) \in Nat /\ Len(d) \in Nat
      /\ Len(a) + Len(b) = Len(c) + Len(d)
  BY LenProperties, ConcatProperties
<1>2. Len(b) = Len(d)
  BY <1>1
<1>3. ASSUME NEW i \in 1 .. Len(a)
      PROVE  a[i] = c[i]
  <2>1. i \in 1 .. Len(a) + Len(b) /\ i <= Len(a)
    BY <1>1
  <2>2. (a \o b)[i] = a[i] /\ (c \o d)[i] = c[i]
    BY <1>2, <2>1, ConcatProperties
  <2>3. QED
    BY <2>2
<1>4. ASSUME NEW i \in 1 .. Len(b)
      PROVE  b[i] = d[i]
  <2>1. PICK j : j = Len(a) + i
    OBVIOUS
  <2>2. (a \o b)[j] = b[i]
    BY <2>1, InTheSecond
  <2>3. (c \o d)[j] = d[i]
    BY <1>2, <2>1, InTheSecond
  <2>4. a \o b = c \o d
    OBVIOUS
  <2>5. QED
    BY <2>2, <2>3, <2>4
<1>5. QED
  BY <1>2, <1>3, <1>4, SeqEqual

\* A sequence is cut in two without losing anything.
LEMMA CutInTwo ==
    ASSUME NEW S, NEW s \in Seq(S), NEW n \in 0 .. Len(s)
    PROVE  /\ SubSeq(s, 1, n) \in Seq(S) /\ Len(SubSeq(s, 1, n)) = n
           /\ SubSeq(s, n + 1, Len(s)) \in Seq(S)
           /\ SubSeq(s, 1, n) \o SubSeq(s, n + 1, Len(s)) = s
<1>1. Len(s) \in Nat /\ n \in Nat /\ n <= Len(s)
  BY LenProperties
<1>2. \A i \in 1 .. Len(s) : s[i] \in S
  BY ElementOfSeq
<1>3. \A i \in 1 .. n : s[i] \in S
  BY <1>1, <1>2
<1>4. \A i \in n + 1 .. Len(s) : s[i] \in S
  BY <1>1, <1>2
<1>5. SubSeq(s, 1, n) \in Seq(S) /\ Len(SubSeq(s, 1, n)) = n
  <2>1. Len(SubSeq(s, 1, n)) = IF 1 <= n THEN n - 1 + 1 ELSE 0
    BY <1>1, <1>3, SubSeqProperties
  <2>2. SubSeq(s, 1, n) \in Seq(S)
    BY <1>1, <1>3, SubSeqProperties
  <2>3. QED
    BY <1>1, <2>1, <2>2
<1>6. SubSeq(s, n + 1, Len(s)) \in Seq(S)
  BY <1>1, <1>4, SubSeqProperties
<1>7. SubSeq(s, 1, n) \o SubSeq(s, n + 1, Len(s)) = s
  <2>1. 1 \in 1 .. Len(s) + 1 /\ n \in 1 - 1 .. Len(s) /\ Len(s) \in n .. Len(s)
    BY <1>1
  <2>2. SubSeq(s, 1, n) \o SubSeq(s, n + 1, Len(s)) = SubSeq(s, 1, Len(s))
    BY <2>1, ConcatAdjacentSubSeq
  <2>3. QED
    BY <2>2, SubSeqFull
<1>8. QED
  BY <1>5, <1>6, <1>7

LEMMA BytesJoin ==
    ASSUME NEW a \in Seq(Byte), NEW b \in Seq(Byte)
    PROVE  a \o b \in Seq(Byte) /\ Len(a \o b) = Len(a) + Len(b)
BY ConcatProperties

LEMMA BytesAssociate ==
    ASSUME NEW a \in Seq(Byte), NEW b \in Seq(Byte), NEW c \in Seq(Byte)
    PROVE  (a \o b) \o c = a \o (b \o c)
BY ConcatAssociative

\* The same bytes, cut at two places; the second is not behind the first.
CutTwice(a, b, c, d) == a \o b = c \o d /\ Len(c) <= Len(a)

\* readexactly: as many bytes as the next piece has are that piece, and what
\* stays in the buffer begins what comes behind it.
LEMMA NextPiece ==
    ASSUME NEW buf \in Seq(Byte), NEW missing \in Seq(Byte),
           NEW piece \in Seq(Byte), NEW rest \in Seq(Byte),
           CutTwice(buf, missing, piece, rest)
    PROVE  /\ SubSeq(buf, 1, Len(piece)) = piece
           /\ SubSeq(buf, Len(piece) + 1, Len(buf)) \in Seq(Byte)
           /\ SubSeq(buf, Len(piece) + 1, Len(buf)) \o missing = rest
<1>1. PICK n : n = Len(piece)
  OBVIOUS
<1>2. n \in 0 .. Len(buf)
  BY <1>1, LenProperties DEF CutTwice
<1>3. PICK read \in Seq(Byte), left \in Seq(Byte) :
        read = SubSeq(buf, 1, n) /\ left = SubSeq(buf, n + 1, Len(buf))
  BY <1>2, CutInTwo
<1>4. Len(read) = n
  BY <1>2, <1>3, CutInTwo
<1>5. read \o (left \o missing) = piece \o rest
  <2>1. (read \o left) \o missing = read \o (left \o missing)
    BY BytesAssociate, SMTT(60)
  <2>2. read \o left = buf
    BY <1>2, <1>3, CutInTwo
  <2>3. buf \o missing = piece \o rest
    BY DEF CutTwice
  <2>4. QED
    BY <2>1, <2>2, <2>3, Zenon
<1>6. left \o missing \in Seq(Byte)
  BY BytesJoin
<1>7. read = piece /\ left \o missing = rest
  BY <1>1, <1>4, <1>5, <1>6, Cancelled
<1>8. QED
  BY <1>1, <1>3, <1>4, <1>7

\* The four bytes in front of a message are its length.
LEMMA FrameIs ==
    ASSUME NEW payload \in Payloads
    PROVE  /\ payload \in Seq(Byte) /\ Len(payload) \in Nat
           /\ Frame(payload) \in Seq(Byte)
           /\ Len(Frame(payload)) = MESSAGE_SIZE_BYTES + Len(payload)
           /\ \E head \in Seq(Byte) : /\ Len(head) = MESSAGE_SIZE_BYTES
                                  /\ from_bytes(head) = Len(payload)
                                  /\ Frame(payload) = head \o payload
<1>1. payload \in Seq(Byte) /\ Len(payload) \in Nat
      /\ Len(payload) \div (256 * 256 * 256) < 256
  BY FramingAssumption, LenProperties
<1>2. PICK n \in Nat : n = Len(payload)
  BY <1>1
<1>3. n \div (256 * 256 * 256) < 256
  BY <1>1, <1>2, SMT
<1>4. PICK q \in Nat : q = n \div 256 /\ n % 256 \in 0 .. 255 /\ n = q * 256 + (n % 256)
  BY SMT
<1>5. PICK r \in Nat : r = q \div 256 /\ q % 256 \in 0 .. 255 /\ q = r * 256 + (q % 256)
  BY SMT
<1>6. PICK s \in Nat : s = r \div 256 /\ r % 256 \in 0 .. 255 /\ r = s * 256 + (r % 256)
  BY SMT
<1>7. s \in 0 .. 255
  BY <1>3, <1>4, <1>5, <1>6, SMT
<1>8. PICK head : head = <<s, r % 256, q % 256, n % 256>>
  OBVIOUS
<1>9. PICK b1, b2, b3 : b1 = r % 256 /\ b2 = q % 256 /\ b3 = n % 256
  OBVIOUS
<1>10. head \in Seq(Byte) /\ Len(head) = 4
  BY <1>4, <1>5, <1>6, <1>7, <1>8 DEF Byte
<1>11. from_bytes(head) = n
  <2>1. head = <<s, b1, b2, b3>>
    BY <1>8, <1>9
  <2>2. n = q * 256 + b3 /\ q = r * 256 + b2 /\ r = s * 256 + b1
    BY <1>4, <1>5, <1>6, <1>9
  <2>3. QED
    BY <2>1, <2>2 DEF from_bytes
<1>12. Frame(payload) = head \o payload
  BY <1>2, <1>4, <1>5, <1>6, <1>8 DEF Frame
<1>13. Frame(payload) \in Seq(Byte) /\ Len(Frame(payload)) = 4 + Len(payload)
  <2>1. head \o payload \in Seq(Byte) /\ Len(head \o payload) = Len(head) + Len(payload)
    BY <1>1, <1>10, BytesJoin
  <2>2. QED
    BY <1>10, <1>12, <2>1
<1>14. QED
  BY <1>1, <1>2, <1>10, <1>11, <1>12, <1>13 DEF MESSAGE_SIZE_BYTES

-----------------------------------------------------------------------------
(* The state. *)

\* One more message is written behind the others.
LEMMA FramesMore ==
    ASSUME NEW msgs \in Seq(Payloads), NEW frames, Frames(msgs, frames),
           NEW payload \in Payloads
    PROVE  \E more :
             /\ Frames(Append(msgs, payload), more)
             /\ \A k \in 0 .. Len(msgs) : more[k] = frames[k] \o Frame(payload)
<1>1. PICK n \in Nat : n = Len(msgs)
  BY LenProperties
<1>2. PICK longer : longer = Append(msgs, payload)
  OBVIOUS
<1>3. /\ longer \in Seq(Payloads) /\ Len(longer) = n + 1 /\ longer[n + 1] = payload
      /\ \A k \in 1 .. n : longer[k] = msgs[k] /\ msgs[k] \in Payloads
  BY <1>1, <1>2, AppendProperties, ElementOfSeq
<1>4. PICK frame \in Seq(Byte) : frame = Frame(payload)
  BY FrameIs
<1>5. /\ \A k \in 0 .. n : frames[k] \in Seq(Byte)
      /\ frames[n] = <<>>
      /\ \A k \in 1 .. n : frames[k - 1] = Frame(msgs[k]) \o frames[k]
  BY <1>1 DEF Frames
<1>6. PICK more : more = [k \in 0 .. n + 1 |->
                        IF k = n + 1 THEN <<>> ELSE frames[k] \o frame]
  OBVIOUS
<1>7. /\ \A k \in 0 .. n : more[k] = frames[k] \o frame
      /\ more[n + 1] = <<>>
  BY <1>6
<1>8. more \in [0 .. n + 1 -> Seq(Byte)]
  <2>1. ASSUME NEW k \in 0 .. n + 1
        PROVE  more[k] \in Seq(Byte)
    <3>1. CASE k = n + 1
      BY <1>7, <3>1, EmptySeq
    <3>2. CASE k # n + 1
      <4>1. k \in 0 .. n
        BY <3>2
      <4>2. PICK behind \in Seq(Byte) : behind = frames[k]
        BY <1>5, <4>1
      <4>3. behind \o frame \in Seq(Byte)
        BY BytesJoin
      <4>4. QED
        BY <1>7, <4>1, <4>2, <4>3, Zenon
    <3>3. QED
      BY <3>1, <3>2
  <2>2. QED
    BY <1>6, <2>1
<1>9. ASSUME NEW k \in 1 .. n + 1
      PROVE  more[k - 1] = Frame(longer[k]) \o more[k]
  <2>1. CASE k = n + 1
    <3>1. more[k - 1] = <<>> \o frame
      <4>1. k - 1 = n /\ n \in 0 .. n
        BY <2>1
      <4>2. QED
        BY <1>5, <1>7, <4>1
    <3>2. Frame(longer[k]) \o more[k] = frame \o <<>>
      BY <1>3, <1>4, <1>7, <2>1
    <3>3. QED
      BY <1>4, <3>1, <3>2, ConcatEmptySeq
  <2>2. CASE k # n + 1
    <3>1. k \in 1 .. n /\ k - 1 \in 0 .. n /\ k \in 0 .. n
      BY <2>2
    <3>2. PICK this \in Seq(Byte) : this = Frame(msgs[k])
      BY <1>3, <3>1, FrameIs
    <3>3. more[k - 1] = (this \o frames[k]) \o frame
      BY <1>5, <1>7, <3>1, <3>2
    <3>4. more[k] = frames[k] \o frame
      BY <1>7, <3>1
    <3>5. PICK behind \in Seq(Byte) : behind = frames[k]
      BY <1>5, <3>1
    <3>6. (this \o behind) \o frame = this \o (behind \o frame)
      BY BytesAssociate
    <3>7. QED
      BY <1>3, <3>1, <3>2, <3>3, <3>4, <3>5, <3>6
  <2>3. QED
    BY <2>1, <2>2
<1>10. Frames(longer, more)
  BY <1>3, <1>7, <1>8, <1>9 DEF Frames
<1>11. QED
  BY <1>1, <1>2, <1>4, <1>7, <1>10

\* Where the task stands, what it has still to read are bytes.
LEMMA UnreadIs ==
    ASSUME TypeOK, PlaceInv, NEW frames, Frames(sent, frames)
    PROVE  /\ Len(received) \in Nat /\ Len(sent) \in Nat
           /\ \A k \in 0 .. Len(sent) : frames[k] \in Seq(Byte)
           /\ \A k \in 1 .. Len(sent) : sent[k] \in Payloads
           /\ Unread(frames) \in Seq(Byte)
<1>1. Len(received) \in Nat /\ Len(sent) \in Nat /\ Len(received) <= Len(sent)
  BY LenProperties DEF TypeOK, PlaceInv
<1>2. \A k \in 0 .. Len(sent) : frames[k] \in Seq(Byte)
  BY DEF Frames
<1>3. \A k \in 1 .. Len(sent) : sent[k] \in Payloads
  BY ElementOfSeq DEF TypeOK
<1>4. CASE size = Unknown
  <2>1. Len(received) \in 0 .. Len(sent)
    BY <1>1
  <2>2. QED
    BY <1>1, <1>2, <1>3, <1>4, <2>1 DEF Unread
<1>5. CASE size # Unknown
  <2>1. Len(received) + 1 \in 1 .. Len(sent) /\ Len(received) + 1 \in 0 .. Len(sent)
    BY <1>1, <1>5 DEF PlaceInv
  <2>2. sent[Len(received) + 1] \in Seq(Byte) /\ frames[Len(received) + 1] \in Seq(Byte)
    BY <1>2, <1>3, <2>1, FrameIs
  <2>3. sent[Len(received) + 1] \o frames[Len(received) + 1] \in Seq(Byte)
    BY <2>2, BytesJoin
  <2>4. QED
    BY <1>1, <1>2, <1>3, <1>5, <2>3 DEF Unread
<1>6. QED
  BY <1>4, <1>5

LEMMA TypeStep ==
    ASSUME TypeOK, [Next]_vars
    PROVE  TypeOK'
<1>1. ASSUME NEW payload \in Payloads, SendMessage(payload)
      PROVE  TypeOK'
  <2>1. Append(sent, payload) \in Seq(Payloads)
    BY AppendProperties DEF TypeOK
  <2>2. Frame(payload) \in Seq(Byte)
    BY FrameIs
  <2>3. outgoing \o Frame(payload) \in Seq(Byte)
    BY <2>2, BytesJoin DEF TypeOK
  <2>4. QED
    BY <1>1, <2>1, <2>3 DEF SendMessage, TypeOK
<1>2. ASSUME NEW n \in 1 .. Len(outgoing), Arrive(n)
      PROVE  TypeOK'
  <2>1. n \in 0 .. Len(outgoing)
    OBVIOUS
  <2>2. /\ SubSeq(outgoing, 1, n) \in Seq(Byte)
        /\ SubSeq(outgoing, n + 1, Len(outgoing)) \in Seq(Byte)
    BY <2>1, CutInTwo DEF TypeOK
  <2>3. buffer \o SubSeq(outgoing, 1, n) \in Seq(Byte)
    BY <2>2, BytesJoin DEF TypeOK
  <2>4. QED
    BY <1>2, <2>2, <2>3 DEF Arrive, TypeOK
<1>3. CASE Close \/ Reset
  <2>1. <<>> \in Seq(Byte)
    BY EmptySeq
  <2>2. QED
    BY <1>3, <2>1 DEF Close, Reset, TypeOK
<1>4. CASE ReadSize
  <2>1. 4 \in 0 .. Len(buffer) /\ Len(buffer) \in Nat
    BY <1>4, LenProperties DEF ReadSize, MESSAGE_SIZE_BYTES, TypeOK
  <2>2. PICK head : head = SubSeq(buffer, 1, 4)
    OBVIOUS
  <2>3. head \in Seq(Byte) /\ Len(head) = 4 /\ Rest(4) \in Seq(Byte)
    BY <2>1, <2>2, CutInTwo DEF TypeOK, Rest
  <2>4. head[1] \in Byte /\ head[2] \in Byte /\ head[3] \in Byte /\ head[4] \in Byte
    <3>1. 1 \in 1 .. 4 /\ 2 \in 1 .. 4 /\ 3 \in 1 .. 4 /\ 4 \in 1 .. 4
      OBVIOUS
    <3>2. QED
      BY <2>3, <3>1, ElementOfSeq
  <2>5. from_bytes(head) \in Nat
    <3>1. head[1] \in Nat /\ head[2] \in Nat /\ head[3] \in Nat /\ head[4] \in Nat
      BY <2>4 DEF Byte
    <3>2. PICK b1 \in Nat, b2 \in Nat, b3 \in Nat, b4 \in Nat :
            b1 = head[1] /\ b2 = head[2] /\ b3 = head[3] /\ b4 = head[4]
      BY <3>1
    <3>3. from_bytes(head) = ((b1 * 256 + b2) * 256 + b3) * 256 + b4
      BY <3>2 DEF from_bytes
    <3>4. QED
      BY <3>3
  <2>6. QED
    BY <1>4, <2>2, <2>3, <2>5 DEF ReadSize, MESSAGE_SIZE_BYTES, TypeOK
<1>5. CASE ReadPayload
  <2>1. size \in 0 .. Len(buffer)
    BY <1>5, LenProperties DEF ReadPayload, TypeOK, Unknown
  <2>2. SubSeq(buffer, 1, size) \in Seq(Byte) /\ Rest(size) \in Seq(Byte)
    BY <2>1, CutInTwo DEF TypeOK, Rest
  <2>3. Append(received, SubSeq(buffer, 1, size)) \in Seq(Seq(Byte))
    BY <2>2, AppendProperties DEF TypeOK
  <2>4. QED
    BY <1>5, <2>2, <2>3 DEF ReadPayload, TypeOK
<1>6. CASE ReadNothing \/ ReadEnds \/ UNCHANGED vars
  BY <1>6 DEF ReadNothing, ReadEnds, vars, TypeOK
<1>7. QED
  BY <1>1, <1>2, <1>3, <1>4, <1>5, <1>6 DEF Next, Read

\* A message is written.
LEMMA SendStep ==
    ASSUME IInv, NEW payload \in Payloads, SendMessage(payload)
    PROVE  PlaceInv' /\ StreamInv' /\ EndInv'
<1>1. TypeOK /\ PlaceInv /\ StreamInv /\ EndInv
  BY DEF IInv
<1>2. PICK frames, missing : /\ Frames(sent, frames) /\ missing \in Seq(Byte)
                             /\ stream = "open" => missing = outgoing
                             /\ buffer \o missing = Unread(frames)
  BY <1>1 DEF StreamInv
<1>3. PICK m \in Nat, n \in Nat : m = Len(received) /\ n = Len(sent)
  BY <1>1, <1>2, UnreadIs
<1>4. /\ sent' = Append(sent, payload)
      /\ Len(sent') = n + 1 /\ \A k \in 1 .. n : sent'[k] = sent[k]
  BY <1>1, <1>3, AppendProperties DEF SendMessage, TypeOK
<1>5. UNCHANGED <<buffer, stream, size, reading, received>> /\ stream = "open"
  BY DEF SendMessage
<1>6. PlaceInv'
  <2>1. m <= n /\ \A i \in 1 .. m : received[i] = sent[i]
    BY <1>1, <1>3 DEF PlaceInv
  <2>2. size # Unknown => m < n /\ size = Len(sent[m + 1])
    BY <1>1, <1>3 DEF PlaceInv
  <2>3. \A i \in 1 .. m : received'[i] = sent'[i]
    BY <1>4, <1>5, <2>1
  <2>4. size # Unknown => m + 1 \in 1 .. n
    BY <2>2
  <2>5. QED
    BY <1>3, <1>4, <1>5, <2>1, <2>2, <2>3, <2>4 DEF PlaceInv
<1>7. EndInv'
  BY <1>1, <1>5 DEF EndInv, Needed
<1>8. PICK frame \in Seq(Byte) : frame = Frame(payload)
  BY FrameIs
<1>9. PICK more : Frames(sent', more) /\ \A k \in 0 .. n : more[k] = frames[k] \o frame
  <2>1. sent \in Seq(Payloads)
    BY <1>1 DEF TypeOK
  <2>2. \E more : /\ Frames(Append(sent, payload), more)
                  /\ \A k \in 0 .. Len(sent) : more[k] = frames[k] \o Frame(payload)
    BY <1>2, <2>1, FramesMore
  <2>3. QED
    BY <1>3, <1>4, <1>8, <2>2
<1>10. PICK unread \in Seq(Byte) : unread = Unread(frames)
  BY <1>1, <1>2, UnreadIs
<1>11. buffer \o (missing \o frame) = unread \o frame
  <2>1. (buffer \o missing) \o frame = buffer \o (missing \o frame)
    <3>1. buffer \in Seq(Byte) /\ missing \in Seq(Byte) /\ frame \in Seq(Byte)
      BY <1>1, <1>2 DEF TypeOK
    <3>2. QED
      BY <3>1, BytesAssociate
  <2>2. QED
    BY <1>2, <1>10, <2>1
<1>12. unread \o frame = Unread(more)'
  <2>1. CASE size = Unknown
    <3>1. unread = frames[m] /\ Unread(more)' = more[m]
      BY <1>3, <1>5, <1>10, <2>1 DEF Unread
    <3>2. m \in 0 .. n
      BY <1>1, <1>3 DEF PlaceInv
    <3>3. QED
      BY <1>9, <3>1, <3>2
  <2>2. CASE size # Unknown
    <3>1. m + 1 \in 1 .. n /\ m + 1 \in 0 .. n
      BY <1>1, <1>3, <2>2 DEF PlaceInv
    <3>2. PICK this \in Seq(Byte) : this = sent[m + 1]
      BY <1>1, <1>2, <1>3, <3>1, UnreadIs, FrameIs
    <3>3. PICK behind \in Seq(Byte) : behind = frames[m + 1]
      BY <1>1, <1>2, <1>3, <3>1, UnreadIs
    <3>4. (this \o behind) \o frame = this \o (behind \o frame)
      BY BytesAssociate
    <3>5. unread = this \o behind
      BY <1>3, <1>10, <2>2, <3>2, <3>3 DEF Unread
    <3>6. Unread(more)' = this \o more[m + 1]
      BY <1>3, <1>4, <1>5, <2>2, <3>1, <3>2 DEF Unread
    <3>7. more[m + 1] = behind \o frame
      BY <1>9, <3>1, <3>3
    <3>8. QED
      BY <3>4, <3>5, <3>6, <3>7
  <2>3. QED
    BY <2>1, <2>2
<1>13. StreamInv'
  <2>1. PICK later : later = missing \o frame
    OBVIOUS
  <2>2. later \in Seq(Byte)
    BY <1>2, <2>1, BytesJoin
  <2>3. outgoing' = later
    BY <1>2, <1>5, <1>8, <2>1 DEF SendMessage
  <2>4. buffer' \o later = Unread(more)'
    BY <1>5, <1>11, <1>12, <2>1
  <2>5. QED
    BY <1>9, <2>2, <2>3, <2>4 DEF StreamInv
<1>14. QED
  BY <1>6, <1>7, <1>13

\* Bytes arrive, or what has not arrived is lost.
LEMMA NetworkStep ==
    ASSUME IInv, (\E n \in 1 .. Len(outgoing) : Arrive(n)) \/ Close \/ Reset
    PROVE  PlaceInv' /\ StreamInv' /\ EndInv'
<1>1. TypeOK /\ PlaceInv /\ StreamInv /\ EndInv
  BY DEF IInv
<1>2. UNCHANGED <<sent, size, reading, received>>
  BY DEF Arrive, Close, Reset
<1>3. PlaceInv'
  BY <1>1, <1>2 DEF PlaceInv
<1>4. PICK frames, missing : /\ Frames(sent, frames) /\ missing \in Seq(Byte)
                             /\ stream = "open" => missing = outgoing
                             /\ buffer \o missing = Unread(frames)
  BY <1>1 DEF StreamInv
<1>5. Frames(sent', frames) /\ Unread(frames)' = Unread(frames)
  BY <1>2, <1>4 DEF Unread
<1>6. CASE \E n \in 1 .. Len(outgoing) : Arrive(n)
  <2>1. PICK n \in 1 .. Len(outgoing) : Arrive(n)
    BY <1>6
  <2>2. stream = "open" /\ stream' = "open"
    BY <2>1 DEF Arrive
  <2>3. PICK a, b : /\ a = SubSeq(outgoing, 1, n) /\ b = SubSeq(outgoing, n + 1, Len(outgoing))
                    /\ a \in Seq(Byte) /\ b \in Seq(Byte) /\ a \o b = outgoing
    <3>1. outgoing \in Seq(Byte) /\ n \in 0 .. Len(outgoing)
      BY <1>1 DEF TypeOK
    <3>2. /\ SubSeq(outgoing, 1, n) \in Seq(Byte)
          /\ SubSeq(outgoing, n + 1, Len(outgoing)) \in Seq(Byte)
          /\ SubSeq(outgoing, 1, n) \o SubSeq(outgoing, n + 1, Len(outgoing)) = outgoing
      BY <3>1, CutInTwo
    <3>3. QED
      BY <3>2
  <2>4. (buffer \o a) \o b = buffer \o (a \o b)
    <3>1. buffer \in Seq(Byte) /\ a \in Seq(Byte) /\ b \in Seq(Byte)
      BY <1>1, <2>3 DEF TypeOK
    <3>2. QED
      BY <3>1, BytesAssociate
  <2>5. buffer' = buffer \o a /\ outgoing' = b
    BY <2>1, <2>3 DEF Arrive
  <2>6. buffer' \o b = Unread(frames)'
    BY <1>4, <1>5, <2>2, <2>3, <2>4, <2>5
  <2>7. StreamInv'
    BY <1>5, <2>3, <2>5, <2>6 DEF StreamInv
  <2>8. EndInv'
    BY <1>1, <1>2, <2>2 DEF EndInv
  <2>9. QED
    BY <1>3, <2>7, <2>8
<1>7. CASE Close \/ Reset
  <2>1. stream' # "open" /\ buffer' = buffer
    BY <1>7 DEF Close, Reset
  <2>2. StreamInv'
    BY <1>4, <1>5, <2>1 DEF StreamInv
  <2>3. EndInv'
    BY <1>1, <1>2, <1>7 DEF EndInv, Close, Reset
  <2>4. QED
    BY <1>3, <2>2, <2>3
<1>8. QED
  BY <1>6, <1>7

\* What is behind the task's place is the next frame, or of the frame what is
\* behind its size.
LEMMA NextUnread ==
    ASSUME TypeOK, PlaceInv, NEW frames, Frames(sent, frames), Len(received) < Len(sent)
    PROVE  \E head, payload, behind \in Seq(Byte) :
             /\ Len(head) = MESSAGE_SIZE_BYTES /\ from_bytes(head) = Len(payload)
             /\ payload = sent[Len(received) + 1]
             /\ behind = frames[Len(received) + 1]
             /\ payload \o behind \in Seq(Byte)
             /\ frames[Len(received)] = head \o (payload \o behind)
<1>1. PICK m \in Nat : m = Len(received)
  BY UnreadIs
<1>2. PICK n \in Nat : n = Len(sent)
  BY UnreadIs
<1>3. PICK k : k = m + 1 /\ k \in 1 .. n /\ k \in 0 .. n /\ k - 1 = m
  BY <1>1, <1>2
<1>4. PICK payload : payload = sent[k] /\ payload \in Payloads
  BY <1>2, <1>3, UnreadIs
<1>5. payload \in Seq(Byte)
  BY <1>4, FrameIs
<1>6. PICK behind \in Seq(Byte) : behind = frames[k]
  BY <1>2, <1>3, UnreadIs
<1>7. PICK head \in Seq(Byte) : /\ Len(head) = MESSAGE_SIZE_BYTES
                                /\ from_bytes(head) = Len(payload)
                                /\ Frame(payload) = head \o payload
  BY <1>4, FrameIs
<1>8. frames[m] = Frame(payload) \o behind
  BY <1>2, <1>3, <1>4, <1>6 DEF Frames
<1>9. (head \o payload) \o behind = head \o (payload \o behind)
  <2>1. head \in Seq(Byte) /\ payload \in Seq(Byte) /\ behind \in Seq(Byte)
    BY <1>5
  <2>2. QED
    BY <2>1, BytesAssociate
<1>10. payload \o behind \in Seq(Byte)
  BY <1>5, BytesJoin
<1>11. /\ payload = sent[Len(received) + 1] /\ behind = frames[Len(received) + 1]
       /\ frames[Len(received)] = head \o (payload \o behind)
  BY <1>1, <1>3, <1>4, <1>6, <1>7, <1>8, <1>9
<1>12. PICK p \in Seq(Byte) : p = payload
  BY <1>5
<1>13. QED
  BY <1>7, <1>10, <1>11, <1>12

\* The size is read.
LEMMA ReadSizeStep ==
    ASSUME IInv, ReadSize
    PROVE  PlaceInv' /\ StreamInv' /\ EndInv'
<1>1. TypeOK /\ PlaceInv /\ StreamInv
  BY DEF IInv
<1>2. PICK frames, missing : /\ Frames(sent, frames) /\ missing \in Seq(Byte)
                             /\ stream = "open" => missing = outgoing
                             /\ buffer \o missing = Unread(frames)
  BY <1>1 DEF StreamInv
<1>3. UNCHANGED <<sent, outgoing, stream, reading, received>> /\ reading /\ size = Unknown
  BY DEF ReadSize, Waiting
<1>4. /\ buffer \in Seq(Byte) /\ Len(buffer) \in Nat /\ Len(missing) \in Nat
      /\ MESSAGE_SIZE_BYTES = 4 /\ 4 <= Len(buffer)
  BY <1>1, <1>2, LenProperties DEF ReadSize, TypeOK, MESSAGE_SIZE_BYTES
<1>5. Len(received) < Len(sent)
  <2>1. SUFFICES ASSUME ~(Len(received) < Len(sent))
                 PROVE  FALSE
    OBVIOUS
  <2>2. Len(received) = Len(sent)
    BY <1>1, <1>2, <2>1, UnreadIs DEF PlaceInv
  <2>3. buffer \o missing = <<>>
    BY <1>2, <1>3, <2>2 DEF Unread, Frames
  <2>4. Len(buffer \o missing) = Len(buffer) + Len(missing)
    BY <1>2, <1>4, BytesJoin
  <2>5. Len(buffer \o missing) = 0
    BY <2>3, EmptySeq
  <2>6. QED
    BY <1>4, <2>4, <2>5
<1>6. PICK head, payload, behind \in Seq(Byte) :
        /\ Len(head) = MESSAGE_SIZE_BYTES /\ from_bytes(head) = Len(payload)
        /\ payload = sent[Len(received) + 1]
        /\ behind = frames[Len(received) + 1]
        /\ payload \o behind \in Seq(Byte)
        /\ frames[Len(received)] = head \o (payload \o behind)
  BY <1>1, <1>2, <1>5, NextUnread
<1>7. PICK rest \in Seq(Byte) : rest = payload \o behind
  BY <1>6
<1>8. Len(head) = 4 /\ Len(head) <= Len(buffer)
  BY <1>4, <1>6
<1>9. CutTwice(buffer, missing, head, rest)
  <2>1. buffer \o missing = head \o rest
    BY <1>2, <1>3, <1>6, <1>7 DEF Unread
  <2>2. QED
    BY <1>8, <2>1 DEF CutTwice
<1>10. /\ SubSeq(buffer, 1, 4) = head
       /\ SubSeq(buffer, 5, Len(buffer)) \o missing = rest
  <2>1. /\ SubSeq(buffer, 1, Len(head)) = head
        /\ SubSeq(buffer, Len(head) + 1, Len(buffer)) \o missing = rest
    <3>1. buffer \in Seq(Byte) /\ missing \in Seq(Byte)
      BY <1>2, <1>4
    <3>2. QED
      BY <1>9, <3>1, NextPiece
  <2>2. Len(head) + 1 = 5
    BY <1>8
  <2>3. QED
    BY <1>8, <2>1, <2>2
<1>11. size' = Len(payload) /\ buffer' = SubSeq(buffer, 5, Len(buffer))
  <2>1. 4 + 1 = 5
    OBVIOUS
  <2>2. QED
    BY <1>4, <1>6, <1>10, <2>1 DEF ReadSize, Rest
<1>12. size' # Unknown
  BY <1>11, LenProperties DEF Unknown
<1>13. PlaceInv'
  BY <1>1, <1>3, <1>5, <1>6, <1>11 DEF PlaceInv
<1>14. Unread(frames)' = rest
  BY <1>3, <1>6, <1>7, <1>12 DEF Unread
<1>15. StreamInv'
  <2>1. buffer' \o missing = Unread(frames)'
    BY <1>10, <1>11, <1>14
  <2>2. QED
    BY <1>2, <1>3, <2>1 DEF StreamInv
<1>16. EndInv'
  BY <1>3 DEF EndInv
<1>17. QED
  BY <1>13, <1>15, <1>16

\* The message is read.
LEMMA ReadPayloadStep ==
    ASSUME IInv, ReadPayload
    PROVE  PlaceInv' /\ StreamInv' /\ EndInv'
<1>1. TypeOK /\ PlaceInv /\ StreamInv
  BY DEF IInv
<1>2. PICK frames, missing : /\ Frames(sent, frames) /\ missing \in Seq(Byte)
                             /\ stream = "open" => missing = outgoing
                             /\ buffer \o missing = Unread(frames)
  BY <1>1 DEF StreamInv
<1>3. /\ UNCHANGED <<sent, outgoing, stream, reading>> /\ reading
      /\ size \in Nat \ {0} /\ size # Unknown /\ size' = Unknown
      /\ size <= Len(buffer)
      /\ received' = Append(received, SubSeq(buffer, 1, size))
      /\ buffer' = SubSeq(buffer, size + 1, Len(buffer))
  BY <1>1 DEF ReadPayload, Waiting, Rest, TypeOK, Unknown
<1>4. Len(received) < Len(sent) /\ size = Len(sent[Len(received) + 1])
  BY <1>1, <1>3 DEF PlaceInv
<1>5. PICK head, payload, behind \in Seq(Byte) :
        /\ Len(head) = MESSAGE_SIZE_BYTES /\ from_bytes(head) = Len(payload)
        /\ payload = sent[Len(received) + 1]
        /\ behind = frames[Len(received) + 1]
        /\ payload \o behind \in Seq(Byte)
        /\ frames[Len(received)] = head \o (payload \o behind)
  BY <1>1, <1>2, <1>4, NextUnread
<1>6. Len(payload) = size /\ buffer \in Seq(Byte)
  BY <1>1, <1>4, <1>5 DEF TypeOK
<1>7. CutTwice(buffer, missing, payload, behind)
  <2>1. buffer \o missing = payload \o behind
    BY <1>2, <1>3, <1>5 DEF Unread
  <2>2. QED
    BY <1>3, <1>6, <2>1 DEF CutTwice
<1>8. /\ SubSeq(buffer, 1, size) = payload
      /\ SubSeq(buffer, size + 1, Len(buffer)) \o missing = behind
  <2>1. /\ SubSeq(buffer, 1, Len(payload)) = payload
        /\ SubSeq(buffer, Len(payload) + 1, Len(buffer)) \o missing = behind
    BY <1>2, <1>6, <1>7, NextPiece
  <2>2. QED
    BY <1>6, <2>1
<1>9. PICK m \in Nat : m = Len(received)
  BY <1>1, <1>2, UnreadIs
<1>10. /\ received' = Append(received, payload) /\ Len(received') = m + 1
       /\ received'[m + 1] = payload /\ \A i \in 1 .. m : received'[i] = received[i]
  <2>1. received \in Seq(Seq(Byte)) /\ received' = Append(received, payload)
    BY <1>1, <1>3, <1>8 DEF TypeOK
  <2>2. QED
    BY <1>9, <2>1, AppendProperties
<1>11. PlaceInv'
  <2>1. Len(sent) \in Nat
    BY <1>1, <1>2, UnreadIs
  <2>2. m + 1 <= Len(sent)
    BY <1>4, <1>9, <2>1
  <2>3. ASSUME NEW i \in 1 .. m + 1
        PROVE  received'[i] = sent[i]
    <3>1. CASE i = m + 1
      BY <1>5, <1>9, <1>10, <3>1
    <3>2. CASE i # m + 1
      <4>1. i \in 1 .. m
        BY <3>2
      <4>2. QED
        BY <1>1, <1>9, <1>10, <4>1 DEF PlaceInv
    <3>3. QED
      BY <3>1, <3>2
  <2>4. QED
    BY <1>3, <1>10, <2>2, <2>3 DEF PlaceInv
<1>12. StreamInv'
  <2>1. Unread(frames)' = behind
    BY <1>3, <1>5, <1>9, <1>10 DEF Unread
  <2>2. buffer' \o missing = Unread(frames)'
    BY <1>3, <1>8, <2>1
  <2>3. QED
    BY <1>2, <1>3, <2>2 DEF StreamInv
<1>13. EndInv'
  BY <1>3 DEF EndInv
<1>14. QED
  BY <1>11, <1>12, <1>13

LEMMA InvStep == IInv /\ [Next]_vars => IInv'
<1>1. SUFFICES ASSUME IInv, [Next]_vars
               PROVE  IInv'
  OBVIOUS
<1>2. TypeOK'
  BY <1>1, TypeStep DEF IInv
<1>3. CASE \E payload \in Payloads : SendMessage(payload)
  BY <1>1, <1>2, <1>3, SendStep DEF IInv
<1>4. CASE (\E n \in 1 .. Len(outgoing) : Arrive(n)) \/ Close \/ Reset
  BY <1>1, <1>2, <1>4, NetworkStep DEF IInv
<1>5. CASE ReadSize
  BY <1>1, <1>2, <1>5, ReadSizeStep DEF IInv
<1>6. CASE ReadPayload
  BY <1>1, <1>2, <1>6, ReadPayloadStep DEF IInv
<1>7. CASE ReadNothing \/ ReadEnds \/ UNCHANGED vars
  <2>1. UNCHANGED <<sent, outgoing, buffer, stream, size, received>>
    BY <1>7 DEF ReadNothing, ReadEnds, vars
  <2>2. PlaceInv'
    BY <1>1, <2>1 DEF IInv, PlaceInv
  <2>3. StreamInv'
    BY <1>1, <2>1 DEF IInv, StreamInv, Unread
  <2>4. EndInv'
    BY <1>1, <1>7, <2>1 DEF IInv, EndInv, Needed, ReadNothing, ReadEnds, Incomplete, vars
  <2>5. QED
    BY <1>2, <2>2, <2>3, <2>4 DEF IInv
<1>8. QED
  BY <1>1, <1>3, <1>4, <1>5, <1>6, <1>7 DEF Next, Read

LEMMA InvInit == Init => IInv
<1>1. SUFFICES ASSUME Init
               PROVE  IInv
  OBVIOUS
<1>2. /\ sent = <<>> /\ outgoing = <<>> /\ buffer = <<>> /\ received = <<>>
      /\ stream = "open" /\ size = Unknown /\ reading = TRUE
  BY <1>1 DEF Init
<1>3. <<>> \in Seq(Byte) /\ Len(<<>>) = 0
  BY EmptySeq
<1>4. TypeOK
  BY <1>2 DEF TypeOK
<1>5. PlaceInv /\ EndInv
  BY <1>2, <1>3 DEF PlaceInv, EndInv
<1>6. StreamInv
  <2>1. PICK frames : frames = [k \in 0 .. 0 |-> <<>>]
    OBVIOUS
  <2>2. frames \in [0 .. 0 -> Seq(Byte)] /\ frames[0] = <<>>
    BY <1>3, <2>1
  <2>3. Frames(sent, frames)
    BY <1>2, <1>3, <2>2 DEF Frames
  <2>4. buffer \o <<>> = Unread(frames)
    <3>1. <<>> \o <<>> = <<>>
      BY <1>3, ConcatEmptySeq
    <3>2. QED
      BY <1>2, <1>3, <2>2, <3>1 DEF Unread
  <2>5. QED
    BY <1>2, <1>3, <2>3, <2>4 DEF StreamInv
<1>7. QED
  BY <1>4, <1>5, <1>6 DEF IInv

-----------------------------------------------------------------------------
(* The theorems. *)

\* The invariant: what is buffered and what is missing are the frames of the
\* messages not read, and the task left its loop only for a reason.
THEOREM Invariance == Spec => []IInv
<1>1. QED
  BY InvInit, InvStep, PTL DEF Spec

\* All bytes are bytes, and a size that was read is a natural number.
THEOREM TypeCorrect == Spec => []TypeOK
<1>1. IInv => TypeOK
  BY DEF IInv
<1>2. QED
  BY <1>1, Invariance, PTL

\* read_full_message returns the messages as they were written, one by one
\* and in order, wherever TCP cuts the stream.
THEOREM MessagesReadAsSent == Spec => []MessagesAsSent
<1>1. IInv => MessagesAsSent
  <2>1. SUFFICES ASSUME IInv
                 PROVE  MessagesAsSent
    OBVIOUS
  <2>2. TypeOK /\ PlaceInv
    BY <2>1 DEF IInv
  <2>3. PICK m \in Nat, n \in Nat : m = Len(received) /\ n = Len(sent) /\ m <= n
    BY <2>2, LenProperties DEF TypeOK, PlaceInv
  <2>4. /\ \A i \in 1 .. m : received[i] \in Seq(Byte)
        /\ \A i \in 1 .. m : sent[i] \in Seq(Byte) /\ received[i] = sent[i]
    BY <2>2, <2>3, ElementOfSeq DEF TypeOK, PlaceInv
  <2>5. /\ SubSeq(received, 1, m) \in Seq(Seq(Byte)) /\ SubSeq(sent, 1, m) \in Seq(Seq(Byte))
        /\ Len(SubSeq(received, 1, m)) = Len(SubSeq(sent, 1, m))
        /\ Len(SubSeq(received, 1, m)) = m
        /\ \A i \in 1 .. m : /\ SubSeq(received, 1, m)[i] = received[i]
                             /\ SubSeq(sent, 1, m)[i] = sent[i]
    BY <2>3, <2>4, SubSeqProperties
  <2>6. SubSeq(received, 1, m) = SubSeq(sent, 1, m)
    <3>1. \A i \in 1 .. m : SubSeq(received, 1, m)[i] = SubSeq(sent, 1, m)[i]
      BY <2>4, <2>5
    <3>2. QED
      BY <2>5, <3>1, SeqEqual
  <2>7. QED
    BY <2>3, <2>6 DEF MessagesAsSent, IsPrefix
<1>2. QED
  BY <1>1, Invariance, PTL

\* The bytes of the first k messages, as Arrived counts them.
Steps(v) == [k \in 0 .. Len(sent) |-> IF k = 0 THEN 0 ELSE v[k - 1] + Len(Frame(sent[k]))]
Lengths == CHOOSE v : v = Steps(v)

\* What the frames have lost in length up to k is such a count, so there is one.
LEMMA LengthsAre ==
    ASSUME TypeOK, PlaceInv, NEW frames, Frames(sent, frames)
    PROVE  Lengths = Steps(Lengths)
<1>1. PICK n \in Nat : n = Len(sent)
  BY UnreadIs
<1>2. \A k \in 0 .. n : frames[k] \in Seq(Byte) /\ Len(frames[k]) \in Nat
  BY <1>1, UnreadIs, LenProperties
<1>3. PICK v : v = [k \in 0 .. n |-> Len(frames[0]) - Len(frames[k])]
  OBVIOUS
<1>4. ASSUME NEW k \in 0 .. n
      PROVE  v[k] = IF k = 0 THEN 0 ELSE v[k - 1] + Len(Frame(sent[k]))
  <2>1. 0 \in 0 .. n
    BY <1>1
  <2>2. CASE k = 0
    BY <1>2, <1>3, <2>1, <2>2
  <2>3. CASE k # 0
    <3>1. PICK j : j = k - 1 /\ j \in 0 .. n /\ k \in 1 .. n
      BY <2>3
    <3>2. PICK frame \in Seq(Byte) : frame = Frame(sent[k])
      BY <1>1, <3>1, UnreadIs, FrameIs
    <3>3. PICK behind \in Seq(Byte) : behind = frames[k]
      BY <1>2
    <3>4. frames[j] = frame \o behind
      BY <1>1, <3>1, <3>2, <3>3 DEF Frames
    <3>5. Len(frame \o behind) = Len(frame) + Len(behind)
      BY BytesJoin
    <3>6. Len(frame) \in Nat /\ Len(behind) \in Nat /\ Len(frames[0]) \in Nat
      BY <1>2, <2>1, LenProperties
    <3>7. v[k] = Len(frames[0]) - Len(behind) /\ v[j] = Len(frames[0]) - Len(frames[j])
      BY <1>3, <3>1, <3>3
    <3>8. v[k] = v[j] + Len(frame)
      <4>1. PICK all \in Nat, a \in Nat, b \in Nat :
              all = Len(frames[0]) /\ a = Len(frame) /\ b = Len(behind)
        BY <3>6
      <4>2. v[k] = all - b /\ v[j] = all - (a + b)
        BY <3>4, <3>5, <3>7, <4>1
      <4>3. QED
        BY <4>1, <4>2
    <3>9. QED
      BY <2>3, <3>1, <3>2, <3>8
  <2>4. QED
    BY <2>2, <2>3
<1>5. v = [k \in 0 .. n |-> v[k]]
  BY <1>3
<1>6. v = [k \in 0 .. n |-> IF k = 0 THEN 0 ELSE v[k - 1] + Len(Frame(sent[k]))]
  BY <1>4, <1>5
<1>7. v = Steps(v)
  BY <1>1, <1>6 DEF Steps
<1>8. \E w : w = Steps(w)
  BY <1>7
<1>9. QED
  BY <1>8 DEF Lengths

\* From one message to a later one there is at least the first one's frame.
LEMMA LengthsGrow ==
    ASSUME TypeOK, PlaceInv, NEW frames, Frames(sent, frames),
           NEW m \in 0 .. Len(sent), NEW k \in m + 1 .. Len(sent)
    PROVE  /\ m + 1 \in 1 .. Len(sent)
           /\ Lengths[m] \in Int /\ Lengths[k] \in Int
           /\ Lengths[k] - Lengths[m] >= Len(Frame(sent[m + 1]))
<1>1. PICK n \in Nat : n = Len(sent)
  BY UnreadIs
<1>2. PICK v : v = Lengths
  OBVIOUS
<1>3. ASSUME NEW i \in 0 .. n
      PROVE  v[i] = IF i = 0 THEN 0 ELSE v[i - 1] + Len(Frame(sent[i]))
  <2>1. v = Steps(v)
    BY <1>2, LengthsAre
  <2>2. QED
    BY <1>1, <2>1 DEF Steps
<1>4. \A i \in 1 .. n : Len(Frame(sent[i])) \in Nat
  <2>1. ASSUME NEW i \in 1 .. n
        PROVE  Len(Frame(sent[i])) \in Nat
    <3>1. Frame(sent[i]) \in Seq(Byte)
      BY <1>1, UnreadIs, FrameIs
    <3>2. QED
      BY <3>1, LenProperties
  <2>2. QED
    BY <2>1
<1>5. \A i \in 0 .. n : v[i] \in Int
  <2> DEFINE Bad == {i \in 0 .. n : v[i] \notin Int}
  <2>1. SUFFICES ASSUME Bad # {}
                 PROVE  FALSE
    OBVIOUS
  <2>2. PICK i \in Bad : \A j \in Bad : i <= j
    <3>1. Bad \in SUBSET Nat
      OBVIOUS
    <3> HIDE DEF Bad
    <3>2. QED
      BY <2>1, <3>1, LeastElement
  <2>3. i # 0
    BY <1>3, <2>2
  <2>4. i - 1 \in 0 .. n /\ i \in 1 .. n /\ ~(i <= i - 1)
    BY <2>2, <2>3
  <2>5. v[i - 1] \in Int
    BY <2>2, <2>4
  <2>6. v[i] \in Int
    BY <1>3, <1>4, <2>3, <2>4, <2>5
  <2>7. QED
    BY <2>2, <2>6
<1>6. PICK next : next = m + 1 /\ next \in 1 .. n /\ m \in 0 .. n /\ m = next - 1
  BY <1>1
<1>7. \A i \in next .. n : v[i] >= v[next]
  <2> DEFINE Bad == {i \in next .. n : ~(v[i] >= v[next])}
  <2>1. SUFFICES ASSUME Bad # {}
                 PROVE  FALSE
    OBVIOUS
  <2>2. PICK i \in Bad : \A j \in Bad : i <= j
    <3>1. Bad \in SUBSET Nat
      BY <1>6
    <3> HIDE DEF Bad
    <3>2. QED
      BY <2>1, <3>1, LeastElement
  <2>3. next \in 0 .. n /\ v[next] \in Int
    BY <1>5, <1>6
  <2>4. i # next
    BY <2>2, <2>3
  <2>5. i - 1 \in next .. n /\ i \in 1 .. n /\ i # 0 /\ ~(i <= i - 1)
    BY <1>6, <2>2, <2>4
  <2>6. v[i - 1] >= v[next]
    BY <2>2, <2>5
  <2>7. v[i - 1] \in Int /\ Len(Frame(sent[i])) \in Nat /\ v[i] = v[i - 1] + Len(Frame(sent[i]))
    BY <1>3, <1>4, <1>5, <1>6, <2>5
  <2>8. QED
    BY <2>2, <2>3, <2>6, <2>7
<1>8. v[next] = v[m] + Len(Frame(sent[next]))
  BY <1>3, <1>6
<1>9. k \in next .. n /\ k \in 0 .. n
  BY <1>1, <1>6
<1>10. /\ v[m] \in Int /\ v[k] \in Int /\ v[next] \in Int
       /\ Len(Frame(sent[next])) \in Nat /\ v[k] >= v[next]
  BY <1>4, <1>5, <1>6, <1>7, <1>9
<1>11. v[k] - v[m] >= Len(Frame(sent[next]))
  BY <1>8, <1>10
<1>12. QED
  BY <1>1, <1>2, <1>6, <1>10, <1>11

LEMMA ArrivedIs ==
    ASSUME NEW k \in Arrived
    PROVE  /\ k \in Len(received) .. Len(sent)
           /\ ~(Lengths[k] - Lengths[Len(received)]
                  > Len(buffer) + IF size = Unknown THEN 0 ELSE MESSAGE_SIZE_BYTES)
           /\ \A i \in 1 .. k : sent[i] # <<>>
BY DEF Arrived, Lengths, Steps

\* An end of file takes no message with it that came before it: the loop was
\* left because the next message is not there in whole, or is empty.
THEOREM NothingIsLost == Spec => []NothingLostAtTheEnd
<1>1. IInv => NothingLostAtTheEnd
  <2>1. SUFFICES ASSUME IInv, ~reading, stream # "reset", NEW k \in Arrived,
                        ~(k <= Len(received))
                 PROVE  FALSE
    BY DEF NothingLostAtTheEnd
  <2>2. TypeOK /\ PlaceInv /\ StreamInv /\ EndInv
    BY <2>1 DEF IInv
  <2>3. PICK frames : Frames(sent, frames)
    BY <2>2 DEF StreamInv
  <2>4. PICK m \in Nat, n \in Nat : m = Len(received) /\ n = Len(sent)
    BY <2>2, <2>3, UnreadIs
  <2>5. m \in 0 .. n /\ k \in m + 1 .. n /\ m + 1 \in 1 .. k
    BY <2>1, <2>4, ArrivedIs
  <2>6. /\ m + 1 \in 1 .. n /\ Lengths[m] \in Int /\ Lengths[k] \in Int
        /\ Lengths[k] - Lengths[m] >= Len(Frame(sent[m + 1]))
    BY <2>2, <2>3, <2>4, <2>5, LengthsGrow
  <2>7. PICK payload : payload = sent[m + 1] /\ payload \in Payloads /\ payload # <<>>
    BY <2>1, <2>2, <2>3, <2>4, <2>5, <2>6, ArrivedIs, UnreadIs
  <2>8. /\ payload \in Seq(Byte) /\ Len(payload) \in Nat
        /\ Len(Frame(payload)) = 4 + Len(payload)
    BY <2>7, FrameIs DEF MESSAGE_SIZE_BYTES
  <2>9. Len(payload) # 0
    BY <2>7, <2>8, EmptySeq
  <2>10. ~(Lengths[k] - Lengths[m] > Len(buffer) + IF size = Unknown THEN 0 ELSE 4)
    BY <2>1, <2>4, ArrivedIs DEF MESSAGE_SIZE_BYTES
  <2>11. Len(buffer) \in Nat
    BY <2>2, LenProperties DEF TypeOK
  <2>12. Lengths[k] - Lengths[m] >= 4 + Len(payload)
    BY <2>6, <2>7, <2>8
  <2>13. CASE size = Unknown
    <3>1. Len(buffer) < 4
      BY <2>1, <2>2, <2>13 DEF EndInv, Needed, MESSAGE_SIZE_BYTES, Unknown
    <3>2. QED
      BY <2>6, <2>8, <2>10, <2>11, <2>12, <2>13, <3>1
  <2>14. CASE size # Unknown
    <3>1. size = Len(payload)
      BY <2>2, <2>4, <2>7, <2>14 DEF PlaceInv
    <3>2. Len(buffer) < Len(payload)
      BY <2>1, <2>2, <2>9, <2>14, <3>1 DEF EndInv, Needed
    <3>3. QED
      BY <2>6, <2>8, <2>10, <2>11, <2>12, <2>14, <3>2
  <2>15. QED
    BY <2>13, <2>14
<1>2. QED
  BY <1>1, Invariance, PTL

=============================================================================
