------------------------------- MODULE Numbers ------------------------------
(***************************************************************************)
(* Numbers as bytes: the integers of app/protocol.py, the varints of       *)
(* app/tools.py, and the Buffer of app/connection.py that they are read    *)
(* from.                                                                   *)
(*                                                                         *)
(* A message or a file is a sequence of bytes.  A byte above 255 stands    *)
(* for a call of int_to_bytes that raised OverflowError.                   *)
(***************************************************************************)
EXTENDS Integers, Sequences

Byte == 0 .. 255

\* A number whose upper bytes make this much is longer than any message or
\* file, and what follows does not matter.
Huge == 128 * 128 * 128

-----------------------------------------------------------------------------
(* app/protocol.py and app/connection.py *)

\* Buffer.read_bytes: past the end there is less, or nothing, to read.
read_bytes(data, pos, n) ==
    SubSeq(data, pos + 1, IF pos + n < Len(data) THEN pos + n ELSE Len(data))

\* bytes_to_int; no bytes at all are 0.
bytes_to_int(bytes) ==
    LET value[i \in 0 .. Len(bytes)] ==
          IF i = 0 THEN 0
          ELSE LET n == value[i - 1] IN IF n >= Huge THEN n ELSE n * 256 + bytes[i]
    IN  value[Len(bytes)]

\* bytes_to_int_signed; the only negative numbers are the small ones.
bytes_to_int_signed(bytes) ==
    LET last == bytes[Len(bytes)]
    IN  IF bytes # <<>> /\ last > 127 /\ \A i \in 1 .. Len(bytes) - 1 : bytes[i] = 255
        THEN last - 256 ELSE bytes_to_int(bytes)

\* int_to_bytes and int_to_bytes_signed of a number that fits in 32 bits.
int_to_bytes(n, size) ==
    LET q   == n \div 256
        r   == q \div 256
        low == <<n % 256, q % 256, r % 256, (r \div 256) % 256>>
    IN  [i \in 1 .. size |->
           IF size = 1 /\ n >= 0 THEN n
           ELSE IF size - i < 4 THEN low[size - i + 1]
           ELSE IF n < 0 THEN 255 ELSE 0]

\* Buffer.read_varint, the only read that raises past the end: the number and
\* the position behind it.
raw_varint(data, pos) ==
    LET at[p \in Nat] ==
          IF p >= Len(data) THEN [ok |-> FALSE, n |-> 0, pos |-> p]
          ELSE IF data[p + 1] < 128 THEN [ok |-> TRUE, n |-> data[p + 1], pos |-> p + 1]
          ELSE LET rest == at[p + 1]
                   more == IF rest.n < Huge THEN rest.n ELSE Huge
               IN  [ok |-> rest.ok, n |-> data[p + 1] - 128 + 128 * more, pos |-> rest.pos]
    IN  at[pos]
read_varint(data, pos) ==
    [raw_varint(data, pos) EXCEPT !.n = IF @ % 2 = 0 THEN @ \div 2 ELSE -((@ + 1) \div 2)]

-----------------------------------------------------------------------------
(* app/tools.py *)

encode_uvarint[n \in Nat] ==
    IF n > 127 THEN <<(n % 128) + 128>> \o encode_uvarint[n \div 128] ELSE <<n>>

\* The number and the position behind it.  (Definitions in the style of
\* read_uvarint_KeepsFlag are faulty variants of the definition that follows
\* them, to see that a property fails with them.)
read_uvarint_KeepsFlag(data, pos) ==
    LET at[p \in Nat] ==
          LET byte == bytes_to_int(read_bytes(data, p, 1))
              rest == at[p + 1]
          IN  IF byte < 128 THEN [n |-> byte, pos |-> p + 1]
              ELSE [n |-> byte + 128 * rest.n, pos |-> rest.pos]
    IN  at[pos]
read_uvarint(data, pos) ==
    LET at[p \in Nat] ==
          LET byte == bytes_to_int(read_bytes(data, p, 1))
              rest == at[p + 1]
          IN  IF byte < 128 THEN [n |-> byte, pos |-> p + 1]
              ELSE [n |-> byte - 128 + 128 * rest.n, pos |-> rest.pos]
    IN  at[pos]
=============================================================================
