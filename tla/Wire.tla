-------------------------------- MODULE Wire --------------------------------
(***************************************************************************)
(* Bytes on the wire: the lengths of strings and arrays, and what follows  *)
(* from them for a message whose fields are listed in a layout (the        *)
(* layouts are in module Formats).                                         *)
(***************************************************************************)
EXTENDS Numbers, TLC

CONSTANT NULL       \* a null string or a null array

-----------------------------------------------------------------------------
(* Lengths of strings and counts of arrays.  One of                        *)
(*   "int16", "int32"    signed, -1 for null                               *)
(*   "uint16", "uint32"  the same bytes as the broker reads most of them   *)
(*   "uvarint"           one more than the length, 0 for null              *)
(*   "byte"              the same in one byte: read_compact_string and the *)
(*                       places that read or write a compact array         *)
(*   "unchecked", "unchecked_uvarint"                                      *)
(*                       as "byte" and "uvarint", but a 0 is taken for a   *)
(*                       length of -1, and the reader goes back by one     *)

SizeOf(prefix) == IF prefix \in {"int16", "uint16"} THEN 2 ELSE 4

ReadLength(prefix, data, pos) ==
    CASE prefix \in {"int16", "int32"} ->
           [n |-> bytes_to_int_signed(read_bytes(data, pos, SizeOf(prefix))),
            pos |-> pos + SizeOf(prefix)]
      [] prefix \in {"uint16", "uint32"} ->
           [n |-> bytes_to_int(read_bytes(data, pos, SizeOf(prefix))),
            pos |-> pos + SizeOf(prefix)]
      [] prefix \in {"uvarint", "unchecked_uvarint"} ->
           LET v == read_uvarint(data, pos) IN [n |-> v.n - 1, pos |-> v.pos]
      [] prefix \in {"byte", "unchecked"} ->
           [n |-> bytes_to_int(read_bytes(data, pos, 1)) - 1, pos |-> pos + 1]

WriteLength(prefix, n) ==
    CASE prefix = "uvarint" -> encode_uvarint[n + 1]
      [] prefix = "byte"    -> int_to_bytes(n + 1, 1)
      [] OTHER              -> int_to_bytes(n, SizeOf(prefix))

-----------------------------------------------------------------------------
(* A layout is a sequence of fields.  A field without a value in the       *)
(* content is written with its default.                                    *)

Num(name, width, default) ==
    [name |-> name, kind |-> "int", width |-> width, prefix |-> "",
     of |-> <<>>, default |-> default]
Str(name, prefix) ==
    [name |-> name, kind |-> "string", width |-> 0, prefix |-> prefix,
     of |-> <<>>, default |-> <<>>]
Fixed(name, width) ==
    [name |-> name, kind |-> "bytes", width |-> width, prefix |-> "",
     of |-> <<>>, default |-> <<>>]
Arr(name, prefix, of) ==
    [name |-> name, kind |-> "array", width |-> 0, prefix |-> prefix,
     of |-> of, default |-> <<>>]

\* Sequences one behind the other.  This and the operators that read go by
\* halves, for TLC not to recurse too deep.
RECURSIVE Joined(_)
Joined(seqs) ==
    LET half == Len(seqs) \div 2
    IN  CASE seqs = <<>>   -> <<>>
          [] Len(seqs) = 1 -> seqs[1]
          [] Len(seqs) > 1 -> Joined(SubSeq(seqs, 1, half))
                                \o Joined(SubSeq(seqs, half + 1, Len(seqs)))

RECURSIVE Write(_, _), ReadField(_, _, _), Read(_, _, _), ReadItems(_, _, _, _),
          Agree(_, _, _), FitsOneByte(_, _)

\* The bytes of a record of values.
Write(layout, content) ==
    LET value(f) == IF f.name \in DOMAIN content THEN content[f.name] ELSE f.default
        length(v) == IF v = NULL THEN -1 ELSE Len(v)
        items(f, v) == IF v = NULL THEN <<>>
                       ELSE IF f.kind = "string" THEN v
                       ELSE Joined([i \in DOMAIN v |-> Write(f.of, v[i])])
        bytes(f) == CASE f.kind = "int" -> int_to_bytes(value(f), f.width)
                      [] f.kind = "bytes" -> value(f)
                      [] OTHER -> WriteLength(f.prefix, length(value(f))) \o items(f, value(f))
    IN  Joined([i \in DOMAIN layout |-> bytes(layout[i])])

\* A field that starts at `at`, and the position behind it.  A parser that
\* loops for an array goes on past the end of the data; of what it finds there
\* as many items are kept as the message has bytes.
ReadField(f, data, at) ==
    LET l == ReadLength(f.prefix, data, at)
        n == IF l.n > Len(data) THEN Len(data) ELSE l.n
        null == l.n < 0 /\ f.prefix \notin {"unchecked", "unchecked_uvarint"}
    IN  CASE f.kind = "int" ->
               [value |-> bytes_to_int_signed(read_bytes(data, at, f.width)),
                pos |-> at + f.width]
          [] f.kind = "bytes" ->
               [value |-> read_bytes(data, at, f.width), pos |-> at + f.width]
          [] f.kind \in {"string", "array"} /\ null -> [value |-> NULL, pos |-> l.pos]
          [] f.kind = "string" /\ ~null ->
               [value |-> read_bytes(data, l.pos, l.n), pos |-> l.pos + l.n]
          [] f.kind = "array" /\ ~null -> ReadItems(f.of, data, l.pos, n)

\* The record of values that is read from `pos` on.
Read(layout, data, pos) ==
    LET half  == Len(layout) \div 2
        field == ReadField(layout[1], data, pos)
        front == Read(SubSeq(layout, 1, half), data, pos)
        back  == Read(SubSeq(layout, half + 1, Len(layout)), data, front.pos)
    IN  CASE layout = <<>>   -> [value |-> <<>>, pos |-> pos]
          [] Len(layout) = 1 -> [value |-> layout[1].name :> field.value, pos |-> field.pos]
          [] Len(layout) > 1 -> [value |-> front.value @@ back.value, pos |-> back.pos]

\* One item of an array after the other.
ReadItems(layout, data, pos, n) ==
    LET item  == Read(layout, data, pos)
        front == ReadItems(layout, data, pos, n \div 2)
        back  == ReadItems(layout, data, front.pos, n - n \div 2)
    IN  CASE n = 0 -> [value |-> <<>>, pos |-> pos]
          [] n = 1 -> [value |-> <<item.value>>, pos |-> item.pos]
          [] n > 1 -> [value |-> front.value \o back.value, pos |-> back.pos]

\* Whatever the broker reads or writes the length of as one byte is short
\* enough for a uvarint of one byte.
FitsOneByte(layout, content) ==
    \A i \in DOMAIN layout :
      LET f == layout[i]
          v == content[f.name]
      IN  f.name \in DOMAIN content /\ f.kind \in {"string", "array"} /\ v # NULL =>
            /\ f.prefix \in {"byte", "unchecked"} => Len(v) <= 126
            /\ f.kind = "array" => \A j \in DOMAIN v : FitsOneByte(f.of, v[j])

\* What one side read is what the other side meant, as far as both know the
\* field; whether there is nothing or null makes no difference.
Agree(layout, meant, read) ==
    LET plain(v) == IF v = NULL THEN <<>> ELSE v
    IN  \A i \in DOMAIN layout :
          LET f == layout[i]
          IN  f.name \in DOMAIN meant \cap DOMAIN read =>
                LET m == meant[f.name]
                    r == read[f.name]
                IN  CASE f.kind = "int"    -> m = r
                      [] f.kind = "string" -> plain(m) = plain(r)
                      [] f.kind = "array"  ->
                           /\ Len(plain(m)) = Len(plain(r))
                           /\ \A j \in DOMAIN plain(m) : Agree(f.of, m[j], r[j])
=============================================================================
