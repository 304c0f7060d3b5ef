--------------------------- MODULE MCMetadataBytes --------------------------
(***************************************************************************)
(* Small instances of MetadataBytes for TLC.                               *)
(***************************************************************************)
EXTENDS MetadataBytes

\* b"metadata.version", of which only the length matters.
MCFeatureName == [i \in 1 .. 16 |-> 96 + i]
MCStamp       == <<0, 0, 1, 151, 40, 3, 2, 12>>
MCChecksum    == <<129, 2, 255, 12>>

Name(n) == [i \in 1 .. n |-> 96 + (i % 26)]

\* The longest name whose length fits one byte; partitions enough for record
\* numbers of two bytes; several topics in one command; a topic without
\* partitions; and one to be cut at every byte, also between two partitions.
MCWanted ==
    {<<<<Name(126), 1>>>>, <<<<Name(1), 64>>>>, <<<<Name(1), 2>>, <<Name(5), 1>>>>,
     <<<<Name(3), 0>>>>, <<<<Name(2), 2>>>>}
OneTopic == {<<<<Name(3), 1>>>>}
=============================================================================
