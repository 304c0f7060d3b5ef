------------------------------ MODULE MCFraming -----------------------------
(***************************************************************************)
(* Small instances of Framing for TLC.                                     *)
(***************************************************************************)
EXTENDS Framing

\* A message of one byte, one whose bytes look like a frame, and an empty one.
MCPayloads == {<<7>>, <<0, 0, 0, 1, 9>>, <<>>}
=============================================================================
