------------------------- MODULE MCClusterMetadata -------------------------
(***************************************************************************)
(* ClusterMetadata for TLC: the topic names are alike, three topics may be *)
(* created (one of them twice, and behind one or two cuts).                *)
(***************************************************************************)
EXTENDS ClusterMetadata, TLC

AlikeNames == Permutations(Names)
=============================================================================
