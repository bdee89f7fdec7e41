--------------------------- MODULE MCFileTransfer ---------------------------
(* FileTransfer for TLC.  Every upload goes to the name a, so that uploads   *)
(* compete for one .part, and downloads come from b; a transfer has two      *)
(* units of data when it is Long and one otherwise.                          *)
EXTENDS FileTransfer, TLC

CONSTANTS a, b, Long

MCNameOf == [t \in Transfers |-> IF t \in Uploads THEN a ELSE b]
MCSize   == [t \in Transfers |-> IF t \in Long THEN 2 ELSE 1]
Symmetry == Permutations(Conns)
=============================================================================
