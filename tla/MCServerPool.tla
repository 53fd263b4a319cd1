---------------------------- MODULE MCServerPool ----------------------------
(* Two workers behind a channel of two, so that five NACKs fill both, the  *)
(* reader's hand included.                                                 *)
EXTENDS ServerPool, TLC
=============================================================================
