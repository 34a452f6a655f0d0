--------------------------- MODULE MCWorldResync ---------------------------
(* Small instances of WorldResync.                                         *)
EXTENDS WorldResync
=============================================================================
