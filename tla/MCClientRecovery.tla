-------------------------- MODULE MCClientRecovery --------------------------
(* Instance of ClientRecovery for TLC. *)
EXTENDS ClientRecovery

\* kRetryDelays scaled to the time units of the .cfg files.
MCDelays == <<1, 1, 2>>
=============================================================================
