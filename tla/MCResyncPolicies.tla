-------------------------- MODULE MCResyncPolicies --------------------------
(* A small instance of ResyncPolicies.                                     *)
EXTENDS ResyncPolicies

\* The one set of fields that asks for a recovery and nothing else.
OneField == {{"enemies", "missing"}}
=============================================================================
