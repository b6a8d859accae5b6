---------------------------- MODULE MCLifecycle ----------------------------
(***************************************************************************)
(* Lifecycle on a small instance: more work than one executor thread takes *)
(* at a time, and a stop at any moment.                                    *)
(***************************************************************************)
EXTENDS Lifecycle
=============================================================================
