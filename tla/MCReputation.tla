---------------------------- MODULE MCReputation ----------------------------
(***************************************************************************)
(* Reputation with one sender, two key pairs, and a window of three ticks  *)
(* that admits two datagrams, over several windows.                        *)
(***************************************************************************)
EXTENDS Reputation
=============================================================================
