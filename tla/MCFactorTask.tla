---------------------------- MODULE MCFactorTask ----------------------------
(***************************************************************************)
(* FactorTask on small instances: one peer next to this agent, each        *)
(* subtask given to one of the two, and a false report in the peer's name, *)
(* by the peer or by somebody else.                                        *)
(***************************************************************************)
EXTENDS FactorTask

MCFalseReports == [from : Peers, origin : {"signed", "forged"}, idx : {1}, factors : {{0}}]
=============================================================================
