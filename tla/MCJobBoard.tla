----------------------------- MODULE MCJobBoard -----------------------------
(***************************************************************************)
(* Two users, one invited by the other: a newcomer with one claim at a     *)
(* time and a contributor with three, and one job more than the limit.     *)
(***************************************************************************)
EXTENDS JobBoard

CONSTANTS alice, bob

MCUsers == {alice, bob}
MCInvitedBy == [u \in MCUsers |-> IF u = bob THEN alice ELSE NoUser]
=============================================================================
