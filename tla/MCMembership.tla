---------------------------- MODULE MCMembership ----------------------------
(***************************************************************************)
(* Membership with a few requests that may all overlap, one seeded code    *)
(* and one more to be issued, and two handles.                             *)
(***************************************************************************)
EXTENDS Membership, TLC

\* Requests, and handles, are interchangeable.
Symmetry == Permutations(Requests) \cup Permutations(Handles)
=============================================================================
