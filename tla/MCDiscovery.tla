---------------------------- MODULE MCDiscovery ----------------------------
(***************************************************************************)
(* Discovery with a first node, started without bootstrap addresses, and   *)
(* others that were given its address; those in SelfListed have their own  *)
(* address on the list too, as when all nodes get the same list.           *)
(***************************************************************************)
EXTENDS Discovery

CONSTANTS hub, a1, a2, SelfListed

MCAddressOf == [a \in Agents |-> CASE a = hub -> 9000 [] a = a1 -> 9001 [] a = a2 -> 9002]

MCBootstrap ==
    [a \in Agents |-> IF a = hub THEN {}
                      ELSE {9000} \cup (IF a \in SelfListed THEN {MCAddressOf[a]} ELSE {})]
=============================================================================
