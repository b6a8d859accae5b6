------------------------------ MODULE Discovery ------------------------------
(***************************************************************************)
(* How agents find each other (gradatim/agent.py): HELLO to the bootstrap  *)
(* addresses, HELLO and PEERS in answer, gossip of the peer list, over UDP *)
(* that loses, repeats and reorders.                                       *)
(*                                                                         *)
(* An agent is one run of the program: it draws a new agent_id when it is  *)
(* started again, so a restart is another agent at the same address.  The  *)
(* listener thread is the only writer of the peer table, so the handling   *)
(* of one message is one step.  Signatures, proof of work, rate limits and *)
(* the blacklist pass for the agents here (see Reputation); tables stay    *)
(* below the 20 entries at which _send_peers cuts its list.                *)
(***************************************************************************)
EXTENDS Integers, FiniteSets

CONSTANTS
    Agents,      \* agent_ids: runs of the program
    AddressOf,   \* where each one listens
    Bootstrap,   \* the bootstrap addresses each one is started with
    MaxFaults,   \* bound: datagrams lost or repeated, agents stopped
    MaxLists     \* bound: peer lists in flight when gossip sends one more

Addresses == {AddressOf[a] : a \in Agents}

ASSUME DiscoveryAssumption ==
    /\ IsFiniteSet(Agents)
    /\ DOMAIN AddressOf = Agents
    /\ Bootstrap \in [Agents -> SUBSET Addresses]
    /\ MaxFaults \in Nat /\ MaxLists \in Nat

VARIABLES
    running,  \* off, on or stopped
    known,    \* _peers: unknown, a placeholder without key, or registered
    net,      \* datagrams in flight
    faults    \* datagrams lost or repeated, agents stopped so far

vars == <<running, known, net, faults>>

Messages ==
    [type : {"HELLO"}, from : Agents, to : Addresses]
        \cup [type : {"PEERS"}, from : Agents, to : Addresses, ids : SUBSET Agents]

Hello(a, addresses) == {[type |-> "HELLO", from |-> a, to |-> x] : x \in addresses}

Known(a) == {b \in Agents : known[a][b] # "unknown"}

\* _send_peers: nothing is sent for an empty list.
PeersOf(a, ids, address) ==
    IF ids = {} THEN {}
    ELSE {[type |-> "PEERS", from |-> a, to |-> address, ids |-> ids]}

Init ==
    /\ running = [a \in Agents |-> "off"]
    /\ known = [a \in Agents |-> [b \in Agents |-> "unknown"]]
    /\ net = {}
    /\ faults = 0

-----------------------------------------------------------------------------
\* start: bind the address, greet the bootstrap addresses.
Start(a) ==
    /\ running[a] = "off"
    /\ \A b \in Agents : running[b] = "on" => AddressOf[b] # AddressOf[a]
    /\ running' = [running EXCEPT ![a] = "on"]
    /\ net' = net \cup Hello(a, Bootstrap[a])
    /\ UNCHANGED <<known, faults>>

\* stop, or a crash: nobody is told.
Stop(a) ==
    /\ running[a] = "on"
    /\ faults < MaxFaults /\ faults' = faults + 1
    /\ running' = [running EXCEPT ![a] = "stopped"]
    /\ UNCHANGED <<known, net>>

\* The listener of a takes m off its socket and sends the datagrams in out;
\* the network may deliver m once more.
Receives(a, m, out) ==
    /\ running[a] = "on" /\ m \in net /\ m.to = AddressOf[a]
    /\ \/ net' = (net \ {m}) \cup out /\ UNCHANGED faults
       \/ faults < MaxFaults /\ faults' = faults + 1 /\ net' = net \cup out
    /\ UNCHANGED running

\* _on_message_received drops the agent's own messages.
DropOwn(a, m) ==
    /\ m.from = a
    /\ Receives(a, m, {})
    /\ UNCHANGED known

\* Mutants of HandleHello: the answer goes to the sender's id in place of its
\* address; the peer list goes out in place of the HELLO.
HandleHelloToId(a, m) ==
    /\ m.type = "HELLO" /\ m.from # a
    /\ known' = [known EXCEPT ![a][m.from] = "registered"]
    /\ Receives(a, m, IF known[a][m.from] = "unknown" THEN Hello(a, {m.from}) ELSE {})

HandleHelloPeersOnly(a, m) ==
    /\ m.type = "HELLO" /\ m.from # a
    /\ known' = [known EXCEPT ![a][m.from] = "registered"]
    /\ LET back  == AddressOf[m.from]
           isNew == known[a][m.from] = "unknown"
       IN  Receives(a, m, IF isNew THEN PeersOf(a, Known(a) \cup {m.from}, back) ELSE {})

\* _handle_hello: register the sender; answer a new one with a HELLO and
\* with the peer list, which has the sender in it.
HandleHello(a, m) ==
    /\ m.type = "HELLO" /\ m.from # a
    /\ known' = [known EXCEPT ![a][m.from] = "registered"]
    /\ LET back  == AddressOf[m.from]
           isNew == known[a][m.from] = "unknown"
       IN  Receives(a, m, IF isNew
                          THEN Hello(a, {back}) \cup PeersOf(a, Known(a) \cup {m.from}, back)
                          ELSE {})

\* Mutants of HandlePeers: this agent's own entry is not skipped; a known
\* entry is overwritten; unknown peers are greeted but not entered.
HandlePeersWithSelf(a, m) ==
    /\ m.type = "PEERS" /\ m.from # a
    /\ LET new == m.ids \ Known(a)
       IN  /\ known' = [known EXCEPT ![a] =
                  [b \in Agents |-> IF b \in new THEN "placeholder" ELSE @[b]]]
           /\ Receives(a, m, Hello(a, {AddressOf[b] : b \in new}))

HandlePeersOverwriting(a, m) ==
    /\ m.type = "PEERS" /\ m.from # a
    /\ LET new == m.ids \ {a}
       IN  /\ known' = [known EXCEPT ![a] =
                  [b \in Agents |-> IF b \in new THEN "placeholder" ELSE @[b]]]
           /\ Receives(a, m, Hello(a, {AddressOf[b] : b \in new}))

HandlePeersForgetting(a, m) ==
    /\ m.type = "PEERS" /\ m.from # a
    /\ UNCHANGED known
    /\ LET new == (m.ids \ {a}) \ Known(a)
       IN  Receives(a, m, Hello(a, {AddressOf[b] : b \in new}))

\* _handle_peers: enter each unknown peer without a key, and greet it.
HandlePeers(a, m) ==
    /\ m.type = "PEERS" /\ m.from # a
    /\ LET new == (m.ids \ {a}) \ Known(a)
       IN  /\ known' = [known EXCEPT ![a] =
                  [b \in Agents |-> IF b \in new THEN "placeholder" ELSE @[b]]]
           /\ Receives(a, m, Hello(a, {AddressOf[b] : b \in new}))

\* One round of _gossip_loop: greet the bootstrap addresses again as long as
\* nobody is known, ...
GreetAgain(a) ==
    /\ running[a] = "on" /\ Known(a) = {}
    /\ net' = net \cup Hello(a, Bootstrap[a])
    /\ UNCHANGED <<running, known, faults>>

\* ... else send the peer list to a random known peer.  (Bound: not while a
\* list to that peer is in flight, nor MaxLists of them; rounds are 5 seconds apart.)
Gossip(a, b) ==
    /\ running[a] = "on" /\ b \in Known(a)
    /\ ~\E m \in net : m.type = "PEERS" /\ m.from = a /\ m.to = AddressOf[b]
    /\ Cardinality({m \in net : m.type = "PEERS"}) < MaxLists
    /\ net' = net \cup PeersOf(a, Known(a), AddressOf[b])
    /\ UNCHANGED <<running, known, faults>>

\* A datagram is lost: for free where nobody listens, as a fault elsewhere.
Lose(m) ==
    /\ m \in net /\ net' = net \ {m}
    /\ IF \E a \in Agents : running[a] = "on" /\ AddressOf[a] = m.to
       THEN faults < MaxFaults /\ faults' = faults + 1
       ELSE UNCHANGED faults
    /\ UNCHANGED <<running, known>>

Receive(a, m) == DropOwn(a, m) \/ HandleHello(a, m) \/ HandlePeers(a, m)

Next ==
    \/ \E a \in Agents : Start(a) \/ Stop(a) \/ GreetAgain(a)
    \/ \E a, b \in Agents : Gossip(a, b)
    \/ \E m \in net : Lose(m) \/ \E a \in Agents : Receive(a, m)

\* A running listener keeps reading what each sender sends, and the gossip
\* thread greets again as long as nobody is known; its random choice of whom
\* to send the list to is left open.  Nobody is obliged to start or to stop,
\* and nothing to get lost.
DiscoveryFairness ==
    \A a \in Agents :
        /\ WF_vars(GreetAgain(a))
        /\ \A b \in Agents \ {a} :
               /\ WF_vars(\E m \in net : m.from = b /\ HandleHello(a, m))
               /\ WF_vars(\E m \in net : m.from = b /\ HandlePeers(a, m))

Spec == Init /\ [][Next]_vars /\ DiscoveryFairness

-----------------------------------------------------------------------------
(* Properties.                                                             *)

TypeOK ==
    /\ running \in [Agents -> {"off", "on", "stopped"}]
    /\ known \in [Agents -> [Agents -> {"unknown", "placeholder", "registered"}]]
    /\ net \subseteq Messages
    /\ faults \in 0..MaxFaults

\* No agent lists itself: not from the lists its peers send back, which have
\* it in them, not from its own datagrams when it is its own bootstrap.
NeverOwnPeer == \A a \in Agents : a \notin Known(a)

\* The addresses a has had a reason to greet.
Contacts(a) == Bootstrap[a] \cup {AddressOf[b] : b \in Known(a)}

\* Acquaintance is one-sided only in one way: whoever a has registered, with
\* a key, knows an agent at a's address or was started with that address,
\* whatever was lost and whoever was restarted.
RegisteredHadReason ==
    \A a, b \in Agents :
        known[a][b] = "registered" => AddressOf[a] \in Contacts(b)

\* An agent does not forget a peer, and a key it has verified is never
\* replaced by an entry without one (agent.py:457).
KeysAreKept ==
    [][\A a, b \in Agents :
          /\ known[a][b] = "registered" => known'[a][b] = "registered"
          /\ known[a][b] = "placeholder" => known'[a][b] # "unknown"]_vars

Undisturbed == faults = 0

\* The addresses an agent shares with its bootstrap nodes.
Reaches(a) == Bootstrap[a] \cup {AddressOf[a]}

Introduced(a, b) ==
    /\ running[a] = "on" /\ running[b] = "on"
    /\ \E h \in Agents : running[h] = "on" /\ AddressOf[h] \in Reaches(a) \cap Reaches(b)

Acquainted ==
    \A a, b \in Agents : a # b /\ Introduced(a, b) => known[a][b] = "registered"

\* README.md:49: without faults, agents that share a bootstrap node end up
\* with each other's keys, in whichever order they start and greet: after
\* every start a moment comes when all of them have all the others'.
EveryoneMeets == []Undisturbed => []<>Acquainted
=============================================================================
