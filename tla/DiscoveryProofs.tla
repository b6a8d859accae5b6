--------------------------- MODULE DiscoveryProofs ---------------------------
(***************************************************************************)
(* Theorems about Discovery, for any agents, addresses and bootstrap lists *)
(* and any number of faults.                                               *)
(***************************************************************************)
EXTENDS Discovery, TLAPS

-----------------------------------------------------------------------------
(* Types.                                                                  *)

Table == [Agents -> {"unknown", "placeholder", "registered"}]

LEMMA AddressesType == \A a \in Agents : AddressOf[a] \in Addresses
BY DEF Addresses

LEMMA HelloType ==
    ASSUME NEW a \in Agents, NEW S \in SUBSET Addresses
    PROVE  Hello(a, S) \subseteq Messages
BY DEF Hello, Messages

LEMMA PeersOfType ==
    ASSUME NEW a \in Agents, NEW ids \in SUBSET Agents, NEW x \in Addresses
    PROVE  PeersOf(a, ids, x) \subseteq Messages
BY DEF PeersOf, Messages

\* Receiving a datagram puts nothing else on the network than the answers.
LEMMA ReceivesNet ==
    ASSUME TypeOK, NEW a \in Agents, NEW m \in net, NEW out \in SUBSET Messages,
           Receives(a, m, out)
    PROVE  /\ net' \subseteq net \cup out /\ net' \subseteq Messages
           /\ faults' \in 0..MaxFaults
           /\ UNCHANGED running /\ running[a] = "on" /\ m.to = AddressOf[a]
BY DiscoveryAssumption DEF Receives, TypeOK

\* What the handling of one message adds to the network and to the table.
HelloAnswer(a, m) ==
    IF known[a][m.from] = "unknown"
    THEN Hello(a, {AddressOf[m.from]}) \cup PeersOf(a, Known(a) \cup {m.from}, AddressOf[m.from])
    ELSE {}

NewPeers(a, m) == (m.ids \ {a}) \ Known(a)

PeersAnswer(a, m) == Hello(a, {AddressOf[b] : b \in NewPeers(a, m)})

LEMMA HandleHelloStep ==
    ASSUME TypeOK, NEW a \in Agents, NEW m \in net, HandleHello(a, m)
    PROVE  /\ m.from \in Agents /\ m.from # a /\ m.to = AddressOf[a]
           /\ m.type = "HELLO"
           /\ known' = [known EXCEPT ![a][m.from] = "registered"]
           /\ net' \subseteq net \cup HelloAnswer(a, m)
           /\ TypeOK'
<1>1. m.from \in Agents
    BY DEF TypeOK, Messages
<1>2. HelloAnswer(a, m) \in SUBSET Messages
    <2>1. AddressOf[m.from] \in Addresses
        BY <1>1, AddressesType
    <2>2. Known(a) \cup {m.from} \in SUBSET Agents
        BY <1>1 DEF Known
    <2> QED BY <2>1, <2>2, HelloType, PeersOfType DEF HelloAnswer
<1>3. Receives(a, m, HelloAnswer(a, m))
    BY DEF HandleHello, HelloAnswer
<1>4. known' \in [Agents -> Table]
    BY <1>1 DEF HandleHello, TypeOK, Table
<1> QED BY <1>1, <1>2, <1>3, <1>4, ReceivesNet DEF HandleHello, TypeOK, Table

LEMMA HandlePeersStep ==
    ASSUME TypeOK, NEW a \in Agents, NEW m \in net, HandlePeers(a, m)
    PROVE  /\ NewPeers(a, m) \in SUBSET Agents
           /\ known' = [known EXCEPT ![a] =
                  [b \in Agents |-> IF b \in NewPeers(a, m) THEN "placeholder" ELSE @[b]]]
           /\ net' \subseteq net \cup PeersAnswer(a, m)
           /\ TypeOK'
<1>1. m.from \in Agents /\ NewPeers(a, m) \in SUBSET Agents
    BY DEF TypeOK, Messages, HandlePeers, NewPeers
<1>2. PeersAnswer(a, m) \in SUBSET Messages
    <2>1. {AddressOf[b] : b \in NewPeers(a, m)} \in SUBSET Addresses
        BY <1>1, AddressesType
    <2> QED BY <2>1, HelloType DEF PeersAnswer
<1>3. Receives(a, m, PeersAnswer(a, m))
    BY DEF HandlePeers, PeersAnswer, NewPeers
<1>4. known' = [known EXCEPT ![a] =
          [b \in Agents |-> IF b \in NewPeers(a, m) THEN "placeholder" ELSE @[b]]]
    BY DEF HandlePeers, NewPeers
<1>5. known' \in [Agents -> Table]
    BY <1>4 DEF TypeOK, Table
<1> QED BY <1>1, <1>2, <1>3, <1>4, <1>5, ReceivesNet DEF TypeOK, Table

\* A step that leaves the tables alone: what it may put on the network.
QuietSteps ==
    \/ \E a \in Agents : Start(a) \/ Stop(a) \/ GreetAgain(a)
    \/ \E a, b \in Agents : Gossip(a, b)
    \/ \E m \in net : Lose(m) \/ \E a \in Agents : DropOwn(a, m)
    \/ UNCHANGED vars

LEMMA QuietStep ==
    ASSUME TypeOK, QuietSteps
    PROVE  /\ UNCHANGED known
           /\ \A n \in net' \ net : n.type = "HELLO" =>
                  n.from \in Agents /\ n.to \in Bootstrap[n.from]
           /\ TypeOK'
<1>1. ASSUME NEW a \in Agents, Start(a) \/ GreetAgain(a)
      PROVE  /\ UNCHANGED known
             /\ \A n \in net' \ net : n.from = a /\ n.to \in Bootstrap[a]
             /\ TypeOK'
    <2>1. Hello(a, Bootstrap[a]) \subseteq Messages
        BY HelloType, DiscoveryAssumption
    <2> QED BY <1>1, <2>1 DEF Start, GreetAgain, TypeOK, Hello
<1>2. ASSUME NEW a \in Agents, Stop(a)
      PROVE  UNCHANGED known /\ net' = net /\ TypeOK'
    BY <1>2, DiscoveryAssumption DEF Stop, TypeOK
<1>3. ASSUME NEW a \in Agents, NEW b \in Agents, Gossip(a, b)
      PROVE  UNCHANGED known /\ (\A n \in net' \ net : n.type = "PEERS") /\ TypeOK'
    <2>1. PeersOf(a, Known(a), AddressOf[b]) \subseteq Messages
        BY PeersOfType, AddressesType DEF Known
    <2> QED BY <1>3, <2>1 DEF Gossip, TypeOK, PeersOf
<1>4. ASSUME NEW m \in net, Lose(m)
      PROVE  UNCHANGED known /\ net' \subseteq net /\ TypeOK'
    BY <1>4, DiscoveryAssumption DEF Lose, TypeOK
<1>5. ASSUME NEW m \in net, NEW a \in Agents, DropOwn(a, m)
      PROVE  UNCHANGED known /\ net' \subseteq net /\ TypeOK'
    <2>1. Receives(a, m, {}) /\ UNCHANGED known
        BY <1>5 DEF DropOwn
    <2> QED BY <2>1, ReceivesNet DEF TypeOK
<1>6. CASE UNCHANGED vars
    BY <1>6 DEF vars, TypeOK
<1> QED BY <1>1, <1>2, <1>3, <1>4, <1>5, <1>6 DEF QuietSteps

LEMMA NextSplit ==
    ASSUME [Next]_vars
    PROVE  \/ QuietSteps
           \/ \E a \in Agents, m \in net : HandleHello(a, m) \/ HandlePeers(a, m)
BY DEF Next, Receive, QuietSteps

LEMMA NextTypeOK == TypeOK /\ [Next]_vars => TypeOK'
BY NextSplit, QuietStep, HandleHelloStep, HandlePeersStep

LEMMA InitTypeOK == Init => TypeOK
BY DiscoveryAssumption DEF Init, TypeOK

THEOREM DiscoveryTypeCorrect == Spec => []TypeOK
BY InitTypeOK, NextTypeOK, PTL DEF Spec

-----------------------------------------------------------------------------
(* The peer tables.                                                        *)

\* No agent ever lists itself, whatever lists come back to it.
THEOREM NobodyListsItself == Spec => []NeverOwnPeer
<1>1. Init => NeverOwnPeer
    BY DEF Init, NeverOwnPeer, Known
<1>2. TypeOK /\ NeverOwnPeer /\ [Next]_vars => NeverOwnPeer'
    <2> SUFFICES ASSUME TypeOK, NeverOwnPeer, [Next]_vars PROVE NeverOwnPeer'
        OBVIOUS
    <2>1. CASE QuietSteps
        BY <2>1, QuietStep DEF NeverOwnPeer, Known
    <2>2. ASSUME NEW a \in Agents, NEW m \in net, HandleHello(a, m) PROVE NeverOwnPeer'
        BY <2>2, HandleHelloStep DEF NeverOwnPeer, Known, TypeOK
    <2>3. ASSUME NEW a \in Agents, NEW m \in net, HandlePeers(a, m) PROVE NeverOwnPeer'
        <3>1. a \notin NewPeers(a, m)
            BY DEF NewPeers
        <3> QED BY <2>3, <3>1, HandlePeersStep DEF NeverOwnPeer, Known, TypeOK
    <2> QED BY <2>1, <2>2, <2>3, NextSplit
<1> QED BY <1>1, <1>2, DiscoveryTypeCorrect, PTL DEF Spec

\* A registered peer stays registered and a placeholder stays listed.
THEOREM PeersAreKept == Spec => KeysAreKept
<1> DEFINE Kept ==
        \A a, b \in Agents :
            /\ known[a][b] = "registered" => known'[a][b] = "registered"
            /\ known[a][b] = "placeholder" => known'[a][b] # "unknown"
<1>1. TypeOK /\ [Next]_vars => Kept
    <2> SUFFICES ASSUME TypeOK, [Next]_vars PROVE Kept
        OBVIOUS
    <2>1. CASE QuietSteps
        BY <2>1, QuietStep
    <2>2. ASSUME NEW a \in Agents, NEW m \in net, HandleHello(a, m) PROVE Kept
        BY <2>2, HandleHelloStep DEF TypeOK
    <2>3. ASSUME NEW a \in Agents, NEW m \in net, HandlePeers(a, m) PROVE Kept
        <3>1. \A b \in NewPeers(a, m) : known[a][b] = "unknown"
            BY <2>3, HandlePeersStep DEF NewPeers, Known
        <3> QED BY <2>3, <3>1, HandlePeersStep DEF TypeOK
    <2> QED BY <2>1, <2>2, <2>3, NextSplit
<1>2. TypeOK /\ [Next]_vars => [Kept]_vars
    BY <1>1
<1> QED BY <1>2, DiscoveryTypeCorrect, PTL DEF Spec, KeysAreKept

-----------------------------------------------------------------------------
(* One-sided acquaintance.                                                 *)

\* Inductive: a HELLO under way was sent to an address its sender has a
\* reason to greet, so the receiver registers nobody else.
GreetingsHaveReason ==
    /\ RegisteredHadReason
    /\ \A m \in net : m.type = "HELLO" => m.to \in Contacts(m.from)

\* Reasons do not go away.
LEMMA ContactsGrow ==
    ASSUME TypeOK, [Next]_vars, NEW b \in Agents
    PROVE  Contacts(b) \subseteq Contacts(b)'
<1>1. Known(b) \subseteq Known(b)'
    <2>1. CASE QuietSteps
        BY <2>1, QuietStep DEF Known
    <2>2. ASSUME NEW a \in Agents, NEW m \in net, HandleHello(a, m)
          PROVE  Known(b) \subseteq Known(b)'
        BY <2>2, HandleHelloStep DEF Known, TypeOK
    <2>3. ASSUME NEW a \in Agents, NEW m \in net, HandlePeers(a, m)
          PROVE  Known(b) \subseteq Known(b)'
        BY <2>3, HandlePeersStep DEF Known, TypeOK
    <2> QED BY <2>1, <2>2, <2>3, NextSplit
<1> QED BY <1>1 DEF Contacts

\* Whoever an agent has registered knew it, or was started with its address:
\* a lost answer leaves acquaintance one-sided only towards bootstrap nodes.
THEOREM OneSidedOnlyByBootstrap == Spec => []RegisteredHadReason
<1>1. Init => GreetingsHaveReason
    BY DEF Init, GreetingsHaveReason, RegisteredHadReason
<1>2. TypeOK /\ GreetingsHaveReason /\ [Next]_vars => GreetingsHaveReason'
    <2> SUFFICES ASSUME TypeOK, GreetingsHaveReason, [Next]_vars
                 PROVE  GreetingsHaveReason'
        OBVIOUS
    <2>1. \A b \in Agents : Contacts(b) \subseteq Contacts(b)'
        BY ContactsGrow
    <2>2. \A m \in net : m.from \in Agents
        BY DEF TypeOK, Messages
    <2>3. CASE QuietSteps
        <3>1. \A n \in net' : n.type = "HELLO" => n.to \in Contacts(n.from)'
            BY <2>1, <2>2, <2>3, QuietStep DEF GreetingsHaveReason, Contacts
        <3> QED BY <2>1, <2>3, <3>1, QuietStep DEF GreetingsHaveReason, RegisteredHadReason
    <2>4. ASSUME NEW a \in Agents, NEW m \in net, HandleHello(a, m)
          PROVE  GreetingsHaveReason'
        <3>1. AddressOf[a] \in Contacts(m.from)
            BY <2>4, HandleHelloStep DEF GreetingsHaveReason
        <3>2. RegisteredHadReason'
            <4>1. m.from \in Agents /\ known' = [known EXCEPT ![a][m.from] = "registered"]
                BY <2>4, HandleHelloStep
            <4>2. \A x, y \in Agents :
                      known'[x][y] = "registered" =>
                          known[x][y] = "registered" \/ (x = a /\ y = m.from)
                BY <4>1 DEF TypeOK
            <4>3. \A x, y \in Agents :
                      known[x][y] = "registered" => AddressOf[x] \in Contacts(y)
                BY DEF GreetingsHaveReason, RegisteredHadReason
            <4>4. \A x, y \in Agents :
                      known'[x][y] = "registered" => AddressOf[x] \in Contacts(y)
                BY <3>1, <4>1, <4>2, <4>3
            <4> QED BY <2>1, <4>4 DEF RegisteredHadReason
        <3>3. \A n \in HelloAnswer(a, m) :
                  n.type = "HELLO" => n.from = a /\ n.to = AddressOf[m.from]
            BY DEF HelloAnswer, Hello, PeersOf
        <3>4. AddressOf[m.from] \in Contacts(a)'
            BY <2>4, HandleHelloStep DEF Contacts, Known, TypeOK
        <3>5. \A n \in net' : n.type = "HELLO" => n.to \in Contacts(n.from)'
            BY <2>1, <2>2, <2>4, <3>3, <3>4, HandleHelloStep DEF GreetingsHaveReason
        <3> QED BY <3>2, <3>5 DEF GreetingsHaveReason
    <2>5. ASSUME NEW a \in Agents, NEW m \in net, HandlePeers(a, m)
          PROVE  GreetingsHaveReason'
        <3>1. \A x, y \in Agents : known'[x][y] = "registered" => known[x][y] = "registered"
            BY <2>5, HandlePeersStep DEF TypeOK
        <3>2. RegisteredHadReason'
            BY <2>1, <3>1 DEF GreetingsHaveReason, RegisteredHadReason
        <3>3. \A n \in PeersAnswer(a, m) :
                  n.from = a /\ \E b \in NewPeers(a, m) : n.to = AddressOf[b]
            BY DEF PeersAnswer, Hello
        <3>4. \A b \in NewPeers(a, m) : AddressOf[b] \in Contacts(a)'
            BY <2>5, HandlePeersStep DEF Contacts, Known, TypeOK
        <3>5. \A n \in net' : n.type = "HELLO" => n.to \in Contacts(n.from)'
            BY <2>1, <2>2, <2>5, <3>3, <3>4, HandlePeersStep DEF GreetingsHaveReason
        <3> QED BY <3>2, <3>5 DEF GreetingsHaveReason
    <2> QED BY <2>3, <2>4, <2>5, NextSplit
<1>3. GreetingsHaveReason => RegisteredHadReason
    BY DEF GreetingsHaveReason
<1> QED BY <1>1, <1>2, <1>3, DiscoveryTypeCorrect, PTL DEF Spec
=============================================================================
