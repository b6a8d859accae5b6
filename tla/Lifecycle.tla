----------------------------- MODULE Lifecycle -----------------------------
(***************************************************************************)
(* An agent from start() to the end of its last thread.  The owner starts  *)
(* and stops it; a listener, a task processor and a gossip thread run in   *)
(* between; callers of initiate_factorization and the task processor share *)
(* one executor.  What they share is two flags (the agent's and the        *)
(* transport's _running), the executor and the socket, which stop() takes  *)
(* away one after the other without waiting for more than three seconds.   *)
(***************************************************************************)
EXTENDS Naturals, Sequences, FiniteSets, Functions

CONSTANTS
    Assigns,      \* the ASSIGN datagrams that may arrive, each its own
    Hellos,       \* other datagrams, which the listener answers itself
    Callers,      \* calls of initiate_factorization
    Subtasks,     \* how many subtasks a call has
    Peers,        \* the peers a call may hand subtasks to
    Self,         \* this agent as a worker: None in the code's list of workers
    REDUNDANCY,   \* REDUNDANCY_FACTOR: workers per subtask
    MAX_WORKERS,  \* threads of the executor: 4 in the code
    MaxRounds,    \* bound: gossip rounds while the agent runs
    None

ASSUME LifecycleAssumption ==
    /\ Subtasks \in Nat /\ MAX_WORKERS \in Nat /\ MaxRounds \in Nat
    /\ REDUNDANCY \in Nat \ {0}
    /\ Self \notin Peers
    /\ Assigns \cap Hellos = {}
    /\ Assigns \cap (Callers \X (1..Subtasks)) = {}
    /\ None \notin Assigns \cup Hellos

\* What the executor runs: remote subtasks and the local ones of a call.
Local == Callers \X (1..Subtasks)
Jobs  == Assigns \cup Local

\* random.sample of all workers: as many as REDUNDANCY, or everyone there is,
\* this agent among them.
Samples ==
    {W \in SUBSET (Peers \cup {Self}) :
        /\ W # {} /\ Cardinality(W) <= REDUNDANCY
        /\ Cardinality(W) < REDUNDANCY => Self \in W}

VARIABLES
    running,    \* Agent._running
    shut,       \* the executor refuses submissions
    listening,  \* UDPTransport._running
    sock,       \* the socket: unbound, bound or closed
    owner,      \* where the owner is in start() or stop()
    listener,   \* where the listener thread is
    processor,  \* where the task processor is
    gossip,     \* where the gossip thread is
    call,       \* where each call is
    net,        \* datagrams that have not been received
    inbox,      \* the datagram the listener is handling
    queue,      \* Agent._task_queue
    hand,       \* the task the processor has taken off the queue
    pending,    \* submitted to the executor and not started
    executing,  \* being executed
    finished,   \* executed
    handed,     \* how many of its subtasks a call has begun to hand out
    todo,       \* the workers that have yet to get the last of these
    rounds,     \* gossip rounds begun
    sent        \* turns over with every step that puts a datagram out

flags == <<running, shut, listening, sock>>
work  == <<queue, hand, pending, executing, finished>>
vars  == <<flags, owner, listener, processor, gossip, call, net, inbox, work,
           handed, todo, rounds, sent>>

Init ==
    /\ running = FALSE /\ shut = FALSE /\ listening = FALSE /\ sock = "unbound"
    /\ owner = "bind"
    /\ listener = "unborn" /\ processor = "unborn" /\ gossip = "unborn"
    /\ call = [c \in Callers |-> "idle"]
    /\ net = Assigns \cup Hellos /\ inbox = None
    /\ queue = <<>> /\ hand = None
    /\ pending = <<>> /\ executing = {} /\ finished = {}
    /\ handed = [c \in Callers |-> 0] /\ todo = [c \in Callers |-> {}]
    /\ rounds = 0 /\ sent = 0

\* What goes out is of no interest here, only that something does.  On a
\* closed socket a send raises an OSError, which _send_message logs.
Send == sent' = IF sock = "closed" THEN sent ELSE 1 - sent

-----------------------------------------------------------------------------
(* The owner.                                                              *)

Bind ==
    /\ owner = "bind" /\ owner' = "run"
    /\ sock' = "bound" /\ listening' = TRUE /\ listener' = "check"
    /\ UNCHANGED <<running, shut, processor, gossip, call, net, inbox, work,
                   handed, todo, rounds, sent>>

Run ==
    /\ owner = "run" /\ owner' = "spawn"
    /\ running' = TRUE
    /\ UNCHANGED <<shut, listening, sock, listener, processor, gossip, call, net, inbox,
                   work, handed, todo, rounds, sent>>

\* Start the gossip thread, then the task processor.
Spawn ==
    /\ owner = "spawn" /\ owner' = "greet"
    /\ gossip' = "check" /\ processor' = "check"
    /\ UNCHANGED <<flags, listener, call, net, inbox, work, handed, todo, rounds, sent>>

\* HELLO to the bootstrap address; start() returns.
Greet ==
    /\ owner = "greet" /\ owner' = "serving"
    /\ Send
    /\ UNCHANGED <<flags, listener, processor, gossip, call, net, inbox, work,
                   handed, todo, rounds>>

StopRunning ==
    /\ owner = "serving" /\ owner' = "shut down"
    /\ running' = FALSE
    /\ UNCHANGED <<shut, listening, sock, listener, processor, gossip, call, net, inbox,
                   work, handed, todo, rounds, sent>>

\* shutdown(wait=False): what was submitted still runs.
ShutDownExecutor ==
    /\ owner = "shut down" /\ owner' = "silence"
    /\ shut' = TRUE
    /\ UNCHANGED <<running, listening, sock, listener, processor, gossip, call, net, inbox,
                   work, handed, todo, rounds, sent>>

StopListening ==
    /\ owner = "silence" /\ owner' = "join listener"
    /\ listening' = FALSE
    /\ UNCHANGED <<running, shut, sock, listener, processor, gossip, call, net, inbox,
                   work, handed, todo, rounds, sent>>

\* A join returns when its thread has ended or its three seconds are over.
JoinListener ==
    /\ owner = "join listener" /\ owner' = "close"
    /\ UNCHANGED <<flags, listener, processor, gossip, call, net, inbox, work,
                   handed, todo, rounds, sent>>

\* Mutant of CloseSocket: the socket is left to the garbage collector.
CloseSocketLater ==
    /\ owner = "close" /\ owner' = "join threads"
    /\ UNCHANGED <<flags, listener, processor, gossip, call, net, inbox,
                   work, handed, todo, rounds, sent>>

CloseSocket ==
    /\ owner = "close" /\ owner' = "join threads"
    /\ sock' = "closed"
    /\ UNCHANGED <<running, shut, listening, listener, processor, gossip, call, net, inbox,
                   work, handed, todo, rounds, sent>>

JoinThreads ==
    /\ owner = "join threads" /\ owner' = "stopped"
    /\ UNCHANGED <<flags, listener, processor, gossip, call, net, inbox, work,
                   handed, todo, rounds, sent>>

-----------------------------------------------------------------------------
(* The listener thread.                                                    *)

ListenerCheck ==
    /\ listener = "check"
    /\ listener' = IF listening THEN "receive" ELSE "ended"
    /\ UNCHANGED <<flags, owner, processor, gossip, call, net, inbox, work,
                   handed, todo, rounds, sent>>

\* recvfrom times out after a second, or it raises another OSError, which ends
\* the loop: always so on a closed socket, but an open one can fail as well.
ReceiveNothing ==
    /\ listener = "receive"
    /\ \/ sock # "closed" /\ listener' = "check"
       \/ listener' = "ended"
    /\ UNCHANGED <<flags, owner, processor, gossip, call, net, inbox, work,
                   handed, todo, rounds, sent>>

Receive(d) ==
    /\ listener = "receive" /\ sock = "bound" /\ d \in net
    /\ net' = net \ {d} /\ inbox' = d
    /\ listener' = "handle"
    /\ UNCHANGED <<flags, owner, processor, gossip, call, work, handed, todo, rounds, sent>>

HandleAssign ==
    /\ listener = "handle" /\ inbox \in Assigns
    /\ queue' = Append(queue, inbox)
    /\ inbox' = None /\ listener' = "check"
    /\ UNCHANGED <<flags, owner, processor, gossip, call, net, hand, pending, executing,
                   finished, handed, todo, rounds, sent>>

\* A HELLO is answered by a HELLO and a list of peers, or by nothing.
HandleHello ==
    /\ listener = "handle" /\ inbox \in Hellos
    /\ Send \/ UNCHANGED sent
    /\ inbox' = None /\ listener' = "check"
    /\ UNCHANGED <<flags, owner, processor, gossip, call, net, work, handed, todo, rounds>>

-----------------------------------------------------------------------------
(* The task processor.                                                     *)

ProcessorCheck ==
    /\ processor = "check"
    /\ processor' = IF running THEN "get" ELSE "ended"
    /\ UNCHANGED <<flags, owner, listener, gossip, call, net, inbox, work,
                   handed, todo, rounds, sent>>

\* Mutant of GetTimesOut: an empty queue ends the loop.
GetTimesOutForGood ==
    /\ processor = "get" /\ queue = <<>>
    /\ processor' = "ended"
    /\ UNCHANGED <<flags, owner, listener, gossip, call, net, inbox, work,
                   handed, todo, rounds, sent>>

GetTimesOut ==
    /\ processor = "get" /\ queue = <<>>
    /\ processor' = "check"
    /\ UNCHANGED <<flags, owner, listener, gossip, call, net, inbox, work,
                   handed, todo, rounds, sent>>

\* Mutant of GetTask: the task stays at the head of the queue.
GetTaskPeeking ==
    /\ processor = "get" /\ queue # <<>>
    /\ hand' = Head(queue)
    /\ processor' = "submit"
    /\ UNCHANGED <<flags, owner, listener, gossip, call, net, inbox, queue, pending, executing,
                   finished, handed, todo, rounds, sent>>

GetTask ==
    /\ processor = "get" /\ queue # <<>>
    /\ hand' = Head(queue) /\ queue' = Tail(queue)
    /\ processor' = "submit"
    /\ UNCHANGED <<flags, owner, listener, gossip, call, net, inbox, pending, executing,
                   finished, handed, todo, rounds, sent>>

SubmitTask ==
    /\ processor = "submit" /\ ~shut
    /\ pending' = Append(pending, hand) /\ hand' = None
    /\ processor' = "check"
    /\ UNCHANGED <<flags, owner, listener, gossip, call, net, inbox, queue, executing,
                   finished, handed, todo, rounds, sent>>

\* The RuntimeError of a submission after shutdown() ends the thread; the
\* task it holds is lost.
SubmitRaises ==
    /\ processor = "submit" /\ shut
    /\ processor' = "died"
    /\ UNCHANGED <<flags, owner, listener, gossip, call, net, inbox, work,
                   handed, todo, rounds, sent>>

-----------------------------------------------------------------------------
(* The executor's threads.                                                 *)

StartJob ==
    /\ pending # <<>> /\ Cardinality(executing) < MAX_WORKERS
    /\ executing' = executing \cup {Head(pending)} /\ pending' = Tail(pending)
    /\ UNCHANGED <<flags, owner, listener, processor, gossip, call, net, inbox, queue, hand,
                   finished, handed, todo, rounds, sent>>

\* A remote subtask ends with its RESULT, a local one stores what it found
\* if its call is still there (FactorTask has the details).
FinishJob(j) ==
    /\ j \in executing
    /\ executing' = executing \ {j} /\ finished' = finished \cup {j}
    /\ IF j \in Assigns THEN Send ELSE UNCHANGED sent
    /\ UNCHANGED <<flags, owner, listener, processor, gossip, call, net, inbox, queue, hand,
                   pending, handed, todo, rounds>>

-----------------------------------------------------------------------------
(* The gossip thread.                                                      *)

\* Mutant of GossipCheck: the loop never looks at the flag.
GossipCheckNothing ==
    /\ gossip = "check" /\ rounds < MaxRounds
    /\ gossip' = "sleep" /\ rounds' = rounds + 1
    /\ UNCHANGED <<flags, owner, listener, processor, call, net, inbox, work,
                   handed, todo, sent>>

GossipCheck ==
    /\ gossip = "check"
    /\ IF running
       THEN /\ rounds < MaxRounds
            /\ gossip' = "sleep" /\ rounds' = rounds + 1
       ELSE gossip' = "ended" /\ UNCHANGED rounds
    /\ UNCHANGED <<flags, owner, listener, processor, call, net, inbox, work,
                   handed, todo, sent>>

\* After the sleep the round goes on without another look at the flag: a
\* list to some peer, a HELLO to the bootstrap address, or nothing.
GossipRound ==
    /\ gossip = "sleep" /\ gossip' = "check"
    /\ Send \/ UNCHANGED sent
    /\ UNCHANGED <<flags, owner, listener, processor, call, net, inbox, work,
                   handed, todo, rounds>>

\* A host known from a PEERS list can be one that sendto refuses with a
\* TypeError.  _send_message does not catch it and neither does the loop.
GossipRaises ==
    /\ gossip = "sleep" /\ gossip' = "ended" /\ Peers # {}
    /\ UNCHANGED <<flags, owner, listener, processor, call, net, inbox, work,
                   handed, todo, rounds, sent>>

-----------------------------------------------------------------------------
(* A call of initiate_factorization, by a thread of the program's own: it  *)
(* may outlive the agent.  What it registers, aggregates and removes again *)
(* is FactorTask's; here it uses the executor and the socket.              *)

Started  == owner \notin {"bind", "run", "spawn", "greet"}
Stopping == Started /\ owner # "serving"

CallGoes(c, from, to) == call[c] = from /\ call' = [call EXCEPT ![c] = to]

Call(c) ==
    /\ Started /\ CallGoes(c, "idle", "assign")
    /\ UNCHANGED <<flags, owner, listener, processor, gossip, net, inbox, work,
                   handed, todo, rounds, sent>>

\* Mutant of SelectWorkers: one subtask too many.
SelectWorkersOnceMore(c) ==
    /\ call[c] = "assign" /\ todo[c] = {} /\ handed[c] <= Subtasks
    /\ \E W \in Samples : todo' = [todo EXCEPT ![c] = W]
    /\ handed' = [handed EXCEPT ![c] = @ + 1]
    /\ UNCHANGED <<flags, owner, listener, processor, gossip, call, net, inbox, work,
                   rounds, sent>>

SelectWorkers(c) ==
    /\ call[c] = "assign" /\ todo[c] = {} /\ handed[c] < Subtasks
    /\ \E W \in Samples : todo' = [todo EXCEPT ![c] = W]
    /\ handed' = [handed EXCEPT ![c] = @ + 1]
    /\ UNCHANGED <<flags, owner, listener, processor, gossip, call, net, inbox, work,
                   rounds, sent>>

HandLocal(c) ==
    /\ call[c] = "assign" /\ Self \in todo[c] /\ ~shut
    /\ pending' = Append(pending, <<c, handed[c]>>)
    /\ todo' = [todo EXCEPT ![c] = @ \ {Self}]
    /\ UNCHANGED <<flags, owner, listener, processor, gossip, call, net, inbox, queue, hand,
                   executing, finished, handed, rounds, sent>>

HandToPeer(c, p) ==
    /\ call[c] = "assign" /\ p \in todo[c] \ {Self}
    /\ Send
    /\ todo' = [todo EXCEPT ![c] = @ \ {p}]
    /\ UNCHANGED <<flags, owner, listener, processor, gossip, call, net, inbox, work,
                   handed, rounds>>

\* Mutant of HandRaises: the call tries again until somebody takes the subtask.
HandTriesAgain(c) ==
    /\ call[c] = "assign" /\ Self \in todo[c] /\ shut
    /\ UNCHANGED vars

\* A submission after shutdown() raises, and so does a send to a host that
\* sendto refuses: the exception leaves the call, past its cleanup.
HandRaises(c) ==
    /\ (Self \in todo[c] /\ shut) \/ todo[c] \ {Self} # {}
    /\ CallGoes(c, "assign", "raised")
    /\ todo' = [todo EXCEPT ![c] = {}]
    /\ UNCHANGED <<flags, owner, listener, processor, gossip, net, inbox, work,
                   handed, rounds, sent>>

AllHanded(c) ==
    /\ handed[c] = Subtasks /\ todo[c] = {}
    /\ CallGoes(c, "assign", "wait")
    /\ UNCHANGED <<flags, owner, listener, processor, gossip, net, inbox, work,
                   handed, todo, rounds, sent>>

\* By the event or by the deadline the wait ends.
EndWait(c) ==
    /\ CallGoes(c, "wait", "aggregate")
    /\ UNCHANGED <<flags, owner, listener, processor, gossip, net, inbox, work,
                   handed, todo, rounds, sent>>

\* The call has its answer and has cleaned up after itself.
Return(c) ==
    /\ CallGoes(c, "aggregate", "returned")
    /\ UNCHANGED <<flags, owner, listener, processor, gossip, net, inbox, work,
                   handed, todo, rounds, sent>>

-----------------------------------------------------------------------------
StartStep     == Bind \/ Run \/ Spawn \/ Greet
StopStep      == \/ ShutDownExecutor \/ StopListening \/ JoinListener
                 \/ CloseSocket \/ JoinThreads
ListenerStep  == \/ ListenerCheck \/ ReceiveNothing \/ HandleAssign \/ HandleHello
                 \/ \E d \in net : Receive(d)
ExecutorStep  == StartJob \/ \E j \in executing : FinishJob(j)
ProcessorStep == ProcessorCheck \/ GetTimesOut \/ GetTask \/ SubmitTask \/ SubmitRaises
GossipStep    == GossipCheck \/ GossipRound \/ GossipRaises
CallStep(c)   == \/ Call(c) \/ SelectWorkers(c) \/ HandLocal(c) \/ HandRaises(c)
                 \/ AllHanded(c) \/ EndWait(c) \/ Return(c)
                 \/ \E p \in Peers : HandToPeer(c, p)

Next ==
    \/ StartStep \/ StopRunning \/ StopStep
    \/ ListenerStep \/ ProcessorStep \/ GossipStep
    \/ ExecutorStep
    \/ \E c \in Callers : CallStep(c)

\* start() and stop() go on once they were called, and so does a call, whose
\* wait has a deadline; the loops wake from their timeouts, and a subtask is a
\* bounded loop.  The listener may be busy with one message for hours (its
\* handler may factor a number), and nobody has to call stop or anything else.
Fairness ==
    /\ WF_vars(StartStep \/ StopStep)
    /\ WF_vars(ProcessorStep) /\ WF_vars(GossipStep)
    /\ WF_vars(ExecutorStep)
    /\ \A c \in Callers : WF_vars(call[c] # "idle" /\ CallStep(c))

Spec == Init /\ [][Next]_vars /\ Fairness

-----------------------------------------------------------------------------
(* Properties.                                                             *)

OwnerLabels     == {"bind", "run", "spawn", "greet", "serving", "shut down", "silence",
                    "join listener", "close", "join threads", "stopped"}
ListenerLabels  == {"unborn", "check", "receive", "handle", "ended"}
ProcessorLabels == {"unborn", "check", "get", "submit", "ended", "died"}
GossipLabels    == {"unborn", "check", "sleep", "ended"}
CallLabels      == {"idle", "assign", "wait", "aggregate", "returned", "raised"}

ThreadsTypeOK ==
    /\ running \in BOOLEAN /\ shut \in BOOLEAN /\ listening \in BOOLEAN
    /\ sock \in {"unbound", "bound", "closed"}
    /\ owner \in OwnerLabels /\ listener \in ListenerLabels
    /\ processor \in ProcessorLabels /\ gossip \in GossipLabels

PhasesOK ==
    /\ owner = "bind" => listener = "unborn"
    /\ owner \in {"bind", "run", "spawn"} => processor = "unborn" /\ gossip = "unborn"
    /\ inbox = None <=> listener # "handle"
    /\ hand = None <=> processor \notin {"submit", "died"}

WorkTypeOK ==
    /\ call \in [Callers -> CallLabels]
    /\ net \subseteq Assigns \cup Hellos
    /\ inbox \in Assigns \cup Hellos \cup {None}
    /\ queue \in Seq(Assigns) /\ hand \in Assigns \cup {None}
    /\ pending \in Seq(Jobs) /\ executing \subseteq Jobs /\ finished \subseteq Jobs
    /\ handed \in [Callers -> 0..Subtasks]
    /\ todo \in [Callers -> SUBSET (Peers \cup {Self})]
    /\ rounds \in Nat /\ sent \in {0, 1}

TypeOK == ThreadsTypeOK /\ PhasesOK /\ WorkTypeOK

\* Where an accepted ASSIGN can be.
InQueue(t)    == t \in Range(queue)
InExecutor(t) == t \in Range(pending) \cup executing \cup finished

\* agent.py:543-554, 193: the queue, the processor and the executor pass every
\* accepted ASSIGN on, and no job is executed twice; only a stop leaves one
\* behind, on the queue or with the thread that raised.
WorkIsAccountedFor ==
    /\ \A t \in Assigns :
           /\ (t \notin net /\ t # inbox) <=> (InQueue(t) \/ t = hand \/ InExecutor(t))
           /\ ~(InQueue(t) /\ (t = hand \/ InExecutor(t)))
           /\ ~(t = hand /\ InExecutor(t))
    /\ IsInjective(queue) /\ IsInjective(pending)
    /\ \A j \in Range(pending) : j \notin executing \cup finished
    /\ executing \cap finished = {}
    /\ processor \in {"ended", "died"} => ~running
    /\ processor = "died" => shut

\* agent.py:190-199: once stop() has returned, threads it gave up waiting for
\* take nothing off the network and put nothing on it.
SilentOnceStopped == [][owner = "stopped" => UNCHANGED <<net, sent>>]_vars

\* stop() returns whatever the other threads are busy with, and the loops and
\* the submitted work then end by themselves: no thread is left running on
\* the flags of a stopped agent, but for the listener if a handler holds it.
ThreadsEnd ==
    owner = "shut down" ~>
        /\ owner = "stopped"
        /\ processor \in {"ended", "died"} /\ gossip = "ended"
        /\ pending = <<>> /\ executing = {}

\* agent.py:190-199, 591: a call comes back, by returning or by an exception,
\* whether or not the agent is stopped in the middle of it, and everything
\* it had handed to the executor is executed.
CallsEnd ==
    \A c \in Callers :
        call[c] = "assign" ~>
            /\ call[c] \in {"returned", "raised"}
            /\ \A j \in {c} \X (1..Subtasks) : j \notin Range(pending) \cup executing

\* An ASSIGN that reached the queue is executed, unless the agent is stopped.
AcceptedIsExecuted ==
    \A t \in Assigns : InQueue(t) ~> (t \in finished \/ Stopping)
=============================================================================
