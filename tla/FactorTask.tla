----------------------------- MODULE FactorTask -----------------------------
(***************************************************************************)
(* One call of Agent.initiate_factorization: the initiating thread assigns *)
(* subtasks, waits, aggregates and cleans up, while                        *)
(*   - pool threads of the same agent execute the local subtasks,          *)
(*   - peers execute the assigned ones and answer over UDP, which loses,   *)
(*     duplicates and reorders,                                            *)
(*   - the listener thread handles the answers one at a time, and bans a   *)
(*     peer whose score falls below zero.                                  *)
(* All of them write to one TaskState.  Each step below is what runs while *)
(* a lock is held, or one unlocked assignment to shared state.             *)
(***************************************************************************)
EXTENDS Factoring

CONSTANTS
    N,                  \* the number to factor
    Peers,              \* the snapshot of active peers the task is given to
    Self,               \* this agent
    REDUNDANCY_FACTOR,  \* most workers per subtask: 3 in the code
    MAX_WORKERS,        \* threads of the executor: 4 in the code
    MaxDuplicates,      \* bound: datagrams the network delivers once more
    Inventions,         \* bound: the reports that no execution of a subtask made
    MaxLies             \* bound: datagrams with such a report

PlannedSubtasks == Decompose(N, Cardinality(Peers))
Subtasks == 1..Len(PlannedSubtasks)

ASSUME FactorTaskAssumption ==
    /\ N \in Nat /\ N >= 2
    /\ IsFiniteSet(Peers) /\ Self \notin Peers
    /\ REDUNDANCY_FACTOR \in Nat /\ MAX_WORKERS \in Nat
    /\ MaxDuplicates \in Nat /\ MaxLies \in Nat
    /\ Inventions \subseteq [from : Peers, origin : {"signed", "forged"}, idx : Subtasks,
                            factors : SUBSET Int]

Initiator == 0
Listener  == -1
NoOne     == "no one"

Workers  == Peers \cup {Self}

\* A pool thread is named by the local subtask it executes.
Pool    == Subtasks
Threads == {Initiator, Listener} \cup Pool

REWARD_VALID_RESULT    == 10
PENALTY_INVALID_RESULT == 50
INITIAL_REPUTATION     == 50
BLACKLIST_THRESHOLD    == 0

VARIABLES
    pc,        \* where each thread is
    known,     \* the factors a thread carries from one step to the next
    answering, \* the listener's RESULT: who sent it, for which subtask
    assigned,  \* how many subtasks the initiator has handed out
    net,       \* datagrams in flight
    dups,      \* datagrams delivered once more so far
    lies,      \* datagrams with an invented report so far
    keyOnFile, \* whose public key this agent has for a peer's id
    results,   \* TaskState.results: the list each worker reported per subtask
    final,     \* TaskState.final_factors
    active,    \* the task is in _active_tasks
    event,     \* the task's result event is set
    hasEvent,  \* _result_events has the task
    hasValue,  \* _result_values has the task
    expired,   \* the deadline of the call has passed
    score,     \* reputation of each peer at this agent
    blacklist, \* peers whose messages are dropped
    ret        \* what the call returns

taskVars  == <<results, final, event>>
tableVars == <<active, hasEvent, hasValue>>
repVars   == <<score, blacklist>>
netVars   == <<net, dups, lies, keyOnFile>>
vars == <<pc, known, answering, assigned, netVars, taskVars, tableVars,
          expired, repVars, ret>>

\* The origin of a RESULT in the name of a peer:
\*   own    - the peer executed a subtask of this task and signed the answer
\*   signed - it signed something else: an answer to a VERIFY, which repeats
\*            what the asker claimed, one to an ASSIGN of another number
\*            under this task's id, or a lie
\*   forged - somebody else sent it, with a key of its own
\* The key of a peer's id: none yet (a peer known from a PEERS list only),
\* its own, or the one of somebody else who said HELLO under the id.
Keys == {"none", "own", "other"}

Invented(r) == [type |-> "RESULT", from |-> r.from, origin |-> r.origin, idx |-> r.idx,
                factors |-> r.factors]

\* The id in a datagram is only what its sender claims.
Messages ==
    [type : {"ASSIGN"}, to : Peers, idx : Subtasks]
        \cup [type : {"RESULT"}, from : Peers, origin : {"own"}, idx : Subtasks,
              factors : SUBSET Divisors(N)]
        \cup {Invented(r) : r \in Inventions}

\* An empty list and no list at all are the same to every reader of results.
Init ==
    /\ pc = [t \in Threads |-> IF t = Initiator THEN "assign"
                               ELSE IF t = Listener THEN "idle" ELSE "unsubmitted"]
    /\ known = [t \in Threads |-> {}]
    /\ answering = [from |-> NoOne, idx |-> 0]
    /\ assigned = 0
    /\ net = {} /\ dups = 0 /\ lies = 0
    /\ keyOnFile \in [Peers -> Keys]
    /\ results = [i \in Subtasks |-> [w \in Workers |-> {}]]
    /\ final = <<>> /\ event = FALSE
    /\ active = TRUE /\ hasEvent = TRUE /\ hasValue = TRUE
    /\ expired = FALSE
    /\ score = [p \in Peers |-> INITIAL_REPUTATION] /\ blacklist = {}
    /\ ret = <<>>

Goto(t, label) == pc' = [pc EXCEPT ![t] = label]

-----------------------------------------------------------------------------
(* The network and the peers.                                              *)

\* Taking m off the network, possibly leaving a duplicate behind.
Take(m, more) ==
    \/ net' = (net \ {m}) \cup more /\ UNCHANGED dups
    \/ dups < MaxDuplicates /\ dups' = dups + 1 /\ net' = net \cup more

\* A peer executes an assigned subtask and sends back what it found.
PeerExecute(m) ==
    /\ m \in net /\ m.type = "ASSIGN"
    /\ \E out \in RunAlgorithm(N, PlannedSubtasks[m.idx]) :
           Take(m, {[type |-> "RESULT", from |-> m.to, origin |-> "own", idx |-> m.idx,
                     factors |-> out]})
    /\ UNCHANGED <<pc, known, answering, assigned, lies, keyOnFile, taskVars, tableVars, expired,
                   repVars, ret>>

\* Any other RESULT about the task: what a peer signs without having executed
\* a subtask of it, and what somebody sends under a peer's id.  A datagram of
\* another type with a bad signature costs the named peer as much.
Invent ==
    /\ lies < MaxLies /\ lies' = lies + 1
    /\ \E r \in Inventions : net' = net \cup {Invented(r)}
    /\ UNCHANGED <<pc, known, answering, assigned, dups, keyOnFile, taskVars, tableVars, expired,
                   repVars, ret>>

\* The first HELLO under a peer's id registers its key.  It is signed with
\* the key it carries, whoever sent it.
RegisterKey(p) ==
    /\ pc[Listener] = "idle" /\ p \notin blacklist /\ keyOnFile[p] = "none"
    /\ \E key \in Keys \ {"none"} : keyOnFile' = [keyOnFile EXCEPT ![p] = key]
    /\ UNCHANGED <<pc, known, answering, assigned, net, dups, lies, taskVars, tableVars, expired,
                   repVars, ret>>

-----------------------------------------------------------------------------
(* The initiating thread: assignment.                                      *)

\* Hand the next subtask to a random sample of the workers.  A local run is
\* submitted to the pool, a remote one is sent.
AssignSubtask ==
    /\ pc[Initiator] = "assign" /\ assigned < Len(PlannedSubtasks)
    /\ LET i == assigned + 1
           k == Smaller(REDUNDANCY_FACTOR, Cardinality(Workers))
       IN  \E chosen \in kSubset(k, Workers) :
               /\ net' = net \cup {[type |-> "ASSIGN", to |-> p, idx |-> i] :
                                       p \in chosen \ {Self}}
               /\ pc' = IF Self \in chosen THEN [pc EXCEPT ![i] = "queued"] ELSE pc
               /\ assigned' = i
    /\ UNCHANGED <<known, answering, dups, lies, keyOnFile, taskVars, tableVars, expired, repVars, ret>>

AllAssigned ==
    /\ pc[Initiator] = "assign" /\ assigned = Len(PlannedSubtasks)
    /\ Goto(Initiator, "check")
    /\ UNCHANGED <<known, answering, assigned, netVars, taskVars, tableVars, expired, repVars, ret>>

-----------------------------------------------------------------------------
(* A pool thread executing local subtask i.                                *)

Busy == {i \in Pool : pc[i] \notin {"unsubmitted", "queued", "finished"}}

\* The executor runs submissions in order, at most MAX_WORKERS at a time.
StartLocal(i) ==
    /\ pc[i] = "queued" /\ Cardinality(Busy) < MAX_WORKERS
    /\ \A j \in 1..(i - 1) : pc[j] # "queued"
    /\ Goto(i, "execute")
    /\ UNCHANGED <<known, answering, assigned, netVars, taskVars, tableVars, expired, repVars, ret>>

\* Compute, then look the task up: a task already cleaned up is dropped.
ExecuteLocal(i) ==
    /\ pc[i] = "execute"
    /\ IF active
       THEN /\ \E out \in RunAlgorithm(N, PlannedSubtasks[i]) :
                   known' = [known EXCEPT ![i] = out]
            /\ Goto(i, "store")
       ELSE Goto(i, "finished") /\ UNCHANGED known
    /\ UNCHANGED <<answering, assigned, netVars, taskVars, tableVars, expired, repVars, ret>>

StoreLocal(i) ==
    /\ pc[i] = "store"
    /\ results' = [results EXCEPT ![i][Self] = known[i]]
    /\ known' = [known EXCEPT ![i] = {}]
    /\ Goto(i, "lookup")
    /\ UNCHANGED <<answering, assigned, netVars, final, event, tableVars, expired, repVars, ret>>

-----------------------------------------------------------------------------
(* The listener thread.                                                    *)

\* Mutant of ValidReport: an empty report is invalid.
ValidReportNonEmpty(factors) == factors # {} /\ \A f \in factors : f > 1 /\ N % f = 0

ValidReport(factors) == \A f \in factors : f > 1 /\ N % f = 0

\* The sender's score after a report, and the ban that may follow.
Judge(p, amount) ==
    /\ score' = [score EXCEPT ![p] = @ + amount]
    /\ blacklist' = IF amount < 0 /\ score[p] + amount < BLACKLIST_THRESHOLD
                    THEN blacklist \cup {p} ELSE blacklist

\* The signature is checked against the key on file for the claimed id.
\* Without a key the datagram is accepted as it is.
Verified(m) ==
    \/ keyOnFile[m.from] = "none"
    \/ keyOnFile[m.from] = "own" /\ m.origin # "forged"
    \/ keyOnFile[m.from] = "other" /\ m.origin = "forged"

\* Mutant of HandleResult: the blacklist is not consulted.
HandleResultOfAnyone(m) ==
    /\ pc[Listener] = "idle" /\ m \in net /\ m.type = "RESULT"
    /\ Take(m, {})
    /\ IF Verified(m) /\ ~active
       THEN UNCHANGED <<pc, known, answering, repVars>>
       ELSE IF Verified(m) /\ ValidReport(m.factors)
       THEN /\ Judge(m.from, REWARD_VALID_RESULT)
            /\ known' = [known EXCEPT ![Listener] = m.factors]
            /\ answering' = [from |-> m.from, idx |-> m.idx]
            /\ Goto(Listener, "store")
       ELSE /\ Judge(m.from, -PENALTY_INVALID_RESULT)
            /\ UNCHANGED <<pc, known, answering>>
    /\ UNCHANGED <<assigned, lies, keyOnFile, taskVars, tableVars, expired, ret>>

\* Drop what a blacklisted peer sent; penalise the named sender for a bad
\* signature; match the RESULT to the task under the tasks lock, then judge
\* it: the sender is rewarded or penalised before anything is stored.
HandleResult(m) ==
    /\ pc[Listener] = "idle" /\ m \in net /\ m.type = "RESULT"
    /\ Take(m, {})
    /\ IF m.from \in blacklist \/ (Verified(m) /\ ~active)
       THEN UNCHANGED <<pc, known, answering, repVars>>
       ELSE IF Verified(m) /\ ValidReport(m.factors)
       THEN /\ Judge(m.from, REWARD_VALID_RESULT)
            /\ known' = [known EXCEPT ![Listener] = m.factors]
            /\ answering' = [from |-> m.from, idx |-> m.idx]
            /\ Goto(Listener, "store")
       ELSE /\ Judge(m.from, -PENALTY_INVALID_RESULT)
            /\ UNCHANGED <<pc, known, answering>>
    /\ UNCHANGED <<assigned, lies, keyOnFile, taskVars, tableVars, expired, ret>>

StoreRemote ==
    /\ pc[Listener] = "store"
    /\ results' = [results EXCEPT ![answering.idx][answering.from] = known[Listener]]
    /\ known' = [known EXCEPT ![Listener] = {}]
    /\ answering' = [from |-> NoOne, idx |-> 0]
    /\ Goto(Listener, "lookup")
    /\ UNCHANGED <<assigned, netVars, final, event, tableVars, expired, repVars, ret>>

-----------------------------------------------------------------------------
(* _try_aggregate, run by every thread.  Only its first two steps hold a   *)
(* lock; what they saw may be stale when the later ones write.             *)

\* Mutant of Home: the listener thread ends after an attempt to aggregate.
HomeOfListenerLost(t) == IF t = Initiator THEN "check" ELSE "finished"

\* Where a thread goes when _try_aggregate returns.
Home(t) == IF t = Initiator THEN "check" ELSE IF t = Listener THEN "idle" ELSE "finished"

\* Mutant of LookupTask: a task that is gone is aggregated all the same.
LookupTaskGone(t) ==
    /\ pc[t] = "lookup"
    /\ Goto(t, "collect")
    /\ UNCHANGED <<known, answering, assigned, netVars, taskVars, tableVars, expired, repVars, ret>>

LookupTask(t) ==
    /\ pc[t] = "lookup"
    /\ Goto(t, IF active THEN "collect" ELSE Home(t))
    /\ UNCHANGED <<known, answering, assigned, netVars, taskVars, tableVars, expired, repVars, ret>>

ReportedFactors ==
    {f \in UNION {results[i][w] : i \in Subtasks, w \in Workers} : f > 1 /\ N % f = 0}

Collect(t) ==
    /\ pc[t] = "collect"
    /\ known' = [known EXCEPT ![t] = ReportedFactors]
    /\ Goto(t, IF ReportedFactors = {} THEN Home(t) ELSE "publish")
    /\ UNCHANGED <<answering, assigned, netVars, taskVars, tableVars, expired, repVars, ret>>

\* Mutant of Publish: the answer is built and not stored.
PublishNowhere(t) ==
    /\ pc[t] = "publish"
    /\ Goto(t, "record")
    /\ known' = [known EXCEPT ![t] = {}]
    /\ UNCHANGED <<answering, assigned, netVars, taskVars, tableVars, expired, repVars, ret>>

\* Build the answer from what was collected and overwrite final_factors;
\* an empty answer ends the attempt.
Publish(t) ==
    /\ pc[t] = "publish"
    /\ \E built \in BuildComplete(N, known[t]) :
           IF built = <<>>
           THEN Goto(t, Home(t)) /\ UNCHANGED final
           ELSE Goto(t, "record") /\ final' = built
    /\ known' = [known EXCEPT ![t] = {}]
    /\ UNCHANGED <<answering, assigned, netVars, results, event, tableVars, expired, repVars, ret>>

\* _result_values[task_id] = factors: puts the key back if it was popped.
Record(t) ==
    /\ pc[t] = "record"
    /\ hasValue' = TRUE
    /\ Goto(t, "signal")
    /\ UNCHANGED <<known, answering, assigned, netVars, taskVars, active, hasEvent, expired, repVars, ret>>

\* event = _result_events.get(task_id)
LookupEvent(t) ==
    /\ pc[t] = "signal"
    /\ Goto(t, IF hasEvent THEN "set" ELSE Home(t))
    /\ UNCHANGED <<known, answering, assigned, netVars, taskVars, tableVars, expired, repVars, ret>>

\* event.set(), also when the caller has removed the event since.
SetEvent(t) ==
    /\ pc[t] = "set"
    /\ event' = TRUE
    /\ Goto(t, Home(t))
    /\ UNCHANGED <<known, answering, assigned, netVars, results, final, tableVars, expired, repVars, ret>>

-----------------------------------------------------------------------------
(* The initiating thread: waiting, answering, cleaning up.                 *)

DeadlinePasses ==
    /\ ~expired /\ expired' = TRUE
    /\ UNCHANGED <<pc, known, answering, assigned, netVars, taskVars, tableVars, repVars, ret>>

\* The condition of the wait loop.
CheckDeadline ==
    /\ pc[Initiator] = "check"
    /\ Goto(Initiator, IF expired THEN "aggregate" ELSE "wait")
    /\ UNCHANGED <<known, answering, assigned, netVars, taskVars, tableVars, expired, repVars, ret>>

\* Mutant of WaitReturns: event.wait() without a timeout.
WaitReturnsOnEvent ==
    /\ pc[Initiator] = "wait" /\ event
    /\ Goto(Initiator, "aggregate")
    /\ UNCHANGED <<known, answering, assigned, netVars, taskVars, tableVars, expired, repVars, ret>>

\* event.wait(1.0) returns: with the event, or without it after a second.
WaitReturns ==
    /\ pc[Initiator] = "wait"
    /\ Goto(Initiator, IF event THEN "aggregate" ELSE "lookup")
    /\ UNCHANGED <<known, answering, assigned, netVars, taskVars, tableVars, expired, repVars, ret>>

\* Mutant of AnswerFromFinal: an empty final_factors is returned as it is.
AnswerFromFinalOnly ==
    /\ pc[Initiator] = "aggregate"
    /\ ret' = final /\ Goto(Initiator, "pop event")
    /\ UNCHANGED <<known, answering, assigned, netVars, taskVars, tableVars, expired, repVars>>

\* _aggregate_results: the final factors when some thread has published
\* them, ...
AnswerFromFinal ==
    /\ pc[Initiator] = "aggregate"
    /\ IF final # <<>>
       THEN ret' = final /\ Goto(Initiator, "pop event")
       ELSE UNCHANGED ret /\ Goto(Initiator, "gather")
    /\ UNCHANGED <<known, answering, assigned, netVars, taskVars, tableVars, expired, repVars>>

\* Mutant of AnswerFromResults: the reported factors are returned as they are.
AnswerFromReports ==
    /\ pc[Initiator] = "gather"
    /\ ret' \in IF ReportedFactors # {} THEN {SetToSortSeq(ReportedFactors, LAMBDA a, b : a < b)}
                ELSE FullFactorization(N)
    /\ Goto(Initiator, "pop event")
    /\ UNCHANGED <<known, answering, assigned, netVars, taskVars, tableVars, expired, repVars>>

\* ... else a build from the results stored so far, else a local run.
AnswerFromResults ==
    /\ pc[Initiator] = "gather"
    /\ ret' \in IF ReportedFactors # {} THEN BuildComplete(N, ReportedFactors)
                ELSE FullFactorization(N)
    /\ Goto(Initiator, "pop event")
    /\ UNCHANGED <<known, answering, assigned, netVars, taskVars, tableVars, expired, repVars>>

PopEvent ==
    /\ pc[Initiator] = "pop event"
    /\ hasEvent' = FALSE
    /\ Goto(Initiator, "pop value")
    /\ UNCHANGED <<known, answering, assigned, netVars, taskVars, active, hasValue, expired, repVars, ret>>

PopValue ==
    /\ pc[Initiator] = "pop value"
    /\ hasValue' = FALSE
    /\ Goto(Initiator, "pop task")
    /\ UNCHANGED <<known, answering, assigned, netVars, taskVars, active, hasEvent, expired, repVars, ret>>

PopTask ==
    /\ pc[Initiator] = "pop task"
    /\ active' = FALSE
    /\ Goto(Initiator, "done")
    /\ UNCHANGED <<known, answering, assigned, netVars, taskVars, hasEvent, hasValue, expired, repVars, ret>>

-----------------------------------------------------------------------------
InitiatorStep ==
    \/ AssignSubtask \/ AllAssigned \/ CheckDeadline \/ WaitReturns
    \/ AnswerFromFinal \/ AnswerFromResults \/ PopEvent \/ PopValue \/ PopTask

AggregateStep(t) ==
    LookupTask(t) \/ Collect(t) \/ Publish(t) \/ Record(t) \/ LookupEvent(t) \/ SetEvent(t)

PoolStep(i) == StartLocal(i) \/ ExecuteLocal(i) \/ StoreLocal(i)

Next ==
    \/ InitiatorStep
    \/ \E t \in Threads : AggregateStep(t)
    \/ \E i \in Pool : PoolStep(i)
    \/ \E m \in net : PeerExecute(m) \/ HandleResult(m)
    \/ Invent
    \/ \E p \in Peers : RegisterKey(p)
    \/ StoreRemote
    \/ DeadlinePasses

\* Only the initiating thread and the clock are certain to go on: a peer may
\* be gone, every datagram lost, and a pool thread busy for hours.
TaskFairness ==
    /\ WF_vars(InitiatorStep \/ AggregateStep(Initiator))
    /\ WF_vars(DeadlinePasses)

Spec == Init /\ [][Next]_vars /\ TaskFairness

-----------------------------------------------------------------------------
(* Properties.                                                             *)

PoolLabels == {"unsubmitted", "queued", "execute", "store", "finished"}
AggregateLabels == {"lookup", "collect", "publish", "record", "signal", "set"}
InitiatorLabels == {"assign", "check", "wait", "aggregate", "gather",
                    "pop event", "pop value", "pop task", "done"}

AllLabels == PoolLabels \cup AggregateLabels \cup InitiatorLabels \cup {"idle"}

\* An answer is assembled from divisors of N, or is the local factorization.
Answers == FullFactorization(N) \cup UNION {BuildComplete(N, S) : S \in SUBSET Divisors(N)}

TypeOK ==
    /\ pc \in [Threads -> AllLabels]
    /\ pc[Initiator] \in InitiatorLabels \cup AggregateLabels
    /\ pc[Listener] \in {"idle", "store"} \cup AggregateLabels
    /\ \A i \in Pool : pc[i] \in PoolLabels \cup AggregateLabels
    /\ known \in [Threads -> SUBSET Divisors(N)]
    /\ answering \in [from : Peers \cup {NoOne}, idx : Subtasks \cup {0}]
    /\ pc[Listener] = "store" => answering \in [from : Peers, idx : Subtasks]
    /\ assigned \in 0..Len(PlannedSubtasks)
    /\ net \subseteq Messages
    /\ dups \in 0..MaxDuplicates /\ lies \in 0..MaxLies
    /\ keyOnFile \in [Peers -> Keys]
    /\ results \in [Subtasks -> [Workers -> SUBSET Divisors(N)]]
    /\ final \in Answers \cup {<<>>}
    /\ ret \in Answers \cup {<<>>}
    /\ event \in BOOLEAN /\ active \in BOOLEAN /\ expired \in BOOLEAN
    /\ hasEvent \in BOOLEAN /\ hasValue \in BOOLEAN
    /\ score \in [Peers -> Int] /\ blacklist \subseteq Peers

\* agent.py:269-278 wakes on the event and then reads final_factors without
\* the task's lock: whoever sets the event has published an answer before.
EventImpliesAnswer == event => final # <<>>

\* Whatever was lost, repeated or overtaken, the published and the returned
\* factors multiply to N, and none of them is 1.
AnswersMultiplyToN ==
    /\ final # <<>> => Product[final] = N /\ \A k \in DOMAIN final : final[k] > 1
    /\ pc[Initiator] \in {"pop event", "pop value", "pop task", "done"} =>
           Product[ret] = N /\ \A k \in DOMAIN ret : ret[k] > 1

\* Everything in flight in the name of p is an answer p computed, and its
\* signature will not be tried with somebody else's key.
SpeaksForItself(p) ==
    /\ keyOnFile[p] # "other"
    /\ \A m \in net : m.type = "RESULT" /\ m.from = p => m.origin = "own"

\* agent.py:515: a peer is never penalised for an answer it computed, even
\* when its subtask raised, when the answer comes twice or late, when its key
\* arrives in between, and whatever is reported in the name of others.
OwnAnswersCostNothing ==
    [][\A p \in Peers : SpeaksForItself(p) => score'[p] >= score[p]]_score

\* agent.py:361: once a peer is banned, no report of it that is still on its
\* way changes the task, earns a reward or costs another penalty, and the ban
\* stays.
BannedForGood ==
    [][/\ blacklist \subseteq blacklist'
       /\ \A p \in blacklist : /\ score'[p] = score[p]
                               /\ \A i \in Subtasks : results'[i][p] = results[i][p]]_vars

\* The threads that have found the task and may still write to what the call
\* created.
Late == {t \in Threads : pc[t] \in {"collect", "publish", "record", "signal", "set"}}

\* agent.py:652: once the call has returned, no thread joins those that had
\* found the task before; the task and its event are not registered again;
\* and when the last of them is through, nothing of the call changes anymore.
ReturnIsFinal ==
    [][pc[Initiator] = "done" =>
           /\ Late' \subseteq Late
           /\ UNCHANGED <<active, hasEvent, ret>>
           /\ Late = {} => UNCHANGED <<final, event, hasValue>>]_vars

\* The call returns, whatever the network and the workers do.
CallReturns == <>(pc[Initiator] = "done")

\* agent.py:210: "Returns sorted list of prime factors of n, or partial
\* factors if timeout is reached."
ReturnsPrimeFactors ==
    (pc[Initiator] = "done" /\ ~expired) =>
        \A k \in DOMAIN ret : Prime(ret[k])

-----------------------------------------------------------------------------
\* What the caller of initiate_factorization relies on.
Service == INSTANCE FactorService WITH
    answered <- pc[Initiator] \in {"pop event", "pop value", "pop task", "done"},
    answer   <- ret

ImplementsService == Service!Spec
=============================================================================
