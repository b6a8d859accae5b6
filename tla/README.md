# Gradatim, specified

TLA+ models of [gradatim](../src/README.md), the peer-to-peer mesh that factors
numbers together and the job board on top of it; TLC runs that check them on
small instances; theorems about them with proofs that TLAPS checks.

Line numbers are those of the repository's files; `agent.py` stands for
`src/gradatim/agent.py`, `store.py` for `src/gradatim/web/store.py`, and so on.

## 1. The system

| Part | State it keeps | Operations |
|---|---|---|
| **Agent: tasks** (`agent.py` 203-285, 482-525, 543-750) | `_active_tasks` with a `TaskState` each (results per subtask and worker, final factors), result events and values | `initiate_factorization`; local subtasks in a pool of 4; `_handle_assign`, `_handle_result`, `_try_aggregate`, `_aggregate_results` |
| **Agent: discovery** (`agent.py` 312-331, 412-461, 766-781) | the peer table: id to address, key, capabilities | HELLO, PEERS, gossip every 5 s |
| **Agent: lifecycle** (`agent.py` 156-199, 463-480, 543-569, `transport.py`) | two `_running` flags, the executor, the socket, `_task_queue` | `start`, `stop`; the listener, task processor and gossip threads; ASSIGN to RESULT |
| **Admission** (`agent.py` 348-410, `reputation.py`) | blacklist, scores, recent timestamps per sender | filters in order: own id, blacklist, age, proof of work, rate, signature |
| **Arithmetic** (`factorization.py`, `agent.py` 611-713) | none | trial division, Pollard's rho, full factorization, decomposition, building an answer |
| **Solvers** (`_solver.py`) | none | primality, Goldbach, Collatz, perfect numbers |
| **Store** (`store.py`) | users, sessions, invites, jobs, compute configs, activity; one lock | accounts, invites, jobs, reputation and tiers |
| **Web server** (`server.py`) | none of its own; one thread per request, one per job run | the routes that call the store, `_run_job` |
| **Protocol, crypto** (`protocol.py`, `crypto.py`) | none | messages to bytes and back, ECDSA on secp256k1 |

How they meet: an agent's threads (listener, gossip, task processor, pool, and
whoever calls the API) share the peer table, the task table and the queue; agents
exchange UDP datagrams that may be lost, repeated or overtaken. Request and job
threads share the store; a job thread of category "factorization" calls
`initiate_factorization` on the local agent and records what it returns.

What is hard here, and what correctness means for each part:

- *Tasks.* Several threads aggregate the same results with most shared writes
  outside a lock; the caller may give up at any moment; workers are unreliable.
  The answer must be a factorization of n all the same, the caller must always
  get one, honest workers must not suffer, nothing may revive a finished task.
- *Lifecycle.* `stop()` takes the flags, the executor and the socket away one
  after the other under threads that it waits for three seconds at most. No task
  may be lost or run twice while the agent runs, nothing may leave a stopped
  agent, every thread must end.
- *Discovery.* Lost answers, restarts under a new id, lists that contain the
  receiver, entries without keys. Agents must meet, and must not lose what they
  have verified.
- *Admission.* Three containers with one meaning each (records, scores,
  blacklist) and a key that arrives in the message it authenticates.
- *Store.* Each method is atomic or is not; the handlers chain several. Limits,
  rewards and statuses must survive every interleaving.
- *Protocol and crypto.* Field widths, byte counts at powers of two, truncation; the
  signature covers bytes that the receiver packs anew; rare branches of the
  curve arithmetic. What was sent must be read, what was signed must verify.

`PROJECT.json` lists each such hazard at its line, with the properties that
cover it or the reason why none does.

## 2. Modules

| Module | Models | Composition |
|---|---|---|
| `Numbers` | the notions the specifications are stated in: divisors, primes, products, order | |
| `Factoring` | arithmetic and the pure helpers of `Agent` as operators | EXTENDS `Numbers`; used by `FactorTask` |
| `Solver` | primality, Goldbach, perfect numbers, Collatz as operators | |
| `Wire` | field codecs, the five payloads, the signed datagram as operators | |
| `Crypto` | curve arithmetic, key generation, sign, verify as operators | |
| `FactorTask` | one `initiate_factorization` with all its threads, its peers, their keys and scores, and the datagrams sent in their names | EXTENDS `Factoring`; implements `FactorService` |
| `FactorService` | what the caller is promised: one answer, ascending, product n | abstract |
| `Lifecycle` | one agent's threads, executor and socket from `start` past `stop` | the work that `FactorTask` and `Discovery` detail is opaque here |
| `Discovery` | agents, peer tables, HELLO/PEERS, gossip, faults | |
| `Reputation` | the filters and the state they keep about a sender | |
| `JobBoard` | jobs, claims, runs, reputations, tiers | implements `JobContract` |
| `JobContract` | a job's life as its users see it | abstract |
| `Membership` | invites, accounts, handles, sessions | |
| `MCRoutines` | walks n upwards and compares every operator with its definition | EXTENDS `Factoring`, `Solver`, `Wire`, `Crypto` |
| other `MC*` | instances for TLC | |
| `FactoringProofs` | lemmas: recursive functions, induction over lists, what the operators of `Factoring` return | |
| `RoutineProofs` | theorems about `MCRoutines` | EXTENDS `FactoringProofs` |
| `FactorTaskProofs` | theorems about `FactorTask` | EXTENDS `FactoringProofs` |
| other `*Proofs` | theorems about the module of that name | |

### FactorTask

A step is what the code does while it holds a lock, or one unlocked assignment to
shared state; `pc` says where each thread stands. Threads are the initiator, the
listener, and one pool thread per local subtask, at most `MAX_WORKERS` of them
busy. `_try_aggregate` is six steps shared by all of them: `LookupTask` and
`Collect` hold a lock each; `Publish` and `Record` write `final_factors` and
`_result_values` without one; `LookupEvent` gets the event and `SetEvent` sets it,
which the caller may have removed in between. `HandleResult` is what
`_on_message_received` and `_handle_result` do up to the judgement of the factors
(blacklist, signature, one lock, then `Judge`, the reputation and the blacklist),
`StoreRemote` is `add_result`. Cleanup is three pops
(`PopEvent`, `PopValue`, `PopTask`), because late threads run in between.
`RunAlgorithm` gives the set of lists a subtask may return: what trial division
finds, any proper divisor or nothing for Pollard's rho, and the empty list for a
routine that raised. The network is a set of messages; `Take` removes one or,
up to `MaxDuplicates` times, leaves it there; loss needs no step of its own,
since nothing obliges a message to be taken. A RESULT has an id, which is only
claimed, and an origin: `own` for an answer the peer computed, `signed` for anything
else it put its signature to (an answer to a VERIFY or to an ASSIGN of another number,
or a lie), `forged` for what somebody else sent under its id. `Invent` sends any of
`Inventions`, signed or forged. `keyOnFile` is the key the agent has for each id, none
for a peer it knows from a PEERS list only; `RegisterKey` is the first HELLO under the
id, whoever sent it, and `Verified` the check against that key, which passes
everything when there is none. A banned sender's datagrams are read and dropped.
Left out: `_subtask_assignments`, which is written and never read; sampling beyond
"any subset of the right size"; other tasks of the same agent; exceptions out of the
assignment, which are in `Lifecycle`. Peers execute an ASSIGN in one step: their
queue and pool only delay.

### Lifecycle

One label per thread says where its loop stands. The owner's steps are the
assignments of `start()` and `stop()` in their order, each visible to the others
on its own: between two of them every thread goes on with what it read last. A
join is a step without a condition, since it returns after three seconds. A call
samples the workers of its next subtask (`SelectWorkers`: this agent, peers, or
both) and hands it to one after the other (`HandLocal`, `HandToPeer`); then it waits,
aggregates and returns. `submit` on a shut executor raises: `SubmitRaises` ends the
processor with the task in hand, `HandRaises` leaves a call past its cleanup. So
does a send that raises something else than the OSError and ValueError caught in
`_send_message` (308-311), which it can for a host copied from a PEERS list
(453-461) that is no valid host name; in the gossip loop it ends the thread (`GossipRaises`). An
OSError from `recvfrom` ends the listener, on a closed socket always and on an open
one possibly (`ReceiveNothing`). Submitted jobs still run
(`shutdown(wait=False)`). `sent` is one bit that turns over with every step that
puts a datagram out, since no property asks which; on a closed socket it stays as it
is, because `_send_message` logs the error. What a
handler or a subtask computes is left to `FactorTask` and `Discovery`, so a HELLO
is answered or not, and a gossip round sends or does not; what a call registers,
aggregates and pops is `FactorTask`'s as well.

### Discovery

An agent is one run of the program, because the id is drawn at start; the
constants say which address each listens on and which addresses it greets. The
listener is the only writer of the peer table, so handling a message is one step.
`known[a][b]` is `unknown`, `placeholder` (entered from a PEERS list, no key) or
`registered` (from a HELLO whose signature fits). Faults are counted: a lost or
repeated datagram, a stopped agent. A datagram to an address nobody listens on is
lost for free. The hosts in lists are addresses the socket takes; others are in
`Lifecycle`.

### Reputation

Time is a counter. `Receive` is the whole of `_on_message_received` for one
datagram; a datagram has a type, the id it claims, the key it was signed with, and
for HELLO the key it carries, for RESULT whether its factors divide. The limiter's
lists of times are only filtered and counted, so they are sets of entries: a time,
and a number that tells the entries of one tick apart. `admitted` and `pardoned` are
history variables.

### JobBoard

One action per locked store method, plus the handler's steps between them.
`WebClaim` claims, `MarkRunning` sets the status to running, `StartThread` starts the
thread or raises, `Finish` is the job thread's last call of `update_job_status`;
`ApiClaim` claims and is done. `toMark`, `toStart` and `threads` count, for each job,
the handlers at each of these points and the threads at work: nothing in the model
keeps a second one away but the status, as in the code. A solve pays the solver (25
and the bounty) and the inviter (5) and recomputes both tiers.

### Membership

One action per acquisition of the store's lock. A join is `JoinCheck`,
`JoinCreate`, `JoinMark`, `OpenSession`; other requests run between these.
`peak` records how many requests were ever in flight together.

### Factoring, Solver, Wire and Crypto

Operators only. Lists whose order no caller reads are sets; answers are sequences. A
loop that divides a number is a function of what it has found and what is left
(`DivideOut`, `DivideByAll`, `Wheel`). Where Pollard's rho decides, the routine has
several outcomes, so `FullFactorization(n)` and `BuildComplete(n, S)` are sets of
answers: a number on the stack may pass for a prime, resist every attempt, or be split
into any divisor and its cofactor. `WHEEL_LIMIT` stands for the 100000 up to which the
wheel tries candidates. `PrimalityTest(n)` is the set of verdicts there can be: one
below `DETERMINISTIC_LIMIT` (3.3e24 in the code), and from there on what `WITNESSES`
distinct random witnesses (64) may come to. Every recursion is a recursive function,
which the prover can open, and none an operator declared RECURSIVE. In `Wire` the format
keeps its shape and its numbers shrink: a byte has `BYTE` values, a field of 2, 4, 8, 16
or 32 bytes has `HALF`, `WORD`, `QUAD`, `ID` or `COORD` of them, and a wide character
takes two bytes. Decoding yields a value and the offset behind it, or `Refused` for the
exceptions that the listener turns into a dropped datagram. The four loops over the
items of a list differ only in the item, which is named by its kind: a text, a number,
an agent or a parameter. `Crypto` takes the curve y^2 = x^3 + B over any prime field; a
message is its hash, and the nonce of `sign` is any that it may draw.

## 3. What TLC checks

| Run | Bounds | What it shows |
|---|---|---|
| `routines` | n up to 150 (41n for the wheel, whose limit is 32, so that composites are left for Pollard's rho; 14n+13 up to 2113 for primality so that 2047 is in it, fixed witnesses below 2072 and five random ones above, 4n+30 for perfect numbers); chunks of 3 so that there are several; bytes of 4 values; the curve of order 31 over 43 elements, every key and nonce, hashes up to 150 | each routine is its definition; `BuildFactorsN` also gives the exact condition under which an assembled answer is prime; payloads and datagrams come back as built and are refused at every cut; ECDSA accepts what it signs and nothing else |
| `factor_task` | n = 8, one peer, one worker per subtask, 2 pool threads, one duplicate, one false report, signed or forged, every state of the peer's key | product n whatever arrives; event implies answer; a peer's own answers cost it nothing; a ban is final; after the return only threads that had found the task write, and then nobody |
| `factor_task_live` | n = 125, whose Pollard subtask may report 25, one peer, one worker per subtask, 2 pool threads | the call returns; it implements `FactorService`, whichever of [5, 25] and [5, 5, 5] is written last |
| `factor_task_primes` (violation) | n = 125, no peers | answers need not be prime |
| `lifecycle` | one ASSIGN, one HELLO, one call with a subtask for this agent alone or for it and a peer, one pool thread, one gossip round | accepted work is in one place; silence after the stop; all threads end; every call returns or raises; without a stop accepted work is done |
| `job_board` | two users, one invited by the other (limits 1 and 3 differ), four jobs (one above the limit of 3), a bounty of 20 | limits, one run per job, accounts that add up, progress, the contract |
| `job_board_limit` (violation) | two jobs | an API claim holds its place for ever |
| `job_board_bonus` (violation) | two jobs | a second solve of an invitee pays the inviter again |
| `membership` | four requests, three in flight, two handles, one seeded and one issued code, symmetric requests and handles | duplicates bounded by overlap, codes name their redeemer |
| `membership_twice` (violation) | two requests | a code makes two accounts |
| `discovery` | a hub and two others, one greeting itself as well; one fault, two PEERS in flight | own id, kept keys, a reason for every registration; without a fault all who share a bootstrap node meet |
| `reputation` | one sender, two keys, a window of 3 ticks admitting 2, time up to 8 | limiter exact at both ends of the window, scores and blacklist agree, first key stays |

Why these are enough: the peer's datagrams meet two pool threads, the listener and the
caller, so every pair of writers of a task overlaps; one false report, delivered twice,
takes a score of 50 below zero, and its signature fits, breaks or meets no key. A second
peer would add reports about others, which `OwnAnswersCostNothing` separates by name;
that they do not mix is proved for any number. With n = 8 every divisor found locally is
2 and the published answers are all alike; with n = 125 two of them differ, and there an
older one is written over a newer one. In `lifecycle` one job in the queue, one in the
hand and one pool thread already make each stop between two steps of a task's way a
different state, and the call may have served the peer, or nobody, when it meets the
shut executor; calls of any number of subtasks are covered by the theorems. Four jobs
let the contributor reach its limit with one left over, and a fifth would repeat. Three
agents are the fewest for which a list mentions somebody other than its sender and its
receiver. One sender is enough for `reputation`, since no state there is shared between
senders. With bytes of 4 values the numbers up to 150 cross three byte counts, and every
length prefix can be wrong in each byte. A prime order of 31 gives nonces for which r or
s is zero, and equal and opposite points. Among the numbers tried for primality are
2047, which witness 2 does not expose, and no strong pseudoprime to two witnesses (the
first is 1373653): the run tells one witness from several, not eleven from twelve. What
a larger instance could still show is what the theorems cover.

Bounds that are not the code's: `MaxDuplicates`, `MaxLies`, `Inventions`, `MaxRounds`,
`MaxFaults`, `MaxLists` (PEERS in flight, which only gossip respects), `MaxInFlight`,
`MaxTime`, and the constants scaled down (`DETERMINISTIC_LIMIT`, `WITNESSES`,
`CHUNK_MIN`, `RHO_MIN`, `WHEEL_LIMIT`, `Window`, `MaxCount`, `MERSENNE_EXPONENTS`,
`BRUTE_SPAN`, `BRUTE_MAX`, the widths of `Wire`, `MAX_PAYLOAD_SIZE`, the curve). TLC's
integers have 32 bits, which limits the arithmetic to small n. `CHECK_DEADLOCK FALSE`
everywhere: the systems stop when the call has returned, when all threads have ended,
when all jobs are closed, when all requests are served, or when the clock's bound is
reached.

Fairness. `FactorTask`: only the initiating thread and the clock go on; peers, network,
listener and pool may stop, so `CallReturns` owes nothing to them. The call returns
after its deadline, not at it: with no answer at all it factors n itself first, a
bounded computation that may be long. `Lifecycle`: `start`, `stop` and calls go on once
called, a call's wait having a deadline; loops wake from their timeouts, jobs end
(bounded loops). `ThreadsEnd` and `CallsEnd` say so of every order in which sends raise,
the executor is shut and the flags fall. The listener may be held by a handler, so they
owe nothing to it, and nobody has to call `stop` or anything else. That a call which
raised leaves its task registered is not stated as a property: it is what the missing
cleanup at 591 does, and no line of the repository promises more. `JobBoard`: a handler
that has claimed goes on, to a thread or to an exception, and job threads end, since the
solvers are bounded loops and the factorization has a timeout; nobody has to post or
claim. `Discovery`: a running listener reads what each sender sends and gossip goes on
with its rounds and random choices, the daemon threads of a running agent; starting,
stopping, losing are never owed.

### Disagreements between the code and what it says

Four runs expect a violation; `PROJECT.json` quotes the lines.

1. `ReturnsPrimeFactors`: a composite divisor reported before its prime factors
   stays in the answer (`agent.py` 692-696), against the docstring at 210.
   `pollard_rho(125)` does return 25 for many seeds.
2. `LimitIsTemporary`: claims through the API can be neither completed nor released,
   against the message at `store.py` 386. Nor can a job whose thread did not start.
3. `CodeRedeemedOnce`: check and mark of an invite code are separate locked sections
   (`store.py` 293-309), against 298 and `tests/test_web.py` 56-63.
4. `BonusForFirstSolve`: the inviter's bonus is paid on every solve of the invitee
   (`store.py` 422), against the comment at 35.

Noted while reading and not run: a HELLO is answered only when its sender is new
(`agent.py` 445), so when that one answer is lost the newcomer greets in vain and
`README.md` 209, "Start a second node that discovers the first", needs luck;
`stop` is called graceful (`agent.py` 191), but a call in the middle of handing out
subtasks gets a RuntimeError (591) and the task processor may die of one (552);
`_send_message` means to survive a failed send (308-311), but a host from a PEERS
list can make `sendto` raise what it does not catch; anybody can lower a known
peer's score by sending under its id (`agent.py` 382-386); `README.md` 307 speaks of a majority
vote, `agent.py` 741 accepts one vote for a divisor it has checked; `README.md`
303 says that unsigned messages are dropped, `agent.py` 387-391 accepts non-HELLO
messages of unknown senders unverified; the comment at `store.py` 21 reserves
invites to trusted users, `server.py` 336 lets every user create them.

## 4. What is proved

Every theorem holds for all values of the constants that satisfy the named
assumptions (`FactorTaskAssumption` and so on), which TLC also evaluates. The
assumptions state no more than finiteness, disjoint ids and the ranges the code
guarantees. Each proof gives an inductive invariant and one step per action.

- `FactorTaskProofs`. *TypeCorrect* is inductive as it stands once it says what
  each thread may carry (`known` holds divisors of n) and what an answer is made of;
  lists from dishonest peers are anything until `ValidReport` has passed them.
  *EventAfterAnswer* needs in addition that a thread about to record or signal
  has published, and that `final_factors` never becomes empty again.
  *OwnAnswersAreNotPenalised* supposes of a peer that all that is in flight in its
  name are its own answers and that nobody else's key is on file under its id; about all
  others, and about the past, it supposes nothing. It rests on the type of messages:
  such a list consists of divisors, which is exactly what `ValidReport` tests, and its
  signature fits whenever it is checked at all. Without the premise the claim is
  false of the code, since a datagram is charged to the id it claims.
  *BanIsFinal* needs that the listener never stores for a peer it has just banned.
  *ReturnedForGood* is about the threads that had found the task before the caller
  removed it (`Late`): nobody joins them, since both ways to the task end at
  `LookupTask`, and a thread outside `Late` writes nothing that the call created.
  One of `Late` may still set the event that the caller has dropped.
  *AnswersAlwaysMultiply* adds to the types that an answer, once given, is one that
  `full_factorization` or the answer builder returns for some set of divisors
  (*AlwaysAnswered*); what those return is in `FactoringProofs`.
  *StepsImplementService* is the safety half of `ImplementsService`: the step to
  `pop event` is the service's `Answer`, any other leaves its state alone. It needs
  that every ascending list of factors of N is in the set the service chooses from
  (*EveryFactorization*), by induction over the list.
- `LifecycleProofs`. *LifecycleTypeCorrect* says which threads exist in which phase.
  *NothingIsLostOrRepeated* adds that the datagram in the listener's hands is off the
  network, that a call numbers its subtasks in the order it hands them out (so the
  next is always a new job), and that the owner clears `_running` before it shuts the
  executor. *StoppedIsSilent* needs only that the socket is closed before the
  last joins.
- `JobBoardProofs`. *BoardConsistent* (types, and the counts of handlers and threads
  against the status) carries the rest: a claim needs an open job, an open job has
  nobody at work on it, and each later step moves one of at most one.
  *ClaimsStayWithinTier* needs that reputation never falls and the tier is a monotone
  function of it, so that a limit never shrinks below what is held; cardinalities come
  from `FiniteSetTheorems`. *AccountsAlwaysAddUp* counts: each step adds at most one job
  to one of the sets the accounts are read from (solved by the user, solved by those the
  user invited, claimed, failed), and pays the same; a job that is closed is never
  opened again. *BoardKeepsContract* (refinement: `claimed` and `running` are both
  `held`, `MarkRunning` and `StartThread` are stutters) follows action by action.
- `MembershipProofs`. *MembershipTypeCorrect* adds what each request carries at each
  step. *UsedCodeHasItsMember*: every account is its request's own, and a request
  about to mark a code has its account. *OverlapBoundsDuplicates* counts the
  accounts of a code together with the requests that have passed its check and
  have no account yet (`Joining`, and `Naming` for a handle): creating an account
  leaves that number alone, and a check that passes raises it only while everybody
  counted is still in flight, since a marked code or an existing handle fails the
  check. So it never exceeds `peak`.
- `DiscoveryProofs`. *NobodyListsItself* and *PeersAreKept* need only the types.
  *OneSidedOnlyByBootstrap* strengthens the claim to the HELLOs in flight: every
  greeting was sent to a bootstrap address or to the address of a known peer.
  These proofs allow any number of restarts at one address, which the TLC
  instance does not.
- `ReputationProofs`. *BlacklistFollowsScore*: rewards cannot reach a blacklisted
  sender, penalties update both. *LimiterAlwaysExact* relates what is kept to all that
  was ever admitted: records are admitted entries, nothing recent is missing from them,
  no window holds too many, and the entries of the present tick are numbered below the
  count, so the next one is new and the count is true. *FirstKeyIsKept*: a HELLO that
  passes the check against the known key and fits the key it carries carries the known
  key.
- `FactoringProofs` holds lemmas only. *RecursionExists* is the ground they stand on:
  a step function whose value at x looks only at arguments of smaller measure has a
  fixed point, so a recursive function of the model satisfies its own equation. (Functions
  that do so up to measure k exist for every k and agree with each other; the fixed
  point is put together from them.) *MeasureInduction* and *ListInduction* are stated
  for sets, because the library's theorems take an operator, which no backend can
  instantiate. From these: the product of a list is that of its parts and
  survives sorting; dividing out keeps `product of factors * rest` and ends with a rest
  that the divisor does not divide; the wheel's turn k stands at a candidate that has
  passed over nothing prime to 30 (*NothingBetween*), so when it stops no divisor of
  the rest below the candidate is left (*WheelLeavesRoughs*); splitting keeps the
  product, and a factor without a divisor in reach of the wheel that is below
  the square of the limit is prime (*RoughsArePrime*).
- `RoutineProofs`. *ChunksCoverEveryRoot*: the integer root is what its definition
  says, chunk k begins where chunk k - 1 ends, and the last one ends at the root;
  for every n and every smallest chunk. *FullFactorizationIsRight* and
  *BuildIsRight* put the lemmas above together, for every n, every limit of the wheel and
  every set of divisors. *SignedBytesAlwaysSurvive* and *PayloadsAlwaysSurvive* hold for
  every base of at least four and every width of a field that `WireAssumption` admits: a
  length field can hold the largest payload and the length of a key, one of two bytes the
  length of a signature. The first: by induction over the bytes, k bytes are the
  digits of the number they are read as (*NumberOfBytes*), and k digits of m are read as m
  modulo the k-th power (*NumberOfDigits*). So every number of an accepted
  datagram is packed again into the bytes it came from (*FieldKept*), and the fields
  follow one another without a gap (*BytesKept*). The other half,
  *AssembledAccepted*, follows the lengths through `Serialize`: the receiver finds the
  length field and the signature where the sender put them.
  The second says of every encoding e that the decoder, on data that agrees with e
  wherever it has bytes at all, yields the value and the offset behind e when the data
  reaches so far, and is refused when it does not (`Expect`). That one statement covers
  the whole payload, the payload with a byte behind it, and every cut; and it is handed
  from field to field, since what is read after a field that ended in time starts where
  the next encoding starts (*ThreeFields*). The fields: a text by induction over its
  characters (*TextRead*), a negative number by its two's complement
  (*ReadBackValue*), a list by induction over its items, after the recursion that reads
  it has been shown to have a solution (*RunExists*, *ItemsRead*). The numbers that n
  puts into a payload must fit behind their length fields, which is `NMaxAssumption`,
  and the invariant is `Bounded`, n between 0 and NMax. In the code that field has four
  bytes, so the assumption speaks of numbers of up to 4 GB.
  *SearchesAlwaysExact* needs that `IsProbablyPrime`, with every witness tried, is exact
  (*ProbablyPrimeIsPrime*). A prime passes: a prime that divides a product divides a
  factor (*PrimeDividesFactor*), so the products of a * i modulo p are those of the i in
  another order and a^(p-1) leaves 1 (*PowerLeavesOne*), and the only roots of 1 are 1 and
  p - 1 (*RootsOfOne*); hence the squarings from a^d upwards meet -1 or were 1 from the
  start (*WitnessMeets*). A composite fails: a divisor of it is a witness, since no power
  of a divisor leaves 1 or -1 (*DivisorFails*). For Goldbach, the smaller of two primes
  is odd and within the half (*GoldbachRangeSuffices*). For Collatz, the loop's record after k
  turns is the orbit's k-th number, k, and the greatest of the orbit so far
  (*LoopFollowsOrbit*), and stays what it is once at 1 (*LoopStays*). The first half also
  gives *NoPrimeIsRejected*: for a prime of any size, wherever the limit between fixed
  and random witnesses is and however many are drawn, every verdict `primality_test` can
  give is yes, since a prime passes whichever witnesses are tried.

Only model-checked: liveness (`CallReturns`, the fairness of `ImplementsService`,
`ThreadsEnd`, `CallsEnd`, `AcceptedIsExecuted`, `WebClaimsFinish`, `LimitIsTemporary`,
`EveryoneMeets`), since the prover does not handle fairness and ENABLED.
`CriteriaAreExact` and `SignaturesAreExact` rest on mathematics far
from the code: that twelve witnesses expose every strong pseudoprime below 3.3e24 is itself
a computation, that the exponents leave out no perfect number is open for odd ones, and
that the points of the curve form a group needs algebra the provers do not have.

## 5. Not modelled, and why

HTML and request parsing (formatting, no state), the activity log, settings and
statistics (nothing reads them to decide), command line and deployment. Proof of work
and message age only drop datagrams, which the network model does as well. Numbers above
3.3e24 and the curve secp256k1 itself are beyond TLC's integers: the limit and the curve
are parameters; how Pollard's rho walks is left out, what it may return is not; hashing
and random numbers are Python's. The cut of a peer list at 20 entries needs more agents
than TLC can take. `_handle_verify` answers requests that nothing in the program sends;
its payload is in `Wire`, its effect is a RESULT like any other. Views (`list_jobs`, the
statistics) read state without a lock and change none.

## 6. Plan

1. Done: arithmetic, solvers, wire format and signatures as operators; task,
   lifecycle, discovery, admission, job board and membership as state machines;
   proofs about all of the latter, the factorization arithmetic, the Goldbach and
   Collatz searches, the wire format and the safety of both refinements.
2. What would add most next: two tasks of one agent at once, with the sub-task ids
   that `_handle_result` matches on the first twelve bytes of; the rate limiter
   dropping RESULTs in mid-task; a restart at an old address in the TLC instance of
   `Discovery`.
3. Proofs worth trying next: `SignaturesAreExact` from the group law of the curve
   as an assumption on its constants, which TLC would evaluate on the small curve.
