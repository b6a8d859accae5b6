-------------------------- MODULE FactorTaskProofs --------------------------
(***************************************************************************)
(* Theorems about FactorTask, for every number, every set of peers and     *)
(* every value of the tuning constants.                                    *)
(***************************************************************************)
EXTENDS FactorTask, FactoringProofs

-----------------------------------------------------------------------------
(* Arithmetic of the subtasks.                                             *)

\* math.isqrt returns a natural number.
LEMMA ISqrtType ==
    ASSUME NEW n \in Nat
    PROVE  ISqrt(n) \in Nat
<1>1. IsFiniteSet(1..n)
    BY FS_Interval
<1>2. IsFiniteSet({r \in 1..n : r * r <= n})
    BY <1>1, FS_Subset
<1> QED BY <1>2, FS_CardinalityType DEF ISqrt

\* Chunks have at least one candidate, so the decomposition loop advances.
LEMMA ChunkSizeType ==
    ASSUME NEW n \in Nat
    PROVE  ChunkSize(n) \in Nat \ {0}
<1>1. ISqrt(n) \div 10 \in Nat
    BY ISqrtType
<1> QED BY <1>1, FactoringAssumption DEF ChunkSize, Larger

\* trial_division reports divisors of its number and nothing else.
LEMMA TrialDivisionReports ==
    ASSUME NEW n \in Nat, NEW start \in Int, NEW end \in Int
    PROVE  TrialDivision(n, start, end) \subseteq Divisors(n)
<1>1. CASE n < 2
    BY <1>1 DEF TrialDivision
<1>2. CASE n >= 2
    <2> SUFFICES ASSUME NEW c \in Larger(start, 2)..(Smaller(end, ISqrt(n) + 2) - 1),
                        n % c = 0
                 PROVE  c \in Divisors(n)
        BY <1>2 DEF TrialDivision
    <2>1. Larger(start, 2) \in Int /\ Larger(start, 2) >= 2
        BY DEF Larger
    <2>2. Smaller(end, ISqrt(n) + 2) - 1 \in Int
        BY ISqrtType DEF Smaller
    <2>3. c \in Int /\ c > 1
        BY <2>1, <2>2
    <2> QED BY <1>2, <2>3, DivisorsAreDivisors DEF Positive
<1> QED BY <1>1, <1>2

\* So does pollard_rho.
LEMMA PollardRhoReports ==
    ASSUME NEW n \in Nat, NEW out \in PollardRho(n)
    PROVE  out \subseteq Divisors(n)
<1>1. CASE n <= 1
    BY <1>1 DEF PollardRho
<1>2. CASE n > 1 /\ n % 2 = 0
    <2>1. 2 \in Divisors(n)
        BY <1>2 DEF Divisors
    <2> QED BY <1>2, <2>1 DEF PollardRho
<1>3. CASE n > 1 /\ n % 2 # 0 /\ n % 3 = 0
    <2>1. 3 \in Divisors(n)
        BY <1>3 DEF Divisors
    <2> QED BY <1>3, <2>1 DEF PollardRho
<1>4. CASE n > 1 /\ n % 2 # 0 /\ n % 3 # 0
    BY <1>4 DEF PollardRho
<1> QED BY <1>1, <1>2, <1>3, <1>4

SubtaskDescriptions == [algorithm : {"trial_division", "pollard_rho"}, start : Int, end : Int]

\* The decomposition is a list of subtask descriptions.
LEMMA DecomposeType ==
    ASSUME NEW n \in Nat, NEW k \in Nat
    PROVE  Decompose(n, k) \in Seq(SubtaskDescriptions)
<1> DEFINE count == (ISqrt(n) + ChunkSize(n) - 2) \div ChunkSize(n)
           from(j) == 2 + (j - 1) * ChunkSize(n)
           chunk(j) == [algorithm |-> "trial_division", start |-> from(j),
                        end |-> Smaller(from(j) + ChunkSize(n), ISqrt(n) + 1)]
           rho(j) == [algorithm |-> "pollard_rho", start |-> 0, end |-> 0]
<1>1. ChunkSize(n) \in Nat \ {0} /\ ISqrt(n) \in Nat
    BY ChunkSizeType, ISqrtType
<1>2. Larger(count, 0) \in Nat
    <2>1. count \in Int
        BY <1>1
    <2> QED BY <2>1 DEF Larger
<1>3. ASSUME NEW j \in 1..Larger(count, 0)
      PROVE  chunk(j) \in SubtaskDescriptions
    <2>1. from(j) \in Int /\ from(j) + ChunkSize(n) \in Int
        BY <1>1, <1>2
    <2>2. Smaller(from(j) + ChunkSize(n), ISqrt(n) + 1) \in Int
        BY <1>1, <2>1 DEF Smaller
    <2>3. \A a, b \in Int : [algorithm |-> "trial_division", start |-> a, end |-> b]
                                \in SubtaskDescriptions
        BY DEF SubtaskDescriptions
    <2> HIDE DEF from
    <2> QED BY <2>1, <2>2, <2>3
<1>4. TrialChunks(n) \in Seq(SubtaskDescriptions)
    <2> DEFINE m == Larger(count, 0)
               chunks == [j \in 1..m |-> chunk(j)]
    <2>1. TrialChunks(n) = chunks
        BY DEF TrialChunks
    <2>2. chunks \in [1..m -> SubtaskDescriptions]
        BY <1>3
    <2>3. m \in Nat
        BY <1>2
    <2> HIDE DEF m, chunks
    <2> QED BY <2>1, <2>2, <2>3
<1>5. RhoAttempts(k) \in Nat
    BY FactoringAssumption DEF RhoAttempts, Larger, Smaller
<1>6. [j \in 1..RhoAttempts(k) |-> rho(j)] \in Seq(SubtaskDescriptions)
    <2> DEFINE m == RhoAttempts(k)
               attempts == [j \in 1..m |-> rho(j)]
    <2>1. \A j \in 1..m : rho(j) \in SubtaskDescriptions
        BY DEF SubtaskDescriptions
    <2>2. attempts \in [1..m -> SubtaskDescriptions]
        BY <2>1
    <2>3. m \in Nat
        BY <1>5
    <2> HIDE DEF m, attempts
    <2>4. attempts \in Seq(SubtaskDescriptions)
        BY <2>2, <2>3
    <2> QED BY <2>4 DEF m, attempts
<1> QED BY <1>4, <1>6 DEF Decompose

\* Whatever a planned subtask reports is a set of divisors of N.
LEMMA SubtasksReportDivisors ==
    ASSUME NEW i \in Subtasks, NEW out \in RunAlgorithm(N, PlannedSubtasks[i])
    PROVE  out \in SUBSET Divisors(N)
<1>1. Cardinality(Peers) \in Nat
    BY FactorTaskAssumption, FS_CardinalityType
<1>2. PlannedSubtasks \in Seq(SubtaskDescriptions)
    BY <1>1, DecomposeType, FactorTaskAssumption DEF PlannedSubtasks
<1>3. PlannedSubtasks[i] \in SubtaskDescriptions
    BY <1>2 DEF Subtasks
<1> DEFINE t == PlannedSubtasks[i]
<1>4. t.start \in Int /\ t.end \in Int
    BY <1>3 DEF SubtaskDescriptions
<1>5. TrialDivision(N, t.start, t.end) \subseteq Divisors(N)
    BY <1>4, TrialDivisionReports, FactorTaskAssumption
<1> QED BY <1>5, PollardRhoReports, FactorTaskAssumption DEF RunAlgorithm

LEMMA PlanLength == Len(PlannedSubtasks) \in Nat
<1>1. Cardinality(Peers) \in Nat
    BY FactorTaskAssumption, FS_CardinalityType
<1>2. PlannedSubtasks \in Seq(SubtaskDescriptions)
    BY <1>1, DecomposeType, FactorTaskAssumption DEF PlannedSubtasks
<1> QED BY <1>2

-----------------------------------------------------------------------------
(* Types.                                                                  *)

LEMMA AnswerMember ==
    ASSUME NEW s
    PROVE  s \in Answers <=> \/ s \in FullFactorization(N)
                             \/ \E S \in SUBSET Divisors(N) : s \in BuildComplete(N, S)
BY DEF Answers

\* Only divisors of N are ever collected.
LEMMA ReportedAreDivisors ==
    ASSUME TypeOK
    PROVE  ReportedFactors \in SUBSET Divisors(N)
BY DEF TypeOK, ReportedFactors

LEMMA InitTypeOK == Init => TypeOK
<1> SUFFICES ASSUME Init PROVE TypeOK
    OBVIOUS
<1>1. /\ pc \in [Threads -> AllLabels]
      /\ pc[Initiator] = "assign" /\ pc[Listener] = "idle"
      /\ \A i \in Pool : pc[i] \in PoolLabels \cup AggregateLabels
    BY DEF Init, Initiator, Listener, Threads, Pool, Subtasks, AllLabels,
           PoolLabels, InitiatorLabels
<1>2. /\ known \in [Threads -> SUBSET Divisors(N)]
      /\ results \in [Subtasks -> [Workers -> SUBSET Divisors(N)]]
      /\ score \in [Peers -> Int] /\ keyOnFile \in [Peers -> Keys]
    BY DEF Init, INITIAL_REPUTATION
<1>3. /\ assigned \in 0..Len(PlannedSubtasks) /\ dups \in 0..MaxDuplicates
      /\ lies \in 0..MaxLies
      /\ answering \in [from : Peers \cup {NoOne}, idx : Subtasks \cup {0}]
    BY PlanLength, FactorTaskAssumption DEF Init
<1> QED BY <1>1, <1>2, <1>3 DEF Init, TypeOK, InitiatorLabels

USE DEF Goto, taskVars, tableVars, repVars, netVars

LEMMA PeerExecuteTypeOK ==
    ASSUME TypeOK, NEW m \in net, PeerExecute(m)
    PROVE  TypeOK'
<1> DEFINE answer(out) == [type |-> "RESULT", from |-> m.to, origin |-> "own", idx |-> m.idx,
                           factors |-> out]
<1>1. PICK out \in RunAlgorithm(N, PlannedSubtasks[m.idx]) : Take(m, {answer(out)})
    BY DEF PeerExecute
<1>2. m.to \in Peers /\ m.idx \in Subtasks
    <2>1. m \in Messages /\ m.type = "ASSIGN"
        BY DEF TypeOK, PeerExecute
    <2> QED BY <2>1 DEF Messages, Invented
<1>3. out \in SUBSET Divisors(N)
    BY <1>2, SubtasksReportDivisors
<1>4. answer(out) \in Messages
    BY <1>2, <1>3 DEF Messages
<1>5. net' \subseteq Messages /\ dups' \in 0..MaxDuplicates
    BY <1>1, <1>4, FactorTaskAssumption DEF Take, TypeOK
<1> QED BY <1>5 DEF TypeOK, PeerExecute

LEMMA InventTypeOK ==
    ASSUME TypeOK, Invent
    PROVE  TypeOK'
<1>1. net' \subseteq Messages
    BY DEF TypeOK, Invent, Messages
<1>2. lies' \in 0..MaxLies
    BY FactorTaskAssumption DEF TypeOK, Invent
<1> QED BY <1>1, <1>2 DEF TypeOK, Invent

LEMMA RegisterKeyTypeOK ==
    ASSUME TypeOK, NEW p \in Peers, RegisterKey(p)
    PROVE  TypeOK'
<1>1. keyOnFile' \in [Peers -> Keys]
    BY DEF TypeOK, RegisterKey
<1> QED BY <1>1 DEF TypeOK, RegisterKey

LEMMA AssignSubtaskTypeOK ==
    ASSUME TypeOK, AssignSubtask
    PROVE  TypeOK'
<1> DEFINE i == assigned + 1
<1>1. i \in Subtasks /\ assigned' = i
    BY PlanLength DEF AssignSubtask, TypeOK, Subtasks
<1>2. assigned' \in 0..Len(PlannedSubtasks)
    BY <1>1, PlanLength DEF Subtasks
<1>3. net' \subseteq Messages
    BY <1>1 DEF AssignSubtask, TypeOK, Messages, kSubset, Workers
<1>4. /\ pc' \in [Threads -> AllLabels]
      /\ pc'[Initiator] = "assign" /\ pc'[Listener] = pc[Listener]
      /\ \A j \in Pool : pc'[j] \in PoolLabels \cup AggregateLabels
    BY <1>1 DEF AssignSubtask, TypeOK, Threads, Pool, Subtasks, AllLabels, PoolLabels,
                Initiator, Listener
<1> QED BY <1>2, <1>3, <1>4
        DEF AssignSubtask, TypeOK, InitiatorLabels

\* The label of a thread is one of that thread's own labels.
LabelsOK ==
    /\ pc \in [Threads -> AllLabels]
    /\ pc[Initiator] \in InitiatorLabels \cup AggregateLabels
    /\ pc[Listener] \in {"idle", "store"} \cup AggregateLabels
    /\ \A i \in Pool : pc[i] \in PoolLabels \cup AggregateLabels

LEMMA ThreadsDistinct ==
    /\ Initiator \in Threads /\ Listener \in Threads /\ Initiator # Listener
    /\ Pool \subseteq Threads /\ Initiator \notin Pool /\ Listener \notin Pool
BY DEF Threads, Pool, Subtasks, Initiator, Listener

LEMMA LabelSets ==
    /\ PoolLabels \cup AggregateLabels \cup InitiatorLabels \cup {"idle", "store"} \subseteq AllLabels
    /\ "finished" \in PoolLabels /\ "check" \in InitiatorLabels
BY DEF AllLabels, PoolLabels, AggregateLabels, InitiatorLabels

\* A thread in _try_aggregate moves on within it, or returns to its home.
LEMMA AggregateLabelsOK ==
    ASSUME LabelsOK, NEW t \in Threads, NEW l \in AggregateLabels \cup {Home(t)},
           pc' = [pc EXCEPT ![t] = l]
    PROVE  LabelsOK'
<1>1. CASE t = Initiator
    BY <1>1, ThreadsDistinct, LabelSets DEF LabelsOK, Home
<1>2. CASE t = Listener
    BY <1>2, ThreadsDistinct, LabelSets DEF LabelsOK, Home
<1>3. CASE t \in Pool
    BY <1>3, ThreadsDistinct, LabelSets DEF LabelsOK, Home
<1> QED BY <1>1, <1>2, <1>3 DEF Threads

LEMMA InitiatorLabelsOK ==
    ASSUME LabelsOK, NEW l \in InitiatorLabels \cup AggregateLabels,
           pc' = [pc EXCEPT ![Initiator] = l]
    PROVE  LabelsOK'
BY ThreadsDistinct, LabelSets DEF LabelsOK

LEMMA PoolLabelsOK ==
    ASSUME LabelsOK, NEW i \in Pool, NEW l \in PoolLabels \cup AggregateLabels,
           pc' = [pc EXCEPT ![i] = l]
    PROVE  LabelsOK'
BY ThreadsDistinct, LabelSets DEF LabelsOK

LEMMA ListenerLabelsOK ==
    ASSUME LabelsOK, NEW l \in {"idle", "store"} \cup AggregateLabels,
           pc' = [pc EXCEPT ![Listener] = l]
    PROVE  LabelsOK'
BY ThreadsDistinct, LabelSets DEF LabelsOK

LEMMA PoolStepTypeOK ==
    ASSUME TypeOK, NEW i \in Pool, PoolStep(i)
    PROVE  TypeOK'
<1>1. i \in Threads /\ i \in Subtasks /\ LabelsOK /\ i # Listener
    BY DEF TypeOK, LabelsOK, Threads, Pool, Subtasks, Listener
<1>2. CASE StartLocal(i)
    <2>1. LabelsOK'
        BY <1>1, <1>2, PoolLabelsOK DEF StartLocal, PoolLabels
    <2> QED BY <1>2, <2>1 DEF TypeOK, LabelsOK, StartLocal
<1>3. CASE ExecuteLocal(i)
    <2>1. LabelsOK'
        BY <1>1, <1>3, PoolLabelsOK DEF ExecuteLocal, PoolLabels
    <2>2. known' \in [Threads -> SUBSET Divisors(N)]
        BY <1>1, <1>3, SubtasksReportDivisors DEF ExecuteLocal, TypeOK
    <2>3. pc'[Listener] = pc[Listener]
        BY <1>1, <1>3 DEF ExecuteLocal, TypeOK, Threads
    <2> QED BY <1>3, <2>1, <2>2, <2>3 DEF TypeOK, LabelsOK, ExecuteLocal
<1>4. CASE StoreLocal(i)
    <2>1. LabelsOK'
        BY <1>1, <1>4, PoolLabelsOK DEF StoreLocal, AggregateLabels
    <2>2. known' \in [Threads -> SUBSET Divisors(N)]
        BY <1>4 DEF StoreLocal, TypeOK
    <2>3. results' \in [Subtasks -> [Workers -> SUBSET Divisors(N)]]
        BY <1>1, <1>4 DEF StoreLocal, TypeOK
    <2>4. pc'[Listener] = pc[Listener]
        BY <1>1, <1>4 DEF StoreLocal, TypeOK, Threads
    <2> QED BY <1>4, <2>1, <2>2, <2>3, <2>4 DEF TypeOK, LabelsOK, StoreLocal
<1> QED BY <1>2, <1>3, <1>4 DEF PoolStep

LEMMA ResultFields ==
    ASSUME TypeOK, NEW m \in net, m.type = "RESULT"
    PROVE  /\ m.from \in Peers /\ m.idx \in Subtasks /\ m.factors \in SUBSET Int
           /\ m.origin = "own" => m.factors \in SUBSET Divisors(N)
<1>1. m \in Messages
    BY DEF TypeOK
<1>2. CASE \E r \in Inventions : m = Invented(r)
    <2>1. PICK r \in Inventions : m = Invented(r)
        BY <1>2
    <2>2. r \in [from : Peers, origin : {"signed", "forged"}, idx : Subtasks,
                 factors : SUBSET Int]
        BY FactorTaskAssumption
    <2> QED BY <2>1, <2>2 DEF Invented
<1>3. CASE m \in [type : {"RESULT"}, from : Peers, origin : {"own"}, idx : Subtasks,
                  factors : SUBSET Divisors(N)]
    BY <1>3 DEF Divisors
<1>4. CASE m \in [type : {"ASSIGN"}, to : Peers, idx : Subtasks]
    BY <1>4
<1> QED BY <1>1, <1>2, <1>3, <1>4 DEF Messages

LEMMA HandleResultTypeOK ==
    ASSUME TypeOK, NEW m \in net, HandleResult(m)
    PROVE  TypeOK'
<1>1. m.from \in Peers /\ m.idx \in Subtasks /\ m.factors \in SUBSET Int
    BY ResultFields DEF HandleResult
<1>2. net' \subseteq Messages /\ dups' \in 0..MaxDuplicates
    BY FactorTaskAssumption DEF HandleResult, Take, TypeOK
<1>3. LabelsOK /\ Listener \in Threads
    BY DEF TypeOK, LabelsOK, Threads
<1>4. LabelsOK'
    <2>1. CASE pc' = pc
        BY <1>3, <2>1 DEF LabelsOK
    <2>2. CASE pc' = [pc EXCEPT ![Listener] = "store"]
        BY <1>3, <2>2, ListenerLabelsOK
    <2> QED BY <2>1, <2>2 DEF HandleResult
<1>5. ValidReport(m.factors) => m.factors \in SUBSET Divisors(N)
    BY <1>1, DivisorsAreDivisors, FactorTaskAssumption DEF ValidReport, Positive
<1>6. /\ known' \in [Threads -> SUBSET Divisors(N)]
      /\ answering' \in [from : Peers \cup {NoOne}, idx : Subtasks \cup {0}]
      /\ pc'[Listener] = "store" => answering' \in [from : Peers, idx : Subtasks]
    BY <1>1, <1>3, <1>5 DEF HandleResult, TypeOK
<1>7. score' \in [Peers -> Int] /\ blacklist' \subseteq Peers
    BY <1>1 DEF HandleResult, Judge, TypeOK, REWARD_VALID_RESULT, PENALTY_INVALID_RESULT
<1> QED BY <1>2, <1>4, <1>6, <1>7 DEF TypeOK, LabelsOK, HandleResult

LEMMA StoreRemoteTypeOK ==
    ASSUME TypeOK, StoreRemote
    PROVE  TypeOK'
<1>1. LabelsOK /\ Listener \in Threads
    BY DEF TypeOK, LabelsOK, Threads
<1>2. LabelsOK' /\ pc'[Listener] = "lookup"
    BY <1>1, ListenerLabelsOK DEF StoreRemote, AggregateLabels, LabelsOK
<1>3. known' \in [Threads -> SUBSET Divisors(N)]
    BY DEF StoreRemote, TypeOK
<1>4. results' \in [Subtasks -> [Workers -> SUBSET Divisors(N)]]
    <2>1. known[Listener] \in SUBSET Divisors(N)
        BY <1>1 DEF TypeOK
    <2>2. answering.idx \in Subtasks /\ answering.from \in Workers
        BY DEF StoreRemote, TypeOK, Workers
    <2> QED BY <2>1, <2>2 DEF StoreRemote, TypeOK
<1> QED BY <1>2, <1>3, <1>4 DEF TypeOK, LabelsOK, StoreRemote

LEMMA AggregateStepTypeOK ==
    ASSUME TypeOK, NEW t \in Threads, AggregateStep(t)
    PROVE  TypeOK'
<1>1. LabelsOK
    BY DEF TypeOK, LabelsOK
<1>2. \E l \in AggregateLabels \cup {Home(t)} : pc' = [pc EXCEPT ![t] = l]
    BY DEF AggregateStep, LookupTask, Collect, Publish, Record, LookupEvent, SetEvent, AggregateLabels
<1>3. LabelsOK'
    BY <1>1, <1>2, AggregateLabelsOK
<1>4. pc'[Listener] = "store" => pc[Listener] = "store"
    <2>1. "store" \notin AggregateLabels /\ Home(Listener) # "store"
        BY DEF AggregateLabels, Home, Listener, Initiator
    <2>2. pc \in [Threads -> AllLabels]
        BY DEF TypeOK
    <2> QED BY <1>2, <2>1, <2>2, ThreadsDistinct
<1>5. ASSUME UNCHANGED <<known, final>>
      PROVE  known' \in [Threads -> SUBSET Divisors(N)] /\ final' \in Answers \cup {<<>>}
    BY <1>5 DEF TypeOK
<1>6. CASE LookupTask(t)
    BY <1>3, <1>4, <1>6 DEF TypeOK, LabelsOK, LookupTask
<1>7. CASE Collect(t)
    <2>1. known' \in [Threads -> SUBSET Divisors(N)]
        BY <1>7, ReportedAreDivisors DEF Collect, TypeOK
    <2> QED BY <1>3, <1>4, <1>7, <2>1 DEF TypeOK, LabelsOK, Collect
<1>8. CASE Publish(t)
    <2>1. known' \in [Threads -> SUBSET Divisors(N)]
        BY <1>8 DEF Publish, TypeOK
    <2>2. \A built \in BuildComplete(N, known[t]) : built \in Answers
        <3>1. known[t] \in SUBSET Divisors(N)
            BY DEF TypeOK
        <3> QED BY <3>1, AnswerMember
    <2>3. final' \in Answers \cup {<<>>}
        BY <1>8, <2>2 DEF Publish, TypeOK
    <2> QED BY <1>3, <1>4, <1>8, <2>1, <2>3 DEF TypeOK, LabelsOK, Publish
<1>9. CASE Record(t)
    BY <1>3, <1>4, <1>9 DEF TypeOK, LabelsOK, Record
<1>10. CASE LookupEvent(t)
    BY <1>3, <1>4, <1>10 DEF TypeOK, LabelsOK, LookupEvent
<1>11. CASE SetEvent(t)
    BY <1>3, <1>4, <1>11 DEF TypeOK, LabelsOK, SetEvent
<1> QED BY <1>6, <1>7, <1>8, <1>9, <1>10, <1>11 DEF AggregateStep

LEMMA InitiatorStepTypeOK ==
    ASSUME TypeOK, InitiatorStep
    PROVE  TypeOK'
<1>1. LabelsOK /\ pc \in [Threads -> AllLabels]
    BY DEF TypeOK, LabelsOK
<1>2. CASE AssignSubtask
    BY <1>2, AssignSubtaskTypeOK
<1>3. CASE ~AssignSubtask
    <2>1. PICK l \in InitiatorLabels \cup AggregateLabels : pc' = [pc EXCEPT ![Initiator] = l]
        BY <1>3 DEF InitiatorStep, AllAssigned, CheckDeadline, WaitReturns, AnswerFromFinal,
            AnswerFromResults, PopEvent, PopValue, PopTask, InitiatorLabels, AggregateLabels
    <2>2. LabelsOK' /\ pc'[Listener] = pc[Listener]
        BY <1>1, <2>1, InitiatorLabelsOK, ThreadsDistinct
    <2>3. CASE AllAssigned
        BY <2>2, <2>3 DEF TypeOK, LabelsOK, AllAssigned
    <2>4. CASE CheckDeadline
        BY <2>2, <2>4 DEF TypeOK, LabelsOK, CheckDeadline
    <2>5. CASE WaitReturns
        BY <2>2, <2>5 DEF TypeOK, LabelsOK, WaitReturns
    <2>6. CASE AnswerFromFinal
        BY <2>2, <2>6 DEF TypeOK, LabelsOK, AnswerFromFinal
    <2>7. CASE AnswerFromResults
        <3>1. ret' \in Answers
            <4>1. ret' \in FullFactorization(N) \/ ret' \in BuildComplete(N, ReportedFactors)
                BY <2>7 DEF AnswerFromResults
            <4> QED BY <4>1, ReportedAreDivisors, AnswerMember
        <3> QED BY <2>2, <2>7, <3>1 DEF TypeOK, LabelsOK, AnswerFromResults
    <2>8. CASE PopEvent
        BY <2>2, <2>8 DEF TypeOK, LabelsOK, PopEvent
    <2>9. CASE PopValue
        BY <2>2, <2>9 DEF TypeOK, LabelsOK, PopValue
    <2>10. CASE PopTask
        BY <2>2, <2>10 DEF TypeOK, LabelsOK, PopTask
    <2> QED BY <1>3, <2>3, <2>4, <2>5, <2>6, <2>7, <2>8, <2>9, <2>10 DEF InitiatorStep
<1> QED BY <1>2, <1>3

\* What happens on the network alone.
NetworkStep ==
    \/ \E m \in net : PeerExecute(m)
    \/ Invent
    \/ \E p \in Peers : RegisterKey(p)

LEMMA NextTypeOK ==
    ASSUME TypeOK, [Next]_vars
    PROVE  TypeOK'
<1>1. CASE InitiatorStep
    BY <1>1, InitiatorStepTypeOK
<1>2. ASSUME NEW t \in Threads, AggregateStep(t) PROVE TypeOK'
    BY <1>2, AggregateStepTypeOK
<1>3. ASSUME NEW i \in Pool, PoolStep(i) PROVE TypeOK'
    BY <1>3, PoolStepTypeOK
<1>4. ASSUME NEW m \in net, PeerExecute(m) PROVE TypeOK'
    BY <1>4, PeerExecuteTypeOK
<1>5. ASSUME NEW m \in net, HandleResult(m) PROVE TypeOK'
    BY <1>5, HandleResultTypeOK
<1>6. CASE StoreRemote
    BY <1>6, StoreRemoteTypeOK
<1>7. CASE DeadlinePasses
    BY <1>7 DEF TypeOK, DeadlinePasses
<1>8. CASE UNCHANGED vars
    BY <1>8 DEF TypeOK, vars
<1>9. CASE Invent
    BY <1>9, InventTypeOK
<1>10. ASSUME NEW p \in Peers, RegisterKey(p) PROVE TypeOK'
    BY <1>10, RegisterKeyTypeOK
<1> QED BY <1>1, <1>2, <1>3, <1>4, <1>5, <1>6, <1>7, <1>8, <1>9, <1>10 DEF Next

\* Every reachable state is well typed.  In particular every published and
\* every returned answer was assembled by _build_complete_factorization from
\* divisors of N, or is the local factorization of N.
THEOREM TypeCorrect == Spec => []TypeOK
<1>1. TypeOK /\ [Next]_vars => TypeOK'
    BY NextTypeOK
<1> QED BY <1>1, InitTypeOK, PTL DEF Spec

-----------------------------------------------------------------------------
(* Whoever sets the event has published an answer.                         *)

\* Inductive: a thread past Publish has seen a published answer, and an
\* answer is never taken back.
PublishedFirst ==
    /\ EventImpliesAnswer
    /\ \A t \in Threads : pc[t] \in {"record", "signal", "set"} => final # <<>>

LEMMA NextPublishedFirst ==
    ASSUME TypeOK, PublishedFirst, [Next]_vars
    PROVE  PublishedFirst'
<1> USE DEF PublishedFirst, EventImpliesAnswer
<1>1. CASE InitiatorStep
    <2>1. UNCHANGED <<event, final>>
        BY <1>1 DEF InitiatorStep, AssignSubtask, AllAssigned, CheckDeadline, WaitReturns,
            AnswerFromFinal, AnswerFromResults, PopEvent, PopValue, PopTask
    <2>2. \A t \in Threads : pc'[t] \in {"record", "signal", "set"} => pc'[t] = pc[t]
        BY <1>1 DEF TypeOK, InitiatorStep, AssignSubtask, AllAssigned, CheckDeadline, WaitReturns,
            AnswerFromFinal, AnswerFromResults, PopEvent, PopValue, PopTask
    <2> QED BY <2>1, <2>2
<1>2. ASSUME NEW t \in Threads, AggregateStep(t) PROVE PublishedFirst'
    <2>1. pc \in [Threads -> AllLabels]
        BY DEF TypeOK
    <2>2. CASE LookupTask(t) \/ Collect(t)
        BY <2>1, <2>2 DEF LookupTask, Collect, Home
    <2>3. CASE Publish(t)
        BY <2>1, <2>3 DEF Publish, Home
    <2>4. CASE Record(t)
        BY <2>1, <2>4 DEF Record
    <2>5. CASE LookupEvent(t) \/ SetEvent(t)
        BY <2>1, <2>5 DEF LookupEvent, SetEvent, Home
    <2> QED BY <1>2, <2>2, <2>3, <2>4, <2>5 DEF AggregateStep
<1>3. ASSUME NEW i \in Pool, PoolStep(i) PROVE PublishedFirst'
    BY <1>3 DEF PoolStep, StartLocal, ExecuteLocal, StoreLocal, TypeOK
<1>4. CASE NetworkStep
    BY <1>4 DEF NetworkStep, PeerExecute, Invent, RegisterKey
<1>5. ASSUME NEW m \in net, HandleResult(m) PROVE PublishedFirst'
    BY <1>5 DEF HandleResult, TypeOK
<1>6. CASE StoreRemote
    BY <1>6 DEF StoreRemote, TypeOK
<1>7. CASE DeadlinePasses
    BY <1>7 DEF DeadlinePasses
<1>8. CASE UNCHANGED vars
    BY <1>8 DEF vars
<1> QED BY <1>1, <1>2, <1>3, <1>4, <1>5, <1>6, <1>7, <1>8 DEF Next, NetworkStep

\* When the initiating thread is woken by the result event (agent.py:271),
\* final_factors is not empty, although neither is protected by a lock.
THEOREM EventAfterAnswer == Spec => []EventImpliesAnswer
<1>1. Init => PublishedFirst
    BY DEF Init, PublishedFirst, EventImpliesAnswer
<1>2. TypeOK /\ PublishedFirst /\ [Next]_vars => PublishedFirst'
    BY NextPublishedFirst
<1>3. PublishedFirst => EventImpliesAnswer
    BY DEF PublishedFirst
<1> QED BY <1>1, <1>2, <1>3, TypeCorrect, PTL DEF Spec

-----------------------------------------------------------------------------
(* Reputation.                                                             *)

\* Only a RESULT changes a score or the blacklist, and never one whose sender
\* is blacklisted.
LEMMA ReputationStep ==
    ASSUME TypeOK, [Next]_vars, ~UNCHANGED repVars
    PROVE  \E m \in net :
               /\ HandleResult(m)
               /\ m.from \in Peers \ blacklist
               /\ Judge(m.from, IF Verified(m) /\ ValidReport(m.factors)
                                THEN REWARD_VALID_RESULT ELSE -PENALTY_INVALID_RESULT)
<1>1. \E m \in net : HandleResult(m)
    BY DEF Next, vars, InitiatorStep, AssignSubtask, AllAssigned, CheckDeadline,
        WaitReturns, AnswerFromFinal, AnswerFromResults, PopEvent, PopValue, PopTask,
        AggregateStep, LookupTask, Collect, Publish, Record, LookupEvent, SetEvent, PoolStep,
        StartLocal, ExecuteLocal, StoreLocal, PeerExecute, Invent, RegisterKey, StoreRemote,
        DeadlinePasses
<1>2. PICK m \in net : HandleResult(m)
    BY <1>1
<1>3. m.from \in Peers
    BY <1>2, ResultFields DEF HandleResult
<1>4. m.from \notin blacklist
    BY <1>2 DEF HandleResult
<1>5. Judge(m.from, IF Verified(m) /\ ValidReport(m.factors)
                    THEN REWARD_VALID_RESULT ELSE -PENALTY_INVALID_RESULT)
    BY <1>2 DEF HandleResult
<1> QED BY <1>2, <1>3, <1>4, <1>5

\* An answer the peer computed passes the requester's tests.
LEMMA OwnAnswersPass ==
    ASSUME TypeOK, NEW m \in net, HandleResult(m), SpeaksForItself(m.from)
    PROVE  Verified(m) /\ ValidReport(m.factors)
<1>1. m.type = "RESULT" /\ m.from \in Peers /\ keyOnFile \in [Peers -> Keys]
    BY ResultFields DEF HandleResult, TypeOK
<1>2. m.origin = "own" /\ keyOnFile[m.from] \in {"none", "own"}
    BY <1>1 DEF SpeaksForItself, Keys
<1>3. m.factors \in SUBSET Divisors(N)
    BY <1>1, <1>2, ResultFields
<1> QED BY <1>2, <1>3 DEF Verified, ValidReport, Divisors

\* No answer that a peer computed costs it anything, whatever is lost,
\* repeated or late and whatever is said in the name of others: the reward
\* branch of _handle_result is the only one its answers reach.
THEOREM OwnAnswersAreNotPenalised == Spec => OwnAnswersCostNothing
<1>1. TypeOK /\ [Next]_vars =>
          [\A p \in Peers : SpeaksForItself(p) => score'[p] >= score[p]]_score
    <2> SUFFICES ASSUME TypeOK, [Next]_vars, ~UNCHANGED score, NEW p \in Peers,
                        SpeaksForItself(p)
                 PROVE  score'[p] >= score[p]
        OBVIOUS
    <2>1. score \in [Peers -> Int]
        BY DEF TypeOK
    <2>2. PICK m \in net : /\ HandleResult(m)
                           /\ m.from \in Peers
                           /\ Judge(m.from, IF Verified(m) /\ ValidReport(m.factors)
                                            THEN REWARD_VALID_RESULT
                                            ELSE -PENALTY_INVALID_RESULT)
        BY ReputationStep
    <2>3. CASE m.from = p
        <3>1. score' = [score EXCEPT ![p] = @ + REWARD_VALID_RESULT]
            BY <2>2, <2>3, OwnAnswersPass DEF Judge
        <3> QED BY <2>1, <3>1 DEF REWARD_VALID_RESULT
    <2>4. CASE m.from # p
        BY <2>1, <2>2, <2>4 DEF Judge
    <2> QED BY <2>3, <2>4
<1> QED BY <1>1, TypeCorrect, PTL DEF Spec, OwnAnswersCostNothing

\* Inductive: the listener bans nobody whose report it is about to store.
StoringForTheFree == pc[Listener] = "store" => answering.from \notin blacklist

LEMMA StoringForTheFreeStep ==
    ASSUME TypeOK, StoringForTheFree, [Next]_vars
    PROVE  StoringForTheFree'
<1>1. pc \in [Threads -> AllLabels] /\ Listener \in Threads
    BY ThreadsDistinct DEF TypeOK
<1>2. ASSUME NEW m \in net, HandleResult(m) PROVE StoringForTheFree'
    <2>1. pc[Listener] = "idle"
        BY <1>2 DEF HandleResult
    <2>2. CASE pc' = pc
        BY <2>1, <2>2 DEF StoringForTheFree
    <2>3. CASE pc' # pc
        <3>1. m.from \notin blacklist /\ answering'.from = m.from
              /\ Judge(m.from, REWARD_VALID_RESULT)
            BY <1>2, <2>3 DEF HandleResult
        <3> QED BY <3>1 DEF Judge, REWARD_VALID_RESULT, StoringForTheFree
    <2> QED BY <2>2, <2>3
<1>3. ASSUME pc'[Listener] = "store" => pc[Listener] = "store" /\ UNCHANGED answering,
             UNCHANGED blacklist
      PROVE  StoringForTheFree'
    BY <1>3 DEF StoringForTheFree
<1>4. CASE \E t \in Threads : AggregateStep(t)
    <2>1. Home(Listener) # "store"
        BY DEF Home, Listener, Initiator
    <2> QED BY <1>1, <1>3, <1>4, <2>1 DEF AggregateStep, LookupTask, Collect, Publish,
               Record, LookupEvent, SetEvent
<1>5. CASE InitiatorStep
    BY <1>1, <1>3, <1>5, ThreadsDistinct, PlanLength DEF InitiatorStep, AssignSubtask,
       AllAssigned, CheckDeadline, WaitReturns, AnswerFromFinal, AnswerFromResults,
       PopEvent, PopValue, PopTask, TypeOK, Listener
<1>6. CASE \E i \in Pool : PoolStep(i)
    BY <1>1, <1>3, <1>6, ThreadsDistinct DEF PoolStep, StartLocal, ExecuteLocal, StoreLocal
<1>7. CASE NetworkStep \/ DeadlinePasses \/ UNCHANGED vars
    BY <1>3, <1>7 DEF NetworkStep, PeerExecute, Invent, RegisterKey, DeadlinePasses, vars
<1>8. CASE StoreRemote
    BY <1>1, <1>3, <1>8 DEF StoreRemote
<1> QED BY <1>2, <1>4, <1>5, <1>6, <1>7, <1>8 DEF Next, NetworkStep

\* What the steps other than a report's do to the results of a peer.
LEMMA ResultsOfBanned ==
    ASSUME TypeOK, StoringForTheFree, [Next]_vars, NEW p \in blacklist, NEW i \in Subtasks
    PROVE  results'[i][p] = results[i][p]
<1>1. /\ p \in Peers /\ p # Self /\ p \in Workers
      /\ results \in [Subtasks -> [Workers -> SUBSET Divisors(N)]]
    BY FactorTaskAssumption DEF TypeOK, Workers
<1>2. ASSUME NEW j \in Pool, StoreLocal(j) PROVE results'[i][p] = results[i][p]
    BY <1>1, <1>2 DEF StoreLocal, Pool
<1>3. CASE StoreRemote
    BY <1>1, <1>3 DEF StoreRemote, StoringForTheFree, TypeOK
<1>4. CASE ~StoreRemote /\ ~\E j \in Pool : StoreLocal(j)
    <2>1. UNCHANGED results
        BY <1>4 DEF Next, vars, InitiatorStep, AssignSubtask, AllAssigned, CheckDeadline,
           WaitReturns, AnswerFromFinal, AnswerFromResults, PopEvent, PopValue, PopTask,
           AggregateStep, LookupTask, Collect, Publish, Record, LookupEvent, SetEvent, PoolStep,
           StartLocal, ExecuteLocal, PeerExecute, Invent, RegisterKey, HandleResult,
           DeadlinePasses
    <2> QED BY <2>1
<1> QED BY <1>2, <1>3, <1>4

\* A banned peer's late reports change nothing, and the ban is kept.
THEOREM BanIsFinal == Spec => BannedForGood
<1>1. Init => StoringForTheFree
    BY ThreadsDistinct DEF Init, StoringForTheFree
<1>2. TypeOK /\ StoringForTheFree /\ [Next]_vars =>
          [/\ blacklist \subseteq blacklist'
           /\ \A p \in blacklist : /\ score'[p] = score[p]
                                   /\ \A i \in Subtasks : results'[i][p] = results[i][p]]_vars
    <2> SUFFICES ASSUME TypeOK, StoringForTheFree, [Next]_vars
                 PROVE  /\ blacklist \subseteq blacklist'
                        /\ \A p \in blacklist :
                               /\ score'[p] = score[p]
                               /\ \A i \in Subtasks : results'[i][p] = results[i][p]
        OBVIOUS
    <2>1. blacklist \subseteq blacklist' /\ \A p \in blacklist : score'[p] = score[p]
        <3>1. CASE UNCHANGED repVars
            BY <3>1
        <3>2. CASE ~UNCHANGED repVars
            BY <3>2, ReputationStep DEF Judge, TypeOK
        <3> QED BY <3>1, <3>2
    <2> QED BY <2>1, ResultsOfBanned
<1>3. TypeOK /\ StoringForTheFree /\ [Next]_vars => StoringForTheFree'
    BY StoringForTheFreeStep
<1> QED BY <1>1, <1>2, <1>3, TypeCorrect, PTL DEF Spec, BannedForGood

-----------------------------------------------------------------------------
(* Cleaning up.                                                            *)

\* Inductive: the call returns after it took the task off the table.
GoneAtReturn == pc[Initiator] = "done" => ~active

LEMMA GoneAtReturnStep ==
    ASSUME TypeOK, GoneAtReturn, [Next]_vars
    PROVE  GoneAtReturn'
<1>1. pc \in [Threads -> AllLabels]
    BY DEF TypeOK
<1>2. CASE InitiatorStep
    BY <1>1, <1>2, ThreadsDistinct, PlanLength DEF InitiatorStep, AssignSubtask, AllAssigned,
       CheckDeadline, WaitReturns, AnswerFromFinal, AnswerFromResults, PopEvent, PopValue,
       PopTask, GoneAtReturn, TypeOK, Initiator
<1>3. CASE \E t \in Threads : AggregateStep(t)
    BY <1>1, <1>3, ThreadsDistinct DEF AggregateStep, LookupTask, Collect, Publish, Record,
       LookupEvent, SetEvent, GoneAtReturn, Home, Initiator
<1>4. CASE \E i \in Pool : PoolStep(i)
    BY <1>1, <1>4, ThreadsDistinct DEF PoolStep, StartLocal, ExecuteLocal, StoreLocal,
       GoneAtReturn
<1>5. CASE (\E m \in net : HandleResult(m)) \/ StoreRemote
    BY <1>1, <1>5, ThreadsDistinct DEF HandleResult, StoreRemote, GoneAtReturn
<1>6. CASE NetworkStep \/ DeadlinePasses \/ UNCHANGED vars
    BY <1>6 DEF NetworkStep, PeerExecute, Invent, RegisterKey, DeadlinePasses, vars, GoneAtReturn
<1> QED BY <1>2, <1>3, <1>4, <1>5, <1>6 DEF Next, NetworkStep

\* After the return the threads that found the task finish what they are at,
\* and no other thread begins: late answers do not resurrect the task.
THEOREM ReturnedForGood == Spec => ReturnIsFinal
<1>1. Init => GoneAtReturn
    BY ThreadsDistinct DEF Init, GoneAtReturn
<1>2. TypeOK /\ GoneAtReturn /\ [Next]_vars => GoneAtReturn'
    BY GoneAtReturnStep
<1>3. TypeOK /\ GoneAtReturn /\ [Next]_vars =>
          [pc[Initiator] = "done" =>
               /\ Late' \subseteq Late
               /\ UNCHANGED <<active, hasEvent, ret>>
               /\ Late = {} => UNCHANGED <<final, event, hasValue>>]_vars
    <2> SUFFICES ASSUME TypeOK, GoneAtReturn, Next, pc[Initiator] = "done"
                 PROVE  /\ Late' \subseteq Late
                        /\ UNCHANGED <<active, hasEvent, ret>>
                        /\ Late = {} => UNCHANGED <<final, event, hasValue>>
        BY DEF vars
    <2>1. pc \in [Threads -> AllLabels] /\ active = FALSE
        BY DEF GoneAtReturn, TypeOK
    <2>2. ASSUME UNCHANGED <<pc, active, hasEvent, ret, final, event, hasValue>>
          PROVE  /\ Late' \subseteq Late
                 /\ UNCHANGED <<active, hasEvent, ret>>
                 /\ Late = {} => UNCHANGED <<final, event, hasValue>>
        BY <2>2 DEF Late
    <2>3. ~InitiatorStep
        BY DEF InitiatorStep, AssignSubtask, AllAssigned, CheckDeadline, WaitReturns,
           AnswerFromFinal, AnswerFromResults, PopEvent, PopValue, PopTask
    <2>4. ASSUME NEW t \in Threads, AggregateStep(t)
          PROVE  /\ Late' \subseteq Late
                 /\ UNCHANGED <<active, hasEvent, ret>>
                 /\ Late = {} => UNCHANGED <<final, event, hasValue>>
        <3>1. CASE LookupTask(t)
            BY <2>1, <2>4, <3>1 DEF LookupTask, Late, Home
        <3>2. CASE Collect(t) \/ Publish(t) \/ Record(t) \/ LookupEvent(t) \/ SetEvent(t)
            <4>1. t \in Late /\ \A u \in Threads \ {t} : pc'[u] = pc[u]
                BY <2>1, <3>2 DEF Collect, Publish, Record, LookupEvent, SetEvent, Late
            <4>2. UNCHANGED <<active, hasEvent, ret>>
                BY <3>2 DEF Collect, Publish, Record, LookupEvent, SetEvent
            <4> QED BY <4>1, <4>2 DEF Late
        <3> QED BY <2>4, <3>1, <3>2 DEF AggregateStep
    <2>5. ASSUME NEW i \in Pool, PoolStep(i)
          PROVE  /\ Late' \subseteq Late
                 /\ UNCHANGED <<active, hasEvent, ret, final, event, hasValue>>
        BY <2>1, <2>5 DEF PoolStep, StartLocal, ExecuteLocal, StoreLocal, Late
    <2>6. ASSUME NEW m \in net, HandleResult(m)
          PROVE  /\ Late' \subseteq Late
                 /\ UNCHANGED <<active, hasEvent, ret, final, event, hasValue>>
        BY <2>1, <2>6 DEF HandleResult, Late
    <2>7. CASE StoreRemote
        BY <2>1, <2>7 DEF StoreRemote, Late
    <2>8. CASE NetworkStep \/ DeadlinePasses
        BY <2>2, <2>8 DEF NetworkStep, PeerExecute, Invent, RegisterKey, DeadlinePasses
    <2> QED BY <2>3, <2>4, <2>5, <2>6, <2>7, <2>8 DEF Next, NetworkStep
<1> QED BY <1>1, <1>2, <1>3, TypeCorrect, PTL DEF Spec, ReturnIsFinal

-----------------------------------------------------------------------------
(* The answer.                                                             *)

\* However it was come by, an answer makes N.
LEMMA AnswersAreRight ==
    ASSUME NEW s \in Answers
    PROVE  s \in Seq(Factors) /\ Product[s] = N /\ Ascending(s)
<1>1. N \in Factors /\ N \in Positive /\ N \in Nat
    BY FactorTaskAssumption DEF Factors, Positive
<1>2. CASE s \in FullFactorization(N)
    <2>1. s \in Seq(Roughs) /\ Product[s] = N /\ Ascending(s)
        BY <1>1, <1>2, FactoringAssumption, FullFactorizationProperties
    <2>2. Roughs \subseteq Factors
        BY DEF Roughs
    <2> QED BY <2>1, <2>2, SeqMonotonic
<1>3. ASSUME NEW S \in SUBSET Divisors(N), s \in BuildComplete(N, S)
      PROVE  s \in Seq(Factors) /\ Product[s] = N /\ Ascending(s)
    <2>1. S \in SUBSET Factors /\ S \subseteq 2..N
        BY <1>1 DEF Divisors, Factors
    <2>2. IsFiniteSet(S)
        <3>1. IsFiniteSet(2..N)
            BY <1>1, FS_Interval
        <3> QED BY <2>1, <3>1, FS_Subset
    <2> QED BY <1>1, <1>3, <2>1, <2>2, FactoringAssumption, BuildCompleteProperties
<1> QED BY <1>2, <1>3, AnswerMember

Answering == {"pop event", "pop value", "pop task", "done"}

\* Inductive: the call leaves its aggregation with an answer, not with the
\* empty list it started from.
Answered == pc[Initiator] \in Answering => ret \in Answers

\* The call is answered in one step, with an answer, and not again.
LEMMA AnsweredOnce ==
    ASSUME TypeOK, [Next]_vars
    PROVE  \/ /\ pc[Initiator] \notin Answering
              /\ pc'[Initiator] \in Answering /\ ret' \in Answers
           \/ /\ pc'[Initiator] \in Answering <=> pc[Initiator] \in Answering
              /\ UNCHANGED ret
<1>1. pc \in [Threads -> AllLabels] /\ Initiator \in Threads
    BY ThreadsDistinct DEF TypeOK
<1>2. CASE InitiatorStep
    <2>1. CASE AnswerFromFinal
        <3>1. final # <<>> => final \in Answers
            BY DEF TypeOK
        <3> QED BY <1>1, <2>1, <3>1 DEF AnswerFromFinal, Answering
    <2>2. CASE AnswerFromResults
        <3>1. ret' \in FullFactorization(N) \/ ret' \in BuildComplete(N, ReportedFactors)
            BY <2>2 DEF AnswerFromResults
        <3>2. ret' \in Answers
            BY <3>1, ReportedAreDivisors, AnswerMember
        <3> QED BY <1>1, <2>2, <3>2 DEF AnswerFromResults, Answering
    <2>3. CASE AssignSubtask
        <3>1. pc'[Initiator] = "assign"
            BY <2>3, <1>1, PlanLength DEF AssignSubtask, TypeOK, Initiator
        <3> QED BY <2>3, <3>1 DEF AssignSubtask, Answering
    <2>4. CASE ~AnswerFromFinal /\ ~AnswerFromResults /\ ~AssignSubtask
        BY <1>1, <1>2, <2>4 DEF InitiatorStep, AllAssigned, CheckDeadline, WaitReturns,
           PopEvent, PopValue, PopTask, Answering
    <2> QED BY <2>1, <2>2, <2>3, <2>4
<1>3. ASSUME NEW t \in Threads, AggregateStep(t)
      PROVE  (pc'[Initiator] \in Answering <=> pc[Initiator] \in Answering) /\ UNCHANGED ret
    BY <1>1, <1>3 DEF AggregateStep, LookupTask, Collect, Publish, Record, LookupEvent, SetEvent, Home,
       Answering
<1>4. ASSUME NEW i \in Pool, PoolStep(i) PROVE UNCHANGED <<pc[Initiator], ret>>
    BY <1>1, <1>4, ThreadsDistinct DEF PoolStep, StartLocal, ExecuteLocal, StoreLocal
<1>5. CASE (\E m \in net : HandleResult(m)) \/ StoreRemote
    BY <1>1, <1>5, ThreadsDistinct DEF HandleResult, StoreRemote
<1>6. CASE NetworkStep \/ DeadlinePasses \/ UNCHANGED vars
    BY <1>6 DEF NetworkStep, PeerExecute, Invent, RegisterKey, DeadlinePasses, vars
<1> QED BY <1>2, <1>3, <1>4, <1>5, <1>6 DEF Next, NetworkStep

LEMMA AlwaysAnswered == Spec => []Answered
<1>1. Init => Answered
    BY ThreadsDistinct DEF Init, Answered, Answering
<1>2. TypeOK /\ Answered /\ [Next]_vars => Answered'
    BY AnsweredOnce DEF Answered
<1> QED BY <1>1, <1>2, TypeCorrect, PTL DEF Spec

\* agent.py:680-713 and 715-735: whatever was lost, repeated, overtaken or
\* invented, the factors that are published and the factors that are returned
\* multiply to N, and all of them are greater than one.
THEOREM AnswersAlwaysMultiply == Spec => []AnswersMultiplyToN
<1>1. TypeOK /\ Answered => AnswersMultiplyToN
    <2> SUFFICES ASSUME TypeOK, Answered PROVE AnswersMultiplyToN
        OBVIOUS
    <2>1. ASSUME NEW s \in Answers PROVE Product[s] = N /\ \A k \in DOMAIN s : s[k] > 1
        <3>1. s \in Seq(Factors) /\ Product[s] = N
            BY AnswersAreRight
        <3>2. \A k \in DOMAIN s : s[k] > 1
            BY <3>1 DEF Factors
        <3> QED BY <3>1, <3>2
    <2>2. final # <<>> => final \in Answers
        BY DEF TypeOK
    <2> QED BY <2>1, <2>2 DEF AnswersMultiplyToN, Answered, Answering
<1> QED BY <1>1, AlwaysAnswered, TypeCorrect, PTL

-----------------------------------------------------------------------------
(* What the caller relies on.                                              *)

LEMMA SameNotions ==
    /\ \A n : Service!Divisors(n) = Divisors(n)
    /\ \A s : Service!Ascending(s) <=> Ascending(s)
BY DEF Service!Divisors, Divisors, Service!Ascending, Ascending

\* s begins with a divisor of n and goes on with a list for its cofactor.
Led(n, lists, s) == \E d \in Divisors(n) : \E t \in lists[n \div d] : s = <<d>> \o t

LEMMA LedByDivisorMember ==
    ASSUME NEW n, NEW lists, NEW s
    PROVE  s \in Service!LedByDivisor(n, lists) <=> Led(n, lists, s)
<1> DEFINE cons(d, t) == <<d>> \o t
           led(d) == {cons(d, t) : t \in lists[n \div d]}
<1>1. \A d : s \in led(d) <=> \E t \in lists[n \div d] : s = cons(d, t)
    <2> HIDE DEF cons
    <2> QED OBVIOUS
<1>2. Service!LedByDivisor(n, lists) = UNION {led(d) : d \in Divisors(n)}
    BY SameNotions DEF Service!LedByDivisor
<1> HIDE DEF led, cons
<1>3. s \in Service!LedByDivisor(n, lists) <=> \E d \in Divisors(n) : s \in led(d)
    BY <1>2
<1>4. s \in Service!LedByDivisor(n, lists) <=>
          \E d \in Divisors(n) : \E t \in lists[n \div d] : s = cons(d, t)
    BY <1>1, <1>3
<1> QED BY <1>4 DEF cons, Led

LEMMA LedByDivisorSame ==
    ASSUME NEW n, NEW f, NEW k, \A d \in Divisors(n) : f[n \div d] = k[n \div d]
    PROVE  Service!LedByDivisor(n, f) = Service!LedByDivisor(n, k)
<1>1. \A s : Led(n, f, s) <=> Led(n, k, s)
    BY DEF Led
<1>2. \A s : s \in Service!LedByDivisor(n, f) <=> s \in Service!LedByDivisor(n, k)
    BY <1>1, LedByDivisorMember
<1> QED BY <1>2

\* The cofactor of a divisor is smaller.
LEMMA CofactorShrinks ==
    ASSUME NEW n \in Positive, NEW d \in Divisors(n)
    PROVE  d \in Factors /\ n \div d \in Positive /\ n \div d < n
<1>1. d \in Factors /\ n % d = 0
    BY DEF Divisors, Factors, Positive
<1> QED BY <1>1, DivisionShrinks

LEMMA FactorizationsStep ==
    \A n \in Positive :
        Service!Factorizations[n] =
            IF n = 1 THEN {<<>>}
            ELSE {s \in Service!LedByDivisor(n, Service!Factorizations) : Service!Ascending(s)}
<1> DEFINE D == Nat \ {0}
           V == SUBSET Seq(Nat)
           m == [x \in D |-> x]
           step(x, g) ==
               IF x = 1 THEN {<<>>} ELSE {s \in Service!LedByDivisor(x, g) : Service!Ascending(s)}
           F == [g \in [D -> V] |-> [x \in D |-> step(x, g)]]
<1>1. \A x \in D : \A d \in Divisors(x) : d \in Nat /\ x \div d \in D /\ x \div d < x
    BY CofactorShrinks DEF Positive, Factors
<1>2. ASSUME NEW g \in [D -> V], NEW x \in D PROVE step(x, g) \in V
    <2>1. ASSUME NEW s \in Service!LedByDivisor(x, g) PROVE s \in Seq(Nat)
        <3>1. PICK d \in Divisors(x) : \E t \in g[x \div d] : s = <<d>> \o t
            BY LedByDivisorMember DEF Led
        <3>2. PICK t \in g[x \div d] : s = <<d>> \o t
            BY <3>1
        <3>3. d \in Nat /\ g[x \div d] \in V
            BY <1>1
        <3>4. t \in Seq(Nat)
            BY <3>3
        <3> QED BY <3>2, <3>3, <3>4, ConsProperties
    <2>2. <<>> \in Seq(Nat)
        OBVIOUS
    <2> QED BY <2>1, <2>2
<1>3. ASSUME NEW g \in [D -> V], NEW h \in [D -> V], NEW x \in D,
             \A y \in D : m[y] < m[x] => g[y] = h[y]
      PROVE  step(x, g) = step(x, h)
    <2>1. \A d \in Divisors(x) : g[x \div d] = h[x \div d]
        BY <1>1, <1>3
    <2>2. Service!LedByDivisor(x, g) = Service!LedByDivisor(x, h)
        BY <2>1, LedByDivisorSame
    <2> QED BY <2>2
<1>4. PICK g \in [D -> V] : g = F[g]
    <2> HIDE DEF step
    <2>1. F \in [[D -> V] -> [D -> V]]
        BY <1>2
    <2>2. \A g, h \in [D -> V] : \A x \in D :
              (\A y \in D : m[y] < m[x] => g[y] = h[y]) => F[g][x] = F[h][x]
        BY <1>3
    <2>3. m \in [D -> Nat] /\ V # {}
        OBVIOUS
    <2> HIDE DEF F, D, V, m
    <2>4. Recursive(F, D, V, m)
        BY <2>1, <2>2, <2>3 DEF Recursive
    <2> QED BY <2>4, RecursionExists
<1>5. g = [x \in Nat \ {0} |->
               IF x = 1 THEN {<<>>} ELSE {s \in Service!LedByDivisor(x, g) : Service!Ascending(s)}]
    BY <1>4
<1>6. Service!Factorizations =
          [x \in Nat \ {0} |->
               IF x = 1 THEN {<<>>}
               ELSE {s \in Service!LedByDivisor(x, Service!Factorizations) : Service!Ascending(s)}]
    BY <1>5 DEF Service!Factorizations
<1> QED BY <1>6 DEF Positive

\* No ascending list of factors is missing from the promise.
LEMMA EveryFactorization ==
    ASSUME NEW a \in Seq(Factors), Ascending(a)
    PROVE  Product[a] \in Positive /\ a \in Service!Factorizations[Product[a]]
<1> DEFINE T == {s \in Seq(Factors) :
                    /\ Product[s] \in Positive
                    /\ Ascending(s) => s \in Service!Factorizations[Product[s]]}
<1>1. <<>> \in T
    <2>1. Product[<<>>] = 1 /\ 1 \in Positive /\ <<>> \in Seq(Factors)
        BY EmptyProduct DEF Positive
    <2>2. Service!Factorizations[1] = {<<>>}
        BY <2>1, FactorizationsStep
    <2> QED BY <2>1, <2>2
<1>2. ASSUME NEW s \in Seq(Factors), s # <<>>, Tail(s) \in T PROVE s \in T
    <2> DEFINE h == Head(s)
               r == Tail(s)
    <2>1. /\ h \in Factors /\ r \in Seq(Factors) /\ s = <<h>> \o r
          /\ Product[r] \in Positive
          /\ Ascending(r) => r \in Service!Factorizations[Product[r]]
        BY <1>2, ConsOfHeadTail
    <2> HIDE DEF h, r, T
    <2>2. h \in Nat /\ h \in Positive /\ r \in Seq(Nat)
        <3>1. Factors \subseteq Nat
            BY DEF Factors
        <3> QED BY <2>1, <3>1, SeqMonotonic DEF Factors, Positive
    <2>3. Product[s] = h * Product[r]
        BY <2>1, <2>2, ProductOfCons
    <2> DEFINE p == Product[r]
               n == Product[s]
    <2>4. p \in Nat /\ p >= 1 /\ h >= 2 /\ n = h * p
        BY <2>1, <2>2, <2>3 DEF Positive, Factors
    <2> HIDE DEF p, n
    <2>5. n \in Positive /\ n # 1 /\ n >= h /\ n % h = 0
        <3>1. h * p >= h
            BY <2>2, <2>4
        <3> QED BY <2>2, <2>4, <3>1, MultipleDivides DEF Positive
    <2>6. h \in Divisors(n) /\ n \div h = p
        <3>1. h \in Divisors(n)
            BY <2>2, <2>4, <2>5 DEF Divisors, Positive
        <3>2. h * (n \div h) = n /\ n \div h \in Nat
            BY <2>1, <2>5, DivisionShrinks DEF Positive
        <3>3. n \div h = p
            <4> DEFINE q == n \div h
            <4>1. q \in Nat /\ h * q = h * p
                BY <2>4, <3>2
            <4> HIDE DEF q
            <4>2. q = p
                BY <2>2, <2>4, <4>1, Cancellation
            <4> QED BY <4>2 DEF q
        <3> QED BY <3>1, <3>3
    <2>7. ASSUME Ascending(s) PROVE s \in Service!Factorizations[n]
        <3>1. Ascending(r)
            BY <2>1, <2>2, <2>7, AscendingCons
        <3>2. r \in Service!Factorizations[n \div h]
            BY <2>1, <2>6, <3>1 DEF p
        <3>3. s \in Service!LedByDivisor(n, Service!Factorizations)
            BY <2>1, <2>6, <3>2, LedByDivisorMember DEF Led
        <3> QED BY <2>5, <2>7, <3>3, FactorizationsStep, SameNotions
    <2> QED BY <2>5, <2>7 DEF T, n
<1> HIDE DEF T
<1>3. Seq(Factors) \subseteq T
    BY <1>1, <1>2, ListInduction
<1> QED BY <1>3 DEF T

\* initiate_factorization does what its caller relies on, apart from that it
\* returns at all: its first states are those of the service, and each of its
\* steps answers the call with an ascending factorization of N, for the first
\* time, or does not touch the answer.
THEOREM StepsImplementService == Spec => Service!Init /\ [][Service!Next]_(Service!vars)
<1>1. Init => Service!Init
    BY ThreadsDistinct DEF Init, Service!Init
<1>2. TypeOK /\ [Next]_vars => [Service!Next]_(Service!vars)
    <2> SUFFICES ASSUME TypeOK, [Next]_vars PROVE [Service!Next]_(Service!vars)
        OBVIOUS
    <2>1. ASSUME pc[Initiator] \notin Answering, pc'[Initiator] \in Answering, ret' \in Answers
          PROVE  Service!Next
        <3>1. ret' \in Seq(Factors) /\ Product[ret'] = N /\ Ascending(ret')
            BY <2>1, AnswersAreRight
        <3>2. ret' \in Service!Factorizations[N]
            BY <3>1, EveryFactorization
        <3> QED BY <2>1, <3>2 DEF Service!Next, Service!Answer, Answering
    <2>2. ASSUME pc'[Initiator] \in Answering <=> pc[Initiator] \in Answering, UNCHANGED ret
          PROVE  UNCHANGED Service!vars
        <3>1. CASE pc[Initiator] \in Answering
            <4>1. (pc[Initiator] \in Answering) = TRUE
                BY <3>1
            <4>2. (pc'[Initiator] \in Answering) = TRUE
                BY <2>2, <3>1
            <4> QED BY <2>2, <4>1, <4>2 DEF Service!vars, Answering
        <3>2. CASE pc[Initiator] \notin Answering
            <4>1. (pc[Initiator] \in Answering) = FALSE
                BY <3>2
            <4>2. (pc'[Initiator] \in Answering) = FALSE
                BY <2>2, <3>2
            <4> QED BY <2>2, <4>1, <4>2 DEF Service!vars, Answering
        <3> QED BY <3>1, <3>2
    <2> QED BY <2>1, <2>2, AnsweredOnce
<1> QED BY <1>1, <1>2, TypeCorrect, PTL DEF Spec
=============================================================================
