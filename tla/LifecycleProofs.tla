-------------------------- MODULE LifecycleProofs --------------------------
(***************************************************************************)
(* Theorems about Lifecycle, for any datagrams, calls, subtasks and any    *)
(* size of the executor.                                                   *)
(***************************************************************************)
EXTENDS Lifecycle, SequenceTheorems, TLAPS

USE DEF flags, work

-----------------------------------------------------------------------------
(* What appending and taking the head do to the elements of a sequence.    *)

LEMMA RangeOfAppend ==
    ASSUME NEW S, NEW s \in Seq(S), NEW e \in S
    PROVE  Range(Append(s, e)) = Range(s) \cup {e}
<1> DEFINE a == Append(s, e)
<1>1. /\ Len(a) = Len(s) + 1 /\ DOMAIN a = 1..(Len(s) + 1)
      /\ \A i \in 1..Len(s) : a[i] = s[i]
      /\ a[Len(s) + 1] = e
    OBVIOUS
<1>2. DOMAIN s = 1..Len(s) /\ Len(s) \in Nat
    OBVIOUS
<1>3. ASSUME NEW x \in Range(a) PROVE x \in Range(s) \cup {e}
    <2>1. PICK i \in 1..(Len(s) + 1) : a[i] = x
        BY <1>1, <1>3 DEF Range
    <2>2. CASE i = Len(s) + 1
        BY <1>1, <2>1, <2>2
    <2>3. CASE i \in 1..Len(s)
        BY <1>1, <1>2, <2>1, <2>3 DEF Range
    <2> QED BY <1>2, <2>2, <2>3
<1>4. ASSUME NEW x \in Range(s) PROVE x \in Range(a)
    <2>1. PICK i \in 1..Len(s) : s[i] = x
        BY <1>2, <1>4 DEF Range
    <2>2. i \in DOMAIN a /\ a[i] = x
        BY <1>1, <1>2, <2>1
    <2> QED BY <2>2 DEF Range
<1>5. e \in Range(a)
    <2>1. Len(s) + 1 \in DOMAIN a /\ a[Len(s) + 1] = e
        BY <1>1, <1>2
    <2> QED BY <2>1 DEF Range
<1> QED BY <1>3, <1>4, <1>5

LEMMA AppendKeepsDistinct ==
    ASSUME NEW S, NEW s \in Seq(S), NEW e \in S, IsInjective(s), e \notin Range(s)
    PROVE  IsInjective(Append(s, e))
<1> DEFINE longer == Append(s, e)
<1>1. /\ DOMAIN longer = 1..(Len(s) + 1) /\ Len(s) \in Nat /\ DOMAIN s = 1..Len(s)
      /\ \A i \in 1..Len(s) : longer[i] = s[i]
      /\ longer[Len(s) + 1] = e
    OBVIOUS
<1>2. \A i \in 1..Len(s) : s[i] # e
    BY <1>1 DEF Range
<1>3. \A i, k \in 1..Len(s) : s[i] = s[k] => i = k
    BY <1>1 DEF IsInjective
<1>4. ASSUME NEW i \in 1..(Len(s) + 1), NEW k \in 1..(Len(s) + 1), longer[i] = longer[k]
      PROVE  i = k
    BY <1>1, <1>2, <1>3, <1>4
<1> QED BY <1>1, <1>4 DEF IsInjective

\* The head leaves; in a sequence without repetitions nothing else does.
LEMMA HeadAndTail ==
    ASSUME NEW S, NEW s \in Seq(S), s # <<>>, IsInjective(s)
    PROVE  /\ Head(s) \in S /\ Tail(s) \in Seq(S)
           /\ Range(s) = Range(Tail(s)) \cup {Head(s)}
           /\ Head(s) \notin Range(Tail(s))
           /\ IsInjective(Tail(s))
<1> DEFINE t == Tail(s)
<1>1. /\ Head(s) \in S /\ t \in Seq(S) /\ Len(t) = Len(s) - 1
      /\ \A i \in 1..Len(t) : t[i] = s[i + 1]
    BY HeadTailProperties
<1>2. /\ Len(s) \in Nat \ {0} /\ DOMAIN s = 1..Len(s) /\ DOMAIN t = 1..Len(t)
      /\ Head(s) = s[1]
    BY <1>1, EmptySeq, LenProperties
<1>3. \A i, k \in 1..Len(s) : s[i] = s[k] => i = k
    BY <1>2 DEF IsInjective
<1>4. ASSUME NEW x \in Range(s) PROVE x \in Range(t) \cup {Head(s)}
    <2>1. PICK i \in 1..Len(s) : s[i] = x
        BY <1>2, <1>4 DEF Range
    <2>2. CASE i = 1
        BY <1>2, <2>1, <2>2
    <2>3. CASE i # 1
        <3>1. i - 1 \in 1..Len(t) /\ t[i - 1] = x
            BY <1>1, <1>2, <2>1, <2>3
        <3> QED BY <1>2, <3>1 DEF Range
    <2> QED BY <2>2, <2>3
<1>5. ASSUME NEW x \in Range(t) PROVE x \in Range(s) /\ x # Head(s)
    <2>1. PICK i \in 1..Len(t) : t[i] = x
        BY <1>2, <1>5 DEF Range
    <2>2. i + 1 \in 1..Len(s) /\ s[i + 1] = x /\ 1 \in 1..Len(s) /\ i + 1 # 1
        BY <1>1, <1>2, <2>1
    <2>3. x \in Range(s)
        BY <1>2, <2>2 DEF Range
    <2>4. x # Head(s)
        BY <1>2, <1>3, <2>2
    <2> QED BY <2>3, <2>4
<1>6. Head(s) \in Range(s)
    <2>1. 1 \in DOMAIN s
        BY <1>2
    <2> QED BY <1>2, <2>1 DEF Range
<1>7. IsInjective(t)
    <2>1. ASSUME NEW i \in 1..Len(t), NEW k \in 1..Len(t), t[i] = t[k] PROVE i = k
        <3>1. i + 1 \in 1..Len(s) /\ k + 1 \in 1..Len(s) /\ s[i + 1] = s[k + 1]
            BY <1>1, <1>2, <2>1
        <3>2. i + 1 = k + 1
            BY <1>3, <3>1
        <3> QED BY <3>2, <1>1, <1>2
    <2> QED BY <1>2, <2>1 DEF IsInjective
<1> QED BY <1>1, <1>4, <1>5, <1>6, <1>7

LEMMA NothingInEmpty == Range(<<>>) = {} /\ IsInjective(<<>>)
BY DEF Range, IsInjective

-----------------------------------------------------------------------------
(* Types.                                                                  *)

LEMMA SendType == sent \in {0, 1} /\ (Send \/ UNCHANGED sent) => sent' \in {0, 1}
BY DEF Send

LEMMA WorkKept ==
    ASSUME WorkTypeOK, UNCHANGED <<call, net, inbox, work, handed, todo, rounds>>,
           sent' \in {0, 1}
    PROVE  WorkTypeOK'
BY DEF WorkTypeOK

\* A call that is handing out a subtask has begun with one.
Begun == \A c \in Callers : todo[c] # {} => handed[c] # 0

LEMMA InitType == Init => TypeOK /\ Begun
<1> SUFFICES ASSUME Init PROVE TypeOK /\ Begun
    OBVIOUS
<1>1. queue \in Seq(Assigns) /\ pending \in Seq(Jobs)
    BY EmptySeq DEF Init
<1>2. WorkTypeOK
    BY <1>1, LifecycleAssumption DEF Init, WorkTypeOK, CallLabels
<1>3. ThreadsTypeOK /\ PhasesOK
    BY DEF Init, ThreadsTypeOK, PhasesOK, OwnerLabels, ListenerLabels, ProcessorLabels,
           GossipLabels
<1>4. Begun
    BY DEF Init, Begun
<1> QED BY <1>2, <1>3, <1>4 DEF TypeOK

OwnerStep == StartStep \/ StopRunning \/ StopStep

LEMMA OwnerType == TypeOK /\ OwnerStep => TypeOK'
<1> SUFFICES ASSUME ThreadsTypeOK, PhasesOK, WorkTypeOK, OwnerStep PROVE ThreadsTypeOK' /\ PhasesOK' /\ WorkTypeOK'
    BY DEF TypeOK
<1> USE DEF OwnerStep, StartStep, StopStep
<1>1. sent' \in {0, 1}
    BY SendType DEF Bind, Run, Spawn, Greet, StopRunning, ShutDownExecutor, StopListening,
                    JoinListener, CloseSocket, JoinThreads, WorkTypeOK
<1>2. WorkTypeOK'
    <2>1. UNCHANGED <<call, net, inbox, work, handed, todo, rounds>>
        BY DEF Bind, Run, Spawn, Greet, StopRunning, ShutDownExecutor, StopListening,
               JoinListener, CloseSocket, JoinThreads
    <2> QED BY <1>1, <2>1, WorkKept
<1>3. ThreadsTypeOK'
    <2>1. CASE Bind              BY <2>1 DEF Bind, ThreadsTypeOK, OwnerLabels, ListenerLabels
    <2>2. CASE Run               BY <2>2 DEF Run, ThreadsTypeOK, OwnerLabels
    <2>3. CASE Spawn             BY <2>3 DEF Spawn, ThreadsTypeOK, OwnerLabels, ProcessorLabels, GossipLabels
    <2>4. CASE Greet             BY <2>4 DEF Greet, ThreadsTypeOK, OwnerLabels
    <2>5. CASE StopRunning       BY <2>5 DEF StopRunning, ThreadsTypeOK, OwnerLabels
    <2>6. CASE ShutDownExecutor  BY <2>6 DEF ShutDownExecutor, ThreadsTypeOK, OwnerLabels
    <2>7. CASE StopListening     BY <2>7 DEF StopListening, ThreadsTypeOK, OwnerLabels
    <2>8. CASE JoinListener      BY <2>8 DEF JoinListener, ThreadsTypeOK, OwnerLabels
    <2>9. CASE CloseSocket       BY <2>9 DEF CloseSocket, ThreadsTypeOK, OwnerLabels
    <2>10. CASE JoinThreads      BY <2>10 DEF JoinThreads, ThreadsTypeOK, OwnerLabels
    <2> QED BY <2>1, <2>2, <2>3, <2>4, <2>5, <2>6, <2>7, <2>8, <2>9, <2>10
<1>4. PhasesOK'
    <2>1. CASE Bind              BY <2>1 DEF Bind, PhasesOK
    <2>2. CASE Run               BY <2>2 DEF Run, PhasesOK
    <2>3. CASE Spawn             BY <2>3 DEF Spawn, PhasesOK
    <2>4. CASE Greet             BY <2>4 DEF Greet, PhasesOK
    <2>5. CASE StopRunning       BY <2>5 DEF StopRunning, PhasesOK
    <2>6. CASE ShutDownExecutor  BY <2>6 DEF ShutDownExecutor, PhasesOK
    <2>7. CASE StopListening     BY <2>7 DEF StopListening, PhasesOK
    <2>8. CASE JoinListener      BY <2>8 DEF JoinListener, PhasesOK
    <2>9. CASE CloseSocket       BY <2>9 DEF CloseSocket, PhasesOK
    <2>10. CASE JoinThreads      BY <2>10 DEF JoinThreads, PhasesOK
    <2> QED BY <2>1, <2>2, <2>3, <2>4, <2>5, <2>6, <2>7, <2>8, <2>9, <2>10
<1> QED BY <1>2, <1>3, <1>4

LEMMA ListenerType == TypeOK /\ ListenerStep => TypeOK'
<1> SUFFICES ASSUME ThreadsTypeOK, PhasesOK, WorkTypeOK, ListenerStep PROVE ThreadsTypeOK' /\ PhasesOK' /\ WorkTypeOK'
    BY DEF TypeOK
<1>1. CASE ListenerCheck
    <2>1. ThreadsTypeOK'
        BY <1>1 DEF ListenerCheck, ThreadsTypeOK, ListenerLabels
    <2>2. PhasesOK'
        BY <1>1 DEF ListenerCheck, PhasesOK
    <2>3. WorkTypeOK'
        BY <1>1, WorkKept DEF ListenerCheck, WorkTypeOK
    <2> QED BY <2>1, <2>2, <2>3
<1>2. CASE ReceiveNothing
    <2>1. ThreadsTypeOK'
        BY <1>2 DEF ReceiveNothing, ThreadsTypeOK, ListenerLabels
    <2>2. PhasesOK'
        BY <1>2 DEF ReceiveNothing, PhasesOK
    <2>3. WorkTypeOK'
        BY <1>2, WorkKept DEF ReceiveNothing, WorkTypeOK
    <2> QED BY <2>1, <2>2, <2>3
<1>3. CASE HandleAssign
    <2>1. queue' \in Seq(Assigns)
        BY <1>3 DEF HandleAssign, WorkTypeOK
    <2>2. /\ listener = "handle" /\ listener' = "check" /\ inbox' = None
          /\ UNCHANGED <<running, shut, listening, sock, owner, processor, gossip, hand>>
        BY <1>3 DEF HandleAssign
    <2>3. ThreadsTypeOK'
        BY <2>2 DEF ThreadsTypeOK, ListenerLabels
    <2>6. PhasesOK'
        BY <2>2 DEF PhasesOK
    <2>4. WorkTypeOK'
        BY <1>3, <2>1 DEF HandleAssign, WorkTypeOK
    <2> QED BY <2>3, <2>4, <2>6
<1>4. CASE HandleHello
    <2>2. sent' \in {0, 1}
        BY <1>4, SendType DEF HandleHello, WorkTypeOK
    <2>3. ThreadsTypeOK'
        BY <1>4 DEF HandleHello, ThreadsTypeOK, ListenerLabels
    <2>6. PhasesOK'
        BY <1>4 DEF HandleHello, PhasesOK
    <2>4. WorkTypeOK'
        BY <1>4, <2>2 DEF HandleHello, WorkTypeOK
    <2> QED BY <2>3, <2>4, <2>6
<1>5. ASSUME NEW d \in net, Receive(d) PROVE ThreadsTypeOK' /\ PhasesOK' /\ WorkTypeOK'
    <2>1. d \in Assigns \cup Hellos /\ d # None
        BY LifecycleAssumption DEF WorkTypeOK
    <2>2. ThreadsTypeOK'
        BY <1>5, <2>1 DEF Receive, ThreadsTypeOK, ListenerLabels
    <2>6. PhasesOK'
        BY <1>5, <2>1 DEF Receive, PhasesOK
    <2>3. WorkTypeOK'
        BY <1>5, <2>1 DEF Receive, WorkTypeOK
    <2> QED BY <2>2, <2>3, <2>6
<1> QED BY <1>1, <1>2, <1>3, <1>4, <1>5 DEF ListenerStep

LEMMA ProcessorType == TypeOK /\ ProcessorStep => TypeOK'
<1> SUFFICES ASSUME ThreadsTypeOK, PhasesOK, WorkTypeOK, ProcessorStep PROVE ThreadsTypeOK' /\ PhasesOK' /\ WorkTypeOK'
    BY DEF TypeOK
<1>1. CASE ProcessorCheck
    <2>1. ThreadsTypeOK'
        BY <1>1 DEF ProcessorCheck, ThreadsTypeOK, ProcessorLabels
    <2>2. PhasesOK'
        BY <1>1 DEF ProcessorCheck, PhasesOK
    <2>3. WorkTypeOK'
        BY <1>1, WorkKept DEF ProcessorCheck, WorkTypeOK
    <2> QED BY <2>1, <2>2, <2>3
<1>2. CASE GetTimesOut
    <2>1. ThreadsTypeOK'
        BY <1>2 DEF GetTimesOut, ThreadsTypeOK, ProcessorLabels
    <2>2. PhasesOK'
        BY <1>2 DEF GetTimesOut, PhasesOK
    <2>3. WorkTypeOK'
        BY <1>2, WorkKept DEF GetTimesOut, WorkTypeOK
    <2> QED BY <2>1, <2>2, <2>3
<1>3. CASE GetTask
    <2>1. Head(queue) \in Assigns /\ Tail(queue) \in Seq(Assigns)
        BY <1>3, HeadTailProperties DEF GetTask, WorkTypeOK
    <2>2. /\ processor = "get" /\ processor' = "submit" /\ hand' # None
          /\ UNCHANGED <<running, shut, listening, sock, owner, listener, gossip, inbox>>
        BY <1>3, <2>1, LifecycleAssumption DEF GetTask
    <2>3. ThreadsTypeOK'
        BY <2>2 DEF ThreadsTypeOK, ProcessorLabels
    <2>6. PhasesOK'
        BY <2>2 DEF PhasesOK
    <2>4. WorkTypeOK'
        BY <1>3, <2>1 DEF GetTask, WorkTypeOK
    <2> QED BY <2>3, <2>4, <2>6
<1>4. CASE SubmitTask
    <2>1. hand \in Jobs
        BY <1>4 DEF SubmitTask, PhasesOK, WorkTypeOK, Jobs
    <2>2. pending' \in Seq(Jobs)
        BY <1>4, <2>1 DEF SubmitTask, WorkTypeOK
    <2>3. /\ processor = "submit" /\ processor' = "check" /\ hand' = None
          /\ UNCHANGED <<running, shut, listening, sock, owner, listener, gossip, inbox>>
        BY <1>4 DEF SubmitTask
    <2>4. ThreadsTypeOK'
        BY <2>3 DEF ThreadsTypeOK, ProcessorLabels
    <2>6. PhasesOK'
        BY <2>3 DEF PhasesOK
    <2>5. WorkTypeOK'
        BY <1>4, <2>2 DEF SubmitTask, WorkTypeOK
    <2> QED BY <2>4, <2>5, <2>6
<1>5. CASE SubmitRaises
    <2>1. ThreadsTypeOK'
        BY <1>5 DEF SubmitRaises, ThreadsTypeOK, ProcessorLabels
    <2>2. PhasesOK'
        BY <1>5 DEF SubmitRaises, PhasesOK
    <2>3. WorkTypeOK'
        BY <1>5, WorkKept DEF SubmitRaises, WorkTypeOK
    <2> QED BY <2>1, <2>2, <2>3
<1> QED BY <1>1, <1>2, <1>3, <1>4, <1>5 DEF ProcessorStep

LEMMA ExecutorType == TypeOK /\ ExecutorStep => TypeOK'
<1> SUFFICES ASSUME ThreadsTypeOK, PhasesOK, WorkTypeOK, ExecutorStep PROVE ThreadsTypeOK' /\ PhasesOK' /\ WorkTypeOK'
    BY DEF TypeOK
<1>1. ThreadsTypeOK' /\ PhasesOK'
    <2>1. UNCHANGED <<running, shut, listening, sock, owner, listener, processor, gossip,
                      inbox, hand>>
        BY DEF ExecutorStep, StartJob, FinishJob
    <2>2. ThreadsTypeOK'
        BY <2>1 DEF ThreadsTypeOK
    <2>3. PhasesOK'
        BY <2>1 DEF PhasesOK
    <2> QED BY <2>2, <2>3
<1>2. CASE StartJob
    <2>1. Head(pending) \in Jobs /\ Tail(pending) \in Seq(Jobs)
        BY <1>2, HeadTailProperties DEF StartJob, WorkTypeOK
    <2>2. WorkTypeOK'
        BY <1>2, <2>1 DEF StartJob, WorkTypeOK
    <2> QED BY <1>1, <2>2
<1>3. ASSUME NEW j \in executing, FinishJob(j) PROVE WorkTypeOK'
    <2>1. sent' \in {0, 1}
        BY <1>3, SendType DEF FinishJob, WorkTypeOK
    <2> QED BY <1>3, <2>1 DEF FinishJob, WorkTypeOK
<1> QED BY <1>1, <1>2, <1>3 DEF ExecutorStep

LEMMA GossipType == TypeOK /\ GossipStep => TypeOK'
<1> SUFFICES ASSUME ThreadsTypeOK, PhasesOK, WorkTypeOK, GossipStep PROVE ThreadsTypeOK' /\ PhasesOK' /\ WorkTypeOK'
    BY DEF TypeOK
<1>1. CASE GossipCheck
    <2>1. ThreadsTypeOK'
        BY <1>1 DEF GossipCheck, ThreadsTypeOK, GossipLabels
    <2>6. PhasesOK'
        BY <1>1 DEF GossipCheck, PhasesOK
    <2>2. WorkTypeOK'
        BY <1>1 DEF GossipCheck, WorkTypeOK
    <2> QED BY <2>1, <2>2, <2>6
<1>2. CASE GossipRound
    <2>2. sent' \in {0, 1}
        BY <1>2, SendType DEF GossipRound, WorkTypeOK
    <2>3. ThreadsTypeOK'
        BY <1>2 DEF GossipRound, ThreadsTypeOK, GossipLabels
    <2>6. PhasesOK'
        BY <1>2 DEF GossipRound, PhasesOK
    <2> QED BY <1>2, <2>2, <2>3, <2>6, WorkKept DEF GossipRound
<1>3. CASE GossipRaises
    <2>1. ThreadsTypeOK'
        BY <1>3 DEF GossipRaises, ThreadsTypeOK, GossipLabels
    <2>2. PhasesOK'
        BY <1>3 DEF GossipRaises, PhasesOK
    <2> QED BY <1>3, <2>1, <2>2, WorkKept DEF GossipRaises, WorkTypeOK
<1> QED BY <1>1, <1>2, <1>3 DEF GossipStep

\* The subtask a call is handing out, and the next one.
LEMMA SubtaskAtHand ==
    ASSUME WorkTypeOK, NEW c \in Callers, todo[c] # {} => handed[c] # 0
    PROVE  /\ todo[c] # {} => <<c, handed[c]>> \in Local
           /\ handed[c] < Subtasks => handed[c] + 1 \in 0..Subtasks
<1>1. handed[c] \in 0..Subtasks /\ Subtasks \in Nat
    BY LifecycleAssumption DEF WorkTypeOK
<1>2. handed[c] # 0 => handed[c] \in 1..Subtasks
    BY <1>1
<1> QED BY <1>1, <1>2 DEF Local

LEMMA CallType ==
    ASSUME TypeOK, Begun, NEW c \in Callers, CallStep(c)
    PROVE  TypeOK' /\ Begun'
<1> SUFFICES ASSUME ThreadsTypeOK, PhasesOK, WorkTypeOK
             PROVE  ThreadsTypeOK' /\ PhasesOK' /\ WorkTypeOK' /\ Begun'
    BY DEF TypeOK
<1> USE DEF CallGoes
<1>1. ThreadsTypeOK' /\ PhasesOK'
    <2>1. UNCHANGED <<running, shut, listening, sock, owner, listener, processor, gossip,
                      inbox, hand>>
        BY DEF CallStep, Call, SelectWorkers, HandLocal, HandRaises, HandToPeer, AllHanded,
               EndWait, Return
    <2>2. ThreadsTypeOK'
        BY <2>1 DEF ThreadsTypeOK
    <2>3. PhasesOK'
        BY <2>1 DEF PhasesOK
    <2> QED BY <2>2, <2>3
<1>2. /\ todo \in [Callers -> SUBSET (Peers \cup {Self})]
      /\ handed \in [Callers -> 0..Subtasks] /\ Subtasks \in Nat
      /\ call \in [Callers -> CallLabels]
    BY LifecycleAssumption DEF WorkTypeOK
<1>3. CASE SelectWorkers(c)
    <2>1. PICK W \in Samples : todo' = [todo EXCEPT ![c] = W]
        BY <1>3 DEF SelectWorkers
    <2>2. W \in SUBSET (Peers \cup {Self})
        BY DEF Samples
    <2>3. handed' = [handed EXCEPT ![c] = @ + 1] /\ handed[c] + 1 \in 0..Subtasks
          /\ handed[c] + 1 # 0
        BY <1>2, <1>3 DEF SelectWorkers
    <2>4. Begun'
        BY <1>2, <2>1, <2>3 DEF Begun
    <2>5. WorkTypeOK'
        BY <1>2, <1>3, <2>1, <2>2, <2>3 DEF SelectWorkers, WorkTypeOK
    <2> QED BY <1>1, <2>4, <2>5
<1>4. CASE HandLocal(c)
    <2>1. <<c, handed[c]>> \in Jobs
        BY <1>4, SubtaskAtHand DEF HandLocal, Jobs, Begun
    <2>2. pending' \in Seq(Jobs)
        BY <1>4, <2>1 DEF HandLocal, WorkTypeOK
    <2>3. WorkTypeOK'
        BY <1>2, <1>4, <2>2 DEF HandLocal, WorkTypeOK
    <2>4. Begun'
        BY <1>2, <1>4 DEF HandLocal, Begun
    <2> QED BY <1>1, <2>3, <2>4
<1>5. ASSUME NEW p \in Peers, HandToPeer(c, p) PROVE WorkTypeOK' /\ Begun'
    <2>1. sent' \in {0, 1}
        BY <1>5, SendType DEF HandToPeer, WorkTypeOK
    <2>2. WorkTypeOK'
        BY <1>2, <1>5, <2>1 DEF HandToPeer, WorkTypeOK
    <2>3. Begun'
        BY <1>2, <1>5 DEF HandToPeer, Begun
    <2> QED BY <2>2, <2>3
<1>6. CASE HandRaises(c)
    <2>1. WorkTypeOK'
        BY <1>2, <1>6 DEF HandRaises, WorkTypeOK, CallLabels
    <2>2. Begun'
        BY <1>2, <1>6 DEF HandRaises, Begun
    <2> QED BY <1>1, <2>1, <2>2
<1>7. CASE Call(c) \/ AllHanded(c) \/ EndWait(c) \/ Return(c)
    <2>1. WorkTypeOK'
        BY <1>2, <1>7 DEF Call, AllHanded, EndWait, Return, WorkTypeOK, CallLabels
    <2>2. Begun'
        BY <1>7 DEF Call, AllHanded, EndWait, Return, Begun
    <2> QED BY <1>1, <2>1, <2>2
<1> QED BY <1>1, <1>3, <1>4, <1>5, <1>6, <1>7 DEF CallStep

\* Steps of others leave a call where it is.
LEMMA OthersLeaveCalls ==
    OwnerStep \/ ListenerStep \/ ProcessorStep \/ ExecutorStep \/ GossipStep \/ UNCHANGED vars
        => UNCHANGED <<handed, todo>>
BY DEF OwnerStep, StartStep, StopStep, Bind, Run, Spawn, Greet, StopRunning,
       ShutDownExecutor, StopListening, JoinListener, CloseSocket, JoinThreads,
       ListenerStep, ListenerCheck, ReceiveNothing, Receive, HandleAssign, HandleHello,
       ProcessorStep, ProcessorCheck, GetTimesOut, GetTask, SubmitTask, SubmitRaises,
       ExecutorStep, StartJob, FinishJob, GossipStep, GossipCheck, GossipRound, GossipRaises,
       vars

LEMMA NextType == TypeOK /\ Begun /\ [Next]_vars => TypeOK' /\ Begun'
<1>1. TypeOK /\ UNCHANGED vars => TypeOK'
    <2> SUFFICES ASSUME ThreadsTypeOK, PhasesOK, WorkTypeOK, UNCHANGED vars
                 PROVE  ThreadsTypeOK' /\ PhasesOK' /\ WorkTypeOK'
        BY DEF TypeOK
    <2>1. ThreadsTypeOK'
        BY DEF ThreadsTypeOK, vars
    <2>2. PhasesOK'
        BY DEF PhasesOK, vars
    <2>3. WorkTypeOK'
        BY WorkKept DEF WorkTypeOK, vars
    <2> QED BY <2>1, <2>2, <2>3
<1>2. Begun /\ UNCHANGED <<handed, todo>> => Begun'
    BY DEF Begun
<1> QED BY <1>1, <1>2, OwnerType, ListenerType, ProcessorType, ExecutorType, GossipType, CallType,
           OthersLeaveCalls DEF Next, OwnerStep, ExecutorStep

\* The type invariant of the lifecycle.
THEOREM LifecycleTypeCorrect == Spec => []TypeOK
BY InitType, NextType, PTL DEF Spec

-----------------------------------------------------------------------------
(* Work is accounted for.  What makes it inductive: the datagram in the    *)
(* listener's hands is off the network, and a call's subtasks are numbered *)
(* in the order it hands them out, so that the next is always a new one.   *)

Taken    == inbox \notin net
Numbered ==
    \A c \in Callers : \A i \in 1..Subtasks :
        <<c, i>> \in Range(pending) \cup executing \cup finished =>
            /\ i <= handed[c]
            /\ Self \in todo[c] => i # handed[c]

Placed ==
    \A t \in Assigns :
        /\ (t \notin net /\ t # inbox) <=> (InQueue(t) \/ t = hand \/ InExecutor(t))
        /\ ~(InQueue(t) /\ (t = hand \/ InExecutor(t)))
        /\ ~(t = hand /\ InExecutor(t))
Once ==
    /\ IsInjective(queue) /\ IsInjective(pending)
    /\ \A j \in Range(pending) : j \notin executing \cup finished
    /\ executing \cap finished = {}
Ended ==
    /\ processor \in {"ended", "died"} => ~running
    /\ processor = "died" => shut

\* The owner clears the one flag before it sets the other.
Flags ==
    /\ owner \in {"bind", "run", "spawn", "greet", "serving", "shut down"} => ~shut
    /\ owner \notin {"spawn", "greet", "serving"} => ~running

Accounts == TypeOK /\ Begun /\ Flags /\ Taken /\ Numbered /\ Placed /\ Once /\ Ended

LEMMA FlagsStep == Flags /\ [Next]_vars => Flags'
<1> SUFFICES ASSUME Flags, [Next]_vars PROVE Flags'
    OBVIOUS
<1>1. CASE Bind              BY <1>1 DEF Bind, Flags
<1>2. CASE Run               BY <1>2 DEF Run, Flags
<1>3. CASE Spawn             BY <1>3 DEF Spawn, Flags
<1>4. CASE Greet             BY <1>4 DEF Greet, Flags
<1>5. CASE StopRunning       BY <1>5 DEF StopRunning, Flags
<1>6. CASE ShutDownExecutor  BY <1>6 DEF ShutDownExecutor, Flags
<1>7. CASE StopListening     BY <1>7 DEF StopListening, Flags
<1>8. CASE JoinListener      BY <1>8 DEF JoinListener, Flags
<1>9. CASE CloseSocket       BY <1>9 DEF CloseSocket, Flags
<1>10. CASE JoinThreads      BY <1>10 DEF JoinThreads, Flags
<1>11. CASE UNCHANGED <<owner, running, shut>>
    BY <1>11 DEF Flags
<1>12. ListenerStep \/ ProcessorStep \/ ExecutorStep \/ GossipStep \/ UNCHANGED vars
           => UNCHANGED <<owner, running, shut>>
    BY DEF ListenerStep, ListenerCheck, ReceiveNothing, Receive, HandleAssign, HandleHello,
           ProcessorStep, ProcessorCheck, GetTimesOut, GetTask, SubmitTask, SubmitRaises,
           ExecutorStep, StartJob, FinishJob, GossipStep, GossipCheck, GossipRound,
           GossipRaises, vars
<1>13. ASSUME NEW c \in Callers, CallStep(c) PROVE UNCHANGED <<owner, running, shut>>
    BY <1>13 DEF CallStep, CallGoes, Call, SelectWorkers, HandLocal, HandRaises,
               HandToPeer, AllHanded, EndWait, Return
<1> QED BY <1>1, <1>2, <1>3, <1>4, <1>5, <1>6, <1>7, <1>8, <1>9, <1>10, <1>11, <1>12, <1>13
           DEF Next, StartStep, StopStep, ExecutorStep

LEMMA AccountsInit == Init => Accounts
<1> SUFFICES ASSUME Init PROVE Flags /\ Taken /\ Numbered /\ Placed /\ Once /\ Ended
    BY InitType DEF Accounts
<1>1. /\ net = Assigns \cup Hellos /\ inbox = None /\ queue = <<>> /\ hand = None
      /\ pending = <<>> /\ executing = {} /\ finished = {} /\ processor = "unborn"
    BY DEF Init
<1>2. Range(queue) = {} /\ Range(pending) = {} /\ IsInjective(queue) /\ IsInjective(pending)
    BY <1>1, NothingInEmpty
<1>3. Taken /\ Numbered /\ Ended
    BY <1>1, <1>2, LifecycleAssumption DEF Taken, Numbered, Ended
<1>4. Placed
    BY <1>1, <1>2, LifecycleAssumption DEF Placed, InQueue, InExecutor
<1>5. Once
    BY <1>1, <1>2 DEF Once
<1>6. Flags
    BY DEF Init, Flags
<1> QED BY <1>3, <1>4, <1>5, <1>6

\* Steps that move no work.
LEMMA AccountsKept ==
    ASSUME Taken, Numbered, Placed, Once, UNCHANGED <<net, inbox, work, handed, todo>>
    PROVE  Taken' /\ Numbered' /\ Placed' /\ Once'
<1>1. Taken'
    BY DEF Taken
<1>2. Numbered'
    BY DEF Numbered
<1>3. Placed'
    BY DEF Placed, InQueue, InExecutor
<1>4. Once'
    BY DEF Once
<1> QED BY <1>1, <1>2, <1>3, <1>4

LEMMA OwnerAccounts == Accounts /\ OwnerStep => Taken' /\ Numbered' /\ Placed' /\ Once' /\ Ended'
<1> SUFFICES ASSUME Accounts, OwnerStep
             PROVE  Taken' /\ Numbered' /\ Placed' /\ Once' /\ Ended'
    OBVIOUS
<1> USE DEF OwnerStep, StartStep, StopStep
<1>1. UNCHANGED <<net, inbox, work, handed, todo>>
    BY DEF Bind, Run, Spawn, Greet, StopRunning, ShutDownExecutor, StopListening,
           JoinListener, CloseSocket, JoinThreads
<1>2. Ended'
    <2>1. CASE Run \/ Spawn
        <3>1. processor' \in {"unborn", "check"}
            BY <2>1 DEF Run, Spawn, Accounts, TypeOK, PhasesOK
        <3> QED BY <3>1 DEF Ended
    <2>2. CASE StopRunning
        BY <2>2 DEF StopRunning, Accounts, Ended
    <2>3. CASE ShutDownExecutor
        BY <2>3 DEF ShutDownExecutor, Accounts, Ended
    <2>4. UNCHANGED <<processor, running, shut>> => Ended'
        BY DEF Accounts, Ended
    <2> QED BY <2>1, <2>2, <2>3, <2>4 DEF Bind, Greet, StopListening, JoinListener, CloseSocket,
                                          JoinThreads
<1> QED BY <1>1, <1>2, AccountsKept DEF Accounts

LEMMA ListenerAccounts ==
    Accounts /\ ListenerStep => Taken' /\ Numbered' /\ Placed' /\ Once' /\ Ended'
<1> SUFFICES ASSUME Accounts, ListenerStep
             PROVE  Taken' /\ Numbered' /\ Placed' /\ Once' /\ Ended'
    OBVIOUS
<1> USE DEF Accounts
<1>1. Ended'
    BY DEF Ended, ListenerStep, ListenerCheck, ReceiveNothing, HandleAssign, HandleHello, Receive
<1>2. CASE ListenerCheck \/ ReceiveNothing
    BY <1>1, <1>2, AccountsKept DEF ListenerCheck, ReceiveNothing
<1>3. CASE HandleAssign
    <2> DEFINE t == inbox
    <2>1. /\ t \in Assigns /\ queue' = Append(queue, t) /\ inbox' = None
          /\ UNCHANGED <<net, hand, pending, executing, finished, handed, todo>>
        BY <1>3 DEF HandleAssign
    <2>2. t \notin net /\ t \notin Range(queue) /\ t # hand
          /\ t \notin Range(pending) \cup executing \cup finished
        BY <2>1 DEF Taken, Placed, InQueue, InExecutor
    <2>3. Range(queue') = Range(queue) \cup {t}
        BY <2>1, RangeOfAppend DEF TypeOK, WorkTypeOK
    <2>4. IsInjective(queue')
        BY <2>1, <2>2, AppendKeepsDistinct DEF TypeOK, WorkTypeOK, Once
    <2>5. Taken' /\ Numbered'
        BY <2>1, LifecycleAssumption DEF TypeOK, WorkTypeOK, Taken, Numbered
    <2>6. Placed'
        BY <2>1, <2>2, <2>3, LifecycleAssumption DEF Placed, InQueue, InExecutor
    <2>7. Once'
        BY <2>1, <2>4 DEF Once
    <2> QED BY <1>1, <2>5, <2>6, <2>7
<1>4. CASE HandleHello
    <2>1. /\ inbox \in Hellos /\ inbox' = None
          /\ UNCHANGED <<net, work, handed, todo>>
        BY <1>4 DEF HandleHello
    <2>2. Taken' /\ Numbered'
        BY <2>1, LifecycleAssumption DEF TypeOK, WorkTypeOK, Taken, Numbered
    <2>3. Placed'
        BY <2>1, LifecycleAssumption DEF Placed, InQueue, InExecutor
    <2>4. Once'
        BY <2>1 DEF Once
    <2> QED BY <1>1, <2>2, <2>3, <2>4
<1>5. ASSUME NEW d \in net, Receive(d) PROVE Taken' /\ Numbered' /\ Placed' /\ Once'
    <2>1. /\ inbox = None /\ inbox' = d /\ net' = net \ {d}
          /\ UNCHANGED <<work, handed, todo>>
        BY <1>5 DEF Receive, TypeOK, PhasesOK
    <2>2. Taken' /\ Numbered'
        BY <2>1 DEF Taken, Numbered
    <2>3. Placed'
        BY <2>1, LifecycleAssumption DEF Placed, InQueue, InExecutor
    <2>4. Once'
        BY <2>1 DEF Once
    <2> QED BY <2>2, <2>3, <2>4
<1> QED BY <1>1, <1>2, <1>3, <1>4, <1>5 DEF ListenerStep

LEMMA ProcessorAccounts ==
    Accounts /\ ProcessorStep => Taken' /\ Numbered' /\ Placed' /\ Once' /\ Ended'
<1> SUFFICES ASSUME Accounts, ProcessorStep
             PROVE  Taken' /\ Numbered' /\ Placed' /\ Once' /\ Ended'
    OBVIOUS
<1> USE DEF Accounts
<1>1. Ended'
    <2>1. CASE ProcessorCheck \/ GetTimesOut
        BY <2>1 DEF ProcessorCheck, GetTimesOut, Ended
    <2>2. CASE GetTask \/ SubmitTask
        BY <2>2 DEF GetTask, SubmitTask, Ended
    <2>3. CASE SubmitRaises
        <3>1. shut /\ ~running
            BY <2>3 DEF SubmitRaises, Flags
        <3> QED BY <2>3, <3>1 DEF SubmitRaises, Ended
    <2> QED BY <2>1, <2>2, <2>3 DEF ProcessorStep
<1>2. CASE ProcessorCheck \/ GetTimesOut \/ SubmitRaises
    BY <1>1, <1>2, AccountsKept DEF ProcessorCheck, GetTimesOut, SubmitRaises
<1>3. CASE GetTask
    <2> DEFINE t == Head(queue)
    <2>1. /\ hand = None /\ hand' = t /\ queue' = Tail(queue) /\ queue # <<>>
          /\ UNCHANGED <<net, inbox, pending, executing, finished, handed, todo>>
        BY <1>3 DEF GetTask, TypeOK, PhasesOK
    <2>2. /\ t \in Assigns /\ Range(queue) = Range(queue') \cup {t}
          /\ t \notin Range(queue') /\ IsInjective(queue')
        BY <2>1, HeadAndTail DEF TypeOK, WorkTypeOK, Once
    <2>3. Taken' /\ Numbered'
        BY <2>1 DEF Taken, Numbered
    <2>4. Placed'
        BY <2>1, <2>2, LifecycleAssumption DEF Placed, InQueue, InExecutor
    <2>5. Once'
        BY <2>1, <2>2 DEF Once
    <2> QED BY <1>1, <2>3, <2>4, <2>5
<1>4. CASE SubmitTask
    <2> DEFINE t == hand
    <2>1. /\ t \in Assigns /\ hand' = None /\ pending' = Append(pending, t)
          /\ UNCHANGED <<net, inbox, queue, executing, finished, handed, todo>>
        BY <1>4 DEF SubmitTask, TypeOK, PhasesOK, WorkTypeOK
    <2>2. t \notin Range(pending) \cup executing \cup finished
        BY <2>1 DEF Placed, InExecutor
    <2>3. t \in Jobs
        BY <2>1 DEF Jobs
    <2>4. Range(pending') = Range(pending) \cup {t} /\ IsInjective(pending')
        BY <2>1, <2>2, <2>3, RangeOfAppend, AppendKeepsDistinct DEF TypeOK, WorkTypeOK, Once
    <2>5. \A c \in Callers : \A i \in 1..Subtasks : <<c, i>> # t
        BY <2>1, LifecycleAssumption
    <2>6. Taken' /\ Numbered'
        BY <2>1, <2>4, <2>5 DEF Taken, Numbered
    <2>7. Placed'
        BY <2>1, <2>4, LifecycleAssumption DEF Placed, InQueue, InExecutor
    <2>8. Once'
        BY <2>1, <2>2, <2>4 DEF Once
    <2> QED BY <1>1, <2>6, <2>7, <2>8
<1> QED BY <1>2, <1>3, <1>4 DEF ProcessorStep

LEMMA ExecutorAccounts ==
    Accounts /\ ExecutorStep => Taken' /\ Numbered' /\ Placed' /\ Once' /\ Ended'
<1> SUFFICES ASSUME Accounts, ExecutorStep
             PROVE  Taken' /\ Numbered' /\ Placed' /\ Once' /\ Ended'
    OBVIOUS
<1> USE DEF Accounts
<1>1. Ended'
    <2>1. UNCHANGED <<processor, running, shut>>
        BY DEF ExecutorStep, StartJob, FinishJob
    <2> QED BY <2>1 DEF Ended
<1>2. CASE StartJob
    <2> DEFINE j == Head(pending)
    <2>1. /\ pending # <<>> /\ pending' = Tail(pending) /\ executing' = executing \cup {j}
          /\ UNCHANGED <<net, inbox, queue, hand, finished, handed, todo>>
        BY <1>2 DEF StartJob
    <2>2. /\ Range(pending) = Range(pending') \cup {j}
          /\ j \notin Range(pending') /\ IsInjective(pending')
        BY <2>1, HeadAndTail DEF TypeOK, WorkTypeOK, Once
    <2>3. Taken' /\ Numbered'
        BY <2>1, <2>2 DEF Taken, Numbered
    <2>4. Placed'
        BY <2>1, <2>2 DEF Placed, InQueue, InExecutor
    <2>5. Once'
        BY <2>1, <2>2 DEF Once
    <2> QED BY <1>1, <2>3, <2>4, <2>5
<1>3. ASSUME NEW j \in executing, FinishJob(j) PROVE Taken' /\ Numbered' /\ Placed' /\ Once'
    <2>1. /\ executing' = executing \ {j} /\ finished' = finished \cup {j}
          /\ UNCHANGED <<net, inbox, queue, hand, pending, handed, todo>>
        BY <1>3 DEF FinishJob
    <2>2. executing' \cup finished' = executing \cup finished
        BY <2>1
    <2>3. Taken' /\ Numbered'
        BY <2>1, <2>2 DEF Taken, Numbered
    <2>4. Placed'
        BY <2>1, <2>2 DEF Placed, InQueue, InExecutor
    <2>5. Once'
        BY <2>1, <2>2 DEF Once
    <2> QED BY <2>3, <2>4, <2>5
<1> QED BY <1>1, <1>2, <1>3 DEF ExecutorStep

LEMMA CallAccounts ==
    ASSUME Accounts, NEW c \in Callers, CallStep(c)
    PROVE  Taken' /\ Numbered' /\ Placed' /\ Once' /\ Ended'
<1> USE DEF Accounts
<1>1. Ended'
    <2>1. UNCHANGED <<processor, running, shut>>
        BY DEF CallStep, CallGoes, Call, SelectWorkers, HandLocal, HandRaises,
               HandToPeer, AllHanded, EndWait, Return
    <2> QED BY <2>1 DEF Ended
<1>2. CASE Call(c) \/ AllHanded(c) \/ EndWait(c) \/ Return(c)
    BY <1>1, <1>2, AccountsKept DEF CallGoes, Call, AllHanded, EndWait, Return
<1> DEFINE there == Range(pending) \cup executing \cup finished
<1>3. /\ todo \in [Callers -> SUBSET (Peers \cup {Self})]
      /\ handed \in [Callers -> 0..Subtasks] /\ Subtasks \in Nat
    BY LifecycleAssumption DEF TypeOK, WorkTypeOK
<1>4. ASSUME UNCHANGED <<net, inbox, work>> PROVE Taken' /\ Placed' /\ Once'
    BY <1>4 DEF Taken, Placed, InQueue, InExecutor, Once
<1>5. CASE SelectWorkers(c)
    <2>1. /\ handed' = [handed EXCEPT ![c] = @ + 1] /\ UNCHANGED <<net, inbox, work>>
          /\ \A d \in Callers : d # c => todo'[d] = todo[d]
        BY <1>3, <1>5 DEF SelectWorkers
    <2>2. ASSUME NEW d \in Callers, NEW i \in 1..Subtasks, <<d, i>> \in there
          PROVE  i <= handed'[d] /\ (Self \in todo'[d] => i # handed'[d])
        <3>1. i <= handed[d] /\ (Self \in todo[d] => i # handed[d])
            BY <2>2 DEF Numbered
        <3>2. CASE d = c
            BY <1>3, <2>1, <3>1, <3>2
        <3>3. CASE d # c
            BY <1>3, <2>1, <3>1, <3>3
        <3> QED BY <3>2, <3>3
    <2>3. Numbered'
        BY <2>1, <2>2 DEF Numbered
    <2> QED BY <1>1, <1>4, <2>1, <2>3
<1>6. CASE HandRaises(c) \/ \E p \in Peers : HandToPeer(c, p)
    <2>1. /\ UNCHANGED <<net, inbox, work, handed>>
          /\ \A d \in Callers : todo'[d] \subseteq todo[d]
        BY <1>3, <1>6 DEF CallGoes, HandRaises, HandToPeer
    <2>2. Numbered'
        BY <2>1 DEF Numbered
    <2> QED BY <1>1, <1>4, <2>1, <2>2
<1>7. CASE HandLocal(c)
    <2> DEFINE j == <<c, handed[c]>>
    <2>1. /\ Self \in todo[c] /\ todo' = [todo EXCEPT ![c] = @ \ {Self}]
          /\ pending' = Append(pending, j)
          /\ UNCHANGED <<net, inbox, queue, hand, executing, finished, handed>>
        BY <1>7 DEF HandLocal
    <2>2. j \in Local /\ j \in Jobs /\ handed[c] \in 1..Subtasks
        BY <1>3, <2>1, SubtaskAtHand DEF Begun, Jobs, Local, TypeOK
    <2>3. j \notin there
        BY <2>1, <2>2 DEF Numbered
    <2>4. Range(pending') = Range(pending) \cup {j} /\ IsInjective(pending')
        <3>1. /\ pending \in Seq(Jobs) /\ IsInjective(pending) /\ j \notin Range(pending)
              /\ j \in Jobs /\ pending' = Append(pending, j)
            BY <2>1, <2>2, <2>3 DEF TypeOK, WorkTypeOK, Once
        <3> HIDE DEF j
        <3> QED BY <3>1, RangeOfAppend, AppendKeepsDistinct
    <2>5. j \notin Assigns
        BY <2>2, LifecycleAssumption DEF Local
    <2>6. ASSUME NEW d \in Callers, NEW i \in 1..Subtasks,
                 <<d, i>> \in Range(pending') \cup executing' \cup finished'
          PROVE  i <= handed'[d] /\ (Self \in todo'[d] => i # handed'[d])
        <3>1. CASE <<d, i>> = j
            <4>1. d = c /\ i = handed[c]
                BY <3>1
            <4>2. Self \notin todo'[c]
                BY <1>3, <2>1
            <4> QED BY <1>3, <2>1, <4>1, <4>2
        <3>2. CASE <<d, i>> # j
            <4>1. <<d, i>> \in there
                BY <2>1, <2>4, <2>6, <3>2
            <4>2. i <= handed[d] /\ (Self \in todo[d] => i # handed[d])
                BY <4>1 DEF Numbered
            <4>3. todo'[d] \subseteq todo[d]
                BY <1>3, <2>1
            <4> QED BY <2>1, <4>2, <4>3
        <3> QED BY <3>1, <3>2
    <2>7. Numbered'
        BY <2>6 DEF Numbered
    <2>8. Taken' /\ Placed'
        BY <2>1, <2>4, <2>5 DEF Taken, Placed, InQueue, InExecutor
    <2>9. Once'
        BY <2>1, <2>3, <2>4 DEF Once
    <2> QED BY <1>1, <2>7, <2>8, <2>9
<1> QED BY <1>2, <1>5, <1>6, <1>7 DEF CallStep

LEMMA AccountsStep == Accounts /\ [Next]_vars => Accounts'
<1> SUFFICES ASSUME Accounts, [Next]_vars
             PROVE  Taken' /\ Numbered' /\ Placed' /\ Once' /\ Ended'
    BY NextType, FlagsStep DEF Accounts
<1>1. CASE GossipStep
    BY <1>1, AccountsKept DEF GossipStep, GossipCheck, GossipRound, GossipRaises, Accounts, Ended
<1>2. CASE UNCHANGED vars
    BY <1>2, AccountsKept DEF vars, Accounts, Ended
<1> QED BY <1>1, <1>2, OwnerAccounts, ListenerAccounts, ProcessorAccounts, ExecutorAccounts,
           CallAccounts DEF Next, OwnerStep, ExecutorStep

\* Every accepted ASSIGN is in one place and no job is executed twice.
THEOREM NothingIsLostOrRepeated == Spec => []WorkIsAccountedFor
<1>1. Accounts => WorkIsAccountedFor
    BY DEF Accounts, Placed, Once, Ended, WorkIsAccountedFor
<1> QED BY <1>1, AccountsInit, AccountsStep, PTL DEF Spec

-----------------------------------------------------------------------------
(* Silence after the stop.                                                 *)

SocketGone == owner \in {"join threads", "stopped"} => sock = "closed"

LEMMA SocketGoneStep == SocketGone /\ [Next]_vars => SocketGone'
<1> SUFFICES ASSUME SocketGone, [Next]_vars PROVE SocketGone'
    OBVIOUS
<1>1. CASE OwnerStep
    BY <1>1 DEF SocketGone, OwnerStep, StartStep, StopStep, Bind, Run, Spawn, Greet, StopRunning,
                ShutDownExecutor, StopListening, JoinListener, CloseSocket, JoinThreads
<1>2. CASE ListenerStep \/ ProcessorStep \/ ExecutorStep \/ GossipStep \/ UNCHANGED vars
    <2>1. UNCHANGED <<owner, sock>>
        BY <1>2 DEF ListenerStep, ListenerCheck, ReceiveNothing, Receive, HandleAssign, HandleHello,
                    ProcessorStep, ProcessorCheck, GetTimesOut, GetTask, SubmitTask, SubmitRaises,
                    ExecutorStep, StartJob, FinishJob, GossipStep, GossipCheck, GossipRound,
           GossipRaises, vars
    <2> QED BY <2>1 DEF SocketGone
<1>3. ASSUME NEW c \in Callers, CallStep(c) PROVE SocketGone'
    BY <1>3 DEF SocketGone, CallStep, CallGoes, Call, SelectWorkers, HandLocal, HandRaises,
               HandToPeer, AllHanded, EndWait, Return
<1> QED BY <1>1, <1>2, <1>3 DEF Next, OwnerStep, ExecutorStep

\* No step after the stop receives or sends.
LEMMA SilentStep ==
    ASSUME SocketGone, [Next]_vars, owner = "stopped"
    PROVE  UNCHANGED <<net, sent>>
<1> USE DEF Send
<1>1. sock = "closed"
    BY DEF SocketGone
<1>2. CASE OwnerStep
    BY <1>2 DEF OwnerStep, StartStep, StopStep, Bind, Run, Spawn, Greet, StopRunning,
                ShutDownExecutor, StopListening, JoinListener, CloseSocket, JoinThreads
<1>3. CASE ListenerStep
    BY <1>1, <1>3 DEF ListenerStep, ListenerCheck, ReceiveNothing, Receive, HandleAssign, HandleHello
<1>4. CASE ProcessorStep
    BY <1>4 DEF ProcessorStep, ProcessorCheck, GetTimesOut, GetTask, SubmitTask, SubmitRaises
<1>5. CASE ExecutorStep
    BY <1>1, <1>5 DEF ExecutorStep, StartJob, FinishJob
<1>6. CASE GossipStep
    BY <1>1, <1>6 DEF GossipStep, GossipCheck, GossipRound, GossipRaises
<1>7. CASE UNCHANGED vars
    BY <1>7 DEF vars
<1>8. ASSUME NEW c \in Callers, CallStep(c) PROVE UNCHANGED <<net, sent>>
    BY <1>1, <1>8 DEF CallStep, CallGoes, Call, SelectWorkers, HandLocal, HandRaises,
               HandToPeer, AllHanded, EndWait, Return
<1> QED BY <1>2, <1>3, <1>4, <1>5, <1>6, <1>7, <1>8 DEF Next, OwnerStep, ExecutorStep

\* An agent whose stop() has returned neither receives nor sends.
THEOREM StoppedIsSilent == Spec => SilentOnceStopped
<1>1. Init => SocketGone
    BY DEF Init, SocketGone
<1>2. SocketGone /\ [Next]_vars => [owner = "stopped" => UNCHANGED <<net, sent>>]_vars
    BY SilentStep
<1> QED BY <1>1, <1>2, SocketGoneStep, PTL DEF Spec, SilentOnceStopped

=============================================================================
