--------------------------- MODULE JobBoardProofs ---------------------------
(***************************************************************************)
(* Theorems about JobBoard, for any users, jobs, invitations and bounties. *)
(***************************************************************************)
EXTENDS JobBoard, FiniteSetTheorems, TLAPS

USE DEF jobVars, userVars, runVars

-----------------------------------------------------------------------------
(* The arithmetic of tiers.                                                *)

LEMMA TierType ==
    ASSUME NEW r \in Nat
    PROVE  TierOf(r) \in Tiers
BY DEF TierOf, Tiers

LEMMA LimitType ==
    ASSUME NEW t
    PROVE  MaxActiveClaims(t) \in Nat
BY DEF MaxActiveClaims

\* More reputation never means a lower limit.
LEMMA LimitGrows ==
    ASSUME NEW r \in Nat, NEW s \in Nat, r <= s
    PROVE  MaxActiveClaims(TierOf(r)) <= MaxActiveClaims(TierOf(s))
<1>1. CASE r >= 500
    BY <1>1 DEF TierOf, MaxActiveClaims
<1>2. CASE r < 500 /\ r >= 200
    BY <1>2 DEF TierOf, MaxActiveClaims
<1>3. CASE r < 200 /\ r >= 50
    BY <1>3 DEF TierOf, MaxActiveClaims
<1>4. CASE r < 50
    BY <1>4 DEF TierOf, MaxActiveClaims
<1> QED BY <1>1, <1>2, <1>3, <1>4

\* Solving a job costs nobody anything.
LEMMA EarnedType ==
    ASSUME TypeOK, NEW j \in Jobs, NEW u \in Users
    PROVE  Earned(j, u) \in Nat
BY DEF Earned, TypeOK, REP_JOB_SOLVED, REP_INVITE_BONUS

-----------------------------------------------------------------------------
(* Types, and the agreement of status, claimant and thread.                *)

\* What OneRunPerJob says of one job.
Fits(j) ==
    /\ Runs(j) <= 1
    /\ toMark[j] = 1 => status[j] = "claimed"
    /\ status[j] = "running" <=> toStart[j] + threads[j] = 1 \/ j \in unstarted
    /\ j \in unstarted => Runs(j) = 0
    /\ status[j] \in {"absent", "open"} <=> claimedBy[j] = NoUser

\* Inductive.
Consistent == TypeOK /\ OneRunPerJob

LEMMA InitConsistent == Init => Consistent
<1> SUFFICES ASSUME Init PROVE Consistent
    OBVIOUS
<1>1. \A u \in Users : InitialReputation(u) \in Nat
    BY DEF InitialReputation, REP_INITIAL, REP_INVITED
<1>2. \A u \in Users : TierOf(InitialReputation(u)) \in Tiers
    BY <1>1, TierType
<1>3. TypeOK
    BY <1>1, <1>2 DEF Init, TypeOK, Statuses
<1>4. OneRunPerJob
    BY DEF Init, OneRunPerJob, Runs
<1> QED BY <1>3, <1>4 DEF Consistent

LEMMA ClaimConsistent ==
    ASSUME Consistent, NEW j \in Jobs, NEW u \in Users, WebClaim(j, u) \/ ApiClaim(j, u)
    PROVE  Consistent'
<1>1. /\ status' = [status EXCEPT ![j] = "claimed"] /\ claimedBy' = [claimedBy EXCEPT ![j] = u]
      /\ status[j] = "open" /\ u # NoUser
      /\ toMark' = toMark \/ toMark' = [toMark EXCEPT ![j] = @ + 1]
      /\ UNCHANGED <<toStart, threads, unstarted>>
    BY JobBoardAssumption DEF WebClaim, ApiClaim, ClaimJob
<1>2. TypeOK'
    BY <1>1 DEF Consistent, TypeOK, Statuses, WebClaim, ApiClaim, ClaimJob
<1>3. toMark[j] = 0 /\ toStart[j] = 0 /\ threads[j] = 0 /\ j \notin unstarted
    <2>1. /\ toMark[j] \in Nat /\ toStart[j] \in Nat /\ threads[j] \in Nat
          /\ toMark[j] + toStart[j] + threads[j] <= 1
        BY DEF Consistent, TypeOK, OneRunPerJob, Runs
    <2>2. toMark[j] # 1 /\ toStart[j] + threads[j] # 1 /\ j \notin unstarted
        BY <1>1 DEF Consistent, OneRunPerJob
    <2> QED BY <2>1, <2>2
<1>4. OneRunPerJob'
    <2> SUFFICES ASSUME NEW i \in Jobs PROVE Fits(i)'
        BY DEF OneRunPerJob, Fits
    <2>1. Fits(i)
        BY DEF Consistent, OneRunPerJob, Fits
    <2>2. CASE i = j
        BY <1>1, <1>3, <2>2 DEF Consistent, TypeOK, Fits, Runs
    <2>3. CASE i # j
        BY <1>1, <2>1, <2>3 DEF Consistent, TypeOK, Fits, Runs
    <2> QED BY <2>2, <2>3
<1> QED BY <1>2, <1>4 DEF Consistent

\* A handler on its way to the job's thread, and the thread.
LEMMA MarkRunningConsistent ==
    ASSUME Consistent, NEW j \in Jobs, MarkRunning(j)
    PROVE  Consistent' /\ status[j] = "claimed"
<1>1. /\ toMark[j] \in Nat /\ toStart[j] \in Nat /\ threads[j] \in Nat /\ Fits(j)
      /\ toMark[j] > 0
    BY DEF Consistent, TypeOK, OneRunPerJob, Fits, MarkRunning
<1>2. toMark[j] = 1 /\ toStart[j] = 0 /\ threads[j] = 0
    BY <1>1 DEF Fits, Runs
<1>3. TypeOK'
    BY <1>2 DEF Consistent, TypeOK, Statuses, MarkRunning
<1>4. ASSUME NEW i \in Jobs PROVE Fits(i)'
    <2>1. Fits(i)
        BY DEF Consistent, OneRunPerJob, Fits
    <2>2. CASE i = j
        BY <1>1, <1>2, <2>2 DEF Consistent, TypeOK, Fits, Runs, MarkRunning
    <2>3. CASE i # j
        BY <2>1, <2>3 DEF Consistent, TypeOK, Fits, Runs, MarkRunning
    <2> QED BY <2>2, <2>3
<1> QED BY <1>1, <1>2, <1>3, <1>4 DEF Consistent, OneRunPerJob, Fits

LEMMA StartThreadConsistent ==
    ASSUME Consistent, NEW j \in Jobs, StartThread(j)
    PROVE  Consistent'
<1>1. /\ toMark[j] \in Nat /\ toStart[j] \in Nat /\ threads[j] \in Nat /\ Fits(j)
      /\ toStart[j] > 0
    BY DEF Consistent, TypeOK, OneRunPerJob, Fits, StartThread
<1>2. toMark[j] = 0 /\ toStart[j] = 1 /\ threads[j] = 0
    BY <1>1 DEF Fits, Runs
<1>3. TypeOK'
    BY <1>2 DEF Consistent, TypeOK, StartThread
<1>4. ASSUME NEW i \in Jobs PROVE Fits(i)'
    <2>1. Fits(i)
        BY DEF Consistent, OneRunPerJob, Fits
    <2>2. CASE i = j
        BY <1>1, <1>2, <2>2 DEF Consistent, TypeOK, Fits, Runs, StartThread
    <2>3. CASE i # j
        BY <2>1, <2>3 DEF Consistent, TypeOK, Fits, Runs, StartThread
    <2> QED BY <2>2, <2>3
<1> QED BY <1>3, <1>4 DEF Consistent, OneRunPerJob, Fits

\* A job with a thread is running and claimed, and it has no other thread.
LEMMA ThreadAlone ==
    ASSUME Consistent, NEW j \in Jobs, threads[j] > 0
    PROVE  /\ claimedBy[j] \in Users /\ status[j] = "running"
           /\ toMark[j] = 0 /\ toStart[j] = 0 /\ threads[j] = 1
           /\ j \notin unstarted
<1>1. /\ toMark[j] \in Nat /\ toStart[j] \in Nat /\ threads[j] \in Nat /\ Fits(j)
    BY DEF Consistent, TypeOK, OneRunPerJob, Fits
<1>2. toMark[j] = 0 /\ toStart[j] = 0 /\ threads[j] = 1
    BY <1>1 DEF Fits, Runs
<1> QED BY <1>1, <1>2 DEF Consistent, TypeOK, Fits, Runs

LEMMA FinishConsistent ==
    ASSUME Consistent, NEW j \in Jobs, Finish(j)
    PROVE  Consistent'
<1>1. /\ claimedBy[j] \in Users /\ status[j] = "running"
      /\ toMark[j] = 0 /\ toStart[j] = 0 /\ threads[j] = 1 /\ j \notin unstarted
    BY ThreadAlone DEF Finish, FinishSolved, FinishFailed, ThreadEnds
<1>2. OneRunPerJob'
    <2>1. /\ threads' = [threads EXCEPT ![j] = @ - 1]
          /\ status' = [status EXCEPT ![j] = "solved"] \/ status' = [status EXCEPT ![j] = "failed"]
          /\ UNCHANGED <<claimedBy, toMark, toStart, unstarted>>
        BY DEF Finish, FinishSolved, FinishFailed, ThreadEnds
    <2> SUFFICES ASSUME NEW i \in Jobs PROVE Fits(i)'
        BY DEF OneRunPerJob, Fits
    <2>2. Fits(i)
        BY DEF Consistent, OneRunPerJob, Fits
    <2>3. CASE i = j
        <3>1. threads'[i] = 0 /\ status'[i] \in {"solved", "failed"} /\ claimedBy[i] # NoUser
            BY <1>1, <2>1, <2>3, JobBoardAssumption DEF Consistent, TypeOK
        <3> QED BY <1>1, <2>1, <2>3, <3>1 DEF Fits, Runs
    <2>4. CASE i # j
        BY <2>1, <2>2, <2>4 DEF Consistent, TypeOK, Fits, Runs
    <2> QED BY <2>3, <2>4
<1>3. CASE FinishSolved(j)
    <2>1. \A u \in Users : /\ reputation[u] + Earned(j, u) \in Nat
                           /\ TierOf(reputation[u] + Earned(j, u)) \in Tiers
        BY EarnedType, TierType DEF Consistent, TypeOK
    <2>2. reputation' \in [Users -> Nat] /\ tier' \in [Users -> Tiers]
        BY <1>3, <2>1 DEF FinishSolved, Consistent, TypeOK
    <2> QED BY <1>1, <1>2, <1>3, <2>2 DEF Consistent, TypeOK, Statuses, FinishSolved, ThreadEnds
<1>4. CASE FinishFailed(j)
    BY <1>1, <1>2, <1>4 DEF Consistent, TypeOK, Statuses, FinishFailed, ThreadEnds
<1> QED BY <1>3, <1>4 DEF Finish

LEMMA NextConsistent ==
    ASSUME Consistent, [Next]_vars
    PROVE  Consistent'
<1>1. ASSUME NEW j \in Jobs, NEW b \in Bounties, CreateJob(j, b) PROVE Consistent'
    BY <1>1, JobBoardAssumption DEF Consistent, TypeOK, Statuses, OneRunPerJob, Runs, CreateJob
<1>2. ASSUME NEW j \in Jobs, NEW u \in Users, WebClaim(j, u) \/ ApiClaim(j, u)
      PROVE  Consistent'
    BY <1>2, ClaimConsistent
<1>3. ASSUME NEW j \in Jobs, MarkRunning(j) \/ StartThread(j) PROVE Consistent'
    BY <1>3, MarkRunningConsistent, StartThreadConsistent
<1>4. ASSUME NEW j \in Jobs, Finish(j) PROVE Consistent'
    BY <1>4, FinishConsistent
<1>5. CASE UNCHANGED vars
    BY <1>5 DEF Consistent, TypeOK, OneRunPerJob, Runs, vars
<1> QED BY <1>1, <1>2, <1>3, <1>4, <1>5 DEF Next

\* Types are right, and no job is ever run twice: whatever requests overlap,
\* one handler at most goes on from the claim and one thread at most works.
THEOREM BoardConsistent == Spec => [](TypeOK /\ OneRunPerJob)
<1>1. Consistent /\ [Next]_vars => Consistent'
    BY NextConsistent
<1> QED BY <1>1, InitConsistent, PTL DEF Spec, Consistent

\* Reputations stay natural numbers, tiers and statuses are among those named
\* in store.py:19-62, however claims and runs interleave.
THEOREM BoardTypeCorrect == Spec => []TypeOK
BY BoardConsistent, PTL

-----------------------------------------------------------------------------
(* Claims and tiers.                                                       *)

TierIsCurrent == \A u \in Users : tier[u] = TierOf(reputation[u])

\* Inductive: the limit is compared with the tier, so the tier must follow
\* the reputation, and the reputation must never fall.
WithinTier == Consistent /\ TierIsCurrent /\ ClaimsWithinTier

LEMMA ClaimsFinite ==
    ASSUME NEW S \in SUBSET Jobs
    PROVE  IsFiniteSet(S) /\ Cardinality(S) \in Nat
BY JobBoardAssumption, FS_Subset, FS_CardinalityType

\* Nobody's claims grow and nobody's reputation falls: the limits still hold.
LEMMA LimitsKept ==
    ASSUME WithinTier, Consistent', TierIsCurrent',
           \A u \in Users : ActiveClaims(u)' \subseteq ActiveClaims(u),
           \A u \in Users : reputation'[u] >= reputation[u]
    PROVE  WithinTier'
<1> SUFFICES ASSUME NEW u \in Users
             PROVE  Cardinality(ActiveClaims(u)') <= MaxActiveClaims(tier'[u])
    BY DEF WithinTier, ClaimsWithinTier
<1>1. ActiveClaims(u) \in SUBSET Jobs /\ ActiveClaims(u)' \in SUBSET Jobs
    BY DEF ActiveClaims
<1>2. /\ Cardinality(ActiveClaims(u)) \in Nat /\ Cardinality(ActiveClaims(u)') \in Nat
      /\ Cardinality(ActiveClaims(u)') <= Cardinality(ActiveClaims(u))
    BY <1>1, ClaimsFinite, FS_Subset
<1>3. reputation[u] \in Nat /\ reputation'[u] \in Nat
    BY DEF WithinTier, Consistent, TypeOK
<1>4. MaxActiveClaims(tier[u]) <= MaxActiveClaims(tier'[u])
    BY <1>3, LimitGrows DEF WithinTier, TierIsCurrent
<1>5. Cardinality(ActiveClaims(u)) <= MaxActiveClaims(tier[u])
    BY DEF WithinTier, ClaimsWithinTier
<1> QED BY <1>2, <1>4, <1>5, LimitType

LEMMA ClaimWithinTier ==
    ASSUME WithinTier, NEW j \in Jobs, NEW u \in Users, ClaimJob(j, u), Consistent'
    PROVE  WithinTier'
<1>1. UNCHANGED <<reputation, tier>>
    BY DEF ClaimJob
<1>2. TierIsCurrent'
    BY <1>1 DEF WithinTier, TierIsCurrent
<1> SUFFICES ASSUME NEW v \in Users
             PROVE  Cardinality(ActiveClaims(v)') <= MaxActiveClaims(tier'[v])
    BY <1>2 DEF WithinTier, ClaimsWithinTier
<1>3. ActiveClaims(v) \in SUBSET Jobs /\ ActiveClaims(v)' \in SUBSET Jobs
    BY DEF ActiveClaims
<1>4. Cardinality(ActiveClaims(v)) <= MaxActiveClaims(tier[v])
    BY DEF WithinTier, ClaimsWithinTier
<1>5. CASE v = u
    <2>1. ActiveClaims(v)' \subseteq ActiveClaims(v) \cup {j}
        BY <1>5 DEF ClaimJob, ActiveClaims, WithinTier, Consistent, TypeOK
    <2>2. IsFiniteSet(ActiveClaims(v)) /\ Cardinality(ActiveClaims(v)) \in Nat
        BY <1>3, ClaimsFinite
    <2>3. /\ IsFiniteSet(ActiveClaims(v) \cup {j})
          /\ Cardinality(ActiveClaims(v) \cup {j}) <= Cardinality(ActiveClaims(v)) + 1
        <3>1. j \notin ActiveClaims(v)
            BY DEF ClaimJob, ActiveClaims
        <3> QED BY <2>2, <3>1, FS_AddElement
    <2>4. /\ Cardinality(ActiveClaims(v)') <= Cardinality(ActiveClaims(v) \cup {j})
          /\ Cardinality(ActiveClaims(v)') \in Nat
          /\ Cardinality(ActiveClaims(v) \cup {j}) \in Nat
        BY <1>3, <2>1, <2>3, ClaimsFinite, FS_Subset, FS_CardinalityType
    <2>5. Cardinality(ActiveClaims(v)) < MaxActiveClaims(tier[v])
        BY <1>5 DEF ClaimJob
    <2> QED BY <1>1, <2>2, <2>3, <2>4, <2>5, LimitType
<1>6. CASE v # u
    <2>1. ActiveClaims(v)' = ActiveClaims(v)
        <3>1. status \in [Jobs -> Statuses] /\ claimedBy \in [Jobs -> Users \cup {NoUser}]
            BY DEF WithinTier, Consistent, TypeOK
        <3>2. status[j] = "open" /\ claimedBy'[j] = u
            BY <3>1 DEF ClaimJob
        <3>3. \A k \in Jobs : k # j => status'[k] = status[k] /\ claimedBy'[k] = claimedBy[k]
            BY <3>1 DEF ClaimJob
        <3> QED BY <1>6, <3>2, <3>3 DEF ActiveClaims
    <2> QED BY <1>1, <1>4, <2>1
<1> QED BY <1>5, <1>6

LEMMA NextWithinTier ==
    ASSUME WithinTier, [Next]_vars
    PROVE  WithinTier'
<1>1. Consistent' /\ Consistent
    BY NextConsistent DEF WithinTier
<1>2. ASSUME NEW j \in Jobs, NEW u \in Users, WebClaim(j, u) \/ ApiClaim(j, u)
      PROVE  WithinTier'
    BY <1>1, <1>2, ClaimWithinTier DEF WebClaim, ApiClaim
<1>3. ASSUME UNCHANGED <<reputation, tier>>,
             \A u \in Users : ActiveClaims(u)' \subseteq ActiveClaims(u)
      PROVE  WithinTier'
    <2>1. TierIsCurrent'
        BY <1>3 DEF WithinTier, TierIsCurrent
    <2>2. \A u \in Users : reputation'[u] >= reputation[u]
        BY <1>1, <1>3 DEF Consistent, TypeOK
    <2> QED BY <1>1, <1>3, <2>1, <2>2, LimitsKept
<1>4. ASSUME NEW j \in Jobs, NEW b \in Bounties, CreateJob(j, b) PROVE WithinTier'
    BY <1>1, <1>3, <1>4 DEF CreateJob, ActiveClaims, Consistent, TypeOK
<1>5. ASSUME NEW j \in Jobs, MarkRunning(j) \/ StartThread(j) PROVE WithinTier'
    <2>1. CASE MarkRunning(j)
        <3>1. status[j] = "claimed"
            BY <1>1, <2>1, MarkRunningConsistent
        <3> QED BY <1>1, <1>3, <2>1, <3>1 DEF MarkRunning, ActiveClaims, Consistent, TypeOK
    <2>2. CASE StartThread(j)
        BY <1>3, <2>2 DEF StartThread, ActiveClaims
    <2> QED BY <1>5, <2>1, <2>2
<1>6. ASSUME NEW j \in Jobs, FinishFailed(j) PROVE WithinTier'
    BY <1>1, <1>3, <1>6 DEF FinishFailed, ActiveClaims, Consistent, TypeOK
<1>7. ASSUME NEW j \in Jobs, FinishSolved(j) PROVE WithinTier'
    <2>1. \A u \in Users : ActiveClaims(u)' \subseteq ActiveClaims(u)
        BY <1>1, <1>7 DEF FinishSolved, ActiveClaims, Consistent, TypeOK
    <2>2. \A u \in Users : reputation[u] \in Nat /\ Earned(j, u) \in Nat
        BY <1>1, EarnedType DEF Consistent, TypeOK
    <2>3. \A u \in Users : reputation'[u] >= reputation[u]
        BY <1>7, <2>2 DEF FinishSolved
    <2>4. TierIsCurrent'
        <3> SUFFICES ASSUME NEW u \in Users PROVE tier'[u] = TierOf(reputation'[u])
            BY DEF TierIsCurrent
        <3>1. CASE u \in {claimedBy[j], InvitedBy[claimedBy[j]]}
            BY <1>7, <3>1 DEF FinishSolved
        <3>2. CASE u \notin {claimedBy[j], InvitedBy[claimedBy[j]]}
            <4>1. reputation'[u] = reputation[u]
                BY <1>7, <2>2, <3>2 DEF FinishSolved, Earned
            <4> QED BY <1>7, <3>2, <4>1 DEF FinishSolved, WithinTier, TierIsCurrent
        <3> QED BY <3>1, <3>2
    <2> QED BY <1>1, <2>1, <2>3, <2>4, LimitsKept
<1>8. CASE UNCHANGED vars
    BY <1>3, <1>8 DEF vars, ActiveClaims
<1> QED BY <1>2, <1>4, <1>5, <1>6, <1>7, <1>8 DEF Next, Finish

LEMMA InitWithinTier == Init => WithinTier
<1> SUFFICES ASSUME Init PROVE WithinTier
    OBVIOUS
<1>1. TierIsCurrent
    BY DEF Init, TierIsCurrent
<1>2. ClaimsWithinTier
    <2> SUFFICES ASSUME NEW u \in Users
                 PROVE  Cardinality(ActiveClaims(u)) <= MaxActiveClaims(tier[u])
        BY DEF ClaimsWithinTier
    <2>1. ActiveClaims(u) = {}
        BY DEF Init, ActiveClaims
    <2> QED BY <2>1, FS_EmptySet, LimitType
<1> QED BY <1>1, <1>2, InitConsistent DEF WithinTier

\* No user ever holds more unfinished jobs than the user's current tier
\* allows (store.py:375-387), although claims, runs and rewards interleave.
THEOREM ClaimsStayWithinTier == Spec => []ClaimsWithinTier
<1>1. WithinTier /\ [Next]_vars => WithinTier'
    BY NextWithinTier
<1>2. WithinTier => ClaimsWithinTier
    BY DEF WithinTier
<1> QED BY InitWithinTier, <1>1, <1>2, PTL DEF Spec

-----------------------------------------------------------------------------
(* Accounts.                                                               *)

\* A job pays as many points as its reward and its bounty add up to.
LEMMA PointsOfJob ==
    ASSUME NEW j, NEW p \in Nat
    PROVE  IsFiniteSet({j} \X (1..p)) /\ Cardinality({j} \X (1..p)) = p
<1>1. IsFiniteSet(1..p) /\ Cardinality(1..p) = p
    BY FS_Interval
<1>2. IsFiniteSet({j}) /\ Cardinality({j}) = 1
    BY FS_Singleton
<1> QED BY <1>1, <1>2, FS_Product

Earnings(u) ==
    /\ IsFiniteSet(Points(u))
    /\ reputation[u] = InitialReputation(u) + Cardinality(Points(u))
           + REP_INVITE_BONUS * Cardinality(SolvedByInvitees(u))

Counters(u) ==
    /\ jobsClaimed[u] = Cardinality(ClaimedBy(u))
    /\ jobsSolved[u] = Cardinality(SolvedBy(u))
    /\ jobsFailed[u] = Cardinality(FailedBy(u))

\* Inductive.
Balanced == WithinTier /\ \A u \in Users : Earnings(u) /\ Counters(u)

LEMMA InitBalanced == Init /\ WithinTier => Balanced
<1> SUFFICES ASSUME Init, WithinTier, NEW u \in Users
             PROVE  Earnings(u) /\ Counters(u)
    BY DEF Balanced
<1>1. \A v \in Users : SolvedBy(v) = {} /\ ClaimedBy(v) = {} /\ FailedBy(v) = {}
    <2>1. \A v \in Users : v # NoUser
        BY JobBoardAssumption
    <2> QED BY <2>1 DEF Init, SolvedBy, ClaimedBy, FailedBy
<1>2. Points(u) = {} /\ SolvedByInvitees(u) = {}
    BY <1>1 DEF Points, SolvedByInvitees, Invitees
<1>3. InitialReputation(u) \in Nat
    BY DEF InitialReputation, REP_INITIAL, REP_INVITED
<1>4. Counters(u)
    BY <1>1, FS_EmptySet DEF Init, Counters
<1>5. Earnings(u)
    BY <1>2, <1>3, FS_EmptySet DEF Init, Earnings, REP_INVITE_BONUS
<1> QED BY <1>4, <1>5

\* Nothing is earned where nothing is solved.
LEMMA EarningsKept ==
    ASSUME Balanced, UNCHANGED reputation,
           \A u \in Users : SolvedBy(u)' = SolvedBy(u),
           \A j \in Jobs : status[j] = "solved" => bounty'[j] = bounty[j]
    PROVE  \A u \in Users : Earnings(u)'
<1> SUFFICES ASSUME NEW u \in Users PROVE Earnings(u)'
    OBVIOUS
<1>1. \A j \in SolvedBy(u) : bounty'[j] = bounty[j]
    BY DEF SolvedBy
<1>2. Points(u)' = Points(u)
    <2>1. Points(u)' = UNION {{j} \X (1..(REP_JOB_SOLVED + bounty'[j])) : j \in SolvedBy(u)}
        BY DEF Points
    <2> QED BY <1>1, <2>1 DEF Points
<1>3. SolvedByInvitees(u)' = SolvedByInvitees(u)
    BY DEF SolvedByInvitees, Invitees
<1> QED BY <1>2, <1>3 DEF Balanced, Earnings

LEMMA ClaimBalanced ==
    ASSUME Balanced, WithinTier', NEW j \in Jobs, NEW u \in Users, ClaimJob(j, u)
    PROVE  Balanced'
<1>1. /\ status \in [Jobs -> Statuses] /\ claimedBy \in [Jobs -> Users \cup {NoUser}]
      /\ jobsClaimed \in [Users -> Nat]
      /\ status[j] = "open" /\ claimedBy[j] = NoUser
    BY DEF Balanced, WithinTier, Consistent, TypeOK, OneRunPerJob, ClaimJob
<1>2. /\ status' = [status EXCEPT ![j] = "claimed"] /\ claimedBy' = [claimedBy EXCEPT ![j] = u]
      /\ jobsClaimed' = [jobsClaimed EXCEPT ![u] = @ + 1]
      /\ UNCHANGED <<bounty, reputation, jobsSolved, jobsFailed>>
    BY DEF ClaimJob
<1>3. \A v \in Users : v # NoUser
    BY JobBoardAssumption
<1>4. \A v \in Users : SolvedBy(v)' = SolvedBy(v) /\ FailedBy(v)' = FailedBy(v)
    BY <1>1, <1>2, <1>3 DEF SolvedBy, FailedBy
<1>5. \A v \in Users : Earnings(v)'
    BY <1>2, <1>4, EarningsKept
<1>6. ASSUME NEW v \in Users PROVE Counters(v)'
    <2>1. Counters(v)
        BY DEF Balanced
    <2>2. CASE v = u
        <3>1. ClaimedBy(v)' = ClaimedBy(v) \cup {j} /\ j \notin ClaimedBy(v)
            BY <1>1, <1>2, <1>3, <2>2 DEF ClaimedBy
        <3>2. IsFiniteSet(ClaimedBy(v))
            BY ClaimsFinite DEF ClaimedBy
        <3>3. Cardinality(ClaimedBy(v)') = Cardinality(ClaimedBy(v)) + 1
            BY <3>1, <3>2, FS_AddElement
        <3> QED BY <1>1, <1>2, <1>4, <2>1, <2>2, <3>3 DEF Counters
    <2>3. CASE v # u
        <3>1. ClaimedBy(v)' = ClaimedBy(v)
            BY <1>1, <1>2, <1>3, <2>3 DEF ClaimedBy
        <3> QED BY <1>1, <1>2, <1>4, <2>1, <2>3, <3>1 DEF Counters
    <2> QED BY <2>2, <2>3
<1> QED BY <1>5, <1>6 DEF Balanced

\* A solved job pays its solver and the solver's inviter, and nobody else.
LEMMA SolvingPays ==
    ASSUME Balanced, Consistent', NEW j \in Jobs, FinishSolved(j), NEW u \in Users
    PROVE  Earnings(u)'
<1> DEFINE c == claimedBy[j]
<1>1. /\ c \in Users /\ status[j] = "running" /\ bounty[j] \in Nat
      /\ status \in [Jobs -> Statuses] /\ reputation[u] \in Nat
    <2>1. Consistent /\ threads[j] > 0
        BY DEF Balanced, WithinTier, FinishSolved, ThreadEnds
    <2>2. c \in Users /\ status[j] = "running"
        BY <2>1, ThreadAlone
    <2> QED BY <2>1, <2>2 DEF Consistent, TypeOK
<1>2. /\ status' = [status EXCEPT ![j] = "solved"] /\ UNCHANGED <<claimedBy, bounty>>
      /\ reputation'[u] = reputation[u] + Earned(j, u)
    BY DEF FinishSolved
<1>3. InvitedBy[c] # c
    BY <1>1, JobBoardAssumption
<1>4. /\ SolvedBy(c)' = SolvedBy(c) \cup {j} /\ \A v \in Users : j \notin SolvedBy(v)
      /\ \A v \in Users : v # c => SolvedBy(v)' = SolvedBy(v)
    BY <1>1, <1>2 DEF SolvedBy
<1>5. Earnings(u)
    BY DEF Balanced
<1> DEFINE paid == {j} \X (1..(REP_JOB_SOLVED + bounty[j]))
<1>6. /\ IsFiniteSet(Points(u)') /\ Cardinality(Points(u)) \in Nat
      /\ Cardinality(Points(u)') =
             Cardinality(Points(u)) + IF u = c THEN REP_JOB_SOLVED + bounty[j] ELSE 0
    <2>1. IsFiniteSet(Points(u)) /\ Cardinality(Points(u)) \in Nat
        BY <1>5, FS_CardinalityType DEF Earnings
    <2>2. CASE u = c
        <3>1. Points(u)' = Points(u) \cup paid
            BY <1>2, <1>4, <2>2 DEF Points
        <3>2. Points(u) \cap paid = {}
            BY <1>4 DEF Points
        <3>3. IsFiniteSet(paid) /\ Cardinality(paid) = REP_JOB_SOLVED + bounty[j]
            <4>1. REP_JOB_SOLVED + bounty[j] \in Nat
                BY <1>1 DEF REP_JOB_SOLVED
            <4> QED BY <4>1, PointsOfJob
        <3>4. /\ IsFiniteSet(Points(u) \cup paid)
              /\ Cardinality(Points(u) \cup paid) = Cardinality(Points(u)) + Cardinality(paid) - 0
            BY <2>1, <3>2, <3>3, FS_Union, FS_EmptySet
        <3> QED BY <1>1, <2>1, <2>2, <3>1, <3>3, <3>4 DEF REP_JOB_SOLVED
    <2>3. CASE u # c
        <3>1. Points(u)' = Points(u)
            BY <1>2, <1>4, <2>3 DEF Points
        <3> QED BY <2>1, <2>3, <3>1
    <2> QED BY <2>2, <2>3
<1>7. /\ Cardinality(SolvedByInvitees(u)) \in Nat
      /\ Cardinality(SolvedByInvitees(u)') =
             Cardinality(SolvedByInvitees(u)) + IF u = InvitedBy[c] THEN 1 ELSE 0
    <2>1. SolvedByInvitees(u) \in SUBSET Jobs /\ j \notin SolvedByInvitees(u)
        BY <1>4 DEF SolvedByInvitees, SolvedBy, Invitees
    <2>2. IsFiniteSet(SolvedByInvitees(u)) /\ Cardinality(SolvedByInvitees(u)) \in Nat
        BY <2>1, ClaimsFinite
    <2>3. CASE u = InvitedBy[c]
        <3>1. SolvedByInvitees(u)' = SolvedByInvitees(u) \cup {j}
            <4>1. c \in Invitees(u)
                BY <1>1, <2>3 DEF Invitees
            <4>2. Invitees(u)' = Invitees(u) /\ Invitees(u) \subseteq Users
                BY DEF Invitees
            <4>3. ASSUME NEW v \in Invitees(u)
                  PROVE  SolvedBy(v)' = IF v = c THEN SolvedBy(v) \cup {j} ELSE SolvedBy(v)
                <5>1. v \in Users
                    BY <4>2
                <5>2. CASE v = c
                    <6>1. SolvedBy(v)' = {w \in Jobs : status'[w] = "solved" /\ claimedBy'[w] = v}
                        BY DEF SolvedBy
                    <6>2. SolvedBy(v) = {w \in Jobs : status[w] = "solved" /\ claimedBy[w] = v}
                        BY DEF SolvedBy
                    <6> QED BY <1>1, <1>2, <5>2, <6>1, <6>2
                <5>3. CASE v # c
                    BY <1>4, <5>1, <5>3
                <5> QED BY <5>2, <5>3
            <4>4. SolvedByInvitees(u)' = UNION {SolvedBy(v)' : v \in Invitees(u)}
                BY <4>2 DEF SolvedByInvitees
            <4> QED BY <4>1, <4>3, <4>4 DEF SolvedByInvitees
        <3> QED BY <2>1, <2>2, <2>3, <3>1, FS_AddElement
    <2>4. CASE u # InvitedBy[c]
        <3>1. c \notin Invitees(u)
            BY <2>4 DEF Invitees
        <3>2. SolvedByInvitees(u)' = SolvedByInvitees(u)
            BY <1>4, <3>1 DEF SolvedByInvitees, Invitees
        <3> QED BY <2>2, <2>4, <3>2
    <2> QED BY <2>3, <2>4
<1>8. Earned(j, u) = (IF u = c THEN REP_JOB_SOLVED + bounty[j] ELSE 0)
                         + (IF u = InvitedBy[c] THEN REP_INVITE_BONUS ELSE 0)
    BY DEF Earned
<1>9. InitialReputation(u) \in Nat
    BY DEF InitialReputation, REP_INITIAL, REP_INVITED
<1> HIDE DEF c
<1> QED BY <1>1, <1>2, <1>5, <1>6, <1>7, <1>8, <1>9 DEF Earnings, REP_INVITE_BONUS, REP_JOB_SOLVED

LEMMA FinishBalanced ==
    ASSUME Balanced, WithinTier', NEW j \in Jobs, Finish(j)
    PROVE  Balanced'
<1> DEFINE c == claimedBy[j]
<1>1. /\ c \in Users /\ status[j] = "running" /\ status \in [Jobs -> Statuses]
      /\ jobsSolved \in [Users -> Nat] /\ jobsFailed \in [Users -> Nat]
    <2>1. Consistent /\ threads[j] > 0
        BY DEF Balanced, WithinTier, Finish, FinishSolved, FinishFailed, ThreadEnds
    <2>2. c \in Users /\ status[j] = "running"
        BY <2>1, ThreadAlone
    <2> QED BY <2>1, <2>2 DEF Consistent, TypeOK
<1>2. \A v \in Users : /\ IsFiniteSet(SolvedBy(v)) /\ IsFiniteSet(FailedBy(v))
                       /\ j \notin SolvedBy(v) /\ j \notin FailedBy(v)
    BY <1>1, ClaimsFinite DEF SolvedBy, FailedBy
<1>3. CASE FinishSolved(j)
    <2>1. \A v \in Users : Earnings(v)'
        BY <1>3, SolvingPays DEF WithinTier
    <2>2. ASSUME NEW v \in Users PROVE Counters(v)'
        <3>1. Counters(v) /\ ClaimedBy(v)' = ClaimedBy(v) /\ FailedBy(v)' = FailedBy(v)
            BY <1>1, <1>3 DEF Balanced, ClaimedBy, FailedBy, FinishSolved
        <3>2. SolvedBy(v)' = IF v = c THEN SolvedBy(v) \cup {j} ELSE SolvedBy(v)
            BY <1>1, <1>3 DEF SolvedBy, FinishSolved
        <3>3. Cardinality(SolvedBy(v)') = Cardinality(SolvedBy(v)) + IF v = c THEN 1 ELSE 0
            <4>1. Cardinality(SolvedBy(v)) \in Nat
                BY <1>2, FS_CardinalityType
            <4>2. Cardinality(SolvedBy(v) \cup {j}) = Cardinality(SolvedBy(v)) + 1
                BY <1>2, FS_AddElement
            <4> QED BY <3>2, <4>1, <4>2
        <3>4. /\ jobsSolved'[v] = jobsSolved[v] + IF v = c THEN 1 ELSE 0
              /\ UNCHANGED <<jobsClaimed, jobsFailed>>
            BY <1>1, <1>3 DEF FinishSolved
        <3> QED BY <3>1, <3>3, <3>4 DEF Counters
    <2> QED BY <2>1, <2>2 DEF Balanced
<1>4. CASE FinishFailed(j)
    <2>1. \A v \in Users : SolvedBy(v)' = SolvedBy(v) /\ ClaimedBy(v)' = ClaimedBy(v)
        BY <1>1, <1>4 DEF SolvedBy, ClaimedBy, FinishFailed
    <2>2. \A v \in Users : Earnings(v)'
        BY <1>4, <2>1, EarningsKept DEF FinishFailed
    <2>3. ASSUME NEW v \in Users PROVE Counters(v)'
        <3>1. FailedBy(v)' = IF v = c THEN FailedBy(v) \cup {j} ELSE FailedBy(v)
            BY <1>1, <1>4 DEF FailedBy, FinishFailed
        <3>2. Cardinality(FailedBy(v)') = Cardinality(FailedBy(v)) + IF v = c THEN 1 ELSE 0
            <4>1. Cardinality(FailedBy(v)) \in Nat
                BY <1>2, FS_CardinalityType
            <4>2. Cardinality(FailedBy(v) \cup {j}) = Cardinality(FailedBy(v)) + 1
                BY <1>2, FS_AddElement
            <4> QED BY <3>1, <4>1, <4>2
        <3>3. /\ jobsFailed'[v] = jobsFailed[v] + IF v = c THEN 1 ELSE 0
              /\ UNCHANGED <<jobsClaimed, jobsSolved>>
            BY <1>1, <1>4 DEF FinishFailed
        <3> QED BY <2>1, <3>2, <3>3 DEF Balanced, Counters
    <2> QED BY <2>2, <2>3 DEF Balanced
<1> QED BY <1>3, <1>4 DEF Finish

LEMMA NextBalanced ==
    ASSUME Balanced, [Next]_vars
    PROVE  Balanced'
<1>1. WithinTier /\ WithinTier' /\ Consistent /\ TypeOK
    BY NextWithinTier DEF Balanced, WithinTier, Consistent
<1>2. ASSUME UNCHANGED <<reputation, jobsClaimed, jobsSolved, jobsFailed>>,
             \A u \in Users : /\ SolvedBy(u)' = SolvedBy(u) /\ ClaimedBy(u)' = ClaimedBy(u)
                              /\ FailedBy(u)' = FailedBy(u),
             \A j \in Jobs : status[j] = "solved" => bounty'[j] = bounty[j]
      PROVE  Balanced'
    <2>1. \A u \in Users : Earnings(u)'
        BY <1>2, EarningsKept
    <2>2. \A u \in Users : Counters(u)'
        BY <1>2 DEF Balanced, Counters
    <2> QED BY <1>1, <2>1, <2>2 DEF Balanced
<1>3. ASSUME NEW j \in Jobs, NEW b \in Bounties, CreateJob(j, b) PROVE Balanced'
    <2>1. \A i \in Jobs : status[i] = "solved" => bounty'[i] = bounty[i]
        BY <1>1, <1>3 DEF CreateJob, TypeOK
    <2>2. \A u \in Users : SolvedBy(u)' = SolvedBy(u) /\ ClaimedBy(u)' = ClaimedBy(u)
                             /\ FailedBy(u)' = FailedBy(u)
        BY <1>1, <1>3 DEF CreateJob, TypeOK, SolvedBy, ClaimedBy, FailedBy
    <2> QED BY <1>2, <1>3, <2>1, <2>2 DEF CreateJob
<1>4. ASSUME NEW j \in Jobs, NEW u \in Users, WebClaim(j, u) \/ ApiClaim(j, u)
      PROVE  Balanced'
    BY <1>1, <1>4, ClaimBalanced DEF WebClaim, ApiClaim
<1>5. ASSUME NEW j \in Jobs, MarkRunning(j) PROVE Balanced'
    <2>1. status[j] = "claimed"
        BY <1>1, <1>5, MarkRunningConsistent
    <2>2. \A u \in Users : SolvedBy(u)' = SolvedBy(u) /\ ClaimedBy(u)' = ClaimedBy(u)
                             /\ FailedBy(u)' = FailedBy(u)
        BY <1>1, <1>5, <2>1 DEF MarkRunning, TypeOK, SolvedBy, ClaimedBy, FailedBy
    <2> QED BY <1>2, <1>5, <2>2 DEF MarkRunning
<1>8. ASSUME NEW j \in Jobs, StartThread(j) PROVE Balanced'
    BY <1>2, <1>8 DEF StartThread, SolvedBy, ClaimedBy, FailedBy
<1>6. ASSUME NEW j \in Jobs, Finish(j) PROVE Balanced'
    BY <1>1, <1>6, FinishBalanced
<1>7. CASE UNCHANGED vars
    BY <1>2, <1>7 DEF vars, SolvedBy, ClaimedBy, FailedBy
<1> QED BY <1>3, <1>4, <1>5, <1>6, <1>7, <1>8 DEF Next

\* store.py:399-428: every account can be recomputed from the board.  Each
\* solved job has paid its solver and the solver's inviter exactly once (so the
\* inviter more than once for an invitee who solves several), the
\* counters count jobs, and the tier follows the reputation.
THEOREM AccountsAlwaysAddUp == Spec => []AccountsAddUp
<1>1. Init => Balanced
    BY InitWithinTier, InitBalanced
<1>2. Balanced /\ [Next]_vars => Balanced'
    BY NextBalanced
<1>3. Balanced => AccountsAddUp
    BY DEF Balanced, Earnings, Counters, WithinTier, TierIsCurrent, AccountsAddUp
<1> QED BY <1>1, <1>2, <1>3, PTL DEF Spec

-----------------------------------------------------------------------------
(* The abstract contract: no job is taken back, passed on or closed twice.  *)

LEMMA StepsKeepContract ==
    ASSUME Consistent, [Next]_vars
    PROVE  [Contract!Next]_(Contract!vars)
<1> USE DEF Consistent, TypeOK, Contract!vars
<1>1. ASSUME NEW j \in Jobs, NEW b \in Bounties, CreateJob(j, b)
      PROVE  Contract!Post(j)
    BY <1>1 DEF CreateJob, Contract!Post
<1>2. ASSUME NEW j \in Jobs, NEW u \in Users, ClaimJob(j, u)
      PROVE  Contract!Take(j, u)
    BY <1>2 DEF ClaimJob, Contract!Take
<1>3. ASSUME NEW j \in Jobs, MarkRunning(j) \/ StartThread(j)
      PROVE  UNCHANGED Contract!vars
    <2>1. CASE MarkRunning(j)
        <3>1. status[j] = "claimed"
            BY <2>1, MarkRunningConsistent
        <3> QED BY <2>1, <3>1 DEF MarkRunning
    <2>2. CASE StartThread(j)
        BY <2>2 DEF StartThread
    <2> QED BY <1>3, <2>1, <2>2
<1>4. ASSUME NEW j \in Jobs, Finish(j)
      PROVE  Contract!Close(j)
    <2>1. status[j] = "running"
        BY <1>4, ThreadAlone DEF Finish, FinishSolved, FinishFailed, ThreadEnds
    <2> QED BY <1>4, <2>1 DEF Finish, FinishSolved, FinishFailed, Contract!Close
<1>5. CASE UNCHANGED vars
    BY <1>5 DEF vars
<1> QED BY <1>1, <1>2, <1>3, <1>4, <1>5 DEF Next, WebClaim, ApiClaim, Contract!Next

\* Whatever the request threads and the job threads do, each job is taken at
\* most once and closed at most once, and counts once for its holder.
THEOREM BoardKeepsContract == Spec => KeepsContract
<1>1. Init => Contract!Init
    BY DEF Init, Contract!Init
<1>2. Consistent /\ [Next]_vars => [Contract!Next]_(Contract!vars)
    BY StepsKeepContract
<1>3. Consistent /\ [Next]_vars => Consistent'
    BY NextConsistent
<1> QED BY <1>1, <1>2, <1>3, InitConsistent, PTL DEF Spec, KeepsContract, Contract!Spec
=============================================================================
