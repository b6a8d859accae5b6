------------------------------ MODULE JobBoard ------------------------------
(***************************************************************************)
(* The jobs and reputations of gradatim/web/store.py, and the request and  *)
(* job threads of gradatim/web/server.py that drive them.  Every Store     *)
(* method runs under one lock and is one step; the handler of a web claim  *)
(* makes two of them and then starts a thread that makes the third, so     *)
(* other requests run in between.  Handlers and threads are counted for    *)
(* each job: nothing but the status keeps a job from being run twice.      *)
(* Left out, because no step reads them:                                   *)
(* titles, times, results, the poster and its jobs_posted, workers (only   *)
(* appended to), and the activity log.  A restart clears everything and    *)
(* is Init again.                                                          *)
(***************************************************************************)
EXTENDS Integers, FiniteSets

CONSTANTS
    Users,      \* the registered users
    Jobs,       \* the jobs that may be posted
    NoUser,     \* None
    InvitedBy,  \* invited_by: the inviter of each user, or NoUser
    Bounties    \* the bounties a job may be posted with

REP_JOB_SOLVED   == 25
REP_INVITE_BONUS == 5
REP_INITIAL      == 10
REP_INVITED      == 50

ASSUME JobBoardAssumption ==
    /\ IsFiniteSet(Jobs)
    /\ NoUser \notin Users
    /\ InvitedBy \in [Users -> Users \cup {NoUser}]
    /\ \A u \in Users : InvitedBy[u] # u
    /\ Bounties \subseteq Nat

Tiers == {"newcomer", "contributor", "trusted", "expert"}

\* _get_tier
TierOf(reputation) ==
    IF reputation >= 500 THEN "expert"
    ELSE IF reputation >= 200 THEN "trusted"
    ELSE IF reputation >= 50 THEN "contributor"
    ELSE "newcomer"

\* _max_active_claims
MaxActiveClaims(tier) ==
    IF tier = "expert" THEN 50
    ELSE IF tier = "trusted" THEN 10
    ELSE IF tier = "contributor" THEN 3
    ELSE 1

InitialReputation(u) == IF InvitedBy[u] = NoUser THEN REP_INITIAL ELSE REP_INVITED

VARIABLES
    status,      \* of each job; "absent" before it is posted
    claimedBy,   \* claimed_by of each job
    bounty,      \* of each job
    toMark,      \* handlers that have claimed the job and go on to mark it
    toStart,     \* handlers that have marked it and go on to start its thread
    threads,     \* threads at work on the job
    unstarted,   \* jobs whose thread could not be started
    reputation,  \* of each user
    tier,        \* of each user, kept beside the reputation
    jobsClaimed, jobsSolved, jobsFailed   \* the counters of each user

runVars  == <<toMark, toStart, threads, unstarted>>
jobVars  == <<status, claimedBy, bounty, runVars>>
userVars == <<reputation, tier, jobsClaimed, jobsSolved, jobsFailed>>
vars == <<jobVars, userVars>>

Init ==
    /\ status = [j \in Jobs |-> "absent"]
    /\ claimedBy = [j \in Jobs |-> NoUser]
    /\ bounty = [j \in Jobs |-> 0]
    /\ toMark = [j \in Jobs |-> 0]
    /\ toStart = [j \in Jobs |-> 0]
    /\ threads = [j \in Jobs |-> 0]
    /\ unstarted = {}
    /\ reputation = [u \in Users |-> InitialReputation(u)]
    /\ tier = [u \in Users |-> TierOf(InitialReputation(u))]
    /\ jobsClaimed = [u \in Users |-> 0]
    /\ jobsSolved = [u \in Users |-> 0]
    /\ jobsFailed = [u \in Users |-> 0]

-----------------------------------------------------------------------------
CreateJob(j, b) ==
    /\ status[j] = "absent"
    /\ status' = [status EXCEPT ![j] = "open"]
    /\ bounty' = [bounty EXCEPT ![j] = b]
    /\ UNCHANGED <<claimedBy, runVars, userVars>>

\* The jobs that count against a user's limit.
ActiveClaims(u) ==
    {j \in Jobs : claimedBy[j] = u /\ status[j] \in {"claimed", "running"}}

\* Mutants of ClaimJob: the limit off by one, a failed job open again, a job
\* claimed over another claim.
ClaimJobPastLimit(j, u) ==
    /\ status[j] = "open"
    /\ Cardinality(ActiveClaims(u)) <= MaxActiveClaims(tier[u])
    /\ status' = [status EXCEPT ![j] = "claimed"]
    /\ claimedBy' = [claimedBy EXCEPT ![j] = u]
    /\ jobsClaimed' = [jobsClaimed EXCEPT ![u] = @ + 1]
    /\ UNCHANGED <<bounty, reputation, tier, jobsSolved, jobsFailed>>

ClaimJobFrom(j, u, claimable) ==
    /\ status[j] \in claimable
    /\ Cardinality(ActiveClaims(u)) < MaxActiveClaims(tier[u])
    /\ status' = [status EXCEPT ![j] = "claimed"]
    /\ claimedBy' = [claimedBy EXCEPT ![j] = u]
    /\ jobsClaimed' = [jobsClaimed EXCEPT ![u] = @ + 1]
    /\ UNCHANGED <<bounty, reputation, tier, jobsSolved, jobsFailed>>

ClaimJobOver(j, u) == ClaimJobFrom(j, u, {"open", "claimed"})

\* claim_job: checks and claim under one lock.
ClaimJob(j, u) ==
    /\ status[j] = "open"
    /\ Cardinality(ActiveClaims(u)) < MaxActiveClaims(tier[u])
    /\ status' = [status EXCEPT ![j] = "claimed"]
    /\ claimedBy' = [claimedBy EXCEPT ![j] = u]
    /\ jobsClaimed' = [jobsClaimed EXCEPT ![u] = @ + 1]
    /\ UNCHANGED <<bounty, reputation, tier, jobsSolved, jobsFailed>>

\* POST /job/<id>/claim: the handler goes on to run the job.
WebClaim(j, u) ==
    /\ ClaimJob(j, u)
    /\ toMark' = [toMark EXCEPT ![j] = @ + 1]
    /\ UNCHANGED <<toStart, threads, unstarted>>

\* POST /api/jobs/<id>/claim: the handler answers and is done.
ApiClaim(j, u) == ClaimJob(j, u) /\ UNCHANGED runVars

\* update_job_status(job, "running") in the handler of a web claim.
MarkRunning(j) ==
    /\ toMark[j] > 0
    /\ toMark' = [toMark EXCEPT ![j] = @ - 1]
    /\ toStart' = [toStart EXCEPT ![j] = @ + 1]
    /\ status' = [status EXCEPT ![j] = "running"]
    /\ UNCHANGED <<claimedBy, bounty, threads, unstarted, userVars>>

\* Mutant of StartThread: the thread is created and not started.
StartThreadForgotten(j) ==
    /\ toStart[j] > 0
    /\ toStart' = [toStart EXCEPT ![j] = @ - 1]
    /\ UNCHANGED <<status, claimedBy, bounty, toMark, threads, unstarted, userVars>>

\* The handler starts the job's thread; start() may raise, and the request
\* ends there.
StartThread(j) ==
    /\ toStart[j] > 0
    /\ toStart' = [toStart EXCEPT ![j] = @ - 1]
    /\ \/ threads' = [threads EXCEPT ![j] = @ + 1] /\ UNCHANGED unstarted
       \/ unstarted' = unstarted \cup {j} /\ UNCHANGED threads
    /\ UNCHANGED <<status, claimedBy, bounty, toMark, userVars>>

ThreadEnds(j) ==
    /\ threads[j] > 0
    /\ threads' = [threads EXCEPT ![j] = @ - 1]
    /\ UNCHANGED <<toMark, toStart, unstarted>>

\* Mutant of Earned: the bounty is forgotten.
EarnedWithoutBounty(j, u) ==
    (IF u = claimedBy[j] THEN REP_JOB_SOLVED ELSE 0)
        + (IF u = InvitedBy[claimedBy[j]] THEN REP_INVITE_BONUS ELSE 0)

\* update_job_status(job, "solved"): the solver earns the reward and the
\* bounty, whoever invited the solver earns the bonus.
Earned(j, u) ==
    (IF u = claimedBy[j] THEN REP_JOB_SOLVED + bounty[j] ELSE 0)
        + (IF u = InvitedBy[claimedBy[j]] THEN REP_INVITE_BONUS ELSE 0)

FinishSolved(j) ==
    /\ ThreadEnds(j)
    /\ status' = [status EXCEPT ![j] = "solved"]
    /\ jobsSolved' = [jobsSolved EXCEPT ![claimedBy[j]] = @ + 1]
    /\ reputation' = [u \in Users |-> reputation[u] + Earned(j, u)]
    /\ tier' = [u \in Users |-> IF u \in {claimedBy[j], InvitedBy[claimedBy[j]]}
                                THEN TierOf(reputation[u] + Earned(j, u)) ELSE tier[u]]
    /\ UNCHANGED <<claimedBy, bounty, jobsClaimed, jobsFailed>>

\* Mutant of FinishFailed: failing costs REP_INVALID_RESULT, with no floor.
FinishFailedPenalised(j) ==
    /\ ThreadEnds(j)
    /\ status' = [status EXCEPT ![j] = "failed"]
    /\ jobsFailed' = [jobsFailed EXCEPT ![claimedBy[j]] = @ + 1]
    /\ reputation' = [reputation EXCEPT ![claimedBy[j]] = @ - 50]
    /\ UNCHANGED <<claimedBy, bounty, tier, jobsClaimed, jobsSolved>>

\* The job's thread reports a failure, or raises and the catch-all does.
FinishFailed(j) ==
    /\ ThreadEnds(j)
    /\ status' = [status EXCEPT ![j] = "failed"]
    /\ jobsFailed' = [jobsFailed EXCEPT ![claimedBy[j]] = @ + 1]
    /\ UNCHANGED <<claimedBy, bounty, reputation, tier, jobsClaimed, jobsSolved>>

Finish(j) == FinishSolved(j) \/ FinishFailed(j)

Next ==
    \E j \in Jobs :
        \/ \E b \in Bounties : CreateJob(j, b)
        \/ \E u \in Users : WebClaim(j, u) \/ ApiClaim(j, u)
        \/ MarkRunning(j)
        \/ StartThread(j)
        \/ Finish(j)

\* The handler that claimed goes on, and the solvers are bounded computations
\* (initiate_factorization returns by its timeout), so job threads end.
\* Nobody is obliged to post or to claim.
BoardFairness ==
    \A j \in Jobs : WF_vars(MarkRunning(j)) /\ WF_vars(StartThread(j)) /\ WF_vars(Finish(j))

Spec == Init /\ [][Next]_vars /\ BoardFairness

-----------------------------------------------------------------------------
(* Properties.                                                             *)

Statuses == {"absent", "open", "claimed", "running", "solved", "failed"}

TypeOK ==
    /\ status \in [Jobs -> Statuses]
    /\ claimedBy \in [Jobs -> Users \cup {NoUser}]
    /\ bounty \in [Jobs -> Nat]
    /\ toMark \in [Jobs -> Nat] /\ toStart \in [Jobs -> Nat] /\ threads \in [Jobs -> Nat]
    /\ unstarted \subseteq Jobs
    /\ reputation \in [Users -> Nat]
    /\ tier \in [Users -> Tiers]
    /\ jobsClaimed \in [Users -> Nat]
    /\ jobsSolved \in [Users -> Nat]
    /\ jobsFailed \in [Users -> Nat]

\* store.py:375-387: no user ever holds more unfinished jobs than the tier
\* shown for that user allows, whichever way the claims came in and however
\* the tier has changed since.
ClaimsWithinTier ==
    \A u \in Users : Cardinality(ActiveClaims(u)) <= MaxActiveClaims(tier[u])

\* The requests and threads that are busy with running a job.
Runs(j) == toMark[j] + toStart[j] + threads[j]

\* server.py:304-315: a job is run by one request and one thread at most, it
\* is marked running before its thread works on it and not finished by one
\* while another goes on, and nobody is behind a running job only when its
\* thread could not be started.
OneRunPerJob ==
    \A j \in Jobs :
        /\ Runs(j) <= 1
        /\ toMark[j] = 1 => status[j] = "claimed"
        /\ status[j] = "running" <=> toStart[j] + threads[j] = 1 \/ j \in unstarted
        /\ j \in unstarted => Runs(j) = 0
        /\ status[j] \in {"absent", "open"} <=> claimedBy[j] = NoUser

SolvedBy(u) == {j \in Jobs : claimedBy[j] = u /\ status[j] = "solved"}
Invitees(u) == {v \in Users : InvitedBy[v] = u}

\* What solving has earned a user, point by point.
Points(u) == UNION {{j} \X (1..(REP_JOB_SOLVED + bounty[j])) : j \in SolvedBy(u)}

\* The solved jobs of those a user has invited.
SolvedByInvitees(u) == UNION {SolvedBy(v) : v \in Invitees(u)}

ClaimedBy(u) == {j \in Jobs : claimedBy[j] = u}
FailedBy(u)  == {j \in Jobs : claimedBy[j] = u /\ status[j] = "failed"}

\* A user's account can be recomputed from the board: reputation is what the
\* solved jobs pay, each once to its solver, bounty included, and once to the
\* inviter, for a first solve and for every later one (see BonusForFirstSolve);
\* the counters count jobs, the cached tier follows the reputation.
AccountsAddUp ==
    \A u \in Users :
        /\ reputation[u] = InitialReputation(u) + Cardinality(Points(u))
               + REP_INVITE_BONUS * Cardinality(SolvedByInvitees(u))
        /\ tier[u] = TierOf(reputation[u])
        /\ jobsClaimed[u] = Cardinality(ClaimedBy(u))
        /\ jobsSolved[u] = Cardinality(SolvedBy(u))
        /\ jobsFailed[u] = Cardinality(FailedBy(u))

\* store.py:35: "Bonus when your invitee first solves a job".
BonusForFirstSolve ==
    \A u \in Users :
        reputation[u] <= InitialReputation(u) + Cardinality(Points(u))
            + REP_INVITE_BONUS * Cardinality({v \in Invitees(u) : SolvedBy(v) # {}})

\* A job claimed through the page is eventually solved or failed, unless its
\* thread could not be started.
WebClaimsFinish ==
    \A j \in Jobs : toMark[j] > 0 ~> status[j] \in {"solved", "failed"} \/ j \in unstarted

\* store.py:386 tells a user at the limit to "Complete or release existing
\* jobs first.": a user at the limit gets below it again.
LimitIsTemporary ==
    \A u \in Users :
        Cardinality(ActiveClaims(u)) = MaxActiveClaims(tier[u])
            ~> Cardinality(ActiveClaims(u)) < MaxActiveClaims(tier[u])

\* The lifecycle of a job, seen without threads and tiers.
Contract == INSTANCE JobContract WITH
    phase     <- [j \in Jobs |-> IF status[j] \in {"claimed", "running"} THEN "held"
                                 ELSE IF status[j] \in {"solved", "failed"} THEN "closed"
                                 ELSE status[j]],
    holder    <- claimedBy,
    successes <- jobsSolved

KeepsContract == Contract!Spec
=============================================================================
