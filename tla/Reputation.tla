----------------------------- MODULE Reputation -----------------------------
(***************************************************************************)
(* What an agent does with a datagram before and while handling it         *)
(* (Agent._on_message_received) and the state it keeps about each sender   *)
(* (gradatim/reputation.py): the blacklist, the sliding-window rate        *)
(* limiter, the key a sender is known by, and the scores.                  *)
(*                                                                         *)
(* One listener thread handles one datagram at a time.  Stale datagrams    *)
(* and those without proof of work change nothing and are left out; so are *)
(* PEERS, ASSIGN and VERIFY, which pass the same filters and leave this    *)
(* state alone ("other").                                                  *)
(*                                                                         *)
(* The limiter keeps a list of times per sender, filters it and counts it; *)
(* nothing reads its order, so it is a set here, of entries that carry     *)
(* their time and a number that tells those of one tick apart.             *)
(***************************************************************************)
EXTENDS Integers, FiniteSets

CONSTANTS
    Senders,    \* the agents that send
    Keys,       \* key pairs
    NoKey,      \* the key of an unknown sender or a placeholder
    Window,     \* RATE_LIMIT_WINDOW: 60 seconds in the code
    MaxCount,   \* RATE_LIMIT_MAX: 100 in the code
    MaxTime     \* bound: how long the clock runs

INITIAL_REPUTATION     == 50
REWARD_VALID_RESULT    == 10
PENALTY_INVALID_RESULT == 50
BLACKLIST_THRESHOLD    == 0

ASSUME ReputationAssumption ==
    /\ NoKey \notin Keys
    /\ Window \in Nat \ {0} /\ MaxCount \in Nat \ {0} /\ MaxTime \in Nat

VARIABLES
    now,        \* time.time(), in ticks
    records,    \* RateLimiter._records: the entries kept for each sender
    score,      \* ReputationTracker._scores; the initial one when there is none
    blacklist,  \* ReputationTracker._blacklist
    key,        \* the public key in the sender's peer entry
    admitted,   \* history: the entries of all datagrams let through
    pardoned    \* history: the senders unblacklist was called for

vars == <<now, records, score, blacklist, key, admitted, pardoned>>

Init ==
    /\ now = 0
    /\ records = [s \in Senders |-> {}]
    /\ score = [s \in Senders |-> INITIAL_REPUTATION]
    /\ blacklist = {}
    /\ key = [s \in Senders |-> NoKey]
    /\ admitted = [s \in Senders |-> {}]
    /\ pardoned = {}

-----------------------------------------------------------------------------
Tick ==
    /\ now < MaxTime /\ now' = now + 1
    /\ UNCHANGED <<records, score, blacklist, key, admitted, pardoned>>

Recent(entries) == {e \in entries : e.at > now - Window}

Entry(kept) == [at |-> now, nr |-> Cardinality(kept)]

\* Mutant of Allow: refused datagrams count as well.
AllowRecordingAll(s) ==
    LET kept == Recent(records[s])
    IN  /\ records' = [records EXCEPT ![s] = kept \cup {Entry(kept)}]
        /\ IF Cardinality(kept) < MaxCount
           THEN admitted' = [admitted EXCEPT ![s] = @ \cup {Entry(kept)}]
           ELSE UNCHANGED admitted

Allowed(s) == Cardinality(Recent(records[s])) < MaxCount

\* RateLimiter.allow: prune, then count and record, or refuse.
Allow(s) ==
    LET kept == Recent(records[s])
    IN  IF Allowed(s)
        THEN /\ records' = [records EXCEPT ![s] = kept \cup {Entry(kept)}]
             /\ admitted' = [admitted EXCEPT ![s] = @ \cup {Entry(kept)}]
        ELSE /\ records' = [records EXCEPT ![s] = kept]
             /\ UNCHANGED admitted

Reward(s) ==
    /\ score' = [score EXCEPT ![s] = @ + REWARD_VALID_RESULT]
    /\ UNCHANGED blacklist

\* Mutant of Penalize: the blacklist does not follow the score.
PenalizeOnly(s) ==
    /\ score' = [score EXCEPT ![s] = @ - PENALTY_INVALID_RESULT]
    /\ UNCHANGED blacklist

\* penalize: the score falls, and below the threshold the sender is out.
Penalize(s) ==
    /\ score' = [score EXCEPT ![s] = @ - PENALTY_INVALID_RESULT]
    /\ blacklist' = IF score[s] - PENALTY_INVALID_RESULT < BLACKLIST_THRESHOLD
                    THEN blacklist \cup {s} ELSE blacklist

\* Mutant of Dispatch: the entry is filled with the wrong field of the HELLO.
DispatchSwappingFields(m) ==
    \/ /\ m.type = "HELLO"
       /\ key' = IF m.signer = m.carries THEN [key EXCEPT ![m.from] = m.from] ELSE key
       /\ UNCHANGED <<score, blacklist>>
    \/ /\ m.type = "RESULT"
       /\ IF m.valid THEN Reward(m.from) ELSE Penalize(m.from)
       /\ UNCHANGED key
    \/ /\ m.type = "other"
       /\ UNCHANGED <<key, score, blacklist>>

\* What the handler does: a HELLO whose signature fits the key it carries
\* enters that key; a RESULT for an active task is judged by its factors.
Dispatch(m) ==
    \/ /\ m.type = "HELLO"
       /\ key' = IF m.signer = m.carries THEN [key EXCEPT ![m.from] = m.carries] ELSE key
       /\ UNCHANGED <<score, blacklist>>
    \/ /\ m.type = "RESULT"
       /\ IF m.valid THEN Reward(m.from) ELSE Penalize(m.from)
       /\ UNCHANGED key
    \/ /\ m.type = "other"
       /\ UNCHANGED <<key, score, blacklist>>

\* Mutant of Receive: a HELLO is not checked against the key known already.
ReceiveTrustingHello(m) ==
    /\ m.from \notin blacklist
    /\ Allow(m.from)
    /\ IF ~Allowed(m.from)
       THEN UNCHANGED <<key, score, blacklist>>
       ELSE IF key[m.from] \notin {NoKey, m.signer} /\ m.type # "HELLO"
            THEN Penalize(m.from) /\ UNCHANGED key
            ELSE Dispatch(m)
    /\ UNCHANGED <<now, pardoned>>

\* _on_message_received: blacklist, rate limit, signature, handler.
Receive(m) ==
    /\ m.from \notin blacklist
    /\ Allow(m.from)
    /\ IF ~Allowed(m.from)
       THEN UNCHANGED <<key, score, blacklist>>
       ELSE IF key[m.from] \notin {NoKey, m.signer}
            THEN Penalize(m.from) /\ UNCHANGED key
            ELSE Dispatch(m)
    /\ UNCHANGED <<now, pardoned>>

\* unblacklist, the manual override: the score stays where it is.
Unblacklist(s) ==
    /\ s \in blacklist
    /\ blacklist' = blacklist \ {s}
    /\ pardoned' = pardoned \cup {s}
    /\ UNCHANGED <<now, records, score, key, admitted>>

Datagrams ==
    [type : {"HELLO"}, from : Senders, signer : Keys, carries : Keys]
        \cup [type : {"RESULT"}, from : Senders, signer : Keys, valid : BOOLEAN]
        \cup [type : {"other"}, from : Senders, signer : Keys]

Next ==
    \/ Tick
    \/ \E m \in Datagrams : Receive(m)
    \/ \E s \in Senders : Unblacklist(s)

Spec == Init /\ [][Next]_vars

-----------------------------------------------------------------------------
(* Properties.                                                             *)

Times   == 0..MaxTime
Entries == [at : Times, nr : 0..(MaxCount - 1)]

TypeOK ==
    /\ now \in Times
    /\ records \in [Senders -> SUBSET Entries]
    /\ score \in [Senders -> Int]
    /\ blacklist \subseteq Senders
    /\ key \in [Senders -> Keys \cup {NoKey}]
    /\ admitted \in [Senders -> SUBSET Entries]
    /\ pardoned \subseteq Senders

\* No window of the given length, wherever it begins, holds more than
\* MaxCount admitted datagrams of one sender (README.md:306, reputation.py:63);
\* and the limiter refuses nobody without cause: although it forgets old times
\* and refused datagrams, what it counts is what the sender had admitted in
\* the last window, so a sender that was too fast gets through again.
LimiterIsExact ==
    \A s \in Senders :
        /\ Recent(records[s]) = Recent(admitted[s])
        /\ \A end \in Times :
               Cardinality({e \in admitted[s] : end - Window < e.at /\ e.at <= end}) <= MaxCount

\* A blacklisted sender stays below the threshold, and a sender below it is
\* blacklisted unless it was pardoned by hand: score and blacklist, kept
\* apart, do not drift (README.md:307).
BlacklistMatchesScore ==
    \A s \in Senders :
        /\ s \in blacklist => score[s] < BLACKLIST_THRESHOLD
        /\ score[s] < BLACKLIST_THRESHOLD => s \in blacklist \cup pardoned

\* The first key a sender was registered with is the one it keeps: the
\* signature check of the pipeline stands before the HELLO handler, which
\* by itself would overwrite it (agent.py:437).
FirstKeyStays ==
    [][\A s \in Senders : key[s] # NoKey => key'[s] = key[s]]_key
=============================================================================
