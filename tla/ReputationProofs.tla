-------------------------- MODULE ReputationProofs --------------------------
(***************************************************************************)
(* What the admission pipeline guarantees about the rate limiter, scores,  *)
(* the blacklist and keys, for any senders, keys, window and limit.        *)
(***************************************************************************)
EXTENDS Reputation, FiniteSetTheorems, TLAPS

\* The part of the type invariant the theorems need.
ScoresTyped ==
    /\ score \in [Senders -> Int]
    /\ blacklist \subseteq Senders
    /\ key \in [Senders -> Keys \cup {NoKey}]
    /\ pardoned \subseteq Senders

ScoreInvariant == ScoresTyped /\ BlacklistMatchesScore

\* A penalty keeps scores and blacklist together, whoever it hits.
LEMMA PenalizeKeepsMatch ==
    ASSUME NEW s \in Senders, ScoreInvariant, Penalize(s), UNCHANGED pardoned
    PROVE  /\ score' \in [Senders -> Int]
           /\ blacklist' \subseteq Senders
           /\ BlacklistMatchesScore'
<1>1. /\ score' = [score EXCEPT ![s] = @ - 50]
      /\ blacklist' = IF score[s] - 50 < 0 THEN blacklist \cup {s} ELSE blacklist
  BY DEF Penalize, PENALTY_INVALID_RESULT, BLACKLIST_THRESHOLD
<1>2. score' \in [Senders -> Int] /\ blacklist' \subseteq Senders
  BY <1>1 DEF ScoreInvariant, ScoresTyped
<1>3. ASSUME NEW p \in Senders
      PROVE  /\ p \in blacklist' => score'[p] < 0
             /\ score'[p] < 0 => p \in blacklist' \cup pardoned'
  BY <1>1 DEF ScoreInvariant, ScoresTyped, BlacklistMatchesScore, BLACKLIST_THRESHOLD
<1> QED
  BY <1>2, <1>3 DEF BlacklistMatchesScore, BLACKLIST_THRESHOLD

\* A reward goes to a sender whose datagram was admitted, hence not to a
\* blacklisted one, so it lifts nobody back above the threshold unnoticed.
LEMMA RewardKeepsMatch ==
    ASSUME NEW s \in Senders, s \notin blacklist, ScoreInvariant, Reward(s), UNCHANGED pardoned
    PROVE  /\ score' \in [Senders -> Int]
           /\ blacklist' \subseteq Senders
           /\ BlacklistMatchesScore'
<1>1. score' = [score EXCEPT ![s] = @ + 10] /\ blacklist' = blacklist
  BY DEF Reward, REWARD_VALID_RESULT
<1>2. score' \in [Senders -> Int] /\ blacklist' \subseteq Senders
  BY <1>1 DEF ScoreInvariant, ScoresTyped
<1>3. ASSUME NEW p \in Senders
      PROVE  /\ p \in blacklist' => score'[p] < 0
             /\ score'[p] < 0 => p \in blacklist' \cup pardoned'
  BY <1>1 DEF ScoreInvariant, ScoresTyped, BlacklistMatchesScore, BLACKLIST_THRESHOLD
<1> QED
  BY <1>2, <1>3 DEF BlacklistMatchesScore, BLACKLIST_THRESHOLD

LEMMA InitScores == Init => ScoreInvariant
  BY DEF Init, ScoreInvariant, ScoresTyped, BlacklistMatchesScore,
         INITIAL_REPUTATION, BLACKLIST_THRESHOLD

\* Handling an admitted datagram.
LEMMA DispatchKeepsScores ==
    ASSUME NEW m \in Datagrams, m.from \notin blacklist, ScoreInvariant,
           Dispatch(m), UNCHANGED pardoned
    PROVE  ScoreInvariant'
<1> USE DEF Datagrams
<1>1. m.from \in Senders /\ m.signer \in Keys
  OBVIOUS
<1>2. CASE m.type = "HELLO"
  <2>1. m.carries \in Keys
    BY <1>2
  <2>2. UNCHANGED <<score, blacklist>>
    BY <1>2 DEF Dispatch
  <2>3. key' \in [Senders -> Keys \cup {NoKey}]
    BY <1>1, <1>2, <2>1 DEF Dispatch, ScoreInvariant, ScoresTyped
  <2> QED
    BY <2>2, <2>3 DEF ScoreInvariant, ScoresTyped, BlacklistMatchesScore
<1>3. CASE m.type = "RESULT"
  <2>1. UNCHANGED key
    BY <1>3 DEF Dispatch
  <2>2. CASE m.valid
    <3>1. Reward(m.from)
      BY <1>3, <2>2 DEF Dispatch
    <3> QED
      BY <1>1, <2>1, <3>1, RewardKeepsMatch DEF ScoreInvariant, ScoresTyped
  <2>3. CASE ~m.valid
    <3>1. Penalize(m.from)
      BY <1>3, <2>3 DEF Dispatch
    <3> QED
      BY <1>1, <2>1, <3>1, PenalizeKeepsMatch DEF ScoreInvariant, ScoresTyped
  <2> QED
    BY <2>2, <2>3
<1>4. CASE m.type = "other"
  BY <1>4 DEF Dispatch, ScoreInvariant, ScoresTyped, BlacklistMatchesScore
<1> QED
  BY <1>2, <1>3, <1>4

LEMMA StepKeepsScores == ScoreInvariant /\ [Next]_vars => ScoreInvariant'
<1> SUFFICES ASSUME ScoreInvariant, [Next]_vars PROVE ScoreInvariant'
  OBVIOUS
<1>1. CASE Tick
  BY <1>1 DEF Tick, ScoreInvariant, ScoresTyped, BlacklistMatchesScore
<1>2. ASSUME NEW m \in Datagrams, Receive(m) PROVE ScoreInvariant'
  <2>1. /\ m.from \notin blacklist /\ UNCHANGED pardoned /\ m.from \in Senders
    BY <1>2 DEF Receive, Datagrams
  <2>2. CASE ~Allowed(m.from)
    BY <1>2, <2>1, <2>2 DEF Receive, ScoreInvariant, ScoresTyped, BlacklistMatchesScore
  <2>3. CASE Allowed(m.from) /\ key[m.from] \notin {NoKey, m.signer}
    <3>1. Penalize(m.from) /\ UNCHANGED key
      BY <1>2, <2>3 DEF Receive
    <3> QED
      BY <2>1, <3>1, PenalizeKeepsMatch DEF ScoreInvariant, ScoresTyped
  <2>4. CASE Allowed(m.from) /\ key[m.from] \in {NoKey, m.signer}
    <3>1. Dispatch(m)
      BY <1>2, <2>4 DEF Receive
    <3> QED
      BY <2>1, <3>1, DispatchKeepsScores
  <2> QED
    BY <2>2, <2>3, <2>4
<1>3. ASSUME NEW s \in Senders, Unblacklist(s) PROVE ScoreInvariant'
  BY <1>3 DEF Unblacklist, ScoreInvariant, ScoresTyped, BlacklistMatchesScore
<1>4. CASE UNCHANGED vars
  BY <1>4 DEF vars, ScoreInvariant, ScoresTyped, BlacklistMatchesScore
<1> QED
  BY <1>1, <1>2, <1>3, <1>4 DEF Next

\* Score and blacklist never drift apart: reputation.py keeps them in two
\* containers and updates the second only on the way down.
THEOREM BlacklistFollowsScore == Spec => []BlacklistMatchesScore
<1>1. ScoreInvariant => BlacklistMatchesScore
  BY DEF ScoreInvariant
<1> QED
  BY <1>1, InitScores, StepKeepsScores, PTL DEF Spec

\* The first key an agent holds for a sender is never replaced, although
\* _handle_hello itself overwrites the entry: the signature check before it
\* lets through only what the known key has signed, and the handler only
\* what the key it carries has signed.
THEOREM FirstKeyIsKept == Spec => FirstKeyStays
<1>1. ASSUME ScoresTyped, [Next]_vars, NEW s \in Senders, key[s] # NoKey
      PROVE  key'[s] = key[s]
  <2>1. ASSUME NEW m \in Datagrams, Receive(m) PROVE key'[s] = key[s]
    <3>1. CASE UNCHANGED key
      BY <3>1
    <3>2. CASE Dispatch(m) /\ key[m.from] \in {NoKey, m.signer} /\ m.type = "HELLO"
      <4>1. key' = IF m.signer = m.carries THEN [key EXCEPT ![m.from] = m.carries] ELSE key
        BY <3>2 DEF Dispatch
      <4> QED
        BY <3>2, <4>1, <1>1 DEF ScoresTyped
    <3>3. CASE Dispatch(m) /\ m.type # "HELLO"
      BY <3>3 DEF Dispatch
    <3> QED
      BY <2>1, <3>1, <3>2, <3>3 DEF Receive
  <2>2. CASE Tick \/ \E p \in Senders : Unblacklist(p)
    BY <2>2 DEF Tick, Unblacklist
  <2>3. CASE UNCHANGED vars
    BY <2>3 DEF vars
  <2> QED
    BY <1>1, <2>1, <2>2, <2>3 DEF Next
<1>2. ScoreInvariant /\ [Next]_vars
        => [\A s \in Senders : key[s] # NoKey => key'[s] = key[s]]_key
  BY <1>1 DEF ScoreInvariant
<1> QED
  BY <1>2, InitScores, StepKeepsScores, PTL DEF Spec, FirstKeyStays

-----------------------------------------------------------------------------
(* The rate limiter.                                                       *)

\* The entries admitted within the window that ends at the given time.
Within(s, end) == {e \in admitted[s] : end - Window < e.at /\ e.at <= end}

\* Inductive.  Entries of the current tick have numbers below the count, so
\* the next entry is a new one; the limiter keeps all that is recent.
SenderLimited(s) ==
    /\ records[s] \subseteq admitted[s]
    /\ IsFiniteSet(admitted[s])
    /\ Recent(records[s]) = Recent(admitted[s])
    /\ \A e \in admitted[s] :
           /\ e.at <= now
           /\ e.at = now => e.nr < Cardinality(Recent(admitted[s]))
    /\ \A end \in Times : Cardinality(Within(s, end)) <= MaxCount

LimiterTyped ==
    /\ now \in Times
    /\ records \in [Senders -> SUBSET Entries]
    /\ admitted \in [Senders -> SUBSET Entries]

Limited == LimiterTyped /\ \A s \in Senders : SenderLimited(s)

LEMMA InitLimited == Init => Limited
<1> SUFFICES ASSUME Init PROVE Limited
    OBVIOUS
<1>1. LimiterTyped
    BY ReputationAssumption DEF Init, LimiterTyped, Times
<1>2. ASSUME NEW s \in Senders PROVE SenderLimited(s)
    <2>1. records[s] = {} /\ admitted[s] = {} /\ Recent(records[s]) = {}
        BY DEF Init, Recent
    <2>2. \A end \in Times : Within(s, end) = {}
        BY <2>1 DEF Within
    <2> QED BY <2>1, <2>2, FS_EmptySet, ReputationAssumption DEF SenderLimited
<1> QED BY <1>1, <1>2 DEF Limited

\* Nothing the clock does makes an entry recent again.
LEMMA TickLimited == Limited /\ Tick => Limited'
<1> SUFFICES ASSUME Limited, Tick PROVE Limited'
    OBVIOUS
<1>1. now \in Nat /\ now' = now + 1 /\ UNCHANGED <<records, admitted>>
    BY DEF Limited, LimiterTyped, Times, Tick
<1>2. LimiterTyped'
    BY <1>1, ReputationAssumption DEF Limited, LimiterTyped, Tick, Times
<1>3. ASSUME NEW s \in Senders PROVE SenderLimited(s)'
    <2>1. SenderLimited(s) /\ admitted[s] \subseteq Entries
        BY DEF Limited, LimiterTyped
    <2>2. \A e \in admitted[s] : e.at \in Nat /\ e.at <= now
        BY <2>1 DEF SenderLimited, Entries, Times
    <2>3. Recent(records[s])' = Recent(admitted[s])'
        <3>1. \A e \in admitted[s] : e.at > now' - Window => e \in Recent(admitted[s])
            BY <1>1, <2>2, ReputationAssumption DEF Recent
        <3>2. \A e \in admitted[s] : e.at > now' - Window => e \in records[s]
            BY <2>1, <3>1 DEF SenderLimited, Recent
        <3>3. records'[s] \subseteq admitted'[s]
            BY <1>1, <2>1 DEF SenderLimited
        <3>4. \A e \in admitted'[s] : e.at > now' - Window => e \in records'[s]
            BY <1>1, <3>2
        <3> QED BY <3>3, <3>4 DEF Recent
    <2>4. \A e \in admitted'[s] :
              /\ e.at <= now'
              /\ e.at = now' => e.nr < Cardinality(Recent(admitted[s])')
        BY <1>1, <2>2
    <2>5. \A end \in Times : Cardinality(Within(s, end)') <= MaxCount
        <3>1. \A end \in Times : Within(s, end)' = Within(s, end)
            BY <1>1 DEF Within
        <3> QED BY <2>1, <3>1 DEF SenderLimited
    <2>6. records'[s] \subseteq admitted'[s] /\ IsFiniteSet(admitted'[s])
        BY <1>1, <2>1 DEF SenderLimited
    <2> QED BY <2>3, <2>4, <2>5, <2>6 DEF SenderLimited
<1> QED BY <1>2, <1>3 DEF Limited

\* What is recent is finite, and counted.
LEMMA RecentIsFinite ==
    ASSUME NEW s \in Senders, SenderLimited(s)
    PROVE  /\ IsFiniteSet(Recent(records[s])) /\ Recent(records[s]) = Recent(admitted[s])
           /\ Cardinality(Recent(records[s])) \in Nat
<1>1. Recent(admitted[s]) \subseteq admitted[s]
    BY DEF Recent
<1> QED BY <1>1, FS_Subset, FS_CardinalityType DEF SenderLimited

\* An admitted datagram: its entry is new, and every window that holds it
\* holds besides it only what was kept.
LEMMA AdmitLimited ==
    ASSUME Limited, NEW s \in Senders, Allowed(s), UNCHANGED now,
           records' = [records EXCEPT ![s] = Recent(records[s]) \cup {Entry(Recent(records[s]))}],
           admitted' = [admitted EXCEPT ![s] = @ \cup {Entry(Recent(records[s]))}]
    PROVE  Limited'
<1> DEFINE kept == Recent(records[s])
           k    == Cardinality(kept)
           x    == Entry(kept)
<1>1. /\ SenderLimited(s) /\ now \in Nat /\ now \in Times
      /\ records \in [Senders -> SUBSET Entries] /\ admitted \in [Senders -> SUBSET Entries]
    BY DEF Limited, LimiterTyped, Times
<1>2. IsFiniteSet(kept) /\ k \in Nat /\ kept = Recent(admitted[s]) /\ k < MaxCount
    BY <1>1, RecentIsFinite DEF Allowed
<1>3. x = [at |-> now, nr |-> k] /\ x.at = now /\ x.nr = k
    BY DEF Entry
<1>4. x \in Entries
    BY <1>1, <1>2, <1>3, ReputationAssumption DEF Entries
<1>5. kept \subseteq admitted[s] /\ IsFiniteSet(admitted[s])
    BY <1>1, <1>2 DEF Recent, SenderLimited
<1>6. x \notin admitted[s] /\ x \notin kept
    <2>1. \A e \in admitted[s] : e.at = now => e.nr < k
        BY <1>1, <1>2 DEF SenderLimited
    <2> QED BY <1>2, <1>3, <1>5, <2>1
<1> HIDE DEF kept, k, x
<1>7. records'[s] = kept \cup {x} /\ admitted'[s] = admitted[s] \cup {x}
    BY <1>1 DEF kept, x
<1>8. LimiterTyped'
    <2>1. kept \cup {x} \in SUBSET Entries /\ admitted[s] \cup {x} \in SUBSET Entries
        BY <1>1, <1>4, <1>5
    <2> QED BY <1>1, <2>1 DEF LimiterTyped, kept, x
<1>9. ASSUME NEW p \in Senders, p # s PROVE SenderLimited(p)'
    <2>1. records'[p] = records[p] /\ admitted'[p] = admitted[p] /\ SenderLimited(p)
        BY <1>1, <1>9 DEF Limited
    <2> QED BY <2>1 DEF SenderLimited, Recent, Within
<1>10. IsFiniteSet(kept \cup {x}) /\ Cardinality(kept \cup {x}) = k + 1
    BY <1>2, <1>6, FS_AddElement DEF k
<1>11. Recent(records[s])' = kept \cup {x} /\ Recent(admitted[s])' = kept \cup {x}
    <2>1. now > now - Window
        BY <1>1, ReputationAssumption
    <2>2. \A e \in kept : e.at > now - Window
        BY DEF kept, Recent
    <2>3. \A e \in admitted[s] : e.at > now - Window <=> e \in kept
        BY <1>2 DEF Recent
    <2>4. {e \in kept \cup {x} : e.at > now - Window} = kept \cup {x}
        BY <1>3, <2>1, <2>2
    <2>5. {e \in admitted[s] \cup {x} : e.at > now - Window} = kept \cup {x}
        BY <1>3, <1>5, <2>1, <2>3
    <2> QED BY <1>7, <2>4, <2>5 DEF Recent
<1>12. ASSUME NEW end \in Times PROVE Cardinality(Within(s, end)') <= MaxCount
    <2>1. Within(s, end)' = {e \in admitted[s] \cup {x} : end - Window < e.at /\ e.at <= end}
        BY <1>7 DEF Within
    <2>2. CASE end < now
        <3>1. end \in Int /\ ~(now <= end)
            BY <1>1, <2>2 DEF Times
        <3>2. Within(s, end)' = Within(s, end)
            BY <1>3, <2>1, <3>1 DEF Within
        <3> QED BY <1>1, <3>2 DEF SenderLimited
    <2>3. CASE ~(end < now)
        <3>1. end \in Int /\ end >= now
            BY <1>1, <2>3 DEF Times
        <3>2. \A e \in admitted[s] : e.at \in Int
            BY <1>1 DEF Entries, Times
        <3>3. \A e \in admitted[s] : end - Window < e.at => e.at > now - Window
            BY <1>1, <3>1, <3>2, ReputationAssumption
        <3>4. \A e \in admitted[s] : e.at > now - Window => e \in kept
            BY <1>2 DEF Recent
        <3>5. Within(s, end)' \subseteq kept \cup {x}
            BY <2>1, <3>3, <3>4
        <3>6. /\ Cardinality(Within(s, end)') <= k + 1
              /\ Cardinality(Within(s, end)') \in Nat
            BY <1>10, <3>5, FS_Subset, FS_CardinalityType
        <3> QED BY <1>2, <3>6, ReputationAssumption
    <2> QED BY <2>2, <2>3
<1>13. SenderLimited(s)'
    <2>1. records'[s] \subseteq admitted'[s] /\ IsFiniteSet(admitted'[s])
        BY <1>5, <1>7, FS_AddElement
    <2>2. \A e \in admitted'[s] : /\ e.at <= now'
                                  /\ e.at = now' => e.nr < Cardinality(Recent(admitted[s])')
        <3>1. \A e \in admitted[s] : e.at <= now /\ (e.at = now => e.nr < k)
            BY <1>1, <1>2 DEF SenderLimited, k
        <3>2. \A e \in admitted[s] : e.nr \in Nat
            BY <1>1, ReputationAssumption DEF Entries
        <3>3. \A e \in admitted[s] \cup {x} : e.at <= now /\ (e.at = now => e.nr < k + 1)
            BY <1>1, <1>2, <1>3, <3>1, <3>2
        <3> QED BY <1>7, <1>10, <1>11, <3>3
    <2> QED BY <1>11, <1>12, <2>1, <2>2 DEF SenderLimited
<1> QED BY <1>8, <1>9, <1>13 DEF Limited

\* A refused datagram: the limiter forgets what is no longer recent.
LEMMA RefuseLimited ==
    ASSUME Limited, NEW s \in Senders, UNCHANGED <<now, admitted>>,
           records' = [records EXCEPT ![s] = Recent(records[s])]
    PROVE  Limited'
<1>1. /\ \A p \in Senders : SenderLimited(p)
      /\ records \in [Senders -> SUBSET Entries]
    BY DEF Limited, LimiterTyped
<1>2. LimiterTyped'
    <2>1. Recent(records[s]) \in SUBSET Entries
        BY <1>1 DEF Recent
    <2> QED BY <2>1 DEF Limited, LimiterTyped
<1>3. ASSUME NEW p \in Senders PROVE SenderLimited(p)'
    <2>1. records'[p] = IF p = s THEN Recent(records[s]) ELSE records[p]
        BY <1>1
    <2>2. Recent(records[p])' = Recent(records[p]) /\ records'[p] \subseteq records[p]
        BY <2>1 DEF Recent
    <2>3. Recent(admitted[p])' = Recent(admitted[p])
        BY DEF Recent
    <2>4. \A end \in Times : Within(p, end)' = Within(p, end)
        BY DEF Within
    <2> QED BY <1>1, <2>2, <2>3, <2>4 DEF SenderLimited
<1> QED BY <1>2, <1>3 DEF Limited

LEMMA StepLimited == Limited /\ [Next]_vars => Limited'
<1> SUFFICES ASSUME Limited, [Next]_vars PROVE Limited'
    OBVIOUS
<1>1. ASSUME NEW m \in Datagrams, Receive(m) PROVE Limited'
    <2>1. m.from \in Senders /\ Allow(m.from) /\ UNCHANGED now
        BY <1>1 DEF Receive, Datagrams
    <2>2. CASE Allowed(m.from)
        BY <2>1, <2>2, AdmitLimited DEF Allow
    <2>3. CASE ~Allowed(m.from)
        BY <2>1, <2>3, RefuseLimited DEF Allow
    <2> QED BY <2>2, <2>3
<1>2. CASE UNCHANGED <<now, records, admitted>>
    <2>1. \A s \in Senders : SenderLimited(s)'
        BY <1>2 DEF Limited, SenderLimited, Recent, Within
    <2> QED BY <1>2, <2>1 DEF Limited, LimiterTyped
<1>3. ASSUME NEW s \in Senders, Unblacklist(s) PROVE Limited'
    BY <1>2, <1>3 DEF Unblacklist
<1>4. CASE UNCHANGED vars
    BY <1>2, <1>4 DEF vars
<1> QED BY <1>1, <1>3, <1>4, TickLimited DEF Next

\* The sliding window is exact for every window and limit: no window holds
\* more than MaxCount admitted datagrams of one sender (reputation.py:63),
\* although the limiter forgets, and what it counts is what was admitted in
\* the last window, so a refusal is never owed to anything else.
THEOREM LimiterAlwaysExact == Spec => []LimiterIsExact
<1>1. Limited => LimiterIsExact
    BY DEF Limited, SenderLimited, LimiterIsExact, Within
<1> QED BY <1>1, InitLimited, StepLimited, PTL DEF Spec

\* The type invariant: entries are numbered below the limit, scores are
\* numbers, and only keys that a HELLO carried are entered.
THEOREM ReputationTypeCorrect == Spec => []TypeOK
<1>1. ScoreInvariant /\ Limited => TypeOK
    BY DEF ScoreInvariant, ScoresTyped, Limited, LimiterTyped, TypeOK
<1> QED BY <1>1, InitScores, StepKeepsScores, InitLimited, StepLimited, PTL DEF Spec
=============================================================================
