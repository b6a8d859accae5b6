----------------------------- MODULE Membership -----------------------------
(***************************************************************************)
(* How people get into the job board: invite codes, accounts, handles and  *)
(* sessions of gradatim/web/store.py, driven by the request threads of     *)
(* gradatim/web/server.py (one thread per request).  Each step is what one *)
(* acquisition of the store's lock does; a handler that takes the lock     *)
(* several times has several steps, and other requests run in between.     *)
(*                                                                         *)
(* An account and a session token are named by the request that made them  *)
(* (uuid4 and token_hex never repeat).  The reputation an account starts   *)
(* with is JobBoard's; compute settings and the activity log are left out. *)
(***************************************************************************)
EXTENDS Integers, FiniteSets, Sequences, SequencesExt

CONSTANTS
    Requests,     \* the requests served
    Handles,      \* the handles people choose
    Codes,        \* all codes that can be typed
    SeedCodes,    \* those created with the store, by the system user
    System,       \* the system user's id and handle
    None,
    MaxInFlight   \* bound: requests served at the same time

ASSUME MembershipAssumption ==
    /\ IsFiniteSet(Requests)
    /\ SeedCodes \subseteq Codes
    /\ System \notin Requests /\ System \notin Handles
    /\ None \notin Requests \cup Handles \cup Codes \cup {System}
    /\ MaxInFlight \in Nat \ {0}

Accounts == Requests \cup {System}
Typeable == Handles \cup {System}

VARIABLES
    pc,          \* where each request is
    form,        \* what it works with: a code, a handle, an account
    users,       \* the accounts, in the order the store holds them
    createdBy,   \* created_by of each code; None: there is no such code
    redeemedBy,  \* redeemed_by of each code
    session,     \* the account behind each token
    peak         \* history: most requests that ever were in flight together

vars == <<pc, form, users, createdBy, redeemedBy, session, peak>>

NoForm == [code |-> None, handle |-> None, user |-> None]

Init ==
    /\ pc = [r \in Requests |-> "new"]
    /\ form = [r \in Requests |-> NoForm]
    /\ users = <<[id |-> System, handle |-> System, invitedBy |-> None]>>
    /\ createdBy = [c \in Codes |-> IF c \in SeedCodes THEN System ELSE None]
    /\ redeemedBy = [c \in Codes |-> None]
    /\ session = [r \in Requests |-> None]
    /\ peak = 0

-----------------------------------------------------------------------------
InFlight == {r \in Requests : pc[r] \notin {"new", "done", "refused"}}

Taken(h) == \E u \in ToSet(users) : u.handle = h

\* get_user_by_handle: the first account with the handle.
FirstWith(h) == users[Min({i \in DOMAIN users : users[i].handle = h})].id

\* A request begins with its first locked section; the outcome of that
\* section decides where it goes on.
Begin(r, next) ==
    /\ pc[r] = "new" /\ Cardinality(InFlight) < MaxInFlight
    /\ pc' = [pc EXCEPT ![r] = next]
    /\ peak' = Max({peak, Cardinality(InFlight) + 1})

Step(r, from, to) ==
    /\ pc[r] = from
    /\ pc' = [pc EXCEPT ![r] = to]
    /\ UNCHANGED peak

\* Mutants of JoinCheck: the code may have been used; it is marked here.
JoinCheckUsedToo(r, c, h) ==
    LET ok == createdBy[c] # None /\ ~Taken(h)
    IN  /\ Begin(r, IF ok THEN "create" ELSE "refused")
        /\ form' = [form EXCEPT ![r] = [NoForm EXCEPT !.code = c, !.handle = h]]
        /\ UNCHANGED <<users, createdBy, redeemedBy, session>>

JoinCheckMarking(r, c, h) ==
    LET ok == createdBy[c] # None /\ redeemedBy[c] = None /\ ~Taken(h)
    IN  /\ Begin(r, IF ok THEN "create" ELSE "refused")
        /\ form' = [form EXCEPT ![r] = [NoForm EXCEPT !.code = c, !.handle = h]]
        /\ redeemedBy' = IF ok THEN [redeemedBy EXCEPT ![c] = r] ELSE redeemedBy
        /\ UNCHANGED <<users, createdBy, session>>

\* POST /join, redeem_invite: the checks, under the lock.
JoinCheck(r, c, h) ==
    LET ok == createdBy[c] # None /\ redeemedBy[c] = None /\ ~Taken(h)
    IN  /\ Begin(r, IF ok THEN "create" ELSE "refused")
        /\ form' = [form EXCEPT ![r] = [NoForm EXCEPT !.code = c, !.handle = h]]
        /\ UNCHANGED <<users, createdBy, redeemedBy, session>>

\* ... create_user, under the lock again, without repeating the checks ...
JoinCreate(r) ==
    /\ Step(r, "create", "mark")
    /\ users' = Append(users, [id |-> r, handle |-> form[r].handle,
                               invitedBy |-> createdBy[form[r].code]])
    /\ UNCHANGED <<form, createdBy, redeemedBy, session>>

\* ... and a third time to mark the code as used.
JoinMark(r) ==
    /\ Step(r, "mark", "session")
    /\ redeemedBy' = [redeemedBy EXCEPT ![form[r].code] = r]
    /\ form' = [form EXCEPT ![r].user = r]
    /\ UNCHANGED <<users, createdBy, session>>

\* register_user: open registration, which no route calls yet.
RegisterCheck(r, h) ==
    /\ Begin(r, IF Taken(h) THEN "refused" ELSE "register")
    /\ form' = [form EXCEPT ![r] = [NoForm EXCEPT !.handle = h]]
    /\ UNCHANGED <<users, createdBy, redeemedBy, session>>

RegisterCreate(r) ==
    /\ Step(r, "register", "done")
    /\ users' = Append(users, [id |-> r, handle |-> form[r].handle, invitedBy |-> None])
    /\ UNCHANGED <<form, createdBy, redeemedBy, session>>

\* POST /login.
LoginLookup(r, h) ==
    /\ Begin(r, IF Taken(h) THEN "session" ELSE "refused")
    /\ form' = [form EXCEPT ![r] = [NoForm EXCEPT
                   !.handle = h, !.user = IF Taken(h) THEN FirstWith(h) ELSE None]]
    /\ UNCHANGED <<users, createdBy, redeemedBy, session>>

\* Mutant of OpenSession: the token is bound to the handle.
OpenSessionByHandle(r) ==
    /\ Step(r, "session", "done")
    /\ session' = [session EXCEPT ![r] = form[r].handle]
    /\ UNCHANGED <<form, users, createdBy, redeemedBy>>

\* create_session, after a join or a login.
OpenSession(r) ==
    /\ Step(r, "session", "done")
    /\ session' = [session EXCEPT ![r] = form[r].user]
    /\ UNCHANGED <<form, users, createdBy, redeemedBy>>

\* GET /logout with the cookie t.
Logout(r, t) ==
    /\ Begin(r, "done")
    /\ session' = [session EXCEPT ![t] = None]
    /\ UNCHANGED <<form, users, createdBy, redeemedBy>>

\* POST /invite with the cookie t: resolve the session (accounts are never
\* removed, so the second lookup finds what the first names) ...
InviteResolve(r, t) ==
    /\ Begin(r, IF session[t] = None THEN "refused" ELSE "issue")
    /\ form' = [form EXCEPT ![r] = [NoForm EXCEPT !.user = session[t]]]
    /\ UNCHANGED <<users, createdBy, redeemedBy, session>>

\* ... and create a code in that account's name, logged out or not by now.
InviteIssue(r) ==
    /\ Step(r, "issue", "done")
    /\ \E c \in Codes :
           /\ createdBy[c] = None
           /\ createdBy' = [createdBy EXCEPT ![c] = form[r].user]
           /\ form' = [form EXCEPT ![r].code = c]
    /\ UNCHANGED <<users, redeemedBy, session>>

Next ==
    \E r \in Requests :
        \/ \E h \in Typeable :
               \/ \E c \in Codes : JoinCheck(r, c, h)
               \/ RegisterCheck(r, h)
               \/ LoginLookup(r, h)
        \/ JoinCreate(r) \/ JoinMark(r) \/ RegisterCreate(r) \/ OpenSession(r)
        \/ \E t \in Requests : Logout(r, t) \/ InviteResolve(r, t)
        \/ InviteIssue(r)

Spec == Init /\ [][Next]_vars

-----------------------------------------------------------------------------
(* Properties.                                                             *)

Labels == {"new", "create", "mark", "register", "session", "issue", "done", "refused"}

TypeOK ==
    /\ pc \in [Requests -> Labels]
    /\ form \in [Requests -> [code : Codes \cup {None}, handle : Typeable \cup {None},
                              user : Accounts \cup {None}]]
    /\ users \in Seq([id : Accounts, handle : Typeable,
                      invitedBy : Accounts \cup {None}])
    /\ createdBy \in [Codes -> Accounts \cup {None}]
    /\ redeemedBy \in [Codes -> Accounts \cup {None}]
    /\ session \in [Requests -> Accounts \cup {None}]
    /\ peak \in 0..MaxInFlight

\* The accounts that joined with code c.
JoinedWith(c) == {u \in ToSet(users) : u.invitedBy # None /\ form[u.id].code = c}

Named(h) == {u \in ToSet(users) : u.handle = h}

\* A code marked as used names an account that exists and that joined with
\* this very code, even when several requests redeem codes together.
RedeemerJoined ==
    \A c \in Codes :
        redeemedBy[c] # None =>
            \E u \in JoinedWith(c) : u.id = redeemedBy[c] /\ u.invitedBy = createdBy[c]

\* The checks of redeem_invite and register_user are not repeated when the
\* account is created.  The damage is bounded by concurrency: a code makes,
\* and a handle names, no more accounts than there were requests in flight
\* at once.  Served one by one, one.
DuplicatesBoundedByOverlap ==
    /\ \A c \in Codes : Cardinality(JoinedWith(c)) <= peak
    /\ \A h \in Handles : Cardinality(Named(h)) <= peak

\* store.py:298 "This invite code has already been used.", as
\* tests/test_web.py:56-63 has it: a code makes one account.
CodeRedeemedOnce == \A c \in Codes : Cardinality(JoinedWith(c)) <= 1
=============================================================================
