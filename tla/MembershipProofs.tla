-------------------------- MODULE MembershipProofs --------------------------
(***************************************************************************)
(* Theorems about Membership, for any number of requests, handles and      *)
(* codes.                                                                  *)
(***************************************************************************)
EXTENDS Membership, FiniteSetTheorems, WellFoundedInduction, TLAPS

-----------------------------------------------------------------------------
(* Maxima, minima and the elements of a sequence.                          *)

LEMMA MaxOfTwo ==
    ASSUME NEW a \in Nat, NEW b \in Nat
    PROVE  Max({a, b}) \in {a, b} /\ Max({a, b}) >= a /\ Max({a, b}) >= b
<1>1. \E x \in {a, b} : \A y \in {a, b} : x >= y
    OBVIOUS
<1> QED BY <1>1 DEF Max

Below == {ss \in Nat \X Nat : ss[1] < ss[2]}

LEMMA BelowIsWellFounded == IsWellFoundedOn(Below, Nat)
BY NatLessThanWellFounded DEF OpToRel, Below

LEMMA MinIsThere ==
    ASSUME NEW S \in SUBSET Nat, S # {}
    PROVE  Min(S) \in S
<1>1. PICK x \in S : \A y \in S : <<y, x>> \notin Below
    BY BelowIsWellFounded, WFMin
<1>2. ASSUME NEW y \in S PROVE x <= y
    <2>1. x \in Nat /\ y \in Nat
        OBVIOUS
    <2>2. ~(y < x)
        BY <1>1, <2>1 DEF Below
    <2> QED BY <2>1, <2>2
<1>3. \E z \in S : \A y \in S : z =< y
    BY <1>2
<1> QED BY <1>3 DEF Min

LEMMA ToSetOfAppend ==
    ASSUME NEW S, NEW s \in Seq(S), NEW e \in S
    PROVE  ToSet(Append(s, e)) = ToSet(s) \cup {e}
<1> DEFINE a == Append(s, e)
<1>1. /\ Len(a) = Len(s) + 1 /\ DOMAIN a = 1..(Len(s) + 1)
      /\ \A i \in 1..Len(s) : a[i] = s[i]
      /\ a[Len(s) + 1] = e
    OBVIOUS
<1>2. DOMAIN s = 1..Len(s) /\ Len(s) \in Nat
    OBVIOUS
<1>3. ASSUME NEW x \in ToSet(a) PROVE x \in ToSet(s) \cup {e}
    <2>1. PICK i \in 1..(Len(s) + 1) : a[i] = x
        BY <1>1, <1>3 DEF ToSet
    <2>2. CASE i = Len(s) + 1
        BY <1>1, <2>1, <2>2
    <2>3. CASE i \in 1..Len(s)
        BY <1>1, <1>2, <2>1, <2>3 DEF ToSet
    <2> QED BY <1>2, <2>2, <2>3
<1>4. ASSUME NEW x \in ToSet(s) PROVE x \in ToSet(a)
    <2>1. PICK i \in 1..Len(s) : s[i] = x
        BY <1>2, <1>4 DEF ToSet
    <2> QED BY <1>1, <1>2, <2>1 DEF ToSet
<1>5. e \in ToSet(a)
    BY <1>1, <1>2 DEF ToSet
<1> QED BY <1>3, <1>4, <1>5

-----------------------------------------------------------------------------
(* Types.                                                                  *)

Form == [code : Codes \cup {None}, handle : Typeable \cup {None}, user : Accounts \cup {None}]
Account == [id : Accounts, handle : Typeable, invitedBy : Accounts \cup {None}]

\* What a request carries from one locked section to the next.
CarriesEnough ==
    \A r \in Requests :
        /\ pc[r] \in {"create", "mark"} =>
               /\ form[r].code \in Codes /\ form[r].handle \in Typeable
               /\ createdBy[form[r].code] \in Accounts
        /\ pc[r] = "register" => form[r].handle \in Typeable

\* Inductive.
Typed == TypeOK /\ CarriesEnough

LEMMA FormType == NoForm \in Form
BY DEF Form, NoForm

LEMMA BeginType ==
    ASSUME TypeOK, NEW r \in Requests, NEW next \in Labels, Begin(r, next),
           Cardinality(InFlight) \in Nat
    PROVE  /\ pc' = [pc EXCEPT ![r] = next] /\ pc' \in [Requests -> Labels]
           /\ peak' \in 0..MaxInFlight /\ pc[r] = "new"
           /\ peak' >= peak /\ peak' >= Cardinality(InFlight) + 1
<1>1. peak \in Nat /\ peak <= MaxInFlight /\ MaxInFlight \in Nat
    BY MembershipAssumption DEF TypeOK
<1>2. Cardinality(InFlight) + 1 <= MaxInFlight
    BY <1>1 DEF Begin
<1>3. /\ peak' \in {peak, Cardinality(InFlight) + 1}
      /\ peak' >= peak /\ peak' >= Cardinality(InFlight) + 1
    BY <1>1, MaxOfTwo DEF Begin
<1>4. pc' = [pc EXCEPT ![r] = next] /\ pc[r] = "new" /\ pc' \in [Requests -> Labels]
    BY DEF Begin, TypeOK
<1> QED BY <1>1, <1>2, <1>3, <1>4

LEMMA InFlightFinite ==
    /\ InFlight \subseteq Requests /\ IsFiniteSet(InFlight)
    /\ Cardinality(InFlight) \in Nat
<1>1. InFlight \in SUBSET Requests
    BY DEF InFlight
<1> QED BY <1>1, MembershipAssumption, FS_Subset, FS_CardinalityType

LEMMA UsersType == TypeOK => users \in Seq(Account) /\ form \in [Requests -> Form]
BY DEF TypeOK, Account, Form

LEMMA InitTyped == Init => Typed
<1> SUFFICES ASSUME Init PROVE Typed
    OBVIOUS
<1>1. System \in Accounts /\ System \in Typeable
    BY DEF Accounts, Typeable
<1>2. form \in [Requests -> Form]
    BY FormType DEF Init
<1>3. users \in Seq(Account)
    BY <1>1 DEF Init, Account
<1>4. TypeOK
    BY <1>1, <1>2, <1>3, MembershipAssumption DEF Init, TypeOK, Labels, Form, Account
<1> QED BY <1>4 DEF Init, Typed, CarriesEnough

LEMMA JoinCheckTyped ==
    ASSUME Typed, NEW r \in Requests, NEW c \in Codes, NEW h \in Typeable, JoinCheck(r, c, h)
    PROVE  Typed'
<1> DEFINE ok == createdBy[c] # None /\ redeemedBy[c] = None /\ ~Taken(h)
           f == [NoForm EXCEPT !.code = c, !.handle = h]
<1>1. (IF ok THEN "create" ELSE "refused") \in Labels
    BY DEF Labels
<1>2. /\ pc' = [pc EXCEPT ![r] = IF ok THEN "create" ELSE "refused"]
      /\ pc' \in [Requests -> Labels] /\ peak' \in 0..MaxInFlight
    BY <1>1, BeginType, InFlightFinite DEF Typed, JoinCheck
<1>3. f \in Form /\ f.code = c /\ f.handle = h
    BY DEF Form, NoForm
<1>4. form' = [form EXCEPT ![r] = f] /\ form' \in [Requests -> Form]
    BY <1>3, UsersType DEF JoinCheck, Typed
<1>5. TypeOK'
    BY <1>2, <1>4 DEF Typed, TypeOK, JoinCheck, Form
<1>6. ASSUME ok PROVE createdBy[c] \in Accounts
    BY <1>6 DEF Typed, TypeOK
<1>7. CarriesEnough'
    BY <1>2, <1>3, <1>4, <1>6 DEF Typed, TypeOK, CarriesEnough, JoinCheck
<1> QED BY <1>5, <1>7 DEF Typed

LEMMA JoinCreateTyped ==
    ASSUME Typed, NEW r \in Requests, JoinCreate(r)
    PROVE  Typed'
<1> DEFINE u == [id |-> r, handle |-> form[r].handle, invitedBy |-> createdBy[form[r].code]]
<1>1. u \in Account
    BY DEF Typed, CarriesEnough, JoinCreate, Step, Account, Accounts
<1>2. users' \in Seq(Account)
    BY <1>1, UsersType DEF JoinCreate, Typed
<1>3. pc' = [pc EXCEPT ![r] = "mark"] /\ pc[r] = "create" /\ UNCHANGED <<peak, form, createdBy>>
    BY DEF JoinCreate, Step
<1>4. TypeOK'
    BY <1>2, <1>3 DEF Typed, TypeOK, JoinCreate, Labels, Account
<1>5. CarriesEnough'
    BY <1>3 DEF Typed, TypeOK, CarriesEnough
<1> QED BY <1>4, <1>5 DEF Typed

LEMMA JoinMarkTyped ==
    ASSUME Typed, NEW r \in Requests, JoinMark(r)
    PROVE  Typed'
<1>1. /\ pc' = [pc EXCEPT ![r] = "session"] /\ pc[r] = "mark"
      /\ form' = [form EXCEPT ![r].user = r] /\ r \in Accounts
      /\ UNCHANGED <<peak, users, createdBy, session>>
    BY DEF JoinMark, Step, Accounts
<1>2. form' \in [Requests -> Form]
    BY <1>1, UsersType DEF Typed, Form
<1>3. redeemedBy' \in [Codes -> Accounts \cup {None}]
    BY <1>1 DEF JoinMark, Typed, TypeOK
<1>4. TypeOK'
    BY <1>1, <1>2, <1>3 DEF Typed, TypeOK, Labels, Form
<1>5. CarriesEnough'
    BY <1>1 DEF Typed, TypeOK, CarriesEnough
<1> QED BY <1>4, <1>5 DEF Typed

LEMMA RegisterTyped ==
    ASSUME Typed, NEW r \in Requests,
           (\E h \in Typeable : RegisterCheck(r, h)) \/ RegisterCreate(r)
    PROVE  Typed'
<1>1. ASSUME NEW h \in Typeable, RegisterCheck(r, h) PROVE Typed'
    <2> DEFINE next == IF Taken(h) THEN "refused" ELSE "register"
               f == [NoForm EXCEPT !.handle = h]
    <2>1. /\ pc' = [pc EXCEPT ![r] = next]
          /\ pc' \in [Requests -> Labels] /\ peak' \in 0..MaxInFlight
        <3>1. next \in Labels /\ Begin(r, next)
            BY <1>1 DEF Labels, RegisterCheck
        <3> QED BY <3>1, BeginType, InFlightFinite DEF Typed
    <2>2. f \in Form /\ f.handle = h
        BY DEF Form, NoForm
    <2>3. form' = [form EXCEPT ![r] = f] /\ form' \in [Requests -> Form]
        BY <1>1, <2>2, UsersType DEF RegisterCheck, Typed
    <2>4. TypeOK'
        BY <1>1, <2>1, <2>3 DEF Typed, TypeOK, RegisterCheck, Form
    <2>5. CarriesEnough'
        BY <1>1, <2>1, <2>2, <2>3 DEF Typed, TypeOK, CarriesEnough, RegisterCheck
    <2> QED BY <2>4, <2>5 DEF Typed
<1>2. CASE RegisterCreate(r)
    <2> DEFINE u == [id |-> r, handle |-> form[r].handle, invitedBy |-> None]
    <2>1. u \in Account
        BY <1>2 DEF Typed, CarriesEnough, RegisterCreate, Step, Account, Accounts
    <2>2. users' \in Seq(Account)
        BY <1>2, <2>1, UsersType DEF RegisterCreate, Typed
    <2>3. pc' = [pc EXCEPT ![r] = "done"] /\ UNCHANGED <<peak, form, createdBy>>
        BY <1>2 DEF RegisterCreate, Step
    <2>4. TypeOK'
        BY <1>2, <2>2, <2>3 DEF Typed, TypeOK, RegisterCreate, Labels, Account
    <2>5. CarriesEnough'
        BY <2>3 DEF Typed, TypeOK, CarriesEnough
    <2> QED BY <2>4, <2>5 DEF Typed
<1> QED BY <1>1, <1>2

LEMMA FirstWithType ==
    ASSUME TypeOK, NEW h, Taken(h)
    PROVE  FirstWith(h) \in Accounts
<1> DEFINE S == {i \in DOMAIN users : users[i].handle = h}
<1>1. DOMAIN users \subseteq Nat
    BY DEF TypeOK
<1>2. S \in SUBSET Nat /\ S # {}
    BY <1>1 DEF Taken, ToSet
<1>3. Min(S) \in DOMAIN users
    BY <1>2, MinIsThere
<1>4. users[Min(S)] \in Account
    BY <1>3, UsersType
<1> QED BY <1>4 DEF FirstWith, Account

LEMMA LoginTyped ==
    ASSUME Typed, NEW r \in Requests, NEW h \in Typeable, LoginLookup(r, h)
    PROVE  Typed'
<1> DEFINE next == IF Taken(h) THEN "session" ELSE "refused"
           who == IF Taken(h) THEN FirstWith(h) ELSE None
           f == [NoForm EXCEPT !.handle = h, !.user = who]
<1>1. /\ pc' = [pc EXCEPT ![r] = next]
      /\ pc' \in [Requests -> Labels] /\ peak' \in 0..MaxInFlight
    <2>1. next \in Labels /\ Begin(r, next)
        BY DEF Labels, LoginLookup
    <2> QED BY <2>1, BeginType, InFlightFinite DEF Typed
<1>2. who \in Accounts \cup {None}
    BY FirstWithType DEF Typed
<1>3. f \in Form
    BY <1>2 DEF Form, NoForm
<1>4. form' = [form EXCEPT ![r] = f] /\ form' \in [Requests -> Form]
    BY <1>3, UsersType DEF LoginLookup, Typed
<1>5. TypeOK'
    BY <1>1, <1>4 DEF Typed, TypeOK, LoginLookup, Form
<1>6. CarriesEnough'
    BY <1>1, <1>4 DEF Typed, TypeOK, CarriesEnough, LoginLookup
<1> QED BY <1>5, <1>6 DEF Typed

LEMMA SessionTyped ==
    ASSUME Typed, NEW r \in Requests,
           OpenSession(r) \/ \E t \in Requests : Logout(r, t)
    PROVE  Typed'
<1>1. CASE OpenSession(r)
    <2>1. pc' = [pc EXCEPT ![r] = "done"] /\ UNCHANGED <<peak, form, users, createdBy, redeemedBy>>
        BY <1>1 DEF OpenSession, Step
    <2>2. session' \in [Requests -> Accounts \cup {None}]
        BY <1>1 DEF OpenSession, Typed, TypeOK
    <2> QED BY <2>1, <2>2 DEF Typed, TypeOK, CarriesEnough, Labels
<1>2. ASSUME NEW t \in Requests, Logout(r, t) PROVE Typed'
    <2>1. /\ pc' = [pc EXCEPT ![r] = "done"]
          /\ pc' \in [Requests -> Labels] /\ peak' \in 0..MaxInFlight
        BY <1>2, BeginType, InFlightFinite DEF Typed, Logout, Labels
    <2>2. session' \in [Requests -> Accounts \cup {None}]
        BY <1>2 DEF Logout, Typed, TypeOK
    <2> QED BY <1>2, <2>1, <2>2 DEF Typed, TypeOK, CarriesEnough, Logout
<1> QED BY <1>1, <1>2

LEMMA InviteTyped ==
    ASSUME Typed, NEW r \in Requests,
           InviteIssue(r) \/ \E t \in Requests : InviteResolve(r, t)
    PROVE  Typed'
<1>1. ASSUME NEW t \in Requests, InviteResolve(r, t) PROVE Typed'
    <2> DEFINE next == IF session[t] = None THEN "refused" ELSE "issue"
               f == [NoForm EXCEPT !.user = session[t]]
    <2>1. /\ pc' = [pc EXCEPT ![r] = next]
          /\ pc' \in [Requests -> Labels] /\ peak' \in 0..MaxInFlight
        <3>1. next \in Labels /\ Begin(r, next)
            BY <1>1 DEF Labels, InviteResolve
        <3> QED BY <3>1, BeginType, InFlightFinite DEF Typed
    <2>2. f \in Form
        BY DEF Form, NoForm, Typed, TypeOK
    <2>3. form' = [form EXCEPT ![r] = f] /\ form' \in [Requests -> Form]
        BY <1>1, <2>2, UsersType DEF InviteResolve, Typed
    <2>4. TypeOK'
        BY <1>1, <2>1, <2>3 DEF Typed, TypeOK, InviteResolve, Form
    <2>5. CarriesEnough'
        BY <1>1, <2>1, <2>3 DEF Typed, TypeOK, CarriesEnough, InviteResolve
    <2> QED BY <2>4, <2>5 DEF Typed
<1>2. CASE InviteIssue(r)
    <2>1. PICK c \in Codes : /\ createdBy[c] = None
                             /\ createdBy' = [createdBy EXCEPT ![c] = form[r].user]
                             /\ form' = [form EXCEPT ![r].code = c]
        BY <1>2 DEF InviteIssue
    <2>2. /\ pc' = [pc EXCEPT ![r] = "done"] /\ pc[r] = "issue"
          /\ UNCHANGED <<peak, users, redeemedBy, session>>
        BY <1>2 DEF InviteIssue, Step
    <2>3. form' \in [Requests -> Form]
        BY <2>1, UsersType DEF Typed, Form
    <2>4. createdBy' \in [Codes -> Accounts \cup {None}]
        BY <2>1, UsersType DEF Typed, TypeOK
    <2>5. TypeOK'
        BY <2>2, <2>3, <2>4 DEF Typed, TypeOK, Labels, Form
    <2>6. None \notin Accounts
        BY MembershipAssumption DEF Accounts
    <2>7. \A d \in Codes : createdBy[d] \in Accounts => createdBy'[d] = createdBy[d]
        BY <2>1, <2>6 DEF Typed, TypeOK
    <2>8. CarriesEnough'
        BY <2>1, <2>2, <2>7 DEF Typed, TypeOK, CarriesEnough
    <2> QED BY <2>5, <2>8 DEF Typed
<1> QED BY <1>1, <1>2

LEMMA NextTyped == Typed /\ [Next]_vars => Typed'
<1> SUFFICES ASSUME Typed, [Next]_vars PROVE Typed'
    OBVIOUS
<1>1. CASE UNCHANGED vars
    BY <1>1 DEF vars, Typed, TypeOK, CarriesEnough
<1> QED BY <1>1, JoinCheckTyped, JoinCreateTyped, JoinMarkTyped, RegisterTyped, LoginTyped,
           SessionTyped, InviteTyped DEF Next

THEOREM MembershipTypeCorrect == Spec => []TypeOK
<1>1. Spec => []Typed
    BY InitTyped, NextTyped, PTL DEF Spec
<1> QED BY <1>1, PTL DEF Typed

-----------------------------------------------------------------------------
(* What a step leaves alone.                                               *)

\* A step of request r that makes no account and marks no code.
Quiet(r) ==
    /\ UNCHANGED <<users, redeemedBy>>
    /\ \A q \in Requests \ {r} : pc'[q] = pc[q] /\ form'[q] = form[q]
    /\ pc[r] \in {"new", "session", "issue"} /\ pc'[r] # "mark"
    /\ pc[r] = "session" => form'[r] = form[r] /\ pc'[r] = "done"
    /\ \A c \in Codes : createdBy[c] \in Accounts => createdBy'[c] = createdBy[c]

\* It makes no account for r later on either.
Harmless(r) == Quiet(r) /\ pc'[r] \notin {"create", "register"}

LEMMA JoinCheckQuiet ==
    ASSUME TypeOK, NEW r \in Requests, NEW c \in Codes, NEW h \in Typeable, JoinCheck(r, c, h)
    PROVE  /\ Quiet(r) /\ pc'[r] # "register"
           /\ pc'[r] = "create" =>
                  /\ redeemedBy[c] = None /\ ~Taken(h)
                  /\ form'[r].code = c /\ form'[r].handle = h
BY DEF JoinCheck, Begin, Quiet, TypeOK, NoForm

LEMMA RegisterCheckQuiet ==
    ASSUME TypeOK, NEW r \in Requests, NEW h \in Typeable, RegisterCheck(r, h)
    PROVE  /\ Quiet(r) /\ pc'[r] # "create"
           /\ pc'[r] = "register" => ~Taken(h) /\ form'[r].handle = h
BY DEF RegisterCheck, Begin, Quiet, TypeOK, NoForm

LEMMA OthersHarmless ==
    ASSUME TypeOK, NEW r \in Requests,
           \/ \E h \in Typeable : LoginLookup(r, h)
           \/ OpenSession(r) \/ InviteIssue(r)
           \/ \E t \in Requests : Logout(r, t) \/ InviteResolve(r, t)
    PROVE  Harmless(r)
<1>1. ASSUME NEW h \in Typeable, LoginLookup(r, h) PROVE Harmless(r)
    BY <1>1 DEF LoginLookup, Begin, Harmless, Quiet, TypeOK
<1>2. CASE OpenSession(r)
    BY <1>2 DEF OpenSession, Step, Harmless, Quiet, TypeOK
<1>3. ASSUME NEW t \in Requests, Logout(r, t) \/ InviteResolve(r, t) PROVE Harmless(r)
    BY <1>3 DEF Logout, InviteResolve, Begin, Harmless, Quiet, TypeOK
<1>4. CASE InviteIssue(r)
    <2>1. None \notin Accounts
        BY MembershipAssumption DEF Accounts
    <2> QED BY <1>4, <2>1 DEF InviteIssue, Step, Harmless, Quiet, TypeOK
<1> QED BY <1>1, <1>2, <1>3, <1>4

\* What joining and registering do to the accounts.
LEMMA JoinCreateUsers ==
    ASSUME Typed, NEW r \in Requests, JoinCreate(r)
    PROVE  /\ ToSet(users') = ToSet(users) \cup
                  {[id |-> r, handle |-> form[r].handle, invitedBy |-> createdBy[form[r].code]]}
           /\ pc[r] = "create" /\ pc' = [pc EXCEPT ![r] = "mark"]
           /\ UNCHANGED <<form, createdBy, redeemedBy, peak>>
<1> DEFINE u == [id |-> r, handle |-> form[r].handle, invitedBy |-> createdBy[form[r].code]]
<1>1. u \in Account
    BY DEF Typed, CarriesEnough, JoinCreate, Step, Account, Accounts
<1>2. ToSet(users') = ToSet(users) \cup {u}
    BY <1>1, UsersType, ToSetOfAppend DEF JoinCreate, Typed
<1> QED BY <1>2 DEF JoinCreate, Step

LEMMA RegisterCreateUsers ==
    ASSUME Typed, NEW r \in Requests, RegisterCreate(r)
    PROVE  /\ ToSet(users') = ToSet(users) \cup
                  {[id |-> r, handle |-> form[r].handle, invitedBy |-> None]}
           /\ pc[r] = "register" /\ pc' = [pc EXCEPT ![r] = "done"]
           /\ UNCHANGED <<form, createdBy, redeemedBy, peak>>
<1> DEFINE u == [id |-> r, handle |-> form[r].handle, invitedBy |-> None]
<1>1. u \in Account
    BY DEF Typed, CarriesEnough, RegisterCreate, Step, Account, Accounts
<1>2. ToSet(users') = ToSet(users) \cup {u}
    BY <1>1, UsersType, ToSetOfAppend DEF RegisterCreate, Typed
<1> QED BY <1>2 DEF RegisterCreate, Step

LEMMA NextCases ==
    ASSUME TypeOK, [Next]_vars
    PROVE  \/ UNCHANGED vars
           \/ \E r \in Requests :
                  \/ \E h \in Typeable :
                         \/ \E c \in Codes : JoinCheck(r, c, h)
                         \/ RegisterCheck(r, h)
                  \/ JoinCreate(r) \/ JoinMark(r) \/ RegisterCreate(r) \/ Harmless(r)
BY OthersHarmless DEF Next

LEMMA NextQuiet ==
    ASSUME TypeOK, [Next]_vars
    PROVE  \/ UNCHANGED vars
           \/ \E r \in Requests :
                  Quiet(r) \/ JoinCreate(r) \/ JoinMark(r) \/ RegisterCreate(r)
BY NextCases, JoinCheckQuiet, RegisterCheckQuiet DEF Harmless

-----------------------------------------------------------------------------
(* Every account is accounted for by the request that made it.             *)

\* A request that made an account is past that point, and what the account
\* says of its invitation is what the request worked with.
AccountOfRequest(u) ==
    /\ u.id \in Requests => pc[u.id] \in {"mark", "session", "done"}
    /\ u.id = System => u.handle = System
    /\ u.invitedBy # None =>
           /\ u.id \in Requests /\ form[u.id].code \in Codes
           /\ u.invitedBy = createdBy[form[u.id].code]

OneAccountEach == \A u, v \in ToSet(users) : u.id = v.id => u = v

MarkingJoined ==
    \A r \in Requests :
        pc[r] = "mark" => \E u \in ToSet(users) : u.id = r /\ u.invitedBy # None

Accounted ==
    /\ \A u \in ToSet(users) : AccountOfRequest(u)
    /\ OneAccountEach
    /\ MarkingJoined

\* Inductive.
Registered == Typed /\ Accounted /\ RedeemerJoined

LEMMA AccountType ==
    ASSUME TypeOK, NEW u \in ToSet(users)
    PROVE  u \in Account /\ u.id \in Accounts /\ (u.id \in Requests \/ u.id = System)
<1>1. u \in Account
    BY UsersType DEF ToSet
<1> QED BY <1>1 DEF Account, Accounts

LEMMA InitRegistered == Init => Registered
<1> SUFFICES ASSUME Init PROVE Registered
    OBVIOUS
<1> DEFINE s == [id |-> System, handle |-> System, invitedBy |-> None]
<1>1. ToSet(users) = {s}
    BY DEF Init, ToSet
<1>2. s.id \notin Requests
    BY MembershipAssumption
<1>3. Accounted
    BY <1>1, <1>2 DEF Accounted, AccountOfRequest, OneAccountEach, MarkingJoined, Init
<1>4. RedeemerJoined
    BY DEF Init, RedeemerJoined
<1> QED BY <1>3, <1>4, InitTyped DEF Registered

\* Accounts stay, with their invitation.
LEMMA AccountsStay ==
    ASSUME Typed, Accounted, [Next]_vars, NEW u \in ToSet(users)
    PROVE  /\ u \in ToSet(users') /\ AccountOfRequest(u)'
           /\ u.invitedBy # None => form'[u.id].code = form[u.id].code
<1>1. AccountOfRequest(u) /\ u \in Account /\ TypeOK
    BY AccountType DEF Accounted, Typed
<1>2. CASE UNCHANGED vars
    BY <1>1, <1>2 DEF vars, AccountOfRequest
<1>3. ASSUME NEW r \in Requests, Quiet(r)
      PROVE  /\ u \in ToSet(users') /\ AccountOfRequest(u)'
             /\ u.invitedBy # None => form'[u.id].code = form[u.id].code
    <2>1. u \in ToSet(users')
        BY <1>3 DEF Quiet
    <2>2. u.id = r => pc[r] = "session"
        BY <1>1, <1>3 DEF Quiet, AccountOfRequest
    <2>3. u.id \in Requests => /\ form'[u.id] = form[u.id]
                               /\ pc'[u.id] \in {"mark", "session", "done"}
        BY <1>1, <1>3, <2>2 DEF Quiet, AccountOfRequest
    <2>4. \A c \in Codes : createdBy[c] = u.invitedBy /\ u.invitedBy # None =>
                               createdBy'[c] = u.invitedBy
        BY <1>1, <1>3 DEF Quiet, Account
    <2> QED BY <1>1, <2>1, <2>3, <2>4 DEF AccountOfRequest
<1>4. ASSUME NEW r \in Requests, JoinCreate(r) \/ RegisterCreate(r)
      PROVE  /\ u \in ToSet(users') /\ AccountOfRequest(u)'
             /\ u.invitedBy # None => form'[u.id].code = form[u.id].code
    <2>1. u \in ToSet(users') /\ UNCHANGED <<form, createdBy>>
        BY <1>4, JoinCreateUsers, RegisterCreateUsers
    <2>2. pc' = [pc EXCEPT ![r] = "mark"] \/ pc' = [pc EXCEPT ![r] = "done"]
        BY <1>4, JoinCreateUsers, RegisterCreateUsers
    <2>3. u.id \in Requests => pc'[u.id] \in {"mark", "session", "done"}
        BY <1>1, <2>2 DEF AccountOfRequest, TypeOK
    <2> QED BY <1>1, <2>1, <2>3 DEF AccountOfRequest
<1>5. ASSUME NEW r \in Requests, JoinMark(r)
      PROVE  /\ u \in ToSet(users') /\ AccountOfRequest(u)'
             /\ u.invitedBy # None => form'[u.id].code = form[u.id].code
    <2>1. /\ UNCHANGED <<users, createdBy>> /\ pc' = [pc EXCEPT ![r] = "session"]
          /\ form' = [form EXCEPT ![r].user = r]
        BY <1>5 DEF JoinMark, Step
    <2>2. u.id \in Requests => /\ pc'[u.id] \in {"mark", "session", "done"}
                               /\ form'[u.id].code = form[u.id].code
        BY <1>1, <2>1, UsersType DEF AccountOfRequest, TypeOK, Form
    <2> QED BY <1>1, <2>1, <2>2 DEF AccountOfRequest
<1> QED BY <1>1, <1>2, <1>3, <1>4, <1>5, NextQuiet

LEMMA NextAccounted == Typed /\ Accounted /\ [Next]_vars => Accounted'
<1> SUFFICES ASSUME Typed, Accounted, [Next]_vars PROVE Accounted'
    OBVIOUS
<1>1. TypeOK
    BY DEF Typed
<1>2. \A u \in ToSet(users) : u \in ToSet(users') /\ AccountOfRequest(u)'
    BY AccountsStay
<1>3. CASE UNCHANGED vars
    BY <1>2, <1>3 DEF vars, Accounted, OneAccountEach, MarkingJoined
<1>4. ASSUME NEW r \in Requests, Quiet(r) PROVE Accounted'
    <2>1. ToSet(users') = ToSet(users)
        BY <1>4 DEF Quiet
    <2>2. \A q \in Requests : pc'[q] = "mark" => pc[q] = "mark"
        BY <1>4 DEF Quiet
    <2> QED BY <1>2, <2>1, <2>2 DEF Accounted, OneAccountEach, MarkingJoined
<1>5. ASSUME NEW r \in Requests, JoinMark(r) PROVE Accounted'
    <2>1. /\ UNCHANGED users /\ pc' = [pc EXCEPT ![r] = "session"]
        BY <1>5 DEF JoinMark, Step
    <2>2. \A q \in Requests : pc'[q] = "mark" => pc[q] = "mark"
        BY <1>1, <2>1 DEF TypeOK
    <2> QED BY <1>2, <2>1, <2>2 DEF Accounted, OneAccountEach, MarkingJoined
<1>6. ASSUME NEW r \in Requests, JoinCreate(r) PROVE Accounted'
    <2>1. PICK u : u = [id |-> r, handle |-> form[r].handle, invitedBy |-> createdBy[form[r].code]]
        OBVIOUS
    <2>2. /\ ToSet(users') = ToSet(users) \cup {u}
          /\ pc[r] = "create" /\ pc' = [pc EXCEPT ![r] = "mark"]
          /\ UNCHANGED <<form, createdBy>>
        BY <1>6, <2>1, JoinCreateUsers
    <2>3. /\ form[r].code \in Codes /\ createdBy[form[r].code] \in Accounts
          /\ u.id = r /\ u.invitedBy = createdBy[form[r].code] /\ r # System
        BY <2>1, <2>2, MembershipAssumption DEF Typed, CarriesEnough
    <2>4. u.invitedBy # None /\ pc'[r] = "mark"
        BY <1>1, <2>2, <2>3, MembershipAssumption DEF Accounts, TypeOK
    <2>5. AccountOfRequest(u)'
        BY <2>2, <2>3, <2>4 DEF AccountOfRequest
    <2>6. \A v \in ToSet(users) : v.id # u.id
        BY <2>2, <2>3 DEF Accounted, AccountOfRequest
    <2>7. OneAccountEach'
        BY <2>2, <2>6 DEF Accounted, OneAccountEach
    <2>8. MarkingJoined'
        <3>1. \A q \in Requests \ {r} : pc'[q] = pc[q]
            BY <1>1, <2>2 DEF TypeOK
        <3> QED BY <3>1, <2>2, <2>3, <2>4 DEF Accounted, MarkingJoined
    <2> QED BY <1>2, <2>2, <2>5, <2>7, <2>8 DEF Accounted
<1>7. ASSUME NEW r \in Requests, RegisterCreate(r) PROVE Accounted'
    <2>1. PICK u : u = [id |-> r, handle |-> form[r].handle, invitedBy |-> None]
        OBVIOUS
    <2>2. /\ ToSet(users') = ToSet(users) \cup {u}
          /\ pc[r] = "register" /\ pc' = [pc EXCEPT ![r] = "done"]
          /\ UNCHANGED <<form, createdBy>>
        BY <1>7, <2>1, RegisterCreateUsers
    <2>3. pc'[r] = "done" /\ r # System /\ u.id = r /\ u.invitedBy = None
        BY <1>1, <2>1, <2>2, MembershipAssumption DEF TypeOK
    <2>4. AccountOfRequest(u)'
        BY <2>3 DEF AccountOfRequest
    <2>5. \A v \in ToSet(users) : v.id # u.id
        BY <2>2, <2>3 DEF Accounted, AccountOfRequest
    <2>6. OneAccountEach'
        BY <2>2, <2>5 DEF Accounted, OneAccountEach
    <2>7. MarkingJoined'
        <3>1. \A q \in Requests : pc'[q] = "mark" => pc[q] = "mark"
            BY <1>1, <2>2 DEF TypeOK
        <3> QED BY <3>1, <2>2 DEF Accounted, MarkingJoined
    <2> QED BY <1>2, <2>2, <2>4, <2>6, <2>7 DEF Accounted
<1> QED BY <1>1, <1>3, <1>4, <1>5, <1>6, <1>7, NextQuiet

\* Members stay members: an account that joined with c joined with c for good.
LEMMA JoinedStays ==
    ASSUME Typed, Accounted, [Next]_vars, NEW c \in Codes, NEW u \in JoinedWith(c)
    PROVE  u \in JoinedWith(c)' /\ u.invitedBy = createdBy[c] /\ u.invitedBy = createdBy'[c]
<1>1. u \in ToSet(users) /\ u.invitedBy # None /\ form[u.id].code = c
    BY DEF JoinedWith
<1>2. /\ u \in ToSet(users') /\ AccountOfRequest(u) /\ AccountOfRequest(u)'
      /\ form'[u.id].code = c
    BY <1>1, AccountsStay DEF Accounted
<1> QED BY <1>1, <1>2 DEF JoinedWith, AccountOfRequest

LEMMA NextRedeemer ==
    Typed /\ Accounted /\ RedeemerJoined /\ [Next]_vars => RedeemerJoined'
<1> SUFFICES ASSUME Typed, Accounted, RedeemerJoined, [Next]_vars,
                    NEW c \in Codes, redeemedBy'[c] # None
             PROVE  \E u \in JoinedWith(c)' : u.id = redeemedBy'[c] /\ u.invitedBy = createdBy'[c]
    BY DEF RedeemerJoined
<1>1. TypeOK
    BY DEF Typed
<1>2. CASE redeemedBy'[c] = redeemedBy[c]
    BY <1>2, JoinedStays DEF RedeemerJoined
<1>3. ASSUME NEW r \in Requests, JoinMark(r), redeemedBy'[c] # redeemedBy[c]
      PROVE  \E u \in JoinedWith(c) : u.id = redeemedBy'[c] /\ u.invitedBy = createdBy[c]
    <2>1. pc[r] = "mark" /\ form[r].code = c /\ redeemedBy'[c] = r
        BY <1>1, <1>3 DEF JoinMark, Step, TypeOK
    <2>2. PICK u \in ToSet(users) : u.id = r /\ u.invitedBy # None
        BY <2>1 DEF Accounted, MarkingJoined
    <2> QED BY <2>1, <2>2 DEF JoinedWith, Accounted, AccountOfRequest
<1>4. ASSUME UNCHANGED vars \/ \E r \in Requests : Quiet(r) \/ JoinCreate(r) \/ RegisterCreate(r)
      PROVE  redeemedBy' = redeemedBy
    BY <1>4 DEF vars, Quiet, JoinCreate, RegisterCreate
<1>5. CASE \E r \in Requests : JoinMark(r)
    BY <1>2, <1>3, <1>5, JoinedStays
<1> QED BY <1>1, <1>2, <1>4, <1>5, NextQuiet

LEMMA NextRegistered == Registered /\ [Next]_vars => Registered'
BY NextTyped, NextAccounted, NextRedeemer DEF Registered

\* A used code names an account that joined with it: redeem_invite's three
\* locked sections, in any order with those of other requests.
THEOREM UsedCodeHasItsMember == Spec => []RedeemerJoined
<1>1. Spec => []Registered
    BY InitRegistered, NextRegistered, PTL DEF Spec
<1> QED BY <1>1, PTL DEF Registered

-----------------------------------------------------------------------------
(* Duplicates: a request that may still make an account, and one that made *)
(* it, hold the same place in the count.                                   *)

Ids(A) == {u.id : u \in A}

\* Who has joined with code c or is about to; who has handle h or is about to.
Joining(c) == {r \in Requests : pc[r] = "create" /\ form[r].code = c} \cup Ids(JoinedWith(c))
Naming(h) == {r \in Requests : pc[r] \in {"create", "register"} /\ form[r].handle = h}
                 \cup Ids(Named(h))

\* As long as a code is unused, those who joined with it are in flight.
UnusedInFlight ==
    \A c \in Codes : redeemedBy[c] = None => \A u \in JoinedWith(c) : pc[u.id] = "mark"

Counted ==
    /\ \A c \in Codes : Joining(c) \subseteq Requests /\ Cardinality(Joining(c)) <= peak
    /\ \A h \in Handles : Naming(h) \subseteq Requests /\ Cardinality(Naming(h)) <= peak

LEMMA FiniteInRequests ==
    ASSUME NEW S, S \subseteq Requests
    PROVE  IsFiniteSet(S) /\ Cardinality(S) \in Nat
BY MembershipAssumption, FS_Subset, FS_CardinalityType

LEMMA ShrinkingCount ==
    ASSUME NEW S, NEW T, S \subseteq Requests, T \subseteq S, Cardinality(S) <= peak,
           peak \in Nat, peak' \in Nat, peak <= peak'
    PROVE  Cardinality(T) <= peak'
<1>1. IsFiniteSet(S) /\ T \in SUBSET S /\ Cardinality(S) \in Nat
    BY FiniteInRequests
<1>2. Cardinality(T) <= Cardinality(S) /\ Cardinality(T) \in Nat
    BY <1>1, FS_Subset, FS_CardinalityType
<1> QED BY <1>1, <1>2

LEMMA BeginningCount ==
    ASSUME NEW r \in Requests, NEW T, T \subseteq InFlight \cup {r},
           peak' \in Nat, peak' >= Cardinality(InFlight) + 1
    PROVE  Cardinality(T) <= peak'
<1> DEFINE S == InFlight \cup {r}
<1>1. IsFiniteSet(S) /\ Cardinality(S) \in Nat /\ Cardinality(S) <= Cardinality(InFlight) + 1
    <2>1. IsFiniteSet(InFlight) /\ Cardinality(InFlight) \in Nat
        BY InFlightFinite
    <2>2. /\ IsFiniteSet(S)
          /\ Cardinality(S) = IF r \in InFlight THEN Cardinality(InFlight)
                                                ELSE Cardinality(InFlight) + 1
        BY <2>1, FS_AddElement
    <2> QED BY <2>1, <2>2
<1>2. T \in SUBSET S
    OBVIOUS
<1>3. Cardinality(T) <= Cardinality(S) /\ Cardinality(T) \in Nat
    BY <1>1, <1>2, FS_Subset, FS_CardinalityType
<1> QED BY <1>1, <1>3, InFlightFinite

LEMMA InitCounted == Init => Counted /\ UnusedInFlight
<1> SUFFICES ASSUME Init PROVE Counted /\ UnusedInFlight
    OBVIOUS
<1> DEFINE s == [id |-> System, handle |-> System, invitedBy |-> None]
<1>1. ToSet(users) = {s}
    BY DEF Init, ToSet
<1>2. \A c \in Codes : JoinedWith(c) = {} /\ Joining(c) = {}
    BY <1>1 DEF Init, JoinedWith, Joining, Ids
<1>3. \A h \in Handles : Named(h) = {} /\ Naming(h) = {}
    BY <1>1, MembershipAssumption DEF Init, Named, Naming, Ids
<1>4. Cardinality({}) = 0 /\ peak = 0
    BY FS_EmptySet DEF Init
<1> QED BY <1>2, <1>3, <1>4 DEF Counted, UnusedInFlight

LEMMA PeakGrows ==
    ASSUME Typed, [Next]_vars
    PROVE  peak \in Nat /\ peak' \in Nat /\ peak <= peak'
<1>1. peak \in Nat /\ peak' \in Nat
    BY NextTyped, MembershipAssumption DEF Typed, TypeOK
<1>2. ASSUME NEW r \in Requests, NEW next, Begin(r, next) PROVE peak <= peak'
    BY <1>1, <1>2, InFlightFinite, MaxOfTwo DEF Begin
<1>3. ASSUME NEW r \in Requests, NEW from, NEW to, Step(r, from, to) PROVE peak <= peak'
    BY <1>1, <1>3 DEF Step
<1>4. CASE UNCHANGED vars
    BY <1>1, <1>4 DEF vars
<1>5. ASSUME NEW r \in Requests, NEW h \in Typeable,
             (\E c \in Codes : JoinCheck(r, c, h)) \/ RegisterCheck(r, h) \/ LoginLookup(r, h)
      PROVE  peak <= peak'
    BY <1>2, <1>5 DEF JoinCheck, RegisterCheck, LoginLookup
<1>6. ASSUME NEW r \in Requests, \E t \in Requests : Logout(r, t) \/ InviteResolve(r, t)
      PROVE  peak <= peak'
    BY <1>2, <1>6 DEF Logout, InviteResolve
<1>7. ASSUME NEW r \in Requests,
             \/ JoinCreate(r) \/ JoinMark(r) \/ RegisterCreate(r)
             \/ OpenSession(r) \/ InviteIssue(r)
      PROVE  peak <= peak'
    BY <1>3, <1>7 DEF JoinCreate, JoinMark, RegisterCreate, OpenSession, InviteIssue
<1> QED BY <1>1, <1>4, <1>5, <1>6, <1>7 DEF Next

\* Who joined with what does not change under a step that makes no account.
LEMMA SameMembers ==
    ASSUME Typed, Accounted, [Next]_vars, ToSet(users') = ToSet(users)
    PROVE  /\ \A c \in Codes : JoinedWith(c)' = JoinedWith(c)
           /\ \A h : Named(h)' = Named(h)
<1>1. \A u \in ToSet(users) : u.invitedBy # None => form'[u.id].code = form[u.id].code
    BY AccountsStay
<1> QED BY <1>1 DEF JoinedWith, Named

LEMMA HarmlessCounted ==
    ASSUME Typed, Accounted, Counted, [Next]_vars, NEW r \in Requests, Harmless(r)
    PROVE  Counted'
<1>1. /\ \A c \in Codes : JoinedWith(c)' = JoinedWith(c)
      /\ \A h : Named(h)' = Named(h)
    BY SameMembers DEF Harmless, Quiet
<1>2. \A q \in Requests : pc'[q] \in {"create", "register"} =>
                              pc'[q] = pc[q] /\ form'[q] = form[q]
    BY DEF Harmless, Quiet
<1>3. \A c \in Codes : Joining(c)' \subseteq Joining(c)
    BY <1>1, <1>2 DEF Joining, Ids
<1>4. \A h \in Handles : Naming(h)' \subseteq Naming(h)
    BY <1>1, <1>2 DEF Naming, Ids
<1> QED BY <1>3, <1>4, PeakGrows, ShrinkingCount DEF Counted

\* What the two checks do to the counts, from what they leave as they found it.
LEMMA CheckCounted ==
    ASSUME Typed, Accounted, Counted, UnusedInFlight, [Next]_vars, NEW r \in Requests, Quiet(r),
           peak' >= Cardinality(InFlight) + 1,
           pc'[r] = "create" => form'[r].code \in Codes /\ redeemedBy[form'[r].code] = None,
           pc'[r] \in {"create", "register"} => ~Taken(form'[r].handle)
    PROVE  Counted'
<1>1. /\ \A c \in Codes : JoinedWith(c)' = JoinedWith(c)
      /\ \A h : Named(h)' = Named(h)
    BY SameMembers DEF Quiet
<1>2. \A q \in Requests \ {r} : pc'[q] = pc[q] /\ form'[q] = form[q]
    BY DEF Quiet
<1>3. peak \in Nat /\ peak' \in Nat /\ peak <= peak'
    BY PeakGrows
<1>4. \A q \in Requests : pc[q] \in {"create", "register", "mark"} => q \in InFlight
    BY DEF InFlight
<1>5. ASSUME NEW c \in Codes
      PROVE  Joining(c)' \subseteq Requests /\ Cardinality(Joining(c)') <= peak'
    <2>1. CASE pc'[r] = "create" /\ form'[r].code = c
        <3>1. \A u \in JoinedWith(c) : u.id \in InFlight
            BY <1>4, <2>1 DEF UnusedInFlight, JoinedWith, Accounted, AccountOfRequest
        <3>2. Joining(c)' \subseteq InFlight \cup {r}
            BY <1>1, <1>2, <1>4, <3>1 DEF Joining, Ids
        <3> QED BY <1>3, <3>2, BeginningCount, InFlightFinite
    <2>2. CASE ~(pc'[r] = "create" /\ form'[r].code = c)
        <3>1. Joining(c)' \subseteq Joining(c)
            BY <1>1, <1>2, <2>2 DEF Joining, Ids
        <3> QED BY <1>3, <3>1, ShrinkingCount DEF Counted
    <2> QED BY <2>1, <2>2
<1>6. ASSUME NEW h \in Handles
      PROVE  Naming(h)' \subseteq Requests /\ Cardinality(Naming(h)') <= peak'
    <2>1. CASE pc'[r] \in {"create", "register"} /\ form'[r].handle = h
        <3>1. Named(h) = {}
            BY <2>1 DEF Named, Taken
        <3>2. Naming(h)' \subseteq InFlight \cup {r}
            BY <1>1, <1>2, <1>4, <3>1 DEF Naming, Ids
        <3> QED BY <1>3, <3>2, BeginningCount, InFlightFinite
    <2>2. CASE ~(pc'[r] \in {"create", "register"} /\ form'[r].handle = h)
        <3>1. Naming(h)' \subseteq Naming(h)
            BY <1>1, <1>2, <2>2 DEF Naming, Ids
        <3> QED BY <1>3, <3>1, ShrinkingCount DEF Counted
    <2> QED BY <2>1, <2>2
<1> QED BY <1>5, <1>6 DEF Counted

LEMMA JoinCheckCounted ==
    ASSUME Typed, Accounted, Counted, UnusedInFlight, [Next]_vars,
           NEW r \in Requests, NEW c \in Codes, NEW h \in Typeable, JoinCheck(r, c, h)
    PROVE  Counted'
<1>1. /\ Quiet(r) /\ pc'[r] # "register"
      /\ pc'[r] = "create" => /\ redeemedBy[c] = None /\ ~Taken(h)
                              /\ form'[r].code = c /\ form'[r].handle = h
    BY JoinCheckQuiet DEF Typed
<1>2. peak' >= Cardinality(InFlight) + 1
    BY BeginType, InFlightFinite DEF Typed, JoinCheck, Labels
<1> QED BY <1>1, <1>2, CheckCounted

LEMMA RegisterCheckCounted ==
    ASSUME Typed, Accounted, Counted, UnusedInFlight, [Next]_vars,
           NEW r \in Requests, NEW h \in Typeable, RegisterCheck(r, h)
    PROVE  Counted'
<1>1. /\ Quiet(r) /\ pc'[r] # "create"
      /\ pc'[r] = "register" => ~Taken(h) /\ form'[r].handle = h
    BY RegisterCheckQuiet DEF Typed
<1>2. peak' >= Cardinality(InFlight) + 1
    BY BeginType, InFlightFinite DEF Typed, RegisterCheck, Labels
<1> QED BY <1>1, <1>2, CheckCounted

\* The request leaves the count where its account enters it.
LEMMA JoinCreateCounted ==
    ASSUME Typed, Accounted, Counted, [Next]_vars, NEW r \in Requests, JoinCreate(r)
    PROVE  Counted'
<1>1. PICK u : u = [id |-> r, handle |-> form[r].handle, invitedBy |-> createdBy[form[r].code]]
    OBVIOUS
<1>2. /\ ToSet(users') = ToSet(users) \cup {u}
      /\ pc[r] = "create" /\ pc' = [pc EXCEPT ![r] = "mark"]
      /\ UNCHANGED <<form, createdBy>>
    BY <1>1, JoinCreateUsers
<1>3. \A q \in Requests : pc'[q] \in {"create", "register"} => pc'[q] = pc[q]
    BY <1>2 DEF Typed, TypeOK
<1>4. u.id = r /\ u.handle = form[r].handle
    BY <1>1
<1>5. \A c \in Codes : Joining(c)' \subseteq Joining(c)
    BY <1>2, <1>3, <1>4 DEF Joining, JoinedWith, Ids
<1>6. \A h \in Handles : Naming(h)' \subseteq Naming(h)
    BY <1>2, <1>3, <1>4 DEF Naming, Named, Ids
<1> QED BY <1>5, <1>6, PeakGrows, ShrinkingCount DEF Counted

LEMMA RegisterCreateCounted ==
    ASSUME Typed, Accounted, Counted, [Next]_vars, NEW r \in Requests, RegisterCreate(r)
    PROVE  Counted'
<1>1. PICK u : u = [id |-> r, handle |-> form[r].handle, invitedBy |-> None]
    OBVIOUS
<1>2. /\ ToSet(users') = ToSet(users) \cup {u}
      /\ pc[r] = "register" /\ pc' = [pc EXCEPT ![r] = "done"]
      /\ UNCHANGED <<form, createdBy>>
    BY <1>1, RegisterCreateUsers
<1>3. \A q \in Requests : pc'[q] \in {"create", "register"} => pc'[q] = pc[q]
    BY <1>2 DEF Typed, TypeOK
<1>4. u.id = r /\ u.handle = form[r].handle /\ u.invitedBy = None
    BY <1>1
<1>5. \A c \in Codes : Joining(c)' \subseteq Joining(c)
    BY <1>2, <1>3, <1>4 DEF Joining, JoinedWith, Ids
<1>6. \A h \in Handles : Naming(h)' \subseteq Naming(h)
    BY <1>2, <1>3, <1>4 DEF Naming, Named, Ids
<1> QED BY <1>5, <1>6, PeakGrows, ShrinkingCount DEF Counted

LEMMA JoinMarkCounted ==
    ASSUME Typed, Accounted, Counted, [Next]_vars, NEW r \in Requests, JoinMark(r)
    PROVE  Counted'
<1>1. /\ UNCHANGED users /\ pc' = [pc EXCEPT ![r] = "session"]
      /\ form' = [form EXCEPT ![r].user = r]
    BY DEF JoinMark, Step
<1>2. \A q \in Requests : pc'[q] \in {"create", "register"} =>
                              pc'[q] = pc[q] /\ form'[q] = form[q]
    BY <1>1 DEF Typed, TypeOK
<1>3. /\ \A c \in Codes : JoinedWith(c)' = JoinedWith(c)
      /\ \A h : Named(h)' = Named(h)
    BY <1>1, SameMembers
<1>4. \A c \in Codes : Joining(c)' \subseteq Joining(c)
    BY <1>2, <1>3 DEF Joining, Ids
<1>5. \A h \in Handles : Naming(h)' \subseteq Naming(h)
    BY <1>2, <1>3 DEF Naming, Ids
<1> QED BY <1>4, <1>5, PeakGrows, ShrinkingCount DEF Counted

LEMMA NextUnused ==
    Typed /\ Accounted /\ UnusedInFlight /\ [Next]_vars => UnusedInFlight'
<1> SUFFICES ASSUME Typed, Accounted, UnusedInFlight, [Next]_vars,
                    NEW c \in Codes, redeemedBy'[c] = None, NEW u \in JoinedWith(c)'
             PROVE  pc'[u.id] = "mark"
    BY DEF UnusedInFlight
<1>1. TypeOK
    BY DEF Typed
<1>2. \A v \in ToSet(users) : /\ v.invitedBy # None => form'[v.id].code = form[v.id].code
                              /\ v.invitedBy # None => v.id \in Requests
    BY AccountsStay DEF Accounted, AccountOfRequest
<1>3. CASE UNCHANGED vars
    BY <1>3 DEF vars, UnusedInFlight, JoinedWith
<1>4. ASSUME NEW r \in Requests, Quiet(r) PROVE pc'[u.id] = "mark"
    <2>1. u \in JoinedWith(c) /\ redeemedBy[c] = None
        BY <1>4, SameMembers DEF Quiet
    <2>2. pc[u.id] = "mark" /\ u.id \in Requests
        BY <1>2, <2>1 DEF UnusedInFlight, JoinedWith
    <2> QED BY <1>4, <2>2 DEF Quiet
<1>5. ASSUME NEW r \in Requests, JoinCreate(r) PROVE pc'[u.id] = "mark"
    <2>1. PICK w : w = [id |-> r, handle |-> form[r].handle, invitedBy |-> createdBy[form[r].code]]
        OBVIOUS
    <2>2. /\ ToSet(users') = ToSet(users) \cup {w} /\ w.id = r
          /\ pc[r] = "create" /\ pc' = [pc EXCEPT ![r] = "mark"]
          /\ UNCHANGED redeemedBy
        BY <1>5, <2>1, JoinCreateUsers
    <2>3. CASE u \in ToSet(users)
        <3>1. u \in JoinedWith(c)
            BY <1>2, <2>3 DEF JoinedWith
        <3>2. pc[u.id] = "mark" /\ u.id \in Requests
            BY <1>2, <2>2, <2>3, <3>1 DEF UnusedInFlight, JoinedWith
        <3> QED BY <1>1, <2>2, <3>2 DEF TypeOK
    <2>4. CASE u = w
        BY <1>1, <2>2, <2>4 DEF TypeOK
    <2> QED BY <2>2, <2>3, <2>4 DEF JoinedWith
<1>6. ASSUME NEW r \in Requests, RegisterCreate(r) PROVE pc'[u.id] = "mark"
    <2>1. PICK w : w = [id |-> r, handle |-> form[r].handle, invitedBy |-> None]
        OBVIOUS
    <2>2. /\ ToSet(users') = ToSet(users) \cup {w} /\ w.invitedBy = None
          /\ pc[r] = "register" /\ pc' = [pc EXCEPT ![r] = "done"]
          /\ UNCHANGED redeemedBy
        BY <1>6, <2>1, RegisterCreateUsers
    <2>3. u \in ToSet(users) /\ u \in JoinedWith(c)
        BY <1>2, <2>2 DEF JoinedWith
    <2>4. pc[u.id] = "mark" /\ u.id \in Requests
        BY <1>2, <2>2, <2>3 DEF UnusedInFlight, JoinedWith
    <2> QED BY <1>1, <2>2, <2>4 DEF TypeOK
<1>7. ASSUME NEW r \in Requests, JoinMark(r) PROVE pc'[u.id] = "mark"
    <2>1. /\ UNCHANGED users /\ pc' = [pc EXCEPT ![r] = "session"] /\ pc[r] = "mark"
          /\ redeemedBy' = [redeemedBy EXCEPT ![form[r].code] = r] /\ r # None
        BY <1>7, MembershipAssumption DEF JoinMark, Step
    <2>2. u \in JoinedWith(c) /\ u.id \in Requests /\ form[u.id].code = c
        BY <1>2, <2>1, SameMembers DEF JoinedWith
    <2>3. form[r].code # c /\ redeemedBy[c] = None
        BY <1>1, <2>1 DEF TypeOK
    <2>4. u.id # r /\ pc[u.id] = "mark"
        BY <2>2, <2>3 DEF UnusedInFlight
    <2> QED BY <1>1, <2>1, <2>2, <2>4 DEF TypeOK
<1> QED BY <1>1, <1>3, <1>4, <1>5, <1>6, <1>7, NextQuiet

LEMMA NextCounted ==
    Typed /\ Accounted /\ Counted /\ UnusedInFlight /\ [Next]_vars => Counted'
<1> SUFFICES ASSUME Typed, Accounted, Counted, UnusedInFlight, [Next]_vars PROVE Counted'
    OBVIOUS
<1>1. CASE UNCHANGED vars
    BY <1>1 DEF vars, Counted, Joining, Naming, JoinedWith, Named, Ids
<1> QED BY <1>1, NextCases, JoinCheckCounted, RegisterCheckCounted, JoinCreateCounted,
           JoinMarkCounted, RegisterCreateCounted, HarmlessCounted DEF Typed

LEMMA CountedMeansBounded ==
    Typed /\ Accounted /\ Counted => DuplicatesBoundedByOverlap
<1> SUFFICES ASSUME Typed, Accounted, Counted PROVE DuplicatesBoundedByOverlap
    OBVIOUS
<1>1. peak \in Nat
    BY MembershipAssumption DEF Typed, TypeOK
<1>2. ASSUME NEW A \in SUBSET ToSet(users), NEW S,
             Ids(A) \subseteq S, S \subseteq Requests, Cardinality(S) <= peak
      PROVE  Cardinality(A) <= peak
    <2>1. IsFiniteSet(S) /\ Cardinality(S) \in Nat /\ Ids(A) \in SUBSET S
        BY <1>2, FiniteInRequests
    <2>2. IsFiniteSet(Ids(A)) /\ Cardinality(Ids(A)) <= Cardinality(S)
        BY <2>1, FS_Subset
    <2>3. Cardinality(Ids(A)) \in Nat
        BY <2>2, FS_CardinalityType
    <2>4. Cardinality(A) <= Cardinality(Ids(A)) /\ Cardinality(A) \in Nat
        <3> DEFINE f == [u \in A |-> u.id]
        <3>1. f \in [A -> Ids(A)]
            BY DEF Ids
        <3>2. \A u, v \in A : f[u] = f[v] => u = v
            BY DEF Accounted, OneAccountEach
        <3>3. f \in Injection(A, Ids(A))
            BY <3>1, <3>2 DEF Injection, IsInjective
        <3> HIDE DEF f
        <3> QED BY <2>2, <3>3, FS_Injection, FS_CardinalityType
    <2> QED BY <1>1, <1>2, <2>1, <2>2, <2>3, <2>4
<1>3. ASSUME NEW c \in Codes PROVE Cardinality(JoinedWith(c)) <= peak
    BY <1>2 DEF Counted, Joining, JoinedWith
<1>4. ASSUME NEW h \in Handles PROVE Cardinality(Named(h)) <= peak
    BY <1>2 DEF Counted, Naming, Named
<1> QED BY <1>3, <1>4 DEF DuplicatesBoundedByOverlap

LEMMA NextAllCounted ==
    /\ Typed /\ Accounted /\ Counted /\ UnusedInFlight /\ [Next]_vars
    => Typed' /\ Accounted' /\ Counted' /\ UnusedInFlight'
BY NextTyped, NextAccounted, NextCounted, NextUnused

\* However many requests redeem one code or take one handle together, no
\* more accounts come of it than requests ever overlapped.
THEOREM OverlapBoundsDuplicates == Spec => []DuplicatesBoundedByOverlap
<1>1. Init => Typed /\ Accounted /\ Counted /\ UnusedInFlight
    BY InitRegistered, InitCounted DEF Registered
<1>2. Spec => [](Typed /\ Accounted /\ Counted /\ UnusedInFlight)
    BY <1>1, NextAllCounted, PTL DEF Spec
<1> QED BY <1>2, CountedMeansBounded, PTL
=============================================================================
