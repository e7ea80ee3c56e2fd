--------------------- MODULE RequestAuthorization_proofs ---------------------
(***************************************************************************)
(* Proofs about RequestAuthorization: nothing is performed without         *)
(* permission, what OSF signed is accepted within the window only, is not  *)
(* rejected there, and does not expire while it is handled; for any number *)
(* of users, requests and messages, any window and any size of the cache,  *)
(* whatever changes at OSF in between.                                     *)
(***************************************************************************)
EXTENDS RequestAuthorization, SequenceTheorems, TLAPS

Phases == {"idle", "arrived", "identified", "performed", "denied", "rejected", "error"}

Request == [phase: Phases, goal: Goals, brought: SUBSET Credentials, cookie: Cookies,
            message: SUBSET sent, user: Users \cup {NoUser},
            arrivedLive: SUBSET Credentials, peak: Levels]

\* A request names a user by what was live when it arrived, or by what is signed.
Names(q, u) ==
    \/ \E kind \in {"session", "token"} : <<u, kind>> \in q.arrivedLive
    \/ \E m \in q.message : m.user = u

\* What is known of a request that runs: it has one session and one message at
\* most; what has not ended had not ended when it arrived; one that is not signed
\* has seen the highest role of those whom it names.  Whoever was identified is
\* named by it, and is the user of its session if that has not ended.
Fits(q, r0, p0, l0) ==
    /\ q.arrivedLive \subseteq q.brought
    /\ q.phase # "idle" =>
        /\ \A u, v \in Users :
              <<u, "session">> \in q.brought /\ <<v, "session">> \in q.brought => u = v
        /\ \A m, n \in q.message : m = n
        /\ q.brought \cap l0 \subseteq q.arrivedLive
        /\ q.message = {} =>
              /\ q.peak >= Held(NoUser, r0, p0)
              /\ \A c \in q.arrivedLive : q.peak >= Held(c[1], r0, p0)
        /\ q.phase = "identified" =>
              /\ q.user # NoUser => Names(q, q.user)
              /\ \A v \in Users : <<v, "session">> \in q.brought \cap l0 => q.user = v

\* The inductive invariant.
IInv ==
    /\ role \in [Users -> Levels]
    /\ public \in BOOLEAN
    /\ live \subseteq Credentials
    /\ \A m \in sent : m.level \in Levels /\ m.user \in Users \cup {NoUser} /\ m.goal \in Goals
    /\ request \in [Requests -> Request]
    /\ \A r \in Requests : Fits(request[r], role, public, live)

\* Roles are ranked.
LEMMA HeldLevel ==
    ASSUME NEW r0 \in [Users -> Levels], NEW p0 \in BOOLEAN, NEW u \in Users \cup {NoUser}
    PROVE  Held(u, r0, p0) \in Levels
BY RequestAuthorizationAssumption DEF Held, Levels, READ

\* Of some ranks there is a highest.
LEMMA HighestLevel ==
    ASSUME NEW r0 \in [Users -> Levels], NEW p0 \in BOOLEAN, NEW least \in Levels,
           NEW creds \in SUBSET Credentials
    PROVE  /\ Highest(least, creds, r0, p0) \in Levels
           /\ Highest(least, creds, r0, p0) >= Held(NoUser, r0, p0)
           /\ \A c \in creds : Highest(least, creds, r0, p0) >= Held(c[1], r0, p0)
<1> DEFINE levels == {least, Held(NoUser, r0, p0)} \cup {Held(c[1], r0, p0) : c \in creds}
           Top(level) == level \in levels /\ \A l \in levels : l <= level
<1>1. \A c \in creds : c[1] \in Users
    BY DEF Credentials
<1>2. levels \subseteq Levels /\ least \in levels
    BY <1>1, HeldLevel
<1>3. Held(NoUser, r0, p0) \in levels /\ \A c \in creds : Held(c[1], r0, p0) \in levels
    OBVIOUS
<1>4. Highest(least, creds, r0, p0) = CHOOSE level \in Levels : Top(level)
    BY DEF Highest
<1> HIDE DEF levels
<1>5. \E level \in Levels : Top(level)
    <2>1. CASE 3 \in levels
        BY <1>2, <2>1 DEF Levels
    <2>2. CASE 3 \notin levels /\ 2 \in levels
        BY <1>2, <2>2 DEF Levels
    <2>3. CASE 3 \notin levels /\ 2 \notin levels /\ 1 \in levels
        BY <1>2, <2>3 DEF Levels
    <2>4. CASE 3 \notin levels /\ 2 \notin levels /\ 1 \notin levels
        BY <1>2, <2>4 DEF Levels
    <2> QED BY <2>1, <2>2, <2>3, <2>4
<1> DEFINE h == CHOOSE level \in Levels : Top(level)
<1>6. h \in Levels /\ Top(h)
    BY <1>5
<1> HIDE DEF h
<1>7. \A l \in levels : h >= l
    BY <1>2, <1>6 DEF Levels
<1> QED BY <1>3, <1>4, <1>6, <1>7 DEF h

LEMMA IdleFits ==
    /\ Idle \in Request
    /\ \A r0, p0, l0 : Fits(Idle, r0, p0, l0)
BY DEF Idle, Request, Phases, Goals, Cookies, Levels, Fits

LEMMA RequestFields ==
    ASSUME IInv, NEW r \in Requests
    PROVE  /\ request[r] \in Request
           /\ request[r].phase \in Phases
           /\ request[r].goal \in Goals
           /\ request[r].brought \subseteq Credentials
           /\ request[r].cookie \in Cookies
           /\ request[r].message \subseteq sent
           /\ request[r].user \in Users \cup {NoUser}
           /\ request[r].arrivedLive \subseteq Credentials
           /\ request[r].peak \in Levels
           /\ Fits(request[r], role, public, live)
BY DEF IInv, Request

\* The initial state satisfies the inductive invariant.
LEMMA InitIInv == Init => IInv
<1> SUFFICES ASSUME Init PROVE IInv
    OBVIOUS
<1>1. role \in [Users -> Levels] /\ public \in BOOLEAN /\ live \subseteq Credentials
    <2>1. role \in [Users -> Levels]
        BY DEF Init, Levels
    <2>2. public \in BOOLEAN
        BY DEF Init
    <2>3. live \subseteq Credentials
        BY DEF Init
    <2> QED BY <2>1, <2>2, <2>3
<1>2. \A m \in sent : m.level \in Levels /\ m.user \in Users \cup {NoUser} /\ m.goal \in Goals
    BY DEF Init
<1>3. request \in [Requests -> Request]
    BY IdleFits DEF Init
<1>4. \A r \in Requests : Fits(request[r], role, public, live)
    BY IdleFits DEF Init
<1> QED
    BY <1>1, <1>2, <1>3, <1>4 DEF IInv

\* A step of one request.
LEMMA RequestChange ==
    ASSUME IInv, NEW r \in Requests, NEW q \in Request,
           request' = [request EXCEPT ![r] = q],
           Fits(q, role, public, live),
           UNCHANGED <<role, public, live, sent>>
    PROVE  IInv'
<1>1. request' \in [Requests -> Request] /\ Request' = Request
    BY DEF IInv, Request
<1>2. \A s \in Requests : Fits(request'[s], role', public', live')
    BY DEF IInv
<1> QED
    BY <1>1, <1>2 DEF IInv

\* A request only goes to another phase, where less is known of it.
LEMMA GotoIInv ==
    ASSUME IInv, NEW r \in Requests, NEW phase \in Phases \ {"idle", "identified"},
           request[r].phase # "idle",
           Goto(r, phase),
           UNCHANGED <<role, public, live, sent>>
    PROVE  IInv'
<1> DEFINE q == [request[r] EXCEPT !.phase = phase]
<1>1. /\ q \in Request /\ q.phase = phase /\ q.brought = request[r].brought
      /\ q.message = request[r].message /\ q.arrivedLive = request[r].arrivedLive
      /\ q.peak = request[r].peak
    BY RequestFields DEF Request
<1>2. request' = [request EXCEPT ![r] = q]
    BY DEF Goto
<1> HIDE DEF q
<1>3. Fits(q, role, public, live)
    BY <1>1, RequestFields DEF Fits
<1> QED
    BY <1>1, <1>2, <1>3, RequestChange

\* The user whom a credential names.
LEMMA NamedIs ==
    ASSUME NEW r \in Requests, NEW kind
    PROVE  \/ /\ Named(r, kind) = NoUser
              /\ \A u \in Users : <<u, kind>> \notin request[r].brought \cap live
           \/ /\ Named(r, kind) \in Users
              /\ <<Named(r, kind), kind>> \in request[r].brought \cap live
BY DEF Named

\* Whom a request comes from, when it was found to come from someone: a live
\* session says so, or else what it was found by.
LEMMA UserUri ==
    ASSUME IInv, NEW r \in Requests, request[r].phase # "idle",
           NEW found \in Users \cup {NoUser}, found # NoUser => Names(request[r], found)
    PROVE  LET u == GetUserUri(r, found)
           IN  /\ u \in Users \cup {NoUser}
               /\ u # NoUser => Names(request[r], u)
               /\ \A v \in Users : <<v, "session">> \in request[r].brought \cap live => u = v
               /\ u = found \/ (u \in Users /\ <<u, "session">> \in request[r].arrivedLive)
<1> DEFINE s == Named(r, "session")
<1>1. Fits(request[r], role, public, live)
    BY RequestFields
<1>2. CASE s = NoUser
    <2>1. GetUserUri(r, found) = found
        BY <1>2 DEF GetUserUri
    <2>2. \A u \in Users : <<u, "session">> \notin request[r].brought \cap live
        BY <1>2, NamedIs, RequestAuthorizationAssumption
    <2> QED BY <2>1, <2>2
<1>3. CASE s # NoUser
    <2>1. GetUserUri(r, found) = s
        BY <1>3 DEF GetUserUri
    <2>2. s \in Users /\ <<s, "session">> \in request[r].brought \cap live
        BY <1>3, NamedIs
    <2> HIDE DEF s
    <2>3. <<s, "session">> \in request[r].arrivedLive
        BY <1>1, <2>2 DEF Fits
    <2>4. \A v \in Users : <<v, "session">> \in request[r].brought => s = v
        BY <1>1, <2>2 DEF Fits
    <2> QED BY <2>1, <2>2, <2>3, <2>4 DEF Names
<1> QED BY <1>2, <1>3

\* The user of a request is found.
LEMMA IdentifiedIInv ==
    ASSUME IInv, NEW r \in Requests, request[r].phase # "idle",
           NEW found \in Users \cup {NoUser}, found # NoUser => Names(request[r], found),
           Identified(r, found),
           UNCHANGED <<role, public, live, sent>>
    PROVE  IInv'
<1> DEFINE u == GetUserUri(r, found)
           ph == IF u = NoUser /\ NeedsUser(request[r].goal) /\ request[r].cookie # "unsignable"
                   THEN "denied" ELSE "identified"
           q == [request[r] EXCEPT !.user = u, !.phase = ph]
<1>0. ph \in {"denied", "identified"}
    OBVIOUS
<1>1. request' = [request EXCEPT ![r] = q]
    BY RequestFields DEF Identified, Request, IInv
<1>2. /\ u \in Users \cup {NoUser}
      /\ u # NoUser => Names(request[r], u)
      /\ \A v \in Users : <<v, "session">> \in request[r].brought \cap live => u = v
    BY UserUri
<1> HIDE DEF ph, u
<1>3. /\ q \in Request /\ q.phase = ph /\ q.user = u /\ q.brought = request[r].brought
      /\ q.message = request[r].message /\ q.arrivedLive = request[r].arrivedLive
      /\ q.peak = request[r].peak
    BY <1>0, <1>2, RequestFields DEF Request, Phases
<1> HIDE DEF q
<1>4. Names(request[r], u) => Names(q, u)
    BY <1>3 DEF Names
<1>5. Fits(q, role, public, live)
    BY <1>0, <1>2, <1>3, <1>4, RequestFields DEF Fits
<1> QED
    BY <1>1, <1>3, <1>5, RequestChange

\* The step of a request that arrives.
LEMMA ArriveIInv ==
    ASSUME IInv, NEW r \in Requests, NEW goal \in Goals,
           NEW session \in Users \cup {NoUser}, NEW token \in Users \cup {NoUser},
           NEW cookie \in Cookies, NEW message \in SUBSET sent,
           \A m, n \in message : m = n,
           Arrive(r, goal, session, token, cookie, message)
    PROVE  IInv'
<1> DEFINE b == Brought(session, token)
           p == IF message = {} THEN Highest(0, b \cap live, role, public) ELSE 0
           q == Arrived(goal, b, cookie, message)
<1>1. b \subseteq Credentials
    BY DEF Brought, Credentials
<1>2. \A u, v \in Users : <<u, "session">> \in b /\ <<v, "session">> \in b => u = v
    BY DEF Brought
<1>3. request' = [request EXCEPT ![r] = q] /\ UNCHANGED <<role, public, live, sent>>
    BY DEF Arrive
<1> HIDE DEF b
<1>4. 0 \in Levels /\ b \cap live \in SUBSET Credentials
    BY <1>1 DEF Levels
<1>5. /\ p \in Levels
      /\ message = {} =>
            /\ p >= Held(NoUser, role, public)
            /\ \A c \in b \cap live : p >= Held(c[1], role, public)
    BY <1>4, HighestLevel DEF IInv
<1>6. q = [phase |-> "arrived", goal |-> goal, brought |-> b, cookie |-> cookie,
           message |-> message, user |-> NoUser, arrivedLive |-> b \cap live, peak |-> p]
    BY DEF Arrived
<1> HIDE DEF q, p
<1>7. /\ q \in Request /\ q.phase = "arrived" /\ q.brought = b /\ q.message = message
      /\ q.arrivedLive = b \cap live /\ q.peak = p
    BY <1>1, <1>5, <1>6 DEF Request, Phases
<1>8. Fits(q, role, public, live)
    BY <1>2, <1>5, <1>7 DEF Fits
<1> QED
    BY <1>3, <1>7, <1>8, RequestChange

\* A role changes, or the resource becomes public or ceases to be.
LEMMA ObserveIInv ==
    ASSUME IInv, NEW r0 \in [Users -> Levels], NEW p0 \in BOOLEAN,
           role' = r0, public' = p0, Observe(r0, p0), UNCHANGED <<live, sent>>
    PROVE  IInv'
<1>1. ASSUME NEW s \in Requests
      PROVE  request'[s] \in Request /\ Fits(request'[s], r0, p0, live)
    <2>1. CASE IsAt(s, "idle")
        BY <2>1, RequestFields DEF IsAt, Observe, Fits
    <2>2. CASE ~IsAt(s, "idle")
        <3> DEFINE h == Highest(request[s].peak, request[s].arrivedLive, r0, p0)
                   q == [request[s] EXCEPT !.peak = h]
        <3>1. /\ h \in Levels /\ h >= Held(NoUser, r0, p0)
              /\ \A c \in request[s].arrivedLive : h >= Held(c[1], r0, p0)
            BY HighestLevel, RequestFields
        <3>2. request'[s] = q
            BY <2>2 DEF Observe
        <3> HIDE DEF h
        <3>3. /\ q \in Request /\ q.phase = request[s].phase /\ q.brought = request[s].brought
              /\ q.message = request[s].message /\ q.user = request[s].user
              /\ q.arrivedLive = request[s].arrivedLive /\ q.peak = h
            BY <3>1, RequestFields DEF Request
        <3> HIDE DEF q
        <3>4. Names(request[s], q.user) => Names(q, q.user)
            BY <3>3 DEF Names
        <3>5. Fits(q, r0, p0, live)
            BY <3>1, <3>3, <3>4, RequestFields DEF Fits
        <3> QED BY <3>2, <3>3, <3>5
    <2> QED BY <2>1, <2>2
<1>2. request' \in [Requests -> Request]
    BY <1>1 DEF Observe
<1>3. Request' = Request
    BY DEF Request
<1> QED
    BY <1>1, <1>2, <1>3 DEF IInv

\* Another request is signed.
LEMMA SignIInv ==
    ASSUME IInv, NEW u \in Users \cup {NoUser}, NEW goal \in Goals, NEW signing \in Signings,
           Sign(u, goal, signing)
    PROVE  IInv'
<1> DEFINE level == IF signing.resource = "resource" /\ signing.key = "OSF_HMAC_KEY"
                      THEN Held(u, role, public) ELSE ADMIN
<1>1. level \in Levels
    BY HeldLevel DEF IInv, ADMIN, Levels
<1>2. \A m \in sent' : m.level \in Levels /\ m.user \in Users \cup {NoUser} /\ m.goal \in Goals
    BY <1>1 DEF Sign, IInv
<1>3. sent \subseteq sent'
    BY DEF Sign
<1>4. ASSUME NEW q \in Request PROVE q \in Request'
    BY <1>3 DEF Request
<1>5. request' \in [Requests -> Request']
    BY <1>4 DEF Sign, IInv
<1> QED
    BY <1>2, <1>5 DEF Sign, IInv

\* Neither requests nor roles change.
LEMMA QuietIInv ==
    ASSUME IInv, UNCHANGED <<role, public, sent, request>>, live' \subseteq live
    PROVE  IInv'
<1>1. Request' = Request
    BY DEF Request
<1>2. \A s \in Requests : Fits(request'[s], role', public', live')
    BY DEF IInv, Fits
<1>3. live' \subseteq Credentials
    BY DEF IInv
<1> QED
    BY <1>1, <1>2, <1>3 DEF IInv

LEMMA OsfIInv ==
    ASSUME IInv, Osf
    PROVE  IInv'
<1>1. CASE Tick
    BY <1>1, QuietIInv DEF Tick
<1>2. ASSUME NEW u \in Users, NEW level \in Levels, ChangeRole(u, level) PROVE IInv'
    <2>1. [role EXCEPT ![u] = level] \in [Users -> Levels]
        BY DEF IInv
    <2>2. public \in BOOLEAN
        BY DEF IInv
    <2>3. /\ role' = [role EXCEPT ![u] = level] /\ public' = public
          /\ Observe([role EXCEPT ![u] = level], public)
          /\ UNCHANGED <<live, sent>>
        BY <1>2 DEF ChangeRole
    <2> QED BY <2>1, <2>2, <2>3, ObserveIInv
<1>3. CASE ChangePublic
    <2>1. (~public) \in BOOLEAN /\ role \in [Users -> Levels]
        BY DEF IInv
    <2>2. /\ role' = role /\ public' = ~public /\ Observe(role, ~public)
          /\ UNCHANGED <<live, sent>>
        BY <1>3 DEF ChangePublic
    <2> QED BY <2>1, <2>2, ObserveIInv
<1>4. ASSUME NEW c \in live, EndLive(c) PROVE IInv'
    BY <1>4, QuietIInv DEF EndLive
<1>5. ASSUME NEW u \in Users \cup {NoUser}, NEW goal \in Goals, NEW signing \in Signings,
             Sign(u, goal, signing)
      PROVE  IInv'
    BY <1>5, SignIInv
<1> QED
    BY <1>1, <1>2, <1>3, <1>4, <1>5 DEF Osf

\* The steps that find the user.
LEMMA AuthenticateIInv ==
    ASSUME IInv, NEW r \in Requests,
           Authenticate(r) \/ AuthenticateSigned(r) \/ GetUserUriFails(r)
    PROVE  IInv'
<1>1. CASE Authenticate(r)
    <2> DEFINE t == Named(r, "token")
               found == GetUserUri(r, t)
    <2>1. request[r].phase # "idle" /\ Fits(request[r], role, public, live)
        BY <1>1, RequestFields DEF Authenticate, IsAt
    <2>2. t \in Users \cup {NoUser} /\ (t # NoUser => <<t, "token">> \in request[r].brought \cap live)
        BY NamedIs
    <2> HIDE DEF t
    <2>3. t # NoUser => Names(request[r], t)
        BY <2>1, <2>2 DEF Fits, Names
    <2>4. found \in Users \cup {NoUser} /\ (found # NoUser => Names(request[r], found))
        BY <2>1, <2>2, <2>3, UserUri
    <2>5. Identified(r, found) /\ UNCHANGED <<role, public, live, sent>>
        BY <1>1 DEF Authenticate, t
    <2> HIDE DEF found
    <2> QED BY <2>1, <2>4, <2>5, IdentifiedIInv
<1>2. CASE AuthenticateSigned(r)
    <2>1. request[r].phase = "arrived" /\ request[r].message # {}
        BY <1>2 DEF AuthenticateSigned, IsAt, IsSigned
    <2>2. Message(r) \in request[r].message
        BY <2>1 DEF Message
    <2>3. Message(r).user \in Users \cup {NoUser} /\ Names(request[r], Message(r).user)
        BY <2>2, RequestFields DEF IInv, Names
    <2>4. CASE Identified(r, Message(r).user)
        BY <1>2, <2>1, <2>3, <2>4, IdentifiedIInv DEF AuthenticateSigned
    <2>5. CASE Goto(r, "rejected")
        BY <1>2, <2>1, <2>5, GotoIInv DEF AuthenticateSigned, Phases
    <2> QED BY <1>2, <2>4, <2>5 DEF AuthenticateSigned
<1>3. CASE GetUserUriFails(r)
    BY <1>3, GotoIInv DEF GetUserUriFails, IsAt, Phases
<1> QED BY <1>1, <1>2, <1>3

\* The steps that decide, and the end.
LEMMA DecideIInv ==
    ASSUME IInv, NEW r \in Requests,
           CheckUser(r) \/ AskOsf(r) \/ ReadSignedPermissions(r) \/ CheckSigned(r)
    PROVE  IInv'
<1>1. request[r].phase = "identified"
    BY DEF CheckUser, AskOsf, ReadSignedPermissions, CheckSigned, MustAsk, UserIsKnown, IsAt
<1>2. Goto(r, "performed") \/ Goto(r, "denied")
    BY DEF CheckUser, AskOsf, ReadSignedPermissions, CheckSigned, Decide
<1>3. UNCHANGED <<role, public, live, sent>>
    BY DEF CheckUser, AskOsf, ReadSignedPermissions, CheckSigned
<1> QED
    BY <1>1, <1>2, <1>3, GotoIInv DEF Phases

LEMMA EndIInv ==
    ASSUME IInv, NEW r \in Requests, End(r)
    PROVE  IInv'
BY IdleFits, RequestChange DEF End

\* A request arrives with at most one message.
Arrives(r) ==
    \E goal \in Goals, session \in Users \cup {NoUser}, token \in Users \cup {NoUser},
       cookie \in Cookies, message \in SUBSET sent :
        /\ \A m, n \in message : m = n
        /\ Arrive(r, goal, session, token, cookie, message)

\* The steps of a request.
StepOf(r) ==
    \/ Arrives(r)
    \/ AuthenticateSigned(r) \/ Authenticate(r) \/ GetUserUriFails(r)
    \/ CheckUser(r) \/ AskOsf(r) \/ ReadSignedPermissions(r) \/ CheckSigned(r)
    \/ End(r)

LEMMA GravyvaletSteps ==
    ASSUME IInv, Gravyvalet
    PROVE  OtherRequest \/ \E r \in Requests : StepOf(r)
<1>1. ASSUME NEW r \in Requests, NEW session \in Users \cup {NoUser}, NEW token \in Users \cup {NoUser},
             NEW cookie \in Cookies, NEW m \in sent,
             Arrive(r, m.goal, session, token, cookie, {m})
      PROVE  Arrives(r)
    <2>1. m.goal \in Goals /\ {m} \in SUBSET sent /\ \A n, o \in {m} : n = o
        BY DEF IInv
    <2> QED BY <1>1, <2>1, Zenon DEF Arrives
<1>2. ASSUME NEW r \in Requests, NEW session \in Users \cup {NoUser}, NEW token \in Users \cup {NoUser},
             NEW cookie \in Cookies, NEW goal \in Goals,
             Arrive(r, goal, session, token, cookie, {})
      PROVE  Arrives(r)
    <2>1. {} \in SUBSET sent /\ \A n, o \in {} : n = o
        OBVIOUS
    <2> QED BY <1>2, <2>1, Zenon DEF Arrives
<1> QED BY <1>1, <1>2 DEF Gravyvalet, StepOf

\* Every step preserves the inductive invariant.
LEMMA NextIInv == IInv /\ [Next]_vars => IInv'
<1> SUFFICES ASSUME IInv, [Next]_vars PROVE IInv'
    OBVIOUS
<1>1. CASE Osf
    BY <1>1, OsfIInv
<1>2. CASE OtherRequest
    BY <1>2, QuietIInv DEF OtherRequest
<1>3. ASSUME NEW r \in Requests, Arrives(r) PROVE IInv'
    BY <1>3, ArriveIInv DEF Arrives
<1>4. ASSUME NEW r \in Requests, StepOf(r) PROVE IInv'
    BY <1>3, <1>4, AuthenticateIInv, DecideIInv, EndIInv DEF StepOf
<1>5. CASE UNCHANGED vars
    BY <1>5, QuietIInv DEF vars
<1> QED
    BY <1>1, <1>2, <1>4, <1>5, GravyvaletSteps DEF Next

LEMMA Invariance == Spec => []IInv
BY InitIInv, NextIInv, PTL DEF Spec

(***************************************************************************)
(* The cache of verified requests, and what it means for the window in     *)
(* which OSF's requests are accepted.                                      *)
(***************************************************************************)
Forms == {"positional", "keywords"}
CacheKeys == (Requests \cup {NoRequest}) \X Forms

OneOfEach(c) == \A i, j \in 1..Len(c) : c[i] = c[j] /\ i # j => c[i][1] = NoRequest

\* Only requests whose signature was verified are in the cache; one that is
\* being handled stays there, unless the cache is full.
Cached(r) ==
    /\ request[r].phase \in {"idle", "arrived"} =>
        \A form \in Forms : Key(r, form) \notin ToSet(cache)
    /\ request[r].phase = "identified" /\ IsSigned(r) =>
        Key(r, "positional") \in ToSet(cache) \/ Len(cache) = CacheSize

CacheInv ==
    /\ cache \in Seq(CacheKeys)
    /\ Len(cache) <= CacheSize
    /\ OneOfEach(cache)
    /\ \A r \in Requests : Cached(r)

\* A sequence without the element at one place.
LEMMA RemoveAtProperties ==
    ASSUME NEW S, NEW s \in Seq(S), NEW p \in DOMAIN s
    PROVE  /\ RemoveAt(s, p) \in Seq(S)
           /\ Len(RemoveAt(s, p)) = Len(s) - 1
           /\ \A i \in 1..(Len(s) - 1) :
                RemoveAt(s, p)[i] = IF i < p THEN s[i] ELSE s[i + 1]
<1> DEFINE a == SubSeq(s, 1, p - 1)
           b == SubSeq(s, p + 1, Len(s))
<1>1. p \in 1..Len(s) /\ Len(s) \in Nat
    BY LenProperties
<1>2. a \in Seq(S) /\ Len(a) = p - 1 /\ \A i \in 1..(p - 1) : a[i] = s[i]
    BY <1>1, SubSeqProperties
<1>3. b \in Seq(S) /\ Len(b) = Len(s) - p /\ \A i \in 1..(Len(s) - p) : b[i] = s[p + i]
    BY <1>1, SubSeqProperties
<1> HIDE DEF a, b
<1>4. RemoveAt(s, p) = a \o b
    BY DEF RemoveAt, a, b
<1>5. /\ a \o b \in Seq(S) /\ Len(a \o b) = Len(a) + Len(b)
      /\ \A i \in 1..(Len(a) + Len(b)) :
            (a \o b)[i] = IF i <= Len(a) THEN a[i] ELSE b[i - Len(a)]
    BY <1>2, <1>3, ConcatProperties
<1>6. ASSUME NEW i \in 1..(Len(s) - 1)
      PROVE  (a \o b)[i] = IF i < p THEN s[i] ELSE s[i + 1]
    <2>1. i \in 1..(Len(a) + Len(b)) /\ (i < p <=> i <= Len(a))
        BY <1>1, <1>2, <1>3
    <2>2. CASE i < p
        BY <1>1, <1>2, <1>5, <2>1, <2>2
    <2>3. CASE ~(i < p)
        <3>1. i - Len(a) \in 1..(Len(s) - p) /\ p + (i - Len(a)) = i + 1
            BY <1>1, <1>2, <2>3
        <3>2. b[i - Len(a)] = s[i + 1]
            BY <1>3, <3>1
        <3> QED
            BY <1>5, <2>1, <2>3, <3>2
    <2> QED
        BY <2>2, <2>3
<1>7. a \o b \in Seq(S) /\ Len(a \o b) = Len(s) - 1
    BY <1>1, <1>2, <1>3, <1>5
<1> QED
    BY <1>4, <1>6, <1>7, Zenon

LEMMA InSequence ==
    ASSUME NEW S, NEW s \in Seq(S)
    PROVE  /\ Len(s) \in Nat
           /\ ToSet(s) = {s[i] : i \in 1..Len(s)}
<1>1. DOMAIN s = 1..Len(s) /\ Len(s) \in Nat
    BY LenProperties
<1> QED
    BY <1>1 DEF ToSet

\* Nothing is left out but the least recently used result of a full cache.
Shift == IF Len(cache) < CacheSize THEN 0 ELSE 1

LEMMA MadeRoomProperties ==
    ASSUME CacheInv
    PROVE  /\ MadeRoom \in Seq(CacheKeys)
           /\ Len(MadeRoom) = Len(cache) - Shift
           /\ \A i \in 1..(Len(cache) - Shift) :
                i + Shift \in 1..Len(cache) /\ MadeRoom[i] = cache[i + Shift]
<1>1. CacheSize \in Nat /\ CacheSize > 0 /\ Len(cache) \in Nat /\ Len(cache) <= CacheSize
      /\ cache \in Seq(CacheKeys)
    BY RequestAuthorizationAssumption, LenProperties DEF CacheInv
<1>2. CASE Len(cache) < CacheSize
    <2>1. MadeRoom = cache /\ Shift = 0
        BY <1>2 DEF MadeRoom, Shift
    <2>2. Len(cache) = Len(cache) - 0
          /\ \A i \in 1..(Len(cache) - 0) : i + 0 \in 1..Len(cache) /\ cache[i] = cache[i + 0]
        BY <1>1
    <2> QED
        BY <1>1, <2>1, <2>2, Zenon
<1>3. CASE ~(Len(cache) < CacheSize)
    <2>1. MadeRoom = Tail(cache) /\ Shift = 1
        BY <1>3 DEF MadeRoom, Shift
    <2>2. cache # <<>>
        BY <1>1, <1>3
    <2>3. /\ Tail(cache) \in Seq(CacheKeys) /\ Len(Tail(cache)) = Len(cache) - 1
          /\ \A i \in 1..Len(Tail(cache)) : Tail(cache)[i] = cache[i + 1]
        BY <1>1, <2>2, HeadTailProperties
    <2>4. \A i \in 1..(Len(cache) - 1) : i + 1 \in 1..Len(cache) /\ Tail(cache)[i] = cache[i + 1]
        BY <1>1, <2>3
    <2> QED
        BY <2>1, <2>3, <2>4, Zenon
<1> QED
    BY <1>2, <1>3

\* c has n of the elements of old, at the places f.
PartOf(c, n, f, old) ==
    /\ c \in Seq(CacheKeys) /\ n \in Nat /\ n = Len(c)
    /\ \A i \in 1..n : f[i] \in 1..Len(old) /\ c[i] = old[f[i]]
    /\ \A i, j \in 1..n : i # j => f[i] # f[j]

Appended(c, n, old, key, e) ==
    /\ e \in Seq(CacheKeys)
    /\ Len(e) = n + 1
    /\ OneOfEach(e)
    /\ key \in ToSet(e)
    /\ ToSet(e) \subseteq ToSet(old) \cup {key}
    /\ ToSet(c) \subseteq ToSet(e)

\* A result is added to some of those that were there.
LEMMA AppendedCache ==
    ASSUME NEW old \in Seq(CacheKeys), OneOfEach(old),
           NEW c, NEW n, NEW f, PartOf(c, n, f, old),
           NEW key \in CacheKeys, key[1] # NoRequest => key \notin ToSet(c)
    PROVE  Appended(c, n, old, key, Append(c, key))
<1> DEFINE e == Append(c, key)
<1>0. /\ c \in Seq(CacheKeys) /\ n \in Nat /\ n = Len(c)
      /\ \A i \in 1..n : f[i] \in 1..Len(old) /\ c[i] = old[f[i]]
      /\ \A i, j \in 1..n : i # j => f[i] # f[j]
    BY DEF PartOf
<1>1. /\ e \in Seq(CacheKeys) /\ Len(e) = n + 1
      /\ e[n + 1] = key /\ \A i \in 1..n : e[i] = c[i]
    BY <1>0, AppendProperties
<1> HIDE DEF e
<1>7. ToSet(c) = {c[i] : i \in 1..n}
    BY <1>0, InSequence
<1>8. ToSet(e) = {e[i] : i \in 1..Len(e)}
    BY <1>1, InSequence
<1>9. ToSet(old) = {old[i] : i \in 1..Len(old)}
    BY InSequence
<1>2. OneOfEach(e)
    <2> SUFFICES ASSUME NEW i \in 1..(n + 1), NEW j \in 1..(n + 1), e[i] = e[j], i # j
                 PROVE  e[i][1] = NoRequest
        BY <1>1 DEF OneOfEach
    <2>1. CASE i \in 1..n /\ j \in 1..n
        <3>1. /\ old[f[i]] = old[f[j]] /\ f[i] # f[j] /\ e[i] = old[f[i]]
              /\ f[i] \in 1..Len(old) /\ f[j] \in 1..Len(old)
            BY <1>0, <1>1, <2>1
        <3> QED
            BY <3>1 DEF OneOfEach
    <2>2. CASE i = n + 1 /\ j \in 1..n
        <3>1. e[i] = key /\ key \in ToSet(c)
            BY <1>1, <1>7, <2>2
        <3> QED
            BY <3>1
    <2>3. CASE j = n + 1 /\ i \in 1..n
        <3>1. e[i] = key /\ key \in ToSet(c)
            BY <1>1, <1>7, <2>3
        <3> QED
            BY <3>1
    <2> QED
        BY <1>0, <2>1, <2>2, <2>3
<1>3. ToSet(e) = {e[i] : i \in 1..(n + 1)}
    BY <1>1, <1>8
<1>4. ASSUME NEW i \in 1..(n + 1) PROVE e[i] \in ToSet(old) \cup {key}
    <2>1. CASE i = n + 1
        BY <1>1, <2>1
    <2>2. CASE i \in 1..n
        BY <1>0, <1>1, <1>9, <2>2
    <2> QED
        BY <1>0, <2>1, <2>2
<1>5. key \in ToSet(e)
    BY <1>0, <1>1, <1>3
<1>6. ToSet(c) \subseteq ToSet(e)
    BY <1>0, <1>1, <1>3, <1>7
<1>10. ToSet(e) \subseteq ToSet(old) \cup {key}
    BY <1>3, <1>4
<1> QED
    BY <1>1, <1>2, <1>5, <1>6, <1>10 DEF Appended, e

\* What the cache is like after a result is remembered: the key is there, no
\* other was added, and none was lost unless the cache is full.
Remembers(key) ==
    /\ cache' \in Seq(CacheKeys)
    /\ Len(cache') <= CacheSize
    /\ OneOfEach(cache')
    /\ key \in ToSet(cache')
    /\ ToSet(cache') \subseteq ToSet(cache) \cup {key}
    /\ Len(cache') = CacheSize \/ ToSet(cache) \subseteq ToSet(cache')
    /\ Len(cache) = CacheSize => Len(cache') = CacheSize

LEMMA RoomForOne ==
    ASSUME CacheInv, NEW key \in CacheKeys,
           key[1] # NoRequest => key \notin ToSet(cache),
           cache' = Append(MadeRoom, key)
    PROVE  Remembers(key)
<1> DEFINE n == Len(cache) - Shift
           f == [i \in 1..n |-> i + Shift]
<1>1. cache \in Seq(CacheKeys) /\ OneOfEach(cache) /\ Len(cache) <= CacheSize
      /\ CacheSize \in Nat /\ CacheSize > 0 /\ Len(cache) \in Nat
    BY RequestAuthorizationAssumption, LenProperties DEF CacheInv
<1>2. n \in Nat /\ n < CacheSize /\ Shift \in {0, 1} /\ (Shift = 0 => n = Len(cache))
      /\ (Shift = 0 <=> Len(cache) < CacheSize)
    BY <1>1 DEF Shift
<1>3. MadeRoom \in Seq(CacheKeys) /\ n = Len(MadeRoom)
      /\ \A i \in 1..n : i + Shift \in 1..Len(cache) /\ MadeRoom[i] = cache[i + Shift]
    BY MadeRoomProperties
<1>4. /\ \A i \in 1..n : f[i] \in 1..Len(cache) /\ MadeRoom[i] = cache[f[i]]
      /\ \A i, j \in 1..n : i # j => f[i] # f[j]
    BY <1>2, <1>3
<1>5. ToSet(cache) = {cache[i] : i \in 1..Len(cache)}
    BY <1>1, InSequence
<1> HIDE DEF n, f
<1>6. key[1] # NoRequest => key \notin ToSet(MadeRoom)
    <2>1. ToSet(MadeRoom) = {MadeRoom[i] : i \in 1..n}
        BY <1>3, InSequence
    <2> QED
        BY <1>4, <1>5, <2>1
<1>10. PartOf(MadeRoom, n, f, cache)
    BY <1>2, <1>3, <1>4 DEF PartOf
<1>11. Appended(MadeRoom, n, cache, key, cache')
    BY <1>1, <1>6, <1>10, AppendedCache
<1>7. /\ cache' \in Seq(CacheKeys) /\ Len(cache') = n + 1
      /\ OneOfEach(cache') /\ key \in ToSet(cache')
      /\ ToSet(cache') \subseteq ToSet(cache) \cup {key}
      /\ ToSet(MadeRoom) \subseteq ToSet(cache')
    BY <1>11 DEF Appended
<1>8. CASE Len(cache) < CacheSize
    <2>1. MadeRoom = cache
        BY <1>8 DEF MadeRoom
    <2>2. Len(cache') <= CacheSize /\ ~(Len(cache) = CacheSize)
        BY <1>1, <1>2, <1>7, <1>8
    <2> QED
        BY <1>7, <2>1, <2>2, Zenon DEF Remembers
<1>9. CASE ~(Len(cache) < CacheSize)
    <2>1. Len(cache') = CacheSize /\ CacheSize <= CacheSize
        BY <1>1, <1>2, <1>7, <1>9 DEF n
    <2> QED
        BY <1>7, <2>1, Zenon DEF Remembers
<1> QED
    BY <1>8, <1>9

LEMMA RememberRemembers ==
    ASSUME CacheInv, NEW r \in Requests, NEW form \in Forms, Remember(Key(r, form))
    PROVE  Remembers(Key(r, form))
<1> DEFINE key == Key(r, form)
           n == Len(cache)
<1>1. key \in CacheKeys /\ key[1] # NoRequest
    BY RequestAuthorizationAssumption DEF Key, CacheKeys
<1>2. cache \in Seq(CacheKeys) /\ OneOfEach(cache) /\ n <= CacheSize
      /\ CacheSize \in Nat /\ n \in Nat
    BY RequestAuthorizationAssumption, LenProperties DEF CacheInv
<1>3. ToSet(cache) = {cache[i] : i \in 1..n} /\ DOMAIN cache = 1..n
    BY <1>2, InSequence, LenProperties
<1>4. CASE key \notin ToSet(cache)
    <2>1. cache' = Append(MadeRoom, key)
        BY <1>4 DEF Remember
    <2> HIDE DEF key
    <2>2. Remembers(key)
        BY <1>1, <1>4, <2>1, RoomForOne
    <2> QED
        BY <2>2 DEF key
<1>5. CASE key \in ToSet(cache)
    <2> DEFINE p == CHOOSE i \in DOMAIN cache : cache[i] = key
               c == RemoveAt(cache, p)
               f == [i \in 1..(n - 1) |-> IF i < p THEN i ELSE i + 1]
    <2>1. p \in DOMAIN cache /\ cache[p] = key
        BY <1>5 DEF ToSet
    <2>2. cache' = Append(c, key)
        BY <1>5 DEF Remember
    <2> HIDE DEF p, key
    <2>3. p \in 1..n /\ n - 1 \in Nat
        BY <1>2, <1>3, <2>1
    <2>4. /\ c \in Seq(CacheKeys) /\ Len(c) = n - 1
          /\ \A i \in 1..(n - 1) : c[i] = IF i < p THEN cache[i] ELSE cache[i + 1]
        BY <1>2, <2>1, RemoveAtProperties
    <2> HIDE DEF c, n
    <2>5. \A i \in 1..(n - 1) : f[i] \in 1..n /\ f[i] # p /\ c[i] = cache[f[i]]
        BY <1>2, <2>3, <2>4
    <2>6. \A i, j \in 1..(n - 1) : i # j => f[i] # f[j]
        BY <1>2, <2>3
    <2> HIDE DEF f
    <2>7. \A i \in 1..(n - 1) : c[i] # key
        <3> SUFFICES ASSUME NEW i \in 1..(n - 1), c[i] = key PROVE FALSE
            OBVIOUS
        <3>1. cache[f[i]] = cache[p] /\ f[i] # p /\ f[i] \in 1..n
            BY <2>1, <2>5
        <3> QED
            BY <1>1, <1>2, <2>1, <2>3, <3>1 DEF OneOfEach, n
    <2>10. ToSet(c) = {c[i] : i \in 1..(n - 1)}
        BY <2>4, InSequence
    <2>14. key \notin ToSet(c)
        BY <2>7, <2>10
    <2>8. PartOf(c, n - 1, f, cache)
        BY <2>3, <2>4, <2>5, <2>6 DEF n, PartOf
    <2>15. Appended(c, n - 1, cache, key, cache')
        BY <1>1, <1>2, <2>2, <2>8, <2>14, AppendedCache
    <2>9. /\ cache' \in Seq(CacheKeys) /\ Len(cache') = (n - 1) + 1
          /\ OneOfEach(cache') /\ key \in ToSet(cache')
          /\ ToSet(cache') \subseteq ToSet(cache) \cup {key}
          /\ ToSet(c) \subseteq ToSet(cache')
        BY <2>15 DEF Appended
    <2>11. ASSUME NEW i \in 1..n, i # p PROVE cache[i] \in ToSet(c)
        <3>1. CASE i < p
            <4>1. i \in 1..(n - 1) /\ c[i] = cache[i]
                BY <1>2, <2>3, <2>4, <3>1
            <4> QED
                BY <2>10, <4>1
        <3>2. CASE ~(i < p)
            <4>1. i - 1 \in 1..(n - 1) /\ ~(i - 1 < p) /\ (i - 1) + 1 = i
                BY <1>2, <2>3, <2>11, <3>2
            <4>2. c[i - 1] = cache[i]
                BY <2>4, <4>1
            <4> QED
                BY <2>10, <4>1, <4>2
        <3> QED
            BY <3>1, <3>2
    <2>12. ToSet(cache) \subseteq ToSet(c) \cup {key}
        BY <1>3, <2>1, <2>11
    <2>13. Len(cache') = n /\ ToSet(cache) \subseteq ToSet(cache')
        BY <1>2, <2>9, <2>12
    <2> QED
        BY <1>2, <2>9, <2>13 DEF Remembers, key, n
<1> QED
    BY <1>4, <1>5

-----------------------------------------------------------------------------
\* A request comes no nearer to being verified.
Gains(s) ==
    ~ \/ request'[s].phase = request[s].phase /\ request'[s].message = request[s].message
      \/ request[s].phase = "idle" /\ request'[s].phase = "arrived"
      \/ request'[s].phase \in {"performed", "denied", "rejected", "error"}
      \/ request'[s].phase = "identified" /\ request'[s].message = {}

LEMMA CacheStays ==
    ASSUME CacheInv, cache' = cache, \A s \in Requests : ~Gains(s)
    PROVE  CacheInv'
<1>1. ASSUME NEW s \in Requests PROVE Cached(s)'
    BY DEF CacheInv, Cached, Gains, Key, IsSigned
<1> QED
    BY <1>1 DEF CacheInv

LEMMA CacheGains ==
    ASSUME CacheInv, NEW r \in Requests, NEW form \in Forms, Remembers(Key(r, form)),
           \A s \in Requests \ {r} : request'[s] = request[s],
           \/ request'[r].phase \in {"performed", "denied"}
           \/ request'[r].phase = "identified" /\ form = "positional"
    PROVE  CacheInv'
<1>1. Cached(r)'
    BY DEF Cached, Remembers, Key, IsSigned
<1>2. ASSUME NEW s \in Requests, s # r PROVE Cached(s)'
    <2>1. request'[s] = request[s] /\ Cached(s)
        BY <1>2 DEF CacheInv
    <2>2. \A f \in Forms : Key(s, f) # Key(r, form)
        BY <1>2 DEF Key
    <2>3. ASSUME request[s].phase \in {"idle", "arrived"}, NEW f \in Forms
          PROVE  Key(s, f) \notin ToSet(cache')
        BY <2>1, <2>2, <2>3 DEF Cached, Remembers
    <2>4. ASSUME request[s].phase = "identified", IsSigned(s)
          PROVE  Key(s, "positional") \in ToSet(cache') \/ Len(cache') = CacheSize
        BY <2>1, <2>4 DEF Cached, Remembers
    <2> QED
        BY <2>1, <2>3, <2>4 DEF Cached, Key, IsSigned
<1>3. cache' \in Seq(CacheKeys) /\ Len(cache') <= CacheSize /\ OneOfEach(cache')
    BY DEF Remembers
<1>4. OneOfEach(cache)'
    BY <1>3 DEF OneOfEach
<1>5. \A s \in Requests : Cached(s)'
    BY <1>1, <1>2
<1> QED
    BY <1>3, <1>4, <1>5 DEF CacheInv, CacheKeys, Forms

\* What goes to another phase stays the same otherwise.
LEMMA GotoFields ==
    ASSUME IInv, NEW r \in Requests, NEW phase, Goto(r, phase)
    PROVE  /\ request'[r].phase = phase
           /\ request'[r].arrivedLive = request[r].arrivedLive
           /\ request'[r].message = request[r].message /\ request'[r].user = request[r].user
           /\ \A s \in Requests \ {r} : request'[s] = request[s]
BY DEF IInv, Request, Goto

LEMMA DecideFields ==
    ASSUME IInv, NEW r \in Requests, NEW granted, Decide(r, granted)
    PROVE  /\ request'[r].phase = IF granted THEN "performed" ELSE "denied"
           /\ request'[r].arrivedLive = request[r].arrivedLive
           /\ request'[r].message = request[r].message /\ request'[r].user = request[r].user
           /\ \A s \in Requests \ {r} : request'[s] = request[s]
BY GotoFields DEF Decide

LEMMA IdentifiedFields ==
    ASSUME IInv, NEW r \in Requests, NEW found, Identified(r, found)
    PROVE  /\ request'[r].phase \in {"denied", "identified"}
           /\ request'[r].arrivedLive = request[r].arrivedLive
           /\ request'[r].message = request[r].message
           /\ request'[r].user = GetUserUri(r, found)
           /\ \A s \in Requests \ {r} : request'[s] = request[s]
BY DEF IInv, Request, Identified

LEMMA CacheOsf ==
    ASSUME IInv, CacheInv, Osf
    PROVE  CacheInv'
<1>1. cache' = cache
    BY DEF Osf, Tick, ChangeRole, ChangePublic, EndLive, Sign
<1>2. ASSUME NEW r0, NEW p0, Observe(r0, p0) PROVE \A s \in Requests : ~Gains(s)
    <2> SUFFICES ASSUME NEW s \in Requests PROVE ~Gains(s)
        OBVIOUS
    <2>1. request'[s].phase = request[s].phase /\ request'[s].message = request[s].message
        BY <1>2, RequestFields DEF Observe, Request
    <2> QED
        BY <2>1 DEF Gains
<1>3. \A s \in Requests : ~Gains(s)
    <2>1. CASE request' = request
        BY <2>1 DEF Gains
    <2> QED
        BY <1>2, <2>1 DEF Osf, Tick, ChangeRole, ChangePublic, EndLive, Sign
<1> QED
    BY <1>1, <1>3, CacheStays

LEMMA CacheOther ==
    ASSUME IInv, CacheInv, OtherRequest
    PROVE  CacheInv'
<1>1. Forgotten \in CacheKeys /\ Forgotten[1] = NoRequest
    BY DEF Forgotten, CacheKeys, Forms
<1>2. Remembers(Forgotten)
    BY <1>1, RoomForOne DEF OtherRequest
<1>3. request' = request
    BY DEF OtherRequest
<1>4. ASSUME NEW s \in Requests PROVE Cached(s)'
    <2>1. Cached(s) /\ \A f \in Forms : Key(s, f) # Forgotten
        BY RequestAuthorizationAssumption DEF CacheInv, Key, Forgotten
    <2> QED
        BY <1>2, <1>3, <2>1 DEF Cached, Remembers, Key, IsSigned
<1>5. cache' \in Seq(CacheKeys) /\ Len(cache') <= CacheSize /\ OneOfEach(cache')
    BY <1>2 DEF Remembers
<1>6. OneOfEach(cache)'
    BY <1>5 DEF OneOfEach
<1> QED
    BY <1>4, <1>5, <1>6 DEF CacheInv, CacheKeys, Forms

\* With a request its results are forgotten.
LEMMA CacheEnd ==
    ASSUME IInv, CacheInv, NEW r \in Requests, End(r)
    PROVE  CacheInv'
<1> DEFINE n == Len(cache)
           c == [i \in 1..n |-> IF cache[i][1] = r THEN Forgotten ELSE cache[i]]
<1>1. /\ cache \in Seq(CacheKeys) /\ n <= CacheSize /\ OneOfEach(cache) /\ n \in Nat
      /\ DOMAIN cache = 1..n /\ ToSet(cache) = {cache[i] : i \in 1..n}
      /\ \A i \in 1..n : cache[i] \in CacheKeys
    BY InSequence, LenProperties, ElementOfSeq DEF CacheInv
<1>2. cache' = c
    BY <1>1 DEF End
<1>3. Forgotten \in CacheKeys /\ Forgotten[1] = NoRequest
    BY DEF Forgotten, CacheKeys, Forms
<1>4. c \in Seq(CacheKeys) /\ Len(c) = n
    BY <1>1, <1>3
<1>5. ToSet(cache') = {c[i] : i \in 1..n}
    BY <1>2, <1>4, InSequence
<1>6. \A i \in 1..n : c[i] = Forgotten \/ (c[i] = cache[i] /\ cache[i][1] # r)
    OBVIOUS
<1> HIDE DEF c
<1>7. OneOfEach(cache')
    <2> SUFFICES ASSUME NEW i \in 1..n, NEW j \in 1..n, c[i] = c[j], i # j
                 PROVE  c[i][1] = NoRequest
        BY <1>2, <1>4 DEF OneOfEach
    <2> QED
        BY <1>1, <1>3, <1>6 DEF OneOfEach
<1>8. /\ request' = [request EXCEPT ![r] = Idle]
    BY DEF End
<1>9. Cached(r)'
    <2>1. request'[r].phase = "idle"
        BY <1>8 DEF IInv, Idle
    <2>2. \A f \in Forms : Key(r, f) \notin ToSet(cache')
        BY <1>3, <1>5, <1>6, RequestAuthorizationAssumption DEF Key
    <2> QED
        BY <2>1, <2>2 DEF Cached, Key
<1>10. ASSUME NEW s \in Requests, s # r PROVE Cached(s)'
    <2>1. request'[s] = request[s] /\ Cached(s)
        BY <1>8, <1>10 DEF CacheInv, IInv
    <2>2. ASSUME NEW f \in Forms PROVE Key(s, f) \in ToSet(cache') <=> Key(s, f) \in ToSet(cache)
        <3>1. Key(s, f) # Forgotten /\ Key(s, f)[1] # r
            BY <1>3, <1>10, RequestAuthorizationAssumption DEF Key
        <3>2. ASSUME NEW i \in 1..n PROVE c[i] = Key(s, f) <=> cache[i] = Key(s, f)
            BY <3>1 DEF c
        <3> QED
            BY <1>1, <1>5, <3>2
    <2> QED
        BY <1>1, <1>2, <1>4, <2>1, <2>2 DEF Cached, Key, Forms, IsSigned
<1>11. \A s \in Requests : Cached(s)'
    BY <1>9, <1>10
<1>12. OneOfEach(cache)'
    BY <1>7 DEF OneOfEach
<1> QED
    BY <1>1, <1>2, <1>4, <1>11, <1>12 DEF CacheInv, CacheKeys, Forms

\* The steps of a request that look for it in the cache, and those that do not.
LEMMA CacheRequest ==
    ASSUME IInv, CacheInv, NEW r \in Requests,
           \/ AuthenticateSigned(r) \/ Authenticate(r) \/ GetUserUriFails(r)
           \/ CheckUser(r) \/ AskOsf(r) \/ ReadSignedPermissions(r) \/ CheckSigned(r)
    PROVE  CacheInv'
<1>0. "positional" \in Forms /\ "keywords" \in Forms
    BY DEF Forms
<1>1. ASSUME NEW phase \in {"performed", "denied", "rejected", "error"}, Goto(r, phase), cache' = cache
      PROVE  CacheInv'
    <2>1. \A s \in Requests : ~Gains(s)
        BY <1>1, GotoFields DEF Gains
    <2> QED
        BY <1>1, <2>1, CacheStays
<1>2. ASSUME NEW granted, Decide(r, granted), cache' = cache
      PROVE  CacheInv'
    BY <1>1, <1>2 DEF Decide
<1>3. ASSUME NEW granted, Decide(r, granted), NEW form \in Forms, Remember(Key(r, form))
      PROVE  CacheInv'
    <2>1. request'[r].phase \in {"performed", "denied"}
          /\ \A s \in Requests \ {r} : request'[s] = request[s]
        BY <1>3, DecideFields
    <2>2. Remembers(Key(r, form))
        BY <1>3, RememberRemembers
    <2> QED
        BY <2>1, <2>2, CacheGains
<1>4. CASE AuthenticateSigned(r)
    <2>1. CASE Goto(r, "rejected") /\ cache' = cache
        BY <1>1, <2>1
    <2>2. CASE Identified(r, Message(r).user) /\ Remember(Key(r, "positional"))
        <3>1. request'[r].phase \in {"denied", "identified"}
              /\ \A s \in Requests \ {r} : request'[s] = request[s]
            BY <2>2, IdentifiedFields
        <3>2. Remembers(Key(r, "positional"))
            BY <1>0, <2>2, RememberRemembers
        <3> QED
            BY <1>0, <3>1, <3>2, CacheGains
    <2> QED
        BY <1>4, <2>1, <2>2 DEF AuthenticateSigned
<1>5. CASE Authenticate(r)
    <2>1. PICK u : Identified(r, u) /\ request[r].message = {} /\ cache' = cache
        BY <1>5 DEF Authenticate, IsSigned
    <2>2. \A s \in Requests : ~Gains(s)
        BY <2>1, IdentifiedFields DEF Gains
    <2> QED
        BY <2>1, <2>2, CacheStays
<1>6. CASE GetUserUriFails(r)
    BY <1>1, <1>6 DEF GetUserUriFails
<1>7. CASE CheckUser(r)
    BY <1>2, <1>7 DEF CheckUser
<1>8. CASE AskOsf(r)
    BY <1>2, <1>8 DEF AskOsf
<1>9. CASE ReadSignedPermissions(r)
    BY <1>0, <1>2, <1>3, <1>9 DEF ReadSignedPermissions
<1>10. CASE CheckSigned(r)
    BY <1>0, <1>2, <1>3, <1>10 DEF CheckSigned
<1> QED
    BY <1>4, <1>5, <1>6, <1>7, <1>8, <1>9, <1>10

LEMMA ArrivesFields ==
    ASSUME IInv, NEW r \in Requests, Arrives(r)
    PROVE  /\ request[r].phase = "idle"
           /\ request'[r].phase = "arrived" /\ request'[r].user = NoUser
           /\ \A s \in Requests \ {r} : request'[s] = request[s]
           /\ UNCHANGED <<now, changes, sent, cache, references>>
<1>1. PICK goal, session, token, cookie, message : Arrive(r, goal, session, token, cookie, message)
    BY DEF Arrives
<1> DEFINE q == Arrived(goal, Brought(session, token), cookie, message)
<1>2. q.phase = "arrived" /\ q.user = NoUser
    BY DEF Arrived
<1>3. request' = [request EXCEPT ![r] = q]
    BY <1>1 DEF Arrive
<1> HIDE DEF q
<1> QED BY <1>1, <1>2, <1>3 DEF Arrive, IsAt, IInv

LEMMA CacheArrive ==
    ASSUME IInv, CacheInv, NEW r \in Requests, Arrives(r)
    PROVE  CacheInv'
<1>1. \A s \in Requests : ~Gains(s)
    BY ArrivesFields DEF Gains
<1> QED
    BY <1>1, ArrivesFields, CacheStays

LEMMA CacheInitially == Init => CacheInv
<1> SUFFICES ASSUME Init PROVE CacheInv
    OBVIOUS
<1>1. cache = <<>> /\ request = [r \in Requests |-> Idle]
    BY DEF Init
<1>2. <<>> \in Seq(CacheKeys) /\ Len(<<>>) = 0 /\ ToSet(<<>>) = {}
    BY DEF ToSet
<1>3. \A r \in Requests : Cached(r)
    BY <1>1, <1>2 DEF Cached, Idle
<1> QED
    BY <1>1, <1>2, <1>3, RequestAuthorizationAssumption DEF CacheInv, OneOfEach

LEMMA CacheNext == IInv /\ CacheInv /\ [Next]_vars => CacheInv'
<1> SUFFICES ASSUME IInv, CacheInv, [Next]_vars PROVE CacheInv'
    OBVIOUS
<1>1. CASE UNCHANGED vars
    <2>1. cache' = cache /\ request' = request
        BY <1>1 DEF vars
    <2>2. \A s \in Requests : ~Gains(s)
        BY <2>1 DEF Gains
    <2> QED
        BY <2>1, <2>2, CacheStays
<1>2. CASE Next
    BY <1>2, GravyvaletSteps, CacheOsf, CacheOther, CacheEnd, CacheRequest, CacheArrive
    DEF Next, StepOf
<1> QED
    BY <1>1, <1>2

LEMMA CacheInvariance == Spec => []CacheInv
BY Invariance, CacheInitially, CacheNext, PTL DEF Spec

-----------------------------------------------------------------------------
\* Whoever a request was found to come from has a row, or is the user of the
\* session that came with a signature.
Accounted(s) ==
    \/ request[s].user \in references \cup {NoUser}
    \/ IsSigned(s) /\ <<request[s].user, "session">> \in request[s].arrivedLive

\* What the clock, the bounds and the signed requests are.
Counted ==
    /\ now \in 0..MaxTime
    /\ changes \in 0..MaxChanges
    /\ sent \subseteq SignedRequest
    /\ \A m \in sent : m.at <= now
    /\ references \subseteq Users
    /\ \A s \in Requests : Accounted(s)

SameUser(s) ==
    /\ request'[s].user = request[s].user
    /\ request'[s].arrivedLive = request[s].arrivedLive
    /\ request'[s].message = request[s].message

LEMMA CountedStays ==
    ASSUME Counted, UNCHANGED <<now, changes, sent>>,
           references \subseteq references', references' \subseteq Users,
           \A s \in Requests : SameUser(s) \/ Accounted(s)'
    PROVE  Counted'
<1>1. ASSUME NEW s \in Requests PROVE Accounted(s)'
    BY DEF Counted, Accounted, SameUser, IsSigned
<1>2. SignedRequest' = SignedRequest
    BY DEF SignedRequest
<1> QED
    BY <1>1, <1>2 DEF Counted

LEMMA CountedInitially == Init => Counted
<1> SUFFICES ASSUME Init PROVE Counted
    OBVIOUS
<1>1. request = [r \in Requests |-> Idle] /\ now = 0 /\ changes = 0 /\ sent = {} /\ references = {}
    BY DEF Init
<1>2. \A s \in Requests : Accounted(s)
    BY <1>1 DEF Accounted, Idle
<1>3. now \in 0..MaxTime /\ changes \in 0..MaxChanges
    BY <1>1, RequestAuthorizationAssumption
<1> QED
    BY <1>1, <1>2, <1>3 DEF Counted

\* What OSF signs is a signed request, of this time.
LEMMA CountedSign ==
    ASSUME IInv, Counted, NEW u \in Users \cup {NoUser}, NEW goal \in Goals, NEW signing \in Signings,
           Sign(u, goal, signing)
    PROVE  Counted'
<1> DEFINE m == [user |-> u, goal |-> goal, resource |-> signing.resource,
            level |-> IF signing.resource = "resource" /\ signing.key = "OSF_HMAC_KEY"
                        THEN Held(u, role, public) ELSE ADMIN,
            path |-> signing.path, query |-> signing.query, content |-> signing.content,
            key |-> signing.key, at |-> now, stamp |-> now + signing.ahead]
<1>1. sent' = sent \cup {m} /\ UNCHANGED <<now, changes, request, references>>
    BY DEF Sign
<1>2. signing.resource \in {"resource", "other"} /\ signing.path \in {"plain", "quoted"}
      /\ signing.query \in {"", "query"} /\ signing.content \in {"", "content"}
      /\ signing.key \in {"OSF_HMAC_KEY", "another"}
    BY SigningsAssumption
<1>10. signing.ahead \in Int
    BY SigningsAssumption
<1>3. Held(u, role, public) \in Levels /\ ADMIN \in Levels
    BY HeldLevel DEF IInv, Levels, ADMIN
<1>4. now \in 0..MaxTime /\ now \in Int /\ now + signing.ahead \in Int
    BY <1>10, RequestAuthorizationAssumption DEF Counted
<1>5. m \in SignedRequest
    BY <1>2, <1>3, <1>4 DEF SignedRequest
<1>6. m.at = now
    OBVIOUS
<1> HIDE DEF m
<1>7. ASSUME NEW s \in Requests PROVE Accounted(s)'
    BY <1>1 DEF Counted, Accounted, IsSigned
<1>8. \A n \in sent' : n.at <= now'
    BY <1>1, <1>4, <1>6 DEF Counted
<1>9. sent' \subseteq SignedRequest'
    BY <1>1, <1>5 DEF Counted, SignedRequest
<1> QED
    BY <1>1, <1>7, <1>8, <1>9 DEF Counted

LEMMA CountedOsf ==
    ASSUME IInv, Counted, Osf
    PROVE  Counted'
<1>1. CASE Tick
    <2>1. now < MaxTime /\ now' = now + 1 /\ UNCHANGED <<changes, sent, request, references>>
        BY <1>1 DEF Tick
    <2>2. now' \in 0..MaxTime /\ now <= now' /\ now \in Int /\ now' \in Int
        BY <2>1, RequestAuthorizationAssumption DEF Counted
    <2>7. \A m \in SignedRequest : m.at \in 0..MaxTime
        BY DEF SignedRequest
    <2>3. \A m \in sent : m.at \in Int
        BY <2>7, RequestAuthorizationAssumption DEF Counted
    <2>4. \A m \in sent' : m.at <= now'
        BY <2>1, <2>2, <2>3 DEF Counted
    <2>5. ASSUME NEW s \in Requests PROVE Accounted(s)'
        BY <2>1 DEF Counted, Accounted, IsSigned
    <2>6. SignedRequest' = SignedRequest
        BY DEF SignedRequest
    <2> QED
        BY <2>1, <2>2, <2>4, <2>5, <2>6 DEF Counted
<1>2. ASSUME changes < MaxChanges, changes' = changes + 1, UNCHANGED <<now, sent, references>>,
             \A s \in Requests : SameUser(s)
      PROVE  Counted'
    <2>1. changes' \in 0..MaxChanges
        BY <1>2, RequestAuthorizationAssumption DEF Counted
    <2>2. ASSUME NEW s \in Requests PROVE Accounted(s)'
        BY <1>2 DEF Counted, Accounted, SameUser, IsSigned
    <2>3. SignedRequest' = SignedRequest
        BY DEF SignedRequest
    <2> QED
        BY <1>2, <2>1, <2>2, <2>3 DEF Counted
<1>3. ASSUME NEW r0, NEW p0, Observe(r0, p0) PROVE \A s \in Requests : SameUser(s)
    <2> SUFFICES ASSUME NEW s \in Requests PROVE SameUser(s)
        OBVIOUS
    <2>1. request[s] \in Request
        BY DEF IInv
    <2> QED
        BY <1>3, <2>1 DEF Observe, Request, SameUser
<1>4. ASSUME NEW u \in Users, NEW level \in Levels, ChangeRole(u, level) PROVE Counted'
    BY <1>2, <1>3, <1>4 DEF ChangeRole
<1>5. CASE ChangePublic
    BY <1>2, <1>3, <1>5 DEF ChangePublic
<1>6. ASSUME NEW c \in live, EndLive(c) PROVE Counted'
    <2>1. \A s \in Requests : SameUser(s)
        BY <1>6 DEF EndLive, SameUser
    <2> QED
        BY <1>2, <1>6, <2>1 DEF EndLive
<1> QED
    BY <1>1, <1>4, <1>5, <1>6, CountedSign DEF Osf

LEMMA CountedRequest ==
    ASSUME IInv, Counted, NEW r \in Requests,
           \/ AuthenticateSigned(r) \/ Authenticate(r) \/ GetUserUriFails(r)
           \/ CheckUser(r) \/ AskOsf(r) \/ ReadSignedPermissions(r) \/ CheckSigned(r)
           \/ End(r)
    PROVE  Counted'
<1>1. UNCHANGED <<now, changes, sent>>
    BY DEF AuthenticateSigned, Authenticate, GetUserUriFails, CheckUser, AskOsf,
           ReadSignedPermissions, CheckSigned, End
<1>2. references \subseteq Users
    BY DEF Counted
<1>3. ASSUME NEW phase, Goto(r, phase), references' = references PROVE Counted'
    <2>1. \A s \in Requests : SameUser(s)
        BY <1>3, GotoFields DEF SameUser
    <2> QED
        BY <1>1, <1>2, <1>3, <2>1, CountedStays
<1>4. ASSUME NEW granted, Decide(r, granted), references' = references PROVE Counted'
    BY <1>3, <1>4 DEF Decide
<1>5. ASSUME NEW found \in Users \cup {NoUser}, Identified(r, found),
             LET u == GetUserUri(r, found)
             IN  u = found \/ (IsSigned(r) /\ <<u, "session">> \in request[r].arrivedLive)
      PROVE  Counted'
    <2>1. references' = references \cup ({found} \ {NoUser})
        BY <1>5 DEF Identified
    <2>2. references \subseteq references' /\ references' \subseteq Users
          /\ found \in references' \cup {NoUser}
        BY <1>2, <2>1
    <2>3. Accounted(r)'
        BY <1>5, <2>2, IdentifiedFields DEF Accounted, IsSigned
    <2>4. \A s \in Requests \ {r} : SameUser(s)
        BY <1>5, IdentifiedFields DEF SameUser
    <2>5. \A s \in Requests : SameUser(s) \/ Accounted(s)'
        BY <2>3, <2>4
    <2> QED
        BY <1>1, <2>2, <2>5, CountedStays
<1>6. CASE AuthenticateSigned(r)
    <2>1. CASE Goto(r, "rejected") /\ references' = references
        BY <1>3, <2>1
    <2>2. CASE Identified(r, Message(r).user)
        <3> DEFINE found == Message(r).user
                   u == GetUserUri(r, found)
        <3>1. IsSigned(r) /\ request[r].phase # "idle"
            BY <1>6 DEF AuthenticateSigned, IsAt
        <3>2. Message(r) \in request[r].message /\ request[r].message \subseteq sent
            BY <3>1, RequestFields DEF IsSigned, Message
        <3>3. found \in Users \cup {NoUser} /\ Names(request[r], found)
            BY <3>2 DEF IInv, Names
        <3> HIDE DEF found
        <3>4. u = found \/ <<u, "session">> \in request[r].arrivedLive
            BY <3>1, <3>3, UserUri
        <3>5. Identified(r, found)
            BY <2>2 DEF found
        <3> QED
            BY <1>5, <3>1, <3>3, <3>4, <3>5
    <2> QED
        BY <1>6, <2>1, <2>2 DEF AuthenticateSigned
<1>7. CASE Authenticate(r)
    <2> DEFINE t == Named(r, "token")
               found == GetUserUri(r, t)
    <2>1. Identified(r, found)
        BY <1>7 DEF Authenticate
    <2>2. t \in Users \cup {NoUser} /\ Named(r, "session") \in Users \cup {NoUser}
        BY NamedIs
    <2> HIDE DEF t
    <2>3. found \in Users \cup {NoUser} /\ GetUserUri(r, found) = found
        BY <2>2 DEF GetUserUri
    <2> HIDE DEF found
    <2> QED
        BY <1>5, <2>1, <2>3
<1>8. CASE GetUserUriFails(r)
    BY <1>3, <1>8 DEF GetUserUriFails
<1>9. CASE CheckUser(r)
    BY <1>4, <1>9 DEF CheckUser
<1>10. CASE AskOsf(r)
    BY <1>4, <1>10 DEF AskOsf
<1>11. CASE ReadSignedPermissions(r)
    BY <1>4, <1>11 DEF ReadSignedPermissions
<1>12. CASE CheckSigned(r)
    BY <1>4, <1>12 DEF CheckSigned
<1>13. CASE End(r)
    <2>1. request' = [request EXCEPT ![r] = Idle] /\ references' = references
        BY <1>13 DEF End
    <2>2. Accounted(r)'
        BY <2>1 DEF Accounted, Idle, IInv
    <2>3. \A s \in Requests \ {r} : SameUser(s)
        BY <2>1 DEF SameUser, IInv
    <2>4. \A s \in Requests : SameUser(s) \/ Accounted(s)'
        BY <2>2, <2>3
    <2> QED
        BY <1>1, <1>2, <2>1, <2>4, CountedStays
<1> QED
    BY <1>6, <1>7, <1>8, <1>9, <1>10, <1>11, <1>12, <1>13

LEMMA CountedArrive ==
    ASSUME IInv, Counted, NEW r \in Requests, Arrives(r)
    PROVE  Counted'
<1>1. Accounted(r)'
    BY ArrivesFields DEF Accounted
<1>2. \A s \in Requests : SameUser(s) \/ Accounted(s)'
    BY <1>1, ArrivesFields DEF SameUser
<1>3. references \subseteq Users
    BY DEF Counted
<1> QED
    BY <1>2, <1>3, ArrivesFields, CountedStays

LEMMA CountedNext == IInv /\ Counted /\ [Next]_vars => Counted'
<1> SUFFICES ASSUME IInv, Counted, [Next]_vars PROVE Counted'
    OBVIOUS
<1>1. ASSUME UNCHANGED <<now, changes, sent, request, references>> PROVE Counted'
    <2>1. \A s \in Requests : SameUser(s)
        BY <1>1 DEF SameUser
    <2> QED
        BY <1>1, <2>1, CountedStays DEF Counted
<1>2. CASE UNCHANGED vars
    BY <1>1, <1>2 DEF vars
<1>3. CASE OtherRequest
    BY <1>1, <1>3 DEF OtherRequest
<1>4. CASE Osf
    BY <1>4, CountedOsf
<1>5. CASE Gravyvalet /\ ~OtherRequest
    BY <1>5, GravyvaletSteps, CountedRequest, CountedArrive DEF StepOf
<1> QED
    BY <1>2, <1>3, <1>4, <1>5 DEF Next, Gravyvalet

LEMMA CountedInvariance == Spec => []Counted
BY Invariance, CountedInitially, CountedNext, PTL DEF Spec

\* The types hold; whoever was identified has a row or came with a session
\* beside a signature, and the cache never holds more than its size, nor one
\* request twice (authentication.py:16, hmac.py:63).
THEOREM TypeCorrect == Spec => []TypeOK
<1>1. ASSUME IInv, CacheInv, Counted PROVE TypeOK
    <2>1. DOMAIN cache = 1..Len(cache)
        BY <1>1, LenProperties DEF CacheInv
    <2>2. \A i, j \in DOMAIN cache : cache[i] = cache[j] /\ i # j => cache[i][1] = NoRequest
        BY <1>1, <2>1, Zenon DEF CacheInv, OneOfEach
    <2>3. ASSUME NEW r \in Requests
          PROVE  /\ request[r].goal \in Goals
                 /\ request[r].brought \subseteq Credentials
                 /\ request[r].cookie \in Cookies
                 /\ request[r].peak \in Levels
                 /\ request[r].message \subseteq sent
                 /\ request[r].arrivedLive \subseteq request[r].brought
                 /\ \/ request[r].user \in references \cup {NoUser}
                    \/ IsSigned(r) /\ <<request[r].user, "session">> \in request[r].arrivedLive
        BY <1>1, RequestFields DEF Counted, Accounted, Fits
    <2> QED
        BY <1>1, <2>2, <2>3, Zenon DEF TypeOK, IInv, CacheInv, Counted
<1>2. IInv /\ CacheInv /\ Counted => TypeOK
    BY <1>1
<1> QED
    BY <1>2, Invariance, CacheInvariance, CountedInvariance, PTL

-----------------------------------------------------------------------------
\* Only the steps of a request bring it to another phase.
LEMMA PhaseChanges ==
    ASSUME IInv, [Next]_vars, NEW r \in Requests, request'[r].phase # request[r].phase
    PROVE  StepOf(r)
<1>1. ASSUME NEW s \in Requests, s # r, StepOf(s) PROVE FALSE
    <2>1. CASE Arrives(s)
        BY <1>1, <2>1, ArrivesFields
    <2>2. CASE ~Arrives(s)
        <3>1. request'[r] = request[r]
            BY <1>1, <2>2 DEF IInv, StepOf, CheckUser, AskOsf, ReadSignedPermissions, CheckSigned,
                Decide, Goto, AuthenticateSigned, Authenticate, GetUserUriFails, Identified, End
        <3> QED
            BY <3>1
    <2> QED
        BY <2>1, <2>2
<1>2. ASSUME NEW r0, NEW p0, Observe(r0, p0) PROVE FALSE
    <2>1. request[r] \in Request
        BY DEF IInv
    <2>2. request'[r].phase = request[r].phase
        BY <1>2, <2>1 DEF Observe, Request
    <2> QED
        BY <2>2
<1>3. request' # request
    OBVIOUS
<1>4. ~Osf
    BY <1>2, <1>3 DEF Osf, Tick, ChangeRole, ChangePublic, EndLive, Sign
<1>5. Gravyvalet /\ ~OtherRequest
    BY <1>3, <1>4 DEF vars, OtherRequest, Next
<1> QED
    BY <1>1, <1>5, GravyvaletSteps

\* With which steps a request leaves the phases before it is decided.
LEMMA LeavesArrived ==
    ASSUME IInv, [Next]_vars, NEW r \in Requests, IsAt(r, "arrived"), ~IsAt(r, "arrived")'
    PROVE  AuthenticateSigned(r) \/ Authenticate(r) \/ GetUserUriFails(r)
<1>1. request[r].phase = "arrived" /\ request'[r].phase # "arrived"
    BY DEF IsAt
<1>2. StepOf(r)
    BY <1>1, PhaseChanges
<1> QED
    BY <1>1, <1>2, ArrivesFields
    DEF StepOf, CheckUser, AskOsf, ReadSignedPermissions, CheckSigned, MustAsk, UserIsKnown,
        End, IsAt

LEMMA LeavesIdentified ==
    ASSUME IInv, [Next]_vars, NEW r \in Requests, IsAt(r, "identified"),
           request'[r].phase \in {"performed", "denied"}
    PROVE  CheckUser(r) \/ AskOsf(r) \/ ReadSignedPermissions(r) \/ CheckSigned(r)
<1>1. request[r].phase = "identified"
    BY DEF IsAt
<1>2. StepOf(r)
    BY <1>1, PhaseChanges
<1>3. ~GetUserUriFails(r)
    BY GotoFields DEF GetUserUriFails
<1> QED
    BY <1>1, <1>2, <1>3, ArrivesFields DEF StepOf, AuthenticateSigned, Authenticate, End, IsAt

\* A request that was signed has one message.
LEMMA MessageOf ==
    ASSUME IInv, NEW r \in Requests, request[r].phase # "idle", NEW m \in request[r].message
    PROVE  /\ IsSigned(r)
           /\ Message(r) = m
           /\ m \in sent
BY RequestFields DEF Fits, IsSigned, Message

LEMMA MessageTimes ==
    ASSUME Counted, NEW m \in sent
    PROVE  now \in Int /\ m.at \in Int /\ m.stamp \in Int /\ m.at <= now
<1>1. \A n \in SignedRequest : n.at \in 0..MaxTime /\ n.stamp \in Int
    BY DEF SignedRequest
<1>2. \A n \in SignedRequest : n.at \in Int
    BY <1>1, RequestAuthorizationAssumption
<1> QED
    BY <1>1, <1>2, RequestAuthorizationAssumption DEF Counted

\* A request that arrives is looked for in the cache in vain: it is verified
\* by its signature and its time.
LEMMA ArrivedVerifies ==
    ASSUME CacheInv, NEW r \in Requests, IsAt(r, "arrived")
    PROVE  Verifies(r, "positional") <=>
                (SameSignature(Message(r)) /\ ValidTimestamp(Message(r)))
<1>1. Key(r, "positional") \notin ToSet(cache)
    BY DEF CacheInv, Cached, IsAt, Forms
<1> QED
    BY <1>1, Zenon DEF Verifies

LEMMA WindowStep ==
    ASSUME IInv, CacheInv, Counted, [Next]_vars, NEW r \in Requests,
           IsAt(r, "arrived"), ~IsAt(r, "arrived")', IsSigned(r),
           request'[r].phase # "rejected", NEW m \in request[r].message
    PROVE  m.stamp <= now /\ now - m.at <= Window + (m.stamp - m.at)
<1>1. request[r].phase = "arrived"
    BY DEF IsAt
<1>3. AuthenticateSigned(r)
    BY <1>1, LeavesArrived DEF Authenticate, GetUserUriFails, IsAt
<1>4. ~Goto(r, "rejected")
    BY GotoFields
<1>5. Message(r) = m /\ m \in sent
    BY <1>1, MessageOf
<1>6. ValidTimestamp(m)
    BY <1>3, <1>4, <1>5, ArrivedVerifies DEF AuthenticateSigned
<1>7. now \in Int /\ m.at \in Int /\ m.stamp \in Int /\ Window \in Int
    BY <1>5, MessageTimes, RequestAuthorizationAssumption
<1>8. m.stamp >= now - Window /\ m.stamp <= now
    BY <1>6, <1>7 DEF ValidTimestamp
<1> QED
    BY <1>7, <1>8

\* What OSF signed is accepted within the window of its time stamp only, by a
\* first copy and by any other, however the cache was used in between
\* (hmac.py:191).
THEOREM WindowIsKept == Spec => AcceptedInWindow
<1>1. IInv /\ CacheInv /\ Counted /\ [Next]_vars =>
        [\A r \in Requests :
            IsAt(r, "arrived") /\ IsAt(r, "arrived")' = FALSE /\ IsSigned(r)
                /\ request'[r].phase # "rejected" =>
                    \A m \in request[r].message :
                        m.stamp <= now /\ now - m.at <= Window + (m.stamp - m.at)]_vars
    BY WindowStep
<1> QED
    BY <1>1, Invariance, CacheInvariance, CountedInvariance, PTL DEF Spec, AcceptedInWindow

-----------------------------------------------------------------------------
\* What is signed, in pieces.
LEMMA SignedIn ==
    ASSUME NEW S, NEW segment \in S
    PROVE  Signed(segment) \in Seq(S)
<1>1. <<>> \in Seq(S) /\ <<segment>> \in Seq(S)
    OBVIOUS
<1> QED
    BY <1>1, Zenon DEF Signed

Joined(s, t) == s \o t

LEMMA JoinedIn ==
    ASSUME NEW S, NEW s \in Seq(S), NEW t \in Seq(S)
    PROVE  Joined(s, t) \in Seq(S)
BY ConcatProperties DEF Joined

LEMMA JoinedOver ==
    ASSUME NEW S, NEW s \in Seq(S), NEW t \in Seq(S), NEW u \in Seq(S)
    PROVE  Joined(Joined(s, t), u) = Joined(s, Joined(t, u))
BY SMTT(30) DEF Joined

LEMMA Regrouped ==
    ASSUME NEW S, NEW a \in Seq(S), NEW b \in Seq(S), NEW c \in Seq(S), NEW d \in Seq(S)
    PROVE  Joined(Joined(Joined(a, b), c), d) = Joined(a, Joined(Joined(b, c), d))
BY JoinedIn, JoinedOver

\* The string is put together again from the request as OSF put it together
\* from the url, when the path needs no quoting.
LEMMA Reconstructs ==
    ASSUME NEW m, m.path # "quoted"
    PROVE  Reconstruct(m) = StringToSign(m)
<1> DEFINE hash == ContentHash(m)
           user == IF m.user = NoUser THEN "" ELSE "user"
           permissions == IF m.level = 0 THEN "" ELSE "permissions"
           S == {"method", "timestamp", m.path, m.query, hash, user, m.resource, permissions}
           head == Signed("method") \o Signed(m.path) \o Signed(m.query)
           more == AdditionalHeaders(m)
<1>1. /\ Signed("method") \in Seq(S) /\ Signed(m.path) \in Seq(S) /\ Signed(m.query) \in Seq(S)
      /\ Signed("timestamp") \in Seq(S) /\ Signed(hash) \in Seq(S)
      /\ Signed(user) \in Seq(S) /\ Signed(m.resource) \in Seq(S) /\ Signed(permissions) \in Seq(S)
    <2> HIDE DEF hash, user, permissions
    <2> QED
        BY SignedIn, Zenon
<1>2. more = Signed(user) \o Signed(m.resource) \o Signed(permissions)
    BY Zenon DEF AdditionalHeaders
<1>3. StringToSign(m) = head \o Signed("timestamp") \o Signed(hash) \o more
    BY Zenon DEF StringToSign
<1>4. (IF hash = "" THEN <<>> ELSE Signed(hash)) = Signed(hash)
      /\ (IF m.query = "" THEN <<>> ELSE Signed(m.query)) = Signed(m.query)
    BY Zenon DEF Signed
<1>5. Reconstruct(m) = head \o (Signed("timestamp") \o Signed(hash) \o more)
    BY <1>4, Zenon DEF Reconstruct, SignedHeaders, RequestPath
<1> HIDE DEF hash, user, permissions, S
<1>6. Signed("method") \o Signed(m.path) \in Seq(S)
    BY <1>1, ConcatProperties, Zenon
<1>7. head \in Seq(S)
    BY <1>1, <1>6, ConcatProperties, Zenon
<1>8. Signed(user) \o Signed(m.resource) \in Seq(S)
    BY <1>1, ConcatProperties, Zenon
<1>9. Signed(user) \o Signed(m.resource) \o Signed(permissions) \in Seq(S)
    BY <1>1, <1>8, ConcatProperties, Zenon
<1>10. Signed("timestamp") \in Seq(S) /\ Signed(hash) \in Seq(S)
    BY <1>1
<1> HIDE DEF head
<1>11. more \in Seq(S)
    BY <1>2, <1>9
<1> HIDE DEF more
<1>12. Joined(Joined(Joined(head, Signed("timestamp")), Signed(hash)), more)
            = Joined(head, Joined(Joined(Signed("timestamp"), Signed(hash)), more))
    BY <1>7, <1>10, <1>11, Regrouped
<1> QED
    BY <1>3, <1>5, <1>12, Zenon DEF Joined

LEMMA AcceptStep ==
    ASSUME IInv, CacheInv, Counted, [Next]_vars, NEW r \in Requests,
           IsAt(r, "arrived"), request'[r].phase = "rejected", NEW m \in request[r].message,
           m.stamp = m.at, now - m.at <= Window
    PROVE  m.path = "quoted" \/ m.key = "another"
<1>1. request[r].phase = "arrived" /\ ~IsAt(r, "arrived")'
    BY DEF IsAt
<1>3. IsSigned(r) /\ Message(r) = m /\ m \in sent
    BY <1>1, MessageOf
<1>4. AuthenticateSigned(r)
    BY <1>1, <1>3, LeavesArrived DEF Authenticate, GetUserUriFails, IsAt
<1>5. ~Verifies(r, "positional")
    <2>1. ~Identified(r, Message(r).user)
        BY IdentifiedFields
    <2> QED
        BY <1>4, <2>1 DEF AuthenticateSigned
<1>6. ~(SameSignature(m) /\ ValidTimestamp(m))
    BY <1>3, <1>5, ArrivedVerifies
<1>7. /\ now \in Int /\ m.at \in Int /\ m.stamp \in Int /\ m.at <= now /\ Window \in Int
    BY <1>3, MessageTimes, RequestAuthorizationAssumption
<1>8. m.stamp \in (now - Window)..now
    BY <1>7
<1>9. m.key \in {"OSF_HMAC_KEY", "another"}
    BY <1>3 DEF Counted, SignedRequest
<1> QED
    BY <1>3, <1>6, <1>8, <1>9, Reconstructs DEF ValidTimestamp, SameSignature

\* OSF's requests are not rejected within the window, whatever they say and
\* whatever is in the cache, unless their path needs quoting: the string that
\* was signed is put together again from the request (hmac.py:137 and :168).
THEOREM OsfIsHeard == Spec => OsfIsAccepted
<1>1. ASSUME IInv, CacheInv, Counted, [Next]_vars, NEW r \in Requests,
             IsAt(r, "arrived"), request'[r].phase = "rejected", NEW m \in request[r].message
      PROVE  m.stamp # m.at \/ now - m.at > Window \/ m.path = "quoted" \/ m.key = "another"
    <2>1. m \in sent
        BY <1>1, MessageOf DEF IsAt
    <2>2. now \in Int /\ m.at \in Int /\ Window \in Int
        BY <1>1, <2>1, MessageTimes, RequestAuthorizationAssumption
    <2>3. CASE now - m.at <= Window
        BY <1>1, <2>3, AcceptStep
    <2>4. CASE now - m.at > Window
        BY <2>4
    <2> QED
        BY <2>2, <2>3, <2>4
<1>2. IInv /\ CacheInv /\ Counted /\ [Next]_vars =>
        [\A r \in Requests :
            IsAt(r, "arrived") /\ request'[r].phase = "rejected" =>
                \A m \in request[r].message :
                    m.stamp # m.at \/ now - m.at > Window \/ m.path = "quoted"
                        \/ m.key = "another"]_vars
    BY <1>1
<1> QED
    BY <1>2, Invariance, CacheInvariance, CountedInvariance, PTL DEF Spec, OsfIsAccepted

-----------------------------------------------------------------------------
LEMMA DenyStep ==
    ASSUME IInv, CacheInv, [Next]_vars, NEW r \in Requests,
           MustAsk(r), request'[r].phase = "denied", NEW m \in request[r].message
    PROVE  ~Grants(m, Required(request[r].goal)) \/ Len(cache) = CacheSize
<1>1. request[r].phase = "identified"
    BY DEF MustAsk, UserIsKnown, IsAt
<1>3. IsSigned(r) /\ Message(r) = m
    BY <1>1, MessageOf
<1>4. ~CheckUser(r) /\ ~CheckSigned(r) /\ ~AskOsf(r)
    BY <1>3 DEF CheckUser, CheckSigned, MustAsk, AskOsf
<1>5. ReadSignedPermissions(r)
    BY <1>1, <1>4, LeavesIdentified DEF IsAt
<1>6. CASE Verifies(r, "positional")
    <2>1. Decide(r, Grants(m, Required(request[r].goal)))
        BY <1>3, <1>5, <1>6 DEF ReadSignedPermissions
    <2>2. ~Decide(r, TRUE)
        BY DecideFields
    <2> QED
        BY <2>1, <2>2
<1>7. CASE ~Verifies(r, "positional")
    <2>1. Key(r, "positional") \notin ToSet(cache)
        BY <1>7, Zenon DEF Verifies
    <2> QED
        BY <1>1, <1>3, <2>1 DEF CacheInv, Cached
<1> QED
    BY <1>6, <1>7

\* A request that was verified does not expire while it is being handled: its
\* permissions are read from the cache until it is full (hmac.py:63).
THEOREM VerifiedOnce == Spec => DoesNotExpireWhenHandled
<1>1. IInv /\ CacheInv /\ [Next]_vars =>
        [\A r \in Requests :
            MustAsk(r) /\ request'[r].phase = "denied" =>
                \A m \in request[r].message :
                    ~Grants(m, Required(request[r].goal)) \/ Len(cache) = CacheSize]_vars
    BY DenyStep
<1> QED
    BY <1>1, Invariance, CacheInvariance, PTL DEF Spec, DoesNotExpireWhenHandled

-----------------------------------------------------------------------------
\* A request that was identified by a signature was signed with OSF's key.
SignedByOsf == \A r \in Requests :
    request[r].phase = "identified" => \A m \in request[r].message : m.key = "OSF_HMAC_KEY"

LEMMA EndFields ==
    ASSUME IInv, NEW r \in Requests, End(r)
    PROVE  /\ request'[r].phase = "idle"
           /\ \A s \in Requests \ {r} : request'[s] = request[s]
BY DEF IInv, End, Idle

\* A request keeps its message until it ends.
LEMMA SameMessage ==
    ASSUME IInv, [Next]_vars, NEW r \in Requests,
           request[r].phase # "idle", request'[r].phase # "idle"
    PROVE  request'[r].message = request[r].message
<1>1. ASSUME NEW r0, NEW p0, Observe(r0, p0) PROVE request'[r].message = request[r].message
    BY <1>1, RequestFields DEF Observe, Request
<1>2. CASE request' = request
    BY <1>2
<1>3. CASE Osf
    BY <1>1, <1>2, <1>3 DEF Osf, Tick, ChangeRole, ChangePublic, EndLive, Sign
<1>4. ASSUME NEW s \in Requests, StepOf(s) PROVE request'[r].message = request[r].message
    BY <1>4, ArrivesFields, DecideFields, GotoFields, IdentifiedFields, EndFields
    DEF StepOf, AuthenticateSigned, Authenticate, GetUserUriFails, CheckUser, AskOsf,
        ReadSignedPermissions, CheckSigned
<1> QED
    BY <1>2, <1>3, <1>4, GravyvaletSteps DEF Next, vars, OtherRequest

LEMMA SignedByOsfInitially == Init => SignedByOsf
BY DEF Init, Idle, SignedByOsf

LEMMA SignedByOsfNext == IInv /\ CacheInv /\ SignedByOsf /\ [Next]_vars => SignedByOsf'
<1> SUFFICES ASSUME IInv, CacheInv, SignedByOsf, [Next]_vars, NEW r \in Requests,
                    request'[r].phase = "identified", NEW m \in request'[r].message
             PROVE  m.key = "OSF_HMAC_KEY"
    BY DEF SignedByOsf
<1>1. CASE request[r].phase = "identified"
    <2>1. request'[r].message = request[r].message
        BY <1>1, SameMessage
    <2> QED
        BY <1>1, <2>1 DEF SignedByOsf
<1>2. CASE request[r].phase # "identified"
    <2>1. StepOf(r)
        BY <1>2, PhaseChanges
    <2>2. AuthenticateSigned(r) \/ Authenticate(r)
        <3>1. ~Arrives(r) /\ ~End(r)
            BY ArrivesFields, EndFields
        <3>2. ASSUME NEW granted PROVE ~Decide(r, granted)
            BY DecideFields
        <3>3. ~CheckUser(r) /\ ~AskOsf(r) /\ ~ReadSignedPermissions(r) /\ ~CheckSigned(r)
            BY <3>2 DEF CheckUser, AskOsf, ReadSignedPermissions, CheckSigned
        <3>4. ~GetUserUriFails(r)
            BY GotoFields DEF GetUserUriFails
        <3> QED
            BY <2>1, <3>1, <3>3, <3>4 DEF StepOf
    <2>3. request'[r].message = request[r].message
        BY <2>2, GotoFields, IdentifiedFields DEF AuthenticateSigned, Authenticate
    <2>4. AuthenticateSigned(r) /\ IsAt(r, "arrived")
        BY <2>2, <2>3 DEF AuthenticateSigned, Authenticate, IsSigned
    <2>5. Verifies(r, "positional")
        BY <2>4, GotoFields DEF AuthenticateSigned
    <2>6. SameSignature(Message(r)) /\ Message(r) = m
        BY <2>3, <2>4, <2>5, ArrivedVerifies, MessageOf DEF IsAt
    <2> QED
        BY <2>6 DEF SameSignature
<1> QED
    BY <1>1, <1>2

LEMMA SignedByOsfInvariance == Spec => []SignedByOsf
BY Invariance, CacheInvariance, SignedByOsfInitially, SignedByOsfNext, PTL DEF Spec

\* What it takes to perform something, as PerformedWithPermission has it.
OfOsf(q) == {m \in q.message : m.key = "OSF_HMAC_KEY"}

Is(q, u) ==
    /\ \/ \E kind \in {"session", "token"} : <<u, kind>> \in q.arrivedLive
       \/ \E m \in OfOsf(q) : m.user = u
    /\ \A v \in Users : <<v, "session">> \in q.brought \cap live => u = v

HeldOnce(q, level) ==
    IF q.message = {} THEN q.peak >= level
    ELSE \E m \in OfOsf(q) : m.resource = "resource" /\ m.level >= level

Permitted(q) ==
    CASE q.goal = "account" -> Is(q, Owner)
      [] q.goal = "view" -> HeldOnce(q, READ)
      [] q.goal = "edit" -> Is(q, Owner) \/ HeldOnce(q, ADMIN)
      [] q.goal = "connect" -> Is(q, Owner) /\ HeldOnce(q, WRITE)
      [] q.goal = "log" -> Is(q, Owner) \/ Is(q, Invoker) \/ HeldOnce(q, READ)
      [] q.goal = "access" -> Is(q, Owner) \/ HeldOnce(q, READ)
      [] q.goal = "update" -> Is(q, Owner) \/ HeldOnce(q, WRITE)
      [] q.goal = "waterbutler" -> OfOsf(q) # {}

\* Whoever was identified as a user is that user.
LEMMA IdentifiedIs ==
    ASSUME IInv, SignedByOsf, NEW r \in Requests, IsAt(r, "identified"),
           NEW u \in Users, request[r].user = u
    PROVE  Is(request[r], u)
<1>1. request[r].phase = "identified" /\ u # NoUser
    BY RequestAuthorizationAssumption DEF IsAt
<1>2. /\ Names(request[r], u)
      /\ \A v \in Users : <<v, "session">> \in request[r].brought \cap live => u = v
    BY <1>1, RequestFields DEF Fits
<1>3. OfOsf(request[r]) = request[r].message
    BY <1>1 DEF SignedByOsf, OfOsf
<1> QED
    BY <1>2, <1>3 DEF Names, Is

\* The users who need not be looked up are permitted.
LEMMA AllowedPermitted ==
    ASSUME IInv, SignedByOsf, NEW r \in Requests, IsAt(r, "identified"),
           Allowed(request[r].goal, request[r].user)
    PROVE  Permitted(request[r])
<1>1. Is(request[r], Owner) \/ (request[r].goal = "log" /\ Is(request[r], Invoker))
    BY IdentifiedIs, RequestAuthorizationAssumption DEF Allowed
<1>2. request[r].goal \in {"account", "edit", "access", "update", "log"}
    BY DEF Allowed
<1> QED
    BY <1>1, <1>2 DEF Permitted

\* Where OSF or the signed headers are asked, what is required is enough.
LEMMA AskedPermitted ==
    ASSUME IInv, SignedByOsf, NEW r \in Requests, MustAsk(r),
           HeldOnce(request[r], Required(request[r].goal))
    PROVE  Permitted(request[r])
<1> DEFINE q == request[r]
<1>1. q.goal \in {"view", "edit", "connect", "log", "access", "update"}
    BY RequestFields DEF MustAsk, Allowed, Denied, Goals
<1>2. q.goal = "connect" => Is(q, Owner)
    BY IdentifiedIs, RequestAuthorizationAssumption DEF MustAsk, UserIsKnown, Denied
<1>3. CASE q.goal = "connect"
    BY <1>2, <1>3 DEF Permitted, Required
<1>4. CASE q.goal = "edit"
    BY <1>4 DEF Permitted, Required
<1>5. CASE q.goal = "access"
    BY <1>5 DEF Permitted, Required, ForCapabilities
<1>6. CASE q.goal = "update"
    BY <1>6 DEF Permitted, Required, ForCapabilities
<1>7. CASE q.goal \in {"view", "log"}
    BY <1>7 DEF Permitted, Required
<1> QED
    BY <1>1, <1>3, <1>4, <1>5, <1>6, <1>7

\* What is required is a rank.
LEMMA RequiredLevel == \A goal : Required(goal) \in Levels
BY DEF Required, ForCapabilities, READ, WRITE, ADMIN, Levels

\* Nobody whom OSF may answer held more than the request has seen.
LEMMA AnsweredPeak ==
    ASSUME IInv, NEW r \in Requests, request[r].phase # "idle", ~IsSigned(r),
           NEW u \in Answered(r)
    PROVE  /\ Held(u, role, public) \in Levels
           /\ request[r].peak >= Held(u, role, public)
<1>1. Fits(request[r], role, public, live) /\ request[r].message = {}
    BY RequestFields DEF IsSigned
<1>2. CASE u = NoUser
    BY <1>1, <1>2, HeldLevel DEF Fits, IInv
<1>3. CASE u # NoUser
    <2>1. PICK c \in request[r].brought \cap live : c[1] = u
        BY <1>3 DEF Answered
    <2>2. c \in request[r].arrivedLive
        BY <1>1 DEF Fits
    <2>3. c[1] \in Users
        BY RequestFields DEF Credentials
    <2> QED
        BY <1>1, <2>1, <2>2, <2>3, HeldLevel DEF Fits, IInv
<1> QED
    BY <1>2, <1>3

\* A step that performs something is permitted.
LEMMA PerformStep ==
    ASSUME IInv, SignedByOsf, [Next]_vars, NEW r \in Requests,
           IsAt(r, "identified"), request'[r].phase = "performed"
    PROVE  Permitted(request[r])
<1> DEFINE q == request[r]
<1>0. q.phase = "identified"
    BY DEF IsAt
<1>1. ~Decide(r, FALSE)
    BY DecideFields
<1>2. OfOsf(q) = q.message
    BY <1>0 DEF SignedByOsf, OfOsf
<1>3. CASE CheckUser(r)
    BY <1>1, <1>3, AllowedPermitted DEF CheckUser
<1>4. CASE AskOsf(r)
    <2>1. PICK u \in Answered(r) : Decide(r, Held(u, role, public) >= Required(q.goal))
        BY <1>4 DEF AskOsf
    <2> DEFINE enough == Held(u, role, public) >= Required(q.goal)
    <2>2. enough
        <3> HIDE DEF enough
        <3>1. Decide(r, enough)
            BY <2>1 DEF enough
        <3> QED
            BY <3>1, DecideFields
    <2>3. MustAsk(r) /\ ~IsSigned(r) /\ q.message = {}
        BY <1>4 DEF AskOsf, IsSigned
    <2>4. q.peak >= Required(q.goal)
        BY <1>0, <2>2, <2>3, AnsweredPeak, RequiredLevel, RequestFields DEF Levels
    <2> QED
        BY <2>3, <2>4, AskedPermitted DEF HeldOnce
<1>5. CASE ReadSignedPermissions(r)
    <2>1. IsSigned(r) /\ MustAsk(r) /\ q.message # {}
        BY <1>5 DEF ReadSignedPermissions, IsSigned
    <2>2. Decide(r, Grants(Message(r), Required(q.goal)))
        BY <1>1, <1>5 DEF ReadSignedPermissions
    <2>3. Grants(Message(r), Required(q.goal))
        BY <2>2, DecideFields
    <2>4. Message(r) \in q.message
        BY <2>1 DEF Message
    <2>5. Message(r).level \in Levels
        BY <2>4, RequestFields DEF IInv
    <2>6. Message(r).resource = "resource" /\ Message(r).level >= Required(q.goal)
        BY <2>3, <2>5 DEF Grants, Permissions, Levels
    <2> QED
        BY <1>2, <2>1, <2>4, <2>6, AskedPermitted DEF HeldOnce
<1>6. CASE CheckSigned(r)
    <2>1. q.message # {} /\ q.goal = "waterbutler"
        BY <1>1, <1>6 DEF CheckSigned, IsSigned
    <2> QED
        BY <1>2, <2>1 DEF Permitted
<1> QED
    BY <1>3, <1>4, <1>5, <1>6, LeavesIdentified

\* Whoever performs something was named by a session or token that had not
\* ended, or by a request signed with OSF's key, a session first; and is the
\* owner, or a role that it takes was held by someone whom the request names
\* (get_user_uri.py:6, permissions.py, hmac.py:85).
THEOREM PermissionIsNeeded == Spec => PerformedWithPermission
<1>1. IInv /\ SignedByOsf /\ [Next]_vars =>
        [\A r \in Requests :
            IsAt(r, "identified") /\ request'[r].phase = "performed" =>
                Permitted(request[r])]_vars
    BY PerformStep
<1>2. Spec => [][\A r \in Requests :
            IsAt(r, "identified") /\ request'[r].phase = "performed" =>
                Permitted(request[r])]_vars
    BY <1>1, Invariance, SignedByOsfInvariance, PTL DEF Spec
<1> QED
    BY <1>2 DEF PerformedWithPermission, Permitted, Is, HeldOnce, OfOsf

=============================================================================
