------------------------ MODULE RequestAuthorization ------------------------
(***************************************************************************)
(* Who may do what: a request names its user by the session it shares with *)
(* OSF, by a personal access token, or by headers that OSF signed, and may *)
(* bring a session along with either of the others; then the permission of *)
(* the view is checked, with OSF or in those headers.  Roles change,       *)
(* sessions and tokens end, signed requests age and may be delivered late  *)
(* or twice, all between any two steps.                                    *)
(***************************************************************************)
EXTENDS Integers, FiniteSets, SequencesExt

CONSTANTS
    Users,          \* users of OSF
    Owner,          \* the user whose account, and addon, the requests are about
    Invoker,        \* the user who performed the invocation that is looked at
    NoUser,         \* nobody
    Requests,       \* requests that may be in progress at once
    NoRequest,      \* in the cache: a request that has ended
    Signings,       \* what may be signed: the path, query and content, the resource,
                    \* what the signer's clock is ahead of ours, and with which key
    Window,         \* OSF_HMAC_EXPIRATION_SECONDS
    CacheSize,      \* maxsize of lru_cache
    MaxTime,        \* bound: time
    MaxMessages,    \* bound: signed requests
    MaxChanges      \* bound: changes at OSF

ASSUME RequestAuthorizationAssumption ==
    /\ {Owner, Invoker} \subseteq Users
    /\ NoUser \notin Users
    /\ NoRequest \notin Requests
    /\ {Window, CacheSize, MaxTime, MaxMessages, MaxChanges} \subseteq Nat
    /\ CacheSize > 0

ASSUME SigningsAssumption ==
    Signings \subseteq [path: {"plain", "quoted"}, query: {"", "query"}, ahead: Int,
                       content: {"", "content"}, resource: {"resource", "other"},
                       key: {"OSF_HMAC_KEY", "another"}]

\* roles of a user at a resource, by rank; OSF lists a role with those below
Levels == 0..3
READ == 1
WRITE == 2
ADMIN == 3
Permissions(level) == 1..level

Goals == {"account", "view", "edit", "connect", "log", "access", "update", "waterbutler"}

\* what names a user at OSF; a cookie that another secret signed names nobody
Credentials == Users \X {"session", "token"}
Cookies == {"none", "session", "unsignable"}

VARIABLES
    now,        \* the clock of gravyvalet
    role,       \* OSF: the role of each user at the resource of the addon
    public,     \* OSF: whether the resource is public
    live,       \* OSF: sessions and tokens that have not ended
    changes,    \* OSF: the number of changes so far
    sent,       \* requests that were signed, by OSF or with another key
    request,    \* requests in progress
    cache,      \* lru_cache of get_signed_headers, least recently used first
    references  \* UserReference rows

vars == <<now, role, public, live, changes, sent, request, cache, references>>

\* A request brings credentials, a cookie of some kind, and what it signed, if
\* anything.  History: the credentials that were live when it arrived, and the
\* highest role that a user whom they name held since.
Idle == [phase |-> "idle", goal |-> "account", brought |-> {}, cookie |-> "none",
         message |-> {}, user |-> NoUser, arrivedLive |-> {}, peak |-> 0]

IsSigned(r) == request[r].message # {}
Message(r) == CHOOSE m \in request[r].message : TRUE
IsAt(r, phase) == request[r].phase = phase
Goto(r, phase) == request' = [request EXCEPT ![r].phase = phase]

-----------------------------------------------------------------------------
\* Signing.  Segments that are empty are not signed, and not looked for.
Signed(segment) == IF segment = "" THEN <<>> ELSE <<segment>>

ContentHash(m) == IF m.content = "" THEN "" ELSE "hash"
AdditionalHeaders(m) ==
    Signed(IF m.user = NoUser THEN "" ELSE "user")
        \o Signed(m.resource) \o Signed(IF m.level = 0 THEN "" ELSE "permissions")

\* _get_signed_components, from the parsed url
StringToSign(m) ==
    Signed("method") \o Signed(m.path) \o Signed(m.query)
        \o Signed("timestamp") \o Signed(ContentHash(m)) \o AdditionalHeaders(m)

SignedHeaders(m) ==
    Signed("timestamp")
        \o (IF ContentHash(m) = "" THEN <<>> ELSE Signed(ContentHash(m)))
        \o AdditionalHeaders(m)

\* external: django decodes the path of a request
RequestPath(path) == IF path = "quoted" THEN "unquoted" ELSE path

\* (mutant: the query is put at the end)
ReconstructQueryLast(m) ==
    Signed("method") \o Signed(RequestPath(m.path)) \o SignedHeaders(m) \o Signed(m.query)

\* _reconstruct_string_to_sign_from_request
Reconstruct(m) ==
    Signed("method") \o Signed(RequestPath(m.path))
        \o (IF m.query = "" THEN <<>> ELSE Signed(m.query)) \o SignedHeaders(m)

\* _validate_timestamp
ValidTimestamp(m) == m.stamp \in (now - Window)..now

\* (mutant: nothing is kept)
RememberNothing(key) == cache' = cache

\* lru_cache: a result that was used again, or a new one, is the last to go.
MadeRoom == IF Len(cache) < CacheSize THEN cache ELSE Tail(cache)

Remember(key) ==
    cache' = Append(IF key \in ToSet(cache)
                      THEN RemoveAt(cache, CHOOSE i \in DOMAIN cache : cache[i] = key)
                      ELSE MadeRoom,
                    key)

\* (mutant: requests with the same headers are the same)
KeyOfHeaders(r, form) == <<Message(r), form>>

\* a request object is equal to itself only
Key(r, form) == <<r, form>>

\* the key of a request that has ended, which nothing will look up again
Forgotten == <<NoRequest, "positional">>

\* (mutant: the signature is not compared)
SameSignatureUnchecked(m) == TRUE

\* compare_digest
SameSignature(m) == m.key = "OSF_HMAC_KEY" /\ Reconstruct(m) = StringToSign(m)

\* What get_signed_headers does with a signed request: the key is the request
\* and the form of the call; errors are not kept.
Verifies(r, form) ==
    LET m == Message(r)
    IN \/ Key(r, form) \in ToSet(cache)
       \/ SameSignature(m) /\ ValidTimestamp(m)

-----------------------------------------------------------------------------
\* OSF and the clock

\* (bound: no request is signed yet.  The clock is read only for signed requests;
\* roles and tokens only for the other requests, and by Sign.  The two share
\* nothing but sessions and the rows of user references, and do not overlap.)
Unsigned == sent = {}

Tick ==
    /\ now < MaxTime
    /\ ~Unsigned
    /\ now' = now + 1
    /\ UNCHANGED <<role, public, live, changes, sent, request, cache, references>>

\* what may be read by anyone is held by anyone
Held(u, newRole, newPublic) ==
    LET explicit == IF u = NoUser THEN 0 ELSE newRole[u]
    IN IF newPublic /\ explicit = 0 THEN READ ELSE explicit

\* the highest of these, at least
Highest(least, creds, newRole, newPublic) ==
    CHOOSE level \in Levels :
        LET levels == {least, Held(NoUser, newRole, newPublic)}
                        \cup {Held(c[1], newRole, newPublic) : c \in creds}
        IN level \in levels /\ \A l \in levels : l <= level

\* history
Observe(newRole, newPublic) ==
    request' = [r \in Requests |->
        IF IsAt(r, "idle") THEN request[r]
        ELSE [request[r] EXCEPT !.peak =
                 Highest(@, request[r].arrivedLive, newRole, newPublic)]]

ChangeRole(u, level) ==
    /\ changes < MaxChanges
    /\ Unsigned
    /\ level # role[u]
    /\ changes' = changes + 1
    /\ role' = [role EXCEPT ![u] = level]
    /\ Observe(role', public)
    /\ UNCHANGED <<now, public, live, sent, cache, references>>

ChangePublic ==
    /\ changes < MaxChanges
    /\ Unsigned
    /\ changes' = changes + 1
    /\ public' = ~public
    /\ Observe(role, public')
    /\ UNCHANGED <<now, role, live, sent, cache, references>>

\* the user logs out, or revokes the token
EndLive(c) ==
    /\ changes < MaxChanges
    /\ Unsigned \/ c[2] = "session"
    /\ c \in live
    /\ changes' = changes + 1
    /\ live' = live \ {c}
    /\ UNCHANGED <<now, role, public, sent, request, cache, references>>

\* OSF signs a request for a user about this resource or about another one,
\* where the user is an admin, with the permissions of the user there, and the
\* time of its own clock.  What is signed with another key may say anything.
\* (bound: the first is signed before anyone was identified or a session ended.)
Sign(u, goal, signing) ==
    /\ Cardinality(sent) < MaxMessages
    /\ \A r \in Requests : IsAt(r, "idle") \/ IsSigned(r)
    /\ Unsigned => references = {} /\ live = Credentials
    /\ sent' = sent \cup {[user |-> u, goal |-> goal, resource |-> signing.resource,
            level |-> IF signing.resource = "resource" /\ signing.key = "OSF_HMAC_KEY"
                        THEN Held(u, role, public) ELSE ADMIN,
            path |-> signing.path, query |-> signing.query, content |-> signing.content,
            key |-> signing.key, at |-> now, stamp |-> now + signing.ahead]}
    /\ UNCHANGED <<now, role, public, live, changes, request, cache, references>>

-----------------------------------------------------------------------------
\* A request arrives; what was signed may arrive late, more than once or never.
\* The Authorization header has a token or a signature; a cookie may come with
\* either, and be that of another user.
Brought(session, token) ==
    ((Users \cap {session}) \X {"session"}) \cup ((Users \cap {token}) \X {"token"})

\* (of a signed request, no role is looked at)
Arrived(goal, brought, cookie, message) ==
    [phase |-> "arrived", goal |-> goal, brought |-> brought, cookie |-> cookie,
     message |-> message, user |-> NoUser, arrivedLive |-> brought \cap live,
     peak |-> IF message = {} THEN Highest(0, brought \cap live, role, public) ELSE 0]

Arrive(r, goal, session, token, cookie, message) ==
    /\ IsAt(r, "idle")
    /\ (cookie = "session") <=> (session # NoUser)
    /\ message = {} => Unsigned
    /\ message # {} => token = NoUser
    /\ request' = [request EXCEPT ![r] =
            Arrived(goal, Brought(session, token), cookie, message)]
    /\ UNCHANGED <<now, role, public, live, changes, sent, cache, references>>

\* The signature of a request that another thread handles is accepted.
OtherRequest ==
    /\ ~Unsigned
    /\ cache' = Append(MadeRoom, Forgotten)
    /\ UNCHANGED <<now, role, public, live, changes, sent, request, references>>

\* IsAuthenticated is one of the permissions of the view.
NeedsUser(goal) == goal \in {"account", "edit", "connect", "log"}

\* Views that only look at the permission, or at the signature.
LooksAtUser(goal) == goal \notin {"view", "waterbutler"}

\* The user that a live credential of this kind names.
Named(r, kind) ==
    LET named == {u \in Users : <<u, kind>> \in request[r].brought \cap live}
    IN IF named = {} THEN NoUser ELSE CHOOSE u \in named : TRUE

\* get_user_uri: a session comes before whom the request was found to come from.
\* (It is loaded once, when it is first looked at; of a signed request this may be
\* later: what ends in between counts as ended before.)
GetUserUri(r, found) == IF Named(r, "session") # NoUser THEN Named(r, "session") ELSE found

\* (mutant: the user is not written down)
IdentifiedOnly(r, found) ==
    /\ request' = [request EXCEPT ![r].user = GetUserUri(r, found), ![r].phase = "identified"]
    /\ UNCHANGED references

\* GVCombinedAuthentication and has_permission: the user is known from here on.
Identified(r, found) ==
    LET user == GetUserUri(r, found)
    IN  /\ request' = [request EXCEPT ![r].user = user,
                ![r].phase = IF /\ user = NoUser /\ NeedsUser(request[r].goal)
                                /\ request[r].cookie # "unsignable"
                               THEN "denied" ELSE "identified"]
        /\ references' = references \cup ({found} \ {NoUser})

AuthenticateSigned(r) ==
    /\ IsAt(r, "arrived")
    /\ IsSigned(r)
    /\ IF Verifies(r, "positional")
         THEN /\ Identified(r, Message(r).user)
              /\ Remember(Key(r, "positional"))
         ELSE /\ Goto(r, "rejected")
              /\ UNCHANGED <<cache, references>>
    /\ UNCHANGED <<now, role, public, live, changes, sent>>

\* The session is loaded; without a user in it, OSF is asked whose token it is.
Authenticate(r) ==
    /\ IsAt(r, "arrived")
    /\ ~IsSigned(r)
    /\ request[r].cookie # "unsignable"
    /\ Identified(r, GetUserUri(r, Named(r, "token")))
    /\ UNCHANGED <<now, role, public, live, changes, sent, cache>>

\* A cookie that another secret signed: the session is a class, not a session, and
\* get_user_uri fails; of a signed request, not before a permission looks at the user.
GetUserUriFails(r) ==
    /\ request[r].cookie = "unsignable"
    /\ \/ IsAt(r, "arrived") /\ ~IsSigned(r)
       \/ IsAt(r, "identified") /\ LooksAtUser(request[r].goal)
    /\ Goto(r, "error")
    /\ UNCHANGED <<now, role, public, live, changes, sent, cache, references>>

UserIsKnown(r) ==
    /\ IsAt(r, "identified")
    /\ request[r].cookie = "unsignable" => ~LooksAtUser(request[r].goal)

\* OSFPermission.for_capabilities
ForCapabilities(goal) == IF goal = "update" THEN WRITE ELSE READ

\* The permission classes: users who need not be looked up, users who are
\* denied at once, and the permission that the others need.
Allowed(goal, user) ==
    CASE goal \in {"account", "edit", "access", "update"} -> user = Owner
      [] goal = "log" -> user \in {Owner, Invoker}
      [] OTHER -> FALSE

Denied(goal, user) == goal \in {"account", "connect"} /\ user # Owner

Required(goal) ==
    CASE goal = "edit" -> ADMIN
      [] goal = "connect" -> WRITE
      [] goal \in {"access", "update"} -> ForCapabilities(goal)
      [] OTHER -> READ

MustAsk(r) ==
    /\ UserIsKnown(r)
    /\ request[r].goal # "waterbutler"
    /\ ~Allowed(request[r].goal, request[r].user)
    /\ ~Denied(request[r].goal, request[r].user)

Decide(r, granted) == Goto(r, IF granted THEN "performed" ELSE "denied")

CheckUser(r) ==
    /\ UserIsKnown(r)
    /\ \/ Allowed(request[r].goal, request[r].user) /\ Decide(r, TRUE)
       \/ Denied(request[r].goal, request[r].user) /\ Decide(r, FALSE)
    /\ UNCHANGED <<now, role, public, live, changes, sent, cache, references>>

\* external: whom OSF answers when it gets a cookie and a token: one of those whom
\* they name, or nobody when one of them has ended or there is none
Answered(r) ==
    {c[1] : c \in request[r].brought \cap live}
        \cup (IF request[r].brought # {} /\ request[r].brought \subseteq live
                THEN {} ELSE {NoUser})

\* has_osf_permission_on_resource: OSF is asked with all that the request brought.
AskOsf(r) ==
    /\ MustAsk(r)
    /\ ~IsSigned(r)
    /\ \E u \in Answered(r) :
          Decide(r, Held(u, role, public) >= Required(request[r].goal))
    /\ UNCHANGED <<now, role, public, live, changes, sent, cache, references>>

\* _has_hmac_verified_osf_permission
Grants(m, required) == m.resource = "resource" /\ required \in Permissions(m.level)

ReadSignedPermissions(r) ==
    /\ MustAsk(r)
    /\ IsSigned(r)
    /\ IF Verifies(r, "positional")
         THEN /\ Decide(r, Grants(Message(r), Required(request[r].goal)))
              /\ Remember(Key(r, "positional"))
         ELSE /\ Decide(r, FALSE)
              /\ UNCHANGED cache
    /\ UNCHANGED <<now, role, public, live, changes, sent, references>>

\* IsValidHMACSignedRequest, which calls in another form
CheckSigned(r) ==
    /\ IsAt(r, "identified")
    /\ request[r].goal = "waterbutler"
    /\ IF IsSigned(r) /\ Verifies(r, "keywords")
         THEN /\ Decide(r, TRUE)
              /\ Remember(Key(r, "keywords"))
         ELSE /\ Decide(r, FALSE)
              /\ UNCHANGED cache
    /\ UNCHANGED <<now, role, public, live, changes, sent, references>>

\* The response.  The cache keeps the request as long as its results.
End(r) ==
    /\ request[r].phase \in {"performed", "denied", "rejected", "error"}
    /\ request' = [request EXCEPT ![r] = Idle]
    /\ cache' = [i \in DOMAIN cache |->
            IF cache[i][1] = r THEN Forgotten ELSE cache[i]]
    /\ UNCHANGED <<now, role, public, live, changes, sent, references>>

-----------------------------------------------------------------------------
Init ==
    /\ now = 0
    /\ role = [u \in Users |-> 0]
    /\ public = FALSE
    /\ live = Credentials
    /\ changes = 0
    /\ sent = {}
    /\ request = [r \in Requests |-> Idle]
    /\ cache = <<>>
    /\ references = {}

Osf ==
    \/ Tick
    \/ \E u \in Users :
        \E level \in Levels : ChangeRole(u, level)
    \/ ChangePublic
    \/ \E c \in live : EndLive(c)
    \/ \E u \in Users \cup {NoUser}, goal \in Goals, signing \in Signings :
        Sign(u, goal, signing)

Gravyvalet == OtherRequest \/
    \E r \in Requests :
        \/ \E session, token \in Users \cup {NoUser}, cookie \in Cookies :
            \/ \E m \in sent : Arrive(r, m.goal, session, token, cookie, {m})
            \/ \E goal \in Goals : Arrive(r, goal, session, token, cookie, {})
        \/ AuthenticateSigned(r) \/ Authenticate(r) \/ GetUserUriFails(r)
        \/ CheckUser(r) \/ AskOsf(r) \/ ReadSignedPermissions(r) \/ CheckSigned(r)
        \/ End(r)

Next == Osf \/ Gravyvalet

Spec == Init /\ [][Next]_vars

-----------------------------------------------------------------------------
SignedRequest == [user: Users \cup {NoUser}, goal: Goals, resource: {"resource", "other"},
             level: Levels, path: {"plain", "quoted"}, query: {"", "query"},
             content: {"", "content"}, key: {"OSF_HMAC_KEY", "another"},
             at: 0..MaxTime, stamp: Int]

\* The types of the variables; besides, whoever a request was found to come
\* from has a user reference (authentication.py:14), unless the request is signed
\* and the user is known from a session that came with it; and the cache never
\* holds more than it may, nor one key twice.
TypeOK ==
    /\ now \in 0..MaxTime
    /\ role \in [Users -> Levels]
    /\ public \in BOOLEAN
    /\ live \subseteq Credentials
    /\ changes \in 0..MaxChanges
    /\ sent \subseteq SignedRequest
    /\ \A r \in Requests :
        /\ request[r].goal \in Goals
        /\ request[r].brought \subseteq Credentials
        /\ request[r].cookie \in Cookies
        /\ request[r].peak \in Levels
        /\ request[r].message \subseteq sent
        /\ request[r].arrivedLive \subseteq request[r].brought
        /\ \/ request[r].user \in references \cup {NoUser}
           \/ IsSigned(r) /\ <<request[r].user, "session">> \in request[r].arrivedLive
    /\ Len(cache) <= CacheSize
    /\ \A i, j \in DOMAIN cache : cache[i] = cache[j] /\ i # j => cache[i][1] = NoRequest
    /\ references \subseteq Users

\* Whoever performs something is the user of a session, if one is there that has
\* not ended, else of a token, that had not ended when the request arrived, or of
\* a request that OSF signed; and is the owner, or the request takes a role that
\* was held at some time since it arrived by a user whom it names; a signed
\* request, the role that OSF wrote down.  (get_user_uri.py:6: the session may be
\* that of another user than the token's, or than the one whom OSF signed for.)
PerformedWithPermission ==
    [][\A r \in Requests :
        IsAt(r, "identified") /\ request'[r].phase = "performed" =>
            LET q == request[r]
                OfOsf == {m \in q.message : m.key = "OSF_HMAC_KEY"}
                Is(u) == /\ \/ \E kind \in {"session", "token"} : <<u, kind>> \in q.arrivedLive
                            \/ \E m \in OfOsf : m.user = u
                         /\ \A v \in Users :
                               <<v, "session">> \in q.brought \cap live => u = v
                HeldOnce(level) ==
                    IF q.message = {} THEN q.peak >= level
                    ELSE \E m \in OfOsf : m.resource = "resource" /\ m.level >= level
            IN CASE q.goal = "account" -> Is(Owner)
                 [] q.goal = "view" -> HeldOnce(READ)
                 [] q.goal = "edit" -> Is(Owner) \/ HeldOnce(ADMIN)
                 [] q.goal = "connect" -> Is(Owner) /\ HeldOnce(WRITE)
                 [] q.goal = "log" -> Is(Owner) \/ Is(Invoker) \/ HeldOnce(READ)
                 [] q.goal = "access" -> Is(Owner) \/ HeldOnce(READ)
                 [] q.goal = "update" -> Is(Owner) \/ HeldOnce(WRITE)
                 [] q.goal = "waterbutler" -> OfOsf # {}]_vars

\* What OSF signed is accepted no later than the window after it was signed,
\* give or take what OSF's clock is ahead, and never before its own time, a
\* second copy no less than the first (hmac.py:191).
AcceptedInWindow ==
    [][\A r \in Requests :
        IsAt(r, "arrived") /\ IsAt(r, "arrived")' = FALSE /\ IsSigned(r)
            /\ request'[r].phase # "rejected" =>
                \A m \in request[r].message :
                    m.stamp <= now /\ now - m.at <= Window + (m.stamp - m.at)]_vars

\* OSF's own requests are accepted: what arrives within the window, from a
\* clock that agrees with ours, is not rejected, whatever its query, content
\* and headers.  A path that needs quoting is (hmac.py:137 and :168 differ).
OsfIsAccepted ==
    [][\A r \in Requests :
        IsAt(r, "arrived") /\ request'[r].phase = "rejected" =>
            \A m \in request[r].message :
                m.stamp # m.at \/ now - m.at > Window \/ m.path = "quoted"
                    \/ m.key = "another"]_vars

\* A request whose signature was accepted does not expire while it is being
\* handled: only one that names no sufficient permission is denied, unless the
\* cache was full (hmac.py:63), or the view checks the signature once more.
DoesNotExpireWhenHandled ==
    [][\A r \in Requests :
        MustAsk(r) /\ request'[r].phase = "denied" =>
            \A m \in request[r].message :
                ~Grants(m, Required(request[r].goal)) \/ Len(cache) = CacheSize]_vars

=============================================================================
