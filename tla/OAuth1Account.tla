---------------------------- MODULE OAuth1Account ----------------------------
(***************************************************************************)
(* OAuth1 authorization: a request starts a flow for an account, and keeps *)
(* the temporary token with the account and the account in the session of  *)
(* the browser; the service sends the browser back, and the callback gets  *)
(* an access token for the account that the session names.                 *)
(*                                                                         *)
(* A request is one database transaction (ATOMIC_REQUESTS).  It reads the  *)
(* session and the rows first, and at its end writes whole rows; after     *)
(* that the session is saved, whole, unless the request failed.            *)
(***************************************************************************)
EXTENDS Naturals, FiniteSets

CONSTANTS
    Accounts,       \* primary keys of accounts
    Browsers,       \* sessions, which OSF shares with gravyvalet
    Requests,       \* requests that may be in progress at once
    Tokens,         \* temporary tokens that the service may issue
    Rows,           \* primary keys of ExternalCredentials
    None,           \* no row, no account, not there yet
    Gone            \* deleted

AccountRow == [credentials: Rows \cup {None}, temporary: Rows \cup {None}]

\* what a row of credentials holds: the temporary token t, or the access
\* token that was given for it
Content == [kind: {"temporary", "access"}, token: Tokens]

ASSUME OAuth1Assumption ==
    /\ None \notin Accounts \cup Rows \cup Tokens \cup AccountRow \cup Content
    /\ Gone \notin AccountRow \cup Content
    /\ Gone # None

VARIABLES
    account,    \* committed accounts
    row,        \* committed rows of credentials
    addons,     \* accounts with a configured addon
    session,    \* the pending account of each session (oauth1a_account_id)
    issued,     \* the account that each temporary token was issued for
    used,       \* service: temporary tokens that were exchanged
    request     \* requests in progress

vars == <<account, row, addons, session, issued, used, request>>

Idle == [phase |-> "idle", browser |-> None, account |-> None, row |-> None,
         token |-> None, session |-> None]

IsIdle(r) == request[r].phase = "idle"
Exists(a) == account[a] \notin {None, Gone}
Holds(c) == row[c] \notin {None, Gone}

FreshRows == {c \in Rows : row[c] = None}
FreshTokens == {t \in Tokens : issued[t] = None}

\* A request that fails: nothing is written, the session neither.
End(r) == request' = [request EXCEPT ![r] = Idle]

\* The response: the transaction has ended, the session is saved next.
Respond(r, pending) ==
    request' = [request EXCEPT ![r] = [@ EXCEPT !.phase = "respond", !.session = pending]]

-----------------------------------------------------------------------------
\* POST with initiate_oauth: a new account, a temporary token and a row for it
CreateAccount(r, b, a) ==
    /\ IsIdle(r)
    /\ account[a] = None
    /\ \E t \in FreshTokens, c \in FreshRows :
        /\ issued' = [issued EXCEPT ![t] = a]
        /\ row' = [row EXCEPT ![c] = [kind |-> "temporary", token |-> t]]
        /\ account' = [account EXCEPT ![a] = [credentials |-> None, temporary |-> c]]
    /\ request' = [request EXCEPT ![r] =
            [Idle EXCEPT !.phase = "respond", !.browser = b, !.account = a, !.session = a]]
    /\ UNCHANGED <<addons, session, used>>

LoadForPatch(r, b, a) ==
    /\ IsIdle(r)
    /\ Exists(a)
    /\ request' = [request EXCEPT ![r] =
            [Idle EXCEPT !.phase = "patch", !.browser = b, !.account = a,
                         !.row = account[a], !.session = session[b]]]
    /\ UNCHANGED <<account, row, addons, session, issued, used>>

\* (mutant: the rows that an instance refers to are not looked for)
HasReferentsUnchecked(instance) == TRUE

\* full_clean, and the foreign keys of the database
HasReferents(instance) ==
    \A c \in {instance.credentials, instance.temporary} \ {None} : Holds(c)

\* Model.save writes every column, and inserts the row if it is not there.
Save(a, instance) == account' = [account EXCEPT ![a] = instance]

\* PATCH of other fields
PatchAccount(r) ==
    /\ request[r].phase = "patch"
    /\ IF HasReferents(request[r].row) THEN Save(request[r].account, request[r].row) ELSE UNCHANGED account
    /\ End(r)
    /\ UNCHANGED <<row, addons, session, issued, used>>

\* (mutant: the old temporary token is deleted first, and what refers to it)
PatchWithOAuthDeleting(r) ==
    /\ request[r].phase = "patch"
    /\ HasReferents(request[r].row)
    /\ \E t \in FreshTokens, c \in FreshRows :
        /\ issued' = [issued EXCEPT ![t] = request[r].account]
        /\ row' = [x \in Rows |-> IF x = c THEN [kind |-> "temporary", token |-> t]
                                  ELSE IF x = request[r].row.temporary THEN Gone ELSE row[x]]
        /\ Save(request[r].account, [request[r].row EXCEPT !.temporary = c])
    /\ addons' = IF request[r].row.temporary = None THEN addons ELSE addons \ {request[r].account}
    /\ Respond(r, request[r].account)
    /\ UNCHANGED <<session, used>>

\* PATCH with initiate_oauth: the row of the last temporary token is reused.
\* Two flows of one browser: the session names the later one.
PatchWithOAuth(r) ==
    LET q == request[r]
    IN /\ q.phase = "patch"
       /\ HasReferents(q.row)
       /\ \E t \in FreshTokens, c \in IF q.row.temporary = None THEN FreshRows ELSE {q.row.temporary} :
            /\ issued' = [issued EXCEPT ![t] = q.account]
            /\ row' = [row EXCEPT ![c] = [kind |-> "temporary", token |-> t]]
            /\ Save(q.account, [q.row EXCEPT !.temporary = c])
       /\ Respond(r, q.account)
       /\ UNCHANGED <<addons, session, used>>

-----------------------------------------------------------------------------
\* The callback: the session names the account; its temporary token is the
\* secret that the request for the access token is signed with.
LoadForCallback(r, b) ==
    LET a == session[b]
    IN /\ IsIdle(r)
       /\ a # None
       /\ Exists(a)
       /\ account[a].temporary # None
       /\ request' = [request EXCEPT ![r] =
                [phase |-> "callback", browser |-> b, account |-> a, row |-> account[a],
                 token |-> row[account[a].temporary].token, session |-> None]]
       /\ UNCHANGED <<account, row, addons, session, issued, used>>

\* The browser may come from any flow that was started.  The service checks
\* the signature, and takes a token once.
GetAccessToken(r, t) ==
    /\ request[r].phase = "callback"
    /\ issued[t] # None
    /\ IF t = request[r].token /\ t \notin used
       THEN /\ used' = used \cup {t}
            /\ request' = [request EXCEPT ![r] = [@ EXCEPT !.phase = "exchanged"]]
       ELSE End(r) /\ UNCHANGED used
    /\ UNCHANGED <<account, row, addons, session, issued>>

\* the row that the access token is written to
CredentialsRows(instance) ==
    IF instance.credentials = None THEN FreshRows ELSE {instance.credentials}

\* accounts that are deleted with a row of credentials
Cascade(c) == {a \in Accounts : Exists(a) /\ c \in {account[a].credentials, account[a].temporary}}

\* (mutant: the temporary token is kept)
FinishCallbackKeepingToken(r) ==
    LET q == request[r]
    IN /\ q.phase = "exchanged"
       /\ HasReferents(q.row)
       /\ \E c \in CredentialsRows(q.row) :
            /\ row' = [row EXCEPT ![c] = [kind |-> "access", token |-> q.token]]
            /\ Save(q.account, [q.row EXCEPT !.credentials = c])
       /\ Respond(r, None)
       /\ UNCHANGED <<addons, session, issued, used>>

\* (mutant: the account is looked for in the session again)
FinishCallbackOfSession(r) ==
    LET q == request[r]
    IN /\ q.phase = "exchanged"
       /\ session[q.browser] # None
       /\ \E c \in CredentialsRows(q.row) :
            /\ row' = [row EXCEPT ![q.row.temporary] = Gone,
                                  ![c] = [kind |-> "access", token |-> q.token]]
            /\ account' = [a \in Accounts |->
                            IF a = session[q.browser] THEN [credentials |-> c, temporary |-> None]
                            ELSE IF a \in Cascade(q.row.temporary) THEN Gone ELSE account[a]]
       /\ addons' = addons \ Cascade(q.row.temporary)
       /\ Respond(r, None)
       /\ UNCHANGED <<session, issued, used>>

\* The setter of credentials deletes the row of the temporary token.  The
\* account that refers to it is deleted with it, and so are its configured
\* addons; then the account is saved, that is, inserted again.
FinishCallback(r) ==
    LET q == request[r]
        deleted == Cascade(q.row.temporary)
    IN /\ q.phase = "exchanged"
       /\ \E c \in CredentialsRows(q.row) :
            /\ row' = [row EXCEPT ![q.row.temporary] = Gone,
                                  ![c] = [kind |-> "access", token |-> q.token]]
            /\ account' = [a \in Accounts |->
                            IF a = q.account THEN [credentials |-> c, temporary |-> None]
                            ELSE IF a \in deleted THEN Gone ELSE account[a]]
       /\ addons' = addons \ deleted
       /\ Respond(r, None)
       /\ UNCHANGED <<session, issued, used>>

\* the service does not answer, or the post_auth_hook fails
Fail(r) ==
    /\ request[r].phase \in {"patch", "callback", "exchanged"}
    /\ End(r)
    /\ UNCHANGED <<account, row, addons, session, issued, used>>

\* The session middleware saves what the request has read and changed, but no
\* session that is empty: one that held the pending account only, and nothing of
\* OSF's, keeps it after the callback.
SaveSession(r) ==
    /\ request[r].phase = "respond"
    /\ \/ session' = [session EXCEPT ![request[r].browser] = request[r].session]
       \/ request[r].session = None /\ UNCHANGED session
    /\ End(r)
    /\ UNCHANGED <<account, row, addons, issued, used>>

-----------------------------------------------------------------------------
DeleteAccount(a) ==
    /\ Exists(a)
    /\ account' = [account EXCEPT ![a] = Gone]
    /\ addons' = addons \ {a}
    /\ UNCHANGED <<row, session, issued, used, request>>

ConnectAddon(a) ==
    /\ Exists(a)
    /\ a \notin addons
    /\ addons' = addons \cup {a}
    /\ UNCHANGED <<account, row, session, issued, used, request>>

Init ==
    /\ account = [a \in Accounts |-> None]
    /\ row = [c \in Rows |-> None]
    /\ addons = {}
    /\ session = [b \in Browsers |-> None]
    /\ issued = [t \in Tokens |-> None]
    /\ used = {}
    /\ request = [r \in Requests |-> Idle]

Next ==
    \/ \E r \in Requests :
        \/ \E b \in Browsers, a \in Accounts : CreateAccount(r, b, a) \/ LoadForPatch(r, b, a)
        \/ PatchAccount(r) \/ PatchWithOAuth(r)
        \/ \E b \in Browsers : LoadForCallback(r, b)
        \/ \E t \in Tokens : GetAccessToken(r, t)
        \/ FinishCallback(r)
        \/ Fail(r)
        \/ SaveSession(r)
    \/ \E a \in Accounts : DeleteAccount(a) \/ ConnectAddon(a)

Spec == Init /\ [][Next]_vars

-----------------------------------------------------------------------------
\* Rows hold what their columns may hold, and an account refers to rows that
\* are there and hold credentials of the kind its column says.
TypeOK ==
    /\ \A a \in Accounts : Exists(a) =>
        /\ account[a] \in AccountRow
        /\ account[a].credentials # None =>
            Holds(account[a].credentials) /\ row[account[a].credentials].kind = "access"
        /\ account[a].temporary # None =>
            Holds(account[a].temporary) /\ row[account[a].temporary].kind = "temporary"
    /\ \A c \in Rows : Holds(c) => row[c] \in Content
    /\ addons \subseteq {a \in Accounts : Exists(a)}
    /\ session \in [Browsers -> Accounts \cup {None}]
    /\ issued \in [Tokens -> Accounts \cup {None}]
    /\ used \subseteq {t \in Tokens : issued[t] # None}

\* Whatever flows are started in a browser, and whichever of them it comes
\* back from, the access token of an account was given for a flow of this
\* account (oauth1_callback_view takes the account from the session).
TokensOfAccount ==
    \A a \in Accounts :
        Exists(a) /\ account[a].credentials # None =>
            issued[row[account[a].credentials].token] = a

\* auth_url: "Returns None ... if the initial credentials exchange has already
\* occurred".  An account never offers a token again that it got its access
\* token for, even if a request wrote the account as it was before.
AuthUrlUnused ==
    \A a \in Accounts :
        Exists(a) /\ account[a].temporary # None /\ account[a].credentials # None =>
            row[account[a].temporary].token # row[account[a].credentials].token

\* The callback deletes the account, but only on the way: no request but DELETE
\* removes an account.  Starting a flow again or changing the account keeps its
\* configured addons as well; finishing the flow does not.
AddonsKeptUntilCallback ==
    [][\A a \in Accounts :
        /\ Exists(a) /\ account'[a] \in {None, Gone} => DeleteAccount(a)
        /\ a \in addons \ addons' =>
            \/ DeleteAccount(a)
            \/ \E r \in Requests : request[r].account = a /\ FinishCallback(r)]_vars
=============================================================================
