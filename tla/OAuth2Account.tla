---------------------------- MODULE OAuth2Account ----------------------------
(***************************************************************************)
(* The life of OAuth2 authorized accounts: the rows of AuthorizedAccount,  *)
(* OAuth2TokenMetadata and ExternalCredentials, and the requests and tasks *)
(* that read and write them concurrently (authorized_account/models.py,    *)
(* oauth2/models.py, oauth2/views.py, oauth2/utils.py).                    *)
(*                                                                         *)
(* Each request or task occupies a slot of `handler` and takes one action  *)
(* per database transaction or network call, so anything may happen to the *)
(* rows between two of them.  Model.save() writes the whole row from the   *)
(* instance read earlier, and inserts the row again when it was deleted    *)
(* meanwhile; both are modelled.  All accounts belong to one external      *)
(* service, whose token endpoint is modelled from what the code relies on. *)
(***************************************************************************)
EXTENDS Naturals, FiniteSets

CONSTANTS
    Accounts,         \* primary keys of authorized accounts
    Metas,            \* primary keys of OAuth2TokenMetadata rows
    Creds,            \* primary keys of ExternalCredentials rows
    Tokens,           \* token responses the external service may issue
    Handlers,         \* slots for the requests and tasks in progress
    None,             \* SQL NULL, or a row that was never written
    Deleted,          \* an account row that was deleted
    Owner,            \* source of a token the account's owner supplied
    AccessTokenOnly,  \* the service's client has quirk ONLY_ACCESS_TOKEN
    Rotating          \* the service replaces the refresh token at each use

AccountRow == [meta: Metas \cup {None}, creds: Creds \cup {None}, ext: BOOLEAN]

MetaRow == [nonce: BOOLEAN, refresh: Tokens \cup {None}]

ASSUME NoneAssumption ==
    /\ None \notin Accounts \cup Metas \cup Creds \cup Tokens
    /\ None \notin AccountRow \cup MetaRow
    /\ Deleted \notin AccountRow \cup {None}
    /\ Owner \notin Metas \cup {None}
ASSUME ServiceAssumption ==
    /\ AccessTokenOnly \in BOOLEAN
    /\ Rotating \in BOOLEAN

VARIABLES
    account,    \* account row: metadata, credentials, external_account_id known?
    metadata,   \* metadata row: nonce unused?, refresh token
    credential, \* credentials row: the access token it holds
    grant,      \* service: the metadata whose authorization a token was issued for
    live,       \* service: the refresh tokens it still honours
    handler     \* requests and tasks in progress, with the values they read

vars == <<account, metadata, credential, grant, live, handler>>

Phases == {"idle",
           "resolved", "loaded", "requesting", "received", "validated",
           "updating", "hooking",                       \* oauth2 tokens
           "patching", "patched", "merging"}            \* other row writers

HandlerState ==
    [phase: Phases, callback: BOOLEAN, meta: Metas \cup {None},
     refresh: Tokens \cup {None}, access: Tokens \cup {None},
     rows: [Accounts -> AccountRow \cup {None}]]

NewRow == [meta |-> None, creds |-> None, ext |-> FALSE]
NoRows == [a \in Accounts |-> None]
Idle == [phase |-> "idle", callback |-> FALSE, meta |-> None,
         refresh |-> None, access |-> None, rows |-> NoRows]

-----------------------------------------------------------------------------
(* What a query sees. *)

Exists(a) == account[a] \in AccountRow
LinkedAccounts(m) == {a \in Accounts : Exists(a) /\ account[a].meta = m}

\* OAuth2TokenMetadata.access_token_only: None when no account is linked
IsAccessTokenOnly(m) == AccessTokenOnly /\ LinkedAccounts(m) # {}

\* AuthorizedAccount.validate_oauth_state, for a row about to be saved
ValidOAuthState(row, hasCredentials) ==
    row.meta # None =>
        /\ hasCredentials # metadata[row.meta].nonce
        /\ hasCredentials => \/ metadata[row.meta].refresh # None
                             \/ IsAccessTokenOnly(row.meta)

\* a handler's values once it has read row r of account a
Reading(h, phase, a) ==
    handler' = [handler EXCEPT ![h] =
        [Idle EXCEPT !.phase = phase, !.rows[a] = account[a]]]

Init ==
    /\ account = [a \in Accounts |-> None]
    /\ metadata = [m \in Metas |-> None]
    /\ credential = [c \in Creds |-> None]
    /\ grant = [t \in Tokens |-> None]
    /\ live = {}
    /\ handler = [h \in Handlers |-> Idle]

-----------------------------------------------------------------------------
(* Requests on accounts. *)

\* POST without initiate_oauth
CreateAccount(a) ==
    /\ account[a] = None
    /\ account' = [account EXCEPT ![a] = NewRow]
    /\ UNCHANGED <<metadata, credential, grant, live, handler>>

\* mutant: the credentials are not reset
InitiateOAuth2FlowKeepingCredentials(a, row) ==
    \E m \in Metas :
        /\ metadata[m] = None
        /\ metadata' = [metadata EXCEPT ![m] =
                [nonce |-> TRUE, refresh |-> None]]
        /\ account' = [account EXCEPT ![a] = [row EXCEPT !.meta = m]]

\* mutant: no nonce is generated
InitiateOAuth2FlowWithoutNonce(a, row) ==
    \E m \in Metas :
        /\ metadata[m] = None
        /\ metadata' = [metadata EXCEPT ![m] =
                [nonce |-> None, refresh |-> None]]
        /\ account' = [account EXCEPT ![a] =
                [row EXCEPT !.meta = m, !.creds = None]]

\* initiate_oauth2_flow: new metadata with a nonce, credentials reset
InitiateOAuth2Flow(a, row) ==
    \E m \in Metas :
        /\ metadata[m] = None
        /\ metadata' = [metadata EXCEPT ![m] =
                [nonce |-> TRUE, refresh |-> None]]
        /\ account' = [account EXCEPT ![a] =
                [row EXCEPT !.meta = m, !.creds = None]]

\* POST with initiate_oauth: one transaction
CreateAccountWithOAuth(a) ==
    /\ account[a] = None
    /\ InitiateOAuth2Flow(a, NewRow)
    /\ UNCHANGED <<credential, grant, live, handler>>

\* PATCH reads the account ...
PatchLoad(h, a) ==
    /\ handler[h].phase = "idle"
    /\ Exists(a)
    /\ Reading(h, "patching", a)
    /\ UNCHANGED <<account, metadata, credential, grant, live>>

\* ... may bring an access token in "credentials" ...
PatchCredentials(h) ==
    /\ handler[h].phase = "patching"
    /\ handler[h].access = None
    /\ \E t \in Tokens :
        /\ grant[t] = None
        /\ grant' = [grant EXCEPT ![t] = Owner]
        /\ handler' = [handler EXCEPT ![h].access = t]
    /\ UNCHANGED <<account, metadata, credential, live>>

\* ... instance.save() validates the row it read against the metadata row ...
PatchValidate(h, a) ==
    /\ handler[h].phase = "patching"
    /\ handler[h].rows[a] # None
    /\ ValidOAuthState(handler[h].rows[a], \/ handler[h].rows[a].creds # None
                                           \/ handler[h].access # None)
    /\ handler' = [handler EXCEPT ![h].phase = "patched"]
    /\ UNCHANGED <<account, metadata, credential, grant, live>>

\* the row as it is to be saved; an access token goes to the credentials row of
\* the row read, or to a new one, and is followed by the post-auth hook
PatchedRow(h, a, row) ==
    LET read == handler[h].rows[a]
        token == handler[h].access
    IN  \/ /\ token = None
           /\ row = read
           /\ UNCHANGED credential
        \/ /\ token # None
           /\ row = [read EXCEPT !.creds = row.creds, !.ext = TRUE]
           /\ row.creds # None
           /\ IF read.creds # None THEN row.creds = read.creds
                                   ELSE credential[row.creds] = None
           /\ credential' = [credential EXCEPT ![row.creds] = token]

\* ... and writes that whole row; the request commits ...
PatchSave(h, a) ==
    /\ handler[h].phase = "patched"
    /\ handler[h].rows[a] # None
    /\ \E row \in AccountRow :
        /\ PatchedRow(h, a, row)
        /\ account' = [account EXCEPT ![a] = row]
    /\ handler' = [handler EXCEPT ![h] = Idle]
    /\ UNCHANGED <<metadata, grant, live>>

\* ... with initiate_oauth, after a second save that starts a new flow
PatchInitiate(h, a) ==
    /\ handler[h].phase = "patched"
    /\ handler[h].rows[a] # None
    /\ \E row \in AccountRow :
        /\ PatchedRow(h, a, row)
        /\ InitiateOAuth2Flow(a, row)
    /\ handler' = [handler EXCEPT ![h] = Idle]
    /\ UNCHANGED <<grant, live>>

\* DELETE: the metadata and credentials rows stay
DeleteAccount(a) ==
    /\ Exists(a)
    /\ account' = [account EXCEPT ![a] = Deleted]
    /\ UNCHANGED <<metadata, credential, grant, live, handler>>

-----------------------------------------------------------------------------
(* The OAuth2 callback and token refresh. *)

\* oauth2_callback_view: _resolve_state_token
ResolveStateToken(h, m) ==
    /\ handler[h].phase = "idle"
    /\ metadata[m] # None
    /\ metadata[m].nonce
    /\ LinkedAccounts(m) # {}      \* else client_details fails
    /\ handler' = [handler EXCEPT ![h] =
            [Idle EXCEPT !.phase = "resolved", !.callback = TRUE,
                         !.meta = m, !.refresh = metadata[m].refresh]]
    /\ UNCHANGED <<account, metadata, credential, grant, live>>

\* get_initial_access_token; the service may leave out the refresh token
GetInitialAccessToken(h) ==
    /\ handler[h].phase = "resolved"
    /\ \E t \in Tokens : \E r \in {t, handler[h].refresh} :
        /\ grant[t] = None
        /\ grant' = [grant EXCEPT ![t] = handler[h].meta]
        /\ live' = live \cup ({r} \ {None})
        /\ handler' = [handler EXCEPT ![h] =
                [@ EXCEPT !.phase = "received", !.access = t, !.refresh = r]]
    /\ UNCHANGED <<account, metadata, credential>>

\* an operation, task or view reads an account whose token it will refresh
RefreshLoad(h, a) ==
    /\ handler[h].phase = "idle"
    /\ Exists(a)
    /\ Reading(h, "loaded", a)
    /\ UNCHANGED <<account, metadata, credential, grant, live>>

\* refresh_oauth2_access_token reads the metadata and finds a refresh due
RefreshLoadMetadata(h, a) ==
    /\ handler[h].phase = "loaded"
    /\ handler[h].rows[a] # None
    /\ LET m == handler[h].rows[a].meta IN
        /\ m # None
        /\ metadata[m].refresh # None
        /\ ~IsAccessTokenOnly(m)
        /\ handler' = [handler EXCEPT ![h] =
                [Idle EXCEPT !.phase = "requesting", !.meta = m,
                             !.refresh = metadata[m].refresh]]
    /\ UNCHANGED <<account, metadata, credential, grant, live>>

\* mutant: the refresh token in the response is ignored
GetRefreshedAccessTokenKeepingOld(h) ==
    /\ handler[h].phase = "requesting"
    /\ handler[h].refresh \in live
    /\ \E t \in Tokens :
        /\ grant[t] = None
        /\ grant' = [grant EXCEPT ![t] = grant[handler[h].refresh]]
        /\ live' = IF Rotating THEN (live \ {handler[h].refresh}) \cup {t}
                               ELSE live
        /\ handler' = [handler EXCEPT ![h].phase = "received",
                                      ![h].access = t]
    /\ UNCHANGED <<account, metadata, credential>>

\* get_refreshed_access_token: keeps the refresh token unless replaced
GetRefreshedAccessToken(h) ==
    /\ handler[h].phase = "requesting"
    /\ handler[h].refresh \in live
    /\ \E t \in Tokens :
        /\ grant[t] = None
        /\ grant' = [grant EXCEPT ![t] = grant[handler[h].refresh]]
        /\ live' = IF Rotating THEN (live \ {handler[h].refresh}) \cup {t}
                               ELSE live
        /\ handler' = [handler EXCEPT ![h].phase = "received",
                                      ![h].access = t,
                                      ![h].refresh = IF Rotating THEN t ELSE @]
    /\ UNCHANGED <<account, metadata, credential>>

\* update_with_fresh_token: full_clean of the metadata ...
ValidateTokenUpdate(h) ==
    /\ handler[h].phase = "received"
    /\ LinkedAccounts(handler[h].meta) # {}
    /\ handler[h].refresh # None \/ IsAccessTokenOnly(handler[h].meta)
    /\ handler' = [handler EXCEPT ![h].phase = "validated"]
    /\ UNCHANGED <<account, metadata, credential, grant, live>>

\* ... its UPDATE holds the row lock till commit; the linked accounts are read
BeginTokenUpdate(h) ==
    /\ handler[h].phase = "validated"
    /\ \A g \in Handlers :
        handler[g].phase = "updating" => handler[g].meta # handler[h].meta
    /\ handler' = [handler EXCEPT
            ![h].phase = "updating",
            ![h].rows = [a \in Accounts |->
                IF a \in LinkedAccounts(handler[h].meta) THEN account[a] ELSE None]]
    /\ UNCHANGED <<account, metadata, credential, grant, live>>

\* credentials setter: rows whose credentials are to be saved in place, or anew
CredsFor(rows, c) ==
    /\ \A a \in Accounts :
        IF rows[a] = None THEN c[a] = None
        ELSE IF rows[a].creds # None THEN c[a] = rows[a].creds
        ELSE c[a] # None /\ credential[c[a]] = None
    /\ \A a, b \in Accounts :
        (a # b /\ c[a] # None /\ c[a] = c[b]) => rows[a].creds = c[a]

\* ... every linked account and its credentials are saved, and all commits
CommitTokenUpdate(h) ==
    /\ handler[h].phase = "updating"
    /\ \E c \in [Accounts -> Creds \cup {None}] :
        LET m == handler[h].meta
            read == handler[h].rows
            rows == [a \in Accounts |->
                IF read[a] = None THEN None
                ELSE [read[a] EXCEPT !.creds = c[a]]]
        IN  /\ CredsFor(read, c)
            /\ metadata' = [metadata EXCEPT ![m] =
                    [nonce |-> FALSE, refresh |-> handler[h].refresh]]
            /\ credential' = [k \in Creds |->
                    IF \E a \in Accounts : c[a] = k THEN handler[h].access
                                                    ELSE credential[k]]
            /\ account' = [a \in Accounts |->
                    IF rows[a] = None THEN account[a] ELSE rows[a]]
            /\ handler' = [handler EXCEPT ![h] =
                    IF handler[h].callback /\ rows # NoRows
                    THEN [Idle EXCEPT !.phase = "hooking", !.rows = rows]
                    ELSE Idle]
    /\ UNCHANGED <<grant, live>>

\* execute_post_auth_hook: a network call finds the external account's id, then
\* the row read before that call is saved with it
PostAuthHook(h, a) ==
    /\ handler[h].phase = "hooking"
    /\ handler[h].rows[a] # None
    /\ account' = [account EXCEPT ![a] = [handler[h].rows[a] EXCEPT !.ext = TRUE]]
    /\ LET rest == [handler[h].rows EXCEPT ![a] = None]
       IN  handler' = [handler EXCEPT ![h] =
                IF rest = NoRows THEN Idle ELSE [handler[h] EXCEPT !.rows = rest]]
    /\ UNCHANGED <<metadata, credential, grant, live>>

\* an early return, an error, a rollback or a crash: nothing more is written
Abandon(h) ==
    /\ handler[h].phase # "idle"
    /\ handler' = [handler EXCEPT ![h] = Idle]
    /\ UNCHANGED <<account, metadata, credential, grant, live>>

-----------------------------------------------------------------------------
(* The merge_migrated_accounts command. *)

\* of the accounts with one external id it picks the most recently refreshed ...
MergeLoad(h, a) ==
    /\ handler[h].phase = "idle"
    /\ Exists(a)
    /\ account[a].ext
    /\ Reading(h, "merging", a)
    /\ UNCHANGED <<account, metadata, credential, grant, live>>

\* mutant: each account keeps its own credentials row
MergeUpdateOfMetadataOnly(h, a, same) ==
    /\ handler[h].phase = "merging"
    /\ handler[h].rows[a] # None
    /\ \A b \in same : Exists(b) /\ account[b].ext
    /\ account' = [b \in Accounts |->
            IF b \in same
            THEN [account[b] EXCEPT !.meta = handler[h].rows[a].meta]
            ELSE account[b]]
    /\ handler' = [handler EXCEPT ![h] = Idle]
    /\ UNCHANGED <<metadata, credential, grant, live>>

\* ... and gives all of them its metadata and credentials
MergeUpdate(h, a, same) ==
    /\ handler[h].phase = "merging"
    /\ handler[h].rows[a] # None
    /\ \A b \in same : Exists(b) /\ account[b].ext
    /\ account' = [b \in Accounts |->
            IF b \in same
            THEN [account[b] EXCEPT !.meta = handler[h].rows[a].meta,
                                    !.creds = handler[h].rows[a].creds]
            ELSE account[b]]
    /\ handler' = [handler EXCEPT ![h] = Idle]
    /\ UNCHANGED <<metadata, credential, grant, live>>

-----------------------------------------------------------------------------

Next ==
    \/ \E a \in Accounts :
        \/ CreateAccount(a)
        \/ CreateAccountWithOAuth(a)
        \/ DeleteAccount(a)
    \/ \E h \in Handlers, a \in Accounts :
        \/ PatchLoad(h, a)
        \/ PatchValidate(h, a)
        \/ PatchSave(h, a)
        \/ PatchInitiate(h, a)
        \/ RefreshLoad(h, a)
        \/ RefreshLoadMetadata(h, a)
        \/ PostAuthHook(h, a)
        \/ MergeLoad(h, a)
        \/ \E same \in SUBSET Accounts : MergeUpdate(h, a, same)
    \/ \E h \in Handlers, m \in Metas : ResolveStateToken(h, m)
    \/ \E h \in Handlers :
        \/ PatchCredentials(h)
        \/ GetInitialAccessToken(h)
        \/ GetRefreshedAccessToken(h)
        \/ ValidateTokenUpdate(h)
        \/ BeginTokenUpdate(h)
        \/ CommitTokenUpdate(h)
        \/ Abandon(h)

Spec == Init /\ [][Next]_vars

-----------------------------------------------------------------------------
(* Properties. *)

\* Type invariant of the rows, of the service's tokens and of the handlers.
TypeOK ==
    /\ account \in [Accounts -> AccountRow \cup {None, Deleted}]
    /\ metadata \in [Metas -> MetaRow \cup {None}]
    /\ credential \in [Creds -> Tokens \cup {None}]
    /\ grant \in [Tokens -> Metas \cup {None, Owner}]
    /\ live \in SUBSET Tokens
    /\ handler \in [Handlers -> HandlerState]

\* Credentials never stand beside metadata whose authorization is still
\* unanswered.  Callbacks, hooks, PATCHes, token updates and merges write whole
\* rows that they read before; such a row brings metadata and credentials back
\* together, so no interleaving leaves the token of an old authorization beside
\* the nonce of a new one, where the callback would store its tokens in the
\* credentials row of the old.  It does not say that a new flow lasts: a row
\* read before it undoes it (FlowLasts, refuted).
NoCredentialsBesideNonce ==
    \A a \in Accounts :
        (Exists(a) /\ account[a].creds # None /\ account[a].meta # None) =>
            ~metadata[account[a].meta].nonce

\* "reset credentials", as initiate_oauth2_flow does: from then on, merges apart,
\* the account has no credentials but those its callback brings to that metadata
FlowLasts ==
    [][\A a \in Accounts :
        (/\ Exists(a) /\ account[a].meta # None /\ metadata[account[a].meta].nonce
         /\ account'[a] \in AccountRow /\ account'[a].creds # None
         /\ ~\E h \in Handlers, b \in Accounts, same \in SUBSET Accounts :
                MergeUpdate(h, b, same))
            => account'[a].meta = account[a].meta]_vars

\* The access token an account uses, unless its owner supplied it, was issued
\* for the authorization that its current metadata row started: concurrent
\* callbacks, refreshes and re-writes of old rows never mix the tokens of two
\* authorizations or two accounts.
TokenIssuedForMetadata ==
    \A a \in Accounts :
        (Exists(a) /\ account[a].creds # None /\ account[a].meta # None) =>
            grant[credential[account[a].creds]] \in {account[a].meta, Owner}

\* The refresh token a committed update stores is one the service still
\* honours, in every interleaving of refreshes and callbacks on one metadata
\* row with a service that replaces refresh tokens: no update is lost to an
\* older response.
StoredRefreshTokenLive ==
    [][\A m \in Metas :
        (metadata'[m] # metadata[m] /\ metadata'[m].refresh # None)
            => metadata'[m].refresh \in live']_vars

\* "A one-time-use value to identify the initial auth request": a callback
\* commits tokens only against a nonce that is still unused.
NonceUsedOnce ==
    [][\A h \in Handlers :
        (CommitTokenUpdate(h) /\ handler[h].callback)
            => metadata[handler[h].meta].nonce]_vars

\* "OAuth2 accounts must assign exactly one of state_nonce and access_token"
ExactlyOneOfNonceAndToken ==
    \A a \in Accounts :
        (Exists(a) /\ account[a].meta # None) =>
            (account[a].creds # None) # metadata[account[a].meta].nonce

-----------------------------------------------------------------------------
(* The inductive invariant behind TypeOK, NoCredentialsBesideNonce and       *)
(* TokenIssuedForMetadata: what these say of the committed rows must hold of *)
(* every row a handler remembers too, because it may write that row back.    *)

\* a committed or remembered account row has metadata m and credentials c
Paired(m, c) ==
    \/ \E a \in Accounts :
        Exists(a) /\ account[a].meta = m /\ account[a].creds = c
    \/ \E h \in Handlers, a \in Accounts :
        /\ handler[h].rows[a] # None
        /\ handler[h].rows[a].meta = m
        /\ handler[h].rows[a].creds = c

\* foreign keys point to rows that were written
ForeignKeys ==
    \A m \in Metas \cup {None}, c \in Creds \cup {None} :
        Paired(m, c) => /\ m # None => metadata[m] # None
                        /\ c # None => credential[c] # None

\* a credentials row belongs to one authorization
OneMetadata ==
    \A c \in Creds : \A m, n \in Metas \cup {None} :
        Paired(m, c) /\ Paired(n, c) => m = n

PairedOK ==
    \A m \in Metas, c \in Creds :
        Paired(m, c) => /\ ~metadata[m].nonce
                        /\ grant[credential[c]] \in {m, Owner}

\* what a handler knows about the tokens and the metadata row it works with
HandlerOK(h) ==
    LET s == handler[h] IN
    /\ s.phase \in {"resolved", "requesting", "received", "validated", "updating"}
            => s.meta \in Metas /\ metadata[s.meta] # None
    /\ s.refresh # None => s.meta # None /\ grant[s.refresh] = s.meta
    /\ s.phase \in {"received", "validated", "updating"}
            => s.access # None /\ grant[s.access] = s.meta
    /\ (s.phase \in {"patching", "patched"} /\ s.access # None)
            => grant[s.access] = Owner
    /\ s.phase \in {"patching", "patched"} => \A a, b \in Accounts :
            s.rows[a] # None /\ s.rows[b] # None => a = b
    /\ \A a \in Accounts : s.rows[a] # None =>
        /\ s.phase = "updating" => s.rows[a].meta = s.meta
        /\ (s.phase = "patched" /\ s.access # None /\ s.rows[a].meta # None)
                => ~metadata[s.rows[a].meta].nonce

RefreshTokensOK ==
    \A m \in Metas : (metadata[m] # None /\ metadata[m].refresh # None)
        => grant[metadata[m].refresh] = m

IInv ==
    /\ TypeOK
    /\ ForeignKeys
    /\ OneMetadata
    /\ PairedOK
    /\ \A h \in Handlers : HandlerOK(h)
    /\ RefreshTokensOK
=============================================================================
