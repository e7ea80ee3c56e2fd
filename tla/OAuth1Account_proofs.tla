------------------------ MODULE OAuth1Account_proofs ------------------------
(***************************************************************************)
(* Proofs about OAuth1Account: types and references, that every access     *)
(* token belongs to a flow of the account that has it, that no account     *)
(* offers a token twice, and what happens to accounts and their addons,    *)
(* for any number of accounts, browsers, requests, tokens and rows.        *)
(***************************************************************************)
EXTENDS OAuth1Account, TLAPS

Flow == {"callback", "exchanged"}
Phases == {"idle", "patch", "respond"} \cup Flow

Request == [phase: Phases, browser: Browsers \cup {None}, account: Accounts \cup {None},
            row: AccountRow \cup {None}, token: Tokens \cup {None},
            session: Accounts \cup {None}]

IsTemporary(c, rows) == rows[c] \in Content /\ rows[c].kind = "temporary"

\* What an account row refers to, whether it is committed or only remembered:
\* an access token of this account, which stays; and a temporary token of this
\* account, unless it was deleted meanwhile.
Refers(a, x, rows, iss) ==
    /\ x \in AccountRow
    /\ x.credentials # None =>
        /\ rows[x.credentials] \in Content
        /\ rows[x.credentials].kind = "access"
        /\ iss[rows[x.credentials].token] = a
    /\ x.temporary # None =>
        \/ rows[x.temporary] = Gone
        \/ IsTemporary(x.temporary, rows) /\ iss[rows[x.temporary].token] = a

\* A request remembers such a row, and in a callback the token of the account
\* whose only row it will delete.
Fits(q, rows, iss) ==
    /\ q.phase \in {"patch"} \cup Flow =>
        q.account \in Accounts /\ Refers(q.account, q.row, rows, iss)
    /\ q.phase \in Flow =>
        /\ q.row.temporary # None
        /\ q.token \in Tokens
        /\ iss[q.token] = q.account
        /\ \A c \in Rows : IsTemporary(c, rows) /\ rows[c].token = q.token => c = q.row.temporary

\* A temporary token is in one row of credentials, and then in no other.
RowsOK(rows, iss) ==
    /\ rows \in [Rows -> Content \cup {None, Gone}]
    /\ iss \in [Tokens -> Accounts \cup {None}]
    /\ \A c \in Rows : rows[c] \in Content => iss[rows[c].token] # None
    /\ \A c, d \in Rows :
        IsTemporary(c, rows) /\ rows[d] \in Content /\ rows[c].token = rows[d].token => c = d

\* A committed account also refers to a temporary token that is there.
Committed(a, x, rows, iss) ==
    x # None /\ x # Gone =>
        /\ Refers(a, x, rows, iss)
        /\ x.temporary # None => rows[x.temporary] # Gone

\* The inductive invariant.
IInv ==
    /\ RowsOK(row, issued)
    /\ account \in [Accounts -> AccountRow \cup {None, Gone}]
    /\ \A a \in Accounts : Committed(a, account[a], row, issued)
    /\ request \in [Requests -> Request]
    /\ \A r \in Requests : Fits(request[r], row, issued)
    /\ addons \subseteq {a \in Accounts : Exists(a)}
    /\ session \in [Browsers -> Accounts \cup {None}]
    /\ used \subseteq {t \in Tokens : issued[t] # None}

\* The inductive invariant says all that TypeOK does.
LEMMA IInvTypeOK == IInv => TypeOK
<1> SUFFICES ASSUME IInv PROVE TypeOK
    OBVIOUS
<1>1. ASSUME NEW a \in Accounts, Exists(a)
      PROVE  /\ account[a] \in AccountRow
             /\ account[a].credentials # None =>
                Holds(account[a].credentials) /\ row[account[a].credentials].kind = "access"
             /\ account[a].temporary # None =>
                Holds(account[a].temporary) /\ row[account[a].temporary].kind = "temporary"
    BY <1>1, OAuth1Assumption DEF IInv, Committed, Refers, Exists, Holds, IsTemporary
<1>2. \A c \in Rows : Holds(c) => row[c] \in Content
    BY DEF IInv, RowsOK, Holds
<1> QED
    BY <1>1, <1>2 DEF TypeOK, IInv, RowsOK

\* The initial state satisfies the inductive invariant.
LEMMA InitIInv == Init => IInv
<1> SUFFICES ASSUME Init PROVE IInv
    OBVIOUS
<1>1. Idle \in Request /\ Idle.phase = "idle"
    BY DEF Idle, Request, Phases, Flow
<1>2. RowsOK(row, issued)
    BY OAuth1Assumption DEF Init, RowsOK, IsTemporary
<1>3. \A r \in Requests : Fits(request[r], row, issued)
    BY <1>1 DEF Init, Fits, Flow
<1> QED
    BY <1>1, <1>2, <1>3 DEF Init, IInv, Committed

-----------------------------------------------------------------------------
\* The fields of an account row.
LEMMA AccountRowFields ==
    ASSUME NEW x \in AccountRow
    PROVE  /\ x.credentials \in Rows \cup {None}
           /\ x.temporary \in Rows \cup {None}
           /\ x # None /\ x # Gone
           /\ \A c \in Rows : /\ [x EXCEPT !.temporary = c] \in AccountRow
                              /\ [x EXCEPT !.temporary = c].temporary = c
                              /\ [x EXCEPT !.temporary = c].credentials = x.credentials
BY OAuth1Assumption DEF AccountRow

\* A step of one request that leaves the tables as they are.
LEMMA RequestChange ==
    ASSUME IInv, NEW r \in Requests, NEW q \in Request,
           request' = [request EXCEPT ![r] = q],
           Fits(q, row, issued),
           UNCHANGED <<account, row, addons, issued>>,
           session' \in [Browsers -> Accounts \cup {None}],
           used' \subseteq {t \in Tokens : issued[t] # None}
    PROVE  IInv'
<1>1. request' \in [Requests -> Request]
    BY DEF IInv
<1>2. \A s \in Requests : Fits(request'[s], row', issued')
    BY DEF IInv
<1> QED
    BY <1>1, <1>2 DEF IInv, Exists

LEMMA IdleFits == Idle \in Request /\ \A rows, iss : Fits(Idle, rows, iss)
BY DEF Idle, Request, Phases, Flow, Fits

\* A request that ends, and changes no table but perhaps the session.
LEMMA EndIInv ==
    ASSUME IInv, NEW r \in Requests, End(r),
           UNCHANGED <<account, row, addons, issued>>,
           session' \in [Browsers -> Accounts \cup {None}],
           used' \subseteq {t \in Tokens : issued[t] # None}
    PROVE  IInv'
BY IdleFits, RequestChange DEF End

-----------------------------------------------------------------------------
\* A new temporary token for account b is written to row c, which is new or
\* held an earlier one of this account.
Issue(t, c, b) ==
    /\ issued[t] = None
    /\ \/ row[c] = None
       \/ IsTemporary(c, row) /\ issued[row[c].token] = b
    /\ issued' = [issued EXCEPT ![t] = b]
    /\ row' = [row EXCEPT ![c] = [kind |-> "temporary", token |-> t]]

LEMMA IssueContent ==
    ASSUME IInv, NEW t \in Tokens, NEW c \in Rows, NEW b \in Accounts, Issue(t, c, b)
    PROVE  /\ row'[c] \in Content /\ row'[c].kind = "temporary" /\ row'[c].token = t
           /\ issued'[t] = b
           /\ \A d \in Rows : d # c => row'[d] = row[d]
           /\ \A s \in Tokens : s # t => issued'[s] = issued[s]
           /\ \A d \in Rows : row[d] \in Content => row[d].token # t /\ row[d].token \in Tokens
           /\ b # None
<1>1. b # None
    BY OAuth1Assumption
<1>2. \A d \in Rows : row[d] \in Content => row[d].token \in Tokens
    BY DEF Content
<1> QED
    BY <1>1, <1>2 DEF Issue, IInv, RowsOK, Content

LEMMA IssueRows ==
    ASSUME IInv, NEW t \in Tokens, NEW c \in Rows, NEW b \in Accounts, Issue(t, c, b)
    PROVE  RowsOK(row', issued')
<1>1. row' \in [Rows -> Content \cup {None, Gone}] /\ issued' \in [Tokens -> Accounts \cup {None}]
    BY DEF Issue, IInv, RowsOK, Content
<1>2. ASSUME NEW d \in Rows, row'[d] \in Content PROVE issued'[row'[d].token] # None
    BY <1>2, IssueContent DEF IInv, RowsOK
<1>3. ASSUME NEW d \in Rows, NEW e \in Rows,
             IsTemporary(d, row'), row'[e] \in Content, row'[d].token = row'[e].token
      PROVE  d = e
    <2>1. CASE d = c
        BY <1>3, <2>1, IssueContent
    <2>2. CASE e = c
        BY <1>3, <2>2, IssueContent DEF IsTemporary
    <2>3. CASE d # c /\ e # c
        BY <1>3, <2>3, IssueContent DEF IsTemporary, IInv, RowsOK
    <2> QED BY <2>1, <2>2, <2>3
<1> QED
    BY <1>1, <1>2, <1>3 DEF RowsOK

LEMMA IssueRefers ==
    ASSUME IInv, NEW t \in Tokens, NEW c \in Rows, NEW b \in Accounts, Issue(t, c, b),
           NEW a \in Accounts, NEW x, Refers(a, x, row, issued)
    PROVE  Refers(a, x, row', issued')
<1>0. row[c] # Gone /\ (row[c] \in Content => row[c].kind = "temporary" /\ issued[row[c].token] = b)
    BY OAuth1Assumption DEF Issue, IsTemporary
<1>1. ASSUME x.credentials # None
      PROVE  /\ row'[x.credentials] \in Content
             /\ row'[x.credentials].kind = "access"
             /\ issued'[row'[x.credentials].token] = a
    <2>1. x.credentials \in Rows /\ x.credentials # c
        BY <1>0, <1>1, AccountRowFields DEF Refers
    <2> QED BY <1>1, <2>1, IssueContent DEF Refers
<1>2. ASSUME x.temporary # None
      PROVE  \/ row'[x.temporary] = Gone
             \/ IsTemporary(x.temporary, row') /\ issued'[row'[x.temporary].token] = a
    <2>1. x.temporary \in Rows
        BY <1>2, AccountRowFields DEF Refers
    <2>2. CASE x.temporary = c
        <3>1. a = b
            BY <1>0, <1>2, <2>2 DEF Refers, IsTemporary
        <3> QED BY <2>2, <3>1, IssueContent DEF IsTemporary
    <2>3. CASE x.temporary # c
        BY <1>2, <2>1, <2>3, IssueContent DEF Refers, IsTemporary
    <2> QED BY <2>2, <2>3
<1> QED
    BY <1>1, <1>2 DEF Refers

LEMMA IssueFits ==
    ASSUME IInv, NEW t \in Tokens, NEW c \in Rows, NEW b \in Accounts, Issue(t, c, b),
           NEW q, Fits(q, row, issued)
    PROVE  Fits(q, row', issued')
<1>1. ASSUME q.phase \in {"patch"} \cup Flow
      PROVE  q.account \in Accounts /\ Refers(q.account, q.row, row', issued')
    BY <1>1, IssueRefers DEF Fits
<1>2. ASSUME q.phase \in Flow
      PROVE  /\ q.row.temporary # None /\ q.token \in Tokens /\ q.token # t
             /\ issued'[q.token] = q.account
    <2>1. q.token # t
        BY <1>2, OAuth1Assumption DEF Fits, Issue
    <2> QED BY <1>2, <2>1, IssueContent DEF Fits
<1>3. ASSUME q.phase \in Flow, NEW d \in Rows, IsTemporary(d, row'), row'[d].token = q.token
      PROVE  d = q.row.temporary
    <2>1. d # c
        BY <1>2, <1>3, IssueContent
    <2> QED BY <1>3, <2>1, IssueContent DEF Fits, IsTemporary
<1> QED
    BY <1>1, <1>2, <1>3 DEF Fits

\* An account is written together with its new temporary token.
LEMMA IssueIInv ==
    ASSUME IInv, NEW t \in Tokens, NEW c \in Rows, NEW b \in Accounts, Issue(t, c, b),
           NEW x, x.temporary = c, Refers(b, x, row', issued'),
           account' = [account EXCEPT ![b] = x],
           NEW r \in Requests, NEW q \in Request, q.phase = "respond",
           request' = [request EXCEPT ![r] = q],
           UNCHANGED <<addons, session, used>>
    PROVE  IInv'
<1>1. RowsOK(row', issued')
    BY IssueRows
<1>2. x \in AccountRow /\ x # None /\ x # Gone
    BY AccountRowFields DEF Refers
<1>3. account' \in [Accounts -> AccountRow \cup {None, Gone}]
    BY <1>2 DEF IInv
<1>4. row'[c] # Gone /\ \A d \in Rows : row'[d] = Gone => row[d] = Gone
    BY IssueContent, OAuth1Assumption
<1>5. ASSUME NEW a \in Accounts PROVE Committed(a, account'[a], row', issued')
    <2>1. CASE a = b
        BY <1>2, <1>4, <2>1 DEF Committed, IInv
    <2>2. CASE a # b
        <3>1. account'[a] = account[a] /\ Committed(a, account[a], row, issued)
            BY <2>2 DEF IInv
        <3>2. ASSUME account[a] # None, account[a] # Gone
              PROVE  /\ Refers(a, account[a], row', issued')
                     /\ account[a].temporary # None => row'[account[a].temporary] # Gone
            <4>1. Refers(a, account[a], row, issued)
                BY <3>1, <3>2 DEF Committed
            <4>2. account[a].temporary \in Rows \cup {None}
                BY <4>1, AccountRowFields DEF Refers
            <4> QED BY <3>1, <3>2, <4>1, <4>2, <1>4, IssueRefers DEF Committed
        <3> QED BY <3>1, <3>2 DEF Committed
    <2> QED BY <2>1, <2>2
<1>6. request' \in [Requests -> Request]
    BY DEF IInv
<1>7. ASSUME NEW s \in Requests PROVE Fits(request'[s], row', issued')
    <2>1. CASE s = r
        BY <2>1 DEF IInv, Fits, Flow
    <2>2. CASE s # r
        BY <2>2, IssueFits DEF IInv
    <2> QED BY <2>1, <2>2
<1>8. \A a \in Accounts : Exists(a) => Exists(a)'
    BY <1>2 DEF Exists, IInv
<1>9. used' \subseteq {s \in Tokens : issued'[s] # None}
    BY IssueContent DEF IInv
<1> QED
    BY <1>1, <1>3, <1>5, <1>6, <1>7, <1>8, <1>9 DEF IInv

LEMMA CreateAccountIInv ==
    ASSUME IInv, NEW r \in Requests, NEW b \in Browsers, NEW a \in Accounts,
           CreateAccount(r, b, a)
    PROVE  IInv'
<1>1. PICK t \in FreshTokens, c \in FreshRows :
        /\ issued' = [issued EXCEPT ![t] = a]
        /\ row' = [row EXCEPT ![c] = [kind |-> "temporary", token |-> t]]
        /\ account' = [account EXCEPT ![a] = [credentials |-> None, temporary |-> c]]
    BY DEF CreateAccount
<1> DEFINE x == [credentials |-> None, temporary |-> c]
           q == [Idle EXCEPT !.phase = "respond", !.browser = b, !.account = a, !.session = a]
<1>2. t \in Tokens /\ c \in Rows /\ Issue(t, c, a)
    BY <1>1 DEF FreshTokens, FreshRows, Issue
<1>3. x.temporary = c /\ Refers(a, x, row', issued')
    BY <1>2, IssueContent DEF Refers, AccountRow, IsTemporary
<1>4. q \in Request /\ q.phase = "respond"
    BY DEF Idle, Request, Phases, Flow
<1>5. /\ request' = [request EXCEPT ![r] = q]
      /\ account' = [account EXCEPT ![a] = x]
      /\ UNCHANGED <<addons, session, used>>
    BY <1>1 DEF CreateAccount
<1> HIDE DEF x, q
<1> QED
    BY <1>2, <1>3, <1>4, <1>5, IssueIInv

LEMMA PatchWithOAuthIInv ==
    ASSUME IInv, NEW r \in Requests, PatchWithOAuth(r)
    PROVE  IInv'
<1> DEFINE q == request[r]
<1>0. /\ q \in Request /\ q.phase = "patch" /\ q.account \in Accounts
      /\ Refers(q.account, q.row, row, issued) /\ q.row \in AccountRow
    BY DEF PatchWithOAuth, IInv, Fits, Refers
<1>1. PICK t \in FreshTokens, c \in IF q.row.temporary = None THEN FreshRows ELSE {q.row.temporary} :
        /\ issued' = [issued EXCEPT ![t] = q.account]
        /\ row' = [row EXCEPT ![c] = [kind |-> "temporary", token |-> t]]
        /\ Save(q.account, [q.row EXCEPT !.temporary = c])
    BY DEF PatchWithOAuth
<1> DEFINE x == [q.row EXCEPT !.temporary = c]
           n == [q EXCEPT !.phase = "respond", !.session = q.account]
<1>2. t \in Tokens /\ c \in Rows
    <2>1. q.row.temporary \in Rows \cup {None}
        BY <1>0, AccountRowFields
    <2>2. CASE q.row.temporary = None
        BY <2>2 DEF FreshTokens, FreshRows
    <2>3. CASE q.row.temporary # None
        BY <2>1, <2>3 DEF FreshTokens
    <2> QED BY <2>2, <2>3
<1>3. \/ row[c] = None
      \/ IsTemporary(c, row) /\ issued[row[c].token] = q.account
    <2>1. CASE q.row.temporary = None
        <3>1. c \in FreshRows
            BY <2>1
        <3> QED BY <3>1 DEF FreshRows
    <2>2. CASE q.row.temporary # None
        <3>1. c = q.row.temporary /\ Holds(c)
            BY <2>2 DEF PatchWithOAuth, HasReferents
        <3> QED BY <1>0, <2>2, <3>1 DEF Refers, Holds
    <2> QED BY <2>1, <2>2
<1>4. Issue(t, c, q.account)
    BY <1>1, <1>3 DEF Issue, FreshTokens
<1>5. Refers(q.account, q.row, row', issued')
    BY <1>0, <1>2, <1>4, IssueRefers
<1>6. x \in AccountRow /\ x.temporary = c /\ x.credentials = q.row.credentials
    BY <1>0, <1>2, AccountRowFields
<1>7. n \in Request /\ n.phase = "respond"
    BY <1>0 DEF Request, Phases
<1>8. /\ request' = [request EXCEPT ![r] = n]
      /\ account' = [account EXCEPT ![q.account] = x]
      /\ UNCHANGED <<addons, session, used>>
    BY <1>1 DEF PatchWithOAuth, Respond, Save
<1> HIDE DEF x, n
<1>9. Refers(q.account, x, row', issued')
    BY <1>0, <1>2, <1>4, <1>5, <1>6, IssueContent DEF Refers, IsTemporary
<1> QED
    BY <1>0, <1>2, <1>4, <1>6, <1>7, <1>8, <1>9, IssueIInv

-----------------------------------------------------------------------------
LEMMA LoadForPatchIInv ==
    ASSUME IInv, NEW r \in Requests, NEW b \in Browsers, NEW a \in Accounts,
           LoadForPatch(r, b, a)
    PROVE  IInv'
<1> DEFINE q == [Idle EXCEPT !.phase = "patch", !.browser = b, !.account = a,
                             !.row = account[a], !.session = session[b]]
<1>1. Refers(a, account[a], row, issued)
    BY DEF LoadForPatch, Exists, IInv, Committed
<1>2. session[b] \in Accounts \cup {None}
    BY DEF IInv
<1>3. /\ q \in Request
      /\ q.phase = "patch" /\ q.account = a /\ q.row = account[a]
    BY <1>1, <1>2 DEF Refers, Idle, Request, Phases
<1>4. request' = [request EXCEPT ![r] = q]
    BY DEF LoadForPatch
<1> HIDE DEF q
<1>5. Fits(q, row, issued)
    BY <1>1, <1>3 DEF Fits, Flow
<1> QED
    BY <1>3, <1>4, <1>5, RequestChange DEF LoadForPatch, IInv

LEMMA LoadForCallbackIInv ==
    ASSUME IInv, NEW r \in Requests, NEW b \in Browsers, LoadForCallback(r, b)
    PROVE  IInv'
<1> DEFINE a == session[b]
           c == account[a].temporary
           q == [phase |-> "callback", browser |-> b, account |-> a, row |-> account[a],
                 token |-> row[c].token, session |-> None]
<1>1. a \in Accounts /\ Exists(a) /\ c # None
    BY DEF LoadForCallback, IInv
<1>2. Refers(a, account[a], row, issued) /\ row[c] # Gone
    BY <1>1 DEF Exists, IInv, Committed
<1>3. account[a] \in AccountRow /\ c \in Rows
    BY <1>1, <1>2, AccountRowFields DEF Refers
<1>4. IsTemporary(c, row) /\ issued[row[c].token] = a /\ row[c].token \in Tokens
    BY <1>1, <1>2 DEF Refers, IsTemporary, Content
<1>5. \A d \in Rows : IsTemporary(d, row) /\ row[d].token = row[c].token => d = c
    BY <1>3, <1>4 DEF IInv, RowsOK, IsTemporary
<1>6. /\ q \in Request
      /\ q.phase = "callback" /\ q.account = a /\ q.row = account[a] /\ q.token = row[c].token
    BY <1>1, <1>3, <1>4 DEF Request, Phases, Flow
<1>7. request' = [request EXCEPT ![r] = q]
    BY DEF LoadForCallback
<1> HIDE DEF q
<1>8. Fits(q, row, issued)
    BY <1>1, <1>2, <1>4, <1>5, <1>6 DEF Fits, Flow
<1> QED
    BY <1>6, <1>7, <1>8, RequestChange DEF LoadForCallback, IInv

LEMMA PatchAccountIInv ==
    ASSUME IInv, NEW r \in Requests, PatchAccount(r)
    PROVE  IInv'
<1> DEFINE b == request[r].account
           x == request[r].row
<1>1. CASE HasReferents(x)
    <2>1. b \in Accounts /\ Refers(b, x, row, issued) /\ x \in AccountRow /\ x # None /\ x # Gone
        BY AccountRowFields DEF PatchAccount, IInv, Fits, Refers
    <2>2. x.temporary # None => row[x.temporary] # Gone
        BY <1>1 DEF HasReferents, Holds
    <2>3. account' = [account EXCEPT ![b] = x]
        BY <1>1 DEF PatchAccount, Save
    <2>4. account' \in [Accounts -> AccountRow \cup {None, Gone}]
        BY <2>1, <2>3 DEF IInv
    <2>5. ASSUME NEW a \in Accounts PROVE Committed(a, account'[a], row', issued')
        BY <2>1, <2>2, <2>3 DEF PatchAccount, IInv, Committed
    <2>6. \A a \in Accounts : Exists(a) => Exists(a)'
        BY <2>1, <2>3 DEF Exists, IInv
    <2>7. /\ request' \in [Requests -> Request]
          /\ \A s \in Requests : Fits(request'[s], row', issued')
        BY IdleFits DEF PatchAccount, End, IInv
    <2> QED
        BY <2>4, <2>5, <2>6, <2>7 DEF PatchAccount, IInv
<1>2. CASE ~HasReferents(x)
    BY <1>2, EndIInv DEF PatchAccount, IInv
<1> QED BY <1>1, <1>2

LEMMA GetAccessTokenIInv ==
    ASSUME IInv, NEW r \in Requests, NEW t \in Tokens, GetAccessToken(r, t)
    PROVE  IInv'
<1>1. CASE t = request[r].token /\ t \notin used
    <2> DEFINE q == [request[r] EXCEPT !.phase = "exchanged"]
    <2>1. request[r] \in Request /\ request[r].phase = "callback" /\ Fits(request[r], row, issued)
        BY DEF GetAccessToken, IInv
    <2>2. /\ q \in Request /\ q.phase = "exchanged" /\ q.account = request[r].account
          /\ q.row = request[r].row /\ q.token = request[r].token
        BY <2>1 DEF Request, Phases, Flow
    <2>3. request' = [request EXCEPT ![r] = q]
        BY <1>1 DEF GetAccessToken
    <2> HIDE DEF q
    <2>4. Fits(q, row, issued)
        BY <2>1, <2>2 DEF Fits, Flow
    <2>5. used' \subseteq {s \in Tokens : issued[s] # None}
        BY <1>1 DEF GetAccessToken, IInv
    <2> QED
        BY <2>2, <2>3, <2>4, <2>5, RequestChange DEF GetAccessToken, IInv
<1>2. CASE ~(t = request[r].token /\ t \notin used)
    BY <1>2, EndIInv DEF GetAccessToken, IInv
<1> QED BY <1>1, <1>2

-----------------------------------------------------------------------------
\* The callback writes the access token of its account to row c, which is new
\* or held an earlier one, and deletes the temporary row d.
LEMMA FinishRows ==
    ASSUME IInv, NEW r \in Requests, request[r].phase = "exchanged",
           NEW c \in CredentialsRows(request[r].row)
    PROVE  /\ c \in Rows
           /\ request[r].row.temporary \in Rows \ {c}
           /\ \/ row[request[r].row.temporary] = Gone
              \/ /\ IsTemporary(request[r].row.temporary, row)
                 /\ issued[row[request[r].row.temporary].token] = request[r].account
           /\ \/ row[c] = None
              \/ /\ row[c] \in Content
                 /\ row[c].kind = "access"
                 /\ issued[row[c].token] = request[r].account
<1> DEFINE q == request[r]
<1>1. q.row \in AccountRow /\ Refers(q.account, q.row, row, issued) /\ q.row.temporary # None
    BY DEF IInv, Fits, Flow, Refers
<1>2. c \in Rows /\ q.row.temporary \in Rows
    <2>1. q.row.credentials \in Rows \cup {None} /\ q.row.temporary \in Rows \cup {None}
        BY <1>1, AccountRowFields
    <2> QED BY <1>1, <2>1 DEF CredentialsRows, FreshRows
<1>3. \/ row[c] = None
      \/ row[c] \in Content /\ row[c].kind = "access" /\ issued[row[c].token] = q.account
    <2>1. CASE q.row.credentials = None
        <3>1. c \in FreshRows
            BY <2>1 DEF CredentialsRows
        <3> QED BY <3>1 DEF FreshRows
    <2>2. CASE q.row.credentials # None
        BY <1>1, <2>2 DEF CredentialsRows, Refers
    <2> QED BY <2>1, <2>2
<1>4. \/ row[q.row.temporary] = Gone
      \/ IsTemporary(q.row.temporary, row) /\ issued[row[q.row.temporary].token] = q.account
    BY <1>1 DEF Refers
<1>5. q.row.temporary # c
    BY <1>3, <1>4, OAuth1Assumption DEF IsTemporary
<1> QED
    BY <1>2, <1>3, <1>4, <1>5

\* Deleting the temporary row deletes no account but the one it belongs to.
LEMMA CascadeOwn ==
    ASSUME IInv, NEW r \in Requests, request[r].phase = "exchanged"
    PROVE  Cascade(request[r].row.temporary) \subseteq {request[r].account}
<1> DEFINE d == request[r].row.temporary
<1>1. Refers(request[r].account, request[r].row, row, issued) /\ d # None
    BY DEF IInv, Fits, Flow
<1>2. \/ row[d] = Gone
      \/ IsTemporary(d, row) /\ issued[row[d].token] = request[r].account
    BY <1>1 DEF Refers
<1>3. ASSUME NEW a \in Accounts, Exists(a), d \in {account[a].credentials, account[a].temporary}
      PROVE  a = request[r].account
    <2>1. Refers(a, account[a], row, issued) /\ (account[a].temporary # None => row[account[a].temporary] # Gone)
        BY <1>3 DEF Exists, IInv, Committed
    <2>2. d # account[a].credentials
        BY <1>1, <1>2, <2>1, OAuth1Assumption DEF Refers, IsTemporary
    <2> QED BY <1>1, <1>2, <1>3, <2>1, <2>2 DEF Refers
<1> QED
    BY <1>3 DEF Cascade

\* The tables after the callback.
Finish(r, c) ==
    /\ row' = [row EXCEPT ![request[r].row.temporary] = Gone,
                          ![c] = [kind |-> "access", token |-> request[r].token]]
    /\ issued' = issued

LEMMA FinishContent ==
    ASSUME IInv, NEW r \in Requests, request[r].phase = "exchanged",
           NEW c \in CredentialsRows(request[r].row), Finish(r, c)
    PROVE  /\ row'[c] \in Content /\ row'[c].kind = "access"
           /\ row'[c].token = request[r].token
           /\ request[r].token \in Tokens /\ request[r].account \in Accounts
           /\ issued[request[r].token] = request[r].account
           /\ row'[request[r].row.temporary] = Gone
           /\ \A e \in Rows : e # c /\ e # request[r].row.temporary => row'[e] = row[e]
           /\ issued' = issued
<1>1. /\ request[r].token \in Tokens /\ request[r].account \in Accounts
      /\ issued[request[r].token] = request[r].account
    BY DEF IInv, Fits, Flow
<1>2. row \in [Rows -> Content \cup {None, Gone}]
    BY DEF IInv, RowsOK
<1> QED
    BY <1>1, <1>2, FinishRows DEF Finish, Content

LEMMA FinishRowsOK ==
    ASSUME IInv, NEW r \in Requests, request[r].phase = "exchanged",
           NEW c \in CredentialsRows(request[r].row), Finish(r, c)
    PROVE  RowsOK(row', issued')
<1> DEFINE d == request[r].row.temporary
<1>0. c \in Rows /\ d \in Rows \ {c}
    BY FinishRows
<1>1. row' \in [Rows -> Content \cup {None, Gone}]
    BY <1>0, FinishContent DEF Finish, IInv, RowsOK
<1>2. issued' \in [Tokens -> Accounts \cup {None}]
    BY DEF Finish, IInv, RowsOK
<1>3. ASSUME NEW e \in Rows, row'[e] \in Content PROVE issued'[row'[e].token] # None
    BY <1>3, FinishContent, OAuth1Assumption DEF IInv, RowsOK
<1>4. ASSUME NEW e \in Rows, NEW f \in Rows,
             IsTemporary(e, row'), row'[f] \in Content, row'[e].token = row'[f].token
      PROVE  e = f
    <2>1. e # c /\ e # d /\ f # d /\ IsTemporary(e, row) /\ row'[e] = row[e]
        BY <1>4, FinishContent, OAuth1Assumption DEF IsTemporary
    <2>2. CASE f = c
        <3>1. row[e].token = request[r].token
            BY <1>4, <2>1, <2>2, FinishContent
        <3>2. e = d
            BY <2>1, <3>1 DEF IInv, Fits, Flow
        <3> QED BY <2>1, <3>2
    <2>3. CASE f # c
        BY <1>4, <2>1, <2>3, FinishContent DEF IInv, RowsOK
    <2> QED BY <2>2, <2>3
<1> QED
    BY <1>1, <1>2, <1>3, <1>4 DEF RowsOK

LEMMA FinishRefers ==
    ASSUME IInv, NEW r \in Requests, request[r].phase = "exchanged",
           NEW c \in CredentialsRows(request[r].row), Finish(r, c),
           NEW a \in Accounts, NEW x, Refers(a, x, row, issued)
    PROVE  Refers(a, x, row', issued')
<1> DEFINE d == request[r].row.temporary
<1>0. /\ c \in Rows /\ d \in Rows \ {c}
      /\ row[d] = Gone \/ IsTemporary(d, row)
      /\ row[c] = None \/ (row[c] \in Content /\ row[c].kind = "access" /\ issued[row[c].token] = request[r].account)
    BY FinishRows
<1>1. ASSUME x.credentials # None
      PROVE  /\ row'[x.credentials] \in Content
             /\ row'[x.credentials].kind = "access"
             /\ issued'[row'[x.credentials].token] = a
    <2>1. x.credentials \in Rows /\ x.credentials # d
        BY <1>0, <1>1, AccountRowFields, OAuth1Assumption DEF Refers, IsTemporary
    <2>2. CASE x.credentials = c
        <3>1. a = request[r].account
            BY <1>0, <1>1, <2>2, OAuth1Assumption DEF Refers
        <3> QED BY <2>2, <3>1, FinishContent
    <2>3. CASE x.credentials # c
        BY <1>1, <2>1, <2>3, FinishContent DEF Refers
    <2> QED BY <2>2, <2>3
<1>2. ASSUME x.temporary # None
      PROVE  \/ row'[x.temporary] = Gone
             \/ IsTemporary(x.temporary, row') /\ issued'[row'[x.temporary].token] = a
    <2>1. x.temporary \in Rows /\ x.temporary # c
        BY <1>0, <1>2, AccountRowFields, OAuth1Assumption DEF Refers, IsTemporary
    <2>2. CASE x.temporary = d
        BY <2>2, FinishContent
    <2>3. CASE x.temporary # d
        BY <1>2, <2>1, <2>3, FinishContent DEF Refers, IsTemporary
    <2> QED BY <2>2, <2>3
<1> QED
    BY <1>1, <1>2 DEF Refers

LEMMA FinishFits ==
    ASSUME IInv, NEW r \in Requests, request[r].phase = "exchanged",
           NEW c \in CredentialsRows(request[r].row), Finish(r, c),
           NEW q, Fits(q, row, issued)
    PROVE  Fits(q, row', issued')
<1>1. ASSUME q.phase \in {"patch"} \cup Flow
      PROVE  q.account \in Accounts /\ Refers(q.account, q.row, row', issued')
    BY <1>1, FinishRefers DEF Fits
<1>2. ASSUME NEW e \in Rows, IsTemporary(e, row')
      PROVE  IsTemporary(e, row) /\ row'[e] = row[e]
    BY <1>2, FinishContent, OAuth1Assumption DEF IsTemporary
<1> QED
    BY <1>1, <1>2, FinishContent DEF Fits

LEMMA FinishCallbackIInv ==
    ASSUME IInv, NEW r \in Requests, FinishCallback(r)
    PROVE  IInv'
<1> DEFINE q == request[r]
           d == q.row.temporary
<1>0. q.phase = "exchanged" /\ q \in Request /\ q.account \in Accounts
    BY DEF FinishCallback, IInv, Fits, Flow
<1>1. PICK c \in CredentialsRows(q.row) :
        /\ row' = [row EXCEPT ![d] = Gone, ![c] = [kind |-> "access", token |-> q.token]]
        /\ account' = [a \in Accounts |->
                        IF a = q.account THEN [credentials |-> c, temporary |-> None]
                        ELSE IF a \in Cascade(d) THEN Gone ELSE account[a]]
    BY DEF FinishCallback
<1> DEFINE x == [credentials |-> c, temporary |-> None]
           n == [q EXCEPT !.phase = "respond", !.session = None]
<1>2. Finish(r, c) /\ c \in Rows /\ d \in Rows \ {c}
    BY <1>0, <1>1, FinishRows DEF Finish, FinishCallback
<1>3. RowsOK(row', issued')
    BY <1>0, <1>2, FinishRowsOK
<1>4. x \in AccountRow /\ x.credentials = c /\ x.temporary = None
    BY <1>2 DEF AccountRow
<1>5. x # None /\ x # Gone
    BY <1>4, AccountRowFields
<1>6. \A a \in Accounts : account'[a] = IF a = q.account THEN x ELSE account[a]
    BY <1>0, <1>1, CascadeOwn
<1>7. account' \in [Accounts -> AccountRow \cup {None, Gone}]
    <2>1. account' = [a \in Accounts |-> account'[a]]
        BY <1>1
    <2>2. \A a \in Accounts : account'[a] \in AccountRow \cup {None, Gone}
        BY <1>4, <1>6 DEF IInv
    <2> QED BY <2>1, <2>2
<1> HIDE DEF x
<1>8. ASSUME NEW a \in Accounts PROVE Committed(a, account'[a], row', issued')
    <2>1. CASE a = q.account
        BY <1>0, <1>2, <1>4, <1>6, <2>1, FinishContent DEF Committed, Refers
    <2>2. CASE a # q.account
        <3>1. account'[a] = account[a] /\ Committed(a, account[a], row, issued)
            BY <1>6, <2>2 DEF IInv
        <3>2. ASSUME account[a] # None, account[a] # Gone
              PROVE  /\ Refers(a, account[a], row', issued')
                     /\ account[a].temporary # None => row'[account[a].temporary] # Gone
            <4>1. /\ Refers(a, account[a], row, issued)
                  /\ account[a].temporary # None => row[account[a].temporary] # Gone
                BY <3>1, <3>2 DEF Committed
            <4>2. account[a].temporary \in Rows \cup {None}
                BY <4>1, AccountRowFields DEF Refers
            <4>3. account[a].temporary # d
                BY <1>0, <2>2, <3>2, CascadeOwn DEF Cascade, Exists
            <4>4. account[a].temporary # None => row'[account[a].temporary] # Gone
                BY <1>0, <1>2, <4>1, <4>2, <4>3, FinishContent, OAuth1Assumption
            <4> QED BY <1>0, <1>2, <4>1, <4>4, FinishRefers
        <3> QED BY <3>1, <3>2 DEF Committed
    <2> QED BY <2>1, <2>2
<1>9. n \in Request /\ n.phase = "respond"
    BY <1>0 DEF Request, Phases
<1>10. request' = [request EXCEPT ![r] = n]
    BY DEF FinishCallback, Respond
<1> HIDE DEF n
<1>11. request' \in [Requests -> Request]
    BY <1>9, <1>10 DEF IInv
<1>12. ASSUME NEW s \in Requests PROVE Fits(request'[s], row', issued')
    <2>1. CASE s = r
        BY <1>9, <1>10, <2>1 DEF IInv, Fits, Flow
    <2>2. CASE s # r
        <3>1. request'[s] = request[s] /\ Fits(request[s], row, issued)
            BY <1>10, <2>2 DEF IInv
        <3> QED BY <1>0, <1>2, <3>1, FinishFits
    <2> QED BY <2>1, <2>2
<1>13. addons' \subseteq {a \in Accounts : Exists(a)'}
    BY <1>5, <1>6 DEF FinishCallback, IInv, Exists
<1> QED
    BY <1>2, <1>3, <1>7, <1>8, <1>11, <1>12, <1>13 DEF FinishCallback, IInv

LEMMA SaveSessionIInv ==
    ASSUME IInv, NEW r \in Requests, SaveSession(r)
    PROVE  IInv'
<1>1. request[r].session \in Accounts \cup {None}
    BY DEF IInv, Request
<1>2. session' \in [Browsers -> Accounts \cup {None}]
    BY <1>1 DEF SaveSession, IInv
<1> QED
    BY <1>2, EndIInv DEF SaveSession, IInv

LEMMA DeleteAccountIInv ==
    ASSUME IInv, NEW a \in Accounts, DeleteAccount(a)
    PROVE  IInv'
<1>1. account' \in [Accounts -> AccountRow \cup {None, Gone}]
    BY DEF DeleteAccount, IInv
<1>2. \A b \in Accounts : b # a => account'[b] = account[b]
    BY DEF DeleteAccount, IInv
<1>3. account'[a] = Gone
    BY DEF DeleteAccount, IInv
<1>4. \A b \in Accounts : Committed(b, account'[b], row', issued')
    BY <1>2, <1>3 DEF DeleteAccount, IInv, Committed
<1>5. addons' \subseteq {b \in Accounts : Exists(b)'}
    BY <1>2 DEF DeleteAccount, IInv, Exists
<1> QED
    BY <1>1, <1>4, <1>5 DEF DeleteAccount, IInv

\* Every step preserves the inductive invariant.
LEMMA NextIInv == IInv /\ [Next]_vars => IInv'
<1> SUFFICES ASSUME IInv, [Next]_vars PROVE IInv'
    OBVIOUS
<1>1. ASSUME NEW r \in Requests, NEW b \in Browsers, NEW a \in Accounts,
             CreateAccount(r, b, a) \/ LoadForPatch(r, b, a)
      PROVE  IInv'
    BY <1>1, CreateAccountIInv, LoadForPatchIInv
<1>2. ASSUME NEW r \in Requests, PatchAccount(r) \/ PatchWithOAuth(r) PROVE IInv'
    BY <1>2, PatchAccountIInv, PatchWithOAuthIInv
<1>3. ASSUME NEW r \in Requests, NEW b \in Browsers, LoadForCallback(r, b) PROVE IInv'
    BY <1>3, LoadForCallbackIInv
<1>4. ASSUME NEW r \in Requests, NEW t \in Tokens, GetAccessToken(r, t) PROVE IInv'
    BY <1>4, GetAccessTokenIInv
<1>5. ASSUME NEW r \in Requests, FinishCallback(r) PROVE IInv'
    BY <1>5, FinishCallbackIInv
<1>6. ASSUME NEW r \in Requests, Fail(r) PROVE IInv'
    BY <1>6, EndIInv DEF Fail, IInv
<1>7. ASSUME NEW r \in Requests, SaveSession(r) PROVE IInv'
    BY <1>7, SaveSessionIInv
<1>8. ASSUME NEW a \in Accounts, DeleteAccount(a) PROVE IInv'
    BY <1>8, DeleteAccountIInv
<1>9. ASSUME NEW a \in Accounts, ConnectAddon(a) PROVE IInv'
    BY <1>9 DEF ConnectAddon, IInv, Exists
<1>10. CASE UNCHANGED vars
    BY <1>10 DEF vars, IInv, Exists
<1> QED
    BY <1>1, <1>2, <1>3, <1>4, <1>5, <1>6, <1>7, <1>8, <1>9, <1>10 DEF Next

LEMMA Invariance == Spec => []IInv
BY InitIInv, NextIInv, PTL DEF Spec

-----------------------------------------------------------------------------
\* An account always refers to rows that are there and hold what they should.
THEOREM OAuth1TypeCorrect == Spec => []TypeOK
BY IInvTypeOK, Invariance, PTL

\* The access token of an account was given for a flow of this account,
\* whichever flows are started in a browser and whichever it comes back from.
THEOREM TokensBelongToAccounts == Spec => []TokensOfAccount
<1>1. IInv => TokensOfAccount
    BY DEF IInv, Committed, Refers, Exists, TokensOfAccount
<1> QED
    BY <1>1, Invariance, PTL

\* No account offers the token again that it got its access token for.
THEOREM TokensAreOfferedOnce == Spec => []AuthUrlUnused
<1>1. ASSUME IInv, NEW a \in Accounts, Exists(a),
             account[a].temporary # None, account[a].credentials # None
      PROVE  row[account[a].temporary].token # row[account[a].credentials].token
    <2> DEFINE c == account[a].temporary
               d == account[a].credentials
    <2>1. Refers(a, account[a], row, issued) /\ row[c] # Gone
        BY <1>1 DEF IInv, Committed, Exists
    <2>2. c \in Rows /\ d \in Rows
        BY <1>1, <2>1, AccountRowFields DEF Refers
    <2>3. IsTemporary(c, row) /\ row[d] \in Content /\ row[d].kind = "access"
        BY <1>1, <2>1 DEF Refers
    <2>4. c # d
        BY <2>3 DEF IsTemporary
    <2> QED BY <1>1, <2>2, <2>3, <2>4 DEF IInv, RowsOK
<1>2. IInv => AuthUrlUnused
    BY <1>1 DEF AuthUrlUnused
<1> QED
    BY <1>2, Invariance, PTL

\* What a step may do to accounts and to those that have addons.
LEMMA KeptStep ==
    ASSUME IInv, [Next]_vars, NEW a \in Accounts
    PROVE  /\ Exists(a) /\ account'[a] \in {None, Gone} => DeleteAccount(a)
           /\ a \in addons \ addons' =>
                \/ DeleteAccount(a)
                \/ \E r \in Requests : request[r].account = a /\ FinishCallback(r)
<1> DEFINE Kept == /\ Exists(a) => account'[a] \notin {None, Gone}
                   /\ a \in addons => a \in addons'
<1>0. account \in [Accounts -> AccountRow \cup {None, Gone}]
    BY DEF IInv
<1>1. ASSUME NEW r \in Requests, NEW b \in Browsers, NEW e \in Accounts,
             CreateAccount(r, b, e)
      PROVE  Kept
    BY <1>0, <1>1 DEF CreateAccount, Exists
<1>2. ASSUME NEW r \in Requests, PatchAccount(r) \/ PatchWithOAuth(r) PROVE Kept
    <2>1. request[r].row \in AccountRow
        BY <1>2 DEF PatchAccount, PatchWithOAuth, IInv, Fits, Refers
    <2>3. CASE PatchAccount(r)
        BY <1>0, <2>1, <2>3, AccountRowFields DEF PatchAccount, Save, Exists
    <2>4. CASE PatchWithOAuth(r)
        <3>1. PICK c \in IF request[r].row.temporary = None THEN FreshRows
                         ELSE {request[r].row.temporary} :
                account' = [account EXCEPT ![request[r].account] =
                                [request[r].row EXCEPT !.temporary = c]]
            BY <2>4 DEF PatchWithOAuth, Save
        <3>2. c \in Rows
            BY <2>1, AccountRowFields DEF FreshRows
        <3>3. [request[r].row EXCEPT !.temporary = c] \notin {None, Gone}
            BY <2>1, <3>2, AccountRowFields
        <3> QED BY <1>0, <2>4, <3>1, <3>3 DEF PatchWithOAuth, Exists
    <2> QED BY <1>2, <2>3, <2>4
<1>3. ASSUME NEW r \in Requests, FinishCallback(r)
      PROVE  /\ Exists(a) => account'[a] \notin {None, Gone}
             /\ a \in addons \ addons' => request[r].account = a
    <2>1. request[r].phase = "exchanged"
        BY <1>3 DEF FinishCallback
    <2>2. Cascade(request[r].row.temporary) \subseteq {request[r].account}
        BY <2>1, CascadeOwn
    <2>3. PICK c \in CredentialsRows(request[r].row) :
            account' = [b \in Accounts |->
                        IF b = request[r].account THEN [credentials |-> c, temporary |-> None]
                        ELSE IF b \in Cascade(request[r].row.temporary) THEN Gone ELSE account[b]]
        BY <1>3 DEF FinishCallback
    <2>4. [credentials |-> c, temporary |-> None] \in AccountRow
        BY <2>1, FinishRows DEF AccountRow
    <2>5. [credentials |-> c, temporary |-> None] \notin {None, Gone}
        BY <2>4, AccountRowFields
    <2> QED BY <1>3, <2>2, <2>3, <2>5 DEF FinishCallback, Exists
<1>4. ASSUME NEW e \in Accounts, DeleteAccount(e) PROVE a = e \/ Kept
    BY <1>0, <1>4 DEF DeleteAccount, Exists
<1>5. CASE account' = account /\ addons \subseteq addons'
    BY <1>5 DEF Exists
<1> QED
    BY <1>1, <1>2, <1>3, <1>4, <1>5
    DEF Next, vars, LoadForPatch, LoadForCallback, GetAccessToken, Fail, SaveSession,
        ConnectAddon, Exists

\* No request but DELETE removes an account; and only finishing a flow removes
\* its configured addons otherwise, those of its own account.
THEOREM AddonsAreKept == Spec => AddonsKeptUntilCallback
<1>1. IInv /\ [Next]_vars =>
        [\A a \in Accounts :
            /\ Exists(a) /\ account'[a] \in {None, Gone} => DeleteAccount(a)
            /\ a \in addons \ addons' =>
                \/ DeleteAccount(a)
                \/ \E r \in Requests : request[r].account = a /\ FinishCallback(r)]_vars
    BY KeptStep
<1> QED
    BY <1>1, Invariance, PTL DEF Spec, AddonsKeptUntilCallback
=============================================================================
