----------------------- MODULE ConfiguredAddon_proofs -----------------------
(***************************************************************************)
(* Proofs about ConfiguredAddon: types, that what is committed was         *)
(* announced and checked, that removals are announced and links become     *)
(* known, for any number of users, accounts, addons and overlapping        *)
(* requests.                                                               *)
(***************************************************************************)
EXTENDS ConfiguredAddon, TLAPS

\* What a request that has come so far knows: the row in memory is a row; its
\* addon was announced when it was created; capabilities were checked before
\* they were written; a removal was announced before the row is deleted.
Fits(q, told) ==
    /\ q.phase \notin {"idle", "deleting", "deleted"} => q.row \in Row
    /\ q.phase \notin {"idle", "checked"} =>
        q.addon \in Addons /\ <<"addon_added", q.addon>> \in told
    /\ q.phase \in {"created", "saved"} => q.row.caps \subseteq q.caps
    /\ q.phase = "deleted" => <<"addon_removed", q.addon>> \in told

\* Foreign keys of committed rows.
AccountsExist == \A a \in Committed : account[addon[a].account] # None

\* The inductive invariant.
IInv ==
    /\ TypeOK
    /\ AccountsExist
    /\ EveryAddonAnnounced
    /\ \A r \in Requests : Fits(request[r], sent)

\* The idle request has its type, and knows nothing.
LEMMA IdleFits == Idle \in Request /\ Idle.phase = "idle" /\ \A told : Fits(Idle, told)
BY DEF Idle, Request, Phases, Fits

\* The fields of a request have their types.
LEMMA RequestFields ==
    ASSUME TypeOK, NEW r \in Requests
    PROVE  /\ request[r] \in Request
           /\ request[r].phase \in Phases
           /\ request[r].user \in Users \cup {None}
           /\ request[r].addon \in Addons \cup {None}
           /\ request[r].row \in Row \cup {None}
           /\ request[r].caps \subseteq Capabilities
BY DEF TypeOK, Request

\* The fields of a row have their types.
LEMMA RowFields ==
    ASSUME NEW row \in Row
    PROVE  /\ row.account \in Accounts
           /\ row.resource \in Resources
           /\ row.caps \subseteq Capabilities
           /\ row.target \in Targets \cup {None}
           /\ row # None
BY AddonAssumption DEF Row

\* A link is announced with an item, never without.
LEMMA LinkTasks ==
    ASSUME NEW a \in Addons, NEW row \in Row
    PROVE  UpdateVerifiedLinks(a, row) \subseteq
               [addon: Addons, resource: Resources, target: Targets]
BY RowFields DEF UpdateVerifiedLinks

\* When one request goes on, and no task is taken back, the others still fit.
LEMMA RequestChange ==
    ASSUME IInv, NEW r \in Requests, NEW q \in Request,
           request' = [request EXCEPT ![r] = q],
           sent \subseteq sent', Fits(q, sent')
    PROVE  /\ request' \in [Requests -> Request]
           /\ \A s \in Requests : Fits(request'[s], sent')
<1>1. request' \in [Requests -> Request]
    BY DEF IInv, TypeOK
<1>2. ASSUME NEW s \in Requests PROVE Fits(request'[s], sent')
    <2>1. CASE s = r
        BY <2>1 DEF IInv, TypeOK
    <2>2. CASE s # r
        BY <2>2 DEF IInv, TypeOK, Fits
    <2> QED BY <2>1, <2>2
<1> QED BY <1>1, <1>2

\* A request that ends.
LEMMA EndFits ==
    ASSUME IInv, NEW r \in Requests, End(r), UNCHANGED sent
    PROVE  /\ request' \in [Requests -> Request]
           /\ \A s \in Requests : Fits(request'[s], sent')
BY IdleFits, RequestChange DEF End

\* A request goes on and tables stay as they are.
LEMMA KeepsTables ==
    ASSUME IInv, NEW r \in Requests, NEW q \in Request,
           request' = [request EXCEPT ![r] = q],
           UNCHANGED <<active, account, addon, verified, missed>>,
           sent \subseteq sent',
           sent' \subseteq {"addon_added", "addon_removed"} \X Addons,
           pending' \subseteq [addon: Addons, resource: Resources, target: Targets],
           Fits(q, sent')
    PROVE  IInv'
<1>1. /\ request' \in [Requests -> Request]
      /\ \A s \in Requests : Fits(request'[s], sent')
    BY RequestChange
<1>2. TypeOK'
    BY <1>1 DEF IInv, TypeOK
<1>3. Committed' = Committed
    BY DEF Committed
<1>4. AccountsExist' /\ EveryAddonAnnounced'
    BY <1>3 DEF IInv, AccountsExist, EveryAddonAnnounced
<1> QED
    BY <1>1, <1>2, <1>4 DEF IInv

\* A request that ends by writing the row in memory, if its account is there.
LEMMA WritesRow ==
    ASSUME IInv, NEW r \in Requests,
           request[r].phase \in {"created", "saved"},
           \/ addon' = addon
           \/ /\ addon' = [addon EXCEPT ![request[r].addon] = request[r].row]
              /\ account[request[r].row.account] # None,
           End(r),
           UNCHANGED <<active, account, sent, pending, verified, missed>>
    PROVE  IInv'
<1> DEFINE b == request[r].addon
           row == request[r].row
<1>1. /\ request' \in [Requests -> Request]
      /\ \A s \in Requests : Fits(request'[s], sent')
    BY EndFits
<1>2. b \in Addons /\ row \in Row /\ <<"addon_added", b>> \in sent
    BY DEF IInv, Fits
<1>3. addon' \in [Addons -> Row \cup {None}]
    BY <1>2 DEF IInv, TypeOK
<1>4. TypeOK'
    BY <1>1, <1>3 DEF IInv, TypeOK
<1>5. ASSUME NEW a \in Addons, addon'[a] # None
      PROVE  account'[addon'[a].account] # None /\ <<"addon_added", a>> \in sent'
    <2>1. CASE addon'[a] = addon[a]
        BY <2>1, <1>5 DEF IInv, AccountsExist, EveryAddonAnnounced, Committed
    <2>2. CASE addon'[a] # addon[a]
        <3>1. a = b /\ addon'[a] = row /\ account[row.account] # None
            BY <1>2, <2>2 DEF IInv, TypeOK
        <3> QED BY <1>2, <3>1
    <2> QED BY <2>1, <2>2
<1> QED
    BY <1>1, <1>4, <1>5 DEF IInv, AccountsExist, EveryAddonAnnounced, Committed

\* The initial state satisfies the inductive invariant.
LEMMA InitIInv == Init => IInv
<1> SUFFICES ASSUME Init PROVE IInv
    OBVIOUS
<1>1. TypeOK
    BY IdleFits DEF Init, TypeOK
<1>2. Committed = {}
    BY DEF Init, Committed
<1> QED
    BY <1>1, <1>2, IdleFits DEF Init, IInv, AccountsExist, EveryAddonAnnounced

\* POST.
LEMMA CheckUniqueIInv ==
    ASSUME IInv, NEW r \in Requests, NEW u \in Users, NEW a \in Accounts,
           NEW res \in Resources, CheckUnique(r, u, a, res)
    PROVE  IInv'
<1>1. PICK caps \in SUBSET Capabilities, target \in Targets \cup {None} :
        request' = [request EXCEPT ![r] =
            [phase |-> "checked", user |-> u, addon |-> None, caps |-> account[a],
             row |-> [account |-> a, resource |-> res, caps |-> caps, target |-> target]]]
    BY DEF CheckUnique
<1> DEFINE row == [account |-> a, resource |-> res, caps |-> caps, target |-> target]
           q == [phase |-> "checked", user |-> u, addon |-> None, caps |-> account[a],
                 row |-> row]
<1>2. row \in Row
    BY DEF Row
<1>3. account[a] \subseteq Capabilities
    BY DEF CheckUnique, IInv, TypeOK
<1> HIDE DEF row
<1>4. q \in Request /\ Fits(q, sent)
    BY <1>2, <1>3 DEF Request, Phases, Fits
<1>5. request' = [request EXCEPT ![r] = q]
    BY <1>1 DEF row
<1> HIDE DEF q
<1> QED
    BY <1>4, <1>5, KeepsTables DEF CheckUnique, IInv, TypeOK

\* An action that may only end its request.
LEMMA EndIInv ==
    ASSUME IInv, NEW r \in Requests, End(r),
           UNCHANGED <<active, account, addon, sent, pending, verified, missed>>
    PROVE  IInv'
BY IdleFits, KeepsTables DEF End, IInv, TypeOK

LEMMA CreateAddonIInv ==
    ASSUME IInv, NEW r \in Requests, CreateAddon(r)
    PROVE  IInv'
<1> DEFINE row == request[r].row
<1>0. request[r] \in Request /\ row \in Row /\ request[r].phase = "checked"
    BY RequestFields DEF CreateAddon, IInv, Fits
<1>1. CASE IsClean(r, row) /\ account[row.account] # None
    <2>1. PICK a \in Addons \ Committed :
            /\ request' = [request EXCEPT ![r] = [@ EXCEPT !.phase = "created", !.addon = a]]
            /\ sent' = sent \cup {<<"addon_added", a>>}
            /\ pending' = pending \cup UpdateVerifiedLinks(a, row)
        BY <1>1 DEF CreateAddon
    <2> DEFINE q == [request[r] EXCEPT !.phase = "created", !.addon = a]
    <2>2. /\ q \in Request
          /\ q.phase = "created" /\ q.addon = a /\ q.row = row /\ q.caps = request[r].caps
        BY <1>0 DEF Request, Phases
    <2>3. request' = [request EXCEPT ![r] = q]
        BY <2>1
    <2> HIDE DEF q
    <2>4. Fits(q, sent')
        BY <1>0, <1>1, <2>1, <2>2 DEF Fits, IsClean
    <2>5. pending' \subseteq [addon: Addons, resource: Resources, target: Targets]
        BY <1>0, <2>1, LinkTasks DEF IInv, TypeOK
    <2>6. sent \subseteq sent' /\ sent' \subseteq {"addon_added", "addon_removed"} \X Addons
        BY <2>1 DEF IInv, TypeOK
    <2>7. UNCHANGED <<active, account, addon, verified, missed>>
        BY DEF CreateAddon
    <2> QED
        BY <2>2, <2>3, <2>4, <2>5, <2>6, <2>7, KeepsTables
<1>2. CASE ~(IsClean(r, row) /\ account[row.account] # None)
    BY <1>2, EndIInv DEF CreateAddon
<1> QED BY <1>1, <1>2

LEMMA FinishCreateIInv ==
    ASSUME IInv, NEW r \in Requests, FinishCreate(r)
    PROVE  IInv'
BY WritesRow DEF FinishCreate

\* PATCH and DELETE.
LEMMA LoadIInv ==
    ASSUME IInv, NEW r \in Requests, NEW u \in Users, NEW a \in Addons,
           LoadForUpdate(r, u, a) \/ LoadForDelete(r, u, a)
    PROVE  IInv'
<1> DEFINE load == [phase |-> "loaded", user |-> None, addon |-> a, row |-> addon[a],
                    caps |-> account[addon[a].account]]
           delete == [phase |-> "deleting", user |-> None, addon |-> a, row |-> None,
                      caps |-> {}]
<1>1. /\ addon[a] \in Row
      /\ account[addon[a].account] # None
      /\ <<"addon_added", a>> \in sent
    BY DEF LoadForUpdate, LoadForDelete, Load, Visible, Committed, IInv, TypeOK,
           AccountsExist, EveryAddonAnnounced
<1>2. account[addon[a].account] \subseteq Capabilities
    BY <1>1, RowFields DEF IInv, TypeOK
<1>3. load \in Request /\ Fits(load, sent)
    BY <1>1, <1>2 DEF Request, Phases, Fits
<1>4. delete \in Request /\ Fits(delete, sent)
    BY <1>1 DEF Request, Phases, Fits
<1>5. \/ request' = [request EXCEPT ![r] = load]
      \/ request' = [request EXCEPT ![r] = delete]
    BY DEF LoadForUpdate, LoadForDelete, Load
<1>6. UNCHANGED <<active, account, addon, sent, pending, verified, missed>>
    BY DEF LoadForUpdate, LoadForDelete, Load
<1> HIDE DEF load, delete
<1> QED
    BY <1>3, <1>4, <1>5, <1>6, KeepsTables DEF IInv, TypeOK

LEMMA UpdateAddonIInv ==
    ASSUME IInv, NEW r \in Requests, UpdateAddon(r)
    PROVE  IInv'
<1> DEFINE b == request[r].addon
           row == request[r].row
<1>0. /\ request[r] \in Request /\ row \in Row /\ b \in Addons
      /\ request[r].phase = "loaded" /\ <<"addon_added", b>> \in sent
    BY RequestFields DEF UpdateAddon, IInv, Fits
<1>1. PICK change \in Changes(r) :
        IF change.row.caps \subseteq change.caps /\ account[change.row.account] # None
        THEN /\ request' = [request EXCEPT ![r] =
                    [@ EXCEPT !.phase = "saved", !.row = change.row, !.caps = change.caps]]
             /\ pending' = pending \cup UpdateVerifiedLinks(b, change.row)
        ELSE End(r) /\ UNCHANGED pending
    BY DEF UpdateAddon
<1>2. change.row \in Row /\ change.caps \subseteq Capabilities
    <2>1. request[r].caps \subseteq Capabilities
        BY RequestFields DEF IInv
    <2>2. ASSUME NEW x \in Row, account[x.account] # None
          PROVE  account[x.account] \subseteq Capabilities
        BY <2>2, RowFields DEF IInv, TypeOK
    <2> QED BY <2>1, <2>2 DEF Changes
<1>3. CASE change.row.caps \subseteq change.caps /\ account[change.row.account] # None
    <2> DEFINE q == [request[r] EXCEPT !.phase = "saved", !.row = change.row, !.caps = change.caps]
    <2>1. /\ q \in Request
          /\ q.phase = "saved" /\ q.addon = b /\ q.row = change.row /\ q.caps = change.caps
        BY <1>0, <1>2 DEF Request, Phases
    <2>2. request' = [request EXCEPT ![r] = q]
        BY <1>1, <1>3
    <2> HIDE DEF q
    <2>3. Fits(q, sent)
        BY <1>0, <1>2, <1>3, <2>1 DEF Fits
    <2>4. pending' \subseteq [addon: Addons, resource: Resources, target: Targets]
        BY <1>0, <1>1, <1>2, <1>3, LinkTasks DEF IInv, TypeOK
    <2>5. UNCHANGED <<active, account, addon, sent, verified, missed>>
        BY DEF UpdateAddon
    <2>6. sent' \subseteq {"addon_added", "addon_removed"} \X Addons
        BY <2>5 DEF IInv, TypeOK
    <2> QED
        BY <2>1, <2>2, <2>3, <2>4, <2>5, <2>6, KeepsTables
<1>4. CASE ~(change.row.caps \subseteq change.caps /\ account[change.row.account] # None)
    BY <1>1, <1>4, EndIInv DEF UpdateAddon
<1> QED BY <1>3, <1>4

LEMMA FinishUpdateIInv ==
    ASSUME IInv, NEW r \in Requests, FinishUpdate(r)
    PROVE  IInv'
BY WritesRow DEF FinishUpdate

LEMMA DeleteAddonIInv ==
    ASSUME IInv, NEW r \in Requests, DeleteAddon(r)
    PROVE  IInv'
<1> DEFINE q == [request[r] EXCEPT !.phase = "deleted"]
<1>1. /\ request[r] \in Request /\ request[r].addon \in Addons
      /\ <<"addon_added", request[r].addon>> \in sent
    BY RequestFields DEF DeleteAddon, IInv, Fits
<1>2. q \in Request /\ q.phase = "deleted" /\ q.addon = request[r].addon
    BY <1>1 DEF Request, Phases
<1>3. request' = [request EXCEPT ![r] = q] /\ sent' = sent \cup {<<"addon_removed", q.addon>>}
    BY <1>2 DEF DeleteAddon
<1> HIDE DEF q
<1>4. Fits(q, sent')
    BY <1>1, <1>2, <1>3 DEF Fits
<1>5. sent' \subseteq {"addon_added", "addon_removed"} \X Addons
    BY <1>1, <1>2, <1>3 DEF IInv, TypeOK
<1> QED
    BY <1>2, <1>3, <1>4, <1>5, KeepsTables DEF DeleteAddon, IInv, TypeOK

LEMMA FinishDeleteIInv ==
    ASSUME IInv, NEW r \in Requests, FinishDelete(r)
    PROVE  IInv'
<1>1. /\ request' \in [Requests -> Request]
      /\ \A s \in Requests : Fits(request'[s], sent')
    BY EndFits DEF FinishDelete
<1>2. TypeOK'
    BY <1>1 DEF FinishDelete, IInv, TypeOK
<1>3. \A a \in Committed' : a \in Committed /\ addon'[a] = addon[a]
    BY DEF FinishDelete, Committed, IInv, TypeOK
<1>4. AccountsExist' /\ EveryAddonAnnounced'
    BY <1>3 DEF FinishDelete, IInv, AccountsExist, EveryAddonAnnounced
<1> QED
    BY <1>1, <1>2, <1>4 DEF IInv

\* What happens to accounts, users and tasks.
LEMMA PatchAccountIInv ==
    ASSUME IInv, NEW a \in Accounts, PatchAccount(a)
    PROVE  IInv'
<1>1. PICK caps \in SUBSET Capabilities : account' = [account EXCEPT ![a] = caps]
    BY DEF PatchAccount
<1>2. caps # None
    BY AddonAssumption
<1>3. TypeOK'
    BY <1>1 DEF PatchAccount, IInv, TypeOK
<1>4. ASSUME NEW b \in Committed' PROVE account'[addon'[b].account] # None
    BY <1>1, <1>2 DEF PatchAccount, IInv, TypeOK, AccountsExist, Committed
<1>5. EveryAddonAnnounced'
    BY DEF PatchAccount, IInv, EveryAddonAnnounced, Committed
<1>6. \A s \in Requests : Fits(request'[s], sent')
    BY DEF PatchAccount, IInv
<1> QED
    BY <1>3, <1>4, <1>5, <1>6 DEF IInv, AccountsExist

LEMMA DeleteAccountIInv ==
    ASSUME IInv, NEW a \in Accounts, DeleteAccount(a)
    PROVE  IInv'
<1>1. TypeOK'
    BY DEF DeleteAccount, IInv, TypeOK
<1>2. ASSUME NEW b \in Committed'
      PROVE  b \in Committed /\ addon'[b] = addon[b] /\ addon[b].account # a
    BY DEF DeleteAccount, IInv, TypeOK, Committed
<1>3. ASSUME NEW b \in Committed' PROVE account'[addon'[b].account] # None
    <2>1. /\ b \in Committed /\ addon'[b] = addon[b] /\ addon[b].account # a
          /\ addon[b] \in Row
        BY <1>2 DEF IInv, TypeOK, Committed
    <2>2. account'[addon[b].account] = account[addon[b].account]
        BY <2>1, RowFields DEF DeleteAccount, IInv, TypeOK
    <2> QED BY <2>1, <2>2 DEF IInv, AccountsExist
<1>4. EveryAddonAnnounced'
    BY <1>2 DEF DeleteAccount, IInv, EveryAddonAnnounced
<1>5. \A s \in Requests : Fits(request'[s], sent')
    BY DEF DeleteAccount, IInv
<1> QED
    BY <1>1, <1>3, <1>4, <1>5 DEF IInv, AccountsExist

\* Steps that touch neither accounts, addons nor requests.
LEMMA QuietIInv ==
    ASSUME IInv, UNCHANGED <<account, addon, sent, request>>,
           active' \subseteq Users,
           pending' \subseteq [addon: Addons, resource: Resources, target: Targets],
           verified' \in [Resources -> SUBSET [addon: Addons, target: Targets]],
           missed' \in [Resources -> SUBSET [addon: Addons, target: Targets]]
    PROVE  IInv'
<1>1. TypeOK'
    BY DEF IInv, TypeOK
<1> QED
    BY <1>1 DEF IInv, AccountsExist, EveryAddonAnnounced, Committed

LEMMA FetchIInv ==
    ASSUME IInv, NEW m \in pending, FetchVerifiedLinks(m)
    PROVE  IInv'
<1>1. m.resource \in Resources
    BY DEF IInv, TypeOK
<1>2. VerifiedLinks(m.resource) \subseteq [addon: Addons, target: Targets]
    <2>1. ASSUME NEW a \in Committed, addon[a].target # None
          PROVE  [addon |-> a, target |-> addon[a].target] \in [addon: Addons, target: Targets]
        <3>1. a \in Addons /\ addon[a] \in Row
            BY DEF Committed, IInv, TypeOK
        <3> QED BY <2>1, <3>1, RowFields
    <2> QED BY <2>1 DEF VerifiedLinks
<1>3. verified' \in [Resources -> SUBSET [addon: Addons, target: Targets]]
    BY <1>1, <1>2 DEF FetchVerifiedLinks, IInv, TypeOK
<1>4. SavedLinks(m.resource) \subseteq [addon: Addons, target: Targets]
    <2>1. ASSUME NEW r \in Requests, request[r].phase \in {"created", "saved"},
                 request[r].row.target # None
          PROVE  [addon |-> request[r].addon, target |-> request[r].row.target]
                     \in [addon: Addons, target: Targets]
        <3>1. request[r].addon \in Addons /\ request[r].row \in Row
            BY <2>1 DEF IInv, Fits
        <3> QED BY <2>1, <3>1, RowFields
    <2> QED BY <2>1 DEF SavedLinks
<1>5. missed' \in [Resources -> SUBSET [addon: Addons, target: Targets]]
    BY <1>1, <1>4 DEF FetchVerifiedLinks, IInv, TypeOK
<1> QED
    BY <1>3, <1>5, QuietIInv DEF FetchVerifiedLinks, IInv, TypeOK

\* Every step preserves the inductive invariant.
LEMMA NextIInv == IInv /\ [Next]_vars => IInv'
<1> SUFFICES ASSUME IInv, [Next]_vars PROVE IInv'
    OBVIOUS
<1>1. ASSUME NEW r \in Requests, NEW u \in Users, NEW a \in Accounts,
             NEW res \in Resources, CheckUnique(r, u, a, res)
      PROVE  IInv'
    BY <1>1, CheckUniqueIInv
<1>2. ASSUME NEW r \in Requests, NEW u \in Users, NEW a \in Addons,
             LoadForUpdate(r, u, a) \/ LoadForDelete(r, u, a)
      PROVE  IInv'
    BY <1>2, LoadIInv
<1>3. ASSUME NEW r \in Requests, CreateAddon(r) \/ FinishCreate(r) PROVE IInv'
    BY <1>3, CreateAddonIInv, FinishCreateIInv
<1>4. ASSUME NEW r \in Requests, UpdateAddon(r) \/ FinishUpdate(r) PROVE IInv'
    BY <1>4, UpdateAddonIInv, FinishUpdateIInv
<1>5. ASSUME NEW r \in Requests, DeleteAddon(r) \/ FinishDelete(r) PROVE IInv'
    BY <1>5, DeleteAddonIInv, FinishDeleteIInv
<1>6. ASSUME NEW a \in Accounts, PatchAccount(a) \/ DeleteAccount(a) PROVE IInv'
    BY <1>6, PatchAccountIInv, DeleteAccountIInv
<1>7. ASSUME NEW u \in Users, UserDeactivated(u) \/ UserReactivated(u) PROVE IInv'
    BY <1>7, QuietIInv DEF UserDeactivated, UserReactivated, IInv, TypeOK
<1>8. ASSUME NEW m \in pending, FetchVerifiedLinks(m) PROVE IInv'
    BY <1>8, FetchIInv
<1>9. CASE UNCHANGED vars
    BY <1>9, QuietIInv DEF vars, IInv, TypeOK
<1> QED
    BY <1>1, <1>2, <1>3, <1>4, <1>5, <1>6, <1>7, <1>8, <1>9 DEF Next

LEMMA Invariance == Spec => []IInv
BY InitIInv, NextIInv, PTL DEF Spec

-----------------------------------------------------------------------------
\* Rows, tasks and requests always hold what their columns may hold.
THEOREM AddonTypeCorrect == Spec => []TypeOK
<1>1. IInv => TypeOK
    BY DEF IInv
<1> QED
    BY <1>1, Invariance, PTL

\* OSF is told of every configured addon that exists, whatever requests overlap.
THEOREM AddonsAreAnnounced == Spec => []EveryAddonAnnounced
<1>1. IInv => EveryAddonAnnounced
    BY DEF IInv
<1> QED
    BY <1>1, Invariance, PTL

\* What a step writes to a row of configured addons was in the memory of one
\* request, which had seen the capabilities of the account.
LEMMA WritersStep ==
    ASSUME IInv, [Next]_vars, NEW a \in Addons, addon'[a] \notin {addon[a], None}
    PROVE  \E r \in Requests : /\ request[r].addon = a
                               /\ request[r].phase \in {"created", "saved"}
                               /\ addon'[a].account = request[r].row.account
                               /\ addon'[a].caps \subseteq request[r].caps
<1>0. addon \in [Addons -> Row \cup {None}]
    BY DEF IInv, TypeOK
<1>1. ASSUME NEW r \in Requests, FinishCreate(r) \/ FinishUpdate(r)
      PROVE  /\ request[r].addon = a
             /\ request[r].phase \in {"created", "saved"}
             /\ addon'[a].account = request[r].row.account
             /\ addon'[a].caps \subseteq request[r].caps
    <2>1. request[r].phase \in {"created", "saved"}
        BY <1>1 DEF FinishCreate, FinishUpdate
    <2>2. request[r].row.caps \subseteq request[r].caps /\ request[r].addon \in Addons
        BY <2>1 DEF IInv, Fits
    <2>3. addon' \in {addon, [addon EXCEPT ![request[r].addon] = request[r].row]}
        BY <1>1 DEF FinishCreate, FinishUpdate
    <2>4. request[r].addon = a /\ addon'[a] = request[r].row
        BY <1>0, <2>2, <2>3
    <2> QED BY <2>1, <2>2, <2>4
<1>2. ASSUME NEW r \in Requests, FinishDelete(r) PROVE FALSE
    BY <1>0, <1>2 DEF FinishDelete
<1>3. ASSUME NEW b \in Accounts, DeleteAccount(b) PROVE FALSE
    BY <1>0, <1>3 DEF DeleteAccount
<1>4. CASE addon' = addon
    BY <1>4
<1> QED
    BY <1>1, <1>2, <1>3, <1>4
    DEF Next, vars, CheckUnique, Load, LoadForUpdate, LoadForDelete, CreateAddon,
        UpdateAddon, DeleteAddon, PatchAccount, UserDeactivated, UserReactivated,
        FetchVerifiedLinks

\* No mixture of two requests is committed: the capabilities of a row are
\* written with an account that was seen to authorize them.
THEOREM CapabilitiesAreChecked == Spec => CapabilitiesChecked
<1>1. IInv /\ [Next]_vars =>
        [\A a \in Addons :
            addon'[a] \notin {addon[a], None} =>
                \E r \in Requests : /\ request[r].addon = a
                                    /\ request[r].phase \in {"created", "saved"}
                                    /\ addon'[a].account = request[r].row.account
                                    /\ addon'[a].caps \subseteq request[r].caps]_vars
    BY WritersStep
<1> QED
    BY <1>1, Invariance, PTL DEF Spec, CapabilitiesChecked

\* A configured addon that vanishes was announced, or its account vanishes too.
LEMMA RemovalStep ==
    ASSUME IInv, [Next]_vars, NEW a \in Committed, addon'[a] = None
    PROVE  \/ <<"addon_removed", a>> \in sent
           \/ account'[addon[a].account] = None
<1>0. addon \in [Addons -> Row \cup {None}] /\ a \in Addons /\ addon[a] # None
    BY DEF IInv, TypeOK, Committed
<1>1. ASSUME NEW r \in Requests, FinishCreate(r) \/ FinishUpdate(r) PROVE FALSE
    <2>1. request[r].phase \in {"created", "saved"}
        BY <1>1 DEF FinishCreate, FinishUpdate
    <2>2. request[r].row # None
        BY <2>1, RowFields DEF IInv, Fits
    <2>3. addon' \in {addon, [addon EXCEPT ![request[r].addon] = request[r].row]}
        BY <1>1 DEF FinishCreate, FinishUpdate
    <2> QED BY <1>0, <2>2, <2>3
<1>2. ASSUME NEW r \in Requests, FinishDelete(r) PROVE <<"addon_removed", a>> \in sent
    <2>1. <<"addon_removed", request[r].addon>> \in sent
        BY <1>2 DEF FinishDelete, IInv, Fits
    <2>2. request[r].addon = a
        BY <1>0, <1>2 DEF FinishDelete
    <2> QED BY <2>1, <2>2
<1>3. ASSUME NEW b \in Accounts, DeleteAccount(b)
      PROVE  account'[addon[a].account] = None
    <2>1. addon[a].account = b
        BY <1>0, <1>3 DEF DeleteAccount
    <2> QED BY <1>3, <2>1 DEF DeleteAccount, IInv, TypeOK
<1>4. CASE addon' = addon
    BY <1>0, <1>4
<1> QED
    BY <1>1, <1>2, <1>3, <1>4
    DEF Next, vars, CheckUnique, Load, LoadForUpdate, LoadForDelete, CreateAddon,
        UpdateAddon, DeleteAddon, PatchAccount, UserDeactivated, UserReactivated,
        FetchVerifiedLinks

\* Every removal by a request is announced before it is committed; only the
\* addons of a deleted account vanish silently.
THEOREM RemovalsAreAnnounced == Spec => RemovalAnnounced
<1>1. IInv /\ [Next]_vars =>
        [\A a \in Committed :
            addon'[a] = None => \/ <<"addon_removed", a>> \in sent
                                \/ account'[addon[a].account] = None]_vars
    BY RemovalStep
<1> QED
    BY <1>1, Invariance, PTL DEF Spec, RemovalAnnounced
-----------------------------------------------------------------------------
\* A link that OSF did not find may have been in a request when it asked.
Missed(res, a, target) == [addon |-> a, target |-> target] \in missed[res]

\* A request that writes a row has sent the task of its link.  The task waits,
\* or was handled too early.
Awaited(r) ==
    LET q == request[r]
    IN q.phase \in {"created", "saved"} /\ q.row.target # None =>
           \/ UpdateVerifiedLinks(q.addon, q.row) \subseteq pending
           \/ Missed(q.row.resource, q.addon, q.row.target)

\* OSF knows the link of a committed row, or is going to ask, or asked too early.
LinkKnown(a) ==
    addon[a].target # None =>
        \/ UpdateVerifiedLinks(a, addon[a]) \subseteq pending
        \/ [addon |-> a, target |-> addon[a].target] \in verified[addon[a].resource]
        \/ Missed(addon[a].resource, a, addon[a].target)

\* The inductive invariant of the links.
LinksInv ==
    /\ \A a \in Committed : LinkKnown(a)
    /\ \A r \in Requests : Awaited(r)

\* A request goes on: it has sent the task of what it is about to write.
LEMMA SenderGoesOn ==
    ASSUME IInv, LinksInv, NEW r \in Requests, NEW q,
           request' = [request EXCEPT ![r] = q],
           UNCHANGED <<addon, verified, missed>>, pending \subseteq pending',
           q.phase \in {"created", "saved"} =>
               UpdateVerifiedLinks(q.addon, q.row) \subseteq pending'
    PROVE  LinksInv'
<1>1. ASSUME NEW a \in Committed' PROVE LinkKnown(a)'
    BY DEF LinksInv, LinkKnown, UpdateVerifiedLinks, Committed, Missed
<1>2. ASSUME NEW s \in Requests PROVE Awaited(s)'
    <2>1. CASE s = r
        <3>1. request'[s] = q
            BY <2>1 DEF IInv, TypeOK
        <3> QED BY <3>1 DEF Awaited, UpdateVerifiedLinks
    <2>2. CASE s # r
        <3>1. request'[s] = request[s]
            BY <2>2 DEF IInv, TypeOK
        <3> QED BY <3>1 DEF LinksInv, Awaited, UpdateVerifiedLinks, Missed
    <2> QED BY <2>1, <2>2
<1> QED BY <1>1, <1>2 DEF LinksInv

\* A request that writes nothing yet goes on, or ends.
LEMMA SilentGoesOn ==
    ASSUME IInv, LinksInv, NEW r \in Requests, NEW q,
           request' = [request EXCEPT ![r] = q],
           q.phase \notin {"created", "saved"},
           UNCHANGED <<addon, verified, missed, pending>>
    PROVE  LinksInv'
BY SenderGoesOn

\* Requests that end do not disturb the others.
LEMMA EndAwaited ==
    ASSUME IInv, LinksInv, NEW r \in Requests, End(r), UNCHANGED <<pending, missed>>
    PROVE  \A s \in Requests : Awaited(s)'
<1> SUFFICES ASSUME NEW s \in Requests PROVE Awaited(s)'
    OBVIOUS
<1>1. CASE s = r
    <2>1. request'[s].phase = "idle"
        BY <1>1, IdleFits DEF End, IInv, TypeOK
    <2> QED BY <2>1 DEF Awaited
<1>2. CASE s # r
    <2>1. request'[s] = request[s]
        BY <1>2 DEF End, IInv, TypeOK
    <2> QED BY <2>1 DEF LinksInv, Awaited, UpdateVerifiedLinks, Missed
<1> QED BY <1>1, <1>2

\* The task of a row that a request commits waits, or was handled too early.
LEMMA WritesKnownLink ==
    ASSUME IInv, LinksInv, NEW r \in Requests,
           request[r].phase \in {"created", "saved"},
           \/ addon' = addon
           \/ addon' = [addon EXCEPT ![request[r].addon] = request[r].row],
           End(r), UNCHANGED <<pending, verified, missed>>
    PROVE  LinksInv'
<1>1. ASSUME NEW a \in Committed' PROVE LinkKnown(a)'
    <2>1. CASE addon'[a] = addon[a]
        BY <2>1 DEF LinksInv, LinkKnown, UpdateVerifiedLinks, Committed, Missed
    <2>2. CASE addon'[a] # addon[a]
        <3>1. a = request[r].addon /\ addon'[a] = request[r].row
            BY <2>2 DEF IInv, TypeOK, Committed
        <3>2. Awaited(r)
            BY DEF LinksInv
        <3> QED BY <3>1, <3>2 DEF Awaited, LinkKnown, UpdateVerifiedLinks, Missed
    <2> QED BY <2>1, <2>2
<1> QED BY <1>1, EndAwaited DEF LinksInv

\* Rows that vanish leave the links of the others as they are.
LEMMA RowsVanish ==
    ASSUME LinksInv, UNCHANGED <<pending, verified, missed>>,
           \A a \in Committed' : a \in Committed /\ addon'[a] = addon[a],
           \A s \in Requests : Awaited(s)'
    PROVE  LinksInv'
BY DEF LinksInv, LinkKnown, UpdateVerifiedLinks, Missed

\* A task that is handled finds every link of the resource that is committed,
\* and what it does not find because a request is writing it has been missed.
LEMMA FetchKnowsLinks ==
    ASSUME IInv, LinksInv, NEW m \in pending, FetchVerifiedLinks(m)
    PROVE  LinksInv'
<1>0. /\ m.resource \in Resources
      /\ verified \in [Resources -> SUBSET [addon: Addons, target: Targets]]
      /\ missed \in [Resources -> SUBSET [addon: Addons, target: Targets]]
    BY DEF IInv, TypeOK
<1>1. ASSUME NEW a \in Committed' PROVE LinkKnown(a)'
    <2>0. a \in Committed /\ addon' = addon /\ addon[a] \in Row
        BY DEF FetchVerifiedLinks, Committed, IInv, TypeOK
    <2>1. CASE addon[a].target = None
        BY <2>0, <2>1 DEF LinkKnown
    <2>2. CASE addon[a].target # None /\ addon[a].resource = m.resource
        <3>1. [addon |-> a, target |-> addon[a].target] \in VerifiedLinks(m.resource)
            BY <2>0, <2>2 DEF VerifiedLinks
        <3>2. verified'[m.resource] = VerifiedLinks(m.resource)
            BY <1>0 DEF FetchVerifiedLinks
        <3> QED BY <2>0, <2>2, <3>1, <3>2 DEF LinkKnown
    <2>3. CASE addon[a].target # None /\ addon[a].resource # m.resource
        <3>1. /\ verified'[addon[a].resource] = verified[addon[a].resource]
              /\ missed'[addon[a].resource] = missed[addon[a].resource]
            BY <1>0, <2>0, <2>3, RowFields DEF FetchVerifiedLinks
        <3>2. m \notin UpdateVerifiedLinks(a, addon[a])
            BY <2>3 DEF UpdateVerifiedLinks
        <3>3. LinkKnown(a)
            BY <2>0 DEF LinksInv
        <3> QED
            BY <2>0, <3>1, <3>2, <3>3
            DEF LinkKnown, FetchVerifiedLinks, UpdateVerifiedLinks, Missed
    <2> QED BY <2>1, <2>2, <2>3
<1>2. ASSUME NEW s \in Requests PROVE Awaited(s)'
    <2> DEFINE q == request[s]
    <2>0. request' = request
        BY DEF FetchVerifiedLinks
    <2>1. CASE ~(q.phase \in {"created", "saved"} /\ q.row.target # None)
        BY <2>0, <2>1 DEF Awaited
    <2>2. CASE /\ q.phase \in {"created", "saved"} /\ q.row.target # None
               /\ q.row.resource = m.resource
        <3>1. [addon |-> q.addon, target |-> q.row.target] \in SavedLinks(m.resource)
            BY <2>2 DEF SavedLinks
        <3>2. missed'[m.resource] = SavedLinks(m.resource)
            BY <1>0 DEF FetchVerifiedLinks
        <3> QED BY <2>0, <2>2, <3>1, <3>2 DEF Awaited, Missed
    <2>3. CASE /\ q.phase \in {"created", "saved"} /\ q.row.target # None
               /\ q.row.resource # m.resource
        <3>1. q.row \in Row
            BY <2>3 DEF IInv, Fits
        <3>2. missed'[q.row.resource] = missed[q.row.resource]
            BY <1>0, <2>3, <3>1, RowFields DEF FetchVerifiedLinks
        <3>3. m \notin UpdateVerifiedLinks(q.addon, q.row)
            BY <2>3 DEF UpdateVerifiedLinks
        <3>4. Awaited(s)
            BY DEF LinksInv
        <3> QED
            BY <2>0, <2>3, <3>2, <3>3, <3>4
            DEF Awaited, FetchVerifiedLinks, UpdateVerifiedLinks, Missed
    <2> QED BY <2>1, <2>2, <2>3
<1> QED BY <1>1, <1>2 DEF LinksInv

\* The tasks of POST and PATCH are sent before the row is committed.
LEMMA CreateSendsLink ==
    ASSUME IInv, LinksInv, NEW r \in Requests, CreateAddon(r)
    PROVE  LinksInv'
<1> DEFINE row == request[r].row
<1>0. request[r] \in Request
    BY RequestFields DEF IInv
<1>1. CASE IsClean(r, row) /\ account[row.account] # None
    <2>1. PICK a \in Addons \ Committed :
            /\ request' = [request EXCEPT ![r] = [@ EXCEPT !.phase = "created", !.addon = a]]
            /\ pending' = pending \cup UpdateVerifiedLinks(a, row)
        BY <1>1 DEF CreateAddon
    <2> DEFINE q == [request[r] EXCEPT !.phase = "created", !.addon = a]
    <2>2. q.addon = a /\ q.row = row
        BY <1>0 DEF Request
    <2>3. request' = [request EXCEPT ![r] = q]
        BY <2>1
    <2> HIDE DEF q
    <2> QED
        BY <2>1, <2>2, <2>3, SenderGoesOn DEF CreateAddon
<1>2. CASE ~(IsClean(r, row) /\ account[row.account] # None)
    <2>1. End(r) /\ UNCHANGED <<addon, verified, missed, pending>>
        BY <1>2 DEF CreateAddon
    <2> QED BY <2>1, IdleFits, SilentGoesOn DEF End
<1> QED BY <1>1, <1>2

LEMMA UpdateSendsLink ==
    ASSUME IInv, LinksInv, NEW r \in Requests, UpdateAddon(r)
    PROVE  LinksInv'
<1> DEFINE b == request[r].addon
<1>0. request[r] \in Request
    BY RequestFields DEF IInv
<1>1. PICK change \in Changes(r) :
        IF change.row.caps \subseteq change.caps /\ account[change.row.account] # None
        THEN /\ request' = [request EXCEPT ![r] =
                    [@ EXCEPT !.phase = "saved", !.row = change.row, !.caps = change.caps]]
             /\ pending' = pending \cup UpdateVerifiedLinks(b, change.row)
        ELSE End(r) /\ UNCHANGED pending
    BY DEF UpdateAddon
<1>2. CASE change.row.caps \subseteq change.caps /\ account[change.row.account] # None
    <2> DEFINE q == [request[r] EXCEPT !.phase = "saved", !.row = change.row, !.caps = change.caps]
    <2>1. q.addon = b /\ q.row = change.row
        BY <1>0 DEF Request
    <2>2. request' = [request EXCEPT ![r] = q]
        BY <1>1, <1>2
    <2>3. pending' = pending \cup UpdateVerifiedLinks(b, change.row)
        BY <1>1, <1>2
    <2> HIDE DEF q
    <2> QED
        BY <2>1, <2>2, <2>3, SenderGoesOn DEF UpdateAddon
<1>3. CASE ~(change.row.caps \subseteq change.caps /\ account[change.row.account] # None)
    <2>1. End(r) /\ UNCHANGED <<addon, verified, missed, pending>>
        BY <1>1, <1>3 DEF UpdateAddon
    <2> QED BY <2>1, IdleFits, SilentGoesOn DEF End
<1> QED BY <1>2, <1>3

\* Every step preserves the invariant of the links.
LEMMA NextLinks == IInv /\ LinksInv /\ [Next]_vars => LinksInv'
<1> SUFFICES ASSUME IInv, LinksInv, [Next]_vars PROVE LinksInv'
    OBVIOUS
<1>1. ASSUME NEW r \in Requests, NEW u \in Users, NEW a \in Accounts,
             NEW res \in Resources, CheckUnique(r, u, a, res)
      PROVE  LinksInv'
    <2>1. PICK caps \in SUBSET Capabilities, target \in Targets \cup {None} :
            request' = [request EXCEPT ![r] =
                [phase |-> "checked", user |-> u, addon |-> None, caps |-> account[a],
                 row |-> [account |-> a, resource |-> res, caps |-> caps, target |-> target]]]
        BY <1>1 DEF CheckUnique
    <2> QED BY <1>1, <2>1, SilentGoesOn DEF CheckUnique
<1>2. ASSUME NEW r \in Requests, NEW u \in Users, NEW a \in Addons,
             LoadForUpdate(r, u, a) \/ LoadForDelete(r, u, a)
      PROVE  LinksInv'
    BY <1>2, SilentGoesOn DEF LoadForUpdate, LoadForDelete, Load
<1>3. ASSUME NEW r \in Requests, FinishCreate(r) \/ FinishUpdate(r) PROVE LinksInv'
    BY <1>3, WritesKnownLink DEF FinishCreate, FinishUpdate
<1>4. ASSUME NEW r \in Requests, DeleteAddon(r) PROVE LinksInv'
    <2> DEFINE q == [request[r] EXCEPT !.phase = "deleted"]
    <2>1. q.phase = "deleted"
        BY <1>4, RequestFields DEF IInv, Request
    <2>2. request' = [request EXCEPT ![r] = q]
        BY <1>4 DEF DeleteAddon
    <2> HIDE DEF q
    <2> QED BY <1>4, <2>1, <2>2, SilentGoesOn DEF DeleteAddon
<1>5. ASSUME NEW r \in Requests, FinishDelete(r) PROVE LinksInv'
    <2>1. \A a \in Committed' : a \in Committed /\ addon'[a] = addon[a]
        BY <1>5 DEF FinishDelete, Committed, IInv, TypeOK
    <2> QED BY <1>5, <2>1, EndAwaited, RowsVanish DEF FinishDelete
<1>6. ASSUME UNCHANGED <<addon, pending, verified, missed, request>> PROVE LinksInv'
    BY <1>6 DEF LinksInv, LinkKnown, Awaited, UpdateVerifiedLinks, Committed, Missed
<1>7. ASSUME NEW a \in Accounts, DeleteAccount(a) PROVE LinksInv'
    <2>1. \A b \in Committed' : b \in Committed /\ addon'[b] = addon[b]
        BY <1>7 DEF DeleteAccount, Committed
    <2>2. \A s \in Requests : Awaited(s)'
        BY <1>7 DEF DeleteAccount, LinksInv, Awaited, UpdateVerifiedLinks, Missed
    <2> QED BY <1>7, <2>1, <2>2, RowsVanish DEF DeleteAccount
<1>8. ASSUME NEW m \in pending, FetchVerifiedLinks(m) PROVE LinksInv'
    BY <1>8, FetchKnowsLinks
<1> QED
    BY <1>1, <1>2, <1>3, <1>4, <1>5, <1>6, <1>7, <1>8, CreateSendsLink, UpdateSendsLink
    DEF Next, vars, PatchAccount, UserDeactivated, UserReactivated

LEMMA LinksInvariance == Spec => []LinksInv
<1>1. Init => LinksInv
    BY IdleFits DEF Init, LinksInv, Committed, Awaited
<1> QED
    BY <1>1, NextLinks, Invariance, PTL DEF Spec

\* When no task of a resource is pending, OSF knows every link of it that is
\* fully configured, but for those that were not committed when it last asked:
\* the task of a link is sent before its row is committed, and handling any task
\* of the resource tells OSF all links that are committed by then.
THEOREM LinksAreKnownUnlessAskedEarly == Spec => []LinksKnownUnlessAskedEarly
<1>1. LinksInv => LinksKnownUnlessAskedEarly
    <2> SUFFICES ASSUME LinksInv, NEW res \in Resources,
                        \A m \in pending : m.resource # res,
                        NEW a \in Committed, addon[a].resource = res,
                        addon[a].target # None
                 PROVE  [addon |-> a, target |-> addon[a].target] \in verified[res] \cup missed[res]
        BY DEF LinksKnownUnlessAskedEarly, VerifiedLinks
    <2>1. ~(UpdateVerifiedLinks(a, addon[a]) \subseteq pending)
        BY DEF UpdateVerifiedLinks
    <2>2. LinkKnown(a)
        BY DEF LinksInv
    <2> QED BY <2>1, <2>2 DEF LinkKnown, Missed
<1> QED
    BY <1>1, LinksInvariance, PTL
=============================================================================
