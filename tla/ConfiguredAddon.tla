--------------------------- MODULE ConfiguredAddon ---------------------------
(***************************************************************************)
(* Configured addons: requests that connect an account to an OSF resource, *)
(* change the connection, or remove it; the tasks that they send to OSF;   *)
(* and the requests and tasks that change accounts and users meanwhile.    *)
(*                                                                         *)
(* A request is one database transaction (ATOMIC_REQUESTS).  It reads      *)
(* rows, works on the instances that it read, and writes whole rows, which *)
(* it holds locked until it ends.  Tasks are sent at once, whatever then   *)
(* becomes of the transaction.                                             *)
(***************************************************************************)
EXTENDS Naturals, FiniteSets

CONSTANTS
    Users,
    Accounts,       \* AuthorizedAccount rows that users have
    Addons,         \* primary keys of ConfiguredAddon rows
    Resources,      \* OSF resources
    Targets,        \* items that a link addon may point to
    Requests,       \* requests that may be in progress at once
    Capabilities,   \* AddonCapabilities
    Owner,          \* the owner of each account
    Service,        \* the external service of each account
    Role,           \* the permissions of each user on each resource, at OSF
    None            \* no row, no target

Row == [account: Accounts, resource: Resources,
        caps: SUBSET Capabilities, target: Targets \cup {None}]

ASSUME AddonAssumption ==
    /\ Owner \in [Accounts -> Users]
    /\ DOMAIN Service = Accounts
    /\ Role \in [Users -> [Resources -> SUBSET {"read", "write", "admin"}]]
    /\ None \notin Accounts \cup Addons \cup Targets \cup Row
    /\ \A caps \in SUBSET Capabilities : caps # None

VARIABLES
    active,     \* users that are not deactivated
    account,    \* committed accounts: their authorized capabilities, or None
    addon,      \* committed configured addons
    sent,       \* log_gv_addon tasks sent to OSF: <<action, addon>>
    pending,    \* task__update_verified_links tasks sent to OSF
    verified,   \* OSF: the links it knows of each resource
    missed,     \* history: links that were being written when OSF last asked
    request     \* requests in progress

vars == <<active, account, addon, sent, pending, verified, missed, request>>

Phases == {"idle", "checked", "created", "loaded", "saved", "deleting",
           "deleted"}
Request == [phase: Phases, user: Users \cup {None}, addon: Addons \cup {None},
            row: Row \cup {None},                   \* the instance in memory
            caps: SUBSET Capabilities]              \* of its base_account

Idle == [phase |-> "idle", user |-> None, addon |-> None, row |-> None,
         caps |-> {}]

Committed == {a \in Addons : addon[a] # None}
IsIdle(r) == request[r].phase = "idle"
End(r) == request' = [request EXCEPT ![r] = Idle]

\* rows written in a transaction that has not ended
Locked(a) == \E r \in Requests : /\ request[r].addon = a
                                 /\ request[r].phase \in {"created", "saved", "deleted"}

Same(b, a, res) == addon[b].resource = res /\ Service[addon[b].account] = Service[a]

-----------------------------------------------------------------------------
\* The permission classes of the views.  OSF answers for a resource; without
\* a session every answer is no.

SessionUserIsOwnerOrResourceAdmin(u, row) ==
    Owner[row.account] = u \/ "admin" \in Role[u][row.resource]

SessionUserMayConnectAddon(u, row) ==
    Owner[row.account] = u /\ "write" \in Role[u][row.resource]

\* queryset = Configured...Addon.objects.active()
Visible(a) == a \in Committed /\ Owner[addon[a].account] \in active

\* (mutant: without looking whether the link is fully configured)
UpdateVerifiedLinksAlways(a, row) ==
    {[addon |-> a, resource |-> row.resource, target |-> row.target]}

\* ConfiguredLinkAddon.save: only for a link that is fully configured
UpdateVerifiedLinks(a, row) ==
    IF row.target = None THEN {}
    ELSE {[addon |-> a, resource |-> row.resource, target |-> row.target]}

-----------------------------------------------------------------------------
\* POST: the serializer reads the account and checks that no configured addon
\* of the service is connected to the resource.
CheckUnique(r, u, a, res) ==
    /\ IsIdle(r)
    /\ account[a] # None
    /\ ~\E b \in Committed : Same(b, a, res)
    /\ \E caps \in SUBSET Capabilities, target \in Targets \cup {None} :
        request' = [request EXCEPT ![r] =
            [phase |-> "checked", user |-> u, addon |-> None, caps |-> account[a],
             row |-> [account |-> a, resource |-> res, caps |-> caps, target |-> target]]]
    /\ UNCHANGED <<active, account, addon, sent, pending, verified, missed>>

\* clean_fields, with the account that was read before
IsClean(r, row) == row.caps \subseteq request[r].caps

\* (mutant: the primary key has its default before save looks at it)
CreateAddonSilently(r) ==
    /\ request[r].phase = "checked"
    /\ LET row == request[r].row
       IN IF IsClean(r, row) /\ account[row.account] # None
          THEN \E a \in Addons \ Committed :
                /\ ~\E q \in Requests : request[q].addon = a
                /\ request' = [request EXCEPT ![r] = [@ EXCEPT !.phase = "created", !.addon = a]]
                /\ pending' = pending \cup UpdateVerifiedLinks(a, row)
          ELSE End(r) /\ UNCHANGED pending
    /\ UNCHANGED <<active, account, addon, sent, verified, missed>>

\* ... then saves the new row, and sends the tasks
CreateAddon(r) ==
    /\ request[r].phase = "checked"
    /\ LET row == request[r].row
       IN IF IsClean(r, row) /\ account[row.account] # None
          THEN \E a \in Addons \ Committed :
                /\ ~\E q \in Requests : request[q].addon = a
                /\ <<"addon_added", a>> \notin sent
                /\ request' = [request EXCEPT ![r] = [@ EXCEPT !.phase = "created", !.addon = a]]
                /\ sent' = sent \cup {<<"addon_added", a>>}
                /\ pending' = pending \cup UpdateVerifiedLinks(a, row)
          ELSE End(r) /\ UNCHANGED <<sent, pending>>
    /\ UNCHANGED <<active, account, addon, verified, missed>>

\* ... and last asks OSF whether the user may connect it.  Foreign keys are
\* checked at the end of the transaction.
FinishCreate(r) ==
    /\ request[r].phase = "created"
    /\ LET q == request[r]
       IN addon' = IF SessionUserMayConnectAddon(q.user, q.row) /\ account[q.row.account] # None
                   THEN [addon EXCEPT ![q.addon] = q.row]
                   ELSE addon
    /\ End(r)
    /\ UNCHANGED <<active, account, sent, pending, verified, missed>>

-----------------------------------------------------------------------------
\* PATCH and DELETE read the row, then ask OSF for the user's permissions.
Load(r, u, a, phase, row, caps) ==
    /\ IsIdle(r)
    /\ Visible(a)
    /\ SessionUserIsOwnerOrResourceAdmin(u, addon[a])
    /\ request' = [request EXCEPT ![r] =
         [phase |-> phase, user |-> None, addon |-> a, row |-> row, caps |-> caps]]
    /\ UNCHANGED <<active, account, addon, sent, pending, verified, missed>>

LoadForUpdate(r, u, a) == Load(r, u, a, "loaded", addon[a], account[addon[a].account])

\* ... of which a DELETE uses no more than the key
LoadForDelete(r, u, a) == Load(r, u, a, "deleting", None, {})

\* What a PATCH may change, some fields or all.  A base_account in it is read
\* when it is saved; otherwise the instance keeps the account that it read.
Changes(r) ==
    {[row |-> row, caps |-> request[r].caps] : row \in {x \in Row : x.account = request[r].row.account}}
    \cup {[row |-> row, caps |-> account[row.account]] : row \in {x \in Row : account[x.account] # None}}

\* (mutant: what was configured is looked at before the change is saved)
UpdateAddonLookingBefore(r) ==
    /\ request[r].phase = "loaded"
    /\ ~Locked(request[r].addon)
    /\ \E change \in Changes(r) :
        IF change.row.caps \subseteq change.caps /\ account[change.row.account] # None
        THEN /\ request' = [request EXCEPT ![r] =
                    [@ EXCEPT !.phase = "saved", !.row = change.row, !.caps = change.caps]]
             /\ pending' = pending \cup UpdateVerifiedLinks(request[r].addon, request[r].row)
        ELSE End(r) /\ UNCHANGED pending
    /\ UNCHANGED <<active, account, addon, sent, verified, missed>>

UpdateAddon(r) ==
    /\ request[r].phase = "loaded"
    /\ ~Locked(request[r].addon)
    /\ \E change \in Changes(r) :
        IF change.row.caps \subseteq change.caps /\ account[change.row.account] # None
        THEN /\ request' = [request EXCEPT ![r] =
                    [@ EXCEPT !.phase = "saved", !.row = change.row, !.caps = change.caps]]
             /\ pending' = pending \cup UpdateVerifiedLinks(request[r].addon, change.row)
        ELSE End(r) /\ UNCHANGED pending
    /\ UNCHANGED <<active, account, addon, sent, verified, missed>>

\* (mutant: only the columns that may change without the account are written)
FinishUpdateOfColumns(r) ==
    /\ request[r].phase = "saved"
    /\ LET q == request[r]
       IN addon' = IF addon[q.addon] # None
                   THEN [addon EXCEPT ![q.addon] = [@ EXCEPT !.caps = q.row.caps, !.target = q.row.target]]
                   ELSE addon
    /\ End(r)
    /\ UNCHANGED <<active, account, sent, pending, verified, missed>>

\* Model.save has written every column of the instance, and has inserted the
\* row again if it was deleted since it was read
FinishUpdate(r) ==
    /\ request[r].phase = "saved"
    /\ LET q == request[r]
       IN addon' = IF account[q.row.account] # None
                   THEN [addon EXCEPT ![q.addon] = q.row]
                   ELSE addon
    /\ End(r)
    /\ UNCHANGED <<active, account, sent, pending, verified, missed>>

\* (mutant: Model.delete without ConfiguredAddon.delete)
DeleteAddonSilently(r) ==
    /\ request[r].phase = "deleting"
    /\ ~Locked(request[r].addon)
    /\ request' = [request EXCEPT ![r] = [@ EXCEPT !.phase = "deleted"]]
    /\ UNCHANGED <<active, account, addon, sent, pending, verified, missed>>

\* ConfiguredAddon.delete: its result is a pair, hence never false
DeleteAddon(r) ==
    /\ request[r].phase = "deleting"
    /\ ~Locked(request[r].addon)
    /\ request' = [request EXCEPT ![r] = [@ EXCEPT !.phase = "deleted"]]
    /\ sent' = sent \cup {<<"addon_removed", request[r].addon>>}
    /\ UNCHANGED <<active, account, addon, pending, verified, missed>>

FinishDelete(r) ==
    /\ request[r].phase = "deleted"
    /\ addon' = [addon EXCEPT ![request[r].addon] = None]
    /\ End(r)
    /\ UNCHANGED <<active, account, sent, pending, verified, missed>>

-----------------------------------------------------------------------------
\* PATCH of an account; nobody looks at its configured addons
PatchAccount(a) ==
    /\ account[a] # None
    /\ \E caps \in SUBSET Capabilities : account' = [account EXCEPT ![a] = caps]
    /\ UNCHANGED <<active, addon, sent, pending, verified, missed, request>>

\* DELETE of an account: its configured addons go with it, without a task
DeleteAccount(a) ==
    LET mine == {b \in Committed : addon[b].account = a}
    IN /\ account[a] # None
       /\ \A b \in mine : ~Locked(b)
       /\ account' = [account EXCEPT ![a] = None]
       /\ addon' = [b \in Addons |-> IF b \in mine THEN None ELSE addon[b]]
       /\ UNCHANGED <<active, sent, pending, verified, missed, request>>

\* tasks of the OSF backchannel.  users_merged calls merge on the pair that
\* get_or_create returns: it fails, and changes no account.
UserDeactivated(u) ==
    /\ u \in active
    /\ active' = active \ {u}
    /\ UNCHANGED <<account, addon, sent, pending, verified, missed, request>>

UserReactivated(u) ==
    /\ u \notin active
    /\ active' = active \cup {u}
    /\ UNCHANGED <<account, addon, sent, pending, verified, missed, request>>

\* OSF's task asks get_verified_links for the links of the resource
VerifiedLinks(res) ==
    {[addon |-> a, target |-> addon[a].target] :
        a \in {b \in Committed : addon[b].resource = res /\ addon[b].target # None}}

\* links that requests have saved, and not committed
SavedLinks(res) ==
    {[addon |-> request[r].addon, target |-> request[r].row.target] :
        r \in {q \in Requests : /\ request[q].phase \in {"created", "saved"}
                                /\ request[q].row.resource = res
                                /\ request[q].row.target # None}}

FetchVerifiedLinks(m) ==
    /\ m \in pending
    /\ pending' = pending \ {m}
    /\ verified' = [verified EXCEPT ![m.resource] = VerifiedLinks(m.resource)]
    /\ missed' = [missed EXCEPT ![m.resource] = SavedLinks(m.resource)]
    /\ UNCHANGED <<active, account, addon, sent, request>>

-----------------------------------------------------------------------------
Init ==
    /\ active = Users
    /\ account \in [Accounts -> SUBSET Capabilities]
    /\ addon = [a \in Addons |-> None]
    /\ sent = {}
    /\ pending = {}
    /\ verified = [res \in Resources |-> {}]
    /\ missed = [res \in Resources |-> {}]
    /\ request = [r \in Requests |-> Idle]

Next ==
    \/ \E r \in Requests :
        \/ \E u \in Users, a \in Accounts, res \in Resources : CheckUnique(r, u, a, res)
        \/ \E u \in Users, a \in Addons : LoadForUpdate(r, u, a) \/ LoadForDelete(r, u, a)
        \/ CreateAddon(r) \/ FinishCreate(r)
        \/ UpdateAddon(r) \/ FinishUpdate(r)
        \/ DeleteAddon(r) \/ FinishDelete(r)
    \/ \E a \in Accounts : PatchAccount(a) \/ DeleteAccount(a)
    \/ \E u \in Users : UserDeactivated(u) \/ UserReactivated(u)
    \/ \E m \in pending : FetchVerifiedLinks(m)

Spec == Init /\ [][Next]_vars

-----------------------------------------------------------------------------
\* Rows, tasks and requests hold what their columns may hold.
TypeOK ==
    /\ active \subseteq Users
    /\ account \in [Accounts -> (SUBSET Capabilities) \cup {None}]
    /\ addon \in [Addons -> Row \cup {None}]
    /\ sent \subseteq {"addon_added", "addon_removed"} \X Addons
    /\ pending \subseteq [addon: Addons, resource: Resources, target: Targets]
    /\ {verified, missed} \subseteq [Resources -> SUBSET [addon: Addons, target: Targets]]
    /\ request \in [Requests -> Request]

\* Whatever requests overlap, the capabilities of a configured addon are
\* written together with an account that was seen to authorize them
\* (ConfiguredAddon.clean_fields): no mixture of two requests is committed.
CapabilitiesChecked ==
    [][\A a \in Addons :
        addon'[a] \notin {addon[a], None} =>
            \E r \in Requests : /\ request[r].addon = a
                                /\ request[r].phase \in {"created", "saved"}
                                /\ addon'[a].account = request[r].row.account
                                /\ addon'[a].caps \subseteq request[r].caps]_vars

\* OSF is told of every configured addon that exists (ConfiguredAddon.save).
EveryAddonAnnounced == \A a \in Committed : <<"addon_added", a>> \in sent

\* ... and of every one that a request removes; only those of a deleted
\* account vanish silently (ConfiguredAddon.delete is not called for them).
RemovalAnnounced ==
    [][\A a \in Committed :
        addon'[a] = None => \/ <<"addon_removed", a>> \in sent
                            \/ account'[addon[a].account] = None]_vars

\* When OSF has handled all tasks for a resource, it knows every link of it that
\* is fully configured (ConfiguredLinkAddon.save), except those that a request
\* had saved and not yet committed when OSF last asked.  It may know others:
\* removing a link, or moving it to another resource, is not announced.
LinksKnownUnlessAskedEarly ==
    \A res \in Resources :
        (\A m \in pending : m.resource # res) =>
            VerifiedLinks(res) \subseteq verified[res] \cup missed[res]

\* (Not achieved.)  "Only send for OSF task after the addon has been fully
\* configured" (ConfiguredLinkAddon.save): the task lets OSF know the link.  It
\* is sent in the transaction, and OSF may ask before that commits.
ConfiguredLinksKnown ==
    pending = {} /\ (\A r \in Requests : IsIdle(r)) =>
        \A res \in Resources : VerifiedLinks(res) \subseteq verified[res]

\* (Not achieved.)  OSF is told "addon_added" of addons that come to exist
\* (ConfiguredAddon.save).  The request may then be denied, or its account gone.
AnnouncedIsCommitted ==
    [][\A r \in Requests :
        request[r].phase = "created" /\ IsIdle(r)' => addon'[request[r].addon] # None]_vars

\* (Not achieved.)  An addon of which OSF was told "addon_removed" does not come
\* back (ConfiguredAddon.delete).  A PATCH that read it before inserts it again.
RemovedStaysRemoved ==
    [][\A a \in Addons :
        addon[a] = None /\ <<"addon_removed", a>> \in sent => addon'[a] = None]_vars

\* The error message in ConfiguredAddonSerializer.create says that an addon
\* "already exists"; the lookup by resource and service relies on it.
OneAddonPerService ==
    \A a, b \in Committed :
        Same(b, addon[a].account, addon[a].resource) => a = b
=============================================================================
