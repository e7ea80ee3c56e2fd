-------------------------- MODULE AccountMigration --------------------------
(***************************************************************************)
(* The commands that bring OSF's external accounts and node settings to    *)
(* GravyValet: migrate_authorized_account, and the command that repairs    *)
(* what an earlier migration did to users with several accounts on one     *)
(* provider.  Each runs in one transaction, for a long time; users change  *)
(* their configured addons meanwhile.  OSF's database is only read.        *)
(***************************************************************************)
EXTENDS Naturals, FiniteSets

CONSTANTS
    Users,              \* OsfUser
    ExternalAccounts,   \* ExternalAccount, each with a provider_id of its own
    Nodes,              \* OSF nodes
    Services,           \* providers that are migrated
    Format,             \* the credentials format of each service
    Provider,           \* the provider of each external account
    UserToExternalAccount,
    MayLack,            \* fields that an external account may lack
    Options,            \* the options of a command that are tried
    MaxEdited,          \* bound: the addons that users change, the accounts they add
    None                \* no row, no account

Fields == {"oauth_key", "oauth_secret", "refresh_token", "display_name", "profile_url"}
Origins == {"migrate", "fix", "user"}    \* who made a row: its primary key

Account == [owner: Users, external: ExternalAccounts, origin: Origins]
AddonKey == [node: Nodes, service: Services, origin: {"migrate", "user"}]

\* node: the authorized_resource; modified is after CUTOFF_TIMESTAMP, or not
AddonRow == [account: Account, node: Nodes, recent: BOOLEAN]
NodeSettings == [user: Users, external_account: ExternalAccounts \cup {None}]

RowRead == [key: AddonKey, was: AddonRow]    \* what the fix has read

ASSUME MigrationAssumption ==
    /\ Provider \in [ExternalAccounts -> Services]
    /\ UserToExternalAccount \subseteq Users \X ExternalAccounts
    /\ DOMAIN Format = Services
    /\ IsFiniteSet(Nodes) /\ IsFiniteSet(Services)
    /\ MaxEdited \in Nat
    /\ Options \subseteq [fake: BOOLEAN, ignore_cutoff: BOOLEAN]
    /\ None \notin ExternalAccounts \cup NodeSettings \cup AddonRow
    /\ None \notin {"migrate", "fix"} \cup (Services \X Nodes) \cup RowRead

VARIABLES
    fields,     \* OSF: the fields of each external account that are not None
    settings,   \* OSF: the node settings of each node and service
    accounts,   \* committed AuthorizedAccounts
    addon,      \* committed ConfiguredAddons
    sent,       \* ConfiguredAddons that log_gv_addon told OSF about
    edited,     \* ConfiguredAddons that a user has changed
    tx,         \* the rows that the running command has written
    command     \* the running command

vars == <<fields, settings, accounts, addon, sent, edited, tx, command>>
osf == <<fields, settings>>

NoRows == [accounts |-> {}, addon |-> [k \in AddonKey |-> None]]
NoCommand == [name |-> None, fake |-> FALSE, ignore_cutoff |-> FALSE, todo |-> {},
              at |-> None, row |-> None]

\* what the command's transaction sees
SeenAccounts == accounts \cup tx.accounts
SeenAddon(k) == IF tx.addon[k] # None THEN tx.addon[k] ELSE addon[k]
Connects(row, n, s) == row # None /\ row.node = n /\ Provider[row.account.external] = s
Seen(n, s) == {k \in AddonKey : Connects(SeenAddon(k), n, s)}

-----------------------------------------------------------------------------
\* fetch_external_accounts
AccountsOf(u, s) == {e \in ExternalAccounts : <<u, e>> \in UserToExternalAccount /\ Provider[e] = s}

RequiredFields(s) ==
    CASE Format[s] \in {"ACCESS_KEY_SECRET_KEY", "OAUTH1A"} -> {"oauth_key", "oauth_secret"}
      [] Format[s] = "USERNAME_PASSWORD" -> {"display_name", "oauth_key"}
      [] Format[s] \notin {"ACCESS_KEY_SECRET_KEY", "OAUTH1A", "USERNAME_PASSWORD"} /\ s = "dataverse" ->
            {"oauth_secret"}
      [] OTHER -> {"oauth_key"}

\* check_fields raises a CredentialException if a field is None
GetCredentials(e) == RequiredFields(Provider[e]) \subseteq fields[e]

\* get_api_base_url calls removesuffix on a field, or quote_plus
GetApiBaseUrl(e) ==
    CASE Provider[e] = "owncloud" -> {"profile_url", "display_name"} \subseteq fields[e]
      [] Provider[e] = "gitlab" -> "oauth_secret" \in fields[e]
      [] OTHER -> TRUE

SettingsOf(u, s) == {n \in Nodes : settings[<<n, s>>] # None /\ settings[<<n, s>>].user = u}

-----------------------------------------------------------------------------
\* A command starts; it ends with its transaction.
Start(name, option, todo) ==
    /\ command = NoCommand
    /\ command' = [NoCommand EXCEPT !.name = name, !.fake = option.fake,
                                    !.ignore_cutoff = option.ignore_cutoff, !.todo = todo]
    /\ UNCHANGED <<osf, accounts, addon, sent, edited, tx>>

\* Bound: once its rows are there, the command is not run again.
StartMigration ==
    /\ \A a \in accounts : a.origin = "user"
    /\ \E option \in Options : Start("migrate", option, Services \X Users)

\* users with more than one account on a provider; boa needs no fix
FixTargets == {t \in Services \X Users : t[1] # "boa" /\ Cardinality(AccountsOf(t[2], t[1])) > 1}

StartFix ==
    \E option \in Options :
        Start("fix", option, UNION {{<<t[1], n>> : n \in SettingsOf(t[2], t[1])} : t \in FixTargets})

RollBack ==
    /\ tx' = NoRows
    /\ command' = NoCommand
    /\ UNCHANGED <<osf, accounts, addon, edited>>

Finish ==
    /\ command.name # None
    /\ command.todo = {}
    /\ command.at = None
    /\ IF command.fake
       THEN UNCHANGED <<accounts, addon>>
       ELSE /\ accounts' = SeenAccounts
            /\ addon' = [k \in AddonKey |-> SeenAddon(k)]
    /\ tx' = NoRows
    /\ command' = NoCommand
    /\ UNCHANGED <<osf, sent, edited>>

-----------------------------------------------------------------------------
\* migrate_for_user: an account for each external account of the user with
\* usable credentials, then an addon for each of the user's node settings.
\* The migration ends before the cutoff.
\* (mutant: of the accounts of the user, the first is taken)
AnyAccount(n, s, usable) == IF usable = {} THEN None ELSE CHOOSE e \in usable : TRUE

\* (mutant: the primary key is taken, whether or not the account was saved)
BaseAccountUnchecked(n, s, usable) == settings[<<n, s>>].external_account

\* account_map.get
BaseAccount(n, s, usable) ==
    LET e == settings[<<n, s>>].external_account
    IN IF e \in usable THEN e ELSE None

\* the task that ConfiguredAddon.save sends at once
Announced(made) == made

MigrateForUser(s, u) ==
    LET idle == SettingsOf(u, s) = {} \/ AccountsOf(u, s) = {}
        usable == {e \in AccountsOf(u, s) : GetCredentials(e)}
        account(e) == [owner |-> u, external |-> e, origin |-> "migrate"]
        made == {k \in AddonKey : /\ k.origin = "migrate" /\ k.service = s
                                  /\ k.node \in SettingsOf(u, s)
                                  /\ BaseAccount(k.node, s, usable) # None}
    IN /\ command.name = "migrate"
       /\ <<s, u>> \in command.todo
       /\ CASE idle ->
                /\ command' = [command EXCEPT !.todo = @ \ {<<s, u>>}]
                /\ UNCHANGED <<osf, accounts, addon, sent, edited, tx>>
            [] ~idle /\ \E e \in usable : ~GetApiBaseUrl(e) ->
                RollBack /\ UNCHANGED sent
            [] ~idle /\ (\A e \in usable : GetApiBaseUrl(e))
               /\ \E n \in SettingsOf(u, s) : settings[<<n, s>>].external_account = None ->
                \* external_account.id fails, after some of the others
                /\ \E told \in SUBSET made : sent' = sent \cup Announced(told)
                /\ RollBack
            [] OTHER ->
                /\ tx' = [accounts |-> tx.accounts \cup {account(e) : e \in usable},
                          addon |-> [k \in AddonKey |->
                            IF k \in made
                            THEN [account |-> account(BaseAccount(k.node, s, usable)),
                                  node |-> k.node, recent |-> FALSE]
                            ELSE tx.addon[k]]]
                /\ sent' = sent \cup Announced(made)
                /\ command' = [command EXCEPT !.todo = @ \ {<<s, u>>}]
                /\ UNCHANGED <<osf, accounts, addon, edited>>

-----------------------------------------------------------------------------
\* fix_migration_for_user_and_provider, for one of the node settings
HasCorrectBaseAccount(k, e) == SeenAddon(k).account.external = e

FixCheck(s, n) ==
    LET e == settings[<<n, s>>].external_account
        found == Seen(n, s)
    IN /\ command.name = "fix"
       /\ command.at = None
       /\ <<s, n>> \in command.todo
       /\ IF e # None /\ Cardinality(found) > 1
          THEN RollBack
          ELSE /\ command' =
                    IF e = None \/ \A k \in found : HasCorrectBaseAccount(k, e)
                    THEN [command EXCEPT !.todo = @ \ {<<s, n>>}]
                    ELSE [command EXCEPT !.todo = @ \ {<<s, n>>}, !.at = <<s, n>>]
               /\ UNCHANGED <<osf, accounts, addon, edited, tx>>
       /\ UNCHANGED sent

\* (mutant: nobody looks when it was modified)
FixReadWithoutCutoff ==
    LET found == Seen(command.at[2], command.at[1])
    IN /\ command.name = "fix"
       /\ command.at # None
       /\ command.row = None
       /\ IF Cardinality(found) # 1
          THEN RollBack
          ELSE LET k == CHOOSE k \in found : TRUE
               IN /\ command' = [command EXCEPT !.row = [key |-> k, was |-> SeenAddon(k)]]
                  /\ UNCHANGED <<osf, accounts, addon, edited, tx>>
       /\ UNCHANGED sent

\* ... reads the configured addon again, and looks when it was modified
FixRead ==
    LET found == Seen(command.at[2], command.at[1])
    IN /\ command.name = "fix"
       /\ command.at # None
       /\ command.row = None
       /\ IF Cardinality(found) # 1
          THEN RollBack
          ELSE LET k == CHOOSE k \in found : TRUE
               IN /\ command' = IF SeenAddon(k).recent /\ ~command.ignore_cutoff
                                THEN [command EXCEPT !.at = None]
                                ELSE [command EXCEPT !.row = [key |-> k, was |-> SeenAddon(k)]]
                  /\ UNCHANGED <<osf, accounts, addon, edited, tx>>
       /\ UNCHANGED sent

\* (mutant: accounts are looked up by their service and owner)
AuthorizedAccountsOfOwner(u, e) ==
    {a \in SeenAccounts : a.owner = u /\ Provider[a.external] = Provider[e]}

\* get_or_create_authorized_account looks for accounts by external_account_id
AuthorizedAccounts(u, e) == {a \in SeenAccounts : a.owner = u /\ a.external = e}

GetOrCreateAuthorizedAccount(u, e) ==
    IF AuthorizedAccounts(u, e) = {}
    THEN [owner |-> u, external |-> e, origin |-> "fix"]
    ELSE CHOOSE a \in AuthorizedAccounts(u, e) : TRUE

FixSave ==
    LET s == command.at[1]
        n == command.at[2]
        u == settings[<<n, s>>].user
        e == settings[<<n, s>>].external_account
        a == GetOrCreateAuthorizedAccount(u, e)
        fails == \/ Cardinality(AuthorizedAccounts(u, e)) > 1
                 \/ AuthorizedAccounts(u, e) = {} /\ ~(GetCredentials(e) /\ GetApiBaseUrl(e))
    IN /\ command.row # None
       /\ IF fails
          THEN RollBack
          ELSE /\ tx' = [accounts |-> tx.accounts \cup {a},
                         addon |-> [tx.addon EXCEPT ![command.row.key] =
                                        [command.row.was EXCEPT !.account = a, !.recent = TRUE]]]
               /\ command' = [command EXCEPT !.at = None, !.row = None]
               /\ UNCHANGED <<osf, accounts, addon, edited>>
       /\ UNCHANGED sent

-----------------------------------------------------------------------------
\* Requests of users, each a transaction of its own.  They wait for rows that
\* the command has written.
Edit(k) ==
    /\ edited' = edited \cup {k}
    /\ Cardinality(edited') <= MaxEdited

AuthorizeAccount(u, e) ==
    /\ <<u, e>> \in UserToExternalAccount
    /\ accounts' = accounts \cup {[owner |-> u, external |-> e, origin |-> "user"]}
    /\ Cardinality({a \in accounts' : a.origin = "user"}) <= MaxEdited
    /\ UNCHANGED <<osf, addon, sent, edited, tx, command>>

\* k: a new primary key
ConnectAddon(k, n, a) ==
    /\ k.origin = "user"
    /\ addon[k] = None
    /\ k \notin edited
    /\ a \in accounts
    /\ \A c \in AddonKey : ~Connects(addon[c], n, Provider[a.external])
    /\ addon' = [addon EXCEPT ![k] = [account |-> a, node |-> n, recent |-> TRUE]]
    /\ sent' = sent \cup {k}
    /\ Edit(k)
    /\ UNCHANGED <<osf, accounts, tx, command>>

\* base_account may be any account, also that of another user or service
PatchAddon(k, n, a) ==
    /\ addon[k] # None
    /\ tx.addon[k] = None
    /\ a \in accounts
    /\ addon' = [addon EXCEPT ![k] = [account |-> a, node |-> n, recent |-> TRUE]]
    /\ Edit(k)
    /\ UNCHANGED <<osf, accounts, sent, tx, command>>

DeleteAddon(k) ==
    /\ addon[k] # None
    /\ tx.addon[k] = None
    /\ addon' = [addon EXCEPT ![k] = None]
    /\ Edit(k)
    /\ UNCHANGED <<osf, accounts, sent, tx, command>>

-----------------------------------------------------------------------------
\* Either nothing is migrated, or an earlier migration has connected the
\* addons of a user to any one account of the user.
EarlierMigration ==
    LET made(n, s) == settings[<<n, s>>] # None /\ settings[<<n, s>>].external_account # None
        choices(n, s) == IF made(n, s) THEN {e \in AccountsOf(settings[<<n, s>>].user, s) : GetCredentials(e)} ELSE {}
    IN \E choice \in [Nodes \X Services -> ExternalAccounts \cup {None}] :
        /\ \A n \in Nodes, s \in Services :
            IF choices(n, s) = {} THEN choice[<<n, s>>] = None ELSE choice[<<n, s>>] \in choices(n, s)
        /\ LET account(n, s) == [owner |-> settings[<<n, s>>].user, external |-> choice[<<n, s>>], origin |-> "migrate"]
               keys == {k \in AddonKey : k.origin = "migrate" /\ choice[<<k.node, k.service>>] # None}
           IN /\ accounts = {account(k.node, k.service) : k \in keys}
              /\ addon = [k \in AddonKey |->
                            IF k \in keys
                            THEN [account |-> account(k.node, k.service), node |-> k.node, recent |-> FALSE]
                            ELSE None]
              /\ sent = keys

Init ==
    /\ fields \in {[e \in ExternalAccounts |-> Fields \ lack[e]] : lack \in [ExternalAccounts -> SUBSET MayLack]}
    /\ settings \in [Nodes \X Services -> NodeSettings \cup {None}]
    /\ \A x \in Nodes \X Services :
        settings[x] # None /\ settings[x].external_account # None =>
            Provider[settings[x].external_account] = x[2]
    /\ \/ accounts = {} /\ addon = NoRows.addon /\ sent = {}
       \/ EarlierMigration
    /\ edited = {}
    /\ tx = NoRows
    /\ command = NoCommand

CommandStep ==
    \/ \E s \in Services, u \in Users : MigrateForUser(s, u)
    \/ \E s \in Services, n \in Nodes : FixCheck(s, n)
    \/ FixRead \/ FixSave
    \/ Finish

Next ==
    \/ StartMigration \/ StartFix
    \/ CommandStep
    \/ \E u \in Users, e \in ExternalAccounts : AuthorizeAccount(u, e)
    \/ \E k \in AddonKey, n \in Nodes, a \in accounts : ConnectAddon(k, n, a) \/ PatchAddon(k, n, a)
    \/ \E k \in AddonKey : DeleteAddon(k)

Spec == Init /\ [][Next]_vars

-----------------------------------------------------------------------------
\* Rows hold what their columns may hold, and refer to rows that are there; OSF
\* was told of every addon, also of those that a command made (ConfiguredAddon.save).
TypeOK ==
    /\ fields \in [ExternalAccounts -> SUBSET Fields]
    /\ settings \in [Nodes \X Services -> NodeSettings \cup {None}]
    /\ SeenAccounts \subseteq Account
    /\ \A k \in AddonKey :
        /\ addon[k] # None => addon[k] \in AddonRow /\ addon[k].account \in accounts /\ k \in sent
        /\ tx.addon[k] # None => tx.addon[k] \in AddonRow /\ tx.addon[k].account \in SeenAccounts
    /\ sent \subseteq AddonKey
    /\ edited \subseteq AddonKey
    /\ command.todo \subseteq (Services \X Users) \cup (Services \X Nodes)
    /\ command = NoCommand => tx = NoRows

Commits(name) == Finish /\ command.name = name /\ ~command.fake

\* A migration that is not a fake one connects every node to the account that
\* its settings name, as far as that account can be migrated
\* (migrate_for_user); users can not have changed it before.
MigrationComplete ==
    [][Commits("migrate") =>
        \A n \in Nodes, s \in Services :
            LET set == settings[<<n, s>>]
            IN set # None /\ set.external_account \in AccountsOf(set.user, s)
               /\ GetCredentials(set.external_account) =>
                    LET row == addon'[[node |-> n, service |-> s, origin |-> "migrate"]]
                    IN /\ row # None
                       /\ row.node = n
                       /\ row.account = [owner |-> set.user, origin |-> "migrate",
                                         external |-> set.external_account]]_vars

\* Whatever users did while the fix ran, once it is committed the addons that
\* users left alone use the accounts that the node settings name
\* (fix_migration_for_user_and_provider), even if users have moved others to
\* the same nodes.
FixRepairs ==
    [][Commits("fix") =>
        \A t \in FixTargets : \A n \in SettingsOf(t[2], t[1]) :
            LET e == settings[<<n, t[1]>>].external_account
            IN e # None =>
                \A k \in AddonKey \ edited :
                    Connects(addon'[k], n, t[1]) => addon'[k].account.external = e]_vars

\* Unless it is told to ignore the cutoff, the fix never moves an addon to
\* another user or node than those of the row that it has read, although users
\* give addons to each other and move them (fix_migration_for_user_and_provider).
\* What they do between the read and the save is overwritten (EditsKept).
OwnerKept ==
    [][\A k \in AddonKey :
        command.name = "fix" /\ ~command.ignore_cutoff /\ tx'.addon[k] \notin {tx.addon[k], None} =>
            /\ k = command.row.key
            /\ tx'.addon[k].node = command.row.was.node
            /\ tx'.addon[k].account.owner = command.row.was.account.owner]_vars

\* (Not achieved.)  The message of fix_migration_for_user_and_provider: what was
\* modified after the cutoff is not fixed.  A change that is committed after the
\* fix has read the row, even one that gave it to another user, is overwritten.
EditsKept ==
    [][Commits("fix") /\ ~command.ignore_cutoff =>
        \A k \in AddonKey :
            addon[k] # None /\ addon[k].recent => addon'[k] = addon[k]]_vars

\* The message of the migration's handle: a fake run is rolled back.
FakeTellsNothing == [][command.fake => sent' \subseteq sent \cup edited']_vars
=============================================================================
