----------------------- MODULE AccountMigration_proofs -----------------------
(***************************************************************************)
(* Proofs about AccountMigration: types and references, that the fix keeps *)
(* the owners that it reads, that a migration connects every node and a    *)
(* fix repairs what users left alone, for any number of users,             *)
(* accounts, nodes and services, whatever users do while it runs.          *)
(***************************************************************************)
EXTENDS AccountMigration, FiniteSetTheorems, TLAPS

Command == [name: {None, "migrate", "fix"}, fake: BOOLEAN, ignore_cutoff: BOOLEAN,
            todo: SUBSET ((Services \X Users) \cup (Services \X Nodes)),
            at: (Services \X Nodes) \cup {None}, row: RowRead \cup {None}]

\* The row is for the user whose node settings it stands for.
SetAt(x) == <<x.node, Provider[x.account.external]>>
OwnedAsSet(x) ==
    /\ settings[SetAt(x)] # None
    /\ x.account.owner = settings[SetAt(x)].user

\* What is known of configured addons, whether they are committed or only
\* written: OSF was told of them, and those that are not recent were migrated.
RowsOK(rows, accs) ==
    /\ rows \in [AddonKey -> AddonRow \cup {None}]
    /\ \A k \in AddonKey : rows[k] # None =>
        /\ rows[k].account \in accs
        /\ k \in sent
        /\ ~rows[k].recent => OwnedAsSet(rows[k])

\* What the running command has left to do, and where it stands: the row that
\* it has read is one that it may change.
CommandOK ==
    /\ command \in Command
    /\ command.name = "fix" =>
        \A x \in command.todo : x \in Services \X Nodes /\ settings[<<x[2], x[1]>>] # None
    /\ command.at # None =>
        /\ command.name = "fix"
        /\ settings[<<command.at[2], command.at[1]>>] # None
        /\ settings[<<command.at[2], command.at[1]>>].external_account # None
    /\ command.row # None =>
        /\ command.at # None
        /\ Connects(command.row.was, command.at[2], command.at[1])
        /\ command.row.key \in sent
        /\ command.ignore_cutoff \/ OwnedAsSet(command.row.was)

OsfOK ==
    /\ fields \in [ExternalAccounts -> SUBSET Fields]
    /\ settings \in [Nodes \X Services -> NodeSettings \cup {None}]
    /\ \A x \in Nodes \X Services :
        settings[x] # None /\ settings[x].external_account # None =>
            Provider[settings[x].external_account] = x[2]

\* The inductive invariant.
IInv ==
    /\ OsfOK
    /\ accounts \subseteq Account
    /\ tx.accounts \subseteq Account
    /\ RowsOK(addon, accounts)
    /\ RowsOK(tx.addon, SeenAccounts)
    /\ sent \subseteq AddonKey
    /\ edited \subseteq AddonKey
    /\ CommandOK
    /\ command.name = None => tx = NoRows

-----------------------------------------------------------------------------
LEMMA NoRowsOK == RowsOK(NoRows.addon, {}) /\ NoRows.accounts = {}
BY DEF NoRows, RowsOK

LEMMA NoCommandType == NoCommand \in Command /\ NoCommand.name = None
BY DEF NoCommand, Command

\* The fields of the command have their types.
LEMMA CommandFields ==
    ASSUME CommandOK
    PROVE  /\ command.name \in {None, "migrate", "fix"}
           /\ command.fake \in BOOLEAN
           /\ command.ignore_cutoff \in BOOLEAN
           /\ command.todo \subseteq (Services \X Users) \cup (Services \X Nodes)
           /\ command.at \in (Services \X Nodes) \cup {None}
           /\ command.row \in RowRead \cup {None}
BY DEF CommandOK, Command

\* What a command sees are rows like any others.
LEMMA SeenRows ==
    ASSUME IInv
    PROVE  /\ RowsOK([k \in AddonKey |-> SeenAddon(k)], SeenAccounts)
           /\ SeenAccounts \subseteq Account
BY DEF IInv, RowsOK, SeenAddon, SeenAccounts

\* Rows stay as they are when OSF hears of more, and accounts are added.
LEMMA RowsGrow ==
    ASSUME NEW rows, NEW accs, NEW more,
           RowsOK(rows, accs), accs \subseteq more, sent \subseteq sent', settings' = settings
    PROVE  rows \in [AddonKey -> AddonRow \cup {None}]
           /\ \A k \in AddonKey : rows[k] # None =>
                /\ rows[k].account \in more
                /\ k \in sent'
                /\ ~rows[k].recent =>
                    /\ settings'[SetAt(rows[k])] # None
                    /\ rows[k].account.owner = settings'[SetAt(rows[k])].user
BY DEF RowsOK, OwnedAsSet

\* Initially nothing is migrated, or an earlier migration took any account.
LEMMA InvariantInit == Init => IInv
<1> SUFFICES ASSUME Init PROVE IInv
  OBVIOUS
<1>1. OsfOK
  <2>1. PICK lack \in [ExternalAccounts -> SUBSET MayLack] :
            fields = [e \in ExternalAccounts |-> Fields \ lack[e]]
    BY DEF Init
  <2>2. /\ settings \in [Nodes \X Services -> NodeSettings \cup {None}]
        /\ \A x \in Nodes \X Services :
                settings[x] # None /\ settings[x].external_account # None =>
                    Provider[settings[x].external_account] = x[2]
    BY DEF Init
  <2> QED
    BY <2>1, <2>2 DEF OsfOK
<1>2. tx = NoRows /\ command = NoCommand /\ edited = {}
  BY DEF Init
<1>3. CASE accounts = {} /\ addon = NoRows.addon /\ sent = {}
  BY <1>1, <1>2, <1>3, NoRowsOK, NoCommandType
  DEF IInv, SeenAccounts, CommandOK, NoCommand, NoRows, MigrationAssumption
<1>4. CASE EarlierMigration
  <2> DEFINE made(n, s) == settings[<<n, s>>] # None /\ settings[<<n, s>>].external_account # None
             choices(n, s) == IF made(n, s)
                THEN {e \in AccountsOf(settings[<<n, s>>].user, s) : GetCredentials(e)} ELSE {}
             anyOf(choice, n, s) == [owner |-> settings[<<n, s>>].user, external |-> choice[<<n, s>>],
                                     origin |-> "migrate"]
             keys(choice) == {k \in AddonKey : k.origin = "migrate"
                                    /\ choice[<<k.node, k.service>>] # None}
  <2>1. PICK choice \in [Nodes \X Services -> ExternalAccounts \cup {None}] :
            /\ \A n \in Nodes, s \in Services :
                IF choices(n, s) = {} THEN choice[<<n, s>>] = None ELSE choice[<<n, s>>] \in choices(n, s)
            /\ accounts = {anyOf(choice, k.node, k.service) : k \in keys(choice)}
            /\ addon = [k \in AddonKey |->
                          IF k \in keys(choice)
                          THEN [account |-> anyOf(choice, k.node, k.service), node |-> k.node, recent |-> FALSE]
                          ELSE None]
            /\ sent = keys(choice)
    BY <1>4 DEF EarlierMigration
  <2>2. ASSUME NEW k \in keys(choice)
        PROVE  /\ k \in AddonKey /\ k.origin = "migrate"
               /\ settings[<<k.node, k.service>>] \in NodeSettings
               /\ settings[<<k.node, k.service>>] # None
               /\ anyOf(choice, k.node, k.service) \in Account
               /\ anyOf(choice, k.node, k.service).owner = settings[<<k.node, k.service>>].user
               /\ Provider[anyOf(choice, k.node, k.service).external] = k.service
    <3>1. k.node \in Nodes /\ k.service \in Services
      BY DEF AddonKey
    <3>2. choice[<<k.node, k.service>>] # None /\ choice[<<k.node, k.service>>] \in ExternalAccounts
      BY <3>1
    <3>3. made(k.node, k.service)
      BY <2>1, <3>1, <3>2
    <3>4. settings[<<k.node, k.service>>] \in NodeSettings
      BY <1>1, <3>1, <3>3 DEF OsfOK
    <3>5. choice[<<k.node, k.service>>] \in AccountsOf(settings[<<k.node, k.service>>].user, k.service)
      BY <2>1, <3>1, <3>2, <3>3
    <3> QED
      BY <3>2, <3>3, <3>4, <3>5 DEF NodeSettings, Account, Origins, AccountsOf
  <2> DEFINE row(k) == [account |-> anyOf(choice, k.node, k.service), node |-> k.node, recent |-> FALSE]
  <2>3. ASSUME NEW k \in keys(choice)
        PROVE  /\ row(k) \in AddonRow
               /\ row(k).account \in accounts
               /\ OwnedAsSet(row(k))
    BY <2>1, <2>2 DEF AddonRow, AddonKey, OwnedAsSet, SetAt
  <2>4. \A k \in AddonKey : addon[k] # None => k \in keys(choice) /\ addon[k] = row(k)
    BY <2>1
  <2>5. addon \in [AddonKey -> AddonRow \cup {None}]
    <3> HIDE DEF row
    <3>1. addon = [k \in AddonKey |-> IF k \in keys(choice) THEN row(k) ELSE None]
      BY <2>1 DEF row
    <3> QED
      BY <2>3, <3>1
  <2>6. RowsOK(addon, accounts)
    <3> HIDE DEF row
    <3> QED
      BY <2>1, <2>3, <2>4, <2>5 DEF RowsOK
  <2>7. accounts \subseteq Account /\ sent \subseteq AddonKey
    <3> HIDE DEF anyOf
    <3> QED
      BY <2>1, <2>2
  <2>8. RowsOK(tx.addon, SeenAccounts)
    BY <1>2, NoRowsOK DEF RowsOK, NoRows
  <2> QED
    BY <1>1, <1>2, <2>6, <2>7, <2>8, NoCommandType
    DEF IInv, CommandOK, NoCommand, NoRows, MigrationAssumption
<1> QED
  BY <1>3, <1>4 DEF Init

-----------------------------------------------------------------------------
\* Nothing is left of the rows that a command had written; messages were sent.
LEMMA RollBackKeeps ==
    ASSUME IInv, RollBack, sent \subseteq sent', sent' \subseteq AddonKey
    PROVE  IInv'
<1>1. settings' = settings /\ fields' = fields /\ accounts' = accounts /\ addon' = addon
      /\ edited' = edited /\ tx' = NoRows /\ command' = NoCommand
  BY DEF RollBack, osf
<1>2. OsfOK' /\ (accounts \subseteq Account)' /\ (edited \subseteq AddonKey)'
  BY <1>1 DEF IInv, OsfOK
<1>3. RowsOK(addon, accounts)'
  BY <1>1, RowsGrow DEF IInv, RowsOK, OwnedAsSet
<1>4. RowsOK(tx.addon, SeenAccounts)' /\ (tx.accounts \subseteq Account)'
  BY <1>1 DEF RowsOK, NoRows
<1>5. CommandOK'
  BY <1>1, NoCommandType DEF CommandOK, NoCommand, MigrationAssumption
<1> QED
  BY <1>1, <1>2, <1>3, <1>4, <1>5 DEF IInv

LEMMA StartKeeps ==
    ASSUME IInv, NEW name \in {"migrate", "fix"}, NEW option \in Options,
           NEW todo \in SUBSET ((Services \X Users) \cup (Services \X Nodes)),
           name = "fix" => \A x \in todo : x \in Services \X Nodes /\ settings[<<x[2], x[1]>>] # None,
           Start(name, option, todo)
    PROVE  IInv'
<1>1. settings' = settings /\ fields' = fields /\ accounts' = accounts /\ addon' = addon
      /\ edited' = edited /\ sent' = sent /\ tx' = tx /\ tx = NoRows
  BY NoCommandType DEF Start, osf, IInv
<1>2. command' = [name |-> name, fake |-> option.fake, ignore_cutoff |-> option.ignore_cutoff,
                  todo |-> todo, at |-> None, row |-> None]
  BY DEF Start, NoCommand
<1>3. option.fake \in BOOLEAN /\ option.ignore_cutoff \in BOOLEAN
  BY MigrationAssumption
<1>4. CommandOK'
  BY <1>1, <1>2, <1>3 DEF CommandOK, Command
<1>5. command'.name # None
  BY <1>2, MigrationAssumption
<1>6. RowsOK(addon, accounts)'
  BY <1>1 DEF IInv, RowsOK, OwnedAsSet
<1>7. RowsOK(tx.addon, SeenAccounts)'
  BY <1>1 DEF RowsOK, NoRows
<1> QED
  BY <1>1, <1>4, <1>5, <1>6, <1>7 DEF IInv, OsfOK

LEMMA FinishKeeps == IInv /\ Finish => IInv'
<1> SUFFICES ASSUME IInv, Finish PROVE IInv'
  OBVIOUS
<1>1. settings' = settings /\ fields' = fields /\ edited' = edited /\ sent' = sent
      /\ tx' = NoRows /\ command' = NoCommand
  BY DEF Finish, osf
<1>2. RowsOK(addon, accounts)' /\ (accounts \subseteq Account)'
  <2>1. CASE command.fake
    BY <1>1, <2>1 DEF Finish, IInv, RowsOK, OwnedAsSet
  <2>2. CASE ~command.fake
    <3>1. accounts' = SeenAccounts /\ addon' = [k \in AddonKey |-> SeenAddon(k)]
      BY <2>2 DEF Finish
    <3>2. RowsOK(addon', SeenAccounts) /\ SeenAccounts \subseteq Account
      BY <3>1, SeenRows
    <3> QED
      BY <1>1, <3>1, <3>2 DEF RowsOK, OwnedAsSet
  <2> QED
    BY <2>1, <2>2
<1>3. RowsOK(tx.addon, SeenAccounts)' /\ (tx.accounts \subseteq Account)'
  BY <1>1 DEF RowsOK, NoRows
<1>4. CommandOK'
  BY <1>1, NoCommandType DEF CommandOK, NoCommand, MigrationAssumption
<1> QED
  BY <1>1, <1>2, <1>3, <1>4 DEF IInv, OsfOK

LEMMA MigrateForUserKeeps ==
    ASSUME IInv, NEW s \in Services, NEW u \in Users, MigrateForUser(s, u)
    PROVE  IInv'
<1> DEFINE idle == SettingsOf(u, s) = {} \/ AccountsOf(u, s) = {}
           usable == {e \in AccountsOf(u, s) : GetCredentials(e)}
           account(e) == [owner |-> u, external |-> e, origin |-> "migrate"]
           made == {k \in AddonKey : /\ k.origin = "migrate" /\ k.service = s
                                     /\ k.node \in SettingsOf(u, s)
                                     /\ BaseAccount(k.node, s, usable) # None}
<1>1. command.name = "migrate" /\ <<s, u>> \in command.todo
  BY DEF MigrateForUser
<1>2. CASE idle
  <2>1. command' = [command EXCEPT !.todo = @ \ {<<s, u>>}]
        /\ fields' = fields /\ settings' = settings /\ accounts' = accounts /\ addon' = addon
        /\ sent' = sent /\ edited' = edited /\ tx' = tx
    BY <1>2 DEF MigrateForUser, osf
  <2> QED
    BY <1>1, <2>1, MigrationAssumption
    DEF IInv, OsfOK, RowsOK, OwnedAsSet, SeenAccounts, CommandOK, Command
<1>3. CASE RollBack /\ sent' = sent
  BY <1>3, RollBackKeeps DEF IInv
<1>4. CASE RollBack /\ \E told \in SUBSET made : sent' = sent \cup Announced(told)
  BY <1>4, RollBackKeeps DEF IInv, Announced
<1>5. CASE /\ tx' = [accounts |-> tx.accounts \cup {account(e) : e \in usable},
                      addon |-> [k \in AddonKey |->
                        IF k \in made
                        THEN [account |-> account(BaseAccount(k.node, s, usable)),
                              node |-> k.node, recent |-> FALSE]
                        ELSE tx.addon[k]]]
           /\ sent' = sent \cup Announced(made)
           /\ command' = [command EXCEPT !.todo = @ \ {<<s, u>>}]
           /\ UNCHANGED <<osf, accounts, addon, edited>>
  <2>1. fields' = fields /\ settings' = settings /\ accounts' = accounts /\ addon' = addon
        /\ edited' = edited /\ sent' = sent \cup made /\ made \subseteq AddonKey
    BY <1>5 DEF osf, Announced
  <2>2. CommandOK' /\ command'.name = "migrate" /\ command'.ignore_cutoff = command.ignore_cutoff
    BY <1>1, <1>5, <2>1, MigrationAssumption DEF IInv, CommandOK, Command
  <2>3. RowsOK(addon, accounts)'
    BY <2>1 DEF IInv, RowsOK, OwnedAsSet
  <2>4. \A e \in usable : account(e) \in Account
    BY DEF AccountsOf, Account, Origins
  <2>5. tx'.accounts = tx.accounts \cup {account(e) : e \in usable}
    BY <1>5
  <2>6. (tx.accounts \subseteq Account)'
    BY <2>4, <2>5 DEF IInv
  <2> DEFINE row(k) == [account |-> account(BaseAccount(k.node, s, usable)),
                      node |-> k.node, recent |-> FALSE]
  <2>7. tx'.addon = [k \in AddonKey |-> IF k \in made THEN row(k) ELSE tx.addon[k]]
    BY <1>5
  <2>8. ASSUME NEW k \in made
        PROVE  /\ k \in AddonKey /\ k.origin = "migrate"
               /\ row(k) \in AddonRow
               /\ row(k).account \in {account(e) : e \in usable}
               /\ OwnedAsSet(row(k))
    <3>1. k.node \in SettingsOf(u, s) /\ k.service = s /\ k.node \in Nodes
      BY DEF SettingsOf
    <3>2. BaseAccount(k.node, s, usable) \in usable
          /\ Provider[BaseAccount(k.node, s, usable)] = s
      BY DEF BaseAccount, AccountsOf
    <3>3. settings[<<k.node, k.service>>] # None /\ settings[<<k.node, k.service>>].user = u
      BY <3>1 DEF SettingsOf
    <3> QED
      BY <2>4, <3>1, <3>2, <3>3 DEF AddonRow, OwnedAsSet, SetAt
  <2>9. RowsOK(tx.addon, SeenAccounts)'
    <3>1. ASSUME NEW k \in AddonKey
          PROVE  /\ tx'.addon[k] \in AddonRow \cup {None}
                 /\ tx'.addon[k] # None =>
                        /\ tx'.addon[k].account \in SeenAccounts'
                        /\ k \in sent'
                        /\ ~tx'.addon[k].recent => OwnedAsSet(tx'.addon[k])
      <4>1. CASE k \in made
        <5> HIDE DEF made, row, account, usable
        <5> QED
          BY <2>1, <2>5, <2>7, <2>8, <4>1 DEF SeenAccounts
      <4>2. CASE k \notin made
        <5> HIDE DEF made, row, account, usable
        <5>1. tx'.addon[k] = tx.addon[k]
          BY <2>7, <4>2
        <5> QED
          BY <2>1, <2>2, <2>5, <5>1 DEF IInv, RowsOK, SeenAccounts
      <4> QED
        BY <4>1, <4>2
    <3>2. tx'.addon \in [AddonKey -> AddonRow \cup {None}]
      <4> HIDE DEF made, row
      <4> QED
        BY <2>7, <3>1
    <3> QED
      BY <2>1, <3>1, <3>2 DEF RowsOK, OwnedAsSet
  <2> QED
    BY <2>1, <2>2, <2>3, <2>6, <2>9, MigrationAssumption DEF IInv, OsfOK
<1> QED
  BY <1>2, <1>3, <1>4, <1>5 DEF MigrateForUser

-----------------------------------------------------------------------------
\* The one row that is found is a row.
LEMMA FoundRow ==
    ASSUME IInv, NEW n \in Nodes, NEW s \in Services, Cardinality(Seen(n, s)) = 1,
           NEW k, k = CHOOSE x \in Seen(n, s) : TRUE
    PROVE  k \in AddonKey /\ Connects(SeenAddon(k), n, s)
<1>1. Seen(n, s) # {}
  BY FS_EmptySet
<1> QED
  BY <1>1 DEF Seen

\* There are finitely many rows, so that they can be counted.
LEMMA FoundOne ==
    ASSUME NEW n, NEW s, Cardinality(Seen(n, s)) = 1
    PROVE  \E y : Seen(n, s) = {y}
<1> DEFINE made == {"migrate"} \cup {"user"}
           all == (Nodes \X Services) \X made
           f == [k \in AddonKey |-> <<<<k.node, k.service>>, k.origin>>]
<1>1. IsFiniteSet(all)
  <2>1. IsFiniteSet(made)
    BY FS_Singleton, FS_AddElement
  <2> QED
    BY <2>1, FS_Product, MigrationAssumption
<1>2. f \in Injection(AddonKey, all)
  <2>1. f \in [AddonKey -> all]
    BY DEF AddonKey
  <2>2. ASSUME NEW k \in AddonKey, NEW l \in AddonKey, f[k] = f[l] PROVE k = l
    BY <2>2 DEF AddonKey
  <2> QED
    BY <2>1, <2>2 DEF Injection, IsInjective
<1> HIDE DEF all, f
<1>3. IsFiniteSet(AddonKey)
  BY <1>1, <1>2, FS_Injection
<1>4. IsFiniteSet(Seen(n, s))
  BY <1>3, FS_Subset DEF Seen
<1> QED
  BY <1>4, FS_Singleton

LEMMA FixCheckKeeps ==
    ASSUME IInv, NEW s \in Services, NEW n \in Nodes, FixCheck(s, n)
    PROVE  IInv'
<1> DEFINE e == settings[<<n, s>>].external_account
<1>1. command.name = "fix" /\ command.at = None /\ <<s, n>> \in command.todo /\ sent' = sent
  BY DEF FixCheck
<1>2. CASE RollBack
  BY <1>1, <1>2, RollBackKeeps DEF IInv
<1>3. CASE /\ command' = [command EXCEPT !.todo = @ \ {<<s, n>>}]
           /\ UNCHANGED <<osf, accounts, addon, edited, tx>>
  BY <1>1, <1>3, MigrationAssumption
  DEF osf, IInv, OsfOK, RowsOK, OwnedAsSet, SeenAccounts, CommandOK, Command
<1>4. CASE /\ e # None
           /\ command' = [command EXCEPT !.todo = @ \ {<<s, n>>}, !.at = <<s, n>>]
           /\ UNCHANGED <<osf, accounts, addon, edited, tx>>
  <2>1. settings' = settings /\ settings[<<n, s>>] # None
    BY <1>1, <1>4 DEF osf, IInv, CommandOK
  <2>2. CommandOK'
    BY <1>1, <1>4, <2>1, MigrationAssumption DEF IInv, CommandOK, Command
  <2> QED
    BY <1>1, <1>4, <2>2, MigrationAssumption
    DEF osf, IInv, OsfOK, RowsOK, OwnedAsSet, SeenAccounts, CommandOK, Command
<1> QED
  BY <1>2, <1>3, <1>4 DEF FixCheck

LEMMA FixReadKeeps == IInv /\ FixRead => IInv'
<1> SUFFICES ASSUME IInv, FixRead PROVE IInv'
  OBVIOUS
<1> DEFINE s == command.at[1]
           n == command.at[2]
           k == CHOOSE x \in Seen(n, s) : TRUE
<1>1. command.name = "fix" /\ command.at # None /\ command.row = None /\ sent' = sent
  BY DEF FixRead
<1>2. s \in Services /\ n \in Nodes
  BY <1>1, CommandFields DEF IInv
<1>3. CASE RollBack
  BY <1>1, <1>3, RollBackKeeps DEF IInv
<1>4. CASE /\ command' = [command EXCEPT !.at = None]
           /\ UNCHANGED <<osf, accounts, addon, edited, tx>>
  BY <1>1, <1>4, MigrationAssumption
  DEF osf, IInv, OsfOK, RowsOK, OwnedAsSet, SeenAccounts, CommandOK, Command
<1>5. CASE /\ Cardinality(Seen(n, s)) = 1
           /\ ~(SeenAddon(k).recent /\ ~command.ignore_cutoff)
           /\ command' = [command EXCEPT !.row = [key |-> k, was |-> SeenAddon(k)]]
           /\ UNCHANGED <<osf, accounts, addon, edited, tx>>
  <2>1. k \in AddonKey /\ Connects(SeenAddon(k), n, s)
    BY <1>2, <1>5, FoundRow
  <2>2. SeenAddon(k) \in AddonRow /\ k \in sent
        /\ (~SeenAddon(k).recent => OwnedAsSet(SeenAddon(k)))
    <3> HIDE DEF k
    <3> QED
      BY <2>1, SeenRows DEF RowsOK, Connects
  <2>3. [key |-> k, was |-> SeenAddon(k)] \in RowRead
    BY <2>1, <2>2 DEF RowRead
  <2>4. command.ignore_cutoff \/ OwnedAsSet(SeenAddon(k))
    <3> HIDE DEF k
    <3> QED
      BY <1>5, <2>2
  <2> HIDE DEF k
  <2>5. /\ command'.name = command.name /\ command'.fake = command.fake
        /\ command'.ignore_cutoff = command.ignore_cutoff /\ command'.todo = command.todo
        /\ command'.at = command.at /\ command'.row = [key |-> k, was |-> SeenAddon(k)]
        /\ command' \in Command
    BY <1>5, <2>3 DEF IInv, CommandOK, Command
  <2>6. CommandOK'
    BY <1>1, <1>5, <2>1, <2>2, <2>3, <2>4, <2>5 DEF osf, IInv, CommandOK, OwnedAsSet
  <2> QED
    BY <1>1, <1>5, <2>5, <2>6, MigrationAssumption
    DEF osf, IInv, OsfOK, RowsOK, OwnedAsSet, SeenAccounts
<1> QED
  BY <1>3, <1>4, <1>5 DEF FixRead

\* The account that is found or made is one of the user for the external account.
LEMMA GottenAccount ==
    ASSUME IInv, NEW u \in Users, NEW e \in ExternalAccounts
    PROVE  LET a == GetOrCreateAuthorizedAccount(u, e)
           IN a \in Account /\ a.owner = u /\ a.external = e
<1>1. AuthorizedAccounts(u, e) \subseteq Account
  BY SeenRows DEF AuthorizedAccounts
<1>2. CASE AuthorizedAccounts(u, e) = {}
  BY <1>2 DEF GetOrCreateAuthorizedAccount, Account, Origins
<1>3. CASE AuthorizedAccounts(u, e) # {}
  BY <1>1, <1>3 DEF GetOrCreateAuthorizedAccount, AuthorizedAccounts
<1> QED
  BY <1>2, <1>3

LEMMA FixSaveKeeps == IInv /\ FixSave => IInv'
<1> SUFFICES ASSUME IInv, FixSave PROVE IInv'
  OBVIOUS
<1> DEFINE s == command.at[1]
           n == command.at[2]
           u == settings[<<n, s>>].user
           e == settings[<<n, s>>].external_account
           a == GetOrCreateAuthorizedAccount(u, e)
           key == command.row.key
           new == [command.row.was EXCEPT !.account = a, !.recent = TRUE]
<1>1. command.row # None /\ sent' = sent
  BY DEF FixSave
<1>2. s \in Services /\ n \in Nodes /\ command.name = "fix" /\ settings[<<n, s>>] # None /\ e # None
  BY <1>1, CommandFields DEF IInv, CommandOK
<1>3. u \in Users /\ e \in ExternalAccounts
  <2>1. settings[<<n, s>>] \in NodeSettings
    BY <1>2 DEF IInv, OsfOK
  <2> QED
    BY <1>2, <2>1 DEF NodeSettings
<1>4. key \in AddonKey /\ key \in sent /\ command.row.was \in AddonRow
  BY <1>1, CommandFields DEF IInv, CommandOK, RowRead
<1>5. a \in Account /\ new \in AddonRow /\ new.account = a /\ new.recent = TRUE
  <2>1. a \in Account
    BY <1>3, GottenAccount
  <2> HIDE DEF a
  <2> QED
    BY <1>4, <2>1 DEF AddonRow
<1>6. CASE RollBack
  BY <1>1, <1>6, RollBackKeeps DEF IInv
<1>7. CASE /\ tx' = [accounts |-> tx.accounts \cup {a},
                      addon |-> [tx.addon EXCEPT ![key] = new]]
           /\ command' = [command EXCEPT !.at = None, !.row = None]
           /\ UNCHANGED <<osf, accounts, addon, edited>>
  <2>1. fields' = fields /\ settings' = settings /\ accounts' = accounts /\ addon' = addon
        /\ edited' = edited
    BY <1>7 DEF osf
  <2> HIDE DEF a, key, new
  <2>2. tx'.accounts = tx.accounts \cup {a}
        /\ tx'.addon = [tx.addon EXCEPT ![key] = new]
    BY <1>7
  <2>3. CommandOK' /\ command'.name = "fix" /\ command'.ignore_cutoff = command.ignore_cutoff
    BY <1>2, <1>7, <2>1, MigrationAssumption DEF IInv, CommandOK, Command
  <2>5. tx.addon \in [AddonKey -> AddonRow \cup {None}]
    BY DEF IInv, RowsOK
  <2>6. tx'.addon \in [AddonKey -> AddonRow \cup {None}]
    BY <1>4, <1>5, <2>2, <2>5
  <2>7. tx'.addon[key] = new
        /\ \A k \in AddonKey : k # key => tx'.addon[k] = tx.addon[k]
    BY <1>4, <2>2, <2>5
  <2>9. ASSUME NEW k \in AddonKey, tx'.addon[k] # None
        PROVE  /\ tx'.addon[k].account \in SeenAccounts'
               /\ k \in sent
               /\ ~tx'.addon[k].recent => OwnedAsSet(tx'.addon[k])
    <3>1. CASE k = key
      BY <1>4, <1>5, <2>2, <2>7, <3>1 DEF SeenAccounts
    <3>2. CASE k # key
      BY <2>1, <2>2, <2>7, <2>9, <3>2 DEF IInv, RowsOK, SeenAccounts
    <3> QED
      BY <3>1, <3>2
  <2> QED
    BY <1>1, <1>5, <2>1, <2>2, <2>3, <2>6, <2>9, MigrationAssumption DEF IInv, OsfOK, RowsOK, OwnedAsSet
<1> QED
  BY <1>6, <1>7 DEF FixSave

-----------------------------------------------------------------------------
LEMMA AuthorizeAccountKeeps ==
    ASSUME IInv, NEW u \in Users, NEW e \in ExternalAccounts, AuthorizeAccount(u, e)
    PROVE  IInv'
<1>1. [owner |-> u, external |-> e, origin |-> "user"] \in Account
  BY DEF Account, Origins
<1>2. accounts \subseteq accounts' /\ accounts' \subseteq Account
  BY <1>1 DEF AuthorizeAccount, IInv
<1>3. fields' = fields /\ settings' = settings /\ addon' = addon /\ sent' = sent
      /\ edited' = edited /\ tx' = tx /\ command' = command
  BY DEF AuthorizeAccount, osf
<1>4. RowsOK(addon, accounts)' /\ RowsOK(tx.addon, SeenAccounts)'
  BY <1>2, <1>3 DEF IInv, RowsOK, OwnedAsSet, SeenAccounts
<1>5. CommandOK'
  BY <1>3 DEF IInv, CommandOK, OwnedAsSet
<1> QED
  BY <1>2, <1>3, <1>4, <1>5 DEF IInv, OsfOK

\* A user writes one row, of an account that is there, and leaves the command alone.
LEMMA UserRowKeeps ==
    ASSUME IInv, NEW k \in AddonKey, NEW x \in AddonRow \cup {None},
           x # None => /\ x.account \in accounts
                       /\ k \in sent'
                       /\ x.recent,
           addon' = [addon EXCEPT ![k] = x],
           sent \subseteq sent', sent' \subseteq AddonKey, edited' \subseteq AddonKey,
           UNCHANGED <<osf, accounts, tx, command>>
    PROVE  IInv'
<1>1. fields' = fields /\ settings' = settings /\ accounts' = accounts
      /\ tx' = tx /\ command' = command
  BY DEF osf
<1>2. addon'[k] = x /\ \A c \in AddonKey : c # k => addon'[c] = addon[c]
  BY DEF IInv, RowsOK
<1>3. addon' \in [AddonKey -> AddonRow \cup {None}]
  BY DEF IInv, RowsOK
<1>4. ASSUME NEW c \in AddonKey, addon'[c] # None
      PROVE  /\ addon'[c].account \in accounts
             /\ c \in sent'
             /\ ~addon'[c].recent => OwnedAsSet(addon'[c])
  BY <1>2, <1>4 DEF IInv, RowsOK
<1>5. RowsOK(addon, accounts)'
  BY <1>1, <1>3, <1>4 DEF RowsOK, OwnedAsSet
<1>6. RowsOK(tx.addon, SeenAccounts)'
  BY <1>1 DEF IInv, RowsOK, OwnedAsSet, SeenAccounts
<1>7. CommandOK'
  BY <1>1 DEF IInv, CommandOK, OwnedAsSet
<1> QED
  BY <1>1, <1>5, <1>6, <1>7 DEF IInv, OsfOK

LEMMA UserAddonKeeps ==
    ASSUME IInv, NEW k \in AddonKey, NEW n \in Nodes, NEW a \in accounts,
           ConnectAddon(k, n, a) \/ PatchAddon(k, n, a)
    PROVE  IInv'
<1> DEFINE x == [account |-> a, node |-> n, recent |-> TRUE]
<1>1. x \in AddonRow /\ x.account = a /\ x.recent
  BY DEF IInv, AddonRow
<1>2. addon' = [addon EXCEPT ![k] = x] /\ edited' = edited \cup {k}
      /\ sent \subseteq sent' /\ sent' \subseteq sent \cup {k} /\ k \in sent'
      /\ UNCHANGED <<osf, accounts, tx, command>>
  BY DEF ConnectAddon, PatchAddon, Edit, IInv, RowsOK
<1> HIDE DEF x
<1>3. sent' \subseteq AddonKey /\ edited' \subseteq AddonKey
  BY <1>2 DEF IInv
<1> QED
  BY <1>1, <1>2, <1>3, UserRowKeeps

LEMMA DeleteAddonKeeps ==
    ASSUME IInv, NEW k \in AddonKey, DeleteAddon(k)
    PROVE  IInv'
<1>1. addon' = [addon EXCEPT ![k] = None] /\ sent' = sent /\ edited' = edited \cup {k}
      /\ UNCHANGED <<osf, accounts, tx, command>>
  BY DEF DeleteAddon, Edit
<1>2. sent' \subseteq AddonKey /\ edited' \subseteq AddonKey
  BY <1>1 DEF IInv
<1> QED
  BY <1>1, <1>2, UserRowKeeps

-----------------------------------------------------------------------------
LEMMA InvariantNext == IInv /\ [Next]_vars => IInv'
<1> SUFFICES ASSUME IInv, [Next]_vars PROVE IInv'
  OBVIOUS
<1>1. CASE StartMigration
  <2>1. PICK option \in Options : Start("migrate", option, Services \X Users)
    BY <1>1 DEF StartMigration
  <2> QED
    BY <2>1, StartKeeps
<1>2. CASE StartFix
  <2> DEFINE todo == UNION {{<<t[1], n>> : n \in SettingsOf(t[2], t[1])} : t \in FixTargets}
  <2>1. PICK option \in Options : Start("fix", option, todo)
    BY <1>2 DEF StartFix
  <2>2. ASSUME NEW x \in todo
        PROVE  x \in Services \X Nodes /\ settings[<<x[2], x[1]>>] # None
    <3>1. PICK t \in FixTargets : x \in {<<t[1], n>> : n \in SettingsOf(t[2], t[1])}
      OBVIOUS
    <3>2. PICK n \in SettingsOf(t[2], t[1]) : x = <<t[1], n>>
      BY <3>1
    <3> QED
      BY <3>1, <3>2 DEF SettingsOf, FixTargets
  <2> HIDE DEF todo
  <2> QED
    BY <2>1, <2>2, StartKeeps
<1>3. CASE CommandStep
  BY <1>3, MigrateForUserKeeps, FixCheckKeeps, FixReadKeeps, FixSaveKeeps, FinishKeeps
  DEF CommandStep
<1>4. CASE \E u \in Users, e \in ExternalAccounts : AuthorizeAccount(u, e)
  BY <1>4, AuthorizeAccountKeeps
<1>5. CASE \E k \in AddonKey, n \in Nodes, a \in accounts : ConnectAddon(k, n, a) \/ PatchAddon(k, n, a)
  BY <1>5, UserAddonKeeps
<1>7. CASE \E k \in AddonKey : DeleteAddon(k)
  BY <1>7, DeleteAddonKeeps
<1>8. CASE UNCHANGED vars
  BY <1>8 DEF vars, IInv, OsfOK, RowsOK, OwnedAsSet, SeenAccounts, CommandOK
<1> QED
  BY <1>1, <1>2, <1>3, <1>4, <1>5, <1>7, <1>8 DEF Next

LEMMA InvariantType == IInv => TypeOK
<1> SUFFICES ASSUME IInv PROVE TypeOK
  OBVIOUS
<1>1. SeenAccounts \subseteq Account
  BY DEF IInv, SeenAccounts
<1>2. command = NoCommand => tx = NoRows
  BY NoCommandType DEF IInv
<1>3. ASSUME NEW k \in AddonKey
      PROVE  /\ addon[k] # None =>
                    addon[k] \in AddonRow /\ addon[k].account \in accounts /\ k \in sent
             /\ tx.addon[k] # None =>
                    tx.addon[k] \in AddonRow /\ tx.addon[k].account \in SeenAccounts
  BY DEF IInv, RowsOK
<1> QED
  BY <1>1, <1>2, <1>3, CommandFields DEF IInv, OsfOK, TypeOK

LEMMA Invariance == Spec => []IInv
BY InvariantInit, InvariantNext, PTL DEF Spec

\* Rows hold what their columns may hold and refer to rows that are there, also
\* while a command has written some of its own (migrate_for_user,
\* fix_migration_for_user_and_provider and the requests of users).
THEOREM MigrationTypeCorrect == Spec => []TypeOK
BY Invariance, InvariantType, PTL

-----------------------------------------------------------------------------
\* What the fix writes, if it looks at the cutoff, keeps the node and the owner
\* of what it has read.
OwnersStay ==
    \A k \in AddonKey :
        command.name = "fix" /\ ~command.ignore_cutoff /\ tx'.addon[k] \notin {tx.addon[k], None} =>
            /\ k = command.row.key
            /\ tx'.addon[k].node = command.row.was.node
            /\ tx'.addon[k].account.owner = command.row.was.account.owner

\* A row that is not recent was migrated for the user whose settings it stands
\* for; the account that the fix takes is of the same user.
LEMMA FixSaveKeepsOwners == IInv /\ FixSave => OwnersStay
<1> SUFFICES ASSUME IInv, FixSave, NEW k \in AddonKey, ~command.ignore_cutoff,
                    tx'.addon[k] \notin {tx.addon[k], None}
             PROVE  /\ k = command.row.key
                    /\ tx'.addon[k].node = command.row.was.node
                    /\ tx'.addon[k].account.owner = command.row.was.account.owner
  BY DEF OwnersStay
<1> DEFINE s == command.at[1]
           n == command.at[2]
           u == settings[<<n, s>>].user
           e == settings[<<n, s>>].external_account
           a == GetOrCreateAuthorizedAccount(u, e)
           was == command.row.was
           new == [was EXCEPT !.account = a, !.recent = TRUE]
<1>1. command.row # None
  BY DEF FixSave
<1>2. s \in Services /\ n \in Nodes /\ settings[<<n, s>>] # None /\ e # None
  BY <1>1, CommandFields DEF IInv, CommandOK
<1>3. u \in Users /\ e \in ExternalAccounts
  <2>1. settings[<<n, s>>] \in NodeSettings
    BY <1>2 DEF IInv, OsfOK
  <2> QED
    BY <1>2, <2>1 DEF NodeSettings
<1>4. a.owner = u
  BY <1>3, GottenAccount
<1>5. was \in AddonRow /\ Connects(was, n, s) /\ OwnedAsSet(was)
  BY <1>1, CommandFields DEF IInv, CommandOK, RowRead
<1>6. was.account.owner = u
  BY <1>5 DEF Connects, OwnedAsSet, SetAt
<1>7. \/ tx' = NoRows
      \/ tx'.addon = [tx.addon EXCEPT ![command.row.key] = new]
  BY DEF FixSave, RollBack
<1> HIDE DEF a, was, u
<1>8. tx.addon \in [AddonKey -> AddonRow \cup {None}]
  BY DEF IInv, RowsOK
<1>9. k = command.row.key /\ tx'.addon[k] = new
  BY <1>7, <1>8 DEF NoRows
<1>10. new.node = was.node /\ new.account = a
  BY <1>5 DEF AddonRow
<1> QED
  BY <1>4, <1>6, <1>9, <1>10 DEF was

LEMMA StepKeepsOwners == IInv /\ [Next]_vars => OwnersStay
<1> SUFFICES ASSUME IInv, [Next]_vars PROVE OwnersStay
  OBVIOUS
<1>1. CASE tx' = tx \/ tx' = NoRows
  BY <1>1 DEF OwnersStay, NoRows
<1>2. CASE FixSave
  BY <1>2, FixSaveKeepsOwners
<1>3. ASSUME NEW s \in Services, NEW u \in Users, MigrateForUser(s, u)
      PROVE  OwnersStay
  BY <1>3 DEF MigrateForUser, OwnersStay
<1> QED
  <2>1. CASE StartMigration \/ StartFix
    BY <1>1, <2>1 DEF StartMigration, StartFix, Start
  <2>2. CASE CommandStep
    BY <1>1, <1>2, <1>3, <2>2 DEF CommandStep, FixCheck, FixRead, RollBack, Finish
  <2>3. CASE \E u \in Users, e \in ExternalAccounts : AuthorizeAccount(u, e)
    BY <1>1, <2>3 DEF AuthorizeAccount
  <2>4. CASE \/ \E k \in AddonKey, n \in Nodes, a \in accounts : ConnectAddon(k, n, a) \/ PatchAddon(k, n, a)
             \/ \E k \in AddonKey : DeleteAddon(k)
    BY <1>1, <2>4 DEF ConnectAddon, PatchAddon, DeleteAddon
  <2>5. CASE UNCHANGED vars
    BY <1>1, <2>5 DEF vars
  <2> QED
    BY <2>1, <2>2, <2>3, <2>4, <2>5 DEF Next

\* Unless it is told to ignore the cutoff, the fix saves an addon with the node
\* and the owner that it has read: although users give addons to each other,
\* what they changed before is recent, and the fix leaves it alone
\* (get_or_create_authorized_account, fix_migration_for_user_and_provider).
THEOREM FixKeepsOwners == Spec => OwnerKept
<1>1. IInv /\ [Next]_vars => [OwnersStay]_vars
  BY StepKeepsOwners
<1> QED
  BY <1>1, Invariance, PTL DEF Spec, OwnerKept, OwnersStay

(***************************************************************************)
(* What a migration has done of its work.                                  *)
(***************************************************************************)
MigrateKey(n, s) == [node |-> n, service |-> s, origin |-> "migrate"]

\* The settings of a node name an account of their user that can be migrated.
Named(n, s) ==
    /\ settings[<<n, s>>] # None
    /\ settings[<<n, s>>].external_account \in AccountsOf(settings[<<n, s>>].user, s)
    /\ GetCredentials(settings[<<n, s>>].external_account)

NamedRow(n, s) ==
    [account |-> [owner |-> settings[<<n, s>>].user, origin |-> "migrate",
                  external |-> settings[<<n, s>>].external_account],
     node |-> n, recent |-> FALSE]

\* The nodes of the users that are done have their rows.
Migrated ==
    command.name = "migrate" =>
        \A n \in Nodes, s \in Services :
            Named(n, s) /\ <<s, settings[<<n, s>>].user>> \notin command.todo =>
                tx.addon[MigrateKey(n, s)] = NamedRow(n, s)

LEMMA MigratedStays ==
    ASSUME Migrated, UNCHANGED <<osf, tx>>,
           command'.name = "migrate" => command' = command
    PROVE  Migrated'
<1>1. fields' = fields /\ settings' = settings /\ tx' = tx
  BY DEF osf
<1>2. \A n, s : (Named(n, s) <=> Named(n, s)') /\ NamedRow(n, s)' = NamedRow(n, s)
  BY <1>1 DEF Named, NamedRow, GetCredentials
<1> QED
  BY <1>1, <1>2 DEF Migrated

\* Other users, and the nodes of other users, are left alone.
LEMMA MigratedForUser ==
    ASSUME IInv, Migrated, NEW s \in Services, NEW u \in Users, MigrateForUser(s, u)
    PROVE  Migrated'
<1> DEFINE idle == SettingsOf(u, s) = {} \/ AccountsOf(u, s) = {}
           usable == {e \in AccountsOf(u, s) : GetCredentials(e)}
           account(e) == [owner |-> u, external |-> e, origin |-> "migrate"]
           made == {k \in AddonKey : /\ k.origin = "migrate" /\ k.service = s
                                     /\ k.node \in SettingsOf(u, s)
                                     /\ BaseAccount(k.node, s, usable) # None}
           row(k) == [account |-> account(BaseAccount(k.node, s, usable)),
                      node |-> k.node, recent |-> FALSE]
<1>1. command.name = "migrate"
  BY DEF MigrateForUser
<1>2. CASE RollBack
  <2>1. command'.name = None
    BY <1>2, NoCommandType DEF RollBack
  <2> QED
    BY <2>1, MigrationAssumption DEF Migrated
<1>3. ASSUME command' = [command EXCEPT !.todo = @ \ {<<s, u>>}], UNCHANGED osf,
             NEW n \in Nodes, NEW t \in Services, Named(n, t)',
             <<t, settings'[<<n, t>>].user>> \notin command'.todo
      PROVE  /\ Named(n, t) /\ NamedRow(n, t)' = NamedRow(n, t)
             /\ \/ t = s /\ settings[<<n, t>>].user = u
                \/ ~(t = s /\ settings[<<n, t>>].user = u)
                   /\ tx.addon[MigrateKey(n, t)] = NamedRow(n, t)
  <2>1. fields' = fields /\ settings' = settings
    BY <1>3 DEF osf
  <2>2. Named(n, t) /\ NamedRow(n, t)' = NamedRow(n, t)
    BY <1>3, <2>1 DEF Named, NamedRow, GetCredentials
  <2>3. command'.todo = command.todo \ {<<s, u>>}
    BY <1>3 DEF IInv, CommandOK, Command
  <2>4. CASE t = s /\ settings[<<n, t>>].user = u
    BY <2>2, <2>4
  <2>5. CASE ~(t = s /\ settings[<<n, t>>].user = u)
    <3>1. <<t, settings[<<n, t>>].user>> \notin command.todo
      BY <1>3, <2>1, <2>3, <2>5
    <3> QED
      BY <1>1, <2>2, <2>5, <3>1 DEF Migrated
  <2> QED
    BY <2>4, <2>5
<1>4. ASSUME NEW n \in Nodes, Named(n, s), settings[<<n, s>>].user = u
      PROVE  /\ ~idle
             /\ MigrateKey(n, s) \in made
             /\ row(MigrateKey(n, s)) = NamedRow(n, s)
  <2>1. n \in SettingsOf(u, s) /\ settings[<<n, s>>].external_account \in usable
    BY <1>4 DEF Named, SettingsOf
  <2>2. BaseAccount(n, s, usable) = settings[<<n, s>>].external_account
    BY <2>1 DEF BaseAccount
  <2>3. settings[<<n, s>>].external_account # None
    BY <2>1, MigrationAssumption DEF AccountsOf
  <2>4. MigrateKey(n, s) \in AddonKey /\ MigrateKey(n, s).node = n
        /\ MigrateKey(n, s).service = s /\ MigrateKey(n, s).origin = "migrate"
    BY DEF MigrateKey, AddonKey
  <2> HIDE DEF usable
  <2>5. MigrateKey(n, s) \in made
    BY <2>1, <2>2, <2>3, <2>4
  <2>6. row(MigrateKey(n, s)) = NamedRow(n, s)
    BY <1>4, <2>2, <2>4 DEF NamedRow
  <2> QED
    BY <2>1, <2>5, <2>6 DEF usable
<1>5. CASE idle
  <2>1. command' = [command EXCEPT !.todo = @ \ {<<s, u>>}] /\ UNCHANGED osf /\ tx' = tx
    BY <1>5 DEF MigrateForUser
  <2>2. ASSUME NEW n \in Nodes, NEW t \in Services, Named(n, t)',
               <<t, settings'[<<n, t>>].user>> \notin command'.todo
        PROVE  tx'.addon[MigrateKey(n, t)] = NamedRow(n, t)'
    <3>1. ~(t = s /\ settings[<<n, t>>].user = u)
      BY <1>3, <1>4, <1>5, <2>1, <2>2
    <3> QED
      BY <1>3, <2>1, <2>2, <3>1
  <2> QED
    BY <2>2 DEF Migrated
<1>6. CASE /\ tx' = [accounts |-> tx.accounts \cup {account(e) : e \in usable},
                      addon |-> [k \in AddonKey |->
                        IF k \in made
                        THEN [account |-> account(BaseAccount(k.node, s, usable)),
                              node |-> k.node, recent |-> FALSE]
                        ELSE tx.addon[k]]]
           /\ command' = [command EXCEPT !.todo = @ \ {<<s, u>>}]
           /\ UNCHANGED osf
  <2>1. tx'.addon = [k \in AddonKey |-> IF k \in made THEN row(k) ELSE tx.addon[k]]
    BY <1>6
  <2>2. ASSUME NEW n \in Nodes, NEW t \in Services, Named(n, t)',
               <<t, settings'[<<n, t>>].user>> \notin command'.todo
        PROVE  tx'.addon[MigrateKey(n, t)] = NamedRow(n, t)'
    <3>1. MigrateKey(n, t) \in AddonKey /\ MigrateKey(n, t).node = n /\ MigrateKey(n, t).service = t
      BY DEF MigrateKey, AddonKey
    <3>2. CASE t = s /\ settings[<<n, t>>].user = u
      <4>1. MigrateKey(n, t) \in made /\ row(MigrateKey(n, t)) = NamedRow(n, t)
        BY <1>3, <1>4, <1>6, <2>2, <3>2
      <4> HIDE DEF made, row
      <4> QED
        BY <1>3, <1>6, <2>1, <2>2, <3>1, <4>1
    <3>3. CASE ~(t = s /\ settings[<<n, t>>].user = u)
      <4>1. MigrateKey(n, t) \notin made
        BY <3>1, <3>3 DEF SettingsOf
      <4> HIDE DEF made, row
      <4> QED
        BY <1>3, <1>6, <2>1, <2>2, <3>1, <3>3, <4>1
    <3> QED
      BY <3>2, <3>3
  <2> HIDE DEF made, row, usable, account
  <2> QED
    BY <2>2 DEF Migrated
<1> QED
  BY <1>2, <1>5, <1>6 DEF MigrateForUser

LEMMA MigratedNext == IInv /\ Migrated /\ [Next]_vars => Migrated'
<1> SUFFICES ASSUME IInv, Migrated, [Next]_vars PROVE Migrated'
  OBVIOUS
<1>1. CASE StartMigration
  <2>1. command'.todo = Services \X Users
    BY <1>1 DEF StartMigration, Start, NoCommand
  <2>2. settings' = settings
    BY <1>1 DEF StartMigration, Start, osf
  <2>3. ASSUME NEW n \in Nodes, NEW s \in Services, Named(n, s)'
        PROVE  <<s, settings'[<<n, s>>].user>> \in command'.todo
    <3>1. settings[<<n, s>>] \in NodeSettings
      BY <2>2, <2>3 DEF IInv, OsfOK, Named
    <3> QED
      BY <2>1, <2>2, <3>1 DEF NodeSettings
  <2> QED
    BY <2>3 DEF Migrated
<1>2. ASSUME command'.name # "migrate" PROVE Migrated'
  BY <1>2 DEF Migrated
<1>3. CASE StartFix
  BY <1>2, <1>3 DEF StartFix, Start, NoCommand
<1>4. CASE RollBack \/ Finish
  BY <1>2, <1>4, NoCommandType, MigrationAssumption DEF RollBack, Finish
<1>5. CASE \E s \in Services, u \in Users : MigrateForUser(s, u)
  BY <1>5, MigratedForUser
<1>6. ASSUME NEW s \in Services, NEW n \in Nodes, FixCheck(s, n) PROVE Migrated'
  <2>1. CASE RollBack
    BY <1>4, <2>1
  <2>2. CASE command'.name = command.name
    BY <1>2, <1>6, <2>2 DEF FixCheck
  <2> QED
    BY <1>6, <2>1, <2>2 DEF FixCheck, IInv, CommandOK, Command
<1>7. CASE FixRead
  <2>1. CASE RollBack
    BY <1>4, <2>1
  <2>2. CASE command'.name = command.name
    BY <1>2, <1>7, <2>2 DEF FixRead
  <2> QED
    BY <1>7, <2>1, <2>2 DEF FixRead, IInv, CommandOK, Command
<1>8. CASE FixSave
  <2>1. CASE RollBack
    BY <1>4, <2>1
  <2>2. CASE command'.name = command.name
    BY <1>2, <1>8, <2>2 DEF FixSave, IInv, CommandOK
  <2> QED
    BY <1>8, <2>1, <2>2 DEF FixSave, IInv, CommandOK, Command
<1>9. CASE \/ \E u \in Users, e \in ExternalAccounts : AuthorizeAccount(u, e)
           \/ \E k \in AddonKey, n \in Nodes, a \in accounts :
                ConnectAddon(k, n, a) \/ PatchAddon(k, n, a)
           \/ \E k \in AddonKey : DeleteAddon(k)
  <2>1. UNCHANGED <<osf, tx, command>>
    BY <1>9 DEF AuthorizeAccount, ConnectAddon, PatchAddon, DeleteAddon
  <2> QED
    BY <2>1, MigratedStays
<1>10. CASE UNCHANGED vars
  BY <1>10, MigratedStays DEF vars, osf
<1> QED
  BY <1>1, <1>3, <1>4, <1>5, <1>6, <1>7, <1>8, <1>9, <1>10 DEF Next, CommandStep

LEMMA MigratedInvariance == Spec => []Migrated
<1>1. Init => Migrated
  BY NoCommandType, MigrationAssumption DEF Init, Migrated
<1> QED
  BY <1>1, Invariance, MigratedNext, PTL DEF Spec

\* A migration that is committed has connected every node to the account that
\* its settings name, if that can be migrated, for any number of users who
\* share accounts and nodes, and whatever users change meanwhile
\* (migrate_for_user).
THEOREM MigrationCompletes == Spec => MigrationComplete
<1> DEFINE Complete ==
        Commits("migrate") =>
            \A n \in Nodes, s \in Services :
                LET set == settings[<<n, s>>]
                IN set # None /\ set.external_account \in AccountsOf(set.user, s)
                   /\ GetCredentials(set.external_account) =>
                        LET row == addon'[[node |-> n, service |-> s, origin |-> "migrate"]]
                        IN /\ row # None
                           /\ row.node = n
                           /\ row.account = [owner |-> set.user, origin |-> "migrate",
                                             external |-> set.external_account]
<1>1. ASSUME IInv, Migrated, Commits("migrate"), NEW n \in Nodes, NEW s \in Services, Named(n, s)
      PROVE  LET row == addon'[MigrateKey(n, s)]
             IN row # None /\ row.node = n /\ row.account = NamedRow(n, s).account
  <2>1. tx.addon[MigrateKey(n, s)] = NamedRow(n, s)
    BY <1>1 DEF Commits, Finish, Migrated
  <2>2. NamedRow(n, s) \in AddonRow
    <3>1. settings[<<n, s>>] \in NodeSettings
      BY <1>1 DEF IInv, OsfOK, Named
    <3> QED
      BY <1>1, <3>1 DEF NamedRow, Named, NodeSettings, AccountsOf, AddonRow, Account, Origins
  <2>3. MigrateKey(n, s) \in AddonKey
    BY DEF MigrateKey, AddonKey
  <2>4. addon'[MigrateKey(n, s)] = SeenAddon(MigrateKey(n, s))
    BY <1>1, <2>3 DEF Commits, Finish
  <2>5. NamedRow(n, s) # None
    BY <2>2, MigrationAssumption
  <2> QED
    BY <2>1, <2>4, <2>5 DEF SeenAddon, NamedRow
<1>2. IInv /\ Migrated => Complete
  BY <1>1 DEF Named, MigrateKey, NamedRow
<1>3. IInv /\ Migrated /\ [Next]_vars => [Complete]_vars
  BY <1>2
<1> QED
  BY <1>3, Invariance, MigratedInvariance, PTL DEF Spec, MigrationComplete

(***************************************************************************)
(* What the fix has repaired, and what users can not undo.                 *)
(***************************************************************************)
Right(k, x) ==
    x # None => x.account.external = settings[<<k.node, k.service>>].external_account

\* Addons that users have left alone are where they were migrated to, and
\* recent only if the fix has saved them.
RowsRight(rows) ==
    \A k \in AddonKey \ edited : rows[k] # None =>
        /\ Connects(rows[k], k.node, k.service)
        /\ rows[k].recent => Right(k, rows[k])

AddonsOf(n, s) == {k \in AddonKey \ edited : k.node = n /\ k.service = s}
Fixed(n, s) == \A k \in AddonsOf(n, s) : Right(k, SeenAddon(k))

\* The node is one of those to fix, and its turn is over.
IsDone(n, s) ==
    /\ \E t \in FixTargets : t[1] = s /\ n \in SettingsOf(t[2], s)
    /\ settings[<<n, s>>].external_account # None
    /\ <<s, n>> \notin command.todo
    /\ <<s, n>> # command.at

\* At the node that is being fixed nothing is left alone but the row that was read.
AloneAt(n, s) ==
    \A k \in AddonsOf(n, s) : k # command.row.key => SeenAddon(k) = None

FixInv ==
    /\ RowsRight(addon)
    /\ RowsRight(tx.addon)
    /\ command.name = "fix" =>
        \A n \in Nodes, s \in Services : IsDone(n, s) => Fixed(n, s)
    /\ command.row # None =>
        /\ AloneAt(command.at[2], command.at[1])
        /\ command.row.key \notin edited =>
            command.row.key.node = command.at[2] /\ command.row.key.service = command.at[1]

\* So what the command sees of an addon that was left alone is where it was.
LEMMA SeenInPlace ==
    ASSUME FixInv, NEW k \in AddonKey \ edited, SeenAddon(k) # None
    PROVE  /\ Connects(SeenAddon(k), k.node, k.service)
           /\ SeenAddon(k).recent => Right(k, SeenAddon(k))
BY DEF FixInv, RowsRight, SeenAddon

\* Users only change what they are then known to have changed.
LEMMA FixStays ==
    ASSUME FixInv, UNCHANGED <<osf, tx, command>>, edited \subseteq edited',
           \A k \in AddonKey \ edited' : addon'[k] = addon[k]
    PROVE  FixInv'
<1>1. settings' = settings /\ tx' = tx /\ command' = command
  BY DEF osf
<1>2. \A k \in AddonKey \ edited' : SeenAddon(k)' = SeenAddon(k)
  BY <1>1 DEF SeenAddon
<1>3. \A n, s : AddonsOf(n, s)' \subseteq AddonsOf(n, s) /\ AddonsOf(n, s)' \subseteq AddonKey \ edited'
  BY DEF AddonsOf
<1>4. RowsRight(addon)' /\ RowsRight(tx.addon)'
  BY <1>1 DEF FixInv, RowsRight, Right, Connects
<1>5. ASSUME command.name = "fix", NEW n \in Nodes, NEW s \in Services, IsDone(n, s)'
      PROVE  Fixed(n, s)'
  <2>1. IsDone(n, s)
    BY <1>1, <1>5 DEF IsDone, SettingsOf
  <2> QED
    BY <1>1, <1>2, <1>3, <1>5, <2>1 DEF FixInv, Fixed, Right
<1>6. ASSUME command.row # None
      PROVE  /\ AloneAt(command.at[2], command.at[1])'
             /\ command.row.key \notin edited' =>
                    command.row.key.node = command.at[2] /\ command.row.key.service = command.at[1]
  BY <1>1, <1>2, <1>3, <1>6 DEF FixInv, AloneAt
<1> QED
  BY <1>1, <1>4, <1>5, <1>6 DEF FixInv

\* No command is running.
LEMMA FixEnds ==
    ASSUME command'.name # "fix", command'.row = None, RowsRight(addon)', RowsRight(tx.addon)'
    PROVE  FixInv'
BY DEF FixInv

LEMMA FixRollBack ==
    ASSUME FixInv, RollBack
    PROVE  FixInv'
<1>1. settings' = settings /\ addon' = addon /\ edited' = edited
      /\ tx' = NoRows /\ command' = NoCommand
  BY DEF RollBack, osf
<1>2. command'.name # "fix" /\ command'.row = None
  BY <1>1, MigrationAssumption DEF NoCommand
<1>3. RowsRight(addon)' /\ RowsRight(tx.addon)'
  BY <1>1 DEF FixInv, RowsRight, Right, NoRows, Connects
<1> QED
  BY <1>2, <1>3, FixEnds

LEMMA FixFinish ==
    ASSUME FixInv, Finish
    PROVE  FixInv'
<1>1. settings' = settings /\ edited' = edited /\ tx' = NoRows /\ command' = NoCommand
  BY DEF Finish, osf
<1>2. command'.name # "fix" /\ command'.row = None
  BY <1>1, MigrationAssumption DEF NoCommand
<1>3. ASSUME NEW k \in AddonKey PROVE addon'[k] = addon[k] \/ addon'[k] = tx.addon[k]
  BY DEF Finish, SeenAddon
<1>4. RowsRight(addon)'
  BY <1>1, <1>3 DEF FixInv, RowsRight, Right, Connects
<1>5. RowsRight(tx.addon)'
  BY <1>1 DEF RowsRight, NoRows
<1> QED
  BY <1>2, <1>4, <1>5, FixEnds

\* All targets are to be done.
LEMMA FixStart ==
    ASSUME FixInv, StartMigration \/ StartFix
    PROVE  FixInv'
<1>1. UNCHANGED <<osf, addon, edited, tx>> /\ command'.row = None
  BY DEF StartMigration, StartFix, Start, NoCommand
<1>2. RowsRight(addon)' /\ RowsRight(tx.addon)'
  BY <1>1 DEF osf, FixInv, RowsRight, Right, Connects
<1>3. CASE StartMigration
  <2>1. command'.name = "migrate"
    BY <1>3 DEF StartMigration, Start, NoCommand
  <2> QED
    BY <1>1, <1>2, <2>1, FixEnds
<1>4. CASE StartFix
  <2>1. command'.todo = UNION {{<<t[1], n>> : n \in SettingsOf(t[2], t[1])} : t \in FixTargets}
    BY <1>4 DEF StartFix, Start, NoCommand
  <2>2. ASSUME NEW n, NEW s, NEW t \in FixTargets, t[1] = s, n \in SettingsOf(t[2], s)
        PROVE  <<s, n>> \in command'.todo
    BY <2>1, <2>2
  <2>3. \A t, s : SettingsOf(t, s)' = SettingsOf(t, s)
    BY <1>1 DEF osf, SettingsOf
  <2> QED
    BY <1>1, <1>2, <2>2, <2>3 DEF FixInv, IsDone
<1> QED
  BY <1>3, <1>4

LEMMA FixMigrates ==
    ASSUME IInv, FixInv, NEW s \in Services, NEW u \in Users, MigrateForUser(s, u)
    PROVE  FixInv'
<1> DEFINE usable == {e \in AccountsOf(u, s) : GetCredentials(e)}
           account(e) == [owner |-> u, external |-> e, origin |-> "migrate"]
           made == {k \in AddonKey : /\ k.origin = "migrate" /\ k.service = s
                                     /\ k.node \in SettingsOf(u, s)
                                     /\ BaseAccount(k.node, s, usable) # None}
           row(k) == [account |-> account(BaseAccount(k.node, s, usable)),
                      node |-> k.node, recent |-> FALSE]
<1>1. command.name = "migrate"
  BY DEF MigrateForUser
<1>2. CASE RollBack
  BY <1>2, FixRollBack
<1>3. CASE /\ command' = [command EXCEPT !.todo = @ \ {<<s, u>>}]
           /\ UNCHANGED <<osf, addon, edited>>
           /\ \/ tx' = tx
              \/ tx'.addon = [k \in AddonKey |-> IF k \in made THEN row(k) ELSE tx.addon[k]]
  <2>1. command'.name = "migrate" /\ command'.row = command.row /\ command.row = None
    BY <1>1, <1>3, MigrationAssumption DEF IInv, CommandOK, Command
  <2>2. settings' = settings /\ addon' = addon /\ edited' = edited
    BY <1>3 DEF osf
  <2>3. ASSUME NEW k \in made
        PROVE  ~row(k).recent /\ Connects(row(k), k.node, k.service)
    <3>1. k.service = s /\ k.node \in Nodes /\ u \in Users
      BY DEF AddonKey
    <3>2. BaseAccount(k.node, s, usable) \in usable
      BY DEF BaseAccount
    <3>3. BaseAccount(k.node, s, usable) \in ExternalAccounts
          /\ Provider[BaseAccount(k.node, s, usable)] = s
      BY <3>2 DEF AccountsOf
    <3>4. row(k) \in AddonRow /\ row(k).account.external = BaseAccount(k.node, s, usable)
      BY <3>1, <3>3 DEF AddonRow, Account, Origins
    <3> QED
      BY <3>1, <3>3, <3>4, MigrationAssumption DEF Connects
  <2> HIDE DEF made, row
  <2>4. ASSUME NEW k \in AddonKey
        PROVE  \/ tx'.addon[k] = tx.addon[k]
               \/ ~tx'.addon[k].recent /\ Connects(tx'.addon[k], k.node, k.service)
    BY <1>3, <2>3
  <2>5. RowsRight(addon)' /\ RowsRight(tx.addon)'
    BY <2>2, <2>4 DEF FixInv, RowsRight, Right, Connects
  <2> QED
    BY <2>1, <2>5, FixEnds
<1>4. CASE /\ tx' = [accounts |-> tx.accounts \cup {account(e) : e \in usable},
                      addon |-> [k \in AddonKey |->
                        IF k \in made
                        THEN [account |-> account(BaseAccount(k.node, s, usable)),
                              node |-> k.node, recent |-> FALSE]
                        ELSE tx.addon[k]]]
           /\ command' = [command EXCEPT !.todo = @ \ {<<s, u>>}]
           /\ UNCHANGED <<osf, addon, edited>>
  <2>1. tx'.addon = [k \in AddonKey |-> IF k \in made THEN row(k) ELSE tx.addon[k]]
    BY <1>4
  <2> QED
    BY <1>3, <1>4, <2>1
<1>5. CASE /\ command' = [command EXCEPT !.todo = @ \ {<<s, u>>}]
           /\ UNCHANGED <<osf, addon, edited, tx>>
  BY <1>3, <1>5
<1> QED
  BY <1>2, <1>4, <1>5 DEF MigrateForUser

\* The addon of one of the nodes is looked at: it is right, or its turn comes.
LEMMA FixChecks ==
    ASSUME IInv, FixInv, NEW s \in Services, NEW n \in Nodes, FixCheck(s, n)
    PROVE  FixInv'
<1> DEFINE e == settings[<<n, s>>].external_account
<1>1. command.name = "fix" /\ command.at = None /\ command.row = None
  BY DEF FixCheck, IInv, CommandOK
<1>2. CASE RollBack
  BY <1>2, FixRollBack
<1>3. CASE /\ command' = IF e = None \/ \A k \in Seen(n, s) : HasCorrectBaseAccount(k, e)
                    THEN [command EXCEPT !.todo = @ \ {<<s, n>>}]
                    ELSE [command EXCEPT !.todo = @ \ {<<s, n>>}, !.at = <<s, n>>]
           /\ UNCHANGED <<osf, accounts, addon, edited, tx>>
  <2>1. /\ command'.name = "fix" /\ command'.row = None
        /\ command'.todo = command.todo \ {<<s, n>>}
        /\ command'.at = IF e = None \/ \A k \in Seen(n, s) : HasCorrectBaseAccount(k, e)
                           THEN None ELSE <<s, n>>
    BY <1>1, <1>3 DEF IInv, CommandOK, Command
  <2>2. settings' = settings /\ addon' = addon /\ edited' = edited /\ tx' = tx
    BY <1>3 DEF osf
  <2>3. RowsRight(addon)' /\ RowsRight(tx.addon)'
    BY <2>2 DEF FixInv, RowsRight, Right, Connects
  <2>4. ASSUME NEW m \in Nodes, NEW t \in Services, IsDone(m, t)' PROVE Fixed(m, t)'
    <3>1. /\ settings[<<m, t>>].external_account # None
          /\ \E x \in FixTargets : x[1] = t /\ m \in SettingsOf(x[2], t)
      BY <2>2, <2>4 DEF IsDone, SettingsOf
    <3>2. CASE t = s /\ m = n
      <4>1. \A k \in Seen(n, s) : HasCorrectBaseAccount(k, e)
        BY <2>1, <2>4, <3>1, <3>2 DEF IsDone
      <4>2. ASSUME NEW k \in AddonsOf(n, s), SeenAddon(k) # None
            PROVE  Right(k, SeenAddon(k))
        <5>1. k \in Seen(n, s) /\ k.node = n /\ k.service = s
          BY <4>2, SeenInPlace DEF AddonsOf, Seen
        <5> QED
          BY <4>1, <5>1 DEF Right, HasCorrectBaseAccount
      <4> QED
        BY <2>2, <3>2, <4>2 DEF Fixed, AddonsOf, Right, SeenAddon
    <3>3. CASE ~(t = s /\ m = n)
      <4>1. <<t, m>> \notin command.todo /\ <<t, m>> # command.at
        <5>1. <<t, m>> # <<s, n>> /\ <<t, m>> \notin command'.todo
          BY <2>4, <3>3 DEF IsDone
        <5>2. <<t, m>> # None
          BY MigrationAssumption
        <5> QED
          BY <1>1, <2>1, <5>1, <5>2
      <4>2. Fixed(m, t)
        BY <1>1, <3>1, <4>1 DEF FixInv, IsDone
      <4> QED
        BY <2>2, <4>2 DEF Fixed, AddonsOf, Right, SeenAddon
    <3> QED
      BY <3>2, <3>3
  <2> QED
    BY <2>1, <2>3, <2>4 DEF FixInv
<1> QED
  BY <1>2, <1>3 DEF FixCheck

\* The addon is read: it is recent, and right for that, or it is the only one.
LEMMA FixReads ==
    ASSUME IInv, FixInv, FixRead
    PROVE  FixInv'
<1> DEFINE s == command.at[1]
           n == command.at[2]
           found == Seen(n, s)
           k == CHOOSE x \in found : TRUE
<1>1. command.name = "fix" /\ command.at # None /\ command.row = None
  BY DEF FixRead
<1>2. s \in Services /\ n \in Nodes /\ command.at = <<s, n>>
  BY <1>1, CommandFields DEF IInv
<1>3. CASE RollBack
  BY <1>3, FixRollBack
<1>4. CASE /\ Cardinality(found) = 1
           /\ command' = IF SeenAddon(k).recent /\ ~command.ignore_cutoff
                           THEN [command EXCEPT !.at = None]
                           ELSE [command EXCEPT !.row = [key |-> k, was |-> SeenAddon(k)]]
           /\ UNCHANGED <<osf, accounts, addon, edited, tx>>
  <2>1. settings' = settings /\ addon' = addon /\ edited' = edited /\ tx' = tx
    BY <1>4 DEF osf
  <2>2. RowsRight(addon)' /\ RowsRight(tx.addon)'
    BY <2>1 DEF FixInv, RowsRight, Right, Connects
  <2>3. \A x \in AddonsOf(n, s) : x # k => SeenAddon(x) = None
    <3>1. PICK y : found = {y}
      BY <1>4, FoundOne
    <3>2. k = y
      BY <3>1
    <3> HIDE DEF k
    <3> QED
      BY <3>1, <3>2, SeenInPlace DEF Seen, AddonsOf
  <2>8. k \notin edited => k.node = n /\ k.service = s
    <3>1. PICK y : found = {y}
      BY <1>4, FoundOne
    <3>2. k = y
      BY <3>1
    <3> HIDE DEF k
    <3>3. k \in AddonKey /\ Connects(SeenAddon(k), n, s)
      BY <3>1, <3>2 DEF Seen
    <3> QED
      BY <3>3, SeenInPlace DEF Connects
  <2>7. \A m, t : AddonsOf(m, t)' = AddonsOf(m, t)
    BY <2>1 DEF AddonsOf
  <2>4. \A x : SeenAddon(x)' = SeenAddon(x)
    BY <2>1 DEF SeenAddon
  <2> HIDE DEF k
  <2>5. CASE command' = [command EXCEPT !.row = [key |-> k, was |-> SeenAddon(k)]]
    <3>1. /\ command'.name = "fix" /\ command'.at = command.at /\ command'.todo = command.todo
          /\ command'.row.key = k
      BY <1>1, <2>5 DEF IInv, CommandOK, Command
    <3>2. AloneAt(command.at[2], command.at[1])'
      BY <2>3, <2>4, <2>7, <3>1 DEF AloneAt
    <3>3. ASSUME NEW m \in Nodes, NEW t \in Services, IsDone(m, t)' PROVE Fixed(m, t)'
      BY <1>1, <2>1, <3>1, <3>3 DEF IsDone, SettingsOf, FixInv, Fixed, AddonsOf, Right, SeenAddon
    <3>4. command'.row.key \notin edited' =>
              command'.row.key.node = command'.at[2] /\ command'.row.key.service = command'.at[1]
      BY <2>1, <2>8, <3>1
    <3> QED
      BY <2>2, <3>1, <3>2, <3>3, <3>4 DEF FixInv
  <2>6. CASE SeenAddon(k).recent /\ command' = [command EXCEPT !.at = None]
    <3>1. /\ command'.name = "fix" /\ command'.at = None /\ command'.todo = command.todo
          /\ command'.row = None
      BY <1>1, <2>6 DEF IInv, CommandOK, Command
    <3>2. Fixed(n, s)
      <4>1. ASSUME NEW x \in AddonsOf(n, s), SeenAddon(x) # None PROVE Right(x, SeenAddon(x))
        BY <2>3, <2>6, <4>1, SeenInPlace DEF AddonsOf
      <4> QED
        BY <4>1 DEF Fixed, Right
    <3>3. ASSUME NEW m \in Nodes, NEW t \in Services, IsDone(m, t)' PROVE Fixed(m, t)'
      <4>1. Fixed(m, t)
        <5>1. CASE <<t, m>> = command.at
          <6>1. t = s /\ m = n
            BY <1>2, <5>1
          <6> QED
            BY <3>2, <6>1
        <5>2. CASE <<t, m>> # command.at
          BY <1>1, <2>1, <3>1, <3>3, <5>2 DEF IsDone, SettingsOf, FixInv
        <5> QED
          BY <5>1, <5>2
      <4> QED
        BY <2>1, <4>1 DEF Fixed, AddonsOf, Right, SeenAddon
    <3> QED
      BY <2>2, <3>1, <3>3 DEF FixInv
  <2> QED
    BY <1>4, <2>5, <2>6
<1> QED
  BY <1>3, <1>4 DEF FixRead

\* The addon gets the account that the settings name.
LEMMA FixSaves ==
    ASSUME IInv, FixInv, FixSave
    PROVE  FixInv'
<1> DEFINE s == command.at[1]
           n == command.at[2]
           u == settings[<<n, s>>].user
           e == settings[<<n, s>>].external_account
           a == GetOrCreateAuthorizedAccount(u, e)
           new == [command.row.was EXCEPT !.account = a, !.recent = TRUE]
<1>1. command.row # None /\ command.at # None /\ command.name = "fix"
  BY DEF FixSave, IInv, CommandOK
<1>2. s \in Services /\ n \in Nodes /\ command.at = <<s, n>>
  BY <1>1, CommandFields DEF IInv
<1>3. PICK key \in AddonKey :
        /\ key = command.row.key
        /\ key \notin edited => key.node = n /\ key.service = s
  BY <1>1, CommandFields DEF IInv, FixInv, CommandOK, RowRead
<1>4. a \in Account /\ a.external = e /\ Provider[e] = s
  <2>1. settings[<<n, s>>] # None /\ e # None
    BY <1>1, <1>2 DEF IInv, CommandOK
  <2>2. settings[<<n, s>>] \in NodeSettings
    BY <1>2, <2>1 DEF IInv, OsfOK
  <2>3. u \in Users /\ e \in ExternalAccounts
    BY <2>1, <2>2 DEF NodeSettings
  <2>4. Provider[e] = s
    BY <1>2, <2>1 DEF IInv, OsfOK
  <2> QED
    BY <2>3, <2>4, GottenAccount
<1>7. new \in AddonRow /\ new # None /\ new.account = a /\ Connects(new, n, s)
  <2>1. command.row.was \in AddonRow /\ Connects(command.row.was, n, s)
    BY <1>1, CommandFields DEF IInv, CommandOK, RowRead
  <2> HIDE DEF a
  <2>2. new \in AddonRow /\ new.account = a /\ new.node = command.row.was.node
    BY <1>4, <2>1 DEF AddonRow
  <2> QED
    BY <1>4, <2>1, <2>2, MigrationAssumption DEF Connects
<1>5. CASE RollBack
  BY <1>5, FixRollBack
<1>6. CASE /\ tx' = [accounts |-> tx.accounts \cup {a},
                      addon |-> [tx.addon EXCEPT ![key] = new]]
           /\ command' = [command EXCEPT !.at = None, !.row = None]
           /\ UNCHANGED <<osf, accounts, addon, edited>>
  <2>1. settings' = settings /\ addon' = addon /\ edited' = edited
    BY <1>6 DEF osf
  <2>2. /\ command'.name = "fix" /\ command'.at = None /\ command'.row = None
        /\ command'.todo = command.todo
    BY <1>1, <1>6 DEF IInv, CommandOK, Command
  <2> HIDE DEF a, new
  <2>3. tx'.addon[key] = new
        /\ \A k \in AddonKey : k # key => tx'.addon[k] = tx.addon[k]
    BY <1>3, <1>6 DEF IInv, RowsOK
  <2>4. key \notin edited => Right(key, tx'.addon[key]) /\ Connects(tx'.addon[key], key.node, key.service)
    BY <1>3, <1>4, <1>7, <2>3 DEF Right
  <2>5. RowsRight(addon)'
    BY <2>1 DEF FixInv, RowsRight, Right, Connects
  <2>6. RowsRight(tx.addon)'
    BY <2>1, <2>3, <2>4 DEF FixInv, RowsRight, Right, Connects
  <2>7. \A k \in AddonKey : SeenAddon(k)' = SeenAddon(k) \/ k = key
    BY <2>1, <2>3 DEF SeenAddon
  <2>8. key \notin edited => Right(key, SeenAddon(key))'
    BY <1>7, <2>1, <2>3, <2>4 DEF SeenAddon, Right
  <2>9. ASSUME NEW m \in Nodes, NEW t \in Services, IsDone(m, t)' PROVE Fixed(m, t)'
    <3>1. CASE <<t, m>> = command.at
      <4>1. t = s /\ m = n
        BY <1>2, <3>1
      <4>2. ASSUME NEW k \in AddonsOf(m, t)' PROVE Right(k, SeenAddon(k))'
        <5>1. k \in AddonsOf(n, s) /\ k \in AddonKey
          BY <2>1, <4>1, <4>2 DEF AddonsOf
        <5>2. CASE k = key
          BY <2>8, <5>1, <5>2 DEF AddonsOf
        <5>3. CASE k # key
          <6>1. SeenAddon(k) = None
            BY <1>1, <1>3, <5>1, <5>3 DEF FixInv, AloneAt
          <6> QED
            BY <2>7, <5>1, <5>3, <6>1 DEF Right
        <5> QED
          BY <5>2, <5>3
      <4> QED
        BY <4>2 DEF Fixed
    <3>2. CASE <<t, m>> # command.at
      <4>1. Fixed(m, t)
        BY <1>1, <2>1, <2>2, <2>9, <3>2 DEF IsDone, SettingsOf, FixInv
      <4>2. ~(t = s /\ m = n)
        BY <1>2, <3>2
      <4>3. ASSUME NEW k \in AddonsOf(m, t)' PROVE Right(k, SeenAddon(k))'
        <5>1. k \in AddonsOf(m, t) /\ k \in AddonKey /\ k # key
          BY <1>3, <2>1, <4>2, <4>3 DEF AddonsOf
        <5> QED
          BY <2>1, <2>7, <4>1, <5>1 DEF Fixed, Right
      <4> QED
        BY <4>3 DEF Fixed
    <3> QED
      BY <3>1, <3>2
  <2> QED
    BY <2>2, <2>5, <2>6, <2>9 DEF FixInv
<1> QED
  BY <1>3, <1>5, <1>6 DEF FixSave

LEMMA FixUsers ==
    ASSUME IInv, FixInv,
           \/ \E u \in Users, e \in ExternalAccounts : AuthorizeAccount(u, e)
           \/ \E k \in AddonKey, n \in Nodes, a \in accounts :
                ConnectAddon(k, n, a) \/ PatchAddon(k, n, a)
           \/ \E k \in AddonKey : DeleteAddon(k)
    PROVE  FixInv'
<1>1. ASSUME NEW k, NEW x, addon' = [addon EXCEPT ![k] = x], edited' = edited \cup {k},
             UNCHANGED <<osf, tx, command>>
      PROVE  FixInv'
  <2>1. \A c \in AddonKey \ edited' : addon'[c] = addon[c]
    BY <1>1 DEF IInv, RowsOK
  <2> QED
    BY <1>1, <2>1, FixStays
<1>2. CASE \E u \in Users, e \in ExternalAccounts : AuthorizeAccount(u, e)
  BY <1>2, FixStays DEF AuthorizeAccount
<1>3. CASE \E k \in AddonKey, n \in Nodes, a \in accounts : ConnectAddon(k, n, a) \/ PatchAddon(k, n, a)
  BY <1>1, <1>3 DEF ConnectAddon, PatchAddon, Edit
<1>5. CASE \E k \in AddonKey : DeleteAddon(k)
  BY <1>1, <1>5 DEF DeleteAddon, Edit
<1> QED
  BY <1>2, <1>3, <1>5

LEMMA FixInitially == Init => FixInv
<1> SUFFICES ASSUME Init PROVE FixInv
  OBVIOUS
<1>1. command.name # "fix" /\ command.row = None /\ tx = NoRows
  BY MigrationAssumption DEF Init, NoCommand
<1>2. \A k \in AddonKey : addon[k] # None =>
            ~addon[k].recent /\ Connects(addon[k], k.node, k.service)
  <2>1. CASE EarlierMigration
    <3> DEFINE made(n, s) == settings[<<n, s>>] # None /\ settings[<<n, s>>].external_account # None
               choices(n, s) == IF made(n, s)
                  THEN {e \in AccountsOf(settings[<<n, s>>].user, s) : GetCredentials(e)} ELSE {}
               anyOf(choice, n, s) == [owner |-> settings[<<n, s>>].user,
                                       external |-> choice[<<n, s>>], origin |-> "migrate"]
               keys(choice) == {k \in AddonKey : k.origin = "migrate"
                                      /\ choice[<<k.node, k.service>>] # None}
    <3>1. PICK choice \in [Nodes \X Services -> ExternalAccounts \cup {None}] :
            /\ \A n \in Nodes, s \in Services :
                IF choices(n, s) = {} THEN choice[<<n, s>>] = None ELSE choice[<<n, s>>] \in choices(n, s)
            /\ accounts = {anyOf(choice, k.node, k.service) : k \in keys(choice)}
            /\ addon = [k \in AddonKey |->
                          IF k \in keys(choice)
                          THEN [account |-> anyOf(choice, k.node, k.service), node |-> k.node, recent |-> FALSE]
                          ELSE None]
            /\ sent = keys(choice)
      BY <2>1 DEF EarlierMigration
    <3>2. ASSUME NEW k \in AddonKey, addon[k] # None
          PROVE  ~addon[k].recent /\ Connects(addon[k], k.node, k.service)
      <4> DEFINE e == choice[<<k.node, k.service>>]
      <4>1. k \in keys(choice) /\ k.node \in Nodes /\ k.service \in Services
            /\ addon[k] = [account |-> anyOf(choice, k.node, k.service), node |-> k.node, recent |-> FALSE]
        BY <3>1, <3>2 DEF AddonKey
      <4>2. e # None
        BY <4>1
      <4>3. e \in AccountsOf(settings[<<k.node, k.service>>].user, k.service)
        BY <3>1, <4>1, <4>2
      <4>4. anyOf(choice, k.node, k.service).external = e
        OBVIOUS
      <4> HIDE DEF anyOf, keys
      <4> QED
        BY <3>2, <4>1, <4>3, <4>4 DEF Connects, AccountsOf
    <3> QED
      BY <3>2
  <2> QED
    BY <2>1 DEF Init, NoRows
<1> QED
  BY <1>1, <1>2 DEF FixInv, RowsRight, NoRows

LEMMA FixNext == IInv /\ FixInv /\ [Next]_vars => FixInv'
<1> SUFFICES ASSUME IInv, FixInv, [Next]_vars PROVE FixInv'
  OBVIOUS
<1>1. CASE UNCHANGED vars
  BY <1>1, FixStays DEF vars, osf
<1>2. CASE CommandStep
  BY <1>2, FixMigrates, FixChecks, FixReads, FixSaves, FixFinish DEF CommandStep
<1> QED
  BY <1>1, <1>2, FixStart, FixUsers DEF Next

LEMMA FixInvariance == Spec => []FixInv
BY Invariance, FixInitially, FixNext, PTL DEF Spec

\* Once the fix is committed the addons that users left alone use the accounts
\* that the node settings name, whatever users connected, changed and deleted
\* between its reads and its writes (fix_migration_for_user_and_provider).
THEOREM FixRepairsAddons == Spec => FixRepairs
<1> DEFINE Repaired ==
        Commits("fix") =>
            \A t \in FixTargets : \A n \in SettingsOf(t[2], t[1]) :
                LET e == settings[<<n, t[1]>>].external_account
                IN e # None =>
                    \A k \in AddonKey \ edited :
                        Connects(addon'[k], n, t[1]) => addon'[k].account.external = e
<1>1. ASSUME IInv, FixInv, Commits("fix"), NEW t \in FixTargets, NEW n \in SettingsOf(t[2], t[1]),
             settings[<<n, t[1]>>].external_account # None,
             NEW k \in AddonKey \ edited, Connects(addon'[k], n, t[1])
      PROVE  addon'[k].account.external = settings[<<n, t[1]>>].external_account
  <2>1. command.name = "fix" /\ command.todo = {} /\ command.at = None
        /\ addon'[k] = SeenAddon(k)
    BY <1>1 DEF Commits, Finish
  <2>2. t[1] \in Services /\ n \in Nodes
    BY DEF FixTargets, SettingsOf
  <2>5. k.node = n /\ k.service = t[1] /\ addon'[k] # None
    BY <1>1, <2>1, SeenInPlace DEF Connects
  <2>3. IsDone(n, t[1])
    BY <1>1, <2>1, <2>2, MigrationAssumption DEF IsDone
  <2>4. Fixed(n, t[1]) /\ k \in AddonsOf(n, t[1])
    BY <1>1, <2>1, <2>2, <2>3, <2>5 DEF FixInv, AddonsOf
  <2> QED
    BY <1>1, <2>1, <2>4, <2>5 DEF Fixed, Right
<1>2. IInv /\ FixInv /\ [Next]_vars => [Repaired]_vars
  BY <1>1
<1> QED
  BY <1>2, Invariance, FixInvariance, PTL DEF Spec, FixRepairs

=============================================================================
