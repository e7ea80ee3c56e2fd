# Verification of gravyvalet

gravyvalet (GV) keeps the accounts that OSF users have at external services
(storage, citation, link and computing services), their credentials, and the
"configured addons" that connect an account to an OSF resource.  It performs
operations at the external services on the users' behalf.  It is a Django REST
service with celery workers; its state is in one PostgreSQL database, its work in
web requests, celery tasks and management commands that run concurrently.

This directory models the parts in which that concurrency, failures and paging
decide whether the program is correct.  Source paths below are relative to the
repository (`src/` in `PROJECT.json`).

- `<Module>.tla` models a component; `MC<Module>.tla` and the `.cfg` files give it
  small instances for TLC; `<Module>_proofs.tla` has theorems checked by TLAPS
  (`AddonImps_proofs.tla` those of `Listing` and `Browse`).
- `PROJECT.json` maps every definition to the lines it translates, and lists runs,
  mutants (faulty variants of single definitions, each of which must violate the
  property it is named with), findings, hazards and theorems.

## 1. Inventory

| Component | State | Operations | Hard to get right |
|---|---|---|---|
| OAuth2 accounts and tokens: `addon_service/authorized_account`, `oauth2` | rows `AuthorizedAccount`, `OAuth2TokenMetadata` (state nonce, refresh token), `ExternalCredentials` (access token) | create, start a flow, callback, refresh, PATCH, delete, merge | a handler reads rows, awaits the service, and writes whole rows later; nonces and tokens are used once at the service but not in the database |
| Credentials and encryption: `credentials`, `app/env.py` | encrypted rows with the key parameters they were made with; secret and prior secrets in each process's environment | save, read, rotate encryption | rows written by processes of different environments; a rotation racing a write |
| Key rotation: `tasks/key_rotation.py`, `rotate_encryption` command, celery settings | the queue of tasks | schedule, one task per row | redelivery, restarts during a roll-out, failed tasks, rows deleted meanwhile |
| Addon operation invocations: `addon_operation_invocation`, `tasks/invocation.py`, `common/dibs.py` | row with status and result, message of the celery task | create, perform at once or in a task, save result or error | nested transactions, a row lock, messages delivered again, a token refreshed inside an operation that fails |
| HTTP requestor: `common/network.py` | none | send, refresh on 401, send again | the refresh happens within the operation's transaction |
| Addon implementations: `addon_imps` | none | list roots and children, item info, WaterButler config | paging: following the cursors must show everything once and end; an id that was handed out must lead back to its item |
| Addon toolkit: `addon_toolkit` | none | cursors, declarations of operations, JSON arguments | boundaries of cursors; schema, serializer and parser must agree on enums, optional values and defaults |
| OAuth1 authorization: `oauth1` | temporary credentials, one pending account in the session | start, callback | deleting the temporary credentials cascades to the account, which is inserted again, and to its addons, which are not; a second flow replaces the session's account |
| Configured addons: `configured_addon` | rows of each addon type | create, update, delete, log to OSF | tasks are sent before the transaction commits, or is rolled back; uniqueness and capabilities are checked against rows read earlier |
| User references, OSF backchannel: `user_reference`, `tasks/osf_backchannel.py` | deactivation time, links to accounts | deactivate, reactivate, delete, merge | messages out of order; the consumer is not started (`app/celery.py:86`) |
| Permissions, HMAC, OSF client: `common/permissions.py`, `hmac.py`, `osf.py` | a cache of verified requests | decide, sign, verify | user, owner and role are read at different times; the window of timestamps against the cache |
| Token refresh scheduler: `management/commands/refresh_addon_tokens.py` | none | select accounts, send refresh tasks | selection races with other refreshes |
| Merging and migration commands: `management/commands` | accounts, configured addons | merge duplicates, migrate from OSF, repair a migration | rows moved under a running handler; one long transaction while users edit what it reads |
| External services, admin, API docs | static configuration | edit | - |

How they interact: requests and tasks share the database only.  Both run
transactions at PostgreSQL's READ COMMITTED level (`ATOMIC_REQUESTS` for requests,
explicit blocks in tasks), and `Model.save()` writes every column of the instance
that was read earlier, or inserts the row again if an UPDATE finds it deleted.
Celery messages are acknowledged late (`acks_late`), so they may be delivered more
than once.  An invocation calls an addon implementation, which sends HTTP requests
through the requestor, which may refresh the account's token, which changes the
account's credentials, which are encrypted rows.

What makes each component correct:

- accounts: the access token an account uses was issued for its own, current
  authorization, and never stands beside metadata whose authorization is still unanswered,
  although an old row that is written back may undo a new flow (`FlowLasts`, section 5); the
  refresh token kept is one the service still honours;
- credentials: encryption and rotation are invisible, and no secret is forgotten while
  a row needs it;
- rotation: ends, and leaves every row readable;
- invocations: results are saved once performed, never replaced by older ones, and
  failures do not damage the account;
- listings: complete, without repetition, finite, and navigable backwards;
- item ids: lead back to the item they were made for, as long as the service has it, and
  a chosen root is the folder WaterButler works in;
- operation arguments: what a client may send is what the operation receives;
- OAuth1: a token reaches only the account whose flow it was given for, and the account
  survives its own callback;
- configured addons: OSF hears of what comes and goes, and what is committed was checked
  as a whole, not as a mixture of two requests;
- authorization: what is performed was permitted, to the user that the request really
  came from, at some time while it ran or when OSF signed it;
- migrations: each node ends with the account its settings name, and the repair gives no
  addon to another user than the one it has read it with.

## 2. Modules

### `OAuth2Account`

State: `account`, `metadata`, `credential` are the committed rows; `grant` and `live`
are what the service knows (for which authorization a token was issued, and which
refresh tokens it honours); `handler` has the requests and tasks under way, each with
the rows it has read.  One action is one database transaction or one network call.

| Code | Actions |
|---|---|
| `AuthorizedAccountSerializer.create` | `CreateAccount`, `CreateAccountWithOAuth` |
| `.update` (PATCH) | `PatchLoad`, `PatchCredentials`, `PatchValidate`, `PatchSave`, `PatchInitiate` |
| `oauth2_callback_view` | `ResolveStateToken`, `GetInitialAccessToken`, the token update, `PostAuthHook`, `Abandon` on any error |
| `refresh_oauth2_access_token` | `RefreshLoad`, `RefreshLoadMetadata`, `GetRefreshedAccessToken`, the token update |
| `OAuth2TokenMetadata.update_with_fresh_token` | `ValidateTokenUpdate`, `BeginTokenUpdate` (row lock), `CommitTokenUpdate` |
| `merge_migrated_accounts` | `MergeLoad`, `MergeUpdate` |
| DELETE | `DeleteAccount` |

Abstractions: one external service; a token response is one value that stands for the
access and the refresh token it carries; expiry dates, scopes and wording are left out.
The transaction that first writes a metadata row and then its account is one step.

### `CredentialStore` and `KeyRotation`

`CredentialStore` is the abstract specification: rows hold the credentials last saved,
and know nothing of secrets.  `KeyRotation` has what there is in fact: rows that hold
a ciphertext (a record of the credentials and of the secret and parameters it was made
with), processes with the environment they were started with, the queue of rotation
tasks, and the operator's procedure in `README.md:68-79` (`UpdateEnvironment`,
`RotateEncryptionCommand`, `RemoveOldSecret`).  `StoreSpec` instantiates the first with
a refinement mapping that decrypts the rows with the environment a process started
now would get.

Two things are assumed of the operator, who is not in the code: the rotation command is
given once every process has restarted with the new environment, and the old secret is
removed when the queue is empty and no task is running ("once that queue of tasks is
complete").  Messages in the queue are a set: two messages for one row count as one.

Abstractions: what identifies a key are the secret and the parameters; the random salt is
left out, since it is stored with the row like the other parameters.  Requests of processes
that still have the old environment may fail to read new rows during the roll-out; such
a failed request changes nothing and is not an action.

### `Invocation`

`invocation` are committed rows, `queue` the messages not yet delivered, `task` what each
process is doing, with what it has written but not committed.  The service counts how
often it executed each operation (`runs`) and numbers the tokens it issued; it replaces
the refresh token at each refresh.  A request performs an IMMEDIATE operation
(`CreateImmediate`); a celery task an EVENTUAL one (`CreateEventual`, `Enqueue`, `Deliver`,
`Dibs`, ..., `Acknowledge`).  Both go through `Execute`, or `Unauthorized`, `Exchange`,
`SaveFreshToken` and `Execute` again; then `Commit`, or `Fail`, which loses all that
the transaction wrote.  `Crash` and `Redeliver` are the broker and the machine.
No interface declares an EVENTUAL operation yet; the code for it is there and is modelled.

### `OffsetCursor` and `Listing`

`OffsetCursor` is `addon_toolkit/cursor.py`.  `Listing` is a client that follows
`next_sample_cursor` through a folder of an external service, with one operator per
listing operation of the implementations: Box (by offset), GitHub and figshare (by page
number), Google Drive, Dropbox, Bitbucket, GitLab, Dataverse's root and OneDrive (with a
token or link of the service; the service chooses the lengths of pages), Azure, S3,
ownCloud, Dataverse, Zotero and Mendeley (in one request; of S3, Zotero and Mendeley that is the first
page, `DefaultPage` entries of each list, because nothing asks for the next).  An entry of a folder is its
position and its kind: a file, a folder, or something else that the service has, which
the implementations treat differently.  A page is a set of positions: the order of the items
on a page is left out, because no cursor and no property depends on it.  `Listings` is a constant so
that a run may take some of them.  Where an implementation raises (`DropboxRaises`,
`OneDriveRaises`, a web link at Box) the action is `Fail`, and the walk has failed.

The services are modelled from how the implementations use them: a service that is given
a page number and a page size returns that page.  The folder does not change during the
walk: with cursors that are offsets or page numbers no implementation could promise
anything if it did.  Listings with one fixed item (the roots of Box, Google Drive, ...) and
those that only map names (S3 buckets, Azure containers, Zotero's groups, of which only the first page
is asked for too) are left out.

### `ItemIds`, `KeyedItems`, `PathItems`, `Contents`, `JsonArguments` and `Browse`

`Browse` is the file picker: it asks for the roots, opens and lists items with the ids it was
given (`OpenRoot`, `OpenItem`, `OpenFolder`), and keeps them while the owner renames
(`Rename`) and deletes (`Delete`) things at the service.  It may also start with an id that
the migration wrote for a selected folder (`GetRootFolderForProvider`), or with no root.

`KeyedItems` has the implementations whose ids are keys of the service (Box, Dropbox, Google
Drive, OneDrive, figshare, Dataverse and its links, Zotero, Mendeley), `PathItems` those
whose ids are paths (GitHub, GitLab, Bitbucket, S3, Azure, ownCloud): for each the
operators `...Info`, `...Roots`, `...Children` and `...Wb`, for `get_item_info`, the two listings
and `build_wb_config`.  `ItemIds` has what they share: an id is a sequence of tokens, so that
joining and splitting ids is what the code does to strings, without spelling them.  Two places of the
code are finer than tokens, and there the tokens are strings that are looked into: GitHub's ids of
directories run together where no slash is written (`RunTogether`), and Zotero looks for the
number of a library *in* the id of a collection (`Contained`, `ZoteroLibraries`).
Items at the service carry a mark that no code sees; a result remembers the mark of the
item it was made of, and the properties compare it with the item an id leads to.

`Contents` says what an account may hold (`WellFormed`, of an implementation and a content):
files and folders form a tree, each kind of item is where the service puts it, and a key is
given once, in the way that the service promises (among all items, those of a kind, or those of
a library).  The implementations take it for granted.  It is the assumption of `Browse` about
`Content`, which TLC evaluates for the instance, and the owner's changes preserve it, which is proved:
a new name is one that nothing in the folder has (the guard of `Rename`).

Every answer goes through `JsonArguments` on its way out, and every request on its way in:
`json_arguments.py` with its schema (`MeetsSchema`), its parser (`KwargsFromJson`) and its
serializer (`JsonForTypedValue`), for the annotations that the interfaces use.  The code
recurses over annotations; the model has one operator for a single annotation, given the
operator for what is inside of it, and applies it as often as the declared operations nest
annotations: four levels for a result (a dataclass with a collection of dataclasses with plain
fields), one for the parameters.

Exemptions are named and commented in `Browse`: `OpensExactly` (ids of GitHub files, S3
files and Azure folders do not lead back, nor does the id of a Zotero group whose number is part of
another group's, `PartOfAnother`), `Asked` (listings that ignore the type asked for),
`ListsItself` (an ownCloud folder written with a leading slash), `Misspelled` (GitHub directories below
the first level), `Refused` (a listing that the link implementation raises on) and `DescribesRoot`.
Outside of these a listing must answer, as long as the service has the folder: an operation
that raises violates `ListingsAreComplete`.  Azure describes what was deleted as if it were there,
because it does not look at the service's answer (`azure_blob_storage.py:156-181`); the model answers
nothing for it, and the properties speak of what the service still has.  A root that
the migration wrote in a notation that no implementation reads (Mendeley's
`collection:ROOT`, the empty ids of figshare and Google Drive, `folder:None`) is not in the
instance.  Paging is `Listing`'s business: a listing here is one answer.

### `ConfiguredAddon`

State: committed accounts and configured addons, the tasks sent to OSF (`sent`, `pending`), the
links OSF knows (`verified`), the requests in progress.  A request is one transaction; it
reads rows, works on the instances, and writes whole rows, which stay locked until it ends.
Tasks leave at once.

| Code | Actions |
|---|---|
| POST | `CheckUnique`, `CreateAddon`, `FinishCreate` (OSF is asked last, `viewsets.py:71`) |
| PATCH | `LoadForUpdate`, `UpdateAddon`, `FinishUpdate` |
| DELETE | `LoadForDelete`, `DeleteAddon`, `FinishDelete` |
| requests for accounts | `PatchAccount`, `DeleteAccount` |
| OSF backchannel tasks | `UserDeactivated`, `UserReactivated` |
| `get_verified_links`, asked by OSF | `FetchVerifiedLinks` |

OSF may handle a task before the request that sent it has committed: nothing in the code makes
it wait.  `missed` is a history variable, with the links that were in such requests when OSF last
asked; `LinksKnownUnlessAskedEarly` exempts them, and `ConfiguredLinksKnown`, without the exemption, is
refuted (section 5).  The types of addons are one, with a target that only links have.

### `OAuth1Account`

State: accounts with their two references to rows of credentials, the session of each browser, and
what the service knows of temporary tokens.  A request starts a flow (`CreateAccount`,
`PatchWithOAuth`) or changes the account (`LoadForPatch`, `PatchAccount`); the callback is
`LoadForCallback`, `GetAccessToken` and `FinishCallback`; the session is saved after the
transaction (`SaveSession`), unless the request failed (`Fail`) or nothing else is left in it
(`middleware.py:59-60`), and then the browser's session keeps the pending account.  `FinishCallback` has the
cascade: the setter of credentials deletes the temporary row, with it the account that
refers to it and its configured addons; then `save` inserts the account again.  The browser may
bring the token of any flow that was started.

### `RequestAuthorization`

A request arrives (`Arrive`) with any mixture of what names its user: no cookie, one of a session,
or one that cannot be unsigned, and beside it a token or a signature.  It is identified
(`Authenticate`, `AuthenticateSigned`, or `GetUserUriFails` for the cookie that cannot be
unsigned, which a signed request only notices when a permission looks at its user), and
permitted, denied or must ask (`CheckUser`, `AskOsf`, `ReadSignedPermissions`, `CheckSigned`).
`GetUserUri` has the precedence of `get_user_uri.py:6`: the user of a session comes before that of a
token or a signature, also of another user.  What is asked does not follow it: OSF gets cookie and
token together (`Answered`: it may take either, or refuse both), and the permissions of a signed
request are those of the user it was signed for.  The user reference is written for whom the
authentication found, which of a signed request is not the session's user.  A request may
also be signed with another key, and then says what it likes.

Meanwhile roles change, sessions end, and the clock runs; a signed request is delivered late or
twice.  The string that is signed and the one that is reconstructed are sequences of segments, so a
difference in order or in quoting shows.  `cache` is the `lru_cache` of verified requests, with
its eviction; `OtherRequest` is another thread that uses it.  `peak` and `arrivedLive` are
history that no code reads.

The bound `Unsigned` keeps signed and unsigned requests apart in one behaviour, and the first is signed
before anyone was identified or a session ended: the two share nothing but sessions and user
references, and mixing them would only multiply the states.  The permission classes are looked
at by the kind of object they guard (`Goals`).  Cookies of OSF's own admins are left out, and so is the
`view_only` key that a request may pass on to OSF (`osf.py:129`): it is one more way of being
allowed to read, which OSF decides.

### `AccountMigration`

`migrate_authorized_account` (`StartMigration`, `MigrateForUser`) and
`fix_migrating_users_with_multiple_external_accounts` (`StartFix`, `FixCheck`, `FixRead`,
`FixSave`), each one transaction: what it has written is the overlay `tx`, seen by it alone
until `Finish`, or lost by `RollBack`.  Users authorize accounts, connect, change and remove addons
meanwhile; a PATCH may give an addon to any account, also one of another user or service, and to any
node, as the serializer allows (`PatchAddon`), so an addon may no longer be where its key was migrated to.  OSF's database is only read: the fields of its external accounts (some may be
missing, and then the credentials cannot be made) and its node settings are arbitrary.
Keys of rows say who made them, so that a row that was made again is not the old one.

## 3. Runs

| Run | Instance | Result |
|---|---|---|
| `oauth2_accounts` | 2 accounts, 2 metadata rows, 2 credentials rows, 2 tokens, 2 handlers | `TypeOK`, `TokenIssuedForMetadata`, `NoCredentialsBesideNonce` hold |
| `oauth2_rotation` | 1 account, 1 metadata row, 3 tokens, 3 handlers, refresh tokens are replaced | `StoredRefreshTokenLive` holds |
| `rotation` | 1 row, 2 values, 2 parameter settings, 3 processes, 1 rotation, no failing tasks | `TypeOK`, `EveryRowReadable`, `StoreSpec`, `RotationCompletes` hold |
| `rotation_failures` | 2 rows, 3 processes, 2 rotations, tasks may fail | `RotationKeepsCredentials` holds |
| `rotation_lost` | 2 rows, 2 processes, tasks may fail | `EveryRowReadable` is violated: a failed task is acknowledged |
| `invocation` | 2 invocations, 2 processes, 3 executions, 2 tokens | `TypeOK`, `ResultNeverReverts`, `SuccessIsFinal` hold |
| `listing` | every listing, every folder of up to 5 entries, 2 per page, at most 3 (Azure), 3 in a default page (S3, Zotero, Mendeley) and 4 (Box) | `ListingTypeOK`, `ListedOnce`, `CompleteUnlessCutShort`, `PrevLeadsBack`, `WalkEnds` hold |
| `browse` | 15 implementations, each with a fixed account of up to 9 items (`MCBrowse`), 1 change by the owner | `TypeOK`, `ListedItemsOpen`, `ListingsAreComplete`, `RootReachesWaterButler`, `RequestsAreUnderstood` hold |
| `configured` | 2 users with an account each, 1 addon, 1 resource, 1 target, 1 capability, 2 requests | `TypeOK`, `EveryAddonAnnounced`, `LinksKnownUnlessAskedEarly`, `CapabilitiesChecked`, `RemovalAnnounced` hold |
| `oauth1` | 2 accounts, 2 browsers, 2 requests, 3 temporary tokens, 3 rows | `TypeOK`, `TokensOfAccount`, `AuthUrlUnused`, `AddonsKeptUntilCallback` hold |
| `authorization` | 2 users, 1 request at a time and those of other threads, every mixture of session, token and signature, 1 signed message of 7 sorts (one with another key), window 1, cache 2, time 2, 2 changes at OSF | `TypeOK`, `PerformedWithPermission`, `AcceptedInWindow`, `OsfIsAccepted`, `DoesNotExpireWhenHandled` hold |
| `migration` | 2 users who share one of 2 external accounts, 2 nodes, ownCloud, every set of missing fields, every option, 1 addon edited, 1 account added | `TypeOK`, `MigrationComplete`, `FixRepairs`, `OwnerKept` hold |

Why these bounds:

- accounts: the hazards need two actors and two authorizations (two metadata rows), and
  those of merging two accounts; a lost token update needs two updates racing on one row and a third
  token to tell old from new;
- rotation: every stage is met with one row; two rows let one task fail while another succeeds; a
  third process lets a request write while two copies of a task run;
- invocations: two executions and a third tell "older" from "first";
- listings: five entries at two per page are a first, a middle and a last page, with folders
  that end exactly at, before and after each limit;
- browsing: the accounts have a folder in a folder, a file in each, equal keys of different kinds,
  aliases, and what is special to a service (subgroups, drafts, several libraries, one with a number
  that is part of another's, a directory whose name is that of two run together, a file without
  a persistent id); one change is
  enough to make an id stale, and the second user of an id is the picker itself;
- configured addons: the hazards are about two requests for one addon, or a request and OSF; the second account has an
  owner who may only read, so that permissions differ; a second addon would only add a
  violation of uniqueness (section 5);
- OAuth1: two flows in one browser, one in another, and a third temporary token after an exchange;
- authorization: with a window of 1 and time up to 2 a message is early, in time, and too old, also by a
  clock that is ahead or behind; a cache of 2 is full with two keys of one request or others; two users
  are enough for a session of one beside the token or the signature of the other;
- migration: two accounts of one provider are what the repair is about, sharing one of them is what
  may confuse their owners, and one edit comes before, between or after any two steps.

Deadlock is checked for `configured` and `migration`; elsewhere an instance may use up its rows,
tokens, pages or bounds, and then it is not.

`rotation_lost` is a finding: what the README of gravyvalet promises of the procedure does not hold
when a task fails.  Other disagreements that the models show are in section 5.

### Fairness

Safety runs assume none.  `RotationCompletes` (`FairSpec` of `KeyRotation`) assumes that
celery hands waiting tasks to workers in turn and workers finish them (strong fairness of a
process's task steps, since a process also serves requests and tasks of others), that requests
end, that the operator carries on when the queue is complete, and that from some time on no task
is interrupted by a restart, without which a task could be delivered again for ever.  `WalkEnds`
assumes only that the client goes on while it has a cursor.

## 4. Proofs

All for any sets of rows, processes, workers, tokens, any bounds; the assumptions are the named
`ASSUME`s of the modules, which say that null values are not rows, keys or cursors, and what kind of
sets and functions the constants are (`SigningsAssumption`: what OSF may be asked to sign has the
fields of a request; `ListingAssumption`: pages and limits are positive; `BrowseAssumption`: the
content of each account is well-formed for its service).  Each module has an
inductive invariant `IInv`, and further ones on top of it where a property needs them.

- `OAuth2Account_proofs`: `TypeCorrect`, `NoCredentialsWithNonce`, `TokensAreNotMixed`,
  `CommittedRefreshTokensLive`.  What
  the properties say of committed rows is not inductive, because handlers write back rows
  they remember.  `IInv` says it of every row committed *or remembered* (`Paired`): foreign
  keys point to written rows, a credentials row belongs to one authorization
  (`OneMetadata`), paired rows have used nonces and matching grants (`PairedOK`), and
  handlers know for which row their tokens were issued (`HandlerOK`).  The constant
  `AccessTokenOnly` is free in the theorems; the runs fix it to FALSE.
  For the last theorem `LiveInv` adds that the refresh token of a response that is not committed yet
  is live and, if the service replaces refresh tokens, that neither a row nor another handler knows it
  (`HeldAlone`): a refresh that starts from another token does not end it.  A row with an unused
  nonce has no refresh token (`NothingBeforeCallback`).
- `KeyRotation_proofs`: `RotationTypeCorrect` and `RotationsKeepCredentials` (with failing tasks),
  from `LockInv`: a rotation has locked the row it read, so nobody changes it before the rotation
  saves.  `NothingIsStranded` and `EncryptionIsInvisible` (without failing tasks), from `IInv`:
  in each stage every ciphertext is readable, and one made with an old secret
  has a task that will rotate it before the secret is removed (`WillRotate`).
  `EncryptionIsInvisible` is the refinement of `CredentialStore`.
- `Invocation_proofs`: `InvocationTypeCorrect`, `ResultsNeverRevert`, `SuccessesAreFinal`, from an
  `IInv` that says who may hold an uncommitted row: a request the only one to know its new
  invocation, a task the only one to have locked a committed one.
- `ConfiguredAddon_proofs`: `AddonTypeCorrect`, `AddonsAreAnnounced`, `CapabilitiesAreChecked`,
  `RemovalsAreAnnounced`, `LinksAreKnownUnlessAskedEarly`.  That committed addons were announced is not inductive, because a
  request may bring a removed row back.  `IInv` adds what each request knows in its phase (`Fits`):
  any addon that a request has read or made was announced, capabilities in memory were checked
  before they are written, and a removal was announced before its row goes; and that
  committed addons refer to accounts that are there (`AccountsExist`).  `LinksKnownUnlessAskedEarly`
  speaks of the moments without tasks, so `LinksInv` says what holds between them: OSF knows the link
  of each committed row, has a task waiting, or asked too early (`LinkKnown`), and a request that has
  written a row has sent its task, which waits, or was handled too early (`Awaited`).
- `OAuth1Account_proofs`: `OAuth1TypeCorrect`, `TokensBelongToAccounts`, `TokensAreOfferedOnce`,
  `AddonsAreKept`.  `IInv` says of every account row, committed or remembered by a request, that its
  access token is there for good and belongs to the account, and that its temporary row is the account's
  own unless it was deleted (`Refers`); a temporary token is in one row only (`RowsOK`), which is why
  the row that a callback deletes takes no other account with it (lemma on `Cascade`).
- `AccountMigration_proofs`: `MigrationTypeCorrect`, `FixKeepsOwners`, `MigrationCompletes`,
  `FixRepairsAddons`.  An addon that is not recent is as a migration made it, of the user whose node
  settings it stands for (`OwnedAsSet`), whether it is committed or only written (`RowsOK`); whatever
  users gave away is recent, so without `ignore_cutoff` the row that the fix has read is one of the user
  whose account it takes (`CommandOK`).  `MigrationCompletes` adds `Migrated`: the users that are not in `todo` any
  more have the rows that their settings name in the overlay, and nobody else writes these keys.
  `FixRepairsAddons` adds `FixInv`: an addon that users left alone is where it was migrated to, and recent only if the fix
  wrote it, and then it is right (`RowsRight`); nodes whose turn is over are repaired as the transaction sees them
  (`IsDone`, `Fixed`), and at the node in work only the row that was read can be wrong (`AloneAt`).
- `RequestAuthorization_proofs`: `PermissionIsNeeded`, `TypeCorrect`, `WindowIsKept`, `OsfIsHeard`,
  `VerifiedOnce`.  `IInv` says what is known of a request
  that runs (`Fits`): it names one user by a session at most, whatever it brought that has not ended was live
  when it arrived, its history has seen the highest role held by any user whom that names, and
  whoever was identified is one of those it names (`Names`), and the session's user if the session
  has not ended.  `SignedByOsf` adds that a signed request which was identified has OSF's key.  The
  types (`Counted`: whoever was identified has a reference or a session) and that a
  request does not expire while it is handled need `CacheInv`: the cache holds a key once and
  within its size, none of a request that was not verified yet, and that of a request which is being handled
  unless it is full.  The lemmas below it say what `RemoveAt`, `MadeRoom` and `Remember`
  do to a sequence.  For `OsfIsHeard` the string that was signed and the one that is
  reconstructed are the same segments, joined in another grouping (`Regrouped`, `Reconstructs`);
  `WindowIsKept` needs nothing of the cache: what is accepted was compared with the clock when it came.
- `AddonImps_proofs`, about `Listing`: `ListingTypeCorrect`, `NothingIsListedTwice`, `NothingIsSkipped`,
  `PrevLeadsToThis`, `CursorsAdvance`, for folders and pages of any length.  Listings page in different ways, so
  `ListingIInv` says it in one way for all: each wanted entry has a `Number` in the list it is paged with, a
  cursor stands for an `Offset`, and while the walk goes on the client has received the entries with
  numbers below it, and no others (`Through`).  A call receives the next `Part` (`PartReceived`).
  That a page that is not full is the last one is a fact about finite sets: the numbers of a
  list's entries are an injection into as many numbers, hence onto (`PageIsFull`).  `CutShort` comes in
  where entries are dropped before the page is measured.  `CursorsAdvance` is the half of `WalkEnds`
  that needs no fairness: a next cursor leads further into the folder, and never from beyond its end.
  Of `OffsetCursor`: the previous page of the next page is the page itself; with a known total
  within `MAX_INDEX` there is no next cursor exactly at the end; with "many more" every page calls
  itself the last.
- Also in `AddonImps_proofs`, about `Browse`: `PickerHoldsItemsOfTheService`, `ListedItemsStayOpen`,
  `ListingsStayComplete`, `RootsReachWaterButler`, `RequestsStayUnderstood`, for every implementation, any
  well-formed content of the account, any names and any number of changes by the owner.  The properties
  compare the answer for an id *now* with the item that the id was made for *then*, so `IInv` says how
  the two are related, in four parts.
  (1) The content is what is left of the initial content, under other names (`LeftOf`): each thing is one of
  those at the start, with its kind, keys and depth, things are in each other as they were, and whatever
  contained a thing that is left is left too.  (2) It is well-formed still: otherwise a key, or a path
  after a rename, could lead to a second thing.  (3) An item given since the last change was made of the
  content as it is (`MadeOf content`), and one whose id is a key was made of the initial content.  `MadeOf`
  is defined by the form of ids of each implementation (`Form`), because an id alone does not say for which
  thing it was made.  (4) Every held id is one the implementation can be given (`GoodId`).
  For each implementation, what its operations answer has its form (`...Makes`), and an id of the form
  leads to its thing, with its whole listing and its root for WaterButler (`...Leads`).  An id with a key in
  it has the form that the thing had at the start (`KeptForm`), and what is left of a well-formed content
  is well-formed (`WellFormedLeft`).  `AnswerMade` takes the answer through its JSON, `TrustedLeads` puts
  the lemmas together.
  Ids are joined from any number of names: `Join` is a function on positions, so that different paths have
  different ids (`JoinInjective`) and an id is split where it was joined (`SplitBack`), position by
  position and without induction.
- Also in `AddonImps_proofs`, about `KeyedItems`: `BoxIdsLeadBack`, `DriveIdsLeadBack`, `FigshareIdsLeadBack`,
  `DataverseIdsLeadBack`, `ZoteroIdsLeadBack`, `MendeleyIdsLeadBack`.  For any two contents of an account,
  well-formed or not, when an item was listed and when its id comes back, the id leads to exactly what the
  service now has under its key (and kind, and library).  `ListedItemsStayOpen` says that this is one
  thing, where keys are not given twice.

`Listing` and `Browse` share a module of proofs because both are about the implementations; the
names of `Listing`'s specification (`ListingSpec`, `ListingNext`, `ListingTypeOK`) differ from those of
`Browse` for that reason.

Only model-checked:

- liveness (`RotationCompletes`, `WalkEnds`): the prover has no rule for weak fairness of actions
  that need `ENABLED`;
- `EveryRowReadable` with failing tasks, which is refuted.

## 5. Where code and comments disagree

Beside the finding of `rotation_lost`, the models contradict these statements of comments,
messages and docstrings.  The definitions are kept in the modules, and no run checks them; TLC
refutes each in the instance named, when it is put in the place of the run's properties.

| Definition | Statement | What the code does | Instance |
|---|---|---|---|
| `OAuth2Account!NonceUsedOnce` | `oauth2/models.py:78`, `:138` "one-time-use, now used" | two callbacks with one state token both resolve it, and both commit | `oauth2_accounts` |
| `OAuth2Account!ExactlyOneOfNonceAndToken` | `authorized_account/models.py:300` "must assign exactly one of state_nonce and access_token" | a PATCH writes back what it read before a callback (`serializers.py:147`) | `oauth2_accounts` |
| `OAuth2Account!FlowLasts` | `authorized_account/models.py:267` "reset credentials" | a PATCH, hook or token update that read the account before a new flow started writes old metadata and credentials back: the flow is lost, the old token is in use again | `oauth2_accounts` |
| `Invocation!ErrorIsSaved` | `tasks/invocation.py:30` "so status can be saved in the outer transaction" | the exception is raised again (`:44`) and rolls back the outer transaction too | `invocation` |
| `Invocation!FailureKeepsToken` | `oauth2/models.py:80` | a refresh token replaced during an operation that fails is rolled back, though the service has forgotten the old one | `invocation` |
| `Listing!LastPageIsLast` | `interfaces/storage.py:75` "when None, this is the last page of results" | items are dropped from a page before its length decides (`github.py:144`, `figshare.py:92`) | `listing` |
| `ConfiguredAddon!OneAddonPerService` | `configured_addon/serializers.py:48` "already exists" | no constraint backs the lookup; two requests both commit | `configured`, with two addons |
| `ConfiguredAddon!ConfiguredLinksKnown` | `configured_addon/link/models.py:48` "Only send for OSF task after the addon has been fully configured" | the task is sent in the transaction; OSF may ask for the links before it commits, and is not told again | `configured` |
| `ConfiguredAddon!AnnouncedIsCommitted` | `configured_addon/models.py:95` "If instance is created" | `addon_added` is sent before the user's permission is asked for and the transaction ends; both may roll the addon back | `configured` |
| `ConfiguredAddon!RemovedStaysRemoved` | `configured_addon/models.py:115` `addon_removed` when the row is deleted | a PATCH that read the row before saves every column and inserts it again, without `addon_added` | `configured` |
| `AccountMigration!EditsKept` | the command's message at `:312` "modified after cutoff" | the row is read, compared, and written back later, over an edit made between, even one that gave the addon to an account of another user or removed it | `migration` |
| `AccountMigration!FakeTellsNothing` | `migrate_authorized_account.py:194` "Rolling back the transactions because this is a fake run" | the tasks to OSF are sent at once, and are not rolled back | `migration` |

Others are modelled as what they do, and are exempted by name where a property meets them:

- `OffsetCursor.is_last_page` compares with a total of -1, "many more", as with any other
  (`cursor.py:77`; theorem `ManyMoreIsAlwaysLastPage`);
- `NextLinkCursor` assigns a property that has no setter: a OneDrive folder of more than one page
  raises (`OneDriveRaises` of `Listing`); a web link in a Box folder fails its listing;
- Azure containers are cut at `MAX_RESULTS`, Box folders near `MAX_INDEX`, and at S3, Zotero and Mendeley
  all that is listed is the first page of each list, 1000, 25 and 20 entries where no limit is sent
  (`CutShort`; `s3.py:96`, `zotero_org.py:104-126`, `mendeley.py:75-93`);
- GitHub file ids have no repository, S3 file ids no bucket, and Azure describes folders as files
  (`OpensExactly`);
- GitHub joins the names of a directory and of the directory it is in without a slash
  (`github.py:176`): the id of one below the first level lists nothing, or another directory whose
  name is both names together (`Misspelled`);
- Zotero looks for a group in its id with `in` (`zotero_org.py:170`): the collection of a group whose
  number is part of another group's, like 9 of 19, may open the other one (`PartOfAnother`);
- the link implementation fails to list a folder that has a file without a persistent id (`Refused`);
- a session comes before the user of a token or a signature (`get_user_uri.py:6`), but the permissions
  are those that OSF gives the cookie and the token together (`osf.py:175-179`), or has signed: a
  signed request with a session of another user is performed as the session's user, with the
  permissions of the user it was signed for.  `PerformedWithPermission` says which of them counts for
  what; that they are one person does not hold;
- a comment in `permissions.py:62` asks for an admin of the resource, the code for WRITE;
- the path of a signed request is signed as in the URL and verified as django has decoded it: one that
  needs quoting is always rejected (`hmac.py:143`; `OsfIsAccepted` excludes it);
- for a cookie that cannot be unsigned the session is the class `SessionStore`, not an instance
  (`middleware.py:34`), and the request fails (`GetUserUriFails`);
- the callback of an OAuth1 account removes its configured addons with the temporary credentials
  (`authorized_account/models.py:111`); `AddonsKeptUntilCallback` speaks of all other requests;
- `get_signed_headers` keeps 128 results: with a full cache a request may expire while it is handled
  (`hmac.py:61`), which `DoesNotExpireWhenHandled` exempts;
- `authorized_account/models.py:189-190` says that there is no auth url once the initial exchange
  occurred; an account that is authorized again offers one beside its credentials.  `AuthUrlUnused` says
  less: never for a temporary token that was exchanged;
- `users_merged` calls `merge` on the pair that `get_or_create` returns (`osf_backchannel.py:56`), and
  fails.

## 6. Not modelled, and the plan

Left out:

- the admin and API documentation: generated from the models;
- external services: static configuration that the admin edits;
- declarations of interfaces and iri helpers of the toolkit: pure, without state;
- the filtered lists of user and resource references: queries;
- `fill_external_services`, `fix_references`, `fill_garbage` and the like: one
  query each, or test data; the daily scheduler of refreshes is a query whose tasks are
  `OAuth2Account`'s refresh;
- the dispatch of backchannel messages: the consumer is not started (`app/celery.py:86`); what its tasks
  do to users is in `ConfiguredAddon`;
- `get_external_account_id` of the implementations, and Boa, which has no operation;
- invocations that are deleted together with their addon or account
  (`addon_operation_invocation/models.py:26-30`, `dibs.py:29-30`): a task that finds its row deleted
  raises and has performed nothing;
- HTTP headers, URLs and redirects of the requestor; the re-insertion of several tables at once when
  a multi-table row was deleted meanwhile.

Next, in this order:

1. messages of the backchannel out of order, should the consumer be started;
2. the refresh scheduler composed with `OAuth2Account`.
