----------------------------- MODULE KeyRotation -----------------------------
(***************************************************************************)
(* Encryption of ExternalCredentials at rest, and the rotation of its      *)
(* secret: the procedure of README.md ("rotate encryption keys             *)
(* responsibly"), the celery tasks of tasks/key_rotation.py, and the       *)
(* processes (web and celery) that save credentials meanwhile, each with   *)
(* the environment it was started with (app/env.py).                       *)
(*                                                                         *)
(* A ciphertext is a record of the credentials and of the secret and key   *)
(* parameters it was made with; `stored` are the parameters in the row's   *)
(* own columns, from which the key for decrypting is derived.  A waiting   *)
(* task is an element of `queue`: two copies of it count as one.           *)
(***************************************************************************)
EXTENDS Naturals

CONSTANTS
    Rows,           \* primary keys of ExternalCredentials rows
    Values,         \* credentials
    Params,         \* key-derivation settings (salt length, scrypt costs)
    Processes,      \* web and celery processes
    MaxSecret,      \* bound: secrets are numbered in the order of their use
    MayFail,        \* tasks may fail with an error (database, validation)
    None,           \* a row never written
    Deleted,        \* a row that was deleted
    Unreadable,     \* decryption raises InvalidToken
    Schedule        \* the task schedule_encryption_rotation__celery

Secrets == 0..MaxSecret
Row == [value: Values, secret: Secrets, params: Params, stored: Params]
Environment == [secret: Secrets, priors: SUBSET Secrets, params: Params]

ASSUME KeyRotationAssumption ==
    /\ MaxSecret \in Nat
    /\ MayFail \in BOOLEAN
    /\ Params # {}
    /\ Deleted # None
    /\ {None, Deleted} \cap Row = {}
    /\ None \notin Values \cup Rows \cup [row: Rows, value: Values]
    /\ Unreadable \notin Values \cup {None}
    /\ Schedule \notin Rows

VARIABLES
    row,        \* the committed ExternalCredentials rows
    config,     \* the environment that a process started now would get
    stage,      \* the operator's progress in the README's procedure
    env,        \* the environment of each running process
    queue,      \* tasks waiting on the CHILL queue: Schedule, or a row's pk
    job         \* the request or task in progress in each process

vars == <<row, config, stage, env, queue, job>>

Stages == {"steady", "updated", "rotating"}
Kinds == {"idle", "writing",
          "scheduling", "dequeued", "rotating", "rotated"}  \* unacknowledged tasks
TaskKinds == Kinds \ {"idle", "writing"}

Job == [kind: Kinds, row: Rows \cup {None}, seen: Row \cup {None},
        pks: SUBSET Rows]
Idle == [kind |-> "idle", row |-> None, seen |-> None, pks |-> {}]

Exists(r) == row[r] \in Row

\* encryption.pls_encrypt_json in a process with environment e
Encrypt(e, v, params) ==
    [value |-> v, secret |-> e.secret, params |-> params, stored |-> params]

\* encryption.pls_decrypt_bytes succeeds: the key comes from the stored
\* parameters and any secret of the environment
CanDecrypt(e, x) ==
    x.params = x.stored /\ x.secret \in {e.secret} \cup e.priors

\* mutant: re-encrypts with fresh parameters but returns the stored ones
RotatedWithStoredParams(e, x) ==
    [Encrypt(e, x.value, e.params) EXCEPT !.stored = x.stored]

\* encryption.pls_rotate_encryption: parameters that are up to date are kept,
\* others are replaced by fresh ones
Rotated(e, x) == Encrypt(e, x.value, e.params)

\* mutant: without dibs nobody waits
NeverLocked(r) == FALSE

\* the row lock of a rotation, from dibs to its commit
Locked(r) == \E p \in Processes : job[p].kind = "rotating" /\ job[p].row = r

\* mutant: without acks_late a task is acknowledged before it is performed
AckedEarly(p) == {}

\* the message of an unacknowledged task, delivered again
Unacked(p) ==
    IF job[p].kind = "scheduling" THEN {Schedule}
    ELSE IF job[p].kind \in TaskKinds THEN {job[p].row}
    ELSE {}

Init ==
    /\ row = [r \in Rows |-> None]
    /\ \E q \in Params : config = [secret |-> 0, priors |-> {}, params |-> q]
    /\ stage = "steady"
    /\ env = [p \in Processes |-> config]
    /\ queue = {}
    /\ job = [p \in Processes |-> Idle]

-----------------------------------------------------------------------------
(* The operator, following README.md. *)

\* step 1: a new secret, the old one among the priors, maybe new parameters
UpdateEnvironment(q) ==
    /\ stage = "steady"
    /\ config.secret < MaxSecret
    /\ config' = [secret |-> config.secret + 1,
                  priors |-> config.priors \cup {config.secret},
                  params |-> q]
    /\ stage' = "updated"
    /\ UNCHANGED <<row, env, queue, job>>

\* step 2: manage.py rotate_encryption, once every process was restarted
RotateEncryptionCommand ==
    /\ stage = "updated"
    /\ \A p \in Processes : env[p] = config
    /\ queue' = queue \cup {Schedule}
    /\ stage' = "rotating"
    /\ UNCHANGED <<row, config, env, job>>

\* step 3: "once that queue of tasks is complete", no more priors
RemoveOldSecret ==
    /\ stage = "rotating"
    /\ queue = {}
    /\ \A p \in Processes : job[p].kind \notin TaskKinds
    /\ config' = [config EXCEPT !.priors = {}]
    /\ stage' = "steady"
    /\ UNCHANGED <<row, env, queue, job>>

\* a process stops, for a new environment or in a crash: its transaction is
\* rolled back and, with acks_late, its task is delivered again
Restart(p) ==
    /\ env[p] # config \/ job[p] # Idle
    /\ env' = [env EXCEPT ![p] = config]
    /\ job' = [job EXCEPT ![p] = Idle]
    /\ queue' = queue \cup Unacked(p)
    /\ UNCHANGED <<row, config, stage>>

-----------------------------------------------------------------------------
(* Requests that set credentials. *)

\* AuthorizedAccount._set_credentials: the row read with the account, or a new
\* one, gets new credentials under the parameters that were read
SetCredentials(p, r, v) ==
    /\ job[p] = Idle
    /\ \/ /\ Exists(r)
          /\ job' = [job EXCEPT ![p] =
                [Idle EXCEPT !.kind = "writing", !.row = r,
                             !.seen = Encrypt(env[p], v, row[r].stored)]]
       \/ /\ row[r] = None
          /\ \A q \in Processes : job[q].row # r        \* a new uuid
          /\ job' = [job EXCEPT ![p] =
                [Idle EXCEPT !.kind = "writing", !.row = r,
                             !.seen = Encrypt(env[p], v, env[p].params)]]
    /\ UNCHANGED <<row, config, stage, env, queue>>

\* creds.save() waits for the row lock and writes every column of the row,
\* inserting it again if it was deleted meanwhile
SaveCredentials(p) ==
    /\ job[p].kind = "writing"
    /\ ~Locked(job[p].row)
    /\ row' = [row EXCEPT ![job[p].row] = job[p].seen]
    /\ job' = [job EXCEPT ![p] = Idle]
    /\ UNCHANGED <<config, stage, env, queue>>

\* a later step of the request fails and its transaction is rolled back
RollBack(p) ==
    /\ job[p].kind = "writing"
    /\ job' = [job EXCEPT ![p] = Idle]
    /\ UNCHANGED <<row, config, stage, env, queue>>

\* the credentials setter deletes a temporary OAuth1 token
DeleteCredentials(r) ==
    /\ Exists(r)
    /\ ~Locked(r)
    /\ row' = [row EXCEPT ![r] = Deleted]
    /\ UNCHANGED <<config, stage, env, queue, job>>

-----------------------------------------------------------------------------
(* Celery tasks. *)

\* schedule_encryption_rotation: the primary keys of the rows that exist ...
ScheduleRotation(p) ==
    /\ job[p] = Idle
    /\ Schedule \in queue
    /\ queue' = queue \ {Schedule}
    /\ job' = [job EXCEPT ![p] =
            [Idle EXCEPT !.kind = "scheduling", !.pks = {r \in Rows : Exists(r)}]]
    /\ UNCHANGED <<row, config, stage, env>>

\* mutant: the loop over the primary keys comes back to the same one
EnqueueAgain(p, r) ==
    /\ job[p].kind = "scheduling"
    /\ r \in job[p].pks
    /\ queue' = queue \cup {r}
    /\ UNCHANGED <<row, config, stage, env, job>>

\* ... each get a task of their own ...
EnqueueRotation(p, r) ==
    /\ job[p].kind = "scheduling"
    /\ r \in job[p].pks
    /\ queue' = queue \cup {r}
    /\ job' = [job EXCEPT ![p].pks = @ \ {r}]
    /\ UNCHANGED <<row, config, stage, env>>

\* ... and the scheduling task is acknowledged
ScheduleDone(p) ==
    /\ job[p].kind = "scheduling"
    /\ job[p].pks = {}
    /\ job' = [job EXCEPT ![p] = Idle]
    /\ UNCHANGED <<row, config, stage, env, queue>>

\* rotate_credentials_encryption__celery is delivered to a worker
TakeRotation(p, r) ==
    /\ job[p] = Idle
    /\ r \in queue
    /\ queue' = queue \ {r}
    /\ job' = [job EXCEPT ![p] = [Idle EXCEPT !.kind = "dequeued", !.row = r]]
    /\ UNCHANGED <<row, config, stage, env>>

\* mutant: dibs does not check that the row is still there
LockMissingRow(p) ==
    /\ job[p].kind = "dequeued"
    /\ ~Locked(job[p].row)
    /\ job' = [job EXCEPT ![p] =
            [@ EXCEPT !.kind = "rotating", !.seen = row[job[p].row]]]
    /\ UNCHANGED <<row, config, stage, env, queue>>

\* ExternalCredentials.rotate_encryption: dibs locks and re-reads the row ...
LockRow(p) ==
    /\ job[p].kind = "dequeued"
    /\ Exists(job[p].row)
    /\ ~Locked(job[p].row)
    /\ job' = [job EXCEPT ![p] =
            [@ EXCEPT !.kind = "rotating", !.seen = row[job[p].row]]]
    /\ UNCHANGED <<row, config, stage, env, queue>>

\* ... which is saved, encrypted anew; the transaction commits
SaveRotated(p) ==
    /\ job[p].kind = "rotating"
    /\ CanDecrypt(env[p], job[p].seen)
    /\ row' = [row EXCEPT ![job[p].row] = Rotated(env[p], job[p].seen)]
    /\ job' = [job EXCEPT ![p].kind = "rotated"]
    /\ UNCHANGED <<config, stage, env, queue>>

RotationDone(p) ==
    /\ job[p].kind = "rotated"
    /\ job' = [job EXCEPT ![p] = Idle]
    /\ UNCHANGED <<row, config, stage, env, queue>>

\* ExternalCredentials.DoesNotExist, or a ValueError from dibs
RotationOfDeletedRow(p) ==
    /\ job[p].kind = "dequeued"
    /\ ~Exists(job[p].row)
    /\ job' = [job EXCEPT ![p] = Idle]
    /\ UNCHANGED <<row, config, stage, env, queue>>

\* any other error: the transaction is rolled back, and the task is acknowledged
\* all the same, since none of these tasks retries
TaskFails(p) ==
    /\ job[p].kind \in {"scheduling", "dequeued", "rotating"}
    /\ \/ MayFail
       \/ job[p].kind = "rotating" /\ ~CanDecrypt(env[p], job[p].seen)
    /\ job' = [job EXCEPT ![p] = Idle]
    /\ UNCHANGED <<row, config, stage, env, queue>>

-----------------------------------------------------------------------------

TaskStep(p) ==
    \/ ScheduleRotation(p)
    \/ \E r \in Rows : EnqueueRotation(p, r) \/ TakeRotation(p, r)
    \/ ScheduleDone(p)
    \/ LockRow(p)
    \/ SaveRotated(p)
    \/ RotationDone(p)
    \/ RotationOfDeletedRow(p)
    \/ TaskFails(p)

Next ==
    \/ \E q \in Params : UpdateEnvironment(q)
    \/ RotateEncryptionCommand
    \/ RemoveOldSecret
    \/ \E r \in Rows : DeleteCredentials(r)
    \/ \E p \in Processes :
        \/ Restart(p)
        \/ \E r \in Rows, v \in Values : SetCredentials(p, r, v)
        \/ SaveCredentials(p)
        \/ RollBack(p)
        \/ TaskStep(p)

Spec == Init /\ [][Next]_vars

\* Celery delivers a waiting task to some worker and a worker finishes what it
\* takes between its other work; requests end; the operator carries on; and
\* from some time on no task is interrupted by a restart.
FairSpec ==
    /\ Spec
    /\ \A p \in Processes : /\ SF_vars(TaskStep(p))
                            /\ WF_vars(SaveCredentials(p) \/ RollBack(p))
    /\ WF_vars(RemoveOldSecret)
    /\ <>[][\A p \in Processes : Unacked(p) # {} => ~Restart(p)]_vars

-----------------------------------------------------------------------------
(* Properties. *)

\* Type invariant of the rows, environments, queue and processes.
TypeOK ==
    /\ row \in [Rows -> Row \cup {None, Deleted}]
    /\ config \in Environment
    /\ stage \in Stages
    /\ env \in [Processes -> Environment]
    /\ queue \in SUBSET (Rows \cup {Schedule})
    /\ job \in [Processes -> Job]

\* Encryption and its rotation are invisible to the users of the rows: in every
\* interleaving of rotations, duplicated tasks, restarts and requests, and
\* after the old secret is removed, each row reads as what was last stored.
ReadCredentials == [r \in Rows |->
    IF ~Exists(r) THEN None
    ELSE IF CanDecrypt(config, row[r]) THEN row[r].value ELSE Unreadable]
UnsavedCredentials == [p \in Processes |->
    IF job[p].kind # "writing" THEN None
    ELSE [row |-> job[p].row, value |-> job[p].seen.value]]
Store == INSTANCE CredentialStore WITH
    value <- ReadCredentials, pending <- UnsavedCredentials
StoreSpec == Store!Spec

\* Even when tasks fail, only a request that set credentials changes the
\* credentials in a row: no rotation brings back the ones it had read before.
RotationKeepsCredentials ==
    [][\A r \in Rows :
        (Exists(r) /\ row'[r] \in Row /\ row'[r].value # row[r].value) =>
            \E p \in Processes : SaveCredentials(p) /\ job[p].row = r]_vars

\* A rotation that was begun comes to its end, with tasks for deleted rows and
\* duplicated tasks among the others.
RotationCompletes == stage = "rotating" ~> stage = "steady"

\* "once that queue of tasks is complete, update environment again to remove the
\* old secret": every row is readable in the environment.
EveryRowReadable ==
    \A r \in Rows : Exists(r) => CanDecrypt(config, row[r])
-----------------------------------------------------------------------------
(* The inductive invariants behind these properties. *)

\* Whether or not tasks fail: a rotation holds the row it read under its lock.
LockInv ==
    /\ TypeOK
    /\ \A p \in Processes :
        /\ job[p].kind \in {"dequeued", "rotating", "rotated", "writing"} => job[p].row \in Rows
        /\ job[p].kind = "writing" => job[p].seen \in Row
        /\ job[p].kind = "rotating" => /\ job[p].seen \in Row
                                        /\ row[job[p].row] = job[p].seen
    /\ \A p, q \in Processes :
        (job[p].kind = "rotating" /\ job[q].kind = "rotating"
            /\ job[p].row = job[q].row) => p = q

\* a task will, or may still, rotate row r
WillRotate(r) ==
    \/ {Schedule, r} \cap queue # {}
    \/ \E p \in Processes :
        \/ job[p].kind = "scheduling" /\ r \in job[p].pks
        \/ job[p].kind \in {"dequeued", "rotating"} /\ job[p].row = r

NoTasks == queue = {} /\ \A p \in Processes : job[p].kind \notin TaskKinds

\* each stage of the procedure knows the secrets in use
StageInv ==
    /\ stage = "steady" => /\ config.priors = {}
                           /\ NoTasks
                           /\ \A p \in Processes : env[p].secret = config.secret
    /\ stage = "updated" => NoTasks
    /\ stage = "rotating" => \A p \in Processes : env[p] = config
    /\ \A p \in Processes : env[p].secret \in {config.secret} \cup config.priors

\* every ciphertext can be read, and the ones made with an old secret will be
\* rotated before that secret is forgotten
CipherInv ==
    /\ \A r \in Rows : Exists(r) =>
        /\ CanDecrypt(config, row[r])
        /\ stage = "steady" => row[r].secret = config.secret
        /\ stage = "rotating" => row[r].secret = config.secret \/ WillRotate(r)
    /\ \A p \in Processes : job[p].kind = "writing" =>
        /\ job[p].seen.params = job[p].seen.stored
        /\ job[p].seen.secret = env[p].secret

IInv == LockInv /\ StageInv /\ CipherInv
=============================================================================
