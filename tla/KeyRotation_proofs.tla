------------------------- MODULE KeyRotation_proofs -------------------------
(***************************************************************************)
(* Proofs about KeyRotation: types; rotations keep credentials even when   *)
(* tasks fail; and, when no task fails, the old secret may be removed and  *)
(* the encrypted rows implement CredentialStore.                           *)
(***************************************************************************)
EXTENDS KeyRotation, TLAPS

\* The fields of a job have their types.
LEMMA JobFields ==
    ASSUME TypeOK, NEW p \in Processes
    PROVE  /\ job[p] \in Job
           /\ job[p].kind \in Kinds
           /\ job[p].row \in Rows \cup {None}
           /\ job[p].seen \in Row \cup {None}
           /\ job[p].pks \in SUBSET Rows
           /\ job[p].kind # "idle" => job[p] # Idle
BY DEF TypeOK, Job, Idle

\* A ciphertext made in a typed environment is a row.
LEMMA EncryptType ==
    ASSUME NEW e \in Environment, NEW v \in Values, NEW q \in Params
    PROVE  /\ Encrypt(e, v, q) \in Row
           /\ Encrypt(e, v, q).value = v
           /\ Encrypt(e, v, q).secret = e.secret
           /\ Encrypt(e, v, q).params = q
           /\ Encrypt(e, v, q).stored = q
BY DEF Encrypt, Row, Environment

\* The initial state satisfies the inductive invariants.
LEMMA InitLock == Init => LockInv
<1> SUFFICES ASSUME Init PROVE LockInv
    OBVIOUS
<1>1. config \in Environment
    BY KeyRotationAssumption DEF Init, Environment, Secrets
<1>2. Idle \in Job
    BY DEF Idle, Job, Kinds
<1>3. TypeOK
    BY <1>1, <1>2 DEF Init, TypeOK, Stages
<1> QED
    BY <1>3 DEF LockInv, Init, Idle

LEMMA InitStage == Init => StageInv /\ CipherInv
BY KeyRotationAssumption
   DEF Init, StageInv, CipherInv, NoTasks, TaskKinds, Idle, Exists

\* Every step keeps the types and the lock discipline.
LEMMA NextLock == LockInv /\ [Next]_vars => LockInv'
<1> SUFFICES ASSUME LockInv, [Next]_vars PROVE LockInv'
    OBVIOUS
<1>t. TypeOK
    BY DEF LockInv
<1>i. Idle \in Job /\ Idle.kind = "idle"
    BY DEF Idle, Job, Kinds
<1>0. CASE UNCHANGED vars
    BY <1>0 DEF vars, LockInv, TypeOK
<1>1. ASSUME NEW q \in Params, UpdateEnvironment(q) PROVE LockInv'
    <2>1. config' \in Environment
        BY <1>t, <1>1, KeyRotationAssumption
           DEF UpdateEnvironment, TypeOK, Environment, Secrets
    <2> QED
        BY <1>1, <2>1 DEF UpdateEnvironment, LockInv, TypeOK, Stages
<1>2. CASE RotateEncryptionCommand
    BY <1>2 DEF RotateEncryptionCommand, LockInv, TypeOK, Stages
<1>3. CASE RemoveOldSecret
    <2>1. config' \in Environment
        BY <1>t, <1>3 DEF RemoveOldSecret, TypeOK, Environment
    <2> QED
        BY <1>3, <2>1 DEF RemoveOldSecret, LockInv, TypeOK, Stages
<1>4. ASSUME NEW r \in Rows, DeleteCredentials(r) PROVE LockInv'
    <2>1. \A p \in Processes : job[p].kind = "rotating" => job[p].row # r
        BY <1>4 DEF DeleteCredentials, Locked
    <2> QED
        BY <1>4, <2>1 DEF DeleteCredentials, LockInv, TypeOK
<1>5. ASSUME NEW p \in Processes, Restart(p) PROVE LockInv'
    <2>1. Unacked(p) \subseteq Rows \cup {Schedule}
        BY <1>t, JobFields DEF Unacked, LockInv, TaskKinds, Kinds
    <2>2. job' \in [Processes -> Job]
        BY <1>t, <1>i, <1>5 DEF Restart, TypeOK
    <2>3. TypeOK'
        BY <1>t, <1>5, <2>1, <2>2 DEF Restart, TypeOK
    <2> QED
        BY <1>i, <1>5, <2>3 DEF Restart, LockInv, TypeOK
<1>6. ASSUME NEW p \in Processes, NEW r \in Rows, NEW v \in Values,
             SetCredentials(p, r, v)
      PROVE  LockInv'
    <2>1. PICK x \in Row : job' = [job EXCEPT ![p] =
            [Idle EXCEPT !.kind = "writing", !.row = r, !.seen = x]]
        <3>1. CASE Exists(r)
            <4>1. row[r].stored \in Params /\ env[p] \in Environment
                BY <1>t, <3>1 DEF Exists, Row, TypeOK
            <4>2. row[r] # None
                BY <3>1, KeyRotationAssumption DEF Exists
            <4> QED
                BY <1>6, <4>1, <4>2, EncryptType DEF SetCredentials
        <3>2. CASE ~Exists(r)
            <4>1. env[p].params \in Params /\ env[p] \in Environment
                BY <1>t DEF TypeOK, Environment
            <4> QED
                BY <1>6, <3>2, <4>1, EncryptType DEF SetCredentials
        <3> QED BY <3>1, <3>2
    <2> DEFINE j == [Idle EXCEPT !.kind = "writing", !.row = r, !.seen = x]
    <2>2. /\ j \in Job /\ j.kind = "writing" /\ j.row = r /\ j.seen = x
        BY DEF Idle, Job, Kinds
    <2> HIDE DEF j
    <2>3. job' = [job EXCEPT ![p] = j]
        BY <2>1 DEF j
    <2>4. TypeOK'
        BY <1>t, <1>6, <2>2, <2>3 DEF SetCredentials, TypeOK
    <2> QED
        BY <1>6, <2>2, <2>3, <2>4 DEF SetCredentials, LockInv, TypeOK
<1>7. ASSUME NEW p \in Processes, SaveCredentials(p) PROVE LockInv'
    <2>1. job[p].row \in Rows /\ job[p].seen \in Row
        BY <1>7 DEF SaveCredentials, LockInv
    <2>2. TypeOK'
        BY <1>t, <1>i, <1>7, <2>1 DEF SaveCredentials, TypeOK
    <2>3. \A q \in Processes : job[q].kind = "rotating" => job[q].row # job[p].row
        BY <1>7 DEF SaveCredentials, Locked
    <2> QED
        BY <1>i, <1>7, <2>1, <2>2, <2>3 DEF SaveCredentials, LockInv, TypeOK
<1>8. ASSUME NEW p \in Processes,
             RollBack(p) \/ ScheduleDone(p) \/ RotationDone(p)
                \/ RotationOfDeletedRow(p) \/ TaskFails(p)
      PROVE  LockInv'
    <2>1. /\ job' = [job EXCEPT ![p] = Idle]
          /\ UNCHANGED <<row, config, stage, env, queue>>
        BY <1>8 DEF RollBack, ScheduleDone, RotationDone, RotationOfDeletedRow, TaskFails
    <2>2. TypeOK'
        BY <1>t, <1>i, <2>1 DEF TypeOK
    <2> QED
        BY <1>i, <2>1, <2>2 DEF LockInv, TypeOK
<1>9. ASSUME NEW p \in Processes, ScheduleRotation(p) PROVE LockInv'
    <2> DEFINE j == [Idle EXCEPT !.kind = "scheduling",
                                 !.pks = {r \in Rows : Exists(r)}]
    <2>1. j \in Job /\ j.kind = "scheduling"
        BY DEF Idle, Job, Kinds
    <2>2. job' = [job EXCEPT ![p] = j]
        BY <1>9 DEF ScheduleRotation
    <2> HIDE DEF j
    <2>3. TypeOK'
        BY <1>t, <1>9, <2>1, <2>2 DEF ScheduleRotation, TypeOK
    <2> QED
        BY <1>9, <2>1, <2>2, <2>3 DEF ScheduleRotation, LockInv, TypeOK
<1>10. ASSUME NEW p \in Processes, NEW r \in Rows, EnqueueRotation(p, r)
       PROVE  LockInv'
    <2> DEFINE j == [job[p] EXCEPT !.pks = @ \ {r}]
    <2>1. j \in Job /\ j.kind = "scheduling"
        BY <1>t, <1>10, JobFields DEF EnqueueRotation, Job
    <2>2. job' = [job EXCEPT ![p] = j]
        BY <1>t, <1>10 DEF EnqueueRotation, TypeOK
    <2> HIDE DEF j
    <2>3. TypeOK'
        BY <1>t, <1>10, <2>1, <2>2 DEF EnqueueRotation, TypeOK
    <2> QED
        BY <1>10, <2>1, <2>2, <2>3 DEF EnqueueRotation, LockInv, TypeOK
<1>11. ASSUME NEW p \in Processes, NEW r \in Rows, TakeRotation(p, r)
       PROVE  LockInv'
    <2> DEFINE j == [Idle EXCEPT !.kind = "dequeued", !.row = r]
    <2>1. j \in Job /\ j.kind = "dequeued" /\ j.row = r
        BY DEF Idle, Job, Kinds
    <2>2. job' = [job EXCEPT ![p] = j]
        BY <1>11 DEF TakeRotation
    <2> HIDE DEF j
    <2>3. TypeOK'
        BY <1>t, <1>11, <2>1, <2>2 DEF TakeRotation, TypeOK
    <2> QED
        BY <1>11, <2>1, <2>2, <2>3 DEF TakeRotation, LockInv, TypeOK
<1>12. ASSUME NEW p \in Processes, LockRow(p) PROVE LockInv'
    <2> DEFINE j == [job[p] EXCEPT !.kind = "rotating", !.seen = row[job[p].row]]
    <2>1. job[p].row \in Rows /\ row[job[p].row] \in Row
        BY <1>12 DEF LockRow, LockInv, Exists
    <2>2. j \in Job /\ j.kind = "rotating" /\ j.row = job[p].row
            /\ j.seen = row[job[p].row]
        BY <1>t, <2>1, JobFields DEF Job, Kinds
    <2>3. job' = [job EXCEPT ![p] = j]
        BY <1>t, <1>12 DEF LockRow, TypeOK
    <2> HIDE DEF j
    <2>4. TypeOK'
        BY <1>t, <1>12, <2>2, <2>3 DEF LockRow, TypeOK
    <2>5. \A q \in Processes : job[q].kind = "rotating" => job[q].row # job[p].row
        BY <1>12 DEF LockRow, Locked
    <2> QED
        BY <1>12, <2>1, <2>2, <2>3, <2>4, <2>5 DEF LockRow, LockInv, TypeOK
<1>13. ASSUME NEW p \in Processes, SaveRotated(p) PROVE LockInv'
    <2> DEFINE j == [job[p] EXCEPT !.kind = "rotated"]
    <2>1. job[p].row \in Rows /\ job[p].seen \in Row
        BY <1>13 DEF SaveRotated, LockInv
    <2>2. j \in Job /\ j.kind = "rotated" /\ j.row = job[p].row
        BY <1>t, JobFields DEF Job, Kinds
    <2>3. job' = [job EXCEPT ![p] = j]
        BY <1>t, <1>13 DEF SaveRotated, TypeOK
    <2> HIDE DEF j
    <2>4. Rotated(env[p], job[p].seen) \in Row
        <3>1. env[p] \in Environment /\ env[p].params \in Params
            BY <1>t DEF TypeOK, Environment
        <3>2. job[p].seen.value \in Values
            BY <2>1 DEF Row
        <3> QED BY <3>1, <3>2, EncryptType DEF Rotated
    <2>5. TypeOK'
        BY <1>t, <1>13, <2>1, <2>2, <2>3, <2>4 DEF SaveRotated, TypeOK
    <2>6. \A q \in Processes :
            (job[q].kind = "rotating" /\ q # p) => job[q].row # job[p].row
        BY <1>13 DEF SaveRotated, LockInv
    <2> QED
        BY <1>13, <2>1, <2>2, <2>3, <2>5, <2>6 DEF SaveRotated, LockInv, TypeOK
<1> QED
    BY <1>0, <1>1, <1>2, <1>3, <1>4, <1>5, <1>6, <1>7, <1>8, <1>9, <1>10,
       <1>11, <1>12, <1>13 DEF Next, TaskStep

LEMMA AlwaysLock == Spec => []LockInv
BY InitLock, NextLock, PTL DEF Spec

\* Types hold in every behaviour of rotations, requests and restarts.
THEOREM RotationTypeCorrect == Spec => []TypeOK
<1>1. LockInv => TypeOK
    BY DEF LockInv
<1> QED BY <1>1, AlwaysLock, PTL

-----------------------------------------------------------------------------
\* Only a step of SaveCredentials changes the credentials in a row that stays.
LEMMA StepKeepsCredentials ==
    ASSUME LockInv, [Next]_vars, NEW r \in Rows,
           Exists(r), row'[r] \in Row, row'[r].value # row[r].value
    PROVE  \E p \in Processes : SaveCredentials(p) /\ job[p].row = r
<1>t. TypeOK
    BY DEF LockInv
<1>1. row' # row
    OBVIOUS
<1>2. CASE \E s \in Rows : DeleteCredentials(s)
    <2>1. PICK s \in Rows : DeleteCredentials(s)
        BY <1>2
    <2>2. row'[r] = row[r] \/ row'[r] = Deleted
        BY <1>t, <2>1 DEF DeleteCredentials, TypeOK
    <2> QED BY <2>2, KeyRotationAssumption
<1>3. CASE \E p \in Processes : SaveCredentials(p)
    <2>1. PICK p \in Processes : SaveCredentials(p)
        BY <1>3
    <2>2. job[p].row = r
        BY <1>t, <2>1 DEF SaveCredentials, TypeOK
    <2> QED BY <2>1, <2>2
<1>4. ASSUME NEW p \in Processes, SaveRotated(p) PROVE FALSE
    <2>1. /\ job[p].row \in Rows
          /\ row[job[p].row] = job[p].seen
          /\ job[p].seen \in Row
        BY <1>4 DEF SaveRotated, LockInv
    <2>2. Rotated(env[p], job[p].seen).value = job[p].seen.value
        BY DEF Rotated, Encrypt
    <2> QED
        BY <1>t, <1>4, <2>1, <2>2 DEF SaveRotated, TypeOK
<1> QED
    BY <1>1, <1>2, <1>3, <1>4 DEF Next, TaskStep, vars, UpdateEnvironment,
       RotateEncryptionCommand, RemoveOldSecret, Restart, SetCredentials,
       RollBack, ScheduleRotation, EnqueueRotation, ScheduleDone, TakeRotation,
       LockRow, RotationDone, RotationOfDeletedRow, TaskFails

\* Even when tasks fail, no rotation changes the credentials in a row.
THEOREM RotationsKeepCredentials == Spec => RotationKeepsCredentials
<1>1. LockInv /\ [Next]_vars =>
        [\A r \in Rows :
            (Exists(r) /\ row'[r] \in Row /\ row'[r].value # row[r].value) =>
                \E p \in Processes : SaveCredentials(p) /\ job[p].row = r]_vars
    BY StepKeepsCredentials
<1> QED
    BY <1>1, AlwaysLock, PTL DEF Spec, RotationKeepsCredentials

-----------------------------------------------------------------------------
(* When no task fails. *)

\* Every step keeps what each stage of the procedure knows.
LEMMA NextStage == LockInv /\ StageInv /\ [Next]_vars => StageInv'
<1> SUFFICES ASSUME LockInv, StageInv, [Next]_vars PROVE StageInv'
    OBVIOUS
<1>t. TypeOK
    BY DEF LockInv
<1>i. Idle.kind = "idle" /\ Idle.pks = {} /\ "idle" \notin TaskKinds
    BY DEF Idle, TaskKinds
<1>s. \A p \in Processes : job[p].kind \in TaskKinds => stage = "rotating"
    BY <1>t DEF StageInv, NoTasks, TypeOK, Stages
<1>q. queue # {} => stage = "rotating"
    BY <1>t DEF StageInv, NoTasks, TypeOK, Stages
<1>0. CASE UNCHANGED vars
    BY <1>0 DEF vars, StageInv, NoTasks
<1>1. ASSUME NEW q \in Params, UpdateEnvironment(q) PROVE StageInv'
    BY <1>1 DEF UpdateEnvironment, StageInv, NoTasks
<1>2. CASE RotateEncryptionCommand
    BY <1>2 DEF RotateEncryptionCommand, StageInv
<1>3. CASE RemoveOldSecret
    <2>1. config'.priors = {} /\ config'.secret = config.secret
        BY <1>t, <1>3 DEF RemoveOldSecret, TypeOK, Environment
    <2> QED
        BY <1>3, <2>1 DEF RemoveOldSecret, StageInv, NoTasks
<1>4. ASSUME NEW r \in Rows, DeleteCredentials(r) PROVE StageInv'
    BY <1>4 DEF DeleteCredentials, StageInv, NoTasks
<1>5. ASSUME NEW p \in Processes, Restart(p) PROVE StageInv'
    <2>1. stage # "rotating" => Unacked(p) = {}
        BY <1>s DEF Unacked, TaskKinds, Kinds
    <2> QED
        BY <1>t, <1>i, <1>5, <2>1 DEF Restart, StageInv, NoTasks, TypeOK
<1>6. ASSUME NEW p \in Processes, NEW r \in Rows, NEW v \in Values,
             SetCredentials(p, r, v)
      PROVE  StageInv'
    <2>1. PICK x : job' = [job EXCEPT ![p] =
            [Idle EXCEPT !.kind = "writing", !.row = r, !.seen = x]]
        BY <1>6 DEF SetCredentials
    <2>2. \A q \in Processes : job'[q].kind \in TaskKinds => job[q].kind \in TaskKinds
        BY <1>t, <2>1 DEF TypeOK, TaskKinds, Idle
    <2> QED
        BY <1>6, <2>2 DEF SetCredentials, StageInv, NoTasks
<1>7. ASSUME NEW p \in Processes, SaveCredentials(p) \/ RollBack(p)
      PROVE  StageInv'
    BY <1>t, <1>i, <1>7 DEF SaveCredentials, RollBack, StageInv, NoTasks, TypeOK
<1>8. ASSUME NEW p \in Processes, TaskStep(p) PROVE StageInv'
    <2>1. stage = "rotating"
        BY <1>s, <1>q, <1>8 DEF TaskStep, ScheduleRotation, EnqueueRotation,
           TakeRotation, ScheduleDone, LockRow, SaveRotated, RotationDone,
           RotationOfDeletedRow, TaskFails, TaskKinds, Kinds
    <2>2. UNCHANGED <<config, stage, env>>
        BY <1>8 DEF TaskStep, ScheduleRotation, EnqueueRotation,
           TakeRotation, ScheduleDone, LockRow, SaveRotated, RotationDone,
           RotationOfDeletedRow, TaskFails
    <2> QED BY <2>1, <2>2 DEF StageInv
<1> QED
    BY <1>0, <1>1, <1>2, <1>3, <1>4, <1>5, <1>6, <1>7, <1>8 DEF Next

\* Every step keeps every ciphertext readable, as long as no task fails.
LEMMA NextCipher ==
    ASSUME MayFail = FALSE
    PROVE  IInv /\ [Next]_vars => CipherInv'
<1> SUFFICES ASSUME IInv, [Next]_vars PROVE CipherInv'
    OBVIOUS
<1>t. TypeOK /\ LockInv /\ StageInv /\ CipherInv
    BY DEF IInv, LockInv
<1>i. Idle.kind = "idle" /\ Idle.pks = {} /\ Idle.row = None
    BY DEF Idle
<1>n. \A r \in Rows : r # None
    BY KeyRotationAssumption
<1>s. \A p \in Processes :
        job[p].kind \in TaskKinds => stage = "rotating" /\ env[p] = config
    BY <1>t DEF StageInv, NoTasks, TypeOK, Stages
<1>e. \A p \in Processes : env[p] \in Environment /\ env[p].params \in Params
    BY <1>t DEF TypeOK, Environment
<1>0. CASE UNCHANGED vars
    BY <1>t, <1>0 DEF vars, CipherInv, Exists, WillRotate
<1>1. ASSUME NEW q \in Params, UpdateEnvironment(q) PROVE CipherInv'
    <2>1. /\ config'.secret = config.secret + 1
          /\ config'.priors = config.priors \cup {config.secret}
          /\ stage' = "updated"
          /\ UNCHANGED <<row, env, queue, job>>
        BY <1>1 DEF UpdateEnvironment
    <2>2. \A r \in Rows : Exists(r) => CanDecrypt(config', row[r])
        BY <1>t, <2>1 DEF CipherInv, CanDecrypt
    <2> QED
        BY <1>t, <2>1, <2>2 DEF CipherInv, Exists
<1>2. CASE RotateEncryptionCommand
    BY <1>t, <1>2 DEF RotateEncryptionCommand, CipherInv, Exists, WillRotate
<1>3. CASE RemoveOldSecret
    <2>1. /\ config'.priors = {} /\ config'.secret = config.secret
          /\ stage = "rotating" /\ stage' = "steady"
          /\ UNCHANGED <<row, env, queue, job>>
        BY <1>t, <1>3 DEF RemoveOldSecret, TypeOK, Environment
    <2>2. \A r \in Rows : ~WillRotate(r)
        BY <1>3 DEF RemoveOldSecret, WillRotate, TaskKinds, Kinds
    <2>3. \A r \in Rows : Exists(r) => row[r].secret = config.secret
        BY <1>t, <2>1, <2>2 DEF CipherInv
    <2>4. \A r \in Rows : Exists(r) => CanDecrypt(config', row[r])
        BY <1>t, <2>1, <2>3 DEF CipherInv, CanDecrypt
    <2> QED
        BY <1>t, <2>1, <2>3, <2>4 DEF CipherInv, Exists
<1>4. ASSUME NEW s \in Rows, DeleteCredentials(s) PROVE CipherInv'
    <2>1. \A r \in Rows : row'[r] \in Row => row'[r] = row[r]
        BY <1>t, <1>4, KeyRotationAssumption DEF DeleteCredentials, TypeOK
    <2> QED
        BY <1>t, <1>4, <2>1 DEF DeleteCredentials, CipherInv, Exists, WillRotate
<1>5. ASSUME NEW p \in Processes, Restart(p) PROVE CipherInv'
    <2>1. \A r \in Rows : WillRotate(r) => WillRotate(r)'
        BY <1>t, <1>5 DEF Restart, WillRotate, Unacked, TypeOK, TaskKinds, Kinds
    <2> QED
        BY <1>t, <1>i, <1>5, <2>1 DEF Restart, CipherInv, Exists, TypeOK
<1>6. ASSUME NEW p \in Processes, NEW r \in Rows, NEW v \in Values,
             SetCredentials(p, r, v)
      PROVE  CipherInv'
    <2>0. PICK q \in Params : job' = [job EXCEPT ![p] =
            [Idle EXCEPT !.kind = "writing", !.row = r,
                         !.seen = Encrypt(env[p], v, q)]]
        <3>1. CASE Exists(r)
            <4>1. row[r].stored \in Params /\ row[r] # None
                BY <3>1, KeyRotationAssumption DEF Exists, Row
            <4> QED
                BY <1>6, <4>1 DEF SetCredentials
        <3>2. CASE ~Exists(r)
            BY <1>6, <1>e, <3>2 DEF SetCredentials
        <3> QED BY <3>1, <3>2
    <2> DEFINE x == Encrypt(env[p], v, q)
    <2>1. x.params = x.stored /\ x.secret = env[p].secret
        BY DEF Encrypt
    <2> HIDE DEF x
    <2> DEFINE j == [Idle EXCEPT !.kind = "writing", !.row = r, !.seen = x]
    <2>2. j.kind = "writing" /\ j.seen = x
        BY DEF Idle
    <2> HIDE DEF j
    <2>3. job' = [job EXCEPT ![p] = j] /\ job[p] = Idle
        BY <1>6, <2>0 DEF j, x, SetCredentials
    <2>4. \A s \in Rows : WillRotate(s) => WillRotate(s)'
        BY <1>t, <1>i, <1>6, <2>3 DEF SetCredentials, WillRotate, TypeOK
    <2> QED
        BY <1>t, <1>6, <2>1, <2>2, <2>3, <2>4 DEF SetCredentials, CipherInv, Exists, TypeOK
<1>7. ASSUME NEW p \in Processes, SaveCredentials(p) PROVE CipherInv'
    <2> DEFINE x == job[p].seen
    <2>1. job[p].row \in Rows /\ x \in Row
        BY <1>7 DEF SaveCredentials, LockInv, IInv
    <2>2. x.params = x.stored /\ x.secret = env[p].secret
        BY <1>t, <1>7 DEF SaveCredentials, CipherInv
    <2>3. CanDecrypt(config, x)
        BY <1>t, <2>2 DEF StageInv, CanDecrypt
    <2>4. stage # "updated" => x.secret = config.secret
        BY <1>t, <2>2 DEF StageInv, TypeOK, Stages
    <2>5. \A s \in Rows : WillRotate(s) => WillRotate(s)'
        BY <1>t, <1>i, <1>7 DEF SaveCredentials, WillRotate, TypeOK
    <2>6. \A s \in Rows : row'[s] = IF s = job[p].row THEN x ELSE row[s]
        BY <1>t, <1>7 DEF SaveCredentials, TypeOK
    <2>7. \A q \in Processes : job'[q].kind = "writing" => job'[q] = job[q]
        BY <1>t, <1>i, <1>7 DEF SaveCredentials, TypeOK
    <2> HIDE DEF x
    <2> QED
        BY <1>t, <1>7, <2>1, <2>3, <2>4, <2>5, <2>6, <2>7
           DEF SaveCredentials, CipherInv, Exists
<1>8. ASSUME NEW p \in Processes,
             RollBack(p) \/ ScheduleDone(p) \/ RotationDone(p)
                \/ RotationOfDeletedRow(p) \/ TaskFails(p)
      PROVE  CipherInv'
    <2>1. /\ job' = [job EXCEPT ![p] = Idle]
          /\ UNCHANGED <<row, config, stage, env, queue>>
        BY <1>8 DEF RollBack, ScheduleDone, RotationDone, RotationOfDeletedRow, TaskFails
    <2>2. ~TaskFails(p)
        <3> SUFFICES ASSUME TaskFails(p) PROVE FALSE
            OBVIOUS
        <3>1. job[p].kind = "rotating" /\ ~CanDecrypt(env[p], job[p].seen)
            BY DEF TaskFails
        <3>2. job[p].row \in Rows /\ Exists(job[p].row) /\ row[job[p].row] = job[p].seen
            BY <1>t, <3>1 DEF LockInv, Exists
        <3>3. env[p] = config
            BY <1>s, <3>1 DEF TaskKinds, Kinds
        <3> QED
            BY <1>t, <3>1, <3>2, <3>3 DEF CipherInv
    <2>3. \A s \in Rows : (Exists(s) /\ WillRotate(s)) => WillRotate(s)'
        BY <1>t, <1>8, <2>1, <2>2 DEF RollBack, ScheduleDone, RotationDone,
           RotationOfDeletedRow, WillRotate, TypeOK
    <2> QED
        BY <1>t, <1>i, <2>1, <2>3 DEF CipherInv, Exists, TypeOK
<1>9. ASSUME NEW p \in Processes, ScheduleRotation(p) PROVE CipherInv'
    <2> DEFINE j == [Idle EXCEPT !.kind = "scheduling",
                                 !.pks = {r \in Rows : Exists(r)}]
    <2>1. j.kind = "scheduling" /\ j.pks = {r \in Rows : Exists(r)}
        BY DEF Idle
    <2>2. job' = [job EXCEPT ![p] = j]
        BY <1>9 DEF ScheduleRotation
    <2> HIDE DEF j
    <2>3. \A s \in Rows : Exists(s) => WillRotate(s)'
        BY <1>t, <1>9, <2>1, <2>2 DEF ScheduleRotation, WillRotate, TypeOK
    <2> QED
        BY <1>t, <1>9, <2>1, <2>2, <2>3 DEF ScheduleRotation, CipherInv, Exists, TypeOK
<1>10. ASSUME NEW p \in Processes, NEW r \in Rows, EnqueueRotation(p, r)
       PROVE  CipherInv'
    <2> DEFINE j == [job[p] EXCEPT !.pks = @ \ {r}]
    <2>1. j.kind = "scheduling" /\ j.pks = job[p].pks \ {r}
        BY <1>t, <1>10, JobFields DEF EnqueueRotation, Job
    <2>2. job' = [job EXCEPT ![p] = j]
        BY <1>t, <1>10 DEF EnqueueRotation, TypeOK
    <2> HIDE DEF j
    <2>3. \A s \in Rows : WillRotate(s) => WillRotate(s)'
        BY <1>t, <1>10, <2>1, <2>2 DEF EnqueueRotation, WillRotate, TypeOK
    <2> QED
        BY <1>t, <1>10, <2>1, <2>2, <2>3 DEF EnqueueRotation, CipherInv, Exists, TypeOK
<1>11. ASSUME NEW p \in Processes, NEW r \in Rows, TakeRotation(p, r)
       PROVE  CipherInv'
    <2> DEFINE j == [Idle EXCEPT !.kind = "dequeued", !.row = r]
    <2>1. j.kind = "dequeued" /\ j.row = r
        BY DEF Idle
    <2>2. job' = [job EXCEPT ![p] = j] /\ job[p] = Idle
        BY <1>11 DEF TakeRotation
    <2> HIDE DEF j
    <2>3. \A s \in Rows : WillRotate(s) => WillRotate(s)'
        BY <1>t, <1>i, <1>11, <2>1, <2>2, KeyRotationAssumption
           DEF TakeRotation, WillRotate, TypeOK
    <2> QED
        BY <1>t, <1>11, <2>1, <2>2, <2>3 DEF TakeRotation, CipherInv, Exists, TypeOK
<1>12. ASSUME NEW p \in Processes, LockRow(p) PROVE CipherInv'
    <2> DEFINE j == [job[p] EXCEPT !.kind = "rotating", !.seen = row[job[p].row]]
    <2>1. j.kind = "rotating" /\ j.row = job[p].row
        BY <1>t, JobFields DEF Job
    <2>2. job' = [job EXCEPT ![p] = j]
        BY <1>t, <1>12 DEF LockRow, TypeOK
    <2> HIDE DEF j
    <2>3. \A s \in Rows : WillRotate(s) => WillRotate(s)'
        BY <1>t, <1>12, <2>1, <2>2 DEF LockRow, WillRotate, TypeOK
    <2> QED
        BY <1>t, <1>12, <2>1, <2>2, <2>3 DEF LockRow, CipherInv, Exists, TypeOK
<1>13. ASSUME NEW p \in Processes, SaveRotated(p) PROVE CipherInv'
    <2> DEFINE j == [job[p] EXCEPT !.kind = "rotated"]
               x == Rotated(env[p], job[p].seen)
    <2>1. j.kind = "rotated" /\ j.row = job[p].row
        BY <1>t, JobFields DEF Job
    <2>2. job' = [job EXCEPT ![p] = j]
        BY <1>t, <1>13 DEF SaveRotated, TypeOK
    <2>3. stage = "rotating" /\ env[p] = config
        BY <1>s, <1>13 DEF SaveRotated, TaskKinds, Kinds
    <2>4. CanDecrypt(config, x) /\ x.secret = config.secret
        BY <2>3 DEF Rotated, Encrypt, CanDecrypt
    <2>5. \A s \in Rows : row'[s] = IF s = job[p].row THEN x ELSE row[s]
        BY <1>t, <1>13 DEF SaveRotated, TypeOK
    <2> HIDE DEF j, x
    <2>6. \A s \in Rows : (s # job[p].row /\ WillRotate(s)) => WillRotate(s)'
        BY <1>t, <1>13, <2>1, <2>2 DEF SaveRotated, WillRotate, TypeOK
    <2>7. \A q \in Processes : job'[q].kind = "writing" => job'[q] = job[q]
        BY <1>t, <2>1, <2>2 DEF TypeOK
    <2> QED
        BY <1>t, <1>13, <2>3, <2>4, <2>5, <2>6, <2>7 DEF SaveRotated, CipherInv, Exists
<1> QED
    BY <1>0, <1>1, <1>2, <1>3, <1>4, <1>5, <1>6, <1>7, <1>8, <1>9, <1>10,
       <1>11, <1>12, <1>13 DEF Next, TaskStep

LEMMA AlwaysIInv == ASSUME MayFail = FALSE PROVE Spec => []IInv
<1>1. Init => IInv
    BY InitLock, InitStage DEF IInv
<1>2. IInv /\ [Next]_vars => IInv'
    BY NextLock, NextStage, NextCipher DEF IInv
<1> QED BY <1>1, <1>2, PTL DEF Spec

\* When no task fails, step 3 of the procedure is safe: every row is readable
\* in the environment, with the old secret removed.
THEOREM NothingIsStranded ==
    ASSUME MayFail = FALSE PROVE Spec => []EveryRowReadable
<1>1. IInv => EveryRowReadable
    BY DEF IInv, CipherInv, EveryRowReadable
<1> QED BY <1>1, AlwaysIInv, PTL

\* Each step of the encrypted rows is a step of the credentials they stand for.
LEMMA StepStore ==
    ASSUME MayFail = FALSE, IInv, IInv', [Next]_vars
    PROVE  [Store!Next]_<<ReadCredentials, UnsavedCredentials>>
<1>t. TypeOK /\ LockInv /\ CipherInv
    BY DEF IInv, LockInv
<1>i. Idle.kind = "idle"
    BY DEF Idle
<1>r. /\ \A r \in Rows : Exists(r) => CanDecrypt(config, row[r])
      /\ \A r \in Rows : Exists(r)' => CanDecrypt(config', row'[r])
    BY DEF IInv, CipherInv, Exists
<1>v. /\ ReadCredentials = [r \in Rows |-> IF ~Exists(r) THEN None ELSE row[r].value]
      /\ ReadCredentials' = [r \in Rows |-> IF ~Exists(r)' THEN None ELSE row'[r].value]
    BY <1>r DEF ReadCredentials
<1>u. /\ row' = row => UNCHANGED ReadCredentials
      /\ (\A p \in Processes : (job[p].kind = "writing" \/ job'[p].kind = "writing")
                                    => job'[p] = job[p])
            => UNCHANGED UnsavedCredentials
    BY <1>v DEF UnsavedCredentials, Exists
<1> DEFINE Stutters == UNCHANGED <<ReadCredentials, UnsavedCredentials>>
<1>0. CASE UNCHANGED vars
    BY <1>0, <1>u DEF vars
<1>1. ASSUME NEW q \in Params, UpdateEnvironment(q) PROVE Stutters
    BY <1>1, <1>u DEF UpdateEnvironment
<1>2. CASE RotateEncryptionCommand
    BY <1>2, <1>u DEF RotateEncryptionCommand
<1>3. CASE RemoveOldSecret
    BY <1>3, <1>u DEF RemoveOldSecret
<1>4. ASSUME NEW r \in Rows, DeleteCredentials(r) PROVE Store!Delete(r)
    <2>1. ReadCredentials' = [ReadCredentials EXCEPT ![r] = None]
        BY <1>t, <1>v, <1>4, KeyRotationAssumption DEF DeleteCredentials, Exists, TypeOK
    <2> QED
        BY <1>4, <1>u, <2>1 DEF DeleteCredentials, Store!Delete
<1>5. ASSUME NEW p \in Processes, Restart(p) \/ RollBack(p)
      PROVE  Store!Withdraw(p) \/ Stutters
    <2>1. row' = row /\ job' = [job EXCEPT ![p] = Idle]
        BY <1>5 DEF Restart, RollBack
    <2>2. CASE job[p].kind = "writing"
        <3>1. UnsavedCredentials' = [UnsavedCredentials EXCEPT ![p] = None]
            BY <1>t, <1>i, <2>1, <2>2 DEF UnsavedCredentials, TypeOK
        <3>2. UnsavedCredentials[p] # None
            BY <1>t, <2>2, KeyRotationAssumption DEF UnsavedCredentials, LockInv, Row
        <3> QED BY <1>u, <2>1, <3>1, <3>2 DEF Store!Withdraw
    <2>3. CASE job[p].kind # "writing"
        BY <1>t, <1>i, <1>u, <2>1, <2>3 DEF TypeOK
    <2> QED BY <2>2, <2>3
<1>6. ASSUME NEW p \in Processes, NEW r \in Rows, NEW v \in Values,
             SetCredentials(p, r, v)
      PROVE  Store!Submit(p, r, v)
    <2>0. PICK q : job' = [job EXCEPT ![p] =
            [Idle EXCEPT !.kind = "writing", !.row = r,
                         !.seen = Encrypt(env[p], v, q)]]
        BY <1>6 DEF SetCredentials
    <2> DEFINE x == Encrypt(env[p], v, q)
    <2>1. x.value = v
        BY DEF Encrypt
    <2> HIDE DEF x
    <2> DEFINE j == [Idle EXCEPT !.kind = "writing", !.row = r, !.seen = x]
    <2>2. j.kind = "writing" /\ j.row = r /\ j.seen.value = v
        BY <2>1 DEF Idle
    <2> HIDE DEF j
    <2>3. job' = [job EXCEPT ![p] = j] /\ job[p].kind = "idle"
        BY <1>6, <1>i, <2>0 DEF j, x, SetCredentials
    <2>4. UnsavedCredentials' =
            [UnsavedCredentials EXCEPT ![p] = [row |-> r, value |-> v]]
        BY <1>t, <2>2, <2>3 DEF UnsavedCredentials, TypeOK
    <2>5. UnsavedCredentials[p] = None
        BY <2>3 DEF UnsavedCredentials
    <2> QED
        BY <1>6, <1>u, <2>4, <2>5 DEF SetCredentials, Store!Submit
<1>7. ASSUME NEW p \in Processes, SaveCredentials(p) PROVE Store!Commit(p)
    <2>1. job[p].row \in Rows /\ job[p].seen \in Row /\ job[p].kind = "writing"
        BY <1>t, <1>7 DEF SaveCredentials, LockInv
    <2>2. UnsavedCredentials[p] = [row |-> job[p].row, value |-> job[p].seen.value]
        BY <2>1 DEF UnsavedCredentials
    <2>3. UnsavedCredentials[p] # None
        BY <2>1, <2>2, KeyRotationAssumption DEF Row
    <2>4. UnsavedCredentials' = [UnsavedCredentials EXCEPT ![p] = None]
        BY <1>t, <1>i, <1>7 DEF SaveCredentials, UnsavedCredentials, TypeOK
    <2>5. ReadCredentials' = [ReadCredentials EXCEPT ![job[p].row] = job[p].seen.value]
        BY <1>t, <1>v, <1>7, <2>1 DEF SaveCredentials, Exists, TypeOK
    <2> QED
        BY <2>2, <2>3, <2>4, <2>5 DEF Store!Commit
<1>8. ASSUME NEW p \in Processes, TaskStep(p) PROVE Stutters
    <2>1. UNCHANGED UnsavedCredentials
        <3>1. /\ job[p].kind # "writing"
              /\ \E j : job' = [job EXCEPT ![p] = j] /\ j.kind # "writing"
            <4>1. CASE ScheduleRotation(p) \/ \E r \in Rows : TakeRotation(p, r)
                BY <1>i, <4>1 DEF ScheduleRotation, TakeRotation, Idle
            <4>2. CASE ScheduleDone(p) \/ RotationDone(p)
                        \/ RotationOfDeletedRow(p) \/ TaskFails(p)
                BY <1>i, <4>2 DEF ScheduleDone, RotationDone, RotationOfDeletedRow, TaskFails
            <4>3. ASSUME NEW r \in Rows, EnqueueRotation(p, r)
                  PROVE  /\ job[p].kind # "writing"
                         /\ \E j : job' = [job EXCEPT ![p] = j] /\ j.kind # "writing"
                <5> DEFINE j == [job[p] EXCEPT !.pks = @ \ {r}]
                <5>1. j.kind = "scheduling"
                    BY <1>t, <4>3, JobFields DEF EnqueueRotation, Job
                <5>2. job' = [job EXCEPT ![p] = j]
                    BY <1>t, <4>3 DEF EnqueueRotation, TypeOK
                <5> QED BY <4>3, <5>1, <5>2 DEF EnqueueRotation
            <4>4. CASE LockRow(p)
                <5> DEFINE j == [job[p] EXCEPT !.kind = "rotating",
                                               !.seen = row[job[p].row]]
                <5>1. j.kind = "rotating"
                    BY <1>t, JobFields DEF Job
                <5>2. job' = [job EXCEPT ![p] = j]
                    BY <1>t, <4>4 DEF LockRow, TypeOK
                <5> QED BY <4>4, <5>1, <5>2 DEF LockRow
            <4>5. CASE SaveRotated(p)
                <5> DEFINE j == [job[p] EXCEPT !.kind = "rotated"]
                <5>1. j.kind = "rotated"
                    BY <1>t, JobFields DEF Job
                <5>2. job' = [job EXCEPT ![p] = j]
                    BY <1>t, <4>5 DEF SaveRotated, TypeOK
                <5> QED BY <4>5, <5>1, <5>2 DEF SaveRotated
            <4> QED BY <1>8, <4>1, <4>2, <4>3, <4>4, <4>5 DEF TaskStep
        <3>2. \A q \in Processes :
                (job[q].kind = "writing" \/ job'[q].kind = "writing") => job'[q] = job[q]
            BY <1>t, <3>1 DEF TypeOK
        <3> QED BY <1>u, <3>2
    <2>2. CASE SaveRotated(p)
        <3> DEFINE x == Rotated(env[p], job[p].seen)
        <3>1. /\ job[p].row \in Rows
              /\ row[job[p].row] = job[p].seen
              /\ Exists(job[p].row)
            BY <1>t, <2>2 DEF SaveRotated, LockInv, Exists
        <3>2. x.value = row[job[p].row].value
            BY <3>1 DEF Rotated, Encrypt
        <3>3. x \in Row
            <4>1. env[p] \in Environment /\ env[p].params \in Params
                BY <1>t DEF TypeOK, Environment
            <4>2. job[p].seen.value \in Values
                BY <3>1 DEF Row, Exists
            <4> QED BY <4>1, <4>2, EncryptType DEF Rotated
        <3>4. row' = [row EXCEPT ![job[p].row] = x]
            BY <2>2 DEF SaveRotated
        <3> HIDE DEF x
        <3>5. \A r \in Rows : /\ Exists(r)' <=> Exists(r)
                              /\ row'[r].value = row[r].value
            BY <1>t, <3>1, <3>2, <3>3, <3>4 DEF Exists, TypeOK
        <3>6. ReadCredentials' = ReadCredentials
            BY <1>v, <3>5
        <3> QED BY <2>1, <3>6
    <2>3. CASE ~SaveRotated(p)
        <3>1. row' = row
            BY <1>8, <2>3 DEF TaskStep, ScheduleRotation, EnqueueRotation,
               TakeRotation, ScheduleDone, LockRow, RotationDone,
               RotationOfDeletedRow, TaskFails
        <3> QED BY <1>u, <2>1, <3>1
    <2> QED BY <2>2, <2>3
<1> QED
    BY <1>0, <1>1, <1>2, <1>3, <1>4, <1>5, <1>6, <1>7, <1>8 DEF Next, Store!Next

\* When no task fails, encryption and its rotation are invisible: the encrypted
\* rows implement CredentialStore.
THEOREM EncryptionIsInvisible ==
    ASSUME MayFail = FALSE PROVE Spec => StoreSpec
<1>1. Init => Store!Init
    BY KeyRotationAssumption
       DEF Init, Store!Init, ReadCredentials, UnsavedCredentials, Exists, Idle
<1>2. IInv /\ IInv' /\ [Next]_vars =>
        [Store!Next]_<<ReadCredentials, UnsavedCredentials>>
    BY StepStore
<1> QED
    BY <1>1, <1>2, AlwaysIInv, PTL DEF Spec, StoreSpec, Store!Spec
=============================================================================
