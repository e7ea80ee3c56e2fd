-------------------------- MODULE Invocation_proofs --------------------------
(***************************************************************************)
(* Proofs about Invocation: types, and that the row lock of dibs and the   *)
(* transactions keep what an invocation has saved, for any number of       *)
(* invocations, workers and deliveries.                                    *)
(***************************************************************************)
EXTENDS Invocation, TLAPS

\* The part of TaskOK that speaks of a single task record.
WellFormed(j) ==
    /\ j.phase # "idle" => j.inv \in Invocations
    /\ j.phase \in {"created", "enqueued"} => ~j.celery /\ j.row = NewRow
    /\ j.phase \in Active => j.row # None
    /\ j.phase \in {"delivered", "acking"} => j.celery
    /\ j.phase = "idle" => j = Idle

\* The fields of a task have their types.
LEMMA TaskFields ==
    ASSUME TypeOK, NEW w \in Workers
    PROVE  /\ task[w] \in Task
           /\ task[w].phase \in Phases
           /\ task[w].inv \in Invocations \cup {None}
           /\ task[w].row \in Row \cup {None}
           /\ task[w].access \in Generations
           /\ task[w].fresh \in Generations \cup {None}
           /\ task[w].celery \in BOOLEAN
BY DEF TypeOK, Task

\* Rows and the idle task have their types; None is neither.
LEMMA Values ==
    /\ NewRow \in Row
    /\ None \notin Row
    /\ Idle \in Task
    /\ Idle.phase = "idle"
    /\ WellFormed(Idle)
    /\ 0 \in Generations
<1>1. 0 \in Runs /\ 0 \in Generations
    BY InvocationAssumption DEF Runs, Generations
<1>2. NewRow \in Row
    BY <1>1 DEF NewRow, Row
<1>3. Idle \in Task /\ Idle.phase = "idle"
    BY <1>1 DEF Idle, Task, Phases
<1>4. WellFormed(Idle)
    BY DEF WellFormed, Idle, Active
<1>5. None \notin Row
    BY InvocationAssumption
<1> QED
    BY <1>1, <1>2, <1>3, <1>4, <1>5

\* The initial state satisfies the inductive invariant.
LEMMA InitIInv == Init => IInv
<1> SUFFICES ASSUME Init PROVE IInv
    OBVIOUS
<1>0. 0 \in Runs
    BY InvocationAssumption DEF Runs
<1>1. TypeOK
    BY <1>0, Values DEF Init, TypeOK
<1>2. ASSUME NEW w \in Workers PROVE TaskOK(w) /\ RequestOK(w) /\ LockOK(w)
    BY Values DEF Init, TaskOK, RequestOK, LockOK, WellFormed, Active, Idle
<1> QED
    BY <1>1, <1>2 DEF Init, IInv

\* A step that changes one task and no invocation keeps the invariant, if the
\* task stays in its transaction, or enters none.
LEMMA TaskChange ==
    ASSUME IInv, NEW w \in Workers, NEW j \in Task,
           task' = [task EXCEPT ![w] = j],
           UNCHANGED <<invocation, runs>>,
           queue' \in SUBSET Invocations,
           stored' \in Generations, live' \in Generations, lapsed' \in BOOLEAN,
           WellFormed(j),
           j.phase = "performed" =>
               j.row = [status |-> "SUCCESS", result |-> runs[j.inv]],
           (j.phase # "idle" /\ ~j.celery) =>
               /\ task[w].phase # "idle"
               /\ ~task[w].celery
               /\ j.inv = task[w].inv,
           (j.phase \in Active /\ j.celery) =>
               /\ task[w].phase \in Active
               /\ task[w].celery
               /\ j.inv = task[w].inv
    PROVE  IInv'
<1>1. TypeOK'
    BY DEF IInv, TypeOK
<1>2. /\ task'[w] = j
      /\ \A v \in Workers : v # w => task'[v] = task[v]
    BY DEF IInv, TypeOK
<1>3. ASSUME NEW v \in Workers PROVE TaskOK(v)'
    BY <1>2, <1>3 DEF IInv, TaskOK, WellFormed
<1>4. ASSUME NEW v \in Workers PROVE RequestOK(v)'
    BY <1>2, <1>4 DEF IInv, RequestOK
<1>5. ASSUME NEW v \in Workers PROVE LockOK(v)'
    BY <1>2, <1>5 DEF IInv, LockOK
<1> QED
    BY <1>1, <1>3, <1>4, <1>5 DEF IInv

\* The step of an idle process that takes up an invocation, or of one that ends.
LEMMA EnterIInv ==
    ASSUME IInv, NEW w \in Workers, NEW i \in Invocations
    PROVE  /\ CreateImmediate(w, i) => IInv'
           /\ CreateEventual(w, i) => IInv'
           /\ Deliver(w, i) => IInv'
<1>t. TypeOK
    BY DEF IInv
<1>1. ASSUME NEW ph \in {"performing", "created"}, Create(w, i, ph) PROVE IInv'
    <2> DEFINE j == [Idle EXCEPT !.phase = ph, !.inv = i, !.row = NewRow,
                                 !.access = stored]
    <2>1. /\ j \in Task
          /\ j.phase = ph /\ j.inv = i /\ j.row = NewRow /\ ~j.celery
          /\ WellFormed(j)
        BY <1>t, Values DEF Idle, Task, Phases, WellFormed, Active, TypeOK
    <2>2. task' = [task EXCEPT ![w] = j]
        BY <1>1 DEF Create
    <2> HIDE DEF j
    <2>3. TypeOK'
        BY <1>t, <1>1, <2>1, <2>2 DEF Create, TypeOK
    <2>4. /\ task'[w] = j
          /\ \A v \in Workers : v # w => task'[v] = task[v]
        BY <1>t, <2>2 DEF TypeOK
    <2>5. ASSUME NEW v \in Workers PROVE TaskOK(v)'
        BY <1>1, <2>1, <2>4 DEF Create, IInv, TaskOK, WellFormed
    <2>6. ASSUME NEW v \in Workers PROVE RequestOK(v)'
        BY <1>1, <2>1, <2>4 DEF Create, IInv, RequestOK
    <2>7. ASSUME NEW v \in Workers PROVE LockOK(v)'
        <3>1. ~task'[w].celery
            BY <2>1, <2>4
        <3>2. CASE v = w
            BY <3>1, <3>2 DEF LockOK
        <3>3. CASE v # w
            BY <1>1, <2>4, <3>1, <3>3 DEF Create, IInv, LockOK
        <3> QED BY <3>2, <3>3
    <2> QED
        BY <1>1, <2>3, <2>5, <2>6, <2>7 DEF Create, IInv
<1>2. CASE Deliver(w, i)
    <2> DEFINE j == [Idle EXCEPT !.phase = "delivered", !.inv = i, !.celery = TRUE]
    <2>1. /\ j \in Task
          /\ j.phase = "delivered" /\ j.inv = i /\ j.celery
          /\ WellFormed(j)
        BY Values DEF Idle, Task, Phases, WellFormed, Active
    <2>2. task' = [task EXCEPT ![w] = j]
        BY <1>2 DEF Deliver
    <2> HIDE DEF j
    <2> QED
        BY <1>t, <1>2, <2>1, <2>2, TaskChange DEF Deliver, Active, TypeOK
<1> QED
    BY <1>1, <1>2 DEF CreateImmediate, CreateEventual

LEMMA LeaveIInv ==
    ASSUME IInv, NEW w \in Workers,
           InvocationMissing(w) \/ Acknowledge(w) \/ Fail(w) \/ Crash(w)
    PROVE  IInv'
<1>t. TypeOK
    BY DEF IInv
<1>1. /\ task' = [task EXCEPT ![w] = Idle]
      /\ UNCHANGED <<invocation, runs, stored, live, lapsed>>
    BY DEF InvocationMissing, Acknowledge, Fail, Crash
<1>2. queue' \in SUBSET Invocations
    <2>1. CASE Crash(w)
        <3>1. task[w].phase # "idle"
            BY <2>1 DEF Crash, IInv, TaskOK
        <3> QED
            BY <1>t, <2>1, <3>1 DEF Crash, IInv, TaskOK, TypeOK
    <2>2. CASE ~Crash(w)
        BY <1>t, <2>2 DEF InvocationMissing, Acknowledge, Fail, TypeOK
    <2> QED BY <2>1, <2>2
<1> QED
    BY <1>t, <1>1, <1>2, Values, TaskChange DEF Active, TypeOK

\* The steps within a transaction that write no row.
LEMMA WorkIInv ==
    ASSUME IInv, NEW w \in Workers,
           \/ Enqueue(w) \/ Redeliver(w)
           \/ Unauthorized(w) \/ Exchange(w) \/ SaveFreshToken(w)
    PROVE  IInv'
<1>t. TypeOK
    BY DEF IInv
<1>w. WellFormed(task[w]) /\ task[w] \in Task
    BY <1>t, TaskFields DEF IInv, TaskOK, WellFormed
<1>1. CASE Enqueue(w)
    <2> DEFINE j == [task[w] EXCEPT !.phase = "enqueued"]
    <2>1. /\ j \in Task
          /\ j.phase = "enqueued" /\ j.inv = task[w].inv /\ ~j.celery
          /\ WellFormed(j)
        BY <1>w, <1>1 DEF Enqueue, Task, Phases, WellFormed, Active
    <2>2. task' = [task EXCEPT ![w] = j]
        BY <1>1 DEF Enqueue
    <2> HIDE DEF j
    <2>3. queue' \in SUBSET Invocations
        BY <1>t, <1>w, <1>1 DEF Enqueue, TypeOK, WellFormed
    <2> QED
        BY <1>t, <1>w, <1>1, <2>1, <2>2, <2>3, TaskChange
           DEF Enqueue, Active, TypeOK, WellFormed
<1>2. CASE Redeliver(w)
    <2> DEFINE j == [task[w] EXCEPT !.redelivered = TRUE]
    <2>0. task[w].phase # "idle"
        BY <1>w, <1>2 DEF Redeliver, WellFormed, Idle
    <2>1. /\ j \in Task
          /\ j.phase = task[w].phase /\ j.inv = task[w].inv /\ j.row = task[w].row
          /\ j.celery = task[w].celery
        BY <1>w DEF Task
    <2>2. j.celery /\ WellFormed(j)
        BY <1>w, <1>2, <2>0, <2>1 DEF Redeliver, WellFormed
    <2>3. task' = [task EXCEPT ![w] = j]
        BY <1>2 DEF Redeliver
    <2> HIDE DEF j
    <2>4. queue' \in SUBSET Invocations
        BY <1>t, <1>w, <1>2, <2>0 DEF Redeliver, TypeOK, WellFormed
    <2>5. j.phase = "performed" =>
            j.row = [status |-> "SUCCESS", result |-> runs[j.inv]]
        BY <2>1 DEF IInv, TaskOK
    <2> QED
        BY <1>t, <1>2, <2>1, <2>2, <2>3, <2>4, <2>5, TaskChange
           DEF Redeliver, TypeOK
<1>3. ASSUME NEW j \in Task,
             task' = [task EXCEPT ![w] = j],
             UNCHANGED <<invocation, runs, queue>>,
             stored' \in Generations, live' \in Generations, lapsed' \in BOOLEAN,
             task[w].phase \in Active,
             j.phase \in Active \ {"performed"},
             j.inv = task[w].inv, j.row = task[w].row, j.celery = task[w].celery
      PROVE  IInv'
    <2>1. WellFormed(j)
        BY <1>w, <1>3 DEF WellFormed, Active
    <2>2. queue' \in SUBSET Invocations
        BY <1>t, <1>3 DEF TypeOK
    <2>3. task[w].phase # "idle"
        BY <1>3 DEF Active
    <2> QED
        BY <1>3, <2>1, <2>2, <2>3, TaskChange
<1>4. CASE Unauthorized(w)
    <2> DEFINE j == [task[w] EXCEPT !.phase = "unauthorized"]
    <2>1. /\ j \in Task /\ j.phase = "unauthorized"
          /\ j.inv = task[w].inv /\ j.row = task[w].row /\ j.celery = task[w].celery
        BY <1>w DEF Task, Phases
    <2>2. task' = [task EXCEPT ![w] = j]
        BY <1>4 DEF Unauthorized
    <2> HIDE DEF j
    <2> QED
        BY <1>t, <1>3, <1>4, <2>1, <2>2 DEF Unauthorized, Active, TypeOK
<1>5. CASE Exchange(w)
    <2> DEFINE j == [task[w] EXCEPT !.phase = "exchanged", !.access = live + 1]
    <2>1. live + 1 \in Generations
        BY <1>t, <1>5, InvocationAssumption DEF Exchange, TypeOK, Generations
    <2>2. /\ j \in Task /\ j.phase = "exchanged"
          /\ j.inv = task[w].inv /\ j.row = task[w].row /\ j.celery = task[w].celery
        BY <1>w, <2>1 DEF Task, Phases
    <2>3. task' = [task EXCEPT ![w] = j]
        BY <1>5 DEF Exchange
    <2> HIDE DEF j
    <2> QED
        BY <1>t, <1>3, <1>5, <2>1, <2>2, <2>3 DEF Exchange, Active, TypeOK
<1>6. CASE SaveFreshToken(w)
    <2> DEFINE j == [task[w] EXCEPT !.phase = "performing",
                                    !.fresh = task[w].access, !.again = TRUE]
    <2>1. /\ j \in Task /\ j.phase = "performing"
          /\ j.inv = task[w].inv /\ j.row = task[w].row /\ j.celery = task[w].celery
        BY <1>w DEF Task, Phases
    <2>2. task' = [task EXCEPT ![w] = j]
        BY <1>6 DEF SaveFreshToken
    <2> HIDE DEF j
    <2> QED
        BY <1>t, <1>3, <1>6, <2>1, <2>2 DEF SaveFreshToken, Active, TypeOK
<1> QED
    BY <1>1, <1>2, <1>4, <1>5, <1>6

\* dibs: no other task performs the invocation.
LEMMA DibsIInv ==
    ASSUME IInv, NEW w \in Workers, Dibs(w) PROVE IInv'
<1>t. TypeOK
    BY DEF IInv
<1>i. task[w].inv \in Invocations /\ task[w].celery
    BY DEF IInv, TaskOK, Dibs
<1> DEFINE j == [task[w] EXCEPT !.phase = "performing", !.access = stored,
                                !.row = invocation[task[w].inv]]
<1>1. /\ j \in Task /\ j.phase = "performing"
      /\ j.inv = task[w].inv /\ j.row # None /\ j.celery
    BY <1>t, <1>i, TaskFields DEF Dibs, TypeOK, Task, Phases
<1>2. task' = [task EXCEPT ![w] = j]
    BY DEF Dibs
<1> HIDE DEF j
<1>3. /\ task'[w] = j
      /\ \A v \in Workers : v # w => task'[v] = task[v]
    BY <1>t, <1>2 DEF TypeOK
<1>4. TypeOK'
    BY <1>t, <1>1, <1>2 DEF Dibs, TypeOK
<1>5. ASSUME NEW v \in Workers PROVE TaskOK(v)'
    BY <1>i, <1>1, <1>3 DEF Dibs, IInv, TaskOK, Active
<1>6. ASSUME NEW v \in Workers PROVE RequestOK(v)'
    BY <1>1, <1>3 DEF Dibs, IInv, RequestOK
<1>7. ASSUME NEW v \in Workers PROVE LockOK(v)'
    <2>1. \A u \in Workers : u # w =>
            ~(task[u].celery /\ task[u].inv = j.inv /\ task[u].phase \in Active)
        BY <1>1 DEF Dibs, Locked
    <2>2. CASE v = w
        BY <1>1, <1>3, <2>1, <2>2 DEF Dibs, LockOK
    <2>3. CASE v # w
        BY <1>1, <1>3, <2>1, <2>3 DEF Dibs, IInv, LockOK
    <2> QED BY <2>2, <2>3
<1> QED
    BY <1>4, <1>5, <1>6, <1>7 DEF Dibs, IInv

\* At most one transaction performs an invocation: a task by the lock, a request
\* because the invocation is new.
LEMMA OnePerformer ==
    ASSUME IInv, NEW w \in Workers, task[w].phase \in Active,
           NEW v \in Workers, task[v].phase \in Active,
           task[v].inv = task[w].inv
    PROVE  v = w
<1>1. task[w].phase # "idle" /\ task[v].phase # "idle"
    BY DEF Active
<1>2. CASE task[w].celery /\ task[v].celery
    BY <1>2 DEF IInv, LockOK
<1>3. CASE ~task[w].celery /\ ~task[v].celery
    BY <1>1, <1>3 DEF IInv, RequestOK
<1>4. CASE task[w].celery /\ ~task[v].celery
    BY <1>1, <1>4 DEF IInv, LockOK, RequestOK
<1>5. CASE ~task[w].celery /\ task[v].celery
    BY <1>1, <1>5 DEF IInv, LockOK, RequestOK
<1> QED BY <1>2, <1>3, <1>4, <1>5

\* An execution is newer than every result committed before.
LEMMA ExecuteIInv ==
    ASSUME IInv, NEW w \in Workers, Execute(w) PROVE IInv'
<1>t. TypeOK
    BY DEF IInv
<1>i. task[w].inv \in Invocations /\ task[w].phase \in Active
    BY DEF IInv, TaskOK, Execute, Active
<1> DEFINE n == runs[task[w].inv] + 1
           j == [task[w] EXCEPT !.phase = "performed",
                    !.row = [status |-> "SUCCESS", result |-> n]]
<1>n. n \in Runs /\ n = runs[task[w].inv] + 1 /\ runs[task[w].inv] \in Runs
    BY <1>t, <1>i, InvocationAssumption DEF Execute, TypeOK, Runs
<1>r. [status |-> "SUCCESS", result |-> n] \in Row
    BY <1>n DEF Row
<1>1. /\ j \in Task /\ j.phase = "performed"
      /\ j.inv = task[w].inv /\ j.celery = task[w].celery
      /\ j.row = [status |-> "SUCCESS", result |-> n] /\ j.row # None
    BY <1>t, <1>r, TaskFields, Values DEF Task, Phases
<1>2. /\ task' = [task EXCEPT ![w] = j]
      /\ runs' = [runs EXCEPT ![task[w].inv] = n]
    BY DEF Execute
<1> HIDE DEF j, n
<1>3. /\ task'[w] = j
      /\ \A v \in Workers : v # w => task'[v] = task[v]
      /\ runs'[task[w].inv] = n
      /\ \A i \in Invocations : i # task[w].inv => runs'[i] = runs[i]
    BY <1>t, <1>i, <1>2 DEF TypeOK
<1>4. TypeOK'
    BY <1>t, <1>n, <1>1, <1>2 DEF Execute, TypeOK
<1>5. ASSUME NEW v \in Workers PROVE TaskOK(v)'
    <2>1. CASE v = w
        BY <1>i, <1>1, <1>3, <2>1 DEF IInv, TaskOK
    <2>2. CASE v # w
        <3>1. CASE task[v].phase = "performed"
            <4>1. /\ task[v].inv \in Invocations
                  /\ task[v].inv # task[w].inv
                BY <1>i, <2>2, <3>1, OnePerformer DEF Active, IInv, TaskOK
            <4>2. runs'[task[v].inv] = runs[task[v].inv]
                BY <1>3, <4>1
            <4> QED
                BY <1>3, <2>2, <3>1, <4>2 DEF IInv, TaskOK
        <3>2. CASE task[v].phase # "performed"
            BY <1>3, <2>2, <3>2 DEF IInv, TaskOK
        <3> QED BY <3>1, <3>2
    <2> QED BY <2>1, <2>2
<1>6. ASSUME NEW v \in Workers PROVE RequestOK(v)'
    BY <1>i, <1>1, <1>3 DEF Execute, IInv, RequestOK, Active
<1>7. ASSUME NEW v \in Workers PROVE LockOK(v)'
    BY <1>i, <1>1, <1>3 DEF Execute, IInv, LockOK
<1>8. ASSUME NEW i \in Invocations, invocation'[i] # None
      PROVE  invocation'[i].result <= runs'[i]
    <2>1. /\ invocation'[i] = invocation[i]
          /\ invocation[i].result <= runs[i]
        BY <1>8 DEF Execute, IInv
    <2>2. invocation[i].result \in Runs /\ runs[i] \in Runs
        BY <1>t, <1>8, <2>1 DEF TypeOK, Row
    <2> QED
        BY <1>n, <1>3, <2>1, <2>2, InvocationAssumption DEF Runs
<1> QED
    BY <1>4, <1>5, <1>6, <1>7, <1>8 DEF IInv

\* What a commit writes: a new row, or the latest result of the operation.
LEMMA CommittedRow ==
    ASSUME IInv, NEW w \in Workers, Commit(w)
    PROVE  /\ task[w].inv \in Invocations
           /\ task[w].row \in Row
           /\ task[w].row.result <= runs[task[w].inv]
           /\ task[w].phase = "performed" =>
                /\ task[w].row.status = "SUCCESS"
                /\ task[w].row.result = runs[task[w].inv]
           /\ task[w].phase # "performed" => invocation[task[w].inv] = None
<1>t. TypeOK
    BY DEF IInv
<1>1. /\ task[w].phase \in {"performed", "enqueued"}
      /\ task[w].inv \in Invocations
      /\ runs[task[w].inv] \in Runs
    BY <1>t DEF Commit, IInv, TaskOK, TypeOK
<1>2. CASE task[w].phase = "performed"
    <2>1. task[w].row = [status |-> "SUCCESS", result |-> runs[task[w].inv]]
        BY <1>2 DEF IInv, TaskOK
    <2> QED
        BY <1>1, <1>2, <2>1, InvocationAssumption DEF Row, Runs
<1>3. CASE task[w].phase = "enqueued"
    <2>1. task[w].row = NewRow /\ invocation[task[w].inv] = None
        BY <1>3 DEF IInv, TaskOK, RequestOK
    <2> QED
        BY <1>1, <1>3, <2>1, Values, InvocationAssumption DEF NewRow, Runs
<1> QED BY <1>1, <1>2, <1>3

LEMMA CommitIInv ==
    ASSUME IInv, NEW w \in Workers, Commit(w) PROVE IInv'
<1>t. TypeOK
    BY DEF IInv
<1>i. task[w].phase \in {"performed", "enqueued"} /\ task[w].phase # "idle"
    BY DEF Commit
<1>1. PICK j \in Task :
        /\ task' = [task EXCEPT ![w] = j]
        /\ j.phase \in {"acking", "idle"}
        /\ WellFormed(j)
        /\ j.phase = "acking" => j.celery
    <2> DEFINE k == [Idle EXCEPT !.phase = "acking", !.inv = task[w].inv,
                        !.celery = TRUE, !.redelivered = task[w].redelivered]
    <2>1. /\ k \in Task /\ k.phase = "acking" /\ k.celery
          /\ k.inv = task[w].inv
        BY <1>t, TaskFields, CommittedRow, Values DEF Idle, Task, Phases
    <2>2. WellFormed(k)
        BY <2>1, CommittedRow DEF WellFormed, Active
    <2>3. task' = [task EXCEPT ![w] = IF task[w].celery THEN k ELSE Idle]
        BY DEF Commit
    <2> HIDE DEF k
    <2>4. CASE task[w].celery
        BY <2>1, <2>2, <2>3, <2>4
    <2>5. CASE ~task[w].celery
        BY <2>3, <2>5, Values
    <2> QED BY <2>4, <2>5
<1>2. /\ task'[w] = j
      /\ \A v \in Workers : v # w => task'[v] = task[v]
    BY <1>t, <1>1 DEF TypeOK
<1>3. /\ invocation'[task[w].inv] = task[w].row
      /\ task[w].row # None
      /\ \A i \in Invocations : i # task[w].inv => invocation'[i] = invocation[i]
    BY <1>t, CommittedRow, Values DEF Commit, TypeOK
<1>4. TypeOK'
    <2>1. invocation' \in [Invocations -> Row \cup {None}]
        BY <1>t, CommittedRow DEF Commit, TypeOK
    <2>2. stored' \in Generations
        BY <1>t, TaskFields DEF Commit, TypeOK
    <2> QED
        BY <1>t, <1>1, <2>1, <2>2 DEF Commit, TypeOK
<1>5. ASSUME NEW v \in Workers PROVE TaskOK(v)'
    BY <1>1, <1>2 DEF Commit, IInv, TaskOK, WellFormed, Active
<1>6. ASSUME NEW v \in Workers PROVE RequestOK(v)'
    <2>1. CASE v = w
        BY <1>1, <1>2, <2>1 DEF RequestOK
    <2>2. ASSUME v # w, task[v].phase # "idle", ~task[v].celery
          PROVE  RequestOK(v)'
        <3>1. task[v].inv \in Invocations /\ invocation[task[v].inv] = None
            BY <2>2 DEF IInv, TaskOK, RequestOK
        <3>2. task[v].inv # task[w].inv
            <4>1. CASE task[w].celery
                <5>1. task[w].phase = "performed"
                    BY <1>i, <4>1 DEF IInv, TaskOK
                <5> QED
                    BY <3>1, <4>1, <5>1 DEF IInv, LockOK, Active
            <4>2. CASE ~task[w].celery
                BY <1>i, <2>2, <4>2 DEF IInv, RequestOK
            <4> QED BY <4>1, <4>2
        <3> QED
            BY <1>1, <1>2, <1>3, <2>2, <3>1, <3>2 DEF IInv, RequestOK
    <2>3. CASE v # w /\ ~(task[v].phase # "idle" /\ ~task[v].celery)
        BY <1>2, <2>3 DEF RequestOK
    <2> QED BY <2>1, <2>2, <2>3
<1>7. ASSUME NEW v \in Workers PROVE LockOK(v)'
    <2>1. ASSUME v # w, task[v].phase \in Active, task[v].celery
          PROVE  LockOK(v)'
        <3>1. task[v].inv \in Invocations /\ invocation[task[v].inv] # None
            BY <2>1 DEF IInv, TaskOK, LockOK, Active
        <3>2. invocation'[task[v].inv] # None
            BY <1>3, <3>1
        <3> QED
            BY <1>1, <1>2, <2>1, <3>2 DEF IInv, LockOK, Active
    <2>2. CASE v = w
        BY <1>1, <1>2, <2>2 DEF LockOK, Active
    <2>3. CASE v # w /\ ~(task[v].phase \in Active /\ task[v].celery)
        BY <1>2, <2>3 DEF LockOK
    <2> QED BY <2>1, <2>2, <2>3
<1>8. ASSUME NEW i \in Invocations, invocation'[i] # None
      PROVE  invocation'[i].result <= runs'[i]
    BY <1>3, <1>8, CommittedRow DEF Commit, IInv
<1> QED
    BY <1>4, <1>5, <1>6, <1>7, <1>8 DEF IInv

LEMMA NextIInv == IInv /\ [Next]_vars => IInv'
<1> SUFFICES ASSUME IInv, [Next]_vars PROVE IInv'
    OBVIOUS
<1>1. CASE UNCHANGED vars
    BY <1>1 DEF vars, IInv, TypeOK, TaskOK, RequestOK, LockOK
<1>2. CASE Lapse
    BY <1>2 DEF Lapse, IInv, TypeOK, TaskOK, RequestOK, LockOK
<1>3. ASSUME NEW w \in Workers, NEW i \in Invocations,
             CreateImmediate(w, i) \/ CreateEventual(w, i) \/ Deliver(w, i)
      PROVE  IInv'
    BY <1>3, EnterIInv
<1>4. ASSUME NEW w \in Workers,
             \/ Enqueue(w) \/ Redeliver(w)
             \/ Unauthorized(w) \/ Exchange(w) \/ SaveFreshToken(w)
      PROVE  IInv'
    BY <1>4, WorkIInv
<1>5. ASSUME NEW w \in Workers,
             InvocationMissing(w) \/ Acknowledge(w) \/ Fail(w) \/ Crash(w)
      PROVE  IInv'
    BY <1>5, LeaveIInv
<1>6. ASSUME NEW w \in Workers, Dibs(w) \/ Execute(w) \/ Commit(w) PROVE IInv'
    BY <1>6, DibsIInv, ExecuteIInv, CommitIInv
<1> QED
    BY <1>1, <1>2, <1>3, <1>4, <1>5, <1>6 DEF Next

LEMMA InvocationInvariant == Spec => []IInv
BY InitIInv, NextIInv, PTL DEF Spec

\* Committed invocations change in Commit only.
LEMMA OnlyCommitWrites ==
    ASSUME [Next]_vars, invocation' # invocation
    PROVE  \E w \in Workers : Commit(w)
BY DEF Next, vars, Lapse, CreateImmediate, CreateEventual, Create, Deliver,
       Enqueue, InvocationMissing, Dibs, Redeliver, Acknowledge, Execute,
       Unauthorized, Exchange, SaveFreshToken, Fail, Crash

\* A commit replaces a row by a new row or by a successful, newer one.
LEMMA CommitOfInvocation ==
    ASSUME IInv, [Next]_vars, NEW i \in Invocations, invocation[i] # None,
           invocation'[i] # invocation[i]
    PROVE  /\ invocation'[i] \in Row
           /\ invocation'[i].status = "SUCCESS"
           /\ invocation'[i].result >= invocation[i].result
<1>t. TypeOK
    BY DEF IInv
<1>1. PICK w \in Workers : Commit(w)
    BY OnlyCommitWrites
<1>2. i = task[w].inv /\ invocation'[i] = task[w].row
    BY <1>t, <1>1, CommittedRow DEF Commit, TypeOK
<1>3. task[w].phase = "performed"
    BY <1>1, <1>2, CommittedRow
<1>4. /\ task[w].row \in Row /\ task[w].row.status = "SUCCESS"
      /\ task[w].row.result = runs[i] /\ invocation[i].result <= runs[i]
    BY <1>1, <1>2, <1>3, CommittedRow DEF IInv
<1>5. runs[i] \in Runs /\ invocation[i].result \in Runs
    BY <1>t DEF TypeOK, Row
<1> QED
    BY <1>2, <1>4, <1>5, InvocationAssumption DEF Runs

\* The rows, messages, tokens and tasks of tasks/invocation.py keep their types.
THEOREM InvocationTypeCorrect == Spec => []TypeOK
<1>1. IInv => TypeOK
    BY DEF IInv
<1> QED
    BY <1>1, InvocationInvariant, PTL

\* However often an invocation is delivered, performed, crashed or failed, its
\* saved result is never replaced by that of an older execution.
THEOREM ResultsNeverRevert == Spec => ResultNeverReverts
<1> DEFINE P(i) == invocation[i] # None =>
        /\ invocation'[i] # None
        /\ invocation'[i].result >= invocation[i].result
<1>1. IInv /\ [Next]_vars => [\A i \in Invocations : P(i)]_vars
    <2> SUFFICES ASSUME IInv, [Next]_vars, NEW i \in Invocations,
                        invocation[i] # None
                 PROVE  P(i)
        OBVIOUS
    <2>1. CASE invocation'[i] = invocation[i]
        <3>1. invocation[i].result \in Nat
            BY InvocationAssumption DEF IInv, TypeOK, Row, Runs
        <3> QED
            BY <2>1, <3>1
    <2>2. CASE invocation'[i] # invocation[i]
        BY <2>2, CommitOfInvocation, Values
    <2> QED BY <2>1, <2>2
<1> QED
    BY <1>1, InvocationInvariant, PTL DEF Spec, ResultNeverReverts

\* An invocation that succeeded never loses its status, though nothing in
\* perform_invocation__blocking looks at the status before performing it.
THEOREM SuccessesAreFinal == Spec => SuccessIsFinal
<1>1. IInv /\ [Next]_vars => [\A i \in Invocations :
        (invocation[i] # None /\ invocation[i].status = "SUCCESS")
            => invocation'[i].status = "SUCCESS"]_vars
    BY CommitOfInvocation
<1> QED
    BY <1>1, InvocationInvariant, PTL DEF Spec, SuccessIsFinal
=============================================================================
