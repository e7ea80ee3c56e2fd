----------------------------- MODULE Invocation -----------------------------
(***************************************************************************)
(* Addon operation invocations: the request that creates one, the celery   *)
(* task that performs an EVENTUAL one, the row lock (common/dibs.py) and   *)
(* the nested transactions of tasks/invocation.py, and the refresh of an   *)
(* OAuth2 token on a 401 response inside of them (common/network.py).      *)
(*                                                                         *)
(* All invocations go through one account.  Its tokens are numbered: the   *)
(* service replaces both the access and the refresh token at each refresh. *)
(* A request or task works in one database transaction; what it wrote is   *)
(* kept in `task` until it commits.                                        *)
(***************************************************************************)
EXTENDS Naturals

CONSTANTS
    Invocations,    \* primary keys of AddonOperationInvocation rows
    Workers,        \* web and celery processes
    MaxRuns,        \* bound: executions of one operation at the service
    MaxTokens,      \* bound: tokens issued by the service
    None            \* no row; nothing written

Runs == 0..MaxRuns
Generations == 0..MaxTokens

\* result: which execution's result is saved, 0 for none
Row == [status: {"STARTING", "SUCCESS", "ERROR"}, result: Runs]

ASSUME InvocationAssumption ==
    /\ None \notin Invocations \cup Nat \cup Row
    /\ MaxRuns \in Nat
    /\ MaxTokens \in Nat

VARIABLES
    invocation, \* committed rows
    queue,      \* messages of perform_invocation__celery, not yet delivered
    runs,       \* service: how often it executed each operation
    stored,     \* committed token of the account
    live,       \* service: the token it honours for refreshing
    lapsed,     \* service: the live access token has expired
    task        \* request or task in progress in each process

vars == <<invocation, queue, runs, stored, live, lapsed, task>>

Phases == {"idle",
           "created", "enqueued",                         \* EVENTUAL request
           "delivered",                                   \* celery task
           "performing", "unauthorized", "exchanged", "performed",
           "acking"}                                      \* celery task
Task == [phase: Phases, inv: Invocations \cup {None}, celery: BOOLEAN,
         row: Row \cup {None},                    \* the invocation, unsaved
         access: Generations,                     \* the account's credentials
         fresh: Generations \cup {None},          \* token to be committed
         again: BOOLEAN,                          \* sends after a refresh
         redelivered: BOOLEAN]                    \* the broker gave up on it

NewRow == [status |-> "STARTING", result |-> 0]
Idle == [phase |-> "idle", inv |-> None, celery |-> FALSE, row |-> None,
         access |-> 0, fresh |-> None, again |-> FALSE, redelivered |-> FALSE]

\* inside perform_invocation__blocking
Active == {"performing", "unauthorized", "exchanged", "performed"}

\* the row lock of dibs, held until the transaction ends
Locked(i) == \E w \in Workers :
    task[w].celery /\ task[w].inv = i /\ task[w].phase \in Active

Init ==
    /\ invocation = [i \in Invocations |-> None]
    /\ queue = {}
    /\ runs = [i \in Invocations |-> 0]
    /\ stored = 0
    /\ live = 0
    /\ lapsed = FALSE
    /\ task = [w \in Workers |-> Idle]

-----------------------------------------------------------------------------
(* The request, one transaction. *)

Create(w, i, phase) ==
    /\ task[w] = Idle
    /\ invocation[i] = None
    /\ i \notin queue
    /\ \A v \in Workers : task[v].inv # i
    /\ task' = [task EXCEPT ![w] =
            [Idle EXCEPT !.phase = phase, !.inv = i, !.row = NewRow,
                         !.access = stored]]
    /\ UNCHANGED <<invocation, queue, runs, stored, live, lapsed>>

\* perform_create of an IMMEDIATE or REDIRECT operation: performed at once
CreateImmediate(w, i) == Create(w, i, "performing")

\* perform_create of an EVENTUAL operation ...
CreateEventual(w, i) == Create(w, i, "created")

\* ... sends the task before the transaction of the request commits
Enqueue(w) ==
    /\ task[w].phase = "created"
    /\ queue' = queue \cup {task[w].inv}
    /\ task' = [task EXCEPT ![w].phase = "enqueued"]
    /\ UNCHANGED <<invocation, runs, stored, live, lapsed>>

-----------------------------------------------------------------------------
(* The celery task. *)

Deliver(w, i) ==
    /\ task[w] = Idle
    /\ i \in queue
    /\ queue' = queue \ {i}
    /\ task' = [task EXCEPT ![w] =
            [Idle EXCEPT !.phase = "delivered", !.inv = i, !.celery = TRUE]]
    /\ UNCHANGED <<invocation, runs, stored, live, lapsed>>

\* AddonOperationInvocation.DoesNotExist: the task ends and is acknowledged
InvocationMissing(w) ==
    /\ task[w].phase = "delivered"
    /\ invocation[task[w].inv] = None
    /\ task' = [task EXCEPT ![w] = Idle]
    /\ UNCHANGED <<invocation, queue, runs, stored, live, lapsed>>

\* mutant: dibs does not wait for the row lock
DibsWithoutLock(w) ==
    /\ task[w].phase = "delivered"
    /\ invocation[task[w].inv] # None
    /\ task' = [task EXCEPT ![w] =
            [@ EXCEPT !.phase = "performing", !.access = stored,
                      !.row = invocation[task[w].inv]]]
    /\ UNCHANGED <<invocation, queue, runs, stored, live, lapsed>>

\* dibs(invocation): waits for the row lock, then reads the row; whatever its
\* status, the operation is performed
Dibs(w) ==
    /\ task[w].phase = "delivered"
    /\ invocation[task[w].inv] # None
    /\ ~Locked(task[w].inv)
    /\ task' = [task EXCEPT ![w] =
            [@ EXCEPT !.phase = "performing", !.access = stored,
                      !.row = invocation[task[w].inv]]]
    /\ UNCHANGED <<invocation, queue, runs, stored, live, lapsed>>

\* the connection to the broker is lost: the task goes on, and its message is
\* delivered again
Redeliver(w) ==
    /\ task[w].celery
    /\ ~task[w].redelivered
    /\ queue' = queue \cup {task[w].inv}
    /\ task' = [task EXCEPT ![w].redelivered = TRUE]
    /\ UNCHANGED <<invocation, runs, stored, live, lapsed>>

Acknowledge(w) ==
    /\ task[w].phase = "acking"
    /\ task' = [task EXCEPT ![w] = Idle]
    /\ UNCHANGED <<invocation, queue, runs, stored, live, lapsed>>

-----------------------------------------------------------------------------
(* perform_invocation__blocking. *)

\* the service accepts the access token and executes the operation
Execute(w) ==
    /\ task[w].phase = "performing"
    /\ task[w].access = live
    /\ ~lapsed
    /\ runs[task[w].inv] < MaxRuns
    /\ runs' = [runs EXCEPT ![task[w].inv] = @ + 1]
    /\ task' = [task EXCEPT ![w] =
            [@ EXCEPT !.phase = "performed",
                      !.row = [status |-> "SUCCESS",
                               result |-> runs[task[w].inv] + 1]]]
    /\ UNCHANGED <<invocation, queue, stored, live, lapsed>>

\* a 401 response raises ExpiredAccessToken, the first time
Unauthorized(w) ==
    /\ task[w].phase = "performing"
    /\ task[w].access # live \/ lapsed
    /\ ~task[w].again
    /\ task' = [task EXCEPT ![w].phase = "unauthorized"]
    /\ UNCHANGED <<invocation, queue, runs, stored, live, lapsed>>

\* refresh_oauth2_access_token(force=True): the token request
Exchange(w) ==
    /\ task[w].phase = "unauthorized"
    /\ stored = live
    /\ live < MaxTokens
    /\ live' = live + 1
    /\ lapsed' = FALSE
    /\ task' = [task EXCEPT ![w] =
            [@ EXCEPT !.phase = "exchanged", !.access = live + 1]]
    /\ UNCHANGED <<invocation, queue, runs, stored>>

\* update_with_fresh_token, inside the transaction of the request or task: the
\* row lock of the metadata is held until that one ends; then the retry
SaveFreshToken(w) ==
    /\ task[w].phase = "exchanged"
    /\ \A v \in Workers : task[v].fresh = None
    /\ task' = [task EXCEPT ![w] =
            [@ EXCEPT !.phase = "performing", !.fresh = task[w].access,
                      !.again = TRUE]]
    /\ UNCHANGED <<invocation, queue, runs, stored, live, lapsed>>

\* mutant: the token is written even if it was not refreshed
CommitEveryToken(w) ==
    /\ task[w].phase \in {"performed", "enqueued"}
    /\ invocation' = [invocation EXCEPT ![task[w].inv] = task[w].row]
    /\ stored' = task[w].fresh
    /\ task' = [task EXCEPT ![w] = Idle]
    /\ UNCHANGED <<queue, runs, live, lapsed>>

\* invocation.save(), and the transaction of the request or of dibs commits
Commit(w) ==
    /\ task[w].phase \in {"performed", "enqueued"}
    /\ invocation' = [invocation EXCEPT ![task[w].inv] = task[w].row]
    /\ stored' = IF task[w].fresh = None THEN stored ELSE task[w].fresh
    /\ task' = [task EXCEPT ![w] =
            IF task[w].celery
            THEN [Idle EXCEPT !.phase = "acking", !.inv = task[w].inv,
                              !.celery = TRUE, !.redelivered = task[w].redelivered]
            ELSE Idle]
    /\ UNCHANGED <<queue, runs, live, lapsed>>

\* mutant: the exception is swallowed, so that the status is saved
FailAndSwallow(w) ==
    /\ task[w].phase \in Active
    /\ invocation' = [invocation EXCEPT ![task[w].inv] =
            [task[w].row EXCEPT !.status = "ERROR"]]
    /\ task' = [task EXCEPT ![w] = Idle]
    /\ UNCHANGED <<queue, runs, stored, live, lapsed>>

\* the operation, a token request or the conversion of the result fails: the
\* inner transaction is rolled back, the status ERROR is saved, and the
\* exception, raised again, rolls back the transaction of the request or of
\* dibs; a celery task is acknowledged
Fail(w) ==
    /\ task[w].phase \in Active
    /\ task' = [task EXCEPT ![w] = Idle]
    /\ UNCHANGED <<invocation, queue, runs, stored, live, lapsed>>

\* the process dies: its transaction is rolled back, its message delivered again
Crash(w) ==
    /\ task[w] # Idle
    /\ queue' = queue \cup
            (IF task[w].celery /\ ~task[w].redelivered THEN {task[w].inv} ELSE {})
    /\ task' = [task EXCEPT ![w] = Idle]
    /\ UNCHANGED <<invocation, runs, stored, live, lapsed>>

\* the service's access token expires
Lapse ==
    /\ ~lapsed
    /\ lapsed' = TRUE
    /\ UNCHANGED <<invocation, queue, runs, stored, live, task>>

-----------------------------------------------------------------------------

Next ==
    \/ Lapse
    \/ \E w \in Workers :
        \/ \E i \in Invocations :
            \/ CreateImmediate(w, i)
            \/ CreateEventual(w, i)
            \/ Deliver(w, i)
        \/ Enqueue(w)
        \/ InvocationMissing(w)
        \/ Dibs(w)
        \/ Redeliver(w)
        \/ Acknowledge(w)
        \/ Execute(w)
        \/ Unauthorized(w)
        \/ Exchange(w)
        \/ SaveFreshToken(w)
        \/ Commit(w)
        \/ Fail(w)
        \/ Crash(w)

Spec == Init /\ [][Next]_vars

-----------------------------------------------------------------------------
(* Properties. *)

\* Type invariant of the rows, messages, tokens and tasks.
TypeOK ==
    /\ invocation \in [Invocations -> Row \cup {None}]
    /\ queue \in SUBSET Invocations
    /\ runs \in [Invocations -> Runs]
    /\ stored \in Generations
    /\ live \in Generations
    /\ lapsed \in BOOLEAN
    /\ task \in [Workers -> Task]

\* The row lock of dibs serializes the executions of an invocation that was
\* delivered more than once: a result is never replaced by an older one.
ResultNeverReverts ==
    [][\A i \in Invocations : invocation[i] # None =>
        /\ invocation'[i] # None
        /\ invocation'[i].result >= invocation[i].result]_vars

\* An invocation that succeeded stays so, though it is performed again when its
\* message is delivered again, and may fail then.
SuccessIsFinal ==
    [][\A i \in Invocations :
        (invocation[i] # None /\ invocation[i].status = "SUCCESS")
            => invocation'[i].status = "SUCCESS"]_vars

\* "so status can be saved in the outer transaction (from dibs)": an invocation
\* that was recorded and fails gets the status ERROR.
ErrorIsSaved ==
    [][\A w \in Workers :
        LET i == task[w].inv IN
        (Fail(w) /\ invocation[i] # None /\ invocation[i].status # "SUCCESS")
            => invocation'[i].status = "ERROR"]_vars

\* "The token used to exchange access tokens": when an operation fails after its
\* token was refreshed, the service still honours the refresh token stored.
FailureKeepsToken ==
    [][\A w \in Workers :
        (Fail(w) /\ task[w].fresh # None) => stored' = live]_vars

-----------------------------------------------------------------------------
(* The inductive invariant behind ResultNeverReverts and SuccessIsFinal.     *)

\* a request's row is not committed and no other request has it
RequestOK(w) ==
    (task[w].phase # "idle" /\ ~task[w].celery) =>
        /\ invocation[task[w].inv] = None
        /\ \A v \in Workers : (task[v].phase # "idle" /\ ~task[v].celery
                                /\ task[v].inv = task[w].inv) => v = w

\* a task holds the lock of a committed row, and is the only one to do so
LockOK(w) ==
    (task[w].phase \in Active /\ task[w].celery) =>
        /\ invocation[task[w].inv] # None
        /\ \A v \in Workers : (task[v].phase \in Active /\ task[v].celery
                                /\ task[v].inv = task[w].inv) => v = w

TaskOK(w) ==
    /\ task[w].phase # "idle" => task[w].inv \in Invocations
    /\ task[w].phase \in {"created", "enqueued"} =>
            ~task[w].celery /\ task[w].row = NewRow
    /\ task[w].phase \in Active => task[w].row # None
    /\ task[w].phase \in {"delivered", "acking"} => task[w].celery
    /\ task[w].phase = "idle" => task[w] = Idle
    /\ task[w].phase = "performed" =>
            task[w].row = [status |-> "SUCCESS", result |-> runs[task[w].inv]]

IInv ==
    /\ TypeOK
    /\ \A w \in Workers : TaskOK(w) /\ RequestOK(w) /\ LockOK(w)
    /\ \A i \in Invocations : invocation[i] # None => invocation[i].result <= runs[i]
=============================================================================
