------------------------------- MODULE Startup -------------------------------
(* Bringing the backends up: the startup coordinator (start_all and its       *)
(* phases), one connect task per backend (start_backend_svr, connect_backend),*)
(* the background OAuth discovery it may start, and Ctrl+C (cancel_startup).  *)
(*                                                                            *)
(* asyncio switches tasks only at an await, so an action is the code between  *)
(* two awaits.  A cancelled task gets its CancelledError at the await it is   *)
(* in, as a step of its own.                                                  *)
EXTENDS Lifecycle, Integers, FiniteSets, FiniteSetsExt

CONSTANTS
    Remote,         \* sse and streamable-http backends
    Stdio,          \* stdio backends
    Retries,        \* per-backend "retries"
    Concurrency     \* ARGUS_STARTUP_CONCURRENCY

Backends == Remote \cup Stdio

ASSUME BackendsAssumption ==
    Remote \cap Stdio = {} /\ IsFiniteSet(Backends)
(* The schema allows 0 to 10 retries. *)
ASSUME RetriesAssumption == Retries \in [Backends -> 0 .. 10]
ASSUME ConcurrencyAssumption == Concurrency \in Nat \ {0}

VARIABLES
    parallel,   \* the "parallel" argument of start_all; it never changes
    pc,         \* where start_all is
    todo,       \* stdio backends build_and_connect_stdio has not reached
    failed,     \* failed_names
    attempt,    \* the retry loop's counter
    limit,      \* max_retries, fixed when the retries begin
    task,       \* where the connect task of each backend is
    result,     \* what it returned
    snap,       \* the shutdown_requested argument of its start_backend_svr
    cancelReq,  \* task.cancel() called, CancelledError not yet delivered
    pending,    \* _pending_tasks
    prebuilt,   \* stdio backends whose config holds _prebuild_params
    phase,      \* status records; a missing record counts as PENDING
    sessions,   \* _sessions
    stacks,     \* _backend_stacks
    auth,       \* _auth_discovery_tasks: "none", "running" or "done"
    shutdown,   \* _shutdown_requested
    attempts,   \* how often start_backend_svr was called for each backend
    late        \* ... and how often after the shutdown request

vars == <<parallel, pc, todo, failed, attempt, limit, task, result, snap,
          cancelReq, pending, prebuilt, phase, sessions, stacks, auth, shutdown,
          attempts, late>>

coordVars == <<parallel, pc, todo, failed, attempt, limit, pending>>
backendVars == <<prebuilt, phase, sessions, stacks>>
countVars == <<attempts, late>>

Locations == {"none", "queued", "gated", "prebuild", "building", "connecting",
              "closing", "initializing", "done"}

(* Inside connect_backend: before the exit stack is ready, closing the stack  *)
(* of the previous attempt, and from opening the transport to the end.        *)
InConnect(b) == task[b] \in {"connecting", "closing", "initializing"}

Idle(b) == task[b] \in {"none", "done"}

(* Tasks holding the semaphore: remote ones, and in a retry all. *)
Holders ==
    {b \in Backends : /\ task[b] \notin {"none", "queued", "done"}
                      /\ b \in Remote \/ pc = "retrying"}

MaxRetries(names) ==
    IF names = {} THEN 0 ELSE Max({Retries[b] : b \in names})

-----------------------------------------------------------------------------
(* The connect task of one backend.                                           *)

Finish(b, r) ==
    /\ task' = [task EXCEPT ![b] = "done"]
    /\ result' = [result EXCEPT ![b] = r]
    /\ cancelReq' = [cancelReq EXCEPT ![b] = FALSE]

SetPhase(b, p) == phase' = [phase EXCEPT ![b] = Transition(phase[b], p)]

(* async with sem; then the stagger sleep. *)
Acquire(b) ==
    /\ task[b] = "queued" /\ ~cancelReq[b]
    /\ Cardinality(Holders) < Concurrency
    /\ task' = [task EXCEPT ![b] = "gated"]
    /\ UNCHANGED <<coordVars, result, snap, cancelReq, backendVars, auth,
                   shutdown, countVars>>

(* A start_backend_svr that builds an image for remote backends too. *)
StartOneBuildsAll(b, built) ==
    /\ task' = [task EXCEPT ![b] = IF b \in built THEN "connecting" ELSE "building"]
    /\ snap' = [snap EXCEPT ![b] = shutdown]
    /\ attempts' = [attempts EXCEPT ![b] = @ + 1]
    /\ late' = IF shutdown THEN [late EXCEPT ![b] = @ + 1] ELSE late
    /\ SetPhase(b, "INITIALIZING")
    /\ UNCHANGED <<coordVars, result, cancelReq, sessions, stacks, auth, shutdown>>

(* start_backend_svr up to its first await; it keeps the value that           *)
(* _shutdown_requested has now.                                               *)
StartOne(b, built) ==
    /\ task' = [task EXCEPT ![b] =
                  IF b \in Stdio \ built THEN "building" ELSE "connecting"]
    /\ snap' = [snap EXCEPT ![b] = shutdown]
    /\ attempts' = [attempts EXCEPT ![b] = @ + 1]
    /\ late' = IF shutdown THEN [late EXCEPT ![b] = @ + 1] ELSE late
    /\ SetPhase(b, "INITIALIZING")
    /\ UNCHANGED <<coordVars, result, cancelReq, sessions, stacks, auth, shutdown>>

GatedStart(b) ==
    /\ task[b] = "gated" /\ ~cancelReq[b]
    /\ StartOne(b, prebuilt)
    /\ UNCHANGED prebuilt

(* _stdio_build_and_connect: a failed pre-build is only logged. *)
PreBuilt(b, ok) ==
    /\ task[b] = "prebuild" /\ ~cancelReq[b]
    /\ prebuilt' = IF ok THEN prebuilt \cup {b} ELSE prebuilt
    /\ StartOne(b, prebuilt')

(* start_backend_svr's own build of an image that is not stashed. *)
Built(b, ok) ==
    /\ task[b] = "building" /\ ~cancelReq[b]
    /\ \/ /\ ok
          /\ prebuilt' = prebuilt \cup {b}
          /\ task' = [task EXCEPT ![b] = "connecting"]
          /\ UNCHANGED <<result, cancelReq, phase>>
       \/ /\ ~ok
          /\ Finish(b, "false")
          /\ SetPhase(b, "FAILED")
          /\ UNCHANGED prebuilt
    /\ UNCHANGED <<coordVars, snap, sessions, stacks, auth, shutdown, countVars>>

(* A connect_backend that marks the record READY before it initializes. *)
OpenStackReady(b) ==
    /\ \/ task[b] = "connecting" /\ b \notin stacks
       \/ task[b] = "closing"
    /\ ~cancelReq[b]
    /\ stacks' = stacks \cup {b}
    /\ prebuilt' = prebuilt \ {b}
    /\ task' = [task EXCEPT ![b] = "initializing"]
    /\ SetPhase(b, "READY")
    /\ UNCHANGED <<coordVars, result, snap, cancelReq, sessions, auth, shutdown,
                   countVars>>

(* prepare_backend_stack closes what the last attempt left; creating the      *)
(* transport takes the stashed build out of the config.                       *)
OpenStack(b) ==
    /\ \/ task[b] = "connecting" /\ b \notin stacks
       \/ task[b] = "closing"
    /\ ~cancelReq[b]
    /\ stacks' = stacks \cup {b}
    /\ prebuilt' = prebuilt \ {b}
    /\ task' = [task EXCEPT ![b] = "initializing"]
    /\ UNCHANGED <<coordVars, result, snap, cancelReq, phase, sessions, auth,
                   shutdown, countVars>>

CloseStack(b) ==
    /\ task[b] = "connecting" /\ b \in stacks /\ ~cancelReq[b]
    /\ stacks' = stacks \ {b}
    /\ task' = [task EXCEPT ![b] = "closing"]
    /\ UNCHANGED <<coordVars, result, snap, cancelReq, prebuilt, phase, sessions,
                   auth, shutdown, countVars>>

(* session.initialize() answers: the session is stored and the record READY   *)
(* in one step.  A cancellation that comes at the same moment is lost.        *)
ConnectOk(b) ==
    /\ task[b] = "initializing"
    /\ sessions' = sessions \cup {b}
    /\ SetPhase(b, "READY")
    /\ Finish(b, "true")
    /\ UNCHANGED <<coordVars, snap, prebuilt, stacks, auth, shutdown, countVars>>

(* attempt_auth_discovery: remote backends only, one running task each. *)
AttemptAuthDiscovery(b) ==
    auth' = IF b \in Remote THEN [auth EXCEPT ![b] = "running"] ELSE auth

(* record_auth_pending_or_failure, given the auth tasks of that moment. *)
RecordAuthPendingOrFailure(b) ==
    SetPhase(b, IF auth'[b] = "running" THEN "INITIALIZING" ELSE "FAILED")

ConnectTimeout(b) ==
    /\ InConnect(b) /\ b \in Remote /\ ~cancelReq[b]
    /\ SetPhase(b, "FAILED")
    /\ Finish(b, "false")
    /\ UNCHANGED <<coordVars, snap, prebuilt, sessions, stacks, auth, shutdown,
                   countVars>>

(* An exception, or a CancelledError that came from inside the transport or   *)
(* from cancel_startup; authLike: it looks like a rejected login.  Every      *)
(* CancelledError does, unless the shutdown had been requested when           *)
(* start_backend_svr was called.                                              *)
ConnectFailed(b, authLike) ==
    /\ InConnect(b)
    /\ cancelReq[b] => authLike
    /\ IF authLike /\ ~snap[b] THEN AttemptAuthDiscovery(b) ELSE UNCHANGED auth
    /\ RecordAuthPendingOrFailure(b)
    /\ Finish(b, "false")
    /\ UNCHANGED <<coordVars, snap, prebuilt, sessions, stacks, shutdown, countVars>>

(* The CancelledError outside connect_backend ends the task. *)
Cancelled(b) ==
    /\ cancelReq[b]
    /\ task[b] \in {"queued", "gated", "prebuild", "building"}
    /\ Finish(b, "cancelled")
    /\ UNCHANGED <<coordVars, snap, backendVars, auth, shutdown, countVars>>

(* try_auth_discovery returns, with credentials or without. *)
AuthDone(b) ==
    /\ auth[b] = "running"
    /\ auth' = [auth EXCEPT ![b] = "done"]
    /\ UNCHANGED <<coordVars, task, result, snap, cancelReq, backendVars,
                   shutdown, countVars>>

TaskStep(b) ==
    \/ Acquire(b)
    \/ GatedStart(b)
    \/ \E ok \in BOOLEAN : PreBuilt(b, ok)
    \/ \E ok \in BOOLEAN : Built(b, ok)
    \/ CloseStack(b)
    \/ OpenStack(b)
    \/ ConnectOk(b)
    \/ ConnectTimeout(b)
    \/ \E authLike \in BOOLEAN : ConnectFailed(b, authLike)
    \/ Cancelled(b)

-----------------------------------------------------------------------------
(* start_all.                                                                 *)

(* launch_remote_tasks, then sleep(0). *)
Launch ==
    /\ pc = "launch"
    /\ pc' = "yield"
    /\ task' = [b \in Backends |-> IF b \in Remote THEN "queued" ELSE "none"]
    /\ pending' = Remote
    /\ UNCHANGED <<parallel, todo, failed, attempt, limit, result, snap,
                   cancelReq, backendVars, auth, shutdown, countVars>>

(* build_and_connect_stdio sees _shutdown_requested as it is at the call.     *)
(* Requested: the first backend (sequential) or all of them (parallel) count  *)
(* as failed and nothing is started.                                          *)
BeginStdio ==
    /\ pc = "yield"
    /\ pc' = "stdio"
    /\ \/ /\ shutdown
          /\ \E none \in SUBSET Stdio :
               /\ Cardinality(none) = IF parallel \/ Stdio = {}
                                      THEN Cardinality(Stdio) ELSE 1
               /\ result' = [b \in Backends |-> IF b \in none THEN "false"
                                                              ELSE result[b]]
          /\ UNCHANGED <<todo, task, pending>>
       \/ /\ ~shutdown /\ parallel /\ Cardinality(Stdio) > 1
          /\ task' = [b \in Backends |-> IF b \in Stdio THEN "prebuild" ELSE task[b]]
          /\ pending' = pending \cup Stdio
          /\ UNCHANGED <<todo, result>>
       \/ /\ ~shutdown /\ (~parallel \/ Cardinality(Stdio) <= 1)
          /\ todo' = Stdio
          /\ UNCHANGED <<task, pending, result>>
    /\ UNCHANGED <<parallel, failed, attempt, limit, snap, cancelReq,
                   backendVars, auth, shutdown, countVars>>

(* The sequential loop creates the next task when the last one is done; it    *)
(* does not look at _shutdown_requested again.  Any backend may be next: the  *)
(* order of the configuration is left open.                                   *)
NextStdio(b) ==
    /\ pc = "stdio" /\ b \in todo
    /\ \A s \in Stdio : Idle(s)
    /\ todo' = todo \ {b}
    /\ task' = [task EXCEPT ![b] = "prebuild"]
    /\ pending' = pending \cup {b}
    /\ UNCHANGED <<parallel, pc, failed, attempt, limit, result, snap, cancelReq,
                   backendVars, auth, shutdown, countVars>>

(* A retry loop that stops one attempt short. *)
RetryLoopShort(names, a, max) ==
    /\ failed' = names
    /\ attempt' = a
    /\ limit' = max
    /\ \/ /\ names # {} /\ a < max /\ ~shutdown
          /\ pc' = "backoff"
          /\ phase' = [b \in Backends |->
                         IF b \in names THEN Transition(phase[b], "RETRYING")
                                        ELSE phase[b]]
       \/ /\ names = {} \/ a >= max \/ shutdown
          /\ pc' = "done"
          /\ UNCHANGED phase

(* A retry loop that never asks for the shutdown flag. *)
RetryLoopDeaf(names, a, max) ==
    /\ failed' = names
    /\ attempt' = a
    /\ limit' = max
    /\ \/ /\ names # {} /\ a <= max
          /\ pc' = "backoff"
          /\ phase' = [b \in Backends |->
                         IF b \in names THEN Transition(phase[b], "RETRYING")
                                        ELSE phase[b]]
       \/ /\ names = {} \/ a > max
          /\ pc' = "done"
          /\ UNCHANGED phase

(* The top of the retry loop, for the a-th attempt of max: signal_retry_phase *)
(* and sleep, or leave start_all.                                             *)
RetryLoop(names, a, max) ==
    /\ failed' = names
    /\ attempt' = a
    /\ limit' = max
    /\ \/ /\ names # {} /\ a <= max /\ ~shutdown
          /\ pc' = "backoff"
          /\ phase' = [b \in Backends |->
                         IF b \in names THEN Transition(phase[b], "RETRYING")
                                        ELSE phase[b]]
       \/ /\ names = {} \/ a > max \/ shutdown
          /\ pc' = "done"
          /\ UNCHANGED phase

(* gather_remote_results and the verdict on the first pass.  A cancelled      *)
(* remote task is not an Exception and counts as a success; a cancelled stdio *)
(* one counts as failed.                                                      *)
FirstPassFailed ==
    {b \in Backends : \/ result[b] = "false"
                      \/ result[b] = "cancelled" /\ b \in Stdio}

FirstPassDone ==
    /\ pc = "stdio" /\ todo = {}
    /\ \A b \in Backends : Idle(b)
    /\ pending' = {}
    /\ RetryLoop(FirstPassFailed, 1, MaxRetries(FirstPassFailed))
    /\ UNCHANGED <<parallel, todo, task, result, snap, cancelReq, prebuilt,
                   sessions, stacks, auth, shutdown, countVars>>

(* A launch_retry_tasks that retries every failed backend in every round. *)
LaunchRetriesForAll ==
    /\ pc' = "retrying"
    /\ task' = [b \in Backends |-> IF b \in failed THEN "queued" ELSE task[b]]
    /\ UNCHANGED <<parallel, todo, failed, attempt, limit, pending, result, snap,
                   cancelReq, backendVars, auth, shutdown, countVars>>

(* launch_retry_tasks: not in _pending_tasks, and not for a backend that has  *)
(* used up its own retries.                                                   *)
LaunchRetries ==
    /\ pc' = "retrying"
    /\ task' = [b \in Backends |->
                  IF b \in failed /\ attempt <= Retries[b] THEN "queued" ELSE task[b]]
    /\ UNCHANGED <<parallel, todo, failed, attempt, limit, pending, result, snap,
                   cancelReq, backendVars, auth, shutdown, countVars>>

(* The backoff is over; await_auth_discoveries waits if there is one to wait  *)
(* for ...                                                                    *)
BackoffDone ==
    /\ pc = "backoff"
    /\ \/ /\ \A b \in failed : auth[b] # "running"
          /\ LaunchRetries
       \/ /\ \E b \in failed : auth[b] = "running"
          /\ pc' = "authwait"
          /\ UNCHANGED <<parallel, todo, failed, attempt, limit, pending, task,
                         result, snap, cancelReq, backendVars, auth, shutdown,
                         countVars>>

(* A wait for the browser logins that has no timeout. *)
AuthWaitForever ==
    /\ pc = "authwait"
    /\ \A b \in failed : auth[b] # "running"
    /\ LaunchRetries

(* ... until all of them are done, or AUTH_DISCOVERY_TIMEOUT. *)
AuthWaitDone ==
    /\ pc = "authwait"
    /\ LaunchRetries

RetryDone ==
    /\ pc = "retrying"
    /\ \A b \in Backends : Idle(b)
    /\ RetryLoop(failed \ sessions, attempt + 1, limit)
    /\ UNCHANGED <<parallel, todo, pending, task, result, snap, cancelReq, prebuilt,
                   sessions, stacks, auth, shutdown, countVars>>

Coordinator ==
    \/ Launch
    \/ BeginStdio
    \/ \E b \in Stdio : NextStdio(b)
    \/ FirstPassDone
    \/ BackoffDone
    \/ AuthWaitDone
    \/ RetryDone

(* The first Ctrl+C: cancel_startup. *)
CancelStartup ==
    /\ ~shutdown /\ pc # "done"
    /\ shutdown' = TRUE
    /\ cancelReq' = [b \in Backends |-> b \in pending /\ ~Idle(b)]
    /\ UNCHANGED <<coordVars, task, result, snap, backendVars, auth, countVars>>

-----------------------------------------------------------------------------
Init ==
    /\ parallel \in BOOLEAN
    /\ pc = "launch"
    /\ todo = {}
    /\ failed = {}
    /\ attempt = 0
    /\ limit = 0
    /\ task = [b \in Backends |-> "none"]
    /\ result = [b \in Backends |-> "none"]
    /\ snap = [b \in Backends |-> FALSE]
    /\ cancelReq = [b \in Backends |-> FALSE]
    /\ pending = {}
    /\ prebuilt = {}
    /\ phase = [b \in Backends |-> "PENDING"]
    /\ sessions = {}
    /\ stacks = {}
    /\ auth = [b \in Backends |-> "none"]
    /\ shutdown = FALSE
    /\ attempts = [b \in Backends |-> 0]
    /\ late = [b \in Backends |-> 0]

Next ==
    \/ Coordinator
    \/ CancelStartup
    \/ \E b \in Backends : TaskStep(b) \/ AuthDone(b)

(* Every await of the coordinator and of a connect task has a timeout or      *)
(* waits for such a task.  Nothing is assumed of the browser login (AuthDone).*)
Spec ==
    /\ Init /\ [][Next]_vars
    /\ WF_vars(Coordinator)
    /\ \A b \in Backends : WF_vars(TaskStep(b))

-----------------------------------------------------------------------------
TypeOK ==
    /\ parallel \in BOOLEAN
    /\ pc \in {"launch", "yield", "stdio", "backoff", "authwait", "retrying", "done"}
    /\ todo \in SUBSET Stdio
    /\ failed \in SUBSET Backends
    /\ attempt \in Nat
    /\ limit \in Nat
    /\ task \in [Backends -> Locations]
    /\ result \in [Backends -> {"none", "true", "false", "cancelled"}]
    /\ snap \in [Backends -> BOOLEAN]
    /\ cancelReq \in [Backends -> BOOLEAN]
    /\ pending \in SUBSET Backends
    /\ prebuilt \in SUBSET Stdio
    /\ phase \in [Backends -> BackendPhases]
    /\ sessions \in SUBSET Backends
    /\ stacks \in SUBSET Backends
    /\ auth \in [Backends -> {"none", "running", "done"}]
    /\ shutdown \in BOOLEAN
    /\ attempts \in [Backends -> Nat]
    /\ late \in [Backends -> Nat]

(* A backend is reported READY exactly while it has a session, and every      *)
(* session has the exit stack that can close it, whatever was cancelled, timed*)
(* out or retried before (backend_connection.py connect_backend and the       *)
(* handlers of start_backend_svr).                                            *)
SessionsReady ==
    /\ sessions \subseteq stacks
    /\ \A b \in Backends : b \in sessions <=> phase[b] = "READY"

(* No backend is tried more often than its own "retries" allows, though the   *)
(* retry loop runs for the largest of all (startup_coordinator.py             *)
(* retry_failed_backends, launch_retry_tasks).                                *)
AttemptsBounded == \A b \in Backends : attempts[b] <= 1 + Retries[b]

(* No backend is given up early: when start_all returns and nobody asked for  *)
(* a shutdown, a backend without a session has had every one of its tries     *)
(* (startup_coordinator.py start_all, retry_failed_backends).                 *)
NoEarlyGiveUp ==
    pc = "done" /\ ~shutdown =>
        \A b \in Backends \ sessions : attempts[b] = 1 + Retries[b]

(* After Ctrl+C every backend is started at most once more: the sequential    *)
(* stdio loop and one round of retries may still be launched, but no further  *)
(* round (startup_coordinator.py, the shutdown_requested_fn checks).          *)
AtMostOneLateStart == \A b \in Backends : late[b] <= 1

(* start_all returns, whatever fails and whenever Ctrl+C comes, even if a     *)
(* browser login is never completed.                                          *)
StartAllReturns == <>(pc = "done")

(* "The retry loop will wait for the auth task and produce the real [tick] /  *)
(* [cross] once the outcome is known" (record_auth_pending_or_failure): when  *)
(* start_all has returned and nobody asked for a shutdown, no backend is left *)
(* INITIALIZING.                                                              *)
AuthOutcomeKnown ==
    pc = "done" /\ ~shutdown =>
        \A b \in Backends : phase[b] # "INITIALIZING"
=============================================================================
