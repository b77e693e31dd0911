------------------------------- MODULE Service -------------------------------
(* ArgusService: start, stop, shutdown, reload and reconnect, with the part   *)
(* of the ClientManager they use (sessions, exit stacks, stop_all and         *)
(* disconnect_one), the configuration file, the watcher's reload callback and *)
(* the registry the MCP server was given at startup.                          *)
(*                                                                            *)
(* An operation (a management request or the watcher's callback) is a task;   *)
(* an action is its code between two awaits.  How start_all connects the      *)
(* backends is the subject of Startup, when the watcher calls back that of    *)
(* ConfigWatcher: here start_all ends in any way it can, and the callback     *)
(* comes some time after an edit.                                             *)
EXTENDS Lifecycle, FiniteSets

CONSTANTS
    Backends,
    Configs,        \* valid contents of the file: a backend's entry or Absent
    FirstConfig,    \* what the file holds at the start
    Requests,       \* management requests that can be in flight together
    Watcher,        \* the watcher task
    Flaky,          \* the backends whose list calls may fail
    Invalid,        \* a file that the loaders reject with a ConfigurationError
    None,
    MaxEdits,       \* bound: edits of the file
    MaxRequests,    \* bound: management requests
    MaxStops        \* bound: calls of stop that find something to stop

(* An entry is <<c, r>>: c stands for the fields configs_differ compares (url,*)
(* command, env, headers, auth ...), r for all the others, of which container *)
(* and network also shape the transport of a stdio backend.                   *)
Absent == <<0, 0>>

ASSUME ServiceAssumption ==
    /\ IsFiniteSet(Backends)
    /\ FirstConfig \in Configs
    /\ Configs \subseteq [Backends -> Nat \X Nat]
    /\ Flaky \subseteq Backends
    /\ Invalid \notin Configs
    /\ Watcher \notin Requests
    /\ None \notin Backends \cup Requests \cup {Watcher}
    /\ MaxEdits \in Nat /\ MaxRequests \in Nat /\ MaxStops \in Nat

VARIABLES
    disk, edits,            \* the file, and how often it was edited
    svc,                    \* _state
    ready,                  \* _ready_event
    startPc,                \* where start() is
    configData,             \* _config_data
    connected,              \* _backends_connected
    uncounted,              \* a reconnect has raised before it took the count
    sessions,               \* _sessions: the entry each was opened with
    stacks,                 \* _backend_stacks
    listed,                 \* those of them stop_all has yet to close
    tools,                  \* backends in _tools, _resources and _prompts, the
                            \* copies of self._registry
    served,                 \* backends in the registry of the MCP server
    lock,                   \* _reload_lock: None or the operation that holds it
    op,                     \* the operations
    requests,               \* management requests so far
    watcher, noticed,       \* the watcher task; it has reported the last edit
    health,                 \* the health checker runs
    stopPc, timed, stops    \* stop(); under shutdown's timeout; calls so far

fileVars == <<disk, edits>>
startVars == <<ready, startPc>>
managerVars == <<sessions, stacks, listed>>
catalogVars == <<tools, served>>
watcherVars == <<watcher, noticed>>
stopVars == <<health, stopPc, timed, stops>>

vars == <<fileVars, svc, startVars, configData, connected, uncounted,
          managerVars, catalogVars, lock, op, requests, watcherVars, stopVars>>

Ops == Requests \cup {Watcher}

NoSessions == [b \in Backends |-> Absent]
Present(f) == {b \in Backends : f[b] # Absent}

NoOp == [kind |-> "none", pc |-> "idle", name |-> None, new |-> FirstConfig,
         todo |-> {}]

-----------------------------------------------------------------------------
(* The file changes.  The watcher reports the changes since it was started. *)
Edit ==
    /\ edits < MaxEdits
    /\ edits' = edits + 1
    /\ disk' \in (Configs \cup {Invalid}) \ {disk}
    /\ noticed' = (noticed /\ watcher # "on")
    /\ UNCHANGED <<svc, startVars, configData, connected, uncounted,
                   managerVars, catalogVars, lock, op, requests, watcher,
                   stopVars>>

-----------------------------------------------------------------------------
(* start().  A failure takes the service to ERROR.                            *)

StartFails ==
    /\ svc' = "ERROR"
    /\ startPc' = "failed"
    /\ ready' = FALSE

Start ==
    /\ svc = "PENDING"
    /\ svc' = "STARTING"
    /\ startPc' = "loading"
    /\ UNCHANGED <<fileVars, ready, configData, connected, uncounted,
                   managerVars, catalogVars, lock, op, requests, watcherVars,
                   stopVars>>

StartLoads ==
    /\ startPc = "loading"
    /\ \/ disk = Invalid /\ StartFails /\ UNCHANGED configData
       \/ /\ disk # Invalid
          /\ configData' = disk
          /\ startPc' = "building"
          /\ UNCHANGED <<svc, ready>>
    /\ UNCHANGED <<fileVars, connected, uncounted, managerVars, catalogVars,
                   lock, op, requests, watcherVars, stopVars>>

(* The full configuration is read again for the registry. *)
StartBuildsRegistry ==
    /\ startPc = "building"
    /\ \/ disk = Invalid /\ StartFails
       \/ /\ disk # Invalid
          /\ startPc' = "connecting"
          /\ UNCHANGED <<svc, ready>>
    /\ UNCHANGED <<fileVars, configData, connected, uncounted, managerVars,
                   catalogVars, lock, op, requests, watcherVars, stopVars>>

(* RUNNING; the health checker and the watcher start, and the lifespan hands  *)
(* the registry to the MCP server.                                            *)
StartRuns(found) ==
    /\ svc' = "RUNNING"
    /\ startPc' = "up"
    /\ ready' = TRUE
    /\ tools' = found
    /\ served' = found
    /\ health' = TRUE
    /\ watcher' = "on"
    /\ noticed' = TRUE

(* start_all has opened the sessions of some backends; a failed backend may   *)
(* have left its exit stack behind.                                           *)
Opened(up, left) ==
    /\ up \subseteq left /\ left \subseteq Present(configData)
    /\ sessions' = [b \in Backends |-> IF b \in up THEN configData[b]
                                                  ELSE Absent]
    /\ stacks' = left
    /\ UNCHANGED listed

StartConnected(up, left) ==
    /\ startPc = "connecting"
    /\ Opened(up, left)
    /\ connected' = Cardinality(up)
    /\ \/ /\ up = {} /\ Present(configData) # {}
          /\ StartFails
          /\ UNCHANGED <<catalogVars, watcherVars, health>>
       \/ /\ up = {} /\ Present(configData) = {}
          /\ StartRuns({})
       \/ /\ up # {}
          /\ startPc' = "discovering"
          /\ UNCHANGED <<svc, ready, catalogVars, watcherVars, health>>
    /\ UNCHANGED <<fileVars, configData, uncounted, lock, op, requests, stopPc,
                   timed, stops>>

(* discover_and_register: a backend that does not answer adds nothing. *)
Answered(up, found) == up \ Flaky \subseteq found /\ found \subseteq up

StartDiscovered(found) ==
    /\ startPc = "discovering"
    /\ Answered(Present(sessions), found)
    /\ StartRuns(found)
    /\ UNCHANGED <<fileVars, configData, connected, uncounted, managerVars,
                   lock, op, requests, stopPc, timed, stops>>

(* The server task is cancelled: CancelledError is not an Exception, so the   *)
(* state stays STARTING, with whatever start_all has connected so far.        *)
StartCancelled(up, left) ==
    /\ startPc \in {"loading", "building", "connecting", "discovering"}
    /\ startPc' = "failed"
    /\ \/ /\ startPc = "connecting"
          /\ Opened(up, left)
       \/ /\ startPc # "connecting" /\ left = {} /\ up = {}
          /\ UNCHANGED managerVars
    /\ UNCHANGED <<fileVars, svc, ready, configData, connected, uncounted,
                   catalogVars, lock, op, requests, watcherVars, stopVars>>

StartStep ==
    \/ Start
    \/ StartLoads
    \/ StartBuildsRegistry
    \/ \E up, left \in SUBSET Backends :
         StartConnected(up, left) \/ StartCancelled(up, left)
    \/ \E found \in SUBSET Backends : StartDiscovered(found)

-----------------------------------------------------------------------------
(* Steps shared by reload and reconnect, which run under _reload_lock.        *)

(* A watcher that does not look at its stop event. *)
EndWatching(o) ==
    /\ op' = [op EXCEPT ![o] = NoOp]
    /\ lock' = IF lock = o THEN None ELSE lock
    /\ watcher' = IF o = Watcher /\ watcher = "draining" THEN "on" ELSE watcher

(* The operation returns or raises.  A watcher that has been told to stop     *)
(* leaves its loop when the callback is over.                                 *)
End(o) ==
    /\ op' = [op EXCEPT ![o] = NoOp]
    /\ lock' = IF lock = o THEN None ELSE lock
    /\ watcher' = IF o = Watcher /\ watcher # "on" THEN "off" ELSE watcher

(* It goes on to its next await.  A watcher that does so although it has been *)
(* cancelled has lost the CancelledError and runs to the end of its callback. *)
Await(o, pc, name, new, todo) ==
    /\ op' = [op EXCEPT ![o].pc = pc, ![o].name = name, ![o].new = new,
                        ![o].todo = todo]
    /\ lock' = o
    /\ watcher' = IF o = Watcher /\ watcher = "cancelling" THEN "draining"
                                                          ELSE watcher

(* _build_registry reads the file; a ConfigurationError goes through to the   *)
(* caller.  Then discover_and_register asks the sessions of the moment.       *)
Rebuild(o, new, up) ==
    \/ /\ disk = Invalid
       /\ End(o)
    \/ /\ disk # Invalid
       /\ Await(o, "discovering", op[o].name, new, up)

(* A count that is kept by adding. *)
CountOneMore(sess) ==
    /\ connected' = connected + 1
    /\ uncounted' = FALSE

(* _backends_connected = get_active_session_count() *)
Count(sess) ==
    /\ connected' = Cardinality(Present(sess))
    /\ uncounted' = FALSE

(* configs_differ and compute_diff. *)
Differs(x, y) == x[1] # y[1]

(* A diff that reports additions and changes only. *)
RemovedIgnored(old, new) == {}

Removed(old, new) == Present(old) \ Present(new)
Added(old, new) == Present(new) \ Present(old)
Changed(old, new) ==
    {b \in Present(old) \cap Present(new) : Differs(old[b], new[b])}

(* reload goes on with the backends in todo: the removed ones, then the       *)
(* changed ones, then the added ones.  _disconnect_backend does nothing for a *)
(* backend without a session.  At the end the new configuration counts, even  *)
(* if connects failed, and the registry is rebuilt if there is a session.     *)
Reconcile(o, new, todo, sess, stks) ==
    LET gone    == {b \in todo \cap Removed(configData, new) : sess[b] # Absent}
        changed == todo \cap Changed(configData, new)
        added   == todo \cap Added(configData, new)
        next    == IF gone # {} THEN gone
                   ELSE IF changed # {} THEN changed ELSE added
    IN
    \/ \E b \in next :
         /\ \/ /\ b \notin added /\ sess[b] # Absent
               /\ stacks' = stks \ {b}
               /\ Await(o, "closing", b, new, todo \ {b})
            \/ /\ b \in added \/ sess[b] = Absent
               /\ stacks' = stks
               /\ Await(o, "preparing", b, new, todo \ {b})
         /\ UNCHANGED <<configData, connected, uncounted>>
    \/ /\ next = {}
       /\ stacks' = stks
       /\ configData' = new
       /\ Count(sess)
       /\ IF Present(sess) # {} THEN Rebuild(o, new, Present(sess))
                                ELSE End(o)

-----------------------------------------------------------------------------
(* Operations.                                                                *)

(* What no operation changes once it has been requested.  A stack that it     *)
(* pops is its own to close: stop_all closing it once more has no effect, nor *)
(* has it on a stack opened in its place.                                     *)
OpFrame ==
    /\ UNCHANGED <<fileVars, svc, startVars, served, requests, noticed,
                   stopVars>>
    /\ listed' = listed \cap stacks'

(* The operation is at this await, and no cancellation is on its way. *)
At(o, pc) == op[o].pc = pc /\ ~(o = Watcher /\ watcher = "cancelling")

Goes(o, kind, pc, name) ==
    op' = [op EXCEPT ![o].kind = kind, ![o].pc = pc, ![o].name = name]

(* Under _reload_lock, reload starts to load the file; _do_reconnect          *)
(* disconnects, or connects at once if there is no session; the backend may   *)
(* have left the configuration meanwhile (KeyError).                          *)
Enter(o, kind, b) ==
    \/ /\ kind = "reload"
       /\ Goes(o, kind, "loading", b) /\ lock' = o
       /\ UNCHANGED stacks
    \/ /\ kind = "reconnect" /\ sessions[b] # Absent
       /\ Goes(o, kind, "closing", b) /\ lock' = o
       /\ stacks' = stacks \ {b}
    \/ /\ kind = "reconnect" /\ sessions[b] = Absent /\ configData[b] # Absent
       /\ Goes(o, kind, "preparing", b) /\ lock' = o
       /\ UNCHANGED stacks
    \/ /\ kind = "reconnect" /\ sessions[b] = Absent /\ configData[b] = Absent
       /\ op' = [op EXCEPT ![o] = NoOp]
       /\ UNCHANGED <<lock, stacks>>

(* reload and reconnect_backend look at the state, and at the name, before    *)
(* the lock and not again.  A lock that is free, with nobody waiting, is      *)
(* taken at once.                                                             *)
Call(o, kind, b) ==
    LET free == lock = None /\ \A p \in Ops : op[p].pc # "waiting" IN
    /\ svc = "RUNNING"
    /\ b # None => b \in Present(configData)
    /\ \/ free /\ Enter(o, kind, b)
       \/ ~free /\ Goes(o, kind, "waiting", b) /\ UNCHANGED <<lock, stacks>>
    /\ UNCHANGED <<fileVars, svc, startVars, configData, connected, uncounted,
                   sessions, listed, catalogVars, watcherVars, stopVars>>

(* POST /reload and POST /reconnect/{name} *)
RequestReload(o) ==
    /\ op[o].pc = "idle" /\ requests < MaxRequests
    /\ requests' = requests + 1
    /\ Call(o, "reload", None)

RequestReconnect(o, b) ==
    /\ op[o].pc = "idle" /\ requests < MaxRequests
    /\ requests' = requests + 1
    /\ Call(o, "reconnect", b)

(* _on_config_file_changed: it reads the file for the event's hash, then      *)
(* calls reload.                                                              *)
WatcherFires ==
    /\ watcher = "on" /\ op[Watcher].pc = "idle" /\ ~noticed
    /\ noticed' = TRUE
    /\ Goes(Watcher, "reload", "hashing", None)
    /\ UNCHANGED <<fileVars, svc, startVars, configData, connected, uncounted,
                   managerVars, catalogVars, lock, requests, watcher, stopVars>>

WatcherCalls ==
    /\ At(Watcher, "hashing")
    /\ Call(Watcher, "reload", None)
    /\ UNCHANGED requests

Acquire(o) ==
    /\ At(o, "waiting") /\ lock = None
    /\ Enter(o, op[o].kind, op[o].name)
    /\ UNCHANGED <<configData, connected, uncounted, sessions, tools, watcher>>
    /\ OpFrame

Loaded(o) ==
    /\ At(o, "loading")
    /\ \/ /\ disk = Invalid
          /\ End(o)
          /\ UNCHANGED <<configData, connected, uncounted, stacks>>
       \/ /\ disk # Invalid
          /\ Reconcile(o, disk, Backends, sessions, stacks)
    /\ UNCHANGED <<sessions, tools>>
    /\ OpFrame

(* disconnect_one ends: the session goes last, its stack went first. *)
Closed(o) ==
    LET b == op[o].name IN
    /\ At(o, "closing")
    /\ sessions' = [sessions EXCEPT ![b] = Absent]
    /\ \/ /\ op[o].kind = "reload" /\ op[o].new[b] = Absent
          /\ Reconcile(o, op[o].new, op[o].todo, sessions', stacks)
       \/ /\ \/ op[o].kind = "reload" /\ op[o].new[b] # Absent
             \/ op[o].kind = "reconnect" /\ configData[b] # Absent
          /\ Await(o, "preparing", b, op[o].new, op[o].todo)
          /\ UNCHANGED <<configData, connected, uncounted, stacks>>
       \/ /\ op[o].kind = "reconnect" /\ configData[b] = Absent
          /\ End(o)
          /\ UNCHANGED <<configData, connected, uncounted, stacks>>
    /\ UNCHANGED <<tools>>
    /\ OpFrame

(* prepare_backend_stack *)
CloseOldStack(o) ==
    LET b == op[o].name IN
    /\ At(o, "preparing") /\ b \in stacks
    /\ stacks' = stacks \ {b}
    /\ Await(o, "replacing", b, op[o].new, op[o].todo)
    /\ UNCHANGED <<configData, connected, uncounted, sessions, tools>>
    /\ OpFrame

OpenStack(o) ==
    LET b == op[o].name IN
    /\ At(o, "replacing") \/ (At(o, "preparing") /\ b \notin stacks)
    /\ stacks' = stacks \cup {b}
    /\ Await(o, "initializing", b, op[o].new, op[o].todo)
    /\ UNCHANGED <<configData, connected, uncounted, sessions, tools>>
    /\ OpFrame

(* The backend has answered. *)
Connected(o) ==
    LET b == op[o].name IN
    /\ At(o, "initializing")
    /\ \/ /\ op[o].kind = "reload"
          /\ sessions' = [sessions EXCEPT ![b] = op[o].new[b]]
          /\ Reconcile(o, op[o].new, op[o].todo, sessions', stacks)
       \/ /\ op[o].kind = "reconnect"
          /\ sessions' = [sessions EXCEPT ![b] = configData[b]]
          /\ Rebuild(o, op[o].new, Present(sessions'))
          /\ uncounted' = (disk = Invalid)
          /\ UNCHANGED <<configData, connected, stacks>>
    /\ UNCHANGED <<tools>>
    /\ OpFrame

(* Without the count at the end of a failed reconnect. *)
ConnectFailedUncounted(o) ==
    /\ op[o].pc \in {"preparing", "replacing", "initializing", "severed"}
    /\ \/ /\ op[o].kind = "reload"
          /\ Reconcile(o, op[o].new, op[o].todo, sessions, stacks)
       \/ /\ op[o].kind = "reconnect"
          /\ End(o)
          /\ UNCHANGED <<configData, connected, uncounted, stacks>>
    /\ UNCHANGED <<sessions, tools>>
    /\ OpFrame

(* start_backend_svr returns False: an error, a timeout (also the one of      *)
(* reconnect_backend), or the cancellation of the watcher, which it takes for *)
(* a rejected login.                                                          *)
ConnectFailed(o) ==
    /\ op[o].pc \in {"preparing", "replacing", "initializing", "severed"}
    /\ \/ /\ op[o].kind = "reload"
          /\ Reconcile(o, op[o].new, op[o].todo, sessions, stacks)
       \/ /\ op[o].kind = "reconnect"
          /\ Count(sessions)
          /\ End(o)
          /\ UNCHANGED <<configData, stacks>>
    /\ UNCHANGED <<sessions, tools>>
    /\ OpFrame

(* discover_and_register, and the copies of its lists. *)
Discovered(o, found) ==
    /\ At(o, "discovering")
    /\ Answered(op[o].todo, found)
    /\ tools' = found
    /\ \/ op[o].kind = "reconnect" /\ Count(sessions)
       \/ op[o].kind = "reload" /\ UNCHANGED <<connected, uncounted>>
    /\ End(o)
    /\ UNCHANGED <<configData, managerVars>>
    /\ OpFrame

(* Without the disconnect after a timeout. *)
ReconnectTimeoutReturns(o) ==
    /\ op[o].kind = "reconnect" /\ op[o].pc \in {"closing", "discovering"}
    /\ Count(sessions)
    /\ End(o)
    /\ UNCHANGED <<configData, managerVars, tools>>
    /\ OpFrame

(* RECONNECT_TIMEOUT in disconnect_one or in discover_and_register: what is   *)
(* left of the session is disconnected.                                       *)
ReconnectTimeout(o) ==
    LET b == op[o].name IN
    /\ op[o].kind = "reconnect" /\ op[o].pc \in {"closing", "discovering"}
    /\ \/ /\ sessions[b] # Absent
          /\ stacks' = stacks \ {b}
          /\ Await(o, "cleanup", b, op[o].new, {})
          /\ UNCHANGED <<connected, uncounted>>
       \/ /\ sessions[b] = Absent
          /\ Count(sessions)
          /\ End(o)
          /\ UNCHANGED stacks
    /\ UNCHANGED <<configData, sessions, tools>>
    /\ OpFrame

(* A clean-up that disconnects every backend. *)
CleanedUpAll(o) ==
    /\ At(o, "cleanup")
    /\ sessions' = NoSessions
    /\ Count(sessions')
    /\ End(o)
    /\ UNCHANGED <<configData, stacks, tools>>
    /\ OpFrame

CleanedUp(o) ==
    /\ At(o, "cleanup")
    /\ sessions' = [sessions EXCEPT ![op[o].name] = Absent]
    /\ Count(sessions')
    /\ End(o)
    /\ UNCHANGED <<configData, stacks, tools>>
    /\ OpFrame

(* The CancelledError of the watcher's task ends the callback anywhere but in *)
(* connect_backend (an image build counts as outside).                        *)
WatcherCancelled ==
    /\ watcher = "cancelling"
    /\ op[Watcher].pc \notin {"replacing", "initializing", "severed"}
    /\ End(Watcher)
    /\ UNCHANGED <<configData, connected, uncounted, managerVars, tools>>
    /\ OpFrame

OpStep(o) ==
    \/ Acquire(o)
    \/ Loaded(o)
    \/ Closed(o)
    \/ CloseOldStack(o)
    \/ OpenStack(o)
    \/ Connected(o)
    \/ ConnectFailed(o)
    \/ \E found \in SUBSET Backends : Discovered(o, found)
    \/ ReconnectTimeout(o)
    \/ CleanedUp(o)

-----------------------------------------------------------------------------
(* stop(), called by the lifespan when the server ends, or by shutdown() with *)
(* a timeout.  It does not take _reload_lock.                                 *)

(* Without the early return in STOPPED. *)
StopBeginsAgain(withTimeout) ==
    /\ svc \in {"RUNNING", "ERROR", "STOPPED"}
    /\ withTimeout => startPc = "up"
    /\ stops < MaxStops
    /\ stops' = stops + 1
    /\ svc' = "STOPPING"
    /\ timed' = withTimeout
    /\ watcher' = IF watcher = "on" THEN "cancelling" ELSE watcher
    /\ stopPc' = IF watcher # "off" THEN "watcher"
                 ELSE IF health THEN "health" ELSE "refresh"
    /\ UNCHANGED <<fileVars, startVars, configData, connected, uncounted,
                   managerVars, catalogVars, lock, op, requests, noticed,
                   health>>

(* Only one call does anything at a time: the others find STOPPING, STOPPED   *)
(* or PENDING and return.  From STARTING it goes through ERROR.               *)
StopBegins(withTimeout) ==
    /\ \/ svc \in {"RUNNING", "ERROR"}
       \/ svc = "STARTING" /\ startPc = "failed"
    /\ withTimeout => startPc = "up"
    /\ stops < MaxStops
    /\ stops' = stops + 1
    /\ svc' = "STOPPING"
    /\ timed' = withTimeout
    /\ watcher' = IF watcher = "on" THEN "cancelling" ELSE watcher
    /\ stopPc' = IF watcher # "off" THEN "watcher"
                 ELSE IF health THEN "health" ELSE "refresh"
    /\ UNCHANGED <<fileVars, startVars, configData, connected, uncounted,
                   managerVars, catalogVars, lock, op, requests, noticed,
                   health>>

StopGoes(from, to) ==
    /\ stopPc = from
    /\ stopPc' = to
    /\ UNCHANGED <<fileVars, startPc, configData, connected, uncounted,
                   catalogVars, lock, requests, watcherVars, stops>>

(* ConfigWatcher.stop returns when the task has ended. *)
WatcherStopped ==
    /\ watcher = "off"
    /\ StopGoes("watcher", IF health THEN "health" ELSE "refresh")
    /\ UNCHANGED <<svc, ready, managerVars, op, health, timed>>

HealthStopped ==
    /\ StopGoes("health", "refresh")
    /\ health' = FALSE
    /\ UNCHANGED <<svc, ready, managerVars, op, timed>>

(* The refresh service has stopped; _close_backend_stacks lists the stacks.   *)
StacksListed ==
    /\ StopGoes("refresh", "stacks")
    /\ listed' = stacks
    /\ UNCHANGED <<svc, ready, sessions, stacks, op, health, timed>>

(* One of them after the other is closed: who waits for an answer on it gets  *)
(* none.  A close that times out or fails is logged, and the next one comes.  *)
StackCloses(b, closed) ==
    /\ b \in listed
    /\ StopGoes("stacks", "stacks")
    /\ listed' = listed \ {b}
    /\ op' = [o \in Ops |->
               CASE closed /\ op[o].pc = "initializing" /\ op[o].name = b ->
                      [op[o] EXCEPT !.pc = "severed"]
                 [] closed /\ op[o].pc = "discovering" ->
                      [op[o] EXCEPT !.todo = @ \ {b}]
                 [] OTHER -> op[o]]
    /\ UNCHANGED <<svc, ready, sessions, stacks, health, timed>>

(* A stack that was opened meanwhile is dropped without being closed. *)
StacksClosed ==
    /\ listed = {}
    /\ StopGoes("stacks", "global")
    /\ stacks' = {}
    /\ UNCHANGED <<svc, ready, sessions, listed, op, health, timed>>

(* _close_global_exit_stack, then _sessions.clear() *)
GlobalStackClosed ==
    /\ StopGoes("global", "containers")
    /\ sessions' = NoSessions
    /\ UNCHANGED <<svc, ready, stacks, listed, op, health, timed>>

(* Without the finally clause. *)
ContainersRemovedReady ==
    /\ StopGoes("containers", "none")
    /\ svc' = "STOPPED"
    /\ timed' = FALSE
    /\ UNCHANGED <<ready, managerVars, op, health>>

ContainersRemoved ==
    /\ StopGoes("containers", "none")
    /\ svc' = "STOPPED"
    /\ ready' = FALSE
    /\ timed' = FALSE
    /\ UNCHANGED <<managerVars, op, health>>

(* shutdown()'s timeout cancels stop().  The stop methods of the watcher, of  *)
(* the checker and of the refresh service (part of stop_all) swallow the      *)
(* CancelledError, which also cancels once more the task they wait for.       *)
StopTimedOut ==
    /\ timed
    /\ timed' = FALSE
    /\ \/ /\ stopPc \in {"watcher", "health", "refresh"}
          /\ watcher' = IF watcher = "draining" THEN "cancelling" ELSE watcher
          /\ UNCHANGED <<svc, ready, stopPc, listed>>
       \/ /\ stopPc \in {"stacks", "global", "containers"}
          /\ stopPc' = "none"
          /\ svc' = "ERROR"
          /\ ready' = FALSE
          /\ listed' = {}
          /\ UNCHANGED watcher
    /\ UNCHANGED <<fileVars, startPc, configData, connected, uncounted,
                   sessions, stacks, catalogVars, lock, op, requests, noticed,
                   health, stops>>

StopStep ==
    \/ WatcherStopped
    \/ HealthStopped
    \/ StacksListed
    \/ \E b \in Backends, closed \in BOOLEAN : StackCloses(b, closed)
    \/ StacksClosed
    \/ GlobalStackClosed
    \/ ContainersRemoved
    \/ StopTimedOut

-----------------------------------------------------------------------------
Init ==
    /\ disk = FirstConfig /\ edits = 0
    /\ svc = "PENDING" /\ ready = FALSE /\ startPc = "new"
    /\ configData = NoSessions
    /\ connected = 0 /\ uncounted = FALSE
    /\ sessions = NoSessions /\ stacks = {} /\ listed = {}
    /\ tools = {} /\ served = {}
    /\ lock = None
    /\ op = [o \in Ops |-> NoOp]
    /\ requests = 0
    /\ watcher = "off" /\ noticed = TRUE
    /\ health = FALSE
    /\ stopPc = "none" /\ timed = FALSE /\ stops = 0

Next ==
    \/ Edit
    \/ StartStep
    \/ \E o \in Requests : RequestReload(o)
    \/ \E o \in Requests, b \in Backends : RequestReconnect(o, b)
    \/ WatcherFires \/ WatcherCalls \/ WatcherCancelled
    \/ \E o \in Ops : OpStep(o)
    \/ \E withTimeout \in BOOLEAN : StopBegins(withTimeout)
    \/ StopStep

(* Every await of an operation and of stop() has a timeout or waits for one   *)
(* that has: connects, closes and list calls; the file and container steps    *)
(* are local.  So the loop goes on as long as one of them can.  Which one is  *)
(* left open: with finitely many edits and requests none is passed over for   *)
(* ever.                                                                      *)
Fairness ==
    WF_vars(WatcherCancelled \/ StopStep \/ \E o \in Ops : OpStep(o))

Spec == Init /\ [][Next]_vars /\ Fairness

-----------------------------------------------------------------------------
OpRecords ==
    [kind : {"none", "reload", "reconnect"},
     pc   : {"idle", "hashing", "waiting", "loading", "closing", "preparing",
             "replacing", "initializing", "severed", "discovering", "cleanup"},
     name : Backends \cup {None},
     new  : Configs,
     todo : SUBSET Backends]

TypeOK ==
    /\ disk \in Configs \cup {Invalid} /\ edits \in 0 .. MaxEdits
    /\ svc \in ServiceStates /\ ready \in BOOLEAN
    /\ startPc \in {"new", "loading", "building", "connecting", "discovering",
                    "up", "failed"}
    /\ configData \in Configs \cup {NoSessions}
    /\ connected \in 0 .. Cardinality(Backends) /\ uncounted \in BOOLEAN
    /\ sessions \in [Backends -> Nat \X Nat]
    /\ stacks \in SUBSET Backends /\ listed \in SUBSET Backends
    /\ tools \in SUBSET Backends
    /\ served \in SUBSET Backends
    /\ lock \in Ops \cup {None}
    /\ op \in [Ops -> OpRecords]
    /\ requests \in 0 .. MaxRequests
    /\ watcher \in {"off", "on", "cancelling", "draining"}
    /\ noticed \in BOOLEAN
    /\ health \in BOOLEAN
    /\ stopPc \in {"none", "watcher", "health", "refresh", "stacks", "global",
                   "containers"}
    /\ timed \in BOOLEAN /\ stops \in 0 .. MaxStops

(* No reload or reconnect is under way and no stop has begun. *)
Settled == lock = None /\ svc = "RUNNING"

(* Between operations every session belongs to a configured backend and was   *)
(* opened with an entry that configs_differ does not tell from the one in     *)
(* force, whichever reloads, reconnects, edits, failures and timeouts came    *)
(* before (service.py reload, _do_reconnect, reconnect_backend).  The fields  *)
(* configs_differ leaves out are the subject of SessionCurrent.               *)
SessionFresh ==
    Settled => \A b \in Present(sessions) :
                  configData[b] # Absent /\ ~Differs(sessions[b], configData[b])

(* Between operations every session has the exit stack that can close it      *)
(* (client_manager.py disconnect_one, backend_connection.py                   *)
(* prepare_backend_stack).                                                    *)
SessionOwnsStack == Settled => Present(sessions) \subseteq stacks

(* Between operations the connected count of the status is the number of      *)
(* sessions, unless the last reconnect raised while it rebuilt the registry   *)
(* (service.py _backends_connected).                                          *)
ConnectedExact ==
    Settled /\ ~uncounted => connected = Cardinality(Present(sessions))

(* "Unchanged backends are left alone" (docs/architecture/03-config.md):      *)
(* until a stop begins, a session is closed only for a reconnect of that      *)
(* backend, or because the file the reload has read removes or changes it     *)
(* (service.py reload, _disconnect_backend).                                  *)
UnchangedLeftAlone ==
    [][\A b \in Backends :
         svc = "RUNNING" /\ sessions[b] # Absent /\ sessions'[b] = Absent
            => \E o \in Ops :
                 /\ lock = o /\ op[o].name = b
                 /\ op[o].kind = "reload" =>
                      b \in Removed(configData, op[o].new)
                              \cup Changed(configData, op[o].new)]_vars

(* The state follows the transition table although stop() and shutdown() also *)
(* assign it directly: the forced ERROR never replaces anything but STOPPING, *)
(* so STOPPED is final (service.py stop, shutdown; models.py                  *)
(* _VALID_TRANSITIONS).                                                       *)
LegalTransitions ==
    [][svc' # svc => \/ svc' \in ValidTransitions[svc]
                     \/ svc = "STARTING" /\ svc' = "STOPPING"]_svc

(* Whoever waits for readiness is let through only while the service runs or  *)
(* is being stopped (service.py _ready_event).                                *)
ReadyOnlyWhileUp == ready => svc \in {"RUNNING", "STOPPING"}

(* A stop that has begun ends, though it waits for a watcher whose reload may *)
(* hold the lock, wait for it, or swallow the cancellation in a connect       *)
(* (service.py stop, watcher.py stop, backend_connection.py                   *)
(* handle_cancelled_error).                                                   *)
StopCompletes == svc = "STOPPING" ~> svc \in {"STOPPED", "ERROR"}

(* "Stops all backend connections and transitions to STOPPED" (service.py     *)
(* stop): in STOPPED there is no session.                                     *)
StoppedHasNoSessions == svc = "STOPPED" => sessions = NoSessions

(* configs_differ "falls back to dict equality for other fields" (diff.py)    *)
(* and "Changed backends are reconnected" (docs/architecture/03-config.md):   *)
(* between operations every session was opened with the whole entry that is   *)
(* in force, the container and network settings of a stdio backend included.  *)
SessionCurrent ==
    Settled => \A b \in Present(sessions) : sessions[b] = configData[b]

(* Config sync "automatically reloads backends, middleware, and the tool      *)
(* catalog" (docs/sync): between operations the capabilities the MCP server   *)
(* lists belong to configured backends.                                       *)
ServedIsConfigured == Settled => served \subseteq Present(configData)
=============================================================================
