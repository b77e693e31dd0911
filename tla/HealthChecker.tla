---------------------------- MODULE HealthChecker ----------------------------
(* The periodic health checker with the parts it works on: the circuit        *)
(* breaker of each backend, the phase of its status record, and the           *)
(* capability registry it hides a sick backend's capabilities from and        *)
(* restores them to.  asyncio switches tasks only at an await, so an action   *)
(* is the code between two awaits.                                            *)
(*                                                                            *)
(* The registry holds, for every capability type, a list object and one route *)
(* map.  remove_backend binds NEW list objects; discover_single_backend       *)
(* appends to the list object it picked up before its await.  A restore task  *)
(* therefore carries "orphan": its list was replaced while it was waiting.    *)
EXTENDS CircuitBreaker, Lifecycle, FiniteSets, FiniteSetsExt

CONSTANTS
    Backends,
    Started,            \* the backends that start_all connected
    NumTypes,           \* capability types, in discovery order 1..NumTypes
    MaxDisconnects,     \* bound: disconnects by reload and reconnect
    MaxRestores         \* bound: restore tasks alive at a time

ASSUME StartedAssumption == Started \subseteq Backends
ASSUME NumTypesAssumption == NumTypes \in Nat \ {0} /\ MaxDisconnects \in Nat

VARIABLES
    sessions,   \* ClientManager._sessions: the connected backends
    disconnects,\* how many sessions reload and reconnect have closed
    connecting, \* backends inside start_backend_svr (reload or reconnect)
    phase,      \* BackendStatusRecord.phase
    running,    \* the _run task is alive
    check,      \* _check of each backend: "idle", "due" (task made), "probing"
    health,     \* BackendHealth.state
    circuit,    \* BackendHealth.circuit
    twin,       \* the same calls made on the other breaker implementation
    routed,     \* capabilities in _route_map
    listed,     \* capabilities in the current _tools/_resources/_prompts
    restore     \* how many restore-caps tasks each backend has in each state

vars == <<sessions, disconnects, connecting, phase, running, check, health,
          circuit, twin, routed, listed, restore>>

managerVars == <<sessions, disconnects, connecting>>
checkVars == <<running, check>>
registryVars == <<routed, listed, restore>>

HealthStates == {"UNKNOWN", "HEALTHY", "DEGRADED", "UNHEALTHY"}
Types == 1 .. NumTypes
Caps == Types \X Backends
CapsOf(b) == Types \X {b}

(* A restore task is made but not started (type 0) or waits for the           *)
(* capabilities of "type".                                                    *)
Restores == [type : 0 .. NumTypes, orphan : BOOLEAN]
Scheduled == [type |-> 0, orphan |-> FALSE]
Idle == [t \in Restores |-> 0]
RestoresAlive ==
    MapThenSumSet(LAMBDA p : restore[p[1]][p[2]], Backends \X Restores)

-----------------------------------------------------------------------------
(* The registry.                                                              *)

(* A remove_backend that forgets the lists. *)
RemoveFromRoutesOnly(b) ==
    /\ routed' = routed \ CapsOf(b)
    /\ UNCHANGED <<listed, restore>>

(* remove_backend: drop b's routes and the entries with those names, in new   *)
(* list objects; whoever still holds an old list appends to garbage.          *)
RemoveBackend(b) ==
    LET keysToRemove == routed \cap CapsOf(b) IN
    /\ routed' = routed \ keysToRemove
    /\ listed' = listed \ keysToRemove
    /\ restore' = [x \in Backends |-> [t \in Restores |->
                     CASE t.type = 0 -> restore[x][t]
                       [] t.type # 0 /\ ~t.orphan -> 0
                       [] t.type # 0 /\ t.orphan ->
                            restore[x][t] + restore[x][[t EXCEPT !.orphan = FALSE]]]]

(* A task t of b goes on to the next type, whose current list it picks up, or *)
(* ends after the last one.                                                   *)
Advance(b, t) ==
    LET left == [restore[b] EXCEPT ![t] = @ - 1]
        next == [type |-> t.type + 1, orphan |-> FALSE] IN
    [restore EXCEPT ![b] = IF t.type = NumTypes THEN left
                           ELSE [left EXCEPT ![next] = @ + 1]]

(* discover_single_backend starts: it picks up the list of the first type. *)
RestoreStart(b) ==
    /\ restore[b][Scheduled] > 0
    /\ restore' = Advance(b, Scheduled)
    /\ UNCHANGED <<managerVars, phase, checkVars, health, circuit,
                   twin, routed, listed>>

(* _discover_caps_by_type returns from its await.  A duplicate of the same    *)
(* backend is skipped; otherwise the capability goes to the list that was     *)
(* picked up and to the route map.  A timeout or an error adds nothing.  The  *)
(* list of the next type is picked up in the same step.                       *)
RestoreType(b, t, ok) ==
    LET cap == <<t.type, b>>
        new == ok /\ cap \notin routed IN
    /\ t.type # 0 /\ restore[b][t] > 0
    /\ routed' = IF new THEN routed \cup {cap} ELSE routed
    /\ listed' = IF new /\ ~t.orphan THEN listed \cup {cap} ELSE listed
    /\ restore' = Advance(b, t)
    /\ UNCHANGED <<managerVars, phase, checkVars, health, circuit, twin>>

-----------------------------------------------------------------------------
(* The checker.                                                               *)

(* A _sync_status_record that stores the health state itself. *)
SyncHealthState(b, h) == phase' = [phase EXCEPT ![b] = h]

(* _sync_status_record *)
SyncStatusRecord(b, h) ==
    LET target == CASE h = "HEALTHY"   -> "READY"
                    [] h = "DEGRADED"  -> "DEGRADED"
                    [] h = "UNHEALTHY" -> "FAILED"
    IN  phase' = [phase EXCEPT ![b] = Transition(phase[b], target)]

(* _run: the interval after the last round has passed; a round gathers one    *)
(* _check task per session of the moment.                                     *)
StartRound ==
    /\ running /\ sessions # {}
    /\ \A b \in Backends : check[b] = "idle"
    /\ check' = [b \in Backends |-> IF b \in sessions THEN "due" ELSE "idle"]
    /\ UNCHANGED <<managerVars, phase, running, health,
                   circuit, twin, registryVars>>

(* _check up to its await.  An open circuit ends the check. *)
CheckSkipped(b) ==
    /\ check[b] = "due"
    /\ ~AllowsRequest(circuit[b])
    /\ check' = [check EXCEPT ![b] = "idle"]
    /\ UNCHANGED <<managerVars, phase, running,
                   health, circuit, twin, registryVars>>

CheckStart(b) ==
    /\ check[b] = "due"
    /\ AllowsRequest(circuit[b])
    /\ b \in sessions
    /\ check' = [check EXCEPT ![b] = "probing"]
    /\ circuit' = [circuit EXCEPT ![b] = ReadState(circuit[b])]
    /\ twin' = [twin EXCEPT ![b] = RustCheckTransition(twin[b])]
    /\ UNCHANGED <<managerVars, phase, running, health,
                   registryVars>>

(* The session went away after the round was gathered: UNHEALTHY, but the     *)
(* capabilities stay.                                                         *)
CheckNoSession(b) ==
    /\ check[b] = "due"
    /\ AllowsRequest(circuit[b])
    /\ b \notin sessions
    /\ check' = [check EXCEPT ![b] = "idle"]
    /\ health' = [health EXCEPT ![b] = "UNHEALTHY"]
    /\ circuit' = [circuit EXCEPT ![b] = RecordFailure(ReadState(circuit[b]))]
    /\ twin' = [twin EXCEPT ![b] = RustRecordFailure(RustCheckTransition(twin[b]))]
    /\ SyncStatusRecord(b, "UNHEALTHY")
    /\ UNCHANGED <<managerVars, running, registryVars>>

(* A visibility rule that hides a backend that is merely degraded. *)
HidesDegraded(b, h) ==
    \/ h \in {"UNHEALTHY", "DEGRADED"} /\ RemoveBackend(b)
    \/ h = "HEALTHY" /\ UNCHANGED registryVars

(* The visibility rule at the end of _check.  _restore_backend_capabilities   *)
(* makes a task only when the backend has a session, and makes another when   *)
(* an earlier one is still waiting (MaxRestores bounds how many there are).   *)
SetVisibility(b, h) ==
    \/ /\ h = "UNHEALTHY"
       /\ RemoveBackend(b)
    \/ /\ h # "UNHEALTHY" /\ health[b] = "UNHEALTHY" /\ b \in sessions
       /\ RestoresAlive < MaxRestores
       /\ restore' = [restore EXCEPT ![b][Scheduled] = @ + 1]
       /\ UNCHANGED <<routed, listed>>
    \/ /\ h # "UNHEALTHY"
       /\ health[b] # "UNHEALTHY" \/ b \notin sessions
       /\ UNCHANGED registryVars

(* The probe answers; slow: above degraded_latency_ms. *)
ProbeOk(b, slow) ==
    LET h == IF slow THEN "DEGRADED" ELSE "HEALTHY" IN
    /\ check[b] = "probing"
    /\ check' = [check EXCEPT ![b] = "idle"]
    /\ circuit' = [circuit EXCEPT ![b] = RecordSuccess(circuit[b])]
    /\ twin' = [twin EXCEPT ![b] = RustRecordSuccess(twin[b])]
    /\ health' = [health EXCEPT ![b] = h]
    /\ SetVisibility(b, h)
    /\ SyncStatusRecord(b, h)
    /\ UNCHANGED <<managerVars, running>>

(* The probe times out or raises. *)
ProbeFailed(b) ==
    LET c == RecordFailure(circuit[b])
        h == IF AllowsRequest(c) THEN "DEGRADED" ELSE "UNHEALTHY" IN
    /\ check[b] = "probing"
    /\ check' = [check EXCEPT ![b] = "idle"]
    /\ circuit' = [circuit EXCEPT ![b] = c]
    /\ twin' = [twin EXCEPT ![b] = RustRecordFailure(twin[b])]
    /\ health' = [health EXCEPT ![b] = h]
    /\ SetVisibility(b, h)
    /\ SyncStatusRecord(b, h)
    /\ UNCHANGED <<managerVars, running>>

(* stop(): the round's checks are cancelled with the task (CancelledError is  *)
(* not an Exception, so they record nothing); restore tasks keep running.     *)
Stop ==
    /\ running
    /\ running' = FALSE
    /\ check' = [b \in Backends |-> "idle"]
    /\ UNCHANGED <<managerVars, phase, health, circuit,
                   twin, registryVars>>

CooldownElapses(b) ==
    /\ circuit[b].state = "OPEN" /\ ~circuit[b].cooled
    /\ circuit' = [circuit EXCEPT ![b] = CoolDown(circuit[b])]
    /\ twin' = [twin EXCEPT ![b] = CoolDown(twin[b])]
    /\ UNCHANGED <<managerVars, phase, checkVars, health, registryVars>>

-----------------------------------------------------------------------------
(* What reload and reconnect do to the sessions and phases meanwhile.         *)

Disconnect(b) ==
    /\ b \in sessions /\ disconnects < MaxDisconnects
    /\ disconnects' = disconnects + 1
    /\ sessions' = sessions \ {b}
    /\ UNCHANGED <<connecting, phase, checkVars, health, circuit, twin,
                   registryVars>>

(* start_backend_svr; the reload lock lets one run at a time. *)
ConnectStart(b) ==
    /\ b \notin sessions /\ connecting = {}
    /\ connecting' = {b}
    /\ phase' = [phase EXCEPT ![b] = Transition(phase[b], "INITIALIZING")]
    /\ UNCHANGED <<sessions, disconnects, checkVars, health, circuit, twin,
                   registryVars>>

ConnectOutcomes == {"READY", "FAILED", "INITIALIZING"}

(* It ends connected, failed, or failed with a login still open in the        *)
(* browser: the record then keeps INITIALIZING.                               *)
ConnectEnd(b, outcome) ==
    /\ b \in connecting
    /\ connecting' = {}
    /\ sessions' = IF outcome = "READY" THEN sessions \cup {b} ELSE sessions
    /\ phase' = [phase EXCEPT ![b] = Transition(phase[b], outcome)]
    /\ UNCHANGED <<disconnects, checkVars, health, circuit, twin, registryVars>>

-----------------------------------------------------------------------------
(* start(), after ArgusService.start connected some backends and discovered   *)
(* their capabilities.                                                        *)
Init ==
    /\ sessions = Started
    /\ disconnects = 0
    /\ connecting = {}
    /\ phase = [b \in Backends |-> IF b \in sessions THEN "READY" ELSE "FAILED"]
    /\ running = TRUE
    /\ check = [b \in Backends |-> "idle"]
    /\ health = [b \in Backends |-> "UNKNOWN"]
    /\ circuit = [b \in Backends |-> FreshBreaker]
    /\ twin = circuit
    /\ routed = Types \X sessions
    /\ listed = routed
    /\ restore = [b \in Backends |-> Idle]

CheckStep(b) ==
    \/ CheckSkipped(b)
    \/ CheckStart(b)
    \/ CheckNoSession(b)
    \/ \E slow \in BOOLEAN : ProbeOk(b, slow)
    \/ ProbeFailed(b)

RestoreStep(b) ==
    \/ RestoreStart(b)
    \/ \E t \in Restores, ok \in BOOLEAN : RestoreType(b, t, ok)

Next ==
    \/ StartRound
    \/ Stop
    \/ \E b \in Backends :
         \/ CheckStep(b)
         \/ RestoreStep(b)
         \/ CooldownElapses(b)
         \/ Disconnect(b)
         \/ ConnectStart(b)
         \/ \E outcome \in ConnectOutcomes : ConnectEnd(b, outcome)

(* The loop waits with a timeout, every probe has one, and time passes: the   *)
(* checker as a whole never stops short.  Nothing is assumed of the answers,  *)
(* nor of reload.                                                             *)
Fairness ==
    /\ WF_vars(StartRound \/ \E b \in Backends : CheckStep(b))
    /\ \A b \in Backends : WF_vars(CooldownElapses(b))

Spec == Init /\ [][Next]_vars /\ Fairness

-----------------------------------------------------------------------------
TypeOK ==
    /\ sessions \in SUBSET Backends
    /\ disconnects \in 0 .. MaxDisconnects
    /\ connecting \in SUBSET Backends
    /\ phase \in [Backends -> BackendPhases]
    /\ running \in BOOLEAN
    /\ check \in [Backends -> {"idle", "due", "probing"}]
    /\ health \in [Backends -> HealthStates]
    /\ circuit \in [Backends -> Breakers]
    /\ twin \in [Backends -> Breakers]
    /\ routed \in SUBSET Caps
    /\ listed \in SUBSET Caps
    /\ restore \in [Backends -> [Restores -> Nat]]

(* The Python breaker and its Rust replacement, given the same calls by       *)
(* _check, are always in the same state, though only one of them looks at the *)
(* threshold when a half-open probe fails (circuit_breaker.py record_failure, *)
(* lib.rs record_failure).                                                    *)
TwinBreakersAgree == twin = circuit

(* Whatever is advertised can be called: a capability in the lists always has *)
(* a route, whichever way hiding and restoring interleave                     *)
(* (capability_registry.py remove_backend, discover_single_backend).          *)
ListedRoutable == listed \subseteq routed

(* A backend's capabilities are withdrawn only in the step in which its       *)
(* circuit trips, after Threshold consecutive failed checks, and then         *)
(* completely (checker.py _check, _hide_backend_capabilities).                *)
HiddenOnlyByTrip ==
    [][\A b \in Backends :
         ~(routed \cap CapsOf(b) \subseteq routed')
            => /\ circuit'[b].state = "OPEN"
               /\ circuit'[b].failures >= Threshold
               /\ (routed' \cup listed') \cap CapsOf(b) = {}]_vars

(* An open circuit does not stay open while the backend has a session: the    *)
(* cooldown ends, the next round reads the state and probes the backend again *)
(* (circuit_breaker.py state, checker.py _run).                               *)
OpenIsProbedAgain ==
    \A b \in Backends :
        circuit[b].state = "OPEN" ~>
            (circuit[b].state # "OPEN" \/ b \notin sessions \/ ~running)

(* checker.py says it "dynamically shows/hides capabilities in the registry   *)
(* based on health": a backend whose circuit stays open gets no route back    *)
(* (_hide_backend_capabilities, _restore_backend_capabilities).               *)
SickStaysHidden ==
    [][\A b \in Backends :
         circuit[b].state = "OPEN" /\ circuit'[b].state = "OPEN"
            => routed' \cap CapsOf(b) \subseteq routed]_vars

(* _restore_backend_capabilities says "Re-discover and add a backend's        *)
(* capabilities": once no restore is in flight, a capability that has a route *)
(* is also in the exposed lists.                                              *)
RestoredIsListed ==
    (\A b \in Backends : restore[b] = Idle) => routed \subseteq listed
=============================================================================
