------------------------- MODULE HealthCheckerProofs -------------------------
(* The invariants of HealthChecker, for any backends, capability types,       *)
(* threshold and number of disconnects.                                       *)
EXTENDS HealthChecker, TLAPS

(* The Python breaker opens a half-open circuit only if the threshold is      *)
(* reached; it always is, because a circuit that is not closed has counted    *)
(* that many failures.  Without this conjunct TwinBreakersAgree is not        *)
(* inductive.                                                                 *)
IInv ==
    /\ TypeOK
    /\ TwinBreakersAgree
    /\ ListedRoutable
    /\ \A b \in Backends : Tripped(circuit[b])

-----------------------------------------------------------------------------
(* The calls on a breaker keep its type and keep it tripped unless closed.    *)
LEMMA BreakerCalls ==
    ASSUME NEW c \in Breakers, Tripped(c)
    PROVE  /\ ReadState(c) \in Breakers /\ Tripped(ReadState(c))
           /\ RecordSuccess(c) \in Breakers /\ Tripped(RecordSuccess(c))
           /\ RecordFailure(c) \in Breakers /\ Tripped(RecordFailure(c))
           /\ CoolDown(c) \in Breakers /\ Tripped(CoolDown(c))
<1> USE ThresholdAssumption DEF Breakers, CircuitStates, Tripped
<1>1. ReadState(c) \in Breakers /\ Tripped(ReadState(c))
  BY DEF ReadState
<1>2. RecordSuccess(c) \in Breakers /\ Tripped(RecordSuccess(c))
  BY DEF RecordSuccess
<1>3. RecordFailure(c) \in Breakers /\ Tripped(RecordFailure(c))
  BY DEF RecordFailure, OneMore
<1>4. CoolDown(c) \in Breakers /\ Tripped(CoolDown(c))
  BY DEF CoolDown
<1> QED BY <1>1, <1>2, <1>3, <1>4

(* The Rust calls do what the Python calls do. *)
LEMMA RustCalls ==
    ASSUME NEW c \in Breakers, Tripped(c)
    PROVE  /\ RustCheckTransition(c) = ReadState(c)
           /\ RustRecordSuccess(c) = RecordSuccess(c)
           /\ RustRecordFailure(c) = RecordFailure(c)
<1>1. RustCheckTransition(c) = ReadState(c) /\ RustRecordSuccess(c) = RecordSuccess(c)
  BY DEF RustCheckTransition, ReadState, RustRecordSuccess, RecordSuccess
<1>2. RustRecordFailure(c) = RecordFailure(c)
  <2>1. c.state = "HALF_OPEN" => OneMore(c.failures) >= Threshold
    BY ThresholdAssumption DEF OneMore, Breakers, Tripped
  <2>2. CASE c.state = "HALF_OPEN"
    BY <2>1, <2>2 DEF RustRecordFailure, RecordFailure
  <2>3. CASE c.state # "HALF_OPEN"
    BY <2>3 DEF RustRecordFailure, RecordFailure
  <2> QED BY <2>2, <2>3
<1> QED BY <1>1, <1>2

(* A transition of a status record stays within the phases. *)
LEMMA TransitionType ==
    ASSUME NEW p \in BackendPhases,
           NEW q \in {"INITIALIZING", "READY", "DEGRADED", "FAILED"}
    PROVE  Transition(p, q) \in BackendPhases
BY DEF Transition, BackendPhases

LEMMA SyncType ==
    ASSUME TypeOK, NEW b \in Backends,
           NEW h \in {"HEALTHY", "DEGRADED", "UNHEALTHY"},
           SyncStatusRecord(b, h)
    PROVE  phase' \in [Backends -> BackendPhases]
BY TransitionType DEF TypeOK, SyncStatusRecord

(* A task that goes on leaves the counts of tasks natural numbers. *)
LEMMA AdvanceType ==
    ASSUME TypeOK, NEW b \in Backends, NEW t \in Restores, restore[b][t] > 0
    PROVE  Advance(b, t) \in [Backends -> [Restores -> Nat]]
<1> DEFINE left == [restore[b] EXCEPT ![t] = @ - 1]
           next == [type |-> t.type + 1, orphan |-> FALSE]
<1>1. restore[b] \in [Restores -> Nat]
  BY DEF TypeOK
<1>2. restore[b][t] - 1 \in Nat
  BY <1>1
<1>3. left \in [Restores -> Nat]
  BY <1>1, <1>2
<1>4. CASE t.type = NumTypes
  BY <1>3, <1>4 DEF Advance, TypeOK
<1>5. CASE t.type # NumTypes
  <2>1. next \in Restores
    BY <1>5, NumTypesAssumption DEF Restores
  <2>2. [left EXCEPT ![next] = @ + 1] \in [Restores -> Nat]
    BY <1>3, <2>1
  <2> QED BY <1>5, <2>2 DEF Advance, TypeOK
<1> QED BY <1>4, <1>5

(* Hiding and scheduling a restore keep the registry's types and keep every   *)
(* listed capability routed.                                                  *)
LEMMA VisibilityType ==
    ASSUME TypeOK, ListedRoutable, NEW b \in Backends, NEW h,
           SetVisibility(b, h)
    PROVE  /\ routed' \in SUBSET Caps /\ listed' \in SUBSET Caps
           /\ restore' \in [Backends -> [Restores -> Nat]]
           /\ ListedRoutable'
<1>1. CASE RemoveBackend(b)
  <2>1. routed' \subseteq routed /\ listed' \subseteq listed /\ listed' \subseteq routed'
    BY <1>1 DEF RemoveBackend, ListedRoutable
  <2>2. /\ \A x \in Backends, t \in Restores : restore[x][t] \in Nat
        /\ \A t \in Restores : [t EXCEPT !.orphan = FALSE] \in Restores
    <3>1. \A x \in Backends, t \in Restores : restore[x][t] \in Nat
      BY DEF TypeOK
    <3>2. \A t \in Restores : [t EXCEPT !.orphan = FALSE] \in Restores
      BY DEF Restores
    <3> QED BY <3>1, <3>2
  <2> DEFINE n(x, t) == CASE t.type = 0 -> restore[x][t]
                          [] t.type # 0 /\ ~t.orphan -> 0
                          [] t.type # 0 /\ t.orphan ->
                               restore[x][t] + restore[x][[t EXCEPT !.orphan = FALSE]]
  <2>3. ASSUME NEW x \in Backends, NEW t \in Restores PROVE n(x, t) \in Nat
    <3>1. t.orphan \in BOOLEAN
      BY DEF Restores
    <3>2. restore[x][t] \in Nat /\ restore[x][[t EXCEPT !.orphan = FALSE]] \in Nat
      BY <2>2
    <3> QED BY <3>1, <3>2
  <2>4. restore' = [x \in Backends |-> [t \in Restores |-> n(x, t)]]
    BY <1>1 DEF RemoveBackend
  <2> HIDE DEF n
  <2>5. restore' \in [Backends -> [Restores -> Nat]]
    BY <2>3, <2>4
  <2> QED BY <2>1, <2>5 DEF TypeOK, ListedRoutable
<1>2. CASE /\ restore' = [restore EXCEPT ![b][Scheduled] = @ + 1]
            /\ UNCHANGED <<routed, listed>>
  <2>1. Scheduled \in Restores
    BY NumTypesAssumption DEF Scheduled, Restores
  <2> QED BY <1>2, <2>1 DEF TypeOK, ListedRoutable
<1>3. CASE UNCHANGED registryVars
  BY <1>3 DEF registryVars, TypeOK, ListedRoutable
<1> QED BY <1>1, <1>2, <1>3 DEF SetVisibility

-----------------------------------------------------------------------------
LEMMA InitIInv == Init => IInv
<1> SUFFICES ASSUME Init PROVE IInv
  OBVIOUS
<1>1. FreshBreaker \in Breakers /\ Tripped(FreshBreaker)
  BY ThresholdAssumption DEF FreshBreaker, Breakers, CircuitStates, Tripped
<1>2. Idle \in [Restores -> Nat]
  BY DEF Idle
<1>3. TypeOK
  BY <1>1, <1>2, StartedAssumption, NumTypesAssumption
     DEF Init, TypeOK, BackendPhases, HealthStates, Caps
<1> QED BY <1>1, <1>3 DEF Init, IInv, TwinBreakersAgree, ListedRoutable

(* The breaker conjuncts after a step that does f to b's circuit and twin. *)
LEMMA CircuitStep ==
    ASSUME IInv, NEW b \in Backends, NEW c \in Breakers, Tripped(c),
           circuit' = [circuit EXCEPT ![b] = c], twin' = [twin EXCEPT ![b] = c]
    PROVE  /\ circuit' \in [Backends -> Breakers]
           /\ twin' \in [Backends -> Breakers]
           /\ TwinBreakersAgree'
           /\ \A x \in Backends : Tripped(circuit'[x])
BY DEF IInv, TypeOK, TwinBreakersAgree

(* One step per action: IInv is preserved. *)
LEMMA StepIInv == IInv /\ [Next]_vars => IInv'
<1> SUFFICES ASSUME IInv, [Next]_vars PROVE IInv'
  OBVIOUS
<1>1. \A b \in Backends : /\ circuit[b] \in Breakers /\ Tripped(circuit[b])
                          /\ twin[b] = circuit[b]
  BY DEF IInv, TypeOK, TwinBreakersAgree
<1>2. CASE StartRound
  BY <1>2 DEF StartRound, managerVars, registryVars, IInv, TypeOK,
              TwinBreakersAgree, ListedRoutable
<1>3. CASE Stop
  BY <1>3 DEF Stop, managerVars, registryVars, IInv, TypeOK,
              TwinBreakersAgree, ListedRoutable
<1>4. ASSUME NEW b \in Backends, CheckSkipped(b)
      PROVE  IInv'
  BY <1>4 DEF CheckSkipped, managerVars, registryVars, IInv, TypeOK,
              TwinBreakersAgree, ListedRoutable
<1>5. ASSUME NEW b \in Backends, CheckStart(b)
      PROVE  IInv'
  <2>1. ReadState(circuit[b]) \in Breakers /\ Tripped(ReadState(circuit[b]))
    BY <1>1, BreakerCalls
  <2>2. twin' = [twin EXCEPT ![b] = ReadState(circuit[b])]
    BY <1>1, <1>5, RustCalls DEF CheckStart
  <2>3. /\ circuit' \in [Backends -> Breakers] /\ twin' \in [Backends -> Breakers]
        /\ TwinBreakersAgree' /\ \A x \in Backends : Tripped(circuit'[x])
    BY <1>5, <2>1, <2>2, CircuitStep DEF CheckStart
  <2> QED
    BY <1>5, <2>3
       DEF CheckStart, managerVars, registryVars, IInv, TypeOK, ListedRoutable
<1>6. ASSUME NEW b \in Backends, CheckNoSession(b)
      PROVE  IInv'
  <2> DEFINE c == RecordFailure(ReadState(circuit[b]))
  <2>1. ReadState(circuit[b]) \in Breakers /\ Tripped(ReadState(circuit[b]))
    BY <1>1, BreakerCalls
  <2>2. c \in Breakers /\ Tripped(c)
    BY <2>1, BreakerCalls
  <2>3. twin' = [twin EXCEPT ![b] = c]
    BY <1>1, <1>6, <2>1, RustCalls DEF CheckNoSession
  <2>4. circuit' = [circuit EXCEPT ![b] = c]
    BY <1>6 DEF CheckNoSession
  <2> HIDE DEF c
  <2>5. /\ circuit' \in [Backends -> Breakers] /\ twin' \in [Backends -> Breakers]
        /\ TwinBreakersAgree' /\ \A x \in Backends : Tripped(circuit'[x])
    BY <2>2, <2>3, <2>4, CircuitStep
  <2>6. phase' \in [Backends -> BackendPhases]
    BY <1>6, SyncType DEF CheckNoSession, IInv
  <2> QED
    BY <1>6, <2>5, <2>6
       DEF CheckNoSession, managerVars, registryVars, IInv, TypeOK, HealthStates,
           ListedRoutable
<1>7. ASSUME NEW b \in Backends, NEW slow \in BOOLEAN, ProbeOk(b, slow)
      PROVE  IInv'
  <2> DEFINE h == IF slow THEN "DEGRADED" ELSE "HEALTHY"
  <2>1. RecordSuccess(circuit[b]) \in Breakers /\ Tripped(RecordSuccess(circuit[b]))
    BY <1>1, BreakerCalls
  <2>2. twin' = [twin EXCEPT ![b] = RecordSuccess(circuit[b])]
    BY <1>1, <1>7, RustCalls DEF ProbeOk
  <2>3. /\ circuit' \in [Backends -> Breakers] /\ twin' \in [Backends -> Breakers]
        /\ TwinBreakersAgree' /\ \A x \in Backends : Tripped(circuit'[x])
    BY <1>7, <2>1, <2>2, CircuitStep DEF ProbeOk
  <2>4. phase' \in [Backends -> BackendPhases]
    BY <1>7, SyncType DEF ProbeOk, IInv
  <2>5. /\ routed' \in SUBSET Caps /\ listed' \in SUBSET Caps
        /\ restore' \in [Backends -> [Restores -> Nat]]
        /\ ListedRoutable'
    BY <1>7, VisibilityType DEF ProbeOk, IInv
  <2> QED
    BY <1>7, <2>3, <2>4, <2>5
       DEF ProbeOk, managerVars, IInv, TypeOK, HealthStates
<1>8. ASSUME NEW b \in Backends, ProbeFailed(b)
      PROVE  IInv'
  <2>1. RecordFailure(circuit[b]) \in Breakers /\ Tripped(RecordFailure(circuit[b]))
    BY <1>1, BreakerCalls
  <2>2. twin' = [twin EXCEPT ![b] = RecordFailure(circuit[b])]
    BY <1>1, <1>8, RustCalls DEF ProbeFailed
  <2>3. /\ circuit' \in [Backends -> Breakers] /\ twin' \in [Backends -> Breakers]
        /\ TwinBreakersAgree' /\ \A x \in Backends : Tripped(circuit'[x])
    BY <1>8, <2>1, <2>2, CircuitStep DEF ProbeFailed
  <2>4. phase' \in [Backends -> BackendPhases]
    BY <1>8, SyncType DEF ProbeFailed, IInv
  <2>5. /\ routed' \in SUBSET Caps /\ listed' \in SUBSET Caps
        /\ restore' \in [Backends -> [Restores -> Nat]]
        /\ ListedRoutable'
    BY <1>8, VisibilityType DEF ProbeFailed, IInv
  <2> QED
    BY <1>8, <2>3, <2>4, <2>5
       DEF ProbeFailed, managerVars, IInv, TypeOK, HealthStates
<1>9. ASSUME NEW b \in Backends, RestoreStart(b)
      PROVE  IInv'
  <2>1. Scheduled \in Restores
    BY NumTypesAssumption DEF Scheduled, Restores
  <2>2. restore' \in [Backends -> [Restores -> Nat]]
    BY <1>9, <2>1, AdvanceType DEF RestoreStart, IInv
  <2> QED
    BY <1>9, <2>2
       DEF RestoreStart, managerVars, checkVars, IInv, TypeOK, TwinBreakersAgree,
           ListedRoutable
<1>10. ASSUME NEW b \in Backends, NEW t \in Restores, NEW ok \in BOOLEAN,
              RestoreType(b, t, ok)
       PROVE  IInv'
  <2> DEFINE cap == <<t.type, b>>
  <2>1. restore' \in [Backends -> [Restores -> Nat]]
    BY <1>10, AdvanceType DEF RestoreType, IInv
  <2>2. cap \in Caps
    BY <1>10, NumTypesAssumption DEF RestoreType, Restores, Types, Caps
  <2>3. routed' \in SUBSET Caps /\ listed' \in SUBSET Caps /\ ListedRoutable'
    BY <1>10, <2>2 DEF RestoreType, IInv, TypeOK, ListedRoutable
  <2> QED
    BY <1>10, <2>1, <2>3
       DEF RestoreType, managerVars, checkVars, IInv, TypeOK, TwinBreakersAgree
<1>11. ASSUME NEW b \in Backends, CooldownElapses(b)
       PROVE  IInv'
  <2>1. CoolDown(circuit[b]) \in Breakers /\ Tripped(CoolDown(circuit[b]))
    BY <1>1, BreakerCalls
  <2>2. twin' = [twin EXCEPT ![b] = CoolDown(circuit[b])]
    BY <1>1, <1>11 DEF CooldownElapses
  <2>3. /\ circuit' \in [Backends -> Breakers] /\ twin' \in [Backends -> Breakers]
        /\ TwinBreakersAgree' /\ \A x \in Backends : Tripped(circuit'[x])
    BY <1>11, <2>1, <2>2, CircuitStep DEF CooldownElapses
  <2> QED
    BY <1>11, <2>3
       DEF CooldownElapses, managerVars, checkVars, registryVars, IInv, TypeOK,
           ListedRoutable
<1>12. ASSUME NEW b \in Backends, Disconnect(b)
       PROVE  IInv'
  BY <1>12, NumTypesAssumption
     DEF Disconnect, checkVars, registryVars, IInv, TypeOK, TwinBreakersAgree,
         ListedRoutable
<1>13. ASSUME NEW b \in Backends, ConnectStart(b)
       PROVE  IInv'
  BY <1>13, TransitionType
     DEF ConnectStart, checkVars, registryVars, IInv, TypeOK, TwinBreakersAgree,
         ListedRoutable
<1>14. ASSUME NEW b \in Backends, NEW outcome \in ConnectOutcomes,
              ConnectEnd(b, outcome)
       PROVE  IInv'
  BY <1>14, TransitionType
     DEF ConnectEnd, ConnectOutcomes, checkVars, registryVars, IInv, TypeOK,
         TwinBreakersAgree, ListedRoutable
<1>15. CASE UNCHANGED vars
  BY <1>15 DEF vars, IInv, TypeOK, TwinBreakersAgree, ListedRoutable
<1> QED
  BY <1>2, <1>3, <1>4, <1>5, <1>6, <1>7, <1>8, <1>9, <1>10, <1>11, <1>12, <1>13,
     <1>14, <1>15 DEF Next, CheckStep, RestoreStep

(* IInv is an invariant of the health checker. *)
THEOREM InductiveInvariant == Spec => []IInv
BY InitIInv, StepIInv, PTL DEF Spec

(* The variables keep their types, for any number of backends and types. *)
THEOREM TypeCorrect == Spec => []TypeOK
<1>1. IInv => TypeOK
  BY DEF IInv
<1> QED BY <1>1, InductiveInvariant, PTL

(* The Python breaker and its Rust replacement never disagree                 *)
(* (circuit_breaker.py and lib.rs, as _check uses them).                      *)
THEOREM TwinBreakersAgreeAlways == Spec => []TwinBreakersAgree
<1>1. IInv => TwinBreakersAgree
  BY DEF IInv
<1> QED BY <1>1, InductiveInvariant, PTL

(* Every advertised capability has a route (remove_backend,                   *)
(* discover_single_backend).                                                  *)
THEOREM ListedRoutableAlways == Spec => []ListedRoutable
<1>1. IInv => ListedRoutable
  BY DEF IInv
<1> QED BY <1>1, InductiveInvariant, PTL

-----------------------------------------------------------------------------
(* What HiddenOnlyByTrip says of one step. *)
HidesOnlyByTrip ==
    \A b \in Backends :
        ~(routed \cap CapsOf(b) \subseteq routed')
            => /\ circuit'[b].state = "OPEN"
               /\ circuit'[b].failures >= Threshold
               /\ (routed' \cup listed') \cap CapsOf(b) = {}

(* The only step that takes routes away is a failed probe that leaves the     *)
(* circuit open.                                                              *)
LEMMA ProbeFailedHides ==
    ASSUME IInv, IInv', NEW b \in Backends, ProbeFailed(b)
    PROVE  HidesOnlyByTrip
<1> DEFINE c == RecordFailure(circuit[b])
           h == IF AllowsRequest(c) THEN "DEGRADED" ELSE "UNHEALTHY"
<1>1. SetVisibility(b, h) /\ circuit' = [circuit EXCEPT ![b] = c]
  BY DEF ProbeFailed
<1>2. circuit'[b] = c /\ c \in Breakers
  BY <1>1 DEF IInv, TypeOK
<1>3. CASE RemoveBackend(b) /\ h = "UNHEALTHY"
  <2>1. c.state = "OPEN"
    BY <1>2, <1>3 DEF AllowsRequest, ReadState, Breakers
  <2>2. c.failures >= Threshold
    BY <1>2, <2>1 DEF IInv, Tripped
  <2>3. routed' = routed \ (routed \cap CapsOf(b))
    BY <1>3 DEF RemoveBackend
  <2>4. routed' \cap CapsOf(b) = {} /\ listed' \subseteq routed'
    BY <2>3 DEF IInv, ListedRoutable
  <2>5. \A x \in Backends \ {b} : CapsOf(x) \cap CapsOf(b) = {}
    BY DEF CapsOf
  <2>6. \A x \in Backends \ {b} : routed \cap CapsOf(x) \subseteq routed'
    BY <2>3, <2>5
  <2> QED BY <1>2, <2>1, <2>2, <2>4, <2>6 DEF HidesOnlyByTrip
<1>4. CASE UNCHANGED routed
  BY <1>4 DEF HidesOnlyByTrip
<1> QED
  BY <1>1, <1>3, <1>4 DEF SetVisibility, registryVars

LEMMA StepHides == IInv /\ IInv' /\ [Next]_vars => [HidesOnlyByTrip]_vars
<1> SUFFICES ASSUME IInv, IInv', Next PROVE HidesOnlyByTrip
  OBVIOUS
<1>1. ASSUME routed \subseteq routed' PROVE HidesOnlyByTrip
  BY <1>1 DEF HidesOnlyByTrip
<1>2. CASE StartRound \/ Stop
  BY <1>1, <1>2 DEF StartRound, Stop, registryVars
<1>3. ASSUME NEW b \in Backends, CheckStep(b) PROVE HidesOnlyByTrip
  <2>1. CASE CheckSkipped(b) \/ CheckStart(b) \/ CheckNoSession(b)
    BY <1>1, <2>1 DEF CheckSkipped, CheckStart, CheckNoSession, registryVars
  <2>2. ASSUME NEW slow \in BOOLEAN, ProbeOk(b, slow) PROVE HidesOnlyByTrip
    <3>1. SetVisibility(b, IF slow THEN "DEGRADED" ELSE "HEALTHY")
      BY <2>2 DEF ProbeOk
    <3> QED BY <1>1, <3>1 DEF SetVisibility, registryVars
  <2> QED BY <1>3, <2>1, <2>2, ProbeFailedHides DEF CheckStep
<1>4. ASSUME NEW b \in Backends, RestoreStep(b) PROVE HidesOnlyByTrip
  BY <1>1, <1>4 DEF RestoreStep, RestoreStart, RestoreType
<1>5. ASSUME NEW b \in Backends,
             \/ CooldownElapses(b) \/ Disconnect(b) \/ ConnectStart(b)
             \/ \E outcome \in ConnectOutcomes : ConnectEnd(b, outcome)
      PROVE  HidesOnlyByTrip
  BY <1>1, <1>5
     DEF CooldownElapses, Disconnect, ConnectStart, ConnectEnd, registryVars
<1> QED BY <1>2, <1>3, <1>4, <1>5 DEF Next

(* Capabilities are withdrawn only in the step in which the circuit opens     *)
(* after Threshold failures, and then completely (_check,                     *)
(* _hide_backend_capabilities).                                               *)
THEOREM HiddenOnlyByTripAlways == Spec => HiddenOnlyByTrip
<1>1. [HidesOnlyByTrip]_vars => [\A b \in Backends :
         ~(routed \cap CapsOf(b) \subseteq routed')
            => /\ circuit'[b].state = "OPEN"
               /\ circuit'[b].failures >= Threshold
               /\ (routed' \cup listed') \cap CapsOf(b) = {}]_vars
  BY DEF HidesOnlyByTrip
<1> QED
  BY <1>1, InductiveInvariant, StepHides, PTL DEF Spec, HiddenOnlyByTrip
=============================================================================
