---------------------------- MODULE StartupProofs ----------------------------
(* The invariants of Startup, for any backends, retries and concurrency.      *)
EXTENDS Startup, WellFoundedInduction, TLAPS

FirstPass == pc \in {"launch", "yield", "stdio"}
Waiting(b) == task[b] \in {"none", "queued", "gated", "prebuild"}
Started(b) == task[b] \in {"building", "connecting", "closing", "initializing"}

(* Where start_all can be says what the tasks can be doing; images are built  *)
(* for stdio backends only.                                                   *)
PlaceInv ==
    /\ \A b \in Backends : task[b] \in {"prebuild", "building"} => b \in Stdio
    /\ pc = "launch" => \A b \in Backends : task[b] = "none"
    /\ pc = "yield" => \A b \in Stdio : task[b] = "none"
    /\ pc \in {"yield", "stdio"} => \A b \in Remote : task[b] # "none"
    /\ \A b \in todo : pc = "stdio" /\ task[b] = "none"
    /\ pc = "stdio" /\ ~shutdown =>
         \A b \in Backends : task[b] = "none" => b \in todo
    /\ pc \in {"backoff", "authwait", "retrying"} =>
         \A b \in Backends : task[b] # "none"
    /\ pc \in {"backoff", "authwait", "done"} => \A b \in Backends : Idle(b)
    /\ pc = "retrying" =>
         \A b \in Backends : /\ task[b] # "prebuild"
                             /\ ~Idle(b) => b \in failed

(* A backend whose task is not done has no session, is INITIALIZING from the  *)
(* call of start_backend_svr on, and owns its stack when it can succeed.      *)
ConnectInv ==
    /\ \A b \in Backends :
         /\ task[b] # "done" => b \notin sessions
         /\ task[b] = "initializing" => b \in stacks
         /\ phase[b] \notin {"DEGRADED", "SHUTTING_DOWN"}
         /\ Started(b) => phase[b] = "INITIALIZING"
         /\ b \in sessions => result[b] = "true"
    /\ pc \in {"backoff", "authwait"} => failed \cap sessions = {}

(* No backend has been tried more often than the rounds so far, and one that  *)
(* is about to be tried again still may be.                                   *)
CountInv ==
    /\ AttemptsBounded
    /\ FirstPass => \A b \in Backends : /\ attempts[b] <= 1
                                        /\ Waiting(b) => attempts[b] = 0
    /\ pc \in {"backoff", "authwait"} => \A b \in failed : attempts[b] <= attempt
    /\ pc = "retrying" =>
         \A b \in failed :
            /\ attempts[b] <= attempt + 1
            /\ Waiting(b) => attempts[b] <= attempt /\ attempt <= Retries[b]

(* A shutdown request lets one more round run, and none after it. *)
LateInv ==
    /\ \A b \in Backends : late[b] <= 1 /\ late[b] <= attempts[b]
    /\ ~shutdown \/ pc \in {"backoff", "authwait"} =>
         \A b \in Backends : late[b] = 0
    /\ pc = "retrying" => \A b \in failed : Waiting(b) => late[b] = 0

IInv ==
    /\ TypeOK /\ SessionsReady
    /\ PlaceInv /\ ConnectInv /\ CountInv /\ LateInv

-----------------------------------------------------------------------------
(* What a transition of a status record can do. *)
LEMMA TransitionChoice ==
    ASSUME NEW p, NEW q
    PROVE  Transition(p, q) \in {p, q}
BY DEF Transition

LEMMA TransitionType ==
    ASSUME NEW p \in BackendPhases,
           NEW q \in {"INITIALIZING", "RETRYING", "READY", "FAILED"}
    PROVE  Transition(p, q) \in BackendPhases
BY DEF Transition, BackendPhases

LEMMA TransitionInitializing ==
    ASSUME NEW p \in BackendPhases \ {"READY", "DEGRADED", "SHUTTING_DOWN"}
    PROVE  Transition(p, "INITIALIZING") = "INITIALIZING"
BY DEF Transition, BackendTransitions, BackendPhases

LEMMA TransitionReady ==
    Transition("INITIALIZING", "READY") = "READY"
BY DEF Transition, BackendTransitions, BackendPhases

(* A non-empty set of naturals has a least element. *)
LEMMA LeastExists ==
    ASSUME NEW T, T \subseteq Nat, T # {}
    PROVE  \E x \in T : \A y \in T : x <= y
<1> DEFINE R == {ss \in Nat \X Nat : ss[1] < ss[2]}
<1>1. IsWellFoundedOn(R, Nat)
  BY NatLessThanWellFounded DEF OpToRel
<1>2. \E x \in T : \A y \in T : ~ (<<y, x>> \in R)
  <2> HIDE DEF R
  <2> QED BY <1>1, WFMin
<1>3. PICK x \in T : \A y \in T : ~ (<<y, x>> \in R)
  BY <1>2
<1>4. \A y \in T : ~(y < x)
  <2> TAKE y \in T
  <2>1. y \in Nat /\ x \in Nat
    OBVIOUS
  <2>2. <<y, x>> \notin R
    BY <1>3
  <2> QED BY <2>1, <2>2
<1> QED BY <1>4

(* A bounded non-empty set of naturals has a greatest element. *)
LEMMA GreatestExists ==
    ASSUME NEW S, S \subseteq Nat, S # {}, NEW k \in Nat, \A s \in S : s <= k
    PROVE  \E x \in S : \A y \in S : x >= y
<1> DEFINE U == {n \in Nat : \A s \in S : s <= n}
<1>1. \E m \in U : \A y \in U : m <= y
  <2>1. U \subseteq Nat /\ U # {}
    OBVIOUS
  <2> HIDE DEF U
  <2> QED BY <2>1, LeastExists
<1>2. PICK m \in U : \A y \in U : m <= y
  BY <1>1
<1>3. m \in Nat /\ \A s \in S : s <= m
  OBVIOUS
<1>4. m \in S
  <2>1. SUFFICES ASSUME m \notin S PROVE FALSE
    OBVIOUS
  <2>2. \A s \in S : s <= m - 1
    BY <1>3, <2>1
  <2>3. PICK s \in S : s \in Nat
    OBVIOUS
  <2>4. m - 1 \in Nat
    BY <1>3, <2>2, <2>3
  <2>5. m - 1 \in U
    BY <2>2, <2>4
  <2> QED BY <1>2, <1>3, <2>5
<1> QED BY <1>3, <1>4

(* max_retries is the largest "retries" of the failed backends. *)
LEMMA MaxRetriesIsMax ==
    ASSUME NEW names, names \subseteq Backends
    PROVE  /\ MaxRetries(names) \in Nat
           /\ \A b \in names : Retries[b] <= MaxRetries(names)
<1> SUFFICES ASSUME names # {}
             PROVE  /\ MaxRetries(names) \in Nat
                    /\ \A b \in names : Retries[b] <= MaxRetries(names)
  BY DEF MaxRetries
<1> DEFINE S == {Retries[b] : b \in names}
<1>1. S \subseteq 0 .. 10 /\ S # {}
  BY RetriesAssumption
<1>2. \E x \in S : \A y \in S : x >= y
  <2>1. S \subseteq Nat /\ 10 \in Nat /\ \A s \in S : s <= 10
    BY <1>1
  <2> HIDE DEF S
  <2> QED BY <1>1, <2>1, GreatestExists
<1>3. Max(S) \in S /\ \A y \in S : Max(S) >= y
  <2> HIDE DEF S
  <2> QED BY <1>2 DEF Max
<1>4. MaxRetries(names) = Max(S)
  BY DEF MaxRetries
<1>5. MaxRetries(names) \in Nat
  <2>1. \A x \in 0 .. 10 : x \in Nat
    OBVIOUS
  <2>2. Max(S) \in 0 .. 10
    BY <1>1, <1>3
  <2> QED BY <1>4, <2>1, <2>2
<1>6. \A b \in names : Retries[b] <= MaxRetries(names)
  <2> TAKE b \in names
  <2>1. Retries[b] \in S
    OBVIOUS
  <2>2. Max(S) >= Retries[b] /\ Max(S) \in Nat /\ Retries[b] \in Nat
    BY <1>1, <1>3, <2>1
  <2> QED BY <1>4, <2>2
<1> QED BY <1>5, <1>6

(* Every step preserves the types. *)
LEMMA TypeStep ==
    TypeOK /\ PlaceInv /\ [Next]_vars
        => TypeOK'
<1> SUFFICES ASSUME TypeOK, PlaceInv, [Next]_vars
             PROVE  TypeOK'
  OBVIOUS
<1>1. ASSUME NEW b \in Backends, Acquire(b)
      PROVE  TypeOK'
  BY <1>1
     DEF TypeOK, Locations, Backends, Acquire, coordVars, backendVars,
         countVars
<1>2. ASSUME NEW b \in Backends, GatedStart(b)
      PROVE  TypeOK'
  BY <1>2, TransitionType
     DEF TypeOK, Locations, Backends, GatedStart, StartOne, SetPhase,
         coordVars, backendVars, countVars
<1>3. ASSUME NEW b \in Backends, NEW ok \in BOOLEAN, PreBuilt(b, ok)
      PROVE  TypeOK'
  BY <1>3, TransitionType
     DEF TypeOK, PlaceInv, Locations, Backends, PreBuilt, StartOne, SetPhase,
         coordVars, backendVars, countVars
<1>4. ASSUME NEW b \in Backends, NEW ok \in BOOLEAN, Built(b, ok)
      PROVE  TypeOK'
  <2>1. CASE ok
    BY <1>4, <2>1
       DEF TypeOK, PlaceInv, Locations, Built, coordVars, countVars
  <2>2. CASE ~ok
    <3>1. /\ Finish(b, "false") /\ SetPhase(b, "FAILED") /\ UNCHANGED prebuilt
          /\ UNCHANGED <<coordVars, snap, sessions, stacks, auth, shutdown, countVars>>
      BY <1>4, <2>2, Zenon DEF Built
    <3> QED
      BY <3>1, TransitionType
         DEF TypeOK, Locations, Finish, SetPhase, coordVars, countVars
  <2> QED BY <2>1, <2>2
<1>5. ASSUME NEW b \in Backends, CloseStack(b)
      PROVE  TypeOK'
  BY <1>5
     DEF TypeOK, Locations, Backends, CloseStack, coordVars, backendVars,
         countVars
<1>6. ASSUME NEW b \in Backends, OpenStack(b)
      PROVE  TypeOK'
  BY <1>6
     DEF TypeOK, Locations, Backends, OpenStack, coordVars, backendVars,
         countVars
<1>7. ASSUME NEW b \in Backends, ConnectOk(b)
      PROVE  TypeOK'
  BY <1>7, TransitionType
     DEF TypeOK, Locations, Backends, ConnectOk, Finish, SetPhase, coordVars,
         backendVars, countVars
<1>8. ASSUME NEW b \in Backends, ConnectTimeout(b)
      PROVE  TypeOK'
  BY <1>8, TransitionType
     DEF TypeOK, Locations, Backends, ConnectTimeout, Finish, SetPhase,
         InConnect, coordVars, backendVars, countVars
<1>9. ASSUME NEW b \in Backends, NEW authLike \in BOOLEAN,
             ConnectFailed(b, authLike)
      PROVE  TypeOK'
  BY <1>9, TransitionType
     DEF TypeOK, Locations, Backends, ConnectFailed, Finish, SetPhase,
         InConnect, AttemptAuthDiscovery, RecordAuthPendingOrFailure,
         coordVars, backendVars, countVars
<1>10. ASSUME NEW b \in Backends, Cancelled(b)
      PROVE  TypeOK'
  BY <1>10
     DEF TypeOK, Locations, Backends, Cancelled, Finish, coordVars,
         backendVars, countVars
<1>11. ASSUME NEW b \in Backends, AuthDone(b)
      PROVE  TypeOK'
  BY <1>11
     DEF TypeOK, Locations, Backends, AuthDone, coordVars, backendVars,
         countVars
<1>12. CASE Launch
  BY <1>12
     DEF TypeOK, Locations, Backends, Launch, coordVars, backendVars,
         countVars
<1>13. CASE BeginStdio
  BY <1>13
     DEF TypeOK, Locations, Backends, BeginStdio, coordVars, backendVars,
         countVars
<1>14. ASSUME NEW b \in Stdio, NextStdio(b)
      PROVE  TypeOK'
  BY <1>14
     DEF TypeOK, Locations, Backends, NextStdio, Idle, coordVars, backendVars,
         countVars
<1>15. CASE FirstPassDone
  BY <1>15, TransitionType, MaxRetriesIsMax
     DEF TypeOK, Locations, FirstPassDone, FirstPassFailed, RetryLoop,
         coordVars, backendVars, countVars
<1>16. CASE BackoffDone
  BY <1>16
     DEF TypeOK, Locations, Backends, BackoffDone, LaunchRetries, coordVars,
         backendVars, countVars
<1>17. CASE AuthWaitDone
  BY <1>17
     DEF TypeOK, Locations, Backends, AuthWaitDone, LaunchRetries, coordVars,
         backendVars, countVars
<1>18. CASE RetryDone
  BY <1>18, TransitionType
     DEF TypeOK, Locations, Backends, RetryDone, RetryLoop, Idle, coordVars,
         backendVars, countVars
<1>19. CASE CancelStartup
  BY <1>19
     DEF TypeOK, Locations, Backends, CancelStartup, Idle, coordVars,
         backendVars, countVars
<1>20. CASE UNCHANGED vars
  BY <1>20 DEF TypeOK, Locations, Backends, vars
<1> QED
  BY <1>1, <1>2, <1>3, <1>4, <1>5, <1>6, <1>7, <1>8, <1>9, <1>10, <1>11,
     <1>12, <1>13, <1>14, <1>15, <1>16, <1>17, <1>18, <1>19, <1>20 DEF Next,
     Coordinator, TaskStep

(* Every step preserves PlaceInv. *)
LEMMA PlaceStep ==
    TypeOK /\ PlaceInv /\ [Next]_vars
        => PlaceInv'
<1> SUFFICES ASSUME TypeOK, PlaceInv, [Next]_vars
             PROVE  PlaceInv'
  OBVIOUS
<1>1. ASSUME NEW b \in Backends, Acquire(b)
      PROVE  PlaceInv'
  BY <1>1
     DEF TypeOK, PlaceInv, Locations, Backends, Idle, Acquire, coordVars,
         backendVars, countVars
<1>2. ASSUME NEW b \in Backends, GatedStart(b)
      PROVE  PlaceInv'
  BY <1>2, BackendsAssumption
     DEF TypeOK, PlaceInv, Locations, Backends, Idle, GatedStart, StartOne,
         SetPhase, coordVars, backendVars, countVars
<1>3. ASSUME NEW b \in Backends, NEW ok \in BOOLEAN, PreBuilt(b, ok)
      PROVE  PlaceInv'
  BY <1>3, BackendsAssumption
     DEF TypeOK, PlaceInv, Locations, Backends, Idle, PreBuilt, StartOne,
         SetPhase, coordVars, backendVars, countVars
<1>4. ASSUME NEW b \in Backends, NEW ok \in BOOLEAN, Built(b, ok)
      PROVE  PlaceInv'
  BY <1>4
     DEF TypeOK, PlaceInv, Locations, Backends, Idle, Built, Finish, SetPhase,
         coordVars, backendVars, countVars
<1>5. ASSUME NEW b \in Backends, CloseStack(b)
      PROVE  PlaceInv'
  BY <1>5
     DEF TypeOK, PlaceInv, Locations, Backends, Idle, CloseStack, coordVars,
         backendVars, countVars
<1>6. ASSUME NEW b \in Backends, OpenStack(b)
      PROVE  PlaceInv'
  BY <1>6
     DEF TypeOK, PlaceInv, Locations, Backends, Idle, OpenStack, coordVars,
         backendVars, countVars
<1>7. ASSUME NEW b \in Backends, ConnectOk(b)
      PROVE  PlaceInv'
  BY <1>7
     DEF TypeOK, PlaceInv, Locations, Backends, Idle, ConnectOk, Finish,
         SetPhase, coordVars, backendVars, countVars
<1>8. ASSUME NEW b \in Backends, ConnectTimeout(b)
      PROVE  PlaceInv'
  BY <1>8
     DEF TypeOK, PlaceInv, Locations, Backends, Idle, ConnectTimeout, Finish,
         SetPhase, InConnect, coordVars, backendVars, countVars
<1>9. ASSUME NEW b \in Backends, NEW authLike \in BOOLEAN,
             ConnectFailed(b, authLike)
      PROVE  PlaceInv'
  BY <1>9
     DEF TypeOK, PlaceInv, Locations, Backends, Idle, ConnectFailed, Finish,
         SetPhase, InConnect, AttemptAuthDiscovery,
         RecordAuthPendingOrFailure, coordVars, backendVars, countVars
<1>10. ASSUME NEW b \in Backends, Cancelled(b)
      PROVE  PlaceInv'
  BY <1>10
     DEF TypeOK, PlaceInv, Locations, Backends, Idle, Cancelled, Finish,
         coordVars, backendVars, countVars
<1>11. ASSUME NEW b \in Backends, AuthDone(b)
      PROVE  PlaceInv'
  BY <1>11
     DEF TypeOK, PlaceInv, Locations, Backends, Idle, AuthDone, coordVars,
         backendVars, countVars
<1>12. CASE Launch
  BY <1>12, BackendsAssumption
     DEF TypeOK, PlaceInv, Locations, Backends, Idle, Launch, coordVars,
         backendVars, countVars
<1>13. CASE BeginStdio
  BY <1>13, BackendsAssumption
     DEF TypeOK, PlaceInv, Locations, Backends, Idle, BeginStdio, coordVars,
         backendVars, countVars
<1>14. ASSUME NEW b \in Stdio, NextStdio(b)
      PROVE  PlaceInv'
  BY <1>14, BackendsAssumption
     DEF TypeOK, PlaceInv, Locations, Backends, Idle, NextStdio, coordVars,
         backendVars, countVars
<1>15. CASE FirstPassDone
  BY <1>15, BackendsAssumption
     DEF TypeOK, PlaceInv, Locations, Backends, Idle, FirstPassDone,
         FirstPassFailed, RetryLoop, coordVars, backendVars, countVars
<1>16. CASE BackoffDone
  BY <1>16, BackendsAssumption
     DEF TypeOK, PlaceInv, Locations, Backends, Idle, BackoffDone,
         LaunchRetries, coordVars, backendVars, countVars
<1>17. CASE AuthWaitDone
  BY <1>17, BackendsAssumption
     DEF TypeOK, PlaceInv, Locations, Backends, Idle, AuthWaitDone,
         LaunchRetries, coordVars, backendVars, countVars
<1>18. CASE RetryDone
  BY <1>18, BackendsAssumption
     DEF TypeOK, PlaceInv, Locations, Backends, Idle, RetryDone, RetryLoop,
         coordVars, backendVars, countVars
<1>19. CASE CancelStartup
  BY <1>19, BackendsAssumption
     DEF TypeOK, PlaceInv, Locations, Backends, Idle, CancelStartup,
         coordVars, backendVars, countVars
<1>20. CASE UNCHANGED vars
  BY <1>20 DEF TypeOK, PlaceInv, Locations, Backends, Idle, vars
<1> QED
  BY <1>1, <1>2, <1>3, <1>4, <1>5, <1>6, <1>7, <1>8, <1>9, <1>10, <1>11,
     <1>12, <1>13, <1>14, <1>15, <1>16, <1>17, <1>18, <1>19, <1>20 DEF Next,
     Coordinator, TaskStep

(* Every step preserves ConnectInv. *)
LEMMA ConnectStep ==
    TypeOK /\ PlaceInv /\ ConnectInv /\ SessionsReady /\ [Next]_vars
        => ConnectInv'
<1> SUFFICES ASSUME TypeOK, PlaceInv, ConnectInv, SessionsReady, [Next]_vars
             PROVE  ConnectInv'
  OBVIOUS
<1>1. ASSUME NEW b \in Backends, Acquire(b)
      PROVE  ConnectInv'
  BY <1>1
     DEF TypeOK, PlaceInv, ConnectInv, SessionsReady, Locations, Backends,
         Idle, Started, Acquire, coordVars, backendVars, countVars
<1>2. ASSUME NEW b \in Backends, GatedStart(b)
      PROVE  ConnectInv'
  BY <1>2, BackendsAssumption, TransitionChoice, TransitionInitializing
     DEF TypeOK, PlaceInv, ConnectInv, SessionsReady, Locations, Backends,
         Idle, Started, GatedStart, StartOne, SetPhase, coordVars,
         backendVars, countVars
<1>3. ASSUME NEW b \in Backends, NEW ok \in BOOLEAN, PreBuilt(b, ok)
      PROVE  ConnectInv'
  BY <1>3, BackendsAssumption, TransitionChoice, TransitionInitializing
     DEF TypeOK, PlaceInv, ConnectInv, SessionsReady, Locations, Backends,
         Idle, Started, PreBuilt, StartOne, SetPhase, coordVars, backendVars,
         countVars
<1>4. ASSUME NEW b \in Backends, NEW ok \in BOOLEAN, Built(b, ok)
      PROVE  ConnectInv'
  BY <1>4, TransitionChoice
     DEF TypeOK, PlaceInv, ConnectInv, SessionsReady, Locations, Backends,
         Idle, Started, Built, Finish, SetPhase, coordVars, backendVars,
         countVars
<1>5. ASSUME NEW b \in Backends, CloseStack(b)
      PROVE  ConnectInv'
  BY <1>5
     DEF TypeOK, PlaceInv, ConnectInv, SessionsReady, Locations, Backends,
         Idle, Started, CloseStack, coordVars, backendVars, countVars
<1>6. ASSUME NEW b \in Backends, OpenStack(b)
      PROVE  ConnectInv'
  BY <1>6
     DEF TypeOK, PlaceInv, ConnectInv, SessionsReady, Locations, Backends,
         Idle, Started, OpenStack, coordVars, backendVars, countVars
<1>7. ASSUME NEW b \in Backends, ConnectOk(b)
      PROVE  ConnectInv'
  BY <1>7, TransitionChoice, TransitionReady
     DEF TypeOK, PlaceInv, ConnectInv, SessionsReady, Locations, Backends,
         Idle, Started, ConnectOk, Finish, SetPhase, coordVars, backendVars,
         countVars
<1>8. ASSUME NEW b \in Backends, ConnectTimeout(b)
      PROVE  ConnectInv'
  BY <1>8, TransitionChoice
     DEF TypeOK, PlaceInv, ConnectInv, SessionsReady, Locations, Backends,
         Idle, Started, ConnectTimeout, Finish, SetPhase, InConnect,
         coordVars, backendVars, countVars
<1>9. ASSUME NEW b \in Backends, NEW authLike \in BOOLEAN,
             ConnectFailed(b, authLike)
      PROVE  ConnectInv'
  BY <1>9, TransitionChoice
     DEF TypeOK, PlaceInv, ConnectInv, SessionsReady, Locations, Backends,
         Idle, Started, ConnectFailed, Finish, SetPhase, InConnect,
         AttemptAuthDiscovery, RecordAuthPendingOrFailure, coordVars,
         backendVars, countVars
<1>10. ASSUME NEW b \in Backends, Cancelled(b)
      PROVE  ConnectInv'
  BY <1>10
     DEF TypeOK, PlaceInv, ConnectInv, SessionsReady, Locations, Backends,
         Idle, Started, Cancelled, Finish, coordVars, backendVars, countVars
<1>11. ASSUME NEW b \in Backends, AuthDone(b)
      PROVE  ConnectInv'
  BY <1>11
     DEF TypeOK, PlaceInv, ConnectInv, SessionsReady, Locations, Backends,
         Idle, Started, AuthDone, coordVars, backendVars, countVars
<1>12. CASE Launch
  BY <1>12, BackendsAssumption
     DEF TypeOK, PlaceInv, ConnectInv, SessionsReady, Locations, Backends,
         Idle, Started, Launch, coordVars, backendVars, countVars
<1>13. CASE BeginStdio
  BY <1>13, BackendsAssumption
     DEF TypeOK, PlaceInv, ConnectInv, SessionsReady, Locations, Backends,
         Idle, Started, BeginStdio, coordVars, backendVars, countVars
<1>14. ASSUME NEW b \in Stdio, NextStdio(b)
      PROVE  ConnectInv'
  BY <1>14, BackendsAssumption
     DEF TypeOK, PlaceInv, ConnectInv, SessionsReady, Locations, Backends,
         Idle, Started, NextStdio, coordVars, backendVars, countVars
<1>15. CASE FirstPassDone
  BY <1>15, BackendsAssumption, TransitionChoice
     DEF TypeOK, PlaceInv, ConnectInv, SessionsReady, Locations, Backends,
         Idle, Started, FirstPassDone, FirstPassFailed, RetryLoop, coordVars,
         backendVars, countVars
<1>16. CASE BackoffDone
  BY <1>16, BackendsAssumption
     DEF TypeOK, PlaceInv, ConnectInv, SessionsReady, Locations, Backends,
         Idle, Started, BackoffDone, LaunchRetries, coordVars, backendVars,
         countVars
<1>17. CASE AuthWaitDone
  BY <1>17, BackendsAssumption
     DEF TypeOK, PlaceInv, ConnectInv, SessionsReady, Locations, Backends,
         Idle, Started, AuthWaitDone, LaunchRetries, coordVars, backendVars,
         countVars
<1>18. CASE RetryDone
  BY <1>18, BackendsAssumption, TransitionChoice
     DEF TypeOK, PlaceInv, ConnectInv, SessionsReady, Locations, Backends,
         Idle, Started, RetryDone, RetryLoop, coordVars, backendVars,
         countVars
<1>19. CASE CancelStartup
  BY <1>19, BackendsAssumption
     DEF TypeOK, PlaceInv, ConnectInv, SessionsReady, Locations, Backends,
         Idle, Started, CancelStartup, coordVars, backendVars, countVars
<1>20. CASE UNCHANGED vars
  BY <1>20 DEF TypeOK, PlaceInv, ConnectInv, SessionsReady, Locations,
     Backends, Idle, Started, vars
<1> QED
  BY <1>1, <1>2, <1>3, <1>4, <1>5, <1>6, <1>7, <1>8, <1>9, <1>10, <1>11,
     <1>12, <1>13, <1>14, <1>15, <1>16, <1>17, <1>18, <1>19, <1>20 DEF Next,
     Coordinator, TaskStep

(* Every step preserves SessionsReady. *)
LEMMA SessionsStep ==
    TypeOK /\ PlaceInv /\ ConnectInv /\ SessionsReady /\ [Next]_vars
        => SessionsReady'
<1> SUFFICES ASSUME TypeOK, PlaceInv, ConnectInv, SessionsReady, [Next]_vars
             PROVE  SessionsReady'
  OBVIOUS
<1>1. ASSUME NEW b \in Backends, Acquire(b)
      PROVE  SessionsReady'
  BY <1>1
     DEF TypeOK, PlaceInv, ConnectInv, SessionsReady, Locations, Backends,
         Idle, Started, Acquire, coordVars, backendVars, countVars
<1>2. ASSUME NEW b \in Backends, GatedStart(b)
      PROVE  SessionsReady'
  BY <1>2, BackendsAssumption, TransitionChoice, TransitionInitializing
     DEF TypeOK, PlaceInv, ConnectInv, SessionsReady, Locations, Backends,
         Idle, Started, GatedStart, StartOne, SetPhase, coordVars,
         backendVars, countVars
<1>3. ASSUME NEW b \in Backends, NEW ok \in BOOLEAN, PreBuilt(b, ok)
      PROVE  SessionsReady'
  BY <1>3, BackendsAssumption, TransitionChoice, TransitionInitializing
     DEF TypeOK, PlaceInv, ConnectInv, SessionsReady, Locations, Backends,
         Idle, Started, PreBuilt, StartOne, SetPhase, coordVars, backendVars,
         countVars
<1>4. ASSUME NEW b \in Backends, NEW ok \in BOOLEAN, Built(b, ok)
      PROVE  SessionsReady'
  BY <1>4, TransitionChoice
     DEF TypeOK, PlaceInv, ConnectInv, SessionsReady, Locations, Backends,
         Idle, Started, Built, Finish, SetPhase, coordVars, backendVars,
         countVars
<1>5. ASSUME NEW b \in Backends, CloseStack(b)
      PROVE  SessionsReady'
  BY <1>5
     DEF TypeOK, PlaceInv, ConnectInv, SessionsReady, Locations, Backends,
         Idle, Started, CloseStack, coordVars, backendVars, countVars
<1>6. ASSUME NEW b \in Backends, OpenStack(b)
      PROVE  SessionsReady'
  BY <1>6
     DEF TypeOK, PlaceInv, ConnectInv, SessionsReady, Locations, Backends,
         Idle, Started, OpenStack, coordVars, backendVars, countVars
<1>7. ASSUME NEW b \in Backends, ConnectOk(b)
      PROVE  SessionsReady'
  BY <1>7, TransitionChoice, TransitionReady
     DEF TypeOK, PlaceInv, ConnectInv, SessionsReady, Locations, Backends,
         Idle, Started, ConnectOk, Finish, SetPhase, coordVars, backendVars,
         countVars
<1>8. ASSUME NEW b \in Backends, ConnectTimeout(b)
      PROVE  SessionsReady'
  BY <1>8, TransitionChoice
     DEF TypeOK, PlaceInv, ConnectInv, SessionsReady, Locations, Backends,
         Idle, Started, ConnectTimeout, Finish, SetPhase, InConnect,
         coordVars, backendVars, countVars
<1>9. ASSUME NEW b \in Backends, NEW authLike \in BOOLEAN,
             ConnectFailed(b, authLike)
      PROVE  SessionsReady'
  BY <1>9, TransitionChoice
     DEF TypeOK, PlaceInv, ConnectInv, SessionsReady, Locations, Backends,
         Idle, Started, ConnectFailed, Finish, SetPhase, InConnect,
         AttemptAuthDiscovery, RecordAuthPendingOrFailure, coordVars,
         backendVars, countVars
<1>10. ASSUME NEW b \in Backends, Cancelled(b)
      PROVE  SessionsReady'
  BY <1>10
     DEF TypeOK, PlaceInv, ConnectInv, SessionsReady, Locations, Backends,
         Idle, Started, Cancelled, Finish, coordVars, backendVars, countVars
<1>11. ASSUME NEW b \in Backends, AuthDone(b)
      PROVE  SessionsReady'
  BY <1>11
     DEF TypeOK, PlaceInv, ConnectInv, SessionsReady, Locations, Backends,
         Idle, Started, AuthDone, coordVars, backendVars, countVars
<1>12. CASE Launch
  BY <1>12, BackendsAssumption
     DEF TypeOK, PlaceInv, ConnectInv, SessionsReady, Locations, Backends,
         Idle, Started, Launch, coordVars, backendVars, countVars
<1>13. CASE BeginStdio
  BY <1>13, BackendsAssumption
     DEF TypeOK, PlaceInv, ConnectInv, SessionsReady, Locations, Backends,
         Idle, Started, BeginStdio, coordVars, backendVars, countVars
<1>14. ASSUME NEW b \in Stdio, NextStdio(b)
      PROVE  SessionsReady'
  BY <1>14, BackendsAssumption
     DEF TypeOK, PlaceInv, ConnectInv, SessionsReady, Locations, Backends,
         Idle, Started, NextStdio, coordVars, backendVars, countVars
<1>15. CASE FirstPassDone
  BY <1>15, BackendsAssumption, TransitionChoice
     DEF TypeOK, PlaceInv, ConnectInv, SessionsReady, Locations, Backends,
         Idle, Started, FirstPassDone, FirstPassFailed, RetryLoop, coordVars,
         backendVars, countVars
<1>16. CASE BackoffDone
  BY <1>16, BackendsAssumption
     DEF TypeOK, PlaceInv, ConnectInv, SessionsReady, Locations, Backends,
         Idle, Started, BackoffDone, LaunchRetries, coordVars, backendVars,
         countVars
<1>17. CASE AuthWaitDone
  BY <1>17, BackendsAssumption
     DEF TypeOK, PlaceInv, ConnectInv, SessionsReady, Locations, Backends,
         Idle, Started, AuthWaitDone, LaunchRetries, coordVars, backendVars,
         countVars
<1>18. CASE RetryDone
  BY <1>18, BackendsAssumption, TransitionChoice
     DEF TypeOK, PlaceInv, ConnectInv, SessionsReady, Locations, Backends,
         Idle, Started, RetryDone, RetryLoop, coordVars, backendVars,
         countVars
<1>19. CASE CancelStartup
  BY <1>19, BackendsAssumption
     DEF TypeOK, PlaceInv, ConnectInv, SessionsReady, Locations, Backends,
         Idle, Started, CancelStartup, coordVars, backendVars, countVars
<1>20. CASE UNCHANGED vars
  BY <1>20 DEF TypeOK, PlaceInv, ConnectInv, SessionsReady, Locations,
     Backends, Idle, Started, vars
<1> QED
  BY <1>1, <1>2, <1>3, <1>4, <1>5, <1>6, <1>7, <1>8, <1>9, <1>10, <1>11,
     <1>12, <1>13, <1>14, <1>15, <1>16, <1>17, <1>18, <1>19, <1>20 DEF Next,
     Coordinator, TaskStep

(* start_backend_svr is called for a backend that has a try left. *)
LEMMA StartOneCount ==
    ASSUME TypeOK, PlaceInv, CountInv, NEW b \in Backends, NEW built,
           task[b] \in {"gated", "prebuild"}, StartOne(b, built)
    PROVE  CountInv'
<1>1. /\ UNCHANGED <<pc, failed, attempt>>
      /\ attempts' = [attempts EXCEPT ![b] = attempts[b] + 1]
      /\ ~Waiting(b)' /\ \A x \in Backends \ {b} : task'[x] = task[x]
  BY DEF StartOne, coordVars, TypeOK, Waiting
<1>2. attempts \in [Backends -> Nat] /\ attempt \in Nat /\ Retries[b] \in Nat
  BY RetriesAssumption DEF TypeOK
<1> failed \subseteq Backends
  BY DEF TypeOK
<1>3. CASE FirstPass
  BY <1>1, <1>2, <1>3 DEF CountInv, AttemptsBounded, FirstPass, Waiting
<1>4. CASE ~FirstPass
  <2>1. pc = "retrying" /\ b \in failed
    BY <1>4 DEF TypeOK, PlaceInv, FirstPass, Idle
  <2>2. attempts[b] <= attempt /\ attempt <= Retries[b]
    BY <2>1 DEF CountInv, Waiting
  <2>3. AttemptsBounded'
    BY <1>1, <1>2, <2>2 DEF CountInv, AttemptsBounded
  <2>4. ASSUME NEW x \in failed
        PROVE  /\ attempts'[x] <= attempt + 1
               /\ Waiting(x)' => attempts'[x] <= attempt /\ attempt <= Retries[x]
    BY <1>1, <1>2, <2>1, <2>2 DEF CountInv, Waiting
  <2> QED
    BY <1>1, <2>1, <2>3, <2>4 DEF CountInv, FirstPass
<1> QED BY <1>3, <1>4


(* Every step preserves CountInv. *)
LEMMA CountStep ==
    TypeOK /\ PlaceInv /\ CountInv /\ [Next]_vars
        => CountInv'
<1> SUFFICES ASSUME TypeOK, PlaceInv, CountInv, [Next]_vars
             PROVE  CountInv'
  OBVIOUS
<1>1. ASSUME NEW b \in Backends, Acquire(b)
      PROVE  CountInv'
  BY <1>1
     DEF TypeOK, PlaceInv, CountInv, AttemptsBounded, FirstPass, Waiting,
         Locations, Idle, Acquire, coordVars, backendVars, countVars
<1>2. ASSUME NEW b \in Backends, GatedStart(b)
      PROVE  CountInv'
  BY <1>2, StartOneCount DEF GatedStart
<1>3. ASSUME NEW b \in Backends, NEW ok \in BOOLEAN, PreBuilt(b, ok)
      PROVE  CountInv'
  BY <1>3, StartOneCount DEF PreBuilt
<1>4. ASSUME NEW b \in Backends, NEW ok \in BOOLEAN, Built(b, ok)
      PROVE  CountInv'
  BY <1>4
     DEF TypeOK, PlaceInv, CountInv, AttemptsBounded, FirstPass, Waiting,
         Locations, Idle, Built, Finish, SetPhase, coordVars, backendVars,
         countVars
<1>5. ASSUME NEW b \in Backends, CloseStack(b)
      PROVE  CountInv'
  BY <1>5
     DEF TypeOK, PlaceInv, CountInv, AttemptsBounded, FirstPass, Waiting,
         Locations, Idle, CloseStack, coordVars, backendVars, countVars
<1>6. ASSUME NEW b \in Backends, OpenStack(b)
      PROVE  CountInv'
  BY <1>6
     DEF TypeOK, PlaceInv, CountInv, AttemptsBounded, FirstPass, Waiting,
         Locations, Idle, OpenStack, coordVars, backendVars, countVars
<1>7. ASSUME NEW b \in Backends, ConnectOk(b)
      PROVE  CountInv'
  BY <1>7
     DEF TypeOK, PlaceInv, CountInv, AttemptsBounded, FirstPass, Waiting,
         Locations, Idle, ConnectOk, Finish, SetPhase, coordVars, backendVars,
         countVars
<1>8. ASSUME NEW b \in Backends, ConnectTimeout(b)
      PROVE  CountInv'
  BY <1>8
     DEF TypeOK, PlaceInv, CountInv, AttemptsBounded, FirstPass, Waiting,
         Locations, Idle, ConnectTimeout, Finish, SetPhase, InConnect,
         coordVars, backendVars, countVars
<1>9. ASSUME NEW b \in Backends, NEW authLike \in BOOLEAN,
             ConnectFailed(b, authLike)
      PROVE  CountInv'
  BY <1>9
     DEF TypeOK, PlaceInv, CountInv, AttemptsBounded, FirstPass, Waiting,
         Locations, Idle, ConnectFailed, Finish, SetPhase, InConnect,
         AttemptAuthDiscovery, RecordAuthPendingOrFailure, coordVars,
         backendVars, countVars
<1>10. ASSUME NEW b \in Backends, Cancelled(b)
      PROVE  CountInv'
  BY <1>10
     DEF TypeOK, PlaceInv, CountInv, AttemptsBounded, FirstPass, Waiting,
         Locations, Idle, Cancelled, Finish, coordVars, backendVars, countVars
<1>11. ASSUME NEW b \in Backends, AuthDone(b)
      PROVE  CountInv'
  BY <1>11
     DEF TypeOK, PlaceInv, CountInv, AttemptsBounded, FirstPass, Waiting,
         Locations, Idle, AuthDone, coordVars, backendVars, countVars
<1>12. CASE Launch
  BY <1>12, BackendsAssumption, RetriesAssumption
     DEF TypeOK, PlaceInv, CountInv, AttemptsBounded, FirstPass, Waiting,
         Locations, Idle, Launch, coordVars, backendVars, countVars
<1>13. CASE BeginStdio
  BY <1>13, BackendsAssumption, RetriesAssumption
     DEF TypeOK, PlaceInv, CountInv, AttemptsBounded, FirstPass, Waiting,
         Locations, Idle, BeginStdio, coordVars, backendVars, countVars
<1>14. ASSUME NEW b \in Stdio, NextStdio(b)
      PROVE  CountInv'
  BY <1>14, BackendsAssumption, RetriesAssumption
     DEF TypeOK, PlaceInv, CountInv, AttemptsBounded, FirstPass, Waiting,
         Locations, Idle, NextStdio, coordVars, backendVars, countVars
<1>15. CASE FirstPassDone
  BY <1>15, BackendsAssumption, RetriesAssumption
     DEF TypeOK, PlaceInv, CountInv, AttemptsBounded, FirstPass, Waiting,
         Locations, Idle, FirstPassDone, FirstPassFailed, RetryLoop,
         coordVars, backendVars, countVars
<1>16. CASE BackoffDone
  BY <1>16, BackendsAssumption, RetriesAssumption
     DEF TypeOK, PlaceInv, CountInv, AttemptsBounded, FirstPass, Waiting,
         Locations, Idle, BackoffDone, LaunchRetries, coordVars, backendVars,
         countVars
<1>17. CASE AuthWaitDone
  BY <1>17, BackendsAssumption, RetriesAssumption
     DEF TypeOK, PlaceInv, CountInv, AttemptsBounded, FirstPass, Waiting,
         Locations, Idle, AuthWaitDone, LaunchRetries, coordVars, backendVars,
         countVars
<1>18. CASE RetryDone
  BY <1>18, BackendsAssumption, RetriesAssumption
     DEF TypeOK, PlaceInv, CountInv, AttemptsBounded, FirstPass, Waiting,
         Locations, Idle, RetryDone, RetryLoop, coordVars, backendVars,
         countVars
<1>19. CASE CancelStartup
  BY <1>19, BackendsAssumption, RetriesAssumption
     DEF TypeOK, PlaceInv, CountInv, AttemptsBounded, FirstPass, Waiting,
         Locations, Idle, CancelStartup, coordVars, backendVars, countVars
<1>20. CASE UNCHANGED vars
  BY <1>20 DEF TypeOK, PlaceInv, CountInv, AttemptsBounded, FirstPass,
     Waiting, Locations, Idle, vars
<1> QED
  BY <1>1, <1>2, <1>3, <1>4, <1>5, <1>6, <1>7, <1>8, <1>9, <1>10, <1>11,
     <1>12, <1>13, <1>14, <1>15, <1>16, <1>17, <1>18, <1>19, <1>20 DEF Next,
     Coordinator, TaskStep

(* Every step preserves LateInv. *)
LEMMA LateStep ==
    TypeOK /\ PlaceInv /\ CountInv /\ LateInv /\ [Next]_vars
        => LateInv'
<1> SUFFICES ASSUME TypeOK, PlaceInv, CountInv, LateInv, [Next]_vars
             PROVE  LateInv'
  OBVIOUS
<1>1. ASSUME NEW b \in Backends, Acquire(b)
      PROVE  LateInv'
  BY <1>1
     DEF TypeOK, PlaceInv, CountInv, AttemptsBounded, FirstPass, Waiting,
         Locations, Idle, LateInv, Acquire, coordVars, backendVars, countVars
<1>2. ASSUME NEW b \in Backends, GatedStart(b)
      PROVE  LateInv'
  BY <1>2, BackendsAssumption, RetriesAssumption
     DEF TypeOK, PlaceInv, CountInv, AttemptsBounded, FirstPass, Waiting,
         Locations, Idle, LateInv, GatedStart, StartOne, SetPhase, coordVars,
         backendVars, countVars
<1>3. ASSUME NEW b \in Backends, NEW ok \in BOOLEAN, PreBuilt(b, ok)
      PROVE  LateInv'
  BY <1>3, BackendsAssumption, RetriesAssumption
     DEF TypeOK, PlaceInv, CountInv, AttemptsBounded, FirstPass, Waiting,
         Locations, Idle, LateInv, PreBuilt, StartOne, SetPhase, coordVars,
         backendVars, countVars
<1>4. ASSUME NEW b \in Backends, NEW ok \in BOOLEAN, Built(b, ok)
      PROVE  LateInv'
  BY <1>4
     DEF TypeOK, PlaceInv, CountInv, AttemptsBounded, FirstPass, Waiting,
         Locations, Idle, LateInv, Built, Finish, SetPhase, coordVars,
         backendVars, countVars
<1>5. ASSUME NEW b \in Backends, CloseStack(b)
      PROVE  LateInv'
  BY <1>5
     DEF TypeOK, PlaceInv, CountInv, AttemptsBounded, FirstPass, Waiting,
         Locations, Idle, LateInv, CloseStack, coordVars, backendVars,
         countVars
<1>6. ASSUME NEW b \in Backends, OpenStack(b)
      PROVE  LateInv'
  BY <1>6
     DEF TypeOK, PlaceInv, CountInv, AttemptsBounded, FirstPass, Waiting,
         Locations, Idle, LateInv, OpenStack, coordVars, backendVars,
         countVars
<1>7. ASSUME NEW b \in Backends, ConnectOk(b)
      PROVE  LateInv'
  BY <1>7
     DEF TypeOK, PlaceInv, CountInv, AttemptsBounded, FirstPass, Waiting,
         Locations, Idle, LateInv, ConnectOk, Finish, SetPhase, coordVars,
         backendVars, countVars
<1>8. ASSUME NEW b \in Backends, ConnectTimeout(b)
      PROVE  LateInv'
  BY <1>8
     DEF TypeOK, PlaceInv, CountInv, AttemptsBounded, FirstPass, Waiting,
         Locations, Idle, LateInv, ConnectTimeout, Finish, SetPhase,
         InConnect, coordVars, backendVars, countVars
<1>9. ASSUME NEW b \in Backends, NEW authLike \in BOOLEAN,
             ConnectFailed(b, authLike)
      PROVE  LateInv'
  BY <1>9
     DEF TypeOK, PlaceInv, CountInv, AttemptsBounded, FirstPass, Waiting,
         Locations, Idle, LateInv, ConnectFailed, Finish, SetPhase, InConnect,
         AttemptAuthDiscovery, RecordAuthPendingOrFailure, coordVars,
         backendVars, countVars
<1>10. ASSUME NEW b \in Backends, Cancelled(b)
      PROVE  LateInv'
  BY <1>10
     DEF TypeOK, PlaceInv, CountInv, AttemptsBounded, FirstPass, Waiting,
         Locations, Idle, LateInv, Cancelled, Finish, coordVars, backendVars,
         countVars
<1>11. ASSUME NEW b \in Backends, AuthDone(b)
      PROVE  LateInv'
  BY <1>11
     DEF TypeOK, PlaceInv, CountInv, AttemptsBounded, FirstPass, Waiting,
         Locations, Idle, LateInv, AuthDone, coordVars, backendVars, countVars
<1>12. CASE Launch
  BY <1>12, BackendsAssumption, RetriesAssumption
     DEF TypeOK, PlaceInv, CountInv, AttemptsBounded, FirstPass, Waiting,
         Locations, Idle, LateInv, Launch, coordVars, backendVars, countVars
<1>13. CASE BeginStdio
  BY <1>13, BackendsAssumption, RetriesAssumption
     DEF TypeOK, PlaceInv, CountInv, AttemptsBounded, FirstPass, Waiting,
         Locations, Idle, LateInv, BeginStdio, coordVars, backendVars,
         countVars
<1>14. ASSUME NEW b \in Stdio, NextStdio(b)
      PROVE  LateInv'
  BY <1>14, BackendsAssumption, RetriesAssumption
     DEF TypeOK, PlaceInv, CountInv, AttemptsBounded, FirstPass, Waiting,
         Locations, Idle, LateInv, NextStdio, coordVars, backendVars,
         countVars
<1>15. CASE FirstPassDone
  BY <1>15, BackendsAssumption, RetriesAssumption
     DEF TypeOK, PlaceInv, CountInv, AttemptsBounded, FirstPass, Waiting,
         Locations, Idle, LateInv, FirstPassDone, FirstPassFailed, RetryLoop,
         coordVars, backendVars, countVars
<1>16. CASE BackoffDone
  BY <1>16, BackendsAssumption, RetriesAssumption
     DEF TypeOK, PlaceInv, CountInv, AttemptsBounded, FirstPass, Waiting,
         Locations, Idle, LateInv, BackoffDone, LaunchRetries, coordVars,
         backendVars, countVars
<1>17. CASE AuthWaitDone
  BY <1>17, BackendsAssumption, RetriesAssumption
     DEF TypeOK, PlaceInv, CountInv, AttemptsBounded, FirstPass, Waiting,
         Locations, Idle, LateInv, AuthWaitDone, LaunchRetries, coordVars,
         backendVars, countVars
<1>18. CASE RetryDone
  BY <1>18, BackendsAssumption, RetriesAssumption
     DEF TypeOK, PlaceInv, CountInv, AttemptsBounded, FirstPass, Waiting,
         Locations, Idle, LateInv, RetryDone, RetryLoop, coordVars,
         backendVars, countVars
<1>19. CASE CancelStartup
  BY <1>19, BackendsAssumption, RetriesAssumption
     DEF TypeOK, PlaceInv, CountInv, AttemptsBounded, FirstPass, Waiting,
         Locations, Idle, LateInv, CancelStartup, coordVars, backendVars,
         countVars
<1>20. CASE UNCHANGED vars
  BY <1>20 DEF TypeOK, PlaceInv, CountInv, AttemptsBounded, FirstPass,
     Waiting, Locations, Idle, LateInv, vars
<1> QED
  BY <1>1, <1>2, <1>3, <1>4, <1>5, <1>6, <1>7, <1>8, <1>9, <1>10, <1>11,
     <1>12, <1>13, <1>14, <1>15, <1>16, <1>17, <1>18, <1>19, <1>20 DEF Next,
     Coordinator, TaskStep

(* Together: IInv holds initially and every step preserves it. *)
LEMMA InitIInv == Init => IInv
<1> SUFFICES ASSUME Init PROVE IInv
  OBVIOUS
<1>1. TypeOK
  BY DEF Init, TypeOK, Locations, BackendPhases
<1>2. SessionsReady /\ PlaceInv /\ ConnectInv
  BY DEF Init, SessionsReady, PlaceInv, ConnectInv, Started, Idle, Backends
<1>3. CountInv /\ LateInv
  BY RetriesAssumption
     DEF Init, CountInv, LateInv, AttemptsBounded, FirstPass, Waiting
<1> QED BY <1>1, <1>2, <1>3 DEF IInv

LEMMA StepIInv == IInv /\ [Next]_vars => IInv'
BY TypeStep, PlaceStep, ConnectStep, SessionsStep, CountStep, LateStep
   DEF IInv

(* IInv is an invariant of the startup. *)
THEOREM InductiveInvariant == Spec => []IInv
BY InitIInv, StepIInv, PTL DEF Spec

(* The variables keep their types, for any backends and retries. *)
THEOREM TypeCorrect == Spec => []TypeOK
<1>1. IInv => TypeOK
  BY DEF IInv
<1> QED BY <1>1, InductiveInvariant, PTL

(* A backend is READY exactly while it has a session, and the session's exit  *)
(* stack is kept (connect_backend, the handlers of start_backend_svr).        *)
THEOREM SessionsReadyAlways == Spec => []SessionsReady
<1>1. IInv => SessionsReady
  BY DEF IInv
<1> QED BY <1>1, InductiveInvariant, PTL

(* No backend is tried more often than its own "retries" allows               *)
(* (launch_retry_tasks).                                                      *)
THEOREM AttemptsBoundedAlways == Spec => []AttemptsBounded
<1>1. IInv => AttemptsBounded
  BY DEF IInv, CountInv
<1> QED BY <1>1, InductiveInvariant, PTL

(* After Ctrl+C every backend is started at most once more                    *)
(* (retry_failed_backends, build_and_connect_stdio).                          *)
THEOREM AtMostOneLateStartAlways == Spec => []AtMostOneLateStart
<1>1. IInv => AtMostOneLateStart
  BY DEF IInv, LateInv, AtMostOneLateStart
<1> QED BY <1>1, InductiveInvariant, PTL
=============================================================================
