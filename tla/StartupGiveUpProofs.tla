------------------------- MODULE StartupGiveUpProofs -------------------------
(* NoEarlyGiveUp, for any backends, retries and concurrency.  Its inductive   *)
(* invariant EarlyInv rests on the one of StartupProofs.                      *)
EXTENDS StartupProofs

(* b has used the tries of n rounds, or all it has. *)
Used(b, n) == attempts[b] = IF n <= Retries[b] THEN n ELSE 1 + Retries[b]

(* No task is being cancelled or was, and one that ended without a session    *)
(* has reported a failure.                                                    *)
NoneCancelled ==
    \A b \in Backends :
        /\ ~cancelReq[b] /\ result[b] # "cancelled"
        /\ task[b] = "done" /\ b \notin sessions => result[b] = "false"

(* Until a shutdown is requested, every backend without a session is in       *)
(* failed_names and has used the tries of every round so far.                 *)
EarlyInv ==
    ~shutdown =>
        /\ NoneCancelled
        /\ FirstPass => \A b \in Backends : ~Waiting(b) => attempts[b] = 1
        /\ pc \in {"backoff", "authwait", "retrying"} =>
             /\ Backends \ sessions \subseteq failed
             /\ \A b \in failed : Retries[b] <= limit
        /\ pc \in {"backoff", "authwait"} => \A b \in failed : Used(b, attempt)
        /\ pc = "retrying" =>
             \A b \in failed :
                Used(b, IF Waiting(b) THEN attempt ELSE attempt + 1)
        /\ NoEarlyGiveUp

-----------------------------------------------------------------------------
(* ... and then it has used one more of its tries. *)
LEMMA StartOneEarly ==
    ASSUME TypeOK, PlaceInv, CountInv, EarlyInv, NEW b \in Backends, NEW built,
           task[b] \in {"gated", "prebuild"}, StartOne(b, built)
    PROVE  EarlyInv'
<1>1. SUFFICES ASSUME ~shutdown' PROVE EarlyInv'
  BY DEF EarlyInv
<1>2. /\ UNCHANGED <<pc, failed, attempt, limit, sessions, result, cancelReq,
                     shutdown>>
      /\ attempts' = [attempts EXCEPT ![b] = attempts[b] + 1]
      /\ Waiting(b) /\ ~Waiting(b)' /\ task'[b] # "done"
      /\ \A x \in Backends \ {b} : task'[x] = task[x]
  BY DEF StartOne, coordVars, TypeOK, Waiting
<1>3. attempts \in [Backends -> Nat] /\ attempt \in Nat /\ Retries[b] \in 0 .. 10
  BY RetriesAssumption DEF TypeOK
<1> failed \subseteq Backends
  BY DEF TypeOK
<1>4. NoneCancelled'
  BY <1>1, <1>2 DEF EarlyInv, NoneCancelled
<1>5. CASE FirstPass
  <2>1. attempts[b] = 0
    BY <1>2, <1>5 DEF CountInv
  <2>2. \A x \in Backends : ~Waiting(x)' => attempts'[x] = 1
    BY <1>1, <1>2, <1>3, <1>5, <2>1 DEF EarlyInv, Waiting
  <2> QED
    BY <1>2, <1>4, <1>5, <2>2 DEF EarlyInv, FirstPass, NoEarlyGiveUp
<1>6. CASE ~FirstPass
  <2>1. pc = "retrying" /\ b \in failed
    BY <1>6 DEF TypeOK, PlaceInv, FirstPass, Idle
  <2>2. attempt <= Retries[b]
    BY <1>2, <2>1 DEF CountInv
  <2>3. Used(b, attempt + 1)'
    BY <1>1, <1>2, <1>3, <2>1, <2>2 DEF EarlyInv, Used
  <2>4. ASSUME NEW x \in failed
        PROVE  Used(x, IF Waiting(x) THEN attempt ELSE attempt + 1)'
    <3>1. CASE x = b
      BY <1>2, <2>3, <3>1
    <3>2. CASE x # b
      BY <1>1, <1>2, <2>1, <3>2 DEF EarlyInv, Used, Waiting
    <3> QED BY <3>1, <3>2
  <2> QED
    BY <1>1, <1>2, <1>4, <2>1, <2>4 DEF EarlyInv, FirstPass, NoEarlyGiveUp
<1> QED BY <1>5, <1>6


(* A step that changes no round, no count and no task's waiting keeps         *)
(* EarlyInv, if the tasks it ends without a session have failed.              *)
LEMMA EarlyFrame ==
    ASSUME TypeOK, EarlyInv,
           UNCHANGED <<pc, failed, attempt, limit, attempts, shutdown>>,
           sessions \subseteq sessions',
           \A x \in Backends : Waiting(x)' <=> Waiting(x),
           ~shutdown => NoneCancelled'
    PROVE  EarlyInv'
<1>1. SUFFICES ASSUME ~shutdown PROVE EarlyInv'
  BY DEF EarlyInv
<1>2. failed \subseteq Backends
  BY DEF TypeOK
<1>3. FirstPass' => \A b \in Backends : ~Waiting(b)' => attempts'[b] = 1
  BY <1>1 DEF EarlyInv, FirstPass
<1>4. pc' \in {"backoff", "authwait", "retrying"} =>
         /\ Backends \ sessions' \subseteq failed'
         /\ \A b \in failed' : Retries[b] <= limit'
  BY <1>1 DEF EarlyInv
<1>5. pc' \in {"backoff", "authwait"} => \A b \in failed' : Used(b, attempt)'
  BY <1>1 DEF EarlyInv, Used
<1>6. pc' = "retrying" =>
         \A b \in failed' : Used(b, IF Waiting(b) THEN attempt ELSE attempt + 1)'
  BY <1>1, <1>2 DEF EarlyInv, Used
<1>7. NoEarlyGiveUp'
  BY <1>1 DEF EarlyInv, NoEarlyGiveUp
<1> QED
  BY <1>1, <1>3, <1>4, <1>5, <1>6, <1>7 DEF EarlyInv

(* What the top of the retry loop has to show for each of its two ways out.   *)
LEMMA EarlyBackoff ==
    ASSUME pc' = "backoff",
           NoneCancelled',
           Backends \ sessions' \subseteq failed',
           \A b \in failed' : Retries[b] <= limit' /\ Used(b, attempt)'
    PROVE  EarlyInv'
BY DEF EarlyInv, FirstPass, NoEarlyGiveUp

LEMMA EarlyDone ==
    ASSUME pc' = "done",
           NoneCancelled',
           \A b \in Backends \ sessions' : attempts'[b] = 1 + Retries[b]
    PROVE  EarlyInv'
BY DEF EarlyInv, FirstPass, NoEarlyGiveUp

(* The same for the steps of the first pass ... *)
LEMMA EarlyFirst ==
    ASSUME FirstPass', ~shutdown' => NoneCancelled',
           ~shutdown' => \A b \in Backends : ~Waiting(b)' => attempts'[b] = 1
    PROVE  EarlyInv'
BY DEF EarlyInv, FirstPass, NoEarlyGiveUp

(* ... and for the start of a round of retries. *)
LEMMA LaunchRetriesEarly ==
    ASSUME TypeOK, PlaceInv, EarlyInv, pc \in {"backoff", "authwait"},
           LaunchRetries
    PROVE  EarlyInv'
<1>1. SUFFICES ASSUME ~shutdown' PROVE EarlyInv'
  BY DEF EarlyInv
<1>2. /\ ~shutdown /\ pc' = "retrying"
      /\ UNCHANGED <<failed, attempt, limit, result, cancelReq, sessions, attempts>>
      /\ \A b \in Backends :
           task'[b] = IF b \in failed /\ attempt <= Retries[b] THEN "queued"
                                                              ELSE task[b]
  BY <1>1 DEF LaunchRetries, backendVars, countVars
<1>3. /\ failed \subseteq Backends /\ attempt \in Nat
      /\ \A b \in Backends : Retries[b] \in 0 .. 10
  BY RetriesAssumption DEF TypeOK
<1>4. NoneCancelled'
  BY <1>2 DEF EarlyInv, NoneCancelled
<1>5. /\ Backends \ sessions \subseteq failed
      /\ \A b \in failed : Retries[b] <= limit /\ Used(b, attempt)
  BY <1>2 DEF EarlyInv
<1>6. ASSUME NEW b \in failed
      PROVE  Used(b, IF Waiting(b) THEN attempt ELSE attempt + 1)'
  <2>1. CASE attempt <= Retries[b]
    BY <1>2, <1>3, <1>5, <2>1 DEF Used, Waiting
  <2>2. CASE ~(attempt <= Retries[b])
    <3>1. task'[b] = "done"
      BY <1>2, <1>3, <2>2 DEF PlaceInv, Idle
    <3> QED BY <1>2, <1>3, <1>5, <2>2, <3>1 DEF Used, Waiting
  <2> QED BY <2>1, <2>2
<1> QED
  BY <1>2, <1>4, <1>5, <1>6 DEF EarlyInv, FirstPass, NoEarlyGiveUp

(* Every step preserves EarlyInv. *)
LEMMA EarlyStep ==
    TypeOK /\ PlaceInv /\ ConnectInv /\ CountInv /\ EarlyInv /\ [Next]_vars
        => EarlyInv'
<1> SUFFICES ASSUME TypeOK, PlaceInv, ConnectInv, CountInv, EarlyInv, [Next]_vars
             PROVE  EarlyInv'
  OBVIOUS
<1>1. ASSUME NEW b \in Backends, Acquire(b)
      PROVE  EarlyInv'
  <2>1. /\ UNCHANGED <<pc, failed, attempt, limit, attempts, shutdown>>
        /\ sessions \subseteq sessions'
        /\ \A x \in Backends : Waiting(x)' <=> Waiting(x)
    BY <1>1 DEF TypeOK, Acquire, Waiting, coordVars, backendVars,
       countVars
  <2>2. ~shutdown => NoneCancelled'
    BY <1>1 DEF TypeOK, EarlyInv, NoneCancelled, Acquire,
       coordVars, backendVars, countVars
  <2> QED BY <2>1, <2>2, EarlyFrame
<1>2. ASSUME NEW b \in Backends, GatedStart(b)
      PROVE  EarlyInv'
  BY <1>2, StartOneEarly DEF GatedStart
<1>3. ASSUME NEW b \in Backends, NEW ok \in BOOLEAN, PreBuilt(b, ok)
      PROVE  EarlyInv'
  BY <1>3, StartOneEarly DEF PreBuilt
<1>4. ASSUME NEW b \in Backends, NEW ok \in BOOLEAN, Built(b, ok)
      PROVE  EarlyInv'
  <2>1. /\ UNCHANGED <<pc, failed, attempt, limit, attempts, shutdown>>
        /\ sessions \subseteq sessions'
        /\ \A x \in Backends : Waiting(x)' <=> Waiting(x)
    BY <1>4 DEF TypeOK, Built, Finish, Waiting, coordVars, backendVars,
       countVars
  <2>2. ~shutdown => NoneCancelled'
    BY <1>4 DEF TypeOK, EarlyInv, NoneCancelled, Built, Finish,
       coordVars, backendVars, countVars
  <2> QED BY <2>1, <2>2, EarlyFrame
<1>5. ASSUME NEW b \in Backends, CloseStack(b)
      PROVE  EarlyInv'
  <2>1. /\ UNCHANGED <<pc, failed, attempt, limit, attempts, shutdown>>
        /\ sessions \subseteq sessions'
        /\ \A x \in Backends : Waiting(x)' <=> Waiting(x)
    BY <1>5 DEF TypeOK, CloseStack, Waiting, coordVars, backendVars,
       countVars
  <2>2. ~shutdown => NoneCancelled'
    BY <1>5 DEF TypeOK, EarlyInv, NoneCancelled, CloseStack,
       coordVars, backendVars, countVars
  <2> QED BY <2>1, <2>2, EarlyFrame
<1>6. ASSUME NEW b \in Backends, OpenStack(b)
      PROVE  EarlyInv'
  <2>1. /\ UNCHANGED <<pc, failed, attempt, limit, attempts, shutdown>>
        /\ sessions \subseteq sessions'
        /\ \A x \in Backends : Waiting(x)' <=> Waiting(x)
    BY <1>6 DEF TypeOK, OpenStack, Waiting, coordVars, backendVars,
       countVars
  <2>2. ~shutdown => NoneCancelled'
    BY <1>6 DEF TypeOK, EarlyInv, NoneCancelled, OpenStack,
       coordVars, backendVars, countVars
  <2> QED BY <2>1, <2>2, EarlyFrame
<1>7. ASSUME NEW b \in Backends, ConnectOk(b)
      PROVE  EarlyInv'
  <2>1. /\ UNCHANGED <<pc, failed, attempt, limit, attempts, shutdown>>
        /\ sessions \subseteq sessions'
        /\ \A x \in Backends : Waiting(x)' <=> Waiting(x)
    BY <1>7 DEF TypeOK, ConnectOk, Finish, Waiting, coordVars, backendVars,
       countVars
  <2>2. ~shutdown => NoneCancelled'
    BY <1>7 DEF TypeOK, EarlyInv, NoneCancelled, ConnectOk, Finish,
       coordVars, backendVars, countVars
  <2> QED BY <2>1, <2>2, EarlyFrame
<1>8. ASSUME NEW b \in Backends, ConnectTimeout(b)
      PROVE  EarlyInv'
  <2>1. /\ UNCHANGED <<pc, failed, attempt, limit, attempts, shutdown>>
        /\ sessions \subseteq sessions'
        /\ \A x \in Backends : Waiting(x)' <=> Waiting(x)
    BY <1>8 DEF TypeOK, ConnectTimeout, Finish, InConnect, Waiting,
       coordVars, backendVars, countVars
  <2>2. ~shutdown => NoneCancelled'
    BY <1>8 DEF TypeOK, EarlyInv, NoneCancelled, ConnectTimeout, Finish,
       InConnect, coordVars, backendVars, countVars
  <2> QED BY <2>1, <2>2, EarlyFrame
<1>9. ASSUME NEW b \in Backends, NEW authLike \in BOOLEAN,
             ConnectFailed(b, authLike)
      PROVE  EarlyInv'
  <2>1. /\ UNCHANGED <<pc, failed, attempt, limit, attempts, shutdown>>
        /\ sessions \subseteq sessions'
        /\ \A x \in Backends : Waiting(x)' <=> Waiting(x)
    BY <1>9 DEF TypeOK, ConnectFailed, Finish, InConnect, Waiting,
       coordVars, backendVars, countVars
  <2>2. ~shutdown => NoneCancelled'
    BY <1>9 DEF TypeOK, EarlyInv, NoneCancelled, ConnectFailed, Finish,
       InConnect, coordVars, backendVars, countVars
  <2> QED BY <2>1, <2>2, EarlyFrame
<1>10. ASSUME NEW b \in Backends, Cancelled(b)
      PROVE  EarlyInv'
  BY <1>10 DEF EarlyInv, NoneCancelled, Cancelled
<1>11. ASSUME NEW b \in Backends, AuthDone(b)
      PROVE  EarlyInv'
  <2>1. /\ UNCHANGED <<pc, failed, attempt, limit, attempts, shutdown>>
        /\ sessions \subseteq sessions'
        /\ \A x \in Backends : Waiting(x)' <=> Waiting(x)
    BY <1>11 DEF TypeOK, AuthDone, Waiting, coordVars, backendVars,
       countVars
  <2>2. ~shutdown => NoneCancelled'
    BY <1>11 DEF TypeOK, EarlyInv, NoneCancelled, AuthDone,
       coordVars, backendVars, countVars
  <2> QED BY <2>1, <2>2, EarlyFrame
<1>12. CASE Launch
  <2>1. FirstPass /\ FirstPass' /\ UNCHANGED <<shutdown, attempts>>
    BY <1>12 DEF Launch, FirstPass, countVars
  <2>2. ~shutdown => NoneCancelled'
    BY <1>12, BackendsAssumption
       DEF TypeOK, EarlyInv, NoneCancelled, Launch, Backends, backendVars
  <2>3. \A x \in Backends : ~Waiting(x)' => ~Waiting(x)
    BY <1>12, BackendsAssumption
       DEF TypeOK, PlaceInv, Waiting, Idle, Launch, Backends
  <2> QED BY <2>1, <2>2, <2>3, EarlyFirst DEF EarlyInv
<1>13. CASE BeginStdio
  <2>1. FirstPass /\ FirstPass' /\ UNCHANGED <<shutdown, attempts>>
    BY <1>13 DEF BeginStdio, FirstPass, countVars
  <2>2. ~shutdown => NoneCancelled'
    BY <1>13, BackendsAssumption
       DEF TypeOK, EarlyInv, NoneCancelled, BeginStdio, Backends, backendVars
  <2>3. \A x \in Backends : ~Waiting(x)' => ~Waiting(x)
    BY <1>13, BackendsAssumption
       DEF TypeOK, PlaceInv, Waiting, Idle, BeginStdio, Backends
  <2> QED BY <2>1, <2>2, <2>3, EarlyFirst DEF EarlyInv
<1>14. ASSUME NEW b \in Stdio, NextStdio(b)
      PROVE  EarlyInv'
  <2>1. FirstPass /\ FirstPass' /\ UNCHANGED <<shutdown, attempts>>
    BY <1>14 DEF NextStdio, FirstPass, countVars
  <2>2. ~shutdown => NoneCancelled'
    BY <1>14, BackendsAssumption
       DEF TypeOK, EarlyInv, NoneCancelled, NextStdio, Backends, backendVars
  <2>3. \A x \in Backends : ~Waiting(x)' => ~Waiting(x)
    BY <1>14, BackendsAssumption
       DEF TypeOK, PlaceInv, Waiting, Idle, NextStdio, Backends
  <2> QED BY <2>1, <2>2, <2>3, EarlyFirst DEF EarlyInv
<1>15. CASE FirstPassDone
  <2>1. SUFFICES ASSUME ~shutdown' PROVE EarlyInv'
    BY DEF EarlyInv
  <2> DEFINE names == FirstPassFailed
             max == MaxRetries(names)
  <2>2. RetryLoop(names, 1, max)
    BY <1>15 DEF FirstPassDone
  <2>3. /\ ~shutdown
        /\ pc = "stdio" /\ todo = {} /\ \A b \in Backends : Idle(b)
        /\ UNCHANGED <<task, result, cancelReq, sessions, attempts>>
    BY <1>15, <2>1 DEF FirstPassDone, countVars
  <2>4. \A b \in Backends : task[b] = "done" /\ attempts[b] = 1
    BY <2>1, <2>3 DEF PlaceInv, Idle, EarlyInv, FirstPass, Waiting
  <2>5. Backends \ sessions \subseteq names /\ names \subseteq Backends
    <3>1. \A b \in Backends \ sessions : result[b] = "false"
      BY <2>3, <2>4 DEF EarlyInv, NoneCancelled
    <3> QED BY <3>1 DEF FirstPassFailed
  <2>6. max \in Nat /\ \A b \in names : Retries[b] <= max /\ Retries[b] \in 0 .. 10
    BY <2>5, MaxRetriesIsMax, RetriesAssumption
  <2> HIDE DEF names, max
  <2>7. NoneCancelled'
    BY <2>1, <2>3 DEF EarlyInv, NoneCancelled
  <2>8. CASE pc' = "backoff"
    <3>1. failed' = names /\ attempt' = 1 /\ limit' = max /\ 1 <= max
      BY <2>2, <2>8 DEF RetryLoop
    <3>2. ASSUME NEW b \in names
          PROVE  Retries[b] <= max /\ attempts[b] = IF 1 <= Retries[b] THEN 1
                                                     ELSE 1 + Retries[b]
      BY <2>4, <2>5, <2>6
    <3>3. \A b \in failed' : Retries[b] <= limit' /\ Used(b, attempt)'
      BY <2>3, <3>1, <3>2 DEF Used
    <3> QED BY <2>3, <2>5, <2>7, <2>8, <3>1, <3>3, EarlyBackoff
  <2>9. CASE pc' = "done"
    <3>1. names = {} \/ 1 > max
      BY <2>2, <2>3, <2>9 DEF RetryLoop
    <3>2. ASSUME NEW b \in Backends \ sessions
          PROVE  attempts[b] = 1 + Retries[b]
      <4>1. b \in names /\ Retries[b] \in 0 .. 10 /\ Retries[b] <= max
        BY <2>5, <2>6
      <4>2. Retries[b] = 0
        BY <2>6, <3>1, <4>1
      <4> QED BY <2>4, <4>2
    <3> QED BY <2>3, <2>7, <2>9, <3>2, EarlyDone
  <2> QED BY <2>2, <2>8, <2>9 DEF RetryLoop
<1>16. CASE BackoffDone
  <2>1. CASE LaunchRetries
    BY <1>16, <2>1, LaunchRetriesEarly DEF BackoffDone
  <2>2. CASE ~LaunchRetries
    <3>1. /\ pc = "backoff" /\ pc' = "authwait"
          /\ UNCHANGED <<failed, attempt, limit, task, result, cancelReq, sessions,
                         shutdown, attempts>>
      BY <1>16, <2>2 DEF BackoffDone, backendVars, countVars
    <3> QED
      BY <3>1 DEF EarlyInv, NoneCancelled, FirstPass, NoEarlyGiveUp, Used
  <2> QED BY <2>1, <2>2
<1>17. CASE AuthWaitDone
  BY <1>17, LaunchRetriesEarly DEF AuthWaitDone
<1>18. CASE RetryDone
  <2>1. SUFFICES ASSUME ~shutdown' PROVE EarlyInv'
    BY DEF EarlyInv
  <2> DEFINE names == failed \ sessions
  <2>2. /\ ~shutdown /\ pc = "retrying" /\ \A b \in Backends : Idle(b)
        /\ RetryLoop(names, attempt + 1, limit)
        /\ UNCHANGED <<task, result, cancelReq, sessions, attempts>>
    BY <1>18, <2>1 DEF RetryDone, countVars
  <2>3. /\ failed \subseteq Backends /\ attempt \in Nat /\ limit \in Nat
        /\ \A b \in Backends : Retries[b] \in 0 .. 10
    BY RetriesAssumption DEF TypeOK
  <2>4. \A b \in Backends : ~Waiting(b)
    BY <2>2 DEF PlaceInv, Idle, Waiting
  <2>5. \A b \in failed : Retries[b] <= limit /\ Used(b, attempt + 1)
    BY <2>2, <2>3, <2>4 DEF EarlyInv
  <2>6. Backends \ sessions \subseteq names
    BY <2>2 DEF EarlyInv
  <2>7. NoneCancelled'
    BY <2>2 DEF EarlyInv, NoneCancelled
  <2>8. CASE pc' = "backoff"
    <3>1. failed' = names /\ attempt' = attempt + 1 /\ limit' = limit
      BY <2>2 DEF RetryLoop
    <3>2. \A b \in failed' : Retries[b] <= limit' /\ Used(b, attempt)'
      BY <2>2, <2>5, <3>1 DEF Used
    <3> QED BY <2>2, <2>6, <2>7, <2>8, <3>1, <3>2, EarlyBackoff
  <2>9. CASE pc' = "done"
    <3>1. names = {} \/ attempt + 1 > limit
      BY <2>2, <2>9 DEF RetryLoop
    <3>2. ASSUME NEW b \in Backends \ sessions
          PROVE  attempts[b] = 1 + Retries[b]
      <4>1. b \in failed /\ attempt + 1 > limit
        BY <2>6, <3>1
      <4> QED BY <2>3, <2>5, <4>1 DEF Used
    <3> QED BY <2>2, <2>7, <2>9, <3>2, EarlyDone
  <2> QED BY <2>2, <2>8, <2>9 DEF RetryLoop
<1>19. CASE CancelStartup
  BY <1>19 DEF EarlyInv, CancelStartup
<1>20. CASE UNCHANGED vars
  <2>1. /\ UNCHANGED <<pc, failed, attempt, limit, attempts, shutdown>>
        /\ sessions \subseteq sessions'
        /\ \A x \in Backends : Waiting(x)' <=> Waiting(x)
    BY <1>20 DEF TypeOK, vars, Waiting, coordVars, backendVars,
       countVars
  <2>2. ~shutdown => NoneCancelled'
    BY <1>20 DEF TypeOK, EarlyInv, NoneCancelled, vars,
       coordVars, backendVars, countVars
  <2> QED BY <2>1, <2>2, EarlyFrame
<1> QED
  BY <1>1, <1>2, <1>3, <1>4, <1>5, <1>6, <1>7, <1>8, <1>9, <1>10, <1>11,
     <1>12, <1>13, <1>14, <1>15, <1>16, <1>17, <1>18, <1>19, <1>20 DEF Next,
     Coordinator, TaskStep

(* EarlyInv is an invariant of the startup. *)
THEOREM EarlyInvariant == Spec => []EarlyInv
<1>1. Init => EarlyInv
  BY DEF Init, EarlyInv, NoneCancelled, NoEarlyGiveUp, FirstPass, Waiting
<1>2. IInv /\ EarlyInv /\ [Next]_vars => EarlyInv'
  BY EarlyStep DEF IInv
<1> QED BY <1>1, <1>2, InductiveInvariant, PTL DEF Spec

(* Without Ctrl+C no backend is given up before its tries are used up         *)
(* (start_all, retry_failed_backends).                                        *)
THEOREM NoEarlyGiveUpAlways == Spec => []NoEarlyGiveUp
<1>1. EarlyInv => NoEarlyGiveUp
  BY DEF EarlyInv, NoEarlyGiveUp
<1> QED BY <1>1, EarlyInvariant, PTL
=============================================================================
