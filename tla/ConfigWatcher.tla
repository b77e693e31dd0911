---------------------------- MODULE ConfigWatcher ----------------------------
(* The polling watcher of the configuration file, with the file it watches    *)
(* and the reload callback ArgusService gives it.  A version of the file is   *)
(* its modification time: 0 when the file is missing, a fresh number at each  *)
(* save.                                                                      *)
EXTENDS Naturals

CONSTANT MaxSaves       \* bound: saves of the file after the first version

ASSUME MaxSavesAssumption == MaxSaves \in Nat

VARIABLES
    mtime,      \* os.stat of the file: 0 missing
    saves,      \* saves so far; the version on disk is the number of the last
    pc,         \* where the watcher task is
    lastMtime,  \* _last_mtime
    seen,       \* the mtime local of _poll_loop
    base,       \* the version on disk when the watcher started
    loaded,     \* the version ArgusService read last
    fired,      \* versions for which the callback has been called
    stopping,   \* _stop_event is set
    cancel      \* task.cancel() was called, its CancelledError not yet raised

vars == <<mtime, saves, pc, lastMtime, seen, base, loaded, fired, stopping,
          cancel>>

fileVars == <<mtime, saves>>
stopVars == <<stopping, cancel>>

(* "starting": ArgusService.start has loaded the file and is connecting the   *)
(* backends; the watcher starts at its end.                                   *)
Locations == {"starting", "sleep", "debounce", "callback", "reloading", "ended"}

Versions == 0 .. MaxSaves + 1

-----------------------------------------------------------------------------
(* The file.                                                                  *)

Save ==
    /\ saves < MaxSaves
    /\ saves' = saves + 1
    /\ mtime' = saves + 2
    /\ UNCHANGED <<pc, lastMtime, seen, base, loaded, fired, stopVars>>

(* An editor that replaces the file removes it first. *)
Remove ==
    /\ mtime # 0 /\ saves < MaxSaves
    /\ mtime' = 0
    /\ UNCHANGED <<saves, pc, lastMtime, seen, base, loaded, fired, stopVars>>

-----------------------------------------------------------------------------
(* The watcher.                                                               *)

(* start() *)
Start ==
    /\ pc = "starting" /\ ~stopping
    /\ pc' = "sleep"
    /\ lastMtime' = mtime
    /\ base' = mtime
    /\ UNCHANGED <<fileVars, seen, loaded, fired, stopVars>>

(* A loop that counts on the CancelledError alone to end it. *)
LoopTopDeaf == "sleep"

(* The top of the loop: the next poll, unless the stop event is set. *)
LoopTop == IF stopping THEN "ended" ELSE "sleep"

(* A poll that takes a missing file for a change. *)
PollMissingToo ==
    /\ pc = "sleep" /\ ~cancel
    /\ seen' = mtime
    /\ IF mtime = lastMtime
       THEN UNCHANGED <<pc, lastMtime>>
       ELSE pc' = "debounce" /\ lastMtime' = mtime
    /\ UNCHANGED <<fileVars, base, loaded, fired, stopVars>>

(* A poll that does not remember the version it reports. *)
PollForgets ==
    /\ pc = "sleep" /\ ~cancel
    /\ seen' = mtime
    /\ pc' = IF mtime \in {0, lastMtime} THEN pc ELSE "debounce"
    /\ UNCHANGED <<fileVars, lastMtime, base, loaded, fired, stopVars>>

(* The poll interval has passed: a missing file is no change.  While this or  *)
(* another await lasts, a cancellation that is on its way is raised instead.  *)
Poll ==
    /\ pc = "sleep" /\ ~cancel
    /\ seen' = mtime
    /\ IF mtime \in {0, lastMtime}
       THEN pc' = LoopTop /\ UNCHANGED lastMtime
       ELSE pc' = "debounce" /\ lastMtime' = mtime
    /\ UNCHANGED <<fileVars, base, loaded, fired, stopVars>>

(* The debounce has passed: the callback is called unless the file changed    *)
(* again, and then the newer version becomes _last_mtime.                     *)
Debounced ==
    /\ pc = "debounce" /\ ~cancel
    /\ \/ /\ mtime # seen
          /\ lastMtime' = mtime
          /\ pc' = LoopTop
          /\ UNCHANGED fired
       \/ /\ mtime = seen
          /\ pc' = "callback"
          /\ fired' = fired \cup {seen}
          /\ UNCHANGED lastMtime
    /\ UNCHANGED <<fileVars, seen, base, loaded, stopVars>>

(* reload() has the lock and reads the file; if it is missing, reload raises, *)
(* the error is logged and the loop goes on.                                  *)
CallbackReads ==
    /\ pc = "callback" /\ ~cancel
    /\ loaded' = IF mtime = 0 THEN loaded ELSE mtime
    /\ pc' = IF mtime = 0 THEN LoopTop ELSE "reloading"
    /\ UNCHANGED <<fileVars, lastMtime, seen, base, fired, stopVars>>

(* A loop that takes the file's time again after the reload. *)
CallbackEndsRestat ==
    /\ pc = "reloading" /\ ~cancel
    /\ pc' = LoopTop
    /\ lastMtime' = mtime
    /\ UNCHANGED <<fileVars, seen, base, loaded, fired, stopVars>>

(* The reload returns or raises; the loop looks at the stop event. *)
CallbackEnds ==
    /\ pc = "reloading" /\ ~cancel
    /\ pc' = LoopTop
    /\ UNCHANGED <<fileVars, lastMtime, seen, base, loaded, fired, stopVars>>

(* stop() sets the event and cancels the task; its CancelledError is raised   *)
(* once, at the await the task is in ...                                      *)
Stop ==
    /\ pc # "ended" /\ ~stopping
    /\ stopping' = TRUE
    /\ cancel' = (pc # "starting")
    /\ pc' = IF pc = "starting" THEN "ended" ELSE pc
    /\ UNCHANGED <<fileVars, lastMtime, seen, base, loaded, fired>>

(* ... where it ends the task, in the callback too (CancelledError is no      *)
(* Exception) ...                                                             *)
Cancelled ==
    /\ cancel
    /\ cancel' = FALSE
    /\ pc' = "ended"
    /\ UNCHANGED <<fileVars, lastMtime, seen, base, loaded, fired, stopping>>

(* ... unless a connect of the reload takes it for a rejected login.  Then    *)
(* the callback goes on to its end, and only the stop event is left.          *)
CancelSwallowed ==
    /\ cancel /\ pc = "reloading"
    /\ cancel' = FALSE
    /\ UNCHANGED <<fileVars, pc, lastMtime, seen, base, loaded, fired, stopping>>

-----------------------------------------------------------------------------
Init ==
    /\ mtime = 1
    /\ saves = 0
    /\ pc = "starting"
    /\ lastMtime = 0
    /\ seen = 0
    /\ base = 0
    /\ loaded = 1
    /\ fired = {}
    /\ stopping = FALSE /\ cancel = FALSE

Watcher ==
    \/ Poll
    \/ Debounced
    \/ CallbackReads
    \/ CallbackEnds
    \/ Cancelled
    \/ CancelSwallowed

Next == Save \/ Remove \/ Start \/ Watcher \/ Stop

(* Both sleeps end, and a reload ends because each of its awaits has a        *)
(* timeout.  Nothing is assumed of the editor or of stop().                   *)
Spec == Init /\ [][Next]_vars /\ WF_vars(Watcher)

-----------------------------------------------------------------------------
TypeOK ==
    /\ mtime \in Versions
    /\ saves \in 0 .. MaxSaves
    /\ pc \in Locations
    /\ lastMtime \in Versions
    /\ seen \in Versions
    /\ base \in Versions
    /\ loaded \in Versions
    /\ fired \in SUBSET (Versions \ {0})
    /\ stopping \in BOOLEAN /\ cancel \in BOOLEAN

(* "Debounce collapses them - only one reload fires": the callback is never   *)
(* called twice for the same version, nor for the version the watcher started *)
(* with (watcher.py _poll_loop).                                              *)
OneReloadPerVersion ==
    [][pc = "debounce" /\ pc' = "callback" => seen \notin fired \cup {base}]_vars

(* A save that comes while the watcher sleeps or while a reload is running is *)
(* not lost: unless the file changes again or the watcher stops, a reload     *)
(* reads that version (watcher.py _poll_loop, lines 99-123).                  *)
SaveOutsideDebounceReloaded ==
    \A v \in Versions \ {0} :
        (mtime = v /\ v # lastMtime /\ pc \in {"sleep", "reloading"})
            ~> (loaded = v \/ mtime # v \/ stopping)

(* stop() always gets its task back, though the one CancelledError it sends   *)
(* may be swallowed by a connect of the reload that is running: then the loop *)
(* must find the stop event (watcher.py stop, _poll_loop;                     *)
(* backend_connection.py start_backend_svr).                                  *)
StopEnds == stopping ~> pc = "ended"

(* docs/sync/README.md: "watches the configuration file for changes and       *)
(* automatically reloads"; rapid edits are collapsed into one reload, not     *)
(* into none: a version saved while the watcher runs is read, unless it is    *)
(* itself overwritten or the watcher stops.                                   *)
EverySaveReloaded ==
    \A v \in Versions \ {0} :
        (mtime = v /\ v # base /\ pc # "starting")
            ~> (loaded = v \/ mtime # v \/ stopping)
=============================================================================
