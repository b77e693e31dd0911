# Argus MCP: TLA+ models and proofs

Argus MCP is a gateway: one MCP server that connects to many backend MCP
servers, merges their tools, resources and prompts into one catalogue and routes
calls to them. This directory models the part of it that is concurrent and hard
to test: bringing backends up, keeping track of their health, following the
configuration file, and reloading, reconnecting and stopping while all of that
goes on. All of it runs on one asyncio loop, so tasks interleave only at an
`await`; **an action of these modules is the code between two awaits**.

## 1. Inventory

| Part | State | Operations | What is hard about it |
|---|---|---|---|
| Service lifecycle, `runtime/service.py` | `_state`, `_ready_event`, `_config_data`, `_backends_connected`, `_registry`, `_reload_lock` | start, stop, shutdown, reload, reconnect, the watcher's callback | stop does not take the lock; checks made before the lock; timeouts that cancel at any await |
| Backend connections, `bridge/client_manager.py`, `backend_connection.py` | `_sessions`, `_backend_stacks`, `_pending_tasks`, status records | connect, cancel_startup, disconnect_one, stop_all | cancellation swallowed, stacks and sessions changed by two tasks |
| Startup coordinator, `bridge/startup_coordinator.py` | retry counter, failed names | start_all, retries, wait for logins | Ctrl+C in every phase, different retries per backend |
| OAuth discovery, `bridge/auth_discovery.py` | `_auth_discovery_tasks` | start, wait | a login nobody completes |
| Health checker and circuit breaker, `bridge/health/` | health, circuit, phase | round, probe, hide, restore | sessions vanish during a round; two breaker implementations |
| Capability registry, `bridge/capability_registry.py`, `conflict.py`, `filter.py`, `rename.py` | route map, lists | discover_and_register, discover_single_backend, remove_backend | lists replaced during an await, order of the swap |
| Configuration watcher, `config/watcher.py` | `_last_mtime` | poll, debounce, callback, stop | saves at any moment |
| Configuration diff, `config/diff.py` | none | compute_diff | which fields count |
| Lifespan and signals, `server/lifespan.py` | uvicorn's `should_exit`, the server's registry | startup, signal override, shutdown | Ctrl+C during startup |
| Management API, `server/management/` | none of its own | reload, reconnect, shutdown, queries | requests race everything above |
| Routing and middleware, `bridge/middleware/` | none of its own | one call | route and session read at different moments |
| Session pool, HTTP pool, retry, elicitation, `bridge/` | entries, counters, futures | acquire, release, reap, ... | limits; not instantiated by the code yet |
| Tokens, `bridge/auth/` | cached tokens | get, refresh, sweep | concurrent refresh, expiry |
| Client sessions, SSE, `server/session/`, `server/transport.py` | sessions with a time to live | create, touch, expire | expiry against use |
| Rate limit, `server/rate_limit.py` | windows, counters | allow | limits |
| Workflows, plugins, `workflows/`, `plugins/` | step results, hooks | run | failure policies, order |
| Everything else (schema, CLI, TUI, skills, registry client, containers, audit, telemetry, Go tools) | files, screens | I/O | little a model would show |

PROJECT.json lists these parts with their status and the hazards, each at the
line where it bites.

## 2. Modules

| Module | Models |
|---|---|
| `Lifecycle` | the two transition tables of `runtime/models.py` and `transition` |
| `Startup`, `MCStartup` | start_all, connect tasks, OAuth discovery tasks, Ctrl+C |
| `CircuitBreaker` | both breakers, as operators on a record |
| `HealthChecker` | the checker with sessions, registry and records it works on |
| `ConfigWatcher` | the polling loop and a file that changes under it |
| `Service`, `MCService` | lifecycle, reload, reconnect, stop and shutdown, composed with the manager's sessions and stacks, the file and the watcher's callback |
| `StartupProofs`, `StartupGiveUpProofs`, `HealthCheckerProofs` | the proofs |

**Startup.** `pc` is where start_all is, `task[b]` where the connect task of a
backend is: queued for the semaphore, building its image, closing an old stack,
connecting, initializing, done. `snap` is the shutdown flag as it was passed by
value when the attempt began. Cancelling sets `cancelReq`, and the
CancelledError is a step of its own at the await the task is in. Delays and the
stagger between remote starts are reduced to order. `attempts` and `late` count
calls of start_backend_svr and exist only for the properties.

**HealthChecker.** A round makes one check per session; a check is due, then
probing. A capability is a pair of a type and a backend. `remove_backend` binds
new list objects while `discover_single_backend` appends to the one it took
before its await, so a restore task carries the flag `orphan`. Nothing keeps
the checker from making a second restore task while one is waiting; `restore`
counts the tasks of each backend in each state. `twin` receives the calls of
`circuit` on the other implementation. Other parts (reload, reconnect) appear as
Disconnect, ConnectStart and ConnectEnd; a connect ends connected, failed, or
failed with a login open, which keeps the record INITIALIZING.

**ConfigWatcher.** The content of the file is its version, which is also its
mtime; 0 is a missing file. Two saves with the same mtime are not modelled.
`stop` sets the stop event and cancels the task; the CancelledError is raised
once, at the await the task is in (`cancel`). A connect under the reload takes
it for a rejected login and goes on (CancelSwallowed), and then only the stop
event, which the loop reads at its top, ends the task.

**Service.** An entry of the configuration is `<<c, r>>`: `c` stands for the
fields `configs_differ` compares, `r` for the rest, such as the container and
network settings a stdio transport is built from. An operation is a management
request or the watcher's callback; `op[o].pc` is the await it is in. asyncio's
lock is taken at once when it is free. `stop` has one step per await, and
shutdown's timeout may hit each; the exit stacks are listed first (`listed`) and
then closed one after another, each close ending well or not. `start_all` ends in any way Startup allows.
`self._registry` appears as `tools`, the copies the service makes of it;
`served` is the registry the MCP server was given at startup. `start` is called
once, by the lifespan. The exception paths around `stop_all` cannot be reached,
since `stop_all` swallows its errors.

## 3. Runs

| Run | Expect | Instance | Question |
|---|---|---|---|
| `startup` | pass, 263,477 states | 2 remote, 2 stdio, one permit, retries 2, 1 and 0 | SessionsReady, AttemptsBounded, NoEarlyGiveUp, AtMostOneLateStart, StartAllReturns |
| `startup_auth` | violation | 1 remote, 1 stdio | AuthOutcomeKnown |
| `health` | pass, 711,816 states | 2 backends, 1 type, threshold 2, 1 disconnect, 2 restore tasks | TwinBreakersAgree, ListedRoutable, HiddenOnlyByTrip |
| `health_probe` | pass, 157,084 states | the same, 1 restore task | OpenIsProbedAgain |
| `health_restore` | violation | as `health` | RestoredIsListed |
| `health_sick` | violation | as `health_probe` | SickStaysHidden |
| `watcher` | pass, 1,200 states | 3 saves | OneReloadPerVersion, SaveOutsideDebounceReloaded, StopEnds |
| `watcher_debounce` | violation | 2 saves | EverySaveReloaded |
| `service` | pass, 460,549 states | 2 backends, 4 configurations and an invalid file, 2 edits, 1 request, 2 stops | SessionFresh, SessionOwnsStack, ConnectedExact, ReadyOnlyWhileUp, UnchangedLeftAlone, LegalTransitions, StopCompletes |
| `stop_race` | violation | the same, 1 edit | StoppedHasNoSessions |
| `reload_catalog` | violation | the same, 1 edit | ServedIsConfigured |
| `reload_other_fields` | violation | the same, 1 edit | SessionCurrent |

Every module with a passing run has its TypeOK checked by one.

What the violations show:

- `startup_auth`: the retry loop ends after its last round even if that round
  started a login, so the backend stays INITIALIZING.
- `health_restore`: hiding one backend while another is being restored makes
  the restored capabilities routable but unlisted.
- `health_sick`: a re-discovery that is waiting when its backend trips again
  registers the capabilities of a backend whose circuit is open. This takes a
  `cap_fetch` timeout longer than the default.
- `watcher_debounce`: a save during the debounce becomes the known version and
  is never loaded.
- `stop_race`: stop does not take the reload lock, and a reconnect in flight
  leaves a session in STOPPED.
- `reload_catalog`: the MCP server keeps the registry of the startup.
- `reload_other_fields`: an edit of a field `configs_differ` does not compare
  becomes the configuration in force, and the session opened with the old entry
  stays. SessionFresh, which the `service` run checks, speaks of the compared
  fields only.

**Bounds.** Two backends of a kind are enough for one to be treated differently
from the other, and one permit makes them compete. Retries 2, 1 and 0 make the
loop run longer than some backends may. Threshold 2 separates the first failure
from the trip; the failure count saturates at MaxFailures, which answers every
question the code asks of it. `cooled` is kept FALSE while a circuit is closed,
where nothing reads it. MaxRestores bounds the restore tasks alive at a time, of
all backends together; a probe that would make one more does not answer until
one has ended. Two are enough for tasks of one backend, and of two, to
interleave; `health_probe` has one, since no restore touches what its property
speaks of. One disconnect takes a session away at any point of a round. The four configurations contain a removed
backend, an added one (by going back), one changed in a compared field and one
changed in another. Two edits let the watcher's reload meet a second edit, and
one request meets the watcher. In `service`, `Flaky` is empty: list calls of
connected backends succeed. With one request, the branch of `Closed` for a
session already gone is not reached; the branch is in the model. Runs switch
deadlock checking off because each system may stop: start_all returns, the
watcher and the checker end, the service is STOPPED.

**Fairness.** Weak fairness of the steps the loop will run: Startup's
coordinator and tasks (every connect and the wait for a login have timeouts),
the checker's rounds and cooldowns (timers), and the watcher's own steps. In
Service it is the fairness of the loop as a whole: while an operation, stop or a
cancelled watcher can take a step, one of them does (each await has a timeout or
waits for one that has). That is less than fairness of each task, and enough
because edits and requests are finitely many. Nothing is assumed of users, editors,
Ctrl+C, restore tasks, logins or requests.

## 4. Proofs

TLAPS proves, for every number of backends and every value of the constants the
named assumptions allow:

- `StartupProofs` (any disjoint finite Remote and Stdio, retries 0 to 10 as the
  schema allows, positive concurrency): TypeCorrect, SessionsReadyAlways,
  AttemptsBoundedAlways, AtMostOneLateStartAlways; from the same assumptions,
  `StartupGiveUpProofs`: NoEarlyGiveUpAlways.
- `HealthCheckerProofs` (any backends and capability types, any positive
  threshold): TypeCorrect, TwinBreakersAgreeAlways, ListedRoutableAlways and the
  action property HiddenOnlyByTripAlways.

*Startup.* None of the properties is inductive alone. `IInv` adds: PlaceInv,
what the tasks can be doing at each place of start_all; ConnectInv, a task that
is not done has no session, is INITIALIZING once started and owns its stack when
it can succeed; CountInv, `attempts` against the loop's `attempt`, with room
left for those about to be tried; LateInv, no late start has happened at the
loop's decision points. One lemma per conjunct shows that each action keeps it,
and InductiveInvariant combines them. NoEarlyGiveUp needs one more, EarlyInv,
which is inductive relative to `IInv`: until a shutdown every backend without a
session is in `failed` and has used the tries of every round so far.
MaxRetriesIsMax supplies the one fact about the maximum.

*HealthChecker.* The Python breaker reopens a half-open circuit only at the
threshold, the Rust one always. They agree because a circuit that is not closed
has counted at least the threshold; that conjunct (`Tripped`) makes
TwinBreakersAgree inductive, and HiddenOnlyByTrip uses it too.

**Only model-checked:** everything of ConfigWatcher and Service, and all
liveness (StartAllReturns, OpenIsProbedAgain, SaveOutsideDebounceReloaded,
StopEnds, StopCompletes), which is beyond this prover.

## 5. Plan

Next, in this order:

1. `Registry`: discover_and_register with conflict strategies, filters and
   renames as operators against a reference definition; swap order against calls.
2. `Lifespan`: signal override and should_exit, composed with start and stop.
3. `Tokens` (cache, refresh, sweep), `ClientSessions` (time to live, SSE).
4. `SessionPool`, `RateLimit`: limits, breaker, lockout.
5. `Workflow` and the plugin and middleware chains.
6. Abstract specifications: a catalogue that is always the configured
   backends', which Service should implement up to the divergences above.
7. Proofs about Service (SessionOwnsStack, LegalTransitions) and ConfigWatcher
   (OneReloadPerVersion), then about the registry and the pool.

Not modelled, and not planned: text parsing and validation of the
configuration, transports and containers, terminal UI and CLI, audit,
telemetry, the Go helpers. They are I/O or text; the models take their outcomes.
