# axonctl in TLA+

A model of axonctl's concurrent core: how requests and replies are matched over
one device connection, how a connection is kept up and closed, how event-driven waits
see every change of the screen, how node actions are retried and the screen state is
kept, how the fleet controller attaches and detaches devices, and how scenarios run
over them; and, as functions, how a selector searches a dumped tree. TLC checks small
instances. For every value of the constants TLAPS proves each safety invariant of the
runs, the exactness of searches among them, the two action properties `ClosedForGood` and
`CancelledRunStartsNothing`, and the three refinements: of `RpcContract` by `Rpc`, and of
`Link` by `Connection` and by `Waits`.

Paths below are relative to `src/axonctl/` of the repository.

## 1. Inventory

Everything runs in one asyncio event loop; a step is what a task does between two
awaits. The only other threads are the adb worker threads (`asyncio.to_thread`) and
the thread of the device watcher.

| Component | State | Operations | Talks to |
|---|---|---|---|
| `IdGenerator` (`rpc/ids.py`) | the counter | `next` | asks the registry which ids are pending |
| `PendingRegistry` (`rpc/pending.py`) | id → (future, two-part flag, stashed metadata) | `register`, `resolve`, `resolve_binary`, `pop`, `cancel_all` | callers' futures |
| `RpcClient` (`rpc/client.py`) | none of its own; one `_request` coroutine per call | `call`, `call_binary` | ids, registry, transport |
| `FrameRouter` (`conn/router.py`) | none | `classify` | registry, event sink |
| `WsClient` (`conn/ws.py`) | the current socket | `open`, `send_text`, `recv`, `close` | websockets |
| `DeviceConnection` (`conn/connection.py`) | state, attempt, closing, stream flag, tasks, last toast | `connect`, `close`, `ensure_event_stream`, `recent_toast`; supervisor, read, ping and stream tasks | everything of one device |
| `ReconnectPolicy` (`conn/reconnect.py`) | none | `next_delay` | supervisor |
| `EventBus` (`events/bus.py`) | subscriber queues, closed flag | `emit`, `interrupt`, `close`, `subscribe` | waits |
| `ScreenState` (`events/state.py`) | last screen and package | `observe` | event sink, dumps |
| `WaitEngine` (`wait.py`) | none; one coroutine per wait | `wait_until`, `wait_toast` | bus, stream, dumps, toast buffer |
| `FleetController` (`fleet/controller.py`) | registry, watch task, attach signal, callbacks | `start`, `stop`, `wait_ready`, `run`, attach and detach handlers | watcher, adb, ports, tags, connections |
| `PortAllocator` (`fleet/ports.py`) | serial → port | `acquire`, `release` | controller |
| `TagIndex`, `resolve_targets` (`fleet/groups.py`) | tag → serials | `add`, `remove`, lookups | controller |
| `AdbWatcher` (`fleet/watcher.py`) | a queue fed by a thread | `events` | controller |
| `AdbBridge` (`fleet/adb.py`) | none | `forward`, `remove_forward`, `list_serials`, shell and apps | adb server |
| `FleetExecutor` (`fleet/executor.py`) | the global semaphore | `run` | registry, scenarios |
| `RetryPolicy` (`retry.py`) | none | `run` | node actions |
| `Device` (`device.py`), `GestureBuilder` | none | the user-facing API | RPC, waits, adb |
| UI tree and selectors (`tree/`) | a dump; parent links, set by the first search | traversals, `find`, `find_all` | `Device` |
| windows, geometry (`tree/window.py`, `tree/geom.py`), `inspect.py` | immutable values | parsing, filters, formatting | `Device` |

What is hard, and what makes each part correct:

- **Requests.** A reply, a deadline, an outside cancellation and a dropped link race
  for one future, and the caller runs only later; its `finally` pops by id, when the
  id may already belong to somebody else; a call can fail before it is sent, or be held
  in its send by flow control. Correct: the registry is exactly the calls still waiting,
  each caller gets its own whole answer or an error, each call ends. (Where the code
  falls short of this is told at the end of section 3.)
- **Connection.** The supervisor awaits in five places, and `close()` may come at
  each of them; its three tasks make calls of their own; the caller of an answered
  request resumes only later, and one that is held in its send may outlive its socket.
  Correct: connections do not overlap, every drop settles the calls and wakes the waits,
  the link comes back unless closed, a silent agent is noticed, `close()` is final and
  returns.
- **Events and waits.** Subscribing, enabling the stream and dumping are three
  awaits; changes, toasts and drops fall between them. Correct: no change is missed,
  no toast is lost or seen twice, a wait ends on a drop.
- **Fleet.** Presence events pile up behind one slow attach or detach; each handler
  takes several resources in several awaits and may fail or be cancelled between
  them. Correct: ports, forwards, connections, tags and announcements belong to
  attached devices, the registry converges to what is plugged in, one device's
  failure does not stop the watch, `stop()` undoes everything.
- **Executor.** Tasks of overlapping runs queue for two semaphores; a run is cancelled,
  or fails, while its tasks are anywhere on their way. Correct: the caps hold, no permit
  is lost or kept idle, results are complete, a cancelled run starts nothing more and
  every run ends.
- **Node actions and screen state.** A retry is a new request while the agent may still
  be busy with an old one; a dump's caller resumes after events that are newer than the
  dump. Correct: an action is performed at most once and its caller is told right, and
  what is known of the screen never goes back.
- **Tree and selectors.** Containers may be nested in one another, and an index counts
  what is left after the containers. Correct: what a search finds is what its selector
  names, each node once, in document order.

`PROJECT.json` lists the hazards with their lines and the properties that cover them.

## 2. Modules

| Module | Models | State and actions in the code |
|---|---|---|
| `Rpc` | ids, registry, `_request`, reply half of the router | `counter` is `_counter`; `entry` and `meta` are `_entries`; `pc`, `id`, `fut`, `doom` are one `_request` coroutine per call; `live`, `link` the socket; `inbox`, `wire`, `served` the agent |
| `RpcContract` | what a caller may rely on | no ids, frames or sockets: a call is idle, open or done |
| `RpcProofs`, `RpcContractProofs` | theorems about `Rpc`: its invariants; that it implements `RpcContract` | |
| `ConnectionProofs`, `WaitsProofs` | theorems about `Connection` and `Waits`: their invariants; that each implements `Link` | |
| `FleetProofs`, `ExecutorProofs`, `DeviceProofs` | theorems about `Fleet`, `Executor` and `Device`: their invariants; that a cancelled run starts nothing | |
| `TreeProofs` | theorems about `Tree`: a search finds what its selector names | |
| `Link` | what a connection promises its users | no sockets, tasks or attempts: the link is up, down or closed, calls are unsettled, subscribers asleep |
| `Connection` | `DeviceConnection` with its tasks, bus and transport | `sup` is where `_supervise` stands, `task` the three tasks of `_run_io`, `closer` where `close()` stands, `call` each caller in its `_request`; `socket`, `leaked`, `agent`, `streaming` the network side |
| `Fleet` | `FleetController`, `PortAllocator`, `AdbWatcher`, adb's forwards | `at` is the await at which the running handler stands and `hand` its serial; `phase` and `todo` are `stop()`; `orphans` are adb calls whose awaiting task was cancelled |
| `Waits` | `WaitEngine`, `EventBus` with its queues, `_handle_event`, `recent_toast` | `pc`, `queue`, `last`, `reply` are one `wait_until` or `wait_toast` each; `enabled`, `buffered`, `link` the connection; `shown`, `dirty`, `screen`, `pushing`, `draft`, `wire` the agent |
| `Executor` | `FleetExecutor`, `_resolve_serials`, `RetryPolicy` under a scenario | `phase`, `serials`, `cap`, `results` are one `run()` each, `pc`, `held`, `tries` the tasks of its `gather`; `sem` and `seek` are `asyncio.Semaphore`: the value, the waiting futures, who is in `acquire()` |
| `Device` | node actions under `RetryPolicy`, `dump`, `ScreenState` | `pc`, `tries` are one `_node_action` each, `job` what the agent makes of each of its calls, `acts` (history) how often it performed the action; `query`, `answer` are one dump each, `seen` is `ScreenState`; `wire` carries the frames with a screen number, in order |
| `Tree` | `UiNode`, `UiTree`, `Selector` | no state: operators over a dump, a node being its `nodeId` |
| `MCRpc`, `MCConnection`, `MCFleet`, `MCWaits`, `MCExecutor`, `MCDevice` | instances for TLC | |

The layers meet by abstraction. `Connection` keeps of a call where it stands in
`_request`, without ids, registry and frames: in its send, waiting under its deadline, or
answered and yet to resume; which answer it gets is the matter of `Rpc`. Between the connection and the waits
stands `Link`: `Connection`, with its supervisor, attempts and reduced queues, is
checked and proved to implement it (`Connection!ImplementsLink`), and so is `Waits`, with real
queues and futures and a link that just goes up and down (`Waits!ImplementsLink`). So
the link that `Waits` and `Device` run over does nothing that the real supervisor could not, as
far as its users see, and both sides keep the same promise: a drop, a failed attempt
and a close settle every call and wake every wait in one step, nobody falls asleep on a
closed bus, and a reconnected link starts with the flag cleared. The promise is about
futures and queues: a caller that is held in its send learns of it when the send ends. What a dump
returns is searched by the functions of `Tree`, which `Device` extends. `Fleet` takes a connection as
`Connection` describes it (its supervisor may dial until `close()` has awaited its
end, and not after it: `ClosedForGood`, `CloseReturns`).

Abstractions worth knowing:

- A reply's payload is reduced to its provenance: the call whose request the agent
  answered. That is all `NoCrossDelivery` and `TwoPartWhole` need.
- asyncio: a future that is settled and a task that resumes are two steps, so
  everything the loop may run between them is interleaved. A task that is being
  cancelled (`doom`) sees the cancellation when it runs next, whatever has happened
  to its future meanwhile; cancelling it cancels a still pending future at once.
- `Rpc!EncodeFails` is the exit of `_request` between the registration of the id and its
  `try`: copying or encoding the parameters raises, and the entry stays until the next
  drop clears the registry. `RegistryExact` counts these entries in.
- In `Connection` a reply and the resumption of its caller are two steps, so a caller that
  is about to set the stream flag meets whatever the supervisor does meanwhile. What it
  cannot meet is the next connection: a caller made ready before an attempt to open is in
  the loop's ready queue, which is first in, first out, and the handshake takes turns of
  the loop (`ReadyHaveRun`; so it is for a send that fails with its socket). A caller that
  awaits a future which `cancel_all` fails is out of its call in that step, since all it has
  left to do is to raise. One in its send is not (`failed`): it leaves when the send
  ends.
- A send in `Connection` returns while the agent reads, fails once its socket is lost or
  closed, and stalls without a deadline while the agent is `deaf`. A socket that is replaced
  while open is closed by nobody, so a caller in a send on it (`strayed`, and `stuck` when its
  future has been failed) may stay there for ever, also after `close()`. The websockets library's
  own keepalive may end such a send sooner (`OldSendEnds`), and nothing is assumed of it.
  The agent sees a request only when its send has returned.
- `Rpc!Begin` draws an id that nothing still carries (`Lingering`). It stands for the
  2^32 ids: with an id space of two or three, an id would come around while a frame
  of its last use is still in flight, which in the program takes 2^32 calls in
  between.
- `Rpc!Transmit` may be taken late or never: flow control. A call keeps the socket it
  found when it began; what it writes to a replaced socket is executed at most by an
  agent whose answer nobody reads.
- In `Waits` a tree is its screen number and whether the predicate finds what it looks
  for, or a screen without an active window. A dump is read at one step of the agent
  and sent at another, so events cross it. `CallFails` stands for the call's deadline,
  an agent error and a lost link, which end a wait alike. A request may be held in its
  send (`stuck`): the agent does not see it, a drop settles its future, and the wait goes on
  only when the send ends (`SendEnds`, with a failure) or its own deadline or a cancellation
  takes it out (`Abandon`). A send that is held and returns while its call is still wanted is
  a request that the agent sees late, which it may in any case. A request sent between a drop
  and the reconnect fails, or (`mute`) goes to the old socket that a missed heartbeat
  left open; so does one sent after a missed heartbeat has closed the bus of a connection
  that does not reconnect, until `close()`. `Reopen` and `OpenFails` wait until every
  task made ready before has run, as the back-off sleep lets it. `ScreenState` is in
  `Device`.
- In `Device` the agent handles the requests of a node action in two steps (it finds the
  node, it performs the action), and may still be at an earlier one when a retry comes.
  Which action, selector and error it is does not matter, only whether the error is
  STALE. A dump is reduced to its screen number and package; an empty package is `None`.
- In `Tree` the four attributes and three match modes are one attribute and the sets of
  values a criterion accepts; a chain of `.within()` is a sequence (a second `.within()`
  on the same selector replaces its container, so chains grow in the container).
  `Indices` are natural numbers, as the documentation says; for a negative index the code's
  `find` returns nothing while `find_all` may still return a node counted from the end.
- In `Fleet`, adb may or may not drop the forwards of a device that goes away, and
  a connection attempt reaches whatever device the dialled port is forwarded to.
- In `Executor` the registry is not a variable: `run()` reads it in its first step only,
  so `Start` chooses what is attached. A permit handed to a waiter and the waiter's
  resumption are two steps, and a cancellation may come between them. A scenario is a
  task that ends with a value, an Exception or a CancelledError, after at most one node
  action; what its calls do is the matter of `Rpc`. When `run()` ends its locals go:
  results stay with the caller, outcomes of tasks that outlive it are dropped.

## 3. Runs

| Run | Instance | Question | Result |
|---|---|---|---|
| `rpc` | 2 calls (one two-part) and a third stuck in its send, 2 ids, `MCSpec` | registry, delivery, two-part replies, refinement of `RpcContract`; a written request ends, a cancelled caller gets out | holds |
| `rpc_hang` | 2 calls, 2 ids, `FullyFairSpec` | every call ends | violated |
| `conn` | 2 users (one for the stream) that call one at a time, 1 subscriber, `Overflow = 2`, `MCSpec` | hand-over, flag, calls settled and waits woken, refinement of `Link`, recovery, heartbeat, `close()` and whom it lets out | holds, no deadlock |
| `conn_leak` | same, both users at once, `FairSpec` | sockets released by `close()` | violated |
| `conn_outage` | same, `LongOutageSpec` | recovery after an outage of any length | violated |
| `fleet` | 3 devices, 2 ports, 3 queued events | no misdial, usable registrations, nothing stray, empty after stop | holds |
| `fleet_live` | 2 devices, 1 port, 2 queued events, 1 waiter, `FairSpec` | wait_ready, convergence in both directions | holds |
| `waits` | a `wait_until` and a `wait_toast`, one running at a time, 2 screens, 1 toast, `FairSpec` | nothing slept through, refinement of `Link`, drops end waits whose sends return | holds |
| `device` | 1 node action with 3 attempts, 2 readers, 2 packages, 2 screen numbers; all trees of up to 4 nodes, chains of up to 2 selectors | an action is performed once, the screen state does not go back; searches are exact | holds |
| `executor` | 2 runs at a time, one with or without a cap of 1, 2 devices, 2 fleet permits, 2 attempts, `FairSpec` | caps, permits, results, cancellation, every run ends | holds, no deadlock |
| `fleet_stop` | 2 devices, 1 port | `stop()` returns | violated |
| `fleet_teardown` | 3 devices, 2 ports | `stop()` tears everything down | violated |

Bounds and why they are enough:

- Two calls run freely over two ids, side by side; when the third has begun it holds one
  of the ids until its send fails, so that the other two then share the other id: the
  second of them finds the space exhausted, and when the first ends its id passes on while its
  late traffic and late `finally` are still about; the counter wraps at once. A call runs once; the
  number of drops and reconnects is not bounded. With all three calls free and without the
  liveness properties the safety properties hold too (1.3 million states); the theorems of section 4
  cover them for every number of calls and ids.
- Two users in `Connection`: one whose call is only a call, one whose call sets the
  stream flag. With the ping and the stream task there are four callers, of which three are
  in a call at once, in sends that stall and on sockets that are replaced in any combination:
  one user calls at a time. With both free everything the run checks holds too (341,386
  states, about five minutes). Attempts are bounded by `Overflow`, the number of drops is not.
- Three devices and two ports: two attached devices exhaust the range for the third.
  Three queued events are enough for a device to leave, return and leave again behind
  another device's handler (`MaxEvents` bounds the backlog only, not how many times
  a device is plugged in). The liveness run uses one port for two devices and a
  backlog of two.
- Waits share only the stream flag and the toast buffer, and the connection's own
  stream task uses the first of them alongside any wait: one wait runs at a time
  (`MaxWaits = 1`; both kinds run, one after the other). Two screen numbers (`MaxScreen`)
  let a change follow the re-dump another caused, a restart starts them again, and how
  often the contents change before they settle is not bounded. With `MaxWaits = 2` the
  safety properties hold too, for two toast waits (1.1 million states) and for one wait of
  each kind (4.7 million; too slow together with the liveness property).
- Two runs of up to two tasks each over two fleet permits: there are more tasks than
  permits, both lines can be occupied, and a permit can be free while a granted waiter
  has not resumed. Targets are all devices, a tag that both carry, or a list that
  names one device twice. The number of runs, one after the other, is not bounded.
- Three attempts are the default of `Retry`: a STALE in the middle, one at the end, and a
  request of each attempt still with the agent. Two readers let an old dump and a new one be
  answered in either order around an event. Two screen numbers are an old one and the
  present one, and the package may change any number of times before its screen number does.
- Trees of four nodes contain a container in a container with a match below both, on
  either side of one outside; with indices 0, 1 and none every level of a chain can pick
  among several. What a search finds does not depend on the state, so TLC evaluates
  `ExactWithinBounds` once. The theorem of section 4 covers trees and chains of any size.
- Deadlock is checked for `Connection`, `Executor` and `Device` (somebody can always act). It is off for `Rpc`,
  where all calls may be done, for `Waits` and `Fleet`, which may be closed for good, and in
  `conn_outage`, where the frozen loop is the stop the run shows.

Fairness and why the code justifies it:

- `Rpc`: every call that can get on does: its deadline fires or its task, being ready, runs. The peer
  owes nothing, neither reading what is sent nor answering. `FullyFairSpec` adds the
  most one can ask of the network, and still `CallTerminates` fails.
- `Connection`: timers (back-off, ping interval, deadlines, `open_timeout`,
  the closing handshake's timeout) fire and ready tasks run. A deadline of a call runs only
  once its send has returned. A send goes on while the agent reads; nothing is assumed of a
  send to a `deaf` agent or on a replaced socket, nor that `transport.close()` ends while
  the agent does not read, for its close frame waits behind the stalled sends. So
  `HangDetected` is about an agent that reads and does not answer (a deaf one can hold the
  ping in its send), and `CloseReturns` makes an exception of a deaf agent, where all but the
  socket has been released, and of callers stuck on a replaced socket. `DeviceReachable` is strong
  fairness of a successful open: the device does not fail *every* attempt. It is what
  "while the device is still present" means for reconnection; `HangDetected` and
  `CloseReturns` do not depend on it.
- `Waits`: each wait gets on: its task runs when ready, and a call whose send has returned
  ends by its deadline (`AfterDeadline` in `Rpc`). Nothing is asked of the agent nor of a
  held send (`SendEnds`), and the deadline of the wait itself is not fair: a drop alone must
  do, except for a wait whose request is held (`InterruptEnds`).
- `Fleet`: the handler in progress goes on. This includes adb calls, which no deadline
  bounds in the code: an adb call that never returns stops the only watch task.

- `Executor`: ready tasks run, the delay of a retry ends, and a scenario ends or gets
  its answer (waits have deadlines, and calls once they are sent; a scenario that awaits
  something else for ever, or whose call is held in its send (`rpc_hang`), holds up its run,
  and through its permit others).

What the violated runs show (details and lines under `findings` in `PROJECT.json`):
`_request` enters its deadline only after `send` has returned; a reconnect after a
missed heartbeat abandons a socket that is still open; the back-off power overflows
at attempt 1024 before it is capped, in a loop that then never awaits; `close()`
swallows the cancellation of the task that awaits it, so that `stop()` during a
detach waits for ever; a cancelled or failed attach leaves its forward (and when
cancelled its port) behind.

Some behaviours came up that no run is about. `_request` registers its id (`rpc/client.py`,
124) before it copies and encodes the parameters (125-128), and its `try` begins only at 130:
a request that cannot be encoded (a lone surrogate in a text, an integer beyond 64 bits, a
value without a JSON form) leaves its entry in the registry, awaited by nobody, until the link
next drops. The docstring of `PendingRegistry.__contains__` says "Return `True` while `req_id`
is awaiting a reply". It is `EncodeFails` in `Rpc`, and `RegistryExact` says that it is the only
way to leave an entry behind. After an agent restart a `ScreenState` stays
ahead of the agent's counter, and keeps the old package, until the counter has caught up:
`ScreenSettles` is conditioned on the agent not having restarted. `gather` is called without
`return_exceptions` and `_invoke` captures Exceptions only, so a CancelledError that a
scenario lets out (`CancelledInside`) ends `run()` with it while the other tasks of the
run go on, start their scenarios and keep counting against the cap. A list that names a
device twice runs the scenario twice on it, at the same time if the permits allow, and
reports the outcome of the last position.

A toast that a `wait_toast` took
from its queue stays in `_last_toast`, so another `wait_toast` within the lookback
second returns it again (`ConsumeToast` leaves `buffered` alone). And a `wait_toast` that begins between a drop and the reconnect finds
the flag still set and skips `setEventStream`; it then hears toasts only if the
connection's own attempt to enable the stream succeeds. `StreamBehindWait` is therefore
stated for `wait_until`, whose dump would fail.

Every property has a mutant in `PROJECT.json`: a changed definition (the operators
marked "mutant", which nothing else uses) under which TLC finds it violated.

## 4. Proofs

`RpcProofs` proves, for any set of calls and any `MaxId`, that `Spec` implies
`[]TypeOK`, `[]RegistryExact`, `[]NoCrossDelivery` and `[]TwoPartWhole`, from
`RpcAssumption` alone (`Binary \subseteq Calls`, `MaxId \in Nat`, `None` is neither a
call nor a number).

The argument is one inductive invariant, `Inductive`. The four properties are not
inductive: that a resolved future has the right provenance rests on what may still
be on its way. The strengthening adds

- `IdsDistinct`: a call holds an id exactly while it runs, and no two running calls
  hold the same. It needs `RegistryExact` and the choice of ids outside `Lingering`.
- `LeftoverIdle`: nothing in flight carries the id of an entry that an unencodable request
  left behind, and no running call holds it.
- `FlightOwned`: a frame or an answerable request carrying the id of a running call
  was made for that call; hence a delivery cannot cross.
- `StashOwned`: the metadata stashed under an id is of the call registered there.
- `BinaryPaired`: on the wire a binary frame directly follows its metadata frame, and
  one at the head of the wire finds that metadata stashed; hence two-part answers are whole.

`InductiveNext` has one step per action; those that do not touch the registry go
through `QuietStep`, those that end a call through `FinishStep`, and `RegisterStep`,
`DeliverStep`, `ServeStep`, `DropStep` and `TransmitStep` are lemmas of their own.

`RpcContractProofs` proves `Spec => ImplementsContract`. To `Inductive` it adds
`Answered`: what is on the wire was executed, and a future that holds a reply holds
the whole reply its call expects, of its own request. With it every step maps:
`Register` to `Contract!Begin`, `Exhausted` and `EncodeFails` to `Fail`, `Serve` to `Execute`, the steps
that end a call (`EndingCall`) to `Succeed` or `Fail` (`Ends`), and all others leave
phases and outcomes alone (`Unseen`), because neither a delivery nor a drop touches
the future of a call that has ended.

`ConnectionProofs` proves, from `ConnectionAssumption`, `[]TypeOK`,
`[]QuietBetweenConnections`, `[]StreamFlagSound`, `[]NobodyStranded`, `ClosedForGood` and
`ImplementsLink`, for any users, subscribers and `Overflow`. `IInv` conjoins the invariants
with what they rest on:

- `Shape`: which tasks there are and where they stand.
- `HandledStreams`: a `setEventStream` the agent has handled on the present socket has
  made it push events there, and its caller, answered or not, is not one of an earlier
  socket. The caller sets the flag when it resumes, and `StreamFlagSound` says nothing about
  the moments before.
- `Closing`: what `close()` has reached at each of its awaits. `NobodyStranded` and
  `ClosedForGood` rest on it: `closed` is final because `closing` precedes it and the
  supervisor has ended.
- Of `NobodyStranded`, that a caller is held on a replaced socket only if one was replaced
  while open rests on `ReadyHaveRun`: of a dead socket no send is left when the next opens.
- `Progress`: a link that is up has no attempts behind it, one that reconnects has some, a
  closed bus belongs to a supervisor that has ended, a link that starts has its flag
  cleared and nobody about to set it. The steps of the refinement rest on it.

`WaitsProofs` proves, from `WaitsAssumption` and `NoneAssumption` (`None` is no answer of
the agent), `[]TypeOK`, `[]NoMissedChange`, `[]StreamBehindWait`, `[]NoMissedToast` and
`ImplementsLink`, for any numbers of waits, screens and waits at a time. The heart of `Inv`
is `ChangeInv`: for each `wait_until` whose predicate the present screen satisfies, the dump
it holds or will get is recent enough (`Safe`, `Covers`), or an event that is newer than its
baseline is in its queue, on the wire, or still owed by the agent (`Pending`). The rest says
who may rely on what: `AnswerInv`, a call has one answer, which is being taken, on the wire
or read; `DownInv`, without a link nothing is on its way; `StreamInv` and `HearInv`, whoever
may come to sleep has a live stream behind it or the sentinel before it; `DirtyInv`, a change
that has not settled has room to; `HeldInv`, a call held in its send has been settled by
nothing but a lost link; `ToastInv`, a toast read since the wait began is in its
queue.

`FleetProofs` proves, from `FleetAssumption`, `[]TypeOK`, `[]NoMisdial`,
`[]AttachedUsable`, `[]NothingStray`, `[]StopEmpties` and `[]NoLostWakeup`, for any
devices, ports and waiters and any bound of the backlog. The four in between need a
strengthening. `NoMisdial` and `NothingStray` need that ports are distinct (`PortInv`),
what the handler in progress still holds (`HandInv`, `OpenInv`), what is behind a dialled
port (`DialInv`), and that an adb call left behind by `stop()` is about a port nobody else
has been given (`OrphanInv`). `AttachedUsable` needs `NewsInv`: the news of a device in the
queue alternate and end in how it is plugged now, so that a registered device about which
there is no news is plugged in. `StopEmpties` needs `StopInv`, which keeps what is still
registered on the list of `stop()`.

`DeviceProofs` proves, from `DeviceAssumption`, `[]TypeOK`, `[]ActsOnce` and
`[]ScreenSettles`, for any actions, readers, attempts and screens. `ActInv` says that only the last
request of a node action can be undecided or can have performed the action, and that the
caller holds its outcome. `ScreenInv` calls an observation sound
when no screen number is ahead of the agent's and the package that goes with the present number
is the present one, and says that until the agent restarts everything on its way to
`ScreenState` is sound, and what it has as well.

`ExecutorProofs` proves, from `ExecutorAssumption`, `[]TypeOK`, `[]CapHolds`,
`[]GlobalPermitsWork`, `[]ResultsComplete` and `CancelledRunStartsNothing`, for any devices,
runs, caps, attempts and lists of targets. There are four inductive invariants:

- `CancelInv`: no task of a cancelled run is where it could still come to its scenario from
  (`Reached`). `Cancel` reaches every task that has not ended, and gather's future is done
  without a cancelled task only when all have ended. `OneTask`, `ExitReached` and `AskPlaces`
  say where a step can leave a task.
- `PermitInv`: who waits in which line (`TaskInv`, `LineInv`), and `Account`: every permit of
  a semaphore is free or with exactly one task, which runs, sleeps between attempts, or was
  granted it and has not resumed. Both the caps and `GlobalPermitsWork` follow by counting;
  that a task with a permit of the fleet does not wait for one of its run follows from the
  order in which a task enters the two (`TaskInv`).
- `ResultInv`: which tasks `gather` still waits for (`Collecting`) and that a run that has
  returned has an outcome for each serial of its list (`Returned`).
- `CountTypes`: what is left of the types, caps and counts of attempts.

The library's induction theorems are out of reach, since they take an operator as a
parameter, but well-founded induction over the numbers, stated for a
set rather than an operator, is not: the lemmas `Least`, `Greatest` and `Counting` of
`ExecutorProofs` are of this kind. They show what `Without` removes from a line (it is
the model's recursive function for the futures that drop out of `_waiters`), and that the
outcomes of a list are those of the last position of each serial.

`TreeProofs` proves, from `TreeAssumption`, `SearchesAreExact`: `ExactOn` for a dump of any
number of nodes with any labels and for a chain of containers of any length.
`DeviceProofs` concludes `[]SearchIsExact` from it. What is assumed of the agent is that
its ids are in pre-order (`Parentings`). The argument:

- The same induction shows that a recursive function exists and is what its equation says
  (`Recursion`; `Linear` and `Backward` when a value depends on one other). What `Among`,
  `Once`, `FlattenSeq`, `Ancestors`, `Descendants` and `FindAll` compute follows by
  induction along each recursion: up to a node's number, down from the last node, out from
  the outermost container.
- `Under(p, i, m)` says, without recursion, that node `i` is below `m`: from `m + 1` to
  `i` no parent is before `m`. The upward links (`AncestorsAre`) and the downward
  traversal (`DescendantsAre`) both compute it, and the traversal is ascending.
- Two nodes' descendants are nested or apart (`UnderTransitive`, `UnderBefore`). Hence
  what `_scope` passes through is `Rising`: each node is greater than all before it or
  one of them, so that dropping the repetitions (`OnceIs`) leaves it ascending.
- In an ascending sequence the place of a node is the number of those before it
  (`Rank`), which is what an index means.

Only model-checked: the liveness properties (`AfterDeadline`, `AfterCancel`, `Reconnects`,
`HangDetected`, `CloseReturns`, `Departs`, `Arrives`, `InterruptEnds` and `RunsEnd`: fairness
and ENABLED are outside TLAPS's reach).

## 5. Not modelled

Parsing and formatting (JSON, TOML, `inspect.py`), malformed frames (dropped without
a state change), windows (filters over a parsed list), geometry, gestures and the other
calls of `Device` that forward parameters and result, logging, the adb shell and app commands, which are single
calls without state of the client's. `start()` again after `stop()`, concurrent
`stop()`s and cancelling `stop()` itself are left out: a controller has one life, as
under `async with`. On Python 3.11 `asyncio.wait_for` waits in a task of its own; the
model of `wait_ready` follows 3.12 and later, where it waits in the caller's.

## 6. Plan

1. Done: `Rpc`, `RpcContract`, `Connection`, `Fleet`, `Waits`, `Executor`, `Device`,
   `Tree`, and `Link` with its two refinements; the theorems of section 4.
2. `Executor`: runs nested in a scenario, which can deadlock over the fleet's permits.
3. `next_delay` with cap and jitter as integer arithmetic.
