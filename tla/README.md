# TLA+ models of juniper-cascor-client

Specifications, model-checking configurations and proofs for the Python client
of the juniper-cascor training service (`src/juniper_cascor_client/`).

- [The system](#the-system): components, state, interaction, hard behaviours
- [The control stream](#the-control-stream), the core;
  [the training stream](#the-training-stream);
  [the liveness surface](#the-liveness-surface);
  [the REST client](#the-rest-client);
  [the fake REST client](#the-fake-rest-client);
  [the fake training stream](#the-fake-training-stream);
  [the counter of unrecognized frames](#the-counter-of-unrecognized-frames)
- [Runs](#runs), [bounds](#bounds), [fairness](#fairness)
- [Proofs](#proofs)
- [Where code and documentation disagree](#where-code-and-documentation-disagree)
- [Not modelled](#not-modelled) and [plan](#plan)

## The system

| Component | State | Operations | What must hold |
|---|---|---|---|
| `CascorControlStream` (`ws_client.py:549-829`) | `_ws`, `_pending` (command_id to future), `_recv_task` | `connect`, `disconnect`, `command`, `set_params`, the background `_recv_loop` | a response reaches the call it answers, or nobody; every call ends; pings are answered |
| `_WsLivenessMixin` (`:161-261`) | time of the last frame, pong count | `_mark_inbound_frame`, `_send_pong`, `is_connected`, `is_alive` | once `connect()` has left its connection read, a healthy peer is never declared dead, a dead one within the window |
| `CascorTrainingStream` (`:264-547`) | `_ws`, callbacks | `connect`, `disconnect`, `stream`/`listen`, `send_command`, `on_*` | each frame dispatched and yielded once, in order; a faulty listener disturbs nobody |
| `JuniperCascorClient` (`client.py`) | an HTTP session with a retry policy | some 30 REST methods over `_request`, `wait_for_ready` | requests that change the service are sent once; each outcome has one exception class |
| `FakeCascorClient` (`testing/fake_client.py`) | network, training state, epoch, history, dataset, snapshots, workers, one lock | the REST methods, `advance_epoch`, `set_state` | state machine and bookkeeping like the service's |
| `FakeCascorTrainingStream` (`testing/fake_ws_client.py`) | connected flag, queue, preloaded messages | as the real stream, `inject_message` | what is injected is dispatched once, in order, and yielded unless a listener raises or the consumer goes; iterations end after `disconnect()`, and not before what waits for them |
| `observability.py` | a lazily created process-wide counter | `record_unrecognized_frame`, `reset_for_tests` | frames go to the counter that the registry exports; none is left out once there is one |
| `scenarios.py`, `constants.py`, `exceptions.py` | none | data, numeric curves, class hierarchy | |
| `util/memory_budget_check.py`, CI, build, typing probe | none | a script that checks a configuration file; configuration | |

The application drives the three clients from its own coroutines and threads.
The two streams talk to the cascor server through the `websockets` library,
which buffers received frames per connection, lets one coroutine at a time call
`recv()`, and suspends `send()` while the transport drains. The server sends
`connection_established`, then heartbeat pings (every 30 s; it closes the
connection when one is not answered within 10 s), responses to commands and, on
the training stream, events. The REST client talks to the service through
`requests` and urllib3's `Retry`. The fakes replace the clients in the tests of
other packages and keep everything in memory. Streams on the event loops of
several threads share the counter's two globals.

Nothing is persisted, so nothing recovers from a crash. The hard behaviours are

- **interleaving**: coroutines share one control stream, and every `await` is a
  point where another one runs. The entries of `_pending`, the recv task and
  `_ws` may have changed when a coroutine comes back;
- **timeouts, cancellation and late answers**: a timer, a cancelled task and a
  response can hit one future in the same turn of the event loop;
- **failure in the middle**: a connection that closes with frames in its buffer,
  a send that is suspended, a handshake that fails, a recv loop that dies;
- **protocol sequences**: reconnecting, disconnecting while calls are waiting,
  a caller-supplied `command_id` used twice, consumers that come and go;
- **time against time**: the server's heartbeat and deadline, a consumer that
  keeps a frame, and the window after which a connection counts as dead.

`PROJECT.json` lists each hazard with its line and the properties aimed at it.

## The control stream

Module by module:

| Module | What it is |
|---|---|
| `CommandCalls` | the promise to callers: a call's request reaches the server at most once, and what the call returns is the server's answer to itself, or nothing |
| `ControlStream` | the code: callers, recv loop, owner, event loop, connections, server; its properties; `Promise`, the mapping to `CommandCalls` |
| `MCControlStream` | which events the environment may produce in each run |
| `ControlStreamProofs` | type correctness; the safety of the correlation, and that `ControlStream` implements `CommandCalls`; what keeps the recv loop alive |

### How it corresponds to the code

asyncio runs one task at a time, from one suspension to the next, and takes
tasks from a FIFO queue of ready handles. The model keeps that queue (`ready`):
**a task's turn is one action**, enabled when the task is at the head of the
queue. What happens to a suspended task from outside (a timer, `cancel()`, a
frame that arrives, a transport that drains) is an action of its own that puts
it at the queue's end. The order matters: `asyncio.sleep(0)` in the recv loop
(`ws_client.py:801`) protects the loop against repeated responses only because
the resolved caller is ahead of it in the queue, and `LoopSurvives` checks that.
The one place where a turn takes several actions is the `while True` loop of
`_recv_skipping_pings` (`directLoop`); while it is under way the task stays at
the head of the queue and no other code of the object runs (`MidTurn`).

| State | Code |
|---|---|
| `ws`, `recvTask` | `self._ws`, `self._recv_task` (0 for `None`) |
| `pending` | `self._pending`; the future is represented by the caller that awaits it (`call[c].fut` is its state) |
| `ready` | asyncio's queue |
| `loop` | the recv tasks, of which a racing `disconnect()` can leave more than one; `at` says at which `await` each stands or how it ended |
| `call` | each caller's latest call: `at` is the `await` it stands at, `interrupt` what will be raised at its next turn |
| `owner` | where `connect()` or `disconnect()` stands |
| `conn`, `pushes` | external: the received frames, the requests the server took, those it answered |

| Actions | Code |
|---|---|
| `SetParams`, `Command` | the synchronous part of `set_params`/`command`: the guards, registration in `_pending`, `_ensure_recv_task`, `ws.send` |
| `SendDone`, `WaitDone`, `Finish` | `_send_correlated` after `ws.send` and after `wait_for`, with its `finally` |
| `DirectResume`, `DirectRead`, `DirectWoken`, `DirectFrame` | the direct path of `command` and `_recv_skipping_pings` |
| `LoopResume`, `LoopRecv`, `LoopWoken`, `LoopFrame`, `ResolveFuture`, `LoopDisconnected`, `LoopCancelled` | `_recv_loop` between its awaits: first `while` test, after `sleep(0)`, after `recv()`, what it does with a frame, its `except` clause, cancellation |
| `Connect`, `Connected`, `Handshake`, `ConnectFails` | `connect`, split at its two awaits |
| `Disconnect`, `Joined`, `Closed` | `disconnect`, split at its two awaits |
| `Timeout`, `Cancel`, `IoReady` | external: timers, `Task.cancel`, the transport |
| `Greet`, `Push`, `Respond`, `ServerCloses` | external: the server |

A frame is what the code tells apart: its type, its `command_id`, and (for the
properties only) `re`, the call whose request the server answers with it.
`not_object` is a JSON value that is not an object (`msg.get` raises),
`malformed` is a frame that does not parse. A uuid is the pair (caller, call
number). Parameters, payloads, logging and clocks are left out.

One owner coroutine connects and disconnects; several callers send. That is how
the class is used in `src/docs` and in `async with`. Two coroutines that call
`connect()` concurrently on one object are not modelled.

## The training stream

| Module | What it is |
|---|---|
| `FrameDelivery` | the promise to consumers: the application frames of a connection are handed over once each, in order, and its end is seen only when nothing sent on it is left |
| `FrameDeliveryProofs` | the promise implies the order of delivery, whoever implements it |
| `TrainingStream` | the code: consumers, listeners, owner, connections, server; its properties; `Promise`, the mapping to `FrameDelivery` |
| `MCTrainingStream` | the listeners of the runs |
| `TrainingStreamProofs` | type correctness, what listeners hear, `TrainingStream` implements `FrameDelivery` |

`stream()` is an asynchronous generator: it runs only while its consumer asks
for a frame, and `listen()` is a consumer that always asks. Several coroutines
may iterate over one stream, so each has a generator (`gen[c]`):

| `gen[c].at` | The generator stands |
|---|---|
| `none` | nowhere: not started, ended, or closed by its consumer |
| `reading` | in its turn, before the next `recv()` of the `async for` |
| `recv` | suspended in `recv()` |
| `pong` | suspended in the `send()` of a pong |
| `yielded` | at its `yield`, the consumer has the frame |

A turn goes from one suspension to the next and may read many frames that are
there already. Each is one action, and no other coroutine runs until the turn is
over (`BetweenTurns`).

| Actions | Code (`ws_client.py`) |
|---|---|
| `Start`, `Resume`, `Leave` | the consumer: first and later `__anext__()`, `break` or cancellation |
| `Receive`, `Woken` | `recv()` called in the turn, or returning to a suspended generator; what happens to the frame is `DropFrame`, `AnswerPing`, `YieldPing`, `Crash` or `HandOver`, and at the connection's end `Finish` |
| `PongSent` | `_send_pong` after its `await` |
| `Register` | `on_metrics`, `on_state`, ..., `on_disconnect` |
| `Connect`, `ConnectFails`, `Connected`, `Disconnect`, `Disconnected` | `connect` and `disconnect`, split at their awaits |
| `Push`, `Close` | external: the server and the network |

The frame types `metrics` and `state` stand for all types of application
messages: the code treats them alike. The histories `events`, `heard`, `since`
and `ended` are for the properties; `events` is what was yielded or reported, in
order. A listener that raises (`Faulty`) is one of the constants: `_dispatch`
logs what it raises. `send_command` sends a frame and changes no state of the
client; it is left out.

## The liveness surface

`Heartbeat` sets `_WsLivenessMixin` against the clock. The two modules above let
timers fire at any moment; here the times themselves are the question, so they
are counted in seconds, and what the reader does with a frame is cut down to
marking, answering and keeping it.

| State, actions | Code, or outside |
|---|---|
| `ws`, `silence`, `autoPong` | `_ws` and its protocol state; `time.monotonic() - _last_frame_monotonic` (`Never` for `None`); `_auto_pong` |
| `stream` | which of the two classes this is |
| `reading` | what is read of the present connection: its `greeting`, by `connect()`; its `frames`; `nothing`; or nothing since its handshake has `failed` |
| `stray` | a recv loop, or a consumer's iteration, that the latest `connect()` did not bring is running: on the connection before, or started by a command |
| `Alive` | `is_connected`, `is_alive` (`ws_client.py:232-261`) |
| `Connect` | `connect` of the training stream, which marks the connection as evidence in the turn that sets `_ws` (`:349-353`); a consumer then iterates it |
| `Dial`, `Greeted`, `HandshakeFails` | `connect` of the control stream: `_ws` is set (`:617`), the greeting awaited (`:622`), the evidence marked and a recv loop started unless one is running (`:630-631`, `:785`); or it raises and leaves the connection open, unmarked and unread (`:624`) |
| `Disconnect` | `disconnect`; the control stream's cancels the recv loop, wherever it reads |
| `Read` | `_mark_inbound_frame` on every frame, then a pong for a ping under `auto_pong`, else the training stream's consumer keeps the frame for up to `Hold` seconds |
| `StrayRead`, `StrayEnds` | what is left of earlier connections reads a frame: it counts as evidence, and a ping is answered on `self._ws`, whichever that is now; or its connection is closed |
| `SendCommand` | any frame the application sends: the server takes it as a sign of life as well; a command starts a recv loop where none runs |
| `CloseSeen` | external: the close is processed, or the library's keepalive fails |
| `Ping`, `Push`, `Hear`, `Refuse`, `Vanish`, `Lost` | external: the server's heartbeat, its application frames, the frames it gets, its closing for want of them, and a connection that dies without a word |
| `Tick` | external: a second passes, unless something is due |

`connect()` may be called at any time, over an open connection too: that is what
`is_alive()` tells supervisors to do when a peer has died without a word, and
neither class closes or cancels what the old connection has. Its loop or
iteration goes on (`stray`), and because of it a new connection of the control
stream may get no loop (`reading` = `nothing`). The properties are about
connections that `connect()` has left read (`Ready`). Between `Dial` and
`Greeted`, and after `HandshakeFails`, `is_alive()` goes by the evidence of an
earlier connection or by none, and reads False on a healthy peer; nothing in the
code promises otherwise. Frames on a connection that nobody reads are not
followed, nor is a recv loop that the first command after a failed handshake
starts: `reading` stays as it is, and the properties say nothing of it.

`HeartbeatProofs` has the proofs. A frame takes up to `Delay` seconds to be read
once its reader is free, and up to `Delay` to arrive at the server. The
assumption says what the classes cannot enforce: the reader keeps up
(`Hold + 2 Delay < Gap`), is faster than the server's deadline
(`Hold + 4 Delay < PongTimeout`), and the window covers a heartbeat
(`Interval + Delay <= Window`). The first leaves room for one application frame
in front of a ping. A consumer with a longer backlog does answer too late, and
nothing in the code prevents that.

## The REST client

`RestClient` is one thread's calls of `JuniperCascorClient`, one after another.
Every method of the class is `_request()` with an HTTP method and a path, so a
call is its HTTP method; the path is irrelevant to the properties. A call is a
number of attempts, and `call.at` says what the client waits for:

| `call.at` | Waiting for | Left by |
|---|---|---|
| `connecting` | a TCP connection to one of the host's addresses, each under the timeout | `Connected`, `ConnectFails`, `Piece` |
| `reading` | a piece of the answer's head, under the timeout | `Answered`, `ReadFails`, `Piece` |
| `body` | a piece of the rest, under the timeout | `Complete`, `BodyFails`, `Piece` |
| `backoff` | `Retry`'s sleep before the next attempt | `Retry` |
| `sleeping` | `wait_for_ready`'s `time.sleep` | `Poll` |

`Issue` and `WaitForReady` begin a call or a poll. `FailOrRetry` is urllib3's
`Retry` as `__init__` configures it: a failed connection is tried again for
every method; a failed read, or a status of `RetryStatuses`, for GET only; with
`raise_on_status=False` the last answer is returned whatever its status.
`End(o)` returns or raises, or inside `wait_for_ready` hands the outcome to
`is_ready`. An outcome is the exception class (`validation`, `timeout`, ...) or
`ok`; `ready` is the health answer that reports a network; `no_object` is the
`AttributeError` that a JSON body other than an object causes.

External: `wire` holds the requests the service has not handled yet, `Handle`
handles any of them at any time, also after the client has given it up, `Lose`
drops one, and `ReadyChanges` creates or deletes the network. Time is counted in
ticks, and `Tick` happens only while the client waits: `left` is what remains of
the present wait, `budget` the time to `wait_for_ready`'s deadline. A wait may
end at any moment before its timeout and at the latest with it. The timeout
(`client.py:544`) is one of each wait, not of a phase: `requests` applies it to
each address that it tries and to each read of the socket. `Piece` is another
address, or a piece of an answer that does not complete it: the client waits anew.
So a phase has no bound, and `extra` counts what the probes of a
`wait_for_ready` have gained in that way.

Left out: name resolution, which no timeout covers; redirects, `Retry-After` (which would prolong a backoff beyond
`MaxBackoff`), `close()`, the bodies of requests and the building of URLs, two
threads in one client.

## The fake REST client

`FakeClient` is `FakeCascorClient`, which has the service's state machine in
memory. Its methods take a lock and hold it to their end, so each is one action.
Two are not: `advance_epoch(n)` is one action per epoch, with `advancing`
iterations left while it holds the lock, and `_request()` tests `_closed` before
it takes the lock (`Ask`, `Answer`), so that a `close()` may come in between.
An error that the `error_prone` scenario injects, and a refused call, leave the
state alone: that is a step in which nothing happens.

| State | Code |
|---|---|
| `loaded`, `epochsMax`, `units` | `_network_loaded`, `epochs_max` in `_network_config`, `hidden_units` in `_topology` (0 and -1 where those are `None`) |
| `state`, `epoch`, `history`, `lastEpoch` | the run: `_state`, `_epoch`, the epochs in `_metrics_history`, `epochs` in `_training_params` |
| `dataset`, `staged`, `experimental` | `_dataset`, `_pending_dataset_config`, `_experimental_functions_enabled` |
| `closed`, `inside` | `_closed`; calls between the test for it and the lock |
| `forced` | history: `set_state()`, the test hook that ignores every rule, was used in this run |

The actions have the methods' names. The reading methods change nothing; what
they return is `CurrentEpoch`, `TotalMetrics`, `HiddenUnits`, `MetricsEpoch` and
`MetricsUnits`, and the properties are stated about those. Weights, curves and
the literals that `get_workers` and the snapshot methods return are left out.

## The fake training stream

`FakeStream` is `FakeCascorTrainingStream`: the test injects messages into an
`asyncio.Queue`, consumers take them off it, each under `wait_for`'s timer. A
turn of a consumer goes from one `await` or `yield` to the next, with nobody else
moving (`BetweenTurns`); within it the consumer is at `next`, so that pings are
skipped one action at a time.

| `at[c]` | The iteration stands | Left by |
|---|---|---|
| `out` | nowhere | `Start` |
| `next` | at the head of the loop (`fake_ws_client.py:134`), in its turn | `Advance` |
| `waiting` | in `queue.get()`, the queue was empty | a message (`woken`), `Expire` |
| `woken` | its future is resolved, its turn has not come | `Woken`, `Expire` |
| `expired`, `overdue` | its timer has fired, without or after a wakeup | `TimedOut` |
| `paused` | in `asyncio.sleep(delay)` after dispatch | `Yield` |
| `body` | at a `yield`: the consumer has the message | `Resume` |

`Leave` ends it at any of its suspensions. A consumer that is cancelled or timed
out after it was woken hands the wakeup on (`GiveUp`), as `asyncio.Queue` does;
one that is woken may find that another, which was in its turn, has taken the
message. `TimedOut` looks at the queue again (`:140`), `Advance` at the
connection. `Connect` loads what was injected before it, the first time only;
the messages given to `__init__` are injected before `connect()`. `instant` is
`delay=0`: `wait_for` with a timeout of 0 cancels `get()` before it has run.

Three things can happen to a message off the queue: a ping is answered or
yielded (`TakePing`); a message that is not an object makes `message.get` raise
(`Crash`); of any other the listeners are called (`Dispatch`). The fake calls
them without the guard that the real stream has (`ws_client.py:529-532`): if one
raises (the types in `Faulty`), the iteration ends and the message is not
yielded. If none does, the consumer pauses for `delay` seconds with the message
in hand (`held`) before it is yielded, and a consumer that is cancelled in the
pause takes the message with it (`abandoned`).

So dispatching and yielding are two histories. `dispatched` is held to
`FrameDelivery`, the module that the real stream implements too, with one
connection that is never over, since reconnecting goes on with the same queue
(`ImplementsDispatch`). It has every message whose listeners were called, those
that raised included. `yielded` is what consumers got: `YieldsSound` says that it
has no message twice, none out of order for one consumer, and misses only those
that were abandoned in the pause, raised, or are held. In the real stream
dispatch and yield are in one turn, and `TrainingStream` needs no such
distinction.

## The counter of unrecognized frames

`Observability` is `record_unrecognized_frame` under several threads, which share
two globals without a lock. Every access of a global, and every call into
`prometheus_client`, is an action:

| Action | Code (`observability.py`) |
|---|---|
| `Begin` | the test of `_init_attempted` (`:48`) |
| `Claim`, `Import` | it is set, *before* the import (`:51-55`) |
| `Create`, `Lookup`, `Assign` | `Counter(...)`, the `ValueError` branch, the assignment to `_unrecognized_counter` |
| `Read`, `Increment` | what `_ensure_counter()` returns, and `inc()` |
| `Reset` | `reset_for_tests()` |
| `Sibling` | external: another user of the registry takes any of the counter's names that are free, with a counter of the same kind (which has the full name at least) or with a collector that does not take its labels, a gauge for instance |

`registry` has the name under which the counter is looked up, and one that stands
for the others it is registered under (without `_total`, with `_created`). A
collector that has the full name is adopted whatever it is (`:72-75`), and
`labels()` raises if it takes other labels or none (`:111`); one that has another
of the names alone makes `Counter()` raise and the lookup find nothing. Either way
the error reaches the stream that was recording the frame.
`ObservabilityProofs` has the proofs.

## Runs

The control stream's runs use `MCControlStream`; the events a run allows are in
its cfg's `Events`. The training stream's use `MCTrainingStream`, the others the
specification itself. `CHECK_DEADLOCK FALSE` is stated for the control stream,
the training stream and its fake: once the bounded calls, connections, frames and
iterations are used up, they stop. The other models never stop (the service's
network comes and goes, `set_state` can always be called, a stream can be
connected again, a frame recorded), and deadlock is checked.

| Run | Instance | Shows |
|---|---|---|
| `control_calls` | 2 callers, 1 connection, one call each, a caller-supplied id both may use, timeouts, slow sends, one repeated response or ping, server close, `disconnect()`, the direct path | `TypeOK`; `PendingSound` and `PendingComplete`: the entries of `_pending` are exactly the calls in flight (an id chosen by callers may lose its entry, a uuid never); `OwnReply`: nobody gets another's response; `ImplementsCommandCalls` |
| `control_returns` | 1 caller, 2 connections, every event but malformed frames and repeated responses, fairness | `CallsReturn` and `DisconnectReturns`: whatever kills the recv loop, hangs a send or races with `disconnect()`, nothing waits for ever |
| `control_steady` | 2 callers, 2 calls each, `MAX_PENDING_COMMANDS` = 1, 2 server pushes; no interruption, no suspended send, no `disconnect()` | while nobody is interrupted the recv loop never dies (`LoopSurvives`), is there for every waiter (`WaiterHasReader`), keeps `command()` on the correlated path (`CorrelatedWhileOpen`), answers pings (`PingsAnswered`) and delivers what arrived even when the connection closes behind it (`ReceivedIsReturned`) |
| `training_frames` | 2 consumers, each iterating once, 2 connections, 2 frames of any type, a raising listener registered before a good one, fairness | `TypeOK`; `ImplementsDelivery`: whoever iterates, leaves, is cancelled or reconnects, no frame is lost, repeated or overtaken, and no iteration ends of itself with frames unread; `ListenersHearAll`: each listener hears every event of its kind since its registration; `PingsAnswered`: while one consumer alone keeps iterating over the current connection, each of its pings is answered on it |
| `rest_calls` | 2 calls or polls, GET and POST, 1 retry, statuses 200, 404 and 503 with all three kinds of body, answers in any number of pieces, fairness | `ChangedOnce`: no call changes the service twice; `OutcomeIsAnswer`: a status outcome is the service's answer to the last attempt of this call; `TrueWhenReady`: True is never the answer when there was no network since the call; `WaitIsBounded`: `wait_for_ready` overruns its timeout by `Overrun` (one probe with all its attempts and a sleep, each phase one wait) and the time that more addresses and pieces give its probes; `WaitReturns`: it ends unless the service hands out pieces for ever |
| `fake_client` | 4 scenarios, runs of 2 or 3 epochs, `advance_epoch` of 0 to 2 | `NetworkWhole`: config, topology and dataset come and go with the network; `HistoryIsRun`: the metrics are those of the present run, none missing, whatever was restarted; `UnitsCoverHistory`: the topology has the units the metrics report; `RunProgress`: a run completes at exactly its last epoch |
| `fake_stream` | 2 consumers, 2 messages (any may be a ping, one that a listener raises on, or no object), 3 iterations, 2 connects, delay zero or not, fairness | `ImplementsDispatch`: whoever iterates, leaves or is cancelled, and however often the test reconnects, listeners are called for each message once, in order; `YieldsSound`: and it is yielded, unless its consumer goes or a listener raises; `OneLateAtMost`: after `disconnect()` a consumer takes one message at most; `IterationsEnd`: the one sentinel is enough for all consumers, with the timer; `Delivered`: the timer does not end an iteration over a message that waits |
| `heartbeat` | both streams, the server's 30 s and 10 s, the window of 90 s, `auto_pong` on and off, handshakes that fail, reconnects over any connection | of connections that `connect()` has left read, `HealthyIsAlive`: while the peer is up, `is_alive()` is True; `AnswersInTime`: the server never closes one whose reader answers pings; `DeathIsNoticed`: a half-open one is declared dead within the window and the time that frames already sent are read late |
| `observability` | 3 threads, with and without `prometheus_client`, other users of the registry | `Exported`: whoever made or adopted it, the collector that is incremented is the one the registry exports; `LossOnlyAtStart`: a frame is left out only if there was no counter when it came, and the stream is disturbed only if a stranger has one of the names |
| `control_timeout`, `training_bad_frame`, `heartbeat_reconnect` | see [below](#where-code-and-documentation-disagree) | a documented statement each that the code does not keep |

The preconditions of `control_steady` are the price of the result, and
`control_timeout` shows that they are needed: with timeouts, `CorrelatedWhileOpen`
is false. That every `command_id` is a uuid (`UserIds` = {}) is one of them. If
callers choose ids and use one twice, `LoopSurvives` and `WaiterHasReader` are
false: a response to the earlier call and its repetition, both still in the buffer,
resolve a later call twice that has found the connection closed and is still in
its `send()`; and of two callers with one id between them, the one that lost its
entry may wait with no loop left.

`PROJECT.json` names, for each property, a mutant of one definition (a dropped
`finally`, a missing `sleep(0)`, a lazy recv loop, ...) under which TLC finds
the property violated; the mutated definitions stand beside the real ones in
the component's module.

### Bounds

`MaxCalls`, `MaxConns` and `MaxPushes` bound calls per caller, connections and
extra frames. Two callers are enough for one to take another's response or
entry; a second call per caller for a late response to meet a later call; two
connections for a reconnect under a living recv task; one push for a ping, a
bad frame or a repeated response, and two in `control_steady` so that a repeated
response follows a ping. `MaxLoops` = 2 covers the orphan that a racing
`disconnect()` leaves beside a new recv task; a dead task's slot is reused.
`MaxPending` is `MAX_PENDING_COMMANDS`, 256 in the code: 1 or 2 makes the
overload branch reachable.

Training stream: two consumers meet in `recv()` (the second one's ends with
`ConcurrencyError`), take over from each other, and hold generators on two
connections at once; two frames have an order. A consumer that comes back has a new
generator and nothing else, as another consumer would: one iteration each is enough.

REST client: two calls are needed for a late request of the first to be handled
during the second; one retry for an attempt that is followed by another; one tick
per wait (`Timeout`, `MaxBackoff`, `PollInterval` = 1) makes every wait either end
early or run out, and a piece that comes last prolong it; the deadlines 0, 1 and 3 give
no probe, a deadline that passes in the first probe, and several probes. `Horizon`
says how far past its deadline a wait's clock is followed. 9 lies beyond `Overrun`,
which is 7 here, so that the bound is checked where it bites, and with some `extra`
on top of it; `WaitBounded` has it for every horizon.

Fake client: `Epochs` {2, 3} lets `update_params` change `epochs_max` in either
direction below a run; scenarios start at epoch 2 of at most 3; a hidden unit
every 2 epochs, at most 1 (`UnitCap`), makes the cap and the last epoch with a
new unit reachable; steps of 2 overshoot. `LastEpoch` 5 lets a finished run go
beyond its epochs, which `set_state` makes possible. Two assumptions are
restrictions of the model: `epochs` and `epochs_max` are positive (the fake
accepts 0, and `advance_epoch` then takes it for a missing value), and the
networks of the finished scenarios have the units that their metrics report.

Fake training stream: two consumers compete for a wakeup, and the second one is
left to its timer after a `disconnect()`; two messages have an order and one of
them can be a ping in front of the other; a third iteration comes back after two;
a second `connect()` meets the sentinel and the preloaded messages of the first.

Liveness surface: nothing is scaled down; `Interval` 30 and `PongTimeout` 10 are
the server's values (`ws_client.py:9-12`), `Window` 90 is
`DEFAULT_LIVENESS_WINDOW_SEC`. `Delay` 2, `Hold` 1 and `Gap` 6 keep the number
of frames in transit small, and lateness still adds up in transit, in front of
the reader and on the way back. The control stream's loop keeps no frame: `busy` is 0
there. `heartbeat_reconnect` is the control stream alone, with `auto_pong`. Clocks stop at `Horizon`,
one second beyond the latest time a property asks about. One flag (`stray`) stands
for everything that earlier connections have left running: how many there are,
and what they still have to read, makes no difference to what one of them may do
next.

Counter: with three threads one can be in the initialisation while another is
counted out and a third begins. The registry has at most one collector of each
kind, for two names. Nothing else is bounded.

The proofs have none of these bounds: they hold for every value.

### Fairness

`FairSpec` assumes that

- the event loop runs the task at the head of its queue (`WF(RunNext)`): what
  asyncio does, given that no task blocks it;
- a suspended I/O operation that can go on does (`WF(IoReady(t))` per task): a
  transport drains or is torn down by `websockets`' keepalive, a frame in the
  buffer wakes `recv()`, `close()` ends by its own timeout;
- a timer fires (`WF(Timeout(c))` per caller): `wait_for` with the finite
  default timeouts. `Timeout` is enabled only where the code has a timer, so a
  send that never drains is ended by the previous item only.

Nothing is assumed of the server, of callers, or of the owner.

In `TrainingStream` `FairSpec` assumes that a consumer comes back for the next
frame (`WF(Resume)`: a precondition of the ping property, since the stream does
nothing while its consumer is away), that the event loop runs generators that
can go on (`WF(Receive)`, `WF(Woken)`) and that a transport drains or dies
(`WF(PongSent)`). In `RestClient` it assumes that the clock goes on, and that a
client whose timer has run out goes on (`WF(Tick \/ Proceed)`). Nothing is
assumed of the service, which may never answer; that it does not hand out pieces
for ever is the premise of `WaitReturns`, and the code has nothing to enforce it.

In `FakeStream` it assumes, of each consumer, that the event loop finishes its
turn (`WF(Advance(c))`), and that it goes on where it is suspended
(`SF(Proceed(c))`): woken tasks run, timers fire, pauses end, consumers come back
for the next message. The fairness is strong because each of these steps is
disabled while another consumer is in its turn; asyncio's queue of ready tasks is
first come, first served, so that a task which is ready again and again does run.
`Heartbeat` and `Observability` have safety properties only; what must happen
within a time holds up the clock there.

## Proofs

TLAPS checks the following for every value of the constants that satisfies the
module's assumption: `ControlStreamAssumption` (callers finite and distinct from
tasks; ids chosen by callers are not uuids), `TrainingStreamAssumption`
(listeners finite; those registered beforehand are registered for all their
kinds), `RestClientAssumption` (methods and statuses are HTTP's; timeouts and
the poll interval are positive), `FakeClientAssumption` (see the bounds),
`FakeStreamAssumption` (types of messages), `HeartbeatAssumption` (the
inequalities above). Bounds are natural numbers in all of them.

| Theorem | Statement |
|---|---|
| `ControlStreamProofs!TypeCorrect` | `Spec => []TypeOK` |
| `ControlStreamProofs!Invariant` | `Spec => []Inv` |
| `ControlStreamProofs!PendingIsSound` | `Spec => []PendingSound` |
| `ControlStreamProofs!PendingIsComplete` | `Spec => []PendingComplete` |
| `ControlStreamProofs!RepliesAreOwn` | `Spec => []OwnReply` |
| `ControlStreamProofs!Implements` | `Spec => ImplementsCommandCalls` |
| `ControlStreamProofs!Steadily` | `Steady => (Spec => []SteadyInv)` |
| `ControlStreamProofs!RecvLoopSurvives` | `Steady => (Spec => []LoopSurvives)` |
| `ControlStreamProofs!WaitersHaveReader` | `Steady => (Spec => []WaiterHasReader)` |
| `ControlStreamProofs!CommandsAreCorrelated` | `Steady => (Spec => []CorrelatedWhileOpen)` |
| `FrameDeliveryProofs!DeliveredInOrder` | `FrameDelivery!Spec => []HandedInOrder` |
| `TrainingStreamProofs!TypeCorrect` | `Spec => []TypeOK` |
| `TrainingStreamProofs!ListenersAreServed` | `Spec => []ListenersHearAll` |
| `TrainingStreamProofs!StreamKeepsPromise` | `Spec => ImplementsDelivery` |
| `TrainingStreamProofs!StreamDeliversInOrder` | `Spec => []HandedInOrder` |
| `RestClientProofs!TypeCorrect` | `Spec => []TypeOK` |
| `RestClientProofs!ChangesOnce` | `Spec => []ChangedOnce` |
| `RestClientProofs!WaitBounded` | `Spec => []WaitIsBounded` |
| `RestClientProofs!OutcomesAreAnswers` | `Spec => []OutcomeIsAnswer` |
| `RestClientProofs!TrueIsReady` | `Spec => []TrueWhenReady` |
| `FakeClientProofs!TypeCorrect` | `Spec => []TypeOK` |
| `FakeClientProofs!NetworkIsWhole` | `Spec => []NetworkWhole` |
| `FakeClientProofs!HistoryIsOfRun` | `Spec => []HistoryIsRun` |
| `FakeClientProofs!UnitsAreCovered` | `Spec => []UnitsCoverHistory` |
| `FakeClientProofs!RunsProgress` | `Spec => []RunProgress` |
| `FakeStreamProofs!TypeCorrect` | `Spec => []TypeOK` |
| `FakeStreamProofs!LateIsOne` | `Spec => []OneLateAtMost` |
| `FakeStreamProofs!FakeDispatches` | `Spec => ImplementsDispatch` |
| `FakeStreamProofs!YieldsAreSound` | `Spec => []YieldsSound` |
| `HeartbeatProofs!TypeCorrect` | `Spec => []TypeOK` |
| `HeartbeatProofs!HealthyPeerIsAlive` | `Spec => []HealthyIsAlive` |
| `HeartbeatProofs!PingsAreInTime` | `Spec => []AnswersInTime` |
| `HeartbeatProofs!DeadPeerIsNoticed` | `KeepsUp => (Spec => []DeathIsNoticed)` |
| `ObservabilityProofs!Invariant` | `Spec => []IInv` |
| `ObservabilityProofs!TypeCorrect` | `Spec => []TypeOK` |
| `ObservabilityProofs!FramesGoToTheExported` | `Spec => []Exported` |
| `ObservabilityProofs!FramesLostAtStartOnly` | `Spec => []LossOnlyAtStart` |

Two of the hypotheses are about the environment. `Steady` is what `control_steady`
assumes: no timeout, cancellation, suspended send, bad handshake, non-object frame,
`disconnect()`, reconnect or call before `connect()` has returned, and uuids only; each of the rest (commands, late and repeated
responses, malformed frames, a close at any moment) may happen or not. `KeepsUp`
concerns a consumer that answers pings itself (`auto_pong=False`): two frames
must be done with before the next of either kind,
`2 (Delay + Hold) <= Gap` and `<= Interval`. With `auto_pong` it says nothing.

### Control stream

`TypeCorrect` goes action by action. The safety proof uses that, as far as ids
and replies go, the thirty actions have five effects (`Effect`):
nothing happens (`Quiet`), a call ends (`Ends`), a future is resolved
(`Resolves`), a call begins or is refused (`Begins`), the server sends a frame
(`Receives`). `StepEffect` shows that every step has one of them, and each is
shown once to preserve `Inv` and once to be a step of `CommandCalls` or a
stutter.

`OwnReply` is not inductive: that the future found under a frame's id belongs to
the call the frame answers follows from what was sent. `Inv` adds

- `IdsOwn`: a call that holds a uuid holds its own. Needed for `PendingComplete`
  too: a caller that pops its entry cannot pop another's uuid;
- `DirectHasNoId`: a call on the direct path holds none, so its reply, taken
  blindly from the inbox, is outside the promise;
- `RequestsOwn` and `FramesOwn`: requests, and then frames, that carry a uuid
  belong to the call it names;
- `FramesAnswered` and `RepliesAnswered`: what is in an inbox or was taken from
  one was sent by the server (for the refinement).

`LoopSurvives` is about the order of tasks. The loop dies if it resolves a future
that is resolved already, and a repeated response is a frame for one. Between the
two readings the caller has to pop its entry, and it does because it is ahead of
the loop: `ResolvedFirst` says that while a future has its result, the one loop is
at its `sleep(0)` and comes after the caller in the queue. That the queue keeps
its order needs `QueueIsDue`: no task is in it twice, and each that is has
something to go on with. `SteadyInv` further says that nobody is interrupted
(`Calm`), that one connection is used and its first frame is the greeting
(`OneConnection`, `NothingYet`), that the recv task is its one reader as long as
it is open (`OneReader`), that who is still sending is on a closed connection
(`Senders`) and no frame answers it (`Unsent`, which needs `IdsPast`: no id on the
wire belongs to a call to come), and that futures are failed only after the last
frame has been read (`Failed`). `WaiterHasReader` is a part of it; the other two
properties follow.

### Training stream

Every step has one of four effects on events and listeners (`Silent`: neither
changes; `Pings`: a ping is handed over, which has no listeners; `Tells`: an
event is dispatched; `Enrols`: a listener is registered), and one of four on
connections (`Keeps`, `Sends`, `Reads`, `Sees` the end). The first four keep
`Hearing`, which adds to `ListenersHearAll` that a listener is registered for all
of its kinds or for none (`CallbacksOfKind`) and was registered no later than now
(`SinceIsPast`). The others are steps of `FrameDelivery` or stutters, given that
no more is read than was sent (`ReadIsBounded`) and that a connection whose end
was seen is closed (`EndedIsClosed`), so that nothing is sent on it later. `StreamDeliversInOrder` is then an instance of
`FrameDeliveryProofs!DeliveredInOrder`: the order is proved once, of the promise.

### REST client

Type correctness needs `Counted`: there is an attempt left whenever the client
backs off. `ChangedOnce` is not inductive, since a request that was given up may
still be on its way: `Once` adds that of a call whose method is not GET there is
one request at most, on the wire or handled, and `OneCall` that a call which has
sent a request and may send another is a GET. It rests on the policy alone: a request that left
the client is repeated for GET only.

`WaitIsBounded` is proved from `Paid`: what `Overrun` still grants exceeds
`Need`, the longest that the present wait, the remaining phases and attempts and
the final sleep can take without further pieces. Each tick takes one from both
sides, and a piece adds what it gives to both: to `Need` by the wait that begins
anew, to the grant by `extra`.

`OutcomeIsAnswer` needs that a call under way has no outcome yet, and that an
answer whose body is read is there and is the last attempt's if its status is to
be retried (`Told`). `TrueWhenReady` needs that whatever network the present
answer reports was seen while polling (`Seen`): `Connected` discards the answer
to the attempt before.

### Fake REST client

`Inv` is `TypeOK`, the properties, and three strengthenings: `Busy`
(`advance_epoch` holds the lock only while the run is active, so its last epoch
completes a run that had epochs to go), `HistoryInv` (a history that starts with
a scenario's entries is at least as long as those; otherwise one that is shorter
could be continued wrongly), and `Covers`. Apart from `Epoch` and
`StartTraining` every action either begins with a clean slate (`FreshNetwork`)
or leaves metrics and topology alone (`SameNetwork`).

### Fake training stream

`LateIsOne` rests on `Lates`: after a disconnect, a consumer that has taken a
message is not suspended in `get()` any more (it is at one of `Done`), and the
loop's condition keeps it from taking another. For the promise, `Due` says what
is in the queue and in the preloaded messages: the queue's messages, sentinels
left out, carry the numbers after `taken` in order, and each is the one that was
offered under its number; before the first `connect()` the same holds of the
preloaded ones (`Unloaded`). Every step then either leaves what was offered,
taken and dispatched alone (`Keeps`), offers one message (`Offers`), or takes
the next one (`Takes`), and these are the steps of `FrameDelivery`. The order of
dispatch follows from `FrameDeliveryProofs!DeliveredInOrder` as for the real
stream. `YieldsAreSound` rests on `Tracked`: what was yielded or is held was taken
(`Known`), and a held message is nobody else's, was not yielded, and comes after
all that its consumer has had (`Apart`), since a consumer takes the next message
only after it has yielded the one before.

### Liveness surface

The types need `Fresh`: while `connect()` waits for the greeting nothing is on its
way, and the times start with it. `HealthyIsAlive` rests on `Quiet`: while the
connection is read (`Up`), its peer is up and everything is read,
the silence is at most the time since the latest ping; while a consumer keeps a
frame, at most `Hold`; and else at most an interval more than the next frame has
waited, which is `Interval + Delay` at most, and the window covers it. `AnswersInTime` needs to know what can be in front of a ping:
`Prompt` says that with `autoPong` the inbox is empty or holds one application
frame, one ping, or one of each, how old the frame (`DataTimes`) and the ping
(`PingTimes`) can be, and that whenever the server is owed a frame, a ping is
still to be read or a pong is on its way (`Owing`). A ping is then answered
within `Hold + 4 Delay`, before the server's deadline.

`DeathIsNoticed` needs a bound on what is left to read when the peer dies, for
each frame that is read counts as evidence. `Backlog` says that two frames at most
are there, one of each kind, and how far the reader has got with them, in terms of
the ages of the latest frame of each kind: a frame that comes finds its
predecessor done with. `Aftermath` says how old the death can be while the frames
that were left are read, and afterwards that the silence is as long as the time
since the death but for twice `Delay + Hold`. Without `KeepsUp` the property is
false: with `auto_pong` off, `Interval`, `PongTimeout`, `Window` and `Gap` 6,
`Hold` 5 and no delay, pings and application frames each take 5 s of every 6, and
the backlog grows until the frames read after the death go beyond any window.

### Counter

All threads that get as far as a collector get it from the registry, which
forgets nothing while one of them is under way. `IInv` says so of the global
(`Kept`) and of what each thread has at hand (`AtHand`), that whoever of the
counter's kind has the base name has the full name too (`Whole`), so that a lookup
that finds nothing is due to a stranger, that a
thread which was refused will find a name taken (`Taken`), and that a counter
which was there when a frame came stays as long as the frame is recorded
(`Stays`).

### Only model-checked

The liveness properties: `CallsReturn`, `DisconnectReturns`, both `PingsAnswered`,
`ReceivedIsReturned`, `WaitReturns`, `IterationsEnd` and `Delivered` (TLAPS does
not do fairness and ENABLED here). Every invariant and action property of a
passing run is a theorem. `HandedInOrder` is a theorem only: what implies it,
`ImplementsDelivery`, is checked.
Statements about recursively defined data would need induction theorems that
take operators as parameters, and are out of the installed provers' reach; the
models declare no `RECURSIVE` operator.

## Where code and documentation disagree

- `control_timeout`: `wait_for`'s timer cancels the future, and the caller
  removes its entry only at its next turn. A response handled in between finds
  a cancelled future; `set_result` (`ws_client.py:822`) raises
  `InvalidStateError`, which nothing catches, and the recv loop is over. Pings
  are then answered by nobody, and the next `command()` takes the direct path
  (the next `set_params()` restarts the loop). The class docstring
  (`ws_client.py:562-563`) says `command()` "now always routes through the
  command_id correlation path after connect()". (CPython runs ready callbacks in
  the order they were scheduled, and the loop is ahead whenever its frame
  arrived in the same poll as the timer, or earlier in the queue.)
- `training_bad_frame`: a JSON frame that is not an object passes
  `_parse_json_frame`, and `message.get` in `_dispatch` (`ws_client.py:526`)
  raises `AttributeError` out of `stream()`, where
  `src/tests/test_inbound_validation.py:5-8` says that bad frames never
  interrupt the stream.
- `heartbeat_reconnect`: `connect()` of the control stream "starts the background
  recv loop immediately so server heartbeat pings are answered from the moment the
  connection exists — a control stream that connects and then idles no longer dies
  40s later" (`ws_client.py:605-607`). Over a connection whose recv loop still
  waits for a frame it starts none (`:785`), and the new connection dies 40 s later.
  `is_alive()` tells supervisors to reconnect exactly when the old connection is
  half open (`:253-255`); calling `disconnect()` first avoids it.

Remarks without a run of their own:

- `inject_message` of the fake says "Messages injected here will
  be yielded by stream() and dispatched to any registered callbacks"
  (`fake_ws_client.py:236-237`). Its `_dispatch` calls listeners unguarded
  (`:299-300`), before the yield: one that raises ends the iteration, and the
  message is lost (`YieldsSound` permits that loss and no other but the one of a
  cancelled pause). The real stream logs the exception and yields
  (`ws_client.py:529-532`), so a consumer test with a faulty listener sees in
  the fake what production does not do (a message that is not an object ends
  the iteration of both);
- the calls of `record_unrecognized_frame` are commented
  "observational envelope validation; never raises" (`ws_client.py:395`, `:686`,
  `:817`). If another collector has the counter's base name, the `ValueError`
  branch finds nothing under the full name and raises again
  (`observability.py:72-74`); if a collector with other labels has the full name,
  it is adopted, and `labels()` raises for every frame (`:111`). The first ends a
  training iteration or the recv loop once, the second again and again. The
  comment at `observability.py:65-71` thinks of siblings that register the same
  counter only. `LossOnlyAtStart` says that nothing else makes the recording raise;
- `disconnect()` cancels the recv task; the clause that fails pending futures
  (`ws_client.py:823-829`) catches `ConnectionClosed` and `OSError`, not the
  cancellation. A waiting `set_params()` is left to its timeout, which is why
  `CallsReturn` needs the timers, where the docstring promises to fail fast on
  disconnect (`:720`, `:733`);
- until `connect()` of the control stream has had the greeting, and after a
  handshake that failed, `_ws` is open and `is_alive()` is False or goes by the
  connection before, whatever the peer does (`ws_client.py:617-630`). A supervisor
  that polls it meanwhile would reconnect a healthy stream;
- the timeout of the REST client limits each wait for the network and no request:
  `JuniperCascorTimeoutError`'s "timed out after {timeout}s" (`client.py:551`)
  may come any time later, or never, if a service keeps sending;
- a GET that times out waiting for its answer is retried; when the retries are
  used up `requests` raises `ConnectionError`, and `_request` (`client.py:548`)
  raises `JuniperCascorConnectionError`, where `exceptions.py:70` and
  `src/docs/REFERENCE.md:292` have `JuniperCascorTimeoutError`. The tests mock
  the session's `request` (`src/tests/test_client_http_paths.py:161-165`) and so
  bypass the adapter;
- the fake training stream with `delay=0`: `wait_for` with a timeout of 0 cancels
  `get()` before it has run, so the loop at `fake_ws_client.py:134-141` takes
  nothing, finds the queue not empty and goes round again, for ever.
  `Delivered` is stated for the other delays;
- messages injected while the fake is disconnected go to the list that only the
  first `connect()` loads; after that one they are never delivered, where
  `inject_message`'s docstring says "before or after connect()" (`:236-237`).
  `FakeStream` does not count them as offered;
- `_ensure_counter()` is called idempotent (`observability.py:43-45`). A thread
  that comes while another is initialising gets `None` and its frame is not
  counted; one that comes after an initialisation that raised gets `None` for
  ever, and no frame is counted again. `LossOnlyAtStart` permits both;
- the comment at `client.py:626-631` calls the 503 branch dead, though
  `raise_on_status=False` returns the last 503 to it; `REFERENCE.md:871` lists
  502 and 504 as the retried statuses, the code 429 and 503 too;
- `on_disconnect` is not called after a normal close: the library's iterator
  ends silently (`Finish`), so a callback sees unexpected closes only;
- the fake's `STATE_TRANSITIONS` (`fake_client.py:98-103`) is used by no code.
  `start_training` leaves `COMPLETED` and `advance_epoch` completes a paused run,
  which it does not allow;
- in scenarios that start with a history, `get_metrics` is one epoch behind the
  training status (`HistoryIsRun` allows it); a run that is started again keeps
  the hidden units of the one before; a `_request` that passed the test for
  `close()` takes effect after `close()` has returned.

## Not modelled

- What the sections of the REST clients leave out.
- Envelope validation and the counter in the two streams. Where recording a frame
  raises (see the remarks), the recv loop or the iteration ends; the
  properties of `ControlStream` and `TrainingStream` suppose that it does not.
- How often a request was sent, in `ControlStream` and `CommandCalls`: requests
  are a set, so a call that sent its own twice would show only where the second
  one has effects of its own.
- Reconnects and the pong of a ping whose connection was replaced, in the runs of
  both `PingsAnswered`: such a pong goes to the new connection
  (`ws_client.py:213`), which the modules do show.
- A send that never drains and never fails: the fairness of `ControlStream`
  excludes it, and `CallsReturn` says nothing of it.
- Clocks in `ControlStream` and `TrainingStream`: timers fire at any moment;
  `Heartbeat` has the clocks.
- The fake training stream's registration of callbacks (listeners that raise are
  told by the types they listen to) and its list of sent commands.
- In `Heartbeat`, the direct path of `command()`, and any reading on a connection
  that `connect()` did not leave read.
- A `recv()` whose exceptions are not `ConnectionClosed`, `ConcurrencyError` or
  the cancellation.
- Two coroutines that call `connect()` or `disconnect()` on one stream at once.
- `util/memory_budget_check.py`: one sequential pass over a configuration file,
  file sizes and two git revisions that keeps no state. Its rules are guards over
  what it reads, and a property of a model of it would restate them.
- Scenario data and decision-boundary numerics of the fakes, build files, CI, and
  the typing probe: no state depends on them.

## Plan

In order; each module with its runs, and with proofs where named:

1. done: `CommandCalls`, `ControlStream`, type correctness, safety, refinement.
2. done: `FrameDelivery`, `TrainingStream`, type correctness, listeners,
   refinement.
3. done: `RestClient`, all its safety properties as theorems.
4. done: `FakeClient`, all its invariants as theorems.
5. done: `FakeStream`, its dispatching held to the promise of `TrainingStream`;
   types, the bound after `disconnect()`, the refinement and what becomes of
   messages before the yield as theorems.
6. done: `Heartbeat`, all its properties as theorems.
7. done: `Observability`, all its properties as theorems.
8. done: the recv loop's survival, from an invariant about the order of the queue
   of ready tasks.
9. Two threads in one REST client, whose calls share the session but no state of
   this code.
