# A TLA+ model of Verba IME

Verba IME is an input method with an AI assistant, written in Rust. This
directory keeps TLA+ modules of the parts whose correctness depends on the
order of events, TLC configurations that check them on small instances, and
proofs, checked by TLAPS, of what holds for every instance. Paths are relative
to the repository.

## The system

    Windows text service (TSF)          macOS input controller (IMK)
      CompositionMachine                  CompositionMachine
      timer, worker threads               event queue, worker threads
            \                               /
             IPC: length-prefixed protobuf frames over a pipe or a socket
             (client, server, commit forwarder)
                              |
                         verba-daemon
       configuration, cancel registry, AI session history, OCR history
              |                  |                     |
          librime (FFI)    LLM provider (HTTP)    OCR / ASR / TTS

| Component (source) | State | Operations | Who calls it |
|---|---|---|---|
| Composition machine (`crates/verba-core/src/machine.rs`) | mode, pinyin buffer, candidates, queue of waiting keys, page and row, OCR/rewrite/result slots, last request, quote state | `feed_char`, `feed_enter`, `feed_backspace`, `feed_escape`, arrows, pages, three preview routers, `on_llm_chunk/done/error/candidates` | a frontend, from key callbacks and from its timer |
| Windows text service (`frontends/windows/ime/src/text_service.rs`) | machine, event queue, stream epoch, stream token slot, busy flag, pending candidate request, session key | key and focus callbacks, `on_timer`, stream workers, `cancel_stream` | TSF, its own threads |
| macOS input controller (`frontends/macos/ime/src/imk.rs`) | machine, event queue, daemon ids, cancelled sequence numbers, pending host calls | `inputText`, drain, candidate worker, `host_call` and its replay | IMK, its own threads |
| IPC (`crates/verba-ipc`) | per connection: reader, writer queue, pending handlers; per client: next id, pending events; forwarder: pending entries | request, `llm_start`, `next_event`, `llm_cancel`; accept, read, dispatch, idle timeout; push, flush, cap | frontends, daemon |
| Daemon handler (`crates/verba-daemon/src/handler.rs`) | configuration, cancel registry, session history, generations, OCR history, Rime engine | one handler per request kind, concurrent | IPC server |
| Configuration (`crates/verba-config`) | a file, a copy in the daemon | `load`, `apply_map`, `save` | daemon, settings, command line |
| Rime, LLM, ASR, TTS, OCR (`verba-librime`, `verba-ai`, ...) | external | queries, streams | daemon |
| Candidate window (`verba-candidate`, `candidate_window.rs`) | the page shown | show, move, hide | frontends |
| Trigger, command line, settings, registration, scripts | none that is shared | one call each | the user |

What is hard, component by component, and what makes it correct:

* **Composition machine.** Candidates arrive later than the keys that need
  them. Between a letter and its first answer (the *blind window*) a space, an
  upper-case letter or a punctuation key must not commit raw letters, and must
  not be lost; answers may be late, empty, for another pinyin, or repeated;
  stream events arrive after the user has moved on. Correct means: keys that
  wait are settled, all of them, in order, exactly once; the panel and the
  machine highlight the same candidate; a result, a comparison or an OCR text
  exists only in the state that shows it; a comparison belongs to the request
  it answers.
* **Session history.** A request reads a window's history when it starts and
  writes its turn seconds later; meanwhile the window is cleared, closed, evicted
  or recreated, other requests of the window run, commits arrive, the request is
  cancelled or the setting changes. Correct means: what was cleared never comes
  back, half an answer is never remembered, a prompt keeps its own reply, the
  store stays bounded and never evicts what it has just written.
* **Stream cancellation.** A frontend cancels through another connection than
  the one that runs the stream, ids repeat across connections, and a cancel may
  fall between a worker's registration and its check.
* **Commit forwarder.** A bounded queue that retries: repeated, dropped and
  delayed entries, in an order the history depends on.
* **IPC connection.** Concurrent handlers and one writer; a read that times out
  in the middle of a frame; responses and events that decode as each other.
  Correct means: a call ends, and with its own answer; a call told that the
  connection closed, while the daemon lives, was not served.
* **Daemon endpoint.** Several callers find no daemon and start one; a daemon is
  killed with its socket file or token file half made.
* **Configuration and keys.** Two writers, a file that is truncated before it is
  written, a change refused half way, a partial failure, a kill between the keyring
  and the memory.
* **Rime engine.** Queries that time out go on working under the mutex; an
  installation drops the engine they work in, and waits for the mutex on a worker
  thread of the runtime.
* **Windows text service.** Edits the host refuses, compositions it ends on its
  own, threads whose answers are drained by a timer, a preview that expires
  between two handlers of one key, mode switches in every state. Correct means:
  what takes keys is on the screen, what the host composes is what the machine
  composes, what blocks keys is under way, a recognised text is used once at most.
* **macOS controller.** A call to the host runs the run loop, so keys, the timer and
  the session's callbacks arrive nested in a half-applied action. Correct means
  the same, and that marked text is owned or owed, unless nothing could be committed.
* **Candidate window.** Hosts report carets late, off the screen or on another
  monitor; a retry shows the window. Correct means: it stays on a screen and
  beside its line, highlights what Space sends, and is not brought back once hidden.
* **Session keys and floating button.** The system recycles context addresses and
  window handles; a helper process prints while the service is deactivated and
  activated again.

`PROJECT.json` lists every hazard at its line.

## Modules

| Module | What it models | Proofs | Run |
|---|---|---|---|
| `CompositionMachine` | the composition machine and its panel | `CompositionMachine_proofs` | `Machine` |
| `AiSession` | abstract: what the result overlay promises | `SessionRefined` | `Machine` |
| `SessionHistory` | the daemon's multi-turn context | `Daemon_proofs` | `History` |
| `StreamCancellation` | AI streams: UI thread, workers, daemon | `StreamCancellation_proofs` | `StreamRace` |
| `DaemonEndpoint` | finding and starting a daemon | `Ipc_proofs` | `CommitDelivery` |
| `CommitForwarder` | the forwarder over `DaemonEndpoint` | `Ipc_proofs` | `CommitDelivery` |
| `IpcConnection` | one connection: client, server, frames | `Ipc_proofs` | `IpcCalls` |
| `DaemonStores` | configuration, API key, what the OCR and speech calls read | `Daemon_proofs` | `StoreRequests` |
| `RimeService` | the engine under the daemon's mutex | `RimeService_proofs` | `RimeRequests` |
| `TextService` | the Windows text service around `CompositionMachine` | `TextService_proofs` | `WindowsKeys` |
| `InputController` | the macOS controller around `CompositionMachine` | `InputController_proofs` | `MacKeys` |
| `WindowPlacement` | where windows are put (arithmetic) | `Windows_proofs` | `CandidatePlaces` |
| `CandidateWindow` | the candidate window of both front ends | `Windows_proofs` | `CandidatePlaces` |
| `WindowSessions` | the keys under which a window's memory is filed | `Windows_proofs` | `FloatSessions` |
| `FloatButton` | the floating button over `WindowSessions` | `Windows_proofs` | `FloatSessions`, `FloatLateReply` |

Each run has an `MC...` module that extends the component's module and holds what
its configuration cannot say: symmetry, functions as constants, and, for the stores and the two
front ends, a view that leaves out what no later step reads.

### CompositionMachine

One action per public method: `FeedChar(c)` dispatches on the state like
`feed_char`, `FeedBackspace`, `FeedEnter`, `FeedEscape`, `Paginate`, `FeedArrow`,
`FeedOcrPreview`, `FeedRewritePreview`, `FeedAiPreview`, `BeginOcrPreview`,
`BeginRewritePreview`, `ExpireStaleOcrPreview`, `OnLlmChunk/Done/Error` and
`OnLlmCandidates`. Variables carry the names of the struct's fields. `out` is
the sequence of actions the call returns; `shown` is the page the frontend has
put on the panel from the last `UpdatePinyin`, the one piece of frontend state
in the module. `PreviewStep` routes keys like the frontends do: a preview that
is open takes the key first.

A text is a sequence of tokens (the raw letters of a composition,
the i-th candidate of a pinyin, a key, a result, an OCR text), a candidate list
is its length, and a long answer starts with the short one of the same pinyin.
The fields the code documents as always empty in the single-engine build are
left out. The end of an OCR preview's life (`OCR_PREVIEW_TTL`, 10 seconds) is a step
that may happen at any time. Three switches describe the environment: `DuplicateAnswers` (the same
answer may be delivered twice), `LateEvents` (stream events may arrive when no
stream is open) and `AnswerDone` (the `done` flags of answers; the only channel
in use sends one answer with `done = true`).

`AiSession` has five phases and the remembered request. A request is sent; its stream ends in a
result or a failure; a rewrite's result may be compared; a result or a failure
may be retried or edited; anything may be closed. `ImplementsAiSession` maps the
machine onto it (`SessionPhase`).

### SessionHistory

`request[r]` is the handler of one `LlmGenerate`, in the steps its awaits and
locks cut it into: `Register`, `OkFails`, `ReadConfig`, `HistoryReset` (`//new`)
or `Snapshot`, then `SeeCancel`, `StreamEnds` or `StreamFails`, then
`HistoryAppend`. `LlmAppendContext` is two steps, because it reads the setting
before it takes the lock. `recency` stands for the `last_used` ticks, which are
only compared. `stale` and `half` are history variables: the window was cleared
or closed since the request took its generation; the handler left its stream
early. `Restart` is the end of the daemon: the ticks start again from 1.

At most one `LlmAppendContext` is between its two steps: the forwarder of each
frontend sends one at a time; two frontends that do so at once only interleave
two writes.

### StreamCancellation

It composes three kinds of processes. The UI thread of a frontend is `Start`,
`OnTimer`, `Reset` and `cancel_stream` in the four steps its atomics cut it into
(`CancelLoads`, `CancelBumps`, `CancelSends`, `CancelClears`); while one of these is
under way the thread does nothing else, because the callbacks run on it. A
worker thread asks, installs its token, looks at the epoch once, then reads
until the last event or cancels late, and takes its token out of the slot. A
handler of the daemon registers, opens the provider's stream, sends chunks, sees
its token, ends, and drops its entry. `DaemonDies` is the end of the daemon with
all connections.

`awaiting[f]` is what the composition machine contributes: the stream it is
Streaming for. The request id is left out: a worker's connection pings first and
asks second, so all streams carry the same id, the key `(connection, id)` is the
stream, and a cancel on the control connection can only use the fallback. The wrap
of the 32-bit epoch in the packed token is out of reach of a session and left out.

### DaemonEndpoint and CommitForwarder

A daemon goes from its start to its listening socket in the steps of
`ipc_socket_spec`, `ensure_token` and `serve`: on Windows `TruncateToken`, `WriteToken`,
`ComputeSpec`; on Unix `Probe`, `Clear` (the stale file), `Bind`; `Crash` at any
of them leaves the files as they are. Callers `Connect`, `EnsureDaemon`, wait and
`GiveUp`. A process is started once; a restart is another member of `Daemons`;
those in `Old` come from an earlier version and refuse newer messages.

`CommitForwarder` adds the channel, `pending` and the worker's rounds: `Receive` and
`Wake` enter `DrainAndCap`, `FlushConnects` or `FlushUnreached`, `Request`, the
daemon's `Handle`, and `Settle` or `Interrupted`. An item is known by its number in
the order of `push` and `push_end`; `applied[d]` is what daemon `d` has applied. A
connection breaks only with its daemon: one that breaks while the daemon lives, after
which the forwarder would send the item again, is not modelled.

### IpcConnection

The client's `Call`, `WriteRest`, `ReadAnswer`, `NextEvent`, `CancelOwnStream`,
`ReadEof`; the server's `Read`, `IdleTimeout`, `WriteFrame`, `CloseWire`; and one
task per request (`HandlerWrites`, `HandlerReturns`, `HandlerSilent`). A frame has
an id and a field number; `AsResponse` and `AsEvent` are what the two messages of
`verba.proto` make of the number, so nothing in a frame says which of the two it is.
Large requests travel in two pieces, between which the idle timer may drop the read;
what follows a lost header is read as a length and what it announces, a choice.
A daemon that dies is left out: for the caller that too is a closed connection
(`client.rs:13`), and its request may have been served.

### DaemonStores and RimeService

In `DaemonStores` a request is a task with one step per await, unlock and file
operation: `SetConfig` is `Apply`, `Clone`, `Truncate`, `WriteFile`, with their failures;
`ApiKeySet` writes the keyring before memory; `Ocr` and speech read settings and key
and then wait for a provider. `config.toml` is a configuration, `Absent`, `Empty` between
truncation and writing (the next start takes the defaults), or `Torn`: it does not parse and
keeps the daemon from starting. A write that fails half way, or that lands on another
save's text, leaves any text of the two (`Garbles`): torn, or one that parses, because
unknown keys are ignored and every key has a default. `mixed` names the stores that hold
a mixture of two configurations, and a task is `whole` if what it read was none.

In `RimeService` a blocking thread is a job that outlives its handler
(`QueryTimesOut`): `Lock`, `Paths`, `Copy` (the migration of an old user directory),
`Deploy`, `Query`. An installation copies and merges in a thread and then takes the
mutex to drop the engine (`Reset`). It waits for that mutex on its worker thread
(`handler.rs:1136`, `Blocks`); when all `Workers` wait so, no handler takes a step, no timer
fires and no request is read (`Free`). Job 0 is the warm-up.

### TextService

`ui` says where the host's thread is in a handler; only threads and the clock move
while it is not idle. `TestKeyDown` claims a key, `KeyDown...` delivers it to the
machine (`M!FeedChar` and the others, the real module), `Apply...` carries out the
actions it returned one by one, each with what the host may do to the edit.
`Tick`, `Collect` and `DrainResult` are `on_timer`; `QueryStarts`, `QueryEnds`, `FailsSilently`,
`StreamSends`, `StreamEnds`, `CaptureEnds` are the threads; `Toggle`, `Deactivate`, `Activate`
and `HostEndsComposition` come between handlers. The candidate window is what it
shows. `DrainResult` previews a recognised text where the machine takes one and else, while
the user composes, inserts it straight away, as `drain_trigger_results` does; `TextUsedOnce`
counts the texts that may still reach the document (`OnOffer`) over both ways. A text may
come back after `tsf_deactivate` and is then shown in the next activation, because
`trigger_results` is not emptied. An AI stream is a slot; how its cancel reaches the daemon is left to
`StreamCancellation`. `TakeBatch` takes the whole queue, as the lock in `on_timer` does, and an
event of another epoch is dropped when it is collected (`OfThisEpoch`).

### InputController

`hosted` says that a call to the host is under way: `Apply...` is what an arm of
`apply_action` does before the call and `Return...` what it does after it; between
the two come `Nested` keys and CapsLock; the timer turns back at once. `Route...` and
`Drain` are `input_text` and `drain_stream`; `CapsKey` is CapsLock, which during a host
call only writes what it owes (`owed`). `Deactivate` and `ReturnDeactivate` are `deactivateServer`
before and after it clears the host's text; the two other callbacks come between handlers.
`HostEndsComposition` is `commitComposition`: it calls the host only for a text that is not empty, and
only that call takes the marked text away (`Unmark`). The host is assumed to remove nothing
by itself, so what has no text, a `/` or a stream before its first chunk, stays marked over
an idle machine: `left` remembers it, and `MarkedIsOwed` says for it that the controller still
knows of it, so the next text, CapsLock or deactivation takes it away. A key that waits is of a kind; which one it was is
decided when it is routed. `disturbed` is a history variable: a text, a bubble's
stream, an owed removal, the slot of an old preview or the end of the session fell into this
composition from outside. The slot is left over when the host ends the composition of a preview
(`commit_composition` keeps `ocr_preview`); the next key is then taken for the preview's,
which inside a pinyin hides the candidates and forgets which pinyin a failed query
was for. With one capture at a time `WaitsAreServed` would hold without this exception,
with two it would not.

### WindowPlacement and CandidateWindow

`WindowPlacement` holds the arithmetic of both front ends on integers: pulling a line
into an area, the side the window goes to, the area that is photographed
(`eye_rect`), the bubble's and the button's places. `CandidateWindow` has the controller
(`SetCandidates`, `SetPage`, `SelectRelative`, `SetResultLines`), the window's size from the theme,
and the moves: list, overlay, OCR preview, hide, deactivate, the timer's
`RetryCandidatePos`, the anchor kept for an OCR preview, reload of the configuration,
and `HostLaysOut`. The machine's list is an input.

### WindowSessions and FloatButton

A key is the number of a context and the handle of its window
(`context_generation`, `session_key_for_use`); the system gives addresses and handles again.
`FloatButton` adds the helper process of an activation, its reader thread
(`ReaderBegins`, `ReaderChecks`, `ReaderDelivers`, three steps because the epoch is
loaded, compared and the reply pushed separately), the service's
`SpawnFloatButton`, `RetryFloatButton`, `OnTimer`, and `Deactivate` after
`KillByEpoch` and `KillFloatButton`.

## What is checked

| Run | Instance | What it shows |
|---|---|---|
| `Machine` | a letter, two upper-case keys, one of punctuation and a quote; pages of 2, buffer 2, queue 2, answers of 0, 1, 3, prompts and results of one token, late events | `QueueAwaitsAnswer`, `PanelMatchesMachine`, `OverlaysAgree`, `RewritePairing`; `SpaceCommitsHighlighted`, `BlindKeysWait`, `SettlingKeepsKeys` (but for Escape, Enter, Backspace), `QuotesAlternate`; `ImplementsAiSession`; `QueuedKeysSettle` |
| `History` | 2 windows, 2 requests, turns of 1 or 2, 1 entry, 1 generation, commits of 1 and 2 merged up to 2 and cut at 1 | nothing cleared comes back (`NoResurrection`), no half answer is kept (`AnswersComplete`), turns stay whole and commits merged (`ContextWellFormed`) |
| `StreamRace` | 1 frontend, 2 streams, 3 epochs, a chunk of one stream, the daemon may die | the present stream can be cancelled (`CurrentTicketKept`), the table follows the handlers (`TableTracksHandlers`), a cancel whose stream runs hits no other (`CancelHitsItsOwn`), a cancelled worker comes home (`CancelledWorkerEnds`) |
| `CommitDelivery` | 3 items, cap 2, 2 daemons of which one is old, 3 callers of three kinds | each daemon applies items in order and once (`AppliedInOrder`), every item waits or met one fate (`Accounted`), the backlog drains (`BacklogDrains`) |
| `IpcCalls` | 4 calls of 7 kinds, two of them in two pieces, 1 chunk, a queue of 2, a pipe of 1 | `OwnAnswer`, `ClosedUnserved`, `CallsReturn` |
| `StoreRequests` | 2 fields, 2 values and a bad one, 3 requests of which 2 may write, 1 kill | memory, file and the settings of a call are whole configurations until a change is refused half way or a save fails or overlaps another, and again after a whole save and start (`NoMixture`); the stores agree at rest (`QuietStoresAgree`) |
| `RimeRequests` | 3 queries or installations and the warm-up, 2 workers, 1 kill, an old directory, copies that fail | an engine in use stays and serves what was installed (`EngineServes`), queries are answered unless installs hold every worker behind a hung job (`QueriesAnswered`) |
| `WindowsKeys` | 1 letter, buffer 2, queue 1, prompt 1, 1 open stream in 2 slots, 2 queries, 1 capture | `WindowMatchesKeys`, `CompositionMatchesMachine`, `WaitsMatchWork`; a recognised text is used at most once and not after its preview has ended (`TextUsedOnce`) |
| `MacKeys` | 1 letter, space and `/`, buffer 1, 1 waiting key, 1 capture, bubble | `ModeIsVisible`, `MarkedIsOwed`, `WaitsAreServed` |
| `CandidatePlaces` | 2 monitors, 5 lines (off the screen above and below, at an edge, between), no list or one of 10 entries, results of 1 and 32 lines, upright and row, scales 100 and 150 | `WindowPlaced`, `WindowsHighlight`, `CoarseIsCorrected` |
| `FloatSessions` | 3 windows on 2 handles and 2 addresses, a list of 1, 2 activations with a helper each | `KeyOfOneWindow`, `EndSparesLiveWindows`, `ButtonOfThisActivation` |
| `FloatLateReply` | 1 window, 1 helper, 2 activations | violated: `RepliesStayInActivation`, see below |

Each property has a mutant in `PROJECT.json`: a plausible mistake in the mapped
code, written beside the definition it replaces, which the run must find.

Why the bounds are enough.

* *Machine*: pages of 2 and answers of 3 give two pages, the last one short. A
  buffer of 2 reaches its limit and shrinks to a prefix that was asked for earlier. A
  queue of 2 fills, overflows, and holds the same quote twice. Of each class of keys
  that `feed_char` tells apart there is one, of the upper-case keys the two that
  matter in an overlay. The machine has no counter the constants do not bound.
* *History*: two requests and one entry let a window be evicted, recreated and
  cleared while an older request is streaming; with one generation the other window
  runs out. Commits of 1 and 2 with merging up to 2 and a cut at 1 meet both limits
  and go beyond them.
* *StreamRace*: two streams and three epochs give start, cancel and start again with the
  first worker at any step, and start, reset, start and cancel with two entries
  in the table; with one frontend the abandoned stream plays the part of another's.
* *CommitDelivery*: three items and a cap of two overflow with an item under way; two
  daemons give one that is killed at any step of its start or service and one that comes
  after or beside it.
* *IpcCalls*: four calls are enough for an idle close, a call again on a new
  connection, a stream, and its cancel; a pipe of 1 and a queue of 2 fill.
* *StoreRequests*, *RimeRequests*: two writers and a reader, and the kill, are all the
  actors a step distinguishes; a third query queues behind two that timed out, and two installs
  behind a hung job hold both workers.
* *WindowsKeys*, *MacKeys*: the machine's own cases are in `Machine`; here one
  letter, one waiting key and one of each kind of work is enough for every state to meet
  every callback. Two queries, for
  the same pinyin or for two, show what the late busy flag lets through. `EditsFail` and `HostEndsInEdit` are off in `WindowsKeys`:
  what they break is listed below. One capture at a time is enough for a preview that a
  newer text replaces and for a text that comes back while the user composes.
* *CandidatePlaces*: the places are proved for all integers; the run checks the time order.
* *FloatSessions*: three windows on two handles and two addresses recycle both;
  a list of one evicts. Helpers start only while at most `ButtonWindows` windows were
  opened, so the two halves of the model meet without multiplying.

Deadlock is not checked where the bounded supply of streams, calls, requests,
items or activations ends.

### Fairness

* `CompositionMachine!AnswerFairness`: the final answer for a pinyin that is still the last
  one requested comes. A request not overtaken by another is running or pending for
  the timer (`schedule_candidate_request`, `maybe_fire_candidate_request`), a worker that fails
  pushes an empty final answer (`push_rime_fail`), and the daemon bounds a query by
  30 seconds. `WaitsMatchWork` (Windows) and `WaitsAreServed` (macOS) check this very
  premise: a pinyin that blocks keys has its request under way.
* `StreamCancellation!FairSpec`: worker threads, the opening of the provider's stream and the
  handler's look at its token. The operating system and tokio schedule them; the
  HTTP client limits connecting and reading (10 s and 120 s). The user, the timer and
  the provider's chunks are not fair.
* `CommitForwarder!Fairness`: weak for the worker and the handlers; strong for a connection
  that can be made, because its handshake may time out again and again on Unix, but not for ever
  on a daemon that stays.
* `IpcConnection!FairConnection`: reads and writes of both sides, the idle timer, and each
  handler, whose provider answers or ends.
* `RimeService!FairSpec`: handlers and their timers, while a worker is free: tokio then runs
  what is ready, and their steps are enabled only then; never the jobs, since librime may hang.
* `CandidateWindow!Spec`: the timer behind `RetryCandidatePos`.

The other modules state safety only and assume no fairness.

### Where the code and its documents disagree

`FloatLateReply` shows that a reply of one activation's button is shown in the next,
which the comments at `text_service.rs:409`, `2484` and `2567` exclude: the queue is not emptied at
deactivation, the epoch is compared outside the lock the kill takes, and it is
loaded inside the reader's thread.

The rest was met while modelling and is described here; the models do what the code does.

Composition machine.
* Enter in the blind window commits the letters and drops the keys that wait
  (`machine.rs:903`), which `machine.rs:603` calls a lost key where it handles `/`. Backspace that
  empties the buffer drops them too (849).
* An empty rewrite can be compared and committed (`machine.rs:1410`).
* Backspace in a prompt's composition leaves a request marked in flight that nobody makes (860).
* An empty final answer without waiting keys does not show the raw letters as a candidate, though the
  comments at `machine.rs:1736` and `imk.rs:3079` say that it does: the flag in flight is cleared
  (1695) before the list is remembered for comparison (1699), so the two are the same.
* A final answer delivered twice resets the row without telling the panel; no frontend is
  known to deliver one twice.

Daemon.
* `//new` inserts without evicting (`handler.rs:204`), beyond `MAX_AI_SESSIONS` (`protocol.md:143`).
* With `ai_context_turns = 0` commits kept earlier stay in memory (`handler.rs:408`, `522`).
* A cancel's fallback takes the only stream left, which may be another frontend's
  (`handler.rs:72`; line 61 says rather none than another's).
* `apply_map` leaves the keys before a bad one applied (`config.rs:450`); its comment at 447 excludes that.
  The mixture stays in memory, is used by the next calls, and is written by the next save.
  Two saves at once, or one that fails half way, may leave a mixture in the file that the next start uses,
  or a text that keeps the daemon from starting.
* With as many installations as workers behind a hung job the daemon answers nothing any more,
  since `reset` waits for the mutex on the worker (`handler.rs:1136`), which the comments at
  1006 and 1384 want to keep free of librime.
* `ListModels` is not answered when the HTTP client could not be built
  (`handler.rs:968`): the call ends when its connection idles out.
* An installation of extra phrases makes the user directory, after which the migration of
  the old one is skipped (`handler.rs:1078`, `1495`, `1510`).
* Two daemons can run on Unix, because the probe and the bind are separate
  (`server.rs:81`; `architecture.md:56` says one).

Windows text service.
* `cancel_stream` reads an empty slot, the worker installs its token and finds its epoch
  current, the cancel advances the epoch and sends nothing (2179): the stream runs to its end.
* `toggle_ime` and `tsf_deactivate` leave a stream running (953); `tsf_deactivate` does not
  hide the candidate window either (405).
* A key that finds its preview expired is swallowed if it is Enter (around 1100), and composes if it is
  a letter, in English mode too (616).
* An edit that fails in `UpdatePinyin` returns before the query is scheduled, and a host that
  ends the composition inside `set_preedit` leaves an overlay or a stream on an idle machine.
* The busy flag is set in the thread (2310), so two queries can run at once; answers are matched by pinyin.
* The session of a window that closes while another is active is never ended (around 1925).

macOS controller.
* A key nested in the display of a recognised text panics on a held cell and is lost (1884–1895).
* After an OCR text or a bubble's stream came in, a query that fails is not told to the machine (3091).
* `commitComposition` leaves the slot of an OCR preview (2626) and the marked text of what it has
  nothing to commit for (1755): after `/`, or in a stream before its first chunk.
* A key that arrives while `deactivateServer` clears the host's text (1330) waits into the next session:
  the queue was emptied before (1323), which the comment at 1321 says drops such keys.
* A bubble's stream replaces the user's own; the keys of a preview are applied nested.
* Of the keys that arrive nested, characters are claimed and wait, and some control keys
  while composing (1557): arrows go to the host, and an Enter typed behind a waiting letter
  reaches the host before it. The comment at 194 says that no key is lost.
* `selected` is ignored because "the system's component" keeps it (2272), but the panel is the
  project's own controller (2763), whose highlight stays on the first row of the page. `CandidateWindow` therefore promises the highlight on Windows only.
* The launch gap of `cancel_stream` exists here too (3128).

Candidate window.
* The anchor kept for an OCR preview may be an older capture's (`text_service.rs:831`); two captures
  share one slot. The photographed area is not clamped when the line is off the screen
  (`candidate_window.rs:341`).

## What is proved

For all values of the constants that satisfy the named assumptions. Where a theorem
assumes more (`AnswerDone = {TRUE}`, `~DuplicateAnswers`, `HandlersAnswer`,
`HostCooperates`) its statement says so, and what happens without it is listed above.

* `CompositionMachine_proofs!TypeCorrect`: `Spec => []TypeOK`, by an inductive
  `TypeInv` that adds to the types what keeps page and row inside the
  list: `selected_index` below the page's length, an empty list only on page 0.
* The same module: `OverlaysSafe`, `RewritePairingSafe` and `SessionRefined` need no
  assumption about the environment: they hold with late events, duplicates and
  partial answers. `QueueSafe`, `RequestSafe` and `QueueAwaitsSafe` assume `AnswerDone = {TRUE}`:
  a partial answer would leave candidates beside a queue. `PanelSafe` also
  assumes `~DuplicateAnswers`, for the reason given above. Each theorem has an
  invariant of its own (`SlotInv`, `QueueInv`, `PairingInv`, `PanelInv`) and a lemma per
  action that can disturb it. `SessionRefined` maps each action to a step of
  `AiSession` or a stutter. Two action properties follow from these invariants:
  `SpaceAlwaysCommitsHighlighted` (the panel shows the machine's row, and the row exists)
  and `BlindKeysAlwaysWait` (a queued key reaches the document only when the queue is
  full, and `replay_deferred_intents` takes candidate 1 before the keys).
* `Daemon_proofs!StoreInvariant`: types, `HandlerInv` and `StoreInv`.
  The heart is the generation argument: generations in use are below
  `nextGeneration` and different for different windows, and a request that
  still holds its window's generation is not stale. Clearing moves the window
  to a generation no request holds, closing removes it, and a window that comes
  back gets a new one; hence `NothingResurrected`. Restarting the daemon starts
  the ticks again, which is safe only because no handler survives it.
  `AnswersAreComplete`, `WriterIsSpared`, `TurnsStayWhole` and `CommitsStayMerged` follow from the
  same invariant, the last two (together `ContextStaysWellFormed`) because the trimmed
  list is a suffix.
* `StreamCancellation_proofs!BaseInvariant`: types and `Tickets`. No two streams
  of a frontend have the same epoch, none has one from the future, and a machine
  waits for the stream of the present epoch; `OwnEvents` follows. On top of it
  `Installed` gives `TicketKept`, `Queued` gives `EndsAreLast`, and `Table` gives
  `TableExact` and, with it, `CancelIsExact`.
* `Ipc_proofs!AlwaysInv`, of the forwarder: the invariant numbers the backlog (`Backlog`): what waits, in
  `pending` and then in the channel, are the last items pushed, without a gap. `InFlight`
  says whose answer the worker waits for, `AppliedByLiving` that a living daemon has applied
  nothing that waits but that item, `Fates` that the rest met one fate. Hence
  `DaemonsApplyInOrder` and `ItemsAccounted`, through any number of kills.
* `Ipc_proofs!ConnectionInvariant`: when a call begins nothing of an earlier one is left.
  Every piece, task and frame carries the number of the call in progress
  (`RequestOnItsWay`, `AnswerOnItsWay`, `CancelOnItsWay`); at most one handler may still write;
  a frame that ends a call is the last in flight; and a connection is closed only with
  no handler and nothing to write. Hence `OwnAnswerAlways`, for every handler, and
  `ClosedUnservedAlways`, for those that answer: `HandlersAnswer` excludes `ListModels` without an
  HTTP client, which never does (`handler.rs:968`).
* `Daemon_proofs!StoresInvariant`: `Held` says that what memory and file hold, where `mixed` does not
  name them, was once a whole configuration, `Pure` that no mixture is about before the first refused
  change or failed or overlapping save, `Fits` that a task saves only what it has seen, `InHand` who holds a change that
  has not reached the file or the memory: as long as requests do not overlap, one
  task does. Hence `NoMixtureEver`, through any number of kills, and `StoresAgree`.
* `RimeService_proofs!EngineAlwaysServes`: besides the property, the invariant says what a
  job may be doing for its request: a process that is down has no jobs, and an
  installation's job never takes the mutex. It holds for any number of workers.
* `Windows_proofs`: the functions of `WindowPlacement` for all integers (`SameEyeRect`,
  `EyeRectSparesLine`, `BubbleInWindow`, `ButtonOnScreen`), then, for all monitors, lines, lists,
  themes and scales, `StaysPlaced` (on a screen, off its line when there is room, no
  retry for a hidden window) and `HighlightShown`.
* The same module: `KeysAreUnique` ties a number to the context at its address as long
  as it is listed, and says that it is never given again afterwards; `LiveWindowsSpared`
  ties the remembered handle to its window as long as that lives; `ButtonsStay`.
* `TextService_proofs!HandlersKeepFit`, for every host, whatever it refuses: `Handled` says what the machine
  holds between two calls (`Fit`), where the thread is in its handler, and what the queue and the
  list of actions can hold. `TextAlwaysUsedOnce` follows, for any number of captures: only a preview holds
  recognised text, only one in time gives it away and ends with that, and only `drain_trigger_results`
  makes or renews one, for which it takes a result.
* `TextService_proofs!ObedientHostKeepsFit` assumes `HostCooperates` (no refused edit, no composition ended
  inside an edit). A refused edit undoes the rest at once: `set_preedit` returns without a
  composition while the machine composes. Inside a handler the picture lags behind the
  machine, so no property of the screen is inductive; `WindowFit` says for each action still
  to be applied which picture it starts from and which it owes, and distinguishes the moments of a handler
  (ending, drawing, starting, capturing, comparing, resting). `StreamsFit` says that nothing follows the
  last words of a stream, that a spent slot is silent and that an open one is awaited; `AsksFit` that the pinyin
  which blocks the keys is still to be asked for, waits in the throttle, is in a thread,
  or has its answer in the queue. Hence `WindowAlwaysMatchesKeys`, `CompositionAlwaysMatches` and
  `WaitsAlwaysMatchWork`. The proof runs the machine's real handlers: at its end
  `CompositionMachine_proofs` describes them for their callers, one lemma for each, by what it
  answers (`Reply`) and asks for (`Asking`).
* `InputController_proofs!ControllerInv`, for every host and every nesting of keys and CapsLock, under
  `InputControllerAssumption` (the machine's assumptions, and keys that are the machine's). The
  three properties speak of the moments between handlers and are far from inductive: an action is
  half done while the host's answer is awaited, and the nested callbacks change the machine
  meanwhile. `StepFits` says which state each waiting action finds, `HostFits` which states are left
  when each host call returns (that of the action, or `Idle`), and one part for each property what is
  still owed: `MarkedFits` (whoever ends the composition has the removal waiting, has
  removed, or is `commitComposition` without a text and leaves it where the controller knows of it), `VisibleFits` (the comparison's data stay until it is drawn; a preview whose panel
  was replaced has the key that ends it already at hand), `PolledFits` and `AwaitedFits` (the question
  is in the waiting action, at work, in the queue or in the batch taken). `AnswersFit` is the fact under them: a
  query that is not given up has one answer at most, and it is its own. Hence `MarkedAlwaysOwed`,
  `ModeAlwaysVisible` and `WaitsAlwaysServed`. The calls are the same lemmas as for `TextService`.

Only model-checked: liveness (`QueuedKeysSettle`, `CancelledWorkerEnds`, `BacklogDrains`, `CallsReturn`,
`QueriesAnswered`, `CoarseIsCorrected`), which is out of the prover's reach; of the machine
`SettlingKeepsKeys` and `QuotesAlternate`, which filter a sequence (`SelectSeq`) and need induction over it.

## Plan

1. `InputController` with `deactivateServer` and `commitComposition` called inside another host call,
   which the code does not refuse, and a property of the panel of a controller that is not active.
2. `WindowsKeys` with refused edits and hosts that end compositions inside an edit, under
   properties that say what may still be relied on.
3. The window keys of macOS (`imk.rs`, `set_client`), which have no numbers of contexts.

## Not modelled

* Log redaction, prompt commands: string functions without state.
* The providers (HTTP, speech, system OCR) and librime itself: seen by what they answer.
* Drawing, colours, mouse input in the window, COM and Objective-C calls; the inside of an edit session.
* macOS: pasted strings, the identity of windows. `DaemonStores`: the environment's key, the
  directories, the rewriting of an old OCR provider at the start.
* Screenshots, recordings and the selection overlay: captures that end or fail.
* Command line, settings applications, registration, installers and scripts: they keep no
  protocol state, or the operating system keeps it.
* `i32` overflow in the places of windows. `TextService` and `InputController` model
  a deactivation that begins between handlers only.

## Running

    tlc -workers 2 -config Machine.cfg MCCompositionMachine
    tlapm TextService_proofs.tla
