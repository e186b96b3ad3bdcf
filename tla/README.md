# A TLA+ model of intentumdiff

intentumdiff computes semantic diffs. Its Python package (`src/src/intentumdiff`,
the root of every path below unless it starts with `src/`) is a shell around a
Rust core that parses and compares. Three things are hard to get right in that
shell. Editors send a request per keystroke, and timers and thread pools answer
later, while connections and processes go away in between. Plugins are other
people's code, found, checked, loaded and called by several threads and
processes. And a review passes through a dozen stages each of which may fail,
decline or answer nonsense, none of which may end in a review that looks whole
and is not. This is what is modelled here. The Rust library is not in the
repository: what it computes is an answer, of every kind its protocol knows and
of the kinds it forbids.

Contents: [the system](#the-system), [modules](#modules), [runs](#runs),
[fairness](#fairness), [proofs](#proofs), [mutants](#mutants),
[findings](#findings), [known counterexamples](#known-counterexamples),
[what is not modelled](#what-is-not-modelled), [plan](#plan).

## The system

| component | state it keeps | operations | hard behaviours |
|---|---|---|---|
| live server, debounce (`live_server.py:811-1007, 1406-1433`) | one `threading.Timer` and one pending request per path, the largest sequence number per path | diff request, cancel, run of a timer, `stop()` | timers race `cancel()`; a run pops the table by path; stale check and send are two steps; several clients share the numbers |
| live server, sessions (`live_server.py:608-805, 1078-1343`) | client count, stop event, latest review number, one thread per client, a socket or a named pipe | accept, reject, read a line, answer it, review, idle timeout, `stop()` | limit of clients, slots given back by other threads, an accept thread that has to be woken, writes to one connection from several threads |
| file watcher (`watcher.py`) | one timer per file | event, run (read, diff, render), `stop()` | events in a queue, files that change under a run, `stop()` in two halves |
| LSP client (`lsp/client.py`) | pending futures, reader task, stderr task, process or socket | `start`, `hover`, `shutdown`, read loop | timeouts race answers, the server goes away or asks questions of its own, clean-up that is itself cancelled |
| LSP server (`lsp_server/`) | a task, a diff and its sources per document | didOpen, didChange, didClose, codeLens, diff task | handlers that run now or later, cancelled jobs, each step of a publication may fail |
| index command, LSP enrichment, launcher (`lsp/enricher.py`, `core/indexer.py`, `lsp/launcher.py`) | server processes, clients, tasks, the index | detect, connect, parse, hover, merge, release | one of several servers fails, one failing hover leaves the others running, a `CancelledError` where an exception is expected |
| plugin registry (`plugins/registry.py` and tables) | catalog, list of parsers, load errors | lazy load, detect, inventory, error summary | two levels of locks, publication in two steps |
| plugin loader (`plugins/loader.py`) | store, taint and fuel of a plugin; advisory cache and stamp files | load, call, reload, advisory gate, refresh | files replaced between check and use, calls that trap, several processes, a process that ends between stamp and cache |
| plugin hub (`plugins/hub.py`) | installed packages, the manifest | add, install, remove | the index changes between two downloads, a second check that fails, a manifest that cannot be read |
| differ (`differ.py`, `_differ_*.py`) | executor, parse cache, the parser's component | the pipeline of a file, a commit in a list or a pool, close | a parser replaced between key, parse and store; an executor shut down while in use |
| commit differ (`core/commit_differ.py`) | results and errors per file, the index of a commit | diff files, conclude | failures of some files |
| Rust adapter (`rust_core.py`) | the loaded library | some thirty operations over a C ABI | answers that are errors, refusals, or damaged |
| caches (`cache/`) | parse results | get, put | keys that no longer describe what is stored |
| guardrails (`analysis/guardrails.py`) | policy files | find, load, apply | a policy at the old place of a file that moved; short routes that know no policy |
| command line (`cli/`) | - | review, report, record, exit status | a gate that ends well though it looked at nothing |
| playground (`serve/_app.py`) | semaphore | diff request | timeouts that leave work running |
| the rest: models, configuration, GitHub app, sources and version control | little or none | data, subprocess calls | - |

How they interact. The command line starts a review, an index, the file watcher,
the live server or the LSP server. The last three turn a burst of changes into
few diffs and call the differ from their own threads or pool. The differ finds a
parser in the registry, which loads it through the loader's gates; it parses
through the cache and asks the Rust core for nearly every decision. The commit
differ runs the differ over the files of a commit. The index command starts
language servers by the launcher and talks to them by the LSP client. The plugin
hub changes what the registry will find the next time.

For each component, what makes it correct:

* debounce: the last edit is answered; an older answer does not follow a newer
  one; a cancelled request is silent; every request is settled.
* sessions: slots are neither leaked nor freed twice; a stale review stops; a
  silent client is dropped; the accept thread ends.
* watcher: the newest content of a file is diffed; `stop()` leaves no timer
  that was in the table.
* LSP client: a registered request has somebody waiting; every call ends; when
  it is over nothing stays open.
* LSP server: what the editor can see comes from the newest text or is gone.
* index: a printed index is complete and typed; nothing is left running.
* registry and loader: guests run alone, on sound stores, and are what was
  checked; everything is loaded once; a missing parser has a cause; a runtime
  known to be vulnerable is refused; the advisory service is not flooded.
* hub: what is pinned is what is installed, by name and digest; no command loses
  another's pins.
* differ, commit differ, caches: a cached tree is what its key says; a review
  compares what one parser made; a returned review is complete.
* Rust adapter: a failure, or an answer that lacks what is required of it, publishes
  nothing; how much damage passes unnoticed beyond that is known.
* command line: exit status 0 is true.

## Modules

| module | models | remarks |
|---|---|---|
| `Coalescing` | no code: what a debounced service promises | a request is shed only if a newer one for its path came or somebody asked; every other one is served |
| `LiveDebounce` | `_schedule_request`, `_run_diff`, `_process_request_with_source`, `_compute_diff`, `_cancel_request`, `_is_stale`, `stop` | implements `Coalescing` when there is one client |
| `LiveSessions` | both accept loops, `_handle_client`, `_process_review_request`, `_run_streaming_review`, `_write_line_bytes`, `stop` | uses the debounce by what it does to a line: answered from another thread, or given up |
| `FileWatcher` | `watcher.py` | implements `Coalescing` |
| `LspClient` | `lsp/client.py` | the language server is external |
| `LspServer` | `lsp_server/` | implements `Coalescing`; pygls is external |
| `LspIndexer` | the command `index`, `core/indexer.py`, `lsp/enricher.py`, what it needs of the launcher | uses a client by what `LspClient` shows of it |
| `OsvGate` | the advisory gate of `plugins/loader.py` and `security-check` | several processes, two files |
| `PluginHost` | `plugins/registry.py`, and loading and calling in `plugins/loader.py` | several threads |
| `PluginHub` | `plugins add`, `install`, `remove` and `plugins/hub.py` | one command at a time, killed at any point |
| `ReviewPipeline` | `_run_pipeline` of `differ.py`, the parse cache, the registration of XML dialects | state shared by threads |
| `CommitReview` | `diff_commit` of the differ and of the commit differ, the stream of the live server | composes with `ReviewPipeline` |
| `NativeReview` | `rust_core.py` and the stages that call it | one review, every answer |
| `ReviewCommand` | `git`, `file`, `patch`, `string`, `guardrails check`, policies, reports, exit status | composes with `NativeReview`, which it refines |
| `...Proofs` | - | theorems; see [proofs](#proofs) for which are where |
| `MC...` | - | instances for TLC |

The data is abstracted everywhere. Contents are named by the request, text or
disk operation they came with, or by a version; a diff is "some changes" or "a
failure", and a review is known by how it was made.

**LiveDebounce.** A request is its arrival number, which also names its timer.
`phase[r]` is where that timer's thread stands; the action names follow the
functions. One action is one critical section of `self._lock`
(`ScheduleRequest`, `CancelPath`, `CancelAll`, `Stop`, `RunDiff`,
`CheckStale`), or the code between two of them (`ComputeDiff`, `SendEvent`,
`SendFinal`, `SendError`); `Fire` is the moment after which `Timer.cancel()`
has no effect. `tracked` stands for `_timers` and `_timer_requests`, which are
always changed together. `late`, `acked` and `withdrawn` are history. A client
numbers its own requests upwards from 1, as the protocol comment at the top of
`live_server.py` asks; a request without a number (0) is not modelled. A cancel
may carry no number, a fresh one, or (`CancelReuses`) one used before.

**LiveSessions.** A line is its arrival number; `at[l]` says where it stands.
The thread of a connection is what is in its hands: it reads only when none of
its lines is. A message goes out in two steps (`BeginSend`, `EndSend`), since
`sendall` writes in parts without a lock. A hang-up and the idle timeout look
alike: nothing more to read. `transport` chooses the accept loop: a socket, or
the Windows named pipe, whose instances are made one at a time, whose
connections have no idle timeout, and whose accept thread has to be woken by a
dummy client of `stop()`. `MaxClients` is `_MAX_CLIENTS`.

**FileWatcher.** The disk and the event queue of the observer are external
(`Save`, `Touch`, `Remove`). `StopTimers` and `StopObserver` are the two halves
of `stop()`; an event may be handled in between. A content is the number of the
disk operation that wrote it, so that "this run read the newest content" can be
said.

**LspClient.** One event loop: an action is the code between two awaits.
`call[r]` is where the caller of a request stands, `fut[r]` its future,
`pending` is `self._pending`. `CleanUpStart` and `FinishShutdown` have the two
ways a clean-up can end: `suppress(Exception)` does not stop a
`CancelledError`. One connection from `start()` to `shutdown()` is modelled.

**LspServer.** A text (didOpen or didChange) is its arrival number and also
names its diff task. Async handlers are tasks that run in order
(`TextArrives`, then `ScheduleDiff`); didClose and codeLens are handled when
they arrive. `Push` is the code after the job, which has no await. What the
editor sees is state too: `shown`, `lenses` and `refreshing`. With `Faults`
publishing may raise, and so may the request for a refresh, which is swallowed
where it is made and not repeated. `untold` has the documents whose last change
the editor did not hear of; a refresh that gets through, for any document, empties
it, because it makes the editor ask for all of them.

**LspIndexer.** `phase` is where the command stands: detecting languages,
connecting servers one after the other, collecting files, indexing, abandoning
or releasing. The ref may have moved between detecting and collecting, so both
choose their files. `file[f]` is the task of a file and `hover[f]` the tasks of
its hovers, which go on when the file has failed, and which share slots; one
thread parses (`parser`). A client's `CancelledError` comes out where
`except Exception` does not stop it (`HandshakeStrands`, `HoverCancelled`,
`ReleaseCancelled`). The first of them is caught, but it is the clean-up that raised
it: the subprocess of a server in `Stdio` is left to nobody, for the `shutdown()` of
a client that did not start does nothing. `Release` is a client's `shutdown()`;
the launchers are stopped when all clients are down (`AllReleased`).

**OsvGate.** `stamp` and `cache` are the two files, shared by all processes.
`main[p]` is where the main thread of a process stands in a load, `fetch[p]`
where its fetch does, in the daemon thread or in `security-check`. Reading the
stamp, reading the cache and starting the thread are three steps, since another
process may write in between. A file is emptied before it is written, and
either may fail, which the code swallows: a fetch then asks under the old stamp.
`Exit` kills a process wherever its threads are. `torn` remembers that, since the
stamp aged, one was not kept or was missed by a process that read it half written.

**PluginHost.** `reg` is the registry, `ent[e]` an entry of the catalog with its
lock, `plug[i]` an instance of a component, which is loaded once for its entry
and once more for the list; `disk[e]` is the file it comes from. Verifying the
bytes, approving them and compiling them are three steps, between which
`Replace` may change the file. A thread in a guest call holds the instance's
lock from the look at `_tainted` to the end. Detection is driven by the policy of
the Rust core: it may ask for any entry, at most once, in any order. Entries the
policy excludes from this platform neither load nor fail.

**PluginHub.** A package's content has components with names and digests. The code
keeps digests by name, one for each, which need not be the same one in the wheel
(`Wheel`, `Pinned`) and where it is installed (`Recorded`, `DigestsOf`). The index
may serve another one at any time, and has two chances within a command: the
download that is checked and the one pip makes. A spec of the manifest names the
package by its short or full name. The command's own record is `cmd`; `promised`
and `cut` are history. Two commands at once are not modelled.

**ReviewPipeline and CommitReview.** Each thread has a differ and an instance of
the parser; `disk` is the component's file, `cache` the parse cache, `rules` the
profiles on disk, the dialects of the Rust core and the fingerprint of what was
registered last. Making the key, parsing and storing are three steps; `Replace`
and `EditProfiles` come in between. `CommitReview` adds the job: files in a list,
in a pool, in the commit differ or in the stream, failures, `close()`, and the
index of a commit, which parses again through the cache.

**NativeReview.** `pc` is the next thing a review does; nearly every action asks
the core and gets any answer of a set (`Required`, `Support`, `BatchAnswer`,
`CommitAnswer`, `FinalizeAnswer`): sound ones, errors of every kind of transport,
refusals, and damaged ones (an item that repeats, a diff that lacks an array, a
status that contradicts its items). The questions include the two that only lead
to others: `Collect`, which files changed, and `Supports`, whether the core knows
the language. `Sound...` says what has to hold of an answer and `...Attempt`,
`...Accepted` what the code takes for it.

Not all readers look alike (`Stage`'s second argument). `Raw` is the C ABI's
result as it comes (the lifecycle, the schemas, the parse key); `Model` is what
Pydantic can make a node or a diff of, where a list that is missing is filled in;
`Exact` is a boolean or a content type, of which everything is checked. So an
answer may be thin (it lacks something with a default) or short (it lacks
something else), and two variables remember what came: `failed`, that the core
failed or an answer lacked what its reader requires, and `damaged`, that anything
was missing that nobody may have noticed: rows of the changed files, children of a
node, a null for a yes or no, bytes that cannot be encoded, a failure that
`resolve_schema` only notes (`SchemaLost`). `FailureIsNeverPublished` is about the
first, `NoDamageIsPublished`, which fails, about the second. A review begins at
one of five entries.

**ReviewCommand.** The review is NativeReview's, restricted by the policies
(`Policed`): which files stay off the short routes, and when the review fails.
`stage` goes on from there through showing, reporting and recording to the exit
status. Each may fail. The last file may have moved from another directory, with
a policy of its own. The policies are assumed to stay as they are while a command
runs, guardrails to be enabled in the configuration, and analyzers to keep what
the guardrails found; with `--stream` the changes that are shown take the place
of the rendered review.

## Runs

`CHECK_DEADLOCK FALSE` everywhere: a client, a user or an editor may stop, a
command is over at some time, and the bounds stop the rest. What has to go on is
said by the liveness properties. The `expect: violation` run shows a
disagreement with the documentation; see [findings](#findings).

| run | instance | shows |
|---|---|---|
| `live` | 1 client, 1 path, 3 requests, 1 cancel, streams of 0 or 1 change, fairness | table, lateness, silence, and the debounce implements `Coalescing`, liveness included |
| `watch` | 2 files, one outside a repository, 3 disk operations, fairness | no save is lost, what outlives `stop()`, the watcher implements `Coalescing` |
| `lsp_client` | 3 calls, 1 request of the server's own (with an id of ours or not), stdio and tcp, fairness | registration, the reader's end, release, every call ends |
| `lsp_release` | 2 calls, stdio and tcp | violation of `ReleasedHoweverItEnds` |
| `sessions` | 3 connections, limit 2, 2 lines over a socket or 1 over a pipe, 1 streamed file, fairness | slots, reviews, a silent client is dropped, the accept thread ends |
| `lsp_server` | 2 documents, 3 texts, 1 lens request, faults, fairness | caches and lenses agree, the server implements `Coalescing` |
| `index` | 4 files, 3 servers (launched over stdio, launched on a port, running already), 2 names, 2 slots each, 1 `CancelledError`, fairness | a printed index is complete, nothing is left but what failed over stdio, the command ends |
| `osv` | 2 processes, 2 loads each, 1 day, symmetric | a listed runtime is refused, the service is asked at most once per process while stamps are kept |
| `plugins` | 2 threads, 3 entries (one bundled, one guarded, one excluded), 1 operation each, 1 trap, 1 replacement, fairness | calls are safe, loads happen once, causes are known, operations end |
| `hub` | 2 packages, 4 contents, 4 manifests, 1 release, 2 commands | what is pinned is what is installed, pins are kept |
| `commit` | a Python and an XML file, 2 threads, 2 versions, 2 profiles, 3 faults, all four entries, fairness | complete or failed, the cache is true, one parser per review, the job ends |
| `native` | 2 files, all entries and commands, every answer | failures are not published, the gate holds, every file is reviewed, success is true |

Why the bounds are enough. Three requests for a path are the shortest history
in which one timer has run and removed the entry of a second, which a third then
cannot cancel. One streamed change gives a run two messages, and so two stale
checks. In `sessions`, two clients may run reviews against each other while a
third is turned away; two lines are a review and what silences it; over a pipe
what differs is the accept thread and the missing timeout, for which one line is
enough. Three calls are the handshake, a hover and the shutdown request. Three
texts are one published, one under way and one that replaces it, across a close
and a reopening. In `index` the four files are one for each kind of language
(a server over stdio, one on a port, one that runs already, no parser; there is no
server for the first two when the user declines), and two names are a hover
that fails beside one that goes on. In `osv` one process writes while the other
reads, each can start again, and a load follows a load. In `plugins` two threads
are enough to meet at every lock, one trap to taint and one replacement to tell
the checked bytes from the loaded ones; one operation each, of four kinds, covers
every pair. `hub` has a package that is in the registry and one that is not,
content with more and fewer components and with two of one name, and manifests that name a package
twice; a second command meets what the first left. In `commit` three faults are
a trap, a replacement and the way back to the first version, which is what a
fingerprint compared too late would miss. Two files in `native` are what it takes
to repeat an index, to serve one file and decline the other, and for one file to
move. The theorems hold for every bound.

## Fairness

Weak fairness, per actor, and only of actors that the runtime schedules:

* each timer thread and each client thread: a started Python thread keeps being
  scheduled, `threading.Timer` goes off, a diff ends (plugins have fuel), and a
  socket has a timeout of 30 s, so a thread is not stuck in `recv` or `sendall`.
  A pipe has no such timeout, and `SlotIsFreed` promises no slot there;
* the accept thread; `stop()` sends dummy clients to a pipe for ten seconds,
  which is taken to be long enough to find an instance of it;
* the observer thread while it runs, and the join in `FileWatcher.stop()`;
* the ready callbacks and timers of an event loop: callers' timeouts, the reader
  when there is a message, the tasks of the LSP server and of the index command,
  whose hovers end by their timeout at the latest;
* the threads of a pool and of the users of the registry: a guest call is
  metered and ends, a lock that is let go is taken by somebody who waits.

Nothing is fair that a user, an editor, a language server or a disk does:
requests, cancels, `stop()`, `shutdown()`, `close()`, answers, hang-ups, replaced
files and edited profiles may or may not come. Hence `EveryCallEnds` rests on the
timeout alone.

## Proofs

All proofs are checked by `tlapm` to the leaves. They rest on the named
assumptions on constants of each module (bounds are natural numbers, sentinels
are not members, `Proc` is finite, a manifest is a sequence of specs), and on
nothing about how many clients, files, threads, processes or plugins there are.
Every invariant of a passing run is a theorem:

| module of theorems | about |
|---|---|
| `LiveDebounceProofs` | `LiveDebounce` |
| `FrontEndProofs` | `FileWatcher`, `LiveSessions` |
| `LspServerProofs` | `LspServer` |
| `LspEnrichmentProofs` | `LspClient`, `LspIndexer` |
| `PluginSupplyProofs` | `OsvGate`, `PluginHub` |
| `PluginHostProofs` | `PluginHost` |
| `CommitReviewProofs` | `ReviewPipeline`, `CommitReview` |
| `ReviewCommandProofs` | `NativeReview`, `ReviewCommand` |

**The debounce.** In `LiveDebounceProofs`, for any number of clients:

* `TypeCorrect`: `Spec => []TypeOK`. `TypeOK` is inductive as it stands.
* `LateBound`: a stale request sends at most one more message. The
  strengthening `LateInv` says that a request that has sent a late message is
  stale and is past every send but through a check; it needs that a number once
  stale stays stale (`StaleForever`, because `latest` only grows).
* `TrackedNewest`: the timer table names the newest request of its path and one
  whose run has not begun. Inductive together with `TypeOK`: the entry removed
  by a run may be a newer one's, but an entry never survives its timer.

For a single client `ed`, in its second half:

* `NothingLost`: a request is given up only when superseded or withdrawn. The
  invariant `LossInv` adds that the client's last number bounds every number in
  use and `latest` by one more (`Numbered`), and that an unsettled stale request
  is already excused (`StaleIsExcused`). `Numbered` is what fails with two
  clients.
* `BurstAnswered`: a burst of requests for a path is answered. The newest of them
  (`HasNewest`) is superseded by none, so by `NothingLost` it was not given up.
* `CancelledSilent`: what a cancel response counted is never answered, when a
  cancel does not reuse numbers. `SilentInv`: a counted timer is dead, or has
  fired and will find itself stale (`AckedIsDoomed`), and a request whose run
  has not begun has sent nothing (`UnstartedIsSilent`).
* `ImplementsPromise`: `Spec => PromiseSafety`. The refinement mapping takes a
  phase to an outcome (waiting and running: pending; answered, refused: served;
  cancelled, dropped: shed) and a schedule, a cancel or `stop()`, and a step of
  a timer thread to `Submit`, `GiveUp`, and `Serve` or `Shed` or a stutter.

**The file watcher.** In `FrontEndProofs`, for any files and any number of disk
operations, from one invariant. The table names the newest request of its file
(`TrackedIsNewest`), so what is cancelled has a successor.

* `SavesAreNotLost`: inductive with `TrackedIsNewest` and with what the queue of
  events holds.
* `OnlyEscapeesRemain`. A timer that is armed and not in the table lost its entry
  to the run of an older request (`ArmedIsKnown`); `StopTimers` cancels all that is
  in the table, `MarkIsPast` and `StopIsFirst` tell what came after it, and an
  escape is for good, since a run does not go back (`EscapeIsForGood`).
* `ImplementsPromise`: `Spec => PromiseSafety`, with the mapping of the debounce
  and no need of numbers: a dispatched event is a `Submit` that pushes out the
  request of its file, `StopTimers` is a `GiveUp`.

**The sessions.** In `FrontEndProofs`, for any number of connections, lines,
files and any numbers:

* `SlotsHeld`, by cardinalities. That a released slot was held makes the guard
  `count > 0` of the release superfluous. The types need that one connection at a
  time is admitted and not yet served (`OneAdmitted`).
* `LateResultBound`: a review that has sent a late result is stale for good
  (`StaysStale`) and beyond its check, or has an error to send (`LateOnce`).
* `SilencedByOthers`. The latest number is that of a review, or one past that of a
  cancel, that was taken (`Raised`). Had the review's own connection sent it, then
  before the review, since lines are read and taken in order (`Fifo`) and nothing
  is taken while the thread is busy (`Alone`); and what came before a review has a
  smaller number (`Numbered`).

**The language server.** In `LspServerProofs`, for any documents, texts and lens
requests, with and without errors in publishing:

* `SettledNewest`: a text under way is the task its document knows (`OneTask`), and
  that task is of its newest text (`TaskIsNewest`), so what a task publishes is
  newest, and it stays so until the next text makes the document busy (`CacheInv`).
* `ClosedOvertaken`: a task of a closed document is of a text handled after the
  close (`ClosedInv`).
* `CachesAlwaysAgree` and `LensesFollow`, each inductive with the types
  (`LensInv` says the second of closed documents too: a close drops the editor's
  lenses and the cache together). Both have the swallowed failures: the lenses of
  a document may be older than the cache only while it is `untold`.
* `ImplementsPromise`: `Spec => PromiseSafety`. The handler that schedules a text
  is a `Submit` that pushes out its document's task, a close is a `GiveUp`, the end
  of a task a `Serve`; an arrival, which only makes a task of the handler, is a
  stutter.

**The client of language servers.** In `LspEnrichmentProofs`, for any number of
calls, and any ids a server gives its own requests:

* `RegisteredAwaited` and `ReaderLeavesNone`, together with their converse: who
  waits is registered as long as the reader task runs (`AwaitedIsRegistered`), so
  that the reader's last act reaches everybody who waits. `ReaderExit` is given
  what it cancels: of an answer that ends the reader, all but its own call (`broke`).
* `CleanedUp`, from where `start()` and `shutdown()` may stand (`IdleIsFresh`,
  `NoReaderYet`). It says nothing of a clean-up that was cancelled: `lsp_release`
  shows that nothing can be said.
* `DiscardedWhenApart`: `ServerRequestsDiscarded`, one of the
  [known counterexamples](#known-counterexamples), holds if the ids of the
  server's requests are never ours. That is all it takes.

**The index command.** In `LspEnrichmentProofs`, for any files, languages, hovers,
slots and `CancelledError`s:

* `NothingIsLeft`: what is held is held by a client, by the launcher of a connected
  language, by the language being connected, or is a subprocess stranded by a failed
  handshake (`HeldIsKnown`); in a command that is over and met no `CancelledError`
  in a release only the last is left (`HeldByPhase`).
* `PrintedCertified`: a file goes from step to step with its hovers (`HoversFollow`),
  one that is indexed without types has no client (`BareHasNoClient`), and an index
  is printed when all files have finished (`PrintedIsFinished`).

**What a review asks of the core.** In `ReviewCommandProofs`, for any number of
files:

* `NothingFailedIsPublished`. `FailureIsNeverPublished` is not inductive; `Failed`
  is: a failure that was met is a review that was abandoned. A stage keeps it if its
  reader suits it (`Suits`): only the readers of `Unchecked` stages may take an
  answer that is short. What is damaged and accepted is not a failure, and the
  theorem says nothing of it. For the batch this is counting
  (`EveryFileOnce`): the code checks that there are as many items as files, that
  every index is a file's and that none comes twice, and an injection between sets
  of one size is onto.
* `GateHolds` and `AllAreReviewed`, from `Gated` (under the gate no step goes to
  the token fallback) and `Accounted` (a file has a review or is still to do, and
  a review has its kind before it is dressed; or no files were collected at all,
  `NoneCollected`, and then over a damaged answer).

And of the commands, likewise for any number of files:

* `CommandsReview`: `CommandSpec => Spec`. The commands implement `NativeReview`
  (every other step of theirs is a stutter of it), so its theorems hold of them.
* `SuccessTold`. `PolicyRead` and `PolicyApplied` follow the file under review: no
  route leads past its policies, and what they find is recorded before it has its
  review; `Policy` is the same of all reviewed files. `Sure` says what a command
  has finished at each stage.

**The job and the cache.** In `CommitReviewProofs`, for any files, threads,
versions and faults:

* `CacheIsTrue` and `OneParser`. A key is the compiled version (`LookedUp`), a
  tree is of the version compiled when it was parsed (`Parsed`), and a tree is
  stored only if the fingerprint is the key's, whatever was replaced in between;
  `SecondSide` carries the version from the first side to the second.
* `Complete`: who reviews a file is its only reviewer (`Reviewers`), so that
  nothing moves once all files have ended (`Ended`, `Indexed`).

**Plugins.** In `PluginSupplyProofs`, for any processes, loads and days:

* `ListedRefused`: `Bad`, while a load is known to be bad the files say so, and it
  is past the gate only under the override.
* `Budgeted`, by counting: while every stamp is kept (`~torn`), a stale one is one
  nobody has asked under or one that is being written (`Stamping`), and no fetch
  begins in between; so those that have asked and those pending, each in a process
  of its own, are no more than the processes (`Budget`). It needs `Off`: a
  process that has ended fetches nothing.

In `PluginSupplyProofs`, for any packages, contents, registry and manifests, with
crashes and releases at any moment:

* `PinnedIsInstalled`: a package may differ from its last pin only while a command
  works on it, and is verified before its spec is done (`Pins`), by the table of
  names that the installed package gives, which its content determines.
* `PinsAreKept`: what was read for a save is what the last save left (`Kept`), and
  a save changes no entry of another package.
* `ShortNameRemoves`: `RemovedIsGone` fails only for packages that are typed by
  their full names.

All three are about what `Sift` keeps of a sequence of any length: that sifting twice is
sifting once by both sets, and commutes with `Append`. That is an induction, and
the library's theorems for it take an operator as a parameter, which no installed
prover can instantiate. The module therefore proves induction over a *set* of
numbers and of sequences (`NumbersInduct`, `SequencesInduct`) from the minimum
principle of well-founded relations, which takes a set.

In `PluginHostProofs`, for any threads, entries, traps and replaced files,
`GuestsSafe`, `EachOnce` and `CausesKnown`, from one invariant: what a thread holds
and has checked (`HoldsRegistry`, `HoldsEntry`, `HasChecked`, `HoldsPlug`), what is
in an instance (`PlugInv`: a broken store is tainted, and bundled or guarded bytes
were checked), and that errors are on record unless somebody is about to publish
them (`Causes`). A step of one thread leaves the facts of another alone when it
touches no lock that one holds and takes back nothing that was loaded
(`Considerate`).

Model-checked only: everything temporal beyond safety, that is, the liveness
properties (`EveryRequestSettles`, `SlotIsFreed`, `EveryCallEnds`, `CommandEnds`,
`EveryOperationEnds`, `ReviewEnds`) and the fair half of the three refinements of
`Coalescing`: fairness and `ENABLED` are out of the prover's reach. Not proved
either are the properties that are known to fail; `DiscardedWhenApart`,
`BurstAnswered` and `ShortNameRemoves` name the condition that three of them lack,
and `LateBound` says what holds instead of `OlderResponsesDropped`.

## Mutants

An operator named `Bad...` is the operator after it with a plausible mistake.
Put in its place, it breaks a property:

| module | mistake | breaks |
|---|---|---|
| `LiveDebounce` | `BadRunDiff`: the run leaves its timer in the table | `TrackedIsNewest` |
| | `BadCheckStale`: no check before a message | `AtMostOneLateMessage` |
| | `BadStale`: the check is off by one | `PromiseSpec` |
| | `BadStaleAfter`: a cancel is off by one | `CancelledIsSilent` |
| | `BadCheckStaleWaits`: a stale run waits | `EveryRequestSettles` |
| `LiveSessions` | `BadAccept`: a rejected client is counted | `SlotsAreHeld` |
| | `BadCheckReview`: no check before the final response | `AtMostOneLateResult` |
| | `BadTakeReview`: a review makes itself stale | `OnlyOthersSilenceReviews` |
| | `BadEndSession`: no idle timeout, no end of file | `SlotIsFreed` |
| `FileWatcher` | `BadDispatch`: an event during a run is skipped | `NoSaveLost` |
| | `BadStopTimers`: the table is emptied first | `OnlyEscapeesOutliveStop` |
| | `BadRunDiffCancels`: the run cancels what it removes | `PromiseSpec` |
| `LspClient` | `BadTimeout`: a timed out request stays registered | `RegisteredIsAwaited` |
| | `BadReaderExit`: futures dropped and not cancelled | `ReaderLeavesNoWaiter` |
| | `BadFinishShutdown`: the tasks are left running | `CleanedUpIsReleased` |
| | `BadTimeoutWhileReading`: the timeout needs the reader | `EveryCallEnds` |
| `LspServer` | `BadPush`: a diff that is None invalidates nothing | `SettledCacheIsNewest` |
| | `BadInvalidate`: the caches are kept | `CachesAgree` |
| | `BadDidClose`: the task is forgotten, not cancelled | `ClosedHoldsOnlyOvertaken` |
| | `BadInvalidateQuietly`: the editor is not told | `LensesCatchUp` |
| | `BadScheduleDiffCancelsAll`: other documents' tasks are cancelled | `PromiseSpec` |
| `LspIndexer` | `BadConnectFails`: a failed start leaves the server to its launcher | `NothingLeftRunning` |
| | `BadHoverFails`: a failed hover is a name without a type | `PrintedIsCertified` |
| | `BadEndParse`: a parser that raises keeps the thread | `CommandEnds` |
| `OsvGate` | `BadReadStamp`: the gate is asked once in a process | `ListedIsRefused` |
| | `BadWriteStamp`: the stamp is written after the answer | `FetchBudget` |
| `PluginHost` | `BadEnterCall`: a tainted store is trusted | `GuestsRunSafely` |
| | `BadLockEntry`: no second look behind the lock | `LoadedOnce` |
| | `BadPublishErrors`: failures are not recorded | `EmptyListHasCauses` |
| | `BadLoadEntryFails`: a failure leaves with the lock | `EveryOperationEnds` |
| `PluginHub` | `BadVerified`: pins may be fewer than what is installed | `InstalledAsPinned` |
| | `BadAdd`: an unreadable manifest is an empty one | `OthersKeepPins` |
| `ReviewPipeline` | `BadStore`: the key is not looked at again | `CacheNeverLies` |
| | `BadFingerprint`: the file's version, not the compiled one | `OneParserPerReview` |
| `CommitReview` | `BadGather`: errors are passed over | `ReviewIsComplete` |
| | `BadPoolRaises`: cancelled futures are waited for | `ReviewEnds` |
| `NativeReview` | `BadItemsAccepted`: an index may come twice | `FailureIsNeverPublished` |
| | `BadGate`: a warning in place of the gate | `NoTokensUnderTheGate` |
| | `BadBatch`: declined files count as reviewed | `EveryFileIsReviewed` |
| `ReviewCommand` | `BadRelevant`: only the policy of the new place | `SuccessIsTrue` |

## Findings

`lsp_release`: `suppress(Exception)` lets `CancelledError` through. A failed
handshake over stdio leaves the process running, because awaiting the
cancelled stderr task raises; `shutdown()` whose connection ends under it
releases nothing. `CleanedUpIsReleased` shows the other endings are right.
`NothingLeftRunning` therefore excepts a run with such a cancellation in a release.

Stated as properties that hold, and worth knowing: timers outlive
`FileWatcher.stop()` in exactly two ways (`OnlyEscapeesOutliveStop`); a review is
silenced only by another connection, so an editor cannot cancel its own review
on the connection that carries it (`OnlyOthersSilenceReviews`); a closed document
can be given results by a change that arrived before the close
(`ClosedHoldsOnlyOvertaken`); when the service fails, each process asks it once
again the next day and no sooner, if the stamp was kept (`FetchBudget`).

## Known counterexamples

The modules state these properties, which fail; no configuration lists them. To
see one, name it as an `INVARIANT` (`RefusedForFailure` as a `PROPERTY`) in a copy
of the configuration.

* `BurstIsAnswered` (`LiveDebounce`, with two clients): numbers are per path and
  shared by all clients, while every request cancels the waiting timer whatever
  its number. A request with a smaller number from a second editor cancels the
  newer one and is then dropped as stale: the burst gets no answer. An editor
  that reconnects and starts numbering again is such a second client.
* `OlderResponsesDropped` (`LiveDebounce`): the stale check releases the lock
  before the send, and errors are sent without a check: an older response can
  follow a newer one. The bound that does hold is proved (`LateBound`).
* `LinesAreWhole` (`LiveSessions`): `sendall` from two threads on one socket, no
  lock: two responses can mix.
* `OutstandingIsCancelled` (`LspClient`): an answer whose `error` is no object (null,
  a string) raises after its future has been popped (`client.py:524-532`). The reader
  task ends, its `finally` cancels what is still registered, and the caller of that
  answer waits for its whole timeout, although the comment (546) says that all
  outstanding futures are cancelled. `ReaderLeavesNoWaiter`, which is proved, shows
  that this one call is the only exception.
* `FailedIsNotStranded` (`LspIndexer`): what `lsp_release` finds, seen from the
  command. Its clean-up after a failed connection (`cli/_commands.py:1223`) calls
  `shutdown()` on a client that did not start, which returns at once, and `stop()` on
  a launcher that owns no process: the server of a failed handshake over stdio goes
  on running. `NothingLeftRunning` shows that nothing else is left.
* `OneFetchADay` (`OsvGate`): `_write_stamp` swallows every failure
  (`plugins/loader.py:311`) and the fetch goes on, so that where the stamp cannot be
  written every new process asks the service, although the comments promise one fetch
  a day even when it fails. `FetchBudget` shows that nothing but a stamp that is not
  kept, or is read half written, breaks the budget.
* `RefusedForFailure` (`OsvGate`): between the stamp and the answer a fetch looks like
  one that failed (`plugins/loader.py:484`). The second load of the process that has
  just begun it is refused, with the message that the check failed.
* `EveryFileIsPinned` (`PluginHub`): digests are kept by file name without the
  directory, in the wheel and where it is installed (`plugins/hub.py:563, 1002`). Of
  two components of one name only one is compared with its pin, although every
  installed file is said to be verified. `InstalledAsPinned` shows that this is the
  only component that gets in unpinned.
* `NoDamageIsPublished` (`NativeReview`): `changed_sources` (`rust_core.py:1293`) turns
  an empty object into no files, and the commit is reviewed without them, although
  the changelog promises an error for an incomplete or malformed answer
  (`CHANGELOG.md:41`). The same holds in smaller ways of a lifecycle, which nobody
  checks, of nodes without children, of a null for `supports_language`, of bytes that
  cannot be encoded and of a failure while a schema is fetched.
  `FailureIsNeverPublished` shows that this is all: other failures are told.
* `ServerRequestsDiscarded` (`LspClient`, when ids collide): a request of the
  language server's own that carries the id of a pending call ends that call
  with an empty result.
* `RemovedIsGone` (`PluginHub`): `remove --save` with the full name of a plugin
  does not find an entry under its short name; the package is gone and its entry
  stays.
* `RulesAreNotIgnored` (`ReviewPipeline`, two threads and an edited profile): the
  comparison, the registration and the stamp are three steps; afterwards the stamp
  can be of other dialects than those in force, and later reviews skip the
  registration they need.

And three divergences that no property is about: `_osv_check_worker` says that a
failed fetch is detectable by the missing cache file (`plugins/loader.py:417`),
which is not so when an old one is there; the docstring of `RustOnlyGateError`
(`_differ_gate.py:195`) says that ordinary failures of a file are swallowed and
skipped, where `diff_commit` now raises them all; and a command killed between
the two halves of a manifest's save leaves an empty file, which parses
(`OthersKeepPins` excepts it).

## What is not modelled

* Contents, JSON, and what the Rust core computes; the tables of plugins,
  languages and servers; formatting and printing.
* In the live server: the stdin mode (no concurrency), requests without a number,
  threads that cannot be started, readers too slow for `sendall`.
* In the LSP client: a second `start()` on a client, and what a hover contains.
  In the launcher: the reservation of a port.
* In the LSP server: the transport of pygls, and a thread pool that is full
  (a job waits longer, which a job may do in any case).
* In the registry: how a language is ranked; in the loader: the version check of
  the Wasm runtime; in the hub: search and lists, which only read, and two
  commands at once.
* In the differ: a call with another number of workers while the pool is in use
  (it ends as `Close` does), the progressive stream, asset diffs; in the caches:
  files and eviction behind `get` and `put`.
* In the adapter: operations no review asks for, and the question for its version,
  which any answer satisfies. That a list is shorter than it should be, or a node
  inside the answer about a batch, a commit or a finalization, cannot be told by
  anybody and is not.
* In the guardrails: rules that the core reads as none from a policy that has some
  (`load_guardrail_policy` takes an empty answer for no rules), guardrails switched
  off by the configuration, and a policy file that is itself reviewed, which is
  kept off the short routes too.
* On the command line: argument parsing, commands that only list or that start a
  server.
* The playground: its handlers share nothing but a semaphore of eight, and that a
  request that is given up frees its place while its thread goes on can be read
  off the code. Models, configuration and the GitHub app: data without behaviour.

## Plan

Done, in the order of importance the plan had: the debounce, the sessions, the
watcher, the LSP client and server; then the index command, the advisory gate,
the registry with the sandbox, the review of a commit, the hub, what a review asks
of the core, and the commands over it. Proved: every invariant the runs check, the
safety half of each refinement, and that the commands implement the review.

Left, should the project go on:

1. Theorems that name what the other known counterexamples lack: `LinesAreWhole` of
   a connection with one thread, `RulesAreNotIgnored` of profiles nobody edits.
2. `ParallelDiff`: a differ used by several callers with different numbers of
   workers, which replaces the executor under one of them.
3. `Playground`: the semaphore and its timeouts.
4. An abstract call that ends exactly once, for `LspClient` to implement and
   `LspIndexer` to use.
