# faststats-rs: TLA+ specifications

TLA+ models of the faststats-rs SDK, TLC configurations that check them on
small instances, and TLAPS proofs of their most important properties for
instances of any size. `PROJECT.json` lists the components, the runs, what each
definition stands for in the source, and the hazards the properties are for.
Source paths are relative to the repository root, which is `src/` here, so the
crate's own root is `src/src/`.

    tlc -workers 2 -config FlagFetchSafe.cfg MCFlagFetch.tla     # a run
    tlapm FlagFetchProofs.tla                                    # the proofs

## The system

faststats-rs is a client library. An application builds a `Client`, starts it,
and shuts it down; in between the library submits metrics and error reports
every 30 minutes and answers questions about feature flags.

| Component | State it keeps | Operations |
|---|---|---|
| Feature flags (`feature_flags/`) | per flag a cached value with its instant; the map `fetches_in_progress` of watch channels | `cached`, `when_ready`, `fetch`, `opt_in`, `opt_out` |
| Client (`client.rs`) | state file on disk, process-wide first-boot gate, config, `ready`, task handles, runtime | `build`, `start`, `shutdown`, `feature_flags_active` |
| Config (`domain/config.rs`) | server id and five toggles | environment overrides, `and`, parse and print |
| Error tracking (`error_tracking/`) | dedup table with counts and order; panic-hook flag; global slot for the previous hook | `track_error`, `submit`, hook install and detach, listener for metric failures |
| Metrics (`metrics/`) | registered metrics, flush callbacks, a broadcast channel of failures | `snapshot`, `submit`, `subscribe` |
| Transport (`transport/mod.rs`) | an HTTP client with a 3 s timeout | `submit`, `submit_json` |
| Values and helpers (`domain/attributes.rs`, `feature_flags/value.rs`, `error_tracking/helper.rs`, `validated/`) | none | validation, conversion, anonymizing, collapsing of stacks |

How they interact. `ClientBuilder::build` resolves the configuration from the
state file and the builder's config, and gives each service the shared
`Transport` and the server id. Error tracking holds a closure that takes a
snapshot of the metrics whenever it builds a report; metrics broadcast failures
of custom metrics, and a listener task of error tracking records them as
errors. `Client::start` spawns one task per service and installs the panic
hook; `Client::shutdown` aborts the tasks, submits once more and takes the hook
out. Feature flags share nothing with the others but the transport.

What is hard in this code:

- *Interleaving.* Many futures call the flag service at once and share
  requests; clients of several threads and processes share one state file;
  errors are tracked by any thread while a report is built and sent.
- *Failure in the middle.* Any `async fn` may be dropped at an await (a
  `select!`, a timeout, an aborted task); a process may die between truncating
  and writing the file; a request may fail after the server acted on it.
- *Staleness.* A cached flag, a fetch joined late, a configuration read before
  the user edited it.
- *Sequences of calls.* start, shutdown, a shutdown cut short, start again;
  first boot and later runs; two trackers installing and removing panic hooks.

What makes each component correct:

- Feature flags: reads of a flag never go back in time; concurrent fetches
  share one request and one outcome; `fetch` never answers from the cache; a
  cached value dies with its TTL; every call returns.
- Client: one identity for a state directory, one first boot; no task runs for
  what the user or the developer switched off, nor on the first run; one task
  per service; a shutdown that comes to its end leaves nothing of the client's.
- Error tracking and metrics: an occurrence is reported in one window, counted
  once; failures of metrics become errors once; hooks nest and un-nest.
- Data: what a user wrote in the file survives every build; nothing of a secret
  is left in the messages of an error that is sent; a NaN never becomes a null
  unnoticed; a flag keeps its kind whatever the server answers.

## Modules

| Module | Models | Proofs |
|---|---|---|
| `FlagService` | what the flag service promises: monotonic reads of versions the server has had | |
| `FlagFetch` | `feature_flags/service.rs` and `cache.rs`, the requests of `transport/mod.rs`, and the server | `FlagFetchProofs` |
| `StateFile` | `ClientBuilder::build` with module `state` of `client.rs`, and `Config` | `StateFileProofs` |
| `ClientLifecycle` | `Client::start` and `shutdown`; extends and composes `StateFile` | `ClientLifecycleProofs` |
| `ConfigFile` | the text of the state file: `Config::from_persisted_str`, `to_persisted_string`, `with_env_overrides` of `domain/config.rs`, as `load_or_init` runs them | `ConfigFileProofs` |
| `ErrorReports` | what error tracking promises: every occurrence is delivered at most once | |
| `Metrics` | `metrics/service.rs`, and `submit` of `transport/mod.rs` | |
| `ErrorTracking` | `error_tracking/service.rs` and `tracker.rs`; extends and composes `Metrics` | `ErrorTrackingProofs` |
| `PanicHook` | `install_panic_hook`, `detach` and the hook of `error_tracking/service.rs`, and the locks of `std::panic` | `PanicHookProofs` |
| `StackCollapse` | `collapse_stack` of `error_tracking/helper.rs` | `ErrorRecordProofs` |
| `ErrorRecord` | `record`, `collect_causes`, the ignore rules and `to_json` of `error_tracking/`, `anonymize` and `truncate_message` of `helper.rs`; extends and composes `StackCollapse` | `ErrorRecordProofs` |
| `FlagValues` | `feature_flags/value.rs` and what `fetch_uncached` makes of an answer | |
| `Payloads` | `domain/attributes.rs`, `append_data` of `metrics/service.rs`, `metrics/metric.rs`, which platform metrics there are; uses `FlagValues` | `PayloadsProofs` |

The `MC...` modules add symmetry sets and small input sets for TLC. The operators
that a comment calls *a faulty variant* are no part of the specifications: each
changes one action the way a plausible bug would, to test that the properties
can tell.

### FlagFetch

A *call* is one Rust future. `pc[c]` is the await it is parked at, and a step is
what the code runs from one await to the next; every guard of the async mutexes
is taken and released within one such stretch, so a critical section is a step:

| `pc` | The await, in `feature_flags/service.rs` |
|---|---|
| `lookup` | `cache.lock().await` of `when_ready` |
| `register` | `fetches_in_progress.lock().await` at the head of `fetch` |
| `request`, `reply` | the POST to `/v1/check`, before and after the server read the value |
| `store` | `cache.lock().await` of the leader |
| `unregister` | `fetches_in_progress.lock().await` before the entry is removed |
| `send` | no await: the entry is out, the outcome not yet sent |
| `wait` | `receiver.changed().await` of a follower |
| `optRequest`, `optReply` | the POST of `opt_in`/`opt_out` |

`cache`, `inProgress` are the fields `caches` and `fetches_in_progress`;
`inProgress[f]` names the call whose sender the map holds, so `leader[c]` says
which watch channel a follower holds. A flag's value is its *version* on the
server: what the properties tell apart is older and newer, not the JSON. All
ways in which a request gives no usable value (error, timeout, status, body,
type) are one action, because they are one `Err` to every caller. `since`,
`seen` and `floor` are history variables.

### StateFile

A client is a `ClientBuilder`, built once, in one of several processes that
share a state directory. `place[c]` follows `load_or_init`: the file has been
read (`open`), truncated (`write`), written (`resolve`), and the first-boot gate
consulted (`built`, or `failed` when a service cannot be built). The file is
`Absent`, `Empty` (truncated, or left so by a process that died) or a
configuration: an id and the set of toggles that are on, so that `Config::and`
is intersection. A fresh UUID is the client that drew it. `mishap` records that
something came between a client and the file: another client or the user while
it had it in hand, an I/O error, or a death before the write.

### ClientLifecycle

`run[c]` is what `start` and `shutdown` leave: `ready`, live tasks per service, the
handles the client holds, the panic hook (`hook`), a runtime of its own (`owned`)
with the listener of metric failures on it (`listening`), and the listeners left on
runtimes of others (`listeners`), which only those end (`ListenerEnds`). `stage` is
the submission that `shutdown` is at. Either may be its last step, and the shutdown
is then `cut`: its future is dropped at the await (`DropShutdown`), or a metric, which
both submissions compute, or a flush callback panics and unwinds it
(`UnwindShutdown`); `ready` is then cleared and the tasks aborted, the hook and the
runtime stay. `start` on the caller's runtime drops a runtime that such a shutdown has
left, which panics in an async context (`StartPanics`). `TaskEnds` is a submission that
unwinds its task, or the end of the caller's runtime. Building, the file and the gate
are the actions of `StateFile`; `Die` is a process's death with everything in it.

### ConfigFile

`StateFile` takes the file to hold a configuration; here it is text, and one build
follows the other. A step is one line of `contents.lines()`. A line is told by its
key and how its value is spelled: `Other` is any line without `=` or with another
key, `BadIdLine` a `server_id` that is no UUID. `config` is the local variable of
`from_persisted_str`, `at` the lines it has seen. A build always writes the file
back (`Write`), or fails to and goes on (`WriteFails`). Between builds the user
leaves any text at all (`Edit`).

### Metrics and ErrorTracking

A *task* is a future that runs a `submit()`: the scheduler that `start_submitting`
spawns, or any other caller. `phase[t]` is where it is: collecting metrics one by
one (`at[t]`; each gives a value, fails or panics, at the will of the developer's
closure), unwinding from a panic, with its request under way, or answered by the
server and not yet told. A panic ends a scheduler; an abort or a dropped future
takes effect at an await. `events` are the failures broadcast so far.

An error report takes the same snapshot after it has drained the dedup table, so
`ErrorTracking` extends `Metrics` and conjoins to each of its steps what happens
to the table and the reports. An error stands for its identity; `order` and
`count` are the two fields of `Tracker`, a report is the counts it carries, and
`cursor[l]` is the receiver of a listener. `start` and `shutdown` are seen as far
as these services see them: `Start` subscribes a listener, and `Stop` ends it
only when it takes the runtime along. `history`, `fate` and `cause` record every
occurrence that was tracked, where it is now and the failure it is about;
`totals` is what the reports the server took add up to. The properties relate
the code's counts to these occurrences.

### PanicHook

`install_panic_hook` and `detach` are cut where they wait for a lock: `at[u]` is
what thread `u` comes to next, `take` (`take_hook`), `store` (the slot
`PREVIOUS_HOOK`), `set` (`set_hook`), and `restore`, `put` or `remove` of a
detach. `calls[u]` are the hooks that the panic of `u` has called, each from
within the one before. Who holds which lock follows from these: the mutex
`panic_hook_installed` of a tracker from the beginning of a call to its end, the
mutex of `PREVIOUS_HOOK` while a hook calls the previous one and while a detach
sets it (the guard lives as long as the body of the `if let`), and the lock of
`std::panic` around the process's hook: for reading as long as a hook runs, for
writing in `take_hook` and `set_hook`. `overlap` records that a tracker began to
install while another was installed or at it. What a hook records is in
`ErrorTracking`.

### StackCollapse

A step is an iteration of one of the two passes of `collapse_stack`: a run of one
frame becomes an entry (`TakeRun`), a cycle becomes itself and a marker
(`TakeCycle`), a frame is copied (`TakeFrame`). The loops that search for the
run and the cycle are stated by what they find (the longest run, and the shortest cycle
that comes twice, as often as it comes), not by their indices: an index that runs past
the end within a search is out of the model's sight. A frame is the sequence of its text and what was
appended to it, so that the second pass compares what the first has written, and
a program may have a frame that looks like a counted one. `meant` is a history variable:
the frames that the markers and counts written so far stand for.

### ErrorRecord

The way of one error into the table: the chain of `source()` is followed
(`CollectCause`), the message is anonymized and cut, the stack collapsed (the
actions of `StackCollapse`), and then each cause's text anonymized and cut; at last
the ignore rules are asked (`Track`). A text is a sequence of words: an IPv6
address, a secret that another pattern matches, a gap, or glue, which may be part of
an address. What is made of it is a sequence of characters, each of which knows its word
and which half of it it is; a mark that the program writes is of no word. Addresses and
secrets are two characters long, so that a cut can go through them, and a secret is
found where its two halves are next to each other. The scan for addresses reads word by
word (`read`), because a match consumes the gaps it is anchored with; the other patterns
match wherever they stand and are one step. The type of a cause (`causeTypes`) is the
beginning of its text as it is, neither anonymized nor cut further, as
`error_type_name` makes it; a word of it stands for what the prefix has of that word.
What is sent (`Sent`) has a line for each cause, its type and its message. Of message and stack one is trivial in a behaviour: neither is read
for the other.

### Payloads and FlagValues

`put` serializes a value twice, once for `NonFiniteFloatCheck` and once for
`serde_json`, and so does the collection of a metric's value. `pass` says which, and
a step is a leaf of the value, told by how the two serializers take it: plain, null,
a float that is not finite, an integer of 128 bits, a map key that is no string. A
value may be shared with another thread, which changes its floats between the two
(`Change`). `bags` are the three `Attributes` and the metrics' map, `next` is the loop of
`append_custom_data`, `without` records which metrics had nothing to give. `Join` is
`Attributes::join`, used by the merged payloads (`FlagAttributes`, `ErrorContext`).

`FlagValues` has the kinds of `FlagValue`, of a text whether it reads as a boolean, a
number or a NaN, and of an answer its status and whether a value is in it.

## Runs

| Run | Bounds | Result |
|---|---|---|
| `flags_safe` | 3 calls, 1 flag, 2 versions, TTL 1, latency 1, 1 tick, 1 dropped call | passes |
| `flags_live` | 2 calls, 2 flags, TTL 2, latency 1, 3 ticks, 1 dropped call, fair | passes |
| `flags_dropped_leader` | 2 calls, fair | violates `EveryCallReturns` |
| `state_file_race` | 2 clients, 1 process, no I/O errors | violates `OneIdentity` |
| `client_safe` | 2 clients, 2 processes, 3 toggles, 2 environments, 1 edit, I/O errors, 2 listeners left on other runtimes | passes |
| `errors_safe` | 3 tasks (2 schedulers, 1 caller), 4 errors, 1 metric, 2 failures, a channel of 1, 1 occurrence from outside, fair | passes |
| `errors_restart` | external runtime, 2 listeners | violates `FailureTrackedOnce` |
| `hooks_safe` | 3 threads, 2 trackers, fair | passes |
| `hooks_deadlock` | 2 threads, 1 tracker, fair | violates `EveryPanicEnds` |
| `config_file` | 2 toggles, files of 3 lines, 4 spellings, 1 edit, 3 builds | passes |
| `payloads` | 3 metrics, two with ids that are taken, 1 key, values of 2 leaves, 2 values | passes |
| `error_record` | messages of 6 words, cut to 5 characters; 3 causes, of which 2 are collected; stacks of up to 7 frames, 2 texts, counted look-alikes, a result of 3; types of causes of 2 words; 3 types, 2 ignore rules | passes |

Why the bounds are enough. Three calls are a leader, a follower and a call
before or after them, the smallest set in which a value can be handed out, go
stale in a request under way, and be observed by a third; flags do not interact
(two are used where fairness could hide that), and a second version is what
makes a value old. A clock as long as TTL plus latency shows both ends of a
validity period. Two clients, of one or two processes, race for the
file, or the second finds what the first left there, dying before or after the write. Restarts of a client are unbounded but
for the listeners it leaves on runtimes of others: one client at a time has up to two of
them, so that one that has left a listener is started on such a runtime again. For errors, two tasks that
drain the same table beside one that submits metrics are the least in which
reports overlap; a failure that comes twice, and an
error or a panic before, between or after, give counts above one and an order, before
and after a drain; a second failure overtakes a listener in a channel
of one; and an error the rules ignore leaves no trace. Two trackers fight for the one slot, and with three
threads one may install, one detach and one panic; calls and panics are without
bound. Seven frames hold a cycle
of three that comes twice, and one of two that comes three times, beside other
frames; a result of three is too short for most. Three lines are a line
that counts, one that undoes it and one that is of no use, in any order; three builds
are one that writes, one that reads that under another environment, and one that
reads what the second wrote. Two leaves are one that is checked while another has
changed. Six words of one or two characters hold two addresses, what anchors them,
and a cut at every place in a secret. No safety property rests on the bounds: all are
proved for all values of the constants.

### What the passing runs show

The type invariants and the inductive invariants (`Inductive`, `ClientInductive`,
`RecordInductive`) are proved rather than run: each is the first conjunct, or the first
theorem, of the proofs. So are five properties that were found true under the constants
of a run and then proved: `FollowersWaitForLeaders` and `DroppedLeaderIsFinal` (those of
`flags_safe`), `OnlyDetachDeadlocks` (`hooks_safe`), `OncePerListener`
(`errors_restart`) and `OneWay` (`errors_safe`).

*Flags.* `MonotonicReads`: a call never returns an older version than any
that had been returned when it began, however both came by theirs.
`SingleFlight`: one registered request per flag, from registration until the
entry is removed. `SharedOutcome`: followers return what their leader returned,
failure included. `FetchedAfterLeaderBegan`: `fetch` never answers from the
cache. `CacheNeverGoesBack`: neither a failed nor a slow fetch undoes a newer
value. `ImplementsFlagService`: all of it implements `FlagService`.
`BoundedStaleness`: a cached value that is handed out is less than TTL +
latency old. `OnlyDroppedLeadersHang`: a call returns unless it follows a leader
whose future was dropped.

*State file* (in `client_safe`). `OneFirstBootPerProcess` holds whatever happens to the
file. Without a mishap, `OneIdentityIfSerial`, and `UserChoiceKeptIfSerial` (no build
changes the toggles the file was created with or the user gave it); that the first
boot is then the client whose id all share is proved.

*Config file.* `LastLegibleLineCounts`: at every line, id and toggles are what the last
legible line for each says, whatever lines are missing, doubled, misspelled or out
of order. `WrittenFileIsKept`: what a build wrote parses to what it wrote, and no later
build changes it, whatever the environment then says.

*Client.* `TasksAreDue`: a task runs only for a started client past first boot,
and a service that developer, builder config and file allow.
`OneTaskPerService`: through restarts and shutdowns dropped or unwound midway, a
service has at most one task and the client the handle of every task it has.
`NothingLeftAfterShutdown`: a client that is not ready has no task, however its
shutdown ended; one that came to its end has left no hook, no runtime and no listener
on a runtime of the client's, whatever those before it had left. What `shutdown` itself
submits is not bounded by any of these (see the divergences below).

*Errors.* `TableIsWindow`: the counts of the table are the occurrences since the
last drain, and every pending identity is listed exactly once, so that a drain
forgets nothing. `FirstSeenOrder`: in the order they first occurred.
`ReportIsWhole`: a report counts exactly what was drained into it, whatever is
tracked, drained and failing around it. `TotalsAreOccurrences`: the server counts
no occurrence twice, though it may take a report whose answer is lost; an
occurrence is lost only together with its report. `ImplementsErrorReports`: all
of it implements `ErrorReports`. `MissedOnlyWhenBehind`: a listener misses a
failure only if a channel full of later ones overtook it. `FailureTrackedOnce`:
through any number of restarts on the client's own runtime, no failure is
tracked twice. `FlushedOnlyAccepted`: flush callbacks never run for a submission
the server did not accept. `TrackedIsTaken`: a tracked error goes into a report,
unless the error scheduler was aborted or ended by a panicking metric.
`FailureIsHeard`: a failure is heard or overwritten, unless its listener is gone.

*Panic hook.* With one tracker at a time, `HookInPlace`: the process's hook is the
tracker's while it is installed and the application's otherwise, whatever threads
install, detach and panic side by side; `PreviousIsCalled`: a tracker's hook never
returns without having called the application's, a panic between any two steps of
install and detach included. `OnlyDetachHangs`: a panic is done with, unless a
detach holds the mutex of the slot, or trackers overlapped.

*Stacks.* `StandsForFrames`: what a pass has written stands for exactly the frames it
has read; none is lost, invented or counted twice. `MoreIsPositive`: a pass never
writes more than it has read, so that the unsigned subtraction in `... (n more)`
does not underflow. That the second pass never takes a single frame for a cycle,
unless the program has frames that look like counted ones, is proved.

*Error records.* `NoSecretInMessages`: nothing of a secret, or of an address that stands
alone, is left in the message that is sent or in that of a cause, not even a piece that the
cutting left over. It says nothing of the type of a cause, which the code sends as it
is (see the divergences below). `SizeIsBounded`: however long texts, stack and chain are,
the message, the number of lines, and type and message of each cause's line are bounded.

*Payloads.* `NoSilentNull`: every null in a request was one in what the developer gave; a
float that is not finite is an error at any depth, unless another thread put it there
after the check. `FailingMetricCostsNoOther`: a metric that fails, gives nothing or
has an internal metric's id costs no other its place. `FlagKeepsKind`: whatever the
server answers, a flag's value has the kind of its default and is read back as itself,
but for a number that is not finite.

### What the violations show

1. **A dropped leader hangs its followers** (`EveryCallReturns`,
   `service.rs:259`). The comment promises that a follower falls back to a fresh
   fetch if the leader's sender is dropped. The sender lives in the map, and only
   the leader takes it out: a leader dropped at an await leaves it there, and
   every follower and every later fetch of the flag waits for ever. Both are proved:
   the fallback never runs (`FallbackNeverRuns`), and nothing that any call does frees
   the flag again (`DroppedLeaderBlocksForGood`).
2. **Two identities for one directory** (`OneIdentity`, `client.rs:543`): reading
   and writing the file is not atomic.
3. **A restart doubles the failures** (`FailureTrackedOnce`,
   `error_tracking/service.rs:175`): the listener has no handle, so on a runtime
   of the application it survives `shutdown`, and the next `start` adds another. It gets
   no worse than that: a failure is tracked once per listener that was there when it was
   sent (`FailuresTrackedOncePerListener`).
4. **A panic and a detach may wait for each other** (`EveryPanicEnds`,
   `error_tracking/service.rs:457`): `detach` calls `set_hook` with the mutex of the
   slot in hand, the panicking thread is in the hook and waits for that mutex, and
   `set_hook` waits for the hook to end. Taking the previous hook out in a statement
   of its own, before `set_hook`, would remove the cycle. While one tracker at a time is
   installed it is the only deadlock (`DeadlockNeedsDetach`).

Other divergences were met while modelling and have no run:

- An opt's follow-up fetch may join a fetch that the server answered before the
  opt (`feature_flags/service.rs:367`).
- `start` never asks the toggle `enabled` (`client.rs:364`), so that
  `FASTSTATS_ENABLED=false` still starts both tasks.
- The first-boot notice says that nothing is submitted on this run
  (`client.rs:463`), but `shutdown` submits metrics and errors whatever `start` did
  (`client.rs:440`).
- The causes of an error are documented to be "already anonymized ... the same way as the
  top-level error" (`error_tracking/tracker.rs:14-16`). Their messages are; but their type is
  the first 40 characters of the same text (`error_tracking/service.rs:298`, `497-505`), which
  `record` clones as it is (`255`) and `to_json` sends (`error_tracking/tracker.rs:84-87`). A
  name or an address at the beginning of a cause's text is thus sent beside its redacted
  copy; anonymizing the type as the message is would remove that.
- `cached` is documented to be `None` while a fetch runs (`feature_flags/service.rs:149-151`);
  its `try_lock` fails only for the instant of the write (`159`), so it gives the value from
  before the fetch, or after it.
- Frames beyond `MAX_STACK_SIZE` are documented to be dropped from the middle
  (`error_tracking/helper.rs:10`); the first ones are kept, and the number in
  `... (n more)` is of frames before the two passes (`error_tracking/helper.rs:191`).
- A second address with one character between it and the first is not redacted, nor is
  one followed by a colon (`error_tracking/helper.rs:38`): the pattern consumes what it
  anchors with.
- `collect_causes` is documented to stop at causes that are equal
  (`error_tracking/service.rs:275`); it stops at a text it has listed.
- A cause in the stack that is sent is neither counted in `MAX_STACK_SIZE` nor is its line
  with the header cut to `MAX_FRAME_SIZE`; and an ignore rule sees the message redacted
  and cut (`error_tracking/tracker.rs:161`).
- "A `server_id` is required" (`domain/config.rs:167`), but a file without one gets a fresh
  one. A value in the file is case-sensitive, in the environment it is not; and the
  environment of the run that creates the file is written into it for good.
- `put` takes "any" serializable value, but refuses 128-bit integers, for which JSON has
  room (`domain/attributes.rs:36`).
- A flag's value is documented to round-trip through `to_json`; a NaN becomes null, and the
  text "NaN" is taken for a number (`feature_flags/value.rs:36`).
- `add_metric` consumes the factory, so that a builder who goes on after its `Err` has
  lost every metric it had registered (`metrics/service.rs:68`).
- A server URL in the environment that does not parse is logged, and the public server is
  used (`transport/mod.rs:179`).
- The marker of a cycle does not say how long the cycle is, so different stacks may
  collapse to the same one (`error_tracking/helper.rs:238`).

### Fairness

`FlagFetch` assumes weak fairness of each call's own steps. Every lock is held
only between two awaits, so whoever waits for one gets it; the transport gives
each request 3 s (`TIMEOUT`, `transport/mod.rs:18`), so it ends one way or the
other; and the runtime polls a future that can go on. Nothing is assumed of the
callers, of time, of the flag server's data or of dropping.

`ErrorTracking` assumes it of a scheduler's ticks (`tokio::time::interval` never
ends), of the stretches of a submit (computing a metric, unwinding), of its end
(`TIMEOUT` again), and of a listener that has something to receive. Nothing is
assumed of callers of `submit`, of `start` and `shutdown`, of the server's
answers or of the metrics.

`PanicHook` assumes strong fairness of the steps that wait for a lock (`Proceed`,
`Chain`): no thread panics, installs or detaches without end, so whoever waits for
a mutex that others take and release gets it at last; and weak fairness of a hook
that has no lock to wait for. Nothing is assumed of who installs, detaches or
panics. `StateFile` and `ClientLifecycle` state safety only: their steps are
the calls of an application, which nothing obliges to come. So does `StackCollapse`,
whose every step reads on: a call returns because its lists are finite.

## Proofs

`FlagFetchProofs` proves every safety property of `FlagFetch`, and that it
implements `FlagService`, from `FlagFetchAssumption` (types of the constants).
The inductive invariant `Inductive` says why monotonic reads hold: `Roles` (only
a leader is at `request` to `send`, whoever waits has a leader), `Entries` (the
entries of the map are the leaders that are fetching or were dropped: with
single flight, nobody else can be about to store), `Versions` (what was handed
out is in the cache, and a reply under way is not older than the cache),
`Outcomes` (what a leader got is new enough for everyone who joined) and
`Stamps` (an answer reaches the cache within the latency). `Versions` is
inductive only because the cache is written *before* the entry is removed, the
order of `service.rs:241-251`; with the order swapped the run finds
`SingleFlight` violated. Two theorems are about what happens when a leader is dropped,
and rest on `Entries`: a call that waits follows one that is fetching, or that has sent, or
a dropped one whose sender is still in the map, so the branch for a closed channel
is dead code; and no action removes the entry of a dropped leader, since only the
call itself would.

`StateFileProofs` proves the five properties of `StateFile`. `Begun` and `Gates`
hold always and give the single first boot; without a mishap `Turns` (one client
at a time has the file in hand), `InHand` (it has what is in the file) and
`Agreed` (those who are done agree with the file, or with who is writing it)
give the rest.

`ClientLifecycleProofs` proves that a step of `ClientLifecycle` is one of
`StateFile` or leaves its variables alone, so the theorems of `StateFileProofs`
hold of running clients too, and then its own invariant: `Quiet` (a client that
is not built has no run, one in shutdown is not ready) with the three invariants
themselves. `OneTaskPerService` carries `NothingLeftAfterShutdown` through an abort: a
task without a handle could not be aborted, and `shutdown` has taken all handles by the
time it is cut. `TasksAreDue` carries `OneTaskPerService` through a start: a client that is
not ready has no task yet.

`ErrorTrackingProofs` proves every safety property of `ErrorTracking`, and that
it implements `ErrorReports`, from `ErrorTrackingAssumption` (types of the
constants; a task submits either metrics or errors). A step is one of five kinds
(lemma `StepKind`): it leaves the occurrences alone, tracks one, drains, drops a
report, or has the server take one; whatever concerns occurrences is proved once
per kind. The invariant adds to the properties: `EmptyHanded` (no occurrence is
in the hands of a task that is not in a submit, or whose report was taken; else
a drain would mix two reports), `FlushesOwed` (an accepted submission whose
answer is under way has a flush to its credit), `Subscribed` (nobody is past the
end of the events), and, when the runtime is the client's, `OneListener` (the
only listener is past every failure that was tracked), which is what an external
runtime breaks: `FailureTrackedOnce` is proved for `~External`, and
`errors_restart` shows why not otherwise. For `External`, `OncePerListener` is inductive by
itself: the occurrences of a failure are counted against the listeners that had
subscribed before it was sent and are past it. Hearing it adds one to each side, a lag or
a start only to the second, and a failure just sent has no occurrence yet (`Subscribed`).
`OneWay` follows from the five kinds: a report is never put back.

`PanicHookProofs` proves `HookInPlace` and `PreviousIsCalled` for any number of
threads and trackers, from `PanicHookAssumption` (the hooks are told apart).
`Roles` (one thread at work on a tracker) and `Called` (what a panic has called is
still in place, and one thread holds the slot's mutex) hold always; while trackers
have not overlapped, `Alone` says where the application's hook is at each step. The
second theorem needs that a hook which called only itself found the slot empty,
which a detach at `put` alone can bring about, and then the mutex is not free. The third,
`DeadlockNeedsDetach`, is about states in which all threads under way wait: whoever waits
for the lock of the process's hook waits for a panic, and a panic for the mutex, whose
holder is a detach at `put` or a panic in the hook it has called; by `Alone` the latter
is the application's and goes on.

`ErrorRecordProofs` proves the two properties of `StackCollapse` for stacks of every length
and frames of any texts, from `StackCollapseAssumption`. The invariant is `NeverLonger` with
`NoTwins`, which carries the first pass's result (no two entries in a row of the same
text) to `NoCycleOfOne` of the second. `StandsForFrames` needs that the n repetitions
of a cycle of l frames are the next n * l frames: the k-th of them is at k div l, k mod
l, which the lemmas `DivMod` and `FrameOfCycle` show step by step.

It then proves that a step of `ErrorRecord` is one of `StackCollapse` or leaves its variables
alone (`RecordCollapsesStack`), so that both properties hold of recorded errors too,
and its own three: `NoSecretInMessages`, `SizeIsBounded` and the types, for texts and chains of
causes of any length and any limits, from `ErrorRecordAssumption` (a text may have at least
the three dots, the type of a cause at least a word). The heart of `RecordInductive` is `ScanIsRight`: what the scan has
written is of the words it has read, no address that stands alone is among them, and
every half of a secret is next to its other half (`FromWords`); and the scan never stops
with the gap before such an address already read, since only a match reads a gap at
its end and the match of one address would make the next not stand alone. So when the other
patterns are applied every secret is whole and is replaced, the text is clean before it
is cut (`KeptIsClean`), and a cut of a clean text is clean. With the cut first the
halves part, which the mutant shows. `CausesHaveTypes` (each cause that is listed has a type
of bounded length) gives the rest of `SizeIsBounded`.

`ConfigFileProofs` proves its two properties for any list of toggles and files of any
length, from `ConfigFileAssumption` (the keys are told apart). `FileInv` carries the
meaning of the lines read so far (`MeaningSoFar`) from the parse to the write; the lemma
that a line changes the meaning of its own key only is the heart of it. For
`WrittenFileIsKept` a text that `Printed` gives has exactly one line for each key, all
legible, so the config read from it is the one that was printed.

`PayloadsProofs` proves its three properties, and the types, for any lists of metrics and keys and values
with any number of leaves, from `PayloadsAssumption`. `MetricsInv` adds to
`FailingMetricCostsNoOther` that a metric at work is not yet in the map, which is why a
refusal or a null cannot remove another's entry. `WalkInv` says that the second pass
of a value that is not shared sees what the check has seen, `StoredInv` that what is
stored, and so what `Join` gives, is faithful.

Only model-checked: liveness (`OnlyDroppedLeadersHang`, `TrackedIsTaken`,
`FailureIsHeard`, `OnlyDetachHangs`), which needs ENABLED and fairness, and of course the
violations. `FallbackNeverRuns` and `DeadlockNeedsDetach` prove the part of two of them that is
safety: what a call, or a thread, can be waiting for.

## Not modelled, and the plan

Left out on purpose: which characters an anonymizing pattern matches, the user's name in
paths, the characters of ids and tokens (`validated/`, checked once at construction),
user agents, gzip and HTTP headers, the resolution of the server's URL, logging, asking the operating system and the terminal
for their metrics, `SdkInfo` and `Error` (data), accessors and setters of builders, and
the repository's tests, which is more than a third of its lines.

In `Metrics` and `ErrorTracking`, further: the 32 bits of a count and the memory
of an unbounded table (the counts are numbers); the mutex that makes snapshots of
two error reports take turns (they may alternate here, which allows more); a
flush callback that panics (it would end the metrics scheduler as a metric does), and a
`shutdown` cut short, both of which `ClientLifecycle` has.
In `PanicHook`: an application that sets a hook of its own after the first tracker
has, and a hook that panics (the process aborts).

In `StackCollapse`: the 300 characters of a frame (some texts are too long, some with a
count appended).

Next:

1. A composition of `ClientLifecycle` with `ErrorTracking` and `PanicHook`, in which
   a shutdown cut short leaves the hook and the listener to the next `start`. Each has the
   other's part as a nondeterministic action today.
