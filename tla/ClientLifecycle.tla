-------------------------- MODULE ClientLifecycle --------------------------
(***************************************************************************)
(* Client::start and Client::shutdown of src/src/client.rs, composed with  *)
(* StateFile, which says what configuration a client gets and whether it   *)
(* is the first boot.  A client that has been built is started, submits in *)
(* its tasks, and is shut down, which submits once more; it may be started *)
(* again.  A shutdown is a future that awaits its two last submissions, so *)
(* its caller may drop it midway, and it runs the application's metrics,   *)
(* any of which may panic.                                                 *)
(*                                                                         *)
(* A client that is dropped without a shutdown is one that is never called *)
(* again: its tasks stay on an external runtime.  The third service, the   *)
(* feature flags, starts nothing and is in FlagFetch.                      *)
(***************************************************************************)
EXTENDS StateFile

CONSTANTS
  DevServices,  \* the sets of services a developer may switch on
  MaxListeners  \* bound: event listeners that one client at a time leaves on the
                \* runtimes of others

Services == {"metrics", "errors"}

ASSUME ClientLifecycleAssumption ==
  /\ Services \cup {"enabled"} \subseteq Toggles
  /\ DevServices \subseteq SUBSET Services
  /\ MaxListeners \in Nat

VARIABLES
  services,     \* services[c]: the services the developer switched on
  run           \* run[c]: what start() and shutdown() of c have left

clientVars == <<stateVars, services, run>>

\* tasks: live submission tasks per service; handles: the JoinHandles the client
\* holds; hook: the tracker's panic hook is installed; owned: the client owns its
\* runtime; listening: spawn_metrics_event_listener has a live task there;
\* listeners: its live tasks on other runtimes; stage: the last submission that
\* shutdown() is at; cut: the last shutdown() did not come to its end.
Runs == [ready : BOOLEAN, tasks : [Services -> Nat], handles : SUBSET Services,
         hook : BOOLEAN, owned : BOOLEAN, listening : BOOLEAN, listeners : Nat,
         stage : Services \cup {"none"}, cut : BOOLEAN]
Off == [ready |-> FALSE, tasks |-> [s \in Services |-> 0], handles |-> {},
        hook |-> FALSE, owned |-> FALSE, listening |-> FALSE, listeners |-> 0,
        stage |-> "none", cut |-> FALSE]

ClientInit ==
  /\ Init
  /\ services \in [Clients -> DevServices]
  /\ run = [c \in Clients |-> Off]

\* Config::and: a toggle is on if the builder and the file agree that it is.
ConfigOn(c) == conf[c] \cap stored[c].on

\* The services that start() starts: both the developer and the config say yes.
Due(c) == services[c] \cap ConfigOn(c)

\* start and shutdown take the client by &mut: neither while shutdown runs.
Usable(c) == place[c] = "built" /\ alive[host[c]] /\ run[c].stage = "none"

-----------------------------------------------------------------------------
(* start() *)

\* The first boot is told so and starts nothing.
StartFirstBoot(c) ==
  /\ Usable(c) /\ ~run[c].ready /\ firstBoot[c]
  /\ run' = [run EXCEPT ![c].ready = TRUE]
  /\ UNCHANGED <<stateVars, services>>

\* What start() sets up, on a new runtime of its own or the caller's.  A runtime
\* the client still owns, from a shutdown that was cut, is replaced and so dropped,
\* and its listener with it; those on other runtimes stay.
SetUp(c, own) ==
  LET r == run[c]
      heard == "errors" \in Due(c) /\ "metrics" \in services[c]
      more == IF heard /\ ~own THEN 1 ELSE 0
  IN
  /\ r.listeners + more <= MaxListeners
  /\ more = 1 => \A d \in Clients \ {c} : run[d].listeners = 0
  /\ run' = [run EXCEPT ![c] = [r EXCEPT
       !.ready = TRUE,
       !.tasks = [s \in Services |-> r.tasks[s] + (IF s \in Due(c) THEN 1 ELSE 0)],
       !.handles = Due(c),
       !.hook = r.hook \/ "errors" \in Due(c),
       !.owned = own, !.listening = own /\ heard,
       !.listeners = r.listeners + more]]
  /\ UNCHANGED <<stateVars, services>>

\* A faulty variant: the notice is logged, and start goes on.
StartDespiteNotice(c, own) == Usable(c) /\ ~run[c].ready /\ SetUp(c, own)

\* A faulty variant: a second start is not ignored.
StartAgain(c, own) == Usable(c) /\ ~firstBoot[c] /\ SetUp(c, own)

Start(c, own) == Usable(c) /\ ~run[c].ready /\ ~firstBoot[c] /\ SetUp(c, own)

\* In an async context the drop of that runtime panics, after ready was set and
\* before anything is started.
StartPanics(c) ==
  /\ Usable(c) /\ ~run[c].ready /\ ~firstBoot[c] /\ run[c].owned
  /\ run' = [run EXCEPT ![c].ready = TRUE, ![c].owned = FALSE, ![c].listening = FALSE]
  /\ UNCHANGED <<stateVars, services>>

-----------------------------------------------------------------------------
(* The tasks and listeners, and shutdown() *)

\* A submission that a metric or a callback unwinds ends its task, and so does the
\* end of the caller's runtime; the client keeps the handle.
TaskEnds(c, s) ==
  /\ run[c].tasks[s] > 0
  /\ run' = [run EXCEPT ![c].tasks[s] = @ - 1]
  /\ UNCHANGED <<stateVars, services>>

\* A listener ends with the runtime it was left on.
ListenerEnds(c) ==
  /\ run[c].listeners > 0
  /\ run' = [run EXCEPT ![c].listeners = @ - 1]
  /\ UNCHANGED <<stateVars, services>>

\* The tasks whose handles the client holds are aborted, if they have not ended.
Shutdown(c) ==
  /\ Usable(c) /\ run[c].ready
  /\ run' = [run EXCEPT ![c] = [run[c] EXCEPT
       !.ready = FALSE,
       !.tasks = [s \in Services |->
                    IF s \in run[c].handles /\ run[c].tasks[s] > 0
                    THEN run[c].tasks[s] - 1 ELSE run[c].tasks[s]],
       !.handles = {}, !.stage = "metrics", !.cut = FALSE]]
  /\ UNCHANGED <<stateVars, services>>

\* A faulty variant: a failing submission ends the shutdown.
PostMetricsOrStop(c) ==
  /\ run[c].stage = "metrics"
  /\ \E next \in {"none", "errors"} : run' = [run EXCEPT ![c].stage = next]
  /\ UNCHANGED <<stateVars, services>>

\* Metrics::shutdown is done: one last submission, if the service was built.
PostMetrics(c) ==
  /\ run[c].stage = "metrics"
  /\ run' = [run EXCEPT ![c].stage = "errors"]
  /\ UNCHANGED <<stateVars, services>>

\* ErrorTracker::shutdown has submitted what is pending, and takes the hook out;
\* then an own runtime is dropped, with its listener.
Detach(c) ==
  /\ run[c].stage = "errors"
  /\ run' = [run EXCEPT ![c] = [run[c] EXCEPT
       !.hook = FALSE, !.owned = FALSE, !.listening = FALSE, !.stage = "none"]]
  /\ UNCHANGED <<stateVars, services>>

\* Either submission may be the last thing that happens.
Cut(c) ==
  /\ run' = [run EXCEPT ![c].stage = "none", ![c].cut = TRUE]
  /\ UNCHANGED <<stateVars, services>>

\* The future of shutdown() is dropped while it awaits a submission.
DropShutdown(c) == run[c].stage \in services[c] /\ Cut(c)

\* A metric panics while a submission collects them (that of the errors takes a
\* snapshot of the metrics too), or a flush callback does after it.
UnwindShutdown(c) ==
  /\ run[c].stage \in services[c] /\ "metrics" \in services[c]
  /\ Cut(c)

-----------------------------------------------------------------------------
(* A process and all its clients end *)

Die(p) ==
  /\ Crash(p)
  /\ run' = [c \in Clients |-> IF host[c] = p THEN Off ELSE run[c]]
  /\ UNCHANGED services

\* Clients are built and the user edits the file as in StateFile.
Prepare ==
  /\ \/ \E c \in Clients : Build(c)
     \/ \E on \in SUBSET Toggles : Edit(on)
  /\ UNCHANGED <<services, run>>

ClientNext ==
  \/ Prepare
  \/ \E c \in Clients :
       \/ StartFirstBoot(c) \/ StartPanics(c) \/ \E own \in BOOLEAN : Start(c, own)
       \/ (\E s \in Services : TaskEnds(c, s)) \/ ListenerEnds(c)
       \/ Shutdown(c) \/ PostMetrics(c) \/ Detach(c) \/ DropShutdown(c) \/ UnwindShutdown(c)
  \/ \E p \in Procs : Die(p)

ClientSpec == ClientInit /\ [][ClientNext]_clientVars

-----------------------------------------------------------------------------
(* Properties *)

ClientTypeOK ==
  /\ services \in [Clients -> SUBSET Services]
  /\ run \in [Clients -> Runs]

\* A task runs only for a client that is started and not shut down, that is not
\* the first boot, and for a service that developer, builder config and state
\* file all allow.
TasksAreDue ==
  \A c \in Clients, s \in Services :
    run[c].tasks[s] > 0 => run[c].ready /\ ~firstBoot[c] /\ s \in Due(c)

\* However start, shutdown and shutdowns that are cut follow each other, a service
\* has at most one task, and the client holds the handle of every task it has.
OneTaskPerService ==
  \A c \in Clients, s \in Services :
    run[c].tasks[s] <= IF s \in run[c].handles THEN 1 ELSE 0

\* A client that is not ready has no task, be its shutdown under way, dropped or
\* unwound.  A shutdown that came to its end has left no hook and no runtime either,
\* whatever the shutdowns before it had left, and no listener but on a runtime that
\* is not the client's.
NothingLeftAfterShutdown ==
  \A c \in Clients :
    ~run[c].ready =>
      /\ \A s \in Services : run[c].tasks[s] = 0
      /\ run[c].stage = "none" /\ ~run[c].cut =>
           ~run[c].hook /\ ~run[c].owned /\ ~run[c].listening

\* The inductive invariant behind these properties: nothing is left of a client
\* that has not been built, and one that is being shut down is not ready.
Quiet ==
  \A c \in Clients :
    /\ place[c] # "built" => run[c] = Off
    /\ run[c].stage # "none" => ~run[c].ready

ClientInductive ==
  /\ Inductive
  /\ ClientTypeOK /\ Quiet /\ TasksAreDue /\ OneTaskPerService
  /\ NothingLeftAfterShutdown
============================================================================
