----------------------- MODULE ClientLifecycleProofs -----------------------
(***************************************************************************)
(* Proofs about ClientLifecycle, for any number of clients and processes:  *)
(* it is a StateFile whose clients also run, a service has at most one     *)
(* task and only where everyone allows it, and a shutdown that comes to    *)
(* its end leaves nothing behind.                                          *)
(***************************************************************************)
EXTENDS ClientLifecycle, StateFileProofs

LEMMA ClientInductiveInit == ClientInit => ClientInductive
<1> SUFFICES ASSUME ClientInit PROVE ClientInductive
  OBVIOUS
<1>1. Inductive
  BY InductiveInit DEF ClientInit
<1>2. Off \in Runs
  BY DEF Off, Runs
<1>3. services \in [Clients -> SUBSET Services]
  BY ClientLifecycleAssumption DEF ClientInit
<1>4. ClientTypeOK
  BY <1>2, <1>3 DEF ClientInit, ClientTypeOK
<1>5. \A c \in Clients : run[c] = Off
  BY DEF ClientInit
<1>6. Off.stage = "none" /\ ~Off.hook /\ ~Off.owned /\ ~Off.listening /\ Off.handles = {}
      /\ \A s \in Services : Off.tasks[s] = 0
  BY DEF Off
<1>7. Quiet /\ TasksAreDue /\ OneTaskPerService /\ NothingLeftAfterShutdown
  BY <1>5, <1>6 DEF Quiet, TasksAreDue, OneTaskPerService, NothingLeftAfterShutdown
<1>8. QED
  BY <1>1, <1>4, <1>7 DEF ClientInductive

\* A step of start, shutdown, the tasks or the listeners of one client.
ClientStep(c) ==
  \/ StartFirstBoot(c) \/ StartPanics(c) \/ \E own \in BOOLEAN : Start(c, own)
  \/ (\E s \in Services : TaskEnds(c, s)) \/ ListenerEnds(c)
  \/ Shutdown(c) \/ PostMetrics(c) \/ Detach(c) \/ DropShutdown(c) \/ UnwindShutdown(c)

\* Whatever changes the file, or who uses it, is a step of StateFile.
LEMMA ClientStepIsFileStep == [ClientNext]_clientVars => [Next]_stateVars
<1> SUFFICES ASSUME [ClientNext]_clientVars PROVE [Next]_stateVars
  OBVIOUS
<1>1. CASE Prepare
  BY <1>1 DEF Prepare, Next
<1>2. ASSUME NEW p \in Procs, Die(p) PROVE Next
  BY <1>2 DEF Die, Next
<1>3. ASSUME NEW c \in Clients, ClientStep(c)
      PROVE  UNCHANGED stateVars
  BY <1>3 DEF ClientStep, StartFirstBoot, StartPanics, Start, SetUp, TaskEnds, ListenerEnds,
    Shutdown, PostMetrics, Detach, DropShutdown, UnwindShutdown, Cut
<1>4. QED
  BY <1>1, <1>2, <1>3 DEF ClientNext, ClientStep, clientVars

\* Building others, or editing the file, does not touch a client that is built.
LEMMA BuiltStays ==
  ASSUME Inductive, Prepare, NEW c \in Clients
  PROVE  /\ run' = run
         /\ place[c] = "built" =>
              /\ place'[c] = "built" /\ conf'[c] = conf[c] /\ stored'[c] = stored[c]
              /\ firstBoot'[c] = firstBoot[c]
<1> USE DEF Inductive, TypeOK
<1>1. run' = run
  BY DEF Prepare
<1>2. ASSUME NEW d \in Clients, Build(d), place[c] = "built"
      PROVE  /\ place'[c] = "built" /\ conf'[c] = conf[c] /\ stored'[c] = stored[c]
             /\ firstBoot'[c] = firstBoot[c]
  BY <1>2 DEF Build, Read, ReadFails, Load, Truncate, Write, WriteFails, Resolve, Busy
<1>3. ASSUME NEW on \in SUBSET Toggles, Edit(on), place[c] = "built"
      PROVE  /\ place'[c] = "built" /\ conf'[c] = conf[c] /\ stored'[c] = stored[c]
             /\ firstBoot'[c] = firstBoot[c]
  BY <1>3 DEF Edit
<1>4. QED
  BY <1>1, <1>2, <1>3 DEF Prepare

\* What the invariant says of one client, whose run is r.
Fits(c, r) ==
  /\ r \in Runs
  /\ r.stage # "none" => ~r.ready
  /\ \A s \in Services :
       /\ r.tasks[s] > 0 => r.ready /\ ~firstBoot[c] /\ s \in Due(c)
       /\ r.tasks[s] <= IF s \in r.handles THEN 1 ELSE 0
       /\ ~r.ready => r.tasks[s] = 0
  /\ ~r.ready /\ r.stage = "none" /\ ~r.cut => ~r.hook /\ ~r.owned /\ ~r.listening

RunInvariant == ClientTypeOK /\ Quiet /\ TasksAreDue /\ OneTaskPerService /\ NothingLeftAfterShutdown

LEMMA EveryClientFits ==
  ASSUME ClientInductive, NEW c \in Clients PROVE Fits(c, run[c])
BY DEF Fits, ClientInductive, ClientTypeOK, Quiet, TasksAreDue, OneTaskPerService,
  NothingLeftAfterShutdown

\* A step that changes the run of one client keeps the invariant if that fits.
LEMMA OneRunChanges ==
  ASSUME ClientInductive, NEW c \in Clients, place[c] = "built", NEW r, Fits(c, r),
         run' = [run EXCEPT ![c] = r], UNCHANGED <<stateVars, services>>
  PROVE  RunInvariant'
<1> USE DEF ClientInductive, ClientTypeOK
<1>1. ClientTypeOK'
  BY DEF Fits
<1>2. Quiet'
  BY DEF Quiet, Fits, stateVars
<1>3. TasksAreDue' /\ OneTaskPerService' /\ NothingLeftAfterShutdown'
  BY DEF TasksAreDue, OneTaskPerService, NothingLeftAfterShutdown, Fits, stateVars, Due, ConfigOn
<1>4. QED
  BY <1>1, <1>2, <1>3 DEF RunInvariant

LEMMA PrepareStep == ClientInductive /\ Prepare => RunInvariant'
<1> SUFFICES ASSUME ClientInductive, Prepare PROVE RunInvariant'
  OBVIOUS
<1>1. services' = services /\ run' = run
  BY DEF Prepare
<1>2. \A c \in Clients :
        place[c] = "built" =>
          /\ place'[c] = "built" /\ conf'[c] = conf[c] /\ stored'[c] = stored[c]
          /\ firstBoot'[c] = firstBoot[c]
  BY BuiltStays DEF ClientInductive
<1>3. QED
  BY <1>1, <1>2 DEF RunInvariant, ClientInductive, ClientTypeOK, Quiet, TasksAreDue,
    OneTaskPerService, NothingLeftAfterShutdown, Due, ConfigOn, Off

LEMMA DieStep ==
  ASSUME ClientInductive, NEW p \in Procs, Die(p) PROVE RunInvariant'
<1>1. /\ services' = services
      /\ run' = [c \in Clients |-> IF host[c] = p THEN Off ELSE run[c]]
      /\ conf' = conf /\ stored' = stored /\ firstBoot' = firstBoot
      /\ \A c \in Clients : host[c] # p => place'[c] = place[c]
  BY DEF Die, Crash
<1>2. Off \in Runs
  BY DEF Off, Runs
<1>3. ClientTypeOK'
  BY <1>1, <1>2 DEF ClientInductive, ClientTypeOK
<1>4. \A c \in Clients : run'[c] = Off \/ (host[c] # p /\ run'[c] = run[c])
  BY <1>1
<1>5. Off.stage = "none" /\ ~Off.hook /\ ~Off.owned /\ ~Off.listening /\ Off.handles = {}
      /\ \A s \in Services : Off.tasks[s] = 0
  BY DEF Off
<1>6. Quiet'
  BY <1>1, <1>4, <1>5 DEF ClientInductive, Quiet
<1>7. TasksAreDue' /\ OneTaskPerService'
  BY <1>1, <1>4, <1>5 DEF ClientInductive, TasksAreDue, OneTaskPerService, Due, ConfigOn
<1>8. NothingLeftAfterShutdown'
  BY <1>4, <1>5 DEF ClientInductive, NothingLeftAfterShutdown
<1>9. QED
  BY <1>3, <1>6, <1>7, <1>8 DEF RunInvariant

\* One step per action of start, the tasks, the listeners and shutdown.
LEMMA RunStep ==
  ASSUME ClientInductive, NEW c \in Clients, ClientStep(c)
  PROVE  RunInvariant'
<1> DEFINE r == run[c]
<1>0. /\ Fits(c, r) /\ r \in Runs
      /\ run \in [Clients -> Runs] /\ services \in [Clients -> SUBSET Services]
      /\ place[c] # "built" => r = Off
  BY EveryClientFits DEF Fits, ClientInductive, ClientTypeOK, Quiet
<1>1. CASE StartFirstBoot(c)
  <2> DEFINE n == [r EXCEPT !.ready = TRUE]
  <2>1. run' = [run EXCEPT ![c] = n] /\ Usable(c) /\ UNCHANGED <<stateVars, services>>
    BY <1>1 DEF StartFirstBoot
  <2>2. Fits(c, n)
    BY <1>0, <1>1 DEF Fits, Runs, StartFirstBoot, Usable
  <2>3. QED
    BY <2>1, <2>2, <1>0, OneRunChanges DEF Usable
<1>2. CASE StartPanics(c)
  <2> DEFINE n == [r EXCEPT !.ready = TRUE, !.owned = FALSE, !.listening = FALSE]
  <2>1. run' = [run EXCEPT ![c] = n] /\ Usable(c) /\ UNCHANGED <<stateVars, services>>
    BY <1>0, <1>2 DEF StartPanics
  <2>2. Fits(c, n)
    BY <1>0, <1>2 DEF Fits, Runs, StartPanics, Usable
  <2>3. QED
    BY <2>1, <2>2, <1>0, OneRunChanges DEF Usable
<1>3. ASSUME NEW own \in BOOLEAN, Start(c, own) PROVE RunInvariant'
  <2> DEFINE started == [s \in Services |-> r.tasks[s] + (IF s \in Due(c) THEN 1 ELSE 0)]
             heard == "errors" \in Due(c) /\ "metrics" \in services[c]
             more == IF heard /\ ~own THEN 1 ELSE 0
             n == [r EXCEPT !.ready = TRUE, !.tasks = started, !.handles = Due(c),
                            !.hook = r.hook \/ "errors" \in Due(c), !.owned = own,
                            !.listening = own /\ heard, !.listeners = r.listeners + more]
  <2>1. run' = [run EXCEPT ![c] = n] /\ Usable(c) /\ UNCHANGED <<stateVars, services>>
    BY <1>0, <1>3 DEF Start, SetUp
  <2>2. ~r.ready /\ ~firstBoot[c] /\ r.stage = "none"
    BY <1>3 DEF Start, Usable
  <2>3. \A s \in Services : r.tasks[s] = 0
    BY <1>0, <2>2 DEF Fits
  <2>4. Due(c) \in SUBSET Services
    BY <1>0 DEF Due
  <2>5. started \in [Services -> Nat] /\ \A s \in Services : started[s] = IF s \in Due(c) THEN 1 ELSE 0
    BY <2>3
  <2>6. r.listeners + more \in Nat
    BY <1>0 DEF Runs
  <2>7. n \in Runs
    BY <1>0, <2>4, <2>5, <2>6 DEF Runs
  <2>8. n.ready /\ n.tasks = started /\ n.handles = Due(c) /\ n.stage = "none"
    BY <1>0, <2>2 DEF Runs
  <2>9. Fits(c, n)
    BY <2>2, <2>5, <2>7, <2>8 DEF Fits
  <2>10. QED
    BY <2>1, <2>9, <1>0, OneRunChanges DEF Usable
<1>4. ASSUME NEW s \in Services, TaskEnds(c, s) PROVE RunInvariant'
  <2> DEFINE left == [r.tasks EXCEPT ![s] = @ - 1]
             n == [r EXCEPT !.tasks = left]
  <2>1. run' = [run EXCEPT ![c] = n] /\ UNCHANGED <<stateVars, services>> /\ r # Off
    BY <1>0, <1>4 DEF TaskEnds, Off
  <2>2. r.tasks \in [Services -> Nat] /\ r.tasks[s] > 0
    BY <1>0, <1>4 DEF TaskEnds, Runs
  <2>3. left \in [Services -> Nat] /\ \A t \in Services : left[t] <= r.tasks[t]
    BY <2>2
  <2>4. n \in Runs /\ n.tasks = left /\ n.ready = r.ready /\ n.handles = r.handles
        /\ n.stage = r.stage /\ n.cut = r.cut /\ n.hook = r.hook /\ n.owned = r.owned
        /\ n.listening = r.listening
    BY <1>0, <2>3 DEF Runs
  <2>5. Fits(c, n)
    <3>1. \A t \in Services : r.tasks[t] \in Nat /\ left[t] \in Nat
      BY <2>2, <2>3
    <3> HIDE DEF left, n
    <3> QED
      BY <1>0, <2>3, <2>4, <3>1 DEF Fits
  <2>6. QED
    BY <2>1, <2>5, <1>0, OneRunChanges
<1>5. CASE ListenerEnds(c)
  <2> DEFINE n == [r EXCEPT !.listeners = @ - 1]
  <2>1. run' = [run EXCEPT ![c] = n] /\ UNCHANGED <<stateVars, services>> /\ r # Off
    BY <1>0, <1>5 DEF ListenerEnds, Off
  <2>2. r.listeners - 1 \in Nat
    BY <1>0, <1>5 DEF ListenerEnds, Runs
  <2>3. n \in Runs /\ n.tasks = r.tasks /\ n.ready = r.ready /\ n.handles = r.handles
        /\ n.stage = r.stage /\ n.cut = r.cut /\ n.hook = r.hook /\ n.owned = r.owned
        /\ n.listening = r.listening
    BY <1>0, <2>2 DEF Runs
  <2>4. Fits(c, n)
    BY <1>0, <2>3 DEF Fits
  <2>5. QED
    BY <2>1, <2>4, <1>0, OneRunChanges
<1>6. CASE Shutdown(c)
  <2> DEFINE stopped == [s \in Services |->
                           IF s \in r.handles /\ r.tasks[s] > 0 THEN r.tasks[s] - 1 ELSE r.tasks[s]]
             n == [r EXCEPT !.ready = FALSE, !.tasks = stopped, !.handles = {},
                            !.stage = "metrics", !.cut = FALSE]
  <2>1. run' = [run EXCEPT ![c] = n] /\ Usable(c) /\ UNCHANGED <<stateVars, services>>
    BY <1>0, <1>6 DEF Shutdown
  <2>2. \A s \in Services : r.tasks[s] \in Nat /\ r.tasks[s] <= IF s \in r.handles THEN 1 ELSE 0
    BY <1>0 DEF Fits, Runs
  <2>3. stopped \in [Services -> Nat] /\ \A s \in Services : stopped[s] = 0
    BY <2>2
  <2>4. n \in Runs /\ ~n.ready /\ n.tasks = stopped /\ n.stage = "metrics"
    BY <1>0, <2>3 DEF Runs, Services
  <2>5. Fits(c, n)
    BY <2>3, <2>4 DEF Fits
  <2>6. QED
    BY <2>1, <2>5, <1>0, OneRunChanges DEF Usable
<1>7. CASE PostMetrics(c)
  <2> DEFINE n == [r EXCEPT !.stage = "errors"]
  <2>1. run' = [run EXCEPT ![c] = n] /\ UNCHANGED <<stateVars, services>> /\ r # Off
    BY <1>0, <1>7 DEF PostMetrics, Off
  <2>2. Fits(c, n)
    BY <1>0, <1>7 DEF Fits, Runs, PostMetrics, Services
  <2>3. QED
    BY <2>1, <2>2, <1>0, OneRunChanges
<1>8. CASE Detach(c)
  <2> DEFINE n == [r EXCEPT !.hook = FALSE, !.owned = FALSE, !.listening = FALSE,
                            !.stage = "none"]
  <2>1. run' = [run EXCEPT ![c] = n] /\ UNCHANGED <<stateVars, services>> /\ r # Off
    BY <1>0, <1>8 DEF Detach, Off
  <2>2. ~r.ready
    BY <1>0, <1>8 DEF Fits, Detach
  <2>3. Fits(c, n)
    BY <1>0, <2>2 DEF Fits, Runs
  <2>4. QED
    BY <2>1, <2>3, <1>0, OneRunChanges
<1>9. CASE DropShutdown(c) \/ UnwindShutdown(c)
  <2> DEFINE n == [r EXCEPT !.stage = "none", !.cut = TRUE]
  <2>1. r.stage \in services[c] /\ Cut(c)
    BY <1>9 DEF DropShutdown, UnwindShutdown
  <2>2. r.stage # "none"
    <3>1. r.stage \in Services
      BY <1>0, <2>1
    <3> QED
      BY <3>1 DEF Services
  <2>3. r # Off /\ ~r.ready
    BY <1>0, <2>2 DEF Off, Fits
  <2>4. run' = [run EXCEPT ![c] = n] /\ UNCHANGED <<stateVars, services>>
    BY <1>0, <2>1 DEF Cut, Runs
  <2>5. Fits(c, n)
    BY <1>0, <2>3 DEF Fits, Runs
  <2>6. QED
    BY <2>3, <2>4, <2>5, <1>0, OneRunChanges
<1>10. QED
  BY <1>1, <1>2, <1>3, <1>4, <1>5, <1>6, <1>7, <1>8, <1>9 DEF ClientStep

-----------------------------------------------------------------------------
(* The theorems *)

\* Every behaviour of clients that run is one of StateFile: start, shutdown and
\* the tasks leave the file and the first-boot gate alone.
THEOREM ClientImplementsStateFile == ClientSpec => Spec
<1>1. ClientInit => Init
  BY DEF ClientInit
<1>2. QED
  BY <1>1, ClientStepIsFileStep, PTL DEF ClientSpec, Spec

\* The invariant holds in every reachable state.
THEOREM ClientInductiveHolds == ClientSpec => []ClientInductive
<1>1. ASSUME ClientInductive, Inductive', [ClientNext]_clientVars PROVE ClientInductive'
  <2>1. CASE Prepare
    BY <1>1, <2>1, PrepareStep DEF RunInvariant, ClientInductive
  <2>2. CASE \E p \in Procs : Die(p)
    BY <1>1, <2>2, DieStep DEF RunInvariant, ClientInductive
  <2>3. ASSUME NEW c \in Clients, ClientStep(c) PROVE ClientInductive'
    BY <1>1, <2>3, RunStep DEF RunInvariant, ClientInductive
  <2>4. CASE UNCHANGED clientVars
    BY <1>1, <2>4 DEF clientVars, stateVars, ClientInductive, ClientTypeOK, Quiet,
      TasksAreDue, OneTaskPerService, NothingLeftAfterShutdown, Due, ConfigOn
  <2>5. QED
    BY <1>1, <2>1, <2>2, <2>3, <2>4 DEF ClientNext, ClientStep
<1>2. QED
  BY ClientInductiveInit, ClientImplementsStateFile, InductiveHolds, <1>1, PTL DEF ClientSpec

\* Every variable keeps its type.
THEOREM ClientTypeCorrect == ClientSpec => []ClientTypeOK
<1>1. ClientInductive => ClientTypeOK
  BY DEF ClientInductive
<1>2. QED
  BY <1>1, ClientInductiveHolds, PTL

\* A task runs only where developer, builder config and state file allow it, and
\* never for the first boot.
THEOREM TasksAreAllowed == ClientSpec => []TasksAreDue
<1>1. ClientInductive => TasksAreDue
  BY DEF ClientInductive
<1>2. QED
  BY <1>1, ClientInductiveHolds, PTL

\* A service never has two tasks, nor one that a shutdown could not abort.
THEOREM TaskIsSingle == ClientSpec => []OneTaskPerService
<1>1. ClientInductive => OneTaskPerService
  BY DEF ClientInductive
<1>2. QED
  BY <1>1, ClientInductiveHolds, PTL

\* A client that is not ready has no task; and a shutdown that comes to its end leaves
\* no hook, no runtime and no listener on it, whatever those before it had left.
THEOREM ShutdownIsComplete == ClientSpec => []NothingLeftAfterShutdown
<1>1. ClientInductive => NothingLeftAfterShutdown
  BY DEF ClientInductive
<1>2. QED
  BY <1>1, ClientInductiveHolds, PTL
=============================================================================
