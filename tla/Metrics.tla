------------------------------ MODULE Metrics ------------------------------
(***************************************************************************)
(* src/src/metrics/service.rs with Transport::submit of transport/mod.rs:  *)
(* the tasks that run a `submit`, how they collect the metrics and what    *)
(* becomes of the request.  Error tracking takes the same snapshot and     *)
(* sends it the same way; ErrorTracking extends this module with it.       *)
(*                                                                         *)
(* A task is a future that runs submit(): a scheduler, spawned by `start`, *)
(* runs it at every tick; any other task stands for a caller of submit(),  *)
(* Client::shutdown among them.  What matters of a metric is whether its   *)
(* computation gives a value (or null), fails or panics.                   *)
(***************************************************************************)
EXTENDS Naturals, Sequences

CONSTANTS
  Tasks,          \* the futures that run a submit()
  Schedulers,     \* those that start_submitting spawns
  MetricTasks,    \* those that run Metrics::submit
  CustomMetrics,  \* the registered metrics, each the error its failure is
  MaxFailures,    \* bound: failures of custom metrics
  MaxAccepted     \* bound: metrics submissions the server accepts

VARIABLES
  phase,      \* phase[t]: where task t is in submit()
  at,         \* at[t]: the next metric append_custom_data computes
  events,     \* the MetricsEvents sent on the broadcast channel
  accepted,   \* history: metrics submissions the server has accepted
  flushed     \* runs of the on_flush callbacks

metricsVars == <<phase, at, events, accepted, flushed>>

Phases == {"off", "idle", "collect", "unwind", "request", "accepted",
           "refused"}

\* At an await, where a task can be aborted and a future dropped.
Parked(t) == phase[t] \in {"request", "accepted", "refused"}

\* A panic ends a spawned task; a caller of submit() may call it again.
Rest(t) == IF t \in Schedulers THEN "off" ELSE "idle"

MetricsInit ==
  /\ phase = [t \in Tasks |-> Rest(t)]
  /\ at = [t \in Tasks |-> 0]
  /\ events = <<>>
  /\ accepted = 0
  /\ flushed = 0

-----------------------------------------------------------------------------
(* append_data *)

\* After i metrics the next one, or, when there is none, the request.
Reach(t, i) ==
  /\ phase' = [phase EXCEPT ![t] = IF i < Len(CustomMetrics) THEN "collect" ELSE "request"]
  /\ at' = [at EXCEPT ![t] = IF i < Len(CustomMetrics) THEN i + 1 ELSE 0]

\* create_data begins to collect.
Collect(t) ==
  /\ phase[t] = "idle"
  /\ Reach(t, 0)
  /\ UNCHANGED <<events, accepted, flushed>>

\* A value is inserted; a null, or the id of an internal metric, is skipped.
ComputeValue(t) ==
  /\ phase[t] = "collect"
  /\ Reach(t, at[t])
  /\ UNCHANGED <<events, accepted, flushed>>

\* compute() gives an Err, which is broadcast.
ComputeFails(t) ==
  /\ phase[t] = "collect" /\ Len(events) < MaxFailures
  /\ events' = Append(events, CustomMetrics[at[t]])
  /\ Reach(t, at[t])
  /\ UNCHANGED <<accepted, flushed>>

\* The developer's closure panics.
ComputePanics(t) ==
  /\ phase[t] = "collect"
  /\ phase' = [phase EXCEPT ![t] = "unwind"]
  /\ UNCHANGED <<at, events, accepted, flushed>>

Unwind(t) ==
  /\ phase[t] = "unwind"
  /\ phase' = [phase EXCEPT ![t] = Rest(t)]
  /\ at' = [at EXCEPT ![t] = 0]
  /\ UNCHANGED <<events, accepted, flushed>>

-----------------------------------------------------------------------------
(* Transport::submit *)

\* The server takes the submission, or answers with another status.
Serve(t, success) ==
  /\ phase[t] = "request"
  /\ phase' = [phase EXCEPT ![t] = IF success THEN "accepted" ELSE "refused"]
  /\ IF success /\ t \in MetricTasks
       THEN accepted < MaxAccepted /\ accepted' = accepted + 1
       ELSE UNCHANGED accepted
  /\ UNCHANGED <<at, events, flushed>>

\* A faulty variant: every answer flushes.
ReceiveFlushing(t) ==
  /\ phase[t] \in {"accepted", "refused"}
  /\ phase' = [phase EXCEPT ![t] = "idle"]
  /\ flushed' = IF t \in MetricTasks THEN flushed + 1 ELSE flushed
  /\ UNCHANGED <<at, events, accepted>>

\* The answer arrives: metrics that were accepted run the flush callbacks.
Receive(t) ==
  /\ phase[t] \in {"accepted", "refused"}
  /\ phase' = [phase EXCEPT ![t] = "idle"]
  /\ flushed' = IF phase[t] = "accepted" /\ t \in MetricTasks THEN flushed + 1 ELSE flushed
  /\ UNCHANGED <<at, events, accepted>>

\* No answer: no connection, or none within TIMEOUT.
Fail(t) ==
  /\ Parked(t)
  /\ phase' = [phase EXCEPT ![t] = "idle"]
  /\ UNCHANGED <<at, events, accepted, flushed>>

\* Client::shutdown aborts a scheduler; a caller drops the future of its
\* submit().  Either takes effect at an await.
Abandon(t) ==
  /\ Parked(t) \/ (t \in Schedulers /\ phase[t] = "idle")
  /\ phase' = [phase EXCEPT ![t] = Rest(t)]
  /\ UNCHANGED <<at, events, accepted, flushed>>

-----------------------------------------------------------------------------
\* The flush callbacks run at most once for a submission the server accepted
\* and never for another: not after an error status, a timeout or an abort.
FlushedOnlyAccepted == flushed <= accepted
============================================================================
