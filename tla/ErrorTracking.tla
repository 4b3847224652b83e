--------------------------- MODULE ErrorTracking ---------------------------
(***************************************************************************)
(* src/src/error_tracking/service.rs and tracker.rs, composed with the     *)
(* metrics: errors are tracked into the dedup table by the application, by *)
(* the listener of metric failures and by the panic hook; a submit drains  *)
(* the table into a report, takes a snapshot of the metrics (which may     *)
(* fail, and so be tracked, or panic) and sends it.                        *)
(*                                                                         *)
(* An error stands for its identity (type, message, stack, handled,        *)
(* context, causes).  count[e] is the count of the entry of e in `pending` *)
(* and 0 if there is none; a report is the counts it carries.              *)
(***************************************************************************)
EXTENDS Metrics, FiniteSets, Functions

CONSTANTS
  Errors,      \* the identities
  AppErrors,   \* those of them that the application tracks
  Ignored,     \* those an ignore rule matches
  PanicError,  \* what the panic hook records
  ErrorTasks,  \* the tasks that run ErrorTracker::submit
  Listeners,   \* the listener tasks that may be spawned
  Capacity,    \* EVENT_CHANNEL_CAPACITY
  External,    \* whether the tasks run on a runtime of the application, which
               \* outlives the client
  MaxTracked   \* bound: occurrences the application or a panic adds

ASSUME ErrorTrackingAssumption ==
  /\ IsFiniteSet(Tasks) /\ IsFiniteSet(Listeners)
  /\ Schedulers \subseteq Tasks
  /\ MetricTasks \cup ErrorTasks = Tasks /\ MetricTasks \cap ErrorTasks = {}
  /\ {"table", "server", "lost"} \cap Tasks = {}
  /\ AppErrors \subseteq Errors /\ PanicError \in Errors
  /\ CustomMetrics \in Seq(Errors)
  /\ MaxFailures \in Nat /\ MaxAccepted \in Nat /\ MaxTracked \in Nat
  /\ Capacity \in Nat \ {0}
  /\ External \in BOOLEAN

VARIABLES
  order,     \* Tracker::order
  count,     \* Tracker::pending, see above
  report,    \* report[t]: the counts that task t has drained
  cursor,    \* cursor[l]: the next event for listener l; 0: it does not run
  since,     \* since[l]: the first event sent after l subscribed
  started,   \* the client is started: the panic hook is installed
  history,   \* history: the errors tracked and not ignored, in that order
  fate,      \* history: where each of them is: in the "table", in the report
             \* of a task, on the "server", or "lost"
  cause,     \* history: the event an occurrence is about, or 0
  totals     \* what the reports the server has taken add up to

trackerVars == <<order, count, history, fate, cause>>
listenerVars == <<cursor, since, started>>
errorVars == <<metricsVars, trackerVars, listenerVars, report, totals>>

Nothing == [e \in Errors |-> 0]

\* The occurrences of e that are at place p.
At(p, e) == {n \in DOMAIN history : fate[n] = p /\ history[n] = e}

Init ==
  /\ MetricsInit
  /\ order = <<>> /\ count = Nothing
  /\ history = <<>> /\ fate = <<>> /\ cause = <<>>
  /\ report = [t \in Tasks |-> Nothing]
  /\ totals = Nothing
  /\ cursor = [l \in Listeners |-> 0]
  /\ since = [l \in Listeners |-> 0]
  /\ started = FALSE

-----------------------------------------------------------------------------
(* Tracker *)

\* A faulty variant: an error counted before is listed again.
TrackListed(e, k) ==
  IF e \in Ignored THEN UNCHANGED trackerVars
  ELSE /\ count' = [count EXCEPT ![e] = @ + 1]
       /\ order' = Append(order, e)
       /\ history' = Append(history, e)
       /\ fate' = Append(fate, "table")
       /\ cause' = Append(cause, k)

\* Tracker::track: an ignored error leaves no trace, one of a pending identity
\* is counted, another gets an entry of its own.
Track(e, k) ==
  IF e \in Ignored THEN UNCHANGED trackerVars
  ELSE /\ count' = [count EXCEPT ![e] = @ + 1]
       /\ order' = IF count[e] = 0 THEN Append(order, e) ELSE order
       /\ history' = Append(history, e)
       /\ fate' = Append(fate, "table")
       /\ cause' = Append(cause, k)

\* What was at p is now at q.
Moved(p, q) == fate' = [n \in DOMAIN fate |-> IF fate[n] = p THEN q ELSE fate[n]]

\* A faulty variant: the entries are copied and not removed.
DrainCopying(t) ==
  /\ report' = [report EXCEPT ![t] =
                  [e \in Errors |-> IF e \in Range(order) THEN count[e] ELSE 0]]
  /\ order' = <<>>
  /\ Moved("table", t)
  /\ UNCHANGED <<count, history, cause>>

\* Tracker::drain, by task t: the entries that `order` lists are taken.
Drain(t) ==
  /\ report' = [report EXCEPT ![t] =
                  [e \in Errors |-> IF e \in Range(order) THEN count[e] ELSE 0]]
  /\ order' = <<>> /\ count' = Nothing
  /\ Moved("table", t)
  /\ UNCHANGED <<history, cause>>

-----------------------------------------------------------------------------
(* Tracking *)

\* The occurrences that no failure of a metric has caused.
Outside == {n \in DOMAIN cause : cause[n] = 0}

\* ErrorTracker::track_error, by any thread of the application.
TrackError(e) ==
  /\ Cardinality(Outside) < MaxTracked
  /\ Track(e, 0)
  /\ UNCHANGED <<metricsVars, listenerVars, report, totals>>

\* The listener of metric failures records the next one.
Hear(l) ==
  /\ cursor[l] \in DOMAIN events
  /\ Len(events) - cursor[l] < Capacity
  /\ Track(events[cursor[l]], cursor[l])
  /\ cursor' = [cursor EXCEPT ![l] = @ + 1]
  /\ UNCHANGED <<metricsVars, since, started, report, totals>>

\* A faulty variant: the listener subscribes anew and hears what comes next.
LagSkipping(l) ==
  /\ cursor[l] \in DOMAIN events
  /\ Len(events) - cursor[l] >= Capacity
  /\ cursor' = [cursor EXCEPT ![l] = Len(events) + 1]
  /\ UNCHANGED <<metricsVars, trackerVars, since, started, report, totals>>

\* A faulty variant: it goes on at the newest event that has been overwritten.
LagShort(l) ==
  /\ cursor[l] \in DOMAIN events
  /\ Len(events) - cursor[l] >= Capacity
  /\ cursor' = [cursor EXCEPT ![l] = Len(events) - Capacity]
  /\ UNCHANGED <<metricsVars, trackerVars, since, started, report, totals>>

\* RecvError::Lagged: the oldest events have been overwritten.
Lag(l) ==
  /\ cursor[l] \in DOMAIN events
  /\ Len(events) - cursor[l] >= Capacity
  /\ cursor' = [cursor EXCEPT ![l] = Len(events) - Capacity + 1]
  /\ UNCHANGED <<metricsVars, trackerVars, since, started, report, totals>>

\* A metric panics: the hook records it, if it is installed ...
Panics(t) ==
  /\ Cardinality(Outside) < MaxTracked
  /\ ComputePanics(t)
  /\ IF started THEN Track(PanicError, 0) ELSE UNCHANGED trackerVars
  /\ UNCHANGED <<listenerVars, report, totals>>

-----------------------------------------------------------------------------
(* submit *)

\* A faulty variant: the report goes back into the table, whatever the answer was.
Restore(t) ==
  /\ report' = [report EXCEPT ![t] = Nothing]
  /\ count' = [e \in Errors |-> count[e] + report[t][e]]
  /\ order' = order \o SelectSeq(history, LAMBDA e : e \notin Range(order) /\ report[t][e] > 0)
  /\ Moved(t, "table")
  /\ UNCHANGED <<history, cause>>

\* Task t no longer has its report.
Drop(t) ==
  /\ report' = [report EXCEPT ![t] = Nothing]
  /\ Moved(t, "lost")
  /\ UNCHANGED <<order, count, history, cause>>

\* create_data begins: with nothing pending there is nothing to submit.
Submit(t) ==
  /\ Collect(t)
  /\ IF t \in ErrorTasks THEN order # <<>> /\ Drain(t)
                         ELSE UNCHANGED <<trackerVars, report>>
  /\ UNCHANGED <<listenerVars, totals>>

\* A faulty variant: a failure is tracked on the spot, and broadcast as well.
SnapshotTracking(t) ==
  /\ \/ ComputeValue(t) /\ UNCHANGED trackerVars
     \/ ComputeFails(t) /\ Track(CustomMetrics[at[t]], Len(events) + 1)
  /\ UNCHANGED <<listenerVars, report, totals>>

\* The next metric of the snapshot, or the request when there is none.  (A snapshot
\* holds the mutex of metrics_snapshot, so that those of two error submits take
\* turns; here they may also alternate.)
Snapshot(t) ==
  /\ ComputeValue(t) \/ ComputeFails(t)
  /\ UNCHANGED <<trackerVars, listenerVars, report, totals>>

\* A panic drops the report, and ends the task if it is a scheduler.
Unwinds(t) == Unwind(t) /\ Drop(t) /\ UNCHANGED <<listenerVars, totals>>

\* A faulty variant: the server's total takes one for each error of a report.
ServeUncounted(t, success) ==
  /\ Serve(t, success)
  /\ IF success
       THEN /\ totals' = [e \in Errors |-> totals[e] + IF report[t][e] > 0 THEN 1 ELSE 0]
            /\ Moved(t, "server")
       ELSE UNCHANGED <<fate, totals>>
  /\ UNCHANGED <<order, count, history, cause, listenerVars, report>>

\* The server takes the report, or refuses it.
Serves(t, success) ==
  /\ Serve(t, success)
  /\ IF success
       THEN /\ totals' = [e \in Errors |-> totals[e] + report[t][e]]
            /\ Moved(t, "server")
       ELSE UNCHANGED <<fate, totals>>
  /\ UNCHANGED <<order, count, history, cause, listenerVars, report>>

\* The answer or a failure ends the submit; nothing is put back.
Ends(t) == (Receive(t) \/ Fail(t)) /\ Drop(t) /\ UNCHANGED <<listenerVars, totals>>

\* The task is aborted, or the future of the submit dropped.
Abandons(t) == Abandon(t) /\ Drop(t) /\ UNCHANGED <<listenerVars, totals>>

-----------------------------------------------------------------------------
(* Client::start and shutdown, as far as these services see them *)

\* Both schedulers are spawned, the hook is installed, and a listener
\* subscribes: it hears what is sent from now on.
Start(l) ==
  /\ ~started /\ cursor[l] = 0
  /\ \A t \in Schedulers : phase[t] = "off"
  /\ started' = TRUE
  /\ phase' = [t \in Tasks |-> IF t \in Schedulers THEN "idle" ELSE phase[t]]
  /\ cursor' = [cursor EXCEPT ![l] = Len(events) + 1]
  /\ since' = [since EXCEPT ![l] = Len(events) + 1]
  /\ UNCHANGED <<at, events, accepted, flushed, trackerVars, report, totals>>

\* shutdown ends: the hook is out, and a runtime of the client's own goes, with
\* the listener; on another runtime nothing ends the listener.
Stop ==
  /\ started
  /\ \A t \in Schedulers : phase[t] = "off"
  /\ started' = FALSE
  /\ cursor' = IF External THEN cursor ELSE [l \in Listeners |-> 0]
  /\ UNCHANGED <<metricsVars, trackerVars, since, report, totals>>

-----------------------------------------------------------------------------
Step(t) == \/ Submit(t) \/ Snapshot(t) \/ Panics(t) \/ Unwinds(t) \/ Ends(t)
           \/ Abandons(t) \/ \E success \in BOOLEAN : Serves(t, success)

Next == \/ \E e \in AppErrors : TrackError(e)
        \/ \E l \in Listeners : Hear(l) \/ Lag(l) \/ Start(l)
        \/ \E t \in Tasks : Step(t)
        \/ Stop

Spec == Init /\ [][Next]_errorVars

\* The runtime polls what can go on, the interval of a scheduler ticks, and
\* Transport gives no request more than TIMEOUT.
Fairness ==
  /\ \A t \in Schedulers : WF_errorVars(Submit(t))
  /\ \A t \in Tasks : WF_errorVars(Snapshot(t)) /\ WF_errorVars(Unwinds(t))
                        /\ WF_errorVars(Ends(t))
  /\ \A l \in Listeners : WF_errorVars(Hear(l) \/ Lag(l))

FairSpec == Spec /\ Fairness

-----------------------------------------------------------------------------
(* Properties *)

Places == Tasks \cup {"table", "server", "lost"}

TypeOK ==
  /\ phase \in [Tasks -> Phases]
  /\ at \in [Tasks -> Nat]
  /\ events \in Seq(Errors)
  /\ accepted \in Nat /\ flushed \in Nat
  /\ order \in Seq(Errors)
  /\ count \in [Errors -> Nat]
  /\ report \in [Tasks -> [Errors -> Nat]]
  /\ totals \in [Errors -> Nat]
  /\ cursor \in [Listeners -> Nat] /\ since \in [Listeners -> Nat]
  /\ started \in BOOLEAN
  /\ history \in Seq(Errors \ Ignored)
  /\ fate \in Seq(Places) /\ Len(fate) = Len(history)
  /\ cause \in Seq(Nat) /\ Len(cause) = Len(history)

\* The table is the window since the last drain: the count of an entry is the
\* number of occurrences tracked since, and `order` lists each entry once, so
\* that a drain takes all of them.
TableIsWindow ==
  /\ \A e \in Errors : count[e] = Cardinality(At("table", e))
  /\ Range(order) = {e \in Errors : count[e] > 0}
  /\ \A i, j \in DOMAIN order : order[i] = order[j] => i = j

SeenBefore(d, e) == \E n \in At("table", d) : \A m \in At("table", e) : n < m

\* The entries of the table, and so of a report, are in the order in which the
\* errors first occurred since the last drain.
FirstSeenOrder == \A i, j \in DOMAIN order : i < j => SeenBefore(order[i], order[j])

\* A report that a submit holds counts the occurrences drained into it, whatever
\* is tracked or drained by others meanwhile.
ReportIsWhole ==
  \A t \in Tasks, e \in Errors :
    phase[t] # "accepted" => report[t][e] = Cardinality(At(t, e))

\* What the server's reports add up to is the number of occurrences that reached
\* it: none is counted twice, whether its request was answered or not.
TotalsAreOccurrences == \A e \in Errors : totals[e] = Cardinality(At("server", e))

\* "reporting each CustomMetricFailed as a tracked error" (the doc of the listener,
\* error_tracking/service.rs:163): as one, not two.
FailureTrackedOnce ==
  \A n, m \in DOMAIN history : cause[n] # 0 /\ cause[n] = cause[m] => n = m

\* A listener misses a failure sent after it subscribed only when a full channel
\* of later ones was sent before it got to it.
MissedOnlyWhenBehind ==
  \A l \in Listeners : \A k \in since[l] .. cursor[l] - 1 :
    \/ events[k] \in Ignored
    \/ \E n \in DOMAIN history : cause[n] = k
    \/ Len(events) >= k + Capacity

\* The inductive invariant behind these properties.  Whoever is not in a submit, or
\* has been told that the server took the report, has no occurrence in hand; a
\* flush is owed for an accepted submission; and the only listener of a client
\* with a runtime of its own is past every failure that was tracked.
EmptyHanded ==
  \A t \in Tasks, n \in DOMAIN history :
    phase[t] \in {"off", "idle", "accepted"} => fate[n] # t

Collecting == \A t \in Tasks : phase[t] = "collect" => at[t] \in DOMAIN CustomMetrics

FlushOwed == {t \in MetricTasks : phase[t] = "accepted"}

FlushesOwed == flushed + Cardinality(FlushOwed) <= accepted

Subscribed ==
  /\ \A l \in Listeners : cursor[l] <= Len(events) + 1 /\ (cursor[l] # 0 => since[l] # 0)
  /\ \A n \in DOMAIN cause : cause[n] <= Len(events)

OneListener ==
  /\ \A l, m \in Listeners : cursor[l] # 0 /\ cursor[m] # 0 => l = m
  /\ \A l \in Listeners :
       cursor[l] # 0 => started /\ \A n \in DOMAIN cause : cause[n] < cursor[l]

Inductive ==
  /\ TypeOK /\ Collecting
  /\ EmptyHanded /\ TableIsWindow /\ FirstSeenOrder /\ ReportIsWhole
  /\ TotalsAreOccurrences
  /\ FlushesOwed
  /\ Subscribed /\ MissedOnlyWhenBehind
  /\ ~External => OneListener /\ FailureTrackedOnce

\* The listeners that were there when event k was sent, and are past it.
Passed(k) == {l \in Listeners : since[l] <= k /\ k < cursor[l]}

\* On a runtime that outlives the client, a failure is tracked once for each listener
\* that has passed it, and no more: only those of clients that were started before it
\* was sent count, and each of them once.
OncePerListener ==
  External =>
    /\ \A l \in Listeners : cursor[l] # 0 => since[l] <= cursor[l]
    /\ \A k \in DOMAIN events :
         Cardinality({n \in DOMAIN cause : cause[n] = k}) <= Cardinality(Passed(k))

InTable(n) == n \in DOMAIN history /\ fate[n] = "table"

ErrorSchedulerOff == \E t \in Schedulers \cap ErrorTasks : phase[t] = "off"

\* A tracked error is drained at a tick, unless the error scheduler is not there:
\* aborted, or ended by a metric that panicked.
TrackedIsTaken == \A n \in 1 .. MaxTracked + MaxFailures :
                   InTable(n) ~> (~InTable(n) \/ ErrorSchedulerOff)

\* A failure is heard, or overwritten, unless its listener is gone.
FailureIsHeard ==
  \A l \in Listeners, k \in 1 .. MaxFailures :
    (cursor[l] = k /\ k \in DOMAIN events) ~> (cursor[l] # k)

\* An occurrence goes from the table into the report of one submit, and from there to
\* the server or away: nothing is put back, handed to another submit or sent again,
\* and no occurrence is forgotten.
OneWay ==
  [][\A n \in DOMAIN fate :
       /\ n \in DOMAIN fate' /\ history'[n] = history[n]
       /\ \/ fate'[n] = fate[n]
          \/ fate[n] = "table" /\ fate'[n] \in Tasks
          \/ fate[n] \in Tasks /\ fate'[n] \in {"server", "lost"}]_errorVars

\* The occurrences, as ErrorReports sees them.
Outcome ==
  [n \in DOMAIN fate |->
     CASE fate[n] = "server" -> "delivered"
       [] fate[n] = "lost" -> "lost"
       [] OTHER -> "pending"]

Abstract == INSTANCE ErrorReports
              WITH Errors <- Errors \ Ignored, occurred <- history, outcome <- Outcome,
                   totals <- [e \in Errors \ Ignored |-> totals[e]]

\* Error tracking keeps the promise of ErrorReports.
ImplementsErrorReports == Abstract!RSpec
============================================================================
