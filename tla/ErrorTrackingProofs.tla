------------------------ MODULE ErrorTrackingProofs ------------------------
(***************************************************************************)
(* Proofs about ErrorTracking, for every number of errors, tasks,          *)
(* listeners and metrics.                                                  *)
(***************************************************************************)
EXTENDS ErrorTracking, FiniteSetTheorems, SequenceTheorems, TLAPS

-----------------------------------------------------------------------------
(* Sequences *)

\* A sequence with one element more.
LEMMA Appended ==
  ASSUME NEW S, NEW s \in Seq(S), NEW x, NEW t, t = Append(s, x)
  PROVE  /\ Len(s) \in Nat /\ DOMAIN s = 1 .. Len(s)
         /\ Len(t) = Len(s) + 1 /\ DOMAIN t = 1 .. Len(s) + 1
         /\ \A n \in 1 .. Len(s) : t[n] = s[n]
         /\ t[Len(s) + 1] = x
         /\ x \in S => t \in Seq(S)
OBVIOUS

-----------------------------------------------------------------------------
(* How the occurrences at a place change *)

LEMMA AtIsFinite ==
  ASSUME TypeOK, NEW p, NEW e
  PROVE  /\ IsFiniteSet(At(p, e))
         /\ Cardinality(At(p, e)) \in Nat
         /\ Cardinality(At(p, e)) = 0 <=> At(p, e) = {}
<1>1. IsFiniteSet(1 .. Len(history))
  BY FS_Interval DEF TypeOK
<1>2. At(p, e) \subseteq 1 .. Len(history)
  BY DEF At, TypeOK
<1> QED
  BY <1>1, <1>2, FS_Subset, FS_CardinalityType, FS_EmptySet

\* A tracked error is one more occurrence in the table.
LEMMA TrackAdds ==
  ASSUME TypeOK, NEW e \in Errors \ Ignored, NEW k, Track(e, k), NEW p \in Places,
         NEW x \in Errors
  PROVE  At(p, x)' = IF p = "table" /\ x = e THEN At(p, x) \cup {Len(history) + 1}
                                             ELSE At(p, x)
<1>1. /\ history \in Seq(Errors \ Ignored) /\ fate \in Seq(Places)
      /\ Len(fate) = Len(history)
  BY DEF TypeOK
<1>2. history' = Append(history, e) /\ fate' = Append(fate, "table")
  BY DEF Track
<1>3. /\ Len(history) \in Nat /\ DOMAIN history = 1 .. Len(history)
      /\ DOMAIN history' = 1 .. Len(history) + 1
      /\ \A n \in 1 .. Len(history) : history'[n] = history[n]
      /\ history'[Len(history) + 1] = e
  BY <1>1, <1>2, Appended
<1>4. /\ \A n \in 1 .. Len(history) : fate'[n] = fate[n]
      /\ fate'[Len(history) + 1] = "table"
  BY <1>1, <1>2, Appended
<1>5. \A n \in DOMAIN history' :
        (fate'[n] = p /\ history'[n] = x) <=>
          IF n = Len(history) + 1 THEN p = "table" /\ x = e
                                  ELSE fate[n] = p /\ history[n] = x
  BY <1>3, <1>4
<1>6. CASE p = "table" /\ x = e
  BY <1>3, <1>5, <1>6 DEF At
<1>7. CASE ~(p = "table" /\ x = e)
  BY <1>3, <1>5, <1>7 DEF At
<1> QED
  BY <1>6, <1>7

\* What is moved from p to q is no longer at p, and at q in addition.
LEMMA MovedMoves ==
  ASSUME TypeOK, NEW p, NEW q, p # q, Moved(p, q), history' = history, NEW x \in Errors
  PROVE  /\ At(p, x)' = {}
         /\ At(q, x)' = At(q, x) \cup At(p, x)
         /\ At(q, x) \cap At(p, x) = {}
         /\ \A r : r \notin {p, q} => At(r, x)' = At(r, x)
BY DEF At, Moved, TypeOK

LEMMA MovedCounts ==
  ASSUME TypeOK, NEW p, NEW q, p # q, Moved(p, q), history' = history, NEW x \in Errors
  PROVE  Cardinality(At(q, x)') = Cardinality(At(q, x)) + Cardinality(At(p, x))
<1>1. At(q, x)' = At(q, x) \cup At(p, x) /\ At(q, x) \cap At(p, x) = {}
  BY MovedMoves
<1> QED
  BY <1>1, AtIsFinite, FS_Union, FS_EmptySet
-----------------------------------------------------------------------------
(* What a step does to the occurrences *)

Hands == {"off", "idle", "accepted"}

\* No task is rid of its report.
Steady ==
  \A t \in Tasks : /\ phase'[t] \in Hands => phase[t] \in Hands
                   /\ phase[t] = "accepted" => phase'[t] = "accepted"

Alone(t) == \A u \in Tasks \ {t} : phase'[u] = phase[u]

Stays == Steady /\ UNCHANGED <<trackerVars, report, totals>>

Tracks(e, k) ==
  /\ Steady /\ e \in Errors \ Ignored /\ k \in Nat
  /\ Track(e, k) /\ UNCHANGED <<report, totals>>

Drains(t) ==
  /\ phase[t] = "idle" /\ phase'[t] \notin Hands /\ Alone(t)
  /\ Drain(t) /\ UNCHANGED totals

Drops(t) ==
  /\ phase'[t] \in {"off", "idle"} /\ Alone(t)
  /\ Drop(t) /\ UNCHANGED totals

Takes(t) ==
  /\ phase[t] = "request" /\ phase'[t] = "accepted" /\ Alone(t)
  /\ totals' = [e \in Errors |-> totals[e] + report[t][e]]
  /\ Moved(t, "server")
  /\ UNCHANGED <<order, count, history, cause, report>>

\* A step does one of these things, whoever takes it.
LEMMA StepKind ==
  ASSUME TypeOK, Next
  PROVE  \/ Stays
         \/ \E e \in Errors, k \in Nat : Tracks(e, k)
         \/ \E t \in Tasks : Drains(t) \/ Drops(t) \/ Takes(t)
<1> USE ErrorTrackingAssumption
<1> USE DEF Hands
<1>1. ASSUME NEW e \in AppErrors, TrackError(e)
      PROVE  Stays \/ Tracks(e, 0)
  BY <1>1 DEF TrackError, Stays, Tracks, Steady, Track, metricsVars, trackerVars
<1>2. ASSUME NEW l \in Listeners, Hear(l)
      PROVE  Stays \/ \E e \in Errors, k \in Nat : Tracks(e, k)
  <2>1. events[cursor[l]] \in Errors /\ cursor[l] \in Nat
    BY <1>2 DEF Hear, TypeOK
  <2>2. Steady /\ Track(events[cursor[l]], cursor[l]) /\ UNCHANGED <<report, totals>>
    BY <1>2 DEF Hear, Steady, metricsVars
  <2> QED
    BY <2>1, <2>2 DEF Stays, Tracks, Track
<1>3. ASSUME NEW l \in Listeners, Lag(l)
      PROVE  Stays
  BY <1>3 DEF Lag, Stays, Steady, metricsVars, trackerVars
<1>4. ASSUME NEW l \in Listeners, Start(l)
      PROVE  Stays
  BY <1>4 DEF Start, Stays, Steady, TypeOK
<1>5. CASE Stop
  BY <1>5 DEF Stop, Stays, Steady, metricsVars
<1>6. ASSUME NEW t \in Tasks, Step(t)
      PROVE  \/ Stays
             \/ \E e \in Errors, k \in Nat : Tracks(e, k)
             \/ Drains(t) \/ Drops(t) \/ Takes(t)
  <2>1. CASE Submit(t)
    BY <2>1 DEF Submit, Collect, Reach, Stays, Steady, Drains, Alone, trackerVars, TypeOK
  <2>2. CASE Snapshot(t)
    BY <2>2 DEF Snapshot, ComputeValue, ComputeFails, Reach, Stays, Steady, TypeOK
  <2>3. CASE Panics(t)
    <3>1. Steady /\ UNCHANGED <<report, totals>>
      BY <2>3 DEF Panics, ComputePanics, Steady, TypeOK
    <3> QED
      BY <2>3, <3>1 DEF Panics, Stays, Tracks, Track
  <2>4. CASE Unwinds(t)
    BY <2>4 DEF Unwinds, Unwind, Rest, Drops, Alone, TypeOK
  <2>5. CASE Ends(t)
    BY <2>5 DEF Ends, Receive, Fail, Drops, Alone, TypeOK
  <2>6. CASE Abandons(t)
    BY <2>6 DEF Abandons, Abandon, Rest, Drops, Alone, TypeOK
  <2>7. ASSUME NEW success \in BOOLEAN, Serves(t, success)
        PROVE  Stays \/ Takes(t)
    <3>1. CASE success
      BY <2>7, <3>1 DEF Serves, Serve, Takes, Alone, TypeOK
    <3>2. CASE ~success
      BY <2>7, <3>2 DEF Serves, Serve, Stays, Steady, trackerVars, TypeOK
    <3> QED
      BY <3>1, <3>2
  <2> QED
    BY <1>6, <2>1, <2>2, <2>3, <2>4, <2>5, <2>6, <2>7 DEF Step
<1> QED
  BY <1>1, <1>2, <1>3, <1>4, <1>5, <1>6 DEF Next
-----------------------------------------------------------------------------
(* Types *)

LEMMA MetricsTypes ==
  ASSUME TypeOK, Collecting, Next
  PROVE  /\ phase' \in [Tasks -> Phases] /\ at' \in [Tasks -> Nat]
         /\ events' \in Seq(Errors) /\ accepted' \in Nat /\ flushed' \in Nat
         /\ Collecting'
<1> DEFINE Typed == /\ phase' \in [Tasks -> Phases] /\ at' \in [Tasks -> Nat]
                    /\ events' \in Seq(Errors) /\ accepted' \in Nat /\ flushed' \in Nat
                    /\ Collecting'
<1>0. CustomMetrics \in Seq(Errors)
  BY ErrorTrackingAssumption
<1>1. CASE UNCHANGED metricsVars
  BY <1>1 DEF metricsVars, TypeOK, Collecting
<1>2. ASSUME NEW l \in Listeners, Start(l)
      PROVE  Typed
  BY <1>2 DEF Start, TypeOK, Phases, Collecting
<1>3. ASSUME NEW t \in Tasks, NEW i \in 0 .. Len(CustomMetrics), Reach(t, i)
      PROVE  /\ phase' \in [Tasks -> Phases] /\ at' \in [Tasks -> Nat]
             /\ Collecting'
  <2>1. Len(CustomMetrics) \in Nat /\ DOMAIN CustomMetrics = 1 .. Len(CustomMetrics)
    BY <1>0
  <2>2. CASE i < Len(CustomMetrics)
    BY <1>3, <2>1, <2>2 DEF Reach, TypeOK, Phases, Collecting
  <2>3. CASE ~(i < Len(CustomMetrics))
    BY <1>3, <2>1, <2>3 DEF Reach, TypeOK, Phases, Collecting
  <2> QED
    BY <2>2, <2>3
<1>4. ASSUME NEW t \in Tasks, Step(t)
      PROVE  Typed
  <2>1. phase[t] = "collect" => at[t] \in 1 .. Len(CustomMetrics)
    BY <1>0 DEF Collecting
  <2>2. CASE Submit(t)
    BY <1>0, <1>3, <2>2 DEF Submit, Collect, TypeOK
  <2>3. CASE Snapshot(t)
    <3>1. Typed \/ ComputeFails(t)
      BY <1>3, <2>1, <2>3 DEF Snapshot, ComputeValue, TypeOK
    <3>2. CASE ComputeFails(t)
      <4>1. CustomMetrics[at[t]] \in Errors
        BY <1>0, <2>1, <3>2 DEF ComputeFails
      <4> QED
        BY <1>3, <2>1, <3>2, <4>1 DEF ComputeFails, TypeOK
    <3> QED
      BY <3>1, <3>2
  <2>4. CASE Panics(t)
    BY <2>4 DEF Panics, ComputePanics, TypeOK, Phases, Collecting
  <2>5. CASE Unwinds(t)
    BY <2>5 DEF Unwinds, Unwind, Rest, TypeOK, Phases, Collecting
  <2>6. CASE Ends(t)
    <3>1. flushed' \in Nat /\ UNCHANGED <<at, events, accepted>>
      BY <2>6 DEF Ends, Receive, Fail, TypeOK
    <3>2. phase' = [phase EXCEPT ![t] = "idle"]
      BY <2>6 DEF Ends, Receive, Fail
    <3> QED
      BY <3>1, <3>2 DEF TypeOK, Phases, Collecting
  <2>7. CASE Abandons(t)
    BY <2>7 DEF Abandons, Abandon, Rest, TypeOK, Phases, Collecting
  <2>8. ASSUME NEW success \in BOOLEAN, Serves(t, success)
        PROVE  Typed
    BY <2>8 DEF Serves, Serve, TypeOK, Phases, Collecting
  <2> QED
    BY <1>4, <2>2, <2>3, <2>4, <2>5, <2>6, <2>7, <2>8 DEF Step
<1> QED
  BY <1>1, <1>2, <1>4 DEF Next, TrackError, Hear, Lag, Stop

LEMMA ListenerTypes ==
  ASSUME TypeOK, Next
  PROVE  /\ cursor' \in [Listeners -> Nat] /\ since' \in [Listeners -> Nat]
         /\ started' \in BOOLEAN
<1>1. /\ cursor \in [Listeners -> Nat] /\ since \in [Listeners -> Nat]
      /\ started \in BOOLEAN /\ Len(events) \in Nat /\ Capacity \in Nat
      /\ External \in BOOLEAN
  BY ErrorTrackingAssumption DEF TypeOK
<1>2. CASE UNCHANGED listenerVars
  BY <1>1, <1>2 DEF listenerVars
<1>3. ASSUME NEW l \in Listeners, Hear(l) \/ Lag(l) \/ Start(l)
      PROVE  /\ cursor' \in [Listeners -> Nat] /\ since' \in [Listeners -> Nat]
             /\ started' \in BOOLEAN
  <2>1. CASE Hear(l)
    BY <1>1, <2>1 DEF Hear
  <2>2. CASE Lag(l)
    <3>1. Len(events) - Capacity + 1 \in Nat
      BY <1>1, <2>2 DEF Lag
    <3> QED
      BY <1>1, <2>2, <3>1 DEF Lag
  <2>3. CASE Start(l)
    BY <1>1, <2>3 DEF Start
  <2> QED
    BY <1>3, <2>1, <2>2, <2>3
<1>4. CASE Stop
  BY <1>1, <1>4 DEF Stop
<1>5. ASSUME NEW t \in Tasks, Step(t)
      PROVE  UNCHANGED listenerVars
  BY <1>5 DEF Step, Submit, Snapshot, Panics, Unwinds, Ends, Abandons, Serves
<1> QED
  BY <1>2, <1>3, <1>4, <1>5 DEF Next, TrackError

LEMMA TrackerTypes ==
  ASSUME TypeOK, Next
  PROVE  /\ order' \in Seq(Errors) /\ count' \in [Errors -> Nat]
         /\ report' \in [Tasks -> [Errors -> Nat]] /\ totals' \in [Errors -> Nat]
         /\ history' \in Seq(Errors \ Ignored)
         /\ fate' \in Seq(Places) /\ Len(fate') = Len(history')
         /\ cause' \in Seq(Nat) /\ Len(cause') = Len(history')
<1> DEFINE Typed ==
      /\ order' \in Seq(Errors) /\ count' \in [Errors -> Nat]
      /\ report' \in [Tasks -> [Errors -> Nat]] /\ totals' \in [Errors -> Nat]
      /\ history' \in Seq(Errors \ Ignored)
      /\ fate' \in Seq(Places) /\ Len(fate') = Len(history')
      /\ cause' \in Seq(Nat) /\ Len(cause') = Len(history')
<1>1. CASE Stays
  BY <1>1 DEF Stays, trackerVars, TypeOK
<1>2. ASSUME NEW e \in Errors, NEW k \in Nat, Tracks(e, k)
      PROVE  Typed
  <2>1. order' \in Seq(Errors) /\ count' \in [Errors -> Nat]
    <3>1. order \in Seq(Errors) /\ count \in [Errors -> Nat]
      BY DEF TypeOK
    <3>2. /\ count' = [count EXCEPT ![e] = @ + 1]
          /\ order' = IF count[e] = 0 THEN Append(order, e) ELSE order
      BY <1>2 DEF Tracks, Track
    <3> QED
      BY <3>1, <3>2
  <2>2. /\ history' \in Seq(Errors \ Ignored) /\ Len(history') = Len(history) + 1
        /\ fate' \in Seq(Places) /\ Len(fate') = Len(fate) + 1
        /\ cause' \in Seq(Nat) /\ Len(cause') = Len(cause) + 1
    <3>1. history \in Seq(Errors \ Ignored) /\ fate \in Seq(Places) /\ cause \in Seq(Nat)
      BY DEF TypeOK
    <3>2. /\ e \in Errors \ Ignored /\ "table" \in Places
          /\ history' = Append(history, e) /\ fate' = Append(fate, "table")
          /\ cause' = Append(cause, k)
      BY <1>2 DEF Tracks, Track, Places
    <3> QED
      BY <3>1, <3>2, Appended
  <2> QED
    BY <1>2, <2>1, <2>2 DEF Tracks, TypeOK
<1>3. ASSUME NEW p, NEW q \in Places, Moved(p, q)
      PROVE  fate' \in Seq(Places) /\ Len(fate') = Len(fate)
  <2>1. fate \in Seq(Places)
    BY DEF TypeOK
  <2>2. fate' = [n \in DOMAIN fate |-> IF fate[n] = p THEN q ELSE fate[n]]
    BY <1>3 DEF Moved
  <2>3. Len(fate) \in Nat /\ fate' \in [1 .. Len(fate) -> Places]
    BY <1>3, <2>1, <2>2
  <2> QED
    BY <2>3
<1>4. ASSUME NEW t \in Tasks, Drains(t)
      PROVE  Typed
  BY <1>3, <1>4 DEF Drains, Drain, TypeOK, Nothing, Places
<1>5. ASSUME NEW t \in Tasks, Drops(t)
      PROVE  Typed
  BY <1>3, <1>5 DEF Drops, Drop, TypeOK, Nothing, Places
<1>6. ASSUME NEW t \in Tasks, Takes(t)
      PROVE  Typed
  BY <1>3, <1>6 DEF Takes, TypeOK, Places
<1> QED
  BY StepKind, <1>1, <1>2, <1>4, <1>5, <1>6
-----------------------------------------------------------------------------
(* The ledger: table, reports and totals count the occurrences that are there *)

Ledger == EmptyHanded /\ TableIsWindow /\ ReportIsWhole /\ TotalsAreOccurrences

LEMMA PlacesDiffer ==
  /\ {"table", "server", "lost"} \subseteq Places /\ Tasks \subseteq Places
  /\ "table" \notin Tasks /\ "server" \notin Tasks /\ "lost" \notin Tasks
BY ErrorTrackingAssumption DEF Places

LEMMA StaysLedger ==
  ASSUME TypeOK, Ledger, Stays
  PROVE  Ledger'
<1>1. UNCHANGED <<order, count, history, fate, report, totals>> /\ Steady
  BY DEF Stays, trackerVars
<1>2. EmptyHanded'
  BY <1>1 DEF Ledger, EmptyHanded, Steady, Hands
<1>3. TableIsWindow' /\ TotalsAreOccurrences'
  BY <1>1 DEF Ledger, TableIsWindow, TotalsAreOccurrences, At
<1>4. ReportIsWhole'
  BY <1>1 DEF Ledger, ReportIsWhole, Steady, At
<1> QED
  BY <1>2, <1>3, <1>4 DEF Ledger

\* One more of e: it is counted in its entry, which is new if there was none.
LEMMA TrackLedger ==
  ASSUME TypeOK, Ledger, NEW e \in Errors, NEW k \in Nat, Tracks(e, k)
  PROVE  Ledger'
<1> DEFINE new == Len(history) + 1
<1>1. /\ Track(e, k) /\ e \in Errors \ Ignored
      /\ UNCHANGED <<report, totals>> /\ Steady
  BY DEF Tracks
<1>2. /\ count' = [count EXCEPT ![e] = @ + 1]
      /\ order' = IF count[e] = 0 THEN Append(order, e) ELSE order
  BY <1>1 DEF Track
<1>3. count \in [Errors -> Nat] /\ order \in Seq(Errors)
  BY DEF TypeOK
<1>4. /\ At("table", e)' = At("table", e) \cup {new}
      /\ \A x \in Errors \ {e} : At("table", x)' = At("table", x)
      /\ \A t \in Tasks, x \in Errors : At(t, x)' = At(t, x)
      /\ \A x \in Errors : At("server", x)' = At("server", x)
  BY <1>1, TrackAdds, PlacesDiffer
<1>5. \A x \in Errors : count'[x] = Cardinality(At("table", x)')
  <2>1. new \notin At("table", e)
    BY DEF At, TypeOK
  <2>2. Cardinality(At("table", e) \cup {new}) = Cardinality(At("table", e)) + 1
    BY <2>1, AtIsFinite, FS_AddElement
  <2> QED
    BY <1>2, <1>3, <1>4, <2>2 DEF Ledger, TableIsWindow
<1>6. /\ Range(order') = {x \in Errors : count'[x] > 0}
      /\ \A i, j \in DOMAIN order' : order'[i] = order'[j] => i = j
  <2>1. /\ Range(order) = {x \in Errors : count[x] > 0}
        /\ \A i, j \in DOMAIN order : order[i] = order[j] => i = j
    BY DEF Ledger, TableIsWindow
  <2>2. CASE count[e] = 0
    <3>1. /\ DOMAIN order = 1 .. Len(order) /\ Len(order) \in Nat
          /\ DOMAIN order' = 1 .. Len(order) + 1
          /\ \A i \in 1 .. Len(order) : order'[i] = order[i]
          /\ order'[Len(order) + 1] = e
      BY <1>2, <1>3, <2>2, Appended
    <3>2. \A i \in DOMAIN order : order[i] # e
      BY <2>1, <2>2 DEF Range
    <3>3. Range(order') = Range(order) \cup {e}
      BY <3>1 DEF Range
    <3> QED
      BY <1>2, <1>3, <2>1, <2>2, <3>1, <3>2, <3>3
  <2>3. CASE count[e] # 0
    BY <1>2, <1>3, <2>1, <2>3
  <2> QED
    BY <2>2, <2>3
<1>7. TableIsWindow'
  BY <1>5, <1>6 DEF TableIsWindow
<1>8. ReportIsWhole'
  BY <1>1, <1>4 DEF Ledger, ReportIsWhole, Steady
<1>9. TotalsAreOccurrences'
  BY <1>1, <1>4 DEF Ledger, TotalsAreOccurrences
<1>10. EmptyHanded'
  <2>1. /\ DOMAIN history' = 1 .. new /\ DOMAIN history = 1 .. Len(history)
        /\ Len(history) \in Nat
    BY <1>1, Appended DEF Track, TypeOK
  <2>2. /\ \A n \in 1 .. Len(history) : fate'[n] = fate[n]
        /\ fate'[new] = "table"
    <3>1. fate \in Seq(Places) /\ Len(fate) = Len(history)
      BY DEF TypeOK
    <3>2. fate' = Append(fate, "table")
      BY <1>1 DEF Track
    <3> QED
      BY <3>1, <3>2, Appended
  <2> QED
    BY <1>1, <2>1, <2>2, PlacesDiffer DEF Ledger, EmptyHanded, Steady, Hands
<1> QED
  BY <1>7, <1>8, <1>9, <1>10 DEF Ledger

\* Whoever is empty-handed has no occurrence at its place.
LEMMA NothingAt ==
  ASSUME Ledger, NEW t \in Tasks, phase[t] \in Hands
  PROVE  \A x \in Errors : At(t, x) = {}
BY DEF Ledger, EmptyHanded, Hands, At

\* Moving what is at p to q leaves everyone else's hands as they were.
LEMMA MovedHands ==
  ASSUME TypeOK, Ledger, NEW p, NEW q, Moved(p, q), history' = history,
         NEW t \in Tasks, t # q, phase'[t] \in Hands, phase[t] \in Hands \/ t = p
  PROVE  \A n \in DOMAIN history' : fate'[n] # t
BY DEF Ledger, EmptyHanded, Hands, Moved, TypeOK

\* A drain takes every entry, because `order` lists every entry.
LEMMA DrainLedger ==
  ASSUME TypeOK, Ledger, NEW t \in Tasks, Drains(t)
  PROVE  Ledger'
<1>1. /\ Moved("table", t) /\ history' = history /\ totals' = totals
      /\ order' = <<>> /\ count' = Nothing
      /\ phase[t] = "idle" /\ phase'[t] \notin Hands /\ Alone(t)
  BY DEF Drains, Drain
<1>2. /\ \A x \in Errors : /\ At("table", x)' = {}
                           /\ At("server", x)' = At("server", x)
      /\ \A x \in Errors, u \in Tasks \ {t} : At(u, x)' = At(u, x)
  BY <1>1, MovedMoves, PlacesDiffer
<1>3. \A x \in Errors : Cardinality(At(t, x)') = count[x]
  <2>1. \A x \in Errors : At(t, x) = {}
    BY <1>1, NothingAt DEF Hands
  <2>2. \A x \in Errors :
          Cardinality(At(t, x)') = Cardinality(At(t, x)) + Cardinality(At("table", x))
    BY <1>1, MovedCounts, PlacesDiffer
  <2>3. \A x \in Errors : count[x] \in Nat /\ count[x] = Cardinality(At("table", x))
    BY DEF Ledger, TableIsWindow, TypeOK
  <2>4. Cardinality({}) = 0
    BY FS_EmptySet
  <2> QED
    BY <2>1, <2>2, <2>3, <2>4
<1>4. /\ \A x \in Errors : report'[t][x] = count[x]
      /\ \A u \in Tasks \ {t} : report'[u] = report[u]
  <2>1. report' = [report EXCEPT ![t] =
                     [e \in Errors |-> IF e \in Range(order) THEN count[e] ELSE 0]]
    BY DEF Drains, Drain
  <2>2. \A x \in Errors : x \notin Range(order) => count[x] = 0
    BY DEF Ledger, TableIsWindow, TypeOK
  <2>3. report \in [Tasks -> [Errors -> Nat]]
    BY DEF TypeOK
  <2> QED
    BY <2>1, <2>2, <2>3
<1>5. TableIsWindow'
  BY <1>1, <1>2, FS_EmptySet DEF TableIsWindow, Nothing, Range
<1>6. ReportIsWhole'
  BY <1>1, <1>2, <1>3, <1>4 DEF Ledger, ReportIsWhole, Alone
<1>7. TotalsAreOccurrences'
  BY <1>1, <1>2 DEF Ledger, TotalsAreOccurrences
<1>8. EmptyHanded'
  <2>1. ASSUME NEW u \in Tasks, phase'[u] \in Hands
        PROVE  \A n \in DOMAIN history' : fate'[n] # u
    BY <1>1, <2>1, MovedHands DEF Alone
  <2> QED
    BY <2>1 DEF EmptyHanded, Hands
<1> QED
  BY <1>5, <1>6, <1>7, <1>8 DEF Ledger

LEMMA DropLedger ==
  ASSUME TypeOK, Ledger, NEW t \in Tasks, Drops(t)
  PROVE  Ledger'
<1>1. /\ Moved(t, "lost") /\ UNCHANGED <<order, count, history, totals>>
      /\ report' = [report EXCEPT ![t] = Nothing]
      /\ phase'[t] \in {"off", "idle"} /\ Alone(t)
  BY DEF Drops, Drop
<1>2. /\ \A x \in Errors : /\ At("table", x)' = At("table", x)
                           /\ At("server", x)' = At("server", x)
                           /\ At(t, x)' = {}
      /\ \A x \in Errors, u \in Tasks \ {t} : At(u, x)' = At(u, x)
  BY <1>1, MovedMoves, PlacesDiffer
<1>3. TableIsWindow' /\ TotalsAreOccurrences'
  BY <1>1, <1>2 DEF Ledger, TableIsWindow, TotalsAreOccurrences
<1>4. ReportIsWhole'
  <2>1. /\ \A x \in Errors : report'[t][x] = 0
        /\ \A u \in Tasks \ {t} : report'[u] = report[u]
    BY <1>1 DEF TypeOK, Nothing
  <2> QED
    BY <1>1, <1>2, <2>1, FS_EmptySet DEF Ledger, ReportIsWhole, Alone
<1>5. EmptyHanded'
  <2>1. ASSUME NEW u \in Tasks, phase'[u] \in Hands
        PROVE  \A n \in DOMAIN history' : fate'[n] # u
    BY <1>1, <2>1, MovedHands, PlacesDiffer DEF Alone
  <2> QED
    BY <2>1 DEF EmptyHanded, Hands
<1> QED
  BY <1>3, <1>4, <1>5 DEF Ledger

\* The server takes a report: the totals grow by what it counts, which is what it
\* carries.
LEMMA TakeLedger ==
  ASSUME TypeOK, Ledger, NEW t \in Tasks, Takes(t)
  PROVE  Ledger'
<1>1. /\ Moved(t, "server") /\ UNCHANGED <<order, count, history, report>>
      /\ totals' = [e \in Errors |-> totals[e] + report[t][e]]
      /\ phase[t] = "request" /\ phase'[t] = "accepted" /\ Alone(t)
  BY DEF Takes
<1>2. /\ \A x \in Errors : At("table", x)' = At("table", x)
      /\ \A x \in Errors, u \in Tasks \ {t} : At(u, x)' = At(u, x)
  BY <1>1, MovedMoves, PlacesDiffer
<1>3. TableIsWindow'
  BY <1>1, <1>2 DEF Ledger, TableIsWindow
<1>4. TotalsAreOccurrences'
  <2>1. \A x \in Errors :
          Cardinality(At("server", x)') = Cardinality(At("server", x)) + Cardinality(At(t, x))
    BY <1>1, MovedCounts, PlacesDiffer
  <2>2. \A x \in Errors : report[t][x] = Cardinality(At(t, x))
    BY <1>1 DEF Ledger, ReportIsWhole
  <2> QED
    BY <1>1, <2>1, <2>2 DEF Ledger, TotalsAreOccurrences
<1>5. ReportIsWhole'
  BY <1>1, <1>2 DEF Ledger, ReportIsWhole, Alone
<1>6. EmptyHanded'
  <2>1. ASSUME NEW u \in Tasks, phase'[u] \in Hands
        PROVE  \A n \in DOMAIN history' : fate'[n] # u
    BY <1>1, <2>1, MovedHands, PlacesDiffer DEF Alone
  <2> QED
    BY <2>1 DEF EmptyHanded, Hands
<1> QED
  BY <1>3, <1>4, <1>5, <1>6 DEF Ledger

LEMMA LedgerStep ==
  ASSUME TypeOK, Ledger, Next
  PROVE  Ledger'
BY StepKind, StaysLedger, TrackLedger, DrainLedger, DropLedger, TakeLedger

\* The order of the entries.
LEMMA OrderStep ==
  ASSUME TypeOK, Ledger, FirstSeenOrder, Next
  PROVE  FirstSeenOrder'
<1>1. CASE Stays
  BY <1>1 DEF Stays, trackerVars, FirstSeenOrder, SeenBefore, At
<1>2. ASSUME NEW e \in Errors, NEW k \in Nat, Tracks(e, k)
      PROVE  FirstSeenOrder'
  <2> DEFINE new == Len(history) + 1
  <2>1. /\ At("table", e)' = At("table", e) \cup {new}
        /\ \A x \in Errors \ {e} : At("table", x)' = At("table", x)
    BY <1>2, TrackAdds, PlacesDiffer DEF Tracks
  <2>2. \A x \in Errors : At("table", x) \subseteq 1 .. Len(history)
    BY DEF At, TypeOK
  <2>3. /\ order \in Seq(Errors) /\ Len(history) \in Nat
        /\ order' = IF count[e] = 0 THEN Append(order, e) ELSE order
    BY <1>2 DEF Tracks, Track, TypeOK
  <2>4. \A x \in Errors : count[x] = 0 <=> At("table", x) = {}
    BY AtIsFinite DEF Ledger, TableIsWindow
  <2>5. ASSUME NEW x \in Errors, NEW y \in Errors, SeenBefore(x, y)
        PROVE  SeenBefore(x, y)'
    <3>1. PICK n \in At("table", x) : \A m \in At("table", y) : n < m
      BY <2>5 DEF SeenBefore
    <3>2. n \in At("table", x)' /\ n < new
      BY <2>1, <2>2, <2>3, <3>1
    <3>3. \A m \in At("table", y)' : m = new \/ m \in At("table", y)
      BY <2>1
    <3> QED
      BY <3>1, <3>2, <3>3 DEF SeenBefore
  <2>6. ASSUME NEW x \in Errors, count[e] = 0, count[x] > 0
        PROVE  SeenBefore(x, e)'
    <3>1. At("table", e)' = {new}
      BY <2>1, <2>4, <2>6
    <3>2. PICK n \in At("table", x) : TRUE
      BY <2>4, <2>6
    <3>3. n \in At("table", x)' /\ n < new
      BY <2>1, <2>2, <2>3, <2>6, <3>2
    <3> QED
      BY <3>1, <3>3 DEF SeenBefore
  <2>7. /\ \A i \in DOMAIN order : order[i] \in Errors /\ count[order[i]] > 0
        /\ \A i, j \in DOMAIN order : i < j => SeenBefore(order[i], order[j])
    <3>1. \A i \in DOMAIN order : order[i] \in Range(order)
      BY DEF Range
    <3> QED
      BY <2>3, <3>1 DEF Ledger, TableIsWindow, FirstSeenOrder
  <2>8. \A i, j \in DOMAIN order' :
          i < j => \E x, y \in Errors :
                     x = order'[i] /\ y = order'[j] /\ SeenBefore(x, y)'
    <3>1. CASE count[e] # 0
      BY <2>3, <2>5, <2>7, <3>1
    <3>2. CASE count[e] = 0
      <4>1. /\ DOMAIN order = 1 .. Len(order) /\ Len(order) \in Nat
            /\ DOMAIN order' = 1 .. Len(order) + 1
            /\ \A i \in 1 .. Len(order) : order'[i] = order[i]
            /\ order'[Len(order) + 1] = e
        BY <2>3, <3>2, Appended
      <4> QED
        BY <2>5, <2>6, <2>7, <3>2, <4>1
    <3> QED
      BY <3>1, <3>2
  <2> QED
    BY <2>8 DEF FirstSeenOrder, SeenBefore, At
<1>3. ASSUME NEW t \in Tasks, Drains(t)
      PROVE  FirstSeenOrder'
  BY <1>3 DEF Drains, Drain, FirstSeenOrder
<1>4. ASSUME NEW t \in Tasks, Drops(t) \/ Takes(t)
      PROVE  FirstSeenOrder'
  <2>1. order' = order /\ \A x \in Errors : At("table", x)' = At("table", x)
    BY <1>4, MovedMoves, PlacesDiffer DEF Drops, Drop, Takes
  <2>2. \A i \in DOMAIN order : order[i] \in Errors
    BY DEF TypeOK
  <2>3. \A x, y \in Errors : SeenBefore(x, y) => SeenBefore(x, y)'
    BY <2>1 DEF SeenBefore
  <2> QED
    BY <2>1, <2>2, <2>3 DEF FirstSeenOrder, SeenBefore, At
<1> QED
  BY StepKind, <1>1, <1>2, <1>3, <1>4
-----------------------------------------------------------------------------
(* Flushes, and the listener *)

LEMMA FlushStep ==
  ASSUME TypeOK, FlushesOwed, Next
  PROVE  FlushesOwed'
<1> DEFINE Fewer == FlushOwed' \subseteq FlushOwed /\ UNCHANGED <<accepted, flushed>>
<1>1. IsFiniteSet(FlushOwed) /\ Cardinality(FlushOwed) \in Nat
  BY ErrorTrackingAssumption, FS_Subset, FS_CardinalityType DEF FlushOwed
<1>2. flushed \in Nat /\ accepted \in Nat /\ MetricTasks \subseteq Tasks
  BY ErrorTrackingAssumption DEF TypeOK
<1>3. CASE Fewer
  <2>1. Cardinality(FlushOwed') \in Nat /\ Cardinality(FlushOwed') <= Cardinality(FlushOwed)
    BY <1>1, <1>3, FS_Subset, FS_CardinalityType
  <2> QED
    BY <1>1, <1>2, <1>3, <2>1 DEF FlushesOwed
<1>4. CASE UNCHANGED metricsVars
  BY <1>3, <1>4 DEF metricsVars, FlushOwed
<1>5. ASSUME NEW l \in Listeners, Start(l)
      PROVE  Fewer
  BY <1>2, <1>5 DEF Start, FlushOwed
<1>6. ASSUME NEW t \in Tasks, Step(t)
      PROVE  FlushesOwed'
  <2>1. CASE Submit(t) \/ Snapshot(t)
    <3>1. Fewer
      BY <1>2, <2>1 DEF Submit, Snapshot, Collect, ComputeValue, ComputeFails, Reach,
                        FlushOwed, TypeOK
    <3> QED
      BY <1>3, <3>1
  <2>2. CASE Panics(t) \/ Unwinds(t) \/ Abandons(t)
    <3>1. Fewer
      BY <1>2, <2>2 DEF Panics, ComputePanics, Unwinds, Unwind, Abandons, Abandon, Rest,
                        FlushOwed, TypeOK
    <3> QED
      BY <1>3, <3>1
  <2>3. CASE Ends(t)
    <3>1. CASE phase[t] = "accepted" /\ t \in MetricTasks /\ Receive(t)
      <4>1. FlushOwed' = FlushOwed \ {t} /\ t \in FlushOwed
        BY <1>2, <3>1 DEF Receive, FlushOwed, TypeOK
      <4>2. Cardinality(FlushOwed') = Cardinality(FlushOwed) - 1
        BY <1>1, <4>1, FS_RemoveElement
      <4>3. flushed' = flushed + 1 /\ accepted' = accepted
        BY <3>1 DEF Receive
      <4> QED
        BY <1>1, <1>2, <4>2, <4>3 DEF FlushesOwed
    <3>2. CASE ~(phase[t] = "accepted" /\ t \in MetricTasks /\ Receive(t))
      <4>1. Fewer
        BY <1>2, <2>3, <3>2 DEF Ends, Receive, Fail, FlushOwed, TypeOK
      <4> QED
        BY <1>3, <4>1
    <3> QED
      BY <3>1, <3>2
  <2>4. ASSUME NEW success \in BOOLEAN, Serves(t, success)
        PROVE  FlushesOwed'
    <3>1. Serve(t, success)
      BY <2>4 DEF Serves
    <3>2. CASE success /\ t \in MetricTasks
      <4>1. FlushOwed' = FlushOwed \cup {t} /\ t \notin FlushOwed
        BY <1>2, <3>1, <3>2 DEF Serve, FlushOwed, TypeOK
      <4>2. Cardinality(FlushOwed') = Cardinality(FlushOwed) + 1
        BY <1>1, <4>1, FS_AddElement
      <4>3. accepted' = accepted + 1 /\ flushed' = flushed
        BY <3>1, <3>2 DEF Serve
      <4> QED
        BY <1>1, <1>2, <4>2, <4>3 DEF FlushesOwed
    <3>3. CASE ~(success /\ t \in MetricTasks)
      <4>1. Fewer
        BY <1>2, <3>1, <3>3 DEF Serve, FlushOwed, TypeOK
      <4> QED
        BY <1>3, <4>1
    <3> QED
      BY <3>2, <3>3
  <2> QED
    BY <1>6, <2>1, <2>2, <2>3, <2>4 DEF Step
<1> QED
  BY <1>3, <1>4, <1>5, <1>6 DEF Next, TrackError, Hear, Lag, Stop

\* A step that is not of a listener may add an event, and an occurrence about none.
LEMMA TaskStep ==
  ASSUME TypeOK, Collecting, NEW t \in Tasks, Step(t)
  PROVE  /\ UNCHANGED listenerVars
         /\ events' = events \/ \E e \in Errors : events' = Append(events, e)
         /\ \/ history' = history /\ cause' = cause
            \/ \E e \in Errors : history' = Append(history, e) /\ cause' = Append(cause, 0)
<1> USE ErrorTrackingAssumption
<1>1. CustomMetrics \in Seq(Errors)
  OBVIOUS
<1>2. CASE Submit(t)
  BY <1>2 DEF Submit, Collect, Drain, trackerVars
<1>3. CASE Snapshot(t)
  BY <1>1, <1>3 DEF Snapshot, ComputeValue, ComputeFails, trackerVars, Collecting
<1>4. CASE Panics(t)
  BY <1>4 DEF Panics, ComputePanics, Track, trackerVars
<1>5. CASE Unwinds(t) \/ Ends(t) \/ Abandons(t)
  BY <1>5 DEF Unwinds, Unwind, Ends, Receive, Fail, Abandons, Abandon, Drop
<1>6. ASSUME NEW success \in BOOLEAN, Serves(t, success)
      PROVE  UNCHANGED <<listenerVars, events, history, cause>>
  BY <1>6 DEF Serves, Serve
<1> QED
  BY <1>2, <1>3, <1>4, <1>5, <1>6 DEF Step

\* A step of anyone but a listener and the client.
Passive ==
  /\ UNCHANGED listenerVars
  /\ events' = events \/ \E e \in Errors : events' = Append(events, e)
  /\ \/ cause' = cause
     \/ cause' = Append(cause, 0)

LEMMA ListenerKind ==
  ASSUME TypeOK, Collecting, Next
  PROVE  Passive \/ Stop \/ \E l \in Listeners : Hear(l) \/ Lag(l) \/ Start(l)
<1>1. ASSUME NEW e \in AppErrors, TrackError(e)
      PROVE  Passive
  BY <1>1 DEF TrackError, Track, Passive, metricsVars, trackerVars
<1>2. ASSUME NEW t \in Tasks, Step(t)
      PROVE  Passive
  BY <1>2, TaskStep DEF Passive
<1> QED
  BY <1>1, <1>2 DEF Next

LEMMA EventTypes ==
  ASSUME TypeOK
  PROVE  /\ events \in Seq(Errors) /\ Len(events) \in Nat
         /\ DOMAIN events = 1 .. Len(events)
         /\ cause \in Seq(Nat) /\ Len(cause) \in Nat /\ DOMAIN cause = 1 .. Len(cause)
         /\ Len(history) = Len(cause) /\ DOMAIN history = 1 .. Len(cause)
         /\ cursor \in [Listeners -> Nat] /\ since \in [Listeners -> Nat]
         /\ Capacity \in Nat \ {0} /\ External \in BOOLEAN
BY ErrorTrackingAssumption DEF TypeOK

\* What is appended to the events and to the causes.
LEMMA Grown ==
  ASSUME TypeOK, events' = events \/ \E e \in Errors : events' = Append(events, e)
  PROVE  /\ Len(events') \in Nat /\ Len(events') >= Len(events)
         /\ \A k \in 1 .. Len(events) : events'[k] = events[k]
<1>1. events \in Seq(Errors) /\ Len(events) \in Nat
  BY EventTypes
<1>2. CASE events' = events
  BY <1>1, <1>2
<1>3. ASSUME NEW e \in Errors, events' = Append(events, e)
      PROVE  /\ Len(events') = Len(events) + 1
             /\ \A k \in 1 .. Len(events) : events'[k] = events[k]
  BY <1>1, <1>3, Appended
<1> QED
  BY <1>1, <1>2, <1>3

LEMMA Caused ==
  ASSUME TypeOK, NEW k \in Nat, cause' = Append(cause, k)
  PROVE  /\ DOMAIN cause' = 1 .. Len(cause) + 1
         /\ \A n \in DOMAIN cause : n \in DOMAIN cause' /\ cause'[n] = cause[n]
         /\ cause'[Len(cause) + 1] = k
         /\ \A n \in DOMAIN cause' : n \notin DOMAIN cause => n = Len(cause) + 1
<1>1. /\ DOMAIN cause = 1 .. Len(cause) /\ Len(cause) \in Nat
      /\ DOMAIN cause' = 1 .. Len(cause) + 1
      /\ \A n \in 1 .. Len(cause) : cause'[n] = cause[n]
      /\ cause'[Len(cause) + 1] = k
  BY EventTypes, Appended
<1> QED
  BY <1>1

\* A listener that hears an event either tracks it or ignores it.
LEMMA HearTracks ==
  ASSUME TypeOK, NEW l \in Listeners, Hear(l)
  PROVE  /\ events' = events /\ since' = since /\ started' = started
         /\ cursor[l] \in 1 .. Len(events)
         /\ cursor' = [cursor EXCEPT ![l] = cursor[l] + 1]
         /\ \/ cause' = cause /\ history' = history /\ events[cursor[l]] \in Ignored
            \/ cause' = Append(cause, cursor[l])
BY EventTypes DEF Hear, Track, metricsVars, trackerVars

LEMMA SubscribedStep ==
  ASSUME TypeOK, Collecting, Subscribed, Next
  PROVE  Subscribed'
<1> USE EventTypes
<1>1. CASE Passive
  <2>1. Len(events') \in Nat /\ Len(events') >= Len(events)
    BY <1>1, Grown DEF Passive
  <2>2. \A n \in DOMAIN cause' : cause'[n] <= Len(events)
    <3>1. CASE cause' = cause
      BY <3>1 DEF Subscribed
    <3>2. CASE cause' = Append(cause, 0)
      <4>1. /\ \A n \in DOMAIN cause : cause'[n] = cause[n]
            /\ \A n \in DOMAIN cause' : n \notin DOMAIN cause => cause'[n] = 0
        BY <3>2, Caused
      <4>2. ASSUME NEW n \in DOMAIN cause'
            PROVE  cause'[n] <= Len(events)
        <5>1. CASE n \in DOMAIN cause
          BY <4>1, <5>1 DEF Subscribed
        <5>2. CASE n \notin DOMAIN cause
          <6>1. cause'[n] = 0 /\ Len(events) \in Nat
            BY <4>1, <4>2, <5>2
          <6> QED
            BY <6>1
        <5> QED
          BY <5>1, <5>2
      <4> QED
        BY <4>2
    <3> QED
      BY <1>1, <3>1, <3>2 DEF Passive
  <2>3. \A n \in DOMAIN cause' : cause'[n] \in Nat
    <3>1. cause' \in Seq(Nat)
      BY TrackerTypes
    <3> QED
      BY <3>1
  <2> QED
    BY <1>1, <2>1, <2>2, <2>3 DEF Passive, listenerVars, Subscribed
<1>2. ASSUME NEW l \in Listeners, Hear(l)
      PROVE  Subscribed'
  <2>1. /\ events' = events /\ since' = since
        /\ cursor[l] \in 1 .. Len(events)
        /\ cursor' = [cursor EXCEPT ![l] = cursor[l] + 1]
    BY <1>2, HearTracks
  <2>2. \A n \in DOMAIN cause' : cause'[n] <= Len(events)
    <3>1. CASE cause' = cause
      BY <3>1 DEF Subscribed
    <3>2. CASE cause' = Append(cause, cursor[l])
      BY <2>1, <3>2, Caused DEF Subscribed
    <3> QED
      BY <1>2, <3>1, <3>2, HearTracks
  <2> QED
    BY <2>1, <2>2 DEF Subscribed
<1>3. ASSUME NEW l \in Listeners, Lag(l)
      PROVE  Subscribed'
  BY <1>3 DEF Lag, Subscribed, metricsVars, trackerVars
<1>4. ASSUME NEW l \in Listeners, Start(l)
      PROVE  Subscribed'
  BY <1>4 DEF Start, Subscribed, trackerVars
<1>5. CASE Stop
  BY <1>5 DEF Stop, Subscribed, metricsVars, trackerVars
<1> QED
  BY ListenerKind, <1>1, <1>2, <1>3, <1>4, <1>5

\* Events and causes are only added to.
LEMMA NothingForgotten ==
  ASSUME TypeOK, Collecting, Next
  PROVE  /\ Len(events') \in Nat /\ Len(events') >= Len(events)
         /\ \A k \in 1 .. Len(events) : events'[k] = events[k]
         /\ \A n \in DOMAIN cause : n \in DOMAIN cause' /\ cause'[n] = cause[n]
         /\ DOMAIN history = DOMAIN cause /\ DOMAIN history' = DOMAIN cause'
<1>1. \/ events' = events
      \/ \E e \in Errors : events' = Append(events, e)
  BY ListenerKind DEF Passive, Hear, Lag, Start, Stop, metricsVars
<1>2. \A n \in DOMAIN cause : n \in DOMAIN cause' /\ cause'[n] = cause[n]
  <2>1. cause' = cause \/ \E k \in Nat : cause' = Append(cause, k)
    BY ListenerKind, HearTracks, EventTypes DEF Passive, Lag, Start, Stop, trackerVars
  <2> QED
    BY <2>1, Caused
<1>3. DOMAIN history' = DOMAIN cause'
  BY TrackerTypes
<1>4. DOMAIN history = DOMAIN cause
  BY EventTypes
<1> QED
  BY <1>1, <1>2, <1>3, <1>4, Grown

\* What became of event k.
Accounted(k) ==
  \/ events[k] \in Ignored
  \/ \E n \in DOMAIN history : cause[n] = k
  \/ Len(events) >= k + Capacity

LEMMA AccountedStays ==
  ASSUME TypeOK, Collecting, Next, NEW k \in 1 .. Len(events), Accounted(k)
  PROVE  Accounted(k)'
<1>1. Len(events) \in Nat /\ Capacity \in Nat
  BY EventTypes
<1> QED
  BY <1>1, NothingForgotten DEF Accounted

LEMMA MissedStep ==
  ASSUME TypeOK, Collecting, Subscribed, MissedOnlyWhenBehind, Next
  PROVE  MissedOnlyWhenBehind'
<1>1. /\ Len(events) \in Nat /\ Capacity \in Nat \ {0}
      /\ cursor \in [Listeners -> Nat] /\ since \in [Listeners -> Nat]
  BY EventTypes
<1>2. ASSUME NEW l \in Listeners, NEW k \in since[l] .. cursor[l] - 1
      PROVE  Accounted(k)'
  <2>1. k \in 1 .. Len(events)
    BY <1>1 DEF Subscribed
  <2>2. Accounted(k)
    BY DEF MissedOnlyWhenBehind, Accounted
  <2> QED
    BY <2>1, <2>2, AccountedStays
<1>3. SUFFICES ASSUME NEW l \in Listeners, NEW k \in since'[l] .. cursor'[l] - 1
               PROVE  Accounted(k)'
  BY DEF MissedOnlyWhenBehind, Accounted
<1>4. CASE Passive
  BY <1>2, <1>3, <1>4 DEF Passive, listenerVars
<1>5. ASSUME NEW m \in Listeners, Hear(m)
      PROVE  Accounted(k)'
  <2>1. /\ since' = since /\ cursor' = [cursor EXCEPT ![m] = cursor[m] + 1]
        /\ cursor[m] \in 1 .. Len(events)
    BY <1>5, HearTracks
  <2>2. ASSUME k = cursor[m]
        PROVE  Accounted(k)'
    <3>1. CASE cause' = Append(cause, cursor[m])
      <4>1. Len(cause) + 1 \in DOMAIN cause' /\ cause'[Len(cause) + 1] = k
        BY <2>1, <2>2, <3>1, Caused
      <4> QED
        BY <4>1, NothingForgotten DEF Accounted
    <3>2. CASE events[cursor[m]] \in Ignored /\ cause' = cause
      BY <2>1, <2>2, <3>2, AccountedStays DEF Accounted
    <3> QED
      BY <1>5, <3>1, <3>2, HearTracks
  <2>3. k \in since[l] .. cursor[l] - 1 \/ (l = m /\ k = cursor[m])
    BY <1>1, <1>3, <2>1
  <2> QED
    BY <1>2, <2>2, <2>3
<1>6. ASSUME NEW m \in Listeners, Lag(m)
      PROVE  Accounted(k)'
  <2>1. /\ since' = since /\ events' = events
        /\ cursor' = [cursor EXCEPT ![m] = Len(events) - Capacity + 1]
    BY <1>6 DEF Lag, metricsVars
  <2>2. CASE l = m /\ k >= cursor[m]
    <3>1. Len(events) >= k + Capacity
      BY <1>1, <1>3, <2>1, <2>2
    <3> QED
      BY <2>1, <3>1 DEF Accounted
  <2>3. CASE ~(l = m /\ k >= cursor[m])
    <3>1. k \in since[l] .. cursor[l] - 1
      BY <1>1, <1>3, <2>1, <2>3
    <3> QED
      BY <1>2, <3>1
  <2> QED
    BY <2>2, <2>3
<1>7. ASSUME NEW m \in Listeners, Start(m)
      PROVE  Accounted(k)'
  <2>1. /\ since' = [since EXCEPT ![m] = Len(events) + 1]
        /\ cursor' = [cursor EXCEPT ![m] = Len(events) + 1]
    BY <1>7 DEF Start
  <2>2. k \in since[l] .. cursor[l] - 1
    BY <1>1, <1>3, <2>1
  <2> QED
    BY <1>2, <2>2
<1>8. CASE Stop
  <2>1. since' = since /\ (cursor' = cursor \/ cursor' = [m \in Listeners |-> 0])
    BY <1>8 DEF Stop
  <2>2. k \in since[l] .. cursor[l] - 1
    BY <1>1, <1>3, <2>1
  <2> QED
    BY <1>2, <2>2
<1> QED
  BY ListenerKind, <1>4, <1>5, <1>6, <1>7, <1>8

\* With a runtime of the client's own: the one listener, and no cause twice.
LEMMA OneStep ==
  ASSUME TypeOK, Collecting, Subscribed, ~External, OneListener, FailureTrackedOnce, Next
  PROVE  OneListener' /\ FailureTrackedOnce'
<1>1. /\ Len(events) \in Nat /\ cursor \in [Listeners -> Nat]
      /\ cause \in Seq(Nat) /\ Capacity \in Nat
  BY EventTypes
<1>2. DOMAIN history = DOMAIN cause /\ DOMAIN history' = DOMAIN cause'
  BY NothingForgotten
<1>3. CASE cause' = cause
  <2>1. FailureTrackedOnce'
    BY <1>2, <1>3 DEF FailureTrackedOnce
  <2>2. CASE UNCHANGED listenerVars
    BY <1>3, <2>1, <2>2 DEF listenerVars, OneListener
  <2>3. ASSUME NEW m \in Listeners, NEW i \in Nat, cursor[m] # 0, i > cursor[m], started' = started,
               cursor' = [cursor EXCEPT ![m] = i]
        PROVE  OneListener'
    <3>1. \A n \in DOMAIN cause : cause[n] \in Nat
      BY <1>1
    <3> QED
      BY <1>1, <1>3, <2>3, <3>1 DEF OneListener
  <2>4. ASSUME NEW m \in Listeners, Hear(m)
        PROVE  OneListener'
    BY <1>1, <2>3, <2>4, HearTracks
  <2>5. ASSUME NEW m \in Listeners, Lag(m)
        PROVE  OneListener'
    <3>1. cursor[m] # 0 /\ Len(events) - Capacity + 1 > cursor[m] /\ Len(events) - Capacity + 1 \in Nat
      BY <1>1, <2>5, EventTypes DEF Lag
    <3> QED
      BY <2>3, <2>5, <3>1 DEF Lag
  <2>6. ASSUME NEW m \in Listeners, Start(m)
        PROVE  OneListener'
    <3>1. /\ ~started /\ started' /\ cursor' = [cursor EXCEPT ![m] = Len(events) + 1]
      BY <2>6 DEF Start
    <3>2. \A l \in Listeners : cursor[l] = 0
      BY <3>1 DEF OneListener
    <3>3. \A n \in DOMAIN cause : cause[n] < Len(events) + 1
      <4>1. \A n \in DOMAIN cause : cause[n] \in Nat /\ cause[n] <= Len(events)
        BY <1>1 DEF Subscribed
      <4> QED
        BY <1>1, <4>1
    <3> QED
      BY <1>1, <1>3, <3>1, <3>2, <3>3 DEF OneListener
  <2>7. CASE Stop
    <3>1. cursor' = [l \in Listeners |-> 0]
      BY <2>7 DEF Stop
    <3>2. \A l \in Listeners : cursor'[l] = 0
      BY <3>1
    <3> QED
      BY <2>1, <3>2 DEF OneListener
  <2> QED
    BY <2>1, <2>2, <2>4, <2>5, <2>6, <2>7, ListenerKind DEF Passive
<1>4. ASSUME NEW k \in Nat, cause' = Append(cause, k),
             k = 0 \/ \A n \in DOMAIN cause : cause[n] < k
      PROVE  FailureTrackedOnce'
  <2>1. /\ \A n \in DOMAIN cause : n \in DOMAIN cause' /\ cause'[n] = cause[n]
        /\ cause'[Len(cause) + 1] = k
        /\ \A n \in DOMAIN cause' : n \notin DOMAIN cause => n = Len(cause) + 1
    BY <1>4, Caused
  <2>2. \A n \in DOMAIN cause : cause[n] \in Nat /\ (k # 0 => cause[n] # k)
    BY <1>1, <1>4
  <2>3. SUFFICES ASSUME NEW n \in DOMAIN cause', NEW m \in DOMAIN cause',
                        cause'[n] # 0, cause'[n] = cause'[m]
                 PROVE  n = m
    BY <1>2 DEF FailureTrackedOnce
  <2>4. CASE n \in DOMAIN cause /\ m \in DOMAIN cause
    BY <1>2, <2>1, <2>3, <2>4 DEF FailureTrackedOnce
  <2> QED
    BY <2>1, <2>2, <2>3, <2>4
<1>5. CASE Passive /\ cause' = Append(cause, 0)
  <2>1. FailureTrackedOnce'
    BY <1>4, <1>5
  <2>2. \A l \in Listeners : cursor[l] # 0 => \A n \in DOMAIN cause' : cause'[n] < cursor[l]
    <3>1. /\ \A n \in DOMAIN cause : cause'[n] = cause[n]
          /\ \A n \in DOMAIN cause' : n \notin DOMAIN cause => cause'[n] = 0
      BY <1>5, Caused
    <3> QED
      BY <1>1, <3>1 DEF OneListener
  <2> QED
    BY <1>5, <2>1, <2>2 DEF Passive, listenerVars, OneListener
<1>6. ASSUME NEW m \in Listeners, Hear(m), cause' = Append(cause, cursor[m])
      PROVE  OneListener' /\ FailureTrackedOnce'
  <2>1. /\ cursor[m] \in 1 .. Len(events) /\ started' = started
        /\ cursor' = [cursor EXCEPT ![m] = cursor[m] + 1]
    BY <1>6, HearTracks
  <2>2. \A n \in DOMAIN cause : cause[n] < cursor[m]
    BY <2>1 DEF OneListener
  <2>3. FailureTrackedOnce'
    BY <1>1, <1>4, <1>6, <2>2
  <2>4. \A n \in DOMAIN cause' : cause'[n] < cursor[m] + 1
    <3>1. /\ \A n \in DOMAIN cause : cause'[n] = cause[n]
          /\ \A n \in DOMAIN cause' : n \notin DOMAIN cause => cause'[n] = cursor[m]
      BY <1>1, <1>6, Caused
    <3>2. \A n \in DOMAIN cause : cause[n] \in Nat
      BY <1>1
    <3> QED
      BY <1>1, <2>1, <2>2, <3>1, <3>2
  <2>5. \A l \in Listeners : cursor[l] # 0 => l = m
    BY <2>1 DEF OneListener
  <2> QED
    BY <1>1, <2>1, <2>3, <2>4, <2>5 DEF OneListener
<1> QED
  <2>1. CASE Passive
    BY <2>1, <1>3, <1>5 DEF Passive
  <2>2. CASE Stop
    BY <2>2, <1>3 DEF Stop, trackerVars
  <2>3. ASSUME NEW m \in Listeners, Hear(m)
        PROVE  OneListener' /\ FailureTrackedOnce'
    BY <2>3, <1>3, <1>6, HearTracks
  <2>4. ASSUME NEW m \in Listeners, Lag(m) \/ Start(m)
        PROVE  OneListener' /\ FailureTrackedOnce'
    BY <2>4, <1>3 DEF Lag, Start, trackerVars
  <2> QED
    BY ListenerKind, <2>1, <2>2, <2>3, <2>4
-----------------------------------------------------------------------------
(* The theorems *)

LEMMA InitInductive ==
  ASSUME Init
  PROVE  Inductive
<1> USE ErrorTrackingAssumption DEF Init, MetricsInit
<1>1. /\ history = <<>> /\ fate = <<>> /\ cause = <<>> /\ order = <<>> /\ events = <<>>
      /\ DOMAIN history = {} /\ DOMAIN order = {} /\ DOMAIN cause = {}
  OBVIOUS
<1>2. TypeOK
  <2>1. \A S : <<>> \in Seq(S)
    OBVIOUS
  <2>2. Len(<<>>) = 0
    OBVIOUS
  <2>3. /\ phase \in [Tasks -> Phases] /\ at \in [Tasks -> Nat] /\ accepted \in Nat
        /\ flushed \in Nat /\ started \in BOOLEAN
    BY DEF Rest, Phases
  <2>4. /\ count \in [Errors -> Nat] /\ totals \in [Errors -> Nat]
        /\ report \in [Tasks -> [Errors -> Nat]]
        /\ cursor \in [Listeners -> Nat] /\ since \in [Listeners -> Nat]
    BY DEF Nothing
  <2> QED
    BY <1>1, <2>1, <2>2, <2>3, <2>4 DEF TypeOK
<1>3. \A p, e : At(p, e) = {} /\ Cardinality(At(p, e)) = 0
  BY <1>1, FS_EmptySet DEF At
<1>4. TableIsWindow /\ ReportIsWhole /\ TotalsAreOccurrences
  BY <1>1, <1>3 DEF TableIsWindow, ReportIsWhole, TotalsAreOccurrences, Nothing, Range
<1>5. /\ Collecting /\ EmptyHanded /\ FirstSeenOrder /\ MissedOnlyWhenBehind
      /\ OneListener /\ FailureTrackedOnce
  BY <1>1 DEF Collecting, Rest, EmptyHanded, FirstSeenOrder, MissedOnlyWhenBehind,
              OneListener, FailureTrackedOnce
<1>6. FlushOwed = {}
  BY DEF FlushOwed, Rest
<1>7. FlushesOwed
  BY <1>6, FS_EmptySet DEF FlushesOwed
<1>8. Subscribed
  BY <1>1 DEF Subscribed
<1> QED
  BY <1>2, <1>4, <1>5, <1>7, <1>8 DEF Inductive

LEMMA NextInductive ==
  ASSUME Inductive, [Next]_errorVars
  PROVE  Inductive'
<1>1. CASE Next
  <2>1. TypeOK' /\ Collecting'
    BY <1>1, MetricsTypes, ListenerTypes, TrackerTypes DEF Inductive, TypeOK
  <2>2. Ledger' /\ FirstSeenOrder'
    BY <1>1, LedgerStep, OrderStep DEF Inductive, Ledger
  <2>3. FlushesOwed' /\ Subscribed' /\ MissedOnlyWhenBehind'
    BY <1>1, FlushStep, SubscribedStep, MissedStep DEF Inductive
  <2>4. ~External => OneListener' /\ FailureTrackedOnce'
    BY <1>1, OneStep DEF Inductive
  <2> QED
    BY <2>1, <2>2, <2>3, <2>4 DEF Inductive, Ledger
<1>2. CASE UNCHANGED errorVars
  <2> USE <1>2 DEF errorVars, metricsVars, trackerVars, listenerVars, Inductive
  <2>1. TypeOK' /\ Collecting'
    BY DEF TypeOK, Collecting
  <2>2. EmptyHanded' /\ TableIsWindow' /\ ReportIsWhole' /\ TotalsAreOccurrences'
    BY DEF EmptyHanded, TableIsWindow, ReportIsWhole, TotalsAreOccurrences, At
  <2>3. FirstSeenOrder' /\ FlushesOwed' /\ Subscribed' /\ MissedOnlyWhenBehind'
    BY DEF FirstSeenOrder, SeenBefore, At, FlushesOwed, FlushOwed, Subscribed,
           MissedOnlyWhenBehind
  <2>4. ~External => OneListener' /\ FailureTrackedOnce'
    BY DEF OneListener, FailureTrackedOnce
  <2> QED
    BY <2>1, <2>2, <2>3, <2>4
<1> QED
  BY <1>1, <1>2

\* The inductive invariant holds in every state of error tracking.
THEOREM ErrorTrackingInductive == Spec => []Inductive
<1>1. Init => Inductive
  BY InitInductive
<1>2. Inductive /\ [Next]_errorVars => Inductive'
  BY NextInductive
<1> QED
  BY <1>1, <1>2, PTL DEF Spec

\* The state of the tasks, the table, the reports and the listeners is well typed.
THEOREM ErrorTrackingTypeCorrect == Spec => []TypeOK
<1>1. Inductive => TypeOK
  BY DEF Inductive
<1> QED
  BY <1>1, ErrorTrackingInductive, PTL

\* The table holds what was tracked since the last drain, each identity once.
THEOREM TableIsTheWindow == Spec => []TableIsWindow
<1>1. Inductive => TableIsWindow
  BY DEF Inductive
<1> QED
  BY <1>1, ErrorTrackingInductive, PTL

\* A report lists the errors in the order in which they first occurred.
THEOREM ReportsInFirstSeenOrder == Spec => []FirstSeenOrder
<1>1. Inductive => FirstSeenOrder
  BY DEF Inductive
<1> QED
  BY <1>1, ErrorTrackingInductive, PTL

\* A report in flight counts exactly the occurrences drained into it.
THEOREM ReportsAreWhole == Spec => []ReportIsWhole
<1>1. Inductive => ReportIsWhole
  BY DEF Inductive
<1> QED
  BY <1>1, ErrorTrackingInductive, PTL

\* The server counts each occurrence at most once.
THEOREM ServerCountsOccurrences == Spec => []TotalsAreOccurrences
<1>1. Inductive => TotalsAreOccurrences
  BY DEF Inductive
<1> QED
  BY <1>1, ErrorTrackingInductive, PTL

\* A listener misses a metric failure only when it was a whole channel behind.
THEOREM FailuresMissedOnlyWhenBehind == Spec => []MissedOnlyWhenBehind
<1>1. Inductive => MissedOnlyWhenBehind
  BY DEF Inductive
<1> QED
  BY <1>1, ErrorTrackingInductive, PTL

\* With a runtime of its own, a client tracks a metric failure at most once.
THEOREM FailuresTrackedOnce == Spec => [](~External => FailureTrackedOnce)
<1>1. Inductive => (~External => FailureTrackedOnce)
  BY DEF Inductive
<1> QED
  BY <1>1, ErrorTrackingInductive, PTL

\* The flush callbacks run at most once for each accepted metrics submission.
THEOREM FlushesOnlyAccepted == Spec => []FlushedOnlyAccepted
<1>1. ASSUME Inductive
      PROVE  FlushedOnlyAccepted
  <2>1. IsFiniteSet(FlushOwed) /\ Cardinality(FlushOwed) \in Nat
    BY ErrorTrackingAssumption, FS_Subset, FS_CardinalityType DEF FlushOwed
  <2> QED
    BY <1>1, <2>1 DEF Inductive, TypeOK, FlushesOwed, FlushedOnlyAccepted
<1> QED
  BY <1>1, ErrorTrackingInductive, PTL
\* What one step does to an occurrence.
Onward(n) ==
  /\ n \in DOMAIN fate' /\ history'[n] = history[n]
  /\ \/ fate'[n] = fate[n]
     \/ fate[n] = "table" /\ fate'[n] \in Tasks
     \/ fate[n] \in Tasks /\ fate'[n] \in {"server", "lost"}

LEMMA OnwardStep ==
  ASSUME TypeOK, Next, NEW n \in DOMAIN fate
  PROVE  Onward(n)
<1>1. /\ history \in Seq(Errors \ Ignored) /\ fate \in Seq(Places) /\ Len(fate) = Len(history)
      /\ DOMAIN fate = 1 .. Len(fate) /\ Len(fate) \in Nat
  BY DEF TypeOK
<1>2. CASE Stays
  BY <1>2 DEF Stays, trackerVars, Onward
<1>3. ASSUME NEW e \in Errors, NEW k \in Nat, Tracks(e, k)
      PROVE  Onward(n)
  <2>1. history' = Append(history, e) /\ fate' = Append(fate, "table")
    BY <1>3 DEF Tracks, Track
  <2>2. DOMAIN fate' = 1 .. Len(fate) + 1 /\ fate'[n] = fate[n]
    BY <1>1, <2>1, Appended
  <2>3. history'[n] = history[n]
    BY <1>1, <2>1, Appended
  <2>4. n \in DOMAIN fate'
    BY <1>1, <2>2
  <2> QED
    BY <2>2, <2>3, <2>4 DEF Onward
<1>4. ASSUME NEW t \in Tasks, Drains(t) \/ Drops(t) \/ Takes(t)
      PROVE  Onward(n)
  BY <1>4 DEF Drains, Drain, Drops, Drop, Takes, Moved, Onward
<1> QED
  BY <1>2, <1>3, <1>4, StepKind

\* No occurrence is sent twice: it goes one way, whichever request is dropped, refused
\* or answered too late.
THEOREM OccurrencesGoOneWay == Spec => OneWay
<1>1. Inductive /\ [Next]_errorVars => \A n \in DOMAIN fate : Onward(n)
  <2>1. Inductive /\ Next => \A n \in DOMAIN fate : Onward(n)
    BY OnwardStep DEF Inductive
  <2>2. UNCHANGED errorVars => \A n \in DOMAIN fate : Onward(n)
    BY DEF errorVars, trackerVars, Onward
  <2> QED
    BY <2>1, <2>2
<1>2. Inductive /\ [Next]_errorVars =>
        [\A n \in DOMAIN fate :
           /\ n \in DOMAIN fate' /\ history'[n] = history[n]
           /\ \/ fate'[n] = fate[n]
              \/ fate[n] = "table" /\ fate'[n] \in Tasks
              \/ fate[n] \in Tasks /\ fate'[n] \in {"server", "lost"}]_errorVars
  BY <1>1 DEF Onward
<1> QED
  BY <1>2, ErrorTrackingInductive, PTL DEF Spec, OneWay

-----------------------------------------------------------------------------
(* A runtime that outlives the client *)

\* The occurrences that event k has caused, and the listeners that were there when it
\* was sent and are past it.
CausedBy(c, k) == {n \in DOMAIN c : c[n] = k}
PassedBy(cur, from, k) == {l \in Listeners : from[l] <= k /\ k < cur[l]}

LEMMA BothFinite ==
  ASSUME NEW c \in Seq(Nat), NEW cur, NEW from, NEW k
  PROVE  /\ IsFiniteSet(CausedBy(c, k)) /\ IsFiniteSet(PassedBy(cur, from, k))
         /\ Cardinality(CausedBy(c, k)) \in Nat /\ Cardinality(PassedBy(cur, from, k)) \in Nat
<1>1. IsFiniteSet(1 .. Len(c)) /\ CausedBy(c, k) \subseteq 1 .. Len(c)
  BY FS_Interval DEF CausedBy
<1>2. IsFiniteSet(Listeners) /\ PassedBy(cur, from, k) \subseteq Listeners
  BY ErrorTrackingAssumption DEF PassedBy
<1> QED
  BY <1>1, <1>2, FS_Subset, FS_CardinalityType

\* The bound on the occurrences of event k.
Bounded(c, cur, from, k) ==
  Cardinality(CausedBy(c, k)) <= Cardinality(PassedBy(cur, from, k))

\* It stays when nothing more is caused by k and no listener is taken away.
LEMMA BoundStays ==
  ASSUME NEW c \in Seq(Nat), NEW d \in Seq(Nat), NEW k, NEW cur, NEW from, NEW curp, NEW fromp,
         CausedBy(d, k) = CausedBy(c, k),
         PassedBy(cur, from, k) \subseteq PassedBy(curp, fromp, k),
         Bounded(c, cur, from, k)
  PROVE  Bounded(d, curp, fromp, k)
<1>1. Cardinality(PassedBy(cur, from, k)) <= Cardinality(PassedBy(curp, fromp, k))
  BY BothFinite, FS_Subset
<1>2. /\ Cardinality(CausedBy(c, k)) \in Nat /\ Cardinality(PassedBy(cur, from, k)) \in Nat
      /\ Cardinality(PassedBy(curp, fromp, k)) \in Nat
  BY BothFinite
<1> QED
  BY <1>1, <1>2 DEF Bounded

\* It stays when one more is caused, and one more listener is past.
LEMMA BoundMoves ==
  ASSUME NEW c \in Seq(Nat), NEW d \in Seq(Nat), NEW k, NEW cur, NEW from, NEW curp, NEW fromp,
         NEW n, n \notin CausedBy(c, k), CausedBy(d, k) = CausedBy(c, k) \cup {n},
         NEW l, l \notin PassedBy(cur, from, k),
         PassedBy(curp, fromp, k) = PassedBy(cur, from, k) \cup {l},
         Bounded(c, cur, from, k)
  PROVE  Bounded(d, curp, fromp, k)
<1>1. /\ IsFiniteSet(CausedBy(c, k)) /\ IsFiniteSet(PassedBy(cur, from, k))
      /\ Cardinality(CausedBy(c, k)) \in Nat /\ Cardinality(PassedBy(cur, from, k)) \in Nat
  BY BothFinite
<1>2. /\ Cardinality(CausedBy(c, k) \cup {n}) = Cardinality(CausedBy(c, k)) + 1
      /\ Cardinality(PassedBy(cur, from, k) \cup {l}) = Cardinality(PassedBy(cur, from, k)) + 1
  BY <1>1, FS_AddElement
<1> QED
  BY <1>1, <1>2 DEF Bounded

\* What one more cause adds.
LEMMA OneMoreCause ==
  ASSUME NEW c \in Seq(Nat), NEW i \in Nat, NEW k \in Nat
  PROVE  /\ Append(c, i) \in Seq(Nat)
         /\ i # k => CausedBy(Append(c, i), k) = CausedBy(c, k)
         /\ i = k => CausedBy(Append(c, i), k) = CausedBy(c, k) \cup {Len(c) + 1}
         /\ Len(c) + 1 \notin CausedBy(c, k)
<1> DEFINE d == Append(c, i)
<1>1. /\ DOMAIN c = 1 .. Len(c) /\ Len(c) \in Nat /\ d \in Seq(Nat)
      /\ DOMAIN d = 1 .. Len(c) + 1
      /\ \A n \in 1 .. Len(c) : d[n] = c[n]
      /\ d[Len(c) + 1] = i
  BY Appended
<1> HIDE DEF d
<1>2. ASSUME i # k
      PROVE  CausedBy(d, k) = CausedBy(c, k)
  BY <1>1, <1>2 DEF CausedBy
<1>3. ASSUME i = k
      PROVE  CausedBy(d, k) = CausedBy(c, k) \cup {Len(c) + 1}
  BY <1>1, <1>3 DEF CausedBy
<1>4. Len(c) + 1 \notin CausedBy(c, k)
  BY <1>1 DEF CausedBy
<1> QED
  BY <1>1, <1>2, <1>3, <1>4 DEF d

\* No event that is yet to be sent has caused anything.
LEMMA NotYetCaused ==
  ASSUME NEW c \in Seq(Nat), NEW sent \in Nat, \A n \in DOMAIN c : c[n] <= sent,
         NEW k \in Nat, k > sent, NEW cur, NEW from
  PROVE  Bounded(c, cur, from, k)
<1>1. CausedBy(c, k) = {}
  <2>1. \A n \in DOMAIN c : c[n] \in Nat
    OBVIOUS
  <2> QED
    BY <2>1 DEF CausedBy
<1> QED
  BY <1>1, BothFinite, FS_EmptySet DEF Bounded

\* With the listeners of OncePerListener as a formula about the variables alone.
AllBounded ==
  /\ \A l \in Listeners : cursor[l] # 0 => since[l] <= cursor[l]
  /\ \A k \in 1 .. Len(events) : Bounded(cause, cursor, since, k)

LEMMA OnceIsBounded ==
  ASSUME TypeOK, External
  PROVE  OncePerListener <=> AllBounded
BY EventTypes DEF OncePerListener, AllBounded, Bounded, CausedBy, PassedBy, Passed

LEMMA BoundedStep ==
  ASSUME Inductive, TypeOK', External, AllBounded, Next
  PROVE  AllBounded'
<1>1. /\ TypeOK /\ Collecting /\ Subscribed
      /\ Len(events) \in Nat /\ Capacity \in Nat \ {0} /\ cause \in Seq(Nat)
      /\ cursor \in [Listeners -> Nat] /\ since \in [Listeners -> Nat]
  BY EventTypes DEF Inductive
<1>2. /\ Len(events') \in Nat /\ Len(events') >= Len(events) /\ cause' \in Seq(Nat)
      /\ cursor' \in [Listeners -> Nat] /\ since' \in [Listeners -> Nat]
  BY <1>1, NothingForgotten DEF TypeOK
<1>3. /\ \A l \in Listeners : cursor[l] # 0 => since[l] <= cursor[l]
      /\ \A k \in 1 .. Len(events) : Bounded(cause, cursor, since, k)
  BY DEF AllBounded
<1>4. \A n \in DOMAIN cause : cause[n] <= Len(events)
  BY <1>1 DEF Subscribed
<1>5. CASE Passive
  <2>1. cursor' = cursor /\ since' = since
    BY <1>5 DEF Passive, listenerVars
  <2>2. ASSUME NEW k \in 1 .. Len(events')
        PROVE  Bounded(cause', cursor, since, k)
    <3>1. k \in Nat /\ k # 0
      BY <1>2
    <3>2. Bounded(cause, cursor, since, k)
      <4>1. CASE k \in 1 .. Len(events)
        BY <1>3, <4>1
      <4>2. CASE k \notin 1 .. Len(events)
        <5>1. k > Len(events)
          BY <1>1, <1>2, <4>2
        <5> QED
          BY <1>1, <1>4, <3>1, <5>1, NotYetCaused
      <4> QED
        BY <4>1, <4>2
    <3>3. CASE cause' = cause
      BY <3>2, <3>3
    <3>4. CASE cause' = Append(cause, 0)
      <4>1. 0 \in Nat
        OBVIOUS
      <4>2. CausedBy(cause', k) = CausedBy(cause, k)
        BY <1>1, <3>1, <3>4, <4>1, OneMoreCause
      <4> QED
        BY <1>1, <1>2, <3>2, <4>2, BoundStays
    <3> QED
      BY <1>5, <3>3, <3>4 DEF Passive
  <2> QED
    BY <1>3, <2>1, <2>2 DEF AllBounded
<1>6. ASSUME NEW l \in Listeners, Hear(l)
      PROVE  AllBounded'
  <2>1. /\ events' = events /\ since' = since
        /\ cursor[l] \in 1 .. Len(events) /\ cursor[l] \in Nat
        /\ cursor' = [cursor EXCEPT ![l] = cursor[l] + 1]
        /\ cause' = cause \/ cause' = Append(cause, cursor[l])
    BY <1>1, <1>6, HearTracks
  <2>2. \A m \in Listeners : cursor'[m] # 0 => since'[m] <= cursor'[m]
    BY <1>1, <1>3, <2>1
  <2>3. ASSUME NEW k \in 1 .. Len(events)
        PROVE  Bounded(cause', cursor', since', k)
    <3>1. k \in Nat /\ PassedBy(cursor, since, k) \subseteq PassedBy(cursor', since', k)
      BY <1>1, <2>1 DEF PassedBy
    <3>2. CASE cause' = cause \/ k # cursor[l]
      <4>1. k # cursor[l] => CausedBy(Append(cause, cursor[l]), k) = CausedBy(cause, k)
        BY <1>1, <2>1, <3>1, OneMoreCause
      <4>2. CausedBy(cause', k) = CausedBy(cause, k)
        <5>1. CASE cause' = cause
          BY <5>1
        <5>2. CASE cause' = Append(cause, cursor[l]) /\ k # cursor[l]
          BY <4>1, <5>2
        <5> QED
          BY <2>1, <3>2, <5>1, <5>2
      <4>3. Bounded(cause, cursor, since, k)
        BY <1>3
      <4> QED
        BY <1>1, <1>2, <3>1, <4>2, <4>3, BoundStays
    <3>3. CASE cause' = Append(cause, cursor[l]) /\ k = cursor[l]
      <4>1. /\ CausedBy(cause', k) = CausedBy(cause, k) \cup {Len(cause) + 1}
            /\ Len(cause) + 1 \notin CausedBy(cause, k)
        BY <1>1, <3>1, <3>3, OneMoreCause
      <4>2. l \notin PassedBy(cursor, since, k)
        BY <1>1, <3>1, <3>3 DEF PassedBy
      <4>3. PassedBy(cursor', since', k) = PassedBy(cursor, since, k) \cup {l}
        BY <1>1, <1>3, <2>1, <3>1, <3>3 DEF PassedBy
      <4> QED
        BY <1>1, <1>2, <1>3, <4>1, <4>2, <4>3, BoundMoves
    <3> QED
      BY <2>1, <3>2, <3>3
  <2> QED
    BY <2>1, <2>2, <2>3 DEF AllBounded
<1>7. ASSUME NEW l \in Listeners, Lag(l)
      PROVE  AllBounded'
  <2>1. /\ events' = events /\ since' = since /\ cause' = cause
        /\ cursor' = [cursor EXCEPT ![l] = Len(events) - Capacity + 1]
        /\ cursor[l] # 0 /\ Len(events) - Capacity >= cursor[l]
    BY <1>1, <1>7, EventTypes DEF Lag, metricsVars, trackerVars
  <2>2. \A m \in Listeners : cursor'[m] # 0 => since'[m] <= cursor'[m]
    BY <1>1, <1>3, <2>1
  <2>3. ASSUME NEW k \in 1 .. Len(events)
        PROVE  Bounded(cause', cursor', since', k)
    <3>1. PassedBy(cursor, since, k) \subseteq PassedBy(cursor', since', k)
      BY <1>1, <2>1 DEF PassedBy
    <3>2. CausedBy(cause', k) = CausedBy(cause, k) /\ Bounded(cause, cursor, since, k)
      BY <1>3, <2>1
    <3> QED
      BY <1>1, <1>2, <3>1, <3>2, BoundStays
  <2> QED
    BY <2>1, <2>2, <2>3 DEF AllBounded
<1>8. ASSUME NEW l \in Listeners, Start(l)
      PROVE  AllBounded'
  <2>1. /\ events' = events /\ cause' = cause /\ cursor[l] = 0
        /\ since' = [since EXCEPT ![l] = Len(events) + 1]
        /\ cursor' = [cursor EXCEPT ![l] = Len(events) + 1]
    BY <1>8 DEF Start, trackerVars
  <2>2. \A m \in Listeners : cursor'[m] # 0 => since'[m] <= cursor'[m]
    BY <1>1, <1>3, <2>1
  <2>3. ASSUME NEW k \in 1 .. Len(events)
        PROVE  Bounded(cause', cursor', since', k)
    <3>1. PassedBy(cursor, since, k) \subseteq PassedBy(cursor', since', k)
      BY <1>1, <2>1 DEF PassedBy
    <3>2. CausedBy(cause', k) = CausedBy(cause, k) /\ Bounded(cause, cursor, since, k)
      BY <1>3, <2>1
    <3> QED
      BY <1>1, <1>2, <3>1, <3>2, BoundStays
  <2> QED
    BY <2>1, <2>2, <2>3 DEF AllBounded
<1>9. CASE Stop
  BY <1>3, <1>9 DEF Stop, AllBounded, metricsVars, trackerVars
<1> QED
  BY <1>1, ListenerKind, <1>5, <1>6, <1>7, <1>8, <1>9

LEMMA OncePerListenerStep ==
  ASSUME Inductive, OncePerListener, [Next]_errorVars
  PROVE  OncePerListener'
<1>1. CASE ~External
  BY <1>1 DEF OncePerListener
<1>2. CASE External /\ Next
  <2>1. TypeOK /\ TypeOK' /\ AllBounded
    BY <1>2, NextInductive, OnceIsBounded DEF Inductive
  <2>2. AllBounded'
    BY <1>2, <2>1, BoundedStep
  <2>3. DOMAIN events' = 1 .. Len(events')
    BY <2>1 DEF TypeOK
  <2> QED
    BY <2>2, <2>3 DEF OncePerListener, AllBounded, Bounded, CausedBy, PassedBy, Passed
<1>3. CASE UNCHANGED errorVars
  BY <1>3 DEF OncePerListener, Passed, errorVars, metricsVars, trackerVars, listenerVars
<1> QED
  BY <1>1, <1>2, <1>3

\* A client that is restarted on a runtime of the application leaves its listener
\* running (FailureTrackedOnce is violated then); still a failure is tracked at most
\* once for each of the listeners that were there when it was sent.
THEOREM FailuresTrackedOncePerListener == Spec => []OncePerListener
<1>1. Init => OncePerListener
  <2>1. ASSUME Init
        PROVE  events = <<>> /\ \A l \in Listeners : cursor[l] = 0
    BY <2>1 DEF Init, MetricsInit
  <2> QED
    BY <2>1 DEF OncePerListener
<1>2. Inductive /\ OncePerListener /\ [Next]_errorVars => OncePerListener'
  BY OncePerListenerStep
<1> QED
  BY <1>1, <1>2, ErrorTrackingInductive, PTL DEF Spec

-----------------------------------------------------------------------------
(* Error tracking implements ErrorReports *)

\* What becomes of an occurrence at place p.
OutcomeOf(p) == CASE p = "server" -> "delivered" [] p = "lost" -> "lost" [] OTHER -> "pending"

LEMMA OutcomeOfFate ==
  /\ Outcome = [n \in DOMAIN fate |-> OutcomeOf(fate[n])]
  /\ OutcomeOf("server") = "delivered" /\ OutcomeOf("lost") = "lost"
  /\ OutcomeOf("table") = "pending" /\ \A t \in Tasks : OutcomeOf(t) = "pending"
BY PlacesDiffer DEF Outcome, OutcomeOf

LEMMA MovedOutcome ==
  ASSUME TypeOK, NEW p, NEW q, Moved(p, q)
  PROVE  /\ OutcomeOf(p) = OutcomeOf(q) => Outcome' = Outcome
         /\ Outcome' = [n \in DOMAIN Outcome |->
                          IF fate[n] = p THEN OutcomeOf(q) ELSE Outcome[n]]
<1>1. fate' = [n \in DOMAIN fate |-> IF fate[n] = p THEN q ELSE fate[n]]
  BY DEF Moved
<1>2. Outcome' = [n \in DOMAIN fate |-> OutcomeOf(IF fate[n] = p THEN q ELSE fate[n])]
  BY <1>1 DEF Outcome, OutcomeOf
<1> QED
  BY <1>2, OutcomeOfFate

\* A task's report settles the occurrences in it.
LEMMA SettleStep ==
  ASSUME TypeOK, NEW t \in Tasks, NEW q \in {"server", "lost"}, Moved(t, q), history' = history,
         NEW S, S = {n \in DOMAIN history : fate[n] = t}
  PROVE  /\ S \subseteq Abstract!Pending
         /\ S = {} => Outcome' = Outcome
         /\ S # {} => Abstract!Settle(S, OutcomeOf(q))
<1>1. DOMAIN history = DOMAIN fate /\ DOMAIN Outcome = DOMAIN fate
  BY DEF TypeOK, Outcome
<1>2. S \subseteq Abstract!Pending
  BY <1>1, OutcomeOfFate DEF Abstract!Pending
<1>3. Outcome' = [n \in DOMAIN Outcome |-> IF n \in S THEN OutcomeOf(q) ELSE Outcome[n]]
  BY <1>1, MovedOutcome
<1>4. S = {} => Outcome' = Outcome
  BY <1>3 DEF Outcome
<1> QED
  BY <1>2, <1>3, <1>4 DEF Abstract!Settle

\* ErrorReports counts with the same Cardinality.
LEMMA SameCardinality ==
  ASSUME NEW S
  PROVE  Abstract!Cardinality(S) = Cardinality(S)
BY DEF Abstract!Cardinality, Cardinality

LEMMA StepImplements ==
  ASSUME TypeOK, Ledger, Next
  PROVE  Abstract!RNext \/ UNCHANGED Abstract!reportVars
<1>1. CASE Stays
  BY <1>1 DEF Stays, trackerVars, Abstract!reportVars, Outcome
<1>2. ASSUME NEW e \in Errors, NEW k \in Nat, Tracks(e, k)
      PROVE  Abstract!RNext
  <2>1. /\ history' = Append(history, e) /\ fate' = Append(fate, "table")
        /\ totals' = totals /\ e \in Errors \ Ignored
    BY <1>2 DEF Tracks, Track
  <2>2. fate \in Seq(Places)
    BY DEF TypeOK
  <2>3. /\ Len(fate) \in Nat /\ DOMAIN fate = 1 .. Len(fate)
        /\ DOMAIN fate' = 1 .. Len(fate) + 1
        /\ \A n \in 1 .. Len(fate) : fate'[n] = fate[n]
        /\ fate'[Len(fate) + 1] = "table"
    BY <2>1, <2>2, Appended
  <2> DEFINE O == {"pending", "delivered", "lost"}
  <2>4. /\ Outcome \in Seq(O) /\ Len(Outcome) = Len(fate)
        /\ \A n \in 1 .. Len(fate) : Outcome[n] = OutcomeOf(fate[n])
    BY <2>3 DEF Outcome, OutcomeOf
  <2>5. /\ Append(Outcome, "pending") \in Seq(O)
        /\ Len(Append(Outcome, "pending")) = Len(fate) + 1
        /\ \A n \in 1 .. Len(fate) : Append(Outcome, "pending")[n] = OutcomeOf(fate[n])
        /\ Append(Outcome, "pending")[Len(fate) + 1] = "pending"
    BY <2>4, Appended
  <2>6. /\ Outcome' \in Seq(O) /\ Len(Outcome') = Len(fate) + 1
        /\ \A n \in 1 .. Len(fate) + 1 : Outcome'[n] = OutcomeOf(fate'[n])
    BY <2>3 DEF Outcome, OutcomeOf
  <2>7. \A n \in 1 .. Len(fate) + 1 : Outcome'[n] = Append(Outcome, "pending")[n]
    BY <2>3, <2>5, <2>6, OutcomeOfFate
  <2>8. Outcome' = Append(Outcome, "pending")
    BY <2>5, <2>6, <2>7, SeqEqual
  <2> QED
    BY <2>1, <2>8 DEF Abstract!RNext, Abstract!Occur
<1>3. ASSUME NEW t \in Tasks, Drains(t)
      PROVE  UNCHANGED Abstract!reportVars
  <2>1. Outcome' = Outcome
    BY <1>3, MovedOutcome, OutcomeOfFate DEF Drains, Drain
  <2> QED
    BY <1>3, <2>1 DEF Drains, Drain, Abstract!reportVars
<1>4. ASSUME NEW t \in Tasks, Drops(t)
      PROVE  Abstract!RNext \/ UNCHANGED Abstract!reportVars
  <2> DEFINE S == {n \in DOMAIN history : fate[n] = t}
  <2>1. /\ Moved(t, "lost") /\ history' = history /\ totals' = totals
    BY <1>4 DEF Drops, Drop
  <2>2. CASE S = {}
    BY <2>1, <2>2, SettleStep DEF Abstract!reportVars
  <2>3. CASE S # {}
    <3>1. S \in SUBSET Abstract!Pending /\ Abstract!Settle(S, "lost")
      BY <2>1, <2>3, SettleStep, OutcomeOfFate
    <3> QED
      BY <2>1, <3>1 DEF Abstract!RNext, Abstract!Lose
  <2> QED
    BY <2>2, <2>3
<1>5. ASSUME NEW t \in Tasks, Takes(t)
      PROVE  Abstract!RNext \/ UNCHANGED Abstract!reportVars
  <2> DEFINE S == {n \in DOMAIN history : fate[n] = t}
  <2>1. /\ Moved(t, "server") /\ history' = history
        /\ totals' = [e \in Errors |-> totals[e] + report[t][e]]
    BY <1>5 DEF Takes
  <2>2. /\ totals \in [Errors -> Nat]
        /\ \A e \in Errors : report[t][e] = Cardinality({n \in S : history[n] = e})
    <3>1. \A e \in Errors : At(t, e) = {n \in S : history[n] = e}
      BY DEF At
    <3> QED
      BY <1>5, <3>1 DEF Takes, Ledger, ReportIsWhole, TypeOK
  <2>3. CASE S = {}
    <3>1. \A e \in Errors : report[t][e] = 0
      BY <2>2, <2>3, FS_EmptySet
    <3>2. totals' = totals
      BY <2>1, <2>2, <3>1
    <3> QED
      BY <2>1, <2>3, <3>2, SettleStep DEF Abstract!reportVars
  <2>4. CASE S # {}
    <3>1. S \in SUBSET Abstract!Pending /\ Abstract!Settle(S, "delivered")
      BY <2>1, <2>4, SettleStep, OutcomeOfFate
    <3>2. \A e \in Errors : totals'[e] = totals[e] + Cardinality({n \in S : history[n] = e})
      BY <2>1, <2>2
    <3> HIDE DEF S
    <3>3. [e \in Errors \ Ignored |-> totals'[e]] =
            [e \in Errors \ Ignored |-> [x \in Errors \ Ignored |-> totals[x]][e]
                                         + Cardinality({n \in S : history[n] = e})]
      BY <3>2
    <3> QED
      BY <3>1, <3>3, SameCardinality DEF Abstract!RNext, Abstract!Deliver
  <2> QED
    BY <2>3, <2>4
<1> QED
  BY StepKind, <1>1, <1>2, <1>3, <1>4, <1>5

\* Whatever is tracked, drained, sent, refused or aborted: each occurrence is
\* delivered at most once, and the totals of the server count the delivered.
THEOREM ErrorTrackingImplementsErrorReports == Spec => ImplementsErrorReports
<1>1. Init => Abstract!RInit
  BY DEF Init, MetricsInit, Nothing, Outcome, Abstract!RInit
<1>2. Inductive /\ [Next]_errorVars => [Abstract!RNext]_(Abstract!reportVars)
  <2>1. Inductive /\ Next => Abstract!RNext \/ UNCHANGED Abstract!reportVars
    BY StepImplements DEF Inductive, Ledger
  <2>2. UNCHANGED errorVars => UNCHANGED Abstract!reportVars
    BY DEF errorVars, trackerVars, Abstract!reportVars, Outcome
  <2> QED
    BY <2>1, <2>2
<1> QED
  BY <1>1, <1>2, ErrorTrackingInductive, PTL DEF Spec, ImplementsErrorReports, Abstract!RSpec
============================================================================
