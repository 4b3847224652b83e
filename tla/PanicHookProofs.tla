-------------------------- MODULE PanicHookProofs --------------------------
(***************************************************************************)
(* Proofs about PanicHook, for every number of threads and trackers.       *)
(***************************************************************************)
EXTENDS PanicHook, TLAPS

\* A call of one hook, and of another within it.
LEMMA OneCall ==
  ASSUME NEW h \in Hooks
  PROVE  <<h>> \in Seq(Hooks) /\ Len(<<h>>) = 1 /\ <<h>>[1] = h /\ <<h>> # <<>>
OBVIOUS

LEMMA CalledWithin ==
  ASSUME NEW s \in Seq(Hooks), NEW h \in Hooks, s # <<>>
  PROVE  /\ Append(s, h) \in Seq(Hooks) /\ Len(Append(s, h)) = Len(s) + 1
         /\ Append(s, h) # <<>> /\ Append(s, h)[1] = s[1]
         /\ Append(s, h)[Len(s) + 1] = h
         /\ Len(s) \in Nat \ {0}
OBVIOUS

LEMMA Lengths ==
  ASSUME TypeOK, NEW u \in Threads
  PROVE  /\ calls[u] \in Seq(Hooks) /\ Len(calls[u]) \in Nat
         /\ calls[u] = <<>> <=> Len(calls[u]) = 0
BY DEF TypeOK

LEMMA NoCalls == <<>> \in Seq(Hooks) /\ Len(<<>>) = 0
OBVIOUS

-----------------------------------------------------------------------------
(* The steps *)

LEMMA TypesStep ==
  ASSUME TypeOK, Roles, Next
  PROVE  TypeOK'
<1> USE PanicHookAssumption DEF TypeOK, Steps
<1>1. ASSUME NEW u \in Threads, NEW k \in Trackers, Install(u, k) \/ Detach(u, k)
      PROVE  TypeOK'
  BY <1>1 DEF Install, Detach
<1>2. ASSUME NEW u \in Threads, Take(u)
      PROVE  TypeOK'
  BY <1>2 DEF Take, Hooks
<1>3. ASSUME NEW u \in Threads, Store(u)
      PROVE  TypeOK'
  BY <1>3 DEF Store
<1>4. ASSUME NEW u \in Threads, Set(u)
      PROVE  TypeOK'
  <2>1. on[u] \in Trackers
    BY <1>4 DEF Set, Roles
  <2> QED
    BY <1>4, <2>1 DEF Set, Hooks
<1>5. ASSUME NEW u \in Threads, Restore(u)
      PROVE  TypeOK'
  BY <1>5 DEF Restore
<1>6. ASSUME NEW u \in Threads, NEW h \in Hooks, Out(u, h)
      PROVE  TypeOK'
  BY <1>6 DEF Out
<1>7. ASSUME NEW u \in Threads, Put(u)
      PROVE  TypeOK'
  BY <1>6, <1>7 DEF Put, Roles
<1>8. ASSUME NEW u \in Threads, Remove(u)
      PROVE  TypeOK'
  BY <1>6, <1>8 DEF Remove, Hooks
<1>9. ASSUME NEW u \in Threads, Panic(u)
      PROVE  TypeOK'
  BY <1>9, OneCall DEF Panic
<1>10. ASSUME NEW u \in Threads, Return(u)
       PROVE  TypeOK'
  BY <1>10, NoCalls DEF Return
<1>11. ASSUME NEW u \in Threads, Chain(u)
       PROVE  TypeOK'
  <2>1. CASE previous = None
    BY <1>10, <1>11, <2>1 DEF Chain
  <2>2. CASE previous # None
    <3>1. Append(calls[u], previous) \in Seq(Hooks)
      BY <1>11, <2>2, CalledWithin DEF Chain, Panicking
    <3> QED
      BY <1>11, <2>2, <3>1 DEF Chain
  <2> QED
    BY <2>1, <2>2
<1> QED
  BY <1>1, <1>2, <1>3, <1>4, <1>5, <1>7, <1>8, <1>9, <1>10, <1>11 DEF Next, Proceed, Finish

\* One thread at a time is at work on a tracker.
LEMMA RolesStep ==
  ASSUME TypeOK, Roles, Next
  PROVE  Roles'
<1> USE PanicHookAssumption
<1> DEFINE Typed == /\ installed \in [Trackers -> BOOLEAN]
                    /\ at \in [Threads -> Steps]
                    /\ on \in [Threads -> Trackers \cup {None}]
                    /\ saved \in [Threads -> Hooks \cup {None}]
                    /\ hook # None
<1>0. Typed
  BY DEF TypeOK, Hooks
<1>c. \A u \in Threads : DOMAIN calls = Threads
  BY DEF TypeOK
<1>1. ASSUME NEW u \in Threads, NEW k \in Trackers, Install(u, k) \/ Detach(u, k)
      PROVE  Roles'
  BY <1>0, <1>1 DEF Install, Detach, Roles, Free, Busy, Panicking
<1>2. ASSUME NEW u \in Threads, Take(u) \/ Store(u) \/ Restore(u)
      PROVE  Roles'
  BY <1>0, <1>2 DEF Take, Store, Restore, Roles, Panicking
<1>3. ASSUME NEW u \in Threads, NEW b \in BOOLEAN,
             at[u] # "done", at' = [at EXCEPT ![u] = "done"], on' = [on EXCEPT ![u] = None],
             installed' = [installed EXCEPT ![on[u]] = b], calls' = calls,
             saved' = saved \/ saved' = [saved EXCEPT ![u] = None]
      PROVE  Roles'
  BY <1>0, <1>3 DEF Roles, Panicking
<1>4. ASSUME NEW u \in Threads, Set(u) \/ Put(u) \/ Remove(u)
      PROVE  Roles'
  <2>1. at[u] # "done" /\ at' = [at EXCEPT ![u] = "done"] /\ on' = [on EXCEPT ![u] = None]
    BY <1>4 DEF Set, Put, Remove, Out
  <2>2. /\ \E b \in BOOLEAN : installed' = [installed EXCEPT ![on[u]] = b]
        /\ calls' = calls /\ (saved' = saved \/ saved' = [saved EXCEPT ![u] = None])
    BY <1>4 DEF Set, Put, Remove, Out
  <2> QED
    BY <2>1, <2>2, <1>3
<1>5. ASSUME NEW u \in Threads, at[u] = "done",
             UNCHANGED <<installed, at, on, saved>>,
             \A v \in Threads \ {u} : calls'[v] = calls[v]
      PROVE  Roles'
  BY <1>0, <1>5 DEF Roles, Panicking
<1>6. ASSUME NEW u \in Threads, Panic(u) \/ Chain(u) \/ Finish(u)
      PROVE  Roles'
  <2>1. at[u] = "done" /\ UNCHANGED <<installed, at, on, saved>>
    BY <1>6 DEF Panic, Chain, Finish, Return, Free, Roles
  <2>2. \A v \in Threads \ {u} : calls'[v] = calls[v]
    BY <1>6, <1>c DEF Panic, Chain, Finish, Return
  <2> QED
    BY <2>1, <2>2, <1>5
<1> QED
  BY <1>1, <1>2, <1>4, <1>6 DEF Next, Proceed

\* A call changes the hook of its own thread only.
LEMMA CallsOfOthers ==
  ASSUME TypeOK, NEW u \in Threads, Panic(u) \/ Chain(u) \/ Finish(u)
  PROVE  \A v \in Threads \ {u} : calls'[v] = calls[v]
BY DEF Panic, Chain, Finish, Return, TypeOK

\* A panic has called one hook, or two and then it holds the mutex.
LEMMA CalledStep ==
  ASSUME TypeOK, Roles, Called, Next
  PROVE  Called'
<1> DEFINE Fits(c) == /\ c # <<>> => c[1] = hook
                      /\ Len(c) <= 2
                      /\ Len(c) = 2 => c[2] = previous /\ previous # None /\ hook \in Trackers
           Fitted(c) == /\ c # <<>> => c[1] = hook'
                        /\ Len(c) <= 2
                        /\ Len(c) = 2 => c[2] = previous' /\ previous' # None /\ hook' \in Trackers
<1>1. /\ \A u \in Threads : /\ Len(calls[u]) \in Nat /\ calls[u] \in Seq(Hooks)
                             /\ calls[u] = <<>> <=> Len(calls[u]) = 0
      /\ at \in [Threads -> Steps] /\ calls \in [Threads -> Seq(Hooks)]
      /\ hook \in Hooks
  BY Lengths DEF TypeOK
<1>2. Len(<<>>) = 0 /\ Fitted(<<>>)
  BY NoCalls
<1>3. ASSUME NEW u \in Threads
      PROVE  Fits(calls[u])
  BY DEF Called, Panicking
<1>4. ASSUME \A u \in Threads : Fitted(calls'[u]),
             \A u, v \in Threads : Holds(u)' /\ Holds(v)' => u = v
      PROVE  Called'
  BY <1>4 DEF Called, Panicking
<1>5. ASSUME NEW u \in Threads, calls' = calls, NEW step, at' = [at EXCEPT ![u] = step],
             step = "put" => ~PreviousIsHeld,
             hook' = hook \/ NoneRuns, previous' = previous \/ ~PreviousIsHeld
      PROVE  Called'
  <2>1. \A v \in Threads : Fitted(calls'[v])
    <3>1. CASE NoneRuns
      BY <1>1, <1>2, <1>5, <3>1 DEF NoneRuns, Panicking
    <3>2. CASE hook' = hook /\ previous' = previous
      BY <1>3, <1>5, <3>2
    <3>3. CASE hook' = hook /\ ~PreviousIsHeld
      <4>1. \A v \in Threads : ~(Len(calls[v]) > 1)
        BY <3>3 DEF PreviousIsHeld, Holds
      <4> QED
        BY <1>1, <1>3, <1>5, <3>3, <4>1
    <3> QED
      BY <1>5, <3>1, <3>2, <3>3
  <2>2. \A v \in Threads : Holds(v)' => Holds(v) \/ (v = u /\ step = "put")
    BY <1>1, <1>5 DEF Holds
  <2>3. \A v, w \in Threads : Holds(v)' /\ Holds(w)' => v = w
    BY <1>5, <2>2 DEF Called, PreviousIsHeld
  <2> QED
    BY <1>4, <2>1, <2>3
<1>6. ASSUME NEW u \in Threads, NEW k \in Trackers, Install(u, k) \/ Detach(u, k)
      PROVE  Called'
  BY <1>5, <1>6 DEF Install, Detach
<1>7. ASSUME NEW u \in Threads, Proceed(u)
      PROVE  Called'
  <2>1. CASE Take(u)
    BY <1>5, <2>1 DEF Take
  <2>2. CASE Store(u)
    BY <1>5, <2>2 DEF Store
  <2>3. CASE Set(u)
    BY <1>5, <2>3 DEF Set
  <2>4. CASE Restore(u)
    BY <1>5, <2>4 DEF Restore
  <2>5. CASE Put(u) \/ Remove(u)
    BY <1>5, <2>5 DEF Put, Remove, Out
  <2> QED
    BY <1>7, <2>1, <2>2, <2>3, <2>4, <2>5 DEF Proceed
<1>8. ASSUME NEW u \in Threads, Panic(u) \/ Chain(u) \/ Finish(u),
             Fitted(calls'[u]), Len(calls'[u]) > 1 => ~PreviousIsHeld
      PROVE  Called'
  <2>1. hook' = hook /\ previous' = previous /\ at' = at
    BY <1>8 DEF Panic, Chain, Finish, Return
  <2>2. at[u] = "done"
    BY <1>8 DEF Panic, Chain, Finish, Free, Roles
  <2>3. \A v \in Threads : Fitted(calls'[v])
    BY <1>3, <1>8, <2>1, CallsOfOthers
  <2>4. \A v \in Threads : Holds(v)' => Holds(v) \/ (v = u /\ ~PreviousIsHeld)
    BY <1>8, <2>1, <2>2, CallsOfOthers DEF Holds
  <2>5. \A v, w \in Threads : Holds(v)' /\ Holds(w)' => v = w
    BY <2>4 DEF Called, PreviousIsHeld
  <2> QED
    BY <1>4, <2>3, <2>5
<1>9. ASSUME NEW u \in Threads, Panic(u)
      PROVE  Called'
  <2>1. calls'[u] = <<hook>> /\ hook' = hook /\ previous' = previous
    BY <1>1, <1>9 DEF Panic
  <2>2. /\ Len(<<hook>>) = 1 /\ <<hook>>[1] = hook
    BY <1>1, OneCall
  <2>3. Fitted(calls'[u]) /\ ~(Len(calls'[u]) > 1)
    BY <2>1, <2>2
  <2> HIDE DEF Fitted
  <2> QED
    BY <1>8, <1>9, <2>3
<1>10. ASSUME NEW u \in Threads, Chain(u) \/ Finish(u), calls'[u] = <<>>
       PROVE  Called'
  BY <1>2, <1>8, <1>10
<1>11. ASSUME NEW u \in Threads, Chain(u), previous # None
       PROVE  Called'
  <2>0. /\ calls[u] # <<>> /\ ~PreviousIsHeld /\ Running(u) \in Trackers
        /\ calls' = [calls EXCEPT ![u] = Append(calls[u], previous)]
        /\ hook' = hook /\ previous' = previous
    BY <1>11 DEF Chain, Panicking
  <2>5. previous \in Hooks /\ ~(Len(calls[u]) > 1)
    BY <1>11, <2>0 DEF TypeOK, PreviousIsHeld, Holds
  <2>1. /\ calls[u] # <<>> /\ ~(Len(calls[u]) > 1) /\ ~PreviousIsHeld
        /\ calls'[u] = Append(calls[u], previous) /\ previous \in Hooks
        /\ hook' = hook /\ previous' = previous
        /\ Running(u) \in Trackers
    BY <1>1, <2>0, <2>5
  <2>7. /\ calls[u] \in Seq(Hooks) /\ Len(calls[u]) \in Nat
        /\ calls[u] = <<>> <=> Len(calls[u]) = 0
    BY Lengths
  <2>2. Len(calls[u]) = 1
    <3>1. calls[u] # <<>> /\ ~(Len(calls[u]) > 1)
      BY <2>1
    <3>2. Len(calls[u]) # 0
      BY <2>7, <3>1
    <3>3. \A n \in Nat : n # 0 /\ ~(n > 1) => n = 1
      OBVIOUS
    <3> QED
      BY <2>7, <3>1, <3>2, <3>3
  <2>3. calls[u][1] = hook /\ hook \in Trackers
    BY <1>3, <2>1, <2>2 DEF Running
  <2>4. /\ Append(calls[u], previous)[1] = calls[u][1] /\ Append(calls[u], previous)[2] = previous
        /\ Len(Append(calls[u], previous)) = 2
    BY <2>1, <2>2, <2>7, CalledWithin
  <2>6. Fitted(calls'[u])
    BY <1>11, <2>1, <2>3, <2>4
  <2> HIDE DEF Fitted
  <2> QED
    BY <1>8, <1>11, <2>1, <2>6
<1>12. ASSUME NEW u \in Threads, Chain(u) \/ Finish(u)
       PROVE  Called'
  <2>1. calls'[u] = <<>> \/ (Chain(u) /\ previous # None)
    BY <1>1, <1>12 DEF Chain, Finish, Return
  <2> QED
    BY <1>10, <1>11, <1>12, <2>1
<1> QED
  BY <1>6, <1>7, <1>9, <1>12 DEF Next

\* With one tracker at a time, the application's hook is where it belongs.
LEMMA AloneStep ==
  ASSUME TypeOK, Roles, Called, ~overlap => Alone, Next, ~overlap'
  PROVE  Alone'
<1> USE PanicHookAssumption
<1>1. ~overlap
  BY DEF Next, Install, Detach, Proceed, Take, Store, Set, Restore, Put, Remove, Out, Panic,
         Chain, Finish, Return
<1>2. Alone
  BY <1>1
<1>3. /\ installed \in [Trackers -> BOOLEAN] /\ at \in [Threads -> Steps]
      /\ on \in [Threads -> Trackers \cup {None}]
      /\ saved \in [Threads -> Hooks \cup {None}]
  BY DEF TypeOK
<1>4. ASSUME NEW u \in Threads, NEW k \in Trackers, Install(u, k)
      PROVE  Alone'
  BY <1>1, <1>2, <1>3, <1>4 DEF Install, Alone, Busy, Free, Roles
<1>5. ASSUME NEW u \in Threads, NEW k \in Trackers, Detach(u, k)
      PROVE  Alone'
  BY <1>1, <1>2, <1>3, <1>5 DEF Detach, Alone, Busy, Free, Roles
<1>6. ASSUME NEW u \in Threads, Take(u)
      PROVE  Alone'
  BY <1>2, <1>3, <1>6 DEF Take, Alone, Busy, Roles
<1>7. ASSUME NEW u \in Threads, Store(u)
      PROVE  Alone'
  BY <1>2, <1>3, <1>7 DEF Store, Alone, Busy, Roles
<1>8. ASSUME NEW u \in Threads, Set(u)
      PROVE  Alone'
  BY <1>2, <1>3, <1>8 DEF Set, Alone, Busy, Roles
<1>9. ASSUME NEW u \in Threads, Restore(u)
      PROVE  Alone'
  BY <1>2, <1>3, <1>9 DEF Restore, Alone, Busy, Roles
<1>10. ASSUME NEW u \in Threads, Put(u)
       PROVE  Alone'
  BY <1>2, <1>3, <1>10 DEF Put, Out, Alone, Busy, Roles
<1>11. ASSUME NEW u \in Threads, Remove(u)
       PROVE  Alone'
  BY <1>2, <1>3, <1>11 DEF Remove, Alone
<1>12. ASSUME NEW u \in Threads, Panic(u) \/ Chain(u) \/ Finish(u)
       PROVE  Alone'
  BY <1>2, <1>12 DEF Panic, Chain, Finish, Return, Alone, Busy
<1> QED
  BY <1>4, <1>5, <1>6, <1>7, <1>8, <1>9, <1>10, <1>11, <1>12 DEF Next, Proceed

-----------------------------------------------------------------------------
(* The theorems *)

LEMMA InitInductive ==
  ASSUME Init
  PROVE  Inductive
<1> USE PanicHookAssumption DEF Init
<1>1. TypeOK
  BY NoCalls DEF TypeOK, Hooks, Steps
<1>2. Roles /\ Alone
  BY DEF Roles, Alone, Busy, Panicking
<1>3. ASSUME NEW u \in Threads
      PROVE  calls[u] = <<>> /\ Len(calls[u]) = 0 /\ ~Holds(u)
  <2>1. calls[u] = <<>> /\ at[u] = "done"
    OBVIOUS
  <2>2. Len(calls[u]) = 0
    BY <2>1, NoCalls
  <2> QED
    BY <2>1, <2>2 DEF Holds
<1>5. \A n : n = 0 => n <= 2 /\ n # 2
  OBVIOUS
<1>4. Called
  BY <1>3, <1>5 DEF Called, Panicking
<1> QED
  BY <1>1, <1>2, <1>4 DEF Inductive

LEMMA NextInductive ==
  ASSUME Inductive, [Next]_vars
  PROVE  Inductive'
<1>1. CASE Next
  BY <1>1, TypesStep, RolesStep, CalledStep, AloneStep DEF Inductive
<1>2. CASE UNCHANGED vars
  BY <1>2 DEF vars, Inductive, TypeOK, Roles, Called, Alone, Busy, Holds, Panicking
<1> QED
  BY <1>1, <1>2

\* The inductive invariant holds in every state.
THEOREM PanicHookInductive == Spec => []Inductive
<1>1. Init => Inductive
  BY InitInductive
<1>2. Inductive /\ [Next]_vars => Inductive'
  BY NextInductive
<1> QED
  BY <1>1, <1>2, PTL DEF Spec

\* With one tracker at a time, install and detach leave the right hook in place.
THEOREM HookIsInPlace == Spec => []HookInPlace
<1>1. Inductive => HookInPlace
  BY DEF Inductive, HookInPlace, Alone
<1> QED
  BY <1>1, PanicHookInductive, PTL

\* The hook of a tracker is in place while the tracker is installed, and then the
\* application's is the previous one, or about to be set again.
LEMMA HookOfTracker ==
  ASSUME Inductive, ~overlap, hook \in Trackers
  PROVE  installed[hook] /\ (previous = Original \/ \E v \in Threads : at[v] = "put")
<1>1. hook \notin {Original, Default} /\ None \notin Trackers
  BY PanicHookAssumption
<1>2. Alone /\ Roles /\ at \in [Threads -> Steps]
  BY DEF Inductive, TypeOK
<1>3. ASSUME NEW k \in Trackers, Busy(k)
      PROVE  installed[k]
  <2>1. PICK v \in Threads : on[v] = k
    BY <1>3 DEF Busy
  <2>2. at[v] # "done" /\ at[v] \notin {"take", "store", "set"}
    BY <1>1, <1>2, <2>1 DEF Alone, Roles
  <2> QED
    BY <1>2, <2>1, <2>2 DEF Roles, Steps
<1>4. installed[hook]
  BY <1>1, <1>2, <1>3 DEF Alone
<1> QED
  BY <1>1, <1>2, <1>4 DEF Alone

\* With one tracker at a time, its hook never leaves out the application's.
THEOREM PreviousIsAlwaysCalled == Spec => PreviousIsCalled
<1> DEFINE Skips == \A u \in Threads :
             ~overlap /\ Panicking(u) /\ calls'[u] = <<>> /\ calls[u][1] \in Trackers
               => calls[u] = <<calls[u][1], Original>>
<1>1. ASSUME Inductive, [Next]_vars
      PROVE  Skips
  <2>1. SUFFICES ASSUME NEW u \in Threads, ~overlap, Panicking(u), calls'[u] = <<>>,
                        calls[u][1] \in Trackers
                 PROVE  calls[u] = <<calls[u][1], Original>>
    OBVIOUS
  <2>2. /\ calls[u] \in Seq(Hooks) /\ Len(calls[u]) \in Nat /\ Len(calls[u]) <= 2
        /\ calls[u] # <<>> /\ Len(calls[u]) # 0 /\ calls[u][1] = hook
        /\ Len(calls[u]) = 2 => calls[u][2] = previous
    BY <1>1, <2>1, Lengths DEF Inductive, Called, Panicking
  <2>3. Len(calls[u]) = 1 \/ Len(calls[u]) = 2
    <3>1. \A n \in Nat : n # 0 /\ n <= 2 => n = 1 \/ n = 2
      OBVIOUS
    <3> QED
      BY <2>2, <3>1
  <2>4. previous = Original \/ \E v \in Threads : at[v] = "put"
    <3>1. hook \in Trackers
      BY <2>1, <2>2
    <3> QED
      BY <1>1, <2>1, <3>1, HookOfTracker
  <2>5. (Chain(u) /\ previous = None) \/ Finish(u)
    <3>1. calls \in [Threads -> Seq(Hooks)] /\ hook \in Hooks
      BY <1>1 DEF Inductive, TypeOK
    <3>2. ~(calls' = calls)
      BY <2>1 DEF Panicking
    <3>3. PICK v \in Threads : Panic(v) \/ Chain(v) \/ Finish(v)
      BY <1>1, <3>2 DEF Next, vars, Install, Detach, Proceed, Take, Store, Set, Restore, Put,
                        Remove, Out
    <3>4. v = u
      BY <1>1, <2>1, <3>3, CallsOfOthers DEF Inductive, Panicking
    <3>5. ~Panic(u)
      BY <2>1 DEF Panic, Free
    <3>6. ASSUME Chain(u), previous # None
          PROVE  FALSE
      <4>1. calls'[u] = Append(calls[u], previous) /\ previous \in Hooks
        BY <1>1, <3>1, <3>6 DEF Chain, Inductive, TypeOK
      <4> QED
        BY <2>1, <2>2, <4>1, CalledWithin
    <3> QED
      BY <3>3, <3>4, <3>5, <3>6
  <2>6. Finish(u)
    <3>1. ~Chain(u) \/ previous # None
      BY <2>4, PanicHookAssumption DEF Chain, PreviousIsHeld, Holds
    <3> QED
      BY <2>5, <3>1
  <2>7. Len(calls[u]) = 2
    BY <2>1, <2>2, <2>3, <2>6 DEF Finish, Running
  <2>8. previous = Original
    <3>1. Holds(u)
      BY <2>2, <2>7 DEF Holds
    <3>2. ASSUME NEW v \in Threads, at[v] = "put"
          PROVE  FALSE
      <4>1. Holds(v)
        BY <3>2 DEF Holds
      <4>2. u = v
        BY <1>1, <3>1, <4>1 DEF Inductive, Called
      <4>3. at[u] = "done"
        BY <1>1, <2>1 DEF Inductive, Roles
      <4> QED
        BY <3>2, <4>2, <4>3
    <3> QED
      BY <2>4, <3>2
  <2>9. calls[u] \in Seq(Hooks) /\ Len(calls[u]) = 2 /\ calls[u][2] = Original
    BY <2>2, <2>7, <2>8
  <2> QED
    BY <2>9
<1> QED
  BY <1>1, PanicHookInductive, PTL DEF Spec, PreviousIsCalled

\* With one tracker at a time there is one way into a deadlock, that of a detach and a
\* panic: whoever else waits, waits for a thread that goes on.
THEOREM DeadlockNeedsDetach == Spec => []OnlyDetachDeadlocks
<1>1. ASSUME Inductive, ~overlap, Deadlocked
      PROVE  \E u, v \in Threads : at[v] = "put" /\ calls[u] = <<on[v]>>
  <2>1. TypeOK /\ Roles /\ Called /\ Alone
    BY <1>1 DEF Inductive
  <2>2. ~NoneRuns
    <3> SUFFICES ASSUME NoneRuns
                 PROVE  FALSE
      OBVIOUS
    <3>1. PICK w \in Threads : ~Free(w) /\ Waits(w)
      BY <1>1 DEF Deadlocked
    <3>2. PreviousIsHeld
      BY <3>1 DEF Waits, NoneRuns
    <3>3. PICK v \in Threads : Holds(v)
      BY <3>2 DEF PreviousIsHeld
    <3>4. calls[v] = <<>>
      BY DEF NoneRuns, Panicking
    <3>5. at[v] = "put"
      BY <2>1, <3>3, <3>4, Lengths DEF Holds
    <3>6. ~Free(v) /\ ~Panicking(v)
      BY <3>4, <3>5 DEF Free, Panicking
    <3> QED
      BY <1>1, <3>5, <3>6 DEF Deadlocked, Waits
  <2>3. PICK u \in Threads : Panicking(u)
    BY <2>2 DEF NoneRuns
  \* Whoever is in a panic waits for the mutex.
  <2>4. ASSUME NEW w \in Threads, Panicking(w)
        PROVE  at[w] = "done" /\ Running(w) \in Trackers /\ PreviousIsHeld
    BY <1>1, <2>1, <2>4 DEF Deadlocked, Waits, Free, Roles
  <2>5. \A w \in Threads : Panicking(w) => calls[w][1] = hook
    BY <2>1 DEF Called
  <2>6. PICK v \in Threads : Holds(v)
    BY <2>3, <2>4 DEF PreviousIsHeld
  \* It is not held by a hook: the hook's previous one is the application's, and ends.
  <2>7. at[v] = "put"
    <3> SUFFICES ASSUME at[v] # "put"
                 PROVE  FALSE
      OBVIOUS
    <3>1. /\ Len(calls[v]) \in Nat /\ Len(calls[v]) > 1 /\ Len(calls[v]) <= 2
          /\ calls[v] = <<>> <=> Len(calls[v]) = 0
      <4>1. Len(calls[v]) \in Nat /\ (calls[v] = <<>> <=> Len(calls[v]) = 0)
        BY <2>1, Lengths
      <4> QED
        BY <2>1, <2>6, <4>1 DEF Holds, Called
    <3>2. Len(calls[v]) = 2 /\ Panicking(v)
      <4>1. \A n \in Nat : n > 1 /\ n <= 2 => n = 2 /\ n # 0
        OBVIOUS
      <4> QED
        BY <3>1, <4>1 DEF Panicking
    <3>3. Running(v) = previous /\ hook \in Trackers
      BY <2>1, <3>2 DEF Called, Running
    <3>4. \A w \in Threads : at[w] # "put"
      BY <2>1, <2>6 DEF Called, Holds
    <3>5. previous = Original
      BY <1>1, <3>3, <3>4, HookOfTracker
    <3> QED
      BY <2>4, <3>2, <3>3, <3>5, PanicHookAssumption
  <2>8. ~Panicking(v) /\ ~Holds(u)
    <3>1. ~Panicking(v)
      BY <2>1, <2>7 DEF Roles
    <3> QED
      BY <2>1, <2>3, <2>6, <3>1 DEF Called
  <2>9. calls[u] \in Seq(Hooks) /\ Len(calls[u]) = 1 /\ calls[u][1] = hook
    <3>1. calls[u] \in Seq(Hooks) /\ Len(calls[u]) \in Nat /\ Len(calls[u]) # 0
      BY <2>1, <2>3, Lengths DEF Panicking
    <3>2. ~(Len(calls[u]) > 1)
      BY <2>8 DEF Holds
    <3>3. \A n \in Nat : n # 0 /\ ~(n > 1) => n = 1
      OBVIOUS
    <3> QED
      BY <2>3, <2>5, <3>1, <3>2, <3>3
  <2>10. hook \in Trackers
    BY <2>3, <2>4, <2>9 DEF Running
  <2>11. installed[on[v]] /\ on[v] \in Trackers
    BY <2>1, <2>7, PanicHookAssumption DEF Roles, TypeOK
  <2>12. hook = on[v]
    BY <2>1, <2>11 DEF Alone
  <2>13. calls[u] = <<on[v]>>
    BY <2>9, <2>12
  <2> QED
    BY <2>7, <2>13
<1>2. Inductive => OnlyDetachDeadlocks
  BY <1>1 DEF OnlyDetachDeadlocks
<1> QED
  BY <1>2, PanicHookInductive, PTL

\* The variables have their types.
THEOREM PanicHookTypeCorrect == Spec => []TypeOK
<1>1. Inductive => TypeOK
  BY DEF Inductive
<1> QED
  BY <1>1, PanicHookInductive, PTL
============================================================================
