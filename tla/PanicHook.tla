----------------------------- MODULE PanicHook -----------------------------
(***************************************************************************)
(* install_panic_hook and detach of src/src/error_tracking/service.rs, and *)
(* the hook itself: several error trackers of a process, several threads,  *)
(* and three kinds of locks.                                               *)
(*                                                                         *)
(*   panic_hook_installed  one mutex per tracker, held by install and      *)
(*                         detach from beginning to end;                   *)
(*   PREVIOUS_HOOK         one mutex for the process: a hook holds it      *)
(*                         while it calls the previous one, and detach     *)
(*                         while it sets it (the guard lives as long as    *)
(*                         the body of the `if let`);                      *)
(*   the lock of std::panic around the process's hook (external): a        *)
(*                         panicking thread holds it for reading while the *)
(*                         hook runs, set_hook and take_hook need it for   *)
(*                         writing.                                        *)
(*                                                                         *)
(* Who holds a lock follows from where the threads are.  The application   *)
(* sets no hook after the first tracker has installed its own.             *)
(***************************************************************************)
EXTENDS Naturals, Sequences

CONSTANTS
  Threads,
  Trackers,   \* a tracker stands for its hook as well
  Original,   \* the hook the application has set
  Default,    \* what take_hook leaves behind
  None

ASSUME PanicHookAssumption ==
  {Original, Default, None} \cap Trackers = {} /\ None \notin {Original, Default}

VARIABLES
  hook,       \* the process's hook
  previous,   \* what PREVIOUS_HOOK contains
  installed,  \* installed[k]: the flag of tracker k
  at,         \* at[u]: the step of install or detach that thread u comes to
  on,         \* on[u]: the tracker it is installing or detaching, or None
  saved,      \* saved[u]: the hook it has taken and not yet stored or set
  calls,      \* calls[u]: the hooks that its panic has called, outermost first
  overlap     \* history: a tracker began to install beside another

vars == <<hook, previous, installed, at, on, saved, calls, overlap>>

Hooks == Trackers \cup {Original, Default}

Init ==
  /\ hook = Original /\ previous = None
  /\ installed = [k \in Trackers |-> FALSE]
  /\ at = [u \in Threads |-> "done"]
  /\ on = [u \in Threads |-> None]
  /\ saved = [u \in Threads |-> None]
  /\ calls = [u \in Threads |-> <<>>]
  /\ overlap = FALSE

-----------------------------------------------------------------------------
(* The locks *)

Panicking(u) == calls[u] # <<>>

\* A thread that may begin something.
Free(u) == at[u] = "done" /\ ~Panicking(u)

\* The mutex panic_hook_installed of k is held.
Busy(k) == \E u \in Threads : on[u] = k

\* The mutex PREVIOUS_HOOK is held: by a detach that sets the hook, or by a hook
\* that calls the previous one.
Holds(u) == at[u] = "put" \/ Len(calls[u]) > 1
PreviousIsHeld == \E u \in Threads : Holds(u)

\* The lock of the process's hook can be had for writing.
NoneRuns == \A u \in Threads : ~Panicking(u)

-----------------------------------------------------------------------------
(* install_panic_hook *)

\* A faulty variant: the flag is not looked at.
InstallAgain(u, k) ==
  /\ Free(u) /\ ~Busy(k)
  /\ at' = [at EXCEPT ![u] = "take"] /\ on' = [on EXCEPT ![u] = k]
  /\ overlap' = (overlap \/ \E j \in Trackers \ {k} : installed[j] \/ Busy(j))
  /\ UNCHANGED <<hook, previous, installed, saved, calls>>

\* An install of what is installed returns.
Install(u, k) ==
  /\ Free(u) /\ ~Busy(k) /\ ~installed[k]
  /\ at' = [at EXCEPT ![u] = "take"] /\ on' = [on EXCEPT ![u] = k]
  /\ overlap' = (overlap \/ \E j \in Trackers \ {k} : installed[j] \/ Busy(j))
  /\ UNCHANGED <<hook, previous, installed, saved, calls>>

Take(u) ==
  /\ at[u] = "take" /\ NoneRuns
  /\ saved' = [saved EXCEPT ![u] = hook]
  /\ hook' = Default
  /\ at' = [at EXCEPT ![u] = "store"]
  /\ UNCHANGED <<previous, installed, on, calls, overlap>>

Store(u) ==
  /\ at[u] = "store" /\ ~PreviousIsHeld
  /\ previous' = saved[u] /\ saved' = [saved EXCEPT ![u] = None]
  /\ at' = [at EXCEPT ![u] = "set"]
  /\ UNCHANGED <<hook, installed, on, calls, overlap>>

Set(u) ==
  /\ at[u] = "set" /\ NoneRuns
  /\ hook' = on[u]
  /\ installed' = [installed EXCEPT ![on[u]] = TRUE]
  /\ at' = [at EXCEPT ![u] = "done"] /\ on' = [on EXCEPT ![u] = None]
  /\ UNCHANGED <<previous, saved, calls, overlap>>

-----------------------------------------------------------------------------
(* detach *)

\* A detach of what is not installed returns.
Detach(u, k) ==
  /\ Free(u) /\ ~Busy(k) /\ installed[k]
  /\ at' = [at EXCEPT ![u] = "restore"] /\ on' = [on EXCEPT ![u] = k]
  /\ UNCHANGED <<hook, previous, installed, saved, calls, overlap>>

\* A faulty variant: the previous hook is copied, not taken out.
RestoreCopying(u) ==
  /\ at[u] = "restore" /\ ~PreviousIsHeld
  /\ saved' = [saved EXCEPT ![u] = previous]
  /\ at' = [at EXCEPT ![u] = IF previous = None THEN "remove" ELSE "put"]
  /\ UNCHANGED <<hook, previous, installed, on, calls, overlap>>

\* The previous hook is taken out, and the mutex kept until it is set.
Restore(u) ==
  /\ at[u] = "restore" /\ ~PreviousIsHeld
  /\ saved' = [saved EXCEPT ![u] = previous] /\ previous' = None
  /\ at' = [at EXCEPT ![u] = IF previous = None THEN "remove" ELSE "put"]
  /\ UNCHANGED <<hook, installed, on, calls, overlap>>

\* The hook of on[u] is out.
Out(u, h) ==
  /\ NoneRuns
  /\ hook' = h
  /\ installed' = [installed EXCEPT ![on[u]] = FALSE]
  /\ at' = [at EXCEPT ![u] = "done"] /\ on' = [on EXCEPT ![u] = None]
  /\ saved' = [saved EXCEPT ![u] = None]
  /\ UNCHANGED <<previous, calls, overlap>>

Put(u) == at[u] = "put" /\ Out(u, saved[u])

Remove(u) == at[u] = "remove" /\ Out(u, Default)

-----------------------------------------------------------------------------
(* A panic *)

Panic(u) ==
  /\ Free(u)
  /\ calls' = [calls EXCEPT ![u] = <<hook>>]
  /\ UNCHANGED <<hook, previous, installed, at, on, saved, overlap>>

\* The hook that u has called last.
Running(u) == calls[u][Len(calls[u])]

Return(u) ==
  /\ calls' = [calls EXCEPT ![u] = <<>>]
  /\ UNCHANGED <<hook, previous, installed, at, on, saved, overlap>>

\* A faulty variant: a hook that finds the mutex held leaves the previous one out.
ChainTrying(u) ==
  /\ Panicking(u) /\ Running(u) \in Trackers
  /\ IF previous = None \/ PreviousIsHeld
       THEN Return(u)
       ELSE /\ calls' = [calls EXCEPT ![u] = Append(@, previous)]
            /\ UNCHANGED <<hook, previous, installed, at, on, saved, overlap>>

\* The hook of a tracker records the panic and calls the previous hook, if there
\* is one, with the mutex in hand.  (A thread that has it already waits for ever.)
Chain(u) ==
  /\ Panicking(u) /\ Running(u) \in Trackers /\ ~PreviousIsHeld
  /\ IF previous = None
       THEN Return(u)
       ELSE /\ calls' = [calls EXCEPT ![u] = Append(@, previous)]
            /\ UNCHANGED <<hook, previous, installed, at, on, saved, overlap>>

\* Another hook does its work, and the panic is done with.
Finish(u) == Panicking(u) /\ Running(u) \notin Trackers /\ Return(u)

-----------------------------------------------------------------------------
Proceed(u) == \/ Take(u) \/ Store(u) \/ Set(u)
              \/ Restore(u) \/ Put(u) \/ Remove(u)

Next ==
  \E u \in Threads :
    \/ \E k \in Trackers : Install(u, k) \/ Detach(u, k)
    \/ Proceed(u)
    \/ Panic(u) \/ Chain(u) \/ Finish(u)

Spec == Init /\ [][Next]_vars

\* Threads run on.  No thread panics, installs or detaches without end, so that
\* who waits for a mutex that others take and release gets it at last.
Fairness ==
  \A u \in Threads :
    SF_vars(Proceed(u)) /\ SF_vars(Chain(u)) /\ WF_vars(Finish(u))

FairSpec == Spec /\ Fairness

-----------------------------------------------------------------------------
(* Properties *)

Steps == {"done", "take", "store", "set", "restore", "put", "remove"}

TypeOK ==
  /\ hook \in Hooks
  /\ previous \in Hooks \cup {None}
  /\ installed \in [Trackers -> BOOLEAN]
  /\ at \in [Threads -> Steps]
  /\ on \in [Threads -> Trackers \cup {None}]
  /\ saved \in [Threads -> Hooks \cup {None}]
  /\ calls \in [Threads -> Seq(Hooks)]
  /\ overlap \in BOOLEAN

\* "Restores whatever panic hook was installed before" (the doc of detach): as
\* long as one tracker at a time has been installed, the hook is that of the
\* tracker that is, and the application's own when none is.
HookInPlace ==
  ~overlap /\ (\A k \in Trackers : ~Busy(k)) =>
    /\ \A k \in Trackers : installed[k] => hook = k
    /\ (\A k \in Trackers : ~installed[k]) => hook = Original

\* "then chains to whatever hook was previously installed" (the doc of
\* install_panic_hook): the hook of a tracker never returns without having called
\* the application's, as long as one tracker at a time has been installed.
PreviousIsCalled ==
  [][\A u \in Threads :
       ~overlap /\ Panicking(u) /\ calls'[u] = <<>> /\ calls[u][1] \in Trackers
         => calls[u] = <<calls[u][1], Original>>]_vars

\* A panic is done with, unless a detach has the mutex of PREVIOUS_HOOK and waits
\* for the panic, or the previous hook is another tracker's.
OnlyDetachHangs ==
  \A u \in Threads :
    Panicking(u) ~> (~Panicking(u) \/ overlap \/ \E v \in Threads : at[v] = "put")

\* The same without exceptions: the hook calls the previous one, and returns.
EveryPanicEnds == \A u \in Threads : Panicking(u) ~> ~Panicking(u)

\* A thread under way waits: for the lock of the hook until no hook runs, or for the
\* mutex of PREVIOUS_HOOK.
Waits(u) ==
  \/ at[u] \in {"take", "set", "put", "remove"} /\ ~NoneRuns
  \/ at[u] \in {"store", "restore"} /\ PreviousIsHeld
  \/ Panicking(u) /\ Running(u) \in Trackers /\ PreviousIsHeld

\* Threads are under way, and each of them waits for another, or for itself.
Deadlocked ==
  /\ \E u \in Threads : ~Free(u)
  /\ \A u \in Threads : Free(u) \/ Waits(u)

\* There is one way into a deadlock, as long as one tracker at a time has been
\* installed: a detach has the mutex and waits for a panic, whose hook, that of the
\* tracker being detached, waits for the mutex.
OnlyDetachDeadlocks ==
  ~overlap /\ Deadlocked =>
    \E u, v \in Threads : at[v] = "put" /\ calls[u] = <<on[v]>>

\* The inductive invariant behind them.  A tracker has one thread at work on it, a
\* hook is only changed when none runs, and the previous one only when nobody
\* calls it.
Roles ==
  \A u \in Threads :
    /\ at[u] = "done" <=> on[u] = None
    /\ at[u] \in {"take", "store", "set"} => ~installed[on[u]]
    /\ at[u] \in {"restore", "put", "remove"} => installed[on[u]]
    /\ at[u] = "put" => saved[u] # None
    /\ Panicking(u) => at[u] = "done"
    /\ \A v \in Threads : on[u] = on[v] /\ on[u] # None => u = v

Called ==
  \A u \in Threads :
    /\ Panicking(u) => calls[u][1] = hook
    /\ Len(calls[u]) <= 2
    /\ Len(calls[u]) = 2 => calls[u][2] = previous /\ previous # None /\ hook \in Trackers
    /\ \A v \in Threads : Holds(u) /\ Holds(v) => u = v

\* The one tracker that is installed, or being installed or detached, and where
\* the application's hook is meanwhile.
Alone ==
  /\ \A j, k \in Trackers :
       (installed[j] \/ Busy(j)) /\ (installed[k] \/ Busy(k)) => j = k
  /\ (\A k \in Trackers : ~installed[k] /\ ~Busy(k)) => hook = Original /\ previous = None
  /\ \A k \in Trackers :
       installed[k] => hook = k /\ (previous = Original \/ \E u \in Threads : at[u] = "put")
  /\ \A u \in Threads :
       /\ at[u] = "take" => hook = Original /\ previous = None
       /\ at[u] = "store" => hook = Default /\ previous = None /\ saved[u] = Original
       /\ at[u] = "set" => hook = Default /\ previous = Original
       /\ at[u] = "put" => previous = None /\ saved[u] = Original
       /\ at[u] # "remove"

Inductive == TypeOK /\ Roles /\ Called /\ (~overlap => Alone)
============================================================================
