---------------------------- MODULE FlagService ----------------------------
(***************************************************************************)
(* What the feature-flag service promises its callers, with nothing of how *)
(* it keeps the promise: no cache, no network, no shared fetches.          *)
(*                                                                         *)
(* A flag's value is represented by its version on the flag server, 1 and  *)
(* up; 0 is "no value" (an Err, or a None of `cached`).  The promise is    *)
(* that reads are monotonic in real time: a call answers with a version    *)
(* the server has really had, and never with one older than a version that *)
(* had already been handed out when the call began.                        *)
(***************************************************************************)
EXTENDS Naturals

CONSTANTS Calls, Flags, None

VARIABLES server,   \* server[f]: the version the flag server holds
          seen,     \* seen[f]: the latest version handed to any caller
          phase,    \* phase[c]: "idle", "running" or "done"
          asked,    \* asked[c]: the flag the call is about
          floor,    \* floor[c]: seen[asked[c]] when the call began
          answer    \* answer[c]: what the call returned

svars == <<server, seen, phase, asked, floor, answer>>

Newer(a, b) == IF a > b THEN a ELSE b

SInit ==
  /\ server = [f \in Flags |-> 1]
  /\ seen = [f \in Flags |-> 0]
  /\ phase = [c \in Calls |-> "idle"]
  /\ asked = [c \in Calls |-> None]
  /\ floor = [c \in Calls |-> 0]
  /\ answer = [c \in Calls |-> 0]

\* The value of a flag changes on the server.
Advance(f) ==
  /\ server' = [server EXCEPT ![f] = @ + 1]
  /\ UNCHANGED <<seen, phase, asked, floor, answer>>

Ask(c, f) ==
  /\ phase[c] = "idle"
  /\ phase' = [phase EXCEPT ![c] = "running"]
  /\ asked' = [asked EXCEPT ![c] = f]
  /\ floor' = [floor EXCEPT ![c] = seen[f]]
  /\ UNCHANGED <<server, seen, answer>>

\* The call ends without a value: it failed, or its caller dropped it.
Fail(c) ==
  /\ phase[c] = "running"
  /\ phase' = [phase EXCEPT ![c] = "done"]
  /\ UNCHANGED <<server, seen, asked, floor, answer>>

\* The call returns a version that is not older than what it had to reach.
Answer(c, f, v) ==
  /\ phase[c] = "running"
  /\ asked[c] = f
  /\ v \in floor[c] .. server[f]
  /\ phase' = [phase EXCEPT ![c] = "done"]
  /\ answer' = [answer EXCEPT ![c] = v]
  /\ seen' = [seen EXCEPT ![f] = Newer(@, v)]
  /\ UNCHANGED <<server, asked, floor>>

\* The call is refused at once: there is no such flag.
Refuse(c) ==
  /\ phase[c] = "idle"
  /\ phase' = [phase EXCEPT ![c] = "done"]
  /\ UNCHANGED <<server, seen, asked, floor, answer>>

\* A call that begins and ends in one step, with or without a value.
Peek(c, f, v) ==
  /\ phase[c] = "idle"
  /\ v \in {0} \cup seen[f] .. server[f]
  /\ phase' = [phase EXCEPT ![c] = "done"]
  /\ asked' = [asked EXCEPT ![c] = f]
  /\ floor' = [floor EXCEPT ![c] = seen[f]]
  /\ answer' = [answer EXCEPT ![c] = v]
  /\ seen' = [seen EXCEPT ![f] = Newer(@, v)]
  /\ UNCHANGED server

SNext ==
  \/ \E f \in Flags : Advance(f)
  \/ \E c \in Calls : Fail(c) \/ Refuse(c)
  \/ \E c \in Calls, f \in Flags :
       \/ Ask(c, f)
       \/ \E v \in 0 .. server[f] : Answer(c, f, v) \/ Peek(c, f, v)

SSpec == SInit /\ [][SNext]_svars
============================================================================
