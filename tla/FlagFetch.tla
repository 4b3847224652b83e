----------------------------- MODULE FlagFetch -----------------------------
(***************************************************************************)
(* The feature-flag service of src/src/feature_flags/: the calls `cached`, *)
(* `when_ready`, `fetch` and `opt_in`/`opt_out`, the per-flag TTL cache,   *)
(* and the map of fetches in progress through which concurrent `fetch`es   *)
(* of a flag share one request.                                            *)
(*                                                                         *)
(* A call is one Rust future: it is begun once, runs its steps, and ends   *)
(* by returning or by being dropped at an await.  A step is what runs      *)
(* between two awaits; `pc` is the await a call is parked at.  Every       *)
(* async-mutex guard is taken and released between two awaits, so a        *)
(* critical section is one step.                                           *)
(*                                                                         *)
(* A flag's value is represented by its version on the server, which only  *)
(* grows; 0 stands for "no value" (Err, or a None of `cached`).  A reply   *)
(* that the client cannot use (transport error, timeout, status outside    *)
(* 2xx, no body, unparseable body, no "value", value of another type) is   *)
(* the same Err to every caller and is one action here.                    *)
(***************************************************************************)
EXTENDS Naturals, FiniteSets

CONSTANTS
  Calls,        \* the futures callers may create, each used once
  Flags,        \* the ids registered with Factory::add_flag
  None,         \* "no such call" or "no such flag"
  Ttl,          \* the cache TTL, in ticks
  Latency,      \* ticks a server answer may take to reach the cache: the 3 s
                \* request timeout and the runtime's scheduling delay
  MaxClock,     \* bound: ticks that pass
  MaxVersion,   \* bound: versions a flag has on the server
  MaxDrops      \* bound: calls dropped by their caller before they return

ASSUME FlagFetchAssumption ==
  /\ None \notin Calls /\ None \notin Flags
  /\ Ttl \in Nat /\ Latency \in Nat
  /\ MaxClock \in Nat /\ MaxVersion \in Nat /\ MaxDrops \in Nat

VARIABLES
  clock,        \* ticks since the service was built (std::time::Instant)
  server,       \* server[f]: the version the flag server holds
  cache,        \* cache[f]: the service's `caches`
  inProgress,   \* inProgress[f]: the call whose sender `fetches_in_progress`
                \* holds for f, or None
  pc,           \* pc[c]: the await call c is parked at
  op,           \* op[c]: the operation the call performs
  flag,         \* flag[c]: the definition the call found, or None
  leader,       \* leader[c]: the call on whose channel c's outcome arrives:
                \* c itself for a leader, None while c has no channel
  reply,        \* reply[c]: what c's own request got
  result,       \* result[c]: what c returned
  since,        \* history: the version the server had when c began, or just
                \* after it applied c's opt request
  seen,         \* history: the latest version returned to any caller
  floor         \* history: seen[flag[c]] when c began

vars == <<clock, server, cache, inProgress, pc, op, flag, leader, reply,
          result, since, seen, floor>>

history == <<since, floor>>

\* Which flag each call is about and which operation it performs.
identity == <<op, flag>>

Nothing == [ver |-> 0, readAt |-> 0]
EmptyCache == [ver |-> 0, at |-> 0, readAt |-> 0]

Operations == {"cached", "whenReady", "fetch", "opt"}

\* The awaits: lookup and store wait for the cache's lock, register and
\* unregister for the lock of fetches_in_progress, request and reply for the
\* check request (before and after the server has read the value), wait for
\* the leader's channel, optRequest and optReply for the opt request.  send
\* is no await: it is the gap between unlocking the map and sending.
Awaits == {"lookup", "register", "request", "reply", "store", "unregister",
           "wait", "optRequest", "optReply"}
Places == Awaits \cup {"idle", "send", "done", "dropped"}

Running(c) == pc[c] \in Awaits \cup {"send"}
Ended(c) == pc[c] \in {"done", "dropped"}

\* A leader: it registered its channel and drives the shared request.
Leads(c) == leader[c] = c

Newer(a, b) == IF a > b THEN a ELSE b

Init ==
  /\ clock = 0
  /\ server = [f \in Flags |-> 1]
  /\ cache = [f \in Flags |-> EmptyCache]
  /\ inProgress = [f \in Flags |-> None]
  /\ pc = [c \in Calls |-> "idle"]
  /\ op = [c \in Calls |-> "none"]
  /\ flag = [c \in Calls |-> None]
  /\ leader = [c \in Calls |-> None]
  /\ reply = [c \in Calls |-> Nothing]
  /\ result = [c \in Calls |-> 0]
  /\ since = [c \in Calls |-> 0]
  /\ seen = [f \in Flags |-> 0]
  /\ floor = [c \in Calls |-> 0]

-----------------------------------------------------------------------------
(* Helpers *)

\* A faulty variant: the last tick of the TTL counts as valid.
IsValidInclusive(f) == cache[f].ver # 0 /\ clock - cache[f].at <= Ttl

\* CachedValue::is_valid: the age is counted from the write of the cache.
IsValid(f) == cache[f].ver # 0 /\ clock - cache[f].at < Ttl

\* The lock of a cache is held only inside a `cached` and inside the steps out
\* of lookup and store; a `cached` of another thread may hit such a moment.
MayBeLocked(c, f) ==
  \E d \in Calls \ {c} :
    \/ pc[d] = "idle"
    \/ flag[d] = f /\ pc[d] \in {"lookup", "store"}

\* The watch channel of leader l carries its outcome once l has sent it, which
\* is the last thing a leader does, after its entry has left the map.
HasSent(l) == pc[l] = "done" /\ inProgress[flag[l]] # l

\* The sender of l is alive while the map holds it, or l took it to send.
SenderDropped(l) == inProgress[flag[l]] # l /\ pc[l] # "send" /\ ~HasSent(l)

Goto(c, p) == pc' = [pc EXCEPT ![c] = p]

\* The future of c completes with version v, or with no value (0).
Return(c, v) ==
  /\ Goto(c, "done")
  /\ result' = [result EXCEPT ![c] = v]
  /\ seen' = [seen EXCEPT ![flag[c]] = Newer(@, v)]

-----------------------------------------------------------------------------
(* Beginning a call *)

\* No definition has the id: every operation gives up before it waits.
Refuse(c) ==
  /\ pc[c] = "idle"
  /\ Goto(c, "done")
  /\ UNCHANGED <<clock, server, cache, inProgress, identity, leader, reply,
                 result, history, seen>>

FirstAwait(o) ==
  CASE o = "whenReady" -> "lookup"
    [] o = "fetch" -> "register"
    [] o = "opt" -> "optRequest"

Begin(c, o, f) ==
  /\ pc[c] = "idle"
  /\ op' = [op EXCEPT ![c] = o]
  /\ flag' = [flag EXCEPT ![c] = f]
  /\ floor' = [floor EXCEPT ![c] = seen[f]]
  /\ since' = [since EXCEPT ![c] = server[f]]
  /\ Goto(c, FirstAwait(o))
  /\ UNCHANGED <<clock, server, cache, inProgress, leader, reply, result, seen>>

\* cached(): never waits, and answers None if the lock is taken.
Cached(c, f) ==
  /\ pc[c] = "idle"
  /\ op' = [op EXCEPT ![c] = "cached"]
  /\ flag' = [flag EXCEPT ![c] = f]
  /\ floor' = [floor EXCEPT ![c] = seen[f]]
  /\ since' = [since EXCEPT ![c] = server[f]]
  /\ Goto(c, "done")
  /\ \E v \in (IF IsValid(f) THEN {cache[f].ver} ELSE {0})
               \cup (IF MayBeLocked(c, f) THEN {0} ELSE {}) :
       /\ result' = [result EXCEPT ![c] = v]
       /\ seen' = [seen EXCEPT ![f] = Newer(@, v)]
  /\ UNCHANGED <<clock, server, cache, inProgress, leader, reply>>

\* when_ready(), under the cache's lock: a valid value is returned, else the
\* guard is dropped and the call goes on as a fetch.
LookupHit(c) ==
  /\ pc[c] = "lookup"
  /\ IsValid(flag[c])
  /\ Return(c, cache[flag[c]].ver)
  /\ UNCHANGED <<clock, server, cache, inProgress, identity, leader, reply, history>>

LookupMiss(c) ==
  /\ pc[c] = "lookup"
  /\ ~IsValid(flag[c])
  /\ Goto(c, "register")
  /\ UNCHANGED <<clock, server, cache, inProgress, identity, leader, reply,
                 result, history, seen>>

-----------------------------------------------------------------------------
(* fetch(): one leader per flag, everyone else follows it *)

\* A faulty variant: the leader does not look for a fetch in progress.
LeadUnchecked(c) ==
  /\ pc[c] = "register"
  /\ inProgress' = [inProgress EXCEPT ![flag[c]] = c]
  /\ leader' = [leader EXCEPT ![c] = c]
  /\ Goto(c, "request")
  /\ UNCHANGED <<clock, server, cache, identity, reply, result, history, seen>>

\* A faulty variant: a leader that finds a valid value in the cache shares it.
LeadFromCache(c) ==
  /\ pc[c] = "register"
  /\ inProgress[flag[c]] = None
  /\ inProgress' = [inProgress EXCEPT ![flag[c]] = c]
  /\ leader' = [leader EXCEPT ![c] = c]
  /\ IF IsValid(flag[c])
       THEN /\ Goto(c, "unregister")
            /\ reply' = [reply EXCEPT ![c] =
                           [ver |-> cache[flag[c]].ver, readAt |-> cache[flag[c]].readAt]]
       ELSE Goto(c, "request") /\ UNCHANGED reply
  /\ UNCHANGED <<clock, server, cache, identity, result, history, seen>>

Lead(c) ==
  /\ pc[c] = "register"
  /\ inProgress[flag[c]] = None
  /\ inProgress' = [inProgress EXCEPT ![flag[c]] = c]
  /\ leader' = [leader EXCEPT ![c] = c]
  /\ Goto(c, "request")
  /\ UNCHANGED <<clock, server, cache, identity, reply, result, history, seen>>

Follow(c) ==
  /\ pc[c] = "register"
  /\ inProgress[flag[c]] # None
  /\ leader' = [leader EXCEPT ![c] = inProgress[flag[c]]]
  /\ Goto(c, "wait")
  /\ UNCHANGED <<clock, server, cache, inProgress, identity, reply, result,
                 history, seen>>

\* The flag server reads the value it answers with.
ServerReads(c) ==
  /\ pc[c] = "request"
  /\ reply' = [reply EXCEPT ![c] = [ver |-> server[flag[c]], readAt |-> clock]]
  /\ Goto(c, "reply")
  /\ UNCHANGED <<clock, server, cache, inProgress, identity, leader, result,
                 history, seen>>

\* A faulty variant: the entry is removed before the value is stored.
FetchSucceedsUnregistered(c) ==
  /\ pc[c] = "reply"
  /\ inProgress' = [inProgress EXCEPT ![flag[c]] = None]
  /\ IF Leads(c) THEN Goto(c, "store") /\ UNCHANGED <<result, seen>>
                 ELSE Return(c, reply[c].ver)
  /\ UNCHANGED <<clock, server, cache, identity, leader, reply, history>>

\* A faulty variant: a value is not stored over one that is still valid.
FetchSucceedsUnstored(c) ==
  /\ pc[c] = "reply"
  /\ IF Leads(c)
       THEN /\ Goto(c, IF IsValid(flag[c]) THEN "unregister" ELSE "store")
            /\ UNCHANGED <<result, seen>>
       ELSE Return(c, reply[c].ver)
  /\ UNCHANGED <<clock, server, cache, inProgress, identity, leader, reply, history>>

\* fetch_uncached() gave a value: a leader stores it, a fallen-back follower
\* returns it as it is.
FetchSucceeds(c) ==
  /\ pc[c] = "reply"
  /\ IF Leads(c) THEN Goto(c, "store") /\ UNCHANGED <<result, seen>>
                 ELSE Return(c, reply[c].ver)
  /\ UNCHANGED <<clock, server, cache, inProgress, identity, leader, reply, history>>

\* A faulty variant: the failure is stored like a value.
FetchFailsStored(c) ==
  /\ pc[c] \in {"request", "reply"}
  /\ reply' = [reply EXCEPT ![c] = Nothing]
  /\ IF Leads(c) THEN Goto(c, "store") /\ UNCHANGED <<result, seen>>
                 ELSE Return(c, 0)
  /\ UNCHANGED <<clock, server, cache, inProgress, identity, leader, history>>

\* A faulty variant: the leader returns the error at once, its entry stays.
FetchFailsEarly(c) ==
  /\ pc[c] \in {"request", "reply"}
  /\ reply' = [reply EXCEPT ![c] = Nothing]
  /\ Return(c, 0)
  /\ UNCHANGED <<clock, server, cache, inProgress, identity, leader, history>>

\* fetch_uncached() failed, before or after the server read the value.
FetchFails(c) ==
  /\ pc[c] \in {"request", "reply"}
  /\ reply' = [reply EXCEPT ![c] = Nothing]
  /\ IF Leads(c) THEN Goto(c, "unregister") /\ UNCHANGED <<result, seen>>
                 ELSE Return(c, 0)
  /\ UNCHANGED <<clock, server, cache, inProgress, identity, leader, history>>

Store(c) ==
  /\ pc[c] = "store"
  /\ cache' = [cache EXCEPT ![flag[c]] =
                 [ver |-> reply[c].ver, at |-> clock, readAt |-> reply[c].readAt]]
  /\ Goto(c, "unregister")
  /\ UNCHANGED <<clock, server, inProgress, identity, leader, reply, result,
                 history, seen>>

Unregister(c) ==
  /\ pc[c] = "unregister"
  /\ inProgress' = [inProgress EXCEPT ![flag[c]] = None]
  /\ Goto(c, "send")
  /\ UNCHANGED <<clock, server, cache, identity, leader, reply, result, history, seen>>

\* The outcome is sent to the followers and returned, with no await between.
Send(c) ==
  /\ pc[c] = "send"
  /\ Return(c, reply[c].ver)
  /\ UNCHANGED <<clock, server, cache, inProgress, identity, leader, reply, history>>

\* A faulty variant: a follower of a failed leader returns the cached value.
ObserveCached(c) ==
  /\ pc[c] = "wait"
  /\ HasSent(leader[c])
  /\ Return(c, IF reply[leader[c]].ver # 0 THEN reply[leader[c]].ver
                                          ELSE cache[flag[c]].ver)
  /\ UNCHANGED <<clock, server, cache, inProgress, identity, leader, reply, history>>

\* A follower wakes up: it returns its leader's outcome, or, if the sender was
\* dropped without sending, goes on with a request of its own.
Observe(c) ==
  /\ pc[c] = "wait"
  /\ HasSent(leader[c]) \/ SenderDropped(leader[c])
  /\ IF HasSent(leader[c])
       THEN Return(c, reply[leader[c]].ver) /\ UNCHANGED leader
       ELSE /\ Goto(c, "request")
            /\ leader' = [leader EXCEPT ![c] = None]
            /\ UNCHANGED <<result, seen>>
  /\ UNCHANGED <<clock, server, cache, inProgress, identity, reply, history>>

-----------------------------------------------------------------------------
(* set_targeting(): opt_in and opt_out differ only in the path they post to *)

\* The server applies the opt request.  The flag then has a new value for this
\* client, or the same if the client was already targeted like that.
ServerOpts(c) ==
  /\ pc[c] = "optRequest"
  /\ \E v \in {server[flag[c]], server[flag[c]] + 1} :
       /\ v <= MaxVersion
       /\ server' = [server EXCEPT ![flag[c]] = v]
       /\ since' = [since EXCEPT ![c] = v]
  /\ Goto(c, "optReply")
  /\ UNCHANGED <<clock, cache, inProgress, identity, leader, reply, result, seen, floor>>

OptSucceeds(c) ==
  /\ pc[c] = "optReply"
  /\ Goto(c, "register")
  /\ UNCHANGED <<clock, server, cache, inProgress, identity, leader, reply,
                 result, history, seen>>

OptFails(c) ==
  /\ pc[c] \in {"optRequest", "optReply"}
  /\ Return(c, 0)
  /\ UNCHANGED <<clock, server, cache, inProgress, identity, leader, reply, history>>

-----------------------------------------------------------------------------
(* The caller drops the future, the server's data changes, time passes *)

\* A future is dropped where it is parked; it has no drop guard, so the entry a
\* leader registered stays in the map.
Drop(c) ==
  /\ pc[c] \in Awaits
  /\ Cardinality({d \in Calls : pc[d] = "dropped"}) < MaxDrops
  /\ Goto(c, "dropped")
  /\ UNCHANGED <<clock, server, cache, inProgress, identity, leader, reply,
                 result, history, seen>>

\* The flag is edited on the server, or an opt request takes effect late.
ServerChanges(f) ==
  /\ server[f] < MaxVersion
  /\ server' = [server EXCEPT ![f] = @ + 1]
  /\ UNCHANGED <<clock, cache, inProgress, pc, identity, leader, reply, result,
                 history, seen>>

\* Time does not pass an answer by for longer than Latency.
Tick ==
  /\ clock < MaxClock
  /\ \A c \in Calls : pc[c] \in {"reply", "store"} => clock < reply[c].readAt + Latency
  /\ clock' = clock + 1
  /\ UNCHANGED <<server, cache, inProgress, pc, identity, leader, reply, result,
                 history, seen>>

\* What the runtime, the server and the request timeout do for a running call.
Step(c) ==
  \/ LookupHit(c) \/ LookupMiss(c)
  \/ Lead(c) \/ Follow(c)
  \/ ServerReads(c) \/ FetchSucceeds(c) \/ FetchFails(c)
  \/ Store(c) \/ Unregister(c) \/ Send(c) \/ Observe(c)
  \/ ServerOpts(c) \/ OptSucceeds(c) \/ OptFails(c)

Caller(c) ==
  \/ Refuse(c)
  \/ \E f \in Flags : Cached(c, f) \/ \E o \in Operations \ {"cached"} : Begin(c, o, f)
  \/ Drop(c)

Next ==
  \/ \E c \in Calls : Caller(c) \/ Step(c)
  \/ \E f \in Flags : ServerChanges(f)
  \/ Tick

Spec == Init /\ [][Next]_vars

\* Every request ends (the transport gives it 3 s), every lock is released by a
\* step that does not wait, and the runtime polls a future that can go on.
FairSpec == Spec /\ \A c \in Calls : WF_vars(Step(c))

-----------------------------------------------------------------------------
(* Properties *)

TypeOK ==
  /\ clock \in Nat
  /\ server \in [Flags -> Nat]
  /\ cache \in [Flags -> [ver : Nat, at : Nat, readAt : Nat]]
  /\ inProgress \in [Flags -> Calls \cup {None}]
  /\ pc \in [Calls -> Places]
  /\ op \in [Calls -> Operations \cup {"none"}]
  /\ flag \in [Calls -> Flags \cup {None}]
  /\ leader \in [Calls -> Calls \cup {None}]
  /\ reply \in [Calls -> [ver : Nat, readAt : Nat]]
  /\ result \in [Calls -> Nat]
  /\ since \in [Calls -> Nat]
  /\ seen \in [Flags -> Nat]
  /\ floor \in [Calls -> Nat]

\* Reads are monotonic in real time: a call that returns a value returns no
\* older version than any that had been returned when it began, whichever of
\* cached, when_ready, fetch and opt_in/opt_out the two calls were, and however
\* they came by their value (the cache, an own request, a leader's).
MonotonicReads == \A c \in Calls : result[c] # 0 => floor[c] <= result[c]

\* At most one registered request per flag is under way, from the request to
\* the moment its entry leaves fetches_in_progress.
SingleFlight ==
  \A c, d \in Calls :
    /\ flag[c] = flag[d]
    /\ Leads(c) /\ pc[c] \in {"request", "reply", "store", "unregister"}
    /\ Leads(d) /\ pc[d] \in {"request", "reply", "store", "unregister"}
    => c = d

\* Everyone who joined a fetch returns exactly what its leader returned, the
\* failure included: a failed fetch is never papered over with a cached value.
SharedOutcome ==
  \A c \in Calls :
    pc[c] = "done" /\ leader[c] # None =>
      pc[leader[c]] = "done" /\ result[c] = result[leader[c]]

\* `fetch` always hits the network: what a fetch returns was read by the server
\* after the call that drives the shared request began (for an opt call, after
\* the server applied the opt), never taken from the cache.
FetchedAfterLeaderBegan ==
  \A c \in Calls :
    result[c] # 0 /\ leader[c] # None => result[c] >= since[leader[c]]

\* The cache never goes back: neither a failed fetch nor a slow one replaces a
\* value by nothing or by an older version.
CacheNeverGoesBack == [][\A f \in Flags : cache[f].ver <= cache'[f].ver]_cache

\* A value handed out from the cache is at most Ttl + Latency old, counted from
\* the moment the server read it.
CacheHit(c) ==
  /\ pc[c] \in {"idle", "lookup"}
  /\ pc'[c] = "done" /\ result'[c] # 0
BoundedStaleness ==
  [][\A c \in Calls :
       CacheHit(c) => clock - cache[flag'[c]].readAt < Ttl + Latency]_vars

\* The service implements the abstract one: monotonic reads of real versions.
Phase(c) ==
  IF pc[c] = "idle" THEN "idle" ELSE IF Ended(c) THEN "done" ELSE "running"
Abstract == INSTANCE FlagService WITH
  phase <- [c \in Calls |-> Phase(c)], asked <- flag, answer <- result
ImplementsFlagService == Abstract!SSpec

\* The inductive invariant behind these properties, in named parts.
Fetching == {"request", "reply", "store", "unregister"}

\* What the place of a call says of its role.
Roles ==
  \A c \in Calls :
    /\ Running(c) \/ leader[c] # None => flag[c] \in Flags
    /\ pc[c] \in Fetching \cup {"send"} => Leads(c)
    /\ pc[c] = "wait" => leader[c] \in Calls \ {c}
    /\ pc[c] \in {"idle", "lookup", "register", "optRequest", "optReply"} =>
         leader[c] = None
    /\ pc[c] # "done" => result[c] = 0

\* The entries of fetches_in_progress are the leaders that are fetching, and
\* those that were dropped: the sender a follower waits on is never lost.
Entries ==
  /\ \A f \in Flags :
       inProgress[f] # None =>
         /\ Leads(inProgress[f]) /\ flag[inProgress[f]] = f
         /\ pc[inProgress[f]] \in Fetching \cup {"dropped"}
  /\ \A c \in Calls :
       /\ Leads(c) /\ pc[c] \in Fetching \cup {"dropped"} => inProgress[flag[c]] = c
       /\ leader[c] # None => Leads(leader[c]) /\ flag[leader[c]] = flag[c]

\* What has been returned is in the cache, and a fetch under way brings
\* nothing older than the cache holds.
Versions ==
  /\ \A f \in Flags : seen[f] <= cache[f].ver /\ cache[f].ver <= server[f]
  /\ \A c \in Calls :
       /\ flag[c] # None => floor[c] <= seen[flag[c]] /\ since[c] <= server[flag[c]]
       /\ pc[c] \in {"reply", "store"} =>
            cache[flag[c]].ver <= reply[c].ver /\ reply[c].ver <= server[flag[c]]
       /\ pc[c] = "unregister" => reply[c].ver \in {0, cache[flag[c]].ver}
       /\ Leads(c) /\ pc[c] \in {"send", "done"} => reply[c].ver <= cache[flag[c]].ver

\* What a leader has got is good enough for everyone who follows it.
Outcomes ==
  \A c \in Calls :
    leader[c] # None =>
      /\ pc[leader[c]] \in {"reply", "store", "unregister", "send", "done"}
           /\ reply[leader[c]].ver # 0 =>
           /\ floor[c] <= reply[leader[c]].ver
           /\ since[leader[c]] <= reply[leader[c]].ver
      /\ pc[c] = "done" =>
           pc[leader[c]] = "done" /\ result[c] = reply[leader[c]].ver

\* An answer of the server reaches the cache within Latency.
Stamps ==
  /\ \A c \in Calls :
       pc[c] \in {"reply", "store"} => clock <= reply[c].readAt + Latency
  /\ \A f \in Flags : cache[f].at <= cache[f].readAt + Latency

Inductive ==
  /\ TypeOK /\ Roles /\ Entries
  /\ Versions /\ Outcomes /\ MonotonicReads
  /\ Stamps

\* A call returns unless it follows a leader whose future was dropped: nothing
\* else can hang it, neither a lost reply nor a failed fetch nor another flag.
FollowsDropped(c) == pc[c] = "wait" /\ pc[leader[c]] = "dropped"
OnlyDroppedLeadersHang ==
  \A c \in Calls : Running(c) ~> (Ended(c) \/ FollowsDropped(c))

\* A follower whose leader is gone falls back to a fresh fetch "rather than
\* hanging" (comment in `fetch`): every call that is not dropped returns.
EveryCallReturns == \A c \in Calls : Running(c) ~> Ended(c)

\* Who follows a leader waits for a call that goes on, since a leader waits for no
\* other call, or for one that was dropped: then the sender is still in the map, so
\* that the channel never closes and the fallback never runs.
FollowersWaitForLeaders ==
  \A c \in Calls :
    pc[c] = "wait" =>
      /\ ~SenderDropped(leader[c])
      /\ \/ HasSent(leader[c])
         \/ pc[leader[c]] \in Fetching \cup {"send"}
         \/ FollowsDropped(c) /\ inProgress[flag[c]] = leader[c]

\* An entry whose leader was dropped is in the map for ever, and who follows it ends
\* only by being dropped as well.
Stuck(f) == inProgress[f] # None /\ pc[inProgress[f]] = "dropped"
DroppedLeaderIsFinal ==
  [][/\ \A f \in Flags : Stuck(f) => Stuck(f)'
     /\ \A c \in Calls : FollowsDropped(c) => FollowsDropped(c)' \/ pc'[c] = "dropped"]_vars
============================================================================
