-------------------------- MODULE FlagFetchProofs --------------------------
(***************************************************************************)
(* Proofs about FlagFetch: the invariant Inductive is preserved by every   *)
(* action (one lemma per part, one step per action), and the properties    *)
(* follow from it, for any number of calls, flags, versions and ticks.     *)
(***************************************************************************)
EXTENDS FlagFetch, TLAPS

LEMMA InductiveInit == Init => Inductive
<1> USE FlagFetchAssumption
<1> SUFFICES ASSUME Init PROVE Inductive
  OBVIOUS
<1>1. TypeOK
  BY DEF Init, TypeOK, EmptyCache, Nothing, Places, Awaits
<1>2. Roles /\ Entries /\ Outcomes /\ MonotonicReads
  BY DEF Init, Roles, Entries, Outcomes, MonotonicReads, Running, Awaits, Leads,
    Fetching
<1>3. Versions /\ Stamps
  BY DEF Init, Versions, Stamps, EmptyCache, Nothing, Leads
<1>4. QED
  BY <1>1, <1>2, <1>3 DEF Inductive

-----------------------------------------------------------------------------
(* Three actions have a branch for a follower that fell back to a request  *)
(* of its own.  The invariant rules that branch out; this is what is left. *)
LeaderReceives(c) ==
  /\ pc[c] = "reply"
  /\ Goto(c, "store")
  /\ UNCHANGED <<clock, server, cache, inProgress, op, flag, leader, reply,
                 result, since, seen, floor>>

LeaderGivesUp(c) ==
  /\ pc[c] \in {"request", "reply"}
  /\ reply' = [reply EXCEPT ![c] = Nothing]
  /\ Goto(c, "unregister")
  /\ UNCHANGED <<clock, server, cache, inProgress, op, flag, leader, result,
                 since, seen, floor>>

FollowerReturns(c) ==
  /\ pc[c] = "wait" /\ leader[c] \in Calls \ {c}
  /\ HasSent(leader[c])
  /\ Return(c, reply[leader[c]].ver)
  /\ UNCHANGED <<clock, server, cache, inProgress, op, flag, leader, reply,
                 since, floor>>

\* Only leaders request: a value received is a value to store.
LEMMA FetchSucceedsCase ==
  ASSUME Inductive, NEW c \in Calls, FetchSucceeds(c)
  PROVE  LeaderReceives(c)
BY DEF Inductive, Roles, FetchSucceeds, Fetching, identity, history, LeaderReceives

\* Only leaders request: a failed request is a leader's, and unregisters it.
LEMMA FetchFailsCase ==
  ASSUME Inductive, NEW c \in Calls, FetchFails(c)
  PROVE  LeaderGivesUp(c)
BY DEF Inductive, Roles, FetchFails, Fetching, identity, history, LeaderGivesUp

\* The sender a follower waits on is in the map, or taken out to send, or has
\* sent: it is never dropped without sending, and the fallback never runs.
LEMMA ObserveCase ==
  ASSUME Inductive, NEW c \in Calls, Observe(c)
  PROVE  FollowerReturns(c)
<1> USE FlagFetchAssumption
<1> DEFINE l == leader[c]
<1>1. pc[c] = "wait" /\ l \in Calls \ {c} /\ Leads(l)
  BY DEF Inductive, Roles, Entries, Observe
<1>2. pc[l] \in Places /\ flag[l] \in Flags
  BY <1>1 DEF Inductive, TypeOK, Roles, Leads
<1>3. ~SenderDropped(l)
  BY <1>1, <1>2
  DEF Inductive, Roles, Entries, SenderDropped, HasSent, Leads, Fetching, Places,
  Awaits
<1>4. HasSent(l)
  BY <1>3 DEF Observe
<1>5. QED
  BY <1>1, <1>4 DEF Observe, identity, history, FollowerReturns

-----------------------------------------------------------------------------
(* Every step preserves each part of the invariant. *)

\* The variables keep their types.
LEMMA TypeStep ==
  ASSUME Inductive, [Next]_vars
  PROVE  TypeOK'
<1> USE FlagFetchAssumption DEF TypeOK, Roles, Running, Places, Awaits, Operations,
       Goto, history, identity
<1>1. TypeOK /\ Roles BY DEF Inductive
<1>2. CASE UNCHANGED vars
  BY <1>1, <1>2 DEF vars
<1>3. ASSUME NEW c \in Calls, Refuse(c) PROVE TypeOK'
  BY <1>1, <1>3 DEF Refuse
<1>4. ASSUME NEW c \in Calls, LookupHit(c) PROVE TypeOK'
  BY <1>1, <1>4 DEF LookupHit, Return, Newer, IsValid
<1>5. ASSUME NEW c \in Calls, LookupMiss(c) PROVE TypeOK'
  BY <1>1, <1>5 DEF LookupMiss
<1>6. ASSUME NEW c \in Calls, Lead(c) PROVE TypeOK'
  BY <1>1, <1>6 DEF Lead
<1>7. ASSUME NEW c \in Calls, Follow(c) PROVE TypeOK'
  BY <1>1, <1>7 DEF Follow
<1>8. ASSUME NEW c \in Calls, ServerReads(c) PROVE TypeOK'
  BY <1>1, <1>8 DEF ServerReads
<1>9. ASSUME NEW c \in Calls, FetchSucceeds(c) PROVE TypeOK'
  <2>1. LeaderReceives(c) BY <1>9, FetchSucceedsCase
  <2>2. QED BY <1>1, <2>1 DEF LeaderReceives
<1>10. ASSUME NEW c \in Calls, FetchFails(c) PROVE TypeOK'
  <2>1. LeaderGivesUp(c) BY <1>10, FetchFailsCase
  <2>2. QED BY <1>1, <2>1 DEF LeaderGivesUp, Nothing
<1>11. ASSUME NEW c \in Calls, Store(c) PROVE TypeOK'
  BY <1>1, <1>11 DEF Store
<1>12. ASSUME NEW c \in Calls, Unregister(c) PROVE TypeOK'
  BY <1>1, <1>12 DEF Unregister
<1>13. ASSUME NEW c \in Calls, Send(c) PROVE TypeOK'
  BY <1>1, <1>13 DEF Send, Return, Newer
<1>14. ASSUME NEW c \in Calls, Observe(c) PROVE TypeOK'
  <2>1. FollowerReturns(c) BY <1>14, ObserveCase
  <2>2. QED BY <1>1, <2>1 DEF FollowerReturns, Return, Newer, HasSent
<1>15. ASSUME NEW c \in Calls, ServerOpts(c) PROVE TypeOK'
  BY <1>1, <1>15 DEF ServerOpts
<1>16. ASSUME NEW c \in Calls, OptSucceeds(c) PROVE TypeOK'
  BY <1>1, <1>16 DEF OptSucceeds
<1>17. ASSUME NEW c \in Calls, OptFails(c) PROVE TypeOK'
  BY <1>1, <1>17 DEF OptFails, Return, Newer
<1>18. ASSUME NEW c \in Calls, Drop(c) PROVE TypeOK'
  BY <1>1, <1>18 DEF Drop
<1>19. ASSUME NEW c \in Calls, NEW f \in Flags, Cached(c, f) PROVE TypeOK'
  BY <1>1, <1>19 DEF Cached, Newer, IsValid
<1>20. ASSUME NEW c \in Calls, NEW f \in Flags,
             NEW o \in Operations \ {"cached"}, Begin(c, o, f)
      PROVE  TypeOK'
  BY <1>1, <1>20 DEF Begin, FirstAwait, Operations
<1>21. ASSUME NEW f \in Flags, ServerChanges(f) PROVE TypeOK'
  BY <1>1, <1>21 DEF ServerChanges
<1>22. CASE Tick
  BY <1>1, <1>22 DEF Tick
<1>23. QED
  BY <1>2, <1>3, <1>4, <1>5, <1>6, <1>7, <1>8, <1>9, <1>10, <1>11, <1>12,
     <1>13, <1>14, <1>15, <1>16, <1>17, <1>18, <1>19, <1>20, <1>21, <1>22
  DEF Next, Caller, Step

\* A call's place keeps telling its role; no follower ever follows itself.
LEMMA RolesStep ==
  ASSUME Inductive, [Next]_vars
  PROVE  Roles'
<1> USE FlagFetchAssumption DEF TypeOK, Roles, Entries, Running,
       Leads, Fetching, Awaits, Goto, history, identity
<1>1. TypeOK /\ Roles /\ Entries BY DEF Inductive
<1>2. CASE UNCHANGED vars
  BY <1>1, <1>2 DEF vars
<1>3. ASSUME NEW c \in Calls, Refuse(c) PROVE Roles'
  BY <1>1, <1>3 DEF Refuse
<1>4. ASSUME NEW c \in Calls, LookupHit(c) PROVE Roles'
  BY <1>1, <1>4 DEF LookupHit, Return, Newer, IsValid
<1>5. ASSUME NEW c \in Calls, LookupMiss(c) PROVE Roles'
  BY <1>1, <1>5 DEF LookupMiss
<1>6. ASSUME NEW c \in Calls, Lead(c) PROVE Roles'
  BY <1>1, <1>6 DEF Lead
<1>7. ASSUME NEW c \in Calls, Follow(c) PROVE Roles'
  BY <1>1, <1>7 DEF Follow
<1>8. ASSUME NEW c \in Calls, ServerReads(c) PROVE Roles'
  BY <1>1, <1>8 DEF ServerReads
<1>9. ASSUME NEW c \in Calls, FetchSucceeds(c) PROVE Roles'
  <2>1. LeaderReceives(c) BY <1>9, FetchSucceedsCase
  <2>2. QED BY <1>1, <2>1 DEF LeaderReceives
<1>10. ASSUME NEW c \in Calls, FetchFails(c) PROVE Roles'
  <2>1. LeaderGivesUp(c) BY <1>10, FetchFailsCase
  <2>2. QED BY <1>1, <2>1 DEF LeaderGivesUp, Nothing
<1>11. ASSUME NEW c \in Calls, Store(c) PROVE Roles'
  BY <1>1, <1>11 DEF Store
<1>12. ASSUME NEW c \in Calls, Unregister(c) PROVE Roles'
  BY <1>1, <1>12 DEF Unregister
<1>13. ASSUME NEW c \in Calls, Send(c) PROVE Roles'
  BY <1>1, <1>13 DEF Send, Return, Newer
<1>14. ASSUME NEW c \in Calls, Observe(c) PROVE Roles'
  <2>1. FollowerReturns(c) BY <1>14, ObserveCase
  <2>2. QED BY <1>1, <2>1 DEF FollowerReturns, Return, Newer, HasSent
<1>15. ASSUME NEW c \in Calls, ServerOpts(c) PROVE Roles'
  BY <1>1, <1>15 DEF ServerOpts
<1>16. ASSUME NEW c \in Calls, OptSucceeds(c) PROVE Roles'
  BY <1>1, <1>16 DEF OptSucceeds
<1>17. ASSUME NEW c \in Calls, OptFails(c) PROVE Roles'
  BY <1>1, <1>17 DEF OptFails, Return, Newer
<1>18. ASSUME NEW c \in Calls, Drop(c) PROVE Roles'
  BY <1>1, <1>18 DEF Drop
<1>19. ASSUME NEW c \in Calls, NEW f \in Flags, Cached(c, f) PROVE Roles'
  BY <1>1, <1>19 DEF Cached, Newer, IsValid
<1>20. ASSUME NEW c \in Calls, NEW f \in Flags,
             NEW o \in Operations \ {"cached"}, Begin(c, o, f)
      PROVE  Roles'
  BY <1>1, <1>20 DEF Begin, FirstAwait, Operations
<1>21. ASSUME NEW f \in Flags, ServerChanges(f) PROVE Roles'
  BY <1>1, <1>21 DEF ServerChanges
<1>22. CASE Tick
  BY <1>1, <1>22 DEF Tick
<1>23. QED
  BY <1>2, <1>3, <1>4, <1>5, <1>6, <1>7, <1>8, <1>9, <1>10, <1>11, <1>12,
     <1>13, <1>14, <1>15, <1>16, <1>17, <1>18, <1>19, <1>20, <1>21, <1>22
  DEF Next, Caller, Step

\* The map keeps holding exactly the leaders that fetch or were dropped.
LEMMA EntriesStep ==
  ASSUME Inductive, [Next]_vars
  PROVE  Entries'
<1> USE FlagFetchAssumption DEF TypeOK, Roles, Entries, Running,
       Leads, Fetching, Awaits, Goto, history, identity
<1>1. TypeOK /\ Roles /\ Entries BY DEF Inductive
<1>2. CASE UNCHANGED vars
  BY <1>1, <1>2 DEF vars
<1>3. ASSUME NEW c \in Calls, Refuse(c) PROVE Entries'
  BY <1>1, <1>3 DEF Refuse
<1>4. ASSUME NEW c \in Calls, LookupHit(c) PROVE Entries'
  BY <1>1, <1>4 DEF LookupHit, Return, Newer, IsValid
<1>5. ASSUME NEW c \in Calls, LookupMiss(c) PROVE Entries'
  BY <1>1, <1>5 DEF LookupMiss
<1>6. ASSUME NEW c \in Calls, Lead(c) PROVE Entries'
  BY <1>1, <1>6 DEF Lead
<1>7. ASSUME NEW c \in Calls, Follow(c) PROVE Entries'
  BY <1>1, <1>7 DEF Follow
<1>8. ASSUME NEW c \in Calls, ServerReads(c) PROVE Entries'
  BY <1>1, <1>8 DEF ServerReads
<1>9. ASSUME NEW c \in Calls, FetchSucceeds(c) PROVE Entries'
  <2>1. LeaderReceives(c) BY <1>9, FetchSucceedsCase
  <2>2. QED BY <1>1, <2>1 DEF LeaderReceives
<1>10. ASSUME NEW c \in Calls, FetchFails(c) PROVE Entries'
  <2>1. LeaderGivesUp(c) BY <1>10, FetchFailsCase
  <2>2. QED BY <1>1, <2>1 DEF LeaderGivesUp, Nothing
<1>11. ASSUME NEW c \in Calls, Store(c) PROVE Entries'
  BY <1>1, <1>11 DEF Store
<1>12. ASSUME NEW c \in Calls, Unregister(c) PROVE Entries'
  BY <1>1, <1>12 DEF Unregister
<1>13. ASSUME NEW c \in Calls, Send(c) PROVE Entries'
  BY <1>1, <1>13 DEF Send, Return, Newer
<1>14. ASSUME NEW c \in Calls, Observe(c) PROVE Entries'
  <2>1. FollowerReturns(c) BY <1>14, ObserveCase
  <2>2. QED BY <1>1, <2>1 DEF FollowerReturns, Return, Newer, HasSent
<1>15. ASSUME NEW c \in Calls, ServerOpts(c) PROVE Entries'
  BY <1>1, <1>15 DEF ServerOpts
<1>16. ASSUME NEW c \in Calls, OptSucceeds(c) PROVE Entries'
  BY <1>1, <1>16 DEF OptSucceeds
<1>17. ASSUME NEW c \in Calls, OptFails(c) PROVE Entries'
  BY <1>1, <1>17 DEF OptFails, Return, Newer
<1>18. ASSUME NEW c \in Calls, Drop(c) PROVE Entries'
  BY <1>1, <1>18 DEF Drop
<1>19. ASSUME NEW c \in Calls, NEW f \in Flags, Cached(c, f) PROVE Entries'
  BY <1>1, <1>19 DEF Cached, Newer, IsValid
<1>20. ASSUME NEW c \in Calls, NEW f \in Flags,
             NEW o \in Operations \ {"cached"}, Begin(c, o, f)
      PROVE  Entries'
  BY <1>1, <1>20 DEF Begin, FirstAwait, Operations
<1>21. ASSUME NEW f \in Flags, ServerChanges(f) PROVE Entries'
  BY <1>1, <1>21 DEF ServerChanges
<1>22. CASE Tick
  BY <1>1, <1>22 DEF Tick
<1>23. QED
  BY <1>2, <1>3, <1>4, <1>5, <1>6, <1>7, <1>8, <1>9, <1>10, <1>11, <1>12,
     <1>13, <1>14, <1>15, <1>16, <1>17, <1>18, <1>19, <1>20, <1>21, <1>22
  DEF Next, Caller, Step

\* No fetch under way can bring anything older than the cache holds, because
\* no other call may write the cache until its leader has left the map.
LEMMA VersionsStep ==
  ASSUME Inductive, [Next]_vars
  PROVE  Versions'
<1> USE FlagFetchAssumption DEF TypeOK, Roles, Entries, Versions, Running,
       Leads, Fetching, Awaits, Goto, history, identity
<1>1. TypeOK /\ Roles /\ Entries /\ Versions BY DEF Inductive
<1>2. CASE UNCHANGED vars
  BY <1>1, <1>2 DEF vars
<1>3. ASSUME NEW c \in Calls, Refuse(c) PROVE Versions'
  BY <1>1, <1>3 DEF Refuse
<1>4. ASSUME NEW c \in Calls, LookupHit(c) PROVE Versions'
  BY <1>1, <1>4 DEF LookupHit, Return, Newer, IsValid
<1>5. ASSUME NEW c \in Calls, LookupMiss(c) PROVE Versions'
  BY <1>1, <1>5 DEF LookupMiss
<1>6. ASSUME NEW c \in Calls, Lead(c) PROVE Versions'
  BY <1>1, <1>6 DEF Lead
<1>7. ASSUME NEW c \in Calls, Follow(c) PROVE Versions'
  BY <1>1, <1>7 DEF Follow
<1>8. ASSUME NEW c \in Calls, ServerReads(c) PROVE Versions'
  BY <1>1, <1>8 DEF ServerReads
<1>9. ASSUME NEW c \in Calls, FetchSucceeds(c) PROVE Versions'
  <2>1. LeaderReceives(c) BY <1>9, FetchSucceedsCase
  <2>2. QED BY <1>1, <2>1 DEF LeaderReceives
<1>10. ASSUME NEW c \in Calls, FetchFails(c) PROVE Versions'
  <2>1. LeaderGivesUp(c) BY <1>10, FetchFailsCase
  <2>2. QED BY <1>1, <2>1 DEF LeaderGivesUp, Nothing
<1>11. ASSUME NEW c \in Calls, Store(c) PROVE Versions'
  BY <1>1, <1>11 DEF Store
<1>12. ASSUME NEW c \in Calls, Unregister(c) PROVE Versions'
  BY <1>1, <1>12 DEF Unregister
<1>13. ASSUME NEW c \in Calls, Send(c) PROVE Versions'
  BY <1>1, <1>13 DEF Send, Return, Newer
<1>14. ASSUME NEW c \in Calls, Observe(c) PROVE Versions'
  <2>1. FollowerReturns(c) BY <1>14, ObserveCase
  <2> DEFINE l == leader[c]
             v == reply[l].ver
             f == flag[c]
  <2>2. /\ l \in Calls \ {c} /\ Leads(l) /\ pc[l] = "done" /\ flag[l] = f
        /\ f \in Flags /\ v \in Nat
    BY <1>1, <2>1 DEF FollowerReturns, HasSent
  <2>3. v <= cache[f].ver
    BY <1>1, <2>2
  <2>4. /\ seen' = [seen EXCEPT ![f] = Newer(@, v)]
        /\ pc' = [pc EXCEPT ![c] = "done"]
        /\ UNCHANGED <<cache, server, flag, leader, reply, floor, since>>
    BY <2>1 DEF FollowerReturns, Return
  <2>5. \A g \in Flags :
          seen'[g] \in Nat /\ seen[g] <= seen'[g] /\ seen'[g] <= cache[g].ver
    BY <1>1, <2>2, <2>3, <2>4 DEF Newer
  <2>6. ASSUME NEW d \in Calls, flag'[d] # None
        PROVE  floor'[d] <= seen'[flag'[d]] /\ since'[d] <= server'[flag'[d]]
    BY <1>1, <2>4, <2>5, <2>6
  <2>7. ASSUME NEW d \in Calls, d # c
        PROVE  pc'[d] = pc[d]
    BY <1>1, <2>4, <2>7
  <2>8. pc'[c] = "done" /\ ~Leads(c)'
    BY <1>1, <2>2, <2>4
  <2>9. QED
    BY <1>1, <2>4, <2>5, <2>6, <2>7, <2>8
<1>15. ASSUME NEW c \in Calls, ServerOpts(c) PROVE Versions'
  BY <1>1, <1>15 DEF ServerOpts
<1>16. ASSUME NEW c \in Calls, OptSucceeds(c) PROVE Versions'
  BY <1>1, <1>16 DEF OptSucceeds
<1>17. ASSUME NEW c \in Calls, OptFails(c) PROVE Versions'
  BY <1>1, <1>17 DEF OptFails, Return, Newer
<1>18. ASSUME NEW c \in Calls, Drop(c) PROVE Versions'
  BY <1>1, <1>18 DEF Drop
<1>19. ASSUME NEW c \in Calls, NEW f \in Flags, Cached(c, f) PROVE Versions'
  BY <1>1, <1>19 DEF Cached, Newer, IsValid
<1>20. ASSUME NEW c \in Calls, NEW f \in Flags,
             NEW o \in Operations \ {"cached"}, Begin(c, o, f)
      PROVE  Versions'
  BY <1>1, <1>20 DEF Begin, FirstAwait, Operations
<1>21. ASSUME NEW f \in Flags, ServerChanges(f) PROVE Versions'
  BY <1>1, <1>21 DEF ServerChanges
<1>22. CASE Tick
  BY <1>1, <1>22 DEF Tick
<1>23. QED
  BY <1>2, <1>3, <1>4, <1>5, <1>6, <1>7, <1>8, <1>9, <1>10, <1>11, <1>12,
     <1>13, <1>14, <1>15, <1>16, <1>17, <1>18, <1>19, <1>20, <1>21, <1>22
  DEF Next, Caller, Step

\* Whoever joins a fetch, at any moment before its entry is removed, is served
\* by its outcome.
LEMMA OutcomesStep ==
  ASSUME Inductive, [Next]_vars
  PROVE  Outcomes'
<1> USE FlagFetchAssumption DEF TypeOK, Roles, Entries, Versions, Outcomes, Running,
       Leads, Fetching, Awaits, Goto, history, identity
<1>1. TypeOK /\ Roles /\ Entries /\ Versions /\ Outcomes BY DEF Inductive
<1>2. CASE UNCHANGED vars
  BY <1>1, <1>2 DEF vars
<1>3. ASSUME NEW c \in Calls, Refuse(c) PROVE Outcomes'
  BY <1>1, <1>3 DEF Refuse
<1>4. ASSUME NEW c \in Calls, LookupHit(c) PROVE Outcomes'
  BY <1>1, <1>4 DEF LookupHit, Return, Newer, IsValid
<1>5. ASSUME NEW c \in Calls, LookupMiss(c) PROVE Outcomes'
  BY <1>1, <1>5 DEF LookupMiss
<1>6. ASSUME NEW c \in Calls, Lead(c) PROVE Outcomes'
  BY <1>1, <1>6 DEF Lead
<1>7. ASSUME NEW c \in Calls, Follow(c) PROVE Outcomes'
  <2> DEFINE l == inProgress[flag[c]]
  <2>1. /\ l \in Calls \ {c} /\ Leads(l) /\ flag[l] = flag[c] /\ flag[c] \in Flags
        /\ pc[l] \in Fetching \cup {"dropped"} /\ leader[c] = None
    BY <1>1, <1>7 DEF Follow
  <2>2. /\ leader' = [leader EXCEPT ![c] = l] /\ pc' = [pc EXCEPT ![c] = "wait"]
        /\ UNCHANGED <<flag, reply, floor, since, result>>
    BY <1>7 DEF Follow
  <2>3. pc[l] \in {"reply", "store", "unregister"} /\ reply[l].ver # 0 =>
          floor[c] <= reply[l].ver /\ since[l] <= reply[l].ver
    <3>1. floor[c] <= seen[flag[c]] /\ seen[flag[c]] <= cache[flag[c]].ver
      BY <1>1, <2>1
    <3>2. pc[l] \in {"reply", "store", "unregister"} /\ reply[l].ver # 0 =>
            cache[flag[c]].ver <= reply[l].ver
      BY <1>1, <2>1
    <3>3. QED
      BY <1>1, <2>1, <3>1, <3>2
  <2>4. ASSUME NEW d \in Calls \ {c}, leader[d] # None
        PROVE  leader'[d] = leader[d] /\ pc'[d] = pc[d] /\ pc'[leader[d]] = pc[leader[d]]
    BY <1>1, <2>1, <2>2, <2>4
  <2>5. leader'[c] = l /\ pc'[c] = "wait" /\ pc'[l] = pc[l]
    BY <1>1, <2>1, <2>2
  <2>6. \A d \in Calls \ {c} : leader'[d] = leader[d]
    BY <1>1, <2>2
  <2>7. QED
    BY <1>1, <2>1, <2>2, <2>3, <2>4, <2>5, <2>6
<1>8. ASSUME NEW c \in Calls, ServerReads(c) PROVE Outcomes'
  BY <1>1, <1>8 DEF ServerReads
<1>9. ASSUME NEW c \in Calls, FetchSucceeds(c) PROVE Outcomes'
  <2>1. LeaderReceives(c) BY <1>9, FetchSucceedsCase
  <2>2. QED BY <1>1, <2>1 DEF LeaderReceives
<1>10. ASSUME NEW c \in Calls, FetchFails(c) PROVE Outcomes'
  <2>1. LeaderGivesUp(c) BY <1>10, FetchFailsCase
  <2>2. QED BY <1>1, <2>1 DEF LeaderGivesUp, Nothing
<1>11. ASSUME NEW c \in Calls, Store(c) PROVE Outcomes'
  BY <1>1, <1>11 DEF Store
<1>12. ASSUME NEW c \in Calls, Unregister(c) PROVE Outcomes'
  BY <1>1, <1>12 DEF Unregister
<1>13. ASSUME NEW c \in Calls, Send(c) PROVE Outcomes'
  BY <1>1, <1>13 DEF Send, Return, Newer
<1>14. ASSUME NEW c \in Calls, Observe(c) PROVE Outcomes'
  <2>1. FollowerReturns(c) BY <1>14, ObserveCase
  <2>2. QED BY <1>1, <2>1 DEF FollowerReturns, Return, Newer, HasSent
<1>15. ASSUME NEW c \in Calls, ServerOpts(c) PROVE Outcomes'
  BY <1>1, <1>15 DEF ServerOpts
<1>16. ASSUME NEW c \in Calls, OptSucceeds(c) PROVE Outcomes'
  BY <1>1, <1>16 DEF OptSucceeds
<1>17. ASSUME NEW c \in Calls, OptFails(c) PROVE Outcomes'
  BY <1>1, <1>17 DEF OptFails, Return, Newer
<1>18. ASSUME NEW c \in Calls, Drop(c) PROVE Outcomes'
  BY <1>1, <1>18 DEF Drop
<1>19. ASSUME NEW c \in Calls, NEW f \in Flags, Cached(c, f) PROVE Outcomes'
  BY <1>1, <1>19 DEF Cached, Newer, IsValid
<1>20. ASSUME NEW c \in Calls, NEW f \in Flags,
             NEW o \in Operations \ {"cached"}, Begin(c, o, f)
      PROVE  Outcomes'
  BY <1>1, <1>20 DEF Begin, FirstAwait, Operations
<1>21. ASSUME NEW f \in Flags, ServerChanges(f) PROVE Outcomes'
  BY <1>1, <1>21 DEF ServerChanges
<1>22. CASE Tick
  BY <1>1, <1>22 DEF Tick
<1>23. QED
  BY <1>2, <1>3, <1>4, <1>5, <1>6, <1>7, <1>8, <1>9, <1>10, <1>11, <1>12,
     <1>13, <1>14, <1>15, <1>16, <1>17, <1>18, <1>19, <1>20, <1>21, <1>22
  DEF Next, Caller, Step

\* A value is returned from the cache, by a leader or by a follower; in each
\* case it is no older than the floor of the call.
LEMMA MonotonicReadsStep ==
  ASSUME Inductive, [Next]_vars
  PROVE  MonotonicReads'
<1> USE FlagFetchAssumption DEF TypeOK, Roles, Entries, Versions, Outcomes,
       MonotonicReads,
       Running, Leads, Fetching, Awaits, Goto, history, identity
<1>1. TypeOK /\ Roles /\ Entries /\ Versions /\ Outcomes /\ MonotonicReads BY DEF Inductive
<1>2. CASE UNCHANGED vars
  BY <1>1, <1>2 DEF vars
<1>3. ASSUME NEW c \in Calls, Refuse(c) PROVE MonotonicReads'
  BY <1>1, <1>3 DEF Refuse
<1>4. ASSUME NEW c \in Calls, LookupHit(c) PROVE MonotonicReads'
  BY <1>1, <1>4 DEF LookupHit, Return, Newer, IsValid
<1>5. ASSUME NEW c \in Calls, LookupMiss(c) PROVE MonotonicReads'
  BY <1>1, <1>5 DEF LookupMiss
<1>6. ASSUME NEW c \in Calls, Lead(c) PROVE MonotonicReads'
  BY <1>1, <1>6 DEF Lead
<1>7. ASSUME NEW c \in Calls, Follow(c) PROVE MonotonicReads'
  BY <1>1, <1>7 DEF Follow
<1>8. ASSUME NEW c \in Calls, ServerReads(c) PROVE MonotonicReads'
  BY <1>1, <1>8 DEF ServerReads
<1>9. ASSUME NEW c \in Calls, FetchSucceeds(c) PROVE MonotonicReads'
  <2>1. LeaderReceives(c) BY <1>9, FetchSucceedsCase
  <2>2. QED BY <1>1, <2>1 DEF LeaderReceives
<1>10. ASSUME NEW c \in Calls, FetchFails(c) PROVE MonotonicReads'
  <2>1. LeaderGivesUp(c) BY <1>10, FetchFailsCase
  <2>2. QED BY <1>1, <2>1 DEF LeaderGivesUp, Nothing
<1>11. ASSUME NEW c \in Calls, Store(c) PROVE MonotonicReads'
  BY <1>1, <1>11 DEF Store
<1>12. ASSUME NEW c \in Calls, Unregister(c) PROVE MonotonicReads'
  BY <1>1, <1>12 DEF Unregister
<1>13. ASSUME NEW c \in Calls, Send(c) PROVE MonotonicReads'
  BY <1>1, <1>13 DEF Send, Return, Newer
<1>14. ASSUME NEW c \in Calls, Observe(c) PROVE MonotonicReads'
  <2>1. FollowerReturns(c) BY <1>14, ObserveCase
  <2>2. QED BY <1>1, <2>1 DEF FollowerReturns, Return, Newer, HasSent
<1>15. ASSUME NEW c \in Calls, ServerOpts(c) PROVE MonotonicReads'
  BY <1>1, <1>15 DEF ServerOpts
<1>16. ASSUME NEW c \in Calls, OptSucceeds(c) PROVE MonotonicReads'
  BY <1>1, <1>16 DEF OptSucceeds
<1>17. ASSUME NEW c \in Calls, OptFails(c) PROVE MonotonicReads'
  BY <1>1, <1>17 DEF OptFails, Return, Newer
<1>18. ASSUME NEW c \in Calls, Drop(c) PROVE MonotonicReads'
  BY <1>1, <1>18 DEF Drop
<1>19. ASSUME NEW c \in Calls, NEW f \in Flags, Cached(c, f) PROVE MonotonicReads'
  BY <1>1, <1>19 DEF Cached, Newer, IsValid
<1>20. ASSUME NEW c \in Calls, NEW f \in Flags,
             NEW o \in Operations \ {"cached"}, Begin(c, o, f)
      PROVE  MonotonicReads'
  BY <1>1, <1>20 DEF Begin, FirstAwait, Operations
<1>21. ASSUME NEW f \in Flags, ServerChanges(f) PROVE MonotonicReads'
  BY <1>1, <1>21 DEF ServerChanges
<1>22. CASE Tick
  BY <1>1, <1>22 DEF Tick
<1>23. QED
  BY <1>2, <1>3, <1>4, <1>5, <1>6, <1>7, <1>8, <1>9, <1>10, <1>11, <1>12,
     <1>13, <1>14, <1>15, <1>16, <1>17, <1>18, <1>19, <1>20, <1>21, <1>22
  DEF Next, Caller, Step

\* An answer is never older than Latency when it is stored.
LEMMA StampsStep ==
  ASSUME Inductive, [Next]_vars
  PROVE  Stamps'
<1> USE FlagFetchAssumption DEF TypeOK, Roles, Stamps, Running, Leads, Fetching,
       Awaits, Goto, history, identity
<1>1. TypeOK /\ Roles /\ Stamps BY DEF Inductive
<1>2. CASE UNCHANGED vars
  BY <1>1, <1>2 DEF vars
<1>3. ASSUME NEW c \in Calls, Refuse(c) PROVE Stamps'
  BY <1>1, <1>3 DEF Refuse
<1>4. ASSUME NEW c \in Calls, LookupHit(c) PROVE Stamps'
  BY <1>1, <1>4 DEF LookupHit, Return, Newer, IsValid
<1>5. ASSUME NEW c \in Calls, LookupMiss(c) PROVE Stamps'
  BY <1>1, <1>5 DEF LookupMiss
<1>6. ASSUME NEW c \in Calls, Lead(c) PROVE Stamps'
  BY <1>1, <1>6 DEF Lead
<1>7. ASSUME NEW c \in Calls, Follow(c) PROVE Stamps'
  BY <1>1, <1>7 DEF Follow
<1>8. ASSUME NEW c \in Calls, ServerReads(c) PROVE Stamps'
  BY <1>1, <1>8 DEF ServerReads
<1>9. ASSUME NEW c \in Calls, FetchSucceeds(c) PROVE Stamps'
  <2>1. LeaderReceives(c) BY <1>9, FetchSucceedsCase
  <2>2. QED BY <1>1, <2>1 DEF LeaderReceives
<1>10. ASSUME NEW c \in Calls, FetchFails(c) PROVE Stamps'
  <2>1. LeaderGivesUp(c) BY <1>10, FetchFailsCase
  <2>2. QED BY <1>1, <2>1 DEF LeaderGivesUp, Nothing
<1>11. ASSUME NEW c \in Calls, Store(c) PROVE Stamps'
  BY <1>1, <1>11 DEF Store
<1>12. ASSUME NEW c \in Calls, Unregister(c) PROVE Stamps'
  BY <1>1, <1>12 DEF Unregister
<1>13. ASSUME NEW c \in Calls, Send(c) PROVE Stamps'
  BY <1>1, <1>13 DEF Send, Return, Newer
<1>14. ASSUME NEW c \in Calls, Observe(c) PROVE Stamps'
  <2>1. FollowerReturns(c) BY <1>14, ObserveCase
  <2>2. QED BY <1>1, <2>1 DEF FollowerReturns, Return, Newer, HasSent
<1>15. ASSUME NEW c \in Calls, ServerOpts(c) PROVE Stamps'
  BY <1>1, <1>15 DEF ServerOpts
<1>16. ASSUME NEW c \in Calls, OptSucceeds(c) PROVE Stamps'
  BY <1>1, <1>16 DEF OptSucceeds
<1>17. ASSUME NEW c \in Calls, OptFails(c) PROVE Stamps'
  BY <1>1, <1>17 DEF OptFails, Return, Newer
<1>18. ASSUME NEW c \in Calls, Drop(c) PROVE Stamps'
  BY <1>1, <1>18 DEF Drop
<1>19. ASSUME NEW c \in Calls, NEW f \in Flags, Cached(c, f) PROVE Stamps'
  BY <1>1, <1>19 DEF Cached, Newer, IsValid
<1>20. ASSUME NEW c \in Calls, NEW f \in Flags,
             NEW o \in Operations \ {"cached"}, Begin(c, o, f)
      PROVE  Stamps'
  BY <1>1, <1>20 DEF Begin, FirstAwait, Operations
<1>21. ASSUME NEW f \in Flags, ServerChanges(f) PROVE Stamps'
  BY <1>1, <1>21 DEF ServerChanges
<1>22. CASE Tick
  BY <1>1, <1>22 DEF Tick
<1>23. QED
  BY <1>2, <1>3, <1>4, <1>5, <1>6, <1>7, <1>8, <1>9, <1>10, <1>11, <1>12,
     <1>13, <1>14, <1>15, <1>16, <1>17, <1>18, <1>19, <1>20, <1>21, <1>22
  DEF Next, Caller, Step

-----------------------------------------------------------------------------
(* The theorems. *)

\* Inductive holds in every reachable state.
THEOREM InductiveHolds == Spec => []Inductive
<1>1. Init => Inductive
  BY InductiveInit
<1>2. Inductive /\ [Next]_vars => Inductive'
  <2> SUFFICES ASSUME Inductive, [Next]_vars PROVE Inductive'
    OBVIOUS
  <2>1. TypeOK' /\ Roles' /\ Entries'
    BY TypeStep, RolesStep, EntriesStep
  <2>2. Versions' /\ Outcomes' /\ MonotonicReads' /\ Stamps'
    BY VersionsStep, OutcomesStep, MonotonicReadsStep, StampsStep
  <2>3. QED
    BY <2>1, <2>2 DEF Inductive
<1>3. QED
  BY <1>1, <1>2, PTL DEF Spec

\* Every variable keeps its type.
THEOREM TypeCorrect == Spec => []TypeOK
<1>1. Inductive => TypeOK
  BY DEF Inductive
<1>2. QED
  BY <1>1, InductiveHolds, PTL

\* Reads of a flag are monotonic in real time, across all operations.
THEOREM ReadsAreMonotonic == Spec => []MonotonicReads
<1>1. Inductive => MonotonicReads
  BY DEF Inductive
<1>2. QED
  BY <1>1, InductiveHolds, PTL

\* There is at most one registered request per flag at any time.
THEOREM FlightIsSingle == Spec => []SingleFlight
<1>1. Inductive => SingleFlight
  BY DEF Inductive, Entries, SingleFlight, Fetching
<1>2. QED
  BY <1>1, InductiveHolds, PTL

\* Followers return what their leader returned.
THEOREM OutcomeIsShared == Spec => []SharedOutcome
<1>1. Inductive => SharedOutcome
  <2> SUFFICES ASSUME Inductive, NEW c \in Calls, pc[c] = "done", leader[c] # None
               PROVE  pc[leader[c]] = "done" /\ result[c] = result[leader[c]]
    BY DEF SharedOutcome
  <2>1. leader[c] \in Calls /\ Leads(leader[c])
    BY DEF Inductive, TypeOK, Entries
  <2>2. pc[leader[c]] = "done" /\ result[c] = reply[leader[c]].ver
    BY DEF Inductive, Outcomes
  <2>3. result[leader[c]] = reply[leader[c]].ver
    BY <2>1, <2>2, FlagFetchAssumption DEF Inductive, Outcomes, Leads
  <2>4. QED
    BY <2>2, <2>3
<1>2. QED
  BY <1>1, InductiveHolds, PTL

\* A fetched value was read after the call that fetched it began.
THEOREM FetchIsFresh == Spec => []FetchedAfterLeaderBegan
<1>1. Inductive => FetchedAfterLeaderBegan
  <2> SUFFICES ASSUME Inductive, NEW c \in Calls, result[c] # 0, leader[c] # None
               PROVE  result[c] >= since[leader[c]]
    BY DEF FetchedAfterLeaderBegan
  <2>1. leader[c] \in Calls /\ pc[c] = "done"
    BY DEF Inductive, TypeOK, Roles
  <2>2. pc[leader[c]] = "done" /\ result[c] = reply[leader[c]].ver
    BY <2>1 DEF Inductive, Outcomes
  <2>3. since[leader[c]] <= reply[leader[c]].ver
    BY <2>2 DEF Inductive, Outcomes
  <2>4. QED
    BY <2>1, <2>2, <2>3 DEF Inductive, TypeOK
<1>2. QED
  BY <1>1, InductiveHolds, PTL

\* The cache never holds an older version than before, nor loses its value.
THEOREM CacheIsMonotonic == Spec => CacheNeverGoesBack
<1>1. ASSUME Inductive, [Next]_vars
      PROVE  [\A f \in Flags : cache[f].ver <= cache'[f].ver]_cache
  <2> SUFFICES ASSUME cache' # cache PROVE \A f \in Flags : cache[f].ver <= cache'[f].ver
    OBVIOUS
  <2>1. PICK c \in Calls : Store(c)
    BY <1>1 DEF Next, vars, Caller, Step, Refuse, Cached, Begin, LookupHit,
      LookupMiss,
       Lead, Follow, ServerReads, FetchSucceeds, FetchFails, Unregister, Send,
       Observe,
       ServerOpts, OptSucceeds, OptFails, Drop, ServerChanges, Tick
  <2>2. flag[c] \in Flags /\ cache[flag[c]].ver <= reply[c].ver
    BY <1>1, <2>1 DEF Inductive, Roles, Running, Awaits, Versions, Store
  <2>3. QED
    BY <1>1, <2>1, <2>2 DEF Inductive, TypeOK, Store
<1>2. QED
  BY <1>1, InductiveHolds, PTL DEF Spec, CacheNeverGoesBack

\* A value handed out of the cache was read at most Ttl + Latency ago.
THEOREM StalenessIsBounded == Spec => BoundedStaleness
<1>1. ASSUME Inductive, [Next]_vars, NEW c \in Calls, CacheHit(c)
      PROVE  clock - cache[flag'[c]].readAt < Ttl + Latency
  <2> USE FlagFetchAssumption
  <2>1. LookupHit(c) \/ \E f \in Flags : Cached(c, f)
    <3>1. pc[c] \in {"idle", "lookup"} /\ pc'[c] = "done" /\ result'[c] # 0 /\ result[c] = 0
      BY <1>1 DEF CacheHit, Inductive, Roles
    <3>2. pc' # pc
      BY <3>1
    <3>3. PICK d \in Calls : Caller(d) \/ Step(d)
      BY <1>1, <3>2 DEF Next, vars, Tick, ServerChanges
    <3>4. d = c
      BY <1>1, <3>1, <3>3 DEF Inductive, TypeOK, Caller, Step, Goto, Return, Refuse,
        Cached,
         Begin, LookupHit, LookupMiss, Lead, Follow, ServerReads, FetchSucceeds,
         FetchFails,
         Store, Unregister, Send, Observe, ServerOpts, OptSucceeds, OptFails, Drop
    <3>5. QED
      BY <1>1, <3>1, <3>3, <3>4 DEF Inductive, TypeOK, Caller, Step, Goto, Return,
        Refuse,
         Begin, FirstAwait, LookupMiss, Lead, Follow, ServerReads, FetchSucceeds,
         FetchFails,
         Store, Unregister, Send, Observe, ServerOpts, OptSucceeds, OptFails, Drop,
         Operations
  <2>2. flag'[c] \in Flags /\ IsValid(flag'[c])
    <3>1. CASE LookupHit(c)
      BY <1>1, <3>1 DEF LookupHit, identity, Inductive, Roles, Running, Awaits
    <3>2. CASE \E f \in Flags : Cached(c, f)
      BY <1>1, <3>2 DEF Cached, CacheHit, Inductive, TypeOK
    <3>3. QED
      BY <2>1, <3>1, <3>2
  <2>3. QED
    BY <2>2, <1>1 DEF Inductive, TypeOK, Stamps, IsValid
<1>2. ASSUME Inductive, [Next]_vars
      PROVE  [\A c \in Calls :
                CacheHit(c) => clock - cache[flag'[c]].readAt < Ttl + Latency]_vars
  BY <1>1, <1>2
<1>3. QED
  BY <1>2, InductiveHolds, PTL DEF Spec, BoundedStaleness

\* A follower waits for a leader that goes on by itself, or for ever: the fallback of
\* `fetch` for a dropped sender never runs.
THEOREM FallbackNeverRuns == Spec => []FollowersWaitForLeaders
<1>1. Inductive => FollowersWaitForLeaders
  <2> SUFFICES ASSUME Inductive, NEW c \in Calls, pc[c] = "wait"
               PROVE  /\ ~SenderDropped(leader[c])
                      /\ \/ HasSent(leader[c])
                         \/ pc[leader[c]] \in Fetching \cup {"send"}
                         \/ FollowsDropped(c) /\ inProgress[flag[c]] = leader[c]
    BY DEF FollowersWaitForLeaders
  <2> DEFINE l == leader[c]
  <2>1. l \in Calls \ {c} /\ Leads(l) /\ flag[l] = flag[c] /\ flag[c] \in Flags
    BY FlagFetchAssumption DEF Inductive, Roles, Entries, Running, Awaits
  <2>2. pc[l] \in Fetching \cup {"send", "done", "dropped"}
    BY <2>1, FlagFetchAssumption
    DEF Inductive, TypeOK, Roles, Leads, Places, Awaits, Fetching
  <2>3. pc[l] = "done" => HasSent(l)
    BY <2>1, FlagFetchAssumption DEF Inductive, Entries, HasSent, Fetching
  <2>4. pc[l] \in Fetching \cup {"dropped"} => inProgress[flag[l]] = l
    BY <2>1 DEF Inductive, Entries
  <2> QED
    BY <2>1, <2>2, <2>3, <2>4 DEF SenderDropped, FollowsDropped
<1>2. QED
  BY <1>1, InductiveHolds, PTL

\* What has been dropped stays dropped.
LEMMA DroppedStays ==
  ASSUME Inductive, [Next]_vars, NEW c \in Calls, pc[c] = "dropped"
  PROVE  pc'[c] = "dropped"
<1>1. pc \in [Calls -> Places]
  BY DEF Inductive, TypeOK
<1>2. CASE pc' = pc
  BY <1>2
<1>3. ASSUME NEW d \in Calls, Caller(d) \/ Step(d)
      PROVE  pc'[c] = "dropped"
  <2>1. d # c
    BY <1>3 DEF Caller, Step, Refuse, Cached, Begin, LookupHit, LookupMiss, Lead, Follow,
      ServerReads, FetchSucceeds, FetchFails, Store, Unregister, Send, Observe, ServerOpts,
      OptSucceeds, OptFails, Drop, Awaits
  <2>2. \E p : pc' = [pc EXCEPT ![d] = p]
    BY <1>3 DEF Caller, Step, Goto, Return, Refuse, Cached, Begin, LookupHit, LookupMiss,
      Lead, Follow, ServerReads, FetchSucceeds, FetchFails, Store, Unregister, Send,
      Observe, ServerOpts, OptSucceeds, OptFails, Drop
  <2> QED
    BY <1>1, <2>1, <2>2
<1>4. QED
  BY <1>2, <1>3 DEF Next, vars, ServerChanges, Tick

\* A leader that is dropped blocks its flag for good: no step of any call removes its
\* entry, and no call that follows it ever returns.
THEOREM DroppedLeaderBlocksForGood == Spec => DroppedLeaderIsFinal
<1> USE FlagFetchAssumption
<1>1. ASSUME Inductive, [Next]_vars, NEW f \in Flags, Stuck(f)
      PROVE  Stuck(f)'
  <2> DEFINE l == inProgress[f]
  <2>1. l \in Calls /\ Leads(l) /\ flag[l] = f /\ pc[l] = "dropped" /\ l # None
    BY <1>1 DEF Inductive, TypeOK, Entries, Stuck
  <2>2. inProgress'[f] = l
    <3>1. inProgress \in [Flags -> Calls \cup {None}]
      BY <1>1 DEF Inductive, TypeOK
    <3>2. CASE inProgress' = inProgress
      BY <3>2
    <3>3. ASSUME NEW c \in Calls, Lead(c)
          PROVE  inProgress'[f] = l
      BY <2>1, <3>1, <3>3 DEF Lead
    <3>4. ASSUME NEW c \in Calls, Unregister(c)
          PROVE  inProgress'[f] = l
      <4>1. Leads(c) /\ inProgress[flag[c]] = c
        BY <1>1, <3>4 DEF Unregister, Inductive, Roles, Entries, Fetching
      <4>2. flag[c] # f
        BY <2>1, <3>4, <4>1 DEF Unregister
      <4> QED
        BY <3>1, <3>4, <4>2 DEF Unregister
    <3> QED
      BY <1>1, <3>2, <3>3, <3>4 DEF Next, vars, Caller, Step, Refuse, Cached, Begin,
        LookupHit, LookupMiss, Follow, ServerReads, FetchSucceeds, FetchFails, Store,
        Send, Observe, ServerOpts, OptSucceeds, OptFails, Drop, ServerChanges, Tick
  <2>3. pc'[l] = "dropped"
    BY <1>1, <2>1, DroppedStays
  <2> QED
    BY <2>1, <2>2, <2>3 DEF Stuck
<1>2. ASSUME Inductive, [Next]_vars, NEW c \in Calls, FollowsDropped(c), pc'[c] # "dropped"
      PROVE  FollowsDropped(c)'
  <2> DEFINE l == leader[c]
  <2>1. l \in Calls \ {c} /\ pc[l] = "dropped" /\ pc[c] = "wait"
    BY <1>2 DEF Inductive, Roles, FollowsDropped
  <2>2. pc'[l] = "dropped"
    BY <1>2, <2>1, DroppedStays
  <2>3. pc'[c] = "wait" /\ leader'[c] = l
    <3>1. pc \in [Calls -> Places] /\ leader \in [Calls -> Calls \cup {None}]
      BY <1>2 DEF Inductive, TypeOK
    <3>2. CASE pc' = pc /\ leader' = leader
      BY <2>1, <3>2
    <3>3. ASSUME NEW d \in Calls, Caller(d) \/ Step(d)
          PROVE  pc'[c] = "wait" /\ leader'[c] = l
      <4>1. ~Observe(c)
        BY <1>2, <2>1, ObserveCase DEF FollowerReturns, HasSent
      <4>2. d # c
        BY <1>2, <2>1, <3>1, <3>3, <4>1 DEF Caller, Step, Goto, Refuse, Cached, Begin,
          LookupHit, LookupMiss, Lead, Follow, ServerReads, FetchSucceeds, FetchFails,
          Store, Unregister, Send, ServerOpts, OptSucceeds, OptFails, Drop
      <4>3. /\ \E p : pc' = [pc EXCEPT ![d] = p]
            /\ leader' = leader \/ \E k : leader' = [leader EXCEPT ![d] = k]
        BY <3>3 DEF Caller, Step, Goto, Return, Refuse, Cached, Begin, LookupHit,
          LookupMiss, Lead, Follow, ServerReads, FetchSucceeds, FetchFails, Store,
          Unregister, Send, Observe, ServerOpts, OptSucceeds, OptFails, Drop
      <4> QED
        BY <2>1, <3>1, <4>2, <4>3
    <3> QED
      BY <1>2, <3>2, <3>3 DEF Next, vars, ServerChanges, Tick
  <2> QED
    BY <2>2, <2>3 DEF FollowsDropped
<1>3. ASSUME Inductive, [Next]_vars
      PROVE  [/\ \A f \in Flags : Stuck(f) => Stuck(f)'
              /\ \A c \in Calls :
                   FollowsDropped(c) => FollowsDropped(c)' \/ pc'[c] = "dropped"]_vars
  BY <1>1, <1>2, <1>3
<1>4. QED
  BY <1>3, InductiveHolds, PTL DEF Spec, DroppedLeaderIsFinal

-----------------------------------------------------------------------------
(* The service implements FlagService: each action maps to a step of the   *)
(* abstract specification, or changes nothing it can see.                  *)

\* A call that moves from one await to another does not show.
LEMMA HiddenStep ==
  ASSUME Inductive, NEW c \in Calls, NEW p \in Awaits \cup {"send"},
         Running(c), Goto(c, p)
  PROVE  [d \in Calls |-> Phase(d)]' = [d \in Calls |-> Phase(d)]
BY DEF Inductive, TypeOK, Running, Goto, Phase, Ended, Awaits

\* A call that begins is running; a call that returns or is dropped is done.
LEMMA ShownStep ==
  ASSUME Inductive, NEW c \in Calls, NEW p \in Places, p # "idle", Goto(c, p)
  PROVE  [d \in Calls |-> Phase(d)]' =
           [[d \in Calls |-> Phase(d)] EXCEPT
              ![c] = IF p \in {"done", "dropped"} THEN "done" ELSE "running"]
BY DEF Inductive, TypeOK, Goto, Phase, Ended, Places

\* Returning what the cache covers is an abstract answer; returning nothing is
\* an abstract failure.
LEMMA ReturnStep ==
  ASSUME Inductive, NEW c \in Calls, Running(c), NEW v \in Nat, Return(c, v),
         v = 0 \/ (floor[c] <= v /\ v <= server[flag[c]]),
         UNCHANGED <<server, flag, floor>>
  PROVE  Abstract!SNext
<1>1. flag[c] \in Flags /\ Phase(c) = "running" /\ result[c] = 0
  BY DEF Inductive, Roles, Running, Awaits, Phase, Ended
<1>2. [d \in Calls |-> Phase(d)]' = [[d \in Calls |-> Phase(d)] EXCEPT ![c] = "done"]
  BY ShownStep DEF Return, Places
<1>3. CASE v = 0
  <2>1. result' = result /\ seen' = seen
    BY <1>1, <1>3 DEF Return, Inductive, TypeOK, Newer
  <2>2. Abstract!Fail(c)
    BY <1>1, <1>2, <2>1 DEF Abstract!Fail
  <2>3. QED
    BY <2>2 DEF Abstract!SNext
<1>4. CASE v # 0
  <2>1. v \in floor[c] .. server[flag[c]] /\ v \in 0 .. server[flag[c]]
    BY <1>1, <1>4 DEF Inductive, TypeOK
  <2>2. Abstract!Answer(c, flag[c], v)
    BY <1>1, <1>2, <2>1 DEF Abstract!Answer, Abstract!Newer, Return, Newer
  <2>3. QED
    BY <1>1, <2>1, <2>2 DEF Abstract!SNext
<1>5. QED
  BY <1>3, <1>4

\* A new version on the server is an abstract one.
LEMMA ServerStep ==
  ASSUME Inductive, NEW f \in Flags, server' = [server EXCEPT ![f] = @ + 1],
         UNCHANGED <<seen, flag, floor, result>>,
         [d \in Calls |-> Phase(d)]' = [d \in Calls |-> Phase(d)]
  PROVE  Abstract!SNext
<1>1. Abstract!Advance(f)
  BY DEF Abstract!Advance
<1>2. QED
  BY <1>1 DEF Abstract!SNext

LEMMA RefinementStep ==
  ASSUME Inductive, [Next]_vars
  PROVE  Abstract!SNext \/ UNCHANGED Abstract!svars
<1> USE FlagFetchAssumption DEF history, identity
<1>0. TypeOK /\ Roles /\ Entries /\ Versions /\ Outcomes
  BY DEF Inductive
<1>1. CASE UNCHANGED vars
  BY <1>1 DEF vars, Abstract!svars, Phase, Ended
<1>2. ASSUME NEW c \in Calls, Refuse(c) PROVE Abstract!SNext
  <2>1. Abstract!Refuse(c)
    BY <1>2, ShownStep DEF Refuse, Abstract!Refuse, Phase, Places
  <2>2. QED
    BY <2>1 DEF Abstract!SNext
<1>3. ASSUME NEW c \in Calls, NEW f \in Flags, Cached(c, f) PROVE Abstract!SNext
  <2>1. PICK v \in {0, cache[f].ver} :
          /\ result' = [result EXCEPT ![c] = v]
          /\ seen' = [seen EXCEPT ![f] = Newer(@, v)]
    BY <1>3 DEF Cached
  <2>2. v \in {0} \cup seen[f] .. server[f] /\ v \in 0 .. server[f]
    BY <1>0, <2>1 DEF TypeOK, Versions
  <2>3. Abstract!Peek(c, f, v)
    BY <1>3, <2>1, <2>2, ShownStep DEF Cached, Abstract!Peek, Abstract!Newer, Newer,
      Phase, Places
  <2>4. QED
    BY <2>2, <2>3 DEF Abstract!SNext
<1>4. ASSUME NEW c \in Calls, NEW f \in Flags,
             NEW o \in Operations \ {"cached"}, Begin(c, o, f)
      PROVE  Abstract!SNext
  <2>1. FirstAwait(o) \in Places /\ FirstAwait(o) \notin {"idle", "done", "dropped"}
    BY DEF FirstAwait, Operations, Places, Awaits
  <2>2. [d \in Calls |-> Phase(d)]' = [[d \in Calls |-> Phase(d)] EXCEPT ![c] = "running"]
    BY <1>4, <2>1, ShownStep DEF Begin
  <2>3. Abstract!Ask(c, f)
    BY <1>4, <2>2 DEF Begin, Abstract!Ask, Phase
  <2>4. QED
    BY <2>3 DEF Abstract!SNext
<1>5. ASSUME NEW c \in Calls, LookupHit(c) PROVE Abstract!SNext
  <2>1. flag[c] \in Flags /\ Running(c)
    BY <1>0, <1>5 DEF LookupHit, Roles, Running, Awaits
  <2>2. floor[c] <= cache[flag[c]].ver /\ cache[flag[c]].ver <= server[flag[c]]
    BY <1>0, <2>1 DEF TypeOK, Versions
  <2>3. QED
    BY <1>0, <1>5, <2>1, <2>2, ReturnStep DEF LookupHit, TypeOK
<1>6. ASSUME NEW c \in Calls, Send(c) PROVE Abstract!SNext
  <2>1. flag[c] \in Flags /\ Running(c) /\ Leads(c) /\ pc[c] = "send"
    BY <1>0, <1>6 DEF Send, Roles, Running
  <2>2. /\ reply[c].ver <= cache[flag[c]].ver /\ cache[flag[c]].ver <= server[flag[c]]
        /\ Return(c, reply[c].ver)
    BY <1>0, <1>6, <2>1 DEF Versions, Outcomes, Leads, Send
  <2>3. reply[c].ver # 0 => floor[c] <= reply[c].ver
    BY <1>0, <2>1 DEF Outcomes, Leads
  <2>4. QED
    BY <1>0, <1>6, <2>1, <2>2, <2>3, ReturnStep DEF TypeOK, Send
<1>7. ASSUME NEW c \in Calls, Observe(c) PROVE Abstract!SNext
  <2> DEFINE l == leader[c]
  <2>1. FollowerReturns(c)
    BY <1>7, ObserveCase
  <2>2. /\ l \in Calls /\ Leads(l) /\ pc[l] = "done" /\ flag[l] = flag[c]
        /\ flag[c] \in Flags /\ Running(c)
    BY <1>0, <2>1 DEF FollowerReturns, HasSent, Entries, Roles, Running, Awaits
  <2>3. reply[l].ver <= cache[flag[c]].ver /\ cache[flag[c]].ver <= server[flag[c]]
    BY <1>0, <2>2 DEF Versions
  <2>4. reply[l].ver # 0 => floor[c] <= reply[l].ver
    BY <1>0, <2>2 DEF Outcomes
  <2>5. reply[l].ver \in Nat /\ reply[l].ver <= server[flag[c]]
    BY <1>0, <2>2, <2>3 DEF TypeOK
  <2>6. Return(c, reply[l].ver) /\ UNCHANGED <<server, flag, floor>>
    BY <2>1 DEF FollowerReturns
  <2>7. QED
    BY <2>2, <2>4, <2>5, <2>6, ReturnStep
<1>8. ASSUME NEW c \in Calls, OptFails(c) PROVE Abstract!SNext
  <2>1. flag[c] \in Flags /\ result[c] = 0 /\ Phase(c) = "running"
    BY <1>0, <1>8 DEF OptFails, Roles, Running, Awaits, Phase, Ended
  <2>2. result' = result /\ seen' = seen
    BY <1>0, <1>8, <2>1 DEF OptFails, Return, Newer, TypeOK
  <2>3. Abstract!Fail(c)
    BY <1>8, <2>1, <2>2, ShownStep DEF OptFails, Return, Places, Abstract!Fail
  <2>4. QED
    BY <2>3 DEF Abstract!SNext
<1>9. ASSUME NEW c \in Calls, Drop(c) PROVE Abstract!SNext
  <2>1. Abstract!Fail(c)
    BY <1>9, ShownStep DEF Drop, Abstract!Fail, Phase, Ended, Places, Awaits
  <2>2. QED
    BY <2>1 DEF Abstract!SNext
<1>10. ASSUME NEW c \in Calls, ServerOpts(c) PROVE Abstract!SNext \/ UNCHANGED Abstract!svars
  <2>1. flag[c] \in Flags /\ Running(c)
    BY <1>0, <1>10 DEF ServerOpts, Roles, Running, Awaits
  <2>2. [d \in Calls |-> Phase(d)]' = [d \in Calls |-> Phase(d)]
    BY <1>10, <2>1, HiddenStep DEF ServerOpts, Awaits
  <2>3. CASE server' = [server EXCEPT ![flag[c]] = @ + 1]
    BY <1>10, <2>1, <2>2, <2>3, ServerStep DEF ServerOpts
  <2>4. CASE server' = [server EXCEPT ![flag[c]] = @]
    BY <1>0, <1>10, <2>2, <2>4 DEF ServerOpts, Abstract!svars, TypeOK
  <2>5. QED
    BY <1>10, <2>3, <2>4 DEF ServerOpts
<1>11. ASSUME NEW f \in Flags, ServerChanges(f) PROVE Abstract!SNext
  <2>1. [d \in Calls |-> Phase(d)]' = [d \in Calls |-> Phase(d)]
    BY <1>11 DEF ServerChanges, Phase, Ended
  <2>2. QED
    BY <1>11, <2>1, ServerStep DEF ServerChanges
<1>12. CASE Tick
  BY <1>12 DEF Tick, Abstract!svars, Phase, Ended
<1>13. ASSUME NEW c \in Calls,
              LookupMiss(c) \/ Lead(c) \/ Follow(c) \/ ServerReads(c) \/ FetchSucceeds(c)
                \/ FetchFails(c) \/ Store(c) \/ Unregister(c) \/ OptSucceeds(c)
       PROVE  UNCHANGED Abstract!svars
  <2>1. \E p \in Awaits \cup {"send"} : Running(c) /\ Goto(c, p)
    BY <1>13, FetchSucceedsCase, FetchFailsCase DEF LookupMiss, Lead, Follow,
      ServerReads,
       Store, Unregister, OptSucceeds, LeaderReceives, LeaderGivesUp, Running, Awaits
  <2>2. [d \in Calls |-> Phase(d)]' = [d \in Calls |-> Phase(d)]
    BY <2>1, HiddenStep
  <2>3. UNCHANGED <<server, seen, flag, floor, result>>
    BY <1>13, FetchSucceedsCase, FetchFailsCase DEF LookupMiss, Lead, Follow,
      ServerReads,
       Store, Unregister, OptSucceeds, LeaderReceives, LeaderGivesUp
  <2>4. QED
    BY <2>2, <2>3 DEF Abstract!svars
<1>14. QED
  BY <1>1, <1>2, <1>3, <1>4, <1>5, <1>6, <1>7, <1>8, <1>9, <1>10, <1>11, <1>12, <1>13
  DEF Next, Caller, Step

\* The service keeps the promise of FlagService.
THEOREM FlagServiceImplemented == Spec => ImplementsFlagService
<1>1. Init => Abstract!SInit
  BY DEF Init, Abstract!SInit, Phase
<1>2. Inductive /\ [Next]_vars => [Abstract!SNext]_(Abstract!svars)
  BY RefinementStep
<1>3. QED
  BY <1>1, <1>2, InductiveHolds, PTL
  DEF Spec, ImplementsFlagService, Abstract!SSpec
============================================================================
