-------------------------- MODULE StateFileProofs --------------------------
(***************************************************************************)
(* Proofs about StateFile: its inductive invariant, the one first boot of  *)
(* a process, and what clients that take turns with the file agree on, for *)
(* any number of clients, processes, toggles and edits.                    *)
(***************************************************************************)
EXTENDS StateFile, TLAPS

LEMMA InductiveInit == Init => Inductive
<1> USE StateFileAssumption
<1> SUFFICES ASSUME Init PROVE Inductive
  OBVIOUS
<1>1. TypeOK
  BY DEF Init, TypeOK, Absent
<1>2. Begun /\ Gates /\ OneFirstBootPerProcess
  BY DEF Init, Begun, Gates, OneFirstBootPerProcess
<1>3. Turns /\ InHand /\ Agreed
  BY DEF Init, Turns, InHand, Agreed, Busy, Settled, Resolved, Whole, Absent, Empty
<1>4. QED
  BY <1>1, <1>2, <1>3 DEF Inductive

\* Whether it reads the file or fails to, a client begins with a configuration:
\* its own new one if it takes it that there is no file.
Loads(c, p, k, s, found) ==
  /\ Load(c, p, k, s, found)
  /\ k \in SUBSET Toggles /\ s \in Configs /\ found \in BOOLEAN
  /\ ~found => s.id = c

LEMMA ReadCase ==
  ASSUME Inductive, NEW c \in Clients, NEW p \in Procs, NEW k \in BuilderConfigs(p),
         Read(c, p, k) \/ ReadFails(c, p, k)
  PROVE  \E s, found : Loads(c, p, k, s, found)
<1> USE StateFileAssumption
<1> DEFINE new == [id |-> c, on |-> k]
           all == [id |-> c, on |-> Toggles]
<1>1. k \in SUBSET Toggles
  BY DEF Inductive, TypeOK, BuilderConfigs
<1>2. new \in Configs /\ all \in Configs /\ new.id = c
  BY <1>1 DEF Configs
<1>3. CASE file = Absent \/ ReadFails(c, p, k)
  <2>1. Load(c, p, k, new, FALSE)
    BY <1>3 DEF Read, ReadFails
  <2>2. Loads(c, p, k, new, FALSE)
    BY <2>1, <1>1, <1>2 DEF Loads
  <2>3. QED
    BY <2>2
<1>4. CASE file = Empty /\ file # Absent /\ Read(c, p, k)
  <2>1. Load(c, p, k, all, TRUE)
    BY <1>4 DEF Read
  <2>2. Loads(c, p, k, all, TRUE)
    BY <2>1, <1>1, <1>2 DEF Loads
  <2>3. QED
    BY <2>2
<1>5. CASE Whole /\ Read(c, p, k)
  <2>1. Load(c, p, k, file, TRUE) /\ file \in Configs
    BY <1>5 DEF Read, Whole, Inductive, TypeOK
  <2>2. Loads(c, p, k, file, TRUE)
    BY <2>1, <1>1 DEF Loads
  <2>3. QED
    BY <2>2
<1>6. QED
  BY <1>3, <1>4, <1>5 DEF Whole

-----------------------------------------------------------------------------
(* What holds whatever comes between *)

LEMMA TypeStep == Inductive /\ Next => TypeOK'
<1> USE StateFileAssumption
<1> SUFFICES ASSUME Inductive, Next PROVE TypeOK'
  OBVIOUS
<1> USE DEF Inductive, TypeOK
<1>1. ASSUME NEW c \in Clients, NEW p \in Procs, NEW k \in BuilderConfigs(p),
             Read(c, p, k) \/ ReadFails(c, p, k)
      PROVE  TypeOK'
  <2>1. PICK s, found : Loads(c, p, k, s, found)
    BY <1>1, ReadCase
  <2>2. mishap' \in BOOLEAN
    BY <1>1 DEF Read, ReadFails, Overlap
  <2>3. QED
    BY <2>1, <2>2 DEF Loads, Load
<1>2. ASSUME NEW c \in Clients, Truncate(c) PROVE TypeOK'
  BY <1>2 DEF Truncate
<1>3. ASSUME NEW c \in Clients, Write(c) PROVE TypeOK'
  <2>1. stored[c] \in Configs
    BY <1>3 DEF Write, Begun
  <2>2. stored[c].on \in SUBSET Toggles
    BY <2>1 DEF Configs
  <2>3. QED
    BY <1>3, <2>1, <2>2 DEF Write
<1>4. ASSUME NEW c \in Clients, WriteFails(c) PROVE TypeOK'
  BY <1>4 DEF WriteFails
<1>5. ASSUME NEW c \in Clients, Resolve(c) PROVE TypeOK'
  <2>1. host[c] \in Procs
    BY <1>5 DEF Resolve, Begun
  <2>2. env[host[c]].force \in BOOLEAN
    BY <2>1
  <2>3. QED
    BY <1>5, <2>1, <2>2 DEF Resolve
<1>6. ASSUME NEW on \in SUBSET Toggles, Edit(on) PROVE TypeOK'
  <2>1. file \in Configs
    BY <1>6 DEF Edit, Whole
  <2>2. [file EXCEPT !.on = on] \in Configs
    BY <2>1 DEF Configs
  <2>3. QED
    BY <1>6, <2>2 DEF Edit, Overlap
<1>7. ASSUME NEW p \in Procs, Crash(p) PROVE TypeOK'
  BY <1>7 DEF Crash
<1>8. QED
  BY <1>1, <1>2, <1>3, <1>4, <1>5, <1>6, <1>7 DEF Next, Build

LEMMA GatesStep ==
  Inductive /\ Next => Begun' /\ Gates' /\ OneFirstBootPerProcess'
<1> USE StateFileAssumption
<1> DEFINE Goal == Begun' /\ Gates' /\ OneFirstBootPerProcess'
<1> SUFFICES ASSUME Inductive, Next PROVE Goal
  OBVIOUS
<1> USE DEF Inductive, TypeOK, Begun, Gates, OneFirstBootPerProcess, Resolved, Busy
<1>1. ASSUME NEW c \in Clients, NEW p \in Procs, NEW k \in BuilderConfigs(p),
             Read(c, p, k) \/ ReadFails(c, p, k)
      PROVE  Goal
  <2>1. PICK s, found : Loads(c, p, k, s, found)
    BY <1>1, ReadCase
  <2>2. QED
    BY <2>1 DEF Loads, Load
<1>2. ASSUME NEW c \in Clients, Truncate(c) PROVE Goal
  BY <1>2 DEF Truncate
<1>3. ASSUME NEW c \in Clients, Write(c) PROVE Goal
  BY <1>3 DEF Write
<1>4. ASSUME NEW c \in Clients, WriteFails(c) PROVE Goal
  BY <1>4 DEF WriteFails
<1>5. ASSUME NEW c \in Clients, Resolve(c) PROVE Goal
  BY <1>5 DEF Resolve
<1>6. ASSUME NEW on \in SUBSET Toggles, Edit(on) PROVE Goal
  BY <1>6 DEF Edit
<1>7. ASSUME NEW p \in Procs, Crash(p) PROVE Goal
  BY <1>7 DEF Crash
<1>8. QED
  BY <1>1, <1>2, <1>3, <1>4, <1>5, <1>6, <1>7 DEF Next, Build

-----------------------------------------------------------------------------
(* What holds while clients take turns *)

LEMMA SerialStep ==
  Inductive /\ Next /\ ~mishap' => ~mishap /\ Turns' /\ InHand' /\ Agreed'
<1> USE StateFileAssumption
<1> DEFINE Goal == ~mishap /\ Turns' /\ InHand' /\ Agreed'
<1> SUFFICES ASSUME Inductive, Next, ~mishap' PROVE Goal
  OBVIOUS
<1> USE DEF Turns, InHand, Agreed, Busy, Settled, Resolved, Whole
<1>1. ASSUME NEW c \in Clients, NEW p \in Procs, NEW k \in BuilderConfigs(p),
             Read(c, p, k) \/ ReadFails(c, p, k)
      PROVE  Goal
  <2>1. /\ ~mishap /\ ~Overlap /\ Read(c, p, k)
    BY <1>1 DEF Read, ReadFails, Inductive, TypeOK, Overlap
  <2>2. Turns /\ InHand /\ Agreed
    BY <2>1 DEF Inductive
  <2>3. file # Empty
    BY <2>1, <2>2 DEF Overlap
  <2>4. place[c] = "idle" /\ place' = [place EXCEPT ![c] = "open"]
    BY <2>1 DEF Read, Load
  <2>5. place \in [Clients -> {"idle", "open", "write", "resolve", "built", "failed", "dead"}]
        /\ stored \in [Clients -> Configs \cup {Absent}] /\ existed \in [Clients -> BOOLEAN]
    BY DEF Inductive, TypeOK
  <2>6. file' = file /\ chosen' = chosen
    BY <2>1 DEF Read, Load
  <2>7. PICK s, found : /\ stored' = [stored EXCEPT ![c] = s]
                        /\ existed' = [existed EXCEPT ![c] = found]
                        /\ found \in BOOLEAN /\ (found <=> file # Absent)
                        /\ found => s = file
    BY <2>1, <2>3 DEF Read, Load
  <2>8. Turns'
    BY <2>1, <2>4, <2>5 DEF Overlap
  <2>9. InHand'
    BY <2>1, <2>2, <2>3, <2>4, <2>5, <2>6, <2>7 DEF Overlap
  <2>10. Agreed'
    BY <2>1, <2>2, <2>3, <2>4, <2>5, <2>6, <2>7 DEF Overlap
  <2>11. QED
    BY <2>1, <2>8, <2>9, <2>10
<1>2. ASSUME NEW c \in Clients, Truncate(c) PROVE Goal
  <2>1. ~mishap /\ Turns /\ InHand /\ Agreed
    BY <1>2 DEF Truncate, Inductive
  <2>2. place[c] = "open" /\ place' = [place EXCEPT ![c] = "write"]
        /\ file' = Empty /\ stored' = stored /\ existed' = existed /\ chosen' = chosen
    BY <1>2 DEF Truncate
  <2>3. place \in [Clients -> {"idle", "open", "write", "resolve", "built", "failed", "dead"}]
    BY DEF Inductive, TypeOK
  <2>4. Empty # Absent
    BY DEF Empty, Absent
  <2>5. Turns' /\ InHand'
    BY <2>1, <2>2, <2>3, <2>4
  <2>6. Agreed'
    BY <2>1, <2>2, <2>3, <2>4
  <2>7. QED
    BY <2>1, <2>5, <2>6
<1>3. ASSUME NEW c \in Clients, Write(c) PROVE Goal
  <2>1. ~mishap /\ Turns /\ InHand /\ Agreed
    BY <1>3 DEF Write, Inductive
  <2>2. place[c] = "write" /\ place' = [place EXCEPT ![c] = "resolve"]
        /\ file' = stored[c] /\ stored' = stored /\ existed' = existed
        /\ chosen' = IF existed[c] THEN chosen ELSE stored[c].on
    BY <1>3 DEF Write
  <2>3. place \in [Clients -> {"idle", "open", "write", "resolve", "built", "failed", "dead"}]
    BY DEF Inductive, TypeOK
  <2>4. stored[c] # Empty /\ stored[c] # Absent
    BY <2>2 DEF Inductive, Begun, Configs, Empty, Absent
  <2>5. Turns' /\ InHand'
    BY <2>1, <2>2, <2>3, <2>4
  <2>6. Agreed'
    BY <2>1, <2>2, <2>3, <2>4
  <2>7. QED
    BY <2>1, <2>5, <2>6
<1>4. ASSUME NEW c \in Clients, WriteFails(c) PROVE FALSE
  BY <1>4 DEF WriteFails
<1>5. ASSUME NEW c \in Clients, Resolve(c) PROVE Goal
  <2>1. ~mishap /\ Turns /\ InHand /\ Agreed
    BY <1>5 DEF Resolve, Inductive
  <2>2. PICK p \in {"built", "failed"} :
          /\ place[c] = "resolve" /\ place' = [place EXCEPT ![c] = p]
          /\ file' = file /\ stored' = stored /\ existed' = existed /\ chosen' = chosen
    BY <1>5 DEF Resolve
  <2>3. place \in [Clients -> {"idle", "open", "write", "resolve", "built", "failed", "dead"}]
    BY DEF Inductive, TypeOK
  <2>4. Turns' /\ InHand' /\ Agreed'
    BY <2>1, <2>2, <2>3
  <2>5. QED
    BY <2>1, <2>4
<1>6. ASSUME NEW on \in SUBSET Toggles, Edit(on) PROVE Goal
  <2>1. /\ ~mishap /\ ~Overlap
        /\ Turns /\ InHand /\ Agreed
    BY <1>6 DEF Edit, Inductive, TypeOK, Overlap
  <2>2. /\ file \in Configs /\ file # Empty /\ file # Absent
        /\ file' = [file EXCEPT !.on = on]
        /\ chosen' = on /\ place' = place /\ stored' = stored /\ existed' = existed
    BY <1>6 DEF Edit, Inductive, TypeOK
  <2>3. /\ file'.id = file.id /\ file'.on = on
        /\ file' # Empty /\ file' # Absent
    BY <2>2 DEF Configs, Empty, Absent
  <2>4. Turns' /\ InHand'
    BY <2>1, <2>2 DEF Overlap
  <2>5. Agreed'
    BY <2>1, <2>2, <2>3 DEF Overlap
  <2>6. QED
    BY <2>1, <2>4, <2>5
<1>7. ASSUME NEW p \in Procs, Crash(p) PROVE Goal
  <2>1. /\ ~mishap /\ \A c \in Clients : ~(host[c] = p /\ place[c] = "write")
        /\ Turns /\ InHand /\ Agreed
    BY <1>7 DEF Crash, Inductive, TypeOK
  <2>2. /\ place' = [c \in Clients |-> IF host[c] = p /\ ~Resolved(c) THEN "dead" ELSE place[c]]
        /\ file' = file /\ stored' = stored /\ existed' = existed /\ chosen' = chosen
    BY <1>7 DEF Crash
  <2>3. QED
    BY <2>1, <2>2
<1>8. QED
  BY <1>1, <1>2, <1>3, <1>4, <1>5, <1>6, <1>7 DEF Next, Build

-----------------------------------------------------------------------------
(* The theorems *)

\* The invariant holds in every reachable state.
THEOREM InductiveHolds == Spec => []Inductive
<1>1. ASSUME Inductive, [Next]_stateVars PROVE Inductive'
  <2>1. CASE Next
    BY <1>1, <2>1, TypeStep, GatesStep, SerialStep DEF Inductive
  <2>2. CASE UNCHANGED stateVars
    BY <1>1, <2>2 DEF stateVars, Inductive, TypeOK, Begun, Gates,
      OneFirstBootPerProcess, Turns, InHand, Agreed, Busy, Settled, Resolved, Whole
  <2>3. QED
    BY <1>1, <2>1, <2>2
<1>2. QED
  BY InductiveInit, <1>1, PTL DEF Spec

\* Every variable keeps its type.
THEOREM TypeCorrect == Spec => []TypeOK
<1>1. Inductive => TypeOK
  BY DEF Inductive
<1>2. QED
  BY <1>1, InductiveHolds, PTL

\* A process has at most one first boot, whatever happens to the file: it is the
\* client that found the gate open.
THEOREM FirstBootIsUnique == Spec => []OneFirstBootPerProcess
<1>1. Inductive => OneFirstBootPerProcess
  BY DEF Inductive
<1>2. QED
  BY <1>1, InductiveHolds, PTL

\* Clients that take turns with a file they can read and write share one identity.
THEOREM IdentityIsShared == Spec => []OneIdentityIfSerial
<1>1. Inductive => OneIdentityIfSerial
  <2>1. SUFFICES ASSUME Inductive, ~mishap, NEW c \in Clients, NEW d \in Clients,
                        Resolved(c), Resolved(d)
                 PROVE  stored[c].id = stored[d].id
    BY DEF OneIdentityIfSerial
  <2>2. QED
    BY <2>1 DEF Inductive, Agreed, Settled, Whole
<1>2. QED
  BY <1>1, InductiveHolds, PTL

\* Only the client whose id they share has been the first boot.
THEOREM FirstBootIsTheOwner == Spec => []OneFirstBootIfSerial
<1>1. Inductive => OneFirstBootIfSerial
  <2>1. SUFFICES ASSUME Inductive, ~mishap, NEW c \in Clients, NEW d \in Clients,
                        firstBoot[c], Resolved(d)
                 PROVE  stored[d].id = c
    BY DEF OneFirstBootIfSerial
  <2>2. Resolved(c) /\ stored[c].id = c
    BY <2>1 DEF Inductive, Gates, Begun, Resolved
  <2>3. QED
    BY <2>1, <2>2 DEF Inductive, Agreed, Settled, Whole
<1>2. QED
  BY <1>1, InductiveHolds, PTL

\* And the file keeps the toggles that its creator or the user gave it.
THEOREM UserChoiceIsKept == Spec => []UserChoiceKeptIfSerial
<1>1. Inductive => UserChoiceKeptIfSerial
  BY DEF Inductive, Agreed, UserChoiceKeptIfSerial
<1>2. QED
  BY <1>1, InductiveHolds, PTL
=============================================================================
