----------------------------- MODULE StateFile -----------------------------
(***************************************************************************)
(* ClientBuilder::build of src/src/client.rs with its module `state`: how  *)
(* clients, in one process or in several that share a state directory,     *)
(* find or create the file config.properties, and which of them is the     *)
(* first boot.                                                             *)
(*                                                                         *)
(* A configuration is its server_id and the set of toggles that are on, so *)
(* Config::and is intersection.  A fresh Uuid::new_v4 is the client that   *)
(* drew it.  fs::write truncates the file and then writes it: two steps,   *)
(* between which others read an empty file and the process may die.  A     *)
(* shorter text written over a longer one leaves a tail without a '=',     *)
(* which parsing ignores, so a completed write leaves what it wrote.       *)
(***************************************************************************)
EXTENDS Naturals, FiniteSets

CONSTANTS
  Clients,      \* the ClientBuilders that are built, each once
  Procs,        \* the runs of programs that share the state directory
  None,         \* "no such process" and "no such client"
  Toggles,      \* the boolean fields of Config
  Environments, \* the environments a process may run in: the toggles its
                \* variables switch off, and FASTSTATS_ENABLED=true (force)
  DevConfigs,   \* the configs a developer may pass to ClientBuilder::config
  FileFaults,   \* whether reading or writing the file may fail
  MaxEdits      \* bound: times the user edits the file

ASSUME StateFileAssumption ==
  /\ None \notin Clients /\ None \notin Procs
  /\ Toggles # {}
  /\ Environments \subseteq [off : SUBSET Toggles, force : BOOLEAN]
  /\ DevConfigs \subseteq SUBSET Toggles
  /\ FileFaults \in BOOLEAN
  /\ MaxEdits \in Nat

VARIABLES
  env,          \* env[p]: the environment of process p
  alive,        \* alive[p]: p has not died or exited
  gate,         \* gate[p]: FIRST_RUN_HANDLED of p
  file,         \* the state file: Absent, Empty or a configuration
  place,        \* place[c]: how far build() of c has got
  host,         \* host[c]: the process c is built in
  conf,         \* conf[c]: the builder's toggles
  stored,       \* stored[c]: the configuration load_or_init took
  existed,      \* existed[c]: file_existed
  firstBoot,    \* firstBoot[c]: is_first_boot
  edits,        \* how often the user has edited the file
  chosen,       \* history: the toggles the file was created with, or last
                \* edited to
  mishap        \* history: something has come between a client and the file

stateVars == <<env, alive, gate, file, place, host, conf, stored, existed,
               firstBoot, edits, chosen, mishap>>

Configs == [id : Clients, on : SUBSET Toggles]
Absent == [id |-> None, on |-> {}]
Empty == [id |-> None, on |-> Toggles]
Whole == file \notin {Absent, Empty}

\* Between reading the file and having written it back.
Busy(c) == place[c] \in {"open", "write"}

\* load_or_init of c is over.
Resolved(c) == place[c] \in {"built", "failed"}

\* c is done with the file.
Settled(c) == place[c] = "resolve" \/ Resolved(c)

Init ==
  /\ env \in [Procs -> Environments]
  /\ alive = [p \in Procs |-> TRUE]
  /\ gate = [p \in Procs |-> FALSE]
  /\ file = Absent
  /\ place = [c \in Clients |-> "idle"]
  /\ host = [c \in Clients |-> None]
  /\ conf = [c \in Clients |-> {}]
  /\ stored = [c \in Clients |-> Absent]
  /\ existed = [c \in Clients |-> FALSE]
  /\ firstBoot = [c \in Clients |-> FALSE]
  /\ edits = 0
  /\ chosen = {}
  /\ mishap = FALSE

-----------------------------------------------------------------------------
(* load_or_init *)

\* The builder's config: derived from the environment, or the developer's,
\* which replaces it whole.
BuilderConfigs(p) == DevConfigs \cup {Toggles \ env[p].off}

Overlap == \E c \in Clients : Busy(c)

\* A client with toggles k begins to build and takes configuration s.
Load(c, p, k, s, found) ==
  /\ place[c] = "idle" /\ alive[p]
  /\ place' = [place EXCEPT ![c] = "open"]
  /\ host' = [host EXCEPT ![c] = p]
  /\ conf' = [conf EXCEPT ![c] = k]
  /\ stored' = [stored EXCEPT ![c] = s]
  /\ existed' = [existed EXCEPT ![c] = found]
  /\ UNCHANGED <<env, alive, gate, file, firstBoot, edits, chosen>>

\* A faulty variant: a file that was there lends its toggles, not its id.
ReadAnonymous(c, p, k) ==
  /\ IF file = Absent THEN Load(c, p, k, [id |-> c, on |-> k], FALSE)
                      ELSE Load(c, p, k, [id |-> c, on |-> file.on], TRUE)
  /\ mishap' = (mishap \/ Overlap)

\* A file that is read gives the configuration, an empty one every toggle and a
\* fresh id; without a file it is the builder's config with a fresh id.
Read(c, p, k) ==
  /\ IF file = Absent THEN Load(c, p, k, [id |-> c, on |-> k], FALSE)
     ELSE Load(c, p, k, IF file = Empty THEN [id |-> c, on |-> Toggles] ELSE file, TRUE)
  /\ mishap' = (mishap \/ Overlap)

\* A file that cannot be read is taken for none.
ReadFails(c, p, k) ==
  /\ FileFaults /\ file # Absent
  /\ Load(c, p, k, [id |-> c, on |-> k], FALSE)
  /\ mishap' = TRUE

\* fs::write opens the file, which creates or truncates it ...
Truncate(c) ==
  /\ place[c] = "open"
  /\ place' = [place EXCEPT ![c] = "write"]
  /\ file' = Empty
  /\ UNCHANGED <<env, alive, gate, host, conf, stored, existed, firstBoot,
                 edits, chosen, mishap>>

\* A faulty variant: the merged configuration is written.
WriteMerged(c) ==
  /\ place[c] = "write"
  /\ place' = [place EXCEPT ![c] = "resolve"]
  /\ file' = [stored[c] EXCEPT !.on = @ \cap conf[c]]
  /\ chosen' = IF existed[c] THEN chosen ELSE stored[c].on
  /\ UNCHANGED <<env, alive, gate, host, conf, stored, existed, firstBoot,
                 edits, mishap>>

\* ... and writes what was read, or the config the file is created with.
Write(c) ==
  /\ place[c] = "write"
  /\ place' = [place EXCEPT ![c] = "resolve"]
  /\ file' = stored[c]
  /\ chosen' = IF existed[c] THEN chosen ELSE stored[c].on
  /\ UNCHANGED <<env, alive, gate, host, conf, stored, existed, firstBoot,
                 edits, mishap>>

\* The directory or the file cannot be written, or the disk is full: the
\* failure is logged, and building goes on.
WriteFails(c) ==
  /\ FileFaults /\ Busy(c)
  /\ place' = [place EXCEPT ![c] = "resolve"]
  /\ mishap' = TRUE
  /\ UNCHANGED <<env, alive, gate, file, host, conf, stored, existed,
                 firstBoot, edits, chosen>>

\* A faulty variant: the gate is read but not claimed.
ResolveUnclaimed(c) ==
  /\ place[c] = "resolve"
  /\ firstBoot' = [firstBoot EXCEPT ![c] =
                     ~existed[c] /\ ~gate[host[c]] /\ ~env[host[c]].force]
  /\ \E p \in {"built", "failed"} : place' = [place EXCEPT ![c] = p]
  /\ UNCHANGED <<env, alive, gate, file, host, conf, stored, existed, edits,
                 chosen, mishap>>

\* A faulty variant: the gate decides alone, whether a file was found or not.
ResolveByGate(c) ==
  /\ place[c] = "resolve"
  /\ firstBoot' = [firstBoot EXCEPT ![c] = ~gate[host[c]] /\ ~env[host[c]].force]
  /\ gate' = [gate EXCEPT ![host[c]] = TRUE]
  /\ \E p \in {"built", "failed"} : place' = [place EXCEPT ![c] = p]
  /\ UNCHANGED <<env, alive, file, host, conf, stored, existed, edits, chosen,
                 mishap>>

\* resolve_first_boot: who found no file claims the process's gate with a swap.
\* The services are built next; one that cannot be makes build() fail.
Resolve(c) ==
  /\ place[c] = "resolve"
  /\ firstBoot' = [firstBoot EXCEPT ![c] =
                     ~existed[c] /\ ~gate[host[c]] /\ ~env[host[c]].force]
  /\ gate' = [gate EXCEPT ![host[c]] = @ \/ ~existed[c]]
  /\ \E p \in {"built", "failed"} : place' = [place EXCEPT ![c] = p]
  /\ UNCHANGED <<env, alive, file, host, conf, stored, existed, edits, chosen,
                 mishap>>

-----------------------------------------------------------------------------
(* The user edits the file, a process dies or exits *)

Edit(on) ==
  /\ Whole /\ edits < MaxEdits
  /\ file' = [file EXCEPT !.on = on]
  /\ edits' = edits + 1
  /\ chosen' = on
  /\ mishap' = (mishap \/ Overlap)
  /\ UNCHANGED <<env, alive, gate, place, host, conf, stored, existed, firstBoot>>

Crash(p) ==
  /\ alive[p]
  /\ alive' = [alive EXCEPT ![p] = FALSE]
  /\ place' = [c \in Clients |-> IF host[c] = p /\ ~Resolved(c) THEN "dead" ELSE place[c]]
  /\ mishap' = (mishap \/ \E c \in Clients : host[c] = p /\ place[c] = "write")
  /\ UNCHANGED <<env, gate, file, host, conf, stored, existed, firstBoot, edits,
                 chosen>>

Build(c) ==
  \/ \E p \in Procs : \E k \in BuilderConfigs(p) : Read(c, p, k) \/ ReadFails(c, p, k)
  \/ Truncate(c) \/ Write(c) \/ WriteFails(c)
  \/ Resolve(c)

Next ==
  \/ \E c \in Clients : Build(c)
  \/ \E on \in SUBSET Toggles : Edit(on)
  \/ \E p \in Procs : Crash(p)

Spec == Init /\ [][Next]_stateVars

-----------------------------------------------------------------------------
(* Properties *)

TypeOK ==
  /\ env \in [Procs -> Environments]
  /\ alive \in [Procs -> BOOLEAN]
  /\ gate \in [Procs -> BOOLEAN]
  /\ file \in Configs \cup {Absent, Empty}
  /\ place \in [Clients -> {"idle", "open", "write", "resolve", "built", "failed", "dead"}]
  /\ host \in [Clients -> Procs \cup {None}]
  /\ conf \in [Clients -> SUBSET Toggles]
  /\ stored \in [Clients -> Configs \cup {Absent}]
  /\ existed \in [Clients -> BOOLEAN]
  /\ firstBoot \in [Clients -> BOOLEAN]
  /\ edits \in Nat
  /\ chosen \in SUBSET Toggles
  /\ mishap \in BOOLEAN

\* However many clients of a process race for it, and whatever happens to the
\* file, at most one of them is the first boot.
OneFirstBootPerProcess ==
  \A c, d \in Clients :
    firstBoot[c] /\ firstBoot[d] /\ host[c] = host[d] => c = d

\* Clients that do not get in each other's way, with a file that can be read
\* and written, share one identity, across processes, restarts and edits.
OneIdentityIfSerial ==
  ~mishap =>
    \A c, d \in Clients : Resolved(c) /\ Resolved(d) => stored[c].id = stored[d].id

\* Then there is also only one first boot for the directory, ever: that of the
\* client whose id the file has kept.
OneFirstBootIfSerial ==
  ~mishap =>
    \A c, d \in Clients : firstBoot[c] /\ Resolved(d) => stored[d].id = c

\* And the file keeps the toggles it was created with or the user gave it, a
\* client that was built in between notwithstanding.
UserChoiceKeptIfSerial == ~mishap /\ Whole => file.on = chosen

\* The inductive invariant behind these properties, in named parts.

\* A client that has begun is in a process and has a configuration, its own new
\* one if it found no file.
Begun ==
  \A c \in Clients :
    IF place[c] = "idle" THEN host[c] = None /\ ~firstBoot[c]
    ELSE /\ host[c] \in Procs /\ stored[c] \in Configs
         /\ ~existed[c] => stored[c].id = c

\* Who is the first boot found no file and holds the gate of its process.
Gates ==
  \A c \in Clients :
    firstBoot[c] => Resolved(c) /\ ~existed[c] /\ gate[host[c]]

\* Without a mishap clients take turns with the file, ...
Turns == \A c, d \in Clients : Busy(c) /\ Busy(d) => c = d

\* ... the one whose turn it is has in hand what is in the file, ...
InHand ==
  \A c \in Clients :
    /\ place[c] = "open" =>
         /\ file # Empty
         /\ existed[c] <=> file # Absent
         /\ existed[c] => stored[c] = file
    /\ place[c] = "write" => file = Empty /\ (existed[c] => stored[c].on = chosen)

\* ... those who have had theirs agree with the file or with who is writing it,
\* and the file is empty only while someone is.
Agreed ==
  /\ \A c \in Clients :
       Settled(c) =>
         /\ file # Absent
         /\ Whole => stored[c].id = file.id
         /\ \A d \in Clients : place[d] = "write" => stored[d].id = stored[c].id
  /\ file = Empty => \E d \in Clients : place[d] = "write"
  /\ Whole => file.on = chosen

Inductive ==
  /\ TypeOK /\ Begun /\ Gates /\ OneFirstBootPerProcess
  /\ ~mishap => Turns /\ InHand /\ Agreed

\* "every client sharing a state directory shares one identity" (the doc of
\* ClientBuilder::config), in every case.
OneIdentity ==
  \A c, d \in Clients :
    place[c] = "built" /\ place[d] = "built" => stored[c].id = stored[d].id
============================================================================
