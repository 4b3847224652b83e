----------------------------- MODULE ConfigFile -----------------------------
(***************************************************************************)
(* The text of the state file: Config::from_persisted_str and              *)
(* to_persisted_string of src/src/domain/config.rs, as load_or_init of     *)
(* src/src/client.rs runs them at every build, and the environment, which  *)
(* gives the configuration that a file is created with.                    *)
(*                                                                         *)
(* Who reads and writes the file when is in StateFile, which takes it to   *)
(* hold a configuration; here one build follows the other, and a step is a *)
(* line.  A line is told by its key and how its value is spelled; any line *)
(* without a `=` or with another key is `Other`.                           *)
(***************************************************************************)
EXTENDS Naturals, Sequences

CONSTANTS
  Order,      \* the toggles, in the order in which they are written
  MaxLines,   \* bound: lines of a file that the user has edited
  MaxEdits,   \* bound: edits
  MaxBuilds   \* bound: builds, each of which draws a fresh id

Toggles == {Order[k] : k \in 1 .. Len(Order)}

ASSUME ConfigFileAssumption ==
  /\ Order \in Seq(STRING) /\ "server_id" \notin Toggles
  /\ \A j, k \in 1 .. Len(Order) : Order[j] = Order[k] => j = k
  /\ MaxLines \in Nat /\ MaxEdits \in Nat /\ MaxBuilds \in Nat

VARIABLES
  exists,     \* there is a file
  text,       \* its lines
  edits,      \* how often the user has edited it
  builds,     \* builds so far; the next fresh id
  phase,      \* "idle", "parse" or "write"
  at,         \* lines parsed
  config      \* what they give: an id, and the toggles that are on

vars == <<exists, text, edits, builds, phase, at, config>>

\* How a value may be spelled: bool::from_str knows two spellings, the environment
\* is trimmed and its case ignored.
Spellings == {"true", "false", "False", "yes"}
ReadsInFile == {"true", "false"}
ReadsInEnv == {"true", "false", "False"}

IdLine(id) == [key |-> "server_id", id |-> id]
BadIdLine == [key |-> "server_id"]
Other == [key |-> ""]
Lines == [key : Toggles, value : Spellings] \cup {Other, BadIdLine}
           \cup {IdLine(id) : id \in 0 .. MaxBuilds}

Texts == UNION {[1 .. n -> Lines] : n \in 0 .. MaxLines}

\* No build is under way: the config is the client's.
NoConfig == [id |-> 0, on |-> {}]

Init ==
  /\ exists = FALSE /\ text = <<>> /\ edits = 0
  /\ builds = 0 /\ phase = "idle" /\ at = 0
  /\ config = NoConfig

-----------------------------------------------------------------------------
(* A build *)

\* A variable that is not set, or says neither, leaves a toggle on.
EnvironmentOn(env) == {t \in Toggles : ~(env[t] \in ReadsInEnv \ {"true"})}

\* A file is parsed over a fresh id and every toggle on; without one the config is
\* that of the environment.
Begin(env) ==
  /\ phase = "idle" /\ builds < MaxBuilds
  /\ builds' = builds + 1
  /\ phase' = IF exists THEN "parse" ELSE "write"
  /\ at' = 0
  /\ config' = [id |-> builds + 1, on |-> IF exists THEN Toggles ELSE EnvironmentOn(env)]
  /\ UNCHANGED <<exists, text, edits>>

Legible(line) ==
  \/ line.key = "server_id" /\ "id" \in DOMAIN line
  \/ line.key \in Toggles /\ line.value \in ReadsInFile

\* What a legible line makes of a config.
With(c, line) ==
  IF line.key = "server_id" THEN [c EXCEPT !.id = line.id]
  ELSE [c EXCEPT !.on = IF line.value = "true" THEN @ \cup {line.key} ELSE @ \ {line.key}]

\* A faulty variant: a line that is no help ends the parse.
ParseLineOrStop ==
  /\ phase = "parse" /\ at < Len(text)
  /\ LET line == text[at + 1] IN
       IF Legible(line) THEN config' = With(config, line) /\ at' = at + 1
                        ELSE config' = config /\ at' = Len(text)
  /\ UNCHANGED <<exists, text, edits, builds, phase>>

\* Each line counts for itself, and one that is of no use is passed over.
ParseLine ==
  /\ phase = "parse" /\ at < Len(text)
  /\ at' = at + 1
  /\ config' = IF Legible(text[at + 1]) THEN With(config, text[at + 1]) ELSE config
  /\ UNCHANGED <<exists, text, edits, builds, phase>>

Parsed ==
  /\ phase = "parse" /\ at = Len(text)
  /\ phase' = "write"
  /\ UNCHANGED <<exists, text, edits, builds, at, config>>

ToggleLine(c, t) == [key |-> t, value |-> IF t \in c.on THEN "true" ELSE "false"]

\* A faulty variant: only what is on is written.
PrintedOn(c) ==
  <<IdLine(c.id)>> \o SelectSeq([k \in 1 .. Len(Order) |-> ToggleLine(c, Order[k])],
                                LAMBDA line : line.value = "true")

Printed(c) == <<IdLine(c.id)>> \o [k \in 1 .. Len(Order) |-> ToggleLine(c, Order[k])]

\* The file is always written back, as far as it can be.
Write ==
  /\ phase = "write"
  /\ phase' = "idle" /\ at' = 0
  /\ exists' = TRUE /\ text' = Printed(config)
  /\ config' = NoConfig
  /\ UNCHANGED <<edits, builds>>

WriteFails ==
  /\ phase = "write"
  /\ phase' = "idle" /\ at' = 0
  /\ config' = NoConfig
  /\ UNCHANGED <<exists, text, edits, builds>>

-----------------------------------------------------------------------------
(* The user edits the file in any way, or removes it; a process that died while
   it wrote has left it empty *)

Edit(lines) ==
  /\ phase = "idle" /\ edits < MaxEdits
  /\ edits' = edits + 1
  /\ exists' = TRUE /\ text' = lines
  /\ UNCHANGED <<builds, phase, at, config>>

Remove ==
  /\ phase = "idle" /\ exists /\ edits < MaxEdits
  /\ edits' = edits + 1
  /\ exists' = FALSE /\ text' = <<>>
  /\ UNCHANGED <<builds, phase, at, config>>

Next ==
  \/ \E env \in [Toggles -> Spellings] : Begin(env)
  \/ ParseLine \/ Parsed \/ Write \/ WriteFails
  \/ \E lines \in Texts : Edit(lines)
  \/ Remove

Spec == Init /\ [][Next]_vars

-----------------------------------------------------------------------------
(* Properties *)

\* Line m is the last legible one for key k of the first n.
IsLast(k, m, n) ==
  /\ m \in 1 .. n /\ text[m].key = k /\ Legible(text[m])
  /\ \A j \in m + 1 .. n : text[j].key = k => ~Legible(text[j])

NoneOf(k, n) == \A j \in 1 .. n : text[j].key = k => ~Legible(text[j])

MeaningSoFar ==
  /\ \A m \in 1 .. at : IsLast("server_id", m, at) => config.id = text[m].id
  /\ NoneOf("server_id", at) => config.id = builds
  /\ \A t \in Toggles, m \in 1 .. at :
       IsLast(t, m, at) => (t \in config.on <=> text[m].value = "true")
  /\ \A t \in Toggles : NoneOf(t, at) => t \in config.on

\* Whatever the user has made of the file, its meaning is that of the last legible
\* line for each key; a toggle without one is on, an id without one is fresh.  Lines
\* that are missing, doubled, misspelled or in another order do no harm to others.
LastLegibleLineCounts == phase = "parse" => MeaningSoFar

\* A file that a build has written means what was written: until the user edits it,
\* every later build has the same id and toggles and leaves the same text, whatever
\* the environment says by then.
Configs == [id : 0 .. MaxBuilds, on : SUBSET Toggles]

Canonical == \E c \in Configs : text = Printed(c)

WrittenFileIsKept == [][exists /\ Canonical /\ phase = "write" => text' = text]_vars

TypeOK ==
  /\ exists \in BOOLEAN
  /\ text \in Texts \cup {Printed(c) : c \in Configs}
  /\ edits \in 0 .. MaxEdits /\ builds \in 0 .. MaxBuilds
  /\ phase \in {"idle", "parse", "write"}
  /\ at \in 0 .. Len(text) /\ (phase = "idle" => at = 0)
  /\ config \in Configs
=============================================================================
