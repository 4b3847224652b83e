------------------------- MODULE ConfigFileProofs -------------------------
(***************************************************************************)
(* What a file means, and that what is written is read back, for every     *)
(* list of toggles and every text.                                         *)
(***************************************************************************)
EXTENDS ConfigFile, TLAPS

-----------------------------------------------------------------------------
(* Lines and texts *)

LEMMA ConsFacts ==
  ASSUME NEW S, NEW h \in S, NEW t \in Seq(S)
  PROVE  /\ <<h>> \o t \in Seq(S)
         /\ Len(<<h>> \o t) = Len(t) + 1
         /\ (<<h>> \o t)[1] = h
         /\ \A k \in 1 .. Len(t) : (<<h>> \o t)[k + 1] = t[k]
<1>1. <<h>> \in Seq(S) /\ Len(<<h>>) = 1 /\ <<h>>[1] = h
  OBVIOUS
<1>2. Len(t) \in Nat
  OBVIOUS
<1>3. <<h>> \o t \in Seq(S) /\ Len(<<h>> \o t) = Len(t) + 1
  BY <1>1, <1>2
<1>4. (<<h>> \o t)[1] = h
  BY <1>1, <1>2
<1>5. ASSUME NEW k \in 1 .. Len(t) PROVE (<<h>> \o t)[k + 1] = t[k]
  BY <1>1, <1>2
<1> QED
  BY <1>3, <1>4, <1>5

\* The lines of any text, edited or written, are lines, and their number is a number.
LEMMA PrintedLines ==
  ASSUME NEW c \in Configs
  PROVE  /\ Len(Printed(c)) = Len(Order) + 1
         /\ Printed(c) \in Seq(Lines)
         /\ Printed(c)[1] = IdLine(c.id)
         /\ \A k \in 1 .. Len(Order) : Printed(c)[k + 1] = ToggleLine(c, Order[k])
<1> DEFINE tail == [k \in 1 .. Len(Order) |-> ToggleLine(c, Order[k])]
<1>1. Len(Order) \in Nat
  BY ConfigFileAssumption
<1>2. \A k \in 1 .. Len(Order) : ToggleLine(c, Order[k]) \in Lines
  <2> SUFFICES ASSUME NEW k \in 1 .. Len(Order) PROVE ToggleLine(c, Order[k]) \in Lines
    OBVIOUS
  <2>1. Order[k] \in Toggles
    BY DEF Toggles
  <2> QED
    BY <2>1 DEF ToggleLine, Lines, Spellings
<1>3. tail \in Seq(Lines) /\ Len(tail) = Len(Order)
  BY <1>1, <1>2
<1>4. IdLine(c.id) \in Lines
  BY DEF Lines, Configs
<1>5. \A k \in 1 .. Len(Order) : tail[k] = ToggleLine(c, Order[k])
  OBVIOUS
<1>6. Printed(c) = <<IdLine(c.id)>> \o tail
  BY DEF Printed
<1> HIDE DEF tail
<1> QED
  BY <1>3, <1>4, <1>5, <1>6, ConsFacts

LEMMA TextLines ==
  ASSUME TypeOK
  PROVE  text \in Seq(Lines) /\ Len(text) \in Nat
<1>1. CASE text \in Texts
  <2>1. PICK n \in 0 .. MaxLines : text \in [1 .. n -> Lines]
    BY <1>1 DEF Texts
  <2> QED
    BY <2>1, ConfigFileAssumption
<1>2. CASE \E c \in Configs : text = Printed(c)
  BY <1>2, PrintedLines
<1> QED
  BY <1>1, <1>2 DEF TypeOK

\* A legible line says what its key calls for.
LEMMA LegibleLine ==
  ASSUME NEW line \in Lines, Legible(line)
  PROVE  \/ line.key = "server_id" /\ line.id \in 0 .. MaxBuilds
         \/ line.key \in Toggles /\ line.key # "server_id"
<1>1. line.key \in Toggles => line.key # "server_id"
  BY ConfigFileAssumption
<1>2. CASE line = Other
  BY <1>1, <1>2 DEF Legible, Other
<1>3. CASE line = BadIdLine
  BY <1>1, <1>3 DEF Legible, BadIdLine
<1>4. CASE \E id \in 0 .. MaxBuilds : line = IdLine(id)
  BY <1>4 DEF IdLine
<1>5. CASE line \in [key : Toggles, value : Spellings]
  BY <1>1, <1>5
<1> QED
  BY <1>2, <1>3, <1>4, <1>5 DEF Lines

LEMMA WithTyped ==
  ASSUME NEW c \in Configs, NEW line \in Lines, Legible(line)
  PROVE  With(c, line) \in Configs
<1>1. CASE line.key = "server_id"
  <2>1. line.id \in 0 .. MaxBuilds
    BY <1>1, LegibleLine
  <2> QED
    BY <1>1, <2>1 DEF With, Configs
<1>2. CASE line.key \in Toggles /\ line.key # "server_id"
  BY <1>2 DEF With, Configs
<1> QED
  BY <1>1, <1>2, LegibleLine

-----------------------------------------------------------------------------
(* Types *)

LEMMA EmptyText == <<>> \in Texts
<1>1. 0 \in 0 .. MaxLines
  BY ConfigFileAssumption
<1>2. <<>> \in [1 .. 0 -> Lines]
  OBVIOUS
<1> QED
  BY <1>1, <1>2 DEF Texts

LEMMA TypeInit == Init => TypeOK
<1>2. NoConfig \in Configs
  BY ConfigFileAssumption DEF NoConfig, Configs
<1>3. Len(<<>>) = 0
  OBVIOUS
<1> SUFFICES ASSUME Init PROVE TypeOK
  OBVIOUS
<1>4. text \in Texts \cup {Printed(c) : c \in Configs}
  BY EmptyText DEF Init
<1>5. at \in 0 .. Len(text)
  BY <1>3 DEF Init
<1>6. edits \in 0 .. MaxEdits /\ builds \in 0 .. MaxBuilds
  BY ConfigFileAssumption DEF Init
<1>7. exists \in BOOLEAN /\ config \in Configs /\ phase = "idle" /\ at = 0
  BY <1>2 DEF Init
<1> QED
  BY <1>4, <1>5, <1>6, <1>7 DEF TypeOK

LEMMA TypeStep ==
  ASSUME TypeOK, [Next]_vars
  PROVE  TypeOK'
<1> USE TextLines, ConfigFileAssumption
<1>0. NoConfig \in Configs
  BY DEF NoConfig, Configs
<1>1. ASSUME NEW env \in [Toggles -> Spellings], Begin(env) PROVE TypeOK'
  <2>1. config' \in Configs
    BY <1>1 DEF TypeOK, Begin, Configs, EnvironmentOn
  <2> QED
    BY <1>1, <2>1 DEF TypeOK, Begin
<1>2. CASE ParseLine
  <2>1. text[at + 1] \in Lines
    BY <1>2 DEF TypeOK, ParseLine
  <2>2. config' \in Configs
    BY <1>2, <2>1, WithTyped DEF TypeOK, ParseLine
  <2> QED
    BY <1>2, <2>2 DEF TypeOK, ParseLine
<1>3. CASE Parsed
  BY <1>3 DEF TypeOK, Parsed
<1>4. CASE Write
  <2>1. Len(Printed(config)) \in Nat
    BY PrintedLines DEF TypeOK
  <2> QED
    BY <1>0, <1>4, <2>1 DEF TypeOK, Write
<1>5. CASE WriteFails
  BY <1>0, <1>5 DEF TypeOK, WriteFails
<1>6. ASSUME NEW lines \in Texts, Edit(lines) PROVE TypeOK'
  <2>1. lines \in Seq(Lines)
    BY DEF Texts
  <2>2. at' \in 0 .. Len(text')
    BY <1>6, <2>1 DEF TypeOK, Edit
  <2>3. text' \in Texts \cup {Printed(c) : c \in Configs}
    BY <1>6 DEF Edit
  <2> QED
    BY <1>6, <2>2, <2>3 DEF TypeOK, Edit
<1>7. CASE Remove
  <2>1. <<>> \in Texts
    BY EmptyText
  <2>2. Len(<<>>) = 0
    OBVIOUS
  <2>3. text' \in Texts \cup {Printed(c) : c \in Configs}
    BY <1>7, <2>1 DEF Remove
  <2>4. at' \in 0 .. Len(text')
    BY <1>7, <2>2 DEF TypeOK, Remove
  <2>5. edits' \in 0 .. MaxEdits
    BY <1>7 DEF TypeOK, Remove
  <2> QED
    BY <1>7, <2>3, <2>4, <2>5 DEF TypeOK, Remove
<1>8. CASE UNCHANGED vars
  BY <1>8 DEF TypeOK, vars
<1> QED
  BY <1>1, <1>2, <1>3, <1>4, <1>5, <1>6, <1>7, <1>8 DEF Next

\* Type correctness.
THEOREM TypeCorrect == Spec => []TypeOK
BY TypeInit, TypeStep, PTL DEF Spec

-----------------------------------------------------------------------------
(* What a file means.  A parse that has seen n lines holds what the last legible
   of them say; LastNext and NoneNext move that from n to n + 1. *)

Speaks(k, line) == line.key = k /\ Legible(line)

LEMMA LastNext ==
  ASSUME NEW n \in Nat, NEW k, NEW m \in 1 .. n + 1, IsLast(k, m, n + 1)
  PROVE  \/ m = n + 1 /\ Speaks(k, text[n + 1])
         \/ m \in 1 .. n /\ IsLast(k, m, n) /\ ~Speaks(k, text[n + 1])
<1>1. CASE m = n + 1
  BY <1>1 DEF IsLast, Speaks
<1>2. CASE m # n + 1
  <2>1. m \in 1 .. n /\ n + 1 \in m + 1 .. n + 1
    BY <1>2
  <2>2. ~Speaks(k, text[n + 1])
    BY <2>1 DEF IsLast, Speaks
  <2>3. \A j \in m + 1 .. n : j \in m + 1 .. n + 1
    OBVIOUS
  <2> QED
    BY <2>1, <2>2, <2>3 DEF IsLast
<1> QED
  BY <1>1, <1>2

LEMMA NoneNext ==
  ASSUME NEW n \in Nat, NEW k, NoneOf(k, n + 1)
  PROVE  NoneOf(k, n) /\ ~Speaks(k, text[n + 1])
<1>1. n + 1 \in 1 .. n + 1 /\ \A j \in 1 .. n : j \in 1 .. n + 1
  OBVIOUS
<1> QED
  BY <1>1 DEF NoneOf, Speaks

\* A legible line sets what it speaks of and nothing else.
LEMMA WithSets ==
  ASSUME NEW c \in Configs, NEW line \in Lines, Legible(line)
  PROVE  /\ Speaks("server_id", line) => With(c, line).id = line.id
         /\ ~Speaks("server_id", line) => With(c, line).id = c.id
         /\ \A t \in Toggles :
              /\ Speaks(t, line) => (t \in With(c, line).on <=> line.value = "true")
              /\ ~Speaks(t, line) => (t \in With(c, line).on <=> t \in c.on)
<1>1. CASE line.key = "server_id"
  <2>1. With(c, line) = [c EXCEPT !.id = line.id]
    BY <1>1 DEF With
  <2>2. With(c, line).id = line.id /\ With(c, line).on = c.on
    BY <2>1 DEF Configs
  <2> QED
    BY <1>1, <2>2, LegibleLine, ConfigFileAssumption DEF Speaks
<1>2. CASE line.key \in Toggles /\ line.key # "server_id"
  <2>1. With(c, line) = [c EXCEPT !.on = IF line.value = "true" THEN @ \cup {line.key}
                                                                ELSE @ \ {line.key}]
    BY <1>2 DEF With
  <2>2. /\ With(c, line).id = c.id
        /\ With(c, line).on = IF line.value = "true" THEN c.on \cup {line.key}
                                                     ELSE c.on \ {line.key}
    BY <2>1 DEF Configs
  <2> QED
    BY <1>2, <2>2 DEF Speaks
<1> QED
  BY <1>1, <1>2, LegibleLine

\* The inductive invariant: what is written over a file is what the file means.
FileInv ==
  /\ TypeOK
  /\ phase = "parse" => exists
  /\ exists /\ phase # "idle" => MeaningSoFar
  /\ exists /\ phase = "write" => at = Len(text)

LEMMA ParseLineMeaning ==
  ASSUME TypeOK, MeaningSoFar, ParseLine
  PROVE  MeaningSoFar'
<1> DEFINE line == text[at + 1]
<1>1. at \in Nat /\ at' = at + 1 /\ text' = text /\ builds' = builds
  BY TextLines DEF TypeOK, ParseLine
<1>2. line \in Lines
  BY TextLines DEF TypeOK, ParseLine
<1>3. config \in Configs
  BY DEF TypeOK
<1>4. \A t \in Toggles : t # "server_id"
  BY ConfigFileAssumption
<1>5. /\ Speaks("server_id", line) => config'.id = line.id
      /\ ~Speaks("server_id", line) => config'.id = config.id
      /\ \A t \in Toggles :
           /\ Speaks(t, line) => (t \in config'.on <=> line.value = "true")
           /\ ~Speaks(t, line) => (t \in config'.on <=> t \in config.on)
  <2>1. CASE Legible(line)
    <3>1. config' = With(config, line)
      BY <2>1 DEF ParseLine
    <3> QED
      BY <1>2, <1>3, <2>1, <3>1, WithSets
  <2>2. CASE ~Legible(line)
    <3>1. config' = config
      BY <2>2 DEF ParseLine
    <3> QED
      BY <2>2, <3>1 DEF Speaks
  <2> QED
    BY <2>1, <2>2
<1>6. \A k, m, n : IsLast(k, m, n)' <=> IsLast(k, m, n)
  BY <1>1 DEF IsLast
<1>7. \A k, n : NoneOf(k, n)' <=> NoneOf(k, n)
  BY <1>1 DEF NoneOf
<1>8. ASSUME NEW m \in 1 .. at + 1, IsLast("server_id", m, at + 1)
      PROVE  config'.id = text[m].id
  <2>1. CASE m = at + 1 /\ Speaks("server_id", line)
    BY <1>5, <2>1
  <2>2. CASE m \in 1 .. at /\ IsLast("server_id", m, at) /\ ~Speaks("server_id", line)
    BY <1>5, <2>2 DEF MeaningSoFar
  <2> QED
    BY <1>1, <1>8, <2>1, <2>2, LastNext
<1>9. ASSUME NoneOf("server_id", at + 1)
      PROVE  config'.id = builds
  BY <1>1, <1>5, <1>9, NoneNext DEF MeaningSoFar
<1>10. ASSUME NEW t \in Toggles, NEW m \in 1 .. at + 1, IsLast(t, m, at + 1)
       PROVE  t \in config'.on <=> text[m].value = "true"
  <2>1. CASE m = at + 1 /\ Speaks(t, line)
    BY <1>5, <2>1
  <2>2. CASE m \in 1 .. at /\ IsLast(t, m, at) /\ ~Speaks(t, line)
    BY <1>5, <2>2 DEF MeaningSoFar
  <2> QED
    BY <1>1, <1>10, <2>1, <2>2, LastNext
<1>11. ASSUME NEW t \in Toggles, NoneOf(t, at + 1)
       PROVE  t \in config'.on
  BY <1>1, <1>5, <1>11, NoneNext DEF MeaningSoFar
<1> HIDE DEF line
<1> QED
  BY <1>1, <1>6, <1>7, <1>8, <1>9, <1>10, <1>11 DEF MeaningSoFar

LEMMA FileInvStep ==
  ASSUME FileInv, [Next]_vars
  PROVE  FileInv'
<1>0. TypeOK /\ TypeOK'
  BY TypeStep DEF FileInv
<1>1. ASSUME NEW env \in [Toggles -> Spellings], Begin(env) PROVE FileInv'
  <2>1. ASSUME exists PROVE MeaningSoFar'
    <3>1. at' = 0 /\ config' = [id |-> builds + 1, on |-> Toggles] /\ builds' = builds + 1
      BY <1>1, <2>1 DEF Begin
    <3> QED
      BY <3>1 DEF MeaningSoFar
  <2> QED
    BY <1>0, <1>1, <2>1 DEF FileInv, Begin
<1>2. CASE ParseLine
  <2>1. MeaningSoFar
    BY <1>2 DEF FileInv, ParseLine
  <2>2. MeaningSoFar'
    BY <1>0, <1>2, <2>1, ParseLineMeaning
  <2> QED
    BY <1>0, <1>2, <2>2 DEF FileInv, ParseLine
<1>3. CASE Parsed
  <2>1. MeaningSoFar
    BY <1>3 DEF FileInv, Parsed
  <2>2. MeaningSoFar'
    BY <1>3, <2>1 DEF Parsed, MeaningSoFar, IsLast, NoneOf
  <2> QED
    BY <1>0, <1>3, <2>2 DEF FileInv, Parsed
<1>4. CASE Write
  BY <1>0, <1>4 DEF FileInv, Write
<1>5. CASE WriteFails
  BY <1>0, <1>5 DEF FileInv, WriteFails
<1>6. ASSUME NEW lines \in Texts, Edit(lines) PROVE FileInv'
  BY <1>0, <1>6 DEF FileInv, Edit
<1>7. CASE Remove
  BY <1>0, <1>7 DEF FileInv, Remove
<1>8. CASE UNCHANGED vars
  BY <1>0, <1>8 DEF FileInv, vars, MeaningSoFar, IsLast, NoneOf
<1> QED
  BY <1>1, <1>2, <1>3, <1>4, <1>5, <1>6, <1>7, <1>8 DEF Next

LEMMA FileInvariant == Spec => []FileInv
<1>1. Init => FileInv
  BY TypeInit DEF Init, FileInv
<1> QED
  BY <1>1, FileInvStep, PTL DEF Spec

\* Each toggle and the id are what the last legible line of the file says of them,
\* for every text and every list of toggles.
THEOREM LinesAreIndependent == Spec => []LastLegibleLineCounts
<1>1. FileInv => LastLegibleLineCounts
  BY DEF FileInv, LastLegibleLineCounts
<1> QED
  BY <1>1, FileInvariant, PTL

-----------------------------------------------------------------------------
(* What is written is read back *)

\* In a text that a build has printed, every key has one line, and it is legible.
LEMMA PrintedMeaning ==
  ASSUME TypeOK, NEW c \in Configs, text = Printed(c), at = Len(text), MeaningSoFar
  PROVE  config = c
<1>1. /\ Len(Order) \in Nat /\ at = Len(Order) + 1
      /\ text[1] = IdLine(c.id)
      /\ \A k \in 1 .. Len(Order) : text[k + 1] = ToggleLine(c, Order[k])
  BY PrintedLines, ConfigFileAssumption
<1>2. \A k \in 1 .. Len(Order) :
        /\ Order[k] \in Toggles /\ Order[k] # "server_id"
        /\ text[k + 1].key = Order[k]
        /\ text[k + 1].value = IF Order[k] \in c.on THEN "true" ELSE "false"
  <2> SUFFICES ASSUME NEW k \in 1 .. Len(Order)
               PROVE  /\ Order[k] \in Toggles /\ Order[k] # "server_id"
                      /\ text[k + 1].key = Order[k]
                      /\ text[k + 1].value = IF Order[k] \in c.on THEN "true" ELSE "false"
    OBVIOUS
  <2>1. Order[k] \in Toggles
    BY DEF Toggles
  <2>2. ToggleLine(c, Order[k]).key = Order[k]
    BY DEF ToggleLine
  <2>3. ToggleLine(c, Order[k]).value = IF Order[k] \in c.on THEN "true" ELSE "false"
    BY DEF ToggleLine
  <2>4. text[k + 1] = ToggleLine(c, Order[k])
    BY <1>1
  <2> QED
    BY <2>1, <2>2, <2>3, <2>4, ConfigFileAssumption
<1>3. text[1].key = "server_id" /\ text[1].id = c.id /\ Legible(text[1])
  <2>1. "id" \in DOMAIN IdLine(c.id) /\ IdLine(c.id).key = "server_id" /\ IdLine(c.id).id = c.id
    BY DEF IdLine
  <2> QED
    BY <1>1, <2>1 DEF Legible
<1>4. config.id = c.id
  <2>1. IsLast("server_id", 1, at)
    <3>1. ASSUME NEW j \in 1 + 1 .. at PROVE text[j].key # "server_id"
      <4>1. j - 1 \in 1 .. Len(Order) /\ (j - 1) + 1 = j
        BY <1>1
      <4> QED
        BY <1>2, <4>1
    <3> QED
      BY <1>1, <1>3, <3>1 DEF IsLast
  <2> QED
    BY <1>1, <1>3, <2>1 DEF MeaningSoFar
<1>5. ASSUME NEW t \in Toggles PROVE t \in config.on <=> t \in c.on
  <2>1. PICK k \in 1 .. Len(Order) : Order[k] = t
    BY DEF Toggles
  <2>2. k + 1 \in 1 .. at
    BY <1>1
  <2>3. IsLast(t, k + 1, at)
    <3>1. Legible(text[k + 1]) /\ text[k + 1].key = t
      <4>1. text[k + 1].value \in ReadsInFile
        BY <1>2 DEF ReadsInFile
      <4> QED
        BY <1>2, <2>1, <4>1 DEF Legible
    <3>2. ASSUME NEW j \in (k + 1) + 1 .. at PROVE text[j].key # t
      <4>1. j - 1 \in 1 .. Len(Order) /\ (j - 1) + 1 = j /\ j - 1 # k
        BY <1>1
      <4>2. Order[j - 1] # Order[k]
        BY <4>1, ConfigFileAssumption
      <4>3. text[j].key = Order[j - 1]
        BY <1>2, <4>1
      <4> QED
        BY <2>1, <4>2, <4>3
    <3> QED
      BY <2>2, <3>1, <3>2 DEF IsLast
  <2>4. t \in config.on <=> text[k + 1].value = "true"
    BY <2>2, <2>3 DEF MeaningSoFar
  <2> QED
    BY <1>2, <2>1, <2>4
<1>6. config \in Configs
  BY DEF TypeOK
<1>7. config.on = c.on
  BY <1>5, <1>6 DEF Configs
<1> QED
  BY <1>4, <1>6, <1>7 DEF Configs

\* A written file survives every later build unchanged, whatever the environment
\* then says: no build, crash of a write aside, loses the id or a toggle.
THEOREM WrittenIsKept == Spec => WrittenFileIsKept
<1>1. ASSUME FileInv, [Next]_vars, exists, Canonical, phase = "write" PROVE text' = text
  <2>1. PICK c \in Configs : text = Printed(c)
    BY <1>1 DEF Canonical
  <2>2. config = c
    BY <1>1, <2>1, PrintedMeaning DEF FileInv
  <2>3. CASE Write
    BY <2>1, <2>2, <2>3 DEF Write
  <2>4. CASE WriteFails
    BY <2>4 DEF WriteFails
  <2>5. CASE UNCHANGED vars
    BY <2>5 DEF vars
  <2> QED
    BY <1>1, <2>3, <2>4, <2>5 DEF Next, Begin, ParseLine, Parsed, Edit, Remove
<1>2. FileInv /\ [Next]_vars => [exists /\ Canonical /\ phase = "write" => text' = text]_vars
  BY <1>1
<1> QED
  BY <1>2, FileInvariant, PTL DEF Spec, WrittenFileIsKept
=============================================================================
