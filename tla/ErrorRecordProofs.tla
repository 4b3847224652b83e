------------------------- MODULE ErrorRecordProofs -------------------------
(***************************************************************************)
(* Proofs about StackCollapse and, after them, about ErrorRecord, for      *)
(* stacks, messages and chains of causes of every length.                  *)
(***************************************************************************)
EXTENDS ErrorRecord, SequenceTheorems, TLAPS

\* What a list consists of, until it is cut to size.
Symbols == Texts \cup {"repeated"} \cup Nat
Entries == {s \in Seq(Symbols) : s # <<>>}
Lists == pass # "done" => list \in Seq(Entries) /\ result \in Seq(Entries)

StackInvariant == Inductive /\ Lists

LEMMA FrameIsEntry == Frames \subseteq Entries
<1>1. ASSUME NEW t \in Texts
      PROVE  <<t>> \in Entries /\ <<t, 2>> \in Entries
  <2>1. t \in Symbols /\ 2 \in Symbols
    BY DEF Symbols
  <2> QED
    BY <2>1 DEF Entries
<1> QED
  BY <1>1 DEF Frames

LEMMA StackIsList ==
  ASSUME NEW s \in Stacks
  PROVE  s \in Seq(Entries)
<1>1. PICK n \in Nat : s \in [1 .. n -> Frames]
  BY StackCollapseAssumption DEF Stacks
<1>2. s \in [1 .. n -> Entries]
  BY <1>1, FrameIsEntry
<1> QED
  BY <1>2, IsASeq

LEMMA HeadOfOne ==
  ASSUME NEW f \in Entries, NEW g \in Entries, Len(f) = 1, Len(g) = 1, f[1] = g[1]
  PROVE  f = g
BY DEF Entries

LEMMA CountKeepsHead ==
  ASSUME NEW f \in Entries, NEW n \in Nat
  PROVE  Count(f, n) \in Entries /\ Count(f, n)[1] = f[1]
BY DEF Entries, Count, Symbols

\* A pass appends one entry.
LEMMA OneEntry ==
  ASSUME NEW s \in Seq(Entries), NEW e \in Entries
  PROVE  /\ s \o <<e>> \in Seq(Entries) /\ Len(s \o <<e>>) = Len(s) + 1
         /\ \A k \in 1 .. Len(s) : (s \o <<e>>)[k] = s[k]
         /\ (s \o <<e>>)[Len(s) + 1] = e
         /\ s \o <<e>> # <<>>
OBVIOUS

\* Or a cycle and its mark.
LEMMA CycleAndMark ==
  ASSUME NEW s \in Seq(Entries), NEW cycle \in Seq(Entries), NEW mark \in Entries
  PROVE  /\ s \o (cycle \o <<mark>>) \in Seq(Entries)
         /\ Len(s \o (cycle \o <<mark>>)) = Len(s) + Len(cycle) + 1
OBVIOUS

LEMMA MarkIsEntry ==
  ASSUME NEW n \in Nat
  PROVE  <<"repeated", n>> \in Entries
BY DEF Entries, Symbols

LEMMA TwiceIsLonger ==
  ASSUME NEW l \in Nat, NEW n \in Nat, l >= 1, n >= 2
  PROVE  n * l \in Nat /\ n * l >= l + 1 
<1>1. n * l >= 2 * l
  OBVIOUS
<1> QED
  BY <1>1
-----------------------------------------------------------------------------
(* The steps *)

\* One more entry for n more frames, with the head of the last of them.
LEMMA RunStep ==
  ASSUME StackInvariant, TakeRun
  PROVE  StackInvariant'
<1> USE DEF StackInvariant
<1>1. PICK n \in 1 .. Len(list) :
        /\ Same(n) /\ ~Same(n + 1)
        /\ Read(n, <<Count(list[i + 1], n)>>, [k \in 1 .. n |-> list[i + 1]])
  BY DEF TakeRun
<1>2. /\ pass = "twins" /\ pass' = "twins" /\ list' = list /\ frames' = frames
      /\ i' = i + n /\ result' = result \o <<Count(list[i + 1], n)>>
  BY <1>1 DEF TakeRun, Read
<1>3. /\ list \in Seq(Entries) /\ result \in Seq(Entries)
      /\ Len(list) \in Nat /\ Len(result) \in Nat /\ i \in 0 .. Len(list) /\ n \in Nat
      /\ n >= 1 /\ Len(result) <= i /\ Len(list) <= Len(frames)
  BY <1>2 DEF Lists, Inductive, NeverLonger
<1>4. i + n <= Len(list) /\ \A k \in 1 .. n : list[i + k] = list[i + 1]
  BY <1>1 DEF Same
<1>5. /\ Count(list[i + 1], n) \in Entries
      /\ Count(list[i + 1], n)[1] = list[i + 1][1]
  <2>1. list[i + 1] \in Entries
    BY <1>3, <1>4
  <2> QED
    BY <1>3, <2>1, CountKeepsHead
<1>6. /\ result' \in Seq(Entries) /\ Len(result') = Len(result) + 1 /\ result' # <<>>
      /\ \A k \in 1 .. Len(result) : result'[k] = result[k]
      /\ result'[Len(result) + 1][1] = list[i + 1][1]
  BY <1>2, <1>3, <1>5, OneEntry
<1>7. TypeOK' /\ Lists' /\ NeverLonger' /\ NoCycleOfOne' /\ MoreIsPositive'
  <2>1. TypeOK
    BY DEF Inductive
  <2> QED
    BY <1>2, <1>3, <1>4, <1>6, <2>1 DEF TypeOK, Lists, NeverLonger, NoCycleOfOne, MoreIsPositive
<1>8. NoTwins'
  <2>1. SUFFICES ASSUME Plain
                 PROVE  NoTwins'
    BY <1>2 DEF NoTwins, Plain
  <2>2. /\ list = frames
        /\ \A k \in 1 .. Len(result) - 1 : result[k][1] # result[k + 1][1]
        /\ i > 0 => result # <<>> /\ result[Len(result)][1] = list[i][1]
        /\ i > 0 /\ i < Len(list) => list[i] # list[i + 1]
    BY <1>2, <2>1 DEF Inductive, NoTwins
  <2>3. i > 0 => list[i][1] # list[i + 1][1]
    <3>1. \A k \in 1 .. Len(list) : list[k] \in Entries /\ Len(list[k]) = 1
      BY <1>3, <2>1, <2>2 DEF Plain
    <3>2. i + 1 \in 1 .. Len(list) /\ (i > 0 => i \in 1 .. Len(list) /\ i < Len(list))
      BY <1>3, <1>4
    <3> QED
      BY <2>2, <3>1, <3>2, HeadOfOne
  <2>4. ASSUME NEW k \in 1 .. Len(result') - 1
        PROVE  result'[k][1] # result'[k + 1][1]
    <3>1. CASE k < Len(result)
      <4>1. k \in 1 .. Len(result) - 1 /\ k \in 1 .. Len(result) /\ k + 1 \in 1 .. Len(result)
        BY <1>3, <1>6, <3>1
      <4> QED
        BY <1>6, <2>2, <4>1
    <3>2. CASE k = Len(result)
      <4>1. i > 0 /\ result'[k] = result[k]
        BY <1>3, <1>6, <3>2
      <4> QED
        BY <1>6, <2>2, <2>3, <3>2, <4>1
    <3> QED
      BY <1>3, <1>6, <3>1, <3>2
  <2>5. list[i + n] = list[i + 1]
    BY <1>3, <1>4
  <2>6. i + n < Len(list) => list[i + n] # list[i + n + 1]
    <3>1. ASSUME i + n < Len(list)
          PROVE  \E k \in 1 .. n + 1 : list[i + k] # list[i + 1]
      <4>1. i + (n + 1) <= Len(list)
        BY <1>3, <3>1
      <4> QED
        BY <1>1, <4>1 DEF Same
    <3>2. \A k \in 1 .. n + 1 : k \in 1 .. n \/ k = n + 1
      BY <1>3
    <3>3. i + (n + 1) = i + n + 1
      BY <1>3
    <3> QED
      BY <1>4, <2>5, <3>1, <3>2, <3>3
  <2> QED
    BY <1>2, <1>3, <1>6, <2>2, <2>4, <2>5, <2>6 DEF NoTwins
<1> QED
  BY <1>7, <1>8 DEF Inductive

LEMMA TurnStep ==
  ASSUME StackInvariant, TurnToCycles
  PROVE  StackInvariant'
<1>1. /\ pass = "twins" /\ pass' = "cycles" /\ list' = result /\ i' = 0 /\ result' = <<>>
      /\ frames' = frames
  BY DEF TurnToCycles
<1>2. /\ list \in Seq(Entries) /\ result \in Seq(Entries)
      /\ Len(list) \in Nat /\ Len(result) \in Nat /\ i \in 0 .. Len(list)
      /\ Len(result) <= i /\ Len(list) <= Len(frames) /\ frames \in Stacks
  BY <1>1 DEF StackInvariant, Lists, Inductive, NeverLonger, TypeOK
<1>3. Len(frames) \in Nat
  BY <1>2, StackIsList
<1>4. <<>> \in Seq(Entries) /\ Len(<<>>) = 0
  OBVIOUS
<1>5. Lists' /\ TypeOK' /\ NeverLonger' /\ NoTwins' /\ MoreIsPositive'
  BY <1>1, <1>2, <1>3, <1>4 DEF Lists, TypeOK, NeverLonger, NoTwins, MoreIsPositive
<1>6. NoCycleOfOne'
  BY <1>1 DEF StackInvariant, Inductive, NoTwins, NoCycleOfOne, Plain
<1> QED
  BY <1>5, <1>6 DEF StackInvariant, Inductive

\* The second pass writes l + 1 entries for n * l, or one for one.
LEMMA CyclesStep ==
  ASSUME StackInvariant, pass = "cycles", UNCHANGED <<frames, pass, list>>,
         i' \in Nat, i' <= Len(list), result' \in Seq(Entries),
         Len(result') - Len(result) <= i' - i
  PROVE  StackInvariant'
<1>1. /\ list \in Seq(Entries) /\ result \in Seq(Entries)
      /\ Len(list) \in Nat /\ Len(result) \in Nat /\ Len(result') \in Nat
      /\ i \in 0 .. Len(list) /\ Len(result) <= i /\ Len(list) <= Len(frames)
      /\ frames \in Stacks
  BY DEF StackInvariant, Lists, Inductive, NeverLonger, TypeOK
<1>2. Lists' /\ TypeOK' /\ NeverLonger' /\ NoTwins' /\ MoreIsPositive'
  BY <1>1 DEF Lists, TypeOK, NeverLonger, NoTwins, MoreIsPositive
<1>3. NoCycleOfOne'
  BY DEF StackInvariant, Inductive, NoCycleOfOne, Plain
<1> QED
  BY <1>2, <1>3 DEF StackInvariant, Inductive

LEMMA CycleStep ==
  ASSUME StackInvariant, TakeCycle
  PROVE  StackInvariant'
<1>1. PICK l \in 1 .. (Len(list) - i) \div 2, n \in 2 .. Len(list) :
        Taken(l, n) /\ Read(n * l, Once(l, n), Times(l, n))
  BY DEF TakeCycle
<1>2. /\ pass = "cycles" /\ UNCHANGED <<frames, pass, list>>
      /\ i' = i + n * l /\ result' = result \o Once(l, n) /\ i + n * l <= Len(list)
  BY <1>1 DEF TakeCycle, Read, Taken, Cycle
<1>3. /\ list \in Seq(Entries) /\ result \in Seq(Entries)
      /\ Len(list) \in Nat /\ Len(result) \in Nat /\ i \in Nat
  BY <1>2 DEF StackInvariant, Lists, Inductive, TypeOK
<1>4. n \in Nat /\ n >= 2 /\ l \in Nat /\ l >= 1
  BY <1>1, <1>3
<1>5. n * l \in Nat /\ n * l >= l + 1
  BY <1>4, TwiceIsLonger
<1>6. i + l <= Len(list)
  BY <1>2, <1>3, <1>4, <1>5
<1>7. result' \in Seq(Entries) /\ Len(result') = Len(result) + l + 1
  <2>1. /\ SubSeq(list, i + 1, i + l) \in Seq(Entries)
        /\ Len(SubSeq(list, i + 1, i + l)) = l
    BY <1>3, <1>4, <1>6
  <2>2. <<"repeated", n>> \in Entries
    BY <1>4, MarkIsEntry
  <2>3. /\ result \o Once(l, n) \in Seq(Entries)
        /\ Len(result \o Once(l, n)) = Len(result) + Len(SubSeq(list, i + 1, i + l)) + 1
    BY <1>3, <2>1, <2>2, CycleAndMark DEF Once
  <2> QED
    BY <1>2, <2>1, <2>3
<1> QED
  BY <1>2, <1>3, <1>4, <1>5, <1>7, CyclesStep

LEMMA FrameStep ==
  ASSUME StackInvariant, TakeFrame
  PROVE  StackInvariant'
<1>1. /\ pass = "cycles" /\ UNCHANGED <<frames, pass, list>> /\ i # Len(list)
      /\ i' = i + 1 /\ result' = result \o <<list[i + 1]>>
  BY DEF TakeFrame, Read, AtEnd
<1>2. /\ list \in Seq(Entries) /\ result \in Seq(Entries)
      /\ Len(list) \in Nat /\ Len(result) \in Nat /\ i \in 0 .. Len(list)
  BY <1>1 DEF StackInvariant, Lists, Inductive, NeverLonger
<1>3. list[i + 1] \in Entries
  BY <1>1, <1>2
<1>4. result' \in Seq(Entries) /\ Len(result') = Len(result) + 1
  BY <1>1, <1>2, <1>3, OneEntry
<1> QED
  BY <1>1, <1>2, <1>4, CyclesStep

LEMMA CutStep ==
  ASSUME StackInvariant, CutToSize
  PROVE  StackInvariant'
<1> DEFINE cut == [k \in 1 .. Len(result) |-> Cut(result[k])]
           mark == <<"more", Len(frames) - MaxStack>>
<1>1. /\ pass = "cycles" /\ pass' = "done" /\ i = Len(list)
      /\ UNCHANGED <<frames, list, i>>
      /\ result' = IF Len(result) <= MaxStack THEN cut ELSE SubSeq(cut, 1, MaxStack) \o <<mark>>
  BY DEF CutToSize, AtEnd
<1>2. /\ result \in Seq(Entries) /\ Len(result) \in Nat /\ Len(list) \in Nat
      /\ Len(result) <= Len(list) /\ Len(list) <= Len(frames) /\ frames \in Stacks
  BY <1>1 DEF StackInvariant, Lists, Inductive, NeverLonger, TypeOK
<1>3. Len(frames) \in Nat /\ MaxStack \in Nat
  BY <1>2, StackIsList, StackCollapseAssumption
<1>4. Len(result) <= MaxStack => Len(result') = Len(result)
  BY <1>1, <1>2
<1>5. MoreIsPositive'
  BY <1>1, <1>2, <1>3, <1>4 DEF MoreIsPositive
<1>6. TypeOK' /\ NeverLonger' /\ NoTwins' /\ NoCycleOfOne' /\ Lists'
  BY <1>1, <1>2 DEF StackInvariant, Inductive, TypeOK, NeverLonger, NoTwins, NoCycleOfOne, Lists
<1> QED
  BY <1>5, <1>6 DEF StackInvariant, Inductive

-----------------------------------------------------------------------------
(* The theorems *)

LEMMA InitStack == Init => StackInvariant
<1> SUFFICES ASSUME Init
             PROVE  StackInvariant
  OBVIOUS
<1>1. frames \in Seq(Entries) /\ Len(frames) \in Nat
  BY StackIsList DEF Init
<1>2. <<>> \in Seq(Entries) /\ Len(<<>>) = 0
  OBVIOUS
<1> QED
  BY <1>1, <1>2 DEF Init, StackInvariant, Inductive, TypeOK, NeverLonger, NoTwins, NoCycleOfOne,
                    MoreIsPositive, Lists

LEMMA NextStack == StackInvariant /\ [Next]_vars => StackInvariant'
<1> SUFFICES ASSUME StackInvariant, [Next]_vars
             PROVE  StackInvariant'
  OBVIOUS
<1>1. CASE UNCHANGED vars
  BY <1>1 DEF vars, StackInvariant, Inductive, TypeOK, NeverLonger, NoTwins, NoCycleOfOne,
              MoreIsPositive, Lists, Plain
<1> QED
  BY <1>1, RunStep, TurnStep, CycleStep, FrameStep, CutStep DEF Next

\* The inductive invariant holds in every state: the passes never write more than
\* they read, and plain frames that follow each other are counted by the first.
THEOREM StackCollapseInductive == Spec => []Inductive
<1>1. StackInvariant => Inductive
  BY DEF StackInvariant
<1> QED
  BY <1>1, InitStack, NextStack, PTL DEF Spec

\* The unsigned subtraction of collapse_stack never goes below one.
THEOREM MoreNeverUnderflows == Spec => []MoreIsPositive
<1>1. Inductive => MoreIsPositive
  BY DEF Inductive
<1> QED
  BY <1>1, StackCollapseInductive, PTL

-----------------------------------------------------------------------------
(* What is written stands for what is read *)

Meaning ==
  pass # "done" =>
    meant \in Seq(Entries) /\ Len(meant) = i /\ \A k \in 1 .. i : meant[k] = list[k]

LEMMA DivMod ==
  ASSUME NEW a \in Nat, NEW l \in Nat, l >= 1
  PROVE  a = (a \div l) * l + (a % l) /\ a % l \in 0 .. l - 1 /\ a \div l \in Nat
OBVIOUS

LEMMA DivBound ==
  ASSUME NEW q \in Nat, NEW l \in Nat, NEW n \in Nat, NEW r \in Nat, l >= 1, q * l + r < n * l
  PROVE  q <= n - 1
<1> SUFFICES ASSUME q >= n
             PROVE  FALSE
  OBVIOUS
<1>1. q * l >= n * l
  OBVIOUS
<1>2. q * l \in Nat /\ n * l \in Nat
  OBVIOUS
<1> QED
  BY <1>1, <1>2

\* A frame of a cycle that comes n times is the one of the first time.
LEMMA FrameOfCycle ==
  ASSUME NEW l \in Nat, NEW n \in Nat, l >= 1, i \in Nat, Cycle(l, n), NEW k \in 1 .. n * l
  PROVE  list[i + 1 + ((k - 1) % l)] = list[i + k]
<1> DEFINE q == (k - 1) \div l
           r == (k - 1) % l
<1>1. n * l \in Nat /\ k - 1 \in Nat /\ k - 1 < n * l
  OBVIOUS
<1>2. k - 1 = q * l + r /\ r \in 0 .. l - 1 /\ q \in Nat
  BY <1>1, DivMod
<1> HIDE DEF q, r
<1>3. q <= n - 1
  BY <1>1, <1>2, DivBound
<1>4. q * l \in Nat /\ i + 1 + r = i + (r + 1) /\ i + k = i + q * l + (r + 1)
  BY <1>1, <1>2
<1>5. CASE q = 0
  BY <1>2, <1>4, <1>5 DEF r
<1>6. CASE q # 0
  <2>1. q \in 1 .. n - 1 /\ r + 1 \in 1 .. l
    BY <1>2, <1>3, <1>6
  <2>2. list[i + q * l + (r + 1)] = list[i + (r + 1)]
    BY <2>1 DEF Cycle
  <2> QED
    BY <1>4, <2>2 DEF r
<1> QED
  BY <1>5, <1>6

LEMMA ReadMeaning ==
  ASSUME Meaning, list \in Seq(Entries), pass # "done", i \in Nat, i' \in Nat, i' <= Len(list),
         NEW n \in Nat, NEW w, NEW s \in [1 .. n -> Entries], Read(n, w, s),
         \A k \in 1 .. n : s[k] = list[i + k]
  PROVE  Meaning'
<1>1. s \in Seq(Entries) /\ Len(s) = n
  BY SeqDef
<1>2. /\ meant \in Seq(Entries) /\ Len(meant) = i /\ \A k \in 1 .. i : meant[k] = list[k]
  BY DEF Meaning
<1>3. i' = i + n /\ meant' = meant \o s /\ list' = list
  BY DEF Read
<1>4. /\ meant \o s \in Seq(Entries) /\ Len(meant \o s) = i + n
      /\ \A k \in 1 .. i + n : (meant \o s)[k] = IF k <= i THEN meant[k] ELSE s[k - i]
  BY <1>1, <1>2, ConcatProperties
<1>5. ASSUME NEW k \in 1 .. i + n
      PROVE  (meant \o s)[k] = list[k]
  <2>1. CASE k <= i
    BY <1>2, <1>4, <2>1
  <2>2. CASE k > i
    <3>1. k - i \in 1 .. n /\ i + (k - i) = k
      BY <2>2
    <3> QED
      BY <1>4, <2>2, <3>1
  <2> QED
    BY <1>2, <2>1, <2>2
<1> QED
  BY <1>3, <1>4, <1>5 DEF Meaning

LEMMA NextMeaning ==
  ASSUME StackInvariant, Meaning, [Next]_vars
  PROVE  Meaning'
<1>1. TypeOK /\ Lists /\ NeverLonger
  BY DEF StackInvariant, Inductive
<1>2. ASSUME TakeRun
      PROVE  Meaning'
  <2>1. PICK n \in 1 .. Len(list) :
          Same(n) /\ Read(n, <<Count(list[i + 1], n)>>, [k \in 1 .. n |-> list[i + 1]])
    BY <1>2 DEF TakeRun
  <2>2. pass # "done" /\ list \in Seq(Entries) /\ i \in Nat /\ Len(list) \in Nat /\ n \in Nat /\ n >= 1
    BY <1>1, <1>2 DEF TakeRun, TypeOK, Lists
  <2>3. i + n <= Len(list) /\ \A k \in 1 .. n : list[i + k] = list[i + 1]
    BY <2>1 DEF Same
  <2>4. list[i + 1] \in Entries
    BY <2>2, <2>3
  <2>5. [k \in 1 .. n |-> list[i + 1]] \in [1 .. n -> Entries]
    BY <2>4
  <2>6. i' \in Nat /\ i' <= Len(list)
    BY <2>1, <2>2, <2>3 DEF Read
  <2>7. \A k \in 1 .. n : [j \in 1 .. n |-> list[i + 1]][k] = list[i + k]
    BY <2>3
  <2> QED
    BY <2>1, <2>2, <2>5, <2>6, <2>7, ReadMeaning
<1>3. ASSUME TurnToCycles
      PROVE  Meaning'
  <2>1. <<>> \in Seq(Entries) /\ Len(<<>>) = 0
    OBVIOUS
  <2> QED
    BY <1>3, <2>1 DEF TurnToCycles, Meaning
<1>4. ASSUME TakeCycle
      PROVE  Meaning'
  <2>1. PICK l \in 1 .. (Len(list) - i) \div 2, n \in 2 .. Len(list) :
          Cycle(l, n) /\ Read(n * l, Once(l, n), Times(l, n))
    BY <1>4 DEF TakeCycle, Taken
  <2>2. /\ pass # "done" /\ list \in Seq(Entries) /\ i \in Nat /\ Len(list) \in Nat
        /\ n \in Nat /\ n >= 2 /\ l \in Nat /\ l >= 1
    BY <1>1, <1>4, <2>1 DEF TakeCycle, TypeOK, Lists
  <2>3. n * l \in Nat /\ i + n * l <= Len(list)
    BY <2>1, <2>2, TwiceIsLonger DEF Cycle
  <2>4. i' \in Nat /\ i' <= Len(list)
    <3>1. i' = i + n * l
      BY <2>1 DEF Read
    <3>2. \A m \in Nat : i + m \in Nat
      BY <2>2
    <3> QED
      BY <2>3, <3>1, <3>2
  <2>5. \A k \in 1 .. n * l : Times(l, n)[k] = list[i + k]
    BY <2>1, <2>2, FrameOfCycle DEF Times
  <2>6. \A k \in 1 .. n * l : list[i + k] \in Entries
    BY <2>2, <2>3
  <2>7. Times(l, n) = [k \in 1 .. n * l |-> Times(l, n)[k]]
    BY DEF Times
  <2>8. Times(l, n) \in [1 .. n * l -> Entries]
    BY <2>5, <2>6, <2>7
  <2> QED
    BY <2>1, <2>2, <2>3, <2>4, <2>5, <2>8, ReadMeaning
<1>5. ASSUME TakeFrame
      PROVE  Meaning'
  <2>1. /\ pass # "done" /\ list \in Seq(Entries) /\ i \in Nat /\ Len(list) \in Nat
        /\ i + 1 <= Len(list) /\ Read(1, <<list[i + 1]>>, <<list[i + 1]>>)
    BY <1>1, <1>5 DEF TakeFrame, TypeOK, Lists, NeverLonger, AtEnd
  <2>2. list[i + 1] \in Entries
    BY <2>1
  <2>3. <<list[i + 1]>> \in [1 .. 1 -> Entries] /\ \A k \in 1 .. 1 : <<list[i + 1]>>[k] = list[i + k]
    BY <2>1, <2>2
  <2>4. i' \in Nat /\ i' <= Len(list)
    BY <2>1 DEF Read
  <2> QED
    BY <2>1, <2>3, <2>4, ReadMeaning
<1>6. ASSUME CutToSize
      PROVE  Meaning'
  BY <1>6 DEF CutToSize, Meaning
<1>7. CASE UNCHANGED vars
  BY <1>7 DEF vars, Meaning
<1> QED
  BY <1>2, <1>3, <1>4, <1>5, <1>6, <1>7 DEF Next

\* Whatever a pass has written stands for exactly the frames it has read.
THEOREM ResultStandsForFrames == Spec => []StandsForFrames
<1>1. Init => Meaning
  <2>1. <<>> \in Seq(Entries) /\ Len(<<>>) = 0
    OBVIOUS
  <2> QED
    BY <2>1 DEF Init, Meaning
<1>2. StackInvariant /\ Meaning => StandsForFrames
  <2>1. SUFFICES ASSUME StackInvariant, Meaning, pass # "done"
                 PROVE  meant = SubSeq(list, 1, i)
    BY DEF StandsForFrames
  <2>2. /\ list \in Seq(Entries) /\ i \in 0 .. Len(list) /\ Len(list) \in Nat
        /\ meant \in Seq(Entries) /\ Len(meant) = i /\ \A k \in 1 .. i : meant[k] = list[k]
    BY <2>1 DEF StackInvariant, Inductive, Lists, NeverLonger, Meaning
  <2>3. /\ SubSeq(list, 1, i) \in Seq(Entries) /\ Len(SubSeq(list, 1, i)) = i
        /\ \A k \in 1 .. i : SubSeq(list, 1, i)[k] = list[k]
    BY <2>2
  <2> QED
    BY <2>2, <2>3, SeqEqual
<1> QED
  BY <1>1, <1>2, InitStack, NextStack, NextMeaning, PTL DEF Spec

-----------------------------------------------------------------------------
(* The result *)

\* What collapse_stack returns is a list of at most MAX_STACK_SIZE entries and the
\* one that says how many are left out.
Written == Seq(Symbols \cup {"...", "more"} \cup Int)
Returned ==
  pass = "done" => result \in Seq(Written) /\ Len(result) <= MaxStack + 1

LEMMA CutIsWritten ==
  ASSUME NEW f \in Entries
  PROVE  Cut(f) \in Written
<1>1. f \in Seq(Symbols) /\ f[1] \in Symbols
  BY DEF Entries
<1>2. f \in Written /\ <<f[1], "...">> \in Written
  BY <1>1 DEF Written
<1> QED
  BY <1>2 DEF Cut

LEMMA NextReturned ==
  ASSUME StackInvariant, Returned, [Next]_vars
  PROVE  Returned'
<1>1. CASE CutToSize
  <2> DEFINE cut == [k \in 1 .. Len(result) |-> Cut(result[k])]
             more == Len(frames) - MaxStack
  <2>1. /\ result' = IF Len(result) <= MaxStack THEN cut
                     ELSE SubSeq(cut, 1, MaxStack) \o << <<"more", more>> >>
        /\ pass = "cycles"
    BY <1>1 DEF CutToSize
  <2>2. result \in Seq(Entries) /\ Len(result) \in Nat /\ MaxStack \in Nat /\ more \in Int
    <3>1. frames \in Seq(Entries)
      BY StackIsList DEF StackInvariant, Inductive, TypeOK
    <3> QED
      BY <2>1, <3>1, StackCollapseAssumption DEF StackInvariant, Lists
  <2>3. cut \in Seq(Written) /\ Len(cut) = Len(result)
    <3>1. \A k \in 1 .. Len(result) : Cut(result[k]) \in Written
      BY <2>2, CutIsWritten
    <3>2. cut \in [1 .. Len(result) -> Written]
      BY <3>1
    <3> QED
      BY <2>2, <3>2, IsASeq
  <2>4. <<"more", more>> \in Written
    BY <2>2 DEF Written
  <2> HIDE DEF cut, more
  <2>5. CASE Len(result) <= MaxStack
    BY <2>1, <2>2, <2>3, <2>5 DEF Returned
  <2>6. CASE Len(result) > MaxStack
    <3>1. SubSeq(cut, 1, MaxStack) \in Seq(Written) /\ Len(SubSeq(cut, 1, MaxStack)) = MaxStack
      BY <2>2, <2>3, <2>6
    <3>2. /\ SubSeq(cut, 1, MaxStack) \o << <<"more", more>> >> \in Seq(Written)
          /\ Len(SubSeq(cut, 1, MaxStack) \o << <<"more", more>> >>) = MaxStack + 1
      BY <2>2, <2>4, <3>1
    <3> QED
      BY <2>1, <2>2, <2>6, <3>2 DEF Returned
  <2> QED
    BY <2>2, <2>5, <2>6
<1>2. CASE ~CutToSize
  BY <1>2 DEF Next, vars, Returned, TakeRun, TurnToCycles, TakeCycle, TakeFrame, Read
<1> QED
  BY <1>1, <1>2

-----------------------------------------------------------------------------
(* Texts *)

LEMMA ConcatElement ==
  ASSUME NEW s \in Seq(SomeCharacter), NEW t \in Seq(SomeCharacter)
  PROVE  /\ s \o t \in Seq(SomeCharacter) /\ Len(s \o t) = Len(s) + Len(t)
         /\ \A k \in DOMAIN s : k \in DOMAIN (s \o t) /\ (s \o t)[k] = s[k]
         /\ \A k \in DOMAIN t : /\ Len(s) + k \in DOMAIN (s \o t)
                                /\ (s \o t)[Len(s) + k] = t[k]
         /\ \A k \in DOMAIN (s \o t) :
              k \in DOMAIN s \/ (k - Len(s) \in DOMAIN t /\ k = Len(s) + (k - Len(s)))
<1>1. /\ s \o t \in Seq(SomeCharacter) /\ Len(s \o t) = Len(s) + Len(t)
      /\ \A k \in 1 .. Len(s) + Len(t) :
           (s \o t)[k] = IF k <= Len(s) THEN s[k] ELSE t[k - Len(s)]
  BY ConcatProperties
<1>2. /\ DOMAIN s = 1 .. Len(s) /\ DOMAIN t = 1 .. Len(t)
      /\ DOMAIN (s \o t) = 1 .. Len(s \o t) /\ Len(s) \in Nat /\ Len(t) \in Nat
  BY <1>1, LenProperties
<1> QED
  BY <1>1, <1>2

LEMMA SecretInConcat ==
  ASSUME NEW s \in Seq(SomeCharacter), NEW t \in Seq(SomeCharacter)
  PROVE  /\ \A k \in DOMAIN s : InSecret(s, k) => InSecret(s \o t, k)
         /\ \A k \in DOMAIN t : InSecret(t, k) => InSecret(s \o t, Len(s) + k)
<1>1. ASSUME NEW k \in DOMAIN s, InSecret(s, k)
      PROVE  InSecret(s \o t, k)
  <2>1. PICK j \in {k - 1, k + 1} \cap DOMAIN s : s[j] = [s[k] EXCEPT !.half = 3 - @]
    BY <1>1 DEF InSecret
  <2>2. j \in DOMAIN (s \o t) /\ (s \o t)[j] = s[j] /\ (s \o t)[k] = s[k]
    BY ConcatElement
  <2> QED
    BY <1>1, <2>1, <2>2 DEF InSecret
<1>2. ASSUME NEW k \in DOMAIN t, InSecret(t, k)
      PROVE  InSecret(s \o t, Len(s) + k)
  <2>1. PICK j \in {k - 1, k + 1} \cap DOMAIN t : t[j] = [t[k] EXCEPT !.half = 3 - @]
    BY <1>2 DEF InSecret
  <2>2. /\ Len(s) + j \in DOMAIN (s \o t) /\ (s \o t)[Len(s) + j] = t[j]
        /\ (s \o t)[Len(s) + k] = t[k]
    BY ConcatElement
  <2>3. Len(s) + j \in {Len(s) + k - 1, Len(s) + k + 1}
    <3>1. k \in Int /\ Len(s) \in Int
      OBVIOUS
    <3> QED
      BY <3>1
  <2> QED
    BY <1>2, <2>1, <2>2, <2>3 DEF InSecret
<1> QED
  BY <1>1, <1>2

\* What has been scanned stays right when more of the source is.
LEMMA ScanGoesOn ==
  ASSUME NEW source, NEW s \in Seq(SomeCharacter), NEW t \in Seq(SomeCharacter),
         NEW m \in Nat, NEW n \in Nat, m <= n,
         FromWords(source, s, m), FromWords(source, t, n)
  PROVE  FromWords(source, s \o t, n)
<1> SUFFICES ASSUME NEW k \in DOMAIN (s \o t)
             PROVE  /\ (s \o t)[k].word # 0 =>
                         /\ (s \o t)[k].word \in 1 .. n
                         /\ (s \o t)[k].kind = source[(s \o t)[k].word]
                         /\ ~StandsAlone(source, (s \o t)[k].word)
                    /\ (s \o t)[k].kind = "secret" => InSecret(s \o t, k)
  BY DEF FromWords
<1>1. CASE k \in DOMAIN s
  <2>1. (s \o t)[k] = s[k]
    BY <1>1, ConcatElement
  <2>2. s[k].word \in 1 .. m => s[k].word \in 1 .. n
    OBVIOUS
  <2> QED
    BY <1>1, <2>1, <2>2, SecretInConcat DEF FromWords
<1>2. CASE k \notin DOMAIN s
  <2> DEFINE h == k - Len(s)
  <2>1. h \in DOMAIN t /\ k = Len(s) + h
    BY <1>2, ConcatElement
  <2>2. (s \o t)[k] = t[h]
    BY <2>1, ConcatElement
  <2>3. InSecret(t, h) => InSecret(s \o t, k)
    BY <2>1, SecretInConcat
  <2> HIDE DEF h
  <2> QED
    BY <2>1, <2>2, <2>3 DEF FromWords
<1> QED
  BY <1>1, <1>2

LEMMA CharacterFields ==
  ASSUME NEW word, NEW w, NEW half
  PROVE  /\ Character(word, w, half).kind = word /\ Character(word, w, half).word = w
         /\ Character(word, w, half).half = half
         /\ word \in Words /\ w \in Nat /\ half \in 1 .. 2 =>
              Character(word, w, half) \in SomeCharacter
BY DEF Character, SomeCharacter

LEMMA MarkFields ==
  ASSUME NEW mark \in {"[ipv6]", "[secret]", "."}
  PROVE  Mark(mark) \in SomeCharacter /\ Mark(mark).word = 0 /\ Mark(mark).kind = mark
BY DEF Mark, Character, SomeCharacter

LEMMA RedactedIsClean ==
  ASSUME NEW source, NEW text \in Seq(SomeCharacter), FromWords(source, text, Len(source)),
         source \in Seq(Words)
  PROVE  Redacted(text) \in Seq(SomeCharacter) /\ Clean(source, Redacted(text))
<1>1. /\ DOMAIN text = 1 .. Len(text) /\ Len(text) \in Nat /\ DOMAIN source = 1 .. Len(source)
      /\ \A k \in DOMAIN text : text[k] \in SomeCharacter
  OBVIOUS
<1>2. Mark("[secret]") \in SomeCharacter /\ Mark("[secret]").word = 0
  BY MarkFields
<1>3. Redacted(text) \in [1 .. Len(text) -> SomeCharacter]
  BY <1>1, <1>2 DEF Redacted
<1>4. Redacted(text) \in Seq(SomeCharacter)
  BY <1>1, <1>3, IsASeq
<1>5. ASSUME NEW k \in DOMAIN Redacted(text), Redacted(text)[k].word # 0
      PROVE  /\ Redacted(text)[k].word \in DOMAIN source
             /\ source[Redacted(text)[k].word] # "secret"
             /\ ~StandsAlone(source, Redacted(text)[k].word)
  <2>1. k \in DOMAIN text /\ ~InSecret(text, k) /\ Redacted(text)[k] = text[k]
    BY <1>2, <1>5 DEF Redacted
  <2> QED
    BY <1>1, <1>5, <2>1 DEF FromWords
<1> QED
  BY <1>4, <1>5 DEF Clean

LEMMA CutIsClean ==
  ASSUME NEW source, NEW text \in Seq(SomeCharacter), Clean(source, text)
  PROVE  /\ CutText(text) \in Seq(SomeCharacter) /\ Clean(source, CutText(text))
         /\ Len(CutText(text)) <= MaxMessage
<1> DEFINE m == MaxMessage - 3
           start == SubSeq(text, 1, m)
<1>1. MaxMessage \in Nat /\ m \in Nat /\ MaxMessage = m + 3 /\ Len(text) \in Nat
  BY ErrorRecordAssumption
<1>2. CASE Len(text) <= MaxMessage
  BY <1>2 DEF CutText
<1>3. CASE Len(text) > MaxMessage
  <2>1. /\ start \in Seq(SomeCharacter) /\ Len(start) = m
        /\ \A k \in 1 .. m : start[k] = text[k] /\ k \in DOMAIN text
    BY <1>1, <1>3
  <2>2. Mark(".") \in SomeCharacter /\ Mark(".").word = 0
    BY MarkFields
  <2>3. Dots \in Seq(SomeCharacter) /\ Len(Dots) = 3 /\ \A k \in DOMAIN Dots : Dots[k].word = 0
    BY <2>2 DEF Dots
  <2>4. CutText(text) = start \o Dots
    BY <1>1, <1>3 DEF CutText
  <2> HIDE DEF start, m
  <2>5. start \o Dots \in Seq(SomeCharacter) /\ Len(start \o Dots) = m + 3
    <3>1. start \in Seq(SomeCharacter) /\ Dots \in Seq(SomeCharacter)
      BY <2>1, <2>3
    <3>2. /\ start \o Dots \in Seq(SomeCharacter)
          /\ Len(start \o Dots) = Len(start) + Len(Dots)
      BY <3>1, ConcatElement
    <3> QED
      BY <2>1, <2>3, <3>2
  <2>6. Clean(source, start \o Dots)
    <3> SUFFICES ASSUME NEW k \in DOMAIN (start \o Dots), (start \o Dots)[k].word # 0
                 PROVE  \E h \in DOMAIN text : (start \o Dots)[k] = text[h]
      BY DEF Clean
    <3>1. k \in DOMAIN start
      <4>1. k - Len(start) \in DOMAIN Dots => (start \o Dots)[Len(start) + (k - Len(start))].word = 0
        BY <2>1, <2>3, ConcatElement
      <4> QED
        BY <2>1, <2>3, <4>1, ConcatElement
    <3>2. (start \o Dots)[k] = start[k] /\ k \in 1 .. m
      BY <2>1, <2>3, <3>1, ConcatElement
    <3> QED
      BY <2>1, <3>2
  <2> QED
    BY <1>1, <2>4, <2>5, <2>6
<1> QED
  BY <1>1, <1>2, <1>3
-----------------------------------------------------------------------------
(* Scanning and keeping *)

\* The text that is being scanned.
LEMMA TextInHand ==
  ASSUME RecordTypeOK, Number <= Len(raw)
  PROVE  /\ Number \in DOMAIN raw /\ Text \in Seq(Words) /\ Len(Text) \in Nat
         /\ Number = Len(kept) + 1 /\ Len(kept) \in Nat
BY DEF RecordTypeOK, Number, Text

\* A match goes beyond what has been read, and not beyond the text.
LEMMA MatchInText ==
  ASSUME read \in Nat, Text \in Seq(Words), Matches
  PROVE  /\ Address \in Nat /\ End \in Nat /\ End <= Len(Text)
         /\ Text[Address] = "address" /\ Address <= Len(Text)
         /\ \/ Address = read + 1
            \/ Address = read + 2 /\ Text[read + 1] = "gap"
         /\ \/ End = Address
            \/ End = Address + 1 /\ Text[End] = "gap"
BY DEF Matches, Address, End, IsAt

LEMMA CharactersFromWords ==
  ASSUME Text \in Seq(Words), NEW w \in 1 .. Len(Text), ~StandsAlone(Text, w)
  PROVE  /\ Characters(w) \in Seq(SomeCharacter)
         /\ FromWords(Text, Characters(w), w)
<1> DEFINE n == IF Text[w] \in {"address", "secret"} THEN 2 ELSE 1
<1>1. /\ Characters(w) = [half \in 1 .. n |-> Character(Text[w], w, half)]
      /\ n \in {1, 2} /\ w \in Nat /\ Text[w] \in Words /\ (Text[w] = "secret" => n = 2)
  BY DEF Characters
<1> HIDE DEF n
<1>2. \A half \in 1 .. n : half \in 1 .. 2
  BY <1>1
<1>3. Characters(w) \in [1 .. n -> SomeCharacter]
  BY <1>1, <1>2, CharacterFields
<1>4. Characters(w) \in Seq(SomeCharacter) /\ DOMAIN Characters(w) = 1 .. n
  BY <1>1, <1>3, IsASeq
<1>5. ASSUME NEW k \in 1 .. n
      PROVE  /\ Characters(w)[k] = Character(Text[w], w, k)
             /\ Characters(w)[k].word = w /\ Characters(w)[k].kind = Text[w]
  BY <1>1, CharacterFields
<1>6. ASSUME NEW k \in 1 .. n, Text[w] = "secret"
      PROVE  InSecret(Characters(w), k)
  <2>1. 3 - k \in 1 .. n /\ 3 - k \in {k - 1, k + 1}
    BY <1>1, <1>6
  <2>2. Characters(w)[3 - k] = Character(Text[w], w, 3 - k)
    BY <1>5, <2>1
  <2>3. Character(Text[w], w, 3 - k) = [Character(Text[w], w, k) EXCEPT !.half = 3 - @]
    BY DEF Character
  <2> QED
    BY <1>4, <1>5, <1>6, <2>1, <2>2, <2>3 DEF InSecret
<1> QED
  BY <1>1, <1>4, <1>5, <1>6 DEF FromWords

LEMMA MatchStep ==
  ASSUME RecordTypeOK, TextsInOrder, ScanIsRight, RedactAddress
  PROVE  /\ scanned' \in Seq(SomeCharacter) /\ read' \in Nat
         /\ ScanIsRight'
<1> DEFINE copy == [k \in 1 .. End - read |-> IF read + k = Address THEN Mark("[ipv6]")
                                              ELSE Character("gap", read + k, 1)]
<1>1. /\ scan = "addresses" /\ Matches /\ scanned' = scanned \o copy /\ read' = End
      /\ UNCHANGED <<raw, kept, scan>>
  BY DEF RedactAddress
<1>2. /\ read \in Nat /\ scanned \in Seq(SomeCharacter) /\ Text \in Seq(Words)
      /\ FromWords(Text, scanned, read)
  BY <1>1, TextInHand DEF RecordTypeOK, TextsInOrder, ScanIsRight
<1>3. /\ Address \in Nat /\ End \in Nat /\ End <= Len(Text) /\ Text[Address] = "address"
      /\ Address <= Len(Text)
      /\ Address = read + 1 \/ (Address = read + 2 /\ Text[read + 1] = "gap")
      /\ End = Address \/ (End = Address + 1 /\ Text[End] = "gap")
  BY <1>1, <1>2, MatchInText
<1>4. End - read \in Nat /\ read <= End
  BY <1>2, <1>3
<1>5. ASSUME NEW k \in 1 .. End - read, read + k # Address
      PROVE  read + k \in 1 .. End /\ Text[read + k] = "gap"
  <2>1. read + k = read + 1 \/ read + k = End
    BY <1>2, <1>3, <1>5
  <2> QED
    BY <1>2, <1>3, <1>4, <1>5, <2>1
<1>6. /\ Mark("[ipv6]") \in SomeCharacter
      /\ Mark("[ipv6]").word = 0 /\ Mark("[ipv6]").kind = "[ipv6]"
  BY MarkFields
<1>7. ASSUME NEW k \in 1 .. End - read
      PROVE  /\ copy[k] \in SomeCharacter /\ copy[k].kind # "secret"
             /\ copy[k].word # 0 => /\ copy[k].word \in 1 .. End
                                    /\ copy[k].kind = Text[copy[k].word]
                                    /\ ~StandsAlone(Text, copy[k].word)
  <2>1. CASE read + k = Address
    BY <1>6, <2>1
  <2>2. CASE read + k # Address
    <3>1. read + k \in 1 .. End /\ Text[read + k] = "gap" /\ read + k \in Nat
      BY <1>2, <1>5, <2>2
    <3>2. copy[k] = Character("gap", read + k, 1)
      BY <2>2
    <3>3. /\ Character("gap", read + k, 1) \in SomeCharacter
          /\ Character("gap", read + k, 1).word = read + k
          /\ Character("gap", read + k, 1).kind = "gap"
      <4>1. "gap" \in Words /\ 1 \in 1 .. 2
        BY DEF Words
      <4> QED
        BY <3>1, <4>1, CharacterFields
    <3>4. ~StandsAlone(Text, read + k)
      BY <3>1 DEF StandsAlone
    <3> HIDE DEF copy
    <3> QED
      BY <3>1, <3>2, <3>3, <3>4
  <2> QED
    BY <2>1, <2>2
<1>8. copy \in Seq(SomeCharacter) /\ DOMAIN copy = 1 .. End - read
  <2>1. copy = [k \in 1 .. End - read |-> copy[k]] /\ DOMAIN copy = 1 .. End - read
    OBVIOUS
  <2> HIDE DEF copy
  <2>2. copy \in [1 .. End - read -> SomeCharacter]
    BY <1>7, <2>1
  <2> QED
    BY <1>4, <2>1, <2>2, IsASeq
<1> HIDE DEF copy
<1>9. FromWords(Text, copy, End)
  BY <1>7, <1>8 DEF FromWords
<1>10. FromWords(Text, scanned \o copy, End)
  BY <1>2, <1>3, <1>4, <1>8, <1>9, ScanGoesOn
<1>11. ASSUME NEW w \in DOMAIN Text, StandsAlone(Text, w), w > 1
       PROVE  End # w - 1
  <2>1. Text[w] = "address" /\ Text[w - 1] = "gap" /\ (w > 2 => Text[w - 2] # "address") /\ w \in Nat
    BY <1>2, <1>11 DEF StandsAlone
  <2>2. End = Address => End # w - 1
    BY <1>3, <2>1
  <2>3. ASSUME End = Address + 1, End = w - 1
        PROVE  FALSE
    <3>1. Address = w - 2 /\ w > 2
      BY <1>2, <1>3, <2>1, <2>3
    <3> QED
      BY <1>3, <2>1, <3>1
  <2> QED
    BY <1>3, <2>2, <2>3
<1>12. Text' = Text
  BY <1>1 DEF Text, Number
<1>13. scanned' \in Seq(SomeCharacter) /\ read' \in Nat
  BY <1>1, <1>2, <1>3, <1>8, ConcatElement
<1> QED
  BY <1>1, <1>3, <1>10, <1>11, <1>12, <1>13 DEF ScanIsRight

LEMMA CopyStep ==
  ASSUME RecordTypeOK, TextsInOrder, ScanIsRight, CopyWord
  PROVE  /\ scanned' \in Seq(SomeCharacter) /\ read' \in Nat
         /\ ScanIsRight'
<1>1. /\ scan = "addresses" /\ ~Matches /\ read < Len(Text)
      /\ scanned' = scanned \o Characters(read + 1) /\ read' = read + 1
      /\ UNCHANGED <<raw, kept, scan>>
  BY DEF CopyWord
<1>2. /\ read \in Nat /\ scanned \in Seq(SomeCharacter) /\ Text \in Seq(Words)
      /\ Len(Text) \in Nat
  BY <1>1, TextInHand DEF RecordTypeOK, TextsInOrder
<1>10. /\ FromWords(Text, scanned, read)
       /\ \A w \in DOMAIN Text : StandsAlone(Text, w) /\ w > 1 => read # w - 1
  BY <1>1 DEF ScanIsRight
<1>3. DOMAIN Text = 1 .. Len(Text) /\ read + 1 \in 1 .. Len(Text) /\ read + 1 \in Nat
  BY <1>1, <1>2
\* Where an address that stands alone would be copied, it matches.
<1>4. ~StandsAlone(Text, read + 1)
  <2> SUFFICES ASSUME StandsAlone(Text, read + 1)
               PROVE  FALSE
    OBVIOUS
  <2>1. read = 0
    BY <1>2, <1>3, <1>10
  <2>2. /\ Text[read + 1] = "address"
        /\ read + 1 = Len(Text) \/ Text[read + 2] = "gap"
    BY <1>2 DEF StandsAlone
  <2>3. Address = read + 1 /\ IsAt("address", Address)
    <3>1. read + 1 <= Len(Text) /\ Text[read + 1] = "address"
      BY <1>1, <1>2, <2>2
    <3>2. ~IsAt("gap", read + 1) /\ IsAt("address", read + 1)
      BY <3>1 DEF IsAt
    <3> QED
      BY <3>2 DEF Address
  <2>4. End = Address => Address = Len(Text)
    <3>1. CASE read + 1 = Len(Text)
      BY <2>3, <3>1
    <3>2. CASE read + 1 # Len(Text)
      <4>1. read + 2 <= Len(Text) /\ Text[read + 2] = "gap" /\ Address + 1 = read + 2
        BY <1>1, <1>2, <2>2, <2>3, <3>2
      <4>2. End = Address + 1
        BY <4>1 DEF End, IsAt
      <4> QED
        BY <1>2, <2>3, <4>2
    <3> QED
      BY <3>1, <3>2
  <2> QED
    BY <1>1, <2>1, <2>3, <2>4 DEF Matches
<1>5. /\ Characters(read + 1) \in Seq(SomeCharacter)
      /\ FromWords(Text, Characters(read + 1), read + 1)
  BY <1>2, <1>3, <1>4, CharactersFromWords
<1>6. FromWords(Text, scanned \o Characters(read + 1), read + 1)
  BY <1>2, <1>3, <1>5, <1>10, ScanGoesOn
\* And where the gap before one would be copied, both do.
<1>7. ASSUME NEW w \in DOMAIN Text, StandsAlone(Text, w), w > 1
      PROVE  read + 1 # w - 1
  <2> SUFFICES ASSUME read + 1 = w - 1
               PROVE  FALSE
    OBVIOUS
  <2>1. /\ Text[w] = "address" /\ Text[w - 1] = "gap"
        /\ w = Len(Text) \/ Text[w + 1] = "gap"
        /\ w \in 1 .. Len(Text) /\ w = read + 2
    BY <1>2, <1>3, <1>7 DEF StandsAlone
  <2>2. IsAt("gap", read + 1)
    <3>1. read + 1 = w - 1 /\ read + 1 <= Len(Text)
      BY <1>2, <1>3
    <3> QED
      BY <2>1, <3>1 DEF IsAt
  <2>3. Address = w /\ IsAt("address", Address)
    BY <2>1, <2>2 DEF Address, IsAt
  <2>4. End = Address => Address = Len(Text)
    <3>1. CASE w = Len(Text)
      BY <2>3, <3>1
    <3>2. CASE w # Len(Text)
      <4>1. w + 1 <= Len(Text) /\ Text[w + 1] = "gap"
        BY <1>2, <2>1, <3>2
      <4>2. End = Address + 1
        BY <2>3, <4>1 DEF End, IsAt
      <4> QED
        BY <2>1, <2>3, <4>2
    <3> QED
      BY <3>1, <3>2
  <2> QED
    BY <1>1, <2>2, <2>3, <2>4 DEF Matches
<1>8. Text' = Text
  BY <1>1 DEF Text, Number
<1>9. scanned' \in Seq(SomeCharacter) /\ read' \in Nat
  BY <1>1, <1>2, <1>3, <1>5, ConcatElement
<1> QED
  BY <1>1, <1>3, <1>6, <1>7, <1>8, <1>9 DEF ScanIsRight

LEMMA RedactStep ==
  ASSUME RecordTypeOK, TextsInOrder, ScanIsRight, RedactOthers
  PROVE  scanned' \in Seq(SomeCharacter) /\ Clean(Text, scanned')
<1>1. /\ scan = "addresses" /\ read = Len(Text) /\ scanned' = Redacted(scanned)
  BY DEF RedactOthers
<1>2. /\ scanned \in Seq(SomeCharacter) /\ Text \in Seq(Words)
      /\ FromWords(Text, scanned, Len(Text))
  BY <1>1, TextInHand DEF RecordTypeOK, TextsInOrder, ScanIsRight
<1> QED
  BY <1>1, <1>2, RedactedIsClean

LEMMA KeepStep ==
  ASSUME RecordTypeOK, TextsInOrder, KeptIsClean, KeepText
  PROVE  /\ kept' \in Seq(Seq(SomeCharacter)) /\ Len(kept') = Len(kept) + 1
         /\ \A n \in DOMAIN kept' : Clean(raw[n], kept'[n]) /\ Len(kept'[n]) <= MaxMessage
<1>1. scan = "cut" /\ kept' = Append(kept, CutText(scanned))
  BY DEF KeepText
<1>2. /\ kept \in Seq(Seq(SomeCharacter)) /\ scanned \in Seq(SomeCharacter)
      /\ Number = Len(kept) + 1 /\ Len(kept) \in Nat
      /\ \A n \in DOMAIN kept : Clean(raw[n], kept[n]) /\ Len(kept[n]) <= MaxMessage
  BY <1>1, TextInHand DEF RecordTypeOK, TextsInOrder, KeptIsClean
<1>3. /\ CutText(scanned) \in Seq(SomeCharacter) /\ Clean(raw[Number], CutText(scanned))
      /\ Len(CutText(scanned)) <= MaxMessage
  <2>1. Clean(raw[Number], scanned)
    BY <1>1 DEF KeptIsClean, Text
  <2> QED
    BY <1>2, <2>1, CutIsClean
<1>4. /\ kept' \in Seq(Seq(SomeCharacter)) /\ Len(kept') = Len(kept) + 1
      /\ \A n \in 1 .. Len(kept) : kept'[n] = kept[n]
      /\ kept'[Len(kept) + 1] = CutText(scanned)
  BY <1>1, <1>2, <1>3, AppendProperties
<1>5. /\ DOMAIN kept' = 1 .. Len(kept) + 1 /\ DOMAIN kept = 1 .. Len(kept)
      /\ \A n \in DOMAIN kept' : n \in DOMAIN kept \/ n = Number
  BY <1>2, <1>4
<1> QED
  BY <1>2, <1>3, <1>4, <1>5

-----------------------------------------------------------------------------
(* The inductive invariant of a record *)

\* The type of a cause is a text, and a short one.
LEMMA CauseTypeIsShort ==
  ASSUME NEW t \in Seq(Words)
  PROVE  CauseType(t) \in Seq(SomeCharacter) /\ Len(CauseType(t)) <= MaxCauseType
<1>1. MaxCauseType \in Nat /\ MaxCauseType >= 1 /\ Len(t) \in Nat
  BY ErrorRecordAssumption
<1>2. CASE t = <<>>
  <2>1. Mark("UnknownCause") \in SomeCharacter
    BY DEF Mark, Character, SomeCharacter
  <2>2. CauseType(t) = <<Mark("UnknownCause")>>
    BY <1>2 DEF CauseType
  <2> QED
    BY <1>1, <2>1, <2>2
<1>3. CASE t # <<>>
  <2> DEFINE n == IF Len(t) < MaxCauseType THEN Len(t) ELSE MaxCauseType
             prefix == [w \in 1 .. n |-> Character(t[w], w, 1)]
  <2>1. n \in Nat /\ n <= Len(t) /\ n <= MaxCauseType
    BY <1>1
  <2>2. CauseType(t) = prefix
    BY <1>3 DEF CauseType
  <2>3. ASSUME NEW w \in 1 .. n
        PROVE  Character(t[w], w, 1) \in SomeCharacter
    <3>1. t[w] \in Words /\ w \in Nat
      BY <1>1, <2>1
    <3> QED
      BY <3>1 DEF Character, SomeCharacter
  <2> HIDE DEF n
  <2>4. prefix \in [1 .. n -> SomeCharacter]
    BY <2>3
  <2>5. prefix \in Seq(SomeCharacter) /\ Len(prefix) = n
    BY <2>1, <2>4, IsASeq
  <2> QED
    BY <2>1, <2>2, <2>5
<1> QED
  BY <1>2, <1>3

LEMMA RecordInitInvariant == RecordInit => RecordInductive
<1> SUFFICES ASSUME RecordInit
             PROVE  RecordInductive
  OBVIOUS
<1>1. raw \in Seq(Seq(Words)) /\ Len(raw) = 1
  <2>1. CASE raw = << <<"gap">> >>
    <3>1. <<"gap">> \in Seq(Words)
      BY DEF Words
    <3> QED
      BY <2>1, <3>1
  <2>2. ASSUME NEW m \in Messages, raw = <<m>>
        PROVE  raw \in Seq(Seq(Words)) /\ Len(raw) = 1
    <3>1. PICK n \in Nat : m \in [1 .. n -> Words]
      BY ErrorRecordAssumption DEF Messages
    <3>2. m \in Seq(Words)
      BY <3>1, IsASeq
    <3> QED
      BY <2>2, <3>2
  <2> QED
    BY <2>1, <2>2 DEF RecordInit
<1>2. type \in Types /\ walking \in BOOLEAN
  BY ErrorRecordAssumption DEF RecordInit, SomeType
<1>3. /\ <<>> \in Seq(SomeCharacter) /\ <<>> \in Seq(Seq(SomeCharacter)) /\ Len(<<>>) = 0
      /\ DOMAIN <<>> = {}
  OBVIOUS
<1>4. /\ read = 0 /\ scanned = <<>> /\ scan = "before" /\ kept = <<>> /\ fate = "none"
      /\ causeTypes = <<>>
  BY DEF RecordInit
<1>5. MaxCauseDepth + 1 \in Nat /\ 1 \in 1 .. MaxCauseDepth + 1
  BY ErrorRecordAssumption
<1>6. RecordTypeOK
  BY <1>1, <1>2, <1>3, <1>4, <1>5 DEF RecordTypeOK
<1> QED
  BY <1>1, <1>3, <1>4, <1>6 DEF RecordInductive, CausesHaveTypes, ScanIsRight, TextsInOrder, KeptIsClean

\* A stack that has been collapsed stays as it is.
LEMMA DoneStops == pass = "done" => ~Next
BY DEF Next, TakeRun, TurnToCycles, TakeCycle, TakeFrame, CutToSize

LEMMA RecordNextInvariant == RecordInductive /\ [RecordNext]_allVars => RecordInductive'
<1> SUFFICES ASSUME RecordInductive, [RecordNext]_allVars
             PROVE  RecordInductive'
  OBVIOUS
<1> USE DEF RecordInductive
<1>1. CASE CollectCause
  <2>1. PICK t \in CauseTexts :
          raw' = Append(raw, t) /\ causeTypes' = Append(causeTypes, CauseType(t))
    BY <1>1 DEF CollectCause
  <2>2. /\ walking /\ Len(Causes) < MaxCauseDepth
        /\ UNCHANGED <<pass, type, walking, read, scanned, scan, kept, fate>>
    BY <1>1 DEF CollectCause, vars
  <2>3. kept = <<>> /\ scan = "before" /\ fate = "none"
    BY <2>2 DEF TextsInOrder
  <2>4. raw \in Seq(Seq(Words)) /\ Len(raw) \in Nat /\ Len(raw) >= 1 /\ t \in Seq(Words)
    BY <2>1, ErrorRecordAssumption DEF RecordTypeOK
  <2>5. Len(Causes) = Len(raw) - 1
    BY <2>4 DEF Causes
  <2>6. raw' \in Seq(Seq(Words)) /\ Len(raw') = Len(raw) + 1
    BY <2>1, <2>4, AppendProperties
  <2>7. Len(raw') \in 1 .. MaxCauseDepth + 1
    BY <2>2, <2>4, <2>5, <2>6, ErrorRecordAssumption
  <2>8. causeTypes \in Seq(Seq(SomeCharacter)) /\ Len(causeTypes) = Len(raw) - 1
        /\ \A k \in DOMAIN causeTypes : Len(causeTypes[k]) <= MaxCauseType
    BY DEF RecordTypeOK, CausesHaveTypes
  <2>9. CauseType(t) \in Seq(SomeCharacter) /\ Len(CauseType(t)) <= MaxCauseType
    BY <2>4, CauseTypeIsShort
  <2>10. /\ causeTypes' \in Seq(Seq(SomeCharacter)) /\ Len(causeTypes') = Len(causeTypes) + 1
         /\ \A k \in 1 .. Len(causeTypes) : causeTypes'[k] = causeTypes[k]
         /\ causeTypes'[Len(causeTypes) + 1] = CauseType(t)
    BY <2>1, <2>8, <2>9, AppendProperties
  <2>11. CausesHaveTypes'
    <3>1. Len(causeTypes') = Len(raw') - 1
      BY <2>4, <2>6, <2>8, <2>10
    <3>2. /\ DOMAIN causeTypes = 1 .. Len(causeTypes) /\ Len(causeTypes) \in Nat
          /\ DOMAIN causeTypes' = 1 .. Len(causeTypes) + 1
      BY <2>8, <2>10
    <3>3. ASSUME NEW k \in DOMAIN causeTypes'
          PROVE  Len(causeTypes'[k]) <= MaxCauseType
      <4>1. k \in 1 .. Len(causeTypes) \/ k = Len(causeTypes) + 1
        BY <3>2
      <4>2. CASE k \in 1 .. Len(causeTypes)
        BY <2>8, <2>10, <3>2, <4>2
      <4>3. CASE k = Len(causeTypes) + 1
        BY <2>9, <2>10, <4>3
      <4> QED
        BY <4>1, <4>2, <4>3
    <3> QED
      BY <2>2, <3>1, <3>3 DEF CausesHaveTypes
  <2>12. RecordTypeOK'
    BY <2>2, <2>6, <2>7, <2>10 DEF RecordTypeOK
  <2>13. Len(<<>>) = 0 /\ DOMAIN <<>> = {}
    OBVIOUS
  <2> QED
    BY <2>2, <2>3, <2>4, <2>6, <2>11, <2>12, <2>13 DEF ScanIsRight, TextsInOrder, KeptIsClean
<1>2. CASE EndCauses
  <2>1. /\ walking' = FALSE /\ UNCHANGED <<pass, type, raw, causeTypes, read, scanned, scan, kept, fate>>
        /\ walking
    BY <1>2 DEF EndCauses, vars
  <2>2. RecordTypeOK'
    BY <2>1 DEF RecordTypeOK
  <2>3. Text' = Text /\ Number' = Number
    BY <2>1 DEF Text, Number
  <2>4. kept = <<>> /\ scan = "before" /\ fate = "none"
    BY <2>1 DEF TextsInOrder
  <2> QED
    BY <2>1, <2>2, <2>3, <2>4 DEF CausesHaveTypes, ScanIsRight, TextsInOrder, KeptIsClean
<1>3. CASE BeginText
  <2>1. /\ ~walking /\ scan = "before" /\ Number <= Len(raw) /\ scan' = "addresses"
        /\ read' = 0 /\ scanned' = <<>>
        /\ UNCHANGED <<pass, type, raw, causeTypes, walking, kept, fate>>
    BY <1>3 DEF BeginText, vars
  <2>2. <<>> \in Seq(SomeCharacter) /\ DOMAIN <<>> = {} /\ 0 \in Nat
    OBVIOUS
  <2>3. RecordTypeOK'
    BY <2>1, <2>2 DEF RecordTypeOK
  <2>4. Text' = Text /\ Number' = Number /\ Text \in Seq(Words) /\ Len(Text) \in Nat
    BY <2>1, TextInHand DEF Text, Number
  <2>5. fate = "none"
    BY <2>1, TextInHand DEF TextsInOrder, Recorded
  <2>6. ScanIsRight'
    <3>1. FromWords(Text, <<>>, 0)
      BY <2>2 DEF FromWords
    <3>2. \A w \in DOMAIN Text : w > 1 => 0 # w - 1
      BY <2>4
    <3> QED
      BY <2>1, <2>4, <3>1, <3>2 DEF ScanIsRight
  <2>7. TextsInOrder'
    BY <2>1, <2>4, <2>5 DEF TextsInOrder
  <2> QED
    BY <2>1, <2>3, <2>6, <2>7 DEF CausesHaveTypes, KeptIsClean
<1>4. CASE RedactAddress \/ CopyWord
  <2>1. scan = "addresses" /\ UNCHANGED <<pass, type, raw, causeTypes, walking, scan, kept, fate>>
    BY <1>4 DEF RedactAddress, CopyWord, vars
  <2>2. scanned' \in Seq(SomeCharacter) /\ read' \in Nat /\ ScanIsRight'
    BY <1>4, MatchStep, CopyStep
  <2>3. RecordTypeOK'
    BY <2>1, <2>2 DEF RecordTypeOK
  <2>4. Text' = Text /\ Number' = Number
    BY <2>1 DEF Text, Number
  <2>5. TextsInOrder'
    BY <2>1, <2>4 DEF TextsInOrder, Recorded
  <2> QED
    BY <2>1, <2>2, <2>3, <2>5 DEF CausesHaveTypes, KeptIsClean
<1>5. CASE RedactOthers
  <2>1. /\ scan = "addresses" /\ scan' = "cut"
        /\ UNCHANGED <<pass, type, raw, causeTypes, walking, read, kept, fate>>
    BY <1>5 DEF RedactOthers, vars
  <2>2. scanned' \in Seq(SomeCharacter) /\ Clean(Text, scanned')
    BY <1>5, RedactStep
  <2>3. RecordTypeOK'
    BY <2>1, <2>2 DEF RecordTypeOK
  <2>4. Text' = Text /\ Number' = Number
    BY <2>1 DEF Text, Number
  <2>5. TextsInOrder'
    BY <2>1, <2>4 DEF TextsInOrder, Recorded
  <2> QED
    BY <2>1, <2>2, <2>3, <2>4, <2>5 DEF CausesHaveTypes, ScanIsRight, KeptIsClean
<1>6. CASE KeepText
  <2>1. /\ scan = "cut" /\ scan' = "before"
        /\ UNCHANGED <<pass, type, raw, causeTypes, walking, read, scanned, fate>>
    BY <1>6 DEF KeepText, vars
  <2>2. /\ kept' \in Seq(Seq(SomeCharacter)) /\ Len(kept') = Len(kept) + 1
        /\ \A n \in DOMAIN kept' : Clean(raw[n], kept'[n]) /\ Len(kept'[n]) <= MaxMessage
    BY <1>6, KeepStep
  <2>3. RecordTypeOK'
    BY <2>1, <2>2 DEF RecordTypeOK
  <2>4. Number <= Len(raw) /\ ~walking /\ fate = "none" /\ Number = Len(kept) + 1
    BY <2>1, TextInHand DEF TextsInOrder, Recorded
  <2>5. TextsInOrder'
    BY <2>1, <2>2, <2>4 DEF TextsInOrder
  <2> QED
    BY <2>1, <2>2, <2>3, <2>5 DEF CausesHaveTypes, ScanIsRight, KeptIsClean
<1>7. CASE CollapseStack
  <2>1. Next /\ UNCHANGED <<type, raw, causeTypes, walking, read, scanned, scan, kept, fate>>
    BY <1>7 DEF CollapseStack, recordVars
  <2>2. Text' = Text /\ Number' = Number
    BY <2>1 DEF Text, Number
  <2>3. fate = "none"
    BY <2>1, DoneStops DEF TextsInOrder, Recorded
  <2>4. RecordTypeOK'
    BY <2>1 DEF RecordTypeOK
  <2> QED
    BY <2>1, <2>2, <2>3, <2>4 DEF CausesHaveTypes, ScanIsRight, TextsInOrder, KeptIsClean
<1>8. CASE Track
  <2>1. /\ Recorded /\ fate = "none" /\ fate' \in {"tracked", "ignored"}
        /\ UNCHANGED <<pass, type, raw, causeTypes, walking, read, scanned, scan, kept>>
    BY <1>8 DEF Track, vars
  <2>2. Text' = Text /\ Number' = Number /\ Recorded'
    BY <2>1 DEF Text, Number, Recorded
  <2>3. RecordTypeOK'
    BY <2>1 DEF RecordTypeOK
  <2>4. ~walking
    BY <2>1 DEF Recorded
  <2> QED
    BY <2>1, <2>2, <2>3, <2>4 DEF CausesHaveTypes, ScanIsRight, TextsInOrder, KeptIsClean
<1>9. CASE UNCHANGED allVars
  <2>1. UNCHANGED <<pass, type, raw, causeTypes, walking, read, scanned, scan, kept, fate>>
    BY <1>9 DEF allVars, vars, recordVars
  <2>2. Text' = Text /\ Number' = Number /\ (Recorded <=> Recorded')
    BY <2>1 DEF Text, Number, Recorded
  <2>3. RecordTypeOK'
    BY <2>1 DEF RecordTypeOK
  <2> QED
    BY <2>1, <2>2, <2>3 DEF CausesHaveTypes, ScanIsRight, TextsInOrder, KeptIsClean
<1> QED
  BY <1>1, <1>2, <1>3, <1>4, <1>5, <1>6, <1>7, <1>8, <1>9 DEF RecordNext

-----------------------------------------------------------------------------
(* The theorems about a record *)

\* What is recorded of an error is a run of collapse_stack and nothing else happens to
\* its stack: a record implements StackCollapse, step by step.
THEOREM RecordCollapsesStack == RecordSpec => Spec
<1>1. RecordInit => Init
  BY DEF RecordInit
<1>2. [RecordNext]_allVars => [Next]_vars
  BY DEF RecordNext, allVars, CollectCause, EndCauses, BeginText, RedactAddress, CopyWord,
         RedactOthers, KeepText, CollapseStack, Track
<1> QED
  BY <1>1, <1>2, PTL DEF RecordSpec, Spec

\* So in the stack of a recorded error no frame is lost, invented or counted twice, and
\* the number of those left out does not underflow.
THEOREM RecordedStackIsRight == RecordSpec => [](StandsForFrames /\ MoreIsPositive)
BY RecordCollapsesStack, ResultStandsForFrames, MoreNeverUnderflows, PTL

LEMMA RecordInvariant == RecordSpec => []RecordInductive
BY RecordInitInvariant, RecordNextInvariant, PTL DEF RecordSpec

LEMMA ResultReturned == Spec => []Returned
<1>1. Init => Returned
  BY DEF Init, Returned
<1> QED
  BY <1>1, InitStack, NextStack, NextReturned, PTL DEF Spec

\* The variables of a record have their types.
THEOREM RecordTypeCorrect == RecordSpec => []RecordTypeOK
<1>1. RecordInductive => RecordTypeOK
  BY DEF RecordInductive
<1> QED
  BY <1>1, RecordInvariant, PTL

\* The causes stand behind the frames of the stack that is sent, each with its type and
\* its message.
LEMMA SentStack ==
  ASSUME RecordInductive, Returned, fate # "none"
  PROVE  /\ Len(Sent.stack) = Len(result) + (Len(kept) - 1)
         /\ \A k \in 1 .. Len(kept) - 1 : Sent.stack[Len(result) + k] = Line(k)
         /\ Len(kept) = Len(raw) /\ Len(kept) \in Nat /\ Len(kept) >= 1
         /\ Len(result) \in Nat /\ Len(result) <= MaxStack + 1
<1>1. /\ pass = "done" /\ Len(kept) = Len(raw) /\ Len(kept) \in Nat /\ Len(kept) >= 1
      /\ kept \in Seq(Seq(SomeCharacter))
  BY ErrorRecordAssumption DEF RecordInductive, TextsInOrder, RecordTypeOK, Recorded
<1>2. result \in Seq(Written) /\ Len(result) \in Nat /\ Len(result) <= MaxStack + 1
  BY <1>1 DEF Returned
<1> DEFINE m == Len(kept) - 1
           causes == [k \in 1 .. m |-> Line(k)]
           Lines == Written \cup ({"Caused by"} \X Seq(SomeCharacter) \X Seq(SomeCharacter))
<1>3. m \in Nat
  BY <1>1
<1>4. ASSUME NEW k \in 1 .. m
      PROVE  Line(k) \in Lines
  <2>1. kept[k + 1] \in Seq(SomeCharacter)
    BY <1>1
  <2>2. causeTypes \in Seq(Seq(SomeCharacter)) /\ Len(causeTypes) = m
    BY <1>1 DEF RecordInductive, RecordTypeOK, CausesHaveTypes
  <2>3. causeTypes[k] \in Seq(SomeCharacter)
    BY <2>2
  <2> QED
    BY <2>1, <2>3 DEF Line
<1>5. Written \subseteq Lines
  OBVIOUS
<1>6. Sent.stack = result \o causes
  BY DEF Sent
<1>7. /\ causes = [k \in 1 .. m |-> causes[k]]
      /\ \A k \in 1 .. m : causes[k] = Line(k)
  OBVIOUS
<1>8. m = Len(kept) - 1
  OBVIOUS
<1> HIDE DEF causes, Lines, m
<1>9. /\ Len(result \o causes) = Len(result) + m
      /\ \A k \in 1 .. Len(result) + m :
           (result \o causes)[k] = IF k <= Len(result) THEN result[k]
                                                       ELSE causes[k - Len(result)]
  <2>1. \A k \in 1 .. m : causes[k] \in Lines
    BY <1>4, <1>7
  <2>2. causes \in [1 .. m -> Lines]
    BY <1>7, <2>1
  <2>3. causes \in Seq(Lines) /\ Len(causes) = m
    BY <1>3, <2>2, IsASeq
  <2>4. result \in Seq(Lines)
    BY <1>2, <1>5
  <2> QED
    BY <2>3, <2>4, ConcatProperties
<1>10. ASSUME NEW k \in 1 .. m
       PROVE  Sent.stack[Len(result) + k] = Line(k)
  <2>1. /\ Len(result) + k \in 1 .. Len(result) + m /\ ~(Len(result) + k <= Len(result))
        /\ (Len(result) + k) - Len(result) = k
    BY <1>2, <1>3
  <2>2. Sent.stack[Len(result) + k] = causes[k]
    BY <1>6, <1>9, <2>1
  <2> QED
    BY <1>7, <2>2
<1> QED
  BY <1>1, <1>2, <1>6, <1>8, <1>9, <1>10

\* Nothing of a secret, or of an address that stands alone, is left in the message of an
\* error or of any of its causes, for every message and every chain of causes: the texts
\* are redacted whole, and cut afterwards.  (The type of a cause is not redacted.)
THEOREM MessagesAreRedacted == RecordSpec => []NoSecretInMessages
<1>1. RecordInductive /\ Returned => NoSecretInMessages
  <2> SUFFICES ASSUME RecordInductive, Returned, fate = "tracked",
                      NEW n \in DOMAIN raw, NEW w \in DOMAIN raw[n],
                      raw[n][w] = "secret" \/ StandsAlone(raw[n], w)
               PROVE  \A k \in DOMAIN MessageSent(n) : MessageSent(n)[k].word # w
    BY DEF NoSecretInMessages
  <2>1. /\ raw \in Seq(Seq(Words)) /\ kept \in Seq(Seq(SomeCharacter))
        /\ \A m \in DOMAIN kept : Clean(raw[m], kept[m])
    BY DEF RecordInductive, RecordTypeOK, KeptIsClean
  <2>2. n \in 1 .. Len(kept) /\ n \in DOMAIN kept
    BY <2>1, SentStack
  <2>3. MessageSent(n) = kept[n]
    <3>1. Sent.message = kept[1]
      BY DEF Sent
    <3>2. ASSUME n # 1
          PROVE  Sent.stack[Len(result) + n - 1][3] = kept[n]
      <4>1. n - 1 \in 1 .. Len(kept) - 1 /\ (n - 1) + 1 = n
            /\ Len(result) + (n - 1) = Len(result) + n - 1
        BY <2>2, <3>2, SentStack
      <4>2. Sent.stack[Len(result) + n - 1] = Line(n - 1)
        BY <4>1, SentStack
      <4>3. Line(n - 1)[3] = kept[(n - 1) + 1]
        BY DEF Line
      <4>4. kept[(n - 1) + 1] = kept[n]
        BY <4>1
      <4> QED
        BY <4>2, <4>3, <4>4
    <3> QED
      BY <3>1, <3>2 DEF MessageSent
  <2>4. w # 0
    BY <2>1
  <2>5. \A k \in DOMAIN kept[n] : kept[n][k].word # w
    BY <2>1, <2>2, <2>4 DEF Clean
  <2> QED
    BY <2>3, <2>5
<1> QED
  BY <1>1, RecordInvariant, RecordCollapsesStack, ResultReturned, PTL

\* However long a message, a stack or a chain of causes is, what is sent of an error has
\* a message of bounded length and a bounded number of lines, and the line of a cause a
\* type and a message of bounded length.
THEOREM RecordIsBounded == RecordSpec => []SizeIsBounded
<1>1. RecordInductive /\ Returned => SizeIsBounded
  <2> SUFFICES ASSUME RecordInductive, Returned, fate # "none"
               PROVE  /\ Len(Sent.message) <= MaxMessage
                      /\ Len(Sent.stack) <= MaxStack + 1 + MaxCauseDepth
                      /\ \A k \in 1 .. Len(Causes) :
                           /\ Len(Sent.stack[Len(result) + k][2]) <= MaxCauseType
                           /\ Len(Sent.stack[Len(result) + k][3]) <= MaxMessage
    BY DEF SizeIsBounded
  <2>1. /\ Len(Sent.stack) = Len(result) + (Len(kept) - 1)
        /\ \A k \in 1 .. Len(kept) - 1 : Sent.stack[Len(result) + k] = Line(k)
        /\ Len(kept) = Len(raw) /\ Len(kept) \in Nat /\ Len(kept) >= 1
        /\ Len(result) \in Nat /\ Len(result) <= MaxStack + 1
    BY SentStack
  <2>2. /\ MaxStack \in Nat /\ MaxCauseDepth \in Nat /\ Len(raw) <= MaxCauseDepth + 1
        /\ raw \in Seq(Seq(Words)) /\ causeTypes \in Seq(Seq(SomeCharacter))
    BY ErrorRecordAssumption, StackCollapseAssumption DEF RecordInductive, RecordTypeOK
  <2>3. \A n \in 1 .. Len(kept) : Len(kept[n]) <= MaxMessage
    BY DEF RecordInductive, RecordTypeOK, KeptIsClean
  <2>4. Sent.message = kept[1]
    BY DEF Sent
  <2>5. Len(Causes) = Len(kept) - 1
    BY <2>1, <2>2 DEF Causes
  <2>6. Len(causeTypes) = Len(kept) - 1 /\ \A k \in DOMAIN causeTypes : Len(causeTypes[k]) <= MaxCauseType
    BY <2>1 DEF RecordInductive, CausesHaveTypes
  <2>7. ASSUME NEW k \in 1 .. Len(Causes)
        PROVE  /\ Len(Sent.stack[Len(result) + k][2]) <= MaxCauseType
               /\ Len(Sent.stack[Len(result) + k][3]) <= MaxMessage
    <3>1. k \in 1 .. Len(kept) - 1 /\ k + 1 \in 1 .. Len(kept) /\ k \in DOMAIN causeTypes
      BY <2>1, <2>2, <2>5, <2>6
    <3>2. Sent.stack[Len(result) + k] = Line(k)
      BY <2>1, <3>1
    <3>3. Line(k)[2] = causeTypes[k] /\ Line(k)[3] = kept[k + 1]
      BY DEF Line
    <3> QED
      BY <2>3, <2>6, <3>1, <3>2, <3>3
  <2> QED
    BY <2>1, <2>2, <2>3, <2>4, <2>7
<1> QED
  BY <1>1, RecordInvariant, RecordCollapsesStack, ResultReturned, PTL
============================================================================
