--------------------------- MODULE StackCollapse ---------------------------
(***************************************************************************)
(* collapse_stack of src/src/error_tracking/helper.rs: how the stack of an *)
(* error is made shorter before it becomes part of the error's identity.   *)
(*                                                                         *)
(* Two passes read a list and write another: one counts frames that follow *)
(* each other, one counts cycles; then frames and stack are cut to size.   *)
(* A step is an iteration of a pass.  A frame is a sequence of its text    *)
(* and what was appended to it: <<a>> is "a", <<a, 3>> is "a (x3)", which  *)
(* a program may also have as a frame of its own.                          *)
(***************************************************************************)
EXTENDS Integers, Sequences

CONSTANTS
  Texts,      \* the texts of frames
  LongTexts,  \* those that are longer than MAX_FRAME_SIZE
  TightTexts, \* those that are with a count appended
  Counted,    \* whether frames that look like counted ones occur
  MaxInput,   \* bound: frames of a stack
  MaxStack    \* MAX_STACK_SIZE

ASSUME StackCollapseAssumption ==
  /\ LongTexts \cup TightTexts \subseteq Texts /\ Counted \in BOOLEAN
  /\ {"repeated", "more"} \cap Texts = {}
  /\ MaxInput \in Nat /\ MaxStack \in Nat

VARIABLES
  frames,     \* the argument
  pass,       \* "twins", "cycles" or "done"
  list,       \* what the pass reads
  i,          \* how much of it has been read
  result,     \* what it has written
  meant       \* history: the frames that the result stands for

vars == <<frames, pass, list, i, result, meant>>

Frames == {<<t>> : t \in Texts} \cup (IF Counted THEN {<<t, 2>> : t \in Texts} ELSE {})

\* A list of n frames for each n up to the bound.
Stacks == UNION {[1 .. n -> Frames] : n \in 0 .. MaxInput}

Init ==
  /\ frames \in Stacks
  /\ pass = "twins" /\ list = frames /\ i = 0
  /\ result = <<>> /\ meant = <<>>

AtEnd == i = Len(list)

\* The next n frames of the list are read; what is written stands for some frames.
Read(n, written, standsFor) ==
  /\ i' = i + n
  /\ result' = result \o written
  /\ meant' = meant \o standsFor
  /\ UNCHANGED <<frames, pass, list>>

-----------------------------------------------------------------------------
(* collapse_consecutive_duplicates *)

\* The next n frames are the same.
Same(n) == i + n <= Len(list) /\ \A k \in 1 .. n : list[i + k] = list[i + 1]

Count(f, n) == IF n > 1 THEN Append(f, n) ELSE f

\* A faulty variant: frames are paired off.
TakePair ==
  /\ pass = "twins"
  /\ \E n \in 1 .. 2 :
       /\ Same(n) /\ (n = 2 \/ ~Same(2))
       /\ Read(n, <<Count(list[i + 1], n)>>, [k \in 1 .. n |-> list[i + 1]])

\* A run of one frame, as long as it goes, becomes one entry.
TakeRun ==
  /\ pass = "twins"
  /\ \E n \in 1 .. Len(list) :
       /\ Same(n) /\ ~Same(n + 1)
       /\ Read(n, <<Count(list[i + 1], n)>>, [k \in 1 .. n |-> list[i + 1]])

\* The second pass reads what the first has written.
TurnToCycles ==
  /\ pass = "twins" /\ AtEnd
  /\ pass' = "cycles" /\ list' = result /\ i' = 0
  /\ result' = <<>> /\ meant' = <<>>
  /\ UNCHANGED frames

-----------------------------------------------------------------------------
(* collapse_repeating_pattern *)

\* The next l frames come n times in a row.
Cycle(l, n) ==
  /\ i + n * l <= Len(list)
  /\ \A m \in 1 .. n - 1, k \in 1 .. l : list[i + m * l + k] = list[i + k]

\* The cycle that is taken is the shortest that comes twice, as often as it comes.
Taken(l, n) ==
  /\ Cycle(l, n) /\ ~Cycle(l, n + 1)
  /\ \A k \in 1 .. l - 1 : ~Cycle(k, 2)

\* It is written once, and then how often it came.
Once(l, n) == SubSeq(list, i + 1, i + l) \o << <<"repeated", n>> >>
Times(l, n) == [k \in 1 .. n * l |-> list[i + 1 + ((k - 1) % l)]]

\* A faulty variant: the first time is not skipped with the others.
TakeCycleLess ==
  /\ pass = "cycles"
  /\ \E l \in 1 .. (Len(list) - i) \div 2, n \in 2 .. Len(list) :
       Taken(l, n) /\ Read((n - 1) * l, Once(l, n), Times(l, n))

\* A faulty variant: a list of frames that comes once is a cycle too.
TakeCycleEager ==
  /\ pass = "cycles"
  /\ \E l \in 1 .. Len(list) - i, n \in 1 .. Len(list) :
       /\ Cycle(l, n) /\ ~Cycle(l, n + 1)
       /\ Read(n * l, Once(l, n), Times(l, n))

TakeCycle ==
  /\ pass = "cycles"
  /\ \E l \in 1 .. (Len(list) - i) \div 2, n \in 2 .. Len(list) :
       Taken(l, n) /\ Read(n * l, Once(l, n), Times(l, n))

TakeFrame ==
  /\ pass = "cycles" /\ ~AtEnd
  /\ \A l \in 1 .. (Len(list) - i) \div 2 : ~Cycle(l, 2)
  /\ Read(1, <<list[i + 1]>>, <<list[i + 1]>>)

-----------------------------------------------------------------------------
(* collapse_stack *)

\* A frame that is too long loses its end, and with it what was appended.
TooLong(f) == f[1] \in LongTexts \/ (Len(f) > 1 /\ f[1] \in TightTexts)
Cut(f) == IF TooLong(f) THEN <<f[1], "...">> ELSE f

\* Frames and stack are cut to size; the first frames are kept.  The number of the
\* others is taken from the argument, not from what the passes left of it.
CutToSize ==
  /\ pass = "cycles" /\ AtEnd
  /\ pass' = "done"
  /\ result' = LET cut == [k \in 1 .. Len(result) |-> Cut(result[k])]
               IN  IF Len(result) <= MaxStack THEN cut
                   ELSE SubSeq(cut, 1, MaxStack) \o << <<"more", Len(frames) - MaxStack>> >>
  /\ UNCHANGED <<frames, list, i, meant>>

Next == TakeRun \/ TurnToCycles \/ TakeCycle \/ TakeFrame \/ CutToSize

Spec == Init /\ [][Next]_vars

-----------------------------------------------------------------------------
(* Properties *)

\* What has been written always stands for exactly what has been read: no frame is
\* lost, invented or counted twice by the overlapping windows of the two passes.
StandsForFrames == pass # "done" => meant = SubSeq(list, 1, i)

\* The subtraction in "... (n more)" is of unsigned numbers: a stack that is still
\* too long after the two passes was so before.
MoreIsPositive == pass = "done" /\ Len(result) > MaxStack => Len(frames) > MaxStack

\* A pass never writes more than it has read, however short a cycle is.
NeverLonger ==
  pass # "done" =>
    /\ i \in 0 .. Len(list)
    /\ Len(result) <= i
    /\ Len(list) <= Len(frames)

\* Unless a program has frames that look like counted ones, frames that follow
\* each other are counted by the first pass, all of them, so that no cycle of the
\* second is a single frame.
Plain == \A k \in 1 .. Len(frames) : Len(frames[k]) = 1

NoTwins ==
  Plain /\ pass = "twins" =>
    /\ list = frames
    /\ \A k \in 1 .. Len(result) - 1 : result[k][1] # result[k + 1][1]
    /\ i > 0 => result # <<>> /\ result[Len(result)][1] = list[i][1]
    /\ i > 0 /\ i < Len(list) => list[i] # list[i + 1]

NoCycleOfOne ==
  Plain /\ pass = "cycles" => \A k \in 1 .. Len(list) - 1 : list[k][1] # list[k + 1][1]

TypeOK ==
  /\ frames \in Stacks
  /\ pass \in {"twins", "cycles", "done"}
  /\ i \in Nat

Inductive == TypeOK /\ NeverLonger /\ NoTwins /\ NoCycleOfOne /\ MoreIsPositive
============================================================================
