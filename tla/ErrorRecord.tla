---------------------------- MODULE ErrorRecord ----------------------------
(***************************************************************************)
(* What the tracker does to an error before it enters the table: record    *)
(* and collect_causes of src/src/error_tracking/service.rs, anonymize and  *)
(* truncate_message of helper.rs, and the ignore rules and to_json of      *)
(* tracker.rs.                                                             *)
(*                                                                         *)
(* The message and then every cause's are anonymized and cut to size; the  *)
(* stack in between is collapsed by StackCollapse, whose frames are texts  *)
(* that have been anonymized in the same way.  A text is a sequence of     *)
(* words: an IPv6 address, a secret that one of the other patterns matches *)
(* wherever it stands, a gap, or glue, a character that may be part of an  *)
(* address (":" or a hex digit).  Addresses and secrets are two characters *)
(* long, so that they can be cut in two.  The type of a cause is the       *)
(* beginning of its text, neither anonymized nor cut any further.          *)
(***************************************************************************)
EXTENDS StackCollapse

CONSTANTS
  MaxWords,       \* bound: words of a message
  CauseTexts,     \* the texts of causes
  MaxCauseDepth,  \* MAX_CAUSE_DEPTH
  MaxCauseType,   \* the words that the first 40 characters of a cause's text reach
  MaxMessage,     \* MAX_MESSAGE_LENGTH
  Types,          \* the types of errors
  Rules           \* the ignore rules: a type, a pattern, or both

Words == {"address", "secret", "gap", "glue"}
Messages == UNION {[1 .. n -> Words] : n \in 0 .. MaxWords}

\* What a developer may have ignored.
RuleForms == [type : Types] \cup [pattern : STRING] \cup [type : Types, pattern : STRING]

ASSUME ErrorRecordAssumption ==
  /\ MaxWords \in Nat /\ MaxCauseDepth \in Nat /\ MaxCauseType \in Nat \ {0}
  /\ MaxMessage \in Nat /\ MaxMessage >= 3
  /\ CauseTexts \subseteq Seq(Words)
  /\ Types # {} /\ Rules \subseteq RuleForms

VARIABLES
  type,     \* the type of the error
  raw,      \* the texts of the error: its message, and those of its causes
  causeTypes, \* the types of those causes
  walking,  \* whether source() is still being followed
  read,     \* how many words of the next text have been scanned for addresses
  scanned,  \* the characters that the scan has made of them
  scan,     \* "before", "addresses" or "cut": how far the text has come
  kept,     \* the texts as they are recorded
  fate      \* "none", "tracked" or "ignored": what has become of the error

recordVars == <<type, raw, causeTypes, walking, read, scanned, scan, kept, fate>>
allVars == <<vars, recordVars>>

SomeType == CHOOSE t \in Types : TRUE

\* Of message and stack one is trivial: neither is read for the other.  An error
\* without a message, or without causes, has fewer texts to go through.
RecordInit ==
  /\ \/ /\ Init
        /\ raw = << <<"gap">> >> /\ type = SomeType /\ walking = FALSE
     \/ /\ frames = <<>> /\ Init
        /\ raw \in {<<m>> : m \in Messages} /\ type \in Types /\ walking \in BOOLEAN
  /\ causeTypes = <<>>
  /\ read = 0 /\ scanned = <<>> /\ scan = "before" /\ kept = <<>>
  /\ fate = "none"

-----------------------------------------------------------------------------
(* collect_causes *)

\* A character is one of a word of its text, or of a mark the program writes.
Character(word, w, half) == [kind |-> word, word |-> w, half |-> half]
Mark(mark) == Character(mark, 0, 1)

\* error_type_name: the beginning of the text as it is.  A word stands with its first
\* character for what the prefix has of it.
CauseType(text) ==
  LET n == IF Len(text) < MaxCauseType THEN Len(text) ELSE MaxCauseType
  IN  IF text = <<>> THEN <<Mark("UnknownCause")>>
      ELSE [w \in 1 .. n |-> Character(text[w], w, 1)]

Causes == Tail(raw)

\* The next cause is listed, with its type, unless the chain is too deep or the text
\* is known.
CollectCause ==
  /\ walking /\ Len(Causes) < MaxCauseDepth
  /\ \E t \in CauseTexts :
       /\ \A k \in DOMAIN Causes : Causes[k] # t
       /\ raw' = Append(raw, t) /\ causeTypes' = Append(causeTypes, CauseType(t))
  /\ UNCHANGED <<vars, type, walking, read, scanned, scan, kept, fate>>

\* There is no further cause, it repeats the text of one, or there are too many.
EndCauses ==
  /\ walking /\ walking' = FALSE
  /\ UNCHANGED <<vars, type, raw, causeTypes, fate, read, scanned, scan, kept>>

-----------------------------------------------------------------------------
(* anonymize, truncate_message: the message, and after the stack the causes' *)

Number == Len(kept) + 1
Text == raw[Number]

Characters(w) ==
  [half \in 1 .. (IF Text[w] \in {"address", "secret"} THEN 2 ELSE 1) |->
     Character(Text[w], w, half)]

Dots == <<Mark("."), Mark("."), Mark(".")>>

\* A faulty variant: there is no room for the dots.
CutTextLong(text) ==
  IF Len(text) <= MaxMessage THEN text ELSE SubSeq(text, 1, MaxMessage) \o Dots

CutText(text) ==
  IF Len(text) <= MaxMessage THEN text ELSE SubSeq(text, 1, MaxMessage - 3) \o Dots

BeginText ==
  /\ ~walking /\ scan = "before" /\ Number <= Len(raw)
  /\ Number = 1 \/ pass = "done"
  /\ scan' = "addresses" /\ read' = 0 /\ scanned' = <<>>
  /\ UNCHANGED <<vars, type, raw, causeTypes, fate, walking, kept>>

\* The pattern anchors an address with a character on either side, or with the ends
\* of the text, and consumes what it anchors with.
IsAt(word, w) == w <= Len(Text) /\ Text[w] = word

Address == IF IsAt("gap", read + 1) THEN read + 2 ELSE read + 1
End == IF IsAt("gap", Address + 1) THEN Address + 1 ELSE Address

Matches ==
  /\ IsAt("gap", read + 1) \/ read = 0
  /\ IsAt("address", Address)
  /\ End = Address => Address = Len(Text)

\* redact_ipv6: a match is replaced, what anchored it stays.
RedactAddress ==
  /\ scan = "addresses" /\ Matches
  /\ scanned' = scanned \o
       [k \in 1 .. End - read |-> IF read + k = Address THEN Mark("[ipv6]")
                                                        ELSE Character("gap", read + k, 1)]
  /\ read' = End
  /\ UNCHANGED <<vars, type, raw, causeTypes, fate, walking, scan, kept>>

CopyWord ==
  /\ scan = "addresses" /\ read < Len(Text) /\ ~Matches
  /\ scanned' = scanned \o Characters(read + 1) /\ read' = read + 1
  /\ UNCHANGED <<vars, type, raw, causeTypes, fate, walking, scan, kept>>

\* A secret is found where it stands whole, one half next to the other.
InSecret(text, k) ==
  /\ text[k].kind = "secret"
  /\ \E j \in {k - 1, k + 1} \cap DOMAIN text :
       text[j] = [text[k] EXCEPT !.half = 3 - @]

\* The other default patterns, the password attribute, the extra patterns and the
\* user's name: a mark stands where a match stood.
Redacted(text) ==
  [k \in DOMAIN text |-> IF InSecret(text, k) THEN Mark("[secret]") ELSE text[k]]

\* A faulty variant: a text is cut before it is redacted, for less to search.
RedactOthersCut ==
  /\ scan = "addresses" /\ read = Len(Text) /\ scan' = "cut"
  /\ scanned' = Redacted(CutText(scanned))
  /\ UNCHANGED <<vars, type, raw, causeTypes, fate, walking, read, kept>>

RedactOthers ==
  /\ scan = "addresses" /\ read = Len(Text) /\ scan' = "cut"
  /\ scanned' = Redacted(scanned)
  /\ UNCHANGED <<vars, type, raw, causeTypes, fate, walking, read, kept>>

KeepText ==
  /\ scan = "cut" /\ scan' = "before"
  /\ kept' = Append(kept, CutText(scanned))
  /\ UNCHANGED <<vars, type, raw, causeTypes, fate, walking, read, scanned>>

-----------------------------------------------------------------------------
(* record, to_json *)

CollapseStack == Len(kept) = 1 /\ scan = "before" /\ Next /\ UNCHANGED recordVars

Recorded == pass = "done" /\ Len(kept) = Len(raw) /\ scan = "before" /\ ~walking

\* A rule sees the message as it would be sent: redacted and cut.
Matching(rule, text) ==
  /\ "type" \in DOMAIN rule => rule.type = type
  /\ "pattern" \in DOMAIN rule => \E k \in DOMAIN text : text[k].kind = rule.pattern

Track ==
  /\ Recorded /\ fate = "none"
  /\ fate' = IF \E rule \in Rules : Matching(rule, kept[1]) THEN "ignored" ELSE "tracked"
  /\ UNCHANGED <<vars, type, raw, causeTypes, walking, read, scanned, scan, kept>>

\* The error as it is sent: each cause is a line after the stack, of its type and its
\* message.
Line(k) == <<"Caused by", causeTypes[k], kept[k + 1]>>
Sent == [message |-> kept[1], stack |-> result \o [k \in 1 .. Len(kept) - 1 |-> Line(k)]]

RecordNext ==
  \/ CollectCause \/ EndCauses
  \/ BeginText \/ RedactAddress \/ CopyWord \/ RedactOthers \/ KeepText
  \/ CollapseStack \/ Track

RecordSpec == RecordInit /\ [][RecordNext]_allVars

-----------------------------------------------------------------------------
(* Properties *)

\* What the patterns are for: an address with a gap or an end of the text on either
\* side.  (The second of two addresses with one gap between them is not redacted: the
\* first match has consumed the gap.)
StandsAlone(text, w) ==
  /\ text[w] = "address"
  /\ w = 1 \/ text[w - 1] = "gap"
  /\ w = Len(text) \/ text[w + 1] = "gap"
  /\ w > 2 => text[w - 2] # "address"

\* The text of the n-th message that is sent: the error's own, or that of a cause.
MessageSent(n) == IF n = 1 THEN Sent.message ELSE Sent.stack[Len(result) + n - 1][3]

\* Nothing of a secret, or of an address that stands alone, is left in the message or in
\* that of a cause, not even a piece that the cutting left over.  It is left in the type
\* of a cause that begins with it.
NoSecretInMessages ==
  fate = "tracked" =>
    \A n \in DOMAIN raw : \A w \in DOMAIN raw[n] :
      raw[n][w] = "secret" \/ StandsAlone(raw[n], w) =>
        \A k \in DOMAIN MessageSent(n) : MessageSent(n)[k].word # w

\* However long the texts, the stack and the chain of causes are, what is sent has a
\* message of bounded length and a bounded number of lines, and a cause's line is its
\* header with a type and a message of bounded length.
SizeIsBounded ==
  fate # "none" =>
    /\ Len(Sent.message) <= MaxMessage
    /\ Len(Sent.stack) <= MaxStack + 1 + MaxCauseDepth
    /\ \A k \in 1 .. Len(Causes) :
         /\ Len(Sent.stack[Len(result) + k][2]) <= MaxCauseType
         /\ Len(Sent.stack[Len(result) + k][3]) <= MaxMessage

SomeCharacter ==
  [kind : Words \cup {"[ipv6]", "[secret]", ".", "UnknownCause"}, word : Nat, half : 1 .. 2]

RecordTypeOK ==
  /\ type \in Types
  /\ raw \in Seq(Seq(Words)) /\ Len(raw) \in 1 .. MaxCauseDepth + 1
  /\ causeTypes \in Seq(Seq(SomeCharacter)) /\ walking \in BOOLEAN /\ read \in Nat
  /\ scanned \in Seq(SomeCharacter) /\ kept \in Seq(Seq(SomeCharacter))
  /\ scan \in {"before", "addresses", "cut"}
  /\ fate \in {"none", "tracked", "ignored"}

\* Nothing in the text is left of a word of the source that must not be sent.
Clean(source, text) ==
  \A k \in DOMAIN text :
    text[k].word # 0 => /\ text[k].word \in DOMAIN source
                        /\ source[text[k].word] # "secret"
                        /\ ~StandsAlone(source, text[k].word)

\* The text is of the first n words of the source, with the secrets whole, and
\* without the addresses that stand alone.
FromWords(source, text, n) ==
  \A k \in DOMAIN text :
    /\ text[k].word # 0 => /\ text[k].word \in 1 .. n
                           /\ text[k].kind = source[text[k].word]
                           /\ ~StandsAlone(source, text[k].word)
    /\ text[k].kind = "secret" => InSecret(text, k)

\* The scan never stops right in front of an address that stands alone: the gap
\* before it is still to be read.
ScanIsRight ==
  scan = "addresses" =>
    /\ read <= Len(Text) /\ FromWords(Text, scanned, read)
    /\ \A w \in DOMAIN Text : StandsAlone(Text, w) /\ w > 1 => read # w - 1

\* Every cause that is listed has its type.
CausesHaveTypes ==
  /\ Len(causeTypes) = Len(raw) - 1
  /\ \A k \in DOMAIN causeTypes : Len(causeTypes[k]) <= MaxCauseType

TextsInOrder ==
  /\ Len(kept) <= Len(raw)
  /\ walking => kept = <<>> /\ scan = "before" /\ fate = "none"
  /\ scan # "before" => Number <= Len(raw)
  /\ fate # "none" => Recorded

KeptIsClean ==
  /\ scan = "cut" => Clean(Text, scanned)
  /\ \A n \in DOMAIN kept : Clean(raw[n], kept[n]) /\ Len(kept[n]) <= MaxMessage

RecordInductive ==
  RecordTypeOK /\ CausesHaveTypes /\ ScanIsRight /\ TextsInOrder /\ KeptIsClean
=============================================================================
