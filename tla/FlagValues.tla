----------------------------- MODULE FlagValues -----------------------------
(***************************************************************************)
(* The value of a feature flag and its JSON: src/src/feature_flags/value.rs *)
(* and fetch_uncached of service.rs there, which reads an answer.          *)
(*                                                                         *)
(* A value is told by its kind and by what it is; of a string that is      *)
(* whether it reads as a boolean or as a number.                           *)
(***************************************************************************)

StringTexts == {"word", "true", "false", "number", "nan"}

FlagValue == [kind : {"string"}, is : StringTexts]
               \cup [kind : {"number"}, is : {"number", "nan"}]
               \cup [kind : {"boolean"}, is : {"true", "false"}]

NotFinite == [kind |-> "number", is |-> "nan"]

\* JSON has no number that is not finite, but it has null and compounds.
Json == (FlagValue \ {NotFinite}) \cup [kind : {"null", "compound"}, is : {"other"}]

ToJson(v) == IF v = NotFinite THEN [kind |-> "null", is |-> "other"] ELSE v

\* A faulty variant: what JSON has of another kind is taken as it is.
ParseAny(own, j) == {v \in FlagValue : v = j \/ (v.kind = own.kind /\ v.is = j.is)}

\* The value of the kind of `own` that j stands for, if there is one.  A text may stand
\* for a boolean or for a number, f64's "NaN" and "inf" among them.
ParseMatching(own, j) ==
  {v \in FlagValue :
     /\ v.kind = own.kind
     /\ v = j \/ (v.kind # "string" /\ j.kind = "string" /\ v.is = j.is)}

\* The server's answers to a check: a status, and a body with a value or one that has
\* none, is no JSON, or is not there.
NoValue == {"absent", "no json", "no value"}
Answers == [success : BOOLEAN, body : NoValue] \cup [success : BOOLEAN, value : Json]

\* The fetched value, if the answer gives one; without one the fetch is an error.
Fetched(own, answer) ==
  IF answer.success /\ "value" \in DOMAIN answer THEN ParseMatching(own, answer.value) ELSE {}

=============================================================================
