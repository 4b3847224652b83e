-------------------------- MODULE MCErrorRecord ----------------------------
(* Bounds for model-checking ErrorRecord.                                   *)
EXTENDS ErrorRecord

\* A cause without a text, causes that quote an address, or a secret behind the prefix or
\* within it, and one that must be cut.
Quotes == {<<>>, <<"address">>, <<"gap", "secret">>,
           <<"glue", "gap", "address", "gap", "secret">>}

\* One type is ignored, and of another the errors whose message has been cut; all
\* others are tracked.
SomeRules == {[type |-> "Panic"], [type |-> "Cancelled", pattern |-> "."]}
=============================================================================
