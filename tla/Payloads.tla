------------------------------ MODULE Payloads ------------------------------
(***************************************************************************)
(* What goes into a request body: the attributes and metrics a developer   *)
(* gives, from src/src/domain/attributes.rs, src/src/metrics/metric.rs and *)
(* append_custom_data of src/src/metrics/service.rs, how they are merged   *)
(* into requests, and what a flag takes from an answer.                    *)
(*                                                                         *)
(* A value that is put is serialized twice, once for NonFiniteFloatCheck   *)
(* and once for serde_json; a step is one leaf of it.  A value that is     *)
(* shared with other threads may change in between.  Of a leaf we keep how *)
(* the two serializers take it:                                            *)
(*   "plain"   a value that JSON has                                       *)
(*   "null"    None or (), which JSON calls null                           *)
(*   "nan"     a float that is not finite: refused, or written as null     *)
(*   "wide"    an i128 or u128: refused by the check, which has no case    *)
(*             for it, though JSON has most of them                        *)
(*   "odd"     a map key that is no string: only the check lets it pass    *)
(***************************************************************************)
EXTENDS Naturals, Sequences, FlagValues

CONSTANTS
  Platform,   \* the ids of the metrics of the platform
  Terminal,   \* and of the terminal, which are
  Size,       \* its columns and rows, and its emulator
  Custom,     \* the ids of the registered metrics, in order
  Keys,       \* the keys of attributes
  MaxLeaves,  \* bound: leaves of a value
  MaxValues   \* bound: values put, removed, computed or fetched

\* Factory::add_metric takes a metric whose id none of the first n has.
Addable(n, id) == \A m \in 1 .. n : Custom[m] # id

ASSUME PayloadsAssumption ==
  /\ Custom \in Seq(STRING) /\ Keys \cup Platform \cup Terminal \subseteq STRING
  /\ \A n \in 1 .. Len(Custom) : Addable(n - 1, Custom[n])
  /\ Size \subseteq Terminal
  /\ MaxLeaves \in Nat /\ MaxValues \in Nat

VARIABLES
  bags,     \* bags[b]: the attributes of a service, a flag and the error tracker,
            \* and the metrics that are being collected
  pass,     \* "none", "check" or "build": what is done with the value
  into,     \* the bag and key it is for
  value,    \* the value: is it a compound, its leaves, is it shared
  at,       \* leaves that the pass has visited
  seen,     \* history: the leaves as the check has seen them
  json,     \* what the second pass has built of them
  next,     \* the next metric of append_custom_data, or 0
  without,  \* history: the registered metrics that had their turn and no value
  values,   \* values put, removed, computed or fetched so far
  default,  \* the default of a flag, and
  cached    \* the value that was last fetched for it

walkVars == <<pass, into, value, at, seen, json>>
flagVars == <<default, cached>>
vars == <<bags, walkVars, next, without, values, flagVars>>

\* The keys there are, and what is stored under them.
AllKeys == Keys \cup Platform \cup Terminal \cup {Custom[m] : m \in 1 .. Len(Custom)}
Entries == [compound : BOOLEAN, leaves : Seq({"plain", "null"}), shared : BOOLEAN,
            silent : SUBSET Nat]

AttributeBags == {"service", "flag", "tracker"}
Bags == AttributeBags \cup {"metrics"}
Leaves == {"plain", "null", "nan", "wide", "odd"}

Values == [compound : {TRUE}, leaves : UNION {[1 .. n -> Leaves] : n \in 0 .. MaxLeaves},
           shared : BOOLEAN]
            \cup [compound : {FALSE}, leaves : [1 .. 1 -> Leaves \ {"odd"}], shared : BOOLEAN]

NoBag == [k \in {} |-> <<>>]
Plain == [compound |-> FALSE, leaves |-> <<"plain">>, shared |-> FALSE, silent |-> {}]

Idle == [compound |-> FALSE, leaves |-> <<>>, shared |-> FALSE]

\* One default of each kind: of a default, only its kind is looked at.
Defaults == {[kind |-> "string", is |-> "word"], [kind |-> "number", is |-> "number"],
             [kind |-> "boolean", is |-> "true"]}

Init ==
  /\ bags = [b \in Bags |-> NoBag]
  /\ pass = "none" /\ into = <<>> /\ value = Idle
  /\ at = 0 /\ seen = <<>> /\ json = <<>>
  /\ next = 0 /\ without = {} /\ values = 0
  /\ default \in Defaults /\ cached = default

-----------------------------------------------------------------------------
(* The two passes over a value *)

Begin(bag, key, v) ==
  /\ pass' = "check" /\ into' = [bag |-> bag, key |-> key] /\ value' = v
  /\ at' = 0 /\ seen' = <<>> /\ json' = <<>>

\* The value is dropped, stored or not.
Done ==
  /\ pass' = "none" /\ into' = <<>> /\ value' = Idle
  /\ at' = 0 /\ seen' = <<>> /\ json' = <<>>

Leaf == value.leaves[at + 1]
More == at < Len(value.leaves)

\* A faulty variant: a metric that fails ends the collection.
ProceedOrAbort ==
  next' = IF into.bag # "metrics" THEN next
          ELSE IF pass = "build" /\ ~More THEN next + 1 ELSE Len(Custom) + 1

\* append_custom_data goes on to the next metric whatever became of the last.
Proceed == next' = IF into.bag = "metrics" THEN next + 1 ELSE next

NoteMissing ==
  without' = IF into.bag = "metrics" THEN without \cup {into.key} ELSE without

\* A faulty variant: floats are not looked at.
RefusesWide(leaf) == leaf = "wide"

\* What NonFiniteFloatCheck gives an error for.
Refuses(leaf) == leaf \in {"nan", "wide"}

CheckLeaf ==
  /\ pass = "check" /\ More /\ ~Refuses(Leaf)
  /\ at' = at + 1 /\ seen' = Append(seen, Leaf)
  /\ UNCHANGED <<bags, pass, into, value, json, next, without, values, flagVars>>

CheckRefuses ==
  /\ pass = "check" /\ More /\ Refuses(Leaf)
  /\ NoteMissing /\ Done /\ Proceed
  /\ UNCHANGED <<bags, values, flagVars>>

Checked ==
  /\ pass = "check" /\ ~More
  /\ pass' = "build" /\ at' = 0
  /\ UNCHANGED <<bags, into, value, seen, json, next, without, values, flagVars>>

\* serde_json writes null for a float it has no number for.
JsonOf(leaf) == IF leaf \in {"null", "nan"} THEN "null" ELSE "plain"

BuildLeaf ==
  /\ pass = "build" /\ More /\ Leaf # "odd"
  /\ at' = at + 1 /\ json' = Append(json, JsonOf(Leaf))
  /\ UNCHANGED <<bags, pass, into, value, seen, next, without, values, flagVars>>

BuildRefuses ==
  /\ pass = "build" /\ More /\ Leaf = "odd"
  /\ NoteMissing /\ Done /\ Proceed
  /\ UNCHANGED <<bags, values, flagVars>>

With(bag, k, e) == [j \in DOMAIN bag \cup {k} |-> IF j = k THEN e ELSE bag[j]]
Without(bag, k) == [j \in DOMAIN bag \ {k} |-> bag[j]]

\* What is stored; `silent` and `shared` are history: the nulls of it that were none
\* when they were checked, and whether the value was another thread's as well.
Entry == [compound |-> value.compound, leaves |-> json, shared |-> value.shared,
          silent |-> {k \in DOMAIN json : json[k] = "null" /\ seen[k] # "null"}]
IsNull(e) == ~e.compound /\ e.leaves = <<"null">>

\* A null is not stored: an attribute is removed, a metric has nothing to report.
Store ==
  /\ pass = "build" /\ ~More
  /\ bags' = [bags EXCEPT ![into.bag] = IF IsNull(Entry) THEN Without(@, into.key)
                                        ELSE With(@, into.key, Entry)]
  /\ IF IsNull(Entry) THEN NoteMissing ELSE UNCHANGED without
  /\ Done /\ Proceed
  /\ UNCHANGED <<values, flagVars>>

\* Another thread changes a float of a shared value.
Change(k) ==
  /\ pass # "none" /\ value.shared /\ k \in 1 .. Len(value.leaves)
  /\ value.leaves[k] \in {"plain", "nan"}
  /\ value' = [value EXCEPT !.leaves[k] = IF @ = "plain" THEN "nan" ELSE "plain"]
  /\ UNCHANGED <<bags, pass, into, at, seen, json, next, without, values, flagVars>>

-----------------------------------------------------------------------------
(* Attributes *)

Put(bag, key, v) ==
  /\ pass = "none" /\ next = 0 /\ values < MaxValues
  /\ values' = values + 1
  /\ Begin(bag, key, v)
  /\ UNCHANGED <<bags, next, without, flagVars>>

Remove(bag, key) ==
  /\ pass = "none" /\ next = 0 /\ values < MaxValues
  /\ values' = values + 1
  /\ bags' = [bags EXCEPT ![bag] = Without(@, key)]
  /\ UNCHANGED <<walkVars, next, without, flagVars>>

-----------------------------------------------------------------------------
(* Metrics::append_data *)

\* The size of a terminal is known or not, and so is its emulator.
Detected == {known \in SUBSET Terminal : Size \subseteq known \/ Size \cap known = {}}

\* Internal metrics come first; what is not known is left out.
Collect(present) ==
  /\ pass = "none" /\ next = 0
  /\ bags' = [bags EXCEPT !["metrics"] = [k \in Platform \cup present |-> Plain]]
  /\ next' = 1 /\ without' = {}
  /\ UNCHANGED <<walkVars, values, flagVars>>

Computing == pass = "none" /\ next \in 1 .. Len(Custom)
Id == Custom[next]

\* The id of an internal metric: compute is not called.
SkipCollision ==
  /\ Computing /\ Id \in DOMAIN bags["metrics"]
  /\ next' = next + 1
  /\ UNCHANGED <<bags, walkVars, without, values, flagVars>>

\* The closure gives a value.
ComputeValue(v) ==
  /\ Computing /\ Id \notin DOMAIN bags["metrics"]
  /\ values < MaxValues /\ values' = values + 1
  /\ Begin("metrics", Id, v)
  /\ UNCHANGED <<bags, next, without, flagVars>>

\* The closure gives None or an error.
ComputeNothing ==
  /\ Computing /\ Id \notin DOMAIN bags["metrics"]
  /\ next' = next + 1
  /\ without' = without \cup {Id}
  /\ UNCHANGED <<bags, walkVars, values, flagVars>>

\* The snapshot goes into a submission or a report.
Collected == next = Len(Custom) + 1

Sent ==
  /\ Collected
  /\ bags' = [bags EXCEPT !["metrics"] = NoBag]
  /\ next' = 0 /\ without' = {}
  /\ UNCHANGED <<walkVars, values, flagVars>>

-----------------------------------------------------------------------------
(* Requests and answers *)

\* On conflict, `second` wins.
Join(first, second) ==
  [k \in DOMAIN first \cup DOMAIN second |-> IF k \in DOMAIN second THEN second[k] ELSE first[k]]

\* The attributes of a flag go before those of the service.
FlagAttributes == Join(bags["service"], bags["flag"])

\* The attributes of the tracker go before the metrics.
ErrorContext == Join(bags["metrics"], bags["tracker"])

\* An answer that has no value for a flag of its kind is an error.
Fetch(answer) ==
  /\ pass = "none" /\ next = 0 /\ values < MaxValues
  /\ values' = values + 1
  /\ cached' \in Fetched(default, answer)
  /\ UNCHANGED <<bags, walkVars, next, without, default>>

Next ==
  \/ CheckLeaf \/ CheckRefuses \/ Checked \/ BuildLeaf \/ BuildRefuses \/ Store
  \/ \E k \in 1 .. MaxLeaves + 1 : Change(k)
  \/ \E b \in AttributeBags, k \in Keys :
       Remove(b, k) \/ \E v \in Values : Put(b, k, v)
  \/ \E present \in Detected : Collect(present)
  \/ SkipCollision \/ ComputeNothing \/ Sent
  \/ \E v \in Values : ComputeValue(v)
  \/ \E answer \in Answers : Fetch(answer)

Spec == Init /\ [][Next]_vars

-----------------------------------------------------------------------------
(* Properties *)

MapOK(m) == DOMAIN m \subseteq AllKeys /\ \A k \in DOMAIN m : m[k] \in Entries

BagsOK == bags = [b \in Bags |-> bags[b]] /\ \A b \in Bags : MapOK(bags[b])

WalkOK ==
  /\ pass \in {"none", "check", "build"}
  /\ pass # "none" => into \in [bag : Bags, key : AllKeys]
  /\ value \in Values \cup {Idle}
  /\ at \in 0 .. Len(value.leaves)
  /\ seen \in Seq(Leaves) /\ json \in Seq({"plain", "null"})

TypeOK ==
  /\ BagsOK /\ WalkOK
  /\ next \in 0 .. Len(Custom) + 1
  /\ without \subseteq AllKeys
  /\ values \in 0 .. MaxValues
  /\ default \in Defaults /\ cached \in FlagValue

\* Every null in what is sent was a null in what the developer gave: a float that is
\* not finite is an error and never silently becomes null, at any depth, unless another
\* thread changed the value after it was checked.
Faithful(e) == ~IsNull(e) /\ (e.silent # {} => e.shared)

NoSilentNull ==
  \A payload \in {FlagAttributes, ErrorContext, bags["metrics"]} :
    \A k \in DOMAIN payload : Faithful(payload[k])

\* A metric that fails, has nothing to report or has the id of an internal one costs
\* no other metric its place: one that had its turn is in the snapshot unless it gave
\* no value itself, and no metric of the platform was replaced.
FailingMetricCostsNoOther ==
  next > 0 =>
    /\ \A m \in 1 .. next - 1 : Custom[m] \in DOMAIN bags["metrics"] \/ Custom[m] \in without
    /\ without \cap DOMAIN bags["metrics"] = {}
    /\ \A k \in Platform : k \in DOMAIN bags["metrics"] /\ bags["metrics"][k] = Plain

\* Whatever the server answers, a flag never has a value of another kind than its
\* default.  What it has is read back as itself when it is sent, except for a float
\* that is not finite, which a text may have brought in.
FlagKeepsKind ==
  /\ cached.kind = default.kind
  /\ ParseMatching(default, ToJson(cached)) = {cached} \ {NotFinite}
=============================================================================
