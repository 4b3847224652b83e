--------------------------- MODULE PayloadsProofs ---------------------------
(***************************************************************************)
(* What is stored is what was checked, a failing metric costs no other its *)
(* place and a flag keeps its kind, for all keys, metrics and values.      *)
(***************************************************************************)
EXTENDS Payloads, TLAPS

-----------------------------------------------------------------------------
(* Maps *)

LEMMA JoinFacts ==
  ASSUME NEW m, NEW n, NEW k \in DOMAIN Join(m, n)
  PROVE  \/ k \in DOMAIN m /\ Join(m, n)[k] = m[k]
         \/ k \in DOMAIN n /\ Join(m, n)[k] = n[k]
BY DEF Join

LEMMA FunctionIsSeq ==
  ASSUME NEW S, NEW n \in Nat, NEW f \in [1 .. n -> S]
  PROVE  f \in Seq(S) /\ Len(f) = n
OBVIOUS

LEMMA ValueLeaves ==
  ASSUME NEW v \in Values \cup {Idle}
  PROVE  v.leaves \in Seq(Leaves) /\ Len(v.leaves) \in Nat
<1>1. CASE v = Idle
  BY <1>1 DEF Idle
<1>2. CASE v \in [compound : {FALSE}, leaves : [1 .. 1 -> Leaves \ {"odd"}], shared : BOOLEAN]
  <2>1. v.leaves \in [1 .. 1 -> Leaves]
    BY <1>2
  <2>2. 1 \in Nat
    OBVIOUS
  <2> QED
    BY <2>1, <2>2, FunctionIsSeq
<1>3. CASE v \in [compound : {TRUE}, leaves : UNION {[1 .. n -> Leaves] : n \in 0 .. MaxLeaves},
                  shared : BOOLEAN]
  <2>1. PICK n \in 0 .. MaxLeaves : v.leaves \in [1 .. n -> Leaves]
    BY <1>3
  <2>2. n \in Nat
    BY PayloadsAssumption
  <2> QED
    BY <2>1, <2>2, FunctionIsSeq
<1> QED
  BY <1>1, <1>2, <1>3 DEF Values

LEMMA NullIsNot == \A leaf \in Leaves : ~Refuses(leaf) /\ JsonOf(leaf) = "null" => leaf = "null"
BY DEF Leaves, Refuses, JsonOf

-----------------------------------------------------------------------------
(* Types *)

\* One of the bags is replaced.
LEMMA MapStep ==
  ASSUME bags = [b \in Bags |-> bags[b]], NEW b \in Bags, NEW m,
         bags' = [bags EXCEPT ![b] = m]
  PROVE  /\ bags' = [c \in Bags |-> bags'[c]]
         /\ bags'[b] = m
         /\ \A c \in Bags : c # b => bags'[c] = bags[c]
OBVIOUS

LEMMA PlainIsEntry == Plain \in Entries
<1>1. <<"plain">> \in Seq({"plain", "null"})
  OBVIOUS
<1> QED
  BY <1>1 DEF Plain, Entries

LEMMA TypeInit == Init => TypeOK
<1> SUFFICES ASSUME Init PROVE TypeOK
  OBVIOUS
<1>1. \A b \in Bags : bags[b] = NoBag
  BY DEF Init
<1>2. bags = [b \in Bags |-> bags[b]]
  BY DEF Init
<1>3. DOMAIN NoBag = {}
  BY DEF NoBag
<1>4. cached \in FlagValue /\ default \in Defaults
  BY DEF Init, Defaults, FlagValue, StringTexts
<1>5. value \in Values \cup {Idle} /\ at \in 0 .. Len(value.leaves)
  BY DEF Init, Idle
<1>6. seen \in Seq(Leaves) /\ json \in Seq({"plain", "null"})
  BY DEF Init
<1>7. next \in 0 .. Len(Custom) + 1 /\ values \in 0 .. MaxValues
  BY PayloadsAssumption DEF Init
<1>8. pass = "none" /\ without = {}
  BY DEF Init
<1> QED
  BY <1>1, <1>2, <1>3, <1>4, <1>5, <1>6, <1>7, <1>8 DEF TypeOK, BagsOK, WalkOK, MapOK

\* A value that has been begun, and one that has been dropped.
LEMMA BeginTyped ==
  ASSUME NEW b \in Bags, NEW k \in AllKeys, NEW v \in Values, Begin(b, k, v)
  PROVE  /\ pass' = "check" /\ into' \in [bag : Bags, key : AllKeys]
         /\ value' \in Values \cup {Idle} /\ at' \in 0 .. Len(value'.leaves)
         /\ seen' \in Seq(Leaves) /\ json' \in Seq({"plain", "null"})
<1>1. Len(v.leaves) \in Nat
  BY ValueLeaves
<1> QED
  BY <1>1 DEF Begin

LEMMA DoneTyped ==
  ASSUME Done
  PROVE  /\ pass' = "none"
         /\ value' \in Values \cup {Idle} /\ at' \in 0 .. Len(value'.leaves)
         /\ seen' \in Seq(Leaves) /\ json' \in Seq({"plain", "null"})
BY DEF Done, Idle

LEMMA EntryTyped ==
  ASSUME TypeOK, pass = "build"
  PROVE  IsNull(Entry) \/ Entry \in Entries
<1>1. value.compound \in BOOLEAN /\ value.shared \in BOOLEAN
  <2>1. CASE value = Idle
    BY <2>1 DEF Idle
  <2>2. CASE value \in [compound : {FALSE}, leaves : [1 .. 1 -> Leaves \ {"odd"}], shared : BOOLEAN]
    BY <2>2
  <2>3. CASE value \in [compound : {TRUE}, shared : BOOLEAN,
                        leaves : UNION {[1 .. n -> Leaves] : n \in 0 .. MaxLeaves}]
    BY <2>3
  <2> QED
    BY <2>1, <2>2, <2>3 DEF TypeOK, WalkOK, Values
<1>2. DOMAIN json \subseteq Nat
  BY DEF TypeOK, WalkOK
<1>3. json \in Seq({"plain", "null"})
  BY DEF TypeOK, WalkOK
<1> QED
  BY <1>1, <1>2, <1>3 DEF Entry, Entries

LEMMA ChangeTyped ==
  ASSUME TypeOK, NEW k, Change(k)
  PROVE  /\ value' \in Values \cup {Idle}
         /\ Len(value'.leaves) = Len(value.leaves)
         /\ value'.shared = value.shared
<1>1. value \in Values
  BY DEF TypeOK, WalkOK, Change, Idle
<1> DEFINE new == IF value.leaves[k] = "plain" THEN "nan" ELSE "plain"
           leaves == [value.leaves EXCEPT ![k] = new]
<1>2. value' = [value EXCEPT !.leaves = leaves]
  BY DEF Change
<1>3. CASE value \in [compound : {FALSE}, leaves : [1 .. 1 -> Leaves \ {"odd"}], shared : BOOLEAN]
  <2>1. value.leaves \in [1 .. 1 -> Leaves \ {"odd"}]
    BY <1>3
  <2>2. leaves \in [1 .. 1 -> Leaves \ {"odd"}]
    BY <2>1 DEF Leaves
  <2>3. Len(leaves) = 1 /\ Len(value.leaves) = 1
    BY <2>1, <2>2, FunctionIsSeq
  <2> HIDE DEF leaves
  <2>4. value' \in Values /\ value'.leaves = leaves /\ value'.shared = value.shared
    BY <1>2, <1>3, <2>2 DEF Values
  <2> QED
    BY <2>3, <2>4
<1>4. CASE value \in [compound : {TRUE}, shared : BOOLEAN,
                      leaves : UNION {[1 .. n -> Leaves] : n \in 0 .. MaxLeaves}]
  <2>1. PICK n \in 0 .. MaxLeaves : value.leaves \in [1 .. n -> Leaves]
    BY <1>4
  <2>2. leaves \in [1 .. n -> Leaves]
    BY <2>1 DEF Leaves
  <2>3. n \in Nat
    BY PayloadsAssumption
  <2>4. Len(leaves) = n /\ Len(value.leaves) = n
    BY <2>1, <2>2, <2>3, FunctionIsSeq
  <2> HIDE DEF leaves
  <2>5. value' \in Values /\ value'.leaves = leaves /\ value'.shared = value.shared
    BY <1>2, <1>4, <2>2 DEF Values
  <2> QED
    BY <2>4, <2>5
<1> QED
  BY <1>1, <1>3, <1>4 DEF Values

LEMMA BagsStep ==
  ASSUME BagsOK, NEW b \in Bags, NEW m, MapOK(m), bags' = [bags EXCEPT ![b] = m]
  PROVE  BagsOK'
<1>1. /\ bags' = [c \in Bags |-> bags'[c]]
      /\ bags'[b] = m
      /\ \A c \in Bags : c # b => bags'[c] = bags[c]
  BY MapStep DEF BagsOK
<1>2. \A c \in Bags : MapOK(bags'[c])
  BY <1>1 DEF BagsOK
<1> QED
  BY <1>1, <1>2 DEF BagsOK, MapOK

LEMMA ProceedTyped ==
  ASSUME TypeOK, Proceed, next <= Len(Custom)
  PROVE  next' \in 0 .. Len(Custom) + 1
<1>1. Len(Custom) \in Nat
  BY PayloadsAssumption
<1> QED
  BY <1>1 DEF TypeOK, Proceed

LEMMA NoteTyped ==
  ASSUME TypeOK, pass # "none", NoteMissing
  PROVE  without' \subseteq AllKeys
BY DEF TypeOK, WalkOK, NoteMissing

\* While a value is walked for a metric it is the turn of that metric, and of none
\* while one is for an attribute.
TurnOK ==
  /\ pass # "none" /\ into.bag = "metrics" => next \in 1 .. Len(Custom) /\ into.key = Custom[next]
  /\ pass # "none" /\ into.bag # "metrics" => next = 0

LEMMA TurnInRange ==
  ASSUME TypeOK, TurnOK, pass # "none"
  PROVE  next <= Len(Custom)
<1>1. Len(Custom) \in Nat
  BY PayloadsAssumption
<1> QED
  BY <1>1 DEF TypeOK, TurnOK

LEMMA KeysOfCustom == \A n \in 1 .. Len(Custom) : Custom[n] \in AllKeys
BY DEF AllKeys

LEMMA StoredMap ==
  ASSUME TypeOK, pass = "build",
         NEW m, m = IF IsNull(Entry) THEN Without(bags[into.bag], into.key)
                    ELSE With(bags[into.bag], into.key, Entry)
  PROVE  MapOK(m)
<1>1. into.bag \in Bags /\ into.key \in AllKeys
  BY DEF TypeOK, WalkOK
<1>2. MapOK(bags[into.bag])
  BY <1>1 DEF TypeOK, BagsOK
<1>3. CASE IsNull(Entry)
  <2>1. m = Without(bags[into.bag], into.key)
    BY <1>3
  <2> QED
    BY <1>2, <2>1 DEF MapOK, Without
<1>4. CASE ~IsNull(Entry)
  <2>1. m = With(bags[into.bag], into.key, Entry) /\ Entry \in Entries
    BY <1>4, EntryTyped
  <2> HIDE DEF Entry
  <2>2. DOMAIN m = DOMAIN bags[into.bag] \cup {into.key} /\ m[into.key] = Entry
    BY <2>1 DEF With
  <2>3. \A j \in DOMAIN bags[into.bag] : j # into.key => m[j] = bags[into.bag][j]
    BY <2>1 DEF With
  <2> QED
    BY <1>1, <1>2, <2>1, <2>2, <2>3 DEF MapOK
<1> QED
  BY <1>3, <1>4

LEMMA TypeStep ==
  ASSUME TypeOK, TurnOK, [Next]_vars
  PROVE  TypeOK'
<1> USE PayloadsAssumption
<1>0. Len(Custom) \in Nat /\ Len(value.leaves) \in Nat
  BY ValueLeaves DEF TypeOK, WalkOK
<1>a. ASSUME UNCHANGED bags PROVE BagsOK'
  BY <1>a DEF TypeOK, BagsOK
<1>1. CASE CheckLeaf
  <2>1. Leaf \in Leaves /\ at + 1 \in 0 .. Len(value.leaves)
    BY <1>0, <1>1, ValueLeaves DEF TypeOK, WalkOK, CheckLeaf, More, Leaf
  <2>2. WalkOK'
    BY <1>1, <2>1 DEF TypeOK, WalkOK, CheckLeaf
  <2> QED
    BY <1>a, <1>1, <2>2 DEF TypeOK, CheckLeaf, flagVars
<1>2. CASE CheckRefuses \/ BuildRefuses
  <2>1. WalkOK'
    BY <1>2, DoneTyped DEF WalkOK, CheckRefuses, BuildRefuses
  <2>2. next' \in 0 .. Len(Custom) + 1 /\ without' \subseteq AllKeys
    BY <1>2, ProceedTyped, TurnInRange, NoteTyped DEF CheckRefuses, BuildRefuses
  <2> QED
    BY <1>a, <1>2, <2>1, <2>2 DEF TypeOK, CheckRefuses, BuildRefuses, flagVars
<1>3. CASE Checked
  <2>1. WalkOK'
    BY <1>0, <1>3 DEF TypeOK, WalkOK, Checked
  <2> QED
    BY <1>a, <1>3, <2>1 DEF TypeOK, Checked, flagVars
<1>4. CASE BuildLeaf
  <2>1. at + 1 \in 0 .. Len(value.leaves) /\ JsonOf(Leaf) \in {"plain", "null"}
    BY <1>0, <1>4 DEF TypeOK, WalkOK, BuildLeaf, More, JsonOf
  <2>2. WalkOK'
    BY <1>4, <2>1 DEF TypeOK, WalkOK, BuildLeaf
  <2> QED
    BY <1>a, <1>4, <2>2 DEF TypeOK, BuildLeaf, flagVars
<1>5. CASE Store
  <2>1. WalkOK'
    BY <1>5, DoneTyped DEF WalkOK, Store
  <2>2. next' \in 0 .. Len(Custom) + 1
    BY <1>5, ProceedTyped, TurnInRange DEF Store
  <2>3. without' \subseteq AllKeys
    BY <1>5, NoteTyped DEF TypeOK, Store
  <2>4. BagsOK'
    BY <1>5, StoredMap, BagsStep DEF TypeOK, WalkOK, Store
  <2> QED
    BY <1>5, <2>1, <2>2, <2>3, <2>4 DEF TypeOK, Store, flagVars
<1>6. ASSUME NEW k, Change(k) PROVE TypeOK'
  <2>1. WalkOK'
    BY <1>6, ChangeTyped DEF TypeOK, WalkOK, Change
  <2> QED
    BY <1>a, <1>6, <2>1 DEF TypeOK, Change, flagVars
<1>7. ASSUME NEW b \in AttributeBags, NEW k \in Keys, Remove(b, k) PROVE TypeOK'
  <2>1. b \in Bags
    BY DEF Bags
  <2>2. MapOK(Without(bags[b], k))
    BY <2>1 DEF TypeOK, BagsOK, MapOK, Without
  <2>3. BagsOK'
    BY <1>7, <2>1, <2>2, BagsStep DEF TypeOK, Remove
  <2> QED
    BY <1>7, <2>3 DEF TypeOK, WalkOK, Remove, walkVars, flagVars
<1>8. ASSUME NEW b \in AttributeBags, NEW k \in Keys, NEW v \in Values, Put(b, k, v)
      PROVE  TypeOK'
  <2>1. b \in Bags /\ k \in AllKeys
    BY DEF Bags, AllKeys
  <2>2. WalkOK'
    BY <1>8, <2>1, BeginTyped DEF WalkOK, Put
  <2> QED
    BY <1>a, <1>8, <2>2 DEF TypeOK, Put, flagVars
<1>9. ASSUME NEW present \in Detected, Collect(present) PROVE TypeOK'
  <2>1. MapOK([k \in Platform \cup present |-> Plain])
    BY PlainIsEntry DEF MapOK, AllKeys, Detected
  <2>2. BagsOK'
    BY <1>9, <2>1, BagsStep DEF TypeOK, Collect, Bags
  <2> QED
    BY <1>0, <1>9, <2>2 DEF TypeOK, WalkOK, Collect, walkVars, flagVars
<1>10. CASE SkipCollision
  BY <1>0, <1>a, <1>10 DEF TypeOK, WalkOK, SkipCollision, Computing, walkVars, flagVars
<1>11. ASSUME NEW v \in Values, ComputeValue(v) PROVE TypeOK'
  <2>1. "metrics" \in Bags /\ Id \in AllKeys
    BY <1>11, KeysOfCustom DEF Bags, ComputeValue, Computing, Id
  <2>2. WalkOK'
    BY <1>11, <2>1, BeginTyped DEF WalkOK, ComputeValue
  <2> QED
    BY <1>a, <1>11, <2>2 DEF TypeOK, ComputeValue, flagVars
<1>12. CASE ComputeNothing
  <2>1. Id \in AllKeys
    BY <1>12, KeysOfCustom DEF ComputeNothing, Computing, Id
  <2> QED
    BY <1>0, <1>a, <1>12, <2>1 DEF TypeOK, WalkOK, ComputeNothing, Computing, walkVars, flagVars
<1>13. CASE Sent
  <2>1. MapOK(NoBag)
    BY DEF MapOK, NoBag
  <2>2. BagsOK'
    BY <1>13, <2>1, BagsStep DEF TypeOK, Sent, Bags
  <2> QED
    BY <1>0, <1>13, <2>2 DEF TypeOK, WalkOK, Sent, walkVars, flagVars
<1>14. ASSUME NEW answer \in Answers, Fetch(answer) PROVE TypeOK'
  <2>1. cached' \in FlagValue
    BY <1>14 DEF Fetch, Fetched, ParseMatching
  <2> QED
    BY <1>a, <1>14, <2>1 DEF TypeOK, WalkOK, Fetch, walkVars
<1>15. CASE UNCHANGED vars
  BY <1>a, <1>15 DEF TypeOK, WalkOK, vars, walkVars, flagVars
<1> QED
  BY <1>1, <1>2, <1>3, <1>4, <1>5, <1>6, <1>7, <1>8, <1>9, <1>10, <1>11, <1>12, <1>13, <1>14,
     <1>15 DEF Next

-----------------------------------------------------------------------------
(* A failing metric costs no other its place *)

MetricsInv ==
  /\ TurnOK /\ FailingMetricCostsNoOther
  /\ \A k \in without : \E m \in 1 .. next - 1 : k = Custom[m]
  /\ pass # "none" /\ into.bag = "metrics" => into.key \notin DOMAIN bags["metrics"]

\* The next metric has its turn: it is in the snapshot now, or it is noted to be without.
LEMMA TurnPasses ==
  ASSUME TypeOK, MetricsInv, next \in 1 .. Len(Custom), next' = next + 1,
         \A j \in DOMAIN bags["metrics"] : bags'["metrics"][j] = bags["metrics"][j],
         \/ /\ without' = without
            /\ DOMAIN bags'["metrics"] = DOMAIN bags["metrics"] \cup {Custom[next]}
         \/ /\ without' = without \cup {Custom[next]}
            /\ DOMAIN bags'["metrics"] = DOMAIN bags["metrics"]
            /\ Custom[next] \notin DOMAIN bags["metrics"]
  PROVE  /\ FailingMetricCostsNoOther'
         /\ \A k \in without' : \E m \in 1 .. next' - 1 : k = Custom[m]
<1>1. Len(Custom) \in Nat /\ next \in Nat
  BY PayloadsAssumption
<1>2. Custom[next] \notin without
  <2> SUFFICES ASSUME Custom[next] \in without PROVE FALSE
    OBVIOUS
  <2>1. PICK m \in 1 .. next - 1 : Custom[next] = Custom[m]
    BY DEF MetricsInv
  <2>2. m \in 1 .. Len(Custom) /\ m # next
    BY <1>1
  <2> QED
    BY <2>1, <2>2, PayloadsAssumption DEF Addable
<1>3. DOMAIN bags["metrics"] \subseteq DOMAIN bags'["metrics"]
  OBVIOUS
<1>4. ASSUME NEW m \in 1 .. next PROVE Custom[m] \in DOMAIN bags'["metrics"] \/ Custom[m] \in without'
  <2>1. CASE m = next
    BY <2>1
  <2>2. CASE m \in 1 .. next - 1
    BY <1>1, <1>3, <2>2 DEF MetricsInv, FailingMetricCostsNoOther
  <2> QED
    BY <1>1, <2>1, <2>2
<1>5. without' \cap DOMAIN bags'["metrics"] = {}
  <2>1. without \cap DOMAIN bags["metrics"] = {}
    BY <1>1 DEF MetricsInv, FailingMetricCostsNoOther
  <2> QED
    BY <1>2, <2>1
<1>6. \A k \in Platform : k \in DOMAIN bags'["metrics"] /\ bags'["metrics"][k] = Plain
  BY <1>1, <1>3 DEF MetricsInv, FailingMetricCostsNoOther
<1>7. \A k \in without' : \E m \in 1 .. next' - 1 : k = Custom[m]
  <2>1. \A k \in without : \E m \in 1 .. next - 1 : k = Custom[m]
    BY DEF MetricsInv
  <2>2. next \in 1 .. next' - 1 /\ \A m \in 1 .. next - 1 : m \in 1 .. next' - 1
    BY <1>1
  <2> QED
    BY <2>1, <2>2
<1>8. 1 .. next' - 1 = 1 .. next
  BY <1>1
<1> QED
  BY <1>4, <1>5, <1>6, <1>7, <1>8 DEF FailingMetricCostsNoOther

\* Nothing that is about metrics changes.
LEMMA MetricsKept ==
  ASSUME MetricsInv, bags'["metrics"] = bags["metrics"], next' = next, without' = without
  PROVE  /\ FailingMetricCostsNoOther'
         /\ \A k \in without' : \E m \in 1 .. next' - 1 : k = Custom[m]
BY DEF MetricsInv, FailingMetricCostsNoOther

\* The walk for a metric ends in an error.
LEMMA RefusedMetric ==
  ASSUME TypeOK, MetricsInv, pass # "none", NoteMissing, Done, Proceed, bags' = bags
  PROVE  MetricsInv'
<1>1. pass' = "none"
  BY DEF Done
<1>2. TurnOK'
  BY <1>1 DEF TurnOK
<1>3. CASE into.bag = "metrics"
  <2>1. next \in 1 .. Len(Custom) /\ next' = next + 1 /\ without' = without \cup {Custom[next]}
    BY <1>3 DEF MetricsInv, TurnOK, Proceed, NoteMissing
  <2>2. Custom[next] \notin DOMAIN bags["metrics"]
    BY <1>3 DEF MetricsInv, TurnOK
  <2> QED
    BY <1>1, <1>2, <2>1, <2>2, TurnPasses DEF MetricsInv
<1>4. CASE into.bag # "metrics"
  <2>1. next' = next /\ without' = without
    BY <1>4 DEF Proceed, NoteMissing
  <2> QED
    BY <1>1, <1>2, <2>1, MetricsKept DEF MetricsInv
<1> QED
  BY <1>3, <1>4

LEMMA StoredMetric ==
  ASSUME TypeOK, MetricsInv, Store
  PROVE  MetricsInv'
<1>1. pass' = "none" /\ TurnOK'
  BY DEF Store, Done, TurnOK
<1>2. into.bag \in Bags /\ BagsOK /\ "metrics" \in Bags
  BY DEF TypeOK, WalkOK, Store, Bags
<1> DEFINE m == IF IsNull(Entry) THEN Without(bags[into.bag], into.key)
                ELSE With(bags[into.bag], into.key, Entry)
<1>3. bags' = [bags EXCEPT ![into.bag] = m]
  BY DEF Store
<1>4. bags'[into.bag] = m /\ \A c \in Bags : c # into.bag => bags'[c] = bags[c]
  BY <1>2, <1>3, MapStep DEF BagsOK
<1>5. CASE into.bag # "metrics"
  <2>1. next' = next /\ without' = without
    BY <1>5 DEF Store, Proceed, NoteMissing
  <2> QED
    BY <1>1, <1>2, <1>4, <1>5, <2>1, MetricsKept DEF MetricsInv
<1>6. CASE into.bag = "metrics"
  <2>1. /\ next \in 1 .. Len(Custom) /\ next' = next + 1 /\ into.key = Custom[next]
        /\ Custom[next] \notin DOMAIN bags["metrics"]
    BY <1>6 DEF MetricsInv, TurnOK, Store, Proceed
  <2>2. CASE IsNull(Entry)
    <3>1. without' = without \cup {Custom[next]}
      BY <1>6, <2>1, <2>2 DEF Store, NoteMissing
    <3>2. bags'["metrics"] = Without(bags["metrics"], Custom[next])
      BY <1>4, <1>6, <2>1, <2>2
    <3>3. DOMAIN bags'["metrics"] = DOMAIN bags["metrics"]
      BY <2>1, <3>2 DEF Without
    <3>4. \A j \in DOMAIN bags["metrics"] : bags'["metrics"][j] = bags["metrics"][j]
      BY <2>1, <3>2 DEF Without
    <3>5. /\ FailingMetricCostsNoOther'
          /\ \A k \in without' : \E n \in 1 .. next' - 1 : k = Custom[n]
      BY <2>1, <3>1, <3>3, <3>4, TurnPasses
    <3> QED
      BY <1>1, <3>5 DEF MetricsInv
  <2>3. CASE ~IsNull(Entry)
    <3>1. without' = without
      BY <2>3 DEF Store
    <3>2. bags'["metrics"] = With(bags["metrics"], Custom[next], Entry)
      BY <1>4, <1>6, <2>1, <2>3
    <3> HIDE DEF m
    <3>3. DOMAIN bags'["metrics"] = DOMAIN bags["metrics"] \cup {Custom[next]}
      BY <3>2 DEF With
    <3>4. \A j \in DOMAIN bags["metrics"] : bags'["metrics"][j] = bags["metrics"][j]
      BY <2>1, <3>2 DEF With
    <3>5. /\ FailingMetricCostsNoOther'
          /\ \A k \in without' : \E n \in 1 .. next' - 1 : k = Custom[n]
      BY <2>1, <3>1, <3>3, <3>4, TurnPasses
    <3> QED
      BY <1>1, <3>5 DEF MetricsInv
  <2> QED
    BY <2>2, <2>3
<1> QED
  BY <1>5, <1>6

LEMMA MetricsStep ==
  ASSUME TypeOK, MetricsInv, [Next]_vars
  PROVE  MetricsInv'
<1> USE DEF flagVars, walkVars
<1>1. CASE CheckLeaf \/ Checked \/ BuildLeaf \/ \E k \in 1 .. MaxLeaves + 1 : Change(k)
  <2>1. /\ pass # "none" /\ pass' # "none" /\ into' = into
        /\ bags' = bags /\ next' = next /\ without' = without
    BY <1>1 DEF CheckLeaf, Checked, BuildLeaf, Change
  <2>2. TurnOK'
    BY <2>1 DEF MetricsInv, TurnOK
  <2> QED
    BY <2>1, <2>2, MetricsKept DEF MetricsInv
<1>2. CASE CheckRefuses \/ BuildRefuses
  BY <1>2, RefusedMetric DEF CheckRefuses, BuildRefuses
<1>3. CASE Store
  BY <1>3, StoredMetric
<1>4. ASSUME NEW b \in AttributeBags, NEW k \in Keys, Remove(b, k) PROVE MetricsInv'
  <2>1. b \in Bags /\ b # "metrics" /\ "metrics" \in Bags
    BY DEF AttributeBags, Bags
  <2>2. bags'["metrics"] = bags["metrics"]
    BY <1>4, <2>1, MapStep DEF TypeOK, BagsOK, Remove
  <2>3. pass' = "none" /\ TurnOK'
    BY <1>4 DEF Remove, TurnOK
  <2> QED
    BY <1>4, <2>2, <2>3, MetricsKept DEF MetricsInv, Remove
<1>5. ASSUME NEW b \in AttributeBags, NEW k \in Keys, NEW v \in Values, Put(b, k, v)
      PROVE  MetricsInv'
  <2>1. into'.bag # "metrics" /\ next' = 0
    BY <1>5 DEF Put, Begin, AttributeBags
  <2>2. TurnOK'
    BY <2>1 DEF TurnOK
  <2> QED
    BY <1>5, <2>1, <2>2, MetricsKept DEF MetricsInv, Put
<1>6. ASSUME NEW present \in Detected, Collect(present) PROVE MetricsInv'
  <2>1. bags'["metrics"] = [k \in Platform \cup present |-> Plain]
    BY <1>6, MapStep DEF TypeOK, BagsOK, Bags, Collect
  <2>2. pass' = "none" /\ next' = 1 /\ without' = {}
    BY <1>6 DEF Collect
  <2> QED
    BY <2>1, <2>2 DEF MetricsInv, TurnOK, FailingMetricCostsNoOther
<1>7. CASE SkipCollision
  <2>1. pass' = "none" /\ TurnOK'
    BY <1>7 DEF SkipCollision, Computing, TurnOK
  <2> QED
    BY <1>7, <2>1, TurnPasses DEF MetricsInv, SkipCollision, Computing, Id
<1>8. ASSUME NEW v \in Values, ComputeValue(v) PROVE MetricsInv'
  <2>1. /\ next \in 1 .. Len(Custom) /\ next' = next /\ without' = without /\ bags' = bags
        /\ into'.bag = "metrics" /\ into'.key = Custom[next]
        /\ Custom[next] \notin DOMAIN bags["metrics"]
    BY <1>8 DEF ComputeValue, Computing, Begin, Id
  <2>2. TurnOK'
    BY <2>1 DEF TurnOK
  <2> QED
    BY <2>1, <2>2, MetricsKept DEF MetricsInv
<1>9. CASE ComputeNothing
  <2>1. pass' = "none" /\ TurnOK'
    BY <1>9 DEF ComputeNothing, Computing, TurnOK
  <2> QED
    BY <1>9, <2>1, TurnPasses DEF MetricsInv, ComputeNothing, Computing, Id
<1>10. CASE Sent
  <2>1. pass = "none"
    <3>1. Len(Custom) \in Nat /\ next = Len(Custom) + 1
      BY <1>10, PayloadsAssumption DEF Sent, Collected
    <3>2. next \notin 1 .. Len(Custom) /\ next # 0
      BY <3>1
    <3> QED
      BY <3>2 DEF MetricsInv, TurnOK
  <2>2. pass' = "none" /\ next' = 0 /\ without' = {}
    BY <1>10, <2>1 DEF Sent
  <2> QED
    BY <2>2 DEF MetricsInv, TurnOK, FailingMetricCostsNoOther
<1>11. ASSUME NEW answer \in Answers, Fetch(answer) PROVE MetricsInv'
  <2>1. pass' = "none" /\ TurnOK'
    BY <1>11 DEF Fetch, TurnOK
  <2> QED
    BY <1>11, <2>1, MetricsKept DEF MetricsInv, Fetch
<1>12. CASE UNCHANGED vars
  <2>1. TurnOK'
    BY <1>12 DEF vars, MetricsInv, TurnOK
  <2> QED
    BY <1>12, <2>1, MetricsKept DEF vars, MetricsInv
<1> QED
  BY <1>1, <1>2, <1>3, <1>4, <1>5, <1>6, <1>7, <1>8, <1>9, <1>10, <1>11, <1>12 DEF Next

LEMMA MetricsInvariant == Spec => [](TypeOK /\ MetricsInv)
<1>1. Init => TypeOK /\ MetricsInv
  BY TypeInit DEF Init, MetricsInv, TurnOK, FailingMetricCostsNoOther
<1>2. TypeOK /\ MetricsInv /\ [Next]_vars => (TypeOK /\ MetricsInv)'
  BY TypeStep, MetricsStep DEF MetricsInv
<1> QED
  BY <1>1, <1>2, PTL DEF Spec

\* The bags, the walk over a value and the flag keep their types; in particular no entry
\* of a payload holds a leaf that JSON has not.
THEOREM PayloadsTypeCorrect == Spec => []TypeOK
<1> QED
  BY MetricsInvariant, PTL

\* A metric that fails costs no other metric its place, and none of the platform's is
\* replaced, for every list of metrics.
THEOREM MetricsAreIndependent == Spec => []FailingMetricCostsNoOther
<1>1. MetricsInv => FailingMetricCostsNoOther
  BY DEF MetricsInv
<1> QED
  BY <1>1, MetricsInvariant, PTL

-----------------------------------------------------------------------------
(* No silent null *)

\* What the check has let pass is what is built from, unless the value is shared.
WalkInv ==
  /\ pass = "check" =>
       /\ at = Len(seen) /\ json = <<>>
       /\ ~value.shared => \A k \in 1 .. at : seen[k] = value.leaves[k] /\ ~Refuses(seen[k])
  /\ pass = "build" =>
       /\ at = Len(json)
       /\ ~value.shared =>
            /\ Len(seen) = Len(value.leaves)
            /\ \A k \in 1 .. Len(seen) : seen[k] = value.leaves[k] /\ ~Refuses(seen[k])
            /\ \A k \in 1 .. at : json[k] = JsonOf(value.leaves[k])

StoredInv == \A b \in Bags : \A k \in DOMAIN bags[b] : Faithful(bags[b][k])

LEMMA AppendFacts ==
  ASSUME NEW S, NEW s \in Seq(S), NEW e \in S
  PROVE  /\ Len(s) \in Nat /\ Len(Append(s, e)) = Len(s) + 1
         /\ Append(s, e)[Len(s) + 1] = e
         /\ \A k \in 1 .. Len(s) : Append(s, e)[k] = s[k]
OBVIOUS

LEMMA WalkStep ==
  ASSUME TypeOK, WalkInv, [Next]_vars
  PROVE  WalkInv'
<1>0. Len(value.leaves) \in Nat /\ value.leaves \in Seq(Leaves)
  BY ValueLeaves DEF TypeOK, WalkOK
<1>1. CASE CheckLeaf
  <2>1. Leaf \in Leaves
    BY <1>0, <1>1 DEF TypeOK, WalkOK, CheckLeaf, More, Leaf
  <2>2. /\ Len(seen) \in Nat /\ Len(seen') = Len(seen) + 1
        /\ seen'[Len(seen) + 1] = Leaf
        /\ \A k \in 1 .. Len(seen) : seen'[k] = seen[k]
    BY <1>1, <2>1, AppendFacts DEF TypeOK, WalkOK, CheckLeaf
  <2>3. /\ pass = "check" /\ pass' = "check" /\ value' = value /\ at' = at + 1
        /\ json' = json /\ ~Refuses(Leaf)
    BY <1>1 DEF CheckLeaf
  <2>4. at = Len(seen) /\ json = <<>>
    BY <2>3 DEF WalkInv
  <2>5. ASSUME ~value.shared, NEW k \in 1 .. at + 1
        PROVE  seen'[k] = value.leaves[k] /\ ~Refuses(seen'[k])
    <3>1. CASE k = at + 1
      BY <2>2, <2>3, <2>4, <3>1 DEF Leaf
    <3>2. CASE k \in 1 .. at
      BY <2>2, <2>3, <2>4, <2>5, <3>2 DEF WalkInv
    <3> QED
      BY <2>2, <2>4, <3>1, <3>2
  <2> QED
    BY <2>2, <2>3, <2>4, <2>5 DEF WalkInv, Refuses
<1>2. CASE Checked
  <2>1. /\ pass = "check" /\ pass' = "build" /\ at' = 0 /\ value' = value
        /\ seen' = seen /\ json' = json /\ ~(at < Len(value.leaves))
    BY <1>2 DEF Checked, More
  <2>2. at = Len(value.leaves) /\ at = Len(seen)
    BY <1>0, <2>1 DEF TypeOK, WalkOK, WalkInv
  <2>3. json = <<>> /\ Len(<<>>) = 0
    BY <2>1 DEF WalkInv
  <2>4. ASSUME ~value.shared, NEW k \in 1 .. Len(seen)
        PROVE  seen[k] = value.leaves[k] /\ ~Refuses(seen[k])
    BY <2>1, <2>2, <2>4 DEF WalkInv
  <2> QED
    BY <2>1, <2>2, <2>3, <2>4 DEF WalkInv, Refuses
<1>3. CASE BuildLeaf
  <2>1. JsonOf(Leaf) \in {"plain", "null"}
    BY DEF JsonOf
  <2>2. /\ Len(json) \in Nat /\ Len(json') = Len(json) + 1
        /\ json'[Len(json) + 1] = JsonOf(Leaf)
        /\ \A k \in 1 .. Len(json) : json'[k] = json[k]
    BY <1>3, <2>1, AppendFacts DEF TypeOK, WalkOK, BuildLeaf
  <2>3. /\ pass = "build" /\ pass' = "build" /\ value' = value /\ at' = at + 1
        /\ seen' = seen
    BY <1>3 DEF BuildLeaf
  <2>4. at = Len(json)
    BY <2>3 DEF WalkInv
  <2>5. ASSUME ~value.shared, NEW k \in 1 .. at + 1
        PROVE  json'[k] = JsonOf(value.leaves[k])
    <3>1. CASE k = at + 1
      BY <2>2, <2>4, <3>1 DEF Leaf
    <3>2. CASE k \in 1 .. at
      BY <2>2, <2>3, <2>4, <2>5, <3>2 DEF WalkInv
    <3> QED
      BY <2>2, <2>4, <3>1, <3>2
  <2>6. ASSUME ~value.shared
        PROVE  /\ Len(seen) = Len(value.leaves)
               /\ \A k \in 1 .. Len(seen) : seen[k] = value.leaves[k] /\ ~Refuses(seen[k])
    BY <2>3, <2>6 DEF WalkInv
  <2> QED
    BY <2>2, <2>3, <2>4, <2>5, <2>6 DEF WalkInv, Refuses
<1>4. CASE CheckRefuses \/ BuildRefuses \/ Store
  <2>1. pass' = "none"
    BY <1>4 DEF CheckRefuses, BuildRefuses, Store, Done
  <2> QED
    BY <2>1 DEF WalkInv
<1>5. ASSUME NEW k, Change(k) PROVE WalkInv'
  <2>1. /\ value.shared /\ value'.shared = value.shared
        /\ pass' = pass /\ at' = at /\ seen' = seen /\ json' = json
    BY <1>5, ChangeTyped DEF Change
  <2> QED
    BY <2>1 DEF WalkInv
<1>6. ASSUME NEW b, NEW k, NEW v, Begin(b, k, v) PROVE WalkInv'
  <2>1. pass' = "check" /\ at' = 0 /\ seen' = <<>> /\ json' = <<>> /\ Len(<<>>) = 0
    BY <1>6 DEF Begin
  <2> QED
    BY <2>1 DEF WalkInv
<1>7. ASSUME UNCHANGED walkVars PROVE WalkInv'
  BY <1>7 DEF walkVars, WalkInv, Refuses, JsonOf
<1> QED
  BY <1>1, <1>2, <1>3, <1>4, <1>5, <1>6, <1>7
     DEF Next, Remove, Put, Collect, SkipCollision, ComputeNothing, ComputeValue, Sent, Fetch, vars

LEMMA EntryFaithful ==
  ASSUME TypeOK, WalkInv, pass = "build", ~More, ~IsNull(Entry)
  PROVE  Faithful(Entry)
<1>1. at = Len(value.leaves) /\ Len(json) = at /\ at \in Nat
  BY ValueLeaves DEF TypeOK, WalkOK, WalkInv, More
<1>2. Entry.shared = value.shared
      /\ Entry.silent = {k \in DOMAIN json : json[k] = "null" /\ seen[k] # "null"}
  BY DEF Entry
<1>3. ASSUME ~value.shared, NEW k \in DOMAIN json, json[k] = "null" PROVE seen[k] = "null"
  <2>1. k \in 1 .. at
    BY <1>1 DEF TypeOK, WalkOK
  <2>2. /\ seen[k] = value.leaves[k] /\ ~Refuses(seen[k])
        /\ json[k] = JsonOf(value.leaves[k])
    BY <1>1, <1>3, <2>1 DEF WalkInv
  <2> QED
    BY <1>3, <2>2 DEF Refuses, JsonOf
<1>4. ASSUME ~value.shared PROVE Entry.silent = {}
  BY <1>2, <1>3, <1>4
<1> HIDE DEF Entry
<1> QED
  BY <1>2, <1>4 DEF Faithful

LEMMA StoredStep ==
  ASSUME TypeOK, WalkInv, StoredInv, [Next]_vars
  PROVE  StoredInv'
<1>0. BagsOK
  BY DEF TypeOK
<1>a. ASSUME UNCHANGED bags PROVE StoredInv'
  BY <1>a DEF StoredInv, Faithful, IsNull
<1>b. ASSUME NEW b \in Bags, NEW m, bags' = [bags EXCEPT ![b] = m],
             \A k \in DOMAIN m : Faithful(m[k])
      PROVE  StoredInv'
  <2>1. bags'[b] = m /\ \A c \in Bags : c # b => bags'[c] = bags[c]
    BY <1>0, <1>b, MapStep DEF BagsOK
  <2>2. ASSUME NEW c \in Bags, NEW k \in DOMAIN bags'[c] PROVE Faithful(bags'[c][k])
    BY <1>b, <2>1 DEF StoredInv
  <2> QED
    BY <2>2 DEF StoredInv, Faithful, IsNull
<1>1. CASE Store
  <2>1. into.bag \in Bags
    BY <1>1 DEF TypeOK, WalkOK, Store
  <2>2. \A k \in DOMAIN bags[into.bag] : Faithful(bags[into.bag][k])
    BY <2>1 DEF StoredInv
  <2>3. CASE IsNull(Entry)
    <3>1. bags' = [bags EXCEPT ![into.bag] = Without(bags[into.bag], into.key)]
      BY <1>1, <2>3 DEF Store
    <3>2. \A k \in DOMAIN Without(bags[into.bag], into.key) :
            Faithful(Without(bags[into.bag], into.key)[k])
      BY <2>2 DEF Without
    <3> QED
      BY <1>b, <2>1, <3>1, <3>2
  <2>4. CASE ~IsNull(Entry)
    <3>1. bags' = [bags EXCEPT ![into.bag] = With(bags[into.bag], into.key, Entry)]
      BY <1>1, <2>4 DEF Store
    <3>2. Faithful(Entry)
      BY <1>1, <2>4, EntryFaithful DEF Store
    <3> HIDE DEF Entry
    <3>3. \A k \in DOMAIN With(bags[into.bag], into.key, Entry) :
            Faithful(With(bags[into.bag], into.key, Entry)[k])
      BY <2>2, <3>2 DEF With
    <3> QED
      BY <1>b, <2>1, <3>1, <3>3
  <2> QED
    BY <2>3, <2>4
<1>2. ASSUME NEW b \in AttributeBags, NEW k \in Keys, Remove(b, k) PROVE StoredInv'
  <2>1. b \in Bags
    BY DEF Bags
  <2>2. \A j \in DOMAIN Without(bags[b], k) : Faithful(Without(bags[b], k)[j])
    BY <2>1 DEF Without, StoredInv
  <2>3. bags' = [bags EXCEPT ![b] = Without(bags[b], k)]
    BY <1>2 DEF Remove
  <2> QED
    BY <1>b, <2>1, <2>2, <2>3
<1>3. ASSUME NEW present \in Detected, Collect(present) PROVE StoredInv'
  <2>1. Faithful(Plain)
    BY DEF Faithful, IsNull, Plain
  <2>2. \A k \in Platform \cup present : [j \in Platform \cup present |-> Plain][k] = Plain
    OBVIOUS
  <2>3. bags' = [bags EXCEPT !["metrics"] = [k \in Platform \cup present |-> Plain]]
    BY <1>3 DEF Collect
  <2>4. "metrics" \in Bags
    BY DEF Bags
  <2> QED
    BY <1>b, <2>1, <2>2, <2>3, <2>4
<1>4. CASE Sent
  <2>1. \A k \in DOMAIN NoBag : Faithful(NoBag[k])
    BY DEF NoBag
  <2> QED
    BY <1>4, <1>b, <2>1 DEF Sent, Bags
<1> QED
  BY <1>a, <1>1, <1>2, <1>3, <1>4
     DEF Next, CheckLeaf, CheckRefuses, Checked, BuildLeaf, BuildRefuses, Change, Put,
         SkipCollision, ComputeNothing, ComputeValue, Fetch, vars

\* A float that is not finite never becomes a null in a request, at any depth, unless
\* the value was changed while it was put.
THEOREM NullsAreMeant == Spec => []NoSilentNull
<1>1. Init => WalkInv /\ StoredInv
  BY DEF Init, WalkInv, StoredInv, NoBag
<1>2. TypeOK /\ WalkInv /\ StoredInv /\ [Next]_vars => (WalkInv /\ StoredInv)'
  BY WalkStep, StoredStep
<1>3. StoredInv => NoSilentNull
  <2> SUFFICES ASSUME StoredInv PROVE NoSilentNull
    OBVIOUS
  <2>1. /\ \A k \in DOMAIN bags["service"] : Faithful(bags["service"][k])
        /\ \A k \in DOMAIN bags["flag"] : Faithful(bags["flag"][k])
        /\ \A k \in DOMAIN bags["tracker"] : Faithful(bags["tracker"][k])
        /\ \A k \in DOMAIN bags["metrics"] : Faithful(bags["metrics"][k])
    BY DEF StoredInv, Bags, AttributeBags
  <2>2. \A k \in DOMAIN FlagAttributes : Faithful(FlagAttributes[k])
    BY <2>1 DEF FlagAttributes, Join
  <2>3. \A k \in DOMAIN ErrorContext : Faithful(ErrorContext[k])
    BY <2>1 DEF ErrorContext, Join
  <2> QED
    BY <2>1, <2>2, <2>3 DEF NoSilentNull
<1> QED
  BY <1>1, <1>2, <1>3, MetricsInvariant, PTL DEF Spec

-----------------------------------------------------------------------------
(* A flag keeps its kind *)

\* A value of a kind is read back as itself; a float that is not finite is not.
LEMMA ReadBack ==
  ASSUME NEW own \in Defaults, NEW v \in FlagValue, v.kind = own.kind
  PROVE  ParseMatching(own, ToJson(v)) = {v} \ {NotFinite}
<1>1. own.kind \in {"string", "number", "boolean"}
  BY DEF Defaults
<1>2. CASE v = NotFinite
  <2>1. ToJson(v) = [kind |-> "null", is |-> "other"]
    BY <1>2 DEF ToJson
  <2>2. ToJson(v).kind = "null"
    BY <2>1
  <2>3. ASSUME NEW w \in FlagValue, w.kind = own.kind PROVE w # ToJson(v)
    BY <1>1, <2>2, <2>3
  <2> QED
    BY <1>2, <2>2, <2>3 DEF ParseMatching
<1>3. CASE v # NotFinite
  <2>1. ToJson(v) = v
    BY <1>3 DEF ToJson
  <2>2. ParseMatching(own, v) = {v}
    BY DEF ParseMatching
  <2> QED
    BY <1>3, <2>1, <2>2
<1> QED
  BY <1>2, <1>3

\* Whatever the server answers, a flag keeps the kind of its default.
THEOREM KindIsKept == Spec => []FlagKeepsKind
<1> DEFINE Kind == cached.kind = default.kind
<1>1. Init => Kind
  BY DEF Init
<1>2. Kind /\ [Next]_vars => Kind'
  <2> SUFFICES ASSUME Kind, [Next]_vars PROVE Kind'
    OBVIOUS
  <2>1. ASSUME NEW answer \in Answers, Fetch(answer) PROVE Kind'
    BY <2>1 DEF Fetch, Fetched, ParseMatching
  <2>2. ASSUME UNCHANGED flagVars PROVE Kind'
    BY <2>2 DEF flagVars
  <2> QED
    BY <2>1, <2>2 DEF Next, CheckLeaf, CheckRefuses, Checked, BuildLeaf, BuildRefuses, Store,
       Change, Remove, Put, Collect, SkipCollision, ComputeNothing, Sent, ComputeValue, vars
<1>3. TypeOK /\ Kind => FlagKeepsKind
  BY ReadBack DEF TypeOK, FlagKeepsKind
<1> QED
  BY <1>1, <1>2, <1>3, MetricsInvariant, PTL DEF Spec
=============================================================================
