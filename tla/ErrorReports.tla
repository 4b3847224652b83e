---------------------------- MODULE ErrorReports ---------------------------
(***************************************************************************)
(* What error tracking promises, with nothing of dedup tables, drains and  *)
(* requests: every occurrence of an error reaches the server at most once, *)
(* and the server's total of an error is the number of its occurrences     *)
(* that did.  An occurrence may be lost; a lost one never comes back, and  *)
(* one that was delivered is never delivered again.                        *)
(***************************************************************************)
EXTENDS Naturals, Sequences, FiniteSets

CONSTANT Errors

VARIABLES occurred,   \* the occurrences, in the order they were tracked
          outcome,    \* outcome[n]: "pending", "delivered" or "lost"
          totals      \* totals[e]: what the reports the server has add up to

reportVars == <<occurred, outcome, totals>>

Pending == {n \in DOMAIN outcome : outcome[n] = "pending"}

RInit == occurred = <<>> /\ outcome = <<>> /\ totals = [e \in Errors |-> 0]

Occur(e) ==
  /\ occurred' = Append(occurred, e)
  /\ outcome' = Append(outcome, "pending")
  /\ UNCHANGED totals

Settle(S, o) ==
  /\ S # {}
  /\ outcome' = [n \in DOMAIN outcome |-> IF n \in S THEN o ELSE outcome[n]]
  /\ UNCHANGED occurred

Deliver(S) ==
  /\ Settle(S, "delivered")
  /\ totals' = [e \in Errors |-> totals[e] + Cardinality({n \in S : occurred[n] = e})]

Lose(S) == Settle(S, "lost") /\ UNCHANGED totals

RNext == \/ \E e \in Errors : Occur(e)
         \/ \E S \in SUBSET Pending : Deliver(S) \/ Lose(S)

RSpec == RInit /\ [][RNext]_reportVars
============================================================================
