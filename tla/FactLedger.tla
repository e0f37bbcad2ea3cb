----------------------------- MODULE FactLedger -----------------------------
(***************************************************************************)
(* What EvidraRegistry promises about facts, without requests, fees, time  *)
(* or callbacks: per fact key an append-only list of committed attempts,   *)
(* and one canonical head picked from that list.  The head is defined over *)
(* the whole list, not by the step-by-step update commit_resolution does.  *)
(***************************************************************************)
EXTENDS Naturals, Sequences

CONSTANT FactKeys

VARIABLES attempts,     \* attempts[k]: every committed attempt at k, oldest first
          head          \* head[k]: index of the canonical attempt, 0 before the first

ledgerVars == <<attempts, head>>

BooleanOutcomes == {"TRUE", "FALSE"}
Outcomes == BooleanOutcomes \cup {"UNRESOLVED"}
Attempt == [outcome : Outcomes, policyOk : BOOLEAN]

Verdict(a) == a.outcome \in BooleanOutcomes /\ a.policyOk
Answers(a) == a.outcome \in BooleanOutcomes

(***************************************************************************)
(* The canonical attempt of h: the last policy-satisfied verdict if there  *)
(* is one, otherwise the first TRUE/FALSE answer, otherwise the newest     *)
(* attempt.                                                                *)
(***************************************************************************)
IsHead(h, i) ==
    /\ i \in DOMAIN h
    /\ \/ /\ Verdict(h[i])
          /\ \A j \in DOMAIN h : Verdict(h[j]) => j <= i
       \/ /\ \A j \in DOMAIN h : ~Verdict(h[j])
          /\ Answers(h[i])
          /\ \A j \in DOMAIN h : Answers(h[j]) => i <= j
       \/ /\ \A j \in DOMAIN h : ~Answers(h[j])
          /\ i = Len(h)

Init == /\ attempts = [k \in FactKeys |-> <<>>]
        /\ head = [k \in FactKeys |-> 0]

Record(k, a) ==
    /\ attempts' = [attempts EXCEPT ![k] = Append(@, a)]
    /\ \E i \in 1..Len(attempts[k]) + 1 :
          /\ IsHead(Append(attempts[k], a), i)
          /\ head' = [head EXCEPT ![k] = i]

Next == \E k \in FactKeys, a \in Attempt : Record(k, a)

Spec == Init /\ [][Next]_ledgerVars
=============================================================================
