------------------------- MODULE RegistryProperties -------------------------
(***************************************************************************)
(* What EvidraRegistry guarantees whoever calls it and whatever the        *)
(* resolvers submit.                                                       *)
(***************************************************************************)
EXTENDS EvidraRegistry

-----------------------------------------------------------------------------
(* Facts and their history. *)

AttemptOf(r) == [outcome |-> r.outcome, policyOk |-> r.policyOk]
AttemptsOf(k) == [n \in DOMAIN history[k] |-> AttemptOf(resolutions[history[k][n]])]

Ledger == INSTANCE FactLedger WITH
              attempts <- [k \in FactKeys |-> AttemptsOf(k)],
              head <- [k \in FactKeys |-> facts[k].version]

(***************************************************************************)
(* FactRecord is a denormalised copy of three other records: the canonical *)
(* resolution, the request that produced it, and the tail of the history.  *)
(* commit_resolution rewrites the whole record on every commit, carrying   *)
(* the old canonical fields over when the head does not advance; the copy  *)
(* must never mix fields of two resolutions.                               *)
(***************************************************************************)
FactMatchesRecords ==
    \A k \in FactKeys :
        LET f == facts[k]
        IN  IF f.exists
            THEN /\ f.current \in DOMAIN resolutions
                 /\ f.request \in DOMAIN requests
                 /\ history[k] # <<>>
                 /\ f.latest = history[k][Len(history[k])]
                 /\ LET r == resolutions[f.current]
                    IN  /\ r.key = k
                        /\ <<f.request, f.outcome, f.resolvedAt, f.validUntil, f.version>>
                           = <<r.request, r.outcome, r.committedAt, r.validUntil, r.version>>
                        /\ requests[r.request].key = k
            ELSE f = EmptyFact /\ history[k] = <<>>

(***************************************************************************)
(* Versions and supersedes links, computed from latest_resolution_id at    *)
(* commit time, describe exactly the per-fact history: version n is the    *)
(* n-th id in fact_history, it supersedes the (n-1)-th, ids and commit     *)
(* times grow along it, and every resolution is in the history of its own  *)
(* fact.                                                                   *)
(***************************************************************************)
HistoryIsChain ==
    /\ \A k \in FactKeys : \A n \in DOMAIN history[k] :
          LET id == history[k][n]
          IN  /\ id \in DOMAIN resolutions
              /\ resolutions[id].key = k
              /\ resolutions[id].version = n
              /\ n = 1 => resolutions[id].supersedes = 0
              /\ n > 1 => /\ resolutions[id].supersedes = history[k][n-1]
                          /\ history[k][n-1] < id
                          /\ resolutions[history[k][n-1]].committedAt <= resolutions[id].committedAt
    /\ \A id \in DOMAIN resolutions :
          LET r == resolutions[id]
          IN  r.version \in DOMAIN history[r.key] /\ history[r.key][r.version] = id

(***************************************************************************)
(* Each fact's attempts and canonical head evolve as the abstract ledger   *)
(* says: the head should_advance_canonical reaches one commit at a time is *)
(* the last policy-satisfied TRUE/FALSE of the whole history, or failing   *)
(* that the first TRUE/FALSE, or failing that the newest attempt; an       *)
(* UNRESOLVED or unsatisfied attempt never displaces an answer.            *)
(***************************************************************************)
LedgerSpec == Ledger!Spec

(***************************************************************************)
(* Once a consumer could read TRUE or FALSE from a fact, no later commit   *)
(* takes the fact back to UNRESOLVED, and whatever replaces that answer is *)
(* the newest attempt, policy-satisfied, of a request of the same fact.    *)
(***************************************************************************)
AnswersAreNotRetracted ==
    [][\A k \in FactKeys :
         (facts[k].exists /\ facts[k].outcome \in BooleanOutcomes /\ facts'[k] # facts[k]) =>
            /\ facts'[k].outcome \in BooleanOutcomes
            /\ facts'[k].current # facts[k].current =>
                  /\ facts'[k].current = facts'[k].latest
                  /\ facts'[k].version > facts[k].version
                  /\ resolutions'[facts'[k].current].policyOk]_facts

-----------------------------------------------------------------------------
(* Requests. *)

(***************************************************************************)
(* However late, repeated or stale the commits that arrive, a request ends *)
(* with at most one resolution: that of the attempt that was active, for   *)
(* its own fact; a cancelled or reused request has none of its own.        *)
(***************************************************************************)
OneResolutionPerRequest ==
    /\ \A id \in DOMAIN resolutions :
          LET r == resolutions[id]
          IN  /\ r.request \in DOMAIN requests
              /\ LET q == requests[r.request]
                 IN  /\ q.status = "RESOLVED"
                     /\ <<q.resolution, q.attempt, q.key>> = <<id, r.attempt, r.key>>
    /\ \A rid \in DOMAIN requests :
          LET q == requests[rid]
          IN  /\ q.status = "RESOLVED" =>
                    /\ q.resolution \in DOMAIN resolutions
                    /\ resolutions[q.resolution].request = rid
              /\ q.status \in Open \cup {"CANCELLED"} => q.resolution = 0

(***************************************************************************)
(* A resolved, reused or cancelled request is final: retries, cancels and  *)
(* commits that come later change none of its fields; only its callback    *)
(* status may still move.                                                  *)
(***************************************************************************)
TerminalIsFinal ==
    [][\A rid \in DOMAIN requests :
         requests[rid].status \in Terminal =>
            /\ rid \in DOMAIN requests'
            /\ requests'[rid] = [requests[rid] EXCEPT !.callback = requests'[rid].callback]
      ]_requests

(***************************************************************************)
(* Every attempt a dispatched request counts was sent to its resolver,     *)
(* exactly the attempts it counts, never more than the max_attempts it was *)
(* created with, even if set_fee_config lowered the limit in between; a    *)
(* reused request sends none.                                              *)
(***************************************************************************)
JobsMatchAttempts ==
    /\ \A rid \in DOMAIN requests :
          LET q == requests[rid]
          IN  /\ q.attempts <= q.maxAttempts
              /\ {j \in jobs : j.request = rid}
                 = {[request |-> rid, attempt |-> n, resolver |-> q.resolver] : n \in 1..q.attempts}
              /\ IF q.status = "REUSED" THEN q.attempts = 0 ELSE q.attempts = q.attempt
    /\ \A j \in jobs : j.request \in DOMAIN requests

(***************************************************************************)
(* A reused answer was, when the request was made, a TRUE or FALSE of the  *)
(* same fact that had not expired and was no older than the ttl the        *)
(* requester asked for, judged by the resolution's own record.             *)
(***************************************************************************)
ReusedAnswersWereFresh ==
    \A rid \in DOMAIN requests :
        LET q == requests[rid]
            r == resolutions[q.resolution]
        IN  q.status = "REUSED" =>
                /\ q.resolution \in DOMAIN resolutions
                /\ r.key = q.key
                /\ r.outcome \in BooleanOutcomes
                /\ r.committedAt <= q.createdAt
                /\ q.key \in MutableKeys => /\ q.createdAt <= r.validUntil
                                            /\ q.createdAt - r.committedAt <= q.ttl

(***************************************************************************)
(* Administration decides what work starts, whichever of the five entry    *)
(* points starts it: a request appears only while new requests are not     *)
(* paused and its policy is active, and a job goes out only to a resolver  *)
(* enabled at that moment, also on the retry of a request that was         *)
(* assigned a resolver long before.                                        *)
(***************************************************************************)
NewWorkIsAdmitted ==
    [][/\ Len(requests') > Len(requests) =>
             ~paused /\ requests'[Len(requests')].key \in activePolicies
       /\ \A j \in jobs' \ jobs : resolvers[j.resolver] = "enabled"]_<<requests, jobs>>

\* The registry as its readers see it: the fields their mirror follows.
Visible(q) == [key |-> q.key, called |-> q.target # ZERO, status |-> q.status,
               callback |-> q.callback, resolution |-> q.resolution]

Chain == INSTANCE ChainRecords WITH
             requests <- [i \in DOMAIN requests |-> Visible(requests[i])],
             resolutions <- [id \in DOMAIN resolutions |->
                 [request |-> resolutions[id].request, key |-> resolutions[id].key]],
             facts <- [k \in FactKeys |->
                 [current |-> facts[k].current, latest |-> facts[k].latest]]

(***************************************************************************)
(* Whoever calls, a reader who polls sees only the steps of ChainRecords:  *)
(* identifiers grow by one, a request is answered or cancelled once, a     *)
(* resolution never changes, the callback status alone moves afterwards.   *)
(* It is what the indexer's choice of records to read again rests on.      *)
(***************************************************************************)
ChainSpec == Chain!ChainSpec

-----------------------------------------------------------------------------
(* Callbacks. *)

(***************************************************************************)
(* A callback is emitted from three places (commit, reuse, retry), from    *)
(* three different records.  Its id depends on request, resolution and     *)
(* target only, and consumers drop a second message with the same id, so   *)
(* all three must agree: every callback carries its resolution's own       *)
(* record, and goes out for the result its request ended with.             *)
(***************************************************************************)
CallbacksAgree ==
    \A m \in callbacks :
        /\ m.request \in DOMAIN requests
        /\ m.resolution \in DOMAIN resolutions
        /\ LET q == requests[m.request]
               r == resolutions[m.resolution]
           IN  /\ q.status \in {"RESOLVED", "REUSED"}
               /\ <<m.resolution, m.target>> = <<q.resolution, q.target>>
               /\ <<m.key, m.outcome, m.resolvedAt, m.validUntil>>
                  = <<r.key, r.outcome, r.committedAt, r.validUntil>>

(***************************************************************************)
(* Every request that ended with a result and has a target has had its     *)
(* callback emitted, and does not claim none was requested; a target that  *)
(* reports early (mark_callback_result checks no status) cannot suppress   *)
(* it.                                                                     *)
(***************************************************************************)
ResultsAreCalledBack ==
    \A rid \in DOMAIN requests :
        LET q == requests[rid]
        IN  (q.status \in {"RESOLVED", "REUSED"} /\ q.target # ZERO) =>
                /\ q.callback # "NOT_REQUESTED"
                /\ \E m \in callbacks : m.request = rid /\ m.resolution = q.resolution

-----------------------------------------------------------------------------
(* Money. *)

\* Fees the contract holds: those of requests that were not cancelled.
FeesHeld == SumFunction([rid \in DOMAIN requests |-> requests[rid].fee])

(***************************************************************************)
(* The value the contract holds is exactly what it owes or earned: credits *)
(* not withdrawn, transfers not finalized, and the fees of requests that   *)
(* were not refunded.  No overpayment, refund, retry or withdrawal loses   *)
(* value or pays it twice.                                                 *)
(***************************************************************************)
FundsConserved == balance = SumFunction(credits) + SumFunction(transfers) + FeesHeld
=============================================================================
