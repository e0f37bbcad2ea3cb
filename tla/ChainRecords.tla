---------------------------- MODULE ChainRecords ----------------------------
(***************************************************************************)
(* The registry's records as somebody who polls them sees them: which      *)
(* requests, resolutions and facts there are and how they may change from  *)
(* one read to the next.  Who may call, fees, times and messages are left  *)
(* out.  EvidraRegistry implements this module; ChainIndexer polls it.     *)
(***************************************************************************)
EXTENDS Naturals, Sequences

CONSTANT FactKeys

VARIABLES
    requests,     \* requests[i]: the lifecycle fields of request i
    resolutions,  \* resolutions[i]: whom resolution i answers; never changes
    facts         \* facts[k]: canonical and newest resolution, 0 before the first

chainVars == <<requests, resolutions, facts>>

Terminal == {"RESOLVED", "REUSED", "CANCELLED"}

NoFact == [current |-> 0, latest |-> 0]

ChainInit == requests = <<>> /\ resolutions = <<>> /\ facts = [k \in FactKeys |-> NoFact]

CallbackDue(called) == IF called THEN "DISPATCHED" ELSE "NOT_REQUESTED"

\* A request appears: sent to the resolver, or answered from the fact.
Create(k, called, reused) ==
    /\ reused => facts[k].current # 0
    /\ requests' = Append(requests,
           [key |-> k, called |-> called,
            status |-> IF reused THEN "REUSED" ELSE "DISPATCHED",
            callback |-> IF reused THEN CallbackDue(called) ELSE "NOT_REQUESTED",
            resolution |-> IF reused THEN facts[k].current ELSE 0])
    /\ UNCHANGED <<resolutions, facts>>

\* An open request is answered; the answer may leave the canonical one in place.
Resolve(i, advances) ==
    LET q == requests[i]
        id == Len(resolutions) + 1
    IN  /\ q.status = "DISPATCHED"
        /\ facts[q.key].current = 0 => advances
        /\ resolutions' = Append(resolutions, [request |-> i, key |-> q.key])
        /\ facts' = [facts EXCEPT ![q.key].latest = id,
                                  ![q.key].current = IF advances THEN id ELSE @]
        /\ requests' = [requests EXCEPT ![i].status = "RESOLVED",
                                        ![i].callback = CallbackDue(q.called),
                                        ![i].resolution = id]

Cancel(i) ==
    /\ requests[i].status = "DISPATCHED"
    /\ requests' = [requests EXCEPT ![i].status = "CANCELLED"]
    /\ UNCHANGED <<resolutions, facts>>

\* The consumer reports, whenever it likes.
Report(i, succeeded) ==
    /\ requests[i].called
    /\ requests' = [requests EXCEPT
           ![i].callback = IF succeeded THEN "ACKNOWLEDGED" ELSE "FAILED_REPORTED"]
    /\ UNCHANGED <<resolutions, facts>>

\* The callback of an answered request is sent again, unless it was acknowledged.
CallAgain(i) ==
    /\ requests[i].status \in {"RESOLVED", "REUSED"}
    /\ requests[i].callback \in {"DISPATCHED", "FAILED_REPORTED"}
    /\ requests' = [requests EXCEPT ![i].callback = "DISPATCHED"]
    /\ UNCHANGED <<resolutions, facts>>

ChainNext ==
    \/ \E k \in FactKeys, called, reused \in BOOLEAN : Create(k, called, reused)
    \/ \E i \in DOMAIN requests :
          \/ \E advances \in BOOLEAN : Resolve(i, advances)
          \/ \E succeeded \in BOOLEAN : Report(i, succeeded)
          \/ Cancel(i)
          \/ CallAgain(i)

ChainSpec == ChainInit /\ [][ChainNext]_chainVars
=============================================================================
