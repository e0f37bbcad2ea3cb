--------------------------- MODULE RequestProofs ---------------------------
(***************************************************************************)
(* Proofs about the request lifecycle, for every value of the constants: a *)
(* request ends with at most one resolution, its own, and what has ended   *)
(* stays as it is; the messages to its resolver are the attempts it        *)
(* counts; work starts as administration allows; reused answers were       *)
(* fresh, and callbacks carry the answer and are always sent; and whoever  *)
(* polls the registry sees the steps of ChainRecords.                      *)
(***************************************************************************)
EXTENDS RegistryProofs

-----------------------------------------------------------------------------
(* One resolution per request. *)

\* OneResolutionPerRequest is inductive relative to the types.
RequestInv == TypeInv /\ OneResolutionPerRequest

LEMMA InitRequestInv == Init => RequestInv
<1> SUFFICES ASSUME Init PROVE RequestInv
  OBVIOUS
<1>1. DOMAIN requests = {} /\ DOMAIN resolutions = {}
  BY DEF Init
<1>2. OneResolutionPerRequest
  BY <1>1 DEF OneResolutionPerRequest
<1>3. QED
  BY <1>2, InitTypeInv DEF RequestInv

\* What no step but a commit does: change what a request was answered with.
SameAnswer(q, r) ==
    /\ r.key = q.key /\ r.resolution = q.resolution
    /\ \/ q.status \in Open /\ r.status \in Open \cup {"CANCELLED"}
       \/ r.status = q.status /\ r.attempt = q.attempt

LEMMA SameAnswerStep ==
    ASSUME RequestInv, NEW rid \in DOMAIN requests, NEW r \in Request,
           requests' = [requests EXCEPT ![rid] = r],
           SameAnswer(requests[rid], r), UNCHANGED resolutions
    PROVE  OneResolutionPerRequest'
<1>1. /\ DOMAIN requests' = DOMAIN requests
      /\ requests'[rid] = r
      /\ \A i \in DOMAIN requests \ {rid} : requests'[i] = requests[i]
  BY ReplaceFacts DEF RequestInv, TypeInv, TypeOK
<1>2. OneResolutionPerRequest
  BY DEF RequestInv
<1>3. ASSUME NEW i \in DOMAIN requests
      PROVE  SameAnswer(requests[i], requests'[i]) \/ requests'[i] = requests[i]
  BY <1>1
<1>4. ASSUME NEW id \in DOMAIN resolutions'
      PROVE  LET v == resolutions'[id]
             IN  /\ v.request \in DOMAIN requests'
                 /\ requests'[v.request].status = "RESOLVED"
                 /\ <<requests'[v.request].resolution, requests'[v.request].attempt,
                      requests'[v.request].key>> = <<id, v.attempt, v.key>>
  <2> DEFINE v == resolutions[id]
             q == requests[v.request]
  <2>1. /\ v.request \in DOMAIN requests /\ q.status = "RESOLVED"
        /\ <<q.resolution, q.attempt, q.key>> = <<id, v.attempt, v.key>>
    BY <1>2 DEF OneResolutionPerRequest
  <2>2. SameAnswer(q, requests'[v.request]) \/ requests'[v.request] = q
    BY <1>3, <2>1
  <2>3. QED
    BY <1>1, <2>1, <2>2 DEF SameAnswer, Open
<1>5. ASSUME NEW i \in DOMAIN requests'
      PROVE  LET p == requests'[i]
             IN  /\ p.status = "RESOLVED" => /\ p.resolution \in DOMAIN resolutions'
                                             /\ resolutions'[p.resolution].request = i
                 /\ p.status \in Open \cup {"CANCELLED"} => p.resolution = 0
  BY <1>1, <1>2, <1>3 DEF SameAnswer, Open, OneResolutionPerRequest
<1>6. QED
  BY <1>4, <1>5 DEF OneResolutionPerRequest

\* A step that leaves requests and resolutions alone keeps the invariant.
LEMMA RequestSideStep ==
    ASSUME RequestInv, UNCHANGED <<requests, resolutions>>
    PROVE  OneResolutionPerRequest'
  BY DEF RequestInv, OneResolutionPerRequest

\* What a new request looks like: still open, or answered with a known resolution.
LEMMA CreatedRequest ==
    ASSUME TypeInv,
           NEW sender \in Accounts, NEW k \in FactKeys, NEW ttl \in Nat, NEW mode \in ReuseModes,
           NEW target \in Targets, NEW value \in Nat,
           CreateRequest(sender, k, ttl, mode, target, value)
    PROVE  /\ UNCHANGED factVars
           /\ \E r \in Request : /\ requests' = Append(requests, r)
                                 /\ \/ r.status = "DISPATCHED" /\ r.resolution = 0
                                    \/ r.status = "REUSED"
<1> DEFINE hit == CanReuse(k, mode, ttl)
           q == NewRequest(sender, k, ttl, target, Quote(hit))
           first == [q EXCEPT !.attempts = 1]
<1>1. TypeOK /\ References
  BY DEF TypeInv
<1>2. hit \in BOOLEAN /\ Quote(hit) \in Nat
  BY <1>1, QuoteType DEF CanReuse, FreshnessAllowsReuse
<1>3. q \in Request /\ q.key = k /\ q.resolution = 0
  BY <1>1, <1>2, NewRequestType DEF CreateRequest, NewRequest
<1>4. CASE hit
  <2>1. requests' = Append(requests, Answered(q, "REUSED", facts[k].current))
    BY <1>3, <1>4 DEF CreateRequest, AnswerFromFact
  <2>2. facts[k] \in Fact
    BY <1>1 DEF TypeOK
  <2>3. Answered(q, "REUSED", facts[k].current) \in Request
    BY <1>1, <1>3, <2>2, RequestUpdates DEF Fact
  <2>4. Answered(q, "REUSED", facts[k].current).status = "REUSED"
    BY <1>3 DEF Answered, Request
  <2>5. QED
    BY <2>1, <2>3, <2>4 DEF CreateRequest
<1>5. CASE ~hit
  <2>1. requests' = Append(requests, Dispatched(first))
    BY <1>5 DEF CreateRequest, DispatchNew
  <2>2. first \in Request /\ Dispatched(first) \in Request
    BY <1>1, <1>3, RequestUpdates
  <2>3. Dispatched(first).status = "DISPATCHED" /\ Dispatched(first).resolution = 0
    BY <1>3 DEF Dispatched, Request
  <2>4. QED
    BY <2>1, <2>2, <2>3 DEF CreateRequest
<1>6. QED
  BY <1>2, <1>4, <1>5

LEMMA CreateKeepsOne ==
    ASSUME RequestInv,
           NEW sender \in Accounts, NEW k \in FactKeys, NEW ttl \in Nat, NEW mode \in ReuseModes,
           NEW target \in Targets, NEW value \in Nat,
           CreateRequest(sender, k, ttl, mode, target, value)
    PROVE  OneResolutionPerRequest'
<1>1. TypeInv /\ OneResolutionPerRequest /\ requests \in Seq(Request)
  BY DEF RequestInv, TypeInv, TypeOK
<1>2. UNCHANGED resolutions
  BY <1>1, CreatedRequest DEF factVars
<1>3. PICK r \in Request : /\ requests' = Append(requests, r)
                           /\ \/ r.status = "DISPATCHED" /\ r.resolution = 0
                              \/ r.status = "REUSED"
  BY <1>1, CreatedRequest
<1>4. /\ DOMAIN requests \subseteq DOMAIN requests'
      /\ \A i \in DOMAIN requests' : i \in DOMAIN requests \/ requests'[i] = r
      /\ \A i \in DOMAIN requests : requests'[i] = requests[i]
  BY <1>1, <1>3, AppendFacts
<1>5. QED
  BY <1>1, <1>2, <1>3, <1>4 DEF OneResolutionPerRequest, Open

LEMMA DriveKeepsOne ==
    ASSUME RequestInv, DriveNext
    PROVE  OneResolutionPerRequest'
<1>1. TypeInv
  BY DEF RequestInv
<1>2. PICK rid \in DOMAIN requests :
        \/ \E sender \in Accounts, value \in Values : RetryResolution(sender, rid, value)
        \/ \E sender \in Accounts : CancelStaleRequest(sender, rid)
        \/ \E sender \in Accounts : RequestCallbackRetry(sender, rid)
        \/ \E sender \in Consumers, succeeded \in BOOLEAN :
              MarkCallbackResult(sender, rid, succeeded)
  BY DEF DriveNext
<1> DEFINE q == requests[rid]
<1>3. TypeOK /\ q \in Request
  BY <1>1, RequestAt
<1>4. ASSUME NEW sender \in Accounts, NEW value \in Values, RetryResolution(sender, rid, value)
      PROVE  OneResolutionPerRequest'
  <2> DEFINE n == NextAttempt(q)
             r == Dispatched(n)
  <2>1. n \in Request /\ r \in Request
    BY <1>3, RequestUpdates
  <2>2. n.key = q.key /\ n.resolution = q.resolution
    BY <1>3 DEF NextAttempt, Request
  <2>3. r.key = n.key /\ r.resolution = n.resolution /\ r.status = "DISPATCHED"
    BY <2>1 DEF Dispatched, Request
  <2>4. SameAnswer(q, r)
    BY <1>4, <2>2, <2>3 DEF SameAnswer, RetryResolution, Open
  <2>5. requests' = [requests EXCEPT ![rid] = r] /\ UNCHANGED resolutions
    BY <1>4 DEF RetryResolution, factVars
  <2>6. QED
    BY <2>1, <2>4, <2>5, SameAnswerStep
<1>5. ASSUME NEW sender \in Accounts, CancelStaleRequest(sender, rid)
      PROVE  OneResolutionPerRequest'
  <2>1. Cancelled(q) \in Request
    BY <1>3, RequestUpdates
  <2>2. SameAnswer(q, Cancelled(q))
    BY <1>3, <1>5 DEF SameAnswer, CancelStaleRequest, Cancelled, Request
  <2>3. requests' = [requests EXCEPT ![rid] = Cancelled(q)] /\ UNCHANGED resolutions
    BY <1>5 DEF CancelStaleRequest, factVars
  <2>4. QED
    BY <2>1, <2>2, <2>3, SameAnswerStep
<1>6. ASSUME NEW sender \in Accounts, RequestCallbackRetry(sender, rid)
      PROVE  OneResolutionPerRequest'
  <2> DEFINE r == [q EXCEPT !.callback = CallbackStatus(q)]
  <2>1. r \in Request
    BY <1>3, RequestUpdates
  <2>2. SameAnswer(q, r)
    BY <1>3 DEF SameAnswer, Request
  <2>3. requests' = [requests EXCEPT ![rid] = r] /\ UNCHANGED resolutions
    BY <1>6 DEF RequestCallbackRetry, factVars
  <2>4. QED
    BY <2>1, <2>2, <2>3, SameAnswerStep
<1>7. ASSUME NEW sender \in Consumers, NEW succeeded \in BOOLEAN,
             MarkCallbackResult(sender, rid, succeeded)
      PROVE  OneResolutionPerRequest'
  <2>1. Reported(q, succeeded) \in Request
    BY <1>3, RequestUpdates
  <2>2. SameAnswer(q, Reported(q, succeeded))
    BY <1>3 DEF SameAnswer, Reported, Request
  <2>3. requests' = [requests EXCEPT ![rid] = Reported(q, succeeded)] /\ UNCHANGED resolutions
    BY <1>7 DEF MarkCallbackResult, factVars
  <2>4. QED
    BY <2>1, <2>2, <2>3, SameAnswerStep
<1>8. QED
  BY <1>2, <1>4, <1>5, <1>6, <1>7

LEMMA CommitKeepsOne ==
    ASSUME RequestInv, NEW sender \in Resolvers, NEW rid \in DOMAIN requests, NEW c \in Commit,
           CommitResolution(sender, rid, c)
    PROVE  OneResolutionPerRequest'
<1> DEFINE q == requests[rid]
           resid == Len(resolutions) + 1
           r == CommittedResolution(rid, q, c)
           a == Answered(q, "RESOLVED", resid)
<1>1. TypeOK /\ TypeInv' /\ q \in Request /\ rid \in Nat /\ OneResolutionPerRequest
  BY RequestAt, CommitStep DEF RequestInv
<1>2. /\ resolutions' = Append(resolutions, r)
      /\ requests' = [requests EXCEPT ![rid] = a]
      /\ q.status \in Open /\ c.attempt = q.attempt
  BY DEF CommitResolution, CommitAccepted
<1>3. r.request = rid /\ r.attempt = q.attempt /\ r.key = q.key
  BY <1>2 DEF CommittedResolution
<1>4. /\ DOMAIN resolutions = 1..Len(resolutions) /\ Len(resolutions) \in Nat
      /\ DOMAIN resolutions' = DOMAIN resolutions \cup {resid}
      /\ resolutions'[resid] = r
      /\ \A id \in DOMAIN resolutions : resolutions'[id] = resolutions[id]
  <2>1. resolutions \in Seq(Resolution) /\ r \in Resolution
    <3>1. resolutions \in Seq(Resolution)
      BY <1>1 DEF TypeOK
    <3>2. resolutions' \in Seq(Resolution)
      BY <1>1 DEF TypeInv, TypeOK
    <3>3. resolutions'[Len(resolutions) + 1] = r /\ Len(resolutions) + 1 \in DOMAIN resolutions'
      BY <1>2, <3>1
    <3>4. r \in Resolution
      BY <3>2, <3>3
    <3>5. QED
      BY <3>1, <3>4
  <2>2. QED
    BY <1>2, <2>1, AppendFacts
<1>5. a \in Request
  <2>1. resid \in Nat
    BY <1>4
  <2>2. QED
    BY <1>1, <2>1, RequestUpdates
<1>6. a.status = "RESOLVED" /\ a.resolution = resid /\ a.attempt = q.attempt /\ a.key = q.key
  BY <1>1 DEF Answered, Request
<1>7. /\ DOMAIN requests' = DOMAIN requests
      /\ requests'[rid] = a
      /\ \A i \in DOMAIN requests \ {rid} : requests'[i] = requests[i]
  BY <1>1, <1>2, <1>5, ReplaceFacts DEF TypeOK
<1>8. \A id \in DOMAIN resolutions : resolutions[id].request # rid
  BY <1>1, <1>2 DEF OneResolutionPerRequest, Open
<1>9. ASSUME NEW id \in DOMAIN resolutions'
      PROVE  LET v == resolutions'[id]
             IN  /\ v.request \in DOMAIN requests'
                 /\ requests'[v.request].status = "RESOLVED"
                 /\ <<requests'[v.request].resolution, requests'[v.request].attempt,
                      requests'[v.request].key>> = <<id, v.attempt, v.key>>
  <2>1. CASE id = resid
    BY <1>3, <1>4, <1>6, <1>7, <2>1
  <2>2. CASE id \in DOMAIN resolutions
    BY <1>1, <1>4, <1>7, <1>8, <2>2 DEF OneResolutionPerRequest
  <2>3. QED
    BY <1>4, <2>1, <2>2
<1>10. ASSUME NEW i \in DOMAIN requests'
       PROVE  LET p == requests'[i]
              IN  /\ p.status = "RESOLVED" => /\ p.resolution \in DOMAIN resolutions'
                                              /\ resolutions'[p.resolution].request = i
                  /\ p.status \in Open \cup {"CANCELLED"} => p.resolution = 0
  <2>1. CASE i = rid
    BY <1>3, <1>4, <1>6, <1>7, <2>1 DEF Open
  <2>2. CASE i # rid
    BY <1>1, <1>4, <1>7, <2>2 DEF OneResolutionPerRequest
  <2>3. QED
    BY <2>1, <2>2
<1>11. QED
  BY <1>9, <1>10 DEF OneResolutionPerRequest

LEMMA NextKeepsOne ==
    ASSUME RequestInv, [Next]_vars
    PROVE  OneResolutionPerRequest'
<1>1. TypeInv
  BY DEF RequestInv
<1>2. CASE UNCHANGED vars
  BY <1>2, RequestSideStep DEF vars, factVars
<1>3. CASE CreateNext
  <2>1. PICK sender \in Accounts, k \in FactKeys, target \in Targets, value \in Values :
          \/ \E ttl \in Ttls, mode \in ReuseModes :
                \/ RequestFact(sender, k, ttl, mode, target, value)
                \/ RequestFactByTemplate(sender, k, ttl, mode, target, value)
          \/ RefreshFact(sender, k, target, value)
          \/ RequestReassessment(sender, k, target, value)
    BY <1>3 DEF CreateNext
  <2>2. \E key \in FactKeys, ttl \in Nat, mode \in ReuseModes :
            CreateRequest(sender, key, ttl, mode, target, value)
    BY <1>1, <2>1, CreateArguments
  <2>3. value \in Nat
    BY RegistryConstants
  <2>4. QED
    BY <2>2, <2>3, CreateKeepsOne
<1>4. CASE DriveNext
  BY <1>4, DriveKeepsOne
<1>5. CASE CommitNext
  BY <1>1, <1>5, CommitArguments, CommitKeepsOne
<1>6. CASE \E who \in Accounts : WithdrawCredit(who)
  BY <1>6, RequestSideStep DEF WithdrawCredit, factVars
<1>7. CASE \E sender \in Accounts : Administer(sender)
  BY <1>7, RequestSideStep DEF Administer, factVars
<1>8. CASE SurroundingsNext
  BY <1>8, RequestSideStep DEF SurroundingsNext, DeprecatePolicy, DeprecateTemplate,
                               FinalizeTransfer, Tick, factVars
<1>9. QED
  BY <1>2, <1>3, <1>4, <1>5, <1>6, <1>7, <1>8 DEF Next

LEMMA RequestInvariant == Spec => []RequestInv
<1>1. RequestInv /\ [Next]_vars => RequestInv'
  BY NextTypeInv, NextKeepsOne DEF RequestInv
<1>2. QED
  BY <1>1, InitRequestInv, PTL DEF Spec

(***************************************************************************)
(* However many requests, retries, cancels and late commits: a request has *)
(* at most one resolution, the one its active attempt committed.           *)
(***************************************************************************)
THEOREM AtMostOneResolution == Spec => []OneResolutionPerRequest
<1>1. RequestInv => OneResolutionPerRequest
  BY DEF RequestInv
<1>2. QED
  BY <1>1, RequestInvariant, PTL

-----------------------------------------------------------------------------
(* What has ended stays as it is. *)

Final(rid) ==
    requests[rid].status \in Terminal =>
        /\ rid \in DOMAIN requests'
        /\ requests'[rid] = [requests[rid] EXCEPT !.callback = requests'[rid].callback]

\* Rewriting the callback status with itself, or once over, changes nothing else.
LEMMA CallbackField ==
    ASSUME NEW q \in Request, NEW s \in CallbackStatuses
    PROVE  /\ q = [q EXCEPT !.callback = q.callback]
           /\ [q EXCEPT !.callback = s] = [q EXCEPT !.callback = [q EXCEPT !.callback = s].callback]
  BY DEF Request

\* An untouched request is final; so is one of which only the callback changed.
LEMMA ReplaceFinal ==
    ASSUME TypeInv, NEW rid \in DOMAIN requests, NEW r \in Request,
           requests' = [requests EXCEPT ![rid] = r],
           \/ requests[rid].status \in Open
           \/ \E s \in CallbackStatuses : r = [requests[rid] EXCEPT !.callback = s]
    PROVE  \A i \in DOMAIN requests : Final(i)
<1>1. /\ DOMAIN requests' = DOMAIN requests
      /\ requests'[rid] = r
      /\ \A i \in DOMAIN requests \ {rid} : requests'[i] = requests[i]
  BY ReplaceFacts DEF TypeInv, TypeOK
<1>2. ASSUME NEW i \in DOMAIN requests, i # rid PROVE Final(i)
  <2>1. requests[i] \in Request
    BY RequestAt
  <2>2. requests[i] = [requests[i] EXCEPT !.callback = requests[i].callback]
    <3>1. requests[i].callback \in CallbackStatuses
      BY <2>1 DEF Request
    <3>2. QED
      BY <2>1, <3>1, CallbackField
  <2>3. QED
    BY <1>1, <1>2, <2>2 DEF Final
<1>3. Final(rid)
  <2>1. CASE requests[rid].status \in Open
    BY <2>1 DEF Final, Open, Terminal
  <2>2. CASE \E s \in CallbackStatuses : r = [requests[rid] EXCEPT !.callback = s]
    <3>1. requests[rid] \in Request
      BY RequestAt
    <3>2. r = [requests[rid] EXCEPT !.callback = r.callback]
      BY <2>2, <3>1, CallbackField
    <3>3. QED
      BY <1>1, <3>2 DEF Final
  <2>3. QED
    BY <2>1, <2>2
<1>4. QED
  BY <1>2, <1>3

LEMMA SideFinal ==
    ASSUME TypeInv, UNCHANGED requests
    PROVE  \A i \in DOMAIN requests : Final(i)
<1>1. ASSUME NEW i \in DOMAIN requests PROVE Final(i)
  <2>1. requests[i] \in Request
    BY RequestAt
  <2>2. requests[i].callback \in CallbackStatuses
    BY <2>1 DEF Request
  <2>3. requests[i] = [requests[i] EXCEPT !.callback = requests[i].callback]
    BY <2>1, <2>2, CallbackField
  <2>4. QED
    BY <2>3 DEF Final
<1>2. QED
  BY <1>1

LEMMA NextFinal ==
    ASSUME TypeInv, [Next]_vars
    PROVE  \A i \in DOMAIN requests : Final(i)
<1>1. CASE UNCHANGED vars
  BY <1>1, SideFinal DEF vars
<1>2. CASE CreateNext
  <2>1. PICK sender \in Accounts, k \in FactKeys, target \in Targets, value \in Values :
          \/ \E ttl \in Ttls, mode \in ReuseModes :
                \/ RequestFact(sender, k, ttl, mode, target, value)
                \/ RequestFactByTemplate(sender, k, ttl, mode, target, value)
          \/ RefreshFact(sender, k, target, value)
          \/ RequestReassessment(sender, k, target, value)
    BY <1>2 DEF CreateNext
  <2>2. \E key \in FactKeys, ttl \in Nat, mode \in ReuseModes :
            CreateRequest(sender, key, ttl, mode, target, value)
    BY <2>1, CreateArguments
  <2>3. \E r \in Request : requests' = Append(requests, r)
    BY <2>2, CreatedRequest, RegistryConstants
  <2>4. requests \in Seq(Request)
    BY DEF TypeInv, TypeOK
  <2>5. \A i \in DOMAIN requests : i \in DOMAIN requests' /\ requests'[i] = requests[i]
    BY <2>3, <2>4, AppendFacts
  <2>6. ASSUME NEW i \in DOMAIN requests PROVE Final(i)
    <3>1. requests[i] \in Request
      BY RequestAt
    <3>2. requests[i].callback \in CallbackStatuses
      BY <3>1 DEF Request
    <3>3. requests[i] = [requests[i] EXCEPT !.callback = requests[i].callback]
      BY <3>1, <3>2, CallbackField
    <3>4. QED
      BY <2>5, <3>3 DEF Final
  <2>7. QED
    BY <2>6
<1>3. CASE DriveNext
  <2>1. PICK rid \in DOMAIN requests :
          \/ \E sender \in Accounts, value \in Values : RetryResolution(sender, rid, value)
          \/ \E sender \in Accounts : CancelStaleRequest(sender, rid)
          \/ \E sender \in Accounts : RequestCallbackRetry(sender, rid)
          \/ \E sender \in Consumers, succeeded \in BOOLEAN :
                MarkCallbackResult(sender, rid, succeeded)
    BY <1>3 DEF DriveNext
  <2> DEFINE q == requests[rid]
  <2>2. TypeOK /\ q \in Request
    BY RequestAt
  <2>3. NextAttempt(q) \in Request
    BY <2>2, RequestUpdates
  <2>4. CASE \E sender \in Accounts, value \in Values : RetryResolution(sender, rid, value)
    <3>1. Dispatched(NextAttempt(q)) \in Request
      BY <2>2, <2>3, RequestUpdates
    <3>2. requests' = [requests EXCEPT ![rid] = Dispatched(NextAttempt(q))] /\ q.status \in Open
      BY <2>4 DEF RetryResolution
    <3>3. QED
      BY <3>1, <3>2, ReplaceFinal
  <2>5. CASE \E sender \in Accounts : CancelStaleRequest(sender, rid)
    <3>1. Cancelled(q) \in Request
      BY <2>2, RequestUpdates
    <3>2. requests' = [requests EXCEPT ![rid] = Cancelled(q)] /\ q.status \in Open
      BY <2>5 DEF CancelStaleRequest
    <3>3. QED
      BY <3>1, <3>2, ReplaceFinal
  <2>6. CASE \E sender \in Accounts : RequestCallbackRetry(sender, rid)
    <3> DEFINE r == [q EXCEPT !.callback = CallbackStatus(q)]
    <3>1. r \in Request
      BY <2>2, RequestUpdates
    <3>2. requests' = [requests EXCEPT ![rid] = r]
      BY <2>6 DEF RequestCallbackRetry
    <3>3. CallbackStatus(q) \in CallbackStatuses
      BY DEF CallbackStatus, CallbackStatuses
    <3>4. QED
      BY <3>1, <3>2, <3>3, ReplaceFinal
  <2>7. CASE \E sender \in Consumers, succeeded \in BOOLEAN :
               MarkCallbackResult(sender, rid, succeeded)
    <3>1. PICK succeeded \in BOOLEAN : requests' = [requests EXCEPT ![rid] = Reported(q, succeeded)]
      BY <2>7 DEF MarkCallbackResult
    <3>2. Reported(q, succeeded) \in Request
      BY <2>2, RequestUpdates
    <3>3. \E s \in CallbackStatuses : Reported(q, succeeded) = [q EXCEPT !.callback = s]
      BY DEF Reported, CallbackStatuses
    <3>4. QED
      BY <3>1, <3>2, <3>3, ReplaceFinal
  <2>8. QED
    BY <2>1, <2>4, <2>5, <2>6, <2>7
<1>4. CASE CommitNext
  <2>1. PICK sender \in Resolvers, rid \in DOMAIN requests, c \in Commit :
          CommitResolution(sender, rid, c)
    BY <1>4, CommitArguments
  <2> DEFINE q == requests[rid]
             a == Answered(q, "RESOLVED", Len(resolutions) + 1)
  <2>2. TypeOK /\ q \in Request
    BY RequestAt
  <2>3. Len(resolutions) + 1 \in Nat
    BY <2>2, LenProperties DEF TypeOK
  <2>4. a \in Request
    BY <2>2, <2>3, RequestUpdates
  <2>5. requests' = [requests EXCEPT ![rid] = a] /\ q.status \in Open
    BY <2>1 DEF CommitResolution, CommitAccepted
  <2>6. QED
    BY <2>4, <2>5, ReplaceFinal
<1>5. CASE \E who \in Accounts : WithdrawCredit(who)
  BY <1>5, SideFinal DEF WithdrawCredit
<1>6. CASE \E sender \in Accounts : Administer(sender)
  BY <1>6, SideFinal DEF Administer
<1>7. CASE SurroundingsNext
  BY <1>7, SideFinal DEF SurroundingsNext, DeprecatePolicy, DeprecateTemplate,
                         FinalizeTransfer, Tick
<1>8. QED
  BY <1>1, <1>2, <1>3, <1>4, <1>5, <1>6, <1>7 DEF Next

(***************************************************************************)
(* No call changes a request that was resolved, reused or cancelled, but   *)
(* for its callback status.                                                *)
(***************************************************************************)
THEOREM EndedRequestsStay == Spec => TerminalIsFinal
<1>1. TypeInv /\ [Next]_vars =>
        [\A rid \in DOMAIN requests :
           requests[rid].status \in Terminal =>
              /\ rid \in DOMAIN requests'
              /\ requests'[rid] = [requests[rid] EXCEPT !.callback = requests'[rid].callback]
        ]_requests
  BY NextFinal DEF Final
<1>2. Spec => []TypeInv
  BY InitTypeInv, NextTypeInv, PTL DEF Spec
<1>3. QED
  BY <1>1, <1>2, PTL DEF Spec, TerminalIsFinal

-----------------------------------------------------------------------------
(* What each call does to its request, and the messages it sends. *)

\* Request rid is new, answered from the fact or sent to the default resolver.
CreatedAs(rid, k, ttl, mode, target) ==
    LET f == facts[k]
        r == requests'[rid]
    IN  /\ rid \in Nat /\ rid \notin DOMAIN requests
        /\ DOMAIN requests' = DOMAIN requests \cup {rid}
        /\ \A i \in DOMAIN requests : requests'[i] = requests[i]
        /\ Len(requests') = rid
        /\ r \in Request
        /\ r.key = k /\ r.ttl = ttl /\ r.createdAt = now /\ r.target = target
        /\ r.attempt = 1 /\ r.resolver = defaultResolver
        /\ r.maxAttempts = fees.maxAttempts
        /\ \/ /\ CanReuse(k, mode, ttl)
              /\ r.status = "REUSED" /\ r.attempts = 0 /\ r.resolution = f.current
              /\ r.callback = IF target = ZERO THEN "NOT_REQUESTED" ELSE "DISPATCHED"
              /\ jobs' = jobs
              /\ callbacks' = callbacks \cup
                   IF target = ZERO THEN {}
                   ELSE {[target |-> target, request |-> rid, key |-> k,
                          resolution |-> f.current, outcome |-> f.outcome,
                          resolvedAt |-> f.resolvedAt, validUntil |-> f.validUntil]}
           \/ /\ r.status = "DISPATCHED" /\ r.attempts = 1 /\ r.resolution = 0
              /\ r.callback = "NOT_REQUESTED"
              /\ jobs' = jobs \cup {[request |-> rid, attempt |-> 1,
                                     resolver |-> defaultResolver]}
              /\ callbacks' = callbacks

LEMMA CreateEffects ==
    ASSUME TypeInv,
           NEW sender \in Accounts, NEW k \in FactKeys, NEW ttl \in Nat, NEW mode \in ReuseModes,
           NEW target \in Targets, NEW value \in Nat,
           CreateRequest(sender, k, ttl, mode, target, value),
           NEW rid, rid = Len(requests) + 1
    PROVE  CreatedAs(rid, k, ttl, mode, target)
<1> DEFINE hit == CanReuse(k, mode, ttl)
           q == NewRequest(sender, k, ttl, target, Quote(hit))
           f == facts[k]
<1>1. TypeOK /\ References /\ requests \in Seq(Request)
  BY DEF TypeInv, TypeOK
<1>2. hit \in BOOLEAN /\ Quote(hit) \in Nat
  BY <1>1, QuoteType DEF CanReuse, FreshnessAllowsReuse
<1>3. /\ q \in Request
      /\ q.key = k /\ q.ttl = ttl /\ q.createdAt = now /\ q.target = target
      /\ q.attempt = 1 /\ q.attempts = 0 /\ q.resolver = defaultResolver
      /\ q.maxAttempts = fees.maxAttempts
      /\ q.resolution = 0 /\ q.callback = "NOT_REQUESTED"
  BY <1>1, <1>2, NewRequestType DEF CreateRequest, NewRequest
<1>4. ASSUME NEW r \in Request, requests' = Append(requests, r)
      PROVE  /\ rid \in Nat /\ rid \notin DOMAIN requests
             /\ DOMAIN requests' = DOMAIN requests \cup {rid}
             /\ \A i \in DOMAIN requests : requests'[i] = requests[i]
             /\ Len(requests') = rid /\ requests'[rid] = r
  BY <1>1, <1>4, AppendFacts
<1>5. CASE hit
  <2> DEFINE r == Answered(q, "REUSED", f.current)
  <2>1. /\ requests' = Append(requests, r)
        /\ callbacks' = callbacks \cup
               CallbackMessages(rid, q, f.current, f.outcome, f.resolvedAt, f.validUntil)
        /\ jobs' = jobs
    BY <1>3, <1>5 DEF CreateRequest, AnswerFromFact
  <2>2. f.current \in Nat
    BY <1>1 DEF TypeOK, Fact
  <2>3. r \in Request
    BY <1>1, <1>3, <2>2, RequestUpdates
  <2>4. /\ r.key = k /\ r.ttl = ttl /\ r.createdAt = now /\ r.target = target
        /\ r.attempt = 1 /\ r.resolver = defaultResolver /\ r.maxAttempts = fees.maxAttempts
        /\ r.status = "REUSED" /\ r.attempts = 0 /\ r.resolution = f.current
        /\ r.callback = IF target = ZERO THEN "NOT_REQUESTED" ELSE "DISPATCHED"
    BY <1>3 DEF Answered, CallbackStatus, Request
  <2>5. CallbackMessages(rid, q, f.current, f.outcome, f.resolvedAt, f.validUntil)
        = IF target = ZERO THEN {}
          ELSE {[target |-> target, request |-> rid, key |-> k,
                 resolution |-> f.current, outcome |-> f.outcome,
                 resolvedAt |-> f.resolvedAt, validUntil |-> f.validUntil]}
    BY <1>3 DEF CallbackMessages
  <2> HIDE DEF r
  <2>6. /\ rid \in Nat /\ rid \notin DOMAIN requests
        /\ DOMAIN requests' = DOMAIN requests \cup {rid}
        /\ \A i \in DOMAIN requests : requests'[i] = requests[i]
        /\ Len(requests') = rid /\ requests'[rid] = r
    BY <1>4, <2>1, <2>3
  <2>7. QED
    BY <1>5, <2>1, <2>3, <2>4, <2>5, <2>6 DEF CreatedAs
<1>6. CASE ~hit
  <2> DEFINE first == [q EXCEPT !.attempts = 1]
             r == Dispatched(first)
  <2>1. /\ requests' = Append(requests, r)
        /\ jobs' = jobs \cup {JobOf(rid, q)}
        /\ callbacks' = callbacks
    BY <1>6 DEF CreateRequest, DispatchNew
  <2>2. first \in Request /\ r \in Request
    BY <1>1, <1>3, RequestUpdates
  <2>3. /\ r.key = k /\ r.ttl = ttl /\ r.createdAt = now /\ r.target = target
        /\ r.attempt = 1 /\ r.resolver = defaultResolver /\ r.maxAttempts = fees.maxAttempts
        /\ r.status = "DISPATCHED" /\ r.attempts = 1 /\ r.resolution = 0
        /\ r.callback = "NOT_REQUESTED"
    BY <1>3 DEF Dispatched, Request
  <2>4. JobOf(rid, q) = [request |-> rid, attempt |-> 1, resolver |-> defaultResolver]
    BY <1>3 DEF JobOf
  <2> HIDE DEF r
  <2>5. /\ rid \in Nat /\ rid \notin DOMAIN requests
        /\ DOMAIN requests' = DOMAIN requests \cup {rid}
        /\ \A i \in DOMAIN requests : requests'[i] = requests[i]
        /\ Len(requests') = rid /\ requests'[rid] = r
    BY <1>4, <2>1, <2>2
  <2>6. QED
    BY <2>1, <2>2, <2>3, <2>4, <2>5 DEF CreatedAs
<1>7. QED
  BY <1>5, <1>6

\* The calls that drive a request: a retry, a cancel, its callback sent again, a report.
LEMMA DriveEffects ==
    ASSUME TypeInv, NEW sender, NEW rid \in DOMAIN requests,
           \/ \E value \in Nat : RetryResolution(sender, rid, value)
           \/ CancelStaleRequest(sender, rid)
           \/ RequestCallbackRetry(sender, rid)
           \/ \E succeeded \in BOOLEAN : MarkCallbackResult(sender, rid, succeeded)
    PROVE  LET q == requests[rid]
               r == requests'[rid]
               v == resolutions[q.resolution]
           IN  /\ q \in Request /\ r \in Request /\ rid \in Nat
               /\ DOMAIN requests' = DOMAIN requests
               /\ \A i \in DOMAIN requests \ {rid} : requests'[i] = requests[i]
               /\ SameOrigin(q, r) /\ r.resolution = q.resolution
               /\ \/ /\ q.status \in Open /\ q.attempts < q.maxAttempts /\ Enabled(q.resolver)
                     /\ r.status = "DISPATCHED" /\ r.callback = q.callback
                     /\ r.attempt = q.attempt + 1 /\ r.attempts = q.attempts + 1
                     /\ jobs' = jobs \cup {[request |-> rid, attempt |-> q.attempt + 1,
                                            resolver |-> q.resolver]}
                     /\ callbacks' = callbacks
                  \/ /\ q.status \in Open
                     /\ r.status = "CANCELLED" /\ r.callback = q.callback
                     /\ r.attempt = q.attempt /\ r.attempts = q.attempts
                     /\ UNCHANGED messageVars
                  \/ /\ q.target # ZERO /\ q.status \in {"RESOLVED", "REUSED"}
                     /\ q.callback \in {"DISPATCHED", "FAILED_REPORTED"}
                     /\ r.status = q.status /\ r.callback = "DISPATCHED"
                     /\ r.attempt = q.attempt /\ r.attempts = q.attempts
                     /\ jobs' = jobs
                     /\ callbacks' = callbacks \cup
                          {[target |-> q.target, request |-> rid, key |-> q.key,
                            resolution |-> q.resolution, outcome |-> v.outcome,
                            resolvedAt |-> v.committedAt, validUntil |-> v.validUntil]}
                  \/ /\ q.target # ZERO
                     /\ r.status = q.status /\ r.callback \in {"ACKNOWLEDGED", "FAILED_REPORTED"}
                     /\ r.attempt = q.attempt /\ r.attempts = q.attempts
                     /\ UNCHANGED messageVars
<1> DEFINE q == requests[rid]
<1>1. TypeOK /\ requests \in Seq(Request) /\ q \in Request /\ rid \in Nat
  BY RequestAt DEF TypeOK
<1>2. ASSUME NEW r \in Request, requests' = [requests EXCEPT ![rid] = r]
      PROVE  /\ DOMAIN requests' = DOMAIN requests /\ requests'[rid] = r
             /\ \A i \in DOMAIN requests \ {rid} : requests'[i] = requests[i]
  BY <1>1, <1>2, ReplaceFacts
<1>3. ASSUME NEW value \in Nat, RetryResolution(sender, rid, value)
      PROVE  LET r == requests'[rid]
             IN  /\ r \in Request
                 /\ DOMAIN requests' = DOMAIN requests
                 /\ \A i \in DOMAIN requests \ {rid} : requests'[i] = requests[i]
                 /\ SameOrigin(q, r) /\ r.resolution = q.resolution
                 /\ q.status \in Open /\ q.attempts < q.maxAttempts /\ Enabled(q.resolver)
                 /\ r.status = "DISPATCHED" /\ r.callback = q.callback
                 /\ r.attempt = q.attempt + 1 /\ r.attempts = q.attempts + 1
                 /\ jobs' = jobs \cup {[request |-> rid, attempt |-> q.attempt + 1,
                                        resolver |-> q.resolver]}
                 /\ callbacks' = callbacks
  <2> DEFINE n == NextAttempt(q)
             r == Dispatched(n)
  <2>1. /\ requests' = [requests EXCEPT ![rid] = r]
        /\ jobs' = jobs \cup {JobOf(rid, n)}
        /\ q.status \in Open /\ q.attempts < q.maxAttempts /\ Enabled(q.resolver)
        /\ callbacks' = callbacks
    BY <1>3 DEF RetryResolution
  <2>2. n \in Request /\ r \in Request
    BY <1>1, RequestUpdates
  <2>3. /\ SameOrigin(q, r) /\ r.resolution = q.resolution
        /\ r.status = "DISPATCHED" /\ r.callback = q.callback
        /\ r.attempt = q.attempt + 1 /\ r.attempts = q.attempts + 1
    BY <1>1, RetriedFields DEF SameOrigin
  <2>4. n.attempt = q.attempt + 1 /\ n.resolver = q.resolver
    BY <1>1 DEF NextAttempt, Request
  <2>5. JobOf(rid, n) = [request |-> rid, attempt |-> q.attempt + 1, resolver |-> q.resolver]
    BY <2>4 DEF JobOf
  <2> HIDE DEF n, r
  <2>6. /\ DOMAIN requests' = DOMAIN requests /\ requests'[rid] = r
        /\ \A i \in DOMAIN requests \ {rid} : requests'[i] = requests[i]
    BY <1>2, <2>1, <2>2
  <2>7. QED
    BY <2>1, <2>2, <2>3, <2>5, <2>6
<1>4. ASSUME NEW r, requests' = [requests EXCEPT ![rid] = r],
             \/ r = Cancelled(q)
             \/ r = [q EXCEPT !.callback = CallbackStatus(q)]
             \/ \E succeeded \in BOOLEAN : r = Reported(q, succeeded)
      PROVE  /\ r \in Request /\ requests'[rid] = r
             /\ DOMAIN requests' = DOMAIN requests
             /\ \A i \in DOMAIN requests \ {rid} : requests'[i] = requests[i]
             /\ SameOrigin(q, r) /\ r.resolution = q.resolution
             /\ r.attempt = q.attempt /\ r.attempts = q.attempts
  <2>1. r \in Request
    BY <1>1, <1>4, RequestUpdates
  <2>2. /\ SameOrigin(q, r) /\ r.attempt = q.attempt /\ r.attempts = q.attempts
    BY <1>1, <1>4, RewrittenFields DEF SameOrigin
  <2>3. r.resolution = q.resolution
    BY <1>1, <1>4 DEF Cancelled, Reported, Request
  <2>4. QED
    BY <1>2, <1>4, <2>1, <2>2, <2>3
<1>5. CASE CancelStaleRequest(sender, rid)
  <2>1. /\ requests' = [requests EXCEPT ![rid] = Cancelled(q)]
        /\ q.status \in Open /\ UNCHANGED messageVars
    BY <1>5 DEF CancelStaleRequest
  <2>2. Cancelled(q).status = "CANCELLED" /\ Cancelled(q).callback = q.callback
    BY <1>1 DEF Cancelled, Request
  <2>3. QED
    BY <1>1, <1>4, <2>1, <2>2
<1>6. CASE RequestCallbackRetry(sender, rid)
  <2> DEFINE r == [q EXCEPT !.callback = CallbackStatus(q)]
             v == resolutions[q.resolution]
  <2>1. /\ requests' = [requests EXCEPT ![rid] = r]
        /\ q.target # ZERO /\ q.status \in {"RESOLVED", "REUSED"}
        /\ q.callback \in {"DISPATCHED", "FAILED_REPORTED"}
        /\ callbacks' = callbacks \cup CallbackMessages(rid, q, q.resolution, v.outcome,
                                                        v.committedAt, v.validUntil)
        /\ jobs' = jobs
    BY <1>6 DEF RequestCallbackRetry
  <2>2. r.status = q.status /\ r.callback = "DISPATCHED"
    BY <1>1, <2>1 DEF CallbackStatus, Request
  <2>3. CallbackMessages(rid, q, q.resolution, v.outcome, v.committedAt, v.validUntil)
        = {[target |-> q.target, request |-> rid, key |-> q.key,
            resolution |-> q.resolution, outcome |-> v.outcome,
            resolvedAt |-> v.committedAt, validUntil |-> v.validUntil]}
    BY <2>1 DEF CallbackMessages
  <2>4. /\ r \in Request /\ requests'[rid] = r
        /\ DOMAIN requests' = DOMAIN requests
        /\ \A i \in DOMAIN requests \ {rid} : requests'[i] = requests[i]
        /\ SameOrigin(q, r) /\ r.resolution = q.resolution
        /\ r.attempt = q.attempt /\ r.attempts = q.attempts
    BY <1>4, <2>1
  <2> HIDE DEF r
  <2>5. QED
    BY <1>1, <2>1, <2>2, <2>3, <2>4
<1>7. ASSUME NEW succeeded \in BOOLEAN, MarkCallbackResult(sender, rid, succeeded)
      PROVE  LET r == requests'[rid]
             IN  /\ r \in Request
                 /\ DOMAIN requests' = DOMAIN requests
                 /\ \A i \in DOMAIN requests \ {rid} : requests'[i] = requests[i]
                 /\ SameOrigin(q, r) /\ r.resolution = q.resolution
                 /\ q.target # ZERO
                 /\ r.status = q.status /\ r.callback \in {"ACKNOWLEDGED", "FAILED_REPORTED"}
                 /\ r.attempt = q.attempt /\ r.attempts = q.attempts
                 /\ UNCHANGED messageVars
  <2>1. /\ requests' = [requests EXCEPT ![rid] = Reported(q, succeeded)]
        /\ q.target # ZERO /\ UNCHANGED messageVars
    BY <1>7 DEF MarkCallbackResult
  <2>2. /\ Reported(q, succeeded).status = q.status
        /\ Reported(q, succeeded).callback \in {"ACKNOWLEDGED", "FAILED_REPORTED"}
    BY <1>1 DEF Reported, Request
  <2>3. QED
    BY <1>1, <1>4, <2>1, <2>2
<1>8. QED
  BY <1>1, <1>3, <1>5, <1>6, <1>7

\* A commit's answer, and the callback it sends.
LEMMA CommitAnswers ==
    ASSUME TypeInv, NEW sender \in Resolvers, NEW rid \in DOMAIN requests, NEW c \in Commit,
           CommitResolution(sender, rid, c)
    PROVE  LET q == requests[rid]
               r == requests'[rid]
               resid == Len(resolutions) + 1
               v == resolutions'[resid]
           IN  /\ q.status \in Open /\ r \in Request /\ rid \in Nat
               /\ SameOrigin(q, r) /\ r.attempt = q.attempt /\ r.attempts = q.attempts
               /\ r.status = "RESOLVED" /\ r.resolution = resid
               /\ r.callback = IF q.target = ZERO THEN "NOT_REQUESTED" ELSE "DISPATCHED"
               /\ v.key = q.key
               /\ jobs' = jobs
               /\ callbacks' = callbacks \cup
                    IF q.target = ZERO THEN {}
                    ELSE {[target |-> q.target, request |-> rid, key |-> q.key,
                           resolution |-> resid, outcome |-> v.outcome,
                           resolvedAt |-> v.committedAt, validUntil |-> v.validUntil]}
<1> DEFINE q == requests[rid]
           resid == Len(resolutions) + 1
           a == Answered(q, "RESOLVED", resid)
           w == CommittedResolution(rid, q, c)
<1>1. TypeOK /\ q \in Request /\ rid \in Nat
  BY RequestAt
<1>2. /\ q.status \in Open /\ resid \in Nat
      /\ requests'[rid] = a /\ resolutions'[resid] = w /\ w.key = q.key
  BY CommitEffects
<1>3. a \in Request
  BY <1>1, <1>2, RequestUpdates
<1>4. SameOrigin(q, a) /\ a.attempt = q.attempt /\ a.attempts = q.attempts
  BY <1>1, RewrittenFields DEF SameOrigin
<1>5. /\ a.status = "RESOLVED" /\ a.resolution = resid
      /\ a.callback = IF q.target = ZERO THEN "NOT_REQUESTED" ELSE "DISPATCHED"
  BY <1>1 DEF Answered, CallbackStatus, Request
<1>6. /\ jobs' = jobs
      /\ callbacks' = callbacks \cup
             CallbackMessages(rid, q, resid, w.outcome, w.committedAt, w.validUntil)
  BY DEF CommitResolution
<1> HIDE DEF a, w
<1>7. CallbackMessages(rid, q, resid, w.outcome, w.committedAt, w.validUntil)
      = IF q.target = ZERO THEN {}
        ELSE {[target |-> q.target, request |-> rid, key |-> q.key,
               resolution |-> resid, outcome |-> w.outcome,
               resolvedAt |-> w.committedAt, validUntil |-> w.validUntil]}
  BY DEF CallbackMessages
<1>8. QED
  BY <1>1, <1>2, <1>3, <1>4, <1>5, <1>6, <1>7

-----------------------------------------------------------------------------
(* Jobs. *)

JobInv == TypeInv /\ JobsMatchAttempts

\* JobsMatchAttempts for one request.
JobsOf(rid) == {j \in jobs : j.request = rid}
AttemptJobs(rid, q) ==
    {[request |-> rid, attempt |-> n, resolver |-> q.resolver] : n \in 1..q.attempts}
Matched(rid) ==
    LET q == requests[rid]
    IN  /\ q.attempts <= q.maxAttempts
        /\ JobsOf(rid) = AttemptJobs(rid, q)
        /\ IF q.status = "REUSED" THEN q.attempts = 0 ELSE q.attempts = q.attempt

LEMMA MatchedJobs ==
    JobsMatchAttempts <=> /\ \A rid \in DOMAIN requests : Matched(rid)
                          /\ \A j \in jobs : j.request \in DOMAIN requests
  BY DEF JobsMatchAttempts, Matched, JobsOf, AttemptJobs

LEMMA InitJobInv == Init => JobInv
<1> SUFFICES ASSUME Init PROVE JobInv
  OBVIOUS
<1>1. DOMAIN requests = {} /\ jobs = {}
  BY DEF Init
<1>2. QED
  BY <1>1, InitTypeInv DEF JobInv, JobsMatchAttempts

\* A request whose attempts, resolver and jobs stay, and that stays reused or not.
LEMMA SameAttempts ==
    ASSUME JobInv, NEW i \in DOMAIN requests, jobs' = jobs, SameOrigin(requests[i], requests'[i]),
           requests'[i].attempt = requests[i].attempt, requests'[i].attempts = requests[i].attempts,
           requests'[i].status = "REUSED" <=> requests[i].status = "REUSED"
    PROVE  Matched(i)'
<1>1. Matched(i)
  BY MatchedJobs DEF JobInv
<1>2. QED
  BY <1>1 DEF Matched, JobsOf, AttemptJobs, SameOrigin

LEMMA CreateKeepsJobs ==
    ASSUME JobInv,
           NEW sender \in Accounts, NEW k \in FactKeys, NEW ttl \in Nat, NEW mode \in ReuseModes,
           NEW target \in Targets, NEW value \in Nat,
           CreateRequest(sender, k, ttl, mode, target, value)
    PROVE  JobsMatchAttempts'
<1>1. PICK rid : rid = Len(requests) + 1
  OBVIOUS
<1> DEFINE r == requests'[rid]
           job == [request |-> rid, attempt |-> 1, resolver |-> defaultResolver]
<1>2. /\ TypeInv /\ \A i \in DOMAIN requests : Matched(i)
      /\ \A j \in jobs : j.request \in DOMAIN requests
  BY MatchedJobs DEF JobInv
<1>3. /\ rid \in Nat /\ rid \notin DOMAIN requests
      /\ DOMAIN requests' = DOMAIN requests \cup {rid}
      /\ \A i \in DOMAIN requests : requests'[i] = requests[i]
      /\ r.attempt = 1 /\ r.resolver = defaultResolver /\ r.maxAttempts = fees.maxAttempts
      /\ \/ r.status = "REUSED" /\ r.attempts = 0 /\ jobs' = jobs
         \/ r.status = "DISPATCHED" /\ r.attempts = 1 /\ jobs' = jobs \cup {job}
  <2>1. CreatedAs(rid, k, ttl, mode, target)
    BY <1>1, <1>2, CreateEffects
  <2>2. QED
    BY <2>1 DEF CreatedAs
<1>4. fees.maxAttempts \in Nat /\ fees.maxAttempts >= 1
  <2>1. fees \in FeeConfig
    BY <1>2 DEF TypeInv, TypeOK
  <2>2. fees.maxAttempts \in 1..32
    BY <2>1 DEF FeeConfig
  <2>3. QED
    BY <2>2
<1>5. job.request = rid
  OBVIOUS
<1>6. JobsOf(rid) = {}
  BY <1>2, <1>3 DEF JobsOf
<1>7. Matched(rid)'
  <2>1. CASE r.status = "REUSED" /\ r.attempts = 0 /\ jobs' = jobs
    <3>1. JobsOf(rid)' = {} /\ AttemptJobs(rid, requests[rid])' = {}
      BY <1>6, <2>1 DEF JobsOf, AttemptJobs
    <3>2. QED
      BY <1>3, <1>4, <2>1, <3>1 DEF Matched
  <2>2. CASE r.status = "DISPATCHED" /\ r.attempts = 1 /\ jobs' = jobs \cup {job}
    <3>1. JobsOf(rid)' = {job}
      BY <1>6, <2>2, <1>5 DEF JobsOf
    <3>2. 1..1 = {1}
      OBVIOUS
    <3>3. AttemptJobs(rid, requests[rid])' = {job}
      BY <1>3, <2>2, <3>2 DEF AttemptJobs
    <3>4. QED
      BY <1>3, <1>4, <2>2, <3>1, <3>3 DEF Matched
  <2>3. QED
    BY <1>3, <2>1, <2>2
<1>8. ASSUME NEW i \in DOMAIN requests PROVE Matched(i)'
  <2>1. JobsOf(i)' = JobsOf(i)
    BY <1>3, <1>5 DEF JobsOf
  <2>2. QED
    BY <1>2, <1>3, <2>1 DEF Matched, AttemptJobs
<1>9. \A j \in jobs' : j.request \in DOMAIN requests'
  BY <1>2, <1>3, <1>5
<1>10. \A i \in DOMAIN requests' : Matched(i)'
  BY <1>3, <1>7, <1>8
<1>11. QED
  BY <1>9, <1>10 DEF JobsMatchAttempts, Matched, JobsOf, AttemptJobs

\* A step that replaces one request keeps the jobs of the others, when it sends none but
\* its own.
LEMMA RetryKeepsJobs ==
    ASSUME JobInv, NEW rid \in DOMAIN requests,
           DOMAIN requests' = DOMAIN requests,
           \A i \in DOMAIN requests \ {rid} : requests'[i] = requests[i],
           requests[rid].status \in Open, requests[rid].attempts < requests[rid].maxAttempts,
           requests'[rid].status = "DISPATCHED", SameOrigin(requests[rid], requests'[rid]),
           requests'[rid].attempt = requests[rid].attempt + 1,
           requests'[rid].attempts = requests[rid].attempts + 1,
           jobs' = jobs \cup {[request |-> rid, attempt |-> requests[rid].attempt + 1,
                               resolver |-> requests[rid].resolver]}
    PROVE  JobsMatchAttempts'
<1> DEFINE q == requests[rid]
           r == requests'[rid]
           job == [request |-> rid, attempt |-> q.attempt + 1, resolver |-> q.resolver]
<1>1. /\ TypeInv /\ \A i \in DOMAIN requests : Matched(i)
      /\ \A j \in jobs : j.request \in DOMAIN requests
  BY MatchedJobs DEF JobInv
<1>2. q.attempts \in Nat /\ q.maxAttempts \in Nat /\ q.attempts = q.attempt
  <2>1. q \in Request
    BY <1>1, RequestAt
  <2>2. QED
    BY <1>1, <2>1 DEF Request, Matched, Open
<1>3. r.resolver = q.resolver /\ r.maxAttempts = q.maxAttempts
  BY DEF SameOrigin
<1>4. job.request = rid
  OBVIOUS
<1>5. JobsOf(rid) = AttemptJobs(rid, q)
  BY <1>1 DEF Matched
<1>6. JobsOf(rid)' = JobsOf(rid) \cup {job}
  BY <1>4 DEF JobsOf
<1>7. AttemptJobs(rid, requests[rid])' = AttemptJobs(rid, q) \cup {job}
  <2>1. 1..q.attempts + 1 = 1..q.attempts \cup {q.attempts + 1}
    BY <1>2
  <2>2. AttemptJobs(rid, requests[rid])'
        = {[request |-> rid, attempt |-> n, resolver |-> q.resolver] : n \in 1..q.attempts + 1}
    BY <1>3 DEF AttemptJobs
  <2>3. job = [request |-> rid, attempt |-> q.attempts + 1, resolver |-> q.resolver]
    BY <1>2
  <2>4. QED
    BY <2>1, <2>2, <2>3 DEF AttemptJobs
<1>8. Matched(rid)'
  BY <1>2, <1>3, <1>5, <1>6, <1>7 DEF Matched
<1>9. ASSUME NEW i \in DOMAIN requests \ {rid} PROVE Matched(i)'
  <2>1. JobsOf(i)' = JobsOf(i)
    BY <1>4 DEF JobsOf
  <2>2. QED
    BY <1>1, <2>1 DEF Matched, AttemptJobs
<1>10. \A j \in jobs' : j.request \in DOMAIN requests'
  BY <1>1, <1>4
<1>11. QED
  BY <1>8, <1>9, <1>10 DEF JobsMatchAttempts, Matched, JobsOf, AttemptJobs

LEMMA NextJobInv == JobInv /\ [Next]_vars => JobInv'
<1> SUFFICES ASSUME JobInv, [Next]_vars PROVE JobInv'
  OBVIOUS
<1>1. TypeInv /\ TypeInv'
  BY NextTypeInv DEF JobInv
<1>2. \A j \in jobs : j.request \in DOMAIN requests
  BY MatchedJobs DEF JobInv
<1>3. ASSUME NEW rid \in DOMAIN requests,
             DOMAIN requests' = DOMAIN requests, jobs' = jobs,
             \A i \in DOMAIN requests \ {rid} : requests'[i] = requests[i],
             SameOrigin(requests[rid], requests'[rid]),
             requests'[rid].attempt = requests[rid].attempt,
             requests'[rid].attempts = requests[rid].attempts,
             requests'[rid].status = "REUSED" <=> requests[rid].status = "REUSED"
      PROVE  JobsMatchAttempts'
  <2>1. ASSUME NEW i \in DOMAIN requests PROVE Matched(i)'
    BY <1>3, SameAttempts DEF SameOrigin
  <2>2. QED
    BY <1>2, <1>3, <2>1 DEF JobsMatchAttempts, Matched, JobsOf, AttemptJobs
<1>4. ASSUME NEW sender, NEW rid \in DOMAIN requests,
             \/ \E value \in Nat : RetryResolution(sender, rid, value)
             \/ CancelStaleRequest(sender, rid)
             \/ RequestCallbackRetry(sender, rid)
             \/ \E succeeded \in BOOLEAN : MarkCallbackResult(sender, rid, succeeded)
      PROVE  JobsMatchAttempts'
  <2> DEFINE q == requests[rid]
             r == requests'[rid]
  <2>1. /\ DOMAIN requests' = DOMAIN requests
        /\ \A i \in DOMAIN requests \ {rid} : requests'[i] = requests[i]
        /\ SameOrigin(q, r)
    BY <1>1, <1>4, DriveEffects
  <2>2. \/ /\ q.status \in Open /\ q.attempts < q.maxAttempts
           /\ r.status = "DISPATCHED"
           /\ r.attempt = q.attempt + 1 /\ r.attempts = q.attempts + 1
           /\ jobs' = jobs \cup {[request |-> rid, attempt |-> q.attempt + 1,
                                  resolver |-> q.resolver]}
        \/ /\ r.attempt = q.attempt /\ r.attempts = q.attempts /\ jobs' = jobs
           /\ r.status = "REUSED" <=> q.status = "REUSED"
    BY <1>1, <1>4, DriveEffects DEF Open, messageVars
  <2>3. QED
    BY <1>3, <2>1, <2>2, RetryKeepsJobs
<1>5. ASSUME NEW sender \in Resolvers, NEW rid \in DOMAIN requests, NEW c \in Commit,
             CommitResolution(sender, rid, c)
      PROVE  JobsMatchAttempts'
  <2>1. /\ DOMAIN requests' = DOMAIN requests
        /\ \A i \in DOMAIN requests \ {rid} : requests'[i] = requests[i]
    BY <1>1, <1>5, CommitEffects
  <2>2. /\ SameOrigin(requests[rid], requests'[rid]) /\ jobs' = jobs
        /\ requests'[rid].attempt = requests[rid].attempt
        /\ requests'[rid].attempts = requests[rid].attempts
        /\ requests'[rid].status = "REUSED" <=> requests[rid].status = "REUSED"
    BY <1>1, <1>5, CommitAnswers DEF Open
  <2>3. QED
    BY <1>3, <2>1, <2>2
<1>6. ASSUME UNCHANGED <<requests, messageVars>> PROVE JobsMatchAttempts'
  BY <1>6 DEF JobInv, JobsMatchAttempts, messageVars
<1>7. JobsMatchAttempts'
  <2>1. CASE \E sender \in Accounts, k \in FactKeys, ttl \in Nat, mode \in ReuseModes,
                target \in Targets, value \in Nat :
                  CreateRequest(sender, k, ttl, mode, target, value)
    BY <2>1, CreateKeepsJobs
  <2>2. CASE \E sender \in Resolvers, rid \in DOMAIN requests, c \in Commit :
                  CommitResolution(sender, rid, c)
    BY <1>5, <2>2
  <2>3. QED
    BY <1>1, <1>4, <1>6, <2>1, <2>2, StepKinds
<1>8. QED
  BY <1>1, <1>7 DEF JobInv

(***************************************************************************)
(* The resolve_request messages of a request are exactly the attempts it   *)
(* counts, all to the resolver it was created with, and never more than    *)
(* the max_attempts of its creation.                                       *)
(***************************************************************************)
THEOREM JobsAreTheAttempts == Spec => []JobsMatchAttempts
<1>1. Spec => []JobInv
  BY InitJobInv, NextJobInv, PTL DEF Spec
<1>2. JobInv => JobsMatchAttempts
  BY DEF JobInv
<1>3. QED
  BY <1>1, <1>2, PTL

-----------------------------------------------------------------------------
(* Admission. *)

\* The length of a sequence follows from its domain.
LEMMA NoLonger ==
    ASSUME NEW S, NEW s \in Seq(S), NEW t \in Seq(S), DOMAIN s = DOMAIN t
    PROVE  Len(s) <= Len(t)
<1>1. Len(s) \in Nat /\ Len(t) \in Nat
  BY LenProperties
<1>2. DOMAIN s = 1..Len(s) /\ DOMAIN t = 1..Len(t)
  BY LenProperties
<1>3. CASE Len(s) = 0
  BY <1>1, <1>3
<1>4. CASE Len(s) > 0
  <2>1. Len(s) \in 1..Len(s)
    BY <1>1, <1>4
  <2>2. Len(s) \in 1..Len(t)
    BY <1>2, <2>1
  <2>3. QED
    BY <1>1, <2>2
<1>5. QED
  BY <1>1, <1>3, <1>4

LEMMA SameLength ==
    ASSUME NEW S, NEW s \in Seq(S), NEW t \in Seq(S), DOMAIN s = DOMAIN t
    PROVE  Len(s) = Len(t)
<1>1. Len(s) \in Nat /\ Len(t) \in Nat
  BY LenProperties
<1>2. Len(s) <= Len(t) /\ Len(t) <= Len(s)
  BY NoLonger
<1>3. QED
  BY <1>1, <1>2

(***************************************************************************)
(* Work starts only as administration allows at that moment: a request     *)
(* while new requests are not paused and its policy is active, a job to a  *)
(* resolver that is enabled.                                               *)
(***************************************************************************)
THEOREM WorkIsAdmitted == Spec => NewWorkIsAdmitted
<1> DEFINE Admitted ==
             /\ Len(requests') > Len(requests) =>
                   ~paused /\ requests'[Len(requests')].key \in activePolicies
             /\ \A j \in jobs' \ jobs : resolvers[j.resolver] = "enabled"
<1>1. ASSUME TypeInv, [Next]_vars PROVE Admitted
  <2>1. /\ requests \in Seq(Request) /\ requests' \in Seq(Request)
        /\ Len(requests) \in Nat
    BY <1>1, NextTypeInv DEF TypeInv, TypeOK
  <2>2. ASSUME DOMAIN requests' = DOMAIN requests PROVE ~(Len(requests') > Len(requests))
    BY <2>1, <2>2, SameLength
  <2>3. ASSUME NEW sender \in Accounts, NEW k \in FactKeys, NEW ttl \in Nat,
               NEW mode \in ReuseModes, NEW target \in Targets, NEW value \in Nat,
               CreateRequest(sender, k, ttl, mode, target, value)
        PROVE  Admitted
    <3>1. ~paused /\ k \in activePolicies /\ Enabled(defaultResolver)
      BY <2>3 DEF CreateRequest
    <3>2. PICK rid : rid = Len(requests) + 1
      OBVIOUS
    <3>3. CreatedAs(rid, k, ttl, mode, target)
      BY <1>1, <2>3, <3>2, CreateEffects
    <3>4. Len(requests') = rid /\ requests'[rid].key = k
      BY <3>3 DEF CreatedAs
    <3>5. \/ jobs' = jobs
          \/ jobs' = jobs \cup {[request |-> rid, attempt |-> 1, resolver |-> defaultResolver]}
      BY <3>3 DEF CreatedAs
    <3>6. QED
      BY <3>1, <3>4, <3>5 DEF Enabled
  <2>4. ASSUME NEW sender, NEW rid \in DOMAIN requests,
               \/ \E value \in Nat : RetryResolution(sender, rid, value)
               \/ CancelStaleRequest(sender, rid)
               \/ RequestCallbackRetry(sender, rid)
               \/ \E succeeded \in BOOLEAN : MarkCallbackResult(sender, rid, succeeded)
        PROVE  Admitted
    <3> DEFINE q == requests[rid]
    <3>1. /\ DOMAIN requests' = DOMAIN requests
          /\ \/ /\ Enabled(q.resolver)
                /\ jobs' = jobs \cup {[request |-> rid, attempt |-> q.attempt + 1,
                                       resolver |-> q.resolver]}
             \/ jobs' = jobs
      BY <1>1, <2>4, DriveEffects DEF messageVars
    <3>2. QED
      BY <2>2, <3>1 DEF Enabled
  <2>5. CASE \E sender \in Resolvers, rid \in DOMAIN requests, c \in Commit :
               CommitResolution(sender, rid, c)
    BY <1>1, <2>2, <2>5, CommitEffects, CommitAnswers
  <2>6. CASE UNCHANGED <<requests, messageVars>>
    BY <2>2, <2>6 DEF messageVars
  <2>7. CASE \E sender \in Accounts, k \in FactKeys, ttl \in Nat, mode \in ReuseModes,
                target \in Targets, value \in Nat :
                  CreateRequest(sender, k, ttl, mode, target, value)
    BY <2>3, <2>7
  <2>8. QED
    BY <1>1, <2>4, <2>5, <2>6, <2>7, StepKinds
<1>2. TypeInv /\ [Next]_vars => [Admitted]_<<requests, jobs>>
  BY <1>1
<1>3. Spec => []TypeInv
  BY InitTypeInv, NextTypeInv, PTL DEF Spec
<1>4. QED
  BY <1>2, <1>3, PTL DEF Spec, NewWorkIsAdmitted

-----------------------------------------------------------------------------
(* Answers and callbacks. *)

Ended == {"RESOLVED", "REUSED"}

\* The callback a target is owed: of request i, from these records.
Message(i, q, resid, outcome, at, until) ==
    IF q.target = ZERO THEN {}
    ELSE {[target |-> q.target, request |-> i, key |-> q.key, resolution |-> resid,
           outcome |-> outcome, resolvedAt |-> at, validUntil |-> until]}

LEMMA MessageSent ==
    ASSUME NEW i, NEW q, NEW resid, NEW outcome, NEW at, NEW until, q.target # ZERO
    PROVE  \E m \in Message(i, q, resid, outcome, at, until) :
               m.request = i /\ m.resolution = resid
  BY DEF Message

\* Request i is created with the fact's answer.
ReusedAt(i) ==
    LET q == requests'[i]
        f == facts[q.key]
    IN  /\ i \notin DOMAIN requests /\ UNCHANGED <<factVars, now>>
        /\ q.status = "REUSED" /\ q.resolution = f.current /\ q.createdAt = now
        /\ q.key \in FactKeys /\ f.exists
        /\ FreshnessAllowsReuse(q.key, f.outcome, f.resolvedAt, f.validUntil, q.ttl)
        /\ q.target # ZERO => q.callback # "NOT_REQUESTED"
        /\ callbacks' = callbacks \cup
               Message(i, q, f.current, f.outcome, f.resolvedAt, f.validUntil)

\* Request i is answered by a commit.
AnsweredAt(i) ==
    LET q == requests'[i]
        v == resolutions'[q.resolution]
    IN  /\ i \in DOMAIN requests /\ requests[i].status \in Open
        /\ q.status = "RESOLVED" /\ q.resolution \in DOMAIN resolutions'
        /\ v.key = q.key
        /\ q.target # ZERO => q.callback # "NOT_REQUESTED"
        /\ callbacks' = callbacks \cup
               Message(i, q, q.resolution, v.outcome, v.committedAt, v.validUntil)

\* Neither status nor answer of request i changes, nor is its callback forgotten.
AnswerKept(i) ==
    LET q == requests[i]
        r == requests'[i]
    IN  /\ i \in DOMAIN requests /\ SameOrigin(q, r)
        /\ r.status = q.status /\ r.resolution = q.resolution
        /\ q.target # ZERO /\ q.callback # "NOT_REQUESTED" => r.callback # "NOT_REQUESTED"

\* The callback of request i is sent once more.
CalledAgainAt(i) ==
    LET q == requests[i]
        v == resolutions[q.resolution]
    IN  /\ i \in DOMAIN requests /\ q.status \in Ended /\ UNCHANGED factVars
        /\ AnswerKept(i)
        /\ callbacks' = callbacks \cup
               Message(i, q, q.resolution, v.outcome, v.committedAt, v.validUntil)

\* Whatever ends or calls, exactly one request is concerned.
LEMMA AnswerSteps ==
    ASSUME TypeInv, [Next]_vars
    PROVE  \/ \E i \in DOMAIN requests' :
                 /\ ReusedAt(i) \/ AnsweredAt(i) \/ CalledAgainAt(i)
                 /\ \A j \in DOMAIN requests' \ {i} :
                        j \in DOMAIN requests /\ requests'[j] = requests[j]
           \/ /\ callbacks' = callbacks /\ UNCHANGED factVars
              /\ \A j \in DOMAIN requests' : requests'[j].status \in Ended => AnswerKept(j)
<1> DEFINE Goal ==
             \/ \E i \in DOMAIN requests' :
                   /\ ReusedAt(i) \/ AnsweredAt(i) \/ CalledAgainAt(i)
                   /\ \A j \in DOMAIN requests' \ {i} :
                          j \in DOMAIN requests /\ requests'[j] = requests[j]
             \/ /\ callbacks' = callbacks /\ UNCHANGED factVars
                /\ \A j \in DOMAIN requests' : requests'[j].status \in Ended => AnswerKept(j)
<1>1. ASSUME NEW sender \in Accounts, NEW k \in FactKeys, NEW ttl \in Nat, NEW mode \in ReuseModes,
             NEW target \in Targets, NEW value \in Nat,
             CreateRequest(sender, k, ttl, mode, target, value)
      PROVE  Goal
  <2>1. PICK rid : rid = Len(requests) + 1
    OBVIOUS
  <2> DEFINE q == requests'[rid]
             f == facts[k]
  <2>2. UNCHANGED factVars /\ now' = now
    BY <1>1 DEF CreateRequest
  <2>8. CreatedAs(rid, k, ttl, mode, target)
    BY <1>1, <2>1, CreateEffects
  <2>3. /\ rid \notin DOMAIN requests
        /\ DOMAIN requests' = DOMAIN requests \cup {rid}
        /\ \A i \in DOMAIN requests : requests'[i] = requests[i]
        /\ q.key = k /\ q.ttl = ttl /\ q.createdAt = now /\ q.target = target
    BY <2>8 DEF CreatedAs
  <2>4. \/ /\ CanReuse(k, mode, ttl)
           /\ q.status = "REUSED" /\ q.resolution = f.current
           /\ q.callback = IF target = ZERO THEN "NOT_REQUESTED" ELSE "DISPATCHED"
           /\ callbacks' = callbacks \cup
                IF target = ZERO THEN {}
                ELSE {[target |-> target, request |-> rid, key |-> k,
                       resolution |-> f.current, outcome |-> f.outcome,
                       resolvedAt |-> f.resolvedAt, validUntil |-> f.validUntil]}
        \/ q.status = "DISPATCHED" /\ callbacks' = callbacks
    BY <2>8 DEF CreatedAs
  <2> HIDE DEF q
  <2>5. CASE /\ CanReuse(k, mode, ttl)
             /\ q.status = "REUSED" /\ q.resolution = f.current
             /\ q.callback = IF target = ZERO THEN "NOT_REQUESTED" ELSE "DISPATCHED"
             /\ callbacks' = callbacks \cup
                  IF target = ZERO THEN {}
                  ELSE {[target |-> target, request |-> rid, key |-> k,
                         resolution |-> f.current, outcome |-> f.outcome,
                         resolvedAt |-> f.resolvedAt, validUntil |-> f.validUntil]}
    <3>1. callbacks' = callbacks \cup
              Message(rid, q, f.current, f.outcome, f.resolvedAt, f.validUntil)
      BY <2>3, <2>5 DEF Message
    <3>2. ReusedAt(rid)
      BY <2>2, <2>3, <2>5, <3>1 DEF ReusedAt, CanReuse, q
    <3>3. QED
      BY <2>3, <3>2
  <2>6. CASE q.status = "DISPATCHED" /\ callbacks' = callbacks
    <3>1. ASSUME NEW j \in DOMAIN requests', requests'[j].status \in Ended PROVE AnswerKept(j)
      <4>1. j \in DOMAIN requests /\ requests'[j] = requests[j]
        BY <2>3, <2>6, <3>1 DEF Ended, q
      <4>2. QED
        BY <4>1 DEF AnswerKept, SameOrigin
    <3>2. QED
      BY <2>2, <2>6, <3>1
  <2>7. QED
    BY <2>4, <2>5, <2>6
<1>2. ASSUME NEW sender, NEW rid \in DOMAIN requests,
             \/ \E value \in Nat : RetryResolution(sender, rid, value)
             \/ CancelStaleRequest(sender, rid)
             \/ RequestCallbackRetry(sender, rid)
             \/ \E succeeded \in BOOLEAN : MarkCallbackResult(sender, rid, succeeded)
      PROVE  Goal
  <2> DEFINE q == requests[rid]
             r == requests'[rid]
             v == resolutions[q.resolution]
  <2>1. UNCHANGED factVars
    BY <1>2 DEF RetryResolution, CancelStaleRequest, RequestCallbackRetry, MarkCallbackResult
  <2>2. /\ DOMAIN requests' = DOMAIN requests
        /\ \A i \in DOMAIN requests \ {rid} : requests'[i] = requests[i]
        /\ SameOrigin(q, r) /\ r.resolution = q.resolution
    BY <1>2, DriveEffects
  <2>3. \/ /\ r.status \notin Ended /\ callbacks' = callbacks
        \/ /\ q.target # ZERO /\ q.status \in Ended
           /\ r.status = q.status /\ r.callback = "DISPATCHED"
           /\ callbacks' = callbacks \cup
                {[target |-> q.target, request |-> rid, key |-> q.key,
                  resolution |-> q.resolution, outcome |-> v.outcome,
                  resolvedAt |-> v.committedAt, validUntil |-> v.validUntil]}
        \/ /\ r.status = q.status /\ r.callback \in {"ACKNOWLEDGED", "FAILED_REPORTED"}
           /\ callbacks' = callbacks
    BY <1>2, DriveEffects DEF Ended, messageVars
  <2> HIDE DEF q, r, v
  <2>4. CASE callbacks' = callbacks /\ (r.status \in Ended => AnswerKept(rid))
    <3>1. ASSUME NEW j \in DOMAIN requests', requests'[j].status \in Ended PROVE AnswerKept(j)
      <4>1. CASE j = rid
        BY <2>4, <3>1, <4>1 DEF r
      <4>2. CASE j # rid
        BY <2>2, <4>2 DEF AnswerKept, SameOrigin
      <4>3. QED
        BY <4>1, <4>2
    <3>2. QED
      BY <2>1, <2>4, <3>1
  <2>5. CASE /\ r.status = q.status /\ r.callback \in {"ACKNOWLEDGED", "FAILED_REPORTED"}
             /\ callbacks' = callbacks
    <3>1. AnswerKept(rid)
      BY <2>2, <2>5 DEF AnswerKept, q, r
    <3>2. QED
      BY <2>4, <2>5, <3>1
  <2>6. CASE /\ q.target # ZERO /\ q.status \in Ended
             /\ r.status = q.status /\ r.callback = "DISPATCHED"
             /\ callbacks' = callbacks \cup
                  {[target |-> q.target, request |-> rid, key |-> q.key,
                    resolution |-> q.resolution, outcome |-> v.outcome,
                    resolvedAt |-> v.committedAt, validUntil |-> v.validUntil]}
    <3>1. callbacks' = callbacks \cup
              Message(rid, q, q.resolution, v.outcome, v.committedAt, v.validUntil)
      BY <2>6 DEF Message
    <3>2. AnswerKept(rid)
      BY <2>2, <2>6 DEF AnswerKept, q, r
    <3>3. CalledAgainAt(rid)
      BY <2>1, <2>6, <3>1, <3>2 DEF CalledAgainAt, q, v
    <3>4. QED
      BY <2>2, <3>3
  <2>7. QED
    BY <2>3, <2>4, <2>5, <2>6
<1>3. ASSUME NEW sender \in Resolvers, NEW rid \in DOMAIN requests, NEW c \in Commit,
             CommitResolution(sender, rid, c)
      PROVE  Goal
  <2>1. PICK resid : resid = Len(resolutions) + 1
    OBVIOUS
  <2> DEFINE q == requests'[rid]
             v == resolutions'[resid]
  <2>2. /\ DOMAIN requests' = DOMAIN requests
        /\ \A i \in DOMAIN requests \ {rid} : requests'[i] = requests[i]
        /\ resid \in DOMAIN resolutions'
    BY <1>3, <2>1, CommitEffects
  <2>3. /\ requests[rid].status \in Open /\ SameOrigin(requests[rid], q)
        /\ q.status = "RESOLVED" /\ q.resolution = resid
        /\ q.callback = IF requests[rid].target = ZERO THEN "NOT_REQUESTED" ELSE "DISPATCHED"
        /\ v.key = requests[rid].key
        /\ callbacks' = callbacks \cup
             IF requests[rid].target = ZERO THEN {}
             ELSE {[target |-> requests[rid].target, request |-> rid, key |-> requests[rid].key,
                    resolution |-> resid, outcome |-> v.outcome,
                    resolvedAt |-> v.committedAt, validUntil |-> v.validUntil]}
    BY <1>3, <2>1, CommitAnswers
  <2>4. q.target = requests[rid].target /\ q.key = requests[rid].key
    BY <2>3 DEF SameOrigin
  <2> HIDE DEF q, v
  <2>5. callbacks' = callbacks \cup
            Message(rid, q, q.resolution, v.outcome, v.committedAt, v.validUntil)
    BY <2>3, <2>4 DEF Message
  <2>6. AnsweredAt(rid)
    BY <2>2, <2>3, <2>4, <2>5 DEF AnsweredAt, q, v
  <2>7. QED
    BY <2>2, <2>6
<1>4. CASE UNCHANGED <<requests, factVars, messageVars>>
  BY <1>4 DEF AnswerKept, SameOrigin, messageVars
<1>5. CASE \E sender \in Accounts, k \in FactKeys, ttl \in Nat, mode \in ReuseModes,
              target \in Targets, value \in Nat :
                CreateRequest(sender, k, ttl, mode, target, value)
  BY <1>1, <1>5
<1>6. CASE \E sender \in Resolvers, rid \in DOMAIN requests, c \in Commit :
             CommitResolution(sender, rid, c)
  BY <1>3, <1>6
<1> HIDE DEF Goal
<1>7. Goal
  BY <1>2, <1>4, <1>5, <1>6, StepKinds DEF Goal
<1>8. QED
  BY <1>7 DEF Goal

-----------------------------------------------------------------------------
(* Ended requests: reused answers were fresh, and callbacks carry the answer. *)

\* ReusedAnswersWereFresh and ResultsAreCalledBack for one request, CallbacksAgree
\* for one message.
ReusedFresh(i) ==
    LET q == requests[i]
        r == resolutions[q.resolution]
    IN  q.status = "REUSED" =>
            /\ q.resolution \in DOMAIN resolutions
            /\ r.key = q.key
            /\ r.outcome \in BooleanOutcomes
            /\ r.committedAt <= q.createdAt
            /\ q.key \in MutableKeys => /\ q.createdAt <= r.validUntil
                                        /\ q.createdAt - r.committedAt <= q.ttl

CalledBack(i) ==
    LET q == requests[i]
    IN  (q.status \in Ended /\ q.target # ZERO) =>
            /\ q.callback # "NOT_REQUESTED"
            /\ \E m \in callbacks : m.request = i /\ m.resolution = q.resolution

Agrees(m) ==
    /\ m.request \in DOMAIN requests
    /\ m.resolution \in DOMAIN resolutions
    /\ LET q == requests[m.request]
           r == resolutions[m.resolution]
       IN  /\ q.status \in Ended
           /\ m.resolution = q.resolution /\ m.target = q.target
           /\ m.key = r.key /\ m.outcome = r.outcome
           /\ m.resolvedAt = r.committedAt /\ m.validUntil = r.validUntil

LEMMA EndedByParts ==
    /\ ReusedAnswersWereFresh <=> \A i \in DOMAIN requests : ReusedFresh(i)
    /\ ResultsAreCalledBack <=> \A i \in DOMAIN requests : CalledBack(i)
    /\ CallbacksAgree <=> \A m \in callbacks : Agrees(m)
<1>1. ReusedAnswersWereFresh <=> \A i \in DOMAIN requests : ReusedFresh(i)
  BY DEF ReusedAnswersWereFresh, ReusedFresh
<1>2. ResultsAreCalledBack <=> \A i \in DOMAIN requests : CalledBack(i)
  BY DEF ResultsAreCalledBack, CalledBack, Ended
<1>3. CallbacksAgree <=> \A m \in callbacks : Agrees(m)
  BY DEF CallbacksAgree, Agrees, Ended
<1>4. QED
  BY <1>1, <1>2, <1>3

(***************************************************************************)
(* The callback of an answered request is sent again from the resolution   *)
(* its request names, so that it agrees with the first one needs the       *)
(* resolution to be of the request's own fact: OneResolutionPerRequest for *)
(* a resolved request, ReusedAnswersWereFresh for a reused one.  And a     *)
(* reused answer is judged by the fact record, so that its resolution was  *)
(* fresh needs the record to be the resolution's: FactMatchesRecords.      *)
(***************************************************************************)
EndInv == /\ FactInv /\ OneResolutionPerRequest
          /\ ReusedAnswersWereFresh /\ ResultsAreCalledBack /\ CallbacksAgree

LEMMA InitEndInv == Init => EndInv
<1> SUFFICES ASSUME Init PROVE EndInv
  OBVIOUS
<1>1. DOMAIN requests = {} /\ callbacks = {}
  BY DEF Init
<1>2. ReusedAnswersWereFresh /\ ResultsAreCalledBack /\ CallbacksAgree
  BY <1>1, EndedByParts
<1>3. QED
  BY <1>2, InitFactInv, InitRequestInv DEF EndInv, RequestInv

\* Resolutions are never removed or changed.
LEMMA ResolutionsPersist ==
    ASSUME TypeInv, [Next]_vars
    PROVE  \A id \in DOMAIN resolutions :
               id \in DOMAIN resolutions' /\ resolutions'[id] = resolutions[id]
<1>1. CASE UNCHANGED factVars
  BY <1>1 DEF factVars
<1>2. CASE \E sender \in Resolvers, rid \in DOMAIN requests, c \in Commit :
             CommitResolution(sender, rid, c)
  BY <1>2, CommitEffects
<1>3. QED
  BY <1>1, <1>2, FactsMoveByCommit

\* An answered request keeps its answer.
LEMMA AnswersPersist ==
    ASSUME TypeInv, [Next]_vars, NEW i \in DOMAIN requests, requests[i].status \in Ended
    PROVE  /\ i \in DOMAIN requests' /\ SameOrigin(requests[i], requests'[i])
           /\ requests'[i].status = requests[i].status
           /\ requests'[i].resolution = requests[i].resolution
<1>1. i \in DOMAIN requests' /\ SameOrigin(requests[i], requests'[i])
  BY RequestsPersist
<1>2. requests[i] \in Request
  BY RequestAt
<1>3. requests'[i] = [requests[i] EXCEPT !.callback = requests'[i].callback]
  BY NextFinal DEF Final, Ended, Terminal
<1>4. QED
  BY <1>1, <1>2, <1>3 DEF Request

\* A message that agrees stays so.
LEMMA AgreesPersists ==
    ASSUME TypeInv, [Next]_vars, NEW m, Agrees(m)
    PROVE  Agrees(m)'
<1>1. /\ m.resolution \in DOMAIN resolutions'
      /\ resolutions'[m.resolution] = resolutions[m.resolution]
  BY ResolutionsPersist DEF Agrees
<1>2. LET q == requests[m.request]
          r == requests'[m.request]
      IN  /\ m.request \in DOMAIN requests' /\ SameOrigin(q, r)
          /\ r.status = q.status /\ r.resolution = q.resolution
  BY AnswersPersist DEF Agrees
<1>3. QED
  BY <1>1, <1>2 DEF Agrees, SameOrigin

\* A request whose answer is kept stays fresh and called back.
LEMMA KeptAnswer ==
    ASSUME TypeInv, [Next]_vars, NEW i \in DOMAIN requests, AnswerKept(i),
           callbacks \subseteq callbacks',
           ReusedFresh(i), CalledBack(i)
    PROVE  ReusedFresh(i)' /\ CalledBack(i)'
<1>1. ReusedFresh(i)'
  BY ResolutionsPersist DEF ReusedFresh, AnswerKept, SameOrigin
<1>2. CalledBack(i)'
  BY DEF CalledBack, AnswerKept, SameOrigin
<1>3. QED
  BY <1>1, <1>2

\* The resolution of an answered request is of the request's fact.
LEMMA AnswerIsOfItsFact ==
    ASSUME OneResolutionPerRequest, NEW i \in DOMAIN requests, ReusedFresh(i),
           requests[i].status \in Ended
    PROVE  /\ requests[i].resolution \in DOMAIN resolutions
           /\ resolutions[requests[i].resolution].key = requests[i].key
<1>1. CASE requests[i].status = "REUSED"
  BY <1>1 DEF ReusedFresh
<1>2. CASE requests[i].status = "RESOLVED"
  BY <1>2 DEF OneResolutionPerRequest
<1>3. QED
  BY <1>1, <1>2 DEF Ended

\* A request created with the fact's answer.
LEMMA ReusedStep ==
    ASSUME EndInv, [Next]_vars, NEW i \in DOMAIN requests', ReusedAt(i)
    PROVE  /\ ReusedFresh(i)' /\ CalledBack(i)'
           /\ \A m \in callbacks' \ callbacks : Agrees(m)'
<1> DEFINE q == requests'[i]
           f == facts[q.key]
           r == resolutions[f.current]
<1>1. /\ q.status = "REUSED" /\ q.resolution = f.current /\ q.createdAt = now
      /\ q.key \in FactKeys /\ f.exists
      /\ FreshnessAllowsReuse(q.key, f.outcome, f.resolvedAt, f.validUntil, q.ttl)
      /\ q.target # ZERO => q.callback # "NOT_REQUESTED"
      /\ resolutions' = resolutions
      /\ callbacks' = callbacks \cup
             Message(i, q, f.current, f.outcome, f.resolvedAt, f.validUntil)
  BY DEF ReusedAt, factVars
<1>2. /\ f.current \in DOMAIN resolutions /\ r.key = q.key
      /\ f.outcome = r.outcome /\ f.resolvedAt = r.committedAt /\ f.validUntil = r.validUntil
  BY <1>1 DEF EndInv, FactInv, FactMatchesRecords
<1>3. r.committedAt <= now
  BY <1>2 DEF EndInv, FactInv, CommittedByNow
<1> HIDE DEF q, f, r
<1>4. /\ r.outcome \in BooleanOutcomes
      /\ q.key \in MutableKeys => now <= r.validUntil /\ now - r.committedAt <= q.ttl
  BY <1>1, <1>2 DEF FreshnessAllowsReuse
<1>5. ReusedFresh(i)'
  <2>1. resolutions'[q.resolution] = r
    BY <1>1 DEF r
  <2>2. /\ q.resolution \in DOMAIN resolutions'
        /\ r.key = q.key
        /\ r.outcome \in BooleanOutcomes
        /\ r.committedAt <= q.createdAt
        /\ q.key \in MutableKeys => /\ q.createdAt <= r.validUntil
                                    /\ q.createdAt - r.committedAt <= q.ttl
    BY <1>1, <1>2, <1>3, <1>4
  <2>3. QED
    BY <2>1, <2>2 DEF ReusedFresh, q
<1>6. CalledBack(i)'
  <2>1. CASE q.target = ZERO
    BY <2>1 DEF CalledBack, q
  <2>2. CASE q.target # ZERO
    <3>1. \E m \in callbacks' : m.request = i /\ m.resolution = f.current
      BY <1>1, <2>2, MessageSent
    <3>2. QED
      BY <1>1, <2>2, <3>1 DEF CalledBack, q
  <2>3. QED
    BY <2>1, <2>2
<1>7. ASSUME NEW m \in callbacks' \ callbacks PROVE Agrees(m)'
  <2>1. /\ m.target = q.target /\ m.request = i /\ m.key = q.key
        /\ m.resolution = f.current /\ m.outcome = f.outcome
        /\ m.resolvedAt = f.resolvedAt /\ m.validUntil = f.validUntil
    BY <1>1, <1>7 DEF Message
  <2>2. resolutions'[m.resolution] = r
    BY <1>1, <2>1 DEF r
  <2>3. QED
    BY <1>1, <1>2, <2>1, <2>2 DEF Agrees, Ended, q
<1>8. QED
  BY <1>5, <1>6, <1>7

\* A request answered by a commit.
LEMMA AnsweredStep ==
    ASSUME NEW i \in DOMAIN requests', AnsweredAt(i)
    PROVE  /\ ReusedFresh(i)' /\ CalledBack(i)'
           /\ \A m \in callbacks' \ callbacks : Agrees(m)'
<1> DEFINE q == requests'[i]
           v == resolutions'[q.resolution]
<1>1. /\ q.status = "RESOLVED" /\ q.resolution \in DOMAIN resolutions'
      /\ v.key = q.key
      /\ q.target # ZERO => q.callback # "NOT_REQUESTED"
      /\ callbacks' = callbacks \cup
             Message(i, q, q.resolution, v.outcome, v.committedAt, v.validUntil)
  BY DEF AnsweredAt
<1> HIDE DEF q, v
<1>2. ReusedFresh(i)'
  BY <1>1 DEF ReusedFresh, q
<1>3. CalledBack(i)'
  <2>1. CASE q.target = ZERO
    BY <2>1 DEF CalledBack, q
  <2>2. CASE q.target # ZERO
    <3>1. \E m \in callbacks' : m.request = i /\ m.resolution = q.resolution
      BY <1>1, <2>2, MessageSent
    <3>2. QED
      BY <1>1, <2>2, <3>1 DEF CalledBack, q
  <2>3. QED
    BY <2>1, <2>2
<1>4. ASSUME NEW m \in callbacks' \ callbacks PROVE Agrees(m)'
  <2>1. /\ m.target = q.target /\ m.request = i /\ m.key = q.key
        /\ m.resolution = q.resolution /\ m.outcome = v.outcome
        /\ m.resolvedAt = v.committedAt /\ m.validUntil = v.validUntil
    BY <1>1, <1>4 DEF Message
  <2>2. QED
    BY <1>1, <2>1 DEF Agrees, Ended, q, v
<1>5. QED
  BY <1>2, <1>3, <1>4

\* A callback sent again.
LEMMA CalledAgainStep ==
    ASSUME EndInv, [Next]_vars, NEW i \in DOMAIN requests', CalledAgainAt(i)
    PROVE  /\ ReusedFresh(i)' /\ CalledBack(i)'
           /\ \A m \in callbacks' \ callbacks : Agrees(m)'
<1> DEFINE q == requests[i]
           v == resolutions[q.resolution]
<1>1. /\ i \in DOMAIN requests /\ q.status \in Ended /\ resolutions' = resolutions
      /\ AnswerKept(i)
      /\ callbacks' = callbacks \cup
             Message(i, q, q.resolution, v.outcome, v.committedAt, v.validUntil)
  BY DEF CalledAgainAt, factVars
<1>2. TypeInv /\ OneResolutionPerRequest /\ ReusedFresh(i) /\ CalledBack(i)
  BY <1>1, EndedByParts DEF EndInv, FactInv
<1>3. q.resolution \in DOMAIN resolutions /\ v.key = q.key
  BY <1>1, <1>2, AnswerIsOfItsFact
<1>4. ReusedFresh(i)' /\ CalledBack(i)'
  BY <1>1, <1>2, KeptAnswer
<1>5. ASSUME NEW m \in callbacks' \ callbacks PROVE Agrees(m)'
  <2>1. /\ m.target = q.target /\ m.request = i /\ m.key = q.key
        /\ m.resolution = q.resolution /\ m.outcome = v.outcome
        /\ m.resolvedAt = v.committedAt /\ m.validUntil = v.validUntil
    BY <1>1, <1>5 DEF Message
  <2>2. /\ requests'[i].status = q.status /\ requests'[i].resolution = q.resolution
        /\ requests'[i].target = q.target
    BY <1>1 DEF AnswerKept, SameOrigin
  <2>3. resolutions'[m.resolution] = v /\ m.resolution \in DOMAIN resolutions'
    BY <1>1, <1>3, <2>1
  <2> HIDE DEF q, v
  <2>4. QED
    BY <1>1, <1>3, <2>1, <2>2, <2>3 DEF Agrees
<1>6. QED
  BY <1>4, <1>5

LEMMA NextEndInv == EndInv /\ [Next]_vars => EndInv'
<1> SUFFICES ASSUME EndInv, [Next]_vars PROVE EndInv'
  OBVIOUS
<1>1. /\ FactInv /\ TypeInv /\ FactInv'
      /\ OneResolutionPerRequest'
  BY NextFactInv, NextKeepsOne DEF EndInv, FactInv, RequestInv
<1>2. /\ \A j \in DOMAIN requests : ReusedFresh(j) /\ CalledBack(j)
      /\ \A m \in callbacks : Agrees(m)
  BY EndedByParts DEF EndInv
<1> DEFINE Kept ==
             /\ \A j \in DOMAIN requests' : ReusedFresh(j)' /\ CalledBack(j)'
             /\ \A m \in callbacks' : Agrees(m)'
<1>3. \A m \in callbacks : Agrees(m)'
  BY <1>1, <1>2, AgreesPersists
<1>4. ASSUME NEW i \in DOMAIN requests',
             ReusedAt(i) \/ AnsweredAt(i) \/ CalledAgainAt(i),
             \A j \in DOMAIN requests' \ {i} :
                 j \in DOMAIN requests /\ requests'[j] = requests[j]
      PROVE  Kept
  <2>1. /\ ReusedFresh(i)' /\ CalledBack(i)'
        /\ \A m \in callbacks' \ callbacks : Agrees(m)'
    BY <1>4, ReusedStep, AnsweredStep, CalledAgainStep
  <2>2. callbacks \subseteq callbacks'
    BY <1>4 DEF ReusedAt, AnsweredAt, CalledAgainAt
  <2>3. ASSUME NEW j \in DOMAIN requests' \ {i} PROVE ReusedFresh(j)' /\ CalledBack(j)'
    <3>1. j \in DOMAIN requests /\ AnswerKept(j)
      BY <1>4, <2>3 DEF AnswerKept, SameOrigin
    <3>2. QED
      BY <1>1, <1>2, <2>2, <3>1, KeptAnswer
  <2>4. QED
    BY <1>3, <2>1, <2>3
<1>5. ASSUME callbacks' = callbacks,
             \A j \in DOMAIN requests' : requests'[j].status \in Ended => AnswerKept(j)
      PROVE  Kept
  <2>1. ASSUME NEW j \in DOMAIN requests' PROVE ReusedFresh(j)' /\ CalledBack(j)'
    <3>1. CASE requests'[j].status \notin Ended
      BY <3>1 DEF ReusedFresh, CalledBack, Ended
    <3>2. CASE requests'[j].status \in Ended
      <4>1. j \in DOMAIN requests /\ AnswerKept(j)
        BY <1>5, <2>1, <3>2 DEF AnswerKept
      <4>2. QED
        BY <1>1, <1>2, <1>5, <4>1, KeptAnswer
    <3>3. QED
      BY <3>1, <3>2
  <2>2. QED
    BY <1>3, <1>5, <2>1
<1> HIDE DEF Kept
<1>6. Kept
  <2>1. CASE \E i \in DOMAIN requests' :
               /\ ReusedAt(i) \/ AnsweredAt(i) \/ CalledAgainAt(i)
               /\ \A j \in DOMAIN requests' \ {i} :
                      j \in DOMAIN requests /\ requests'[j] = requests[j]
    <3>1. PICK i \in DOMAIN requests' :
               /\ ReusedAt(i) \/ AnsweredAt(i) \/ CalledAgainAt(i)
               /\ \A j \in DOMAIN requests' \ {i} :
                      j \in DOMAIN requests /\ requests'[j] = requests[j]
      BY <2>1
    <3>2. QED
      BY <1>4, <3>1
  <2>2. CASE /\ callbacks' = callbacks /\ UNCHANGED factVars
             /\ \A j \in DOMAIN requests' : requests'[j].status \in Ended => AnswerKept(j)
    BY <1>5, <2>2
  <2>3. QED
    BY <1>1, <2>1, <2>2, AnswerSteps
<1> USE DEF Kept
<1>7. (ReusedAnswersWereFresh /\ ResultsAreCalledBack /\ CallbacksAgree)'
  <2>1. ReusedAnswersWereFresh'
    BY <1>6 DEF ReusedAnswersWereFresh, ReusedFresh
  <2>2. ResultsAreCalledBack'
    BY <1>6 DEF ResultsAreCalledBack, CalledBack, Ended
  <2>3. CallbacksAgree'
    BY <1>6 DEF CallbacksAgree, Agrees, Ended
  <2>4. QED
    BY <2>1, <2>2, <2>3
<1>8. QED
  BY <1>1, <1>7 DEF EndInv

LEMMA EndInvariant == Spec => []EndInv
  BY InitEndInv, NextEndInv, PTL DEF Spec

(***************************************************************************)
(* A request answered from the fact was given a TRUE or FALSE of its own   *)
(* fact, unexpired and no older than it asked for, by the resolution's own *)
(* record.                                                                 *)
(***************************************************************************)
THEOREM ReuseIsFresh == Spec => []ReusedAnswersWereFresh
<1>1. EndInv => ReusedAnswersWereFresh
  BY DEF EndInv
<1>2. QED
  BY <1>1, EndInvariant, PTL

(***************************************************************************)
(* Wherever a callback was sent from, it carries the record of the         *)
(* resolution its request ended with, to that request's target.            *)
(***************************************************************************)
THEOREM CallbacksCarryTheAnswer == Spec => []CallbacksAgree
<1>1. EndInv => CallbacksAgree
  BY DEF EndInv
<1>2. QED
  BY <1>1, EndInvariant, PTL

(***************************************************************************)
(* Every request that ended with a result and names a target has had its   *)
(* callback sent, whatever the target reported before.                     *)
(***************************************************************************)
THEOREM ResultsReachTheirTargets == Spec => []ResultsAreCalledBack
<1>1. EndInv => ResultsAreCalledBack
  BY DEF EndInv
<1>2. QED
  BY <1>1, EndInvariant, PTL

-----------------------------------------------------------------------------
(* What the readers of the chain see: the registry implements ChainRecords. *)

\* The substitutions of the refinement.
SeenRequests == [i \in DOMAIN requests |-> Visible(requests[i])]
SeenResolution(r) == [request |-> r.request, key |-> r.key]
SeenResolutions == [id \in DOMAIN resolutions |-> SeenResolution(resolutions[id])]
SeenFact(f) == [current |-> f.current, latest |-> f.latest]
SeenFacts == [k \in FactKeys |-> SeenFact(facts[k])]

\* A request dispatched on creation never waits as PENDING.
NonePending == \A i \in DOMAIN requests : requests[i].status \in {"DISPATCHED"} \cup Terminal

(***************************************************************************)
(* That a request may be answered from the fact, and that the first commit *)
(* for a fact becomes its head, are told from the fact record's flag by    *)
(* the contract and from its id 0 by its readers: FactMatchesRecords.      *)
(***************************************************************************)
SeenInv == FactInv /\ NonePending

\* A function whose domain grew by one is a sequence with an entry appended.
LEMMA GrownByOne ==
    ASSUME NEW S, NEW n \in Nat, NEW s \in [1..n -> S], NEW t \in [1..(n + 1) -> S],
           \A i \in 1..n : t[i] = s[i]
    PROVE  t = Append(s, t[n + 1])
<1>1. s \in Seq(S) /\ t \in Seq(S) /\ t[n + 1] \in S /\ Len(s) = n /\ Len(t) = n + 1
  OBVIOUS
<1>2. /\ Append(s, t[n + 1]) \in Seq(S)
      /\ Len(Append(s, t[n + 1])) = n + 1
      /\ \A i \in 1..n : Append(s, t[n + 1])[i] = s[i]
      /\ Append(s, t[n + 1])[n + 1] = t[n + 1]
  BY <1>1, AppendFacts
<1>3. QED
  BY <1>1, <1>2

LEMMA SeenReplaced ==
    ASSUME NEW i \in DOMAIN requests, DOMAIN requests' = DOMAIN requests,
           \A j \in DOMAIN requests \ {i} : requests'[j] = requests[j]
    PROVE  SeenRequests' = [SeenRequests EXCEPT ![i] = Visible(requests'[i])]
<1>1. SeenRequests' = [j \in DOMAIN requests |-> Visible(requests'[j])]
  BY DEF SeenRequests, Visible
<1>2. \A j \in DOMAIN requests :
          Visible(requests'[j]) = IF j = i THEN Visible(requests'[i]) ELSE SeenRequests[j]
  BY DEF SeenRequests
<1>3. QED
  BY <1>1, <1>2 DEF SeenRequests

LEMMA SeenGrown ==
    ASSUME TypeInv, NEW n, n = Len(requests) + 1,
           DOMAIN requests' = DOMAIN requests \cup {n},
           \A j \in DOMAIN requests : requests'[j] = requests[j]
    PROVE  SeenRequests' = Append(SeenRequests, Visible(requests'[n]))
<1>1. requests \in Seq(Request) /\ Len(requests) \in Nat /\ DOMAIN requests = 1..Len(requests)
  BY LenProperties DEF TypeInv, TypeOK
<1>2. DOMAIN requests' = 1..n
  BY <1>1
<1> DEFINE s == SeenRequests
           t == SeenRequests'
           S == {t[i] : i \in 1..n}
<1>3. t = [i \in 1..n |-> Visible(requests'[i])]
  BY <1>2 DEF SeenRequests, Visible
<1>4. s = [i \in 1..Len(requests) |-> Visible(requests[i])]
  BY <1>1 DEF SeenRequests
<1>5. \A i \in 1..Len(requests) : t[i] = s[i]
  BY <1>1, <1>3, <1>4 DEF Visible
<1>6. t[n] = Visible(requests'[n])
  BY <1>1, <1>3
<1>7. \A i \in 1..Len(requests) : s[i] \in S
  BY <1>1, <1>5
<1>8. s \in [1..Len(requests) -> S] /\ t \in [1..(Len(requests) + 1) -> S]
  BY <1>1, <1>3, <1>4, <1>7
<1> HIDE DEF s, t, S
<1>9. t = Append(s, t[Len(requests) + 1])
  BY <1>1, <1>5, <1>8, GrownByOne
<1>10. QED
  BY <1>6, <1>9 DEF s, t

\* The steps of ChainRecords, in the terms of the registry.
LEMMA SeenActions ==
    ASSUME UNCHANGED <<resolutions, facts>>
    PROVE  /\ \A k \in FactKeys, called, reused \in BOOLEAN :
                 /\ reused => facts[k].current # 0
                 /\ SeenRequests' = Append(SeenRequests,
                        [key |-> k, called |-> called,
                         status |-> IF reused THEN "REUSED" ELSE "DISPATCHED",
                         callback |-> IF reused /\ called THEN "DISPATCHED" ELSE "NOT_REQUESTED",
                         resolution |-> IF reused THEN facts[k].current ELSE 0])
                 => Chain!ChainNext
           /\ \A i \in DOMAIN requests :
                 /\ requests[i].status = "DISPATCHED"
                 /\ SeenRequests' = [SeenRequests EXCEPT ![i].status = "CANCELLED"]
                 => Chain!ChainNext
           /\ \A i \in DOMAIN requests, succeeded \in BOOLEAN :
                 /\ requests[i].target # ZERO
                 /\ SeenRequests' = [SeenRequests EXCEPT
                        ![i].callback = IF succeeded THEN "ACKNOWLEDGED" ELSE "FAILED_REPORTED"]
                 => Chain!ChainNext
           /\ \A i \in DOMAIN requests :
                 /\ requests[i].status \in Ended
                 /\ requests[i].callback \in {"DISPATCHED", "FAILED_REPORTED"}
                 /\ SeenRequests' = [SeenRequests EXCEPT ![i].callback = "DISPATCHED"]
                 => Chain!ChainNext
<1>1. SeenResolutions' = SeenResolutions /\ SeenFacts' = SeenFacts
  BY DEF SeenResolutions, SeenFacts
<1>2. /\ DOMAIN SeenRequests = DOMAIN requests
      /\ \A i \in DOMAIN requests : SeenRequests[i] = Visible(requests[i])
      /\ \A k \in FactKeys : SeenFacts[k].current = facts[k].current
  BY DEF SeenRequests, SeenFacts, SeenFact
<1>3. ASSUME NEW k \in FactKeys, NEW called \in BOOLEAN, NEW reused \in BOOLEAN,
             reused => facts[k].current # 0,
             SeenRequests' = Append(SeenRequests,
                 [key |-> k, called |-> called,
                  status |-> IF reused THEN "REUSED" ELSE "DISPATCHED",
                  callback |-> IF reused /\ called THEN "DISPATCHED" ELSE "NOT_REQUESTED",
                  resolution |-> IF reused THEN facts[k].current ELSE 0])
      PROVE  Chain!Create(k, called, reused)
  <2>1. (IF reused THEN Chain!CallbackDue(called) ELSE "NOT_REQUESTED")
        = IF reused /\ called THEN "DISPATCHED" ELSE "NOT_REQUESTED"
    BY DEF Chain!CallbackDue
  <2>2. QED
    BY <1>1, <1>2, <1>3, <2>1
       DEF Chain!Create, SeenRequests, SeenResolutions, SeenFacts, SeenResolution, SeenFact
<1>4. ASSUME NEW i \in DOMAIN requests, requests[i].status = "DISPATCHED",
             SeenRequests' = [SeenRequests EXCEPT ![i].status = "CANCELLED"]
      PROVE  Chain!Cancel(i)
  BY <1>1, <1>2, <1>4
     DEF Chain!Cancel, SeenRequests, SeenResolutions, SeenFacts, SeenResolution, SeenFact, Visible
<1>5. ASSUME NEW i \in DOMAIN requests, NEW succeeded \in BOOLEAN, requests[i].target # ZERO,
             SeenRequests' = [SeenRequests EXCEPT
                 ![i].callback = IF succeeded THEN "ACKNOWLEDGED" ELSE "FAILED_REPORTED"]
      PROVE  Chain!Report(i, succeeded)
  BY <1>1, <1>2, <1>5
     DEF Chain!Report, SeenRequests, SeenResolutions, SeenFacts, SeenResolution, SeenFact, Visible
<1>6. ASSUME NEW i \in DOMAIN requests, requests[i].status \in Ended,
             requests[i].callback \in {"DISPATCHED", "FAILED_REPORTED"},
             SeenRequests' = [SeenRequests EXCEPT ![i].callback = "DISPATCHED"]
      PROVE  Chain!CallAgain(i)
  BY <1>1, <1>2, <1>6
     DEF Chain!CallAgain, Ended, SeenRequests, SeenResolutions, SeenFacts, SeenResolution,
         SeenFact, Visible
<1>7. DOMAIN [i \in DOMAIN requests |-> Visible(requests[i])] = DOMAIN requests
  OBVIOUS
<1>8. QED
  BY <1>3, <1>4, <1>5, <1>6, <1>7 DEF Chain!ChainNext

\* Every entry point that creates a request is seen as Create.
LEMMA SeenCreate ==
    ASSUME SeenInv,
           NEW sender \in Accounts, NEW k \in FactKeys, NEW ttl \in Nat, NEW mode \in ReuseModes,
           NEW target \in Targets, NEW value \in Nat,
           CreateRequest(sender, k, ttl, mode, target, value)
    PROVE  Chain!ChainNext /\ NonePending'
<1>1. PICK rid : rid = Len(requests) + 1
  OBVIOUS
<1> DEFINE f == facts[k]
           r == requests'[rid]
<1>2. TypeInv /\ NonePending /\ FactMatchesRecords
  BY DEF SeenInv, FactInv
<1>3. CreatedAs(rid, k, ttl, mode, target)
  BY <1>1, <1>2, CreateEffects
<1>4. /\ DOMAIN requests' = DOMAIN requests \cup {rid}
      /\ \A i \in DOMAIN requests : requests'[i] = requests[i]
      /\ r.key = k /\ r.target = target
  BY <1>3 DEF CreatedAs
<1>5. \/ /\ CanReuse(k, mode, ttl)
         /\ r.status = "REUSED" /\ r.resolution = f.current
         /\ r.callback = IF target = ZERO THEN "NOT_REQUESTED" ELSE "DISPATCHED"
      \/ /\ r.status = "DISPATCHED" /\ r.resolution = 0 /\ r.callback = "NOT_REQUESTED"
  BY <1>3 DEF CreatedAs
<1>6. UNCHANGED <<resolutions, facts>>
  BY DEF CreateRequest, factVars
<1>7. SeenRequests' = Append(SeenRequests, Visible(r))
  BY <1>1, <1>2, <1>4, SeenGrown
<1> HIDE DEF f, r
<1>8. NonePending'
  BY <1>2, <1>4, <1>5 DEF NonePending, Terminal, r
<1>9. CASE /\ CanReuse(k, mode, ttl)
           /\ r.status = "REUSED" /\ r.resolution = f.current
           /\ r.callback = IF target = ZERO THEN "NOT_REQUESTED" ELSE "DISPATCHED"
  <2>1. f.exists
    BY <1>9 DEF CanReuse, f
  <2>2. f.current \in DOMAIN resolutions
    BY <1>2, <2>1 DEF FactMatchesRecords, f
  <2>3. f.current # 0
    <3>1. resolutions \in Seq(Resolution)
      BY <1>2 DEF TypeInv, TypeOK
    <3>2. QED
      BY <2>2, <3>1, LenProperties
  <2>4. Visible(r) = [key |-> k, called |-> target # ZERO, status |-> "REUSED",
                      callback |-> IF target # ZERO THEN "DISPATCHED" ELSE "NOT_REQUESTED",
                      resolution |-> facts[k].current]
    BY <1>4, <1>9 DEF Visible, f
  <2>5. PICK called \in BOOLEAN : called <=> target # ZERO
    OBVIOUS
  <2>6. Visible(r) = [key |-> k, called |-> called,
                      status |-> IF TRUE THEN "REUSED" ELSE "DISPATCHED",
                      callback |-> IF TRUE /\ called THEN "DISPATCHED" ELSE "NOT_REQUESTED",
                      resolution |-> IF TRUE THEN facts[k].current ELSE 0]
    BY <2>4, <2>5
  <2>7. Chain!ChainNext
    BY <1>6, <1>7, <2>3, <2>6, SeenActions DEF f
  <2>8. QED
    BY <1>8, <2>7
<1>10. CASE r.status = "DISPATCHED" /\ r.resolution = 0 /\ r.callback = "NOT_REQUESTED"
  <2>1. PICK called \in BOOLEAN : called <=> target # ZERO
    OBVIOUS
  <2>2. Visible(r) = [key |-> k, called |-> called,
                      status |-> IF FALSE THEN "REUSED" ELSE "DISPATCHED",
                      callback |-> IF FALSE /\ called THEN "DISPATCHED" ELSE "NOT_REQUESTED",
                      resolution |-> IF FALSE THEN facts[k].current ELSE 0]
    BY <1>4, <1>10, <2>1 DEF Visible
  <2>3. Chain!ChainNext
    BY <1>6, <1>7, <2>2, SeenActions
  <2>4. QED
    BY <1>8, <2>3
<1>11. QED
  BY <1>5, <1>9, <1>10

\* A retry is not seen; a cancel, a report and a callback sent again are.
LEMMA SeenDrive ==
    ASSUME SeenInv, NEW sender, NEW rid \in DOMAIN requests,
           \/ \E value \in Nat : RetryResolution(sender, rid, value)
           \/ CancelStaleRequest(sender, rid)
           \/ RequestCallbackRetry(sender, rid)
           \/ \E succeeded \in BOOLEAN : MarkCallbackResult(sender, rid, succeeded)
    PROVE  /\ NonePending'
           /\ Chain!ChainNext \/ UNCHANGED <<SeenRequests, SeenResolutions, SeenFacts>>
<1> DEFINE q == requests[rid]
           r == requests'[rid]
<1>1. TypeInv /\ NonePending
  BY DEF SeenInv, FactInv
<1>2. UNCHANGED <<resolutions, facts>>
  BY DEF RetryResolution, CancelStaleRequest, RequestCallbackRetry, MarkCallbackResult, factVars
<1>3. SeenResolutions' = SeenResolutions /\ SeenFacts' = SeenFacts
  BY <1>2 DEF SeenResolutions, SeenFacts
<1>4. /\ DOMAIN requests' = DOMAIN requests
      /\ \A i \in DOMAIN requests \ {rid} : requests'[i] = requests[i]
      /\ r.key = q.key /\ r.target = q.target /\ r.resolution = q.resolution
  BY <1>1, DriveEffects DEF SameOrigin
<1>5. \/ q.status \in Open /\ r.status = "DISPATCHED" /\ r.callback = q.callback
      \/ q.status \in Open /\ r.status = "CANCELLED" /\ r.callback = q.callback
      \/ /\ q.status \in Ended /\ q.callback \in {"DISPATCHED", "FAILED_REPORTED"}
         /\ r.status = q.status /\ r.callback = "DISPATCHED"
      \/ /\ q.target # ZERO /\ r.status = q.status
         /\ r.callback \in {"ACKNOWLEDGED", "FAILED_REPORTED"}
  BY <1>1, DriveEffects DEF Ended
<1>6. q.status \in {"DISPATCHED"} \cup Terminal
  BY <1>1 DEF NonePending
<1>7. SeenRequests' = [SeenRequests EXCEPT ![rid] = Visible(r)]
  BY <1>4, SeenReplaced
<1>8. SeenRequests[rid] = Visible(q) /\ rid \in DOMAIN SeenRequests
  BY DEF SeenRequests
<1> HIDE DEF q, r
<1>9. NonePending'
  BY <1>1, <1>4, <1>5, <1>6 DEF NonePending, Terminal, q, r
<1>10. CASE q.status \in Open /\ r.status = "DISPATCHED" /\ r.callback = q.callback
  <2>1. q.status = "DISPATCHED"
    BY <1>6, <1>10 DEF Open, Terminal
  <2>2. Visible(r) = Visible(q)
    BY <1>4, <1>10, <2>1 DEF Visible
  <2>3. SeenRequests' = SeenRequests
    BY <1>7, <1>8, <2>2 DEF SeenRequests
  <2>4. QED
    BY <1>3, <1>9, <2>3
<1>11. CASE q.status \in Open /\ r.status = "CANCELLED" /\ r.callback = q.callback
  <2>1. q.status = "DISPATCHED"
    BY <1>6, <1>11 DEF Open, Terminal
  <2>2. Visible(r) = [Visible(q) EXCEPT !.status = "CANCELLED"]
    BY <1>4, <1>11 DEF Visible
  <2>3. SeenRequests' = [SeenRequests EXCEPT ![rid].status = "CANCELLED"]
    BY <1>7, <1>8, <2>2
  <2>4. QED
    BY <1>2, <1>9, <2>1, <2>3, SeenActions DEF q
<1>12. CASE /\ q.status \in Ended /\ q.callback \in {"DISPATCHED", "FAILED_REPORTED"}
            /\ r.status = q.status /\ r.callback = "DISPATCHED"
  <2>1. Visible(r) = [Visible(q) EXCEPT !.callback = "DISPATCHED"]
    BY <1>4, <1>12 DEF Visible
  <2>2. SeenRequests' = [SeenRequests EXCEPT ![rid].callback = "DISPATCHED"]
    BY <1>7, <1>8, <2>1
  <2>3. QED
    BY <1>2, <1>9, <1>12, <2>2, SeenActions DEF q
<1>13. CASE /\ q.target # ZERO /\ r.status = q.status
            /\ r.callback \in {"ACKNOWLEDGED", "FAILED_REPORTED"}
  <2>1. PICK succeeded \in BOOLEAN :
            r.callback = IF succeeded THEN "ACKNOWLEDGED" ELSE "FAILED_REPORTED"
    BY <1>13
  <2>2. Visible(r) = [Visible(q) EXCEPT
            !.callback = IF succeeded THEN "ACKNOWLEDGED" ELSE "FAILED_REPORTED"]
    BY <1>4, <1>13, <2>1 DEF Visible
  <2>3. SeenRequests' = [SeenRequests EXCEPT
            ![rid].callback = IF succeeded THEN "ACKNOWLEDGED" ELSE "FAILED_REPORTED"]
    BY <1>7, <1>8, <2>2
  <2>4. QED
    BY <1>2, <1>9, <1>13, <2>3, SeenActions DEF q
<1>14. QED
  BY <1>5, <1>10, <1>11, <1>12, <1>13

\* A commit is seen as Resolve.
LEMMA SeenCommit ==
    ASSUME SeenInv, NEW sender \in Resolvers, NEW rid \in DOMAIN requests, NEW c \in Commit,
           CommitResolution(sender, rid, c)
    PROVE  Chain!ChainNext /\ NonePending'
<1>1. PICK resid : resid = Len(resolutions) + 1
  OBVIOUS
<1>2. PICK k : k = requests[rid].key
  OBVIOUS
<1>3. PICK v : v = CommittedResolution(rid, requests[rid], c)
  OBVIOUS
<1>4. PICK advances \in BOOLEAN :
          advances <=> ShouldAdvanceCanonical(facts[k], v.outcome, v.policyOk)
  OBVIOUS
<1> DEFINE q == requests[rid]
           r == requests'[rid]
           f == facts[k]
<1>5. TypeInv /\ TypeOK /\ NonePending /\ FactMatchesRecords
  BY DEF SeenInv, FactInv, TypeInv
<1>6. /\ k \in FactKeys /\ v \in Resolution /\ v.request = rid /\ v.key = k
      /\ q \in Request /\ resid \in Nat \ {0}
      /\ DOMAIN resolutions = 1..Len(resolutions) /\ Len(resolutions) \in Nat
      /\ DOMAIN resolutions' = DOMAIN resolutions \cup {resid}
      /\ resolutions'[resid] = v
      /\ \A id \in DOMAIN resolutions : resolutions'[id] = resolutions[id]
  BY <1>1, <1>2, <1>3, <1>5, CommitEffects
<1>7. /\ DOMAIN requests' = DOMAIN requests
      /\ \A i \in DOMAIN requests \ {rid} : requests'[i] = requests[i]
      /\ facts'[k] = FactAfter(f, resid, v)
      /\ \A j \in FactKeys \ {k} : facts'[j] = facts[j]
  BY <1>1, <1>2, <1>3, <1>5, CommitEffects
<1>8. /\ q.status \in Open /\ SameOrigin(q, r)
      /\ r.status = "RESOLVED" /\ r.resolution = resid
      /\ r.callback = IF q.target = ZERO THEN "NOT_REQUESTED" ELSE "DISPATCHED"
  BY <1>1, <1>5, CommitAnswers
<1>9. f \in Fact
  BY <1>5, <1>6 DEF TypeOK
<1> HIDE DEF q, r, f
<1>10. NonePending' /\ q.status = "DISPATCHED"
  BY <1>5, <1>7, <1>8 DEF NonePending, Terminal, Open, q, r
<1>11. SeenRequests' = [SeenRequests EXCEPT ![rid].status = "RESOLVED",
                                            ![rid].callback = Chain!CallbackDue(Visible(q).called),
                                            ![rid].resolution = resid]
  <2>1. SeenRequests' = [SeenRequests EXCEPT ![rid] = Visible(r)]
    BY <1>7, SeenReplaced DEF r
  <2>2. SeenRequests[rid] = Visible(q) /\ rid \in DOMAIN SeenRequests
    BY DEF SeenRequests, q
  <2>3. Visible(r) = [Visible(q) EXCEPT !.status = "RESOLVED",
                                        !.callback = Chain!CallbackDue(Visible(q).called),
                                        !.resolution = resid]
    <3>1. Visible(q).called <=> q.target # ZERO
      BY DEF Visible
    <3>2. Chain!CallbackDue(Visible(q).called) = r.callback
      BY <1>8, <3>1 DEF Chain!CallbackDue
    <3> DEFINE due == Chain!CallbackDue(Visible(q).called)
    <3> HIDE DEF due
    <3>3. r.callback = due /\ r.key = q.key /\ r.target = q.target
      BY <1>8, <3>2 DEF SameOrigin, due
    <3>4. Visible(r) = [Visible(q) EXCEPT !.status = "RESOLVED", !.callback = due,
                                          !.resolution = resid]
      <4>1. (r.target # ZERO) = (q.target # ZERO)
        BY <3>3
      <4> DEFINE called == q.target # ZERO
      <4>2. /\ Visible(q) = [key |-> q.key, called |-> called, status |-> q.status,
                             callback |-> q.callback, resolution |-> q.resolution]
            /\ Visible(r) = [key |-> q.key, called |-> called, status |-> "RESOLVED",
                             callback |-> due, resolution |-> resid]
        BY <1>8, <3>3, <4>1 DEF Visible
      <4> DEFINE w == Visible(q)
                 x == [w EXCEPT !.status = "RESOLVED"]
                 y == [x EXCEPT !.callback = due]
      <4> HIDE DEF called
      <4>3. x = [key |-> q.key, called |-> called, status |-> "RESOLVED",
                 callback |-> q.callback, resolution |-> q.resolution]
        BY <4>2
      <4> HIDE DEF x
      <4>4. y = [key |-> q.key, called |-> called, status |-> "RESOLVED",
                 callback |-> due, resolution |-> q.resolution]
        BY <4>3
      <4> HIDE DEF y
      <4>5. [y EXCEPT !.resolution = resid] = Visible(r)
        BY <4>2, <4>4
      <4> HIDE DEF w
      <4>6. [w EXCEPT !.status = "RESOLVED", !.callback = due, !.resolution = resid]
            = [y EXCEPT !.resolution = resid]
        BY DEF x, y
      <4>7. QED
        BY <4>5, <4>6 DEF w
    <3>5. QED
      BY <3>4 DEF due
  <2>4. QED
    BY <2>1, <2>2, <2>3
<1>12. Len(SeenResolutions) = Len(resolutions)
       /\ SeenResolutions' = Append(SeenResolutions, [request |-> rid, key |-> k])
  <2> DEFINE n == Len(resolutions)
             s == SeenResolutions
             t == SeenResolutions'
             S == {t[i] : i \in 1..resid}
  <2>1. DOMAIN resolutions' = 1..resid
    BY <1>1, <1>6
  <2>2. t = [i \in 1..resid |-> SeenResolution(resolutions'[i])]
    BY <2>1 DEF SeenResolutions, SeenResolution
  <2>3. s = [i \in 1..n |-> SeenResolution(resolutions[i])]
    BY <1>6 DEF SeenResolutions
  <2>4. \A i \in 1..n : t[i] = s[i]
    BY <1>1, <1>6, <2>2, <2>3 DEF SeenResolution
  <2>5. t[resid] = [request |-> rid, key |-> k]
    BY <1>6, <2>2 DEF SeenResolution
  <2>6. \A i \in 1..n : s[i] \in S
    BY <1>1, <1>6, <2>4
  <2>7. s \in [1..n -> S] /\ t \in [1..(n + 1) -> S]
    BY <1>1, <1>6, <2>2, <2>3, <2>6
  <2>8. n \in Nat /\ n + 1 = resid
    BY <1>1, <1>6
  <2> HIDE DEF n, s, t, S
  <2>9. t = Append(s, t[n + 1])
    BY <2>4, <2>7, <2>8, GrownByOne
  <2>10. Len(s) = n
    BY <2>7, <2>8
  <2>11. QED
    BY <2>5, <2>8, <2>9, <2>10 DEF n, s, t
<1>13. SeenFacts' = [SeenFacts EXCEPT ![k].latest = resid,
                                      ![k].current = IF advances THEN resid ELSE @]
  <2>1. facts'[k].latest = resid /\ facts'[k].current = IF advances THEN resid ELSE f.current
    BY <1>4, <1>6, <1>7, <1>9, FactAfterFields DEF f
  <2>2. SeenFact(facts'[k]) = [SeenFact(f) EXCEPT
            !.latest = resid, !.current = IF advances THEN resid ELSE SeenFact(f).current]
    <3>1. SeenFact(f).current = f.current
      BY DEF SeenFact
    <3>2. SeenFact(facts'[k]) = [current |-> IF advances THEN resid ELSE SeenFact(f).current,
                                 latest |-> resid]
      BY <2>1, <3>1 DEF SeenFact
    <3> DEFINE head == IF advances THEN resid ELSE SeenFact(f).current
    <3>3. SeenFact(facts'[k]) = [current |-> head, latest |-> resid]
      BY <3>2
    <3> HIDE DEF head
    <3> DEFINE w == SeenFact(f)
               x == [w EXCEPT !.latest = resid]
    <3>4. x = [current |-> f.current, latest |-> resid]
      BY DEF SeenFact
    <3> HIDE DEF x
    <3>5. [x EXCEPT !.current = head] = SeenFact(facts'[k])
      BY <3>3, <3>4
    <3> HIDE DEF w
    <3>6. [w EXCEPT !.latest = resid, !.current = head] = [x EXCEPT !.current = head]
      BY DEF x
    <3>7. QED
      BY <3>5, <3>6 DEF w, head
  <2>3. SeenFacts[k] = SeenFact(f)
    BY <1>6 DEF SeenFacts, f
  <2>4. SeenFacts' = [j \in FactKeys |-> SeenFact(facts'[j])]
    BY DEF SeenFacts, SeenFact
  <2>5. SeenFacts' = [SeenFacts EXCEPT ![k] = SeenFact(facts'[k])]
    BY <1>6, <1>7, <2>4 DEF SeenFacts
  <2>6. QED
    BY <1>6, <2>2, <2>3, <2>5
<1>14. SeenFacts[k].current = 0 => advances
  <2>1. SeenFacts[k].current = f.current
    BY <1>6 DEF SeenFacts, SeenFact, f
  <2>2. f.exists => f.current \in DOMAIN resolutions
    BY <1>5, <1>6 DEF FactMatchesRecords, f
  <2>3. ~f.exists => advances
    BY <1>4 DEF ShouldAdvanceCanonical, f
  <2>4. QED
    BY <1>6, <2>1, <2>2, <2>3
<1>15. SeenRequests[rid] = Visible(q) /\ Visible(q).key = k /\ Visible(q).status = "DISPATCHED"
  BY <1>2, <1>10 DEF SeenRequests, Visible, q
<1>16. Chain!Resolve(rid, advances)
  <2> DEFINE w == SeenRequests[rid]
             id == Len(SeenResolutions) + 1
  <2>1. w = Visible(q) /\ w.key = k /\ id = resid
    BY <1>1, <1>12, <1>15
  <2>2. w.status = "DISPATCHED" /\ (SeenFacts[w.key].current = 0 => advances)
    BY <1>14, <1>15, <2>1
  <2>3. SeenResolutions' = Append(SeenResolutions, [request |-> rid, key |-> w.key])
    BY <1>12, <2>1
  <2>4. SeenFacts' = [SeenFacts EXCEPT ![w.key].latest = id,
                                       ![w.key].current = IF advances THEN id ELSE @]
    BY <1>13, <2>1
  <2>5. SeenRequests' = [SeenRequests EXCEPT ![rid].status = "RESOLVED",
                                             ![rid].callback = Chain!CallbackDue(w.called),
                                             ![rid].resolution = id]
    BY <1>11, <2>1
  <2>6. QED
    BY <2>2, <2>3, <2>4, <2>5, Zenon
       DEF Chain!Resolve, SeenRequests, SeenResolutions, SeenResolution, SeenFacts, SeenFact
<1>17. Chain!ChainNext
  BY <1>4, <1>16 DEF Chain!ChainNext
<1>18. QED
  BY <1>10, <1>17

LEMMA InitSeen == Init => SeenInv /\ Chain!ChainInit
<1> SUFFICES ASSUME Init PROVE SeenInv /\ Chain!ChainInit
  OBVIOUS
<1>1. requests = <<>> /\ resolutions = <<>> /\ facts = [k \in FactKeys |-> EmptyFact]
  BY DEF Init
<1>2. NonePending
  BY <1>1 DEF NonePending
<1>3. SeenRequests = <<>> /\ SeenResolutions = <<>>
  BY <1>1 DEF SeenRequests, SeenResolutions
<1>4. SeenFacts = [k \in FactKeys |-> Chain!NoFact]
  BY <1>1 DEF SeenFacts, SeenFact, Chain!NoFact, EmptyFact
<1>5. Chain!ChainInit
  BY <1>3, <1>4, Zenon
     DEF Chain!ChainInit, SeenRequests, SeenResolutions, SeenResolution, SeenFacts, SeenFact
<1>6. QED
  BY <1>2, <1>5, InitFactInv DEF SeenInv

LEMMA NextSeen ==
    ASSUME SeenInv, [Next]_vars
    PROVE  SeenInv' /\ [Chain!ChainNext]_(Chain!chainVars)
<1>1. FactInv /\ TypeInv /\ NonePending /\ FactInv'
  BY NextFactInv DEF SeenInv, FactInv
<1>2. ASSUME UNCHANGED <<SeenRequests, SeenResolutions, SeenFacts>>
      PROVE  UNCHANGED Chain!chainVars
  BY <1>2, Zenon
     DEF Chain!chainVars, SeenRequests, SeenResolutions, SeenResolution, SeenFacts, SeenFact
<1>3. CASE UNCHANGED <<requests, factVars, messageVars>>
  <2>1. NonePending'
    BY <1>1, <1>3 DEF NonePending
  <2>2. UNCHANGED <<SeenRequests, SeenResolutions, SeenFacts>>
    BY <1>3 DEF SeenRequests, SeenResolutions, SeenFacts, factVars
  <2>3. QED
    BY <1>1, <1>2, <2>1, <2>2 DEF SeenInv
<1>4. CASE \E sender \in Accounts, k \in FactKeys, ttl \in Nat, mode \in ReuseModes,
              target \in Targets, value \in Nat :
                CreateRequest(sender, k, ttl, mode, target, value)
  BY <1>1, <1>4, SeenCreate DEF SeenInv
<1>5. CASE \E sender \in Resolvers, rid \in DOMAIN requests, c \in Commit :
             CommitResolution(sender, rid, c)
  BY <1>1, <1>5, SeenCommit DEF SeenInv
<1>6. ASSUME NEW sender, NEW rid \in DOMAIN requests,
             \/ \E value \in Nat : RetryResolution(sender, rid, value)
             \/ CancelStaleRequest(sender, rid)
             \/ RequestCallbackRetry(sender, rid)
             \/ \E succeeded \in BOOLEAN : MarkCallbackResult(sender, rid, succeeded)
      PROVE  SeenInv' /\ [Chain!ChainNext]_(Chain!chainVars)
  <2>1. /\ NonePending'
        /\ Chain!ChainNext \/ UNCHANGED <<SeenRequests, SeenResolutions, SeenFacts>>
    BY <1>6, SeenDrive
  <2>2. QED
    BY <1>1, <1>2, <2>1 DEF SeenInv
<1> DEFINE Goal == SeenInv' /\ [Chain!ChainNext]_(Chain!chainVars)
<1> HIDE DEF Goal
<1>7. Goal
  BY <1>1, <1>3, <1>4, <1>5, <1>6, StepKinds DEF Goal
<1>8. QED
  BY <1>7 DEF Goal

(***************************************************************************)
(* The registry implements ChainRecords: a reader who polls it sees        *)
(* requests created, answered or cancelled once, resolutions that never    *)
(* change and callback statuses that move, and nothing else.               *)
(***************************************************************************)
THEOREM ImplementsChain == Spec => ChainSpec
<1>1. Spec => []SeenInv
  BY InitSeen, NextSeen, PTL DEF Spec
<1>2. QED
  BY <1>1, InitSeen, NextSeen, PTL DEF Spec, ChainSpec, Chain!ChainSpec
=============================================================================
