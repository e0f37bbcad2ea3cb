--------------------------- MODULE RegistryProofs ---------------------------
(***************************************************************************)
(* Proofs about EvidraRegistry for every value of the constants: any       *)
(* number of accounts, resolvers, consumers, facts and requests, any fees, *)
(* ttls and clock bound.  First the types, then what each step does to the *)
(* records, then facts and their histories: the record of a fact is that   *)
(* of its canonical resolution, versions and links are the history, an     *)
(* answer stays one, and the head is the one FactLedger picks.  Last, sums *)
(* and money: the contract holds what it owes and earned.                  *)
(***************************************************************************)
EXTENDS RegistryProperties, SequenceTheorems, FiniteSetTheorems, WellFoundedInduction, TLAPS

-----------------------------------------------------------------------------
(* Sequences. *)

\* What Append does, over a set of elements.
LEMMA AppendFacts ==
    ASSUME NEW S, NEW s \in Seq(S), NEW e \in S
    PROVE  /\ Append(s, e) \in Seq(S)
           /\ Len(Append(s, e)) = Len(s) + 1
           /\ Len(s) \in Nat
           /\ DOMAIN s = 1..Len(s)
           /\ DOMAIN Append(s, e) = 1..Len(s) + 1
           /\ \A i \in 1..Len(s) : Append(s, e)[i] = s[i]
           /\ Append(s, e)[Len(s) + 1] = e
  OBVIOUS

\* What replacing one element does.
LEMMA ReplaceFacts ==
    ASSUME NEW S, NEW s \in Seq(S), NEW i \in DOMAIN s, NEW e \in S
    PROVE  /\ [s EXCEPT ![i] = e] \in Seq(S)
           /\ Len([s EXCEPT ![i] = e]) = Len(s)
           /\ DOMAIN s = 1..Len(s)
           /\ DOMAIN [s EXCEPT ![i] = e] = DOMAIN s
           /\ [s EXCEPT ![i] = e][i] = e
           /\ \A j \in DOMAIN s \ {i} : [s EXCEPT ![i] = e][j] = s[j]
  BY ExceptSeq, LenProperties

-----------------------------------------------------------------------------
(* Types. *)

\* The cross-references the type of a step's result depends on.
References ==
    /\ \A k \in FactKeys :
          /\ facts[k].exists => /\ facts[k].current \in DOMAIN resolutions
                                /\ facts[k].latest \in DOMAIN resolutions
                                /\ facts[k].request \in DOMAIN requests
          /\ ~facts[k].exists => facts[k].latest = 0 /\ facts[k].current = 0
    /\ \A rid \in DOMAIN requests :
          requests[rid].status \in {"RESOLVED", "REUSED"} =>
              requests[rid].resolution \in DOMAIN resolutions

TypeInv == TypeOK /\ References

LEMMA InitTypeInv == Init => TypeInv
<1> SUFFICES ASSUME Init PROVE TypeInv
  OBVIOUS
<1>1. facts \in [FactKeys -> Fact]
  BY DEF Init, EmptyFact, Fact
<1>2. /\ requests = <<>> /\ requests \in Seq(Request)
      /\ resolutions = <<>> /\ resolutions \in Seq(Resolution)
  BY DEF Init
<1>3. history \in [FactKeys -> Seq(Nat)]
  BY DEF Init
<1>4. owner \in Accounts /\ guardian \in Accounts /\ fees \in FeeConfig /\ now \in Nat
  BY RegistryConstants DEF Init
<1>5. TypeOK
  <2>1. /\ resolvers \in [Resolvers -> {"unknown", "enabled", "disabled"}]
        /\ credits \in [Accounts -> Nat] /\ transfers \in [Accounts -> Nat]
        /\ balance \in Int
    BY DEF Init
  <2>2. QED
    BY <1>1, <1>2, <1>3, <1>4, <2>1 DEF Init, TypeOK
<1>6. \A k \in FactKeys : facts[k] = EmptyFact
  BY DEF Init
<1>7. DOMAIN requests = {}
  BY <1>2
<1>8. References
  <2>0. ~EmptyFact.exists /\ EmptyFact.latest = 0 /\ EmptyFact.current = 0
    BY DEF EmptyFact
  <2>1. \A k \in FactKeys : ~facts[k].exists /\ facts[k].latest = 0 /\ facts[k].current = 0
    BY <1>6, <2>0
  <2>2. \A rid \in DOMAIN requests : FALSE
    BY <1>7
  <2>3. QED
    BY <2>1, <2>2 DEF References
<1>9. QED
  BY <1>5, <1>8 DEF TypeInv

LEMMA FeeTypes ==
    ASSUME TypeOK
    PROVE  /\ fees.base \in Nat /\ fees.perAttempt \in Nat /\ fees.reuse \in Nat
           /\ fees.retryDelay \in Nat /\ fees.staleAfter \in Nat /\ fees.maxAttempts \in Nat
           /\ now \in Nat
<1>1. fees \in FeeConfig /\ now \in Nat
  BY DEF TypeOK
<1>2. QED
  BY <1>1 DEF FeeConfig

LEMMA QuoteType == ASSUME TypeOK, NEW hit \in BOOLEAN PROVE Quote(hit) \in Nat
  BY FeeTypes DEF Quote

LEMMA PaymentType ==
    ASSUME TypeOK, NEW payer \in Accounts, NEW required \in Nat, NEW value \in Nat,
           TakePayment(payer, required, value)
    PROVE  credits' \in [Accounts -> Nat] /\ balance' \in Int /\ transfers' \in [Accounts -> Nat]
  BY DEF TypeOK, TakePayment

\* One field of a request at a time.
LEMMA RequestFields ==
    ASSUME NEW q \in Request, NEW n \in Nat
    PROVE  /\ [q EXCEPT !.attempt = n] \in Request
           /\ [q EXCEPT !.attempts = n] \in Request
           /\ [q EXCEPT !.fee = n] \in Request
           /\ [q EXCEPT !.resolution = n] \in Request
<1>1. [q EXCEPT !.attempt = n] \in Request
  BY DEF Request
<1>2. [q EXCEPT !.attempts = n] \in Request
  BY DEF Request
<1>3. [q EXCEPT !.fee = n] \in Request
  BY DEF Request
<1>4. [q EXCEPT !.resolution = n] \in Request
  BY DEF Request
<1>5. QED
  BY <1>1, <1>2, <1>3, <1>4

LEMMA RequestUpdates ==
    ASSUME TypeOK, NEW q \in Request
    PROVE  /\ Dispatched(q) \in Request
           /\ NextAttempt(q) \in Request
           /\ Cancelled(q) \in Request
           /\ [q EXCEPT !.callback = CallbackStatus(q)] \in Request
           /\ [q EXCEPT !.attempts = 1] \in Request
           /\ \A b \in BOOLEAN : Reported(q, b) \in Request
           /\ \A s \in {"RESOLVED", "REUSED"}, n \in Nat : Answered(q, s, n) \in Request
<1>0. /\ now + fees.retryDelay \in Nat /\ now \in Nat
      /\ q.fee + fees.perAttempt \in Nat
  BY FeeTypes DEF Request
<1>1. NextAttempt(q) \in Request
  <2> DEFINE paid == [q EXCEPT !.fee = q.fee + fees.perAttempt]
             moved == [paid EXCEPT !.attempt = q.attempt + 1]
  <2>1. q.attempt + 1 \in Nat /\ q.attempts + 1 \in Nat
    BY DEF Request
  <2>2. /\ paid \in Request /\ paid.attempt = q.attempt /\ paid.attempts = q.attempts
    BY <1>0, RequestFields DEF Request
  <2>3. moved \in Request
    BY <2>1, <2>2, RequestFields
  <2>4. NextAttempt(q) = [moved EXCEPT !.attempts = q.attempts + 1]
    BY DEF NextAttempt
  <2>5. QED
    BY <2>1, <2>3, <2>4, RequestFields
<1> USE DEF Request, Statuses, Open, Terminal, CallbackStatuses
<1>2. Dispatched(q) \in Request
  BY <1>0 DEF Dispatched
<1>3. Cancelled(q) \in Request
  BY DEF Cancelled
<1>4. [q EXCEPT !.callback = CallbackStatus(q)] \in Request
  BY DEF CallbackStatus
<1>5. [q EXCEPT !.attempts = 1] \in Request
  OBVIOUS
<1>6. \A b \in BOOLEAN : Reported(q, b) \in Request
  BY DEF Reported
<1>7. \A s \in {"RESOLVED", "REUSED"}, n \in Nat : Answered(q, s, n) \in Request
  BY DEF Answered, CallbackStatus
<1>8. QED
  BY <1>1, <1>2, <1>3, <1>4, <1>5, <1>6, <1>7

LEMMA NewRequestType ==
    ASSUME TypeOK, NEW sender \in Accounts, NEW k \in FactKeys, NEW ttl \in Nat,
           NEW target \in Targets, NEW paid \in Nat, Enabled(defaultResolver)
    PROVE  NewRequest(sender, k, ttl, target, paid) \in Request
<1>1. /\ defaultResolver \in Resolvers
      /\ now \in Nat
      /\ fees.maxAttempts \in Nat
  BY FeeTypes DEF Enabled
<1>2. QED
  BY <1>1 DEF Request, NewRequest, Statuses, Open, Terminal, CallbackStatuses

LEMMA CallbackMessagesType ==
    ASSUME TypeOK, NEW rid \in Nat, NEW q \in Request, NEW resid \in Nat, NEW outcome \in Outcomes,
           NEW at \in Nat, NEW until \in Nat
    PROVE  CallbackMessages(rid, q, resid, outcome, at, until) \subseteq Callback
  BY DEF CallbackMessages, Callback, Request, Targets

LEMMA RequestAt ==
    ASSUME TypeInv, NEW rid \in DOMAIN requests
    PROVE  TypeOK /\ References /\ requests[rid] \in Request /\ rid \in Nat
<1>1. requests \in Seq(Request)
  BY DEF TypeInv, TypeOK
<1>2. requests \in [1..Len(requests) -> Request] /\ DOMAIN requests = 1..Len(requests)
      /\ Len(requests) \in Nat
  BY <1>1, LenProperties
<1>3. requests[rid] \in Request /\ rid \in Nat
  BY <1>2
<1>4. QED
  BY <1>3 DEF TypeInv

LEMMA ResolutionAt ==
    ASSUME TypeInv, NEW id \in DOMAIN resolutions
    PROVE  resolutions[id] \in Resolution /\ id \in Nat
<1>1. resolutions \in Seq(Resolution)
  BY DEF TypeInv, TypeOK
<1>2. resolutions \in [1..Len(resolutions) -> Resolution] /\ DOMAIN resolutions = 1..Len(resolutions)
      /\ Len(resolutions) \in Nat
  BY <1>1, LenProperties
<1>3. QED
  BY <1>2

LEMMA CreateStep ==
    ASSUME TypeInv,
           NEW sender \in Accounts, NEW k \in FactKeys, NEW ttl \in Nat, NEW mode \in ReuseModes,
           NEW target \in Targets, NEW value \in Nat,
           CreateRequest(sender, k, ttl, mode, target, value)
    PROVE  TypeInv'
<1> DEFINE hit == CanReuse(k, mode, ttl)
           q == NewRequest(sender, k, ttl, target, Quote(hit))
<1>1. TypeOK /\ References
  BY DEF TypeInv
<1>2. hit \in BOOLEAN /\ Quote(hit) \in Nat
  BY <1>1, QuoteType DEF CanReuse, FreshnessAllowsReuse
<1>3. /\ q \in Request /\ q.key = k /\ q.status = "PENDING"
      /\ q.resolution = 0
  BY <1>1, <1>2, NewRequestType DEF CreateRequest, NewRequest
<1>4. credits' \in [Accounts -> Nat] /\ balance' \in Int /\ transfers' \in [Accounts -> Nat]
  BY <1>1, <1>2, PaymentType DEF CreateRequest
<1>5. UNCHANGED <<adminVars, policyVars, factVars, now>>
  BY DEF CreateRequest
<1>6. /\ \E r \in Request :
            /\ requests' = Append(requests, r)
            /\ r.status = "DISPATCHED" \/ r.resolution \in DOMAIN resolutions
      /\ jobs' \subseteq Job /\ callbacks' \subseteq Callback
  <2> DEFINE rid == Len(requests) + 1
             f == facts[k]
  <2>1. requests \in Seq(Request) /\ rid \in Nat /\ jobs \subseteq Job /\ callbacks \subseteq Callback
    BY <1>1 DEF TypeOK
  <2>2. CASE hit
    <3>1. /\ requests' = Append(requests, Answered(q, "REUSED", f.current))
          /\ callbacks' = callbacks \cup
                CallbackMessages(rid, q, f.current, f.outcome, f.resolvedAt, f.validUntil)
          /\ jobs' = jobs
      BY <2>2, <1>3 DEF CreateRequest, AnswerFromFact
    <3>2. f \in Fact /\ f.exists /\ f.outcome \in BooleanOutcomes
      BY <2>2, <1>1 DEF CanReuse, FreshnessAllowsReuse, TypeOK
    <3>3. /\ f.current \in Nat /\ f.outcome \in Outcomes
          /\ f.resolvedAt \in Nat /\ f.validUntil \in Nat
      BY <3>2 DEF Fact, Outcomes
    <3>4. f.current \in DOMAIN resolutions
      BY <3>2, <1>1 DEF References
    <3>5. Answered(q, "REUSED", f.current) \in Request
      BY <1>1, <1>3, <3>3, RequestUpdates
    <3>6. Answered(q, "REUSED", f.current).resolution = f.current
      BY <1>3 DEF Answered, Request
    <3>7. CallbackMessages(rid, q, f.current, f.outcome, f.resolvedAt, f.validUntil) \subseteq Callback
      BY <1>1, <1>3, <2>1, <3>3, CallbackMessagesType
    <3>8. QED
      BY <2>1, <3>1, <3>4, <3>5, <3>6, <3>7
  <2>3. CASE ~hit
    <3> DEFINE first == [q EXCEPT !.attempts = 1]
    <3>1. /\ requests' = Append(requests, Dispatched(first))
          /\ jobs' = jobs \cup {JobOf(rid, q)}
          /\ callbacks' = callbacks
      BY <2>3 DEF CreateRequest, DispatchNew
    <3>2. first \in Request /\ Dispatched(first) \in Request
      BY <1>1, <1>3, RequestUpdates
    <3>3. Dispatched(first).status = "DISPATCHED"
      BY <3>2 DEF Dispatched, Request
    <3>4. JobOf(rid, q) \in Job
      BY <2>1, <1>3 DEF JobOf, Job, Request
    <3>5. QED
      BY <2>1, <3>1, <3>2, <3>3, <3>4
  <2>4. QED
    BY <1>2, <2>2, <2>3
<1>7. PICK r \in Request : /\ requests' = Append(requests, r)
                           /\ r.status = "DISPATCHED" \/ r.resolution \in DOMAIN resolutions
  BY <1>6
<1>8. /\ requests' \in Seq(Request)
      /\ DOMAIN requests \subseteq DOMAIN requests'
      /\ \A i \in DOMAIN requests' : i \in DOMAIN requests \/ requests'[i] = r
      /\ \A i \in DOMAIN requests : requests'[i] = requests[i]
  BY <1>1, <1>7, AppendFacts DEF TypeOK
<1>9. TypeOK'
  BY <1>1, <1>4, <1>5, <1>6, <1>8 DEF TypeOK, adminVars, policyVars, factVars
<1>10. References'
  BY <1>1, <1>5, <1>7, <1>8 DEF References, factVars
<1>11. QED
  BY <1>9, <1>10 DEF TypeInv

\* A step that replaces one request and leaves facts and resolutions alone.
LEMMA ReplaceRequest ==
    ASSUME TypeInv, NEW rid \in DOMAIN requests, NEW r \in Request,
           requests' = [requests EXCEPT ![rid] = r],
           r.status \in {"RESOLVED", "REUSED"} => r.resolution \in DOMAIN resolutions,
           UNCHANGED factVars
    PROVE  requests' \in Seq(Request) /\ References'
<1>1. TypeOK /\ References
  BY DEF TypeInv
<1>2. /\ requests' \in Seq(Request)
      /\ DOMAIN requests' = DOMAIN requests
      /\ requests'[rid] = r
      /\ \A i \in DOMAIN requests \ {rid} : requests'[i] = requests[i]
  BY <1>1, ReplaceFacts DEF TypeOK
<1>3. References'
  BY <1>1, <1>2 DEF References, factVars
<1>4. QED
  BY <1>2, <1>3

LEMMA RetryStep ==
    ASSUME TypeInv, NEW sender \in Accounts, NEW rid \in DOMAIN requests, NEW value \in Nat,
           RetryResolution(sender, rid, value)
    PROVE  TypeInv'
<1> DEFINE q == requests[rid]
           n == NextAttempt(q)
<1>1. TypeOK /\ q \in Request /\ rid \in Nat /\ fees.perAttempt \in Nat
  BY FeeTypes, RequestAt
<1>2. n \in Request /\ Dispatched(n) \in Request
  BY <1>1, RequestUpdates
<1>3. Dispatched(n).status = "DISPATCHED"
  BY <1>2 DEF Dispatched, Request
<1>4. requests' \in Seq(Request) /\ References'
  <2>1. requests' = [requests EXCEPT ![rid] = Dispatched(n)] /\ UNCHANGED factVars
    BY DEF RetryResolution
  <2>2. QED
    BY <1>2, <1>3, <2>1, ReplaceRequest
<1>5. credits' \in [Accounts -> Nat] /\ balance' \in Int /\ transfers' \in [Accounts -> Nat]
  BY <1>1, PaymentType DEF RetryResolution
<1>6. jobs' \subseteq Job
  <2>1. JobOf(rid, n) \in Job
    BY <1>1, <1>2 DEF JobOf, Job, Request
  <2>2. QED
    BY <1>1, <2>1 DEF RetryResolution, TypeOK
<1>7. TypeOK'
  BY <1>1, <1>4, <1>5, <1>6 DEF RetryResolution, TypeOK, adminVars, policyVars, factVars
<1>8. QED
  BY <1>4, <1>7 DEF TypeInv

LEMMA CancelStep ==
    ASSUME TypeInv, NEW sender \in Accounts, NEW rid \in DOMAIN requests,
           CancelStaleRequest(sender, rid)
    PROVE  TypeInv'
<1> DEFINE q == requests[rid]
<1>1. TypeOK /\ q \in Request
  BY RequestAt
<1>2. Cancelled(q) \in Request
  BY <1>1, RequestUpdates
<1>3. requests' \in Seq(Request) /\ References'
  <2>1. Cancelled(q).status = "CANCELLED"
    BY <1>1 DEF Cancelled, Request
  <2>2. requests' = [requests EXCEPT ![rid] = Cancelled(q)] /\ UNCHANGED factVars
    BY DEF CancelStaleRequest
  <2>3. QED
    BY <1>2, <2>1, <2>2, ReplaceRequest
<1>4. credits' \in [Accounts -> Nat]
  <2>1. q.requester \in Accounts /\ q.fee \in Nat
    BY <1>1 DEF Request
  <2>2. credits' = [credits EXCEPT ![q.requester] = @ + q.fee] /\ credits \in [Accounts -> Nat]
    BY <1>1 DEF CancelStaleRequest, TypeOK
  <2>3. QED
    BY <2>1, <2>2
<1>5. TypeOK'
  BY <1>1, <1>3, <1>4
     DEF CancelStaleRequest, TypeOK, adminVars, policyVars, factVars, messageVars
<1>6. QED
  BY <1>3, <1>5 DEF TypeInv

LEMMA CommitStep ==
    ASSUME TypeInv, NEW sender \in Resolvers, NEW rid \in DOMAIN requests, NEW c \in Commit,
           CommitResolution(sender, rid, c)
    PROVE  TypeInv'
<1> DEFINE q == requests[rid]
           f == facts[q.key]
           resid == Len(resolutions) + 1
           r == CommittedResolution(rid, q, c)
           previous == PreviousAttempt(f)
<1>1. /\ TypeOK /\ References
      /\ q \in Request /\ rid \in Nat /\ q.key \in FactKeys /\ q.ttl \in Nat
      /\ resolutions \in Seq(Resolution) /\ resid \in Nat /\ f \in Fact /\ now \in Nat
  <2>1. TypeOK /\ References /\ q \in Request /\ rid \in Nat
    BY RequestAt
  <2>2. q.key \in FactKeys /\ q.ttl \in Nat
    BY <2>1 DEF Request
  <2>3. resolutions \in Seq(Resolution) /\ f \in Fact /\ now \in Nat
    BY <2>1, <2>2 DEF TypeOK
  <2>4. resid \in Nat
    BY <2>3, LenProperties
  <2>5. QED
    BY <2>1, <2>2, <2>3, <2>4
<1>2. previous \in Nat /\ (previous = 0 \/ previous \in DOMAIN resolutions)
  BY <1>1 DEF PreviousAttempt, References, Fact
<1>3. r \in Resolution /\ r.request = rid /\ r.key = q.key
  <2>1. \A n \in DOMAIN resolutions : resolutions[n].version \in Nat
    BY ResolutionAt DEF Resolution
  <2>2. (IF previous = 0 THEN 1 ELSE resolutions[previous].version + 1) \in Nat
    BY <1>2, <2>1
  <2>3. ValidUntil(q, c.until) \in Nat
    BY <1>1 DEF ValidUntil, Commit
  <2>4. c.attempt \in Nat /\ c.outcome \in Outcomes /\ c.policyOk \in BOOLEAN
    BY DEF Commit
  <2>5. QED
    BY <1>1, <1>2, <2>2, <2>3, <2>4 DEF CommittedResolution, Resolution
<1>4. FactAfter(f, resid, r) \in Fact /\ FactAfter(f, resid, r).exists
      /\ FactAfter(f, resid, r).latest = resid
      /\ \/ FactAfter(f, resid, r).current = resid /\ FactAfter(f, resid, r).request = rid
         \/ /\ f.exists
            /\ FactAfter(f, resid, r).current = f.current
            /\ FactAfter(f, resid, r).request = f.request
  <2>1. CASE ShouldAdvanceCanonical(f, r.outcome, r.policyOk)
    BY <1>1, <1>3, <2>1 DEF FactAfter, Fact, Resolution
  <2>2. CASE ~ShouldAdvanceCanonical(f, r.outcome, r.policyOk)
    <3>1. f.exists
      BY <2>2 DEF ShouldAdvanceCanonical
    <3>2. FactAfter(f, resid, r) = [f EXCEPT !.latest = resid]
      BY <2>2 DEF FactAfter
    <3>3. QED
      BY <1>1, <3>1, <3>2 DEF Fact
  <2>3. QED
    BY <2>1, <2>2
<1>5. /\ resolutions' = Append(resolutions, r)
      /\ history' = [history EXCEPT ![q.key] = Append(@, resid)]
      /\ facts' = [facts EXCEPT ![q.key] = FactAfter(f, resid, r)]
      /\ requests' = [requests EXCEPT ![rid] = Answered(q, "RESOLVED", resid)]
      /\ callbacks' = callbacks \cup
             CallbackMessages(rid, q, resid, r.outcome, r.committedAt, r.validUntil)
  BY DEF CommitResolution
<1>6. /\ resolutions' \in Seq(Resolution)
      /\ DOMAIN resolutions' = 1..resid
      /\ DOMAIN resolutions \subseteq DOMAIN resolutions'
      /\ resid \in DOMAIN resolutions'
  BY <1>1, <1>3, <1>5, AppendFacts
<1>7. history' \in [FactKeys -> Seq(Nat)]
  <2>1. Append(history[q.key], resid) \in Seq(Nat)
    BY <1>1, AppendFacts DEF TypeOK
  <2>2. QED
    BY <1>1, <1>5, <2>1 DEF TypeOK
<1>8. facts' \in [FactKeys -> Fact]
  BY <1>1, <1>4, <1>5 DEF TypeOK
<1>9. callbacks' \subseteq Callback
  <2>1. CallbackMessages(rid, q, resid, r.outcome, r.committedAt, r.validUntil) \subseteq Callback
    <3>1. r.outcome \in Outcomes /\ r.committedAt \in Nat /\ r.validUntil \in Nat
      BY <1>3 DEF Resolution
    <3>2. QED
      BY <1>1, <3>1, CallbackMessagesType
  <2>2. QED
    BY <1>1, <1>5, <2>1 DEF TypeOK
<1>10. /\ requests' \in Seq(Request)
       /\ DOMAIN requests' = DOMAIN requests
       /\ requests'[rid].resolution = resid
       /\ \A i \in DOMAIN requests \ {rid} : requests'[i] = requests[i]
  <2>1. Answered(q, "RESOLVED", resid) \in Request
    BY <1>1, RequestUpdates
  <2>2. Answered(q, "RESOLVED", resid).resolution = resid
    BY <1>1 DEF Answered, Request
  <2>3. requests \in Seq(Request)
    BY <1>1 DEF TypeOK
  <2>4. QED
    BY <1>5, <2>1, <2>2, <2>3, ReplaceFacts
<1>11. TypeOK'
  BY <1>1, <1>6, <1>7, <1>8, <1>9, <1>10
     DEF CommitResolution, TypeOK, adminVars, policyVars, moneyVars
<1>12. References'
  <2>1. ASSUME NEW k \in FactKeys
        PROVE  /\ facts'[k].exists => /\ facts'[k].current \in DOMAIN resolutions'
                                      /\ facts'[k].latest \in DOMAIN resolutions'
                                      /\ facts'[k].request \in DOMAIN requests'
               /\ ~facts'[k].exists => facts'[k].latest = 0 /\ facts'[k].current = 0
    <3>1. CASE k = q.key
      <4>1. facts'[k] = FactAfter(f, resid, r)
        BY <1>1, <1>5, <3>1 DEF TypeOK
      <4>2. QED
        BY <1>1, <1>4, <1>6, <1>10, <3>1, <4>1 DEF References
    <3>2. CASE k # q.key
      <4>1. facts'[k] = facts[k]
        BY <1>1, <1>5, <3>2 DEF TypeOK
      <4>2. QED
        BY <1>1, <1>6, <1>10, <4>1 DEF References
    <3>3. QED
      BY <3>1, <3>2
  <2>2. \A i \in DOMAIN requests' :
            requests'[i].status \in {"RESOLVED", "REUSED"} =>
                requests'[i].resolution \in DOMAIN resolutions'
    BY <1>1, <1>6, <1>10 DEF References
  <2>3. QED
    BY <2>1, <2>2 DEF References
<1>13. QED
  BY <1>11, <1>12 DEF TypeInv

LEMMA CallbackRetryStep ==
    ASSUME TypeInv, NEW sender \in Accounts, NEW rid \in DOMAIN requests,
           RequestCallbackRetry(sender, rid)
    PROVE  TypeInv'
<1> DEFINE q == requests[rid]
           r == resolutions[q.resolution]
           s == [q EXCEPT !.callback = CallbackStatus(q)]
<1>1. TypeOK /\ References /\ q \in Request /\ rid \in Nat /\ s \in Request
  BY RequestAt, RequestUpdates
<1>2. q.resolution \in DOMAIN resolutions /\ q.resolution \in Nat
  BY <1>1 DEF RequestCallbackRetry, References, Request
<1>3. s.resolution = q.resolution
  BY <1>1 DEF Request
<1>4. requests' = [requests EXCEPT ![rid] = s] /\ UNCHANGED factVars
  BY DEF RequestCallbackRetry
<1>5. requests' \in Seq(Request) /\ References'
  BY <1>1, <1>2, <1>3, <1>4, ReplaceRequest
<1>6. callbacks' \subseteq Callback
  <2>1. r \in Resolution
    BY <1>2, ResolutionAt
  <2>2. CallbackMessages(rid, q, q.resolution, r.outcome, r.committedAt, r.validUntil)
          \subseteq Callback
    <3>1. r.outcome \in Outcomes /\ r.committedAt \in Nat /\ r.validUntil \in Nat
      BY <2>1 DEF Resolution
    <3>2. QED
      BY <1>1, <1>2, <3>1, CallbackMessagesType
  <2>3. QED
    BY <1>1, <2>2 DEF RequestCallbackRetry, TypeOK
<1>7. TypeOK'
  BY <1>1, <1>5, <1>6
     DEF RequestCallbackRetry, TypeOK, adminVars, policyVars, factVars, moneyVars
<1>8. QED
  BY <1>5, <1>7 DEF TypeInv

LEMMA MarkCallbackStep ==
    ASSUME TypeInv, NEW sender \in Consumers, NEW rid \in DOMAIN requests,
           NEW succeeded \in BOOLEAN, MarkCallbackResult(sender, rid, succeeded)
    PROVE  TypeInv'
<1> DEFINE q == requests[rid]
           s == Reported(q, succeeded)
<1>1. TypeOK /\ References /\ q \in Request /\ s \in Request
  BY RequestAt, RequestUpdates
<1>2. s.resolution = q.resolution /\ s.status = q.status
  BY <1>1 DEF Reported, Request
<1>3. requests' = [requests EXCEPT ![rid] = s] /\ UNCHANGED factVars
  BY DEF MarkCallbackResult
<1>4. s.status \in {"RESOLVED", "REUSED"} => s.resolution \in DOMAIN resolutions
  BY <1>1, <1>2 DEF References
<1>5. requests' \in Seq(Request) /\ References'
  BY <1>1, <1>3, <1>4, ReplaceRequest
<1>6. TypeOK'
  BY <1>1, <1>5
     DEF MarkCallbackResult, TypeOK, adminVars, policyVars, factVars, moneyVars, messageVars
<1>7. QED
  BY <1>5, <1>6 DEF TypeInv

\* A step that leaves requests, facts and resolutions alone.
LEMMA SideStep ==
    ASSUME TypeInv, UNCHANGED <<requests, factVars>>, TypeOK'
    PROVE  TypeInv'
<1>1. References'
  BY DEF TypeInv, References, factVars
<1>2. QED
  BY <1>1 DEF TypeInv

LEMMA WithdrawStep ==
    ASSUME TypeInv, NEW who \in Accounts, WithdrawCredit(who)
    PROVE  TypeInv'
<1>1. credits' \in [Accounts -> Nat] /\ transfers' \in [Accounts -> Nat]
  BY DEF TypeInv, TypeOK, WithdrawCredit
<1>2. TypeOK'
  BY <1>1 DEF WithdrawCredit, TypeInv, TypeOK, adminVars, policyVars, factVars, messageVars
<1>3. QED
  BY <1>2, SideStep DEF WithdrawCredit

LEMMA AdministerStep ==
    ASSUME TypeInv, NEW sender \in Accounts, Administer(sender)
    PROVE  TypeInv'
<1>1. TypeOK /\ UNCHANGED <<policyVars, requests, factVars, moneyVars, messageVars, now>>
  BY DEF TypeInv, Administer
<1> DEFINE AdminOK ==
             /\ owner \in Accounts /\ pendingOwner \in Accounts \cup {ZERO}
             /\ guardian \in Accounts /\ paused \in BOOLEAN /\ fees \in FeeConfig
             /\ resolvers \in [Resolvers -> {"unknown", "enabled", "disabled"}]
             /\ defaultResolver \in Resolvers \cup {ZERO}
<1>2. AdminOK
  BY <1>1 DEF TypeOK
<1>3. AdminOK'
  <2>1. CASE \E r \in Resolvers, e \in BOOLEAN : SetResolverEnabled(sender, r, e)
    BY <1>2, <2>1 DEF SetResolverEnabled
  <2>2. CASE \E r \in Resolvers : SetDefaultResolver(sender, r)
    BY <1>2, <2>2 DEF SetDefaultResolver
  <2>3. CASE \E c \in FeeConfigs : SetFeeConfig(sender, c)
    BY <1>2, <2>3, RegistryConstants DEF SetFeeConfig
  <2>4. CASE \E a \in Accounts : SetGuardian(sender, a)
    BY <1>2, <2>4 DEF SetGuardian
  <2>5. CASE PauseNewRequests(sender)
    BY <1>2, <2>5 DEF PauseNewRequests
  <2>6. CASE UnpauseNewRequests(sender)
    BY <1>2, <2>6 DEF UnpauseNewRequests
  <2>7. CASE \E a \in Accounts : ProposeOwner(sender, a)
    BY <1>2, <2>7 DEF ProposeOwner
  <2>8. CASE AcceptOwner(sender)
    BY <1>2, <2>8 DEF AcceptOwner
  <2>9. QED
    BY <2>1, <2>2, <2>3, <2>4, <2>5, <2>6, <2>7, <2>8 DEF Administer
<1>4. TypeOK'
  BY <1>1, <1>3 DEF TypeOK, policyVars, factVars, moneyVars, messageVars
<1>5. QED
  BY <1>1, <1>4, SideStep

LEMMA SurroundingsStep ==
    ASSUME TypeInv, SurroundingsNext
    PROVE  TypeInv'
<1>1. TypeOK
  BY DEF TypeInv
<1>2. ASSUME NEW k \in FactKeys, DeprecatePolicy(k) PROVE TypeInv'
  <2>1. TypeOK'
    BY <1>1, <1>2 DEF DeprecatePolicy, TypeOK, adminVars, factVars, moneyVars, messageVars
  <2>2. QED
    BY <1>2, <2>1, SideStep DEF DeprecatePolicy
<1>3. ASSUME NEW k \in TemplateKeys, DeprecateTemplate(k) PROVE TypeInv'
  <2>1. TypeOK'
    BY <1>1, <1>3 DEF DeprecateTemplate, TypeOK, adminVars, factVars, moneyVars, messageVars
  <2>2. QED
    BY <1>3, <2>1, SideStep DEF DeprecateTemplate
<1>4. ASSUME NEW who \in Accounts, FinalizeTransfer(who) PROVE TypeInv'
  <2>1. balance' \in Int /\ transfers' \in [Accounts -> Nat]
    BY <1>1, <1>4 DEF TypeOK, FinalizeTransfer
  <2>2. TypeOK'
    BY <1>1, <1>4, <2>1
       DEF FinalizeTransfer, TypeOK, adminVars, policyVars, factVars, messageVars
  <2>3. QED
    BY <1>4, <2>2, SideStep DEF FinalizeTransfer
<1>5. CASE Tick
  <2>1. TypeOK'
    BY <1>1, <1>5 DEF Tick, TypeOK, adminVars, policyVars, factVars, moneyVars, messageVars
  <2>2. QED
    BY <1>5, <2>1, SideStep DEF Tick
<1>6. QED
  BY <1>2, <1>3, <1>4, <1>5 DEF SurroundingsNext

\* What a refresh or reassessment repeats is well typed.
LEMMA PreviousRequest ==
    ASSUME TypeInv, NEW k \in FactKeys, facts[k].exists
    PROVE  requests[facts[k].request].key \in FactKeys /\ requests[facts[k].request].ttl \in Nat
<1>1. facts[k].request \in DOMAIN requests
  BY DEF TypeInv, References
<1>2. requests[facts[k].request] \in Request
  BY <1>1, RequestAt
<1>3. QED
  BY <1>2 DEF Request

\* Whichever entry point creates a request, it calls _create_request with these.
LEMMA CreateArguments ==
    ASSUME TypeInv, NEW sender, NEW k \in FactKeys, NEW target, NEW value,
           \/ \E ttl \in Ttls, mode \in ReuseModes :
                 \/ RequestFact(sender, k, ttl, mode, target, value)
                 \/ RequestFactByTemplate(sender, k, ttl, mode, target, value)
           \/ RefreshFact(sender, k, target, value)
           \/ RequestReassessment(sender, k, target, value)
    PROVE  \E key \in FactKeys, ttl \in Nat, mode \in ReuseModes :
               CreateRequest(sender, key, ttl, mode, target, value)
<1>1. CASE \E ttl \in Ttls, mode \in ReuseModes :
              \/ RequestFact(sender, k, ttl, mode, target, value)
              \/ RequestFactByTemplate(sender, k, ttl, mode, target, value)
  BY <1>1, RegistryConstants DEF RequestFact, RequestFactByTemplate
<1>2. CASE RefreshFact(sender, k, target, value) \/ RequestReassessment(sender, k, target, value)
  <2> DEFINE previous == requests[facts[k].request]
  <2>1. facts[k].exists
        /\ CreateRequest(sender, previous.key, previous.ttl, "FORCE_FRESH_RESOLUTION", target, value)
    BY <1>2 DEF RefreshFact, RequestReassessment
  <2>2. previous.key \in FactKeys /\ previous.ttl \in Nat
    BY <2>1, PreviousRequest
  <2>3. "FORCE_FRESH_RESOLUTION" \in ReuseModes
    BY DEF ReuseModes
  <2>4. QED
    BY <2>1, <2>2, <2>3
<1>3. QED
  BY <1>1, <1>2

LEMMA CreateNextStep ==
    ASSUME TypeInv, CreateNext
    PROVE  TypeInv'
<1>1. PICK sender \in Accounts, k \in FactKeys, target \in Targets, value \in Values :
        \/ \E ttl \in Ttls, mode \in ReuseModes :
              \/ RequestFact(sender, k, ttl, mode, target, value)
              \/ RequestFactByTemplate(sender, k, ttl, mode, target, value)
        \/ RefreshFact(sender, k, target, value)
        \/ RequestReassessment(sender, k, target, value)
  BY DEF CreateNext
<1>2. \E key \in FactKeys, ttl \in Nat, mode \in ReuseModes :
          CreateRequest(sender, key, ttl, mode, target, value)
  BY <1>1, CreateArguments
<1>3. value \in Nat
  BY RegistryConstants
<1>4. QED
  BY <1>2, <1>3, CreateStep

LEMMA DriveNextStep ==
    ASSUME TypeInv, DriveNext
    PROVE  TypeInv'
<1>1. Values \subseteq Nat
  BY RegistryConstants
<1>2. QED
  BY <1>1, RetryStep, CancelStep, CallbackRetryStep, MarkCallbackStep DEF DriveNext

\* What a resolver submits is well typed.
LEMMA CommitArguments ==
    ASSUME TypeInv, CommitNext
    PROVE  \E sender \in Resolvers, rid \in DOMAIN requests, c \in Commit :
               CommitResolution(sender, rid, c)
<1>1. {q.attempt : q \in Range(requests)} \subseteq Nat
  <2>1. \A i \in DOMAIN requests : requests[i].attempt \in Nat
    BY RequestAt DEF Request
  <2>2. QED
    BY <2>1 DEF Range
<1>2. Commits \subseteq Commit
  BY <1>1, RegistryConstants DEF Commits, Commit
<1>3. QED
  BY <1>2 DEF CommitNext

LEMMA CommitNextStep ==
    ASSUME TypeInv, CommitNext
    PROVE  TypeInv'
  BY CommitArguments, CommitStep

LEMMA NextTypeInv == TypeInv /\ [Next]_vars => TypeInv'
<1> SUFFICES ASSUME TypeInv, [Next]_vars PROVE TypeInv'
  OBVIOUS
<1>1. CASE UNCHANGED vars
  BY <1>1 DEF TypeInv, TypeOK, References, vars, adminVars, policyVars, factVars,
              moneyVars, messageVars
<1>2. CASE Next
  BY <1>2, CreateNextStep, DriveNextStep, CommitNextStep, WithdrawStep, AdministerStep,
     SurroundingsStep DEF Next
<1>3. QED
  BY <1>1, <1>2

(***************************************************************************)
(* Every reachable state of the registry is well typed; in particular no   *)
(* cross-reference (a fact's resolution and request, a request's answer)   *)
(* ever dangles, whoever calls it.                                         *)
(***************************************************************************)
THEOREM TypeCorrect == Spec => []TypeOK
<1>1. Spec => []TypeInv
  BY InitTypeInv, NextTypeInv, PTL DEF Spec
<1>2. TypeInv => TypeOK
  BY DEF TypeInv
<1>3. QED
  BY <1>1, <1>2, PTL

-----------------------------------------------------------------------------
(* What a step does, for the proofs that follow. *)

\* Every step creates a request, drives one, commits, or leaves the records alone.
LEMMA StepKinds ==
    ASSUME TypeInv, [Next]_vars
    PROVE  \/ \E sender \in Accounts, k \in FactKeys, ttl \in Nat, mode \in ReuseModes,
                 target \in Targets, value \in Nat :
                   CreateRequest(sender, k, ttl, mode, target, value)
           \/ \E sender \in Accounts, rid \in DOMAIN requests, value \in Nat :
                   RetryResolution(sender, rid, value)
           \/ \E sender \in Accounts, rid \in DOMAIN requests : CancelStaleRequest(sender, rid)
           \/ \E sender \in Accounts, rid \in DOMAIN requests : RequestCallbackRetry(sender, rid)
           \/ \E sender \in Consumers, rid \in DOMAIN requests, succeeded \in BOOLEAN :
                   MarkCallbackResult(sender, rid, succeeded)
           \/ \E sender \in Resolvers, rid \in DOMAIN requests, c \in Commit :
                   CommitResolution(sender, rid, c)
           \/ UNCHANGED <<requests, factVars, messageVars>> /\ now' \in {now, now + 1}
<1>1. Values \subseteq Nat
  BY RegistryConstants
<1>2. CASE UNCHANGED vars
  BY <1>2 DEF vars, factVars, messageVars
<1>3. CASE CreateNext
  <2>1. PICK sender \in Accounts, k \in FactKeys, target \in Targets, value \in Values :
          \/ \E ttl \in Ttls, mode \in ReuseModes :
                \/ RequestFact(sender, k, ttl, mode, target, value)
                \/ RequestFactByTemplate(sender, k, ttl, mode, target, value)
          \/ RefreshFact(sender, k, target, value)
          \/ RequestReassessment(sender, k, target, value)
    BY <1>3 DEF CreateNext
  <2>2. \E key \in FactKeys, ttl \in Nat, mode \in ReuseModes :
            CreateRequest(sender, key, ttl, mode, target, value)
    BY <2>1, CreateArguments
  <2>3. QED
    BY <1>1, <2>2
<1>4. CASE DriveNext
  BY <1>1, <1>4 DEF DriveNext
<1>5. CASE CommitNext
  BY <1>5, CommitArguments
<1>6. CASE \E who \in Accounts : WithdrawCredit(who)
  BY <1>6 DEF WithdrawCredit, factVars, messageVars
<1>7. CASE \E sender \in Accounts : Administer(sender)
  BY <1>7 DEF Administer, factVars, messageVars
<1>8. CASE SurroundingsNext
  BY <1>8 DEF SurroundingsNext, DeprecatePolicy, DeprecateTemplate, FinalizeTransfer, Tick,
              factVars, messageVars
<1>9. QED
  BY <1>2, <1>3, <1>4, <1>5, <1>6, <1>7, <1>8 DEF Next

\* A retry's new attempt, field by field.
LEMMA RetriedFields ==
    ASSUME TypeOK, NEW q \in Request
    PROVE  LET r == Dispatched(NextAttempt(q))
           IN  /\ r.status = "DISPATCHED"
               /\ r.attempt = q.attempt + 1 /\ r.attempts = q.attempts + 1
               /\ r.key = q.key /\ r.ttl = q.ttl /\ r.createdAt = q.createdAt
               /\ r.resolver = q.resolver /\ r.maxAttempts = q.maxAttempts
               /\ r.target = q.target /\ r.callback = q.callback
               /\ r.resolution = q.resolution
<1> DEFINE n == NextAttempt(q)
<1>1. n \in Request
  BY RequestUpdates
<1>2. /\ n.attempt = q.attempt + 1 /\ n.attempts = q.attempts + 1
      /\ n.key = q.key /\ n.ttl = q.ttl /\ n.createdAt = q.createdAt
      /\ n.resolver = q.resolver /\ n.maxAttempts = q.maxAttempts
      /\ n.target = q.target /\ n.callback = q.callback /\ n.resolution = q.resolution
  BY DEF NextAttempt, Request
<1> HIDE DEF n
<1>3. LET r == Dispatched(n)
      IN  /\ r.status = "DISPATCHED"
          /\ r.attempt = n.attempt /\ r.attempts = n.attempts
          /\ r.key = n.key /\ r.ttl = n.ttl /\ r.createdAt = n.createdAt
          /\ r.resolver = n.resolver /\ r.maxAttempts = n.maxAttempts
          /\ r.target = n.target /\ r.callback = n.callback
          /\ r.resolution = n.resolution
  BY <1>1 DEF Dispatched, Request
<1>4. QED
  BY <1>2, <1>3 DEF n

\* The other rewrites of a request, field by field.
LEMMA RewrittenFields ==
    ASSUME NEW q \in Request, NEW r, NEW resid,
           \/ r = Cancelled(q)
           \/ r = [q EXCEPT !.callback = CallbackStatus(q)]
           \/ \E succeeded \in BOOLEAN : r = Reported(q, succeeded)
           \/ r = Answered(q, "RESOLVED", resid)
    PROVE  /\ r.attempt = q.attempt /\ r.attempts = q.attempts
           /\ r.key = q.key /\ r.ttl = q.ttl /\ r.createdAt = q.createdAt
           /\ r.resolver = q.resolver /\ r.maxAttempts = q.maxAttempts
           /\ r.target = q.target
  BY DEF Cancelled, Reported, Answered, Request

\* A commit's effects, record by record.
LEMMA CommitEffects ==
    ASSUME TypeInv, NEW sender \in Resolvers, NEW rid \in DOMAIN requests, NEW c \in Commit,
           CommitResolution(sender, rid, c)
    PROVE  LET q == requests[rid]
               resid == Len(resolutions) + 1
               r == CommittedResolution(rid, q, c)
           IN  /\ q \in Request /\ q.key \in FactKeys /\ q.status \in Open
               /\ r \in Resolution /\ resid \in Nat \ {0}
               /\ r.request = rid /\ r.key = q.key /\ r.committedAt = now
               /\ DOMAIN resolutions = 1..Len(resolutions) /\ Len(resolutions) \in Nat
               /\ DOMAIN resolutions' = DOMAIN resolutions \cup {resid}
               /\ resolutions'[resid] = r
               /\ \A id \in DOMAIN resolutions :
                      /\ id \in Nat /\ id < resid
                      /\ resolutions'[id] = resolutions[id]
               /\ DOMAIN requests' = DOMAIN requests
               /\ requests'[rid] = Answered(q, "RESOLVED", resid)
               /\ \A i \in DOMAIN requests \ {rid} : requests'[i] = requests[i]
               /\ facts'[q.key] = FactAfter(facts[q.key], resid, r)
               /\ history'[q.key] = Append(history[q.key], resid)
               /\ \A k \in FactKeys \ {q.key} : facts'[k] = facts[k] /\ history'[k] = history[k]
<1> DEFINE q == requests[rid]
           resid == Len(resolutions) + 1
           r == CommittedResolution(rid, q, c)
<1>1. /\ TypeOK /\ q \in Request /\ q.key \in FactKeys
      /\ TypeInv'
  BY RequestAt, CommitStep DEF Request
<1>2. /\ resolutions' = Append(resolutions, r)
      /\ requests' = [requests EXCEPT ![rid] = Answered(q, "RESOLVED", resid)]
      /\ facts' = [facts EXCEPT ![q.key] = FactAfter(@, resid, r)]
      /\ history' = [history EXCEPT ![q.key] = Append(@, resid)]
      /\ q.status \in Open
  BY DEF CommitResolution, CommitAccepted
<1>3. r.request = rid /\ r.key = q.key /\ r.committedAt = now
  BY DEF CommittedResolution
<1>4. resolutions \in Seq(Resolution) /\ r \in Resolution
  <2>1. resolutions \in Seq(Resolution)
    BY <1>1 DEF TypeOK
  <2>2. resolutions' \in Seq(Resolution)
    BY <1>1 DEF TypeInv, TypeOK
  <2>3. resolutions'[Len(resolutions) + 1] = r /\ Len(resolutions) + 1 \in DOMAIN resolutions'
    BY <1>2, <2>1
  <2>4. QED
    BY <2>1, <2>2, <2>3
<1>5. /\ DOMAIN resolutions = 1..Len(resolutions) /\ Len(resolutions) \in Nat
      /\ DOMAIN resolutions' = 1..resid
      /\ resolutions'[resid] = r
      /\ \A id \in DOMAIN resolutions : resolutions'[id] = resolutions[id]
  BY <1>2, <1>4, AppendFacts
<1>6. /\ DOMAIN resolutions' = DOMAIN resolutions \cup {resid}
      /\ \A id \in DOMAIN resolutions : id \in Nat /\ id < resid
      /\ resid \in Nat \ {0}
  BY <1>5
<1>7. /\ DOMAIN requests' = DOMAIN requests
      /\ requests'[rid] = Answered(q, "RESOLVED", resid)
      /\ \A i \in DOMAIN requests \ {rid} : requests'[i] = requests[i]
  <2>1. Answered(q, "RESOLVED", resid) \in Request
    BY <1>1, <1>6, RequestUpdates
  <2>2. requests \in Seq(Request)
    BY <1>1 DEF TypeOK
  <2>3. QED
    BY <1>2, <2>1, <2>2, ReplaceFacts
<1>8. /\ facts'[q.key] = FactAfter(facts[q.key], resid, r)
      /\ history'[q.key] = Append(history[q.key], resid)
      /\ \A k \in FactKeys \ {q.key} : facts'[k] = facts[k] /\ history'[k] = history[k]
  BY <1>1, <1>2 DEF TypeOK
<1>9. QED
  BY <1>1, <1>2, <1>3, <1>4, <1>5, <1>6, <1>7, <1>8

\* What stays with a request from its creation on.
SameOrigin(q, r) ==
    /\ r.key = q.key /\ r.ttl = q.ttl /\ r.createdAt = q.createdAt
    /\ r.resolver = q.resolver /\ r.maxAttempts = q.maxAttempts /\ r.target = q.target

\* Requests are never removed and keep what they were created with.
LEMMA RequestsPersist ==
    ASSUME TypeInv, [Next]_vars
    PROVE  \A i \in DOMAIN requests :
               i \in DOMAIN requests' /\ SameOrigin(requests[i], requests'[i])
<1>1. TypeOK /\ requests \in Seq(Request)
  BY DEF TypeInv, TypeOK
<1>2. ASSUME NEW rid \in DOMAIN requests, NEW r \in Request,
             requests' = [requests EXCEPT ![rid] = r], SameOrigin(requests[rid], r)
      PROVE  \A i \in DOMAIN requests :
                 i \in DOMAIN requests' /\ SameOrigin(requests[i], requests'[i])
  BY <1>1, <1>2, ReplaceFacts DEF SameOrigin
<1>3. ASSUME NEW sender \in Accounts, NEW k \in FactKeys, NEW ttl \in Nat, NEW mode \in ReuseModes,
             NEW target \in Targets, NEW value \in Nat,
             CreateRequest(sender, k, ttl, mode, target, value)
      PROVE  \A i \in DOMAIN requests :
                 i \in DOMAIN requests' /\ SameOrigin(requests[i], requests'[i])
  <2>1. \E r : requests' = Append(requests, r)
    BY <1>3 DEF CreateRequest, AnswerFromFact, DispatchNew
  <2>2. \A i \in DOMAIN requests : i \in DOMAIN requests' /\ requests'[i] = requests[i]
    BY <1>1, <2>1
  <2>3. QED
    BY <2>2 DEF SameOrigin
<1>4. ASSUME NEW sender \in Accounts, NEW rid \in DOMAIN requests, NEW value \in Nat,
             RetryResolution(sender, rid, value)
      PROVE  \A i \in DOMAIN requests :
                 i \in DOMAIN requests' /\ SameOrigin(requests[i], requests'[i])
  <2> DEFINE q == requests[rid]
             r == Dispatched(NextAttempt(q))
  <2>1. q \in Request /\ NextAttempt(q) \in Request
    BY RequestAt, RequestUpdates
  <2>2. r \in Request /\ SameOrigin(q, r)
    BY <1>1, <2>1, RequestUpdates, RetriedFields DEF SameOrigin
  <2>3. requests' = [requests EXCEPT ![rid] = r]
    BY <1>4 DEF RetryResolution
  <2>4. QED
    BY <1>2, <2>2, <2>3
<1>5. ASSUME NEW rid \in DOMAIN requests, NEW r, requests' = [requests EXCEPT ![rid] = r],
             \/ r = Cancelled(requests[rid])
             \/ r = [requests[rid] EXCEPT !.callback = CallbackStatus(requests[rid])]
             \/ \E succeeded \in BOOLEAN : r = Reported(requests[rid], succeeded)
             \/ r = Answered(requests[rid], "RESOLVED", Len(resolutions) + 1)
      PROVE  \A i \in DOMAIN requests :
                 i \in DOMAIN requests' /\ SameOrigin(requests[i], requests'[i])
  <2>1. requests[rid] \in Request /\ Len(resolutions) + 1 \in Nat
    BY <1>1, RequestAt, LenProperties DEF TypeOK
  <2>2. r \in Request
    BY <1>1, <1>5, <2>1, RequestUpdates
  <2>3. SameOrigin(requests[rid], r)
    BY <1>5, <2>1, RewrittenFields DEF SameOrigin
  <2>4. QED
    BY <1>2, <1>5, <2>2, <2>3
<1>6. CASE UNCHANGED requests
  BY <1>6 DEF SameOrigin
<1>7. ASSUME NEW sender, NEW rid \in DOMAIN requests,
             \/ CancelStaleRequest(sender, rid)
             \/ RequestCallbackRetry(sender, rid)
             \/ \E succeeded \in BOOLEAN : MarkCallbackResult(sender, rid, succeeded)
             \/ \E c \in Commit : CommitResolution(sender, rid, c)
      PROVE  \A i \in DOMAIN requests :
                 i \in DOMAIN requests' /\ SameOrigin(requests[i], requests'[i])
  BY <1>5, <1>7
     DEF CancelStaleRequest, RequestCallbackRetry, MarkCallbackResult, CommitResolution
<1>8. QED
  <2>1. CASE \E sender \in Accounts, k \in FactKeys, ttl \in Nat, mode \in ReuseModes,
                target \in Targets, value \in Nat :
                  CreateRequest(sender, k, ttl, mode, target, value)
    BY <1>3, <2>1
  <2>2. CASE \E sender \in Accounts, rid \in DOMAIN requests, value \in Nat :
                  RetryResolution(sender, rid, value)
    BY <1>4, <2>2
  <2>3. QED
    BY <1>6, <1>7, <2>1, <2>2, StepKinds

-----------------------------------------------------------------------------
(* Facts and their history. *)

\* No resolution is dated in the future.
CommittedByNow == \A id \in DOMAIN resolutions : resolutions[id].committedAt <= now

(***************************************************************************)
(* The two invariants need each other: the fact record's latest id is what *)
(* a commit numbers and links the next resolution by, and that the linked  *)
(* one is the tail of the history is what the fact record says.            *)
(***************************************************************************)
FactInv == TypeInv /\ FactMatchesRecords /\ HistoryIsChain /\ CommittedByNow

LEMMA InitFactInv == Init => FactInv
<1> SUFFICES ASSUME Init PROVE FactInv
  OBVIOUS
<1>1. DOMAIN resolutions = {}
  BY DEF Init
<1>2. \A k \in FactKeys : facts[k] = EmptyFact /\ history[k] = <<>> /\ DOMAIN history[k] = {}
  BY DEF Init
<1>3. ~EmptyFact.exists
  BY DEF EmptyFact
<1>4. FactMatchesRecords
  BY <1>2, <1>3 DEF FactMatchesRecords
<1>5. HistoryIsChain
  BY <1>1, <1>2 DEF HistoryIsChain
<1>6. CommittedByNow
  BY <1>1 DEF CommittedByNow
<1>7. QED
  BY <1>4, <1>5, <1>6, InitTypeInv DEF FactInv

\* The history of one fact.
ChainOf(k) ==
    \A n \in DOMAIN history[k] :
        LET id == history[k][n]
        IN  /\ id \in DOMAIN resolutions
            /\ resolutions[id].key = k
            /\ resolutions[id].version = n
            /\ n = 1 => resolutions[id].supersedes = 0
            /\ n > 1 => /\ resolutions[id].supersedes = history[k][n-1]
                        /\ history[k][n-1] < id
                        /\ resolutions[history[k][n-1]].committedAt <= resolutions[id].committedAt

LEMMA ChainsOf ==
    HistoryIsChain <=>
        /\ \A k \in FactKeys : ChainOf(k)
        /\ \A id \in DOMAIN resolutions :
              LET r == resolutions[id]
              IN  r.version \in DOMAIN history[r.key] /\ history[r.key][r.version] = id
  BY DEF HistoryIsChain, ChainOf

\* A commit continues the history where it stands.
LEMMA CommitContinues ==
    ASSUME FactInv, NEW sender \in Resolvers, NEW rid \in DOMAIN requests, NEW c \in Commit,
           CommitResolution(sender, rid, c)
    PROVE  LET q == requests[rid]
               r == CommittedResolution(rid, q, c)
               n == Len(history[q.key])
           IN  /\ history[q.key] \in Seq(Nat) /\ n \in Nat /\ DOMAIN history[q.key] = 1..n
               /\ r.version = n + 1
               /\ r.supersedes = IF n = 0 THEN 0 ELSE history[q.key][n]
               /\ n > 0 => history[q.key][n] \in DOMAIN resolutions
<1> DEFINE q == requests[rid]
           k == q.key
           f == facts[k]
           r == CommittedResolution(rid, q, c)
           n == Len(history[k])
           previous == PreviousAttempt(f)
<1>1. /\ TypeOK /\ k \in FactKeys
      /\ FactMatchesRecords /\ HistoryIsChain /\ TypeInv
  BY CommitEffects DEF FactInv, TypeInv
<1>2. history[k] \in Seq(Nat) /\ n \in Nat /\ DOMAIN history[k] = 1..n
  BY <1>1, LenProperties DEF TypeOK
<1>3. /\ r.version = IF previous = 0 THEN 1 ELSE resolutions[previous].version + 1
      /\ r.supersedes = previous
  BY DEF CommittedResolution
<1>4. CASE f.exists
  <2>1. history[k] # <<>> /\ f.latest = history[k][n]
    BY <1>1, <1>4 DEF FactMatchesRecords
  <2>2. n > 0
    BY <1>2, <2>1, EmptySeq
  <2>3. f.latest \in DOMAIN resolutions /\ resolutions[f.latest].version = n
    BY <1>1, <1>2, <2>1, <2>2 DEF HistoryIsChain
  <2>4. f.latest # 0
    BY <1>1, <2>3, CommitEffects
  <2>5. previous = f.latest
    BY <2>4 DEF PreviousAttempt
  <2>6. QED
    BY <1>2, <1>3, <2>1, <2>2, <2>3, <2>4, <2>5
<1>5. CASE ~f.exists
  <2>1. f = EmptyFact /\ history[k] = <<>>
    BY <1>1, <1>5 DEF FactMatchesRecords
  <2>2. EmptyFact.latest = 0 /\ EmptyFact.current = 0 /\ Len(<<>>) = 0
    BY DEF EmptyFact
  <2>3. previous = 0 /\ n = 0
    BY <2>1, <2>2 DEF PreviousAttempt
  <2>4. QED
    BY <1>2, <1>3, <2>3
<1>6. QED
  BY <1>4, <1>5

LEMMA CommitKeepsChain ==
    ASSUME FactInv, NEW sender \in Resolvers, NEW rid \in DOMAIN requests, NEW c \in Commit,
           CommitResolution(sender, rid, c)
    PROVE  HistoryIsChain' /\ CommittedByNow'
<1> DEFINE q == requests[rid]
           k == q.key
           resid == Len(resolutions) + 1
           r == CommittedResolution(rid, q, c)
           n == Len(history[k])
<1>1. TypeInv /\ HistoryIsChain /\ CommittedByNow /\ now' = now /\ now \in Nat
  BY FeeTypes DEF FactInv, TypeInv, CommitResolution
<1>2. /\ k \in FactKeys /\ r \in Resolution /\ r.key = k /\ r.committedAt = now
      /\ DOMAIN resolutions' = DOMAIN resolutions \cup {resid}
      /\ resolutions'[resid] = r
      /\ resid \in Nat \ {0}
      /\ \A id \in DOMAIN resolutions :
             /\ id \in Nat /\ id < resid
             /\ resolutions'[id] = resolutions[id]
      /\ history'[k] = Append(history[k], resid)
      /\ \A j \in FactKeys \ {k} : history'[j] = history[j]
  BY <1>1, CommitEffects
<1>3. /\ history[k] \in Seq(Nat) /\ n \in Nat /\ DOMAIN history[k] = 1..n
      /\ r.version = n + 1
      /\ r.supersedes = IF n = 0 THEN 0 ELSE history[k][n]
      /\ n > 0 => history[k][n] \in DOMAIN resolutions
  BY CommitContinues
<1> HIDE DEF q, k, resid, r, n
<1>4. /\ DOMAIN history'[k] = 1..n + 1
      /\ history'[k][n + 1] = resid
      /\ \A m \in 1..n : history'[k][m] = history[k][m]
  BY <1>2, <1>3, AppendFacts
<1>5. ASSUME NEW j \in FactKeys PROVE ChainOf(j)'
  <2>1. ChainOf(j)
    BY <1>1, ChainsOf
  <2>2. CASE j # k
    <3>1. history'[j] = history[j] /\ history[j] \in Seq(Nat)
      BY <1>1, <1>2, <2>2 DEF TypeInv, TypeOK
    <3>2. \A m \in DOMAIN history[j] : m > 1 => m - 1 \in DOMAIN history[j]
      BY <3>1, LenProperties
    <3>3. \A m \in DOMAIN history[j] : history[j][m] \in DOMAIN resolutions
      BY <2>1 DEF ChainOf
    <3>4. QED
      BY <1>2, <2>1, <3>1, <3>2, <3>3 DEF ChainOf
  <2>3. CASE j = k
    <3>1. ASSUME NEW m \in 1..n
          PROVE  LET id == history'[k][m]
                 IN  /\ id \in DOMAIN resolutions'
                     /\ resolutions'[id].key = k
                     /\ resolutions'[id].version = m
                     /\ m = 1 => resolutions'[id].supersedes = 0
                     /\ m > 1 => /\ resolutions'[id].supersedes = history'[k][m-1]
                                 /\ history'[k][m-1] < id
                                 /\ resolutions'[history'[k][m-1]].committedAt
                                    <= resolutions'[id].committedAt
      <4>1. m > 1 => m - 1 \in 1..n
        BY <1>3
      <4>2. ChainOf(k)
        BY <2>1, <2>3
      <4>3. /\ history'[k][m] = history[k][m] /\ history[k][m] \in DOMAIN resolutions
            /\ resolutions'[history[k][m]] = resolutions[history[k][m]]
        BY <1>2, <1>3, <1>4, <4>2 DEF ChainOf
      <4>4. m > 1 => /\ history'[k][m-1] = history[k][m-1]
                     /\ history[k][m-1] \in DOMAIN resolutions
                     /\ resolutions'[history[k][m-1]] = resolutions[history[k][m-1]]
        BY <1>2, <1>3, <1>4, <4>1, <4>2 DEF ChainOf
      <4>5. LET id == history[k][m]
            IN  /\ resolutions[id].key = k /\ resolutions[id].version = m
                /\ m = 1 => resolutions[id].supersedes = 0
                /\ m > 1 => /\ resolutions[id].supersedes = history[k][m-1]
                            /\ history[k][m-1] < id
                            /\ resolutions[history[k][m-1]].committedAt
                               <= resolutions[id].committedAt
        BY <1>3, <4>2 DEF ChainOf
      <4>6. history[k][m] \in DOMAIN resolutions'
        BY <1>2, <4>3
      <4>7. QED
        BY <4>3, <4>4, <4>5, <4>6
    <3>2. /\ resid \in DOMAIN resolutions'
          /\ resolutions'[resid].key = k
          /\ resolutions'[resid].version = n + 1
          /\ n + 1 = 1 => resolutions'[resid].supersedes = 0
          /\ n + 1 > 1 => /\ resolutions'[resid].supersedes = history'[k][n]
                          /\ history'[k][n] < resid
                          /\ resolutions'[history'[k][n]].committedAt
                             <= resolutions'[resid].committedAt
      <4>1. n > 0 => n \in 1..n /\ history'[k][n] = history[k][n]
        BY <1>3, <1>4
      <4>2. n > 0 => resolutions[history[k][n]].committedAt <= now
        BY <1>1, <1>3 DEF CommittedByNow
      <4>3. QED
        BY <1>2, <1>3, <4>1, <4>2
    <3>3. \A m \in DOMAIN history'[k] : m \in 1..n \/ m = n + 1
      BY <1>3, <1>4
    <3>4. (n + 1) - 1 = n
      BY <1>3
    <3>5. ASSUME NEW m \in DOMAIN history'[k]
          PROVE  LET id == history'[k][m]
                 IN  /\ id \in DOMAIN resolutions'
                     /\ resolutions'[id].key = k
                     /\ resolutions'[id].version = m
                     /\ m = 1 => resolutions'[id].supersedes = 0
                     /\ m > 1 => /\ resolutions'[id].supersedes = history'[k][m-1]
                                 /\ history'[k][m-1] < id
                                 /\ resolutions'[history'[k][m-1]].committedAt
                                    <= resolutions'[id].committedAt
      <4>1. CASE m \in 1..n
        BY <3>1, <4>1
      <4>2. CASE m = n + 1
        BY <1>4, <3>2, <3>4, <4>2
      <4>3. QED
        BY <3>3, <4>1, <4>2
    <3>6. QED
      BY <2>3, <3>5 DEF ChainOf
  <2>4. QED
    BY <2>2, <2>3
<1>6. ASSUME NEW id \in DOMAIN resolutions'
      PROVE  LET v == resolutions'[id]
             IN  v.version \in DOMAIN history'[v.key] /\ history'[v.key][v.version] = id
  <2>1. CASE id = resid
    BY <1>2, <1>3, <1>4, <2>1
  <2>2. CASE id # resid
    <3>1. id \in DOMAIN resolutions /\ resolutions'[id] = resolutions[id]
      BY <1>2, <2>2
    <3>2. resolutions[id].key \in FactKeys
      BY <1>1, <3>1, ResolutionAt DEF Resolution
    <3>3. /\ resolutions[id].version \in DOMAIN history[resolutions[id].key]
          /\ history[resolutions[id].key][resolutions[id].version] = id
      BY <1>1, <3>1 DEF HistoryIsChain
    <3>4. CASE resolutions[id].key = k
      BY <1>3, <1>4, <3>1, <3>3, <3>4
    <3>5. CASE resolutions[id].key # k
      BY <1>2, <3>1, <3>2, <3>3, <3>5
    <3>6. QED
      BY <3>4, <3>5
  <2>3. QED
    BY <2>1, <2>2
<1>7. CommittedByNow'
  BY <1>1, <1>2 DEF CommittedByNow
<1>8. QED
  BY <1>5, <1>6, <1>7, ChainsOf DEF HistoryIsChain, ChainOf

\* Only a commit touches facts, history and resolutions.
LEMMA FactsMoveByCommit ==
    ASSUME TypeInv, [Next]_vars
    PROVE  \/ UNCHANGED factVars /\ now' \in {now, now + 1}
           \/ \E sender \in Resolvers, rid \in DOMAIN requests, c \in Commit :
                   CommitResolution(sender, rid, c)
  BY StepKinds
     DEF CreateRequest, RetryResolution, CancelStaleRequest, RequestCallbackRetry,
         MarkCallbackResult, factVars

\* The fact record after a commit: moved to the new resolution, or its old head with
\* a new tail.
LEMMA FactAfterFields ==
    ASSUME NEW f \in Fact, NEW resid, NEW r \in Resolution
    PROVE  LET g == FactAfter(f, resid, r)
           IN  /\ g.exists /\ g.latest = resid
               /\ ShouldAdvanceCanonical(f, r.outcome, r.policyOk) =>
                      <<g.current, g.request, g.outcome, g.resolvedAt, g.validUntil, g.version>>
                      = <<resid, r.request, r.outcome, r.committedAt, r.validUntil, r.version>>
               /\ ~ShouldAdvanceCanonical(f, r.outcome, r.policyOk) =>
                      /\ f.exists
                      /\ <<g.current, g.request, g.outcome, g.resolvedAt, g.validUntil, g.version>>
                         = <<f.current, f.request, f.outcome, f.resolvedAt, f.validUntil, f.version>>
<1>1. CASE ShouldAdvanceCanonical(f, r.outcome, r.policyOk)
  BY <1>1 DEF FactAfter
<1>2. CASE ~ShouldAdvanceCanonical(f, r.outcome, r.policyOk)
  <2>1. f.exists
    BY <1>2 DEF ShouldAdvanceCanonical
  <2>2. QED
    BY <1>2, <2>1 DEF FactAfter, Fact
<1>3. QED
  BY <1>1, <1>2

\* FactMatchesRecords for one fact.
Matches(k) ==
    LET f == facts[k]
    IN  IF f.exists
        THEN /\ f.current \in DOMAIN resolutions
             /\ f.request \in DOMAIN requests
             /\ history[k] # <<>>
             /\ f.latest = history[k][Len(history[k])]
             /\ LET r == resolutions[f.current]
                IN  /\ r.key = k
                    /\ <<f.request, f.outcome, f.resolvedAt, f.validUntil, f.version>>
                       = <<r.request, r.outcome, r.committedAt, r.validUntil, r.version>>
                    /\ requests[r.request].key = k
        ELSE f = EmptyFact /\ history[k] = <<>>

LEMMA CommitKeepsMatch ==
    ASSUME FactInv, NEW sender \in Resolvers, NEW rid \in DOMAIN requests, NEW c \in Commit,
           CommitResolution(sender, rid, c)
    PROVE  FactMatchesRecords'
<1> DEFINE q == requests[rid]
           k == q.key
           f == facts[k]
           resid == Len(resolutions) + 1
           r == CommittedResolution(rid, q, c)
           n == Len(history[k])
           a == Answered(q, "RESOLVED", resid)
           g == FactAfter(f, resid, r)
<1>1. TypeInv /\ TypeOK /\ FactMatchesRecords
  BY DEF FactInv, TypeInv
<1>2. /\ q \in Request /\ k \in FactKeys /\ resid \in Nat
      /\ r \in Resolution /\ r.request = rid /\ r.key = k
      /\ DOMAIN resolutions' = DOMAIN resolutions \cup {resid}
      /\ resolutions'[resid] = r
      /\ \A id \in DOMAIN resolutions : resolutions'[id] = resolutions[id]
      /\ DOMAIN requests' = DOMAIN requests
      /\ requests'[rid] = a
      /\ \A i \in DOMAIN requests \ {rid} : requests'[i] = requests[i]
  BY <1>1, CommitEffects
<1>3. /\ facts'[k] = g
      /\ history'[k] = Append(history[k], resid)
      /\ \A j \in FactKeys \ {k} : facts'[j] = facts[j] /\ history'[j] = history[j]
  BY <1>1, CommitEffects
<1>4. history[k] \in Seq(Nat) /\ f \in Fact
  BY <1>1, <1>2 DEF TypeOK
<1>5. \A i \in DOMAIN requests : requests'[i].key = requests[i].key
  BY <1>2, RewrittenFields
<1>6. /\ g.exists /\ g.latest = resid
      /\ \/ <<g.current, g.request, g.outcome, g.resolvedAt, g.validUntil, g.version>>
            = <<resid, rid, r.outcome, r.committedAt, r.validUntil, r.version>>
         \/ /\ f.exists
            /\ <<g.current, g.request, g.outcome, g.resolvedAt, g.validUntil, g.version>>
               = <<f.current, f.request, f.outcome, f.resolvedAt, f.validUntil, f.version>>
  BY <1>2, <1>4, FactAfterFields
<1>7. \A j \in FactKeys : Matches(j)
  BY <1>1 DEF FactMatchesRecords, Matches
<1>8. k = requests[rid].key
  OBVIOUS
<1> HIDE DEF q, k, f, resid, r, n, a, g
<1>9. ASSUME NEW j \in FactKeys PROVE Matches(j)'
  <2>1. CASE j # k
    BY <1>2, <1>3, <1>5, <1>7, <2>1 DEF Matches
  <2>2. CASE j = k
    <3>1. history'[k] # <<>> /\ history'[k][Len(history'[k])] = resid
      BY <1>2, <1>3, <1>4, AppendFacts, EmptySeq
    <3>2. CASE <<g.current, g.request, g.outcome, g.resolvedAt, g.validUntil, g.version>>
               = <<resid, rid, r.outcome, r.committedAt, r.validUntil, r.version>>
      BY <1>2, <1>3, <1>5, <1>6, <1>8, <2>2, <3>1, <3>2 DEF Matches
    <3>3. CASE /\ f.exists
               /\ <<g.current, g.request, g.outcome, g.resolvedAt, g.validUntil, g.version>>
                  = <<f.current, f.request, f.outcome, f.resolvedAt, f.validUntil, f.version>>
      <4>1. /\ f.current \in DOMAIN resolutions /\ f.request \in DOMAIN requests
            /\ resolutions[f.current].key = k
            /\ <<f.request, f.outcome, f.resolvedAt, f.validUntil, f.version>>
               = <<resolutions[f.current].request, resolutions[f.current].outcome,
                   resolutions[f.current].committedAt, resolutions[f.current].validUntil,
                   resolutions[f.current].version>>
            /\ requests[resolutions[f.current].request].key = k
        BY <1>2, <1>3, <1>7, <3>3 DEF Matches, f
      <4>2. QED
        BY <1>2, <1>3, <1>5, <1>6, <2>2, <3>1, <3>3, <4>1 DEF Matches
    <3>4. QED
      BY <1>6, <3>2, <3>3
  <2>3. QED
    BY <2>1, <2>2
<1>10. QED
  BY <1>9 DEF FactMatchesRecords, Matches

LEMMA OtherKeepsFacts ==
    ASSUME FactInv, [Next]_vars, UNCHANGED factVars, now' \in {now, now + 1}
    PROVE  FactMatchesRecords' /\ HistoryIsChain' /\ CommittedByNow'
<1>1. TypeInv /\ FactMatchesRecords /\ HistoryIsChain /\ CommittedByNow /\ now \in Nat
  BY FeeTypes DEF FactInv, TypeInv
<1>2. /\ resolutions' = resolutions /\ facts' = facts /\ history' = history
  BY DEF factVars
<1>3. \A i \in DOMAIN requests : i \in DOMAIN requests' /\ requests'[i].key = requests[i].key
  BY <1>1, RequestsPersist DEF SameOrigin
<1>4. FactMatchesRecords'
  <2>1. ASSUME NEW k \in FactKeys PROVE Matches(k)'
    <3>1. Matches(k)
      BY <1>1 DEF FactMatchesRecords, Matches
    <3>2. QED
      BY <1>2, <1>3, <3>1 DEF Matches
  <2>2. QED
    BY <2>1 DEF FactMatchesRecords, Matches
<1>5. HistoryIsChain'
  BY <1>1, <1>2 DEF HistoryIsChain
<1>6. CommittedByNow'
  <2>1. \A id \in DOMAIN resolutions : resolutions[id].committedAt \in Nat
    BY <1>1, ResolutionAt DEF Resolution
  <2>2. QED
    BY <1>1, <1>2, <2>1 DEF CommittedByNow
<1>7. QED
  BY <1>4, <1>5, <1>6

LEMMA NextFactInv == FactInv /\ [Next]_vars => FactInv'
<1> SUFFICES ASSUME FactInv, [Next]_vars PROVE FactInv'
  OBVIOUS
<1>1. TypeInv /\ TypeInv'
  BY NextTypeInv DEF FactInv
<1>2. CASE UNCHANGED factVars /\ now' \in {now, now + 1}
  BY <1>1, <1>2, OtherKeepsFacts DEF FactInv
<1>3. CASE \E sender \in Resolvers, rid \in DOMAIN requests, c \in Commit :
             CommitResolution(sender, rid, c)
  BY <1>1, <1>3, CommitKeepsMatch, CommitKeepsChain DEF FactInv
<1>4. QED
  BY <1>1, <1>2, <1>3, FactsMoveByCommit

LEMMA FactInvariant == Spec => []FactInv
  BY InitFactInv, NextFactInv, PTL DEF Spec

(***************************************************************************)
(* Whatever is committed, the fact record is a true copy of its canonical  *)
(* resolution, of the request that produced it and of the history's tail.  *)
(***************************************************************************)
THEOREM FactsMatchTheirRecords == Spec => []FactMatchesRecords
<1>1. FactInv => FactMatchesRecords
  BY DEF FactInv
<1>2. QED
  BY <1>1, FactInvariant, PTL

(***************************************************************************)
(* Versions and supersedes links number and chain exactly the history of   *)
(* each fact, and every resolution is in the history of its own fact.      *)
(***************************************************************************)
THEOREM HistoriesAreChains == Spec => []HistoryIsChain
<1>1. FactInv => HistoryIsChain
  BY DEF FactInv
<1>2. QED
  BY <1>1, FactInvariant, PTL

\* The version of a fact is the place of its canonical resolution in the history.
LEMMA VersionInHistory ==
    ASSUME FactInv, NEW k \in FactKeys, facts[k].exists
    PROVE  /\ facts[k].version \in 1..Len(history[k])
           /\ history[k][facts[k].version] = facts[k].current
           /\ facts[k].current \in DOMAIN resolutions
<1> DEFINE f == facts[k]
           r == resolutions[f.current]
<1>1. /\ f.current \in DOMAIN resolutions /\ r.key = k /\ f.version = r.version
  BY DEF FactInv, FactMatchesRecords
<1>2. r.version \in DOMAIN history[r.key] /\ history[r.key][r.version] = f.current
  BY <1>1 DEF FactInv, HistoryIsChain
<1>3. history[k] \in Seq(Nat)
  BY DEF FactInv, TypeInv, TypeOK
<1>4. QED
  BY <1>1, <1>2, <1>3, LenProperties

(***************************************************************************)
(* No commit takes a fact that reads TRUE or FALSE back to UNRESOLVED, and *)
(* only the newest attempt, policy-satisfied, replaces its answer.         *)
(***************************************************************************)
THEOREM AnswersStay == Spec => AnswersAreNotRetracted
<1> DEFINE Kept(k) ==
             (facts[k].exists /\ facts[k].outcome \in BooleanOutcomes /\ facts'[k] # facts[k]) =>
                /\ facts'[k].outcome \in BooleanOutcomes
                /\ facts'[k].current # facts[k].current =>
                      /\ facts'[k].current = facts'[k].latest
                      /\ facts'[k].version > facts[k].version
                      /\ resolutions'[facts'[k].current].policyOk
<1>1. ASSUME FactInv, [Next]_vars, NEW k \in FactKeys PROVE Kept(k)
  <2>1. TypeInv /\ TypeOK
    BY <1>1 DEF FactInv, TypeInv
  <2>2. CASE UNCHANGED factVars
    BY <2>2 DEF factVars
  <2>3. ASSUME NEW sender \in Resolvers, NEW rid \in DOMAIN requests, NEW c \in Commit,
               CommitResolution(sender, rid, c)
        PROVE  Kept(k)
    <3> DEFINE q == requests[rid]
               f == facts[k]
               resid == Len(resolutions) + 1
               r == CommittedResolution(rid, q, c)
               g == FactAfter(f, resid, r)
    <3>1. CASE k # q.key
      BY <2>1, <2>3, <3>1, CommitEffects
    <3>2. CASE k = q.key /\ f.exists /\ f.outcome \in BooleanOutcomes
      <4>1. facts'[k] = g /\ resolutions'[resid] = r /\ r \in Resolution /\ f \in Fact
        <5>1. facts'[k] = g /\ resolutions'[resid] = r /\ r \in Resolution
          BY <2>1, <2>3, <3>2, CommitEffects
        <5>2. QED
          BY <2>1, <5>1 DEF TypeOK
      <4>2. r.version = Len(history[k]) + 1 /\ Len(history[k]) \in Nat
        BY <1>1, <2>3, <3>2, CommitContinues
      <4>3. f.version \in 1..Len(history[k])
        BY <1>1, <3>2, VersionInHistory
      <4> HIDE DEF g, r, resid, f
      <4>4. CASE ShouldAdvanceCanonical(f, r.outcome, r.policyOk)
        <5>1. r.outcome \in BooleanOutcomes /\ r.policyOk
          BY <3>2, <4>4 DEF ShouldAdvanceCanonical
        <5>2. g.latest = resid /\ g.current = resid /\ g.outcome = r.outcome /\ g.version = r.version
          BY <4>1, <4>4, FactAfterFields DEF g
        <5>3. r.version > f.version
          BY <4>2, <4>3
        <5>4. QED
          BY <4>1, <5>1, <5>2, <5>3 DEF f
      <4>5. CASE ~ShouldAdvanceCanonical(f, r.outcome, r.policyOk)
        <5>1. g.current = f.current /\ g.outcome = f.outcome
          BY <4>1, <4>5, FactAfterFields DEF g
        <5>2. QED
          BY <3>2, <4>1, <5>1 DEF f
      <4>6. QED
        BY <4>4, <4>5
    <3>3. QED
      BY <3>1, <3>2
  <2>4. QED
    BY <1>1, <2>1, <2>2, <2>3, FactsMoveByCommit
<1>2. FactInv /\ [Next]_vars => [\A k \in FactKeys : Kept(k)]_facts
  BY <1>1
<1>3. QED
  BY <1>2, FactInvariant, PTL DEF Spec, AnswersAreNotRetracted

-----------------------------------------------------------------------------
(* The ledger: which attempt of the history is the head. *)

\* What appending an attempt does to the list.
LEMMA LedgerAppend ==
    ASSUME NEW h \in Seq(Ledger!Attempt), NEW a \in Ledger!Attempt
    PROVE  LET g == Append(h, a)
               n == Len(h) + 1
           IN  /\ Len(g) = n /\ n \in DOMAIN g /\ g[n] = a
               /\ \A j \in DOMAIN h : j \in DOMAIN g /\ g[j] = h[j] /\ j <= n
               /\ \A j \in DOMAIN g : j <= n /\ (j = n \/ (j \in DOMAIN h /\ g[j] = h[j]))
<1> DEFINE g == Append(h, a)
           n == Len(h) + 1
<1>1. /\ n \in Nat /\ DOMAIN h = 1..Len(h) /\ Len(h) \in Nat
      /\ DOMAIN g = 1..n /\ Len(g) = n
      /\ g[n] = a
      /\ \A i \in 1..Len(h) : g[i] = h[i]
  BY AppendFacts
<1> HIDE DEF g
<1>2. \A j \in DOMAIN h : j \in DOMAIN g /\ g[j] = h[j] /\ j <= n
  BY <1>1
<1>3. \A j \in DOMAIN g : j <= n /\ (j = n \/ (j \in DOMAIN h /\ g[j] = h[j]))
  BY <1>1
<1>4. n \in DOMAIN g
  BY <1>1
<1>5. QED
  BY <1>1, <1>2, <1>3, <1>4 DEF g

\* A policy-satisfied verdict becomes the head.
LEMMA HeadVerdict ==
    ASSUME NEW h \in Seq(Ledger!Attempt), NEW a \in Ledger!Attempt, Ledger!Verdict(a)
    PROVE  Ledger!IsHead(Append(h, a), Len(h) + 1)
  BY LedgerAppend DEF Ledger!IsHead

\* So does any attempt while none has answered.
LEMMA HeadUnanswered ==
    ASSUME NEW h \in Seq(Ledger!Attempt), NEW a \in Ledger!Attempt,
           \A j \in DOMAIN h : ~Ledger!Answers(h[j])
    PROVE  Ledger!IsHead(Append(h, a), Len(h) + 1)
<1> DEFINE g == Append(h, a)
           n == Len(h) + 1
<1>1. /\ n \in DOMAIN g /\ g[n] = a /\ Len(g) = n
      /\ \A j \in DOMAIN g : j = n \/ (j \in DOMAIN h /\ g[j] = h[j])
      /\ \A j \in DOMAIN g : j <= n
  BY LedgerAppend
<1>2. \A j \in DOMAIN h : ~Ledger!Verdict(h[j])
  BY DEF Ledger!Verdict, Ledger!Answers
<1> HIDE DEF g, n
<1>3. CASE Ledger!Verdict(a)
  BY <1>1, <1>3 DEF Ledger!IsHead, g, n
<1>4. CASE ~Ledger!Verdict(a) /\ Ledger!Answers(a)
  <2>1. \A j \in DOMAIN g : ~Ledger!Verdict(g[j])
    BY <1>1, <1>2, <1>4
  <2>2. \A j \in DOMAIN g : Ledger!Answers(g[j]) => n <= j
    BY <1>1, LedgerAppend DEF n
  <2>3. QED
    BY <1>1, <1>4, <2>1, <2>2 DEF Ledger!IsHead, g, n
<1>5. CASE ~Ledger!Answers(a)
  <2>1. \A j \in DOMAIN g : ~Ledger!Answers(g[j])
    BY <1>1, <1>5
  <2>2. QED
    BY <1>1, <2>1 DEF Ledger!IsHead, g, n
<1>6. QED
  BY <1>3, <1>4, <1>5

\* A head that answers stays, unless a policy-satisfied verdict comes.
LEMMA HeadStays ==
    ASSUME NEW h \in Seq(Ledger!Attempt), NEW a \in Ledger!Attempt, NEW i,
           Ledger!IsHead(h, i), Ledger!Answers(h[i]), ~Ledger!Verdict(a)
    PROVE  Ledger!IsHead(Append(h, a), i)
<1> DEFINE g == Append(h, a)
           n == Len(h) + 1
<1>1. /\ i \in DOMAIN h /\ i \in DOMAIN g /\ g[i] = h[i] /\ i <= n
      /\ g[n] = a
      /\ \A j \in DOMAIN g : j = n \/ (j \in DOMAIN h /\ g[j] = h[j])
  <2>1. i \in DOMAIN h
    BY DEF Ledger!IsHead
  <2>2. QED
    BY <2>1, LedgerAppend
<1> HIDE DEF g, n
<1>2. CASE /\ Ledger!Verdict(h[i])
           /\ \A j \in DOMAIN h : Ledger!Verdict(h[j]) => j <= i
  BY <1>1, <1>2 DEF Ledger!IsHead, g
<1>3. CASE /\ \A j \in DOMAIN h : ~Ledger!Verdict(h[j])
           /\ \A j \in DOMAIN h : Ledger!Answers(h[j]) => i <= j
  <2>1. \A j \in DOMAIN g : ~Ledger!Verdict(g[j])
    BY <1>1, <1>3
  <2>2. \A j \in DOMAIN g : Ledger!Answers(g[j]) => i <= j
    BY <1>1, <1>3
  <2>3. QED
    BY <1>1, <2>1, <2>2 DEF Ledger!IsHead, g
<1>4. QED
  BY <1>1, <1>2, <1>3 DEF Ledger!IsHead

\* A head that does not answer: nothing before it did.
LEMMA HeadSilent ==
    ASSUME NEW h \in Seq(Ledger!Attempt), NEW i, Ledger!IsHead(h, i), ~Ledger!Answers(h[i])
    PROVE  \A j \in DOMAIN h : ~Ledger!Answers(h[j])
  BY DEF Ledger!IsHead, Ledger!Verdict, Ledger!Answers

-----------------------------------------------------------------------------
(* The registry implements the ledger. *)

\* The head is where the ledger says; HistoryIsChain and FactMatchesRecords say which
\* record that is.
HeadsAreDue ==
    \A k \in FactKeys :
        IF facts[k].exists THEN Ledger!IsHead(AttemptsOf(k), facts[k].version)
                           ELSE facts[k].version = 0 /\ history[k] = <<>>
LedgerInv == FactInv /\ HeadsAreDue

LEMMA AttemptsType ==
    ASSUME FactInv, NEW k \in FactKeys
    PROVE  /\ AttemptsOf(k) \in Seq(Ledger!Attempt)
           /\ Len(AttemptsOf(k)) = Len(history[k])
           /\ DOMAIN history[k] = 1..Len(history[k])
           /\ Len(history[k]) \in Nat
           /\ \A n \in DOMAIN history[k] :
                 /\ history[k][n] \in DOMAIN resolutions
                 /\ AttemptsOf(k)[n] = AttemptOf(resolutions[history[k][n]])
<1>1. TypeInv /\ HistoryIsChain /\ history[k] \in Seq(Nat)
  BY DEF FactInv, TypeInv, TypeOK
<1>2. DOMAIN history[k] = 1..Len(history[k]) /\ Len(history[k]) \in Nat
  BY <1>1, LenProperties
<1>3. ASSUME NEW n \in DOMAIN history[k]
      PROVE  /\ history[k][n] \in DOMAIN resolutions
             /\ AttemptOf(resolutions[history[k][n]]) \in Ledger!Attempt
  <2>1. history[k][n] \in DOMAIN resolutions
    BY <1>1, <1>3 DEF HistoryIsChain
  <2>2. resolutions[history[k][n]] \in Resolution
    BY <1>1, <2>1, ResolutionAt
  <2>3. QED
    BY <2>1, <2>2 DEF AttemptOf, Resolution, Outcomes, BooleanOutcomes,
                      Ledger!Attempt, Ledger!Outcomes, Ledger!BooleanOutcomes
<1>4. AttemptsOf(k) = [n \in 1..Len(history[k]) |-> AttemptOf(resolutions[history[k][n]])]
  BY <1>2 DEF AttemptsOf
<1>5. AttemptsOf(k) \in Seq(Ledger!Attempt) /\ Len(AttemptsOf(k)) = Len(history[k])
  BY <1>2, <1>3, <1>4
<1>6. QED
  BY <1>2, <1>3, <1>4, <1>5

\* A commit appends its attempt to the fact's list.
LEMMA CommitRecords ==
    ASSUME FactInv, NEW sender \in Resolvers, NEW rid \in DOMAIN requests, NEW c \in Commit,
           CommitResolution(sender, rid, c), NEW k, k = requests[rid].key
    PROVE  LET a == AttemptOf(CommittedResolution(rid, requests[rid], c))
           IN  /\ a \in Ledger!Attempt
               /\ AttemptsOf(k)' = Append(AttemptsOf(k), a)
               /\ \A j \in FactKeys \ {k} : AttemptsOf(j)' = AttemptsOf(j)
<1> DEFINE resid == Len(resolutions) + 1
           r == CommittedResolution(rid, requests[rid], c)
           n == Len(history[k])
           h == AttemptsOf(k)
           a == AttemptOf(r)
<1>1. TypeInv
  BY DEF FactInv
<1>2. /\ k \in FactKeys /\ r \in Resolution
      /\ resolutions'[resid] = r
      /\ \A id \in DOMAIN resolutions : resolutions'[id] = resolutions[id]
      /\ history'[k] = Append(history[k], resid)
      /\ \A j \in FactKeys \ {k} : history'[j] = history[j]
      /\ resid \in Nat
  BY <1>1, CommitEffects
<1>3. a \in Ledger!Attempt
  BY <1>2 DEF AttemptOf, Resolution, Outcomes, BooleanOutcomes,
              Ledger!Attempt, Ledger!Outcomes, Ledger!BooleanOutcomes
<1>4. history[k] \in Seq(Nat)
  BY <1>1, <1>2 DEF TypeInv, TypeOK
<1>5. /\ h \in Seq(Ledger!Attempt) /\ Len(h) = n
      /\ DOMAIN history[k] = 1..n /\ n \in Nat
      /\ \A m \in DOMAIN history[k] : /\ history[k][m] \in DOMAIN resolutions
                                      /\ h[m] = AttemptOf(resolutions[history[k][m]])
  BY <1>2, AttemptsType
<1> HIDE DEF resid, r, n, h, a
<1>6. /\ DOMAIN history'[k] = 1..n + 1
      /\ history'[k][n + 1] = resid
      /\ \A m \in 1..n : history'[k][m] = history[k][m]
  BY <1>2, <1>4, AppendFacts DEF n
<1>7. AttemptsOf(k)' = [m \in 1..n + 1 |-> AttemptOf(resolutions'[history'[k][m]])]
  <2>1. AttemptsOf(k)' = [m \in DOMAIN history'[k] |-> AttemptOf(resolutions'[history'[k][m]])]
    BY DEF AttemptsOf, AttemptOf
  <2>2. QED
    BY <1>6, <2>1
<1>8. Append(h, a) = [m \in 1..n + 1 |-> IF m = n + 1 THEN a ELSE h[m]]
  <2>1. /\ Append(h, a) \in Seq(Ledger!Attempt) /\ Len(Append(h, a)) = n + 1
        /\ Append(h, a)[n + 1] = a
        /\ \A m \in 1..n : Append(h, a)[m] = h[m]
    BY <1>3, <1>5, AppendFacts
  <2>2. Append(h, a) \in [1..n + 1 -> Ledger!Attempt]
    BY <2>1, LenProperties
  <2>3. \A m \in 1..n + 1 : m = n + 1 \/ m \in 1..n
    BY <1>5
  <2>4. \A m \in 1..n + 1 : Append(h, a)[m] = IF m = n + 1 THEN a ELSE h[m]
    BY <2>1, <2>3
  <2>5. QED
    BY <2>2, <2>4
<1>9. ASSUME NEW m \in 1..n + 1
      PROVE  AttemptOf(resolutions'[history'[k][m]]) = IF m = n + 1 THEN a ELSE h[m]
  <2>1. CASE m = n + 1
    BY <1>2, <1>6, <2>1 DEF a
  <2>2. CASE m # n + 1
    <3>1. m \in 1..n
      BY <1>5, <2>2
    <3>2. QED
      BY <1>2, <1>5, <1>6, <2>2, <3>1
  <2>3. QED
    BY <2>1, <2>2
<1>10. AttemptsOf(k)' = Append(h, a)
  BY <1>7, <1>8, <1>9
<1>11. ASSUME NEW j \in FactKeys \ {k}
       PROVE  AttemptsOf(j)' = AttemptsOf(j)
  <2>1. \A m \in DOMAIN history[j] : history[j][m] \in DOMAIN resolutions
    BY AttemptsType
  <2>2. AttemptsOf(j)' = [m \in DOMAIN history[j] |-> AttemptOf(resolutions'[history[j][m]])]
    BY <1>2 DEF AttemptsOf, AttemptOf
  <2>3. \A m \in DOMAIN history[j] : resolutions'[history[j][m]] = resolutions[history[j][m]]
    BY <1>2, <2>1
  <2>4. QED
    BY <2>2, <2>3 DEF AttemptsOf
<1>12. QED
  BY <1>3, <1>10, <1>11 DEF r, h, a

\* The head a commit leaves is the one the whole list asks for.
LEMMA CommitKeepsHeads ==
    ASSUME LedgerInv, NEW sender \in Resolvers, NEW rid \in DOMAIN requests, NEW c \in Commit,
           CommitResolution(sender, rid, c), NEW k, k = requests[rid].key
    PROVE  /\ facts'[k].exists
           /\ Ledger!IsHead(AttemptsOf(k)', facts'[k].version)
           /\ facts'[k].version \in 1..Len(AttemptsOf(k)) + 1
<1> DEFINE f == facts[k]
           resid == Len(resolutions) + 1
           r == CommittedResolution(rid, requests[rid], c)
           g == FactAfter(f, resid, r)
           h == AttemptsOf(k)
           a == AttemptOf(r)
           n == Len(h)
<1>1. FactInv /\ TypeInv /\ TypeOK /\ HeadsAreDue /\ FactMatchesRecords
  BY DEF LedgerInv, FactInv, TypeInv
<1>2. k \in FactKeys /\ r \in Resolution /\ facts'[k] = g
  BY <1>1, CommitEffects
<1>3. f \in Fact
  BY <1>1, <1>2 DEF TypeOK
<1>4. /\ h \in Seq(Ledger!Attempt) /\ n = Len(history[k]) /\ n \in Nat
      /\ \A m \in DOMAIN history[k] : h[m] = AttemptOf(resolutions[history[k][m]])
      /\ DOMAIN history[k] = 1..Len(history[k])
  BY <1>1, <1>2, AttemptsType
<1>5. AttemptsOf(k)' = Append(h, a) /\ a \in Ledger!Attempt
  BY <1>1, CommitRecords
<1>6. r.version = n + 1
  BY <1>1, <1>4, CommitContinues
<1>7. IF f.exists THEN Ledger!IsHead(h, f.version) /\ f.version \in 1..n
                       /\ h[f.version].outcome = f.outcome
                  ELSE n = 0 /\ h = <<>>
  <2>1. CASE f.exists
    <3>1. /\ f.version \in 1..Len(history[k]) /\ history[k][f.version] = f.current
          /\ f.current \in DOMAIN resolutions
      BY <1>1, <1>2, <2>1, VersionInHistory
    <3>2. resolutions[f.current].outcome = f.outcome
      BY <1>1, <1>2, <2>1 DEF FactMatchesRecords
    <3>3. h[f.version] = AttemptOf(resolutions[f.current])
      BY <1>4, <3>1
    <3>4. h[f.version].outcome = f.outcome
      BY <3>2, <3>3 DEF AttemptOf
    <3>5. Ledger!IsHead(h, f.version)
      BY <1>1, <1>2, <2>1 DEF HeadsAreDue
    <3>6. QED
      BY <1>4, <2>1, <3>1, <3>4, <3>5
  <2>2. CASE ~f.exists
    <3>1. history[k] = <<>>
      BY <1>1, <1>2, <2>2 DEF HeadsAreDue
    <3>2. n = 0
      BY <1>4, <3>1
    <3>3. QED
      BY <1>4, <2>2, <3>2, EmptySeq
  <2>3. QED
    BY <2>1, <2>2
<1>8. /\ Ledger!Answers(a) <=> r.outcome \in BooleanOutcomes
      /\ Ledger!Verdict(a) <=> r.outcome \in BooleanOutcomes /\ r.policyOk
      /\ f.exists => (Ledger!Answers(h[f.version]) <=> f.outcome \in BooleanOutcomes)
  BY <1>7 DEF AttemptOf, Ledger!Answers, Ledger!Verdict, Ledger!BooleanOutcomes, BooleanOutcomes
<1> HIDE DEF f, resid, r, g, h, a, n
<1>9. CASE ShouldAdvanceCanonical(f, r.outcome, r.policyOk)
  <2>1. g.exists /\ g.version = n + 1
    BY <1>2, <1>3, <1>6, <1>9, FactAfterFields DEF g
  <2>2. Ledger!IsHead(Append(h, a), n + 1)
    <3>1. CASE Ledger!Verdict(a)
      BY <1>4, <1>5, <3>1, HeadVerdict DEF n
    <3>2. CASE ~f.exists
      <4>1. \A j \in DOMAIN h : ~Ledger!Answers(h[j])
        BY <1>7, <3>2
      <4>2. QED
        BY <1>4, <1>5, <4>1, HeadUnanswered DEF n
    <3>3. CASE f.exists /\ f.outcome \notin BooleanOutcomes
      <4>1. \A j \in DOMAIN h : ~Ledger!Answers(h[j])
        BY <1>4, <1>7, <1>8, <3>3, HeadSilent
      <4>2. QED
        BY <1>4, <1>5, <4>1, HeadUnanswered DEF n
    <3>4. QED
      BY <1>8, <1>9, <3>1, <3>2, <3>3 DEF ShouldAdvanceCanonical
  <2>3. n + 1 \in 1..n + 1
    BY <1>4
  <2>4. QED
    BY <1>2, <1>5, <2>1, <2>2, <2>3 DEF h, n
<1>10. CASE ~ShouldAdvanceCanonical(f, r.outcome, r.policyOk)
  <2>1. g.exists /\ f.exists /\ g.version = f.version
    BY <1>2, <1>3, <1>10, FactAfterFields DEF g
  <2>2. Ledger!Answers(h[f.version]) /\ ~Ledger!Verdict(a)
    BY <1>8, <1>10 DEF ShouldAdvanceCanonical
  <2>3. Ledger!IsHead(Append(h, a), f.version)
    BY <1>4, <1>5, <1>7, <2>1, <2>2, HeadStays
  <2>4. f.version \in 1..n + 1
    BY <1>4, <1>7, <2>1
  <2>5. QED
    BY <1>2, <1>5, <2>1, <2>3, <2>4 DEF h, n
<1>11. QED
  BY <1>9, <1>10

\* A commit is a Record of the ledger.
LEMMA CommitIsRecord ==
    ASSUME LedgerInv, NEW sender \in Resolvers, NEW rid \in DOMAIN requests, NEW c \in Commit,
           CommitResolution(sender, rid, c)
    PROVE  HeadsAreDue' /\ Ledger!Next
<1>1. PICK k : k = requests[rid].key
  OBVIOUS
<1>2. PICK a : a = AttemptOf(CommittedResolution(rid, requests[rid], c))
  OBVIOUS
<1>3. PICK i : i = facts'[k].version
  OBVIOUS
<1> DEFINE ledger == [j \in FactKeys |-> AttemptsOf(j)]
           heads == [j \in FactKeys |-> facts[j].version]
<1>4. FactInv /\ TypeInv /\ HeadsAreDue
  BY DEF LedgerInv, FactInv
<1>5. /\ k \in FactKeys
      /\ \A j \in FactKeys \ {k} : facts'[j] = facts[j] /\ history'[j] = history[j]
  BY <1>1, <1>4, CommitEffects
<1>6. /\ a \in Ledger!Attempt
      /\ AttemptsOf(k)' = Append(AttemptsOf(k), a)
      /\ \A j \in FactKeys \ {k} : AttemptsOf(j)' = AttemptsOf(j)
  BY <1>1, <1>2, <1>4, CommitRecords
<1>7. /\ facts'[k].exists
      /\ Ledger!IsHead(AttemptsOf(k)', i)
      /\ i \in 1..Len(AttemptsOf(k)) + 1
  BY <1>1, <1>3, CommitKeepsHeads
<1>8. HeadsAreDue'
  <2>1. ASSUME NEW j \in FactKeys
        PROVE  IF facts'[j].exists THEN Ledger!IsHead(AttemptsOf(j)', facts'[j].version)
                                   ELSE facts'[j].version = 0 /\ history'[j] = <<>>
    <3>1. CASE j = k
      BY <1>3, <1>7, <3>1
    <3>2. CASE j # k
      BY <1>4, <1>5, <1>6, <3>2 DEF HeadsAreDue
    <3>3. QED
      BY <3>1, <3>2
  <2>2. QED
    BY <2>1 DEF HeadsAreDue
<1>9. ledger' = [ledger EXCEPT ![k] = Append(@, a)]
  <2>1. ledger' = [j \in FactKeys |-> AttemptsOf(j)']
    OBVIOUS
  <2>2. [ledger EXCEPT ![k] = Append(@, a)]
        = [j \in FactKeys |-> IF j = k THEN Append(AttemptsOf(k), a) ELSE AttemptsOf(j)]
    BY <1>5
  <2>3. \A j \in FactKeys :
            AttemptsOf(j)' = IF j = k THEN Append(AttemptsOf(k), a) ELSE AttemptsOf(j)
    BY <1>6
  <2> HIDE DEF ledger
  <2>4. QED
    BY <2>1, <2>2, <2>3
<1>10. heads' = [heads EXCEPT ![k] = i]
  <2>1. heads' = [j \in FactKeys |-> facts'[j].version]
    OBVIOUS
  <2>2. [heads EXCEPT ![k] = i] = [j \in FactKeys |-> IF j = k THEN i ELSE facts[j].version]
    BY <1>5
  <2>3. \A j \in FactKeys : facts'[j].version = IF j = k THEN i ELSE facts[j].version
    BY <1>3, <1>5
  <2> HIDE DEF heads
  <2>4. QED
    BY <2>1, <2>2, <2>3
<1>11. ledger[k] = AttemptsOf(k)
  BY <1>5
<1>12. /\ Ledger!IsHead(Append(ledger[k], a), i)
       /\ i \in 1..Len(ledger[k]) + 1
  BY <1>6, <1>7, <1>11
<1>13. Ledger!Record(k, a)
  BY <1>9, <1>10, <1>12 DEF Ledger!Record
<1>14. Ledger!Next
  BY <1>5, <1>6, <1>13 DEF Ledger!Next
<1>15. QED
  BY <1>8, <1>14

LEMMA InitLedger == Init => LedgerInv /\ Ledger!Init
<1> SUFFICES ASSUME Init PROVE LedgerInv /\ Ledger!Init
  OBVIOUS
<1>1. \A k \in FactKeys : facts[k] = EmptyFact /\ history[k] = <<>>
  BY DEF Init
<1>2. ~EmptyFact.exists /\ EmptyFact.version = 0
  BY DEF EmptyFact
<1>3. HeadsAreDue
  BY <1>1, <1>2 DEF HeadsAreDue
<1>4. \A k \in FactKeys : AttemptsOf(k) = <<>>
  BY <1>1 DEF AttemptsOf
<1>5. Ledger!Init
  BY <1>1, <1>2, <1>4 DEF Ledger!Init
<1>6. QED
  BY <1>3, <1>5, InitFactInv DEF LedgerInv

LEMMA NextLedger ==
    ASSUME LedgerInv, [Next]_vars
    PROVE  LedgerInv' /\ [Ledger!Next]_(Ledger!ledgerVars)
<1>1. FactInv /\ FactInv' /\ TypeInv
  BY NextFactInv DEF LedgerInv, FactInv
<1>2. CASE UNCHANGED factVars
  <2>1. \A k \in FactKeys : AttemptsOf(k)' = AttemptsOf(k)
    BY <1>2 DEF AttemptsOf, AttemptOf, factVars
  <2>2. HeadsAreDue'
    BY <1>2, <2>1 DEF LedgerInv, HeadsAreDue, factVars
  <2>3. UNCHANGED Ledger!ledgerVars
    BY <1>2, <2>1 DEF Ledger!ledgerVars, factVars
  <2>4. QED
    BY <1>1, <2>2, <2>3 DEF LedgerInv
<1>3. CASE \E sender \in Resolvers, rid \in DOMAIN requests, c \in Commit :
             CommitResolution(sender, rid, c)
  BY <1>1, <1>3, CommitIsRecord DEF LedgerInv
<1>4. QED
  BY <1>1, <1>2, <1>3, FactsMoveByCommit

(***************************************************************************)
(* The registry implements the ledger: the head that should_advance_       *)
(* canonical reaches one commit at a time is the one FactLedger picks from *)
(* the whole list of attempts, for any number of facts, requests and       *)
(* commits.                                                                *)
(***************************************************************************)
THEOREM ImplementsLedger == Spec => LedgerSpec
<1>1. Spec => []LedgerInv
  BY InitLedger, NextLedger, PTL DEF Spec
<1>2. QED
  BY <1>1, InitLedger, NextLedger, PTL DEF Spec, LedgerSpec, Ledger!Spec

-----------------------------------------------------------------------------
(* Sums of functions on finite sets. *)

\* A set of naturals has a least element: induction, with a set for its predicate.
Below == {p \in Nat \X Nat : p[1] < p[2]}
LEMMA LeastNatural ==
    ASSUME NEW T \in SUBSET Nat, T # {}
    PROVE  \E n \in T : \A m \in T : n <= m
<1>1. IsWellFoundedOn(Below, Nat)
  BY NatLessThanWellFounded DEF OpToRel, Below
<1>2. PICK n \in T : \A m \in T : <<m, n>> \notin Below
  BY <1>1, WFMin
<1>3. ASSUME NEW m \in T PROVE n <= m
  <2>1. <<m, n>> \in Nat \X Nat
    OBVIOUS
  <2>2. ~(m < n)
    BY <1>2, <2>1 DEF Below
  <2>3. QED
    BY <2>2
<1>4. QED
  BY <1>3

\* The recursion SumFunctionOnSet is defined by.
Any(s) == CHOOSE x \in s : TRUE
SumStep(f, g, s) == IF s = {} THEN 0 ELSE f[Any(s)] + g[s \ {Any(s)}]
Sums(f, S, g) == g = [s \in SUBSET S |-> SumStep(f, g, s)]

LEMMA SumIsChosen ==
    ASSUME NEW f, NEW S
    PROVE  SumFunctionOnSet(f, S) = (CHOOSE g : Sums(f, S, g))[S]
  BY DEF SumFunctionOnSet, FoldFunctionOnSet, MapThenFoldSet, Sums, SumStep, Any

\* Taking its element out makes a finite set smaller.
LEMMA Smaller ==
    ASSUME NEW S, IsFiniteSet(S), NEW s \in SUBSET S, s # {}
    PROVE  /\ Any(s) \in s /\ s \ {Any(s)} \in SUBSET S
           /\ Cardinality(s) \in Nat \ {0}
           /\ \A x \in s : /\ Cardinality(s \ {x}) \in Nat
                           /\ Cardinality(s \ {x}) = Cardinality(s) - 1
<1>1. IsFiniteSet(s)
  BY FS_Subset
<1>2. Cardinality(s) \in Nat \ {0}
  BY <1>1, FS_CardinalityType, FS_EmptySet
<1>3. \A x \in s : Cardinality(s \ {x}) = Cardinality(s) - 1
  BY <1>1, FS_RemoveElement
<1>4. QED
  BY <1>2, <1>3 DEF Any

\* On a finite set the recursion has a solution.
LEMMA SumsExist ==
    ASSUME NEW f, NEW S, IsFiniteSet(S)
    PROVE  \E g : Sums(f, S, g)
<1> DEFINE Small(n) == {s \in SUBSET S : Cardinality(s) <= n}
           Solved(n) == \E g : g = [s \in Small(n) |-> SumStep(f, g, s)]
           T == {n \in Nat : ~Solved(n)}
<1>1. Cardinality({}) = 0
  BY FS_EmptySet
<1>2. \A s \in SUBSET S : Cardinality(s) \in Nat
  BY FS_Subset, FS_CardinalityType
<1>3. Solved(0)
  <2>1. \A s \in Small(0) : s = {}
    BY <1>2, Smaller
  <2> DEFINE g == [s \in Small(0) |-> 0]
  <2>2. g = [s \in Small(0) |-> SumStep(f, g, s)]
    BY <2>1 DEF SumStep
  <2>3. QED
    BY <2>2
<1>4. ASSUME NEW n \in Nat, Solved(n) PROVE Solved(n + 1)
  <2>1. PICK g : g = [s \in Small(n) |-> SumStep(f, g, s)]
    BY <1>4
  <2> DEFINE h == [s \in Small(n + 1) |-> SumStep(f, g, s)]
  <2>2. ASSUME NEW s \in Small(n + 1) PROVE h[s] = SumStep(f, h, s)
    <3>1. CASE s = {}
      BY <3>1 DEF SumStep
    <3>2. CASE s # {}
      <4> DEFINE r == s \ {Any(s)}
      <4>1. r \in Small(n) /\ r \in Small(n + 1)
        BY <1>2, <3>2, Smaller
      <4>2. g[r] = SumStep(f, g, r) /\ h[r] = SumStep(f, g, r)
        BY <2>1, <4>1
      <4>3. h[s] = f[Any(s)] + g[r]
        BY <3>2 DEF SumStep
      <4> HIDE DEF h
      <4>4. QED
        BY <3>2, <4>2, <4>3 DEF SumStep
    <3>3. QED
      BY <3>1, <3>2
  <2>3. h = [s \in Small(n + 1) |-> SumStep(f, h, s)]
    <3>1. h = [s \in Small(n + 1) |-> h[s]]
      OBVIOUS
    <3> HIDE DEF h
    <3>2. QED
      BY <2>2, <3>1
  <2>4. QED
    BY <2>3
<1>5. T = {}
  <2>1. SUFFICES ASSUME T # {} PROVE FALSE
    OBVIOUS
  <2>2. T \in SUBSET Nat
    OBVIOUS
  <2> HIDE DEF Solved
  <2>3. \A n \in T : n \in Nat /\ ~Solved(n)
    OBVIOUS
  <2>4. \A n \in Nat : ~Solved(n) => n \in T
    OBVIOUS
  <2> HIDE DEF T
  <2>5. PICK n \in T : \A m \in T : n <= m
    BY <2>1, <2>2, LeastNatural
  <2>6. n # 0
    BY <1>3, <2>3
  <2>7. n - 1 \in Nat /\ (n - 1) + 1 = n /\ n - 1 \notin T
    BY <2>2, <2>5, <2>6
  <2>8. Solved(n - 1)
    BY <2>4, <2>7
  <2>9. Solved((n - 1) + 1)
    BY <1>4, <2>7, <2>8
  <2>10. QED
    BY <2>3, <2>5, <2>7, <2>9
<1>6. Small(Cardinality(S)) = SUBSET S
  BY FS_Subset, FS_CardinalityType
<1>7. Solved(Cardinality(S))
  <2>1. Cardinality(S) \in Nat
    BY FS_CardinalityType
  <2>2. QED
    BY <1>5, <2>1
<1>8. QED
  BY <1>6, <1>7 DEF Sums

LEMMA SumSolves ==
    ASSUME NEW f, NEW S, IsFiniteSet(S)
    PROVE  \E g : Sums(f, S, g) /\ SumFunctionOnSet(f, S) = g[S]
<1>1. Sums(f, S, CHOOSE g : Sums(f, S, g))
  BY SumsExist
<1>2. QED
  BY <1>1, SumIsChosen

\* Solutions agree where the functions do.
LEMMA SumsAgree ==
    ASSUME NEW f1, NEW S1, NEW g1, Sums(f1, S1, g1), IsFiniteSet(S1),
           NEW f2, NEW S2, NEW g2, Sums(f2, S2, g2)
    PROVE  \A s \in SUBSET S1 :
             (s \in SUBSET S2 /\ \A x \in s : f1[x] = f2[x]) => g1[s] = g2[s]
<1> DEFINE Wrong(s) == s \in SUBSET S2 /\ (\A x \in s : f1[x] = f2[x]) /\ g1[s] # g2[s]
           T == {n \in Nat : \E s \in SUBSET S1 : Wrong(s) /\ Cardinality(s) = n}
<1>1. SUFFICES ASSUME NEW b \in SUBSET S1, Wrong(b) PROVE FALSE
  OBVIOUS
<1>2. \A s \in SUBSET S1 : Cardinality(s) \in Nat
  BY FS_Subset, FS_CardinalityType
<1>3. T \in SUBSET Nat /\ T # {}
  BY <1>1, <1>2
<1>4. PICK n \in T : \A m \in T : n <= m
  BY <1>3, LeastNatural, Zenon
<1>5. PICK s \in SUBSET S1 : Wrong(s) /\ Cardinality(s) = n
  BY <1>4
<1>6. g1[s] = SumStep(f1, g1, s) /\ g2[s] = SumStep(f2, g2, s)
  BY <1>5 DEF Sums
<1>7. CASE s = {}
  BY <1>5, <1>6, <1>7 DEF SumStep
<1>8. CASE s # {}
  <2> DEFINE r == s \ {Any(s)}
  <2>1. /\ Any(s) \in s /\ r \in SUBSET S1 /\ r \in SUBSET S2
        /\ Cardinality(r) \in Nat /\ Cardinality(r) < n
    BY <1>5, <1>8, <1>2, Smaller
  <2>2. g1[r] = g2[r]
    <3>1. SUFFICES ASSUME g1[r] # g2[r] PROVE FALSE
      OBVIOUS
    <3>2. Wrong(r)
      BY <1>5, <2>1, <3>1
    <3>3. Cardinality(r) \in T
      BY <2>1, <3>2
    <3>4. n \in Nat /\ n <= Cardinality(r)
      BY <1>3, <1>4, <3>3
    <3>5. QED
      BY <2>1, <3>4
  <2>3. f1[Any(s)] = f2[Any(s)]
    BY <1>5, <2>1
  <2>4. QED
    BY <1>5, <1>6, <1>8, <2>2, <2>3 DEF SumStep
<1>9. QED
  BY <1>7, <1>8

\* A sum of naturals is a natural, and any element may be taken out first.
LEMMA SumsTakeOut ==
    ASSUME NEW f, NEW S, NEW g, Sums(f, S, g), IsFiniteSet(S), \A x \in S : f[x] \in Nat
    PROVE  \A s \in SUBSET S : g[s] \in Nat /\ \A x \in s : g[s] = f[x] + g[s \ {x}]
<1> DEFINE Right(s) == g[s] \in Nat /\ \A x \in s : g[s] = f[x] + g[s \ {x}]
           T == {n \in Nat : \E s \in SUBSET S : ~Right(s) /\ Cardinality(s) = n}
<1>1. SUFFICES ASSUME NEW b \in SUBSET S, ~Right(b) PROVE FALSE
  OBVIOUS
<1>2. \A s \in SUBSET S : Cardinality(s) \in Nat
  BY FS_Subset, FS_CardinalityType
<1>3. T \in SUBSET Nat /\ T # {}
  BY <1>1, <1>2
<1>4. PICK n \in T : \A m \in T : n <= m
  BY <1>3, LeastNatural, Zenon
<1>5. PICK s \in SUBSET S : ~Right(s) /\ Cardinality(s) = n
  BY <1>4
<1>6. ASSUME NEW r \in SUBSET S, Cardinality(r) < n PROVE Right(r)
  <2>1. SUFFICES ASSUME ~Right(r) PROVE FALSE
    OBVIOUS
  <2>2. Cardinality(r) \in T
    BY <1>2, <2>1
  <2>3. n \in Nat /\ Cardinality(r) \in Nat /\ n <= Cardinality(r)
    BY <1>2, <1>3, <1>4, <2>2
  <2>4. QED
    BY <1>6, <2>3
<1>7. g[s] = SumStep(f, g, s)
  BY DEF Sums
<1>8. CASE s = {}
  BY <1>5, <1>7, <1>8 DEF SumStep
<1>9. CASE s # {}
  <2> DEFINE y == Any(s)
  <2>1. y \in s /\ g[s] = f[y] + g[s \ {y}]
    BY <1>7, <1>9, Smaller DEF SumStep
  <2> HIDE DEF y
  <2>2. ASSUME NEW x \in s PROVE Right(s \ {x})
    <3>1. s \ {x} \in SUBSET S /\ Cardinality(s \ {x}) < n
      BY <1>5, <1>9, <2>2, Smaller
    <3> HIDE DEF Right
    <3>2. QED
      BY <1>6, <3>1
  <2>3. ASSUME NEW x \in s PROVE g[s] = f[x] + g[s \ {x}]
    <3>1. CASE x = y
      BY <2>1, <3>1
    <3>2. CASE x # y
      <4>1. y \in s \ {x} /\ x \in s \ {y} /\ (s \ {x}) \ {y} = (s \ {y}) \ {x}
        BY <2>1, <2>3, <3>2
      <4>2. g[s \ {x}] = f[y] + g[(s \ {x}) \ {y}]
        BY <2>2, <2>3, <4>1
      <4>3. g[s \ {y}] = f[x] + g[(s \ {y}) \ {x}]
        BY <2>1, <2>2, <4>1
      <4>4. f[x] \in Nat /\ f[y] \in Nat
        BY <2>1, <2>3
      <4>5. g[(s \ {x}) \ {y}] \in Nat
        <5>1. (s \ {x}) \ {y} \in SUBSET S /\ Cardinality((s \ {x}) \ {y}) < n
          <6>1. s \ {x} \in SUBSET S /\ s \ {x} # {} /\ Cardinality(s \ {x}) < n /\ Cardinality(s \ {x}) \in Nat
            BY <1>2, <1>5, <1>9, <2>3, <4>1, Smaller
          <6>2. Cardinality((s \ {x}) \ {y}) = Cardinality(s \ {x}) - 1
            BY <4>1, <6>1, Smaller
          <6>3. n \in Nat
            BY <1>3, <1>4
          <6>4. QED
            BY <6>1, <6>2, <6>3
        <5>2. Right((s \ {x}) \ {y})
          <6> HIDE DEF Right
          <6>1. QED
            BY <1>6, <5>1
        <5>3. QED
          BY <5>2
      <4>6. g[(s \ {y}) \ {x}] = g[(s \ {x}) \ {y}]
        BY <4>1, Zenon
      <4>7. \A i, j, k \in Nat : i + (j + k) = j + (i + k)
        OBVIOUS
      <4>8. g[s] = f[y] + (f[x] + g[(s \ {x}) \ {y}])
        BY <2>1, <4>3, <4>6, Zenon
      <4>9. f[x] + g[s \ {x}] = f[x] + (f[y] + g[(s \ {x}) \ {y}])
        BY <4>2, Zenon
      <4>10. f[y] + (f[x] + g[(s \ {x}) \ {y}]) = f[x] + (f[y] + g[(s \ {x}) \ {y}])
        BY <4>4, <4>5, <4>7, Zenon
      <4>11. QED
        BY <4>8, <4>9, <4>10, Zenon
    <3>3. QED
      BY <3>1, <3>2
  <2>4. g[s] \in Nat
    BY <2>1, <2>2
  <2>5. QED
    BY <1>5, <2>3, <2>4
<1>10. QED
  BY <1>8, <1>9

\* The sum of nothing.
LEMMA SumOfNone ==
    ASSUME NEW f
    PROVE  SumFunctionOnSet(f, {}) = 0
<1>1. PICK g : Sums(f, {}, g) /\ SumFunctionOnSet(f, {}) = g[{}]
  BY SumSolves, FS_EmptySet
<1>2. QED
  BY <1>1 DEF Sums, SumStep

\* A sum of naturals is one, and an element of the set may be taken out.
LEMMA SumTakesOut ==
    ASSUME NEW f, NEW S, IsFiniteSet(S), \A x \in S : f[x] \in Nat
    PROVE  /\ SumFunctionOnSet(f, S) \in Nat
           /\ \A x \in S : /\ SumFunctionOnSet(f, S \ {x}) \in Nat
                           /\ SumFunctionOnSet(f, S) = f[x] + SumFunctionOnSet(f, S \ {x})
<1>1. PICK g : Sums(f, S, g) /\ SumFunctionOnSet(f, S) = g[S]
  BY SumSolves
<1>2. g[S] \in Nat /\ \A x \in S : g[S] = f[x] + g[S \ {x}]
  BY <1>1, SumsTakeOut
<1>3. ASSUME NEW x \in S
      PROVE  g[S \ {x}] \in Nat /\ SumFunctionOnSet(f, S \ {x}) = g[S \ {x}]
  <2>1. IsFiniteSet(S \ {x})
    BY FS_RemoveElement
  <2>2. PICK h : Sums(f, S \ {x}, h) /\ SumFunctionOnSet(f, S \ {x}) = h[S \ {x}]
    BY <2>1, SumSolves
  <2>3. h[S \ {x}] = g[S \ {x}]
    BY <1>1, <2>1, <2>2, SumsAgree
  <2>4. g[S \ {x}] \in Nat
    BY <1>1, SumsTakeOut
  <2>5. QED
    BY <2>2, <2>3, <2>4
<1>4. QED
  BY <1>1, <1>2, <1>3

\* Functions that agree on a set have the same sum on it.
LEMMA SameSum ==
    ASSUME NEW f, NEW h, NEW S, IsFiniteSet(S), \A x \in S : f[x] = h[x]
    PROVE  SumFunctionOnSet(f, S) = SumFunctionOnSet(h, S)
<1>1. PICK g1 : Sums(f, S, g1) /\ SumFunctionOnSet(f, S) = g1[S]
  BY SumSolves
<1>2. PICK g2 : Sums(h, S, g2) /\ SumFunctionOnSet(h, S) = g2[S]
  BY SumSolves
<1>3. QED
  BY <1>1, <1>2, SumsAgree

\* A sum moves with the one element that changes.
LEMMA SumMoves ==
    ASSUME NEW S, IsFiniteSet(S), NEW f \in [S -> Nat], NEW a \in S, NEW v \in Nat
    PROVE  /\ SumFunction(f) \in Nat
           /\ SumFunction([f EXCEPT ![a] = v]) = SumFunction(f) - f[a] + v
<1> DEFINE h == [f EXCEPT ![a] = v]
<1>1. h \in [S -> Nat] /\ h[a] = v /\ \A x \in S \ {a} : h[x] = f[x]
  OBVIOUS
<1>2. SumFunction(f) = SumFunctionOnSet(f, S) /\ SumFunction(h) = SumFunctionOnSet(h, S)
  BY DEF SumFunction
<1> HIDE DEF h
<1>3. IsFiniteSet(S \ {a})
  BY FS_RemoveElement
<1>4. SumFunctionOnSet(h, S \ {a}) = SumFunctionOnSet(f, S \ {a})
  BY <1>1, <1>3, SameSum
<1>5. /\ SumFunctionOnSet(f, S) \in Nat /\ SumFunctionOnSet(f, S \ {a}) \in Nat
      /\ SumFunctionOnSet(f, S) = f[a] + SumFunctionOnSet(f, S \ {a})
  <2>1. \A x \in S : f[x] \in Nat
    OBVIOUS
  <2>2. QED
    BY <2>1, SumTakesOut
<1>6. SumFunctionOnSet(h, S) = v + SumFunctionOnSet(h, S \ {a})
  <2>1. \A x \in S : h[x] \in Nat
    BY <1>1
  <2>2. QED
    BY <1>1, <2>1, SumTakesOut
<1>7. f[a] \in Nat
  OBVIOUS
<1>8. SumFunction(h) = SumFunction(f) - f[a] + v
  BY <1>2, <1>4, <1>5, <1>6, <1>7
<1>9. QED
  BY <1>2, <1>5, <1>8 DEF h

\* A sum grows by the element that is added.
LEMMA SumGrows ==
    ASSUME NEW n \in Nat, NEW f \in [1..n -> Nat], NEW h \in [1..(n + 1) -> Nat],
           \A i \in 1..n : h[i] = f[i]
    PROVE  /\ SumFunction(f) \in Nat
           /\ SumFunction(h) = SumFunction(f) + h[n + 1]
<1>1. IsFiniteSet(1..n) /\ IsFiniteSet(1..(n + 1))
  BY FS_Interval
<1>2. (1..(n + 1)) \ {n + 1} = 1..n /\ n + 1 \in 1..(n + 1)
  OBVIOUS
<1>3. SumFunctionOnSet(h, 1..n) = SumFunctionOnSet(f, 1..n)
  BY <1>1, SameSum
<1>4. SumFunctionOnSet(f, 1..n) \in Nat
  <2>1. \A x \in 1..n : f[x] \in Nat
    OBVIOUS
  <2>2. QED
    BY <1>1, <2>1, SumTakesOut
<1>5. SumFunctionOnSet(h, 1..(n + 1)) = h[n + 1] + SumFunctionOnSet(h, (1..(n + 1)) \ {n + 1})
  <2>1. \A x \in 1..(n + 1) : h[x] \in Nat
    OBVIOUS
  <2>2. QED
    BY <1>1, <1>2, <2>1, SumTakesOut
<1>6. h[n + 1] \in Nat
  BY <1>2
<1>7. SumFunction(f) = SumFunctionOnSet(f, 1..n) /\ SumFunction(h) = SumFunctionOnSet(h, 1..(n + 1))
  BY DEF SumFunction
<1>8. SumFunctionOnSet(h, 1..(n + 1)) = h[n + 1] + SumFunctionOnSet(f, 1..n)
  BY <1>2, <1>3, <1>5, Zenon
<1>9. \A i, j \in Nat : i + j = j + i
  OBVIOUS
<1>10. QED
  BY <1>4, <1>6, <1>7, <1>8, <1>9, Zenon

\* The sum of a function on a finite set, and of the one that is 0 throughout.
LEMMA SumType ==
    ASSUME NEW S, IsFiniteSet(S), NEW f \in [S -> Nat]
    PROVE  SumFunction(f) \in Nat
<1>1. SumFunction(f) = SumFunctionOnSet(f, S)
  BY DEF SumFunction
<1>2. \A x \in S : f[x] \in Nat
  OBVIOUS
<1>3. QED
  BY <1>1, <1>2, SumTakesOut

LEMMA SumOfZeros ==
    ASSUME NEW S, IsFiniteSet(S), NEW f, f = [x \in S |-> 0]
    PROVE  SumFunction(f) = 0
<1> DEFINE T == {n \in Nat : \E s \in SUBSET S : SumFunctionOnSet(f, s) # 0 /\ Cardinality(s) = n}
<1>1. \A s \in SUBSET S : IsFiniteSet(s) /\ Cardinality(s) \in Nat
  BY FS_Subset, FS_CardinalityType
<1>2. SUFFICES ASSUME T # {} PROVE FALSE
  <2>1. SumFunction(f) = SumFunctionOnSet(f, S)
    BY DEF SumFunction
  <2>2. QED
    BY <1>1, <2>1
<1>3. T \in SUBSET Nat
  OBVIOUS
<1>4. PICK n \in T : \A m \in T : n <= m
  BY <1>2, <1>3, LeastNatural, Zenon
<1>5. PICK s \in SUBSET S : SumFunctionOnSet(f, s) # 0 /\ Cardinality(s) = n
  BY <1>4
<1>6. PICK x : x \in s
  BY <1>5, SumOfNone
<1>7. \A y \in s : f[y] = 0
  OBVIOUS
<1>8. /\ SumFunctionOnSet(f, s \ {x}) \in Nat
      /\ SumFunctionOnSet(f, s) = 0 + SumFunctionOnSet(f, s \ {x})
  BY <1>1, <1>6, <1>7, SumTakesOut
<1>9. SumFunctionOnSet(f, s \ {x}) # 0
  BY <1>5, <1>8
<1>10. s \ {x} \in SUBSET S /\ Cardinality(s \ {x}) \in Nat /\ Cardinality(s \ {x}) = n - 1
  BY <1>1, <1>5, <1>6, Smaller
<1>11. Cardinality(s \ {x}) \in T
  BY <1>9, <1>10
<1>12. n \in Nat /\ n <= n - 1
  BY <1>3, <1>4, <1>10, <1>11
<1>13. QED
  BY <1>12

-----------------------------------------------------------------------------
(* Money. *)

\* The fee a request holds, by request.
LEMMA FeesType ==
    ASSUME TypeInv
    PROVE  /\ requests \in Seq(Request) /\ Len(requests) \in Nat
           /\ DOMAIN requests = 1..Len(requests)
           /\ [rid \in DOMAIN requests |-> requests[rid].fee] \in [1..Len(requests) -> Nat]
<1>1. requests \in Seq(Request)
  BY DEF TypeInv, TypeOK
<1>2. Len(requests) \in Nat /\ DOMAIN requests = 1..Len(requests)
  BY <1>1, LenProperties
<1>3. \A rid \in DOMAIN requests : requests[rid].fee \in Nat
  BY RequestAt DEF Request
<1>4. QED
  BY <1>1, <1>2, <1>3

LEMMA SumTypes ==
    ASSUME TypeInv
    PROVE  /\ SumFunction(credits) \in Nat
           /\ SumFunction(transfers) \in Nat
           /\ FeesHeld \in Nat
           /\ balance \in Int
<1>1. credits \in [Accounts -> Nat] /\ transfers \in [Accounts -> Nat] /\ balance \in Int
  BY DEF TypeInv, TypeOK
<1>2. IsFiniteSet(1..Len(requests))
  BY FeesType, FS_Interval
<1>3. FeesHeld \in Nat
  BY <1>2, FeesType, SumType DEF FeesHeld
<1>4. QED
  BY <1>1, <1>3, AccountsAreFinite, SumType

LEMMA FeesReplaced ==
    ASSUME TypeInv, NEW rid \in DOMAIN requests, NEW r \in Request,
           requests' = [requests EXCEPT ![rid] = r]
    PROVE  FeesHeld' = FeesHeld - requests[rid].fee + r.fee
<1> DEFINE n == Len(requests)
           held == [i \in DOMAIN requests |-> requests[i].fee]
           new == [i \in DOMAIN requests' |-> requests'[i].fee]
<1>1. /\ requests \in Seq(Request) /\ n \in Nat /\ DOMAIN requests = 1..n
      /\ held \in [1..n -> Nat]
  BY FeesType
<1>2. /\ DOMAIN requests' = DOMAIN requests /\ requests'[rid] = r
      /\ \A i \in DOMAIN requests \ {rid} : requests'[i] = requests[i]
  BY <1>1, ReplaceFacts
<1>3. r.fee \in Nat /\ held[rid] = requests[rid].fee
  BY DEF Request
<1>4. new = [held EXCEPT ![rid] = r.fee]
  <2>1. \A i \in DOMAIN requests : requests'[i].fee = IF i = rid THEN r.fee ELSE held[i]
    BY <1>2
  <2>2. [held EXCEPT ![rid] = r.fee] = [i \in DOMAIN requests |-> IF i = rid THEN r.fee ELSE held[i]]
    OBVIOUS
  <2> HIDE DEF held
  <2>3. QED
    BY <1>2, <2>1, <2>2
<1>5. IsFiniteSet(1..n)
  BY <1>1, FS_Interval
<1>6. FeesHeld = SumFunction(held) /\ FeesHeld' = SumFunction(new)
  BY DEF FeesHeld
<1> HIDE DEF held, new
<1>7. SumFunction([held EXCEPT ![rid] = r.fee]) = SumFunction(held) - held[rid] + r.fee
  <2>1. rid \in 1..n
    BY <1>1
  <2>2. PICK v \in Nat : v = r.fee
    BY <1>3
  <2>3. SumFunction([held EXCEPT ![rid] = v]) = SumFunction(held) - held[rid] + v
    BY <1>1, <1>5, <2>1, SumMoves
  <2>4. QED
    BY <2>2, <2>3
<1>8. QED
  BY <1>3, <1>4, <1>6, <1>7, Zenon

LEMMA FeesAppended ==
    ASSUME TypeInv, NEW r \in Request, requests' = Append(requests, r)
    PROVE  FeesHeld' = FeesHeld + r.fee
<1> DEFINE n == Len(requests)
           held == [i \in DOMAIN requests |-> requests[i].fee]
           new == [i \in DOMAIN requests' |-> requests'[i].fee]
<1>1. /\ requests \in Seq(Request) /\ n \in Nat /\ DOMAIN requests = 1..n
      /\ held \in [1..n -> Nat]
  BY FeesType
<1>2. /\ DOMAIN requests' = 1..(n + 1) /\ requests'[n + 1] = r
      /\ \A i \in 1..n : requests'[i] = requests[i]
  BY <1>1, AppendFacts
<1>3. r.fee \in Nat
  BY DEF Request
<1>4. \A i \in 1..n : held[i] \in Nat /\ held[i] = requests[i].fee
  BY <1>1
<1>5. \A i \in 1..(n + 1) : i = n + 1 \/ i \in 1..n
  BY <1>1
<1>6. \A i \in 1..(n + 1) : requests'[i].fee \in Nat
  BY <1>2, <1>3, <1>4, <1>5
<1>7. new \in [1..(n + 1) -> Nat]
  BY <1>2, <1>6
<1>8. new[n + 1] = r.fee /\ \A i \in 1..n : new[i] = held[i]
  BY <1>1, <1>2, <1>4
<1>9. FeesHeld = SumFunction(held) /\ FeesHeld' = SumFunction(new)
  BY DEF FeesHeld
<1> HIDE DEF held, new
<1>10. SumFunction(new) = SumFunction(held) + new[n + 1]
  BY <1>1, <1>7, <1>8, SumGrows
<1>11. QED
  BY <1>8, <1>9, <1>10, Zenon

\* What a payment leaves over is credited.
LEMMA PaymentKept ==
    ASSUME TypeInv, NEW payer \in Accounts, NEW required \in Nat, NEW value \in Nat,
           TakePayment(payer, required, value)
    PROVE  /\ balance' = balance + value
           /\ SumFunction(credits') = SumFunction(credits) + (value - required)
           /\ transfers' = transfers
<1>1. /\ balance' = balance + value /\ value >= required /\ transfers' = transfers
      /\ credits' = [credits EXCEPT ![payer] = credits[payer] + (value - required)]
  BY DEF TakePayment
<1>2. credits \in [Accounts -> Nat] /\ credits[payer] \in Nat
  BY DEF TypeInv, TypeOK
<1>3. credits[payer] + (value - required) \in Nat
  BY <1>1, <1>2
<1>4. /\ SumFunction(credits) \in Nat
      /\ SumFunction(credits')
         = SumFunction(credits) - credits[payer] + (credits[payer] + (value - required))
  <2>1. PICK v \in Nat : v = credits[payer] + (value - required)
    BY <1>3
  <2>2. /\ SumFunction(credits) \in Nat
        /\ SumFunction([credits EXCEPT ![payer] = v]) = SumFunction(credits) - credits[payer] + v
    BY <1>2, AccountsAreFinite, SumMoves
  <2>3. credits' = [credits EXCEPT ![payer] = v]
    BY <1>1, <2>1
  <2>4. QED
    BY <2>1, <2>2, <2>3
<1>5. QED
  BY <1>1, <1>2, <1>4

\* What is owed or earned, and what every step keeps equal to it.
FundsInv == TypeInv /\ FundsConserved

LEMMA InitFundsInv == Init => FundsInv
<1> SUFFICES ASSUME Init PROVE FundsInv
  OBVIOUS
<1>1. SumFunction(credits) = 0 /\ SumFunction(transfers) = 0
  BY AccountsAreFinite, SumOfZeros DEF Init
<1>2. FeesHeld = 0
  <2>1. [rid \in DOMAIN requests |-> requests[rid].fee] = [rid \in {} |-> 0]
    BY DEF Init
  <2>2. QED
    BY <2>1, FS_EmptySet, SumOfZeros DEF FeesHeld
<1>3. QED
  BY <1>1, <1>2, InitTypeInv DEF Init, FundsInv, FundsConserved

\* A request is created with the fee that was paid for it.
LEMMA CreateKeepsFunds ==
    ASSUME FundsInv,
           NEW sender \in Accounts, NEW k \in FactKeys, NEW ttl \in Nat, NEW mode \in ReuseModes,
           NEW target \in Targets, NEW value \in Nat,
           CreateRequest(sender, k, ttl, mode, target, value)
    PROVE  FundsConserved'
<1> DEFINE hit == CanReuse(k, mode, ttl)
           q == NewRequest(sender, k, ttl, target, Quote(hit))
           f == facts[k]
<1>1. TypeInv /\ TypeOK /\ FundsConserved
  BY DEF FundsInv, TypeInv
<1>2. hit \in BOOLEAN /\ Quote(hit) \in Nat
  BY <1>1, QuoteType DEF CanReuse, FreshnessAllowsReuse
<1>3. /\ q \in Request /\ q.key = k /\ q.fee = Quote(hit)
  BY <1>1, <1>2, NewRequestType DEF CreateRequest, NewRequest
<1>4. \E r \in Request : requests' = Append(requests, r) /\ r.fee = Quote(hit)
  <2>1. CASE hit
    <3>1. requests' = Append(requests, Answered(q, "REUSED", f.current))
      BY <2>1, <1>3 DEF CreateRequest, AnswerFromFact
    <3>2. f.current \in Nat
      BY <1>1 DEF TypeOK, Fact
    <3>3. Answered(q, "REUSED", f.current) \in Request
      BY <1>1, <1>3, <3>2, RequestUpdates
    <3>4. Answered(q, "REUSED", f.current).fee = q.fee
      BY <1>3 DEF Answered, Request
    <3>5. QED
      BY <1>3, <3>1, <3>3, <3>4
  <2>2. CASE ~hit
    <3> DEFINE first == [q EXCEPT !.attempts = 1]
    <3>1. requests' = Append(requests, Dispatched(first))
      BY <2>2 DEF CreateRequest, DispatchNew
    <3>2. first \in Request /\ Dispatched(first) \in Request
      BY <1>1, <1>3, RequestUpdates
    <3>3. Dispatched(first).fee = q.fee
      BY <1>3 DEF Dispatched, Request
    <3>4. QED
      BY <1>3, <3>1, <3>2, <3>3
  <2>3. QED
    BY <1>2, <2>1, <2>2
<1>5. FeesHeld' = FeesHeld + Quote(hit)
  BY <1>1, <1>4, FeesAppended
<1>6. TakePayment(sender, Quote(hit), value)
  BY DEF CreateRequest
<1> HIDE DEF hit
<1>7. /\ balance' = balance + value
      /\ SumFunction(credits') = SumFunction(credits) + (value - Quote(hit))
      /\ transfers' = transfers
  BY <1>1, <1>2, <1>6, PaymentKept
<1>8. balance = SumFunction(credits) + SumFunction(transfers) + FeesHeld
  BY <1>1 DEF FundsConserved
<1>9. balance' = SumFunction(credits') + SumFunction(transfers) + FeesHeld'
  BY <1>1, <1>2, <1>5, <1>7, <1>8, SumTypes
<1>10. QED
  BY <1>7, <1>9 DEF FundsConserved

\* A retry adds what it was paid with, a cancellation gives back what was held.
LEMMA DriveKeepsFunds ==
    ASSUME FundsInv, NEW sender, NEW rid \in DOMAIN requests,
           \/ /\ sender \in Accounts
              /\ \E value \in Nat : RetryResolution(sender, rid, value)
           \/ CancelStaleRequest(sender, rid)
           \/ RequestCallbackRetry(sender, rid)
           \/ \E succeeded \in BOOLEAN : MarkCallbackResult(sender, rid, succeeded)
    PROVE  FundsConserved'
<1> DEFINE q == requests[rid]
<1>1. /\ TypeInv /\ TypeOK
      /\ balance = SumFunction(credits) + SumFunction(transfers) + FeesHeld
  BY DEF FundsInv, FundsConserved, TypeInv
<1>2. q \in Request /\ q.fee \in Nat /\ q.requester \in Accounts
  BY <1>1, RequestAt DEF Request
<1>3. /\ SumFunction(credits) \in Nat /\ SumFunction(transfers) \in Nat
      /\ FeesHeld \in Nat /\ balance \in Int
  BY <1>1, SumTypes
<1>4. ASSUME sender \in Accounts, NEW value \in Nat, RetryResolution(sender, rid, value)
      PROVE  FundsConserved'
  <2> DEFINE r == Dispatched(NextAttempt(q))
  <2>1. requests' = [requests EXCEPT ![rid] = r] /\ TakePayment(sender, fees.perAttempt, value)
    BY <1>4 DEF RetryResolution
  <2>2. r \in Request /\ fees.perAttempt \in Nat
    BY <1>1, <1>2, FeeTypes, RequestUpdates
  <2>3. r.fee = q.fee + fees.perAttempt
    BY <1>2 DEF Dispatched, NextAttempt, Request
  <2> HIDE DEF r
  <2>4. FeesHeld' = FeesHeld - q.fee + r.fee
    BY <1>1, <2>1, <2>2, FeesReplaced
  <2>5. /\ balance' = balance + value
        /\ SumFunction(credits') = SumFunction(credits) + (value - fees.perAttempt)
        /\ transfers' = transfers
    BY <1>1, <1>4, <2>1, <2>2, PaymentKept
  <2>6. balance' = SumFunction(credits') + SumFunction(transfers) + FeesHeld'
    BY <1>1, <1>2, <1>3, <2>2, <2>3, <2>4, <2>5
  <2>7. QED
    BY <2>5, <2>6 DEF FundsConserved
<1>5. CASE CancelStaleRequest(sender, rid)
  <2> DEFINE r == Cancelled(q)
  <2>1. /\ requests' = [requests EXCEPT ![rid] = r]
        /\ credits' = [credits EXCEPT ![q.requester] = @ + q.fee]
        /\ balance' = balance /\ transfers' = transfers
    BY <1>5 DEF CancelStaleRequest
  <2>2. r \in Request /\ r.fee = 0
    BY <1>1, <1>2, RequestUpdates DEF Cancelled, Request
  <2> HIDE DEF r
  <2>3. FeesHeld' = FeesHeld - q.fee + r.fee
    BY <1>1, <2>1, <2>2, FeesReplaced
  <2>4. SumFunction(credits') = SumFunction(credits) + q.fee
    <3>1. credits \in [Accounts -> Nat] /\ credits[q.requester] \in Nat
      BY <1>1, <1>2 DEF TypeOK
    <3>2. PICK v \in Nat : v = credits[q.requester] + q.fee
      BY <1>2, <3>1
    <3>3. SumFunction([credits EXCEPT ![q.requester] = v])
          = SumFunction(credits) - credits[q.requester] + v
      BY <1>2, <3>1, AccountsAreFinite, SumMoves
    <3>4. credits' = [credits EXCEPT ![q.requester] = v]
      BY <2>1, <3>2
    <3>5. QED
      BY <1>2, <1>3, <3>1, <3>2, <3>3, <3>4
  <2>5. balance' = SumFunction(credits') + SumFunction(transfers) + FeesHeld'
    BY <1>1, <1>2, <1>3, <2>1, <2>2, <2>3, <2>4
  <2>6. QED
    BY <2>1, <2>5 DEF FundsConserved
<1>6. ASSUME NEW r \in Request, r.fee = q.fee, requests' = [requests EXCEPT ![rid] = r],
             UNCHANGED moneyVars
      PROVE  FundsConserved'
  <2>1. FeesHeld' = FeesHeld - q.fee + r.fee
    BY <1>1, <1>6, FeesReplaced
  <2>2. FeesHeld' = FeesHeld
    BY <1>2, <1>3, <1>6, <2>1
  <2>3. QED
    BY <1>1, <1>6, <2>2 DEF FundsConserved, moneyVars
<1>7. CASE RequestCallbackRetry(sender, rid)
  <2> DEFINE r == [q EXCEPT !.callback = CallbackStatus(q)]
  <2>1. r \in Request /\ r.fee = q.fee
    BY <1>1, <1>2, RequestUpdates DEF Request
  <2>2. requests' = [requests EXCEPT ![rid] = r] /\ UNCHANGED moneyVars
    BY <1>7 DEF RequestCallbackRetry
  <2>3. QED
    BY <1>6, <2>1, <2>2
<1>8. ASSUME NEW succeeded \in BOOLEAN, MarkCallbackResult(sender, rid, succeeded)
      PROVE  FundsConserved'
  <2> DEFINE r == Reported(q, succeeded)
  <2>1. r \in Request /\ r.fee = q.fee
    BY <1>1, <1>2, RequestUpdates DEF Reported, Request
  <2>2. requests' = [requests EXCEPT ![rid] = r] /\ UNCHANGED moneyVars
    BY <1>8 DEF MarkCallbackResult
  <2>3. QED
    BY <1>6, <2>1, <2>2
<1>9. QED
  BY <1>4, <1>5, <1>7, <1>8

\* A commit moves no money, and keeps the fee of the request it answers.
LEMMA CommitKeepsFunds ==
    ASSUME FundsInv, NEW sender \in Resolvers, NEW rid \in DOMAIN requests, NEW c \in Commit,
           CommitResolution(sender, rid, c)
    PROVE  FundsConserved'
<1> DEFINE q == requests[rid]
           r == Answered(q, "RESOLVED", Len(resolutions) + 1)
<1>1. /\ TypeInv /\ TypeOK /\ resolutions \in Seq(Resolution)
      /\ balance = SumFunction(credits) + SumFunction(transfers) + FeesHeld
  BY DEF FundsInv, FundsConserved, TypeInv, TypeOK
<1>2. q \in Request /\ q.fee \in Nat /\ Len(resolutions) + 1 \in Nat
  BY <1>1, RequestAt, LenProperties DEF Request
<1>3. r \in Request /\ r.fee = q.fee
  BY <1>1, <1>2, RequestUpdates DEF Answered, Request
<1>4. requests' = [requests EXCEPT ![rid] = r] /\ UNCHANGED moneyVars
  BY DEF CommitResolution
<1> HIDE DEF r
<1>5. FeesHeld' = FeesHeld - q.fee + r.fee
  BY <1>1, <1>3, <1>4, FeesReplaced
<1>6. FeesHeld' = FeesHeld
  BY <1>1, <1>2, <1>3, <1>5, SumTypes
<1>7. QED
  BY <1>1, <1>4, <1>6 DEF FundsConserved, moneyVars

\* A withdrawal turns credit into a transfer; a finalized transfer leaves the contract.
LEMMA TransfersKeepFunds ==
    ASSUME FundsInv, NEW who \in Accounts, WithdrawCredit(who) \/ FinalizeTransfer(who)
    PROVE  FundsConserved'
<1>1. /\ TypeInv /\ credits \in [Accounts -> Nat] /\ transfers \in [Accounts -> Nat]
      /\ balance = SumFunction(credits) + SumFunction(transfers) + FeesHeld
  BY DEF FundsInv, FundsConserved, TypeInv, TypeOK
<1>2. /\ SumFunction(credits) \in Nat /\ SumFunction(transfers) \in Nat
      /\ FeesHeld \in Nat /\ balance \in Int
      /\ credits[who] \in Nat /\ transfers[who] \in Nat
  BY <1>1, SumTypes
<1>3. UNCHANGED requests
  BY DEF WithdrawCredit, FinalizeTransfer
<1>4. FeesHeld' = FeesHeld
  BY <1>3 DEF FeesHeld
<1>5. ASSUME NEW f \in [Accounts -> Nat], NEW v \in Nat
      PROVE  SumFunction([f EXCEPT ![who] = v]) = SumFunction(f) - f[who] + v
  BY <1>5, AccountsAreFinite, SumMoves
<1>6. CASE WithdrawCredit(who)
  <2>1. PICK v \in Nat : v = transfers[who] + credits[who]
    BY <1>2
  <2>2. /\ credits' = [credits EXCEPT ![who] = 0]
        /\ transfers' = [transfers EXCEPT ![who] = v]
        /\ balance' = balance
    BY <1>6, <2>1 DEF WithdrawCredit
  <2>3. SumFunction(credits') = SumFunction(credits) - credits[who] + 0
    BY <1>1, <1>5, <2>2
  <2>4. SumFunction(transfers') = SumFunction(transfers) - transfers[who] + v
    BY <1>1, <1>5, <2>2
  <2>5. balance' = SumFunction(credits') + SumFunction(transfers') + FeesHeld
    BY <1>1, <1>2, <2>1, <2>2, <2>3, <2>4
  <2>6. QED
    BY <1>4, <2>5 DEF FundsConserved
<1>7. CASE FinalizeTransfer(who)
  <2>1. /\ balance' = balance - transfers[who]
        /\ transfers' = [transfers EXCEPT ![who] = 0]
        /\ credits' = credits
    BY <1>7 DEF FinalizeTransfer
  <2>2. SumFunction(transfers') = SumFunction(transfers) - transfers[who] + 0
    BY <1>1, <1>5, <2>1
  <2>3. balance' = SumFunction(credits) + SumFunction(transfers') + FeesHeld
    BY <1>1, <1>2, <2>1, <2>2
  <2>4. QED
    BY <1>4, <2>1, <2>3 DEF FundsConserved
<1>8. QED
  BY <1>6, <1>7

LEMMA StillKeepsFunds ==
    ASSUME FundsInv, UNCHANGED <<requests, moneyVars>>
    PROVE  FundsConserved'
  BY DEF FundsInv, FundsConserved, FeesHeld, moneyVars

LEMMA NextFundsInv == FundsInv /\ [Next]_vars => FundsInv'
<1> SUFFICES ASSUME FundsInv, [Next]_vars PROVE FundsInv'
  OBVIOUS
<1>1. TypeInv /\ TypeInv'
  BY NextTypeInv DEF FundsInv
<1>2. CASE CreateNext
  <2>1. PICK sender \in Accounts, k \in FactKeys, target \in Targets, value \in Values :
          \/ \E ttl \in Ttls, mode \in ReuseModes :
                \/ RequestFact(sender, k, ttl, mode, target, value)
                \/ RequestFactByTemplate(sender, k, ttl, mode, target, value)
          \/ RefreshFact(sender, k, target, value)
          \/ RequestReassessment(sender, k, target, value)
    BY <1>2 DEF CreateNext
  <2>2. \E key \in FactKeys, ttl \in Nat, mode \in ReuseModes :
            CreateRequest(sender, key, ttl, mode, target, value)
    BY <1>1, <2>1, CreateArguments
  <2>3. value \in Nat
    BY RegistryConstants
  <2>4. QED
    BY <1>1, <2>2, <2>3, CreateKeepsFunds DEF FundsInv
<1>3. CASE DriveNext
  <2>1. Values \subseteq Nat
    BY RegistryConstants
  <2>2. FundsConserved'
    BY <1>3, <2>1, DriveKeepsFunds DEF DriveNext
  <2>3. QED
    BY <1>1, <2>2 DEF FundsInv
<1>4. CASE CommitNext
  BY <1>1, <1>4, CommitArguments, CommitKeepsFunds DEF FundsInv
<1>5. CASE \E who \in Accounts : WithdrawCredit(who) \/ FinalizeTransfer(who)
  BY <1>1, <1>5, TransfersKeepFunds DEF FundsInv
<1>6. CASE \/ \E sender \in Accounts : Administer(sender)
           \/ \E k : DeprecatePolicy(k) \/ DeprecateTemplate(k)
           \/ Tick
           \/ UNCHANGED vars
  <2>1. UNCHANGED <<requests, moneyVars>>
    BY <1>6 DEF Administer, DeprecatePolicy, DeprecateTemplate, Tick, vars, moneyVars
  <2>2. QED
    BY <1>1, <2>1, StillKeepsFunds DEF FundsInv
<1>7. QED
  BY <1>2, <1>3, <1>4, <1>5, <1>6 DEF Next, SurroundingsNext

(***************************************************************************)
(* No call loses value or pays it twice: after any payments, retries,      *)
(* refunds and withdrawals, by any number of accounts for any number of    *)
(* requests, the contract holds exactly the credits, the transfers not     *)
(* finalized and the fees of the requests that were not refunded.          *)
(***************************************************************************)
THEOREM FundsAreConserved == Spec => []FundsConserved
<1>1. FundsInv => FundsConserved
  BY DEF FundsInv
<1>2. QED
  BY <1>1, InitFundsInv, NextFundsInv, PTL DEF Spec
=============================================================================
