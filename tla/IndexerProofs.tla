--------------------------- MODULE IndexerProofs ----------------------------
(***************************************************************************)
(* Proofs about ChainIndexer for every value of the constants: any chain,  *)
(* any caps on a pass, any number of failures and restarts.                *)
(***************************************************************************)
EXTENDS ChainIndexer, SequenceTheorems, FiniteSetTheorems, TLAPS

-----------------------------------------------------------------------------
(* The inductive invariant: the chain. *)

Callbacks == {"NOT_REQUESTED", "DISPATCHED", "ACKNOWLEDGED", "FAILED_REPORTED"}
ChainRequest == [key : FactKeys, called : BOOLEAN, status : Terminal \cup {"DISPATCHED"},
                 callback : Callbacks, resolution : Nat]
ChainResolution == [request : Nat, key : FactKeys]
Pointers == [current : Nat, latest : Nat]

ChainTypes ==
    /\ requests \in Seq(ChainRequest)
    /\ resolutions \in Seq(ChainResolution)
    /\ facts \in [FactKeys -> Pointers]

\* A fact's newest resolution is its own and newer than every other of the fact.
NewestIsLatest ==
    /\ \A k \in FactKeys :
          LET f == facts[k]
          IN  /\ f.current <= f.latest /\ (f.current = 0 => f.latest = 0)
              /\ f.latest # 0 => f.latest \in DOMAIN resolutions /\ resolutions[f.latest].key = k
    /\ \A id \in DOMAIN resolutions : id <= facts[resolutions[id].key].latest

ChainInv == ChainTypes /\ NewestIsLatest

-----------------------------------------------------------------------------
(* The inductive invariant: where the pass and the checkpoints are. *)

Checkpoint == [requests : Nat, resolutions : Nat, events : Nat]
BusyPhases == {"resolutions", "evidence", "fact"}
FactPhases == {"facts"} \cup BusyPhases
Phases == {"idle", "counters", "events", "policies", "requests"} \cup FactPhases
Pass == [phase : Phases, from : Checkpoint, ends : Checkpoint, todo : SUBSET Nat,
         keys : SUBSET FactKeys, found : SUBSET Nat, key : FactKeys \cup {""}, view : Pointers]

\* A checkpoint is not beyond what there is.
Within(c) ==
    c.requests <= Len(requests) /\ c.resolutions <= Len(resolutions) /\ c.events <= Len(events)
Counted ==
    pass.phase \notin {"idle", "counters"} =>
        /\ Within(pass.ends)
        /\ pass.from.requests <= pass.ends.requests
        /\ pass.from.resolutions <= pass.ends.resolutions
        /\ pass.from.events <= pass.ends.events

ControlInv ==
    /\ events \in Seq(Policies)
    /\ sync \in Checkpoint /\ Within(sync)
    /\ pass \in Pass
    /\ pass.phase # "idle" => pass.from = sync
    /\ Counted

-----------------------------------------------------------------------------
(* The inductive invariant: requests. *)

RequestRow == [status : Terminal \cup {"DISPATCHED"}, callback : Callbacks]
RowsHaveNoGap == \E n \in Nat : requestRows \in [1 .. n -> RequestRow]

\* An ended request stays what its row says.
EndsAreFinal ==
    \A i \in DOMAIN requestRows :
        /\ i \in DOMAIN requests
        /\ requestRows[i].status \in Terminal => requests[i].status = requestRows[i].status

RequestsTaken ==
    /\ pass.phase = "requests" =>
          /\ pass.todo \subseteq NewRequests \cup DOMAIN requestRows
          /\ NewRequests \subseteq pass.todo \cup DOMAIN requestRows
    /\ pass.phase \in FactPhases => NewRequests \subseteq DOMAIN requestRows

RequestInv ==
    /\ RowsHaveNoGap /\ EndsAreFinal /\ RequestsTaken
    /\ 1 .. sync.requests \subseteq DOMAIN requestRows

-----------------------------------------------------------------------------
(* The inductive invariant: policies. *)

\* The row of p says no less than the first n events.
Shown(n, p) ==
    /\ StateAfter(n, p) # "absent" => policyRows[p] # "absent"
    /\ StateAfter(n, p) = "deprecated" => policyRows[p] = "deprecated"

DeprecationsAreReal ==
    \A p \in Policies :
        policyRows[p] = "deprecated" => StateAfter(Len(events), p) = "deprecated"

PoliciesTaken ==
    /\ pass.phase = "policies" => pass.todo \subseteq 1 .. Len(events)
    /\ pass.phase \in {"policies", "requests"} \cup FactPhases =>
          \A p \in Policies : \/ Shown(pass.ends.events, p)
                              \/ pass.phase = "policies" /\ \E n \in pass.todo : events[n] = p

PolicyInv ==
    /\ policyRows \in [Policies -> PolicyStates]
    /\ DeprecationsAreReal /\ PoliciesTaken
    /\ \A p \in Policies : Shown(sync.events, p)

-----------------------------------------------------------------------------
(* The inductive invariant: resolutions, evidence and facts. *)

\* Pointers v are an earlier state of w.
EarlierOf(v, w) ==
    /\ v.current <= w.current /\ v.latest <= w.latest
    /\ v.latest = w.latest => v = w

AnswerTypes ==
    /\ resolutionRows \in [DOMAIN resolutionRows -> [canonical : BOOLEAN, latest : BOOLEAN]]
    /\ DOMAIN resolutionRows \subseteq DOMAIN resolutions
    /\ evidenceRows \subseteq DOMAIN resolutionRows
    /\ factRows \in [FactKeys -> Pointers]

FactsAreEarlier == \A k \in FactKeys : EarlierOf(factRows[k], facts[k])

\* Every canonical flag is on a resolution no older than the row's.
FlagsAreCurrent == \A k \in FactKeys : \A id \in Found(k) : id >= factRows[k].current

\* Flags and row disagree only while there is a resolution after the checkpoint.
AheadOf(n, k) == \E id \in DOMAIN resolutions : resolutions[id].key = k /\ id > n
AgreeOrAhead == \A k \in FactKeys : RowsAgree(k) \/ AheadOf(sync.resolutions, k)

Busy(k) == pass.phase \in BusyPhases /\ k = pass.key
NewResolutions == NewIds(pass.from.resolutions, pass.ends.resolutions)

\* A new resolution waits for its fact, or for its turn, or is written.
Written(id) == id \in DOMAIN resolutionRows /\ id \in evidenceRows
Taken(id, k) ==
    \/ k \in pass.keys
    \/ Busy(k) /\ id \in pass.todo
    \/ Written(id) /\ (Busy(k) \/ factRows[k].latest >= id)

AnswersCovered ==
    \A id \in 1 .. sync.resolutions : Written(id) /\ factRows[resolutions[id].key].latest >= id

ResolutionsTaken ==
    pass.phase \in FactPhases =>
        /\ pass.found = NewResolutions
        /\ \A id \in NewResolutions : Taken(id, resolutions[id].key)
        /\ \A k \in FactKeys :
              \/ RowsAgree(k) \/ AheadOf(EndOf(pass.from.resolutions, pass.ends.resolutions), k)
              \/ k \in pass.keys \/ Busy(k)

\* The fact being written was read after the counters and after its row.
ViewIsCurrent ==
    pass.phase \in BusyPhases =>
        /\ pass.key \in FactKeys
        /\ EarlierOf(factRows[pass.key], pass.view) /\ EarlierOf(pass.view, facts[pass.key])
        /\ pass.view.latest \in DOMAIN resolutions
        /\ resolutions[pass.view.latest].key = pass.key
        /\ \A id \in NewResolutions : resolutions[id].key = pass.key => id <= pass.view.latest
        /\ pass.todo \subseteq {id \in NewResolutions : resolutions[id].key = pass.key}

\* What was written before the next write of that fact.
WritesAreInOrder ==
    /\ pass.phase = "evidence" =>
          \A id \in pass.todo : IsFirst(id) => id \in DOMAIN resolutionRows
    /\ pass.phase = "fact" =>
          /\ pass.todo = {}
          /\ \A id \in ResolutionIds(pass.key) : resolutionRows[id] = FlagsOf(id, pass.view)

AnswerInv ==
    /\ AnswerTypes /\ FactsAreEarlier /\ FlagsAreCurrent /\ AgreeOrAhead /\ AnswersCovered
    /\ ResolutionsTaken /\ ViewIsCurrent /\ WritesAreInOrder

IndexerInv == ChainInv /\ ControlInv /\ RequestInv /\ PolicyInv /\ AnswerInv

-----------------------------------------------------------------------------
(* The chain grows; it never takes back what could be read from it. *)

ChainGrows ==
    /\ \A i \in DOMAIN requests :
          /\ i \in DOMAIN requests' /\ requests'[i].key = requests[i].key
          /\ requests[i].status \in Terminal => requests'[i].status = requests[i].status
    /\ Len(requests) <= Len(requests')
    /\ Len(resolutions) <= Len(resolutions')
    /\ \A id \in DOMAIN resolutions :
          id \in DOMAIN resolutions' /\ resolutions'[id] = resolutions[id]
    /\ \A k \in FactKeys : EarlierOf(facts[k], facts'[k])

\* What Append and a replacement do, over a set of elements.
LEMMA Appended ==
    ASSUME NEW S, NEW s \in Seq(S), NEW e \in S
    PROVE  /\ Append(s, e) \in Seq(S)
           /\ Len(s) \in Nat /\ DOMAIN s = 1 .. Len(s)
           /\ Len(Append(s, e)) = Len(s) + 1
           /\ DOMAIN Append(s, e) = DOMAIN s \cup {Len(s) + 1}
           /\ \A i \in DOMAIN s : Append(s, e)[i] = s[i]
           /\ Append(s, e)[Len(s) + 1] = e
<1>1. Len(s) \in Nat /\ DOMAIN s = 1 .. Len(s)
  BY LenProperties
<1>2. /\ Append(s, e) \in Seq(S) /\ Len(Append(s, e)) = Len(s) + 1
      /\ DOMAIN Append(s, e) = 1 .. Len(s) + 1
      /\ \A i \in 1 .. Len(s) : Append(s, e)[i] = s[i]
      /\ Append(s, e)[Len(s) + 1] = e
  BY <1>1, AppendProperties, LenProperties
<1>3. QED
  BY <1>1, <1>2

LEMMA Replaced ==
    ASSUME NEW S, NEW s \in Seq(S), NEW i \in DOMAIN s, NEW e \in S
    PROVE  /\ [s EXCEPT ![i] = e] \in Seq(S)
           /\ Len([s EXCEPT ![i] = e]) = Len(s)
           /\ DOMAIN [s EXCEPT ![i] = e] = DOMAIN s
           /\ [s EXCEPT ![i] = e][i] = e
           /\ \A j \in DOMAIN s \ {i} : [s EXCEPT ![i] = e][j] = s[j]
  BY ExceptSeq, LenProperties

LEMMA EarlierIsReflexive ==
    ASSUME NEW v \in Pointers PROVE EarlierOf(v, v)
  BY DEF EarlierOf, Pointers

LEMMA EarlierIsTransitive ==
    ASSUME NEW u \in Pointers, NEW v \in Pointers, NEW w \in Pointers,
           EarlierOf(u, v), EarlierOf(v, w)
    PROVE  EarlierOf(u, w)
  BY DEF EarlierOf, Pointers

\* Steps that leave resolutions and facts alone.
LEMMA RequestsMove ==
    ASSUME ChainInv, UNCHANGED <<resolutions, facts>>, requests' \in Seq(ChainRequest),
           Len(requests) <= Len(requests'),
           \A i \in DOMAIN requests :
              /\ i \in DOMAIN requests' /\ requests'[i].key = requests[i].key
              /\ requests[i].status \in Terminal => requests'[i].status = requests[i].status
    PROVE  ChainInv' /\ ChainGrows
<1>1. ChainInv'
  BY DEF ChainInv, ChainTypes, NewestIsLatest
<1>2. \A k \in FactKeys : EarlierOf(facts[k], facts'[k])
  BY EarlierIsReflexive DEF ChainInv, ChainTypes
<1>3. Len(resolutions) <= Len(resolutions')
  BY LenProperties DEF ChainInv, ChainTypes
<1>4. QED
  BY <1>1, <1>2, <1>3 DEF ChainGrows

LEMMA ReplacedRequest ==
    ASSUME ChainInv, UNCHANGED <<resolutions, facts>>, NEW i \in DOMAIN requests,
           NEW e \in ChainRequest, requests' = [requests EXCEPT ![i] = e],
           e.key = requests[i].key,
           requests[i].status \in Terminal => e.status = requests[i].status
    PROVE  ChainInv' /\ ChainGrows
<1>1. requests \in Seq(ChainRequest) /\ Len(requests) \in Nat
  BY LenProperties DEF ChainInv, ChainTypes
<1>2. /\ requests' \in Seq(ChainRequest) /\ Len(requests') = Len(requests)
      /\ DOMAIN requests' = DOMAIN requests /\ requests'[i] = e
      /\ \A j \in DOMAIN requests \ {i} : requests'[j] = requests[j]
  BY <1>1, Replaced
<1>3. \A j \in DOMAIN requests :
          /\ j \in DOMAIN requests' /\ requests'[j].key = requests[j].key
          /\ requests[j].status \in Terminal => requests'[j].status = requests[j].status
  BY <1>2
<1>4. QED
  BY <1>1, <1>2, <1>3, RequestsMove

LEMMA CreateMoves ==
    ASSUME ChainInv, NEW k \in FactKeys, NEW called \in BOOLEAN, NEW reused \in BOOLEAN,
           Create(k, called, reused)
    PROVE  ChainInv' /\ ChainGrows
<1> DEFINE e == [key |-> k, called |-> called,
                 status |-> IF reused THEN "REUSED" ELSE "DISPATCHED",
                 callback |-> IF reused THEN CallbackDue(called) ELSE "NOT_REQUESTED",
                 resolution |-> IF reused THEN facts[k].current ELSE 0]
<1>1. requests \in Seq(ChainRequest) /\ facts[k].current \in Nat
  BY DEF ChainInv, ChainTypes, Pointers
<1>2. CallbackDue(called) \in Callbacks
  BY DEF CallbackDue, Callbacks
<1>3. e \in ChainRequest
  BY <1>1, <1>2 DEF ChainRequest, Terminal, Callbacks
<1>4. requests' = Append(requests, e) /\ UNCHANGED <<resolutions, facts>>
  BY DEF Create
<1> HIDE DEF e
<1>5. /\ requests' \in Seq(ChainRequest) /\ Len(requests) \in Nat
      /\ Len(requests') = Len(requests) + 1
      /\ \A i \in DOMAIN requests : i \in DOMAIN requests' /\ requests'[i] = requests[i]
  BY <1>1, <1>3, <1>4, Appended
<1>6. QED
  BY <1>4, <1>5, RequestsMove

LEMMA ResolveMoves ==
    ASSUME ChainInv, NEW i \in DOMAIN requests, NEW advances \in BOOLEAN, Resolve(i, advances)
    PROVE  ChainInv' /\ ChainGrows
<1>1. PICK id : id = Len(resolutions) + 1
  OBVIOUS
<1>2. PICK k : k = requests[i].key
  OBVIOUS
<1>3. PICK q : q = [requests[i] EXCEPT !.status = "RESOLVED",
                                       !.callback = CallbackDue(requests[i].called),
                                       !.resolution = id]
  OBVIOUS
<1>4. PICK f : f = [facts[k] EXCEPT !.latest = id,
                                    !.current = IF advances THEN id ELSE @]
  OBVIOUS
<1> DEFINE r == requests[i]
<1>5. /\ requests \in Seq(ChainRequest) /\ resolutions \in Seq(ChainResolution)
      /\ facts \in [FactKeys -> Pointers] /\ Len(resolutions) \in Nat
      /\ DOMAIN resolutions = 1 .. Len(resolutions)
  BY LenProperties DEF ChainInv, ChainTypes
<1>6. r \in ChainRequest /\ k \in FactKeys /\ facts[k] \in Pointers /\ i \in Nat
  <2>1. r \in ChainRequest /\ i \in Nat
    BY <1>5, LenProperties
  <2>2. r.key \in FactKeys
    BY <2>1 DEF ChainRequest
  <2>3. QED
    BY <1>2, <1>5, <2>1, <2>2
<1>7. /\ r.status = "DISPATCHED" /\ (facts[k].current = 0 => advances)
      /\ resolutions' = Append(resolutions, [request |-> i, key |-> k])
      /\ facts' = [facts EXCEPT ![k] = f]
      /\ requests' = [requests EXCEPT ![i] = q]
  BY <1>1, <1>2, <1>3, <1>4, <1>5, <1>6 DEF Resolve
<1>8. CallbackDue(r.called) \in Callbacks /\ id \in Nat
  BY <1>1, <1>5 DEF CallbackDue, Callbacks
<1>9. q \in ChainRequest /\ q.key = k
  BY <1>2, <1>3, <1>6, <1>8 DEF ChainRequest, Terminal
<1>10. f \in Pointers /\ f.latest = id /\ f.current = IF advances THEN id ELSE facts[k].current
  BY <1>4, <1>6, <1>8 DEF Pointers
<1>11. [request |-> i, key |-> k] \in ChainResolution
  BY <1>6 DEF ChainResolution
<1>12. /\ requests' \in Seq(ChainRequest) /\ Len(requests') = Len(requests)
       /\ DOMAIN requests' = DOMAIN requests /\ requests'[i] = q
       /\ \A j \in DOMAIN requests \ {i} : requests'[j] = requests[j]
  BY <1>5, <1>7, <1>9, Replaced
<1>13. /\ resolutions' \in Seq(ChainResolution) /\ Len(resolutions') = id
       /\ DOMAIN resolutions' = DOMAIN resolutions \cup {id}
       /\ \A j \in DOMAIN resolutions : resolutions'[j] = resolutions[j]
       /\ resolutions'[id] = [request |-> i, key |-> k]
  BY <1>1, <1>5, <1>7, <1>11, Appended
<1>14. /\ facts' \in [FactKeys -> Pointers] /\ facts'[k] = f
       /\ \A j \in FactKeys \ {k} : facts'[j] = facts[j]
  BY <1>5, <1>6, <1>7, <1>10
<1>15. NewestIsLatest
  BY DEF ChainInv
<1>16. facts[k].latest < id /\ facts[k].current < id
  BY <1>1, <1>5, <1>6, <1>15 DEF NewestIsLatest, Pointers
<1>17. NewestIsLatest'
  <2>1. ASSUME NEW j \in FactKeys
        PROVE  /\ facts'[j].current <= facts'[j].latest
               /\ facts'[j].current = 0 => facts'[j].latest = 0
               /\ facts'[j].latest # 0 => /\ facts'[j].latest \in DOMAIN resolutions'
                                          /\ resolutions'[facts'[j].latest].key = j
    <3>1. CASE j = k
      BY <1>1, <1>5, <1>6, <1>7, <1>10, <1>13, <1>14, <1>16, <3>1 DEF Pointers
    <3>2. CASE j # k
      BY <1>13, <1>14, <1>15, <3>2 DEF NewestIsLatest
    <3>3. QED
      BY <3>1, <3>2
  <2>2. ASSUME NEW j \in DOMAIN resolutions' PROVE j <= facts'[resolutions'[j].key].latest
    <3>1. CASE j = id
      BY <1>8, <1>10, <1>13, <1>14, <3>1
    <3>2. CASE j # id
      <4>1. j \in DOMAIN resolutions /\ resolutions'[j] = resolutions[j] /\ j < id
        BY <1>1, <1>5, <1>13, <3>2
      <4>2. resolutions[j].key \in FactKeys
        <5>1. resolutions[j] \in ChainResolution
          BY <1>5, <4>1
        <5>2. QED
          BY <5>1 DEF ChainResolution
      <4>3. CASE resolutions[j].key = k
        BY <1>5, <1>8, <1>10, <1>14, <4>1, <4>3
      <4>4. CASE resolutions[j].key # k
        BY <1>14, <1>15, <4>1, <4>2, <4>4 DEF NewestIsLatest
      <4>5. QED
        BY <4>3, <4>4
    <3>3. QED
      BY <3>1, <3>2
  <2>3. QED
    BY <2>1, <2>2 DEF NewestIsLatest
<1>18. EarlierOf(facts[k], f)
  BY <1>6, <1>8, <1>10, <1>16 DEF EarlierOf, Pointers
<1>19. \A j \in FactKeys : EarlierOf(facts[j], facts'[j])
  BY <1>5, <1>14, <1>18, EarlierIsReflexive
<1>20. /\ Len(requests) <= Len(requests') /\ Len(resolutions) <= Len(resolutions')
       /\ \A j \in DOMAIN requests :
              /\ j \in DOMAIN requests' /\ requests'[j].key = requests[j].key
              /\ requests[j].status \in Terminal => requests'[j].status = requests[j].status
  <2>1. Len(requests) \in Nat
    BY <1>5, LenProperties
  <2>2. QED
    BY <1>1, <1>2, <1>5, <1>7, <1>9, <1>12, <1>13, <2>1 DEF Terminal
<1>21. ChainTypes'
  BY <1>12, <1>13, <1>14 DEF ChainTypes
<1>22. QED
  BY <1>13, <1>17, <1>19, <1>20, <1>21 DEF ChainGrows, ChainInv

LEMMA ChainMoves ==
    ASSUME ChainInv, ChainNext
    PROVE  ChainInv' /\ ChainGrows
<1>1. \A i \in DOMAIN requests : requests[i] \in ChainRequest
  BY LenProperties DEF ChainInv, ChainTypes
<1>2. ASSUME NEW i \in DOMAIN requests, NEW succeeded \in BOOLEAN, Report(i, succeeded)
      PROVE  ChainInv' /\ ChainGrows
  <2> DEFINE e == [requests[i] EXCEPT
                      !.callback = IF succeeded THEN "ACKNOWLEDGED" ELSE "FAILED_REPORTED"]
  <2>1. e \in ChainRequest /\ e.key = requests[i].key /\ e.status = requests[i].status
    BY <1>1 DEF ChainRequest, Callbacks
  <2>2. requests' = [requests EXCEPT ![i] = e] /\ UNCHANGED <<resolutions, facts>>
    BY <1>2 DEF Report
  <2> HIDE DEF e
  <2>3. QED
    BY <2>1, <2>2, ReplacedRequest
<1>3. ASSUME NEW i \in DOMAIN requests, Cancel(i)
      PROVE  ChainInv' /\ ChainGrows
  <2> DEFINE e == [requests[i] EXCEPT !.status = "CANCELLED"]
  <2>1. e \in ChainRequest /\ e.key = requests[i].key /\ requests[i].status \notin Terminal
    BY <1>1, <1>3 DEF ChainRequest, Terminal, Cancel
  <2>2. requests' = [requests EXCEPT ![i] = e] /\ UNCHANGED <<resolutions, facts>>
    BY <1>3 DEF Cancel
  <2> HIDE DEF e
  <2>3. QED
    BY <2>1, <2>2, ReplacedRequest
<1>4. ASSUME NEW i \in DOMAIN requests, CallAgain(i)
      PROVE  ChainInv' /\ ChainGrows
  <2> DEFINE e == [requests[i] EXCEPT !.callback = "DISPATCHED"]
  <2>1. e \in ChainRequest /\ e.key = requests[i].key /\ e.status = requests[i].status
    BY <1>1 DEF ChainRequest, Callbacks
  <2>2. requests' = [requests EXCEPT ![i] = e] /\ UNCHANGED <<resolutions, facts>>
    BY <1>4 DEF CallAgain
  <2> HIDE DEF e
  <2>3. QED
    BY <2>1, <2>2, ReplacedRequest
<1>5. QED
  BY <1>2, <1>3, <1>4, CreateMoves, ResolveMoves DEF ChainNext

-----------------------------------------------------------------------------
(* The model's operators. *)

\* Within a pass's cap the last id taken is between the checkpoint and the end.
LEMMA EndOfBounds ==
    ASSUME NEW m \in Nat, NEW n \in Nat, m <= n
    PROVE  EndOf(m, n) \in Nat /\ m <= EndOf(m, n) /\ EndOf(m, n) <= n
  BY IndexerAssumption DEF EndOf, Lesser

LEMMA NewIdsBounds ==
    ASSUME NEW m \in Nat, NEW n \in Nat, m <= n
    PROVE  /\ NewIds(m, n) = m + 1 .. EndOf(m, n)
           /\ NewIds(m, n) \subseteq 1 .. n
           /\ 1 .. EndOf(m, n) = 1 .. m \cup NewIds(m, n)
<1>1. PICK e : e = EndOf(m, n)
  OBVIOUS
<1>2. e \in Nat /\ m <= e /\ e <= n
  BY <1>1, EndOfBounds
<1>3. NewIds(m, n) = m + 1 .. e
  BY <1>1 DEF NewIds
<1>4. QED
  BY <1>1, <1>2, <1>3

\* Flags are what they say.
LEMMA FlagsShow ==
    ASSUME NEW id, NEW v
    PROVE  /\ FlagsOf(id, v) \in [canonical : BOOLEAN, latest : BOOLEAN]
           /\ FlagsOf(id, v).canonical <=> id = v.current
           /\ FlagsOf(id, v).latest <=> id = v.latest
  BY DEF FlagsOf

\* How often p is among the first n entries of s.
Times(s, n, p) == Cardinality({e \in 1 .. n : s[e] = p})

LEMMA TimesGrow ==
    ASSUME NEW s, NEW p, NEW m \in Nat, NEW n \in Nat, m <= n
    PROVE  Times(s, m, p) \in Nat /\ Times(s, n, p) \in Nat /\ Times(s, m, p) <= Times(s, n, p)
<1> DEFINE A == {e \in 1 .. m : s[e] = p}
           B == {e \in 1 .. n : s[e] = p}
<1>1. IsFiniteSet(1 .. n)
  BY FS_Interval
<1>2. B \subseteq 1 .. n /\ A \subseteq B
  OBVIOUS
<1>3. IsFiniteSet(B)
  BY <1>1, <1>2, FS_Subset
<1>4. IsFiniteSet(A) /\ Cardinality(A) <= Cardinality(B)
  BY <1>2, <1>3, FS_Subset
<1>5. QED
  BY <1>3, <1>4, FS_CardinalityType DEF Times

LEMMA TimesAtLeastOne ==
    ASSUME NEW s, NEW p, NEW n \in Nat, NEW e \in 1 .. n, s[e] = p
    PROVE  Times(s, n, p) # 0
<1> DEFINE B == {d \in 1 .. n : s[d] = p}
<1>1. IsFiniteSet(1 .. n)
  BY FS_Interval
<1>2. IsFiniteSet(B)
  BY <1>1, FS_Subset
<1>3. e \in B
  OBVIOUS
<1>4. QED
  BY <1>2, <1>3, FS_EmptySet DEF Times

\* Entries after the first m that are not p do not count.
LEMMA TimesStay ==
    ASSUME NEW s, NEW p, NEW m \in Nat, NEW n \in Nat, m <= n,
           \A e \in m + 1 .. n : s[e] # p
    PROVE  Times(s, n, p) = Times(s, m, p)
<1>1. {e \in 1 .. n : s[e] = p} = {e \in 1 .. m : s[e] = p}
  OBVIOUS
<1>2. QED
  BY <1>1 DEF Times

\* What the chain said of a policy it says of a longer history too.
Say(times) == CASE times = 0 -> "absent" [] times = 1 -> "active" [] OTHER -> "deprecated"
LEMMA SayGrows ==
    ASSUME NEW a \in Nat, NEW b \in Nat, a <= b
    PROVE  /\ Say(a) \in PolicyStates
           /\ Say(a) # "absent" => Say(b) # "absent"
           /\ Say(a) = "deprecated" => Say(b) = "deprecated"
           /\ a # 0 => Say(a) # "absent"
  BY DEF Say, PolicyStates

LEMMA StatesGrow ==
    ASSUME NEW p, NEW m \in Nat, NEW n \in Nat, m <= n
    PROVE  /\ StateAfter(m, p) \in PolicyStates
           /\ StateAfter(m, p) # "absent" => StateAfter(n, p) # "absent"
           /\ StateAfter(m, p) = "deprecated" => StateAfter(n, p) = "deprecated"
<1>1. StateAfter(m, p) = Say(Times(events, m, p)) /\ StateAfter(n, p) = Say(Times(events, n, p))
  BY DEF StateAfter, Say, Times
<1>2. QED
  BY <1>1, SayGrows, TimesGrow

LEMMA NewStatesGrow ==
    ASSUME events \in Seq(Policies), NEW p, NEW q \in Policies, NEW n \in Nat,
           n <= Len(events), events' = Append(events, q)
    PROVE  /\ StateAfter(n, p)' = StateAfter(n, p)
           /\ StateAfter(Len(events), p) = "deprecated"
                 => StateAfter(Len(events), p)' = "deprecated"
<1>1. /\ Len(events) \in Nat /\ Len(events') = Len(events) + 1
      /\ \A e \in 1 .. Len(events) : events'[e] = events[e]
  BY Appended
<1>2. ASSUME NEW m \in Nat, m <= Len(events) PROVE Times(events', m, p) = Times(events, m, p)
  <2>1. {e \in 1 .. m : events'[e] = p} = {e \in 1 .. m : events[e] = p}
    BY <1>1, <1>2
  <2>2. QED
    BY <2>1 DEF Times
<1>3. \A m \in Nat : /\ StateAfter(m, p) = Say(Times(events, m, p))
                     /\ StateAfter(m, p)' = Say(Times(events', m, p))
  BY DEF StateAfter, Say, Times
<1>4. StateAfter(Len(events), p)' = Say(Times(events', Len(events) + 1, p))
  BY <1>1 DEF StateAfter, Say, Times
<1>5. Times(events, Len(events), p) = Times(events', Len(events), p)
  BY <1>1, <1>2
<1>6. Times(events', Len(events), p) \in Nat /\ Times(events', Len(events) + 1, p) \in Nat
      /\ Times(events', Len(events), p) <= Times(events', Len(events) + 1, p)
  BY <1>1, TimesGrow
<1>7. QED
  BY <1>1, <1>2, <1>3, <1>4, <1>5, <1>6, SayGrows

-----------------------------------------------------------------------------
(* Where the pass and the checkpoints are. *)

LEMMA InitSatisfies == Init => IndexerInv
<1> SUFFICES ASSUME Init PROVE IndexerInv
  OBVIOUS
<1>1. /\ requests = <<>> /\ resolutions = <<>> /\ events = <<>>
      /\ requestRows = <<>> /\ resolutionRows = <<>> /\ evidenceRows = {}
      /\ facts = [k \in FactKeys |-> NoFact] /\ factRows = [k \in FactKeys |-> NoFact]
      /\ policyRows = [p \in Policies |-> "absent"]
      /\ sync = NoCheckpoint /\ pass = Idle
  BY DEF Init, ChainInit
<1>2. \A S : <<>> \in Seq(S) /\ Len(<<>>) = 0 /\ DOMAIN <<>> = {}
  BY EmptySeq
<1>3. Len(requests) = 0 /\ Len(resolutions) = 0 /\ Len(events) = 0
  BY <1>1, <1>2
<1>4. DOMAIN requests = {} /\ DOMAIN resolutions = {}
      /\ DOMAIN requestRows = {} /\ DOMAIN resolutionRows = {}
  BY <1>1, <1>2
<1>5. NoFact \in Pointers /\ NoFact.current = 0 /\ NoFact.latest = 0
  BY DEF NoFact, Pointers
<1>6. \A k \in FactKeys : facts[k] = NoFact /\ factRows[k] = NoFact
  BY <1>1
<1>7. ChainInv
  <2>1. requests \in Seq(ChainRequest) /\ resolutions \in Seq(ChainResolution)
    BY <1>1, <1>2
  <2>2. facts \in [FactKeys -> Pointers]
    BY <1>1, <1>5
  <2>3. NewestIsLatest
    BY <1>4, <1>5, <1>6 DEF NewestIsLatest
  <2>4. QED
    BY <2>1, <2>2, <2>3 DEF ChainInv, ChainTypes
<1>8. ControlInv
  <2>1. sync = [requests |-> 0, resolutions |-> 0, events |-> 0]
    BY <1>1 DEF NoCheckpoint
  <2>2. sync \in Checkpoint /\ Within(sync)
    BY <1>3, <2>1 DEF Checkpoint, Within
  <2>3. pass \in Pass /\ pass.phase = "idle"
    BY <1>1, <1>5, <2>1, <2>2 DEF Idle, Pass, Phases, NoCheckpoint
  <2>4. events \in Seq(Policies)
    BY <1>1, <1>2
  <2>5. QED
    BY <2>2, <2>3, <2>4 DEF ControlInv, Counted
<1>9. pass.phase = "idle" /\ sync.requests = 0 /\ sync.resolutions = 0 /\ sync.events = 0
  BY <1>1 DEF Idle, NoCheckpoint
<1>10. pass.phase \notin FactPhases /\ pass.phase \notin BusyPhases
  BY <1>9 DEF FactPhases, BusyPhases
<1>11. RequestInv
  <2>1. RowsHaveNoGap
    <3>1. DOMAIN requestRows = 1 .. 0 /\ requestRows = [i \in 1 .. 0 |-> requestRows[i]]
      BY <1>1, <1>4
    <3>2. requestRows \in [1 .. 0 -> RequestRow]
      BY <3>1
    <3>3. QED
      BY <3>2 DEF RowsHaveNoGap
  <2>2. QED
    BY <1>4, <1>9, <1>10, <2>1 DEF RequestInv, EndsAreFinal, RequestsTaken
<1>12. PolicyInv
  <2>1. ASSUME NEW p \in Policies PROVE StateAfter(0, p) = "absent"
    <3>1. {e \in 1 .. 0 : events[e] = p} = {}
      OBVIOUS
    <3>2. Cardinality({e \in 1 .. 0 : events[e] = p}) = 0
      BY <3>1, FS_EmptySet
    <3>3. QED
      BY <3>2 DEF StateAfter
  <2>2. policyRows \in [Policies -> PolicyStates] /\ \A p \in Policies : policyRows[p] = "absent"
    BY <1>1 DEF PolicyStates
  <2>3. QED
    BY <1>9, <1>10, <2>1, <2>2 DEF PolicyInv, DeprecationsAreReal, PoliciesTaken, Shown
<1>13. AnswerInv
  <2>1. AnswerTypes
    <3>1. resolutionRows = [id \in {} |-> resolutionRows[id]]
      BY <1>1, <1>4
    <3>2. resolutionRows \in [DOMAIN resolutionRows -> [canonical : BOOLEAN, latest : BOOLEAN]]
      BY <1>4, <3>1
    <3>3. factRows \in [FactKeys -> Pointers]
      BY <1>1, <1>5
    <3>4. QED
      BY <1>1, <1>4, <3>2, <3>3 DEF AnswerTypes
  <2>2. \A k \in FactKeys : ResolutionIds(k) = {}
    BY <1>4 DEF ResolutionIds
  <2>3. FactsAreEarlier
    BY <1>5, <1>6, EarlierIsReflexive DEF FactsAreEarlier
  <2>4. FlagsAreCurrent /\ AgreeOrAhead
    BY <2>2 DEF FlagsAreCurrent, Found, AgreeOrAhead, RowsAgree
  <2>5. AnswersCovered /\ ResolutionsTaken /\ ViewIsCurrent /\ WritesAreInOrder
    BY <1>9, <1>10 DEF AnswersCovered, ResolutionsTaken, ViewIsCurrent, WritesAreInOrder
  <2>6. QED
    BY <2>1, <2>3, <2>4, <2>5 DEF AnswerInv
<1>14. QED
  BY <1>7, <1>8, <1>11, <1>12, <1>13 DEF IndexerInv

\* Steps of the chain and the policy registry; the pass and the database wait.
Outside == RegistryMoves \/ \E p \in Policies : Announce(p)

LEMMA OutsideMoves ==
    ASSUME ChainInv, events \in Seq(Policies), Outside
    PROVE  /\ ChainInv' /\ ChainGrows
           /\ events' \in Seq(Policies) /\ Len(events) <= Len(events')
           /\ \/ UNCHANGED events
              \/ \E p \in Policies : events' = Append(events, p)
           /\ UNCHANGED <<databaseVars, sync, pass, memory>>
<1>1. CASE RegistryMoves
  <2>1. ChainNext /\ UNCHANGED events /\ UNCHANGED <<databaseVars, sync, pass, memory>>
    BY <1>1 DEF RegistryMoves
  <2>2. Len(events) \in Nat
    BY LenProperties
  <2>3. QED
    BY <2>1, <2>2, ChainMoves
<1>2. ASSUME NEW p \in Policies, Announce(p)
      PROVE  /\ ChainInv' /\ ChainGrows
             /\ events' \in Seq(Policies) /\ Len(events) <= Len(events')
             /\ events' = Append(events, p)
             /\ UNCHANGED <<databaseVars, sync, pass, memory>>
  <2>1. /\ UNCHANGED <<requests, resolutions, facts>> /\ events' = Append(events, p)
        /\ UNCHANGED <<databaseVars, sync, pass, memory>>
    BY <1>2 DEF Announce, chainVars
  <2>2. Len(requests) \in Nat
    BY LenProperties DEF ChainInv, ChainTypes
  <2>3. ChainInv' /\ ChainGrows
    BY <2>1, <2>2, RequestsMove DEF ChainInv, ChainTypes
  <2>4. QED
    BY <2>1, <2>3, Appended
<1>3. QED
  BY <1>1, <1>2 DEF Outside

\* No step of the indexer moves the chain.
LEMMA ChainStays ==
    ASSUME ChainInv, UNCHANGED <<requests, resolutions, facts>>
    PROVE  ChainInv'
  BY DEF ChainInv, ChainTypes, NewestIsLatest

\* What the pass takes of requests and resolutions exists.
LEMMA IdsExist ==
    ASSUME ChainInv, ControlInv, pass.phase \notin {"idle", "counters"}
    PROVE  /\ NewRequests \subseteq DOMAIN requests /\ NewRequests \subseteq Nat
           /\ 1 .. EndOf(pass.from.requests, pass.ends.requests)
                 = 1 .. sync.requests \cup NewRequests
           /\ NewRequests = sync.requests + 1 .. EndOf(sync.requests, pass.ends.requests)
           /\ EndOf(sync.requests, pass.ends.requests) \in Nat
           /\ NewResolutions \subseteq DOMAIN resolutions /\ NewResolutions \subseteq Nat
           /\ 1 .. EndOf(pass.from.resolutions, pass.ends.resolutions)
                 = 1 .. sync.resolutions \cup NewResolutions
           /\ NewResolutions
                 = sync.resolutions + 1 .. EndOf(sync.resolutions, pass.ends.resolutions)
           /\ EndOf(sync.resolutions, pass.ends.resolutions) \in Nat
<1>1. /\ Len(requests) \in Nat /\ DOMAIN requests = 1 .. Len(requests)
      /\ Len(resolutions) \in Nat /\ DOMAIN resolutions = 1 .. Len(resolutions)
  BY LenProperties DEF ChainInv, ChainTypes
<1>2. pass.from = sync /\ sync \in Checkpoint /\ pass.ends \in Checkpoint
  BY DEF ControlInv, Pass
<1>3. /\ sync.requests \in Nat /\ pass.ends.requests \in Nat
      /\ sync.requests <= pass.ends.requests /\ pass.ends.requests <= Len(requests)
      /\ sync.resolutions \in Nat /\ pass.ends.resolutions \in Nat
      /\ sync.resolutions <= pass.ends.resolutions
      /\ pass.ends.resolutions <= Len(resolutions)
  BY <1>2 DEF ControlInv, Counted, Within, Checkpoint
<1>4. /\ NewRequests = NewIds(sync.requests, pass.ends.requests)
      /\ NewResolutions = NewIds(sync.resolutions, pass.ends.resolutions)
  BY <1>2 DEF NewRequests, NewResolutions
<1>5. /\ NewRequests \subseteq 1 .. pass.ends.requests
      /\ NewResolutions \subseteq 1 .. pass.ends.resolutions
  BY <1>3, <1>4, NewIdsBounds
<1>6. /\ 1 .. pass.ends.requests \subseteq 1 .. Len(requests)
      /\ 1 .. pass.ends.resolutions \subseteq 1 .. Len(resolutions)
  BY <1>1, <1>3
<1>7. /\ NewRequests = sync.requests + 1 .. EndOf(sync.requests, pass.ends.requests)
      /\ 1 .. EndOf(sync.requests, pass.ends.requests) = 1 .. sync.requests \cup NewRequests
  BY <1>3, <1>4, NewIdsBounds
<1>8. /\ NewResolutions = sync.resolutions + 1 .. EndOf(sync.resolutions, pass.ends.resolutions)
      /\ 1 .. EndOf(sync.resolutions, pass.ends.resolutions)
            = 1 .. sync.resolutions \cup NewResolutions
  BY <1>3, <1>4, NewIdsBounds
<1>9. NewRequests \subseteq DOMAIN requests /\ NewResolutions \subseteq DOMAIN resolutions
  BY <1>1, <1>5, <1>6
<1>10. NewRequests \subseteq Nat /\ NewResolutions \subseteq Nat
  BY <1>5
<1>11. /\ EndOf(sync.requests, pass.ends.requests) \in Nat
       /\ EndOf(sync.resolutions, pass.ends.resolutions) \in Nat
  BY <1>3, EndOfBounds
<1>12. QED
  BY <1>2, <1>7, <1>8, <1>9, <1>10, <1>11

\* Steps that leave the checkpoints and the pass's own alone.
LEMMA ControlKept ==
    ASSUME ControlInv, UNCHANGED <<requests, resolutions, events, sync>>,
           pass' \in Pass, pass'.from = pass.from, pass'.ends = pass.ends,
           pass.phase \notin {"idle", "counters"}
    PROVE  ControlInv'
  BY DEF ControlInv, Within, Counted

LEMMA ControlStays ==
    ASSUME ChainInv, ControlInv, RequestInv, [Next]_vars
    PROVE  ControlInv'
<1> USE DEF BusyPhases, FactPhases, Phases
<1>1. /\ pass \in Pass /\ sync \in Checkpoint /\ pass.from \in Checkpoint
      /\ pass.ends \in Checkpoint /\ pass.view \in Pointers /\ pass.todo \in SUBSET Nat
      /\ pass.keys \in SUBSET FactKeys /\ pass.found \in SUBSET Nat
  BY DEF ControlInv, Pass
<1>2. /\ Len(requests) \in Nat /\ Len(resolutions) \in Nat /\ Len(events) \in Nat
      /\ \A i \in DOMAIN requests : requests[i].key \in FactKeys
      /\ \A id \in DOMAIN resolutions : resolutions[id].key \in FactKeys
      /\ DOMAIN resolutions = 1 .. Len(resolutions)
      /\ DOMAIN requests = 1 .. Len(requests)
  <2>1. requests \in Seq(ChainRequest) /\ resolutions \in Seq(ChainResolution)
    BY DEF ChainInv, ChainTypes
  <2>2. /\ \A i \in DOMAIN requests : requests[i] \in ChainRequest
        /\ \A id \in DOMAIN resolutions : resolutions[id] \in ChainResolution
    BY <2>1, LenProperties
  <2>3. QED
    BY <2>1, <2>2, LenProperties DEF ControlInv, ChainRequest, ChainResolution
<1>3. NoFact \in Pointers /\ NoCheckpoint \in Checkpoint /\ Idle \in Pass /\ Idle.phase = "idle"
  BY DEF NoFact, NoCheckpoint, Idle, Pointers, Checkpoint, Pass
<1>4. ASSUME pass' = Idle, sync' \in Checkpoint, Within(sync'),
             UNCHANGED <<requests, resolutions, events>>
      PROVE  ControlInv'
  BY <1>3, <1>4 DEF ControlInv, Within, Counted
<1>5. CASE Outside
  <2>1. /\ ChainGrows /\ events' \in Seq(Policies) /\ Len(events) <= Len(events')
        /\ UNCHANGED <<sync, pass>>
    BY <1>5, OutsideMoves DEF ControlInv
  <2>2. /\ Len(requests') \in Nat /\ Len(resolutions') \in Nat /\ Len(events') \in Nat
    BY <1>5, OutsideMoves, LenProperties DEF ControlInv, ChainInv, ChainTypes
  <2>3. Within(sync)'
    BY <1>1, <1>2, <2>1, <2>2 DEF ControlInv, Within, ChainGrows, Checkpoint
  <2>4. Counted'
    BY <1>1, <1>2, <2>1, <2>2 DEF ControlInv, Within, Counted, ChainGrows, Checkpoint
  <2>5. QED
    BY <2>1, <2>3, <2>4 DEF ControlInv
<1>6. CASE Begin
  <2>1. /\ UNCHANGED <<requests, resolutions, events, sync>>
        /\ pass' = [Idle EXCEPT !.phase = "counters", !.from = sync]
    BY <1>6 DEF Begin, chainVars
  <2>2. pass' \in Pass /\ pass'.from = sync /\ pass'.phase = "counters"
    BY <1>1, <1>3, <2>1 DEF Pass
  <2>3. QED
    BY <2>1, <2>2 DEF ControlInv, Within, Counted
<1>7. CASE ReadCounters
  <2> DEFINE ends == [requests |-> Len(requests), resolutions |-> Len(resolutions),
                      events |-> Len(events)]
  <2>1. /\ UNCHANGED <<requests, resolutions, events, sync>>
        /\ pass' = [pass EXCEPT !.phase = "events", !.ends = ends]
        /\ pass.phase = "counters"
    BY <1>7 DEF ReadCounters, chainVars
  <2>2. ends \in Checkpoint /\ Within(ends)
    BY <1>2 DEF Checkpoint, Within
  <2>3. sync.requests <= ends.requests /\ sync.resolutions <= ends.resolutions
        /\ sync.events <= ends.events
    BY DEF ControlInv, Within
  <2> HIDE DEF ends
  <2>4. /\ pass' \in Pass /\ pass'.from = pass.from /\ pass'.phase = "events"
        /\ pass'.ends = ends
    BY <1>1, <2>1, <2>2 DEF Pass
  <2>5. QED
    BY <2>1, <2>2, <2>3, <2>4 DEF ControlInv, Within, Counted
<1>8. CASE ReadEvents
  <2>1. pass.phase = "events" /\ UNCHANGED <<requests, resolutions, events, sync>>
    BY <1>8 DEF ReadEvents, chainVars
  <2>2. /\ pass.from.events <= pass.ends.events /\ pass.ends.events <= Len(events)
        /\ pass.from.events \in Nat /\ pass.ends.events \in Nat
    BY <1>1, <2>1 DEF ControlInv, Counted, Within, Checkpoint
  <2>3. PICK end \in IF pass.ends.events > pass.from.events
                     THEN pass.ends.events .. Len(events) ELSE {pass.from.events} :
           pass' = [pass EXCEPT !.phase = "policies",
                                !.ends.events = EndOf(pass.from.events, end),
                                !.todo = pass.from.events + 1 .. EndOf(pass.from.events, end)]
    BY <1>8 DEF ReadEvents
  <2>4. end \in Nat /\ pass.from.events <= end /\ end <= Len(events)
    BY <1>2, <2>2, <2>3
  <2>5. PICK upto : upto = EndOf(pass.from.events, end)
    OBVIOUS
  <2>6. upto \in Nat /\ pass.from.events <= upto /\ upto <= Len(events)
    <3>1. upto \in Nat /\ pass.from.events <= upto /\ upto <= end
      BY <2>2, <2>4, <2>5, EndOfBounds
    <3>2. QED
      BY <1>2, <2>4, <3>1
  <2>7. PICK ends : ends = [pass.ends EXCEPT !.events = upto]
    OBVIOUS
  <2>8. /\ ends \in Checkpoint /\ ends.events = upto
        /\ ends.requests = pass.ends.requests /\ ends.resolutions = pass.ends.resolutions
    BY <1>1, <2>6, <2>7 DEF Checkpoint
  <2>9. pass' = [pass EXCEPT !.phase = "policies", !.ends = ends,
                             !.todo = pass.from.events + 1 .. upto]
    BY <1>1, <2>3, <2>5, <2>7 DEF Pass
  <2>10. pass.from.events + 1 .. upto \subseteq Nat
    BY <2>2, <2>6
  <2>11. /\ pass' \in Pass /\ pass'.from = pass.from /\ pass'.phase = "policies"
         /\ pass'.ends = ends
    BY <1>1, <2>8, <2>9, <2>10 DEF Pass
  <2>12. Counted'
    <3>1. /\ pass.from.requests <= ends.requests /\ ends.requests <= Len(requests)
          /\ pass.from.resolutions <= ends.resolutions /\ ends.resolutions <= Len(resolutions)
          /\ pass.from.events <= ends.events /\ ends.events <= Len(events)
      BY <2>1, <2>6, <2>8 DEF ControlInv, Counted, Within
    <3>2. QED
      BY <2>1, <2>11, <3>1 DEF Within, Counted
  <2>13. QED
    BY <2>1, <2>11, <2>12 DEF ControlInv, Within

<1>9. CASE SyncPolicy
  <2>1. /\ UNCHANGED <<requests, resolutions, events, sync>> /\ pass.phase = "policies"
        /\ \E n \in pass.todo : pass' = [pass EXCEPT !.todo = @ \ {n}]
    BY <1>9 DEF SyncPolicy, chainVars
  <2>2. pass' \in Pass /\ pass'.from = pass.from /\ pass'.ends = pass.ends
    BY <1>1, <2>1 DEF Pass
  <2>3. QED
    BY <2>1, <2>2, ControlKept
<1>10. CASE ListRequests
  <2>1. /\ UNCHANGED <<requests, resolutions, events, sync>> /\ pass.phase = "policies"
        /\ pass' = [pass EXCEPT !.phase = "requests",
                                !.todo = NewRequests \cup ListMutableRequestIds]
    BY <1>10 DEF ListRequests, chainVars
  <2>2. NewRequests \cup ListMutableRequestIds \in SUBSET Nat
    <3>1. ListMutableRequestIds \subseteq DOMAIN requestRows
      BY DEF ListMutableRequestIds, Newest
    <3>2. DOMAIN requestRows \subseteq DOMAIN requests /\ DOMAIN requests \subseteq Nat
      BY <1>2 DEF RequestInv, EndsAreFinal
    <3>3. QED
      BY <2>1, <3>1, <3>2, IdsExist
  <2>3. pass' \in Pass /\ pass'.from = pass.from /\ pass'.ends = pass.ends
    BY <1>1, <2>1, <2>2 DEF Pass
  <2>4. QED
    BY <2>1, <2>3, ControlKept
<1>11. CASE SyncRequest
  <2>1. /\ UNCHANGED <<requests, resolutions, events, sync>> /\ pass.phase = "requests"
        /\ \E i \in pass.todo : pass' = [pass EXCEPT !.todo = @ \ {i},
                                                     !.keys = @ \cup {requests[i].key}]
    BY <1>11 DEF SyncRequest, chainVars
  <2>2. \A i \in pass.todo : requests[i].key \in FactKeys
    <3>1. pass.todo \subseteq NewRequests \cup DOMAIN requestRows
      BY <2>1 DEF RequestInv, RequestsTaken
    <3>2. DOMAIN requestRows \subseteq DOMAIN requests
      BY DEF RequestInv, EndsAreFinal
    <3>3. NewRequests \subseteq DOMAIN requests
      BY <2>1, IdsExist
    <3>4. QED
      BY <1>2, <3>1, <3>2, <3>3
  <2>3. \E todo \in SUBSET Nat, keys \in SUBSET FactKeys :
           pass' = [pass EXCEPT !.todo = todo, !.keys = keys]
    <3>1. PICK i \in pass.todo : pass' = [pass EXCEPT !.todo = pass.todo \ {i},
                                                    !.keys = pass.keys \cup {requests[i].key}]
      BY <2>1
    <3>2. pass.todo \ {i} \in SUBSET Nat /\ pass.keys \cup {requests[i].key} \in SUBSET FactKeys
      BY <1>1, <2>2
    <3>3. QED
      BY <3>1, <3>2
  <2>4. pass' \in Pass /\ pass'.from = pass.from /\ pass'.ends = pass.ends
    BY <1>1, <2>3 DEF Pass
  <2>5. QED
    BY <2>1, <2>4, ControlKept
<1>12. CASE SyncResolutions
  <2>1. /\ UNCHANGED <<requests, resolutions, events, sync>> /\ pass.phase = "requests"
        /\ pass' = [pass EXCEPT !.phase = "facts", !.found = NewResolutions,
                        !.keys = @ \cup {resolutions[id].key : id \in NewResolutions}]
    BY <1>12 DEF SyncResolutions, NewResolutions, chainVars
  <2>2. /\ NewResolutions \in SUBSET Nat
        /\ {resolutions[id].key : id \in NewResolutions} \in SUBSET FactKeys
    BY <1>2, <2>1, IdsExist
  <2>3. pass' \in Pass /\ pass'.from = pass.from /\ pass'.ends = pass.ends
    BY <1>1, <2>1, <2>2 DEF Pass
  <2>4. QED
    BY <2>1, <2>3, ControlKept
<1>13. CASE ReadFact
  <2>1. UNCHANGED <<requests, resolutions, events, sync>> /\ pass.phase = "facts"
    BY <1>13 DEF ReadFact, chainVars
  <2>2. PICK k \in pass.keys :
          pass' = IF facts[k] = NoFact
                  THEN [pass EXCEPT !.keys = @ \ {k}]
                  ELSE [pass EXCEPT !.phase = "resolutions", !.keys = @ \ {k}, !.key = k,
                                    !.view = LatestOf(facts[k]),
                                    !.todo = {id \in pass.found : resolutions[id].key = k}]
    BY <1>13 DEF ReadFact
  <2>3. k \in FactKeys /\ facts[k] \in Pointers
    BY <1>1 DEF ChainInv, ChainTypes
  <2>4. LatestOf(facts[k]) \in Pointers
    BY <2>3 DEF LatestOf, Pointers
  <2>5. {id \in pass.found : resolutions[id].key = k} \in SUBSET Nat
    BY <1>1
  <2>6. pass' \in Pass /\ pass'.from = pass.from /\ pass'.ends = pass.ends
    BY <1>1, <2>2, <2>3, <2>4, <2>5 DEF Pass
  <2>7. QED
    BY <2>1, <2>6, ControlKept
<1>14. CASE WriteResolution \/ WriteEvidence \/ WriteFlags \/ WriteFact
  <2>1. UNCHANGED <<requests, resolutions, events, sync>> /\ pass.phase \in BusyPhases
    BY <1>14 DEF WriteResolution, WriteEvidence, WriteFlags, WriteFact, chainVars
  <2>2. \/ pass' = [pass EXCEPT !.phase = "evidence"]
        \/ \E id \in pass.todo : pass' = [pass EXCEPT !.phase = "resolutions", !.todo = @ \ {id}]
        \/ pass' = [pass EXCEPT !.phase = "fact"]
        \/ pass' = [pass EXCEPT !.phase = "facts", !.key = "", !.view = NoFact]
    BY <1>14 DEF WriteResolution, WriteEvidence, WriteFlags, WriteFact
  <2>3. pass' \in Pass /\ pass'.from = pass.from /\ pass'.ends = pass.ends
    BY <1>1, <1>3, <2>2 DEF Pass
  <2>4. QED
    BY <2>1, <2>3, ControlKept
<1>15. CASE Finish
  <2>1. /\ UNCHANGED <<requests, resolutions, events>> /\ pass.phase = "facts"
        /\ sync' = NextCheckpoint /\ pass' = Idle
    BY <1>15 DEF Finish, chainVars
  <2>2. /\ Within(pass.ends) /\ pass.from.requests <= pass.ends.requests
        /\ pass.from.resolutions <= pass.ends.resolutions
    BY <2>1 DEF ControlInv, Counted
  <2>3. /\ pass.from.requests \in Nat /\ pass.from.resolutions \in Nat
        /\ pass.ends.requests \in Nat /\ pass.ends.resolutions \in Nat
        /\ pass.ends.events \in Nat
    BY <1>1 DEF Checkpoint
  <2>4. /\ EndOf(pass.from.requests, pass.ends.requests) \in Nat
        /\ EndOf(pass.from.requests, pass.ends.requests) <= pass.ends.requests
        /\ EndOf(pass.from.resolutions, pass.ends.resolutions) \in Nat
        /\ EndOf(pass.from.resolutions, pass.ends.resolutions) <= pass.ends.resolutions
    BY <2>2, <2>3, EndOfBounds
  <2>5. /\ sync'.requests = EndOf(pass.from.requests, pass.ends.requests)
        /\ sync'.resolutions = EndOf(pass.from.resolutions, pass.ends.resolutions)
        /\ sync'.events = pass.ends.events /\ sync' \in Checkpoint
    BY <2>1, <2>3, <2>4 DEF NextCheckpoint, Checkpoint
  <2>6. Within(sync')
    BY <1>2, <2>2, <2>3, <2>4, <2>5 DEF Within
  <2>7. QED
    BY <1>4, <2>1, <2>5, <2>6
<1>16. CASE Fail \/ Restart
  <2>1. UNCHANGED <<requests, resolutions, events, sync>> /\ pass' = Idle
    BY <1>16 DEF Fail, Restart, chainVars
  <2>2. QED
    BY <1>1, <1>4, <2>1 DEF ControlInv, Within
<1>17. CASE UNCHANGED vars
  BY <1>17 DEF vars, chainVars, ControlInv, Within, Counted
<1>18. QED
  BY <1>5, <1>6, <1>7, <1>8, <1>9, <1>10, <1>11, <1>12, <1>13, <1>14, <1>15, <1>16, <1>17
     DEF Next, SyncStep, Outside

-----------------------------------------------------------------------------
(* Requests: their rows have no gap, and none of an ended request is wrong. *)

\* Steps that do not touch requests, before a pass lists them and after.
LEMMA RequestsKept ==
    ASSUME RequestInv, UNCHANGED <<requestRows, requests, sync>>,
           \/ pass'.phase \notin {"requests"} \cup FactPhases
           \/ /\ pass.phase \in FactPhases /\ pass'.phase \in FactPhases
              /\ pass'.from = pass.from /\ pass'.ends = pass.ends
    PROVE  RequestInv'
<1>1. RowsHaveNoGap' /\ EndsAreFinal' /\ (1 .. sync.requests \subseteq DOMAIN requestRows)'
  BY DEF RequestInv, RowsHaveNoGap, EndsAreFinal
<1>2. RequestsTaken'
  BY DEF RequestInv, RequestsTaken, NewRequests, FactPhases, BusyPhases
<1>3. QED
  BY <1>1, <1>2 DEF RequestInv

\* The first id without a row, or one that has it, leaves no gap.
LEMMA NoGapAfter ==
    ASSUME NEW n \in Nat, NEW i \in 1 .. n + 1
    PROVE  \E m \in Nat : 1 .. n \cup {i} = 1 .. m
<1>1. CASE i = n + 1
  <2>1. 1 .. n \cup {i} = 1 .. n + 1 /\ n + 1 \in Nat
    BY <1>1
  <2>2. QED
    BY <2>1
<1>2. CASE i # n + 1
  <2>1. 1 .. n \cup {i} = 1 .. n
    BY <1>2
  <2>2. QED
    BY <2>1
<1>3. QED
  BY <1>1, <1>2

LEMMA RequestsStay ==
    ASSUME ChainInv, ControlInv, RequestInv, [Next]_vars
    PROVE  RequestInv'
<1> USE DEF BusyPhases, FactPhases
<1>1. pass \in Pass /\ pass.from \in Checkpoint /\ pass.ends \in Checkpoint
  BY DEF ControlInv, Pass
<1>2. CASE Outside
  <2>1. ChainGrows /\ UNCHANGED <<requestRows, sync, pass>>
    BY <1>2, OutsideMoves DEF ControlInv, databaseVars
  <2>2. EndsAreFinal'
    BY <2>1 DEF RequestInv, EndsAreFinal, ChainGrows
  <2>3. QED
    BY <2>1, <2>2 DEF RequestInv, RowsHaveNoGap, RequestsTaken, NewRequests
<1>3. CASE Begin \/ ReadCounters \/ ReadEvents \/ SyncPolicy \/ Fail \/ Restart
  <2>1. UNCHANGED <<requestRows, requests, sync>>
    BY <1>3 DEF Begin, ReadCounters, ReadEvents, SyncPolicy, Fail, Restart, chainVars,
                databaseVars
  <2>2. pass'.phase \in {"idle", "counters", "events", "policies"}
    <3>1. CASE Begin
      BY <3>1 DEF Begin, Idle
    <3>2. CASE ReadCounters
      BY <1>1, <3>2 DEF ReadCounters, Pass
    <3>3. CASE ReadEvents
      BY <1>1, <3>3 DEF ReadEvents, Pass
    <3>4. CASE SyncPolicy
      BY <1>1, <3>4 DEF SyncPolicy, Pass
    <3>5. CASE Fail \/ Restart
      <4>1. pass' = Idle
        BY <3>5 DEF Fail, Restart
      <4>2. QED
        BY <4>1 DEF Idle
    <3>6. QED
      BY <1>3, <3>1, <3>2, <3>3, <3>4, <3>5
  <2>3. QED
    BY <2>1, <2>2, RequestsKept
<1>4. CASE ListRequests
  <2>1. /\ UNCHANGED <<requestRows, requests, sync>>
        /\ pass' = [pass EXCEPT !.phase = "requests",
                                !.todo = NewRequests \cup ListMutableRequestIds]
    BY <1>4 DEF ListRequests, chainVars, databaseVars
  <2>2. /\ pass'.phase = "requests" /\ pass'.from = pass.from /\ pass'.ends = pass.ends
        /\ pass'.todo = NewRequests \cup ListMutableRequestIds
    BY <1>1, <2>1 DEF Pass
  <2>3. NewRequests' = NewRequests
    BY <2>2 DEF NewRequests
  <2>4. ListMutableRequestIds \subseteq DOMAIN requestRows
    BY DEF ListMutableRequestIds, Newest
  <2>5. RequestsTaken'
    BY <2>1, <2>2, <2>3, <2>4 DEF RequestsTaken
  <2>6. QED
    BY <2>1, <2>5 DEF RequestInv, RowsHaveNoGap, EndsAreFinal
<1>5. CASE SyncRequest
  <2>1. PICK i \in pass.todo :
          /\ IsNextRequest(i)
          /\ requestRows' = With(requestRows, i, RowOf(requests[i]))
          /\ pass' = [pass EXCEPT !.todo = @ \ {i}, !.keys = @ \cup {requests[i].key}]
    BY <1>5 DEF SyncRequest
  <2>2. pass.phase = "requests" /\ UNCHANGED <<requests, sync>>
    BY <1>5 DEF SyncRequest, chainVars
  <2>3. /\ pass'.phase = "requests" /\ pass'.from = pass.from /\ pass'.ends = pass.ends
        /\ pass'.todo = pass.todo \ {i}
    BY <1>1, <2>1, <2>2 DEF Pass
  <2>4. PICK n \in Nat : requestRows \in [1 .. n -> RequestRow]
    BY DEF RequestInv, RowsHaveNoGap
  <2>5. /\ pass.todo \subseteq NewRequests \cup DOMAIN requestRows
        /\ NewRequests \subseteq pass.todo \cup DOMAIN requestRows
        /\ 1 .. sync.requests \subseteq DOMAIN requestRows
        /\ DOMAIN requestRows = 1 .. n
    BY <2>2, <2>4 DEF RequestInv, RequestsTaken
  <2>6. /\ NewRequests = sync.requests + 1 .. EndOf(sync.requests, pass.ends.requests)
        /\ NewRequests \subseteq DOMAIN requests
    BY <2>2, IdsExist
  <2>7. sync.requests \in Nat
    BY DEF ControlInv, Checkpoint
  <2>8. i \in DOMAIN requests /\ i \in Nat \ {0}
    <3>1. i \in DOMAIN requests
      BY <2>5, <2>6 DEF RequestInv, EndsAreFinal
    <3>2. QED
      BY <3>1, LenProperties DEF ChainInv, ChainTypes
  <2>9. i \in 1 .. n + 1
    <3>1. CASE pass.todo \cap NewRequests # {}
      <4>1. i \in NewRequests /\ \A j \in pass.todo \cap NewRequests : i <= j
        BY <2>1, <3>1 DEF IsNextRequest
      <4>2. SUFFICES ASSUME i > n + 1 PROVE FALSE
        BY <2>8
      <4>3. n + 1 \notin 1 .. n /\ n + 1 \notin 1 .. sync.requests
        BY <2>4, <2>5
      <4>4. n + 1 \in NewRequests
        <5>1. PICK e \in Nat : e = EndOf(sync.requests, pass.ends.requests)
          BY <2>2, IdsExist
        <5>2. i \in sync.requests + 1 .. e
          BY <2>6, <4>1, <5>1
        <5>3. n + 1 \in sync.requests + 1 .. e
          BY <2>4, <2>7, <2>8, <4>2, <4>3, <5>1, <5>2
        <5>4. QED
          BY <2>6, <5>1, <5>3
      <4>5. n + 1 \in pass.todo
        BY <2>4, <2>5, <4>3, <4>4
      <4>6. QED
        BY <2>4, <2>8, <4>1, <4>2, <4>4, <4>5
    <3>2. CASE pass.todo \cap NewRequests = {}
      BY <2>5, <3>2
    <3>3. QED
      BY <3>1, <3>2
  <2>10. RowOf(requests[i]) \in RequestRow /\ RowOf(requests[i]).status = requests[i].status
    <3>1. requests[i] \in ChainRequest
      BY <2>8 DEF ChainInv, ChainTypes
    <3>2. QED
      BY <3>1 DEF RowOf, RequestRow, ChainRequest
  <2>11. /\ \E m \in Nat : requestRows' \in [1 .. m -> RequestRow]
         /\ DOMAIN requestRows' = DOMAIN requestRows \cup {i}
         /\ requestRows'[i] = RowOf(requests[i])
         /\ \A j \in DOMAIN requestRows \ {i} : requestRows'[j] = requestRows[j]
    <3>1. PICK row \in RequestRow : row = RowOf(requests[i])
      BY <2>10
    <3>2. requestRows' = [j \in 1 .. n \cup {i} |-> IF j = i THEN row ELSE requestRows[j]]
      BY <2>1, <2>5, <3>1 DEF With
    <3>3. PICK m \in Nat : 1 .. n \cup {i} = 1 .. m
      BY <2>4, <2>9, NoGapAfter
    <3>4. requestRows' \in [1 .. m -> RequestRow]
      BY <2>4, <3>1, <3>2, <3>3
    <3>5. QED
      BY <2>5, <3>1, <3>2, <3>3, <3>4
  <2>12. EndsAreFinal'
    BY <2>2, <2>8, <2>10, <2>11 DEF RequestInv, EndsAreFinal
  <2>13. NewRequests' = NewRequests
    BY <2>3 DEF NewRequests
  <2>14. RequestsTaken'
    BY <2>3, <2>5, <2>11, <2>13 DEF RequestsTaken
  <2>15. QED
    BY <2>2, <2>5, <2>11, <2>12, <2>14 DEF RequestInv, RowsHaveNoGap
<1>6. CASE SyncResolutions
  <2>1. UNCHANGED <<requestRows, requests, sync>> /\ pass.phase = "requests" /\ pass.todo = {}
    BY <1>6 DEF SyncResolutions, chainVars, databaseVars
  <2>2. pass'.phase = "facts" /\ pass'.from = pass.from /\ pass'.ends = pass.ends
    BY <1>1, <1>6 DEF SyncResolutions, Pass
  <2>3. NewRequests' = NewRequests
    BY <2>2 DEF NewRequests
  <2>4. RequestsTaken'
    BY <2>1, <2>2, <2>3 DEF RequestInv, RequestsTaken
  <2>5. QED
    BY <2>1, <2>4 DEF RequestInv, RowsHaveNoGap, EndsAreFinal
<1>7. CASE ReadFact \/ WriteResolution \/ WriteEvidence \/ WriteFlags \/ WriteFact
  <2>1. UNCHANGED <<requestRows, requests, sync>> /\ pass.phase \in FactPhases
    BY <1>7 DEF ReadFact, WriteResolution, WriteEvidence, WriteFlags, WriteFact, chainVars,
                databaseVars
  <2>2. pass'.phase \in FactPhases /\ pass'.from = pass.from /\ pass'.ends = pass.ends
    BY <1>1, <1>7 DEF ReadFact, WriteResolution, WriteEvidence, WriteFlags, WriteFact, Pass
  <2>3. QED
    BY <2>1, <2>2, RequestsKept
<1>8. CASE Finish
  <2>1. /\ UNCHANGED <<requestRows, requests>> /\ pass.phase = "facts"
        /\ sync' = NextCheckpoint /\ pass'.phase = "idle"
    BY <1>8 DEF Finish, chainVars, databaseVars, Idle
  <2>2. sync'.requests = EndOf(pass.from.requests, pass.ends.requests)
    BY <2>1 DEF NextCheckpoint
  <2>3. NewRequests \subseteq DOMAIN requestRows /\ 1 .. sync.requests \subseteq DOMAIN requestRows
    BY <2>1 DEF RequestInv, RequestsTaken
  <2>4. 1 .. sync'.requests \subseteq DOMAIN requestRows
    BY <2>1, <2>2, <2>3, IdsExist
  <2>5. QED
    BY <2>1, <2>4 DEF RequestInv, RowsHaveNoGap, EndsAreFinal, RequestsTaken
<1>9. CASE UNCHANGED vars
  BY <1>9 DEF vars, chainVars, databaseVars, RequestInv, RowsHaveNoGap, EndsAreFinal,
              RequestsTaken, NewRequests
<1>10. QED
  BY <1>2, <1>3, <1>4, <1>5, <1>6, <1>7, <1>8, <1>9 DEF Next, SyncStep, Outside

-----------------------------------------------------------------------------
(* Policies: their rows say no less than what was counted, and no more than is. *)

LEMMA PoliciesKept ==
    ASSUME PolicyInv, UNCHANGED <<policyRows, events, sync>>,
           \/ pass'.phase \notin {"policies", "requests"} \cup FactPhases
           \/ /\ pass.phase \in {"requests"} \cup FactPhases
              /\ pass'.phase \in {"requests"} \cup FactPhases
              /\ pass'.ends = pass.ends
    PROVE  PolicyInv'
<1> USE DEF FactPhases, BusyPhases
<1>1. \A n, p : /\ StateAfter(n, p)' = StateAfter(n, p) /\ Shown(n, p)' = Shown(n, p)
  BY DEF StateAfter, Shown
<1>2. DeprecationsAreReal' /\ (\A p \in Policies : Shown(sync.events, p))'
  BY DEF PolicyInv, DeprecationsAreReal, Shown, StateAfter
<1>3. PoliciesTaken'
  <2>1. CASE pass'.phase \notin {"policies", "requests"} \cup FactPhases
    BY <2>1 DEF PoliciesTaken
  <2>2. CASE /\ pass.phase \in {"requests"} \cup FactPhases
             /\ pass'.phase \in {"requests"} \cup FactPhases
             /\ pass'.ends = pass.ends
    <3>1. \A p \in Policies : Shown(pass.ends.events, p)
      BY <2>2 DEF PolicyInv, PoliciesTaken
    <3>2. \A p \in Policies : Shown(pass.ends.events, p)'
      BY <2>2, <3>1 DEF Shown, StateAfter
    <3>3. QED
      BY <2>2, <3>2 DEF PoliciesTaken
  <2>3. QED
    BY <2>1, <2>2
<1>4. QED
  BY <1>2, <1>3 DEF PolicyInv

\* A row that says what all events say shows every count of them.
LEMMA AllIsShown ==
    ASSUME NEW p, NEW n \in Nat, n <= Len(events), Len(events) \in Nat,
           policyRows[p] = StateAfter(Len(events), p)
    PROVE  Shown(n, p)
  BY StatesGrow DEF Shown

LEMMA PoliciesStay ==
    ASSUME ChainInv, ControlInv, PolicyInv, [Next]_vars
    PROVE  PolicyInv'
<1> USE DEF BusyPhases, FactPhases
<1>1. /\ pass \in Pass /\ pass.from \in Checkpoint /\ pass.ends \in Checkpoint
      /\ sync.events \in Nat /\ sync.events <= Len(events) /\ Len(events) \in Nat
      /\ DOMAIN events = 1 .. Len(events)
      /\ policyRows \in [Policies -> PolicyStates] /\ events \in Seq(Policies)
  BY LenProperties DEF ControlInv, Pass, Checkpoint, Within, PolicyInv
<1>2. pass.phase \notin {"idle", "counters"} =>
          pass.from = sync /\ pass.ends.events \in Nat /\ pass.ends.events <= Len(events)
          /\ sync.events <= pass.ends.events
  BY <1>1 DEF ControlInv, Counted, Within, Checkpoint
<1>3. CASE Outside
  <2>1. UNCHANGED <<policyRows, sync, pass>>
    BY <1>3, OutsideMoves DEF ControlInv, databaseVars
  <2>2. CASE UNCHANGED events
    BY <2>1, <2>2 DEF PolicyInv, DeprecationsAreReal, PoliciesTaken, Shown, StateAfter
  <2>3. ASSUME NEW q \in Policies, events' = Append(events, q)
        PROVE  PolicyInv'
    <3>1. \A n \in Nat, p \in Policies : n <= Len(events) => Shown(n, p)' = Shown(n, p)
      <4>1. ASSUME NEW n \in Nat, NEW p \in Policies, n <= Len(events)
            PROVE  Shown(n, p)' = Shown(n, p)
        <5>1. StateAfter(n, p)' = StateAfter(n, p)
          BY <1>1, <2>3, <4>1, NewStatesGrow
        <5>2. QED
          BY <2>1, <5>1 DEF Shown
      <4>2. QED
        BY <4>1
    <3>2. DeprecationsAreReal'
      BY <1>1, <2>1, <2>3, NewStatesGrow DEF PolicyInv, DeprecationsAreReal
    <3>3. \A p \in Policies : Shown(sync.events, p)'
      <4>1. \A p \in Policies : Shown(sync.events, p)
        BY DEF PolicyInv
      <4>2. QED
        BY <1>1, <2>1, <3>1, <4>1 DEF Shown
    <3>4. PoliciesTaken'
      <4>1. \A e \in 1 .. Len(events) : events'[e] = events[e]
        BY <1>1, <2>3, Appended
      <4>2. Len(events') = Len(events) + 1
        BY <1>1, <2>3, Appended
      <4>3. CASE pass.phase \in {"policies", "requests"} \cup FactPhases
        <5>1. PICK m \in Nat : m = pass.ends.events /\ m <= Len(events)
          BY <1>2, <4>3
        <5>2. \A p \in Policies : Shown(m, p) => Shown(m, p)'
          BY <3>1, <5>1
        <5>3. \A p \in Policies : \/ Shown(m, p)
                  \/ /\ pass.phase = "policies"
                     /\ \E n \in pass.todo : n \in 1 .. Len(events) /\ events[n] = p
          BY <4>3, <5>1 DEF PolicyInv, PoliciesTaken
        <5>4. ASSUME NEW p \in Policies
              PROVE  \/ Shown(m, p)'
                     \/ pass.phase = "policies" /\ \E n \in pass.todo : events'[n] = p
          <6>2. CASE Shown(m, p)
            BY <5>2, <6>2
          <6>3. CASE ~Shown(m, p)
            <7>1. PICK n \in pass.todo : n \in 1 .. Len(events) /\ events[n] = p
              BY <5>3, <6>3
            <7>2. events'[n] = p /\ pass.phase = "policies"
              BY <4>1, <5>3, <6>3, <7>1
            <7>3. QED
              BY <7>2
          <6>4. QED
            BY <6>2, <6>3
        <5>5. pass.phase = "policies" => pass.todo \subseteq 1 .. Len(events')
          BY <1>1, <4>2 DEF PolicyInv, PoliciesTaken
        <5>6. QED
          BY <2>1, <5>4, <5>5, <5>1 DEF PoliciesTaken
      <4>4. CASE pass.phase \notin {"policies", "requests"} \cup FactPhases
        BY <2>1, <4>4 DEF PoliciesTaken
      <4>5. QED
        BY <4>3, <4>4
    <3>5. QED
      BY <1>1, <2>1, <3>2, <3>3, <3>4 DEF PolicyInv
  <2>4. QED
    BY <1>1, <1>3, <2>2, <2>3, OutsideMoves
<1>4. CASE Begin \/ ReadCounters \/ Fail \/ Restart
  <2>1. UNCHANGED <<policyRows, events, sync>>
    BY <1>4 DEF Begin, ReadCounters, Fail, Restart, databaseVars
  <2>2. pass'.phase \in {"idle", "counters", "events"}
    <3>1. CASE Begin
      BY <3>1 DEF Begin, Idle
    <3>2. CASE ReadCounters
      BY <1>1, <3>2 DEF ReadCounters, Pass
    <3>3. CASE Fail \/ Restart
      <4>1. pass' = Idle
        BY <3>3 DEF Fail, Restart
      <4>2. QED
        BY <4>1 DEF Idle
    <3>4. QED
      BY <1>4, <3>1, <3>2, <3>3
  <2>3. QED
    BY <2>1, <2>2, PoliciesKept
<1>5. CASE ReadEvents
  <2>1. /\ pass.phase = "events" /\ UNCHANGED <<policyRows, events, sync>>
    BY <1>5 DEF ReadEvents, databaseVars
  <2>2. PICK end \in IF pass.ends.events > pass.from.events
                     THEN pass.ends.events .. Len(events) ELSE {pass.from.events} :
           pass' = [pass EXCEPT !.phase = "policies",
                                !.ends.events = EndOf(pass.from.events, end),
                                !.todo = pass.from.events + 1 .. EndOf(pass.from.events, end)]
    BY <1>5 DEF ReadEvents
  <2>3. end \in Nat /\ sync.events <= end /\ end <= Len(events) /\ pass.from = sync
    BY <1>1, <1>2, <2>1, <2>2
  <2>4. PICK upto : upto = EndOf(pass.from.events, end)
    OBVIOUS
  <2>5. upto \in Nat /\ sync.events <= upto /\ upto <= end
    BY <1>1, <2>3, <2>4, EndOfBounds
  <2>6. /\ pass'.phase = "policies" /\ pass'.todo = sync.events + 1 .. upto
        /\ pass'.ends.events = upto
    BY <1>1, <2>2, <2>3, <2>4 DEF Pass, Checkpoint
  <2>7. ASSUME NEW p \in Policies, \A e \in sync.events + 1 .. upto : events[e] # p
        PROVE  Shown(upto, p)
    <3>1. Times(events, upto, p) = Times(events, sync.events, p)
      BY <1>1, <2>5, <2>7, TimesStay
    <3>2. StateAfter(upto, p) = StateAfter(sync.events, p)
      BY <3>1 DEF StateAfter, Times
    <3>3. QED
      BY <3>2 DEF PolicyInv, Shown
  <2>8. PoliciesTaken'
    <3>1. \A p \in Policies : Shown(upto, p) \/ \E e \in sync.events + 1 .. upto : events[e] = p
      BY <2>7
    <3>2. \A p \in Policies : \/ Shown(upto, p)'
                              \/ \E e \in sync.events + 1 .. upto : events'[e] = p
      <4>1. \A p \in Policies : Shown(upto, p)' = Shown(upto, p)
        BY <2>1 DEF Shown, StateAfter
      <4>2. QED
        BY <2>1, <3>1, <4>1
    <3>3. sync.events + 1 .. upto \subseteq 1 .. Len(events')
      BY <1>1, <2>1, <2>3, <2>5
    <3>4. QED
      BY <2>6, <3>2, <3>3 DEF PoliciesTaken
  <2>9. QED
    BY <2>1, <2>8 DEF PolicyInv, DeprecationsAreReal, Shown, StateAfter
<1>6. CASE SyncPolicy
  <2>1. PICK n \in pass.todo :
          /\ policyRows' = [policyRows EXCEPT ![events[n]] = StateAfter(Len(events), events[n])]
          /\ pass' = [pass EXCEPT !.todo = @ \ {n}]
    BY <1>6 DEF SyncPolicy
  <2>2. pass.phase = "policies" /\ UNCHANGED <<events, sync>>
    BY <1>6 DEF SyncPolicy
  <2>3. /\ pass'.phase = "policies" /\ pass'.todo = pass.todo \ {n} /\ pass'.ends = pass.ends
    BY <1>1, <2>1, <2>2 DEF Pass
  <2>4. pass.todo \subseteq 1 .. Len(events)
    BY <2>2 DEF PolicyInv, PoliciesTaken
  <2>5. PICK q \in Policies : q = events[n]
    BY <1>1, <2>4
  <2>6. /\ policyRows'[q] = StateAfter(Len(events), q)
        /\ \A p \in Policies \ {q} : policyRows'[p] = policyRows[p]
        /\ policyRows' \in [Policies -> PolicyStates]
    BY <1>1, <2>1, <2>5, StatesGrow
  <2>7. \A m, p : StateAfter(m, p)' = StateAfter(m, p)
    BY <2>2 DEF StateAfter
  <2>8. ASSUME NEW p \in Policies, NEW m \in Nat, m <= Len(events),
               p = q \/ Shown(m, p)
        PROVE  Shown(m, p)'
    <3>1. CASE p = q
      BY <1>1, <2>6, <2>7, <2>8, <3>1, StatesGrow DEF Shown
    <3>2. CASE p # q
      BY <2>6, <2>7, <2>8, <3>2 DEF Shown
    <3>3. QED
      BY <3>1, <3>2
  <2>9. DeprecationsAreReal'
    BY <2>2, <2>6 DEF PolicyInv, DeprecationsAreReal, StateAfter
  <2>10. \A p \in Policies : Shown(sync.events, p)'
    BY <1>1, <2>2, <2>8 DEF PolicyInv
  <2>11. PoliciesTaken'
    <3>1. PICK m \in Nat : m = pass.ends.events /\ m <= Len(events)
      BY <1>2, <2>2
    <3>2. \A p \in Policies : Shown(m, p) \/ \E e \in pass.todo : events[e] = p
      BY <2>2, <3>1 DEF PolicyInv, PoliciesTaken
    <3>3. \A p \in Policies : Shown(m, p)' \/ \E e \in pass.todo \ {n} : events[e] = p
      BY <2>5, <2>8, <3>1, <3>2
    <3>4. QED
      BY <2>2, <2>3, <2>4, <3>1, <3>3 DEF PoliciesTaken
  <2>12. QED
    BY <2>2, <2>6, <2>9, <2>10, <2>11 DEF PolicyInv
<1>7. CASE ListRequests
  <2>1. /\ UNCHANGED <<policyRows, events, sync>> /\ pass.phase = "policies" /\ pass.todo = {}
    BY <1>7 DEF ListRequests, databaseVars
  <2>2. pass'.phase = "requests" /\ pass'.ends = pass.ends
    BY <1>1, <1>7 DEF ListRequests, Pass
  <2>3. \A p \in Policies : Shown(pass.ends.events, p)
    BY <2>1 DEF PolicyInv, PoliciesTaken
  <2>4. PoliciesTaken'
    BY <2>1, <2>2, <2>3 DEF PoliciesTaken, Shown, StateAfter
  <2>5. QED
    BY <2>1, <2>4 DEF PolicyInv, DeprecationsAreReal, Shown, StateAfter
<1>8. CASE SyncRequest \/ SyncResolutions \/ ReadFact \/ WriteResolution \/ WriteEvidence
           \/ WriteFlags \/ WriteFact
  <2>1. /\ UNCHANGED <<policyRows, events, sync>> /\ pass.phase \in {"requests"} \cup FactPhases
    BY <1>8 DEF SyncRequest, SyncResolutions, ReadFact, WriteResolution, WriteEvidence,
                WriteFlags, WriteFact, databaseVars
  <2>2. pass'.phase \in {"requests"} \cup FactPhases /\ pass'.ends = pass.ends
    BY <1>1, <1>8 DEF SyncRequest, SyncResolutions, ReadFact, WriteResolution, WriteEvidence,
                      WriteFlags, WriteFact, Pass
  <2>3. QED
    BY <2>1, <2>2, PoliciesKept
<1>9. CASE Finish
  <2>1. /\ UNCHANGED <<policyRows, events>> /\ pass.phase = "facts"
        /\ sync' = NextCheckpoint /\ pass'.phase = "idle"
    BY <1>9 DEF Finish, databaseVars, Idle
  <2>2. sync'.events = pass.ends.events
    BY <2>1 DEF NextCheckpoint
  <2>3. \A p \in Policies : Shown(pass.ends.events, p)
    BY <2>1 DEF PolicyInv, PoliciesTaken
  <2>4. (\A p \in Policies : Shown(sync.events, p))'
    BY <2>1, <2>2, <2>3 DEF Shown, StateAfter
  <2>5. QED
    BY <2>1, <2>4 DEF PolicyInv, DeprecationsAreReal, PoliciesTaken, StateAfter
<1>10. CASE UNCHANGED vars
  BY <1>10 DEF vars, databaseVars, PolicyInv, DeprecationsAreReal, PoliciesTaken, Shown,
               StateAfter
<1>11. QED
  BY <1>3, <1>4, <1>5, <1>6, <1>7, <1>8, <1>9, <1>10 DEF Next, SyncStep, Outside

-----------------------------------------------------------------------------
(* Answers: resolutions, evidence and facts. *)

\* What of it does not depend on the pass.
AnswersAtRest ==
    /\ AnswerTypes /\ FactsAreEarlier /\ FlagsAreCurrent /\ AgreeOrAhead /\ AnswersCovered

LEMMA AnswersAtRestKept ==
    ASSUME AnswersAtRest,
           UNCHANGED <<resolutionRows, evidenceRows, factRows, resolutions, facts, sync>>
    PROVE  AnswersAtRest'
<1>1. AnswerTypes' /\ FactsAreEarlier'
  BY DEF AnswersAtRest, AnswerTypes, FactsAreEarlier, EarlierOf
<1>2. FlagsAreCurrent'
  BY DEF AnswersAtRest, FlagsAreCurrent, Found, ResolutionIds
<1>3. AgreeOrAhead'
  BY DEF AnswersAtRest, AgreeOrAhead, RowsAgree, AheadOf, ResolutionIds
<1>4. AnswersCovered'
  BY DEF AnswersAtRest, AnswersCovered, Written
<1>5. QED
  BY <1>1, <1>2, <1>3, <1>4 DEF AnswersAtRest

\* A pass that is not at its facts.
LEMMA AnswersKept ==
    ASSUME AnswerInv, pass'.phase \notin FactPhases,
           UNCHANGED <<resolutionRows, evidenceRows, factRows, resolutions, facts, sync>>
    PROVE  AnswerInv'
<1>1. AnswersAtRest'
  BY AnswersAtRestKept DEF AnswerInv, AnswersAtRest
<1>2. ResolutionsTaken' /\ ViewIsCurrent' /\ WritesAreInOrder'
  BY DEF ResolutionsTaken, ViewIsCurrent, WritesAreInOrder, FactPhases, BusyPhases
<1>3. QED
  BY <1>1, <1>2 DEF AnswerInv, AnswersAtRest

\* Of the rows of a fact not written, nothing that is said of it changes.
LEMMA OtherRowsStay ==
    ASSUME NEW k, ResolutionIds(k)' = ResolutionIds(k),
           \A id \in ResolutionIds(k) : resolutionRows'[id] = resolutionRows[id],
           factRows'[k] = factRows[k]
    PROVE  RowsAgree(k)' = RowsAgree(k) /\ Found(k)' = Found(k)
<1>1. RowsAgree(k)' = RowsAgree(k)
  BY DEF RowsAgree
<1>2. Found(k)' = Found(k)
  BY DEF Found
<1>3. QED
  BY <1>1, <1>2

\* The chain moves: nothing of what is projected is made wrong by it.
LEMMA AnswersOutside ==
    ASSUME ChainInv, ControlInv, AnswerInv, ChainInv', ChainGrows,
           UNCHANGED <<resolutionRows, evidenceRows, factRows, sync, pass>>
    PROVE  AnswerInv'
<1>1. /\ AnswerTypes /\ FactsAreEarlier /\ FlagsAreCurrent /\ AgreeOrAhead /\ AnswersCovered
      /\ ResolutionsTaken /\ ViewIsCurrent /\ WritesAreInOrder
  BY DEF AnswerInv
<1>2. /\ \A id \in DOMAIN resolutions :
            id \in DOMAIN resolutions' /\ resolutions'[id] = resolutions[id]
      /\ \A k \in FactKeys : EarlierOf(facts[k], facts'[k])
  BY DEF ChainGrows
<1>3. /\ DOMAIN resolutionRows \subseteq DOMAIN resolutions
      /\ \A k \in FactKeys : /\ facts[k] \in Pointers /\ facts'[k] \in Pointers
                             /\ factRows[k] \in Pointers
      /\ \A id \in DOMAIN resolutions : resolutions[id].key \in FactKeys
  <2>1. \A id \in DOMAIN resolutions : resolutions[id] \in ChainResolution
    BY LenProperties DEF ChainInv, ChainTypes
  <2>2. QED
    BY <1>1, <2>1 DEF AnswerTypes, ChainInv, ChainTypes, ChainResolution
<1>4. \A k : ResolutionIds(k)' = ResolutionIds(k)
  BY <1>2, <1>3 DEF ResolutionIds
<1>5. AnswerTypes'
  BY <1>1, <1>2 DEF AnswerTypes
<1>6. FactsAreEarlier'
  <2>1. ASSUME NEW k \in FactKeys PROVE EarlierOf(factRows[k], facts'[k])
    BY <1>1, <1>2, <1>3, EarlierIsTransitive DEF FactsAreEarlier
  <2>2. QED
    BY <2>1 DEF FactsAreEarlier, EarlierOf
<1>7. FlagsAreCurrent'
  BY <1>1, <1>4 DEF FlagsAreCurrent, Found
<1>8. ASSUME NEW k, NEW n
      PROVE  /\ RowsAgree(k) => RowsAgree(k)'
             /\ AheadOf(n, k) => AheadOf(n, k)'
  BY <1>2, <1>4 DEF RowsAgree, AheadOf
<1>9. AgreeOrAhead'
  <2>1. PICK n : n = sync.resolutions
    OBVIOUS
  <2>2. ASSUME NEW k \in FactKeys PROVE RowsAgree(k)' \/ AheadOf(n, k)'
    BY <1>1, <1>8, <2>1 DEF AgreeOrAhead
  <2>3. QED
    BY <2>1, <2>2 DEF AgreeOrAhead
<1>10. AnswersCovered'
  BY <1>1, <1>2, <1>3 DEF AnswersCovered, Written
<1>11. ResolutionsTaken'
  <2>1. CASE pass.phase \notin FactPhases
    BY <2>1 DEF ResolutionsTaken
  <2>2. CASE pass.phase \in FactPhases
    <3>1. NewResolutions \subseteq DOMAIN resolutions /\ NewResolutions' = NewResolutions
      BY <2>2, IdsExist DEF NewResolutions, FactPhases, BusyPhases
    <3>2. \A id \in NewResolutions : /\ resolutions'[id].key = resolutions[id].key
                                     /\ Taken(id, resolutions[id].key)
      BY <1>1, <1>2, <2>2, <3>1 DEF ResolutionsTaken
    <3>3. ASSUME NEW id \in NewResolutions PROVE Taken(id, resolutions[id].key)'
      BY <3>2 DEF Taken, Busy, Written
    <3>4. PICK n : n = EndOf(pass.from.resolutions, pass.ends.resolutions)
      OBVIOUS
    <3>5. ASSUME NEW k \in FactKeys
          PROVE  RowsAgree(k)' \/ AheadOf(n, k)' \/ k \in pass.keys \/ Busy(k)'
      BY <1>1, <1>8, <2>2, <3>4 DEF ResolutionsTaken, Busy
    <3>6. QED
      <4>1. \A id \in NewResolutions : Taken(id, resolutions[id].key)'
        BY <3>3
      <4>2. \A k \in FactKeys : RowsAgree(k)' \/ AheadOf(n, k)' \/ k \in pass.keys \/ Busy(k)'
        BY <3>5
      <4>3. pass.found = NewResolutions
        BY <1>1, <2>2 DEF ResolutionsTaken
      <4>4. QED
        BY <2>2, <3>1, <3>4, <4>1, <4>2, <4>3 DEF ResolutionsTaken
  <2>3. QED
    BY <2>1, <2>2
<1>12. ViewIsCurrent'
  <2>1. CASE pass.phase \notin BusyPhases
    BY <2>1 DEF ViewIsCurrent
  <2>2. CASE pass.phase \in BusyPhases
    <3>1. NewResolutions \subseteq DOMAIN resolutions /\ NewResolutions' = NewResolutions
      BY <2>2, IdsExist DEF NewResolutions, BusyPhases
    <3>2. /\ pass.key \in FactKeys /\ pass.view \in Pointers
          /\ EarlierOf(factRows[pass.key], pass.view) /\ EarlierOf(pass.view, facts[pass.key])
          /\ pass.view.latest \in DOMAIN resolutions
          /\ resolutions[pass.view.latest].key = pass.key
          /\ \A id \in NewResolutions : resolutions[id].key = pass.key => id <= pass.view.latest
          /\ pass.todo \subseteq {id \in NewResolutions : resolutions[id].key = pass.key}
      BY <1>1, <2>2 DEF ViewIsCurrent, ControlInv, Pass
    <3>3. EarlierOf(pass.view, facts'[pass.key])
      BY <1>2, <1>3, <3>2, EarlierIsTransitive
    <3>4. \A id \in NewResolutions : resolutions'[id] = resolutions[id]
      BY <1>2, <3>1
    <3>5. EarlierOf(factRows[pass.key], pass.view)'
      BY <3>2 DEF EarlierOf
    <3>6. EarlierOf(pass.view, facts[pass.key])'
      BY <3>3 DEF EarlierOf
    <3>7. QED
      BY <1>2, <3>1, <3>2, <3>4, <3>5, <3>6 DEF ViewIsCurrent
  <2>3. QED
    BY <2>1, <2>2
<1>13. WritesAreInOrder'
  BY <1>1, <1>4 DEF WritesAreInOrder, IsFirst, FlagsOf
<1>14. QED
  BY <1>5, <1>6, <1>7, <1>9, <1>10, <1>11, <1>12, <1>13 DEF AnswerInv

\* The pass has read its resolutions: every fact with one of them is to be written.
LEMMA AnswersListed ==
    ASSUME ChainInv, ControlInv, AnswerInv, SyncResolutions
    PROVE  AnswerInv'
<1>1. /\ pass.phase = "requests"
      /\ UNCHANGED <<resolutionRows, evidenceRows, factRows, resolutions, facts, sync>>
      /\ pass' = [pass EXCEPT !.phase = "facts", !.found = NewResolutions,
                      !.keys = @ \cup {resolutions[id].key : id \in NewResolutions}]
  BY DEF SyncResolutions, NewResolutions, chainVars, databaseVars
<1>2. AnswersAtRest /\ AnswersAtRest'
  BY <1>1, AnswersAtRestKept DEF AnswerInv, AnswersAtRest
<1>3. pass \in Pass
  BY DEF ControlInv
<1>4. /\ pass'.phase = "facts" /\ pass'.from = pass.from /\ pass'.ends = pass.ends
      /\ pass'.found = NewResolutions
      /\ pass'.keys = pass.keys \cup {resolutions[id].key : id \in NewResolutions}
  BY <1>1, <1>3 DEF Pass
<1>5. NewResolutions' = NewResolutions
  BY <1>4 DEF NewResolutions
<1>6. PICK n : n = EndOf(pass.from.resolutions, pass.ends.resolutions)
  OBVIOUS
<1>7. 1 .. n = 1 .. sync.resolutions \cup NewResolutions /\ n \in Nat /\ sync.resolutions \in Nat
  BY <1>1, <1>6, IdsExist DEF ControlInv, Checkpoint
<1>8. ASSUME NEW id \in NewResolutions PROVE Taken(id, resolutions[id].key)'
  BY <1>1, <1>4 DEF Taken
<1>9. ASSUME NEW k \in FactKeys PROVE RowsAgree(k)' \/ AheadOf(n, k)' \/ k \in pass'.keys
  <2>1. CASE RowsAgree(k)
    BY <1>1, <2>1 DEF RowsAgree, ResolutionIds
  <2>2. CASE AheadOf(sync.resolutions, k)
    <3>1. PICK id \in DOMAIN resolutions : resolutions[id].key = k /\ id > sync.resolutions
      BY <2>2 DEF AheadOf
    <3>2. id \in Nat \ {0}
      BY LenProperties DEF ChainInv, ChainTypes
    <3>3. CASE id > n
      BY <1>1, <3>1, <3>3 DEF AheadOf
    <3>4. CASE ~(id > n)
      <4>1. id \in NewResolutions
        BY <1>7, <3>1, <3>2, <3>4
      <4>2. QED
        BY <1>4, <3>1, <4>1
    <3>5. QED
      BY <3>3, <3>4
  <2>3. QED
    BY <1>2, <2>1, <2>2 DEF AnswersAtRest, AgreeOrAhead
<1>10. ResolutionsTaken'
  <2>1. \A id \in NewResolutions : Taken(id, resolutions[id].key)'
    BY <1>8
  <2>2. \A k \in FactKeys : RowsAgree(k)' \/ AheadOf(n, k)' \/ k \in pass'.keys
    BY <1>9
  <2>3. QED
    BY <1>4, <1>5, <1>6, <2>1, <2>2 DEF ResolutionsTaken
<1>11. ViewIsCurrent' /\ WritesAreInOrder'
  BY <1>4 DEF ViewIsCurrent, WritesAreInOrder, BusyPhases
<1>12. QED
  BY <1>2, <1>10, <1>11 DEF AnswerInv, AnswersAtRest

\* A fact without resolutions has nothing to write; of another, all is read at once.
LEMMA FactRead ==
    ASSUME ChainInv, ControlInv, AnswerInv, ReadFact
    PROVE  AnswerInv'
<1>1. /\ pass.phase = "facts" /\ pass \in Pass
      /\ UNCHANGED <<resolutionRows, evidenceRows, factRows, resolutions, facts, sync>>
  BY DEF ReadFact, chainVars, databaseVars, ControlInv
<1>2. PICK k \in pass.keys :
          pass' = IF facts[k] = NoFact
                  THEN [pass EXCEPT !.keys = @ \ {k}]
                  ELSE [pass EXCEPT !.phase = "resolutions", !.keys = @ \ {k}, !.key = k,
                                    !.view = LatestOf(facts[k]),
                                    !.todo = {id \in pass.found : resolutions[id].key = k}]
  BY DEF ReadFact
<1>3. AnswersAtRest /\ AnswersAtRest'
  BY <1>1, AnswersAtRestKept DEF AnswerInv, AnswersAtRest
<1>4. /\ pass.found = NewResolutions
      /\ \A id \in NewResolutions : Taken(id, resolutions[id].key)
      /\ \A j \in FactKeys :
             \/ RowsAgree(j) \/ AheadOf(EndOf(pass.from.resolutions, pass.ends.resolutions), j)
             \/ j \in pass.keys
  BY <1>1 DEF AnswerInv, ResolutionsTaken, FactPhases, Busy, BusyPhases
<1>5. NewResolutions \subseteq DOMAIN resolutions
  BY <1>1, IdsExist
<1>6. k \in FactKeys /\ facts[k] \in Pointers
  BY <1>1 DEF Pass, ChainInv, ChainTypes
<1>7. \A id \in DOMAIN resolutions : id \in Nat \ {0} /\ id <= facts[resolutions[id].key].latest
  BY LenProperties DEF ChainInv, ChainTypes, NewestIsLatest
<1>8. pass'.from = pass.from /\ pass'.ends = pass.ends /\ pass'.found = pass.found
      /\ pass'.keys = pass.keys \ {k}
  BY <1>1, <1>2 DEF Pass
<1>9. NewResolutions' = NewResolutions
  BY <1>8 DEF NewResolutions
<1>10. PICK n : n = EndOf(pass.from.resolutions, pass.ends.resolutions)
  OBVIOUS
<1>11. \A j \in FactKeys : /\ RowsAgree(j) => RowsAgree(j)'
                           /\ AheadOf(n, j) => AheadOf(n, j)'
  BY <1>1 DEF RowsAgree, ResolutionIds, AheadOf
<1>12. CASE facts[k] = NoFact
  <2>1. \A id \in DOMAIN resolutions : resolutions[id].key # k
    BY <1>7, <1>12 DEF NoFact
  <2>2. pass'.phase = "facts"
    BY <1>1, <1>2, <1>12 DEF Pass
  <2>3. ASSUME NEW id \in NewResolutions PROVE Taken(id, resolutions[id].key)'
    BY <1>1, <1>4, <1>5, <1>8, <2>1 DEF Taken, Busy, BusyPhases, Written
  <2>4. ASSUME NEW j \in FactKeys PROVE RowsAgree(j)' \/ AheadOf(n, j)' \/ j \in pass'.keys
    <3>1. CASE j = k
      <4>1. ResolutionIds(j) = {}
        BY <1>3, <2>1, <3>1 DEF AnswersAtRest, AnswerTypes, ResolutionIds
      <4>2. RowsAgree(j)
        BY <4>1 DEF RowsAgree
      <4>3. QED
        BY <1>11, <4>2
    <3>2. CASE j # k
      BY <1>4, <1>8, <1>10, <1>11, <3>2
    <3>3. QED
      BY <3>1, <3>2
  <2>5. ResolutionsTaken'
    <3>1. \A id \in NewResolutions : Taken(id, resolutions[id].key)'
      BY <2>3
    <3>2. \A j \in FactKeys : RowsAgree(j)' \/ AheadOf(n, j)' \/ j \in pass'.keys
      BY <2>4
    <3>3. QED
      BY <1>4, <1>8, <1>9, <1>10, <3>1, <3>2 DEF ResolutionsTaken
  <2>6. ViewIsCurrent' /\ WritesAreInOrder'
    BY <2>2 DEF ViewIsCurrent, WritesAreInOrder, BusyPhases
  <2>7. QED
    BY <1>3, <2>5, <2>6 DEF AnswerInv, AnswersAtRest
<1>13. CASE facts[k] # NoFact
  <2>1. LatestOf(facts[k]) = facts[k] /\ facts[k].latest # 0
    <3>1. /\ facts[k].current <= facts[k].latest
          /\ facts[k].current = 0 => facts[k].latest = 0
      BY <1>6 DEF ChainInv, NewestIsLatest
    <3>2. facts[k].latest # 0
      BY <1>6, <1>13, <3>1 DEF NoFact, Pointers
    <3>3. QED
      BY <1>6, <3>2 DEF LatestOf, Pointers
  <2>2. /\ pass'.phase = "resolutions" /\ pass'.key = k /\ pass'.view = facts[k]
        /\ pass'.todo = {id \in NewResolutions : resolutions[id].key = k}
    BY <1>1, <1>2, <1>4, <1>13, <2>1 DEF Pass
  <2>3. ASSUME NEW id \in NewResolutions PROVE Taken(id, resolutions[id].key)'
    BY <1>1, <1>4, <1>8, <2>2 DEF Taken, Busy, BusyPhases, Written
  <2>4. ASSUME NEW j \in FactKeys
        PROVE  RowsAgree(j)' \/ AheadOf(n, j)' \/ j \in pass'.keys \/ Busy(j)'
    BY <1>4, <1>8, <1>10, <1>11, <2>2 DEF Busy, BusyPhases
  <2>5. ResolutionsTaken'
    <3>1. \A id \in NewResolutions : Taken(id, resolutions[id].key)'
      BY <2>3
    <3>2. \A j \in FactKeys : RowsAgree(j)' \/ AheadOf(n, j)' \/ j \in pass'.keys \/ Busy(j)'
      BY <2>4
    <3>3. QED
      BY <1>4, <1>8, <1>9, <1>10, <3>1, <3>2 DEF ResolutionsTaken
  <2>6. ViewIsCurrent'
    <3>1. EarlierOf(factRows[k], facts[k]) /\ EarlierOf(facts[k], facts[k])
      BY <1>3, <1>6, EarlierIsReflexive DEF AnswersAtRest, FactsAreEarlier
    <3>2. EarlierOf(factRows[pass.key], pass.view)' /\ EarlierOf(pass.view, facts[pass.key])'
      BY <1>1, <2>2, <3>1 DEF EarlierOf
    <3>3. facts[k].latest \in DOMAIN resolutions /\ resolutions[facts[k].latest].key = k
      BY <1>6, <2>1 DEF ChainInv, NewestIsLatest
    <3>4. \A id \in NewResolutions : resolutions[id].key = k => id <= facts[k].latest
      BY <1>5, <1>7
    <3>5. QED
      BY <1>1, <1>6, <1>9, <2>2, <3>2, <3>3, <3>4 DEF ViewIsCurrent
  <2>7. WritesAreInOrder'
    BY <2>2 DEF WritesAreInOrder
  <2>8. QED
    BY <1>3, <2>5, <2>6, <2>7 DEF AnswerInv, AnswersAtRest
<1>14. QED
  BY <1>12, <1>13

\* What is known while a fact is being written.
LEMMA WhileBusy ==
    ASSUME ChainInv, ControlInv, AnswerInv, pass.phase \in BusyPhases
    PROVE  /\ AnswersAtRest /\ pass \in Pass
           /\ pass.key \in FactKeys /\ pass.view \in Pointers
           /\ factRows[pass.key] \in Pointers /\ facts[pass.key] \in Pointers
           /\ EarlierOf(factRows[pass.key], pass.view) /\ EarlierOf(pass.view, facts[pass.key])
           /\ pass.view.latest \in DOMAIN resolutions
           /\ resolutions[pass.view.latest].key = pass.key
           /\ \A id \in NewResolutions : resolutions[id].key = pass.key => id <= pass.view.latest
           /\ pass.todo \subseteq NewResolutions
           /\ \A id \in pass.todo : resolutions[id].key = pass.key
           /\ pass.found = NewResolutions
           /\ \A id \in NewResolutions : Taken(id, resolutions[id].key)
           /\ \A j \in FactKeys :
                 \/ RowsAgree(j)
                 \/ AheadOf(EndOf(pass.from.resolutions, pass.ends.resolutions), j)
                 \/ j \in pass.keys \/ Busy(j)
           /\ NewResolutions \subseteq DOMAIN resolutions
           /\ \A id \in NewResolutions : id \in Nat /\ id > sync.resolutions
           /\ sync.resolutions \in Nat
           /\ \A id \in DOMAIN resolutions : id \in Nat \ {0} /\ resolutions[id].key \in FactKeys
<1> USE DEF BusyPhases, FactPhases
<1>1. AnswersAtRest /\ pass \in Pass /\ ViewIsCurrent /\ ResolutionsTaken
  BY DEF AnswerInv, AnswersAtRest, ControlInv
<1>2. /\ pass.view \in Pointers
      /\ \A k \in FactKeys : factRows[k] \in Pointers /\ facts[k] \in Pointers
  BY <1>1 DEF Pass, AnswersAtRest, AnswerTypes, ChainInv, ChainTypes
<1>3. \A id \in DOMAIN resolutions : id \in Nat \ {0} /\ resolutions[id].key \in FactKeys
  <2>1. \A id \in DOMAIN resolutions : id \in Nat \ {0} /\ resolutions[id] \in ChainResolution
    BY LenProperties DEF ChainInv, ChainTypes
  <2>2. QED
    BY <2>1 DEF ChainResolution
<1>4. sync.resolutions \in Nat
  BY DEF ControlInv, Checkpoint
<1>5. NewResolutions \subseteq DOMAIN resolutions
  BY IdsExist
<1>6. \A id \in NewResolutions : id \in Nat /\ id > sync.resolutions
  <2>1. PICK e \in Nat : e = EndOf(sync.resolutions, pass.ends.resolutions)
    BY IdsExist
  <2>2. NewResolutions = sync.resolutions + 1 .. e
    BY <2>1, IdsExist
  <2>3. QED
    BY <1>4, <2>2
<1>7. QED
  BY <1>1, <1>2, <1>3, <1>4, <1>5, <1>6 DEF ViewIsCurrent, ResolutionsTaken

\* A new resolution is written with the flags of the view; its fact is ahead of the checkpoint.
LEMMA ResolutionWritten ==
    ASSUME ChainInv, ControlInv, AnswerInv, WriteResolution
    PROVE  AnswerInv'
<1>1. PICK id \in pass.todo :
          IsFirst(id) /\ resolutionRows' = With(resolutionRows, id, FlagsOf(id, pass.view))
  BY DEF WriteResolution
<1>2. /\ pass.phase = "resolutions" /\ pass' = [pass EXCEPT !.phase = "evidence"]
      /\ UNCHANGED <<evidenceRows, factRows, resolutions, facts, sync>>
  BY DEF WriteResolution, chainVars
<1>3. pass.phase \in BusyPhases
  BY <1>2 DEF BusyPhases
<1>4. PICK k \in FactKeys : k = pass.key
  BY <1>3, WhileBusy
<1>5. PICK v \in Pointers : v = pass.view
  BY <1>3, WhileBusy
<1>6. /\ id \in NewResolutions /\ id \in DOMAIN resolutions /\ resolutions[id].key = k
      /\ id \in Nat /\ id > sync.resolutions
  BY <1>1, <1>3, <1>4, WhileBusy
<1>7. /\ EarlierOf(factRows[k], v) /\ factRows[k] \in Pointers /\ AnswersAtRest
  BY <1>3, <1>4, <1>5, WhileBusy
<1>8. /\ pass'.phase = "evidence" /\ pass'.from = pass.from /\ pass'.ends = pass.ends
      /\ pass'.todo = pass.todo /\ pass'.keys = pass.keys /\ pass'.found = pass.found
      /\ pass'.key = k /\ pass'.view = v
  BY <1>2, <1>3, <1>4, <1>5, WhileBusy DEF Pass
<1>9. PICK flags : flags = FlagsOf(id, v)
  OBVIOUS
<1>10. /\ flags \in [canonical : BOOLEAN, latest : BOOLEAN]
       /\ flags.canonical <=> id = v.current
  BY <1>9, FlagsShow
<1>11. /\ DOMAIN resolutionRows' = DOMAIN resolutionRows \cup {id}
       /\ resolutionRows'[id] = flags
       /\ \A j \in DOMAIN resolutionRows \ {id} : resolutionRows'[j] = resolutionRows[j]
       /\ resolutionRows' = [j \in DOMAIN resolutionRows' |-> resolutionRows'[j]]
  <2>1. resolutionRows' = [j \in DOMAIN resolutionRows \cup {id} |->
                               IF j = id THEN flags ELSE resolutionRows[j]]
    BY <1>1, <1>5, <1>9 DEF With
  <2>2. QED
    BY <2>1
<1>12. AnswerTypes'
  <2>1. \A j \in DOMAIN resolutionRows' :
            resolutionRows'[j] \in [canonical : BOOLEAN, latest : BOOLEAN]
    BY <1>7, <1>10, <1>11 DEF AnswersAtRest, AnswerTypes
  <2>2. QED
    BY <1>2, <1>6, <1>7, <1>11, <2>1 DEF AnswersAtRest, AnswerTypes
<1>13. ASSUME NEW j \in FactKeys, j # k
       PROVE  RowsAgree(j)' = RowsAgree(j) /\ Found(j)' = Found(j)
  <2>1. ResolutionIds(j)' = ResolutionIds(j) /\ id \notin ResolutionIds(j)
    BY <1>2, <1>6, <1>11, <1>13 DEF ResolutionIds
  <2>2. \A i \in ResolutionIds(j) : resolutionRows'[i] = resolutionRows[i]
    BY <1>11, <2>1 DEF ResolutionIds
  <2>3. QED
    BY <1>2, <2>1, <2>2, OtherRowsStay
<1>14. Found(k)' \subseteq Found(k) \cup {v.current}
  BY <1>2, <1>6, <1>10, <1>11 DEF Found, ResolutionIds
<1>15. FlagsAreCurrent'
  <2>1. ASSUME NEW j \in FactKeys, NEW i \in Found(j)' PROVE i >= factRows[j].current
    <3>1. CASE j = k
      BY <1>7, <1>14, <2>1, <3>1 DEF AnswersAtRest, FlagsAreCurrent, EarlierOf, Pointers
    <3>2. CASE j # k
      BY <1>7, <1>13, <2>1, <3>2 DEF AnswersAtRest, FlagsAreCurrent
    <3>3. QED
      BY <3>1, <3>2
  <2>2. QED
    BY <1>2, <2>1 DEF FlagsAreCurrent
<1>16. ASSUME NEW n, NEW j PROVE AheadOf(n, j)' = AheadOf(n, j)
  BY <1>2 DEF AheadOf
<1>17. AgreeOrAhead'
  <2>1. PICK n : n = sync.resolutions
    OBVIOUS
  <2>2. ASSUME NEW j \in FactKeys PROVE RowsAgree(j)' \/ AheadOf(n, j)'
    <3>1. CASE j = k
      BY <1>2, <1>6, <2>1, <3>1 DEF AheadOf
    <3>2. CASE j # k
      BY <1>7, <1>13, <1>16, <2>1, <3>2 DEF AnswersAtRest, AgreeOrAhead
    <3>3. QED
      BY <3>1, <3>2
  <2>3. QED
    BY <1>2, <2>1, <2>2 DEF AgreeOrAhead
<1>18. FactsAreEarlier' /\ AnswersCovered'
  BY <1>2, <1>7, <1>11 DEF AnswersAtRest, FactsAreEarlier, EarlierOf, AnswersCovered, Written
<1>19. NewResolutions' = NewResolutions
  BY <1>8 DEF NewResolutions
<1>20. ResolutionsTaken'
  <2>1. ASSUME NEW i \in NewResolutions PROVE Taken(i, resolutions[i].key)'
    <3>1. Taken(i, resolutions[i].key)
      BY <1>3, WhileBusy
    <3>2. QED
      BY <1>2, <1>3, <1>4, <1>8, <1>11, <3>1 DEF Taken, Busy, Written, BusyPhases
  <2>2. PICK n : n = EndOf(pass.from.resolutions, pass.ends.resolutions)
    OBVIOUS
  <2>3. ASSUME NEW j \in FactKeys
        PROVE  RowsAgree(j)' \/ AheadOf(n, j)' \/ j \in pass'.keys \/ Busy(j)'
    <3>1. RowsAgree(j) \/ AheadOf(n, j) \/ j \in pass.keys \/ Busy(j)
      BY <1>3, <2>2, WhileBusy
    <3>2. QED
      BY <1>4, <1>8, <1>13, <1>16, <3>1 DEF Busy, BusyPhases
  <2>4. pass'.found = NewResolutions
    BY <1>3, <1>8, WhileBusy
  <2>5. \A i \in NewResolutions : Taken(i, resolutions[i].key)'
    BY <2>1
  <2>6. \A j \in FactKeys : RowsAgree(j)' \/ AheadOf(n, j)' \/ j \in pass'.keys \/ Busy(j)'
    BY <2>3
  <2>7. QED
    BY <1>8, <1>19, <2>2, <2>4, <2>5, <2>6 DEF ResolutionsTaken
<1>21. ViewIsCurrent'
  <2>1. ViewIsCurrent
    BY DEF AnswerInv
  <2>2. QED
    BY <1>2, <1>3, <1>4, <1>5, <1>8, <1>19, <2>1 DEF ViewIsCurrent, EarlierOf
<1>22. WritesAreInOrder'
  <2>1. ASSUME NEW i \in pass.todo, IsFirst(i) PROVE i = id
    <3>1. pass.todo \subseteq Nat /\ i <= id /\ id <= i
      BY <1>1, <1>3, <2>1, WhileBusy DEF IsFirst, Pass
    <3>2. QED
      BY <1>1, <3>1
  <2>2. \A i \in pass.todo : IsFirst(i)' => IsFirst(i)
    BY <1>8 DEF IsFirst
  <2>3. QED
    BY <1>8, <1>11, <2>1, <2>2 DEF WritesAreInOrder
<1>23. QED
  BY <1>12, <1>15, <1>17, <1>18, <1>20, <1>21, <1>22 DEF AnswerInv

\* Its evidence follows, and it no longer waits.
LEMMA EvidenceWritten ==
    ASSUME ChainInv, ControlInv, AnswerInv, WriteEvidence
    PROVE  AnswerInv'
<1>1. PICK id \in pass.todo :
          /\ IsFirst(id) /\ evidenceRows' = evidenceRows \cup {id}
          /\ pass' = [pass EXCEPT !.phase = "resolutions", !.todo = @ \ {id}]
  BY DEF WriteEvidence
<1>2. /\ pass.phase = "evidence"
      /\ UNCHANGED <<resolutionRows, factRows, resolutions, facts, sync>>
  BY DEF WriteEvidence, chainVars
<1>3. pass.phase \in BusyPhases
  BY <1>2 DEF BusyPhases
<1>4. id \in DOMAIN resolutionRows
  BY <1>1, <1>2 DEF AnswerInv, WritesAreInOrder
<1>5. /\ pass'.phase = "resolutions" /\ pass'.from = pass.from /\ pass'.ends = pass.ends
      /\ pass'.todo = pass.todo \ {id} /\ pass'.keys = pass.keys /\ pass'.found = pass.found
      /\ pass'.key = pass.key /\ pass'.view = pass.view
  BY <1>1, <1>3, WhileBusy DEF Pass
<1>6. AnswersAtRest
  BY DEF AnswerInv, AnswersAtRest
<1>7. AnswerTypes' /\ FactsAreEarlier' /\ AnswersCovered'
  BY <1>1, <1>2, <1>4, <1>6 DEF AnswersAtRest, AnswerTypes, FactsAreEarlier, EarlierOf,
                                AnswersCovered, Written
<1>8. FlagsAreCurrent'
  BY <1>2, <1>6 DEF AnswersAtRest, FlagsAreCurrent, Found, ResolutionIds
<1>9. AgreeOrAhead'
  BY <1>2, <1>6 DEF AnswersAtRest, AgreeOrAhead, RowsAgree, AheadOf, ResolutionIds
<1>10. NewResolutions' = NewResolutions
  BY <1>5 DEF NewResolutions
<1>11. ResolutionsTaken'
  <2>1. ASSUME NEW i \in NewResolutions PROVE Taken(i, resolutions[i].key)'
    <3>1. Taken(i, resolutions[i].key)
      BY <1>3, WhileBusy
    <3>2. CASE i = id
      <4>1. resolutions[id].key = pass.key
        BY <1>1, <1>3, WhileBusy
      <4>2. QED
        BY <1>1, <1>2, <1>4, <1>5, <3>2, <4>1 DEF Taken, Busy, Written, BusyPhases
    <3>3. CASE i # id
      BY <1>1, <1>2, <1>3, <1>5, <3>1, <3>3 DEF Taken, Busy, Written, BusyPhases
    <3>4. QED
      BY <3>2, <3>3
  <2>2. PICK n : n = EndOf(pass.from.resolutions, pass.ends.resolutions)
    OBVIOUS
  <2>3. ASSUME NEW j \in FactKeys
        PROVE  RowsAgree(j)' \/ AheadOf(n, j)' \/ j \in pass'.keys \/ Busy(j)'
    <3>1. RowsAgree(j) \/ AheadOf(n, j) \/ j \in pass.keys \/ Busy(j)
      BY <1>3, <2>2, WhileBusy
    <3>2. RowsAgree(j) => RowsAgree(j)'
      BY <1>2 DEF RowsAgree, ResolutionIds
    <3>3. AheadOf(n, j) => AheadOf(n, j)'
      BY <1>2 DEF AheadOf
    <3>4. QED
      BY <1>5, <3>1, <3>2, <3>3 DEF Busy, BusyPhases
  <2>4. pass'.found = NewResolutions
    BY <1>3, <1>5, WhileBusy
  <2>5. \A i \in NewResolutions : Taken(i, resolutions[i].key)'
    BY <2>1
  <2>6. \A j \in FactKeys : RowsAgree(j)' \/ AheadOf(n, j)' \/ j \in pass'.keys \/ Busy(j)'
    BY <2>3
  <2>7. QED
    BY <1>5, <1>10, <2>2, <2>4, <2>5, <2>6 DEF ResolutionsTaken
<1>12. ViewIsCurrent'
  <2>1. ViewIsCurrent
    BY DEF AnswerInv
  <2>2. QED
    BY <1>2, <1>3, <1>5, <1>10, <2>1 DEF ViewIsCurrent, EarlierOf
<1>13. WritesAreInOrder'
  BY <1>5 DEF WritesAreInOrder
<1>14. QED
  BY <1>7, <1>8, <1>9, <1>11, <1>12, <1>13 DEF AnswerInv

(***************************************************************************)
(* The flags of all rows of the fact follow the view.  If the fact has no  *)
(* resolution after the checkpoint, its row is as new as the view, so that *)
(* flags and row agree already; otherwise they need not yet.               *)
(***************************************************************************)
LEMMA FlagsWritten ==
    ASSUME ChainInv, ControlInv, AnswerInv, WriteFlags
    PROVE  AnswerInv'
<1>1. /\ pass.phase = "resolutions" /\ pass.todo = {}
      /\ resolutionRows' = Flagged(pass.key, pass.view)
      /\ pass' = [pass EXCEPT !.phase = "fact"]
      /\ UNCHANGED <<evidenceRows, factRows, resolutions, facts, sync>>
  BY DEF WriteFlags, chainVars
<1>2. pass.phase \in BusyPhases
  BY <1>1 DEF BusyPhases
<1>3. PICK k \in FactKeys : k = pass.key
  BY <1>2, WhileBusy
<1>4. PICK v \in Pointers : v = pass.view
  BY <1>2, WhileBusy
<1>5. /\ EarlierOf(factRows[k], v) /\ factRows[k] \in Pointers /\ AnswersAtRest
      /\ v.latest \in DOMAIN resolutions /\ resolutions[v.latest].key = k
      /\ v.latest \in Nat \ {0} /\ sync.resolutions \in Nat
  BY <1>2, <1>3, <1>4, WhileBusy
<1>6. /\ pass'.phase = "fact" /\ pass'.from = pass.from /\ pass'.ends = pass.ends
      /\ pass'.todo = {} /\ pass'.keys = pass.keys /\ pass'.found = pass.found
      /\ pass'.key = k /\ pass'.view = v
  BY <1>1, <1>2, <1>3, <1>4, WhileBusy DEF Pass
<1>7. \A id : FlagsOf(id, v) \in [canonical : BOOLEAN, latest : BOOLEAN]
              /\ (FlagsOf(id, v).canonical <=> id = v.current)
              /\ (FlagsOf(id, v).latest <=> id = v.latest)
  BY FlagsShow
<1>8. resolutionRows' = [id \in DOMAIN resolutionRows |->
          IF id \in ResolutionIds(k) THEN FlagsOf(id, v) ELSE resolutionRows[id]]
  BY <1>1, <1>3, <1>4 DEF Flagged
<1>9. /\ DOMAIN resolutionRows' = DOMAIN resolutionRows
      /\ \A j : ResolutionIds(j)' = ResolutionIds(j)
      /\ \A id \in ResolutionIds(k) : resolutionRows'[id] = FlagsOf(id, v)
      /\ \A id \in DOMAIN resolutionRows \ ResolutionIds(k) :
             resolutionRows'[id] = resolutionRows[id]
      /\ resolutionRows' = [id \in DOMAIN resolutionRows' |-> resolutionRows'[id]]
  BY <1>1, <1>8 DEF ResolutionIds
<1>10. AnswerTypes'
  <2>1. \A id \in DOMAIN resolutionRows' :
            resolutionRows'[id] \in [canonical : BOOLEAN, latest : BOOLEAN]
    BY <1>5, <1>7, <1>9 DEF AnswersAtRest, AnswerTypes
  <2>2. QED
    BY <1>1, <1>5, <1>9, <2>1 DEF AnswersAtRest, AnswerTypes
<1>11. ASSUME NEW j \in FactKeys, j # k
       PROVE  RowsAgree(j)' = RowsAgree(j) /\ Found(j)' = Found(j)
  <2>1. ResolutionIds(j)' = ResolutionIds(j)
    BY <1>9
  <2>2. \A id \in ResolutionIds(j) : resolutionRows'[id] = resolutionRows[id]
    BY <1>9, <1>11 DEF ResolutionIds
  <2>3. QED
    BY <1>1, <2>1, <2>2, OtherRowsStay
<1>12. Found(k)' \subseteq {v.current}
  BY <1>7, <1>9 DEF Found
<1>13. FlagsAreCurrent'
  <2>1. ASSUME NEW j \in FactKeys, NEW i \in Found(j)' PROVE i >= factRows[j].current
    <3>1. CASE j = k
      BY <1>5, <1>12, <2>1, <3>1 DEF EarlierOf, Pointers
    <3>2. CASE j # k
      BY <1>5, <1>11, <2>1, <3>2 DEF AnswersAtRest, FlagsAreCurrent
    <3>3. QED
      BY <3>1, <3>2
  <2>2. QED
    BY <1>1, <2>1 DEF FlagsAreCurrent
<1>14. ASSUME NEW n, NEW j PROVE AheadOf(n, j)' = AheadOf(n, j)
  BY <1>1 DEF AheadOf
<1>15. AgreeOrAhead'
  <2>1. PICK n : n = sync.resolutions
    OBVIOUS
  <2>2. ASSUME NEW j \in FactKeys PROVE RowsAgree(j)' \/ AheadOf(n, j)'
    <3>1. CASE j = k /\ v.latest > n
      BY <1>1, <1>5, <3>1 DEF AheadOf
    <3>2. CASE j = k /\ ~(v.latest > n)
      <4>1. factRows[k].latest >= v.latest
        BY <1>5, <2>1, <3>2 DEF AnswersAtRest, AnswersCovered
      <4>2. factRows[k] = v
        BY <1>5, <4>1 DEF EarlierOf, Pointers
      <4>3. RowsAgree(k)'
        BY <1>1, <1>7, <1>9, <4>2 DEF RowsAgree
      <4>4. QED
        BY <3>2, <4>3
    <3>3. CASE j # k
      BY <1>5, <1>11, <1>14, <2>1, <3>3 DEF AnswersAtRest, AgreeOrAhead
    <3>4. QED
      BY <3>1, <3>2, <3>3
  <2>3. QED
    BY <1>1, <2>1, <2>2 DEF AgreeOrAhead
<1>16. FactsAreEarlier' /\ AnswersCovered'
  BY <1>1, <1>5, <1>9 DEF AnswersAtRest, FactsAreEarlier, EarlierOf, AnswersCovered, Written
<1>17. NewResolutions' = NewResolutions
  BY <1>6 DEF NewResolutions
<1>18. ResolutionsTaken'
  <2>1. ASSUME NEW i \in NewResolutions PROVE Taken(i, resolutions[i].key)'
    <3>1. Taken(i, resolutions[i].key)
      BY <1>2, WhileBusy
    <3>2. QED
      BY <1>1, <1>2, <1>3, <1>6, <1>9, <3>1 DEF Taken, Busy, Written, BusyPhases
  <2>2. PICK n : n = EndOf(pass.from.resolutions, pass.ends.resolutions)
    OBVIOUS
  <2>3. ASSUME NEW j \in FactKeys
        PROVE  RowsAgree(j)' \/ AheadOf(n, j)' \/ j \in pass'.keys \/ Busy(j)'
    <3>1. RowsAgree(j) \/ AheadOf(n, j) \/ j \in pass.keys \/ Busy(j)
      BY <1>2, <2>2, WhileBusy
    <3>2. QED
      BY <1>3, <1>6, <1>11, <1>14, <3>1 DEF Busy, BusyPhases
  <2>4. pass'.found = NewResolutions
    BY <1>2, <1>6, WhileBusy
  <2>5. \A i \in NewResolutions : Taken(i, resolutions[i].key)'
    BY <2>1
  <2>6. \A j \in FactKeys : RowsAgree(j)' \/ AheadOf(n, j)' \/ j \in pass'.keys \/ Busy(j)'
    BY <2>3
  <2>7. QED
    BY <1>6, <1>17, <2>2, <2>4, <2>5, <2>6 DEF ResolutionsTaken
<1>19. ViewIsCurrent'
  <2>1. ViewIsCurrent
    BY DEF AnswerInv
  <2>2. QED
    BY <1>1, <1>2, <1>3, <1>4, <1>6, <1>17, <2>1 DEF ViewIsCurrent, EarlierOf
<1>20. WritesAreInOrder'
  <2>1. \A id \in ResolutionIds(k) : resolutionRows'[id] = FlagsOf(id, v)
    BY <1>9
  <2>2. (\A id \in ResolutionIds(pass.key) : resolutionRows[id] = FlagsOf(id, pass.view))'
    BY <1>6, <1>9, <2>1 DEF FlagsOf
  <2>3. QED
    BY <1>6, <2>2 DEF WritesAreInOrder
<1>21. QED
  BY <1>10, <1>13, <1>15, <1>16, <1>18, <1>19, <1>20 DEF AnswerInv

\* The fact's row takes the view, which its flags already show.
LEMMA FactWritten ==
    ASSUME ChainInv, ControlInv, AnswerInv, WriteFact
    PROVE  AnswerInv'
<1>1. /\ pass.phase = "fact"
      /\ factRows' = [factRows EXCEPT ![pass.key] = pass.view]
      /\ pass' = [pass EXCEPT !.phase = "facts", !.key = "", !.view = NoFact]
      /\ UNCHANGED <<resolutionRows, evidenceRows, resolutions, facts, sync>>
  BY DEF WriteFact, chainVars
<1>2. pass.phase \in BusyPhases
  BY <1>1 DEF BusyPhases
<1>3. PICK k \in FactKeys : k = pass.key
  BY <1>2, WhileBusy
<1>4. PICK v \in Pointers : v = pass.view
  BY <1>2, WhileBusy
<1>5. /\ EarlierOf(factRows[k], v) /\ EarlierOf(v, facts[k]) /\ AnswersAtRest
      /\ factRows[k] \in Pointers /\ factRows \in [FactKeys -> Pointers]
  BY <1>2, <1>3, <1>4, WhileBusy DEF AnswersAtRest, AnswerTypes
<1>6. /\ factRows'[k] = v /\ factRows' \in [FactKeys -> Pointers]
      /\ \A j \in FactKeys \ {k} : factRows'[j] = factRows[j]
  BY <1>1, <1>3, <1>4, <1>5
<1>7. /\ pass'.phase = "facts" /\ pass'.from = pass.from /\ pass'.ends = pass.ends
      /\ pass'.keys = pass.keys /\ pass'.found = pass.found
  BY <1>1, <1>2, WhileBusy DEF Pass
<1>8. /\ pass.todo = {}
      /\ \A id \in ResolutionIds(k) : resolutionRows[id] = FlagsOf(id, v)
  BY <1>1, <1>3, <1>4 DEF AnswerInv, WritesAreInOrder
<1>9. \A j : ResolutionIds(j)' = ResolutionIds(j)
  BY <1>1 DEF ResolutionIds
<1>10. ASSUME NEW id \in ResolutionIds(k)
       PROVE  /\ resolutionRows'[id].canonical <=> id = v.current
              /\ resolutionRows'[id].latest <=> id = v.latest
  <2>1. resolutionRows'[id] = FlagsOf(id, v)
    BY <1>1, <1>8
  <2>2. QED
    BY <2>1, FlagsShow
<1>11. RowsAgree(k)'
  <2>1. \A id \in ResolutionIds(k)' :
            /\ resolutionRows'[id].canonical <=> id = factRows'[k].current
            /\ resolutionRows'[id].latest <=> id = factRows'[k].latest
    BY <1>6, <1>9, <1>10
  <2>2. QED
    BY <2>1 DEF RowsAgree
<1>12. ASSUME NEW j \in FactKeys, j # k
       PROVE  RowsAgree(j)' = RowsAgree(j) /\ Found(j)' = Found(j)
  BY <1>1, <1>6, <1>9, <1>12, OtherRowsStay
<1>13. AnswerTypes'
  BY <1>1, <1>5, <1>6 DEF AnswersAtRest, AnswerTypes
<1>14. FactsAreEarlier'
  <2>1. ASSUME NEW j \in FactKeys PROVE EarlierOf(factRows[j], facts[j])'
    <3>1. CASE j = k
      BY <1>1, <1>5, <1>6, <3>1 DEF EarlierOf
    <3>2. CASE j # k
      BY <1>1, <1>5, <1>6, <3>2 DEF AnswersAtRest, FactsAreEarlier, EarlierOf
    <3>3. QED
      BY <3>1, <3>2
  <2>2. QED
    BY <2>1 DEF FactsAreEarlier
<1>15. FlagsAreCurrent'
  <2>1. ASSUME NEW j \in FactKeys, NEW i \in Found(j)' PROVE i >= factRows'[j].current
    <3>1. CASE j = k
      <4>1. i = v.current
        <5>1. i \in ResolutionIds(k) /\ resolutionRows'[i].canonical
          BY <1>9, <2>1, <3>1 DEF Found
        <5>2. QED
          BY <1>10, <5>1
      <4>2. QED
        BY <1>6, <3>1, <4>1 DEF Pointers
    <3>2. CASE j # k
      BY <1>5, <1>6, <1>12, <2>1, <3>2 DEF AnswersAtRest, FlagsAreCurrent
    <3>3. QED
      BY <3>1, <3>2
  <2>2. QED
    BY <2>1 DEF FlagsAreCurrent
<1>16. ASSUME NEW n, NEW j PROVE AheadOf(n, j)' = AheadOf(n, j)
  BY <1>1 DEF AheadOf
<1>17. AgreeOrAhead'
  <2>1. PICK n : n = sync.resolutions
    OBVIOUS
  <2>2. ASSUME NEW j \in FactKeys PROVE RowsAgree(j)' \/ AheadOf(n, j)'
    BY <1>5, <1>11, <1>12, <1>16, <2>1 DEF AnswersAtRest, AgreeOrAhead
  <2>3. QED
    BY <1>1, <2>1, <2>2 DEF AgreeOrAhead
<1>18. AnswersCovered'
  <2>1. ASSUME NEW id \in 1 .. sync.resolutions
        PROVE  Written(id) /\ factRows'[resolutions[id].key].latest >= id
    <3>1. Written(id) /\ factRows[resolutions[id].key].latest >= id
      BY <1>5 DEF AnswersAtRest, AnswersCovered
    <3>2. resolutions[id].key \in FactKeys
      BY <1>2, <1>5, <3>1, WhileBusy DEF Written, AnswersAtRest, AnswerTypes
    <3>3. CASE resolutions[id].key = k
      <4>1. id \in Nat /\ factRows[k].latest >= id
        BY <1>2, <3>1, <3>3, WhileBusy
      <4>2. v.latest >= id
        BY <1>5, <4>1 DEF EarlierOf, Pointers
      <4>3. QED
        BY <1>6, <3>1, <3>3, <4>2
    <3>4. CASE resolutions[id].key # k
      BY <1>6, <3>1, <3>2, <3>4
    <3>5. QED
      BY <3>3, <3>4
  <2>2. QED
    BY <1>1, <2>1 DEF AnswersCovered, Written
<1>19. NewResolutions' = NewResolutions
  BY <1>7 DEF NewResolutions
<1>20. ResolutionsTaken'
  <2>1. ASSUME NEW i \in NewResolutions PROVE Taken(i, resolutions[i].key)'
    <3>1. Taken(i, resolutions[i].key) /\ resolutions[i].key \in FactKeys
      BY <1>2, WhileBusy
    <3>2. CASE resolutions[i].key = k
      <4>1. resolutions[i].key \in pass.keys \/ Written(i)
        BY <1>8, <3>1 DEF Taken
      <4>2. i <= v.latest /\ i \in Nat
        BY <1>2, <1>3, <1>4, <3>2, WhileBusy
      <4>3. factRows'[resolutions[i].key].latest >= i
        BY <1>6, <3>2, <4>2 DEF Pointers
      <4>4. QED
        BY <1>1, <1>7, <4>1, <4>3 DEF Taken, Written
    <3>3. CASE resolutions[i].key # k
      BY <1>1, <1>3, <1>6, <1>7, <3>1, <3>3 DEF Taken, Busy, Written
    <3>4. QED
      BY <3>2, <3>3
  <2>2. PICK n : n = EndOf(pass.from.resolutions, pass.ends.resolutions)
    OBVIOUS
  <2>3. ASSUME NEW j \in FactKeys
        PROVE  RowsAgree(j)' \/ AheadOf(n, j)' \/ j \in pass'.keys
    <3>1. RowsAgree(j) \/ AheadOf(n, j) \/ j \in pass.keys \/ Busy(j)
      BY <1>2, <2>2, WhileBusy
    <3>2. QED
      BY <1>3, <1>7, <1>11, <1>12, <1>16, <3>1 DEF Busy
  <2>4. pass'.found = NewResolutions
    BY <1>2, <1>7, WhileBusy
  <2>5. \A i \in NewResolutions : Taken(i, resolutions[i].key)'
    BY <2>1
  <2>6. \A j \in FactKeys : RowsAgree(j)' \/ AheadOf(n, j)' \/ j \in pass'.keys
    BY <2>3
  <2>7. QED
    BY <1>7, <1>19, <2>2, <2>4, <2>5, <2>6 DEF ResolutionsTaken
<1>21. ViewIsCurrent' /\ WritesAreInOrder'
  BY <1>7 DEF ViewIsCurrent, WritesAreInOrder, BusyPhases
<1>22. QED
  BY <1>13, <1>14, <1>15, <1>17, <1>18, <1>20, <1>21 DEF AnswerInv

\* The checkpoint moves over what the pass took, and no further.
LEMMA AnswersFinished ==
    ASSUME ChainInv, ControlInv, AnswerInv, Finish
    PROVE  AnswerInv'
<1>1. /\ pass.phase = "facts" /\ pass.keys = {} /\ sync' = NextCheckpoint /\ pass' = Idle
      /\ UNCHANGED <<resolutionRows, evidenceRows, factRows, resolutions, facts>>
  BY DEF Finish, chainVars, databaseVars
<1>2. PICK n : n = EndOf(pass.from.resolutions, pass.ends.resolutions)
  OBVIOUS
<1>3. sync'.resolutions = n
  BY <1>1, <1>2 DEF NextCheckpoint
<1>4. 1 .. n = 1 .. sync.resolutions \cup NewResolutions
  BY <1>1, <1>2, IdsExist
<1>5. /\ \A id \in NewResolutions : Written(id) /\ factRows[resolutions[id].key].latest >= id
      /\ \A j \in FactKeys : RowsAgree(j) \/ AheadOf(n, j)
  BY <1>1, <1>2 DEF AnswerInv, ResolutionsTaken, FactPhases, Taken, Busy, BusyPhases
<1>6. AnswersCovered'
  BY <1>1, <1>3, <1>4, <1>5 DEF AnswerInv, AnswersCovered, Written
<1>7. AgreeOrAhead'
  <2>1. ASSUME NEW j \in FactKeys PROVE RowsAgree(j)' \/ AheadOf(n, j)'
    BY <1>1, <1>5 DEF RowsAgree, AheadOf, ResolutionIds
  <2>2. QED
    BY <1>3, <2>1 DEF AgreeOrAhead
<1>8. AnswerTypes' /\ FactsAreEarlier' /\ FlagsAreCurrent'
  BY <1>1 DEF AnswerInv, AnswerTypes, FactsAreEarlier, EarlierOf, FlagsAreCurrent, Found,
              ResolutionIds
<1>9. pass'.phase = "idle"
  BY <1>1 DEF Idle
<1>10. ResolutionsTaken' /\ ViewIsCurrent' /\ WritesAreInOrder'
  BY <1>9 DEF ResolutionsTaken, ViewIsCurrent, WritesAreInOrder, FactPhases, BusyPhases
<1>11. QED
  BY <1>6, <1>7, <1>8, <1>10 DEF AnswerInv

LEMMA AnswersStay ==
    ASSUME ChainInv, ControlInv, AnswerInv, [Next]_vars
    PROVE  AnswerInv'
<1>1. pass \in Pass
  BY DEF ControlInv
<1>2. CASE Outside
  <2>1. UNCHANGED <<resolutionRows, evidenceRows, factRows, sync, pass>>
    BY <1>2, OutsideMoves DEF ControlInv, databaseVars
  <2>2. QED
    BY <1>2, <2>1, OutsideMoves, AnswersOutside DEF ControlInv
<1>3. CASE Begin \/ ReadCounters \/ ReadEvents \/ SyncPolicy \/ ListRequests \/ SyncRequest
           \/ Fail \/ Restart
  <2>1. UNCHANGED <<resolutionRows, evidenceRows, factRows, resolutions, facts, sync>>
    BY <1>3 DEF Begin, ReadCounters, ReadEvents, SyncPolicy, ListRequests, SyncRequest, Fail,
                Restart, chainVars, databaseVars
  <2>2. pass'.phase \in {"idle", "counters", "events", "policies", "requests"}
    <3>1. CASE Begin
      BY <3>1 DEF Begin, Idle
    <3>2. CASE ReadCounters \/ ListRequests
      BY <1>1, <3>2 DEF ReadCounters, ListRequests, Pass
    <3>3. CASE ReadEvents
      BY <1>1, <3>3 DEF ReadEvents, Pass
    <3>4. CASE SyncPolicy \/ SyncRequest
      BY <1>1, <3>4 DEF SyncPolicy, SyncRequest, Pass
    <3>5. CASE Fail \/ Restart
      <4>1. pass' = Idle
        BY <3>5 DEF Fail, Restart
      <4>2. QED
        BY <4>1 DEF Idle
    <3>6. QED
      BY <1>3, <3>1, <3>2, <3>3, <3>4, <3>5
  <2>3. QED
    BY <2>1, <2>2, AnswersKept DEF FactPhases, BusyPhases
<1>4. CASE UNCHANGED vars
  <2>1. AnswersAtRest'
    BY <1>4, AnswersAtRestKept DEF vars, chainVars, databaseVars, AnswerInv, AnswersAtRest
  <2>2. ResolutionsTaken'
    BY <1>4 DEF vars, chainVars, databaseVars, AnswerInv, ResolutionsTaken, NewResolutions,
                Taken, Busy, Written, RowsAgree, ResolutionIds, AheadOf
  <2>3. ViewIsCurrent' /\ WritesAreInOrder'
    BY <1>4 DEF vars, chainVars, databaseVars, AnswerInv, ViewIsCurrent, NewResolutions,
                EarlierOf, WritesAreInOrder, IsFirst, ResolutionIds, FlagsOf
  <2>4. QED
    BY <2>1, <2>2, <2>3 DEF AnswerInv, AnswersAtRest
<1>5. QED
  BY <1>2, <1>3, <1>4, AnswersListed, FactRead, ResolutionWritten, EvidenceWritten,
     FlagsWritten, FactWritten, AnswersFinished DEF Next, SyncStep, Outside

-----------------------------------------------------------------------------
(* The theorems. *)

LEMMA IndexerInvariant == Spec => []IndexerInv
<1>1. Init => IndexerInv
  BY InitSatisfies
<1>2. IndexerInv /\ [Next]_vars => IndexerInv'
  <2> SUFFICES ASSUME IndexerInv, [Next]_vars PROVE IndexerInv'
    OBVIOUS
  <2>1. ChainInv /\ ControlInv /\ RequestInv /\ PolicyInv /\ AnswerInv
    BY DEF IndexerInv
  <2>2. ChainInv'
    <3>1. CASE Outside
      BY <2>1, <3>1, OutsideMoves DEF ControlInv
    <3>2. CASE Begin \/ SyncStep \/ Fail \/ Restart \/ UNCHANGED vars
      <4>1. UNCHANGED <<requests, resolutions, facts>>
        BY <3>2 DEF Begin, SyncStep, Fail, Restart, ReadCounters, ReadEvents, SyncPolicy,
                    ListRequests, SyncRequest, SyncResolutions, ReadFact, WriteResolution,
                    WriteEvidence, WriteFlags, WriteFact, Finish, vars, chainVars
      <4>2. QED
        BY <2>1, <4>1, ChainStays
    <3>3. QED
      BY <3>1, <3>2 DEF Next, Outside
  <2>3. ControlInv'
    BY <2>1, ControlStays
  <2>4. RequestInv'
    BY <2>1, RequestsStay
  <2>5. PolicyInv'
    BY <2>1, PoliciesStay
  <2>6. AnswerInv'
    BY <2>1, AnswersStay
  <2>7. QED
    BY <2>2, <2>3, <2>4, <2>5, <2>6 DEF IndexerInv
<1>3. QED
  BY <1>1, <1>2, PTL DEF Spec

\* The projection is well formed: rows without a gap, for records that exist.
THEOREM ProjectionIsWellFormed == Spec => []TypeOK
<1>1. IndexerInv => TypeOK
  <2> SUFFICES ASSUME IndexerInv PROVE TypeOK
    OBVIOUS
  <2>1. PICK n \in Nat : requestRows \in [1 .. n -> RequestRow]
    BY DEF IndexerInv, RequestInv, RowsHaveNoGap
  <2>2. DOMAIN requestRows = 1 .. n /\ Cardinality(1 .. n) = n
    BY <2>1, FS_Interval
  <2>3. requestRows \in [1 .. Cardinality(DOMAIN requestRows) -> RequestRow]
    BY <2>1, <2>2
  <2>4. RequestRow = [status : Terminal \cup {"DISPATCHED"},
                      callback : {"NOT_REQUESTED", "DISPATCHED", "ACKNOWLEDGED", "FAILED_REPORTED"}]
    BY DEF RequestRow, Callbacks
  <2>5. /\ resolutionRows \in [DOMAIN resolutionRows -> [canonical : BOOLEAN, latest : BOOLEAN]]
        /\ DOMAIN resolutionRows \subseteq DOMAIN resolutions
        /\ evidenceRows \subseteq DOMAIN resolutionRows
    BY DEF IndexerInv, AnswerInv, AnswerTypes
  <2>6. policyRows \in [Policies -> PolicyStates] /\ Within(sync)
    BY DEF IndexerInv, PolicyInv, ControlInv
  <2>7. QED
    BY <2>3, <2>4, <2>5, <2>6 DEF TypeOK, Within
<1>2. QED
  BY <1>1, IndexerInvariant, PTL

\* What a checkpoint says is done is in the database, whatever failed on the way.
THEOREM CheckpointsHoldTheirWord == Spec => []CheckpointsCover
<1>1. IndexerInv => CheckpointsCover
  <2> SUFFICES ASSUME IndexerInv PROVE CheckpointsCover
    OBVIOUS
  <2>1. 1 .. sync.requests \subseteq DOMAIN requestRows
    BY DEF IndexerInv, RequestInv
  <2>2. \A id \in 1 .. sync.resolutions : Written(id) /\ factRows[resolutions[id].key].latest >= id
    BY DEF IndexerInv, AnswerInv, AnswersCovered
  <2>3. \A p \in Policies : Shown(sync.events, p)
    BY DEF IndexerInv, PolicyInv
  <2>4. QED
    BY <2>1, <2>2, <2>3 DEF CheckpointsCover, Written, Shown
<1>2. QED
  BY <1>1, IndexerInvariant, PTL

\* A reader between two writes of a pass is never served a retired answer as canonical.
THEOREM ServedAnswersAreCurrent == Spec => []ServedAnswerIsCurrent
<1>1. IndexerInv => ServedAnswerIsCurrent
  BY DEF IndexerInv, AnswerInv, FlagsAreCurrent, ServedAnswerIsCurrent
<1>2. QED
  BY <1>1, IndexerInvariant, PTL

(***************************************************************************)
(* Flags and row of a fact without resolutions after the checkpoint agree: *)
(* after a pass that succeeded, and at any other moment too.               *)
(***************************************************************************)
THEOREM FinishedPassesAgree == Spec => []FinishedPassAgrees
<1>1. IndexerInv => FinishedPassAgrees
  <2> SUFFICES ASSUME IndexerInv, NEW k \in FactKeys, CaughtUp(k) PROVE RowsAgree(k)
    BY DEF FinishedPassAgrees
  <2>1. ~AheadOf(sync.resolutions, k)
    <3>1. \A id \in DOMAIN resolutions : id \in Nat
      BY LenProperties DEF IndexerInv, ChainInv, ChainTypes
    <3>2. sync.resolutions \in Nat
      BY DEF IndexerInv, ControlInv, Checkpoint
    <3>3. QED
      BY <3>1, <3>2 DEF CaughtUp, AheadOf
  <2>2. QED
    BY <2>1 DEF IndexerInv, AnswerInv, AgreeOrAhead
<1>2. QED
  BY <1>1, IndexerInvariant, PTL

\* No write takes the projection back.
Advances ==
    /\ \A k \in FactKeys : /\ factRows'[k].current >= factRows[k].current
                           /\ factRows'[k].latest >= factRows[k].latest
    /\ \A i \in DOMAIN requestRows :
          requestRows[i].status \in Terminal => requestRows'[i].status = requestRows[i].status
    /\ \A p \in Policies : policyRows[p] = "deprecated" => policyRows'[p] = "deprecated"
    /\ sync'.requests >= sync.requests /\ sync'.resolutions >= sync.resolutions
    /\ sync'.events >= sync.events

LEMMA StepsAdvance ==
    ASSUME IndexerInv, [Next]_vars PROVE Advances
<1>1. ChainInv /\ ControlInv /\ RequestInv /\ PolicyInv /\ AnswerInv
  BY DEF IndexerInv
<1>2. \A k \in FactKeys : factRows[k].current \in Nat /\ factRows[k].latest \in Nat
  BY <1>1 DEF AnswerInv, AnswerTypes, Pointers
<1>3. sync.requests \in Nat /\ sync.resolutions \in Nat /\ sync.events \in Nat
  BY <1>1 DEF ControlInv, Checkpoint
<1>4. CASE UNCHANGED <<databaseVars, sync>>
  BY <1>2, <1>3, <1>4 DEF Advances, databaseVars
<1>5. CASE SyncRequest
  <2>1. PICK i \in pass.todo : requestRows' = With(requestRows, i, RowOf(requests[i]))
    BY <1>5 DEF SyncRequest
  <2>2. UNCHANGED <<factRows, policyRows, sync>>
    BY <1>5 DEF SyncRequest
  <2>3. ASSUME NEW j \in DOMAIN requestRows, requestRows[j].status \in Terminal
        PROVE  requestRows'[j].status = requestRows[j].status
    <3>1. requests[j].status = requestRows[j].status
      BY <1>1, <2>3 DEF RequestInv, EndsAreFinal
    <3>2. requestRows'[j] = IF j = i THEN RowOf(requests[j]) ELSE requestRows[j]
      BY <2>1 DEF With
    <3>3. QED
      BY <3>1, <3>2 DEF RowOf
  <2>4. QED
    BY <1>2, <1>3, <2>2, <2>3 DEF Advances
<1>6. CASE SyncPolicy
  <2>1. PICK n \in pass.todo :
            policyRows' = [policyRows EXCEPT ![events[n]] = StateAfter(Len(events), events[n])]
    BY <1>6 DEF SyncPolicy
  <2>2. UNCHANGED <<factRows, requestRows, sync>>
    BY <1>6 DEF SyncPolicy
  <2>3. ASSUME NEW p \in Policies, policyRows[p] = "deprecated"
        PROVE  policyRows'[p] = "deprecated"
    BY <1>1, <2>1, <2>3 DEF PolicyInv, DeprecationsAreReal
  <2>4. QED
    BY <1>2, <1>3, <2>2, <2>3 DEF Advances
<1>7. CASE WriteFact
  <2>1. /\ pass.phase \in BusyPhases /\ factRows' = [factRows EXCEPT ![pass.key] = pass.view]
        /\ UNCHANGED <<requestRows, policyRows, sync>>
    BY <1>7 DEF WriteFact, BusyPhases
  <2>2. /\ factRows[pass.key].current <= pass.view.current
        /\ factRows[pass.key].latest <= pass.view.latest
        /\ pass.view \in Pointers /\ pass.key \in FactKeys
    BY <1>1, <2>1, WhileBusy DEF EarlierOf
  <2>3. ASSUME NEW k \in FactKeys
        PROVE  /\ factRows'[k].current >= factRows[k].current
               /\ factRows'[k].latest >= factRows[k].latest
    <3>1. factRows'[k] = IF k = pass.key THEN pass.view ELSE factRows[k]
      BY <1>1, <2>1 DEF AnswerInv, AnswerTypes
    <3>2. QED
      BY <1>2, <2>2, <3>1 DEF Pointers
  <2>4. QED
    BY <1>3, <2>1, <2>3 DEF Advances
<1>8. CASE WriteResolution \/ WriteEvidence \/ WriteFlags
  <2>1. UNCHANGED <<factRows, requestRows, policyRows, sync>>
    BY <1>8 DEF WriteResolution, WriteEvidence, WriteFlags
  <2>2. QED
    BY <1>2, <1>3, <2>1 DEF Advances
<1>9. CASE Finish
  <2>1. /\ pass.phase = "facts" /\ sync' = NextCheckpoint
        /\ UNCHANGED <<factRows, requestRows, policyRows>>
    BY <1>9 DEF Finish, databaseVars
  <2>2. /\ pass.from = sync /\ pass.ends \in Checkpoint
        /\ sync.requests <= pass.ends.requests /\ sync.resolutions <= pass.ends.resolutions
        /\ sync.events <= pass.ends.events
    BY <1>1, <2>1 DEF ControlInv, Counted, Pass
  <2>3. /\ sync.requests <= EndOf(sync.requests, pass.ends.requests)
        /\ sync.resolutions <= EndOf(sync.resolutions, pass.ends.resolutions)
        /\ EndOf(sync.requests, pass.ends.requests) \in Nat
        /\ EndOf(sync.resolutions, pass.ends.resolutions) \in Nat
    BY <1>3, <2>2, EndOfBounds DEF Checkpoint
  <2>4. /\ sync'.requests = EndOf(sync.requests, pass.ends.requests)
        /\ sync'.resolutions = EndOf(sync.resolutions, pass.ends.resolutions)
        /\ sync'.events = pass.ends.events /\ pass.ends.events \in Nat
    BY <2>1, <2>2 DEF NextCheckpoint, Checkpoint
  <2>5. /\ sync'.requests >= sync.requests /\ sync'.resolutions >= sync.resolutions
        /\ sync'.events >= sync.events
    BY <1>3, <2>2, <2>3, <2>4
  <2>6. QED
    BY <1>2, <2>1, <2>5 DEF Advances
<1>10. RegistryMoves \/ (\E p \in Policies : Announce(p)) \/ Begin \/ Fail \/ Restart
       \/ ReadCounters \/ ReadEvents \/ ListRequests \/ SyncResolutions \/ ReadFact
       \/ UNCHANGED vars => UNCHANGED <<databaseVars, sync>>
  BY DEF RegistryMoves, Announce, Begin, Fail, Restart, ReadCounters, ReadEvents, ListRequests,
         SyncResolutions, ReadFact, vars
<1>11. QED
  BY <1>4, <1>5, <1>6, <1>7, <1>8, <1>9, <1>10 DEF Next, SyncStep

\* Pointers, ended requests, deprecations and checkpoints only move on.
THEOREM ProjectionNeverGoesBack == Spec => ProjectionAdvances
<1>1. IndexerInv /\ [Next]_vars => [Advances]_vars
  BY StepsAdvance
<1>2. QED
  BY <1>1, IndexerInvariant, PTL DEF Spec, ProjectionAdvances, Advances
=============================================================================
