---------------------------- MODULE WriteProofs -----------------------------
(***************************************************************************)
(* Safety of WriteFlow for any set of pages, of calls and of failures.     *)
(***************************************************************************)
EXTENDS WriteFlow, TLAPS

Early == {"free", "quoting", "checking"}
Following == {"consensus", "finalizing"}

\* A write overlaps with nobody before it passes its check, is not known before it
\* is received, and a pointer or a wait is about a known transaction.
Ordered ==
    /\ \A c \in Calls :
          /\ stage[c] \in Early => rivals[c] = {}
          /\ stage[c] \in Early \/ c \in Unrecorded => c \notin known
          /\ stage[c] \in Following => follows[c] \in Calls
          /\ follows[c] \in Calls => follows[c] \in known
    /\ stored \in Calls => stored \in known /\ Storage

\* Writes between check and pointer overlap, and a pointer that is there by then is
\* that of a write that overlaps with each of them.
Racing ==
    /\ \A v, w \in Unrecorded : v # w => Overlap(v, w)
    /\ stored \in Calls => \A w \in Unrecorded : Overlap(stored, w)

Twice(t) == \E c, d \in Calls : c # d /\ follows[c] = t /\ follows[d] = t

\* Who waits for a transaction waits for the pointer's, for one that was displaced,
\* or is not the only one.
Waiting ==
    Storage =>
        \A c \in Calls : follows[c] \in Calls =>
            stored = follows[c] \/ follows[c] \in displaced \cup shared

WaitingTwice == \A t \in Calls : Twice(t) => t \in shared

Recorded ==
    Storage => \A t \in known : txs[t] = "finalized" \/ stored = t \/ t \in displaced

Caused == displaced # {} => shared # {} \/ \E v, w \in Calls : Overlap(v, w)

WriteInv ==
    /\ TypeOK /\ Ordered /\ Racing /\ Waiting /\ WaitingTwice /\ Recorded /\ Caused

-----------------------------------------------------------------------------
LEMMA InitWriteInv == Init => WriteInv
<1> SUFFICES ASSUME Init PROVE WriteInv
  OBVIOUS
<1>1. TypeOK
  BY WriteAssumption DEF Init, TypeOK, Stages, Awaiting, Follows, NoTransaction
<1>2. Unrecorded = {}
  BY DEF Init, Unrecorded
<1>3. Ordered /\ Racing
  BY <1>2, WriteAssumption DEF Init, Ordered, Racing, Early, Following
<1>4. Waiting /\ WaitingTwice /\ Recorded /\ Caused
  BY WriteAssumption DEF Init, Waiting, WaitingTwice, Twice, Recorded, Caused
<1> QED
  BY <1>1, <1>3, <1>4 DEF WriteInv

-----------------------------------------------------------------------------
\* A step that moves calls on, or ends them, without touching the pointer: nobody
\* passes the check, and nobody starts to wait.
Quiet ==
    /\ UNCHANGED <<stored, known, rivals, shared, displaced>>
    /\ \A c \in Calls :
          /\ stage'[c] \in Early => stage[c] \in Early
          /\ stage'[c] \in {"preparing", "wallet", "submitted"} => c \in Unrecorded
          /\ stage'[c] \in Following => stage[c] \in Following /\ follows'[c] = follows[c]
          /\ follows'[c] \in {follows[c], None}
          /\ txs[c] = "finalized" => txs'[c] = "finalized"

LEMMA QuietStep ==
    ASSUME WriteInv, Quiet, TypeOK'
    PROVE  WriteInv'
<1>1. /\ Unrecorded' \subseteq Unrecorded
      /\ \A v, w \in Calls : Overlap(v, w)' <=> Overlap(v, w)
  BY DEF Quiet, Unrecorded, Overlap
<1>2. Ordered'
  <2>1. \A c \in Calls : c \in Unrecorded' => c \in Unrecorded
    BY <1>1
  <2> QED
    BY <2>1, WriteAssumption DEF WriteInv, Ordered, Quiet
<1>3. Racing'
  <2>1. Unrecorded \subseteq Calls /\ stored' = stored
    BY DEF Unrecorded, Quiet
  <2>2. ASSUME NEW v \in Unrecorded', NEW w \in Unrecorded', v # w PROVE Overlap(v, w)'
    BY <1>1, <2>1, <2>2 DEF WriteInv, Racing
  <2>3. ASSUME stored' \in Calls, NEW w \in Unrecorded' PROVE Overlap(stored, w)'
    BY <1>1, <2>1, <2>3 DEF WriteInv, Racing
  <2> QED
    BY <2>2, <2>3 DEF Racing
<1>4. \A c \in Calls : follows'[c] \in Calls => follows'[c] = follows[c]
  BY WriteAssumption DEF Quiet
<1>5. Waiting' /\ WaitingTwice'
  BY <1>4 DEF WriteInv, Waiting, WaitingTwice, Twice, Quiet
<1>6. Recorded' /\ Caused'
  BY <1>1 DEF WriteInv, TypeOK, Recorded, Caused, Quiet
<1> QED
  BY <1>2, <1>3, <1>5, <1>6 DEF WriteInv

\* What a call that ends leaves behind.
LEMMA EndsType ==
    ASSUME NEW c \in Calls, TypeOK, Ends(c)
    PROVE  /\ stage' = [stage EXCEPT ![c] = "over"]
           /\ follows' = [follows EXCEPT ![c] = None]
           /\ busy' \in [Pages -> BOOLEAN] /\ attached' \subseteq Calls
           /\ host' \in [Calls -> Pages \cup {None}] /\ stage' \in [Calls -> Stages]
           /\ follows' \in [Calls -> Calls \cup {None}]
  BY DEF TypeOK, Ends, Goes, Reports, Stages

LEMMA QuietActions ==
    ASSUME NEW c \in Calls, WriteInv,
           \/ \E p \in Pages, payable \in BOOLEAN : Click(c, p, payable)
           \/ Quote(c) \/ Prepare(c) \/ Reject(c) \/ Decides(c) \/ Fails(c)
    PROVE  WriteInv'
<1> USE DEF Goes
<1>0. TypeOK
  BY DEF WriteInv
<1>1. CASE \E p \in Pages, payable \in BOOLEAN : Click(c, p, payable)
  <2>1. PICK p \in Pages, s \in {"quoting", "checking"} :
           /\ stage[c] = "free" /\ stage' = [stage EXCEPT ![c] = s]
           /\ host' = [host EXCEPT ![c] = p] /\ attached' = attached \cup {c}
           /\ UNCHANGED <<busy, follows, txs, stored, failures, history>>
    BY <1>1 DEF Click
  <2>2. TypeOK'
    BY <1>0, <2>1 DEF TypeOK, Stages, Awaiting, history
  <2>3. Quiet
    BY <1>0, <2>1 DEF TypeOK, Quiet, Early, Following, Unrecorded, history
  <2> QED
    BY <2>2, <2>3, QuietStep
<1>2. CASE Quote(c)
  <2>1. TypeOK'
    BY <1>0, <1>2 DEF TypeOK, Quote, Stages, Awaiting, panel, history
  <2>2. Quiet
    BY <1>0, <1>2 DEF TypeOK, Quote, Quiet, Early, Following, Unrecorded, history
  <2> QED
    BY <2>1, <2>2, QuietStep
<1>3. CASE Prepare(c)
  <2>1. TypeOK'
    BY <1>0, <1>3 DEF TypeOK, Prepare, Reports, Stages, Awaiting, history
  <2>2. Quiet
    BY <1>0, <1>3 DEF TypeOK, Prepare, Quiet, Early, Following, Unrecorded, history
  <2> QED
    BY <2>1, <2>2, QuietStep
<1>4. CASE Ends(c) /\ UNCHANGED <<txs, stored, history>> /\ failures' \in 0 .. MaxFailures
  <2>1. TypeOK'
    BY <1>0, <1>4, EndsType DEF TypeOK, history
  <2>2. Quiet
    BY <1>0, <1>4, EndsType DEF TypeOK, Quiet, Early, Following, Unrecorded, history
  <2> QED
    BY <2>1, <2>2, QuietStep
<1>5. CASE Reject(c)
  BY <1>0, <1>4, <1>5 DEF Reject, TypeOK
<1>6. CASE Fails(c)
  <2>1. failures' \in 0 .. MaxFailures
    BY <1>0, <1>6, WriteAssumption DEF Fails, TypeOK
  <2> QED
    BY <1>4, <1>6, <2>1 DEF Fails
<1>7. CASE Decides(c)
  <2>1. CASE DecidedWell(follows[c])
    <3>1. /\ stage[c] = "consensus" /\ stage' = [stage EXCEPT ![c] = "finalizing"]
          /\ Reports(c, TRUE)
          /\ UNCHANGED <<attached, host, follows, txs, stored, failures, history>>
      BY <1>7, <2>1 DEF Decides
    <3>2. TypeOK'
      BY <1>0, <3>1 DEF TypeOK, Reports, Stages, Awaiting, history
    <3>3. Quiet
      BY <1>0, <3>1 DEF TypeOK, Quiet, Early, Following, Unrecorded, history
    <3> QED
      BY <3>2, <3>3, QuietStep
  <2>2. CASE ~DecidedWell(follows[c])
    <3>1. Ends(c) /\ UNCHANGED <<txs, stored, history>> /\ failures' = failures
      BY <1>7, <2>2 DEF Decides
    <3> QED
      BY <1>0, <1>4, <3>1 DEF TypeOK
  <2> QED
    BY <2>1, <2>2
<1> QED
  BY <1>1, <1>2, <1>3, <1>5, <1>6, <1>7

LEMMA ApproveStep ==
    ASSUME NEW c \in Calls, WriteInv, Approve(c)
    PROVE  WriteInv'
<1>1. TypeOK'
  BY DEF WriteInv, TypeOK, Approve, Goes, Stages, Awaiting, Follows, panel, history
<1>2. c \notin known /\ stage[c] = "wallet"
  BY DEF WriteInv, Ordered, Unrecorded, Approve
<1>3. Unrecorded' = Unrecorded
  BY <1>2 DEF WriteInv, TypeOK, Approve, Goes, Unrecorded
<1>4. /\ \A d \in Calls : stage'[d] = IF d = c THEN "submitted" ELSE stage[d]
      /\ UNCHANGED <<follows, stored, known, rivals, shared, displaced>>
      /\ \A t \in known : txs'[t] = txs[t]
  BY <1>2 DEF WriteInv, TypeOK, Approve, Goes, history
<1>5. Ordered'
  BY <1>2, <1>3, <1>4 DEF WriteInv, Ordered, Early, Following
<1>6. Racing'
  BY <1>3, <1>4 DEF WriteInv, Racing, Overlap
<1>7. Waiting' /\ WaitingTwice' /\ Recorded' /\ Caused'
  BY <1>4 DEF WriteInv, Waiting, WaitingTwice, Twice, Recorded, Caused, Overlap
<1> QED
  BY <1>1, <1>5, <1>6, <1>7 DEF WriteInv

LEMMA ChainMovesStep ==
    ASSUME NEW t \in Calls, NEW s \in DOMAIN Follows, WriteInv, ChainMoves(t, s)
    PROVE  WriteInv'
<1>1. TypeOK'
  BY DEF WriteInv, TypeOK, ChainMoves, panel, history
<1>2. txs[t] # "finalized"
  BY DEF ChainMoves, Follows
<1>3. Quiet
  <2>1. \A c \in Calls : c # t => txs'[c] = txs[c]
    BY DEF WriteInv, TypeOK, ChainMoves
  <2> QED
    BY <1>2, <2>1 DEF Quiet, ChainMoves, Early, Following, Unrecorded, history
<1> QED
  BY <1>1, <1>3, QuietStep

LEMMA NavigateStep ==
    ASSUME NEW p \in Pages, WriteInv, Navigate(p)
    PROVE  WriteInv'
<1>1. TypeOK'
  BY DEF WriteInv, TypeOK, Navigate, history
<1>2. Quiet
  BY DEF Quiet, Navigate, Early, Following, Unrecorded, history
<1> QED
  BY <1>1, <1>2, QuietStep

\* Whoever passes the check overlaps with all that are before their pointer.
LEMMA CheckStep ==
    ASSUME NEW c \in Calls, NEW right \in BOOLEAN, WriteInv, Check(c, right)
    PROVE  WriteInv'
<1>0. TypeOK
  BY DEF WriteInv
<1>1. CASE right /\ NothingPending
  <2>1. /\ stage[c] = "checking" /\ stored = None /\ stage' = [stage EXCEPT ![c] = "preparing"]
        /\ Reports(c, TRUE) /\ rivals' = [rivals EXCEPT ![c] = Unrecorded]
        /\ UNCHANGED <<attached, host, follows, txs, stored, failures, known, shared, displaced>>
    BY <1>1 DEF Check, NothingPending, Goes
  <2>2. TypeOK'
    BY <1>0, <2>1 DEF TypeOK, Reports, Stages, Awaiting, Unrecorded
  <2>3. /\ rivals[c] = {} /\ c \notin known
        /\ Unrecorded' = Unrecorded \cup {c} /\ Unrecorded \subseteq Calls
        /\ \A d \in Calls : /\ rivals'[d] = IF d = c THEN Unrecorded ELSE rivals[d]
                            /\ stage'[d] = IF d = c THEN "preparing" ELSE stage[d]
    BY <1>0, <2>1 DEF WriteInv, TypeOK, Ordered, Early, Unrecorded
  <2>4. \A v, w \in Calls : Overlap(v, w) => Overlap(v, w)'
    BY <2>3 DEF Overlap
  <2>5. Ordered'
    BY <2>1, <2>3, WriteAssumption DEF WriteInv, Ordered, Early, Following
  <2>6. Racing'
    <3>1. ASSUME NEW v \in Unrecorded', NEW w \in Unrecorded', v # w PROVE Overlap(v, w)'
      <4>1. CASE v \in Unrecorded /\ w \in Unrecorded
        BY <2>3, <2>4, <3>1, <4>1 DEF WriteInv, Racing
      <4>2. CASE v = c /\ w \in Unrecorded
        BY <2>3, <4>2 DEF Overlap
      <4>3. CASE w = c /\ v \in Unrecorded
        BY <2>3, <4>3 DEF Overlap
      <4> QED
        BY <2>3, <3>1, <4>1, <4>2, <4>3
    <3>2. stored' \notin Calls
      BY <2>1, WriteAssumption
    <3> QED
      BY <3>1, <3>2 DEF Racing
  <2>7. Waiting' /\ WaitingTwice' /\ Recorded'
    BY <2>1 DEF WriteInv, Waiting, WaitingTwice, Twice, Recorded
  <2>8. Caused'
    BY <2>1, <2>4 DEF WriteInv, Caused
  <2> QED
    BY <2>2, <2>5, <2>6, <2>7, <2>8 DEF WriteInv
<1>2. CASE ~(right /\ NothingPending)
  <2>1. Ends(c) /\ UNCHANGED <<txs, stored, failures, history>>
    BY <1>2 DEF Check, history
  <2>2. TypeOK'
    BY <1>0, <2>1, EndsType DEF TypeOK, history
  <2>3. Quiet
    BY <1>0, <2>1, EndsType DEF TypeOK, Quiet, Early, Following, Unrecorded, history
  <2> QED
    BY <2>2, <2>3, QuietStep
<1> QED
  BY <1>1, <1>2

\* A write that is received displaces one that overlapped with it.
LEMMA ReceiveStep ==
    ASSUME NEW c \in Calls, WriteInv, Receive(c)
    PROVE  WriteInv'
<1>1. /\ stage[c] = "submitted" /\ stage' = [stage EXCEPT ![c] = "consensus"]
      /\ stored' = IF Storage THEN c ELSE stored
      /\ displaced' = displaced \cup {u \in Calls \ {c} : stored = u /\ stored' # u}
      /\ follows' = [follows EXCEPT ![c] = c] /\ known' = known \cup {c}
      /\ UNCHANGED <<attached, host, txs, failures, rivals, shared>> /\ Reports(c, TRUE)
  BY DEF Receive, Goes, Keeps, Pointer
<1>2. TypeOK'
  BY <1>1 DEF WriteInv, TypeOK, Reports, Stages, Awaiting
<1>3. /\ c \in Unrecorded /\ c \notin known
      /\ Unrecorded' = Unrecorded \ {c}
      /\ \A d \in Calls : /\ stage'[d] = IF d = c THEN "consensus" ELSE stage[d]
                          /\ follows'[d] = IF d = c THEN c ELSE follows[d]
      /\ \A v, w \in Calls : Overlap(v, w)' <=> Overlap(v, w)
  BY <1>1 DEF WriteInv, TypeOK, Ordered, Unrecorded, Overlap
<1>4. \A d \in Calls : follows[d] # c
  BY <1>3 DEF WriteInv, Ordered
<1>5. Ordered'
  BY <1>1, <1>3, WriteAssumption DEF WriteInv, TypeOK, Ordered, Early, Following
<1>6. Racing'
  <2>0. Unrecorded \subseteq Calls
    BY DEF Unrecorded
  <2>1. ASSUME NEW v \in Unrecorded', NEW w \in Unrecorded', v # w PROVE Overlap(v, w)'
    BY <1>3, <2>0, <2>1 DEF WriteInv, Racing
  <2>2. ASSUME stored' \in Calls, NEW w \in Unrecorded' PROVE Overlap(stored, w)'
    <3>1. stored' \in {c, stored}
      BY <1>1
    <3>2. w \in Unrecorded /\ w # c /\ w \in Calls
      BY <1>3, <2>0, <2>2
    <3>3. Overlap(stored', w)
      BY <1>3, <2>2, <3>1, <3>2 DEF WriteInv, Racing
    <3> QED
      BY <1>1, <3>3 DEF Overlap
  <2> QED
    BY <2>1, <2>2 DEF Racing
<1>7. ASSUME NEW t \in Calls, t \in known, Storage, stored = t PROVE t \in displaced'
  BY <1>1, <1>3, <1>7
<1>8. Waiting'
  <2> SUFFICES ASSUME Storage, NEW d \in Calls, follows'[d] \in Calls
               PROVE  stored' = follows'[d] \/ follows'[d] \in displaced' \cup shared'
    BY DEF Waiting
  <2>1. CASE d = c
    BY <1>1, <1>3, <2>1
  <2>2. CASE d # c
    <3>1. follows'[d] = follows[d] /\ follows[d] \in known
      BY <1>3, <2>2 DEF WriteInv, Ordered
    <3> QED
      BY <1>1, <1>7, <3>1 DEF WriteInv, Waiting
  <2> QED
    BY <2>1, <2>2
<1>9. WaitingTwice'
  BY <1>1, <1>3, <1>4 DEF WriteInv, WaitingTwice, Twice
<1>10. Recorded'
  <2> SUFFICES ASSUME Storage, NEW t \in known', txs'[t] # "finalized", stored' # t
               PROVE  t \in displaced'
    BY DEF Recorded
  <2>1. t \in known /\ t \in Calls /\ txs[t] # "finalized"
    BY <1>1 DEF WriteInv, TypeOK
  <2> QED
    BY <1>1, <1>7, <2>1 DEF WriteInv, Recorded
<1>11. Caused'
  <2>1. CASE displaced' = displaced
    BY <1>1, <1>3, <2>1 DEF WriteInv, Caused
  <2>2. CASE displaced' # displaced
    <3>1. stored \in Calls
      BY <1>1, <2>2
    <3>2. Overlap(stored, c)
      BY <1>3, <3>1 DEF WriteInv, Racing
    <3> QED
      BY <1>3, <3>1, <3>2 DEF Caused
  <2> QED
    BY <2>1, <2>2
<1> QED
  BY <1>2, <1>5, <1>6, <1>8, <1>9, <1>10, <1>11 DEF WriteInv

\* A finalization that clears another's pointer was itself displaced or shared.
LEMMA FinalizesStep ==
    ASSUME NEW c \in Calls, WriteInv, Finalizes(c)
    PROVE  WriteInv'
<1>1. /\ stage[c] = "finalizing" /\ Ends(c)
      /\ stored' = Cleared(follows[c])
      /\ displaced' = displaced \cup {u \in Calls \ {follows[c]} : stored = u /\ stored' # u}
      /\ UNCHANGED <<txs, failures, known, rivals, shared>>
  BY DEF Finalizes, Keeps
<1>2. follows[c] \in Calls /\ stored' \in {None, stored}
      /\ (stored' # stored => txs[follows[c]] = "finalized")
  BY <1>1 DEF WriteInv, Ordered, Following, Cleared, FinalizedWell
<1>3. TypeOK'
  BY <1>1, <1>2, EndsType DEF WriteInv, TypeOK
<1>4. /\ Unrecorded' = Unrecorded
      /\ \A d \in Calls : /\ stage'[d] = IF d = c THEN "over" ELSE stage[d]
                          /\ follows'[d] = IF d = c THEN None ELSE follows[d]
      /\ \A v, w \in Calls : Overlap(v, w)' <=> Overlap(v, w)
  BY <1>1, EndsType DEF WriteInv, TypeOK, Unrecorded, Overlap
<1>5. Ordered'
  BY <1>1, <1>2, <1>4, WriteAssumption DEF WriteInv, Ordered, Early, Following
<1>6. Racing'
  BY <1>1, <1>2, <1>4, WriteAssumption DEF WriteInv, Racing, Overlap, Unrecorded
<1>7. Waiting'
  <2> SUFFICES ASSUME Storage, NEW d \in Calls, follows'[d] \in Calls
               PROVE  stored' = follows'[d] \/ follows'[d] \in displaced' \cup shared'
    BY DEF Waiting
  <2>1. d # c /\ follows'[d] = follows[d]
    BY <1>4, WriteAssumption
  <2>2. CASE stored # follows[d]
    BY <1>1, <2>1, <2>2 DEF WriteInv, Waiting
  <2>3. CASE stored = follows[d] /\ follows[d] # follows[c]
    BY <1>1, <2>1, <2>3
  <2>4. CASE follows[d] = follows[c]
    BY <1>1, <1>2, <2>1, <2>4 DEF WriteInv, WaitingTwice, Twice
  <2> QED
    BY <2>2, <2>3, <2>4
<1>8. WaitingTwice'
  BY <1>1, <1>4, WriteAssumption DEF WriteInv, WaitingTwice, Twice
<1>9. Recorded'
  BY <1>1, <1>2 DEF WriteInv, TypeOK, Recorded
<1>10. Caused'
  <2>1. CASE displaced' = displaced
    BY <1>1, <1>4, <2>1 DEF WriteInv, Caused
  <2>2. CASE displaced' # displaced
    <3>1. stored \in Calls /\ stored # follows[c]
      BY <1>1, <2>2
    <3>2. follows[c] \in displaced \cup shared
      BY <1>2, <3>1 DEF WriteInv, Waiting, Ordered
    <3>3. shared # {} \/ \E v, w \in Calls : Overlap(v, w)
      BY <3>2 DEF WriteInv, Caused
    <3> QED
      BY <1>1, <1>4, <3>3 DEF Caused
  <2> QED
    BY <2>1, <2>2
<1> QED
  BY <1>3, <1>5, <1>6, <1>7, <1>8, <1>9, <1>10 DEF WriteInv

\* A page that is opened waits for the pointer's transaction, and marks it if it is
\* not the only one.
LEMMA MountsStep ==
    ASSUME NEW p \in Pages, NEW gone \in SUBSET Calls, WriteInv, Mounts(p, gone)
    PROVE  WriteInv'
<1>1. PICK new \in SUBSET Calls :
         /\ Reconciles(new)
         /\ stage' = Where(gone, "over", Where(new, "consensus", stage))
         /\ host' = Where(gone, None, Where(new, p, host))
         /\ follows' = Where(gone, None, Where(new, stored, follows))
  BY DEF Mounts
<1>2. /\ busy' = [busy EXCEPT ![p] = FALSE] /\ attached' = attached \ In(p)
      /\ shared' = shared \cup {t \in Calls : stored = t /\ \E c \in Calls \ gone : follows[c] = t}
      /\ UNCHANGED <<txs, stored, failures, known, rivals, displaced>>
  BY DEF Mounts
<1>3. \A d \in Calls :
         /\ stage'[d] = IF d \in gone THEN "over" ELSE IF d \in new THEN "consensus" ELSE stage[d]
         /\ follows'[d] = IF d \in gone THEN None ELSE IF d \in new THEN stored ELSE follows[d]
  BY <1>1 DEF Where
<1>4. /\ new # {} => stored \in Calls
      /\ \A c, d \in new : c = d
  BY <1>1 DEF Reconciles, WriteInv, TypeOK
<1>5. TypeOK'
  <2>1. /\ stage' \in [Calls -> Stages] /\ host' \in [Calls -> Pages \cup {None}]
        /\ follows' \in [Calls -> Calls \cup {None}]
    BY <1>1 DEF WriteInv, TypeOK, Where, Stages, Awaiting
  <2> QED
    BY <1>2, <2>1 DEF WriteInv, TypeOK
<1>6. /\ Unrecorded' \subseteq Unrecorded
      /\ \A v, w \in Calls : Overlap(v, w)' <=> Overlap(v, w)
  BY <1>2, <1>3 DEF Unrecorded, Overlap
<1>7. Ordered'
  BY <1>2, <1>3, <1>4, <1>6, WriteAssumption DEF WriteInv, Ordered, Early, Following
<1>8. Racing'
  <2>1. Unrecorded \subseteq Calls
    BY DEF Unrecorded
  <2>2. ASSUME NEW v \in Unrecorded', NEW w \in Unrecorded', v # w PROVE Overlap(v, w)'
    BY <1>6, <2>1, <2>2 DEF WriteInv, Racing
  <2>3. ASSUME stored' \in Calls, NEW w \in Unrecorded' PROVE Overlap(stored, w)'
    BY <1>2, <1>6, <2>1, <2>3 DEF WriteInv, Racing
  <2> QED
    BY <2>2, <2>3 DEF Racing
<1>9. Waiting'
  BY <1>2, <1>3, WriteAssumption DEF WriteInv, Waiting
<1>10. WaitingTwice'
  <2> SUFFICES ASSUME NEW t \in Calls, NEW c \in Calls, NEW d \in Calls,
                      c # d, follows'[c] = t, follows'[d] = t
               PROVE  t \in shared'
    BY DEF WaitingTwice, Twice
  <2>1. c \notin gone /\ d \notin gone
    BY <1>3, WriteAssumption
  <2>2. CASE c \notin new /\ d \notin new
    BY <1>2, <1>3, <2>1, <2>2 DEF WriteInv, WaitingTwice, Twice
  <2>3. CASE c \in new /\ d \notin new
    BY <1>2, <1>3, <2>1, <2>3
  <2>4. CASE c \notin new /\ d \in new
    BY <1>2, <1>3, <2>1, <2>4
  <2> QED
    BY <1>4, <2>2, <2>3, <2>4
<1>11. Recorded'
  BY <1>2 DEF WriteInv, Recorded
<1>12. Caused'
  <2>1. shared \subseteq shared' /\ displaced' = displaced
    BY <1>2
  <2> QED
    BY <1>6, <2>1 DEF WriteInv, Caused
<1> QED
  BY <1>5, <1>7, <1>8, <1>9, <1>10, <1>11, <1>12 DEF WriteInv

LEMMA StepWriteInv == WriteInv /\ [Next]_vars => WriteInv'
<1> SUFFICES ASSUME WriteInv, [Next]_vars PROVE WriteInv'
  OBVIOUS
<1>1. CASE UNCHANGED vars
  <2>1. TypeOK'
    BY <1>1 DEF WriteInv, TypeOK, vars, panel, history
  <2>2. Quiet
    BY <1>1 DEF Quiet, vars, history, Unrecorded
  <2> QED
    BY <2>1, <2>2, QuietStep
<1>2. CASE \E t \in Calls, s \in {"accepted", "refused", "canceled", "finalized"} : ChainMoves(t, s)
  BY <1>2, ChainMovesStep DEF Follows
<1>3. ASSUME NEW p \in Pages, Load(p) \/ Return(p) \/ Navigate(p) PROVE WriteInv'
  <2>1. CASE Navigate(p)
    BY <2>1, NavigateStep
  <2>2. In(p) \in SUBSET Calls /\ {} \in SUBSET Calls
    BY DEF In
  <2>3. CASE Load(p)
    <3>1. Mounts(p, In(p))
      BY <2>3 DEF Load
    <3> QED
      BY <2>2, <3>1, MountsStep
  <2>4. CASE Return(p)
    <3>1. Mounts(p, {})
      BY <2>4 DEF Return
    <3> QED
      BY <2>2, <3>1, MountsStep
  <2> QED
    BY <1>3, <2>1, <2>3, <2>4
<1>4. ASSUME NEW c \in Calls,
             \/ \E p \in Pages, payable \in BOOLEAN : Click(c, p, payable)
             \/ Quote(c) \/ Prepare(c) \/ Reject(c)
             \/ Decide(c) \/ CallFails(c) \/ ReconcileDecision(c) \/ ReconciliationFails(c)
      PROVE  WriteInv'
  <2>1. \/ \E p \in Pages, payable \in BOOLEAN : Click(c, p, payable)
        \/ Quote(c) \/ Prepare(c) \/ Reject(c) \/ Decides(c) \/ Fails(c)
    BY <1>4 DEF Decide, CallFails, ReconcileDecision, ReconciliationFails
  <2> QED
    BY <2>1, QuietActions
<1>5. ASSUME NEW c \in Calls,
             \/ \E right \in BOOLEAN : Check(c, right)
             \/ Approve(c) \/ Receive(c) \/ Finalize(c) \/ ReconcileFinalization(c)
      PROVE  WriteInv'
  <2>1. \/ \E right \in BOOLEAN : Check(c, right)
        \/ Approve(c) \/ Receive(c) \/ Finalizes(c)
    BY <1>5 DEF Finalize, ReconcileFinalization
  <2> QED
    BY <2>1, CheckStep, ApproveStep, ReceiveStep, FinalizesStep
<1> QED
  BY <1>1, <1>2, <1>3, <1>4, <1>5 DEF Next

(***************************************************************************)
(* The strengthening holds in every reachable state.                       *)
(***************************************************************************)
THEOREM WriteInvHolds == Spec => []WriteInv
<1>1. Init => WriteInv
  BY InitWriteInv
<1>2. WriteInv /\ [Next]_vars => WriteInv'
  BY StepWriteInv
<1> QED
  BY <1>1, <1>2, PTL DEF Spec

(***************************************************************************)
(* Pages, calls, pointer and transactions keep their types.                *)
(***************************************************************************)
THEOREM WritesTyped == Spec => []TypeOK
<1>1. WriteInv => TypeOK
  BY DEF WriteInv
<1> QED
  BY <1>1, WriteInvHolds, PTL

(***************************************************************************)
(* A write whose identifier a page received and that is not final is what  *)
(* the pending pointer says, unless two writes were between check and      *)
(* pointer at once or a transaction was waited for twice at once.          *)
(***************************************************************************)
THEOREM OpenWriteRecorded == Spec => []OpenWriteIsRecorded
<1>1. WriteInv => OpenWriteIsRecorded
  BY DEF WriteInv, OpenWriteIsRecorded, Recorded, Caused
<1> QED
  BY <1>1, WriteInvHolds, PTL

(***************************************************************************)
(* Whatever races, an open transaction loses its pointer only to a write   *)
(* that overlapped with its own, or to the finalization of another that    *)
(* was displaced before or waited for twice.                               *)
(***************************************************************************)
THEOREM LossesHaveCauses == Spec => LossHasACause
<1>1. ASSUME WriteInv, [Next]_vars, NEW t \in Calls, Loses(t)
      PROVE  IF stored' \in Calls THEN Overlap(t, stored')
             ELSE \E v \in (displaced \cup shared) \ {t} : txs[v] = "finalized"
  <2>1. PICK c \in Calls : Receive(c) \/ Finalizes(c)
    <3>1. stored' # stored
      BY <1>1 DEF Loses
    <3> QED
      BY <1>1, <3>1
         DEF Next, vars, panel, history, ChainMoves, Load, Return, Mounts, Navigate, Click, Quote,
             Check, Prepare, Reject, Approve, Decide, Decides, Finalize, CallFails, Fails,
             ReconcileDecision, ReconcileFinalization, ReconciliationFails
  <2>2. CASE Receive(c)
    <3>1. stored' = c /\ c \in Unrecorded
      BY <1>1, <2>2 DEF Receive, Keeps, Pointer, Loses, Unrecorded
    <3> QED
      BY <1>1, <3>1 DEF WriteInv, Racing, Loses
  <2>3. CASE Finalizes(c)
    <3>1. /\ stored' = None /\ txs[follows[c]] = "finalized" /\ Storage
          /\ stage[c] = "finalizing"
      BY <1>1, <2>3 DEF Finalizes, Keeps, Cleared, FinalizedWell, Loses
    <3>2. follows[c] \in Calls /\ follows[c] # t
      BY <1>1, <3>1 DEF WriteInv, Ordered, Following, Loses
    <3>3. follows[c] \in displaced \cup shared
      BY <1>1, <3>1, <3>2 DEF WriteInv, Waiting, Loses
    <3> QED
      BY <3>1, <3>2, <3>3, WriteAssumption
  <2> QED
    BY <2>1, <2>2, <2>3
<1>2. WriteInv /\ [Next]_vars =>
         [\A t \in Calls : Loses(t) =>
             IF stored' \in Calls THEN Overlap(t, stored')
             ELSE \E v \in (displaced \cup shared) \ {t} : txs[v] = "finalized"]_vars
  BY <1>1
<1> QED
  BY <1>2, WriteInvHolds, PTL DEF Spec, LossHasACause
=============================================================================
