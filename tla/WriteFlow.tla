----------------------------- MODULE WriteFlow ------------------------------
(***************************************************************************)
(* A user's protocol writes from the open pages of the web app: the click, *)
(* the fee quote, the wallet's approval, the transaction followed to its   *)
(* finalization, the pending pointer all pages share through local         *)
(* storage, and its reconciliation when a page is opened again.            *)
(*                                                                         *)
(* A call is one execution of submitUserWrite or reconcilePendingWrite. A  *)
(* page may run several at once: its button is off only while its panel's  *)
(* progress is a pending stage, and a call that another panel started goes *)
(* on unseen. Every await is a gap in which the other calls, the wallet    *)
(* and the chain move. A transaction is named by the call that made it.    *)
(***************************************************************************)
EXTENDS Naturals

CONSTANTS
    Pages,        \* open pages of one browser
    Calls,        \* bound: writes and reconciliations
    None,
    Storage,      \* local storage can be written; it is optional
    MaxFailures   \* bound: awaits that fail

ASSUME WriteAssumption ==
    /\ None \notin Pages \cup Calls
    /\ Storage \in BOOLEAN /\ MaxFailures \in Nat

VARIABLES
    busy,      \* the progress that each page's panel shows is a pending stage
    attached,  \* the calls that report their progress to a panel on show
    host,      \* the page each call runs in
    stage,     \* what each call waits for
    follows,   \* the transaction whose decision or finalization it waits for
    txs,       \* what the chain makes of each write's transaction
    stored,    \* the transaction of the pending pointer
    failures,
    known,     \* history: transactions whose identifier a page received
    rivals,    \* history: the writes between check and pointer when a write passed its check
    shared,    \* history: transactions that two calls waited for at once
    displaced  \* history: transactions whose pointer another's took or cleared

panel == <<busy, attached>>
history == <<known, rivals, shared, displaced>>
vars == <<panel, host, stage, follows, txs, stored, failures, history>>

NoTransaction == "none"

Init ==
    /\ busy = [p \in Pages |-> FALSE] /\ attached = {}
    /\ host = [c \in Calls |-> None] /\ stage = [c \in Calls |-> "free"]
    /\ follows = [c \in Calls |-> None] /\ txs = [c \in Calls |-> NoTransaction]
    /\ stored = None /\ failures = 0
    /\ known = {} /\ rivals = [c \in Calls |-> {}] /\ shared = {} /\ displaced = {}

-----------------------------------------------------------------------------
(* The chain. *)

\* Consensus refuses (undetermined, timeout) or accepts; then it is made final,
\* unless the transaction is canceled.
Follows ==
    [none |-> {}, pending |-> {"accepted", "refused", "canceled"},
     accepted |-> {"finalized", "canceled"}, refused |-> {}, canceled |-> {}, finalized |-> {}]

ChainMoves(t, s) ==
    /\ s \in Follows[txs[t]]
    /\ txs' = [txs EXCEPT ![t] = s]
    /\ UNCHANGED <<panel, host, stage, follows, stored, failures, history>>

-----------------------------------------------------------------------------
(* submitUserWrite, and the button that calls it. *)

Goes(c, s) == stage' = [stage EXCEPT ![c] = s]

\* onProgress with a pending stage, or the catch: seen if the panel is still there.
Reports(c, pending) ==
    busy' = IF c \in attached THEN [busy EXCEPT ![host[c]] = pending] ELSE busy

\* Nobody waits for the call any more.
Ends(c) ==
    /\ Goes(c, "over") /\ Reports(c, FALSE)
    /\ attached' = attached \ {c}
    /\ host' = [host EXCEPT ![c] = None] /\ follows' = [follows EXCEPT ![c] = None]

\* The wallet has an account on the frozen network, as far as the page knows. The
\* panel's progress is left as it is: the button stays on. (The create page keeps it
\* off after a finalization.)
Click(c, p, payable) ==
    /\ stage[c] = "free"
    /\ ~busy[p]
    /\ Goes(c, IF payable THEN "quoting" ELSE "checking")
    /\ host' = [host EXCEPT ![c] = p] /\ attached' = attached \cup {c}
    /\ UNCHANGED <<busy, follows, txs, stored, failures, history>>

\* quoteProtocolFee, quoteRetryFee.
Quote(c) ==
    /\ stage[c] = "quoting" /\ Goes(c, "checking")
    /\ UNCHANGED <<panel, host, follows, txs, stored, failures, history>>

\* Mutant: the pointer is not looked at.
NoPointer == TRUE
NothingPending == stored = None

\* Between the pending check and the pointer.
Unrecorded == {c \in Calls : stage[c] \in {"preparing", "wallet", "submitted"}}

\* The wallet is asked for its network, which may be any by now; then the
\* pending pointer is read.
Check(c, onFrozenNetwork) ==
    /\ stage[c] = "checking"
    /\ IF onFrozenNetwork /\ NothingPending
       THEN /\ Goes(c, "preparing") /\ Reports(c, TRUE)
            /\ rivals' = [rivals EXCEPT ![c] = Unrecorded]
            /\ UNCHANGED <<attached, host, follows>>
       ELSE Ends(c) /\ UNCHANGED rivals
    /\ UNCHANGED <<txs, stored, failures, known, shared, displaced>>

\* The SDK client and its estimate of the execution fees.
Prepare(c) ==
    /\ stage[c] = "preparing" /\ Goes(c, "wallet") /\ Reports(c, TRUE)
    /\ UNCHANGED <<attached, host, follows, txs, stored, failures, history>>

Reject(c) ==
    /\ stage[c] = "wallet" /\ Ends(c)
    /\ UNCHANGED <<txs, stored, failures, history>>

\* The user approves; the identifier is still on its way to the page.
Approve(c) ==
    /\ stage[c] = "wallet" /\ Goes(c, "submitted")
    /\ txs' = [txs EXCEPT ![c] = "pending"]
    /\ UNCHANGED <<panel, host, follows, stored, failures, history>>

\* A call that is about t sets or clears the pointer.
Keeps(pointer, t) ==
    /\ stored' = pointer
    /\ displaced' = displaced \cup {u \in Calls \ {t} : stored = u /\ pointer # u}

\* persistPendingWrite: the pointer is overwritten, whatever it was.
Pointer(t) == IF Storage THEN t ELSE stored

\* transactionId found in what the wallet returned.
Receive(c) ==
    /\ stage[c] = "submitted" /\ Goes(c, "consensus") /\ Reports(c, TRUE)
    /\ Keeps(Pointer(c), c)
    /\ follows' = [follows EXCEPT ![c] = c]
    /\ known' = known \cup {c}
    /\ UNCHANGED <<attached, host, txs, failures, rivals, shared>>

Writing(c) == follows[c] = c
DecidedWell(t) == txs[t] \in {"accepted", "finalized"}
Decided(t) == txs[t] \notin {NoTransaction, "pending"}
Ended(t) == txs[t] \in {"finalized", "canceled"}
FinalizedWell(t) == txs[t] = "finalized"

\* waitForDecision: on a refusal the pointer stays.
Decides(c) ==
    /\ stage[c] = "consensus" /\ Decided(follows[c])
    /\ IF DecidedWell(follows[c])
       THEN Goes(c, "finalizing") /\ Reports(c, TRUE) /\ UNCHANGED <<attached, host, follows>>
       ELSE Ends(c)
    /\ UNCHANGED <<txs, stored, failures, history>>

Decide(c) == Writing(c) /\ Decides(c)

\* Mutant: what the wait returned is not looked at.
ClearedAnyway(t) == IF Storage THEN None ELSE stored
\* clearPendingWrite, of whatever pointer there is.
Cleared(t) == IF FinalizedWell(t) /\ Storage THEN None ELSE stored

\* waitForFinalization.
Finalizes(c) ==
    /\ stage[c] = "finalizing" /\ Ended(follows[c])
    /\ Keeps(Cleared(follows[c]), follows[c]) /\ Ends(c)
    /\ UNCHANGED <<txs, failures, known, rivals, shared>>

Finalize(c) == Writing(c) /\ Finalizes(c)

\* A quote, a look at the wallet, an estimate or a wait fails, or transactionId finds
\* no identifier.
Awaiting == {"quoting", "checking", "preparing", "wallet", "submitted", "consensus", "finalizing"}
Fails(c) ==
    /\ stage[c] \in Awaiting /\ failures < MaxFailures
    /\ failures' = failures + 1
    /\ Ends(c)
    /\ UNCHANGED <<txs, stored, history>>

CallFails(c) == (stage[c] \in {"consensus", "finalizing"} => Writing(c)) /\ Fails(c)

-----------------------------------------------------------------------------
(* Opening pages, and reconcilePendingWrite. *)

In(p) == {c \in Calls : host[c] = p}

Where(calls, x, f) == [c \in Calls |-> IF c \in calls THEN x ELSE f[c]]

\* A reconciliation starts if there is a pointer.
Reconciles(new) ==
    IF stored = None THEN new = {} ELSE \E c \in Calls : stage[c] = "free" /\ new = {c}

\* The app is there anew on p, without the calls in gone: its panel shows
\* nothing yet, and the pointer's transaction is waited for by a new call.
Mounts(p, gone) ==
    /\ busy' = [busy EXCEPT ![p] = FALSE]
    /\ attached' = attached \ In(p)
    /\ \E new \in SUBSET Calls :
          /\ Reconciles(new)
          /\ stage' = Where(gone, "over", Where(new, "consensus", stage))
          /\ host' = Where(gone, None, Where(new, p, host))
          /\ follows' = Where(gone, None, Where(new, stored, follows))
    /\ shared' = shared \cup {t \in Calls : stored = t /\ \E c \in Calls \ gone : follows[c] = t}
    /\ UNCHANGED <<txs, stored, failures, known, rivals, displaced>>

\* A load ends what ran in the page.
Load(p) == Mounts(p, In(p))

\* Away from /app and back by the router: what ran in the page runs on.
Return(p) == Mounts(p, {})

\* Another panel of the app.
Navigate(p) ==
    /\ busy' = [busy EXCEPT ![p] = FALSE] /\ attached' = attached \ In(p)
    /\ UNCHANGED <<host, stage, follows, txs, stored, failures, history>>

ReconcileDecision(c) == ~Writing(c) /\ Decides(c)
ReconcileFinalization(c) == ~Writing(c) /\ Finalizes(c)
ReconciliationFails(c) ==
    stage[c] \in {"consensus", "finalizing"} /\ ~Writing(c) /\ Fails(c)

Next ==
    \/ \E t \in Calls, s \in {"accepted", "refused", "canceled", "finalized"} : ChainMoves(t, s)
    \/ \E p \in Pages :
          \/ Load(p) \/ Return(p) \/ Navigate(p)
          \/ \E c \in Calls, payable \in BOOLEAN : Click(c, p, payable)
    \/ \E c \in Calls :
          \/ Quote(c) \/ (\E right \in BOOLEAN : Check(c, right))
          \/ Prepare(c) \/ Reject(c) \/ Approve(c) \/ Receive(c)
          \/ Decide(c) \/ Finalize(c) \/ CallFails(c)
          \/ ReconcileDecision(c) \/ ReconcileFinalization(c) \/ ReconciliationFails(c)

Spec == Init /\ [][Next]_vars

-----------------------------------------------------------------------------
(* Properties. *)

Stages == Awaiting \cup {"free", "over"}

TypeOK ==
    /\ busy \in [Pages -> BOOLEAN] /\ attached \subseteq Calls
    /\ host \in [Calls -> Pages \cup {None}] /\ stage \in [Calls -> Stages]
    /\ follows \in [Calls -> Calls \cup {None}] /\ txs \in [Calls -> DOMAIN Follows]
    /\ stored \in Calls \cup {None} /\ failures \in 0 .. MaxFailures
    /\ known \subseteq Calls /\ rivals \in [Calls -> SUBSET Calls]
    /\ shared \subseteq Calls /\ displaced \subseteq Calls

\* Both had passed the pending check before the pointer of either was there.
Overlap(v, w) == v \in rivals[w] \/ w \in rivals[v]

(***************************************************************************)
(* A write whose identifier a page received and that is not final is what  *)
(* the pointer says, whatever is reloaded, left, refused or fails, unless  *)
(* some two writes were between pending check and pointer at once (two     *)
(* pages, or two clicks on one before its button is off), or some          *)
(* transaction was waited for twice at once (writes.ts).                   *)
(***************************************************************************)
OpenWriteIsRecorded ==
    Storage =>
        \A t \in known :
            \/ txs[t] = "finalized" \/ stored = t
            \/ shared # {} \/ \E v, w \in Calls : Overlap(v, w)

(***************************************************************************)
(* And in those cases too, an open transaction loses its pointer only to a *)
(* write that overlapped with its own, or to the finalization of another   *)
(* that had lost its own pointer before or was waited for twice: never to  *)
(* a write that was checked later, to a refusal, a failure or a reload     *)
(* (persistPendingWrite, clearPendingWrite).                               *)
(***************************************************************************)
Loses(t) == stored = t /\ stored' # t /\ txs[t] # "finalized"
LossHasACause ==
    [][\A t \in Calls : Loses(t) =>
          IF stored' \in Calls THEN Overlap(t, stored')
          ELSE \E v \in (displaced \cup shared) \ {t} : txs[v] = "finalized"]_vars
=============================================================================
