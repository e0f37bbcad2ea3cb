------------------------------ MODULE ReadPath ------------------------------
(***************************************************************************)
(* One record of the contracts between the chain and the API's clients:    *)
(* the indexer reads it, later writes its row, recomputes its freshness as *)
(* time passes, and the API answers from the row or, with source=chain,    *)
(* from reads of its own.  Contract and server share a clock.              *)
(***************************************************************************)
EXTENDS WireRecords

CONSTANTS
    Tables,       \* the kinds of record looked at
    Versions,     \* the contents the record may have: amount, count, tag, outcome, mutability
    StaleAfter,   \* 300 s: the age at which a cached row is called stale
    MaxPass,      \* bound: time from a read to its write in one pass
    MaxTime       \* bound: the clock

ASSUME ReadPathAssumption ==
    /\ Tables \subseteq DOMAIN Fields
    /\ \A c \in Versions : c.count \in 0 .. U32Max /\ c.amount \in 0 .. U256Max
    /\ StaleAfter \in Nat /\ MaxPass \in Nat /\ MaxTime \in Nat

VARIABLES
    table,        \* the kind of the record
    chain,        \* its version in the contract, or Absent
    now,
    pending,      \* what the indexer has read and not yet written
    row,          \* its row, with is_fresh and synced_at
    behind,       \* how long what the row says has differed from the contract's record
    answer        \* the last answer of the API, or a read it is in the middle of

vars == <<table, chain, now, pending, row, behind, answer>>

NoRecord == [record |-> <<>>, at |-> 0, behind |-> 0]
NoAnswer == [status |-> 0, code |-> "none", source |-> "none",
             record |-> <<>>, fresh |-> FALSE, stale |-> FALSE]
EmptyRow == [data |-> NoRow, isFresh |-> FALSE, freshAt |-> 0, syncedAt |-> 0]
Data == row.data

Init ==
    /\ table \in Tables /\ chain \in Versions \cup {Absent} /\ now = 0
    /\ pending = NoRecord /\ row = EmptyRow /\ behind = 0 /\ answer = NoAnswer

-----------------------------------------------------------------------------
(* Freshness: the contract's rule, and the one of indexer, repository, API. *)

ContractFresh(r, at) ==
    /\ r.current_outcome \in {"TRUE", "FALSE"}
    /\ r.mutability = "IMMUTABLE" \/ at <= r.valid_until
LocallyFresh(r, at) == r.mutability = "IMMUTABLE" \/ r.valid_until > at

IsFact == table = "facts"
FreshNow(r) == IsFact /\ LocallyFresh(r, now)

-----------------------------------------------------------------------------
(* The contract and the clock. *)

\* An answer is looked at when it is given; a chain read in progress goes on.
Forget == answer' = IF answer.source = "direct" /\ answer.status = 200 THEN answer ELSE NoAnswer

Change(c) ==
    /\ c # chain
    /\ chain' = c
    /\ Forget
    /\ UNCHANGED <<table, now, pending, row, behind>>

\* How long a copy has differed, one tick later.
Behind(copy, sofar) == IF copy = RecordOf(table, chain) THEN 0 ELSE sofar + 1

Tick ==
    /\ now < MaxTime
    /\ pending # NoRecord => now < pending.at + MaxPass
    /\ now' = now + 1
    /\ behind' = IF Data = NoRow THEN 0 ELSE Behind(RowToRecord(table, Data), behind)
    /\ pending' = IF pending = NoRecord THEN NoRecord
                  ELSE [pending EXCEPT !.behind = Behind(pending.record, @)]
    /\ Forget
    /\ UNCHANGED <<table, chain, row>>

-----------------------------------------------------------------------------
(* The indexer. *)

\* The record in one of the forms the RPC library gives it; a bad one ends the pass.
ReadRecord(form) ==
    LET wire == OnWire(table, chain, form)
    IN  /\ pending = NoRecord /\ table \in Stored /\ chain # Absent
        /\ Readable(table, wire, form)
        /\ pending' = [record |-> wire, at |-> now, behind |-> 0]
        /\ Forget
        /\ UNCHANGED <<table, chain, now, row, behind>>

\* A row that does not fit ends the pass too.
WriteRow ==
    /\ pending # NoRecord
    /\ pending' = NoRecord
    /\ IF Storable(table, pending.record)
       THEN /\ row' = [data |-> Upserted(table, Data, pending.record),
                       isFresh |-> FreshNow(pending.record), freshAt |-> now, syncedAt |-> now]
            /\ behind' = pending.behind
       ELSE UNCHANGED <<row, behind>>
    /\ Forget
    /\ UNCHANGED <<table, chain, now>>

\* Mutant: the freshness pass marks the row as synced.
RefreshedAndSynced(r) == [r EXCEPT !.isFresh = FreshNow(RowToRecord(table, Data)),
                                   !.freshAt = now, !.syncedAt = now]
Refreshed(r) == [r EXCEPT !.isFresh = FreshNow(RowToRecord(table, Data)), !.freshAt = now]

RefreshFactFreshness ==
    /\ IsFact /\ Data # NoRow
    /\ row' = Refreshed(row)
    /\ Forget
    /\ UNCHANGED <<table, chain, now, pending, behind>>

-----------------------------------------------------------------------------
(* The API. *)

\* Mutant: the flag of the last pass.
StoredFreshness(r) == row.isFresh
\* The flag of the last pass is not trusted.
EnvelopeFreshness(r) == FreshNow(r)

\* factEnvelope of the row, or the bare record where the table has no freshness.
Envelope(source, r) ==
    [status |-> 200, code |-> "none", source |-> source, record |-> r,
     fresh |-> EnvelopeFreshness(r), stale |-> now > row.syncedAt + StaleAfter]

Error(source, status, code) ==
    [NoAnswer EXCEPT !.source = source, !.status = status, !.code = code]

\* One row: a fact, resolution, request, policy or template, or evidence.
ServeCached(databaseUp) ==
    LET r == RowToRecord(table, Data)
    IN  /\ table \in Stored
        /\ answer' = IF ~databaseUp THEN Error("cache", 503, "read_service_unavailable")
                     ELSE IF Data = NoRow THEN Error("cache", 404, "not_found")
                     ELSE Envelope("cache", r)
        /\ UNCHANGED <<table, chain, now, pending, row, behind>>

\* listFacts with fresh=true or false filters by the stored flag.
ServeListed(wanted) ==
    LET r == RowToRecord(table, Data)
    IN  /\ IsFact /\ Data # NoRow /\ row.isFresh = wanted
        /\ answer' = Envelope("list", r)
        /\ UNCHANGED <<table, chain, now, pending, row, behind>>

\* A direct read of any record by one of the clients.
ReadDirectly(form) ==
    LET wire == OnWire(table, chain, form)
    IN  /\ answer' = IF ~Readable(table, wire, form) THEN Error("direct", 500, "internal_error")
                     ELSE IF chain = Absent THEN Error("direct", 404, "not_found")
                     ELSE [NoAnswer EXCEPT !.status = 200, !.source = "direct", !.record = wire]
        /\ UNCHANGED <<table, chain, now, pending, row, behind>>

\* chainFact reads the fact and then, among others, is_fact_fresh.
ReadFreshness ==
    /\ IsFact /\ answer.source = "direct" /\ answer.status = 200
    /\ answer' = [answer EXCEPT !.source = "chain",
                                !.fresh = ContractFresh(RecordOf(table, chain), now)]
    /\ UNCHANGED <<table, chain, now, pending, row, behind>>

\* An error of a call: an HTTP status that is retried (503 stands for it) or not,
\* a word its text is searched for, and the first word in capitals, taken for an
\* error code.  The scheduler's rejection while it cools down has "RPC" alone.
CallErrors ==
    [status : {0, 503}, word : {"none", "timeout"},
     code : {"none", "UNKNOWN_FACT", "RPC"}]
NonRetryableCodes == {"UNKNOWN_FACT"}

\* normalizeProtocolError.
Retryable(e) ==
    /\ e.status = 503 \/ e.word # "none"
    /\ e.code \notin NonRetryableCodes

\* Mutant: a record that could not be read is a record that is not there.
UnreadIsAbsent(e) == Error("direct", 404, "not_found")
\* setErrorHandler of a ProtocolReadError.
Unread(e) == Error("direct", IF Retryable(e) THEN 503 ELSE 502, "protocol_read_failed")

\* Either of the two reads may fail.
ReadFails(e) ==
    /\ answer' = Unread(e)
    /\ UNCHANGED <<table, chain, now, pending, row, behind>>

\* Requests the server turns down before it looks anything up.
Refusals ==
    {Error("none", 400, "invalid_request"), Error("none", 413, "request_too_large"),
     Error("none", 429, "rate_limit_exceeded"), Error("none", 500, "internal_error")}
Refuse ==
    /\ answer' \in Refusals
    /\ UNCHANGED <<table, chain, now, pending, row, behind>>

\* friendlyApiMessage of the web client.
Told(a) ==
    CASE a.code = "protocol_read_failed" -> "delayed"
      [] a.code = "not_found"            -> "not in the registry"
      [] a.code = "invalid_request"      -> "invalid"
      [] OTHER                           -> "unavailable"

Next ==
    \/ \E c \in Versions : Change(c)
    \/ Tick
    \/ \E form \in Forms : ReadRecord(form) \/ ReadDirectly(form)
    \/ WriteRow \/ RefreshFactFreshness
    \/ \E b \in BOOLEAN : ServeCached(b) \/ ServeListed(b)
    \/ ReadFreshness \/ (\E e \in CallErrors : ReadFails(e)) \/ Refuse

Spec == Init /\ [][Next]_vars
-----------------------------------------------------------------------------
(* Properties. *)

(***************************************************************************)
(* Whatever is answered is the contract's record at one moment, in every   *)
(* field: no update leaves an old column beside new ones, and no number    *)
(* comes out changed by a double, a decimal string, or a column's width    *)
(* (client.ts normalizeX, repository.ts upsertX and rowToX).               *)
(***************************************************************************)
AnswersAreOneVersion ==
    answer.status = 200 =>
        \E c \in Versions :
            \A f \in DOMAIN Fields[table] : answer.record[f] = ValueOf(table, c, f)

(***************************************************************************)
(* A fact served from the cache as fresh with a boolean answer is fresh by *)
(* the contract's rule at that moment, however long ago the last pass was  *)
(* (app.ts factEnvelope against evidra_registry.py _fact_is_fresh).        *)
(***************************************************************************)
FromCache == answer.status = 200 /\ answer.source \in {"cache", "list"} /\ IsFact
FreshIsAtLeastUnexpired ==
    FromCache /\ answer.fresh /\ answer.record.current_outcome \in {"TRUE", "FALSE"} =>
        ContractFresh(answer.record, now)

(***************************************************************************)
(* A client is told that a record is not in the registry only if it is not *)
(* there: neither the database's nor the provider's outages, the quota, an *)
(* undecodable record or a bad request ever read as absence (app.ts,       *)
(* errors.ts, web lib/api.ts).                                             *)
(***************************************************************************)
FailuresAreNotAbsence ==
    Told(answer) = "not in the registry" =>
        IF answer.source = "cache" THEN Data = NoRow ELSE chain = Absent

\* What docs/API.md says of it: the answer is the contract's freshness result.
FreshnessIsContracts ==
    FromCache => (answer.fresh <=> ContractFresh(answer.record, now))

(***************************************************************************)
(* A cached row that has been behind the contract for longer than the      *)
(* five minutes, and the pass that wrote it, is never served without the   *)
(* stale mark (app.ts factEnvelope, the synced_at columns).                *)
(***************************************************************************)
StaleIsConfessed ==
    FromCache /\ ~answer.stale => behind <= StaleAfter + MaxPass
=============================================================================
