---------------------------- MODULE WireRecords -----------------------------
(***************************************************************************)
(* The contracts' records on their way to a reader: what the RPC library   *)
(* delivers (wire), what the protocol client makes of it (normalizeX), the *)
(* row the repository keeps, and the record read back from the row.  A     *)
(* field is followed by its kind; its width matters where JavaScript's     *)
(* numbers or PostgreSQL's integer column are narrower than the contract's.*)
(***************************************************************************)
EXTENDS Naturals

CONSTANTS
    Int4Max,    \* 2^31 - 1: a column of type integer
    U32Max,     \* 2^32 - 1
    SafeMax,    \* 2^53 - 1: Number.MAX_SAFE_INTEGER
    U256Max     \* 2^256 - 1

ASSUME WidthAssumption ==
    /\ {Int4Max, U32Max, SafeMax, U256Max} \subseteq Nat
    /\ Int4Max < U32Max /\ U32Max < SafeMax /\ SafeMax < U256Max
    /\ SafeMax % 2 = 1

-----------------------------------------------------------------------------
(* The records' fields by kind. *)

\* A function from fields to their kinds.
ByKind(flag, u32, u256, address, text) ==
    [f \in flag \cup u32 \cup u256 \cup address \cup text |->
        CASE f \in flag -> "flag" [] f \in u32 -> "u32" [] f \in u256 -> "u256"
          [] f \in address -> "address" [] OTHER -> "text"]

PolicyFields ==
    ByKind({"exists", "active", "deprecated", "require_cross_check"},
           {"version", "min_primary_sources", "min_independent_sources"}, {"published_at"}, {},
           {"policy_id", "name", "allowed_classes", "disallowed_classes", "semantic_rules",
            "policy_hash"})

TemplateFields ==
    ByKind({"exists", "active", "deprecated"}, {"version", "default_policy_version"},
           {"published_at"}, {},
           {"template_id", "name", "fact_type", "required_fields", "resolution_instructions",
            "default_policy_id", "template_hash"})

RequestFields ==
    ByKind({"exists"}, {"policy_version", "max_attempts", "attempt_count", "template_version"},
           {"request_id", "created_at", "active_attempt_id", "last_attempt_at", "retry_after",
            "fee_paid", "ttl_seconds", "current_resolution_id"},
           {"requester", "assigned_resolver", "callback_target"},
           {"claim_key", "fact_key", "spec_hash", "policy_hash", "policy_id", "status",
            "callback_status", "reuse_mode", "mutability", "schema_version", "seed_urls_json",
            "subject", "predicate", "object_value", "qualifiers", "temporal", "description",
            "supplemental_urls_json", "template_id", "template_hash", "fact_type",
            "template_resolution_instructions"})

ResolutionFields ==
    ByKind({"exists", "policy_satisfied"}, {"resolution_version", "template_version"},
           {"resolution_id", "request_id", "attempt_id", "evaluated_at", "committed_at",
            "valid_until", "supersedes_resolution_id"}, {},
           {"claim_key", "fact_key", "spec_hash", "policy_hash", "outcome",
            "diagnostic_reason", "resolver_version", "evidence_manifest_hash",
            "reasoning_summary", "template_id", "template_hash"})

FactFields ==
    ByKind({"exists"}, {"resolution_version"},
           {"current_resolution_id", "latest_resolution_id", "current_request_id",
            "resolved_at", "valid_until"}, {},
           {"fact_key", "claim_key", "policy_hash", "schema_version", "mutability",
            "current_outcome", "template_hash"})

EvidenceFields ==
    ByKind({"is_primary", "is_independent", "policy_eligible"}, {}, {}, {},
           {"url", "canonical", "host", "status", "error", "origin", "category",
            "provenance_group", "source_class", "evidence_hash", "relevant_timestamp"})

ConfigFields ==
    ByKind({"paused_new_requests"}, {"max_attempts", "max_seed_urls"},
           {"fee_base", "fee_per_attempt", "fee_reuse", "retry_delay_seconds",
            "stale_after_seconds"},
           {"owner", "pending_owner", "guardian", "policy_registry", "default_resolver"},
           {"schema_version", "registry_version"})

StatsFields ==
    ByKind({"paused"}, {}, {"request_count", "resolution_count", "reused_count", "event_count"},
           {}, {})

ResolverFields ==
    ByKind({"exists", "enabled"}, {}, {"registered_at"}, {"resolver"},
           {"resolver_version", "capabilities"})

EventFields ==
    ByKind({}, {}, {"index", "timestamp"}, {}, {"topic", "payload"})

HistoryFields ==
    ByKind({}, {"offset", "limit", "total"}, {"resolution_ids"}, {}, {"fact_key"})

Fields ==
    [policies |-> PolicyFields, templates |-> TemplateFields, requests |-> RequestFields,
     resolutions |-> ResolutionFields, facts |-> FactFields, evidence |-> EvidenceFields,
     config |-> ConfigFields, stats |-> StatsFields, resolver |-> ResolverFields,
     events |-> EventFields, history |-> HistoryFields]

Stored == {"policies", "templates", "requests", "resolutions", "facts", "evidence"}
\* Tables whose rows are read back from the JSON copy, not from the columns.
ServedRaw == {"policies", "templates", "evidence"}

KeyOf ==
    [policies |-> {"policy_id", "version"}, templates |-> {"template_id", "version"},
     requests |-> {"request_id"}, resolutions |-> {"resolution_id"}, facts |-> {"fact_key"},
     evidence |-> {}]

-----------------------------------------------------------------------------
(* From the contract to the client.  A version of a record stands for its  *)
(* contents: an amount and a count for its numbers, a tag for its texts.   *)

Numeric == {"u32", "u256"}

\* What a view returns for a record that does not exist.
Absent == [amount |-> 0, count |-> 0, tag |-> 0, outcome |-> "", mutability |-> ""]

OfKind(kind, c) ==
    CASE kind = "u256" -> c.amount [] kind = "u32" -> c.count
      [] kind = "flag" -> c.tag = 1 [] OTHER -> c.tag
ValueOf(t, c, f) ==
    IF t \in Stored /\ f \in KeyOf[t] THEN 1
    ELSE CASE f \in {"outcome", "current_outcome"} -> c.outcome
           [] f = "mutability"                      -> c.mutability
           [] f = "exists"                          -> c # Absent
           [] OTHER                                 -> OfKind(Fields[t][f], c)

RecordOf(t, c) == [f \in DOMAIN Fields[t] |-> ValueOf(t, c, f)]

\* The library hands out a number as a bigint, as digits, or as a double, which
\* beyond SafeMax is only near the value; or it hands out something else.
Forms == {"bigint", "digits", "double", "other"}
Double(n) == IF n <= SafeMax THEN n ELSE n - (n % 2)
OnWire(t, c, form) ==
    [f \in DOMAIN Fields[t] |->
        IF Fields[t][f] \in Numeric /\ form = "double" THEN Double(ValueOf(t, c, f))
        ELSE ValueOf(t, c, f)]

\* Mutant: any JavaScript number is taken for an integer.
AnyNumber(n, form) == form # "other"
ToBigInt(n, form) == form \in {"bigint", "digits"} \/ (form = "double" /\ n <= SafeMax)
ToNumber(n, form) == ToBigInt(n, form) /\ n <= SafeMax

\* A record is refused as a whole if one field is not what it should be.
Readable(t, wire, form) ==
    \A f \in DOMAIN Fields[t] :
        CASE Fields[t][f] = "u256"    -> ToBigInt(wire[f], form)
          [] Fields[t][f] = "u32"     -> ToNumber(wire[f], form)
          [] Fields[t][f] = "address" -> form # "other"
          [] OTHER                    -> TRUE

-----------------------------------------------------------------------------
(* From the client to the row and back. *)

\* facts has names of its own for two columns.
ColumnOf(t, f) ==
    CASE t = "facts" /\ f = "current_resolution_id" -> "canonical_resolution_id"
      [] t = "facts" /\ f = "current_outcome"       -> "canonical_outcome"
      [] OTHER                                      -> f
Columns(t) == {ColumnOf(t, f) : f \in DOMAIN Fields[t] \ {"exists"}}

\* The statement fails on a number its integer column cannot hold.
Storable(t, rec) == \A f \in DOMAIN Fields[t] : Fields[t][f] = "u32" => rec[f] <= Int4Max

\* The columns of ON CONFLICT ... DO UPDATE SET.
OnConflict(t) == Columns(t) \ KeyOf[t]

NoRow == [columns |-> <<>>, raw |-> <<>>]

Upserted(t, row, rec) ==
    [columns |-> [n \in Columns(t) |->
        IF row = NoRow \/ n \in OnConflict(t)
        THEN rec[CHOOSE f \in DOMAIN Fields[t] : ColumnOf(t, f) = n]
        ELSE row.columns[n]],
     raw |-> rec]

RowToRecord(t, row) ==
    IF t \in ServedRaw THEN row.raw
    ELSE [f \in DOMAIN Fields[t] |-> IF f = "exists" THEN TRUE ELSE row.columns[ColumnOf(t, f)]]
=============================================================================
