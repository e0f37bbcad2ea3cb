--------------------------- MODULE ReadPathProofs ---------------------------
(***************************************************************************)
(* What ReadPath promises of an answer, for any versions of the record,    *)
(* widths of numbers and bounds.  The lemmas about WireRecords say that    *)
(* what the client accepts is exact and that a row gives back the record   *)
(* it was written from; the invariant then follows one record along.       *)
(***************************************************************************)
EXTENDS ReadPath, TLAPS

-----------------------------------------------------------------------------
(* The tables' columns. *)

\* Numbers are kept in fields of their own: no outcome, mutability or mark of existence.
LEMMA NumbersAreAmounts ==
    ASSUME NEW t \in DOMAIN Fields, NEW f \in DOMAIN Fields[t], Fields[t][f] \in Numeric
    PROVE  f \notin {"outcome", "current_outcome", "mutability", "exists"}
<1>1. CASE t = "policies"
  BY <1>1 DEF Fields, PolicyFields, ByKind, Numeric
<1>2. CASE t = "templates"
  BY <1>2 DEF Fields, TemplateFields, ByKind, Numeric
<1>3. CASE t = "requests"
  BY <1>3 DEF Fields, RequestFields, ByKind, Numeric
<1>4. CASE t = "resolutions"
  BY <1>4 DEF Fields, ResolutionFields, ByKind, Numeric
<1>5. CASE t = "facts"
  BY <1>5 DEF Fields, FactFields, ByKind, Numeric
<1>6. CASE t = "evidence"
  BY <1>6 DEF Fields, EvidenceFields, ByKind, Numeric
<1>7. CASE t = "config"
  BY <1>7 DEF Fields, ConfigFields, ByKind, Numeric
<1>8. CASE t = "stats"
  BY <1>8 DEF Fields, StatsFields, ByKind, Numeric
<1>9. CASE t = "resolver"
  BY <1>9 DEF Fields, ResolverFields, ByKind, Numeric
<1>10. CASE t = "events"
  BY <1>10 DEF Fields, EventFields, ByKind, Numeric
<1>11. CASE t = "history"
  BY <1>11 DEF Fields, HistoryFields, ByKind, Numeric
<1>12. QED
  BY <1>1, <1>2, <1>3, <1>4, <1>5, <1>6, <1>7, <1>8, <1>9, <1>10, <1>11 DEF Fields

\* The two columns of facts with names of their own are no other field's.
LEMMA CanonicalIsNoField ==
    /\ "canonical_resolution_id" \notin DOMAIN Fields["facts"]
    /\ "canonical_outcome" \notin DOMAIN Fields["facts"]
  BY DEF Fields, FactFields, ByKind

\* Every key column is a field of the record, under its own name.
LEMMA KeysAreFields ==
    ASSUME NEW t \in Stored, NEW n \in KeyOf[t]
    PROVE  /\ n \in DOMAIN Fields[t] \ {"exists"}
           /\ t = "facts" => n = "fact_key"
<1>1. CASE t = "policies"
  BY <1>1 DEF Fields, PolicyFields, ByKind, KeyOf
<1>2. CASE t = "templates"
  BY <1>2 DEF Fields, TemplateFields, ByKind, KeyOf
<1>3. CASE t = "requests"
  BY <1>3 DEF Fields, RequestFields, ByKind, KeyOf
<1>4. CASE t = "resolutions"
  BY <1>4 DEF Fields, ResolutionFields, ByKind, KeyOf
<1>5. CASE t = "facts"
  BY <1>5 DEF Fields, FactFields, ByKind, KeyOf
<1>6. CASE t = "evidence"
  BY <1>6 DEF KeyOf
<1>7. QED
  BY <1>1, <1>2, <1>3, <1>4, <1>5, <1>6 DEF Stored

\* No two fields share a column.
LEMMA ColumnsAreDistinct ==
    ASSUME NEW t, NEW f \in DOMAIN Fields[t], NEW g \in DOMAIN Fields[t],
           ColumnOf(t, f) = ColumnOf(t, g)
    PROVE  f = g
<1>1. CASE t = "facts"
  BY <1>1, CanonicalIsNoField DEF ColumnOf
<1>2. CASE t # "facts"
  BY <1>2 DEF ColumnOf
<1>3. QED
  BY <1>1, <1>2

-----------------------------------------------------------------------------
(* From the contract to the client. *)

\* The contents a record that exists may have.
Existing == Versions \ {Absent}

\* What is in a numeric field is a number.
LEMMA NumbersAreNumbers ==
    ASSUME NEW t \in DOMAIN Fields, NEW f \in DOMAIN Fields[t], Fields[t][f] \in Numeric,
           NEW c \in Versions \cup {Absent}
    PROVE  ValueOf(t, c, f) \in Nat
<1>1. c.amount \in Nat /\ c.count \in Nat
  <2>1. CASE c = Absent
    BY <2>1 DEF Absent
  <2>2. CASE c \in Versions
    BY <2>2, ReadPathAssumption, WidthAssumption
  <2>3. QED
    BY <2>1, <2>2
<1>2. f \notin {"outcome", "current_outcome", "mutability", "exists"}
  BY NumbersAreAmounts
<1>3. Fields[t][f] = "u256" \/ Fields[t][f] = "u32"
  BY DEF Numeric
<1>4. CASE t \in Stored /\ f \in KeyOf[t]
  BY <1>4 DEF ValueOf
<1>5. CASE ~(t \in Stored /\ f \in KeyOf[t])
  BY <1>1, <1>2, <1>3, <1>5 DEF ValueOf, OfKind
<1>6. QED
  BY <1>4, <1>5

\* A double within the safe range is exact: beyond it, the nearest even number is out of range.
LEMMA SafeDoublesAreExact ==
    ASSUME NEW n \in Nat, Double(n) <= SafeMax
    PROVE  Double(n) = n
<1>1. SUFFICES ASSUME n > SafeMax PROVE FALSE
  BY WidthAssumption DEF Double
<1>2. n - (n % 2) <= SafeMax /\ SafeMax \in Nat /\ SafeMax % 2 = 1
  BY <1>1, WidthAssumption DEF Double
<1>3. QED
  BY <1>1, <1>2

\* A record the client accepts is the contract's, whatever form its numbers came in.
LEMMA AcceptedIsExact ==
    ASSUME NEW t \in DOMAIN Fields, NEW c \in Versions \cup {Absent}, NEW form \in Forms,
           Readable(t, OnWire(t, c, form), form)
    PROVE  OnWire(t, c, form) = RecordOf(t, c)
<1> DEFINE wire == OnWire(t, c, form)
<1>1. ASSUME NEW f \in DOMAIN Fields[t]
      PROVE  wire[f] = ValueOf(t, c, f)
  <2>1. CASE Fields[t][f] \in Numeric /\ form = "double"
    <3>1. wire[f] = Double(ValueOf(t, c, f))
      BY <2>1 DEF OnWire
    <3>2. wire[f] <= SafeMax
      <4>1. CASE Fields[t][f] = "u256"
        BY <2>1, <4>1 DEF Readable, ToBigInt
      <4>2. CASE Fields[t][f] = "u32"
        BY <2>1, <4>2 DEF Readable, ToNumber
      <4>3. QED
        BY <2>1, <4>1, <4>2 DEF Numeric
    <3>3. ValueOf(t, c, f) \in Nat
      BY <2>1, NumbersAreNumbers
    <3>4. QED
      BY <3>1, <3>2, <3>3, SafeDoublesAreExact
  <2>2. CASE ~(Fields[t][f] \in Numeric /\ form = "double")
    BY <2>2 DEF OnWire
  <2>3. QED
    BY <2>1, <2>2
<1>2. wire = [f \in DOMAIN Fields[t] |-> wire[f]]
  BY DEF OnWire
<1>3. QED
  BY <1>1, <1>2 DEF RecordOf

-----------------------------------------------------------------------------
(* From the client to the row and back. *)

\* The row of a record that was never there before.
RowOf(t, c) == Upserted(t, NoRow, RecordOf(t, c))

\* The field of a column.
LEMMA ColumnHasField ==
    ASSUME NEW t, NEW f \in DOMAIN Fields[t]
    PROVE  (CHOOSE g \in DOMAIN Fields[t] : ColumnOf(t, g) = ColumnOf(t, f)) = f
  BY ColumnsAreDistinct

\* What an upsert leaves in its key columns is what the record has there.
LEMMA UpsertIsRow ==
    ASSUME NEW t \in Stored, NEW c, NEW d
    PROVE  Upserted(t, RowOf(t, c), RecordOf(t, d)) = RowOf(t, d)
<1> DEFINE F(n) == CHOOSE f \in DOMAIN Fields[t] : ColumnOf(t, f) = n
<1>1. ASSUME NEW n \in Columns(t), n \notin OnConflict(t)
      PROVE  RecordOf(t, c)[F(n)] = RecordOf(t, d)[F(n)]
  <2>1. n \in KeyOf[t]
    BY <1>1 DEF OnConflict
  <2>2. n \in DOMAIN Fields[t] /\ ColumnOf(t, n) = n
    BY <2>1, KeysAreFields DEF ColumnOf
  <2>3. F(n) = n
    BY <2>2, ColumnHasField
  <2>4. ValueOf(t, c, n) = 1 /\ ValueOf(t, d, n) = 1
    BY <2>1 DEF ValueOf
  <2>5. QED
    BY <2>2, <2>3, <2>4 DEF RecordOf
<1>2. RowOf(t, c).columns = [n \in Columns(t) |-> RecordOf(t, c)[F(n)]]
  BY DEF RowOf, Upserted
<1>3. RowOf(t, d) = [columns |-> [n \in Columns(t) |-> RecordOf(t, d)[F(n)]],
                     raw |-> RecordOf(t, d)]
  BY DEF RowOf, Upserted
<1>4. Upserted(t, RowOf(t, c), RecordOf(t, d)) =
        [columns |-> [n \in Columns(t) |->
            IF RowOf(t, c) = NoRow \/ n \in OnConflict(t) THEN RecordOf(t, d)[F(n)]
            ELSE RowOf(t, c).columns[n]],
         raw |-> RecordOf(t, d)]
  BY DEF Upserted
<1> HIDE DEF F
<1>5. QED
  BY <1>1, <1>2, <1>3, <1>4

\* A row gives the record back that was written to it.
LEMMA RowGivesRecord ==
    ASSUME NEW t \in Stored, NEW c, c # Absent
    PROVE  RowToRecord(t, RowOf(t, c)) = RecordOf(t, c)
<1>1. CASE t \in ServedRaw
  BY <1>1 DEF RowToRecord, RowOf, Upserted
<1>2. CASE t \notin ServedRaw
  <2> DEFINE F(n) == CHOOSE f \in DOMAIN Fields[t] : ColumnOf(t, f) = n
  <2>1. RowOf(t, c).columns = [n \in Columns(t) |-> RecordOf(t, c)[F(n)]]
    BY DEF RowOf, Upserted
  <2>2. ASSUME NEW f \in DOMAIN Fields[t] \ {"exists"}
        PROVE  RowOf(t, c).columns[ColumnOf(t, f)] = ValueOf(t, c, f)
    <3>1. ColumnOf(t, f) \in Columns(t)
      BY DEF Columns
    <3>2. F(ColumnOf(t, f)) = f
      BY ColumnHasField
    <3> HIDE DEF F
    <3>3. QED
      BY <2>1, <3>1, <3>2 DEF RecordOf
  <2>3. ValueOf(t, c, "exists") = TRUE
    <3>1. "exists" \notin KeyOf[t]
      BY KeysAreFields
    <3>2. QED
      BY <3>1 DEF ValueOf
  <2>4. RowToRecord(t, RowOf(t, c)) =
          [f \in DOMAIN Fields[t] |->
             IF f = "exists" THEN TRUE ELSE RowOf(t, c).columns[ColumnOf(t, f)]]
    BY <1>2 DEF RowToRecord
  <2>5. QED
    BY <2>2, <2>3, <2>4 DEF RecordOf
<1>3. QED
  BY <1>1, <1>2

-----------------------------------------------------------------------------
(* The inductive invariant: where a record has got to, it is a version of  *)
(* the contract's, and no step but a write makes a row younger.            *)

ChainIsKnown == table \in Tables /\ chain \in Versions \cup {Absent} /\ now \in Nat

\* What is to be written was read, no longer than a pass ago.
PendingIsReal ==
    \/ pending = NoRecord
    \/ /\ table \in Stored
       /\ \E c \in Existing : pending.record = RecordOf(table, c)
       /\ pending = [record |-> pending.record, at |-> pending.at, behind |-> pending.behind]
       /\ pending.at \in Nat /\ pending.behind \in Nat
       /\ pending.at + pending.behind <= now /\ now <= pending.at + MaxPass

\* A row is that of a record, and behind for as long as it is unsynced and one pass more.
RowIsReal ==
    /\ row = [data |-> row.data, isFresh |-> row.isFresh,
              freshAt |-> row.freshAt, syncedAt |-> row.syncedAt]
    /\ Data = NoRow \/ (table \in Stored /\ \E c \in Existing : Data = RowOf(table, c))
    /\ row.syncedAt \in Nat /\ behind \in Nat
    /\ Data # NoRow => row.syncedAt + behind <= now + MaxPass

\* An answer is about what is in the database or on the chain while it is looked at.
AnswerIsReal ==
    /\ answer = [status |-> answer.status, code |-> answer.code, source |-> answer.source,
                 record |-> answer.record, fresh |-> answer.fresh, stale |-> answer.stale]
    /\ answer.status = 200 => /\ answer.code = "none"
                              /\ \E c \in Existing : answer.record = RecordOf(table, c)
    /\ answer.status = 200 /\ answer.source \in {"cache", "list"} =>
          /\ Data # NoRow
          /\ answer.fresh => FreshNow(answer.record)
          /\ ~answer.stale => now <= row.syncedAt + StaleAfter
    /\ answer.code = "not_found" =>
          IF answer.source = "cache" THEN Data = NoRow ELSE chain = Absent

PathInv == ChainIsKnown /\ PendingIsReal /\ RowIsReal /\ AnswerIsReal

LEMMA InitPath == Init => PathInv
<1> SUFFICES ASSUME Init PROVE PathInv
  OBVIOUS
<1> USE DEF Init
<1>1. ChainIsKnown
  BY DEF ChainIsKnown
<1>2. PendingIsReal
  BY DEF PendingIsReal
<1>3. RowIsReal
  BY DEF RowIsReal, EmptyRow, Data
<1>4. AnswerIsReal
  BY DEF AnswerIsReal, NoAnswer
<1>5. QED
  BY <1>1, <1>2, <1>3, <1>4 DEF PathInv

\* The chain's own variables.
LEMMA ChainStays ==
    ASSUME PathInv, Next
    PROVE  ChainIsKnown'
<1>1. table' = table /\ (chain' = chain \/ chain' \in Versions) /\ (now' = now \/ now' = now + 1)
  BY DEF Next, Change, Tick, ReadRecord, ReadDirectly, WriteRow, RefreshFactFreshness,
         ServeCached, ServeListed, ReadFreshness, ReadFails, Refuse
<1>2. QED
  BY <1>1 DEF ChainIsKnown, PathInv

LEMMA KnownTable ==
    ASSUME PathInv
    PROVE  table \in DOMAIN Fields
  BY ReadPathAssumption DEF PathInv, ChainIsKnown

\* An answer that was looked at does not outlive the step that could belie it.
LEMMA ForgottenIsReal ==
    ASSUME PathInv, Forget, UNCHANGED table
    PROVE  AnswerIsReal'
<1>1. CASE answer.source = "direct" /\ answer.status = 200
  <2>1. answer' = answer
    BY <1>1 DEF Forget
  <2>2. QED
    BY <1>1, <2>1 DEF AnswerIsReal, PathInv
<1>2. CASE ~(answer.source = "direct" /\ answer.status = 200)
  <2>1. answer' = NoAnswer
    BY <1>2 DEF Forget
  <2>2. QED
    BY <2>1 DEF AnswerIsReal, NoAnswer
<1>3. QED
  BY <1>1, <1>2

\* What is read on the chain and accepted is one of its versions.
LEMMA AcceptedIsReal ==
    ASSUME PathInv, chain # Absent, NEW form \in Forms,
           Readable(table, OnWire(table, chain, form), form)
    PROVE  /\ chain \in Existing
           /\ OnWire(table, chain, form) = RecordOf(table, chain)
<1>1. chain \in Versions \cup {Absent}
  BY DEF PathInv, ChainIsKnown
<1>2. QED
  BY <1>1, AcceptedIsExact, KnownTable DEF Existing

\* What is served from a row is one of the record's versions.
LEMMA ServedIsReal ==
    ASSUME PathInv, Data # NoRow
    PROVE  \E c \in Existing : RowToRecord(table, Data) = RecordOf(table, c)
<1>1. PICK c \in Existing : table \in Stored /\ Data = RowOf(table, c)
  BY DEF PathInv, RowIsReal
<1>2. QED
  BY <1>1, RowGivesRecord DEF Existing

-----------------------------------------------------------------------------
(* The steps. *)

LEMMA ChangeStep == ASSUME PathInv, NEW c \in Versions, Change(c) PROVE PathInv'
<1> USE DEF Change
<1>1. ChainIsKnown'
  BY ChainStays DEF Next
<1>2. PendingIsReal'
  BY DEF PathInv, PendingIsReal
<1>3. RowIsReal'
  BY DEF PathInv, RowIsReal, Data
<1>4. AnswerIsReal'
  BY ForgottenIsReal
<1>5. QED
  BY <1>1, <1>2, <1>3, <1>4 DEF PathInv

LEMMA TickStep == ASSUME PathInv, Tick PROVE PathInv'
<1> USE DEF Tick
<1>1. ChainIsKnown'
  BY ChainStays DEF Next
<1>2. now \in Nat /\ MaxPass \in Nat /\ now' = now + 1
  BY ReadPathAssumption DEF PathInv, ChainIsKnown
<1>3. PendingIsReal'
  <2>1. CASE pending = NoRecord
    BY <2>1 DEF PendingIsReal
  <2>2. CASE pending # NoRecord
    <3>1. /\ table \in Stored
          /\ \E c \in Existing : pending.record = RecordOf(table, c)
          /\ pending = [record |-> pending.record, at |-> pending.at, behind |-> pending.behind]
          /\ pending.at \in Nat /\ pending.behind \in Nat
          /\ pending.at + pending.behind <= now
      BY <2>2 DEF PathInv, PendingIsReal
    <3>2. pending' = [record |-> pending.record, at |-> pending.at,
                      behind |-> Behind(pending.record, pending.behind)]
      BY <2>2, <3>1
    <3>3. Behind(pending.record, pending.behind) \in 0 .. pending.behind + 1
      BY <3>1 DEF Behind
    <3>4. now < pending.at + MaxPass
      BY <2>2
    <3>5. QED
      BY <1>2, <3>1, <3>2, <3>3, <3>4 DEF PendingIsReal
  <2>3. QED
    BY <2>1, <2>2
<1>4. RowIsReal'
  <2>1. row.syncedAt \in Nat /\ behind \in Nat
    BY DEF PathInv, RowIsReal
  <2>2. behind' \in 0 .. behind + 1
    BY <2>1 DEF Behind
  <2>3. Data' = Data
    BY DEF Data
  <2>4. QED
    BY <1>2, <2>1, <2>2, <2>3 DEF PathInv, RowIsReal
<1>5. AnswerIsReal'
  BY ForgottenIsReal
<1>6. QED
  BY <1>1, <1>3, <1>4, <1>5 DEF PathInv

LEMMA ReadRecordStep == ASSUME PathInv, NEW form \in Forms, ReadRecord(form) PROVE PathInv'
<1> USE DEF ReadRecord
<1>1. ChainIsKnown'
  BY ChainStays DEF Next
<1>2. PendingIsReal'
  <2>1. chain \in Existing /\ OnWire(table, chain, form) = RecordOf(table, chain)
    BY AcceptedIsReal
  <2>2. pending' = [record |-> RecordOf(table, chain), at |-> now, behind |-> 0]
    BY <2>1
  <2>3. now \in Nat /\ MaxPass \in Nat
    BY ReadPathAssumption DEF PathInv, ChainIsKnown
  <2>4. QED
    BY <2>1, <2>2, <2>3 DEF PendingIsReal
<1>3. RowIsReal'
  BY DEF PathInv, RowIsReal, Data
<1>4. AnswerIsReal'
  BY ForgottenIsReal
<1>5. QED
  BY <1>1, <1>2, <1>3, <1>4 DEF PathInv

LEMMA WriteRowStep == ASSUME PathInv, WriteRow PROVE PathInv'
<1> USE DEF WriteRow
<1>1. ChainIsKnown'
  BY ChainStays DEF Next
<1>2. PendingIsReal'
  BY DEF PendingIsReal
<1>3. RowIsReal'
  <2>1. CASE Storable(table, pending.record)
    <3>1. PICK c \in Existing : pending.record = RecordOf(table, c)
      BY DEF PathInv, PendingIsReal
    <3>2. table \in Stored /\ pending.at \in Nat /\ pending.behind \in Nat
          /\ pending.at + pending.behind <= now /\ now <= pending.at + MaxPass
      BY DEF PathInv, PendingIsReal
    <3>3. Upserted(table, Data, pending.record) = RowOf(table, c)
      <4>1. CASE Data = NoRow
        BY <3>1, <4>1 DEF RowOf
      <4>2. CASE Data # NoRow
        <5>1. PICK d \in Existing : Data = RowOf(table, d)
          BY <4>2 DEF PathInv, RowIsReal
        <5>2. QED
          BY <3>1, <3>2, <5>1, UpsertIsRow
      <4>3. QED
        BY <4>1, <4>2
    <3>4. /\ row' = [data |-> RowOf(table, c), isFresh |-> FreshNow(pending.record),
                     freshAt |-> now, syncedAt |-> now]
          /\ behind' = pending.behind
      BY <2>1, <3>3
    <3>5. now \in Nat /\ MaxPass \in Nat
      BY ReadPathAssumption DEF PathInv, ChainIsKnown
    <3>6. now + pending.behind <= now + MaxPass
      BY <3>2, <3>5
    <3>7. QED
      BY <3>2, <3>4, <3>5, <3>6 DEF RowIsReal, Data
  <2>2. CASE ~Storable(table, pending.record)
    BY <2>2 DEF PathInv, RowIsReal, Data
  <2>3. QED
    BY <2>1, <2>2
<1>4. AnswerIsReal'
  BY ForgottenIsReal
<1>5. QED
  BY <1>1, <1>2, <1>3, <1>4 DEF PathInv

LEMMA RefreshStep == ASSUME PathInv, RefreshFactFreshness PROVE PathInv'
<1> USE DEF RefreshFactFreshness
<1>1. ChainIsKnown'
  BY ChainStays DEF Next
<1>2. PendingIsReal'
  BY DEF PathInv, PendingIsReal
<1>3. RowIsReal'
  <2>1. row = [data |-> row.data, isFresh |-> row.isFresh,
               freshAt |-> row.freshAt, syncedAt |-> row.syncedAt]
    BY DEF PathInv, RowIsReal
  <2>2. row' = [data |-> row.data, isFresh |-> FreshNow(RowToRecord(table, Data)),
                freshAt |-> now, syncedAt |-> row.syncedAt]
    BY <2>1 DEF Refreshed
  <2>3. QED
    BY <2>2 DEF PathInv, RowIsReal, Data
<1>4. AnswerIsReal'
  BY ForgottenIsReal
<1>5. QED
  BY <1>1, <1>2, <1>3, <1>4 DEF PathInv

\* The steps of the API change nothing but the answer.
LEMMA ServingStays ==
    ASSUME PathInv, UNCHANGED <<table, chain, now, pending, row, behind>>, AnswerIsReal'
    PROVE  PathInv'
  BY DEF PathInv, ChainIsKnown, PendingIsReal, RowIsReal, Data

\* The envelope of a row that is there.
LEMMA EnvelopeIsReal ==
    ASSUME PathInv, Data # NoRow, NEW source \in {"cache", "list"},
           answer' = Envelope(source, RowToRecord(table, Data)),
           UNCHANGED <<table, chain, now, pending, row, behind>>
    PROVE  AnswerIsReal'
<1> DEFINE r == RowToRecord(table, Data)
<1>1. \E c \in Existing : r = RecordOf(table, c)
  BY ServedIsReal
<1>2. /\ answer'.status = 200 /\ answer'.code = "none" /\ answer'.record = r
      /\ answer' = [status |-> answer'.status, code |-> answer'.code, source |-> answer'.source,
                    record |-> answer'.record, fresh |-> answer'.fresh, stale |-> answer'.stale]
  BY DEF Envelope
<1>3. (answer'.fresh => FreshNow(r)) /\ (~answer'.stale => now <= row.syncedAt + StaleAfter)
  <2>1. /\ answer'.fresh = FreshNow(r)
        /\ answer'.stale = (now > row.syncedAt + StaleAfter)
    BY DEF Envelope, EnvelopeFreshness
  <2>2. now \in Nat /\ row.syncedAt \in Nat /\ StaleAfter \in Nat
    BY ReadPathAssumption DEF PathInv, ChainIsKnown, RowIsReal
  <2>3. ~(now > row.syncedAt + StaleAfter) => now <= row.syncedAt + StaleAfter
    BY <2>2
  <2>4. QED
    BY <2>1, <2>3
<1>4. QED
  BY <1>1, <1>2, <1>3 DEF AnswerIsReal, Data, FreshNow, IsFact, LocallyFresh

\* An error says nothing about a record unless it is not_found.
LEMMA ErrorIsReal ==
    ASSUME NEW source, NEW status, NEW code, status # 200, answer' = Error(source, status, code),
           code = "not_found" => IF source = "cache" THEN Data' = NoRow ELSE chain' = Absent
    PROVE  AnswerIsReal'
  BY DEF AnswerIsReal, Error, NoAnswer

LEMMA ServeCachedStep == ASSUME PathInv, NEW up \in BOOLEAN, ServeCached(up) PROVE PathInv'
<1> USE DEF ServeCached
<1>1. Data' = Data
  BY DEF Data
<1>2. CASE ~up
  BY <1>1, <1>2, ErrorIsReal, ServingStays
<1>3. CASE up /\ Data = NoRow
  BY <1>1, <1>3, ErrorIsReal, ServingStays
<1>4. CASE up /\ Data # NoRow
  BY <1>4, EnvelopeIsReal, ServingStays
<1>5. QED
  BY <1>2, <1>3, <1>4

LEMMA ServeListedStep == ASSUME PathInv, NEW wanted \in BOOLEAN, ServeListed(wanted) PROVE PathInv'
  BY EnvelopeIsReal, ServingStays DEF ServeListed

LEMMA ReadDirectlyStep == ASSUME PathInv, NEW form \in Forms, ReadDirectly(form) PROVE PathInv'
<1> DEFINE wire == OnWire(table, chain, form)
<1>1. UNCHANGED <<table, chain, now, pending, row, behind>>
  BY DEF ReadDirectly
<1>2. CASE ~Readable(table, wire, form)
  BY <1>2, ErrorIsReal, ServingStays DEF ReadDirectly
<1>3. CASE Readable(table, wire, form) /\ chain = Absent
  BY <1>3, ErrorIsReal, ServingStays DEF ReadDirectly
<1>4. CASE Readable(table, wire, form) /\ chain # Absent
  <2>1. chain \in Existing /\ wire = RecordOf(table, chain)
    BY <1>4, AcceptedIsReal
  <2>2. answer' = [status |-> 200, code |-> "none", source |-> "direct", record |-> wire,
                   fresh |-> FALSE, stale |-> FALSE]
    BY <1>4 DEF ReadDirectly, NoAnswer
  <2> HIDE DEF wire
  <2>3. \E c \in Existing : answer'.record = RecordOf(table', c)
    BY <1>1, <2>1, <2>2
  <2>4. AnswerIsReal'
    BY <2>2, <2>3 DEF AnswerIsReal
  <2>5. QED
    BY <1>1, <2>4, ServingStays
<1>5. QED
  BY <1>2, <1>3, <1>4

LEMMA ReadFreshnessStep == ASSUME PathInv, ReadFreshness PROVE PathInv'
<1> USE DEF ReadFreshness
<1>1. answer' = [status |-> 200, code |-> answer.code, source |-> "chain", record |-> answer.record,
                 fresh |-> ContractFresh(RecordOf(table, chain), now), stale |-> answer.stale]
  BY DEF PathInv, AnswerIsReal
<1>2. /\ answer.code = "none"
      /\ \E c \in Existing : answer.record = RecordOf(table, c)
  BY DEF PathInv, AnswerIsReal
<1>3. answer'.status = 200 /\ answer'.code = "none" /\ answer'.source = "chain"
  BY <1>1, <1>2
<1>4. \E c \in Existing : answer'.record = RecordOf(table', c)
  BY <1>1, <1>2
<1>5. answer' = [status |-> answer'.status, code |-> answer'.code, source |-> answer'.source,
                 record |-> answer'.record, fresh |-> answer'.fresh, stale |-> answer'.stale]
  BY <1>1
<1>6. AnswerIsReal'
  BY <1>3, <1>4, <1>5 DEF AnswerIsReal
<1>7. QED
  BY <1>6, ServingStays

LEMMA FailureStep ==
    ASSUME PathInv, (\E e \in CallErrors : ReadFails(e)) \/ Refuse
    PROVE  PathInv'
<1>1. CASE \E e \in CallErrors : ReadFails(e)
  <2>1. PICK e \in CallErrors : ReadFails(e)
    BY <1>1
  <2>2. QED
    BY <2>1, ErrorIsReal, ServingStays DEF ReadFails, Unread
<1>2. CASE Refuse
  <2> USE <1>2 DEF Refuse
  <2>1. PICK status \in {400, 413, 429, 500},
             code \in {"invalid_request", "request_too_large", "rate_limit_exceeded",
                       "internal_error"} :
          answer' = Error("none", status, code)
    BY DEF Refusals
  <2>2. QED
    BY <2>1, ErrorIsReal, ServingStays
<1>3. QED
  BY <1>1, <1>2

LEMMA NextPath == PathInv /\ [Next]_vars => PathInv'
<1> SUFFICES ASSUME PathInv, [Next]_vars PROVE PathInv'
  OBVIOUS
<1>1. CASE \E c \in Versions : Change(c)
  BY <1>1, ChangeStep
<1>2. CASE Tick
  BY <1>2, TickStep
<1>3. CASE \E form \in Forms : ReadRecord(form) \/ ReadDirectly(form)
  BY <1>3, ReadRecordStep, ReadDirectlyStep
<1>4. CASE WriteRow \/ RefreshFactFreshness
  BY <1>4, WriteRowStep, RefreshStep
<1>5. CASE \E b \in BOOLEAN : ServeCached(b) \/ ServeListed(b)
  BY <1>5, ServeCachedStep, ServeListedStep
<1>6. CASE ReadFreshness
  BY <1>6, ReadFreshnessStep
<1>7. CASE (\E e \in CallErrors : ReadFails(e)) \/ Refuse
  BY <1>7, FailureStep
<1>8. CASE UNCHANGED vars
  BY <1>8 DEF vars, PathInv, ChainIsKnown, PendingIsReal, RowIsReal, AnswerIsReal, Data,
              FreshNow, IsFact, LocallyFresh
<1>9. QED
  BY <1>1, <1>2, <1>3, <1>4, <1>5, <1>6, <1>7, <1>8 DEF Next

LEMMA PathHolds == Spec => []PathInv
  BY InitPath, NextPath, PTL DEF Spec

-----------------------------------------------------------------------------
(* The theorems. *)

(***************************************************************************)
(* An answer is one version of the contract's record in every field,       *)
(* whatever form its numbers came in, however wide they are, and whatever  *)
(* rows it replaced (client.ts normalizeX, repository.ts upsertX, rowToX). *)
(***************************************************************************)
THEOREM AnswersOfOneVersion == Spec => []AnswersAreOneVersion
<1>1. PathInv => AnswersAreOneVersion
  BY DEF PathInv, AnswerIsReal, AnswersAreOneVersion, RecordOf, Existing
<1>2. QED
  BY <1>1, PathHolds, PTL

(***************************************************************************)
(* A fact served from the database as fresh with a boolean answer has not  *)
(* expired by the contract's rule, however old the freshness pass is       *)
(* (app.ts factEnvelope, evidra_registry.py _fact_is_fresh).               *)
(***************************************************************************)
THEOREM FreshIsUnexpired == Spec => []FreshIsAtLeastUnexpired
<1>1. ASSUME PathInv, FromCache, answer.fresh,
             answer.record.current_outcome \in {"TRUE", "FALSE"}
      PROVE  ContractFresh(answer.record, now)
  <2>1. IsFact /\ LocallyFresh(answer.record, now)
    BY <1>1 DEF FromCache, PathInv, AnswerIsReal, FreshNow
  <2>2. PICK c \in Existing : answer.record = RecordOf("facts", c)
    BY <1>1, <2>1 DEF FromCache, PathInv, AnswerIsReal, IsFact
  <2>3. answer.record.valid_until \in Nat
    <3>1. "valid_until" \in DOMAIN Fields["facts"] /\ Fields["facts"]["valid_until"] = "u256"
      BY DEF Fields, FactFields, ByKind
    <3>2. ValueOf("facts", c, "valid_until") \in Nat
      BY <3>1, NumbersAreNumbers, Zenon DEF Numeric, Existing, Fields
    <3>3. QED
      BY <2>2, <3>1, <3>2 DEF RecordOf
  <2>4. now \in Nat
    BY <1>1 DEF PathInv, ChainIsKnown
  <2>5. QED
    BY <1>1, <2>1, <2>3, <2>4 DEF LocallyFresh, ContractFresh
<1>2. PathInv => FreshIsAtLeastUnexpired
  BY <1>1 DEF FreshIsAtLeastUnexpired
<1>3. QED
  BY <1>2, PathHolds, PTL

(***************************************************************************)
(* A row that has been behind the contract for longer than the limit and a *)
(* pass is never served without the stale mark (app.ts factEnvelope).      *)
(***************************************************************************)
THEOREM StaleIsMarked == Spec => []StaleIsConfessed
<1>1. ASSUME PathInv, FromCache, ~answer.stale
      PROVE  behind <= StaleAfter + MaxPass
  <2>1. Data # NoRow /\ now <= row.syncedAt + StaleAfter
    BY <1>1 DEF FromCache, PathInv, AnswerIsReal
  <2>2. row.syncedAt + behind <= now + MaxPass /\ row.syncedAt \in Nat /\ behind \in Nat
    BY <1>1, <2>1 DEF PathInv, RowIsReal
  <2>3. now \in Nat /\ MaxPass \in Nat /\ StaleAfter \in Nat
    BY <1>1, ReadPathAssumption DEF PathInv, ChainIsKnown
  <2>4. QED
    BY <2>1, <2>2, <2>3
<1>2. PathInv => StaleIsConfessed
  BY <1>1 DEF StaleIsConfessed
<1>3. QED
  BY <1>2, PathHolds, PTL

(***************************************************************************)
(* No outage, quota, undecodable record or bad request is told to a client *)
(* as the absence of a record (app.ts, errors.ts, web lib/api.ts).         *)
(***************************************************************************)
THEOREM FailuresStayFailures == Spec => []FailuresAreNotAbsence
<1>1. ASSUME PathInv, Told(answer) = "not in the registry"
      PROVE  answer.code = "not_found"
  BY <1>1 DEF Told
<1>2. PathInv => FailuresAreNotAbsence
  BY <1>1 DEF FailuresAreNotAbsence, PathInv, AnswerIsReal
<1>3. QED
  BY <1>2, PathHolds, PTL
=============================================================================
