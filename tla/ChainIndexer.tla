---------------------------- MODULE ChainIndexer ----------------------------
(***************************************************************************)
(* ChainIndexer.syncOnce and the projection it writes through              *)
(* ProjectionRepository.  One pass is a sequence of awaits: the registry   *)
(* moves between any two of its reads, readers of the database look        *)
(* between any two of its writes, and any await may fail or be the last    *)
(* one before the process is restarted.                                    *)
(*                                                                         *)
(* A read of one record and the write of its row are one step: the row is  *)
(* then as old as the read, and the chain may move before the next step.   *)
(***************************************************************************)
EXTENDS ChainRecords, FiniteSets

CONSTANTS
    Policies,      \* versions of source policies and templates
    MaxRecords,    \* INDEXER_MAX_RECORDS: ids or events taken in one pass
    MaxMutable,    \* INDEXER_MAX_MUTABLE_REQUESTS: open requests read again
    MaxEntries,    \* bound: requests and policy events ever made
    MaxCalled,     \* bound: requests with a callback target among them
    MaxFailures    \* bound: passes cut short

ASSUME IndexerAssumption ==
    /\ MaxRecords \in Nat \ {0} /\ MaxMutable \in Nat
    /\ MaxEntries \in Nat /\ MaxCalled \in Nat /\ MaxFailures \in Nat

VARIABLES
    events,           \* the policy registry's events: whom each one names
    requestRows,      \* table requests: the mutable columns, by id
    resolutionRows,   \* table resolutions: is_canonical and is_latest, by id
    evidenceRows,     \* the resolutions with rows in table evidence
    factRows,         \* table facts: canonical and latest resolution
    policyRows,       \* tables policies and templates
    sync,             \* table sync_state: the checkpoints
    pass,             \* the locals of syncOnce
    memory,           \* what getStatus says of the last finished pass
    failures

databaseVars == <<requestRows, resolutionRows, evidenceRows, factRows, policyRows>>
vars == <<chainVars, events, databaseVars, sync, pass, memory, failures>>

Lesser(m, n) == IF m < n THEN m ELSE n

-----------------------------------------------------------------------------
(* The policy registry: a version is published once, then deprecated. *)

PolicyStates == {"absent", "active", "deprecated"}
\* The state of p after the first n events.
StateAfter(n, p) ==
    LET times == Cardinality({e \in 1 .. n : events[e] = p})
    IN  CASE times = 0 -> "absent" [] times = 1 -> "active" [] OTHER -> "deprecated"

Announce(p) ==
    /\ Len(requests) + Len(events) < MaxEntries
    /\ events' = Append(events, p)
    /\ UNCHANGED <<chainVars, databaseVars, sync, pass, memory, failures>>

RegistryMoves ==
    /\ ChainNext
    /\ Len(requests') + Len(events) <= MaxEntries
    /\ Cardinality({i \in DOMAIN requests' : requests'[i].called}) <= MaxCalled
    /\ UNCHANGED <<events, databaseVars, sync, pass, memory, failures>>

-----------------------------------------------------------------------------
(* The repository. *)

RowOf(q) == [status |-> q.status, callback |-> q.callback]

\* Mutant: only callbacks are waited for.
CallbackOpen(row) == row.callback \in {"DISPATCHED", "FAILED_REPORTED"}
Mutable(row) == row.status = "DISPATCHED" \/ row.callback \in {"DISPATCHED", "FAILED_REPORTED"}

\* The newest of a set of ids, at most limit of them.
Newest(ids, limit) == {i \in ids : Cardinality({j \in ids : j > i}) < limit}
ListMutableRequestIds == Newest({i \in DOMAIN requestRows : Mutable(requestRows[i])}, MaxMutable)

With(rows, id, row) == [n \in DOMAIN rows \cup {id} |-> IF n = id THEN row ELSE rows[n]]

ResolutionIds(k) == {id \in DOMAIN resolutionRows : resolutions[id].key = k}

\* Mutant: a retired canonical row keeps its flag.
FlagsKept(id, view) == [canonical |-> id <= view.current, latest |-> id = view.latest]
FlagsOf(id, view) == [canonical |-> id = view.current, latest |-> id = view.latest]

\* Mutant: only the upserts of new resolutions set flags.
FlagsLeft(k, view) == resolutionRows
\* setResolutionFlags: every row of the fact, in one statement.
Flagged(k, view) ==
    [id \in DOMAIN resolutionRows |->
        IF id \in ResolutionIds(k) THEN FlagsOf(id, view) ELSE resolutionRows[id]]

NoCheckpoint == [requests |-> 0, resolutions |-> 0, events |-> 0]

-----------------------------------------------------------------------------
Idle == [phase |-> "idle", from |-> NoCheckpoint, ends |-> NoCheckpoint,
         todo |-> {}, keys |-> {}, found |-> {}, key |-> "", view |-> NoFact]

Init ==
    /\ ChainInit /\ events = <<>>
    /\ requestRows = <<>> /\ resolutionRows = <<>> /\ evidenceRows = {}
    /\ factRows = [k \in FactKeys |-> NoFact]
    /\ policyRows = [p \in Policies |-> "absent"]
    /\ sync = NoCheckpoint
    /\ pass = Idle /\ memory = "none" /\ failures = 0

\* The start of a pass: its checkpoints are read.
Begin ==
    /\ pass.phase = "idle"
    /\ pass' = [Idle EXCEPT !.phase = "counters", !.from = sync]
    /\ UNCHANGED <<chainVars, events, databaseVars, sync, memory, failures>>

\* getProtocolStats and getEventCount.
ReadCounters ==
    /\ pass.phase = "counters"
    /\ pass' = [pass EXCEPT !.phase = "events",
                            !.ends = [requests |-> Len(requests),
                                      resolutions |-> Len(resolutions), events |-> Len(events)]]
    /\ UNCHANGED <<chainVars, events, databaseVars, sync, memory, failures>>

\* What a loop over todo takes next, upwards or downwards.
IsFirst(n) == n \in pass.todo /\ \A m \in pass.todo : n <= m
IsLast(n) == n \in pass.todo /\ \A m \in pass.todo : n >= m

\* The last of the ids or offsets after `from` that one pass takes.
EndOf(from, end) == Lesser(end, from + MaxRecords)

\* readEventDelta: pages until the counter is reached; the last page may hold more.
ReadEvents ==
    /\ pass.phase = "events"
    /\ \E end \in IF pass.ends.events > pass.from.events
                  THEN pass.ends.events .. Len(events) ELSE {pass.from.events} :
          LET upto == EndOf(pass.from.events, end)
          IN  pass' = [pass EXCEPT !.phase = "policies", !.ends.events = upto,
                                   !.todo = pass.from.events + 1 .. upto]
    /\ UNCHANGED <<chainVars, events, databaseVars, sync, memory, failures>>

SyncPolicy ==
    /\ pass.phase = "policies"
    /\ \E n \in pass.todo :
          /\ IsFirst(n)
          /\ policyRows' = [policyRows EXCEPT ![events[n]] = StateAfter(Len(events), events[n])]
          /\ pass' = [pass EXCEPT !.todo = @ \ {n}]
    /\ UNCHANGED <<chainVars, events, requestRows, resolutionRows, evidenceRows, factRows,
                   sync, memory, failures>>

\* Mutant: the newest ids first, so the cap leaves out the oldest.
NewestIds(from, end) == from + end - EndOf(from, end) + 1 .. end
\* The ids after the checkpoint, as many as a pass takes.
NewIds(from, end) == from + 1 .. EndOf(from, end)
NewRequests == NewIds(pass.from.requests, pass.ends.requests)

ListRequests ==
    /\ pass.phase = "policies" /\ pass.todo = {}
    /\ pass' = [pass EXCEPT !.phase = "requests",
                            !.todo = NewRequests \cup ListMutableRequestIds]
    /\ UNCHANGED <<chainVars, events, databaseVars, sync, memory, failures>>

\* New requests upwards, then the open ones that are not among them downwards.
IsNextRequest(i) ==
    IF pass.todo \cap NewRequests # {}
    THEN i \in NewRequests /\ \A j \in pass.todo \cap NewRequests : i <= j
    ELSE IsLast(i)

SyncRequest ==
    /\ pass.phase = "requests"
    /\ \E i \in pass.todo :
          /\ IsNextRequest(i)
          /\ requestRows' = With(requestRows, i, RowOf(requests[i]))
          /\ pass' = [pass EXCEPT !.todo = @ \ {i}, !.keys = @ \cup {requests[i].key}]
    /\ UNCHANGED <<chainVars, events, resolutionRows, evidenceRows, factRows, policyRows,
                   sync, memory, failures>>

\* Resolutions never change, so when they are read makes no difference.
SyncResolutions ==
    /\ pass.phase = "requests" /\ pass.todo = {}
    /\ LET new == NewIds(pass.from.resolutions, pass.ends.resolutions)
       IN  pass' = [pass EXCEPT !.phase = "facts", !.found = new,
                                !.keys = @ \cup {resolutions[id].key : id \in new}]
    /\ UNCHANGED <<chainVars, events, databaseVars, sync, memory, failures>>

LatestOf(f) == [f EXCEPT !.latest = IF @ = 0 THEN f.current ELSE @]

\* Facts are taken in the order their keys were met; here, in any order.
ReadFact ==
    /\ pass.phase = "facts"
    /\ \E k \in pass.keys :
          pass' = IF facts[k] = NoFact
                  THEN [pass EXCEPT !.keys = @ \ {k}]
                  ELSE [pass EXCEPT !.phase = "resolutions", !.keys = @ \ {k}, !.key = k,
                                    !.view = LatestOf(facts[k]),
                                    !.todo = {id \in pass.found : resolutions[id].key = k}]
    /\ UNCHANGED <<chainVars, events, databaseVars, sync, memory, failures>>

WriteResolution ==
    /\ pass.phase = "resolutions"
    /\ \E id \in pass.todo :
          IsFirst(id) /\ resolutionRows' = With(resolutionRows, id, FlagsOf(id, pass.view))
    /\ pass' = [pass EXCEPT !.phase = "evidence"]
    /\ UNCHANGED <<chainVars, events, requestRows, evidenceRows, factRows, policyRows,
                   sync, memory, failures>>

\* replaceEvidence is a transaction.
WriteEvidence ==
    /\ pass.phase = "evidence"
    /\ \E id \in pass.todo :
          /\ IsFirst(id)
          /\ evidenceRows' = evidenceRows \cup {id}
          /\ pass' = [pass EXCEPT !.phase = "resolutions", !.todo = @ \ {id}]
    /\ UNCHANGED <<chainVars, events, requestRows, resolutionRows, factRows, policyRows,
                   sync, memory, failures>>

WriteFlags ==
    /\ pass.phase = "resolutions" /\ pass.todo = {}
    /\ resolutionRows' = Flagged(pass.key, pass.view)
    /\ pass' = [pass EXCEPT !.phase = "fact"]
    /\ UNCHANGED <<chainVars, events, requestRows, evidenceRows, factRows, policyRows,
                   sync, memory, failures>>

WriteFact ==
    /\ pass.phase = "fact"
    /\ factRows' = [factRows EXCEPT ![pass.key] = pass.view]
    /\ pass' = [pass EXCEPT !.phase = "facts", !.key = "", !.view = NoFact]
    /\ UNCHANGED <<chainVars, events, requestRows, resolutionRows, evidenceRows, policyRows,
                   sync, memory, failures>>

\* Mutant: the counters, though the pass may have taken less.
CounterCheckpoint == pass.ends
\* Mutant: a pass without new ids starts over.
ResetCheckpoint ==
    [requests |-> IF pass.ends.requests = pass.from.requests THEN 0
                  ELSE EndOf(pass.from.requests, pass.ends.requests),
     resolutions |-> EndOf(pass.from.resolutions, pass.ends.resolutions),
     events |-> pass.ends.events]
\* Where the next pass starts: after what this one took.
NextCheckpoint ==
    [requests |-> EndOf(pass.from.requests, pass.ends.requests),
     resolutions |-> EndOf(pass.from.resolutions, pass.ends.resolutions),
     events |-> pass.ends.events]

Finish ==
    /\ pass.phase = "facts" /\ pass.keys = {}
    /\ sync' = NextCheckpoint
    /\ pass' = Idle /\ memory' = "succeeded"
    /\ UNCHANGED <<chainVars, events, databaseVars, failures>>

\* Any await of a pass fails: what was written stays, the checkpoints do not move.
Fail ==
    /\ pass.phase # "idle" /\ failures < MaxFailures
    /\ pass' = Idle /\ memory' = "failed"
    /\ failures' = failures + 1
    /\ UNCHANGED <<chainVars, events, databaseVars, sync>>

\* The process dies and is started again.
Restart ==
    /\ failures < MaxFailures
    /\ pass' = Idle /\ memory' = "none"
    /\ failures' = failures + 1
    /\ UNCHANGED <<chainVars, events, databaseVars, sync>>

SyncStep ==
    \/ ReadCounters \/ ReadEvents \/ SyncPolicy \/ ListRequests \/ SyncRequest
    \/ SyncResolutions \/ ReadFact \/ WriteResolution \/ WriteEvidence
    \/ WriteFlags \/ WriteFact \/ Finish

Next ==
    \/ RegistryMoves
    \/ \E p \in Policies : Announce(p)
    \/ Begin \/ SyncStep \/ Fail \/ Restart

Spec == Init /\ [][Next]_vars

\* The interval timer starts passes for ever, and a started pass goes on.
FairSpec == Spec /\ WF_vars(Begin) /\ WF_vars(SyncStep)
-----------------------------------------------------------------------------
(* Properties. *)

\* The projection is well formed, and requests are projected without a gap.
TypeOK ==
    /\ requestRows \in
          [1 .. Cardinality(DOMAIN requestRows) ->
             [status : Terminal \cup {"DISPATCHED"},
              callback : {"NOT_REQUESTED", "DISPATCHED", "ACKNOWLEDGED", "FAILED_REPORTED"}]]
    /\ resolutionRows \in [DOMAIN resolutionRows -> [canonical : BOOLEAN, latest : BOOLEAN]]
    /\ DOMAIN resolutionRows \subseteq DOMAIN resolutions
    /\ evidenceRows \subseteq DOMAIN resolutionRows
    /\ policyRows \in [Policies -> PolicyStates]
    /\ sync.requests <= Len(requests) /\ sync.resolutions <= Len(resolutions)
    /\ sync.events <= Len(events)

(***************************************************************************)
(* What a checkpoint says is done, is done: whatever failed or was killed  *)
(* on the way, everything up to it is in the database, with its evidence,  *)
(* a fact at least as new, and a policy no older than the events counted.  *)
(* Nothing reads those records again, so a gap would be for ever           *)
(* (indexer.ts syncOnce, setSyncStatus).                                   *)
(***************************************************************************)
CheckpointsCover ==
    /\ 1 .. sync.requests \subseteq DOMAIN requestRows
    /\ 1 .. sync.resolutions \subseteq DOMAIN resolutionRows \cap evidenceRows
    /\ \A id \in 1 .. sync.resolutions : factRows[resolutions[id].key].latest >= id
    /\ \A p \in Policies :
          LET counted == StateAfter(sync.events, p)
          IN  /\ counted # "absent" => policyRows[p] # "absent"
              /\ counted = "deprecated" => policyRows[p] = "deprecated"

(***************************************************************************)
(* repository.getFact takes the fact's row first and the flagged           *)
(* resolutions later, newest first: at every moment of a pass, failed or   *)
(* not, the canonical resolution it finds is none or not older than the    *)
(* one the row names, so a retired answer is never served as canonical     *)
(* beside a fact that has moved on (indexer.ts syncFacts: flags first).    *)
(***************************************************************************)
Found(k) == {id \in ResolutionIds(k) : resolutionRows[id].canonical}
ServedAnswerIsCurrent ==
    \A k \in FactKeys : Found(k) # {} => \E id \in Found(k) : id >= factRows[k].current

(***************************************************************************)
(* After a pass that succeeded, the flags of the resolutions and the row   *)
(* of their fact name the same canonical and newest resolution, though     *)
(* they are written one by one from reads the chain moves between, and     *)
(* though earlier passes may have stopped half way (indexer.ts syncFacts). *)
(* Not so while a resolution of the fact is ahead of the checkpoint: a     *)
(* pass that read it and failed is not repeated by one capped short of it. *)
(***************************************************************************)
RowsAgree(k) ==
    \A id \in ResolutionIds(k) :
        /\ resolutionRows[id].canonical <=> id = factRows[k].current
        /\ resolutionRows[id].latest <=> id = factRows[k].latest
CaughtUp(k) == \A id \in DOMAIN resolutions : resolutions[id].key = k => id <= sync.resolutions
FinishedPassAgrees ==
    pass.phase = "idle" /\ memory = "succeeded" =>
        \A k \in FactKeys : CaughtUp(k) => RowsAgree(k)

\* The same of a fact shown before, after a failed pass (docs/INDEXER.md).
LastGoodProjectionIntact ==
    pass.phase = "idle" /\ memory = "failed" =>
        \A k \in FactKeys : factRows[k] # NoFact => RowsAgree(k)

(***************************************************************************)
(* No write takes the projection back: not the pointers of a fact, not an  *)
(* ended request, not a checkpoint, not a deprecation.                     *)
(***************************************************************************)
ProjectionAdvances ==
    [][/\ \A k \in FactKeys : /\ factRows'[k].current >= factRows[k].current
                              /\ factRows'[k].latest >= factRows[k].latest
       /\ \A i \in DOMAIN requestRows :
             requestRows[i].status \in Terminal => requestRows'[i].status = requestRows[i].status
       /\ \A p \in Policies : policyRows[p] = "deprecated" => policyRows'[p] = "deprecated"
       /\ sync'.requests >= sync.requests /\ sync'.resolutions >= sync.resolutions
       /\ sync'.events >= sync.events]_vars

(***************************************************************************)
(* The projection catches up with what lasts: a request that has ended is  *)
(* shown so, a fact at least as new is shown, and a deprecation is shown.  *)
(* For requests this needs that in the end no more open ones are waiting   *)
(* than a pass reads again: listMutableRequestIds takes the newest ones.   *)
(***************************************************************************)
Uncrowded ==
    Cardinality({i \in DOMAIN requestRows : Mutable(requestRows[i])}) <= MaxMutable
EndIsShown(i) ==
    /\ i \in DOMAIN requestRows
    /\ requestRows[i].status = requests[i].status
MirrorCatchesUp ==
    /\ <>[]Uncrowded =>
          \A i \in 1 .. MaxEntries :
              (i \in DOMAIN requests /\ requests[i].status \in Terminal) ~> EndIsShown(i)
    /\ \A k \in FactKeys, id \in 1 .. MaxEntries :
          facts[k].current = id ~> factRows[k].current >= id
    /\ \A p \in Policies :
          StateAfter(Len(events), p) = "deprecated" ~> policyRows[p] = "deprecated"
=============================================================================
