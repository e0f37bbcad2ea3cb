---------------------------- MODULE SourcePolicy ----------------------------
(***************************************************************************)
(* How the resolver turns fetched pages into a policy decision: the pure   *)
(* functions of evidra_resolver.py that merge URLs, classify and group     *)
(* sources, apply a source policy and normalise a model's answer.          *)
(*                                                                         *)
(* A page is a canonical URL; what the functions ask of its host and of    *)
(* the subject's authority is given by constants, and so is what they ask  *)
(* of contents: which are substantial, which are copies, whom they cite.   *)
(***************************************************************************)
EXTENDS Integers, Sequences, FiniteSets, SequencesExt

CONSTANTS
    Pages,          \* canonical URLs
    Domain,         \* [Pages -> registrable domains]
    Kind,           \* [Pages -> HostKinds]
    Owned,          \* pages of the subject's account, or of its host and those below it
    Contents,       \* rendered texts
    Substantial,    \* contents of 64 characters or six words
    Copies,         \* sets of contents with one fingerprint or similar words
    Cites,          \* <<content, page>>: the text names the page's host or URL
    MaxSupplemental, \* MAX_SUPPLEMENTAL_SOURCES
    MaxSources       \* MAX_TOTAL_RESOLUTION_SOURCES

NoContent == "no content"

HostKinds == {"web", "code", "community", "social"}

ASSUME SourceConstants ==
    /\ Kind \in [Pages -> HostKinds]
    /\ DOMAIN Domain = Pages
    /\ Owned \subseteq Pages
    /\ NoContent \notin Contents
    /\ Substantial \subseteq Contents
    /\ Cites \subseteq Contents \X Pages
    /\ MaxSupplemental \in Nat /\ MaxSources \in Nat

SourceClasses == {"OFFICIAL", "PRIMARY", "INDEPENDENT_SECONDARY", "DERIVED",
                  "COMMUNITY", "SOCIAL", "UNKNOWN", "INVALID"}
PrimaryClasses == {"OFFICIAL", "PRIMARY"}
IndependentEligible == PrimaryClasses \cup {"INDEPENDENT_SECONDARY", "COMMUNITY"}

Booleans == {"TRUE", "FALSE"}
AnswerOutcomes == Booleans \cup {"UNRESOLVED"}
\* AMBIGUOUS and CONFLICTING_EVIDENCE are treated as INSUFFICIENT_EVIDENCE is.
AnswerDiagnostics == {"NONE", "INSUFFICIENT_EVIDENCE", "SOURCE_POLICY_UNSATISFIED",
                      "SOURCE_UNAVAILABLE", "INTERNAL_RESOLUTION_ERROR"}

SourcePolicies == [allowed: SUBSET SourceClasses, disallowed: SUBSET SourceClasses,
                   minPrimary: Nat, minIndependent: Nat, crossCheck: BOOLEAN]

-----------------------------------------------------------------------------
Cut(s, n) == SubSeq(s, 1, IF Len(s) < n THEN Len(s) ELSE n)

Distinct(s) ==
    FoldLeft(LAMBDA out, x : IF Contains(out, x) THEN out ELSE Append(out, x), <<>>, s)

\* Mutant: the seeds are not looked up among the supplemental pages.
MergedTwice(seeds, extras) ==
    Cut(Cut(Distinct(extras), MaxSupplemental) \o Distinct(seeds), MaxSources)

\* Supplemental pages first, each page once, within the budgets.
MergeResolutionUrls(seeds, extras) ==
    Cut(Distinct(Cut(Distinct(extras), MaxSupplemental) \o seeds), MaxSources)

\* The class of a usable page, by whose it is and not by what it says.
SourceClass(p, c) ==
    CASE Kind[p] # "web" /\ p \in Owned -> "PRIMARY"
      [] Kind[p] = "social" /\ p \notin Owned -> "SOCIAL"
      [] Kind[p] = "community" /\ p \notin Owned -> "COMMUNITY"
      [] Kind[p] = "code" /\ p \notin Owned -> "UNKNOWN"
      [] Kind[p] = "web" /\ p \in Owned -> "OFFICIAL"
      [] OTHER -> IF c \in Substantial THEN "INDEPENDENT_SECONDARY" ELSE "UNKNOWN"

Alike(c, d) == \E copies \in Copies : {c, d} \subseteq copies

\* Mutant: a page that could not be fetched still claims its domain.
AllAreOrigins(sources) == {i \in DOMAIN sources : sources[i].status # "DERIVED"}

\* The sources that later ones are compared with.
Origins(sources) == {i \in DOMAIN sources : sources[i].status = "USABLE"}

\* The origins of a page's domain or text, and those it names as its own.
Resembled(sources, p, c) ==
    {i \in Origins(sources) : sources[i].group = Domain[p] \/ Alike(sources[i].content, c)}
Named(sources, p, c) == {i \in Origins(sources) : <<c, sources[i].page>> \in Cites}

\* Mutants: what a page says it takes from others is not looked at; the pages of
\* the subject are compared with none.
UncitedText(sources, p, c) == Resembled(sources, p, c)
OwnedAreOrigins(sources, p, c) ==
    IF p \in Owned THEN {} ELSE Resembled(sources, p, c) \cup Named(sources, p, c)

\* The origins a page derives from: it inherits the group of the first of them.
DerivedFrom(sources, p, c) ==
    IF Resembled(sources, p, c) # {} THEN Resembled(sources, p, c) ELSE Named(sources, p, c)

Clustered(sources, item) ==
    LET p == item.page
        c == item.content
        from == DerivedFrom(sources, p, c)
        status == IF \E i \in DOMAIN sources : sources[i].page = p THEN "DUPLICATE"
                  ELSE IF c = NoContent THEN "UNAVAILABLE"
                  ELSE IF from # {} THEN "DERIVED" ELSE "USABLE"
    IN [page |-> p, status |-> status,
        content |-> IF status = "DUPLICATE" THEN NoContent ELSE c,
        group |-> IF status = "DERIVED" THEN sources[Min(from)].group ELSE Domain[p],
        class |-> CASE status \in {"DUPLICATE", "DERIVED"} -> "DERIVED"
                    [] status = "UNAVAILABLE" -> "UNKNOWN"
                    [] OTHER -> SourceClass(p, c),
        eligible |-> FALSE, primary |-> FALSE, independent |-> FALSE]

ClusterSources(fetched) ==
    FoldLeft(LAMBDA sources, item : Append(sources, Clustered(sources, item)),
             <<>>, fetched)

Eligible(s, policy) ==
    /\ s.status = "USABLE"
    /\ s.class \notin policy.disallowed \cup {"DERIVED", "INVALID", "SOCIAL"}
    /\ policy.allowed # {} => s.class \in policy.allowed

\* Each provenance group counts once as independent.
Judged(sources, s, policy) ==
    LET eligible == Eligible(s, policy) IN
    [s EXCEPT !.eligible = eligible,
              !.primary = eligible /\ s.class \in PrimaryClasses,
              !.independent = /\ eligible
                              /\ s.class \in IndependentEligible
                              /\ \A i \in DOMAIN sources :
                                    sources[i].independent => sources[i].group # s.group]

ApplySourcePolicy(sources, policy) ==
    FoldLeft(LAMBDA done, s : Append(done, Judged(done, s, policy)), <<>>, sources)

DedupeAndGroup(fetched, policy) == ApplySourcePolicy(ClusterSources(fetched), policy)

Count(sources, Test(_)) == Cardinality({i \in DOMAIN sources : Test(sources[i])})
PrimaryCount(sources) == Count(sources, LAMBDA s : s.primary)
IndependentCount(sources) == Count(sources, LAMBDA s : s.independent)

\* Mutant: a cross-check is satisfied by the minimum.
PolicyWithoutCrossCheck(sources, policy) ==
    /\ \E i \in DOMAIN sources : sources[i].eligible
    /\ PrimaryCount(sources) >= policy.minPrimary
    /\ IndependentCount(sources) >= policy.minIndependent

PolicyOk(sources, policy) ==
    /\ \E i \in DOMAIN sources : sources[i].eligible
    /\ PrimaryCount(sources) >= policy.minPrimary
    /\ IndependentCount(sources) >= policy.minIndependent
    /\ policy.crossCheck => IndependentCount(sources) >= 2

NothingUsable(sources) == \A i \in DOMAIN sources : sources[i].status # "USABLE"

Verdict(outcome, diagnostic, policyOk) ==
    [outcome |-> outcome, diagnostic |-> diagnostic, policyOk |-> policyOk]

\* Mutant: a boolean answer keeps the model's diagnostic.
DiagnosticKept(answer, sources, policy) ==
    IF PolicyOk(sources, policy) THEN Verdict(answer.outcome, answer.diagnostic, TRUE)
    ELSE Verdict("UNRESOLVED", "SOURCE_POLICY_UNSATISFIED", FALSE)

\* A model's answer, confined to the known outcomes and diagnostics.
Sanitised(answer) ==
    IF answer.outcome \in AnswerOutcomes /\ answer.diagnostic \in AnswerDiagnostics THEN answer
    ELSE [outcome |-> IF answer.outcome \in AnswerOutcomes THEN answer.outcome ELSE "UNRESOLVED",
          diagnostic |-> "INTERNAL_RESOLUTION_ERROR"]

\* _normalize_leader_result: what the model answers is bounded by the evidence.
Normalized(answer, sources, policy) ==
    LET outcome == Sanitised(answer).outcome
        diagnostic == Sanitised(answer).diagnostic
    IN CASE NothingUsable(sources) -> Verdict("UNRESOLVED", "SOURCE_UNAVAILABLE", FALSE)
         [] ~NothingUsable(sources) /\ ~PolicyOk(sources, policy) ->
              IF outcome \in Booleans
              THEN Verdict("UNRESOLVED", "SOURCE_POLICY_UNSATISFIED", FALSE)
              ELSE Verdict(outcome, diagnostic, FALSE)
         [] OTHER ->
              IF outcome \in Booleans THEN Verdict(outcome, "NONE", TRUE)
              ELSE Verdict(outcome, diagnostic, TRUE)
=============================================================================
