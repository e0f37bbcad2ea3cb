------------------------- MODULE ResolverConsensus -------------------------
(***************************************************************************)
(* The nondeterministic part of EvidraResolver.resolve_request: a leader   *)
(* fetches the job's pages, asks a model and normalises its answer; a      *)
(* validator does all of it again and accepts if the critical fields       *)
(* agree; an accepted verdict is sent to the registry.                     *)
(*                                                                         *)
(* Each of the two fetches for itself, so a page may be there for one and  *)
(* not for the other, or say something else, and a model may answer        *)
(* anything, well-formed or not.                                           *)
(***************************************************************************)
EXTENDS SourcePolicy

CONSTANTS
    Jobs,       \* what the registry has stored: [seeds, extras, policy]
    Answers     \* what a model may answer: [outcome, diagnostic]

ASSUME ConsensusConstants ==
    /\ Jobs \subseteq [seeds : Seq(Pages), extras : Seq(Pages), policy : SourcePolicies]
    /\ \A j \in Jobs : Len(j.extras) <= MaxSupplemental
    /\ \A answer \in Answers : DOMAIN answer = {"outcome", "diagnostic"}

VARIABLES
    job,        \* the job of the call in progress, or of the last one
    executions, \* <<leader's, validator's>>, as far as they have run
    emitted     \* the verdict of the commit the call emitted: a set of at most one

vars == <<job, executions, emitted>>

Urls == MergeResolutionUrls(job.seeds, job.extras)

\* _resolve_semantics: what one party makes of the pages it could fetch.
Execution(fetched, answer, policy) ==
    [fetched |-> fetched,
     verdict |-> Normalized(answer, DedupeAndGroup(fetched, policy), policy)]

\* The pages in order, each with its content or none.
Fetched(found) ==
    [i \in DOMAIN Urls |-> [page |-> Urls[i], content |-> found[Urls[i]]]]

Executions ==
    {Execution(Fetched(found), answer, job.policy) :
        found \in [ToSet(Urls) -> Contents \cup {NoContent}], answer \in Answers}

\* Mutant: the validator accepts whatever is well-formed.
AgreesIfWellFormed(proposed, own) == proposed.diagnostic \in AnswerDiagnostics

\* validator_fn: the critical fields, not the manifest nor the summary.
Agrees(proposed, own) ==
    /\ proposed.outcome \in AnswerOutcomes
    /\ proposed.diagnostic \in AnswerDiagnostics
    /\ proposed = own

-----------------------------------------------------------------------------
Init == job \in Jobs /\ executions = <<>> /\ emitted = {}

\* The next call: a job reaches the resolver, which collects its URLs and loads
\* its policy. Jobs are those that pass its checks of caller, snapshot, template,
\* policy and URLs; any other call raises and has no effect.
ResolveRequest ==
    /\ Len(executions) = 2
    /\ job' \in Jobs
    /\ executions' = <<>>
    /\ emitted' = {}

Lead ==
    /\ executions = <<>>
    /\ \E leader \in Executions : executions' = <<leader>>
    /\ UNCHANGED <<job, emitted>>

\* A refused verdict is not committed: the call has no effect.
Validate ==
    /\ Len(executions) = 1
    /\ \E validator \in Executions :
        /\ executions' = Append(executions, validator)
        /\ emitted' = IF Agrees(executions[1].verdict, validator.verdict)
                      THEN {executions[1].verdict} ELSE {}
    /\ UNCHANGED job

Next == ResolveRequest \/ Lead \/ Validate

Spec == Init /\ [][Next]_vars

-----------------------------------------------------------------------------
Parties == ToSet(executions)

Evidence(party) == DedupeAndGroup(party.fetched, job.policy)

Verdicts == [outcome : AnswerOutcomes, diagnostic : AnswerDiagnostics, policyOk : BOOLEAN]

\* Whatever a model answers, a verdict has a known outcome and diagnostic: the
\* registry reverts any other, and the job would stay open until it is retried.
TypeOK ==
    /\ job \in Jobs
    /\ Len(executions) <= 2
    /\ \A party \in Parties : party.verdict \in Verdicts
    /\ emitted \subseteq Verdicts

\* A boolean verdict is one the registry accepts and a reader may trust: its
\* diagnostic is NONE and its policy satisfied (_normalize_leader_result), so
\* no commit of this resolver is lost to the registry's guard.
BooleanIsCommittable ==
    \A party \in Parties :
        party.verdict.outcome \in Booleans =>
            party.verdict.diagnostic = "NONE" /\ party.verdict.policyOk

\* A boolean is committed only if each party, from the pages it fetched itself,
\* came to it under the policy (validator_fn): the leader's evidence alone
\* decides nothing.
BooleanIsAgreed ==
    \A verdict \in emitted :
        verdict.outcome \in Booleans =>
            /\ Len(executions) = 2
            /\ \A party \in Parties :
                /\ party.verdict.outcome = verdict.outcome
                /\ PolicyOk(Evidence(party), job.policy)

\* The pages a policy could rest on, by the policy's own words: fetched, of a
\* class it admits, and one for each domain.
Admitted(fetched, policy) ==
    {i \in DOMAIN fetched :
        /\ fetched[i].content # NoContent
        /\ SourceClass(fetched[i].page, fetched[i].content)
              \notin policy.disallowed \cup {"SOCIAL"}
        /\ policy.allowed # {} =>
              SourceClass(fetched[i].page, fetched[i].content) \in policy.allowed}

IndependentlyClassed(fetched, i) ==
    SourceClass(fetched[i].page, fetched[i].content) \in IndependentEligible

\* Verdicts with a satisfied policy rest on enough admitted pages: on the
\* required number from different domains, of the subject's own on the number
\* of primary ones, and on two domains when a cross-check is asked for
\* (_policy_eval after grouping), whatever was fetched and in any order.
PolicyIsMet ==
    \A party \in Parties :
        party.verdict.policyOk =>
            LET fetched == party.fetched
                admitted == Admitted(fetched, job.policy)
                domains == {Domain[fetched[i].page] :
                               i \in {j \in admitted : IndependentlyClassed(fetched, j)}}
                own == {i \in admitted : fetched[i].page \in Owned}
            IN /\ admitted # {}
               /\ Cardinality(domains) >= job.policy.minIndependent
               /\ job.policy.crossCheck => Cardinality(domains) >= 2
               /\ Cardinality(own) >= job.policy.minPrimary

\* Two sources that count as independent are of different domains, do not copy
\* each other, and the later does not name the earlier as its source
\* (_cluster_sources): a mirror or a reprint adds nothing to the count.
IndependentSourcesAreSeparate ==
    \A party \in Parties :
        LET sources == Evidence(party) IN
        \A i, j \in DOMAIN sources :
            i < j /\ sources[i].independent /\ sources[j].independent =>
                /\ Domain[sources[i].page] # Domain[sources[j].page]
                /\ ~Alike(sources[i].content, sources[j].content)
                /\ <<sources[j].content, sources[i].page>> \notin Cites

\* The domains of the subject's own pages among the admitted ones: hosts below
\* its host may have different ones, as those below gov.uk have.
SubjectDomains(fetched, policy) ==
    {Domain[fetched[i].page] : i \in {j \in Admitted(fetched, policy) : fetched[j].page \in Owned}}

\* However many pages of the subject are listed, they count as primary at most
\* once for each of its domains (_cluster_sources groups before it classifies):
\* a policy that asks for two primary sources is met by no evidence of a subject
\* whose pages are of one domain.
SubjectCountsOncePerDomain ==
    \A party \in Parties :
        LET domains == SubjectDomains(party.fetched, job.policy) IN
        /\ PrimaryCount(Evidence(party)) <= Cardinality(domains)
        /\ party.verdict.policyOk => job.policy.minPrimary <= Cardinality(domains)

\* Those of a list that have a content, in their order.
WithContent(list) ==
    FoldLeft(LAMBDA out, x : IF x.content = NoContent THEN out ELSE Append(out, x), <<>>, list)

\* A page that could not be fetched takes nothing from the others: they are
\* judged as if it had not been listed (_cluster_sources skips it, and the
\* prompt says "A failed/unavailable URL must not poison other sources").
UnavailableIsNeutral ==
    \A party \in Parties :
        DedupeAndGroup(WithContent(party.fetched), job.policy) = WithContent(Evidence(party))

\* The pages fetched are all different, the supplemental ones come first, and
\* a page is left out only when a budget is used up (merge_resolution_urls).
UrlsFillTheBudget ==
    LET extras == ToSet(job.extras)
        listed == extras \cup ToSet(job.seeds)
    IN /\ Cardinality(ToSet(Urls)) = Len(Urls)
       /\ ToSet(Urls) \subseteq listed
       /\ \A i, j \in DOMAIN Urls : Urls[i] \in extras /\ Urls[j] \notin extras => i < j
       /\ IF ToSet(Urls) = listed THEN Len(Urls) <= MaxSources ELSE Len(Urls) = MaxSources
=============================================================================
