----------------------------- MODULE MCResolver -----------------------------
(* Small instances of the resolver: seven pages, three of them the subject's *)
(* in two domains, and jobs on the deployed policies core and solo, on an    *)
(* unrestricted one, and on one that asks for two primary sources.           *)
EXTENDS ResolverConsensus

MCPages == {"site", "docs", "office", "news", "wire", "post", "repo"}
MCDomain == [p \in MCPages |-> IF p = "docs" THEN "site" ELSE p]
MCKind == [p \in MCPages |->
              CASE p = "post" -> "social" [] p = "repo" -> "code" [] OTHER -> "web"]
\* The subject is a host that others are registered below: site and docs are of
\* one domain below it, office of another.
MCOwned == {"site", "docs", "office"}

\* A story, a copy of it, a text that names the news page, and a few words.
MCContents == {"story", "copy", "quote", "words"}
MCSubstantial == {"story", "copy", "quote"}
MCCopies == {{"story", "copy"}, {"quote"}, {"words"}}
MCCites == {<<"quote", "news">>}

Policy(allowed, disallowed, minPrimary, minIndependent, crossCheck) ==
    [allowed |-> allowed, disallowed |-> disallowed, minPrimary |-> minPrimary,
     minIndependent |-> minIndependent, crossCheck |-> crossCheck]

Core == Policy(PrimaryClasses \cup {"INDEPENDENT_SECONDARY"}, {}, 1, 1, TRUE)
Solo == Policy(PrimaryClasses, {}, 1, 1, FALSE)
Open == Policy({}, {"INDEPENDENT_SECONDARY"}, 0, 0, FALSE)
TwoPrimary == Policy({}, {"SOCIAL"}, 2, 0, FALSE)

Job(seeds, extras, policy) == [seeds |-> seeds, extras |-> extras, policy |-> policy]

\* Every way to list up to two seeds and two supplemental pages.
ListedJobs ==
    [seeds : SeqOf({"site", "docs", "office", "news"}, 2),
     extras : {s \in SeqOf({"news", "wire", "post"}, 2) : IsInjective(s)},
     policy : {Core, Solo, Open, TwoPrimary}]

FewJobs ==
    {Job(<<"site", "news">>, <<>>, Core),
     Job(<<"news">>, <<"site">>, Solo),
     Job(<<"repo", "news">>, <<>>, Open),
     Job(<<>>, <<>>, Open)}

MCJobs == ListedJobs \cup FewJobs

Answer(outcome, diagnostic) == [outcome |-> outcome, diagnostic |-> diagnostic]

MCAnswers == {Answer("TRUE", "SOURCE_UNAVAILABLE"), Answer("FALSE", "NONE"),
              Answer("UNRESOLVED", "NONE"), Answer("UNRESOLVED", "INSUFFICIENT_EVIDENCE"),
              Answer("UNRESOLVED", "unheard of"), Answer("MAYBE", "NONE")}
\* The leader's part for every list of pages, with one answer of the model.
LeadOne ==
    /\ executions = <<>>
    /\ \E found \in [ToSet(Urls) -> Contents \cup {NoContent}] :
          executions' = <<Execution(Fetched(found), Answer("TRUE", "NONE"), job.policy)>>
    /\ UNCHANGED <<job, emitted>>

\* Call after call, with a validator and every answer, for a few jobs.
MixedNext ==
    \/ job \in FewJobs /\ (Lead \/ Validate)
    \/ job' \in FewJobs /\ ResolveRequest
    \/ job \notin FewJobs /\ LeadOne

MixedSpec == Init /\ [][MixedNext]_vars
=============================================================================
