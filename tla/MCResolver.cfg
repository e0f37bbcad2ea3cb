\* Every list of up to four pages for a leader; leader and validator for a few.
SPECIFICATION MixedSpec
CONSTANTS
    Pages <- MCPages
    Domain <- MCDomain
    Kind <- MCKind
    Owned <- MCOwned
    Contents <- MCContents
    Substantial <- MCSubstantial
    Copies <- MCCopies
    Cites <- MCCites
    MaxSupplemental = 2
    MaxSources = 3
    Jobs <- MCJobs
    Answers <- MCAnswers
INVARIANTS
    BooleanIsCommittable
    BooleanIsAgreed
    PolicyIsMet
    IndependentSourcesAreSeparate
    SubjectCountsOncePerDomain
    UnavailableIsNeutral
    UrlsFillTheBudget
CHECK_DEADLOCK FALSE
