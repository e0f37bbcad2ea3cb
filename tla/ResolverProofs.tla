--------------------------- MODULE ResolverProofs ---------------------------
(***************************************************************************)
(* For any pages, contents, policies, jobs and model answers: verdicts are *)
(* well-formed, a boolean one is committable, and it is committed only     *)
(* when both parties' evidence satisfies the policy; the pages are the     *)
(* listed ones, each once, within the budgets; a satisfied policy rests on *)
(* as many separate pages as it asks for; and a page that could not be     *)
(* fetched changes nothing.                                                *)
(*                                                                         *)
(* What the folds compute is proved by counting up to the length of the    *)
(* list: a set of naturals that lacks a number lacks a least one.          *)
(***************************************************************************)
EXTENDS ResolverConsensus, SequenceTheorems, FiniteSetTheorems, WellFoundedInduction, TLAPS

\* Every execution so far is one of the current job, and what was emitted is
\* the verdict of both parties.
ResolverInv ==
    /\ job \in Jobs
    /\ executions \in Seq(Executions)
    /\ Len(executions) <= 2
    /\ \A verdict \in emitted :
        /\ Len(executions) = 2
        /\ \A i \in DOMAIN executions : executions[i].verdict = verdict

-----------------------------------------------------------------------------
\* Whatever was answered, the normalised verdict has a known outcome and
\* diagnostic, is boolean only with diagnostic NONE and a satisfied policy, and
\* says the policy is satisfied only if it is (_normalize_leader_result).
LEMMA NormalizedIsBounded ==
    ASSUME NEW answer, NEW sources, NEW policy
    PROVE  LET verdict == Normalized(answer, sources, policy) IN
           /\ verdict \in Verdicts
           /\ verdict.outcome \in Booleans =>
                verdict.diagnostic = "NONE" /\ verdict.policyOk
           /\ verdict.policyOk => PolicyOk(sources, policy)
<1> DEFINE outcome == Sanitised(answer).outcome
           diagnostic == Sanitised(answer).diagnostic
<1>1. outcome \in AnswerOutcomes /\ diagnostic \in AnswerDiagnostics
  BY DEF Sanitised, AnswerOutcomes, AnswerDiagnostics
<1>2. CASE NothingUsable(sources)
  <2>1. Normalized(answer, sources, policy)
          = Verdict("UNRESOLVED", "SOURCE_UNAVAILABLE", FALSE)
    BY <1>2 DEF Normalized
  <2> QED
    BY <2>1 DEF Verdict, Verdicts, AnswerOutcomes, AnswerDiagnostics, Booleans
<1>3. CASE ~NothingUsable(sources) /\ ~PolicyOk(sources, policy)
  <2>1. Normalized(answer, sources, policy)
          = IF outcome \in Booleans
            THEN Verdict("UNRESOLVED", "SOURCE_POLICY_UNSATISFIED", FALSE)
            ELSE Verdict(outcome, diagnostic, FALSE)
    BY <1>3 DEF Normalized
  <2> HIDE DEF outcome, diagnostic
  <2> QED
    BY <1>1, <2>1 DEF Verdict, Verdicts, AnswerOutcomes, AnswerDiagnostics, Booleans
<1>4. CASE ~NothingUsable(sources) /\ PolicyOk(sources, policy)
  <2>1. Normalized(answer, sources, policy)
          = IF outcome \in Booleans THEN Verdict(outcome, "NONE", TRUE)
                                    ELSE Verdict(outcome, diagnostic, TRUE)
    BY <1>4 DEF Normalized
  <2> HIDE DEF outcome, diagnostic
  <2> QED
    BY <1>1, <1>4, <2>1
    DEF Verdict, Verdicts, AnswerOutcomes, AnswerDiagnostics, Booleans
<1> QED
  BY <1>2, <1>3, <1>4

\* The same of any execution of the job, with the evidence it fetched.
LEMMA ExecutionIsBounded ==
    ASSUME NEW party \in Executions
    PROVE  /\ party.verdict \in Verdicts
           /\ party.verdict.outcome \in Booleans =>
                party.verdict.diagnostic = "NONE" /\ party.verdict.policyOk
           /\ party.verdict.policyOk => PolicyOk(Evidence(party), job.policy)
<1>1. PICK found, answer : party = Execution(Fetched(found), answer, job.policy)
  BY DEF Executions
<1>2. party.verdict = Normalized(answer, Evidence(party), job.policy)
  BY <1>1 DEF Execution, Evidence
<1> QED
  BY <1>2, NormalizedIsBounded

-----------------------------------------------------------------------------
LEMMA ResolverInvInit == Init => ResolverInv
BY DEF Init, ResolverInv

\* A new call starts without executions.
LEMMA ResolveRequestInv == ResolverInv /\ ResolveRequest => ResolverInv'
<1> SUFFICES ASSUME ResolverInv, ResolveRequest PROVE ResolverInv'
  OBVIOUS
<1>1. job' \in Jobs /\ executions' = <<>> /\ emitted' = {}
  BY DEF ResolveRequest
<1>2. executions' \in Seq(Executions')
  BY <1>1
<1> QED
  BY <1>1, <1>2 DEF ResolverInv

\* The executions of a job stay the same set while its call lasts.
LEMMA SameExecutions == ASSUME job' = job PROVE Executions' = Executions
BY DEF Executions, Fetched, Urls

LEMMA LeadInv == ResolverInv /\ Lead => ResolverInv'
<1> SUFFICES ASSUME ResolverInv, Lead PROVE ResolverInv'
  OBVIOUS
<1>1. PICK leader \in Executions : executions' = <<leader>>
  BY DEF Lead
<1>2. job' = job /\ emitted' = emitted /\ emitted = {}
  BY DEF Lead, ResolverInv
<1>3. executions' \in Seq(Executions) /\ Len(executions') = 1
  BY <1>1
<1> QED
  BY <1>2, <1>3, SameExecutions DEF ResolverInv

\* What Append does to the leader's execution.
LEMMA LastAppended ==
    ASSUME NEW S, NEW s \in Seq(S), NEW e \in S
    PROVE  Append(s, e)[Len(s) + 1] = e
OBVIOUS

\* So the validator's execution is the second.
LEMMA SecondAppended ==
    ASSUME NEW S, NEW s \in Seq(S), NEW e \in S, Len(s) = 1
    PROVE  /\ Append(s, e) \in Seq(S)
           /\ Len(Append(s, e)) = 2
           /\ Append(s, e)[1] = s[1]
           /\ Append(s, e)[2] = e
<1>1. Append(s, e) \in Seq(S) /\ Len(Append(s, e)) = 2
  OBVIOUS
<1>2. Append(s, e)[1] = s[1]
  OBVIOUS
<1>3. Append(s, e)[2] = e
  BY LastAppended, Len(s) + 1 = 2
<1> QED
  BY <1>1, <1>2, <1>3

\* What is emitted is the leader's verdict, and the validator's is the same.
LEMMA ValidateInv == ResolverInv /\ Validate => ResolverInv'
<1> SUFFICES ASSUME ResolverInv, Validate PROVE ResolverInv'
  OBVIOUS
<1>1. PICK validator \in Executions :
        /\ executions' = Append(executions, validator)
        /\ emitted' = IF Agrees(executions[1].verdict, validator.verdict)
                      THEN {executions[1].verdict} ELSE {}
  BY DEF Validate
<1>2. job' = job /\ Len(executions) = 1 /\ executions \in Seq(Executions)
  BY DEF Validate, ResolverInv
<1>3. /\ executions' \in Seq(Executions)
      /\ Len(executions') = 2
      /\ executions'[1] = executions[1]
      /\ executions'[2] = validator
  BY <1>1, <1>2, SecondAppended
<1>4. \A verdict \in emitted' :
         \A i \in DOMAIN executions' : executions'[i].verdict = verdict
  BY <1>1, <1>3 DEF Agrees
<1> QED
  BY <1>2, <1>3, <1>4, SameExecutions DEF ResolverInv

LEMMA ResolverInvStep == ResolverInv /\ [Next]_vars => ResolverInv'
<1>1. ResolverInv /\ UNCHANGED vars => ResolverInv'
  BY SameExecutions DEF ResolverInv, vars
<1> QED
  BY <1>1, ResolveRequestInv, LeadInv, ValidateInv DEF Next

LEMMA ResolverInvariance == Spec => []ResolverInv
BY ResolverInvInit, ResolverInvStep, PTL DEF Spec

-----------------------------------------------------------------------------
\* The parties of an invariant are the executions so far.
LEMMA PartiesAreExecutions ==
    ASSUME ResolverInv
    PROVE  /\ Parties \subseteq Executions
           /\ \A party \in Parties, verdict \in emitted : party.verdict = verdict
           /\ \A verdict \in emitted : \E party \in Parties : party.verdict = verdict
<1>1. executions \in Seq(Executions)
  BY DEF ResolverInv
<1>2. Parties = {executions[i] : i \in DOMAIN executions}
  BY DEF Parties, ToSet
<1>3. \A verdict \in emitted : 1 \in DOMAIN executions
  BY <1>1 DEF ResolverInv
<1> QED
  BY <1>1, <1>2, <1>3 DEF ResolverInv

\* The state is well-typed whatever models answer.
THEOREM VerdictsAreTyped == Spec => []TypeOK
<1>1. ResolverInv => TypeOK
  BY PartiesAreExecutions, ExecutionIsBounded DEF ResolverInv, TypeOK
<1> QED
  BY <1>1, ResolverInvariance, PTL

\* The registry's guard accepts every boolean verdict of the resolver.
THEOREM BooleansAreCommittable == Spec => []BooleanIsCommittable
<1>1. ResolverInv => BooleanIsCommittable
  BY PartiesAreExecutions, ExecutionIsBounded DEF BooleanIsCommittable
<1> QED
  BY <1>1, ResolverInvariance, PTL

\* No boolean is committed that only one party's evidence supports.
THEOREM BooleansAreAgreed == Spec => []BooleanIsAgreed
<1>1. ResolverInv => BooleanIsAgreed
  <2> SUFFICES ASSUME ResolverInv, NEW verdict \in emitted, verdict.outcome \in Booleans
               PROVE  /\ Len(executions) = 2
                      /\ \A party \in Parties :
                            /\ party.verdict.outcome = verdict.outcome
                            /\ PolicyOk(Evidence(party), job.policy)
    BY DEF BooleanIsAgreed
  <2>1. Len(executions) = 2
    BY DEF ResolverInv
  <2> QED
    BY <2>1, PartiesAreExecutions, ExecutionIsBounded
<1> QED
  BY <1>1, ResolverInvariance, PTL

-----------------------------------------------------------------------------
(* Folds over a sequence, element by element. *)

\* A set of naturals has a least element: induction, with a set for its predicate.
Below == {p \in Nat \X Nat : p[1] < p[2]}
LEMMA LeastNatural ==
    ASSUME NEW T \in SUBSET Nat, T # {}
    PROVE  \E n \in T : \A m \in T : n <= m
<1>1. IsWellFoundedOn(Below, Nat)
  BY NatLessThanWellFounded DEF OpToRel, Below
<1>2. PICK n \in T : \A m \in T : <<m, n>> \notin Below
  BY <1>1, WFMin
<1>3. ASSUME NEW m \in T PROVE n <= m
  <2>1. <<m, n>> \in Nat \X Nat
    OBVIOUS
  <2>2. ~(m < n)
    BY <1>2, <2>1 DEF Below
  <2>3. QED
    BY <2>2
<1>4. QED
  BY <1>3

\* So a set that holds 0 and, with any number below n, the next, holds 0..n.
LEMMA CountUp ==
    ASSUME NEW n \in Nat, NEW T, 0 \in T, \A k \in 0..n : k \in T /\ k < n => k + 1 \in T
    PROVE  \A k \in 0..n : k \in T
<1> DEFINE U == {k \in Nat : k <= n /\ k \notin T}
<1>1. SUFFICES ASSUME U # {} PROVE FALSE
  OBVIOUS
<1>2. U \in SUBSET Nat
  OBVIOUS
<1>3. PICK m \in U : \A k \in U : m <= k
  BY <1>1, <1>2, LeastNatural, Zenon
<1>4. m \in Nat /\ m <= n /\ m \notin T /\ m # 0
  BY <1>3
<1>5. m - 1 \in 0..n /\ m - 1 < n /\ (m - 1) + 1 = m /\ m - 1 \in Nat
  BY <1>4
<1>6. m - 1 \notin U
  BY <1>3, <1>4, <1>5
<1>7. m - 1 \in T
  BY <1>5, <1>6
<1>8. QED
  BY <1>4, <1>5, <1>7

\* The first and the last of some numbers.
LEMMA MinFacts ==
    ASSUME NEW s \in SUBSET Nat, s # {}
    PROVE  Min(s) \in s /\ \A y \in s : Min(s) <= y
<1>1. \E x \in s : \A y \in s : x <= y
  BY LeastNatural
<1>2. QED
  BY <1>1 DEF Min

LEMMA MaxFacts ==
    ASSUME NEW n \in Nat, NEW s \in SUBSET (1..n), s # {}
    PROVE  Max(s) \in s /\ \A y \in s : y <= Max(s)
<1> DEFINE T == {m \in Nat : \A x \in s : x <= m}
<1>1. n \in T
  OBVIOUS
<1>2. PICK m \in T : \A k \in T : m <= k
  BY <1>1, LeastNatural, Zenon
<1>3. m \in Nat /\ \A x \in s : x <= m
  BY <1>2
<1>4. m \in s
  <2>1. SUFFICES ASSUME m \notin s PROVE FALSE
    OBVIOUS
  <2>2. \A x \in s : x <= m - 1 /\ m - 1 \in Nat
    BY <1>3, <2>1
  <2>3. m - 1 \in T
    BY <2>2
  <2>4. QED
    BY <1>2, <1>3, <2>3
<1>5. \E x \in s : \A y \in s : x >= y
  BY <1>3, <1>4
<1>6. Max(s) \in s /\ \A y \in s : Max(s) >= y
  BY <1>5 DEF Max
<1>7. QED
  BY <1>6

\* The recursion a fold is defined by, for a step G of index and result so far.
Folds(n, base, G, g) ==
    \A s \in SUBSET (1..n) : g[s] = IF s = {} THEN base ELSE G[<<Max(s), g[s \ {Max(s)}]>>]

LEMMA FoldsExist ==
    ASSUME NEW n \in Nat, NEW A, NEW base \in A, NEW G \in [(1..n) \X A -> A]
    PROVE  \E g \in [SUBSET (1..n) -> A] : Folds(n, base, G, g)
<1> DEFINE Solved(k) == \E g \in [SUBSET (1..k) -> A] : Folds(k, base, G, g)
           T == {k \in Nat : Solved(k)}
<1>1. 0 \in T
  <2> DEFINE g == [s \in SUBSET (1..0) |-> base]
  <2>1. \A s \in SUBSET (1..0) : s = {}
    OBVIOUS
  <2>2. g \in [SUBSET (1..0) -> A] /\ Folds(0, base, G, g)
    BY <2>1 DEF Folds
  <2>3. QED
    BY <2>2
<1>2. ASSUME NEW k \in 0..n, k \in T, k < n PROVE k + 1 \in T
  <2>1. PICK g \in [SUBSET (1..k) -> A] : Folds(k, base, G, g)
    BY <1>2
  <2> DEFINE h == [s \in SUBSET (1..(k + 1)) |->
                      IF k + 1 \in s THEN G[<<k + 1, g[s \ {k + 1}]>>] ELSE g[s]]
  <2>2. k \in Nat /\ k + 1 \in Nat /\ k + 1 \in 1..n /\ 1..k \subseteq 1..(k + 1) /\ k + 1 \notin 1..k
    BY <1>2
  <2>3. \A s \in SUBSET (1..(k + 1)) :
            /\ s \ {k + 1} \in SUBSET (1..k)
            /\ k + 1 \notin s => s \in SUBSET (1..k)
    BY <2>2
  <2>4. h \in [SUBSET (1..(k + 1)) -> A]
    <3>1. ASSUME NEW s \in SUBSET (1..(k + 1)), k + 1 \in s
          PROVE  G[<<k + 1, g[s \ {k + 1}]>>] \in A
      BY <2>2, <2>3
    <3>2. ASSUME NEW s \in SUBSET (1..(k + 1)), k + 1 \notin s
          PROVE  g[s] \in A
      BY <2>3, <3>2
    <3>3. QED
      BY <3>1, <3>2
  <2>5. \A s \in SUBSET (1..k) : h[s] = g[s]
    BY <2>2
  <2>6. ASSUME NEW s \in SUBSET (1..(k + 1)), k + 1 \in s
        PROVE  h[s] = G[<<k + 1, g[s \ {k + 1}]>>]
    BY <2>6
  <2>7. \A i, j \in 1..(k + 1) : i <= k + 1 /\ (k + 1 <= i => i = k + 1)
    BY <2>2
  <2> HIDE DEF h
  <2>8. ASSUME NEW s \in SUBSET (1..(k + 1))
        PROVE  h[s] = IF s = {} THEN base ELSE G[<<Max(s), h[s \ {Max(s)}]>>]
    <3>1. CASE k + 1 \in s
      <4>1. s # {}
        BY <3>1
      <4>2. Max(s) \in s /\ k + 1 <= Max(s)
        BY <2>2, <3>1, <4>1, MaxFacts
      <4>3. Max(s) = k + 1
        BY <2>7, <4>2
      <4>4. h[s \ {k + 1}] = g[s \ {k + 1}]
        BY <2>3, <2>5
      <4>5. QED
        BY <2>6, <3>1, <4>1, <4>3, <4>4
    <3>2. CASE k + 1 \notin s
      <4>1. s \in SUBSET (1..k) /\ s \ {Max(s)} \in SUBSET (1..k)
        BY <2>3, <3>2
      <4>2. g[s] = IF s = {} THEN base ELSE G[<<Max(s), g[s \ {Max(s)}]>>]
        BY <2>1, <4>1 DEF Folds
      <4>3. h[s] = g[s] /\ h[s \ {Max(s)}] = g[s \ {Max(s)}]
        BY <2>5, <4>1
      <4>4. QED
        BY <4>2, <4>3
    <3>3. QED
      BY <3>1, <3>2
  <2>9. Folds(k + 1, base, G, h)
    BY <2>8 DEF Folds
  <2>10. QED
    BY <2>2, <2>4, <2>9
<1>3. n \in T
  <2> HIDE DEF T
  <2>1. n \in 0..n
    OBVIOUS
  <2>2. QED
    BY <1>1, <1>2, <2>1, CountUp
<1>4. QED
  BY <1>3

\* What is folded of the first k elements, for each k.
FoldsWithin(n, A, base, G, g) ==
    \A s \in SUBSET (1..n) :
        /\ s = {} => g[s] = base
        /\ s # {} /\ g[s \ {Max(s)}] \in A => g[s] = G[<<Max(s), g[s \ {Max(s)}]>>]

Folded(n, A, base, G, result) ==
    \E h \in [0..n -> A] : /\ h[0] = base
                           /\ \A k \in 0..n : k < n => h[k + 1] = G[<<k + 1, h[k]>>]
                           /\ h[n] = result

LEMMA FoldChain ==
    ASSUME NEW n \in Nat, NEW A, NEW base \in A, NEW G \in [(1..n) \X A -> A], NEW g,
           FoldsWithin(n, A, base, G, g)
    PROVE  Folded(n, A, base, G, g[1..n])
<1> DEFINE h == [k \in 0..n |-> g[1..k]]
           T == {k \in Nat : g[1..k] \in A}
<1>1. g[1..0] = base
  <2>1. 1..0 = {}
    OBVIOUS
  <2>2. QED
    BY <2>1 DEF FoldsWithin
<1>2. ASSUME NEW k \in 0..n, g[1..k] \in A, k < n
      PROVE  g[1..(k + 1)] = G[<<k + 1, g[1..k]>>] /\ G[<<k + 1, g[1..k]>>] \in A
  <2> DEFINE s == 1..(k + 1)
  <2>1. /\ k \in Nat /\ k + 1 \in 1..n /\ k + 1 \in s /\ s \in SUBSET (1..n)
        /\ s \ {k + 1} = 1..k /\ \A i \in s : k + 1 <= i => i = k + 1
    BY <1>2
  <2> HIDE DEF s
  <2>2. Max(s) \in s /\ k + 1 <= Max(s)
    BY <2>1, MaxFacts
  <2>3. Max(s) = k + 1
    BY <2>1, <2>2
  <2>4. g[s] = G[<<k + 1, g[1..k]>>]
    BY <1>2, <2>1, <2>3 DEF FoldsWithin
  <2>5. G[<<k + 1, g[1..k]>>] \in A
    BY <1>2, <2>1
  <2>6. QED
    BY <2>4, <2>5 DEF s
<1>3. \A k \in 0..n : k \in T
  <2>1. 0 \in T
    BY <1>1
  <2>2. ASSUME NEW k \in 0..n, k \in T, k < n PROVE k + 1 \in T
    <3>1. k + 1 \in Nat
      BY <2>2
    <3>2. QED
      BY <1>2, <2>2, <3>1
  <2> HIDE DEF T
  <2>3. QED
    BY <2>1, <2>2, CountUp
<1>4. h \in [0..n -> A]
  BY <1>3
<1>5. \A k \in 0..n : k < n => h[k + 1] = G[<<k + 1, h[k]>>]
  <2>1. ASSUME NEW k \in 0..n, k < n PROVE h[k + 1] = G[<<k + 1, h[k]>>]
    <3>1. k + 1 \in 0..n
      BY <2>1
    <3>2. g[1..(k + 1)] = G[<<k + 1, g[1..k]>>]
      BY <1>2, <1>3, <2>1
    <3>3. QED
      BY <3>1, <3>2
  <2>2. QED
    BY <2>1
<1>6. h[0] = base /\ h[n] = g[1..n]
  BY <1>1
<1>7. QED
  BY <1>4, <1>5, <1>6 DEF Folded

-----------------------------------------------------------------------------
(* What the resolver's folds do, step by step. *)

DistinctStep(out, x) == IF Contains(out, x) THEN out ELSE Append(out, x)

\* Distinct goes through its pages, keeping those it has not met.
LEMMA DistinctSteps ==
    ASSUME NEW X, NEW f \in Seq(X)
    PROVE  \E h \in [0..Len(f) -> Seq(X)] :
               /\ h[0] = <<>>
               /\ \A k \in 0..Len(f) : k < Len(f) => h[k + 1] = DistinctStep(h[k], f[k + 1])
               /\ h[Len(f)] = Distinct(f)
<1> DEFINE n == Len(f)
           G == [p \in (1..n) \X Seq(X) |-> DistinctStep(p[2], f[p[1]])]
           Solves(g) == g = [s \in SUBSET DOMAIN f |->
                                IF s = {} THEN <<>>
                                ELSE DistinctStep(g[s \ {Max(s)}], f[Max(s)])]
<1>1. Distinct(f) = (CHOOSE g : Solves(g))[DOMAIN f]
  BY DEF Distinct, FoldLeft, MapThenFoldSet, DistinctStep
<1>2. n \in Nat /\ DOMAIN f = 1..n /\ f \in [1..n -> X]
  BY LenProperties
<1>3. \A out \in Seq(X), i \in 1..n : DistinctStep(out, f[i]) \in Seq(X)
  BY <1>2 DEF DistinctStep
<1>4. G \in [(1..n) \X Seq(X) -> Seq(X)] /\ <<>> \in Seq(X)
  BY <1>3
<1>5. \A out \in Seq(X), i \in 1..n : G[<<i, out>>] = DistinctStep(out, f[i])
  OBVIOUS
<1>6. \A s \in SUBSET (1..n) : s # {} => Max(s) \in 1..n /\ s \ {Max(s)} \in SUBSET (1..n)
  BY <1>2, MaxFacts
<1> HIDE DEF G, n
<1>7. PICK g \in [SUBSET (1..n) -> Seq(X)] : Folds(n, <<>>, G, g)
  BY <1>2, <1>4, FoldsExist
<1>8. Solves(g)
  <2>1. g = [s \in SUBSET (1..n) |-> g[s]]
    OBVIOUS
  <2>2. ASSUME NEW s \in SUBSET (1..n), s # {}
        PROVE  g[s] = DistinctStep(g[s \ {Max(s)}], f[Max(s)])
    BY <1>5, <1>6, <1>7, <2>2 DEF Folds
  <2>3. g[{}] = <<>>
    BY <1>7 DEF Folds
  <2>4. QED
    BY <1>2, <2>1, <2>2, <2>3
<1>9. PICK e : e = CHOOSE u : Solves(u)
  OBVIOUS
<1>10. Solves(e)
  BY <1>8, <1>9
<1>11. FoldsWithin(n, Seq(X), <<>>, G, e)
  <2>1. \A s \in SUBSET (1..n) : e[s] = IF s = {} THEN <<>>
                                        ELSE DistinctStep(e[s \ {Max(s)}], f[Max(s)])
    BY <1>2, <1>10
  <2>2. QED
    BY <1>5, <1>6, <2>1 DEF FoldsWithin
<1>12. Folded(n, Seq(X), <<>>, G, e[1..n])
  BY <1>2, <1>4, <1>11, FoldChain
<1>13. PICK h \in [0..n -> Seq(X)] :
           /\ h[0] = <<>>
           /\ \A k \in 0..n : k < n => h[k + 1] = G[<<k + 1, h[k]>>]
           /\ h[n] = e[1..n]
  BY <1>12 DEF Folded
<1>14. \A k \in 0..n : k < n => h[k + 1] = DistinctStep(h[k], f[k + 1])
  <2>1. ASSUME NEW k \in 0..n, k < n PROVE h[k + 1] = DistinctStep(h[k], f[k + 1])
    <3>1. k + 1 \in 1..n /\ h[k] \in Seq(X)
      BY <1>2, <2>1
    <3>2. QED
      BY <1>5, <1>13, <2>1, <3>1
  <2>2. QED
    BY <2>1
<1>15. h[n] = Distinct(f)
  BY <1>1, <1>2, <1>9, <1>13
<1>16. QED
  BY <1>13, <1>14, <1>15 DEF n

\* The types of what is fetched and of what becomes of it.
Item == [page : Pages, content : Contents \cup {NoContent}]
Source == [page : Pages, status : {"DUPLICATE", "UNAVAILABLE", "DERIVED", "USABLE"},
           content : Contents \cup {NoContent}, group : {Domain[p] : p \in Pages},
           class : SourceClasses, eligible : BOOLEAN, primary : BOOLEAN, independent : BOOLEAN]

\* The origins a page derives from are sources already seen.
LEMMA OriginsAreSources ==
    ASSUME NEW S, NEW sources \in Seq(S), NEW p, NEW c
    PROVE  /\ Origins(sources) \subseteq DOMAIN sources
           /\ DerivedFrom(sources, p, c) \in SUBSET Origins(sources)
           /\ DerivedFrom(sources, p, c) # {} =>
                  Min(DerivedFrom(sources, p, c)) \in DerivedFrom(sources, p, c)
<1>1. Origins(sources) \subseteq DOMAIN sources /\ DOMAIN sources \subseteq Nat
  BY LenProperties DEF Origins
<1>2. DerivedFrom(sources, p, c) \in SUBSET Origins(sources)
  BY DEF DerivedFrom, Resembled, Named
<1>3. QED
  BY <1>1, <1>2, MinFacts

LEMMA ClusteredType ==
    ASSUME NEW sources \in Seq(Source), NEW item \in Item
    PROVE  Clustered(sources, item) \in Source
<1> DEFINE p == item.page
           c == item.content
           from == DerivedFrom(sources, p, c)
           status == IF \E i \in DOMAIN sources : sources[i].page = p THEN "DUPLICATE"
                     ELSE IF c = NoContent THEN "UNAVAILABLE"
                     ELSE IF from # {} THEN "DERIVED" ELSE "USABLE"
           group == IF status = "DERIVED" THEN sources[Min(from)].group ELSE Domain[p]
           class == CASE status \in {"DUPLICATE", "DERIVED"} -> "DERIVED"
                      [] status = "UNAVAILABLE" -> "UNKNOWN"
                      [] OTHER -> SourceClass(p, c)
           content == IF status = "DUPLICATE" THEN NoContent ELSE c
<1>1. p \in Pages /\ c \in Contents \cup {NoContent}
  BY DEF Item
<1>2. status \in {"DUPLICATE", "UNAVAILABLE", "DERIVED", "USABLE"}
  OBVIOUS
<1>3. group \in {Domain[q] : q \in Pages}
  <2>1. ASSUME from # {} PROVE sources[Min(from)].group \in {Domain[q] : q \in Pages}
    <3>1. Min(from) \in DOMAIN sources
      BY <2>1, OriginsAreSources
    <3>2. sources[Min(from)] \in Source
      BY <3>1
    <3>3. QED
      BY <3>2 DEF Source
  <2>2. QED
    BY <1>1, <2>1
<1>4. SourceClass(p, c) \in SourceClasses
  BY <1>1, SourceConstants DEF SourceClass, SourceClasses, HostKinds
<1> HIDE DEF group, from
<1>5. class \in SourceClasses
  BY <1>2, <1>4 DEF SourceClasses
<1>6. content \in Contents \cup {NoContent}
  BY <1>1
<1>7. Clustered(sources, item)
      = [page |-> p, status |-> status, content |-> content, group |-> group, class |-> class,
         eligible |-> FALSE, primary |-> FALSE, independent |-> FALSE]
  BY DEF Clustered, group, from
<1> HIDE DEF status, class, content
<1>8. QED
  BY <1>1, <1>2, <1>3, <1>5, <1>6, <1>7 DEF Source

LEMMA JudgedType ==
    ASSUME NEW sources \in Seq(Source), NEW s \in Source, NEW policy
    PROVE  Judged(sources, s, policy) \in Source
  BY DEF Judged, Source, Eligible

\* ClusterSources adds a source for each page, by those before it.
LEMMA ClusterSteps ==
    ASSUME NEW f \in Seq(Item)
    PROVE  \E h \in [0..Len(f) -> Seq(Source)] :
               /\ h[0] = <<>>
               /\ \A k \in 0..Len(f) : k < Len(f) => h[k + 1] = Append(h[k], Clustered(h[k], f[k + 1]))
               /\ h[Len(f)] = ClusterSources(f)
<1> DEFINE n == Len(f)
           G == [p \in (1..n) \X Seq(Source) |-> Append(p[2], Clustered(p[2], f[p[1]]))]
           Solves(g) == g = [s \in SUBSET DOMAIN f |->
                                IF s = {} THEN <<>>
                                ELSE Append(g[s \ {Max(s)}], Clustered(g[s \ {Max(s)}], f[Max(s)]))]
<1>1. ClusterSources(f) = (CHOOSE g : Solves(g))[DOMAIN f]
  BY DEF ClusterSources, FoldLeft, MapThenFoldSet
<1>2. n \in Nat /\ DOMAIN f = 1..n /\ f \in [1..n -> Item]
  BY LenProperties
<1>3. \A out \in Seq(Source), i \in 1..n : Append(out, Clustered(out, f[i])) \in Seq(Source)
  BY <1>2, ClusteredType
<1>4. G \in [(1..n) \X Seq(Source) -> Seq(Source)] /\ <<>> \in Seq(Source)
  BY <1>3
<1>5. \A out \in Seq(Source), i \in 1..n : G[<<i, out>>] = Append(out, Clustered(out, f[i]))
  OBVIOUS
<1>6. \A s \in SUBSET (1..n) : s # {} => Max(s) \in 1..n /\ s \ {Max(s)} \in SUBSET (1..n)
  BY <1>2, MaxFacts
<1> HIDE DEF G, n
<1>7. PICK g \in [SUBSET (1..n) -> Seq(Source)] : Folds(n, <<>>, G, g)
  BY <1>2, <1>4, FoldsExist
<1>8. Solves(g)
  <2>1. g = [s \in SUBSET (1..n) |-> g[s]]
    OBVIOUS
  <2>2. ASSUME NEW s \in SUBSET (1..n), s # {}
        PROVE  g[s] = Append(g[s \ {Max(s)}], Clustered(g[s \ {Max(s)}], f[Max(s)]))
    BY <1>5, <1>6, <1>7, <2>2 DEF Folds
  <2>3. g[{}] = <<>>
    BY <1>7 DEF Folds
  <2>4. QED
    BY <1>2, <2>1, <2>2, <2>3
<1>9. PICK e : e = CHOOSE u : Solves(u)
  OBVIOUS
<1>10. Solves(e)
  BY <1>8, <1>9
<1>11. FoldsWithin(n, Seq(Source), <<>>, G, e)
  <2>1. \A s \in SUBSET (1..n) : e[s] = IF s = {} THEN <<>>
                                        ELSE Append(e[s \ {Max(s)}], Clustered(e[s \ {Max(s)}], f[Max(s)]))
    BY <1>2, <1>10
  <2>2. QED
    BY <1>5, <1>6, <2>1 DEF FoldsWithin
<1>12. Folded(n, Seq(Source), <<>>, G, e[1..n])
  BY <1>2, <1>4, <1>11, FoldChain
<1>13. PICK h \in [0..n -> Seq(Source)] :
           /\ h[0] = <<>>
           /\ \A k \in 0..n : k < n => h[k + 1] = G[<<k + 1, h[k]>>]
           /\ h[n] = e[1..n]
  BY <1>12 DEF Folded
<1>14. \A k \in 0..n : k < n => h[k + 1] = Append(h[k], Clustered(h[k], f[k + 1]))
  <2>1. ASSUME NEW k \in 0..n, k < n PROVE h[k + 1] = Append(h[k], Clustered(h[k], f[k + 1]))
    <3>1. k + 1 \in 1..n /\ h[k] \in Seq(Source)
      BY <1>2, <2>1
    <3>2. QED
      BY <1>5, <1>13, <2>1, <3>1
  <2>2. QED
    BY <2>1
<1>15. h[n] = ClusterSources(f)
  BY <1>1, <1>2, <1>9, <1>13
<1>16. QED
  BY <1>13, <1>14, <1>15 DEF n

\* ApplySourcePolicy judges each source, by those judged before it.
LEMMA JudgeSteps ==
    ASSUME NEW f \in Seq(Source), NEW policy
    PROVE  \E h \in [0..Len(f) -> Seq(Source)] :
               /\ h[0] = <<>>
               /\ \A k \in 0..Len(f) : k < Len(f) => h[k + 1] = Append(h[k], Judged(h[k], f[k + 1], policy))
               /\ h[Len(f)] = ApplySourcePolicy(f, policy)
<1> DEFINE n == Len(f)
           G == [p \in (1..n) \X Seq(Source) |-> Append(p[2], Judged(p[2], f[p[1]], policy))]
           Solves(g) == g = [s \in SUBSET DOMAIN f |->
                                IF s = {} THEN <<>>
                                ELSE Append(g[s \ {Max(s)}], Judged(g[s \ {Max(s)}], f[Max(s)], policy))]
<1>1. ApplySourcePolicy(f, policy) = (CHOOSE g : Solves(g))[DOMAIN f]
  BY DEF ApplySourcePolicy, FoldLeft, MapThenFoldSet
<1>2. n \in Nat /\ DOMAIN f = 1..n /\ f \in [1..n -> Source]
  BY LenProperties
<1>3. \A out \in Seq(Source), i \in 1..n : Append(out, Judged(out, f[i], policy)) \in Seq(Source)
  BY <1>2, JudgedType
<1>4. G \in [(1..n) \X Seq(Source) -> Seq(Source)] /\ <<>> \in Seq(Source)
  BY <1>3
<1>5. \A out \in Seq(Source), i \in 1..n : G[<<i, out>>] = Append(out, Judged(out, f[i], policy))
  OBVIOUS
<1>6. \A s \in SUBSET (1..n) : s # {} => Max(s) \in 1..n /\ s \ {Max(s)} \in SUBSET (1..n)
  BY <1>2, MaxFacts
<1> HIDE DEF G, n
<1>7. PICK g \in [SUBSET (1..n) -> Seq(Source)] : Folds(n, <<>>, G, g)
  BY <1>2, <1>4, FoldsExist
<1>8. Solves(g)
  <2>1. g = [s \in SUBSET (1..n) |-> g[s]]
    OBVIOUS
  <2>2. ASSUME NEW s \in SUBSET (1..n), s # {}
        PROVE  g[s] = Append(g[s \ {Max(s)}], Judged(g[s \ {Max(s)}], f[Max(s)], policy))
    BY <1>5, <1>6, <1>7, <2>2 DEF Folds
  <2>3. g[{}] = <<>>
    BY <1>7 DEF Folds
  <2>4. QED
    BY <1>2, <2>1, <2>2, <2>3
<1>9. PICK e : e = CHOOSE u : Solves(u)
  OBVIOUS
<1>10. Solves(e)
  BY <1>8, <1>9
<1>11. FoldsWithin(n, Seq(Source), <<>>, G, e)
  <2>1. \A s \in SUBSET (1..n) : e[s] = IF s = {} THEN <<>>
                                        ELSE Append(e[s \ {Max(s)}], Judged(e[s \ {Max(s)}], f[Max(s)], policy))
    BY <1>2, <1>10
  <2>2. QED
    BY <1>5, <1>6, <2>1 DEF FoldsWithin
<1>12. Folded(n, Seq(Source), <<>>, G, e[1..n])
  BY <1>2, <1>4, <1>11, FoldChain
<1>13. PICK h \in [0..n -> Seq(Source)] :
           /\ h[0] = <<>>
           /\ \A k \in 0..n : k < n => h[k + 1] = G[<<k + 1, h[k]>>]
           /\ h[n] = e[1..n]
  BY <1>12 DEF Folded
<1>14. \A k \in 0..n : k < n => h[k + 1] = Append(h[k], Judged(h[k], f[k + 1], policy))
  <2>1. ASSUME NEW k \in 0..n, k < n PROVE h[k + 1] = Append(h[k], Judged(h[k], f[k + 1], policy))
    <3>1. k + 1 \in 1..n /\ h[k] \in Seq(Source)
      BY <1>2, <2>1
    <3>2. QED
      BY <1>5, <1>13, <2>1, <3>1
  <2>2. QED
    BY <2>1
<1>15. h[n] = ApplySourcePolicy(f, policy)
  BY <1>1, <1>2, <1>9, <1>13
<1>16. QED
  BY <1>13, <1>14, <1>15 DEF n

ContentStep(out, x) == IF x.content = NoContent THEN out ELSE Append(out, x)

\* WithContent goes through a list, keeping what has a content.
LEMMA ContentSteps ==
    ASSUME NEW X, NEW f \in Seq(X)
    PROVE  \E h \in [0..Len(f) -> Seq(X)] :
               /\ h[0] = <<>>
               /\ \A k \in 0..Len(f) : k < Len(f) => h[k + 1] = ContentStep(h[k], f[k + 1])
               /\ h[Len(f)] = WithContent(f)
<1> DEFINE n == Len(f)
           G == [p \in (1..n) \X Seq(X) |-> ContentStep(p[2], f[p[1]])]
           Solves(g) == g = [s \in SUBSET DOMAIN f |->
                                IF s = {} THEN <<>>
                                ELSE ContentStep(g[s \ {Max(s)}], f[Max(s)])]
<1>1. WithContent(f) = (CHOOSE g : Solves(g))[DOMAIN f]
  BY DEF WithContent, FoldLeft, MapThenFoldSet, ContentStep
<1>2. n \in Nat /\ DOMAIN f = 1..n /\ f \in [1..n -> X]
  BY LenProperties
<1>3. \A out \in Seq(X), i \in 1..n : ContentStep(out, f[i]) \in Seq(X)
  BY <1>2 DEF ContentStep
<1>4. G \in [(1..n) \X Seq(X) -> Seq(X)] /\ <<>> \in Seq(X)
  BY <1>3
<1>5. \A out \in Seq(X), i \in 1..n : G[<<i, out>>] = ContentStep(out, f[i])
  OBVIOUS
<1>6. \A s \in SUBSET (1..n) : s # {} => Max(s) \in 1..n /\ s \ {Max(s)} \in SUBSET (1..n)
  BY <1>2, MaxFacts
<1> HIDE DEF G, n
<1>7. PICK g \in [SUBSET (1..n) -> Seq(X)] : Folds(n, <<>>, G, g)
  BY <1>2, <1>4, FoldsExist
<1>8. Solves(g)
  <2>1. g = [s \in SUBSET (1..n) |-> g[s]]
    OBVIOUS
  <2>2. ASSUME NEW s \in SUBSET (1..n), s # {}
        PROVE  g[s] = ContentStep(g[s \ {Max(s)}], f[Max(s)])
    BY <1>5, <1>6, <1>7, <2>2 DEF Folds
  <2>3. g[{}] = <<>>
    BY <1>7 DEF Folds
  <2>4. QED
    BY <1>2, <2>1, <2>2, <2>3
<1>9. PICK e : e = CHOOSE u : Solves(u)
  OBVIOUS
<1>10. Solves(e)
  BY <1>8, <1>9
<1>11. FoldsWithin(n, Seq(X), <<>>, G, e)
  <2>1. \A s \in SUBSET (1..n) : e[s] = IF s = {} THEN <<>>
                                        ELSE ContentStep(e[s \ {Max(s)}], f[Max(s)])
    BY <1>2, <1>10
  <2>2. QED
    BY <1>5, <1>6, <2>1 DEF FoldsWithin
<1>12. Folded(n, Seq(X), <<>>, G, e[1..n])
  BY <1>2, <1>4, <1>11, FoldChain
<1>13. PICK h \in [0..n -> Seq(X)] :
           /\ h[0] = <<>>
           /\ \A k \in 0..n : k < n => h[k + 1] = G[<<k + 1, h[k]>>]
           /\ h[n] = e[1..n]
  BY <1>12 DEF Folded
<1>14. \A k \in 0..n : k < n => h[k + 1] = ContentStep(h[k], f[k + 1])
  <2>1. ASSUME NEW k \in 0..n, k < n PROVE h[k + 1] = ContentStep(h[k], f[k + 1])
    <3>1. k + 1 \in 1..n /\ h[k] \in Seq(X)
      BY <1>2, <2>1
    <3>2. QED
      BY <1>5, <1>13, <2>1, <3>1
  <2>2. QED
    BY <2>1
<1>15. h[n] = WithContent(f)
  BY <1>1, <1>2, <1>9, <1>13
<1>16. QED
  BY <1>13, <1>14, <1>15 DEF n

-----------------------------------------------------------------------------
(* The pages to fetch. *)

Injects(d) == \A i, j \in DOMAIN d : d[i] = d[j] => i = j

\* What Append does, over a set of elements.
LEMMA Appended ==
    ASSUME NEW S, NEW s \in Seq(S), NEW e \in S
    PROVE  /\ Append(s, e) \in Seq(S)
           /\ Len(s) \in Nat /\ Len(Append(s, e)) = Len(s) + 1
           /\ DOMAIN s = 1..Len(s) /\ DOMAIN Append(s, e) = 1..(Len(s) + 1)
           /\ \A i \in 1..Len(s) : Append(s, e)[i] = s[i]
           /\ Append(s, e)[Len(s) + 1] = e
           /\ ToSet(Append(s, e)) = ToSet(s) \cup {e}
<1>1. /\ Append(s, e) \in Seq(S)
      /\ Len(s) \in Nat /\ Len(Append(s, e)) = Len(s) + 1
      /\ DOMAIN s = 1..Len(s) /\ DOMAIN Append(s, e) = 1..(Len(s) + 1)
      /\ \A i \in 1..Len(s) : Append(s, e)[i] = s[i]
      /\ Append(s, e)[Len(s) + 1] = e
  OBVIOUS
<1>2. \A i \in 1..(Len(s) + 1) : i \in 1..Len(s) \/ i = Len(s) + 1
  BY <1>1
<1>3. Len(s) + 1 \in 1..(Len(s) + 1) /\ 1..Len(s) \subseteq 1..(Len(s) + 1)
  BY <1>1
<1>4. ToSet(Append(s, e)) = ToSet(s) \cup {e}
  <2> DEFINE a == Append(s, e)
             m == Len(s) + 1
  <2>1. /\ \A i \in DOMAIN a : i \in DOMAIN s \/ i = m
        /\ m \in DOMAIN a /\ a[m] = e /\ DOMAIN s \subseteq DOMAIN a
        /\ \A i \in DOMAIN s : a[i] = s[i]
    BY <1>1, <1>2, <1>3
  <2> HIDE DEF a, m
  <2>2. ToSet(a) = ToSet(s) \cup {e}
    BY <2>1 DEF ToSet
  <2>3. QED
    BY <2>2 DEF a
<1>5. QED
  BY <1>1, <1>4

\* Distinct keeps every page once, the first time it is met; what starts a list
\* without repetitions, its result starts with.
LEMMA DistinctFacts ==
    ASSUME NEW X, NEW f \in Seq(X)
    PROVE  /\ Distinct(f) \in Seq(X)
           /\ Len(Distinct(f)) <= Len(f)
           /\ Injects(Distinct(f))
           /\ ToSet(Distinct(f)) = ToSet(f)
           /\ \A m \in 0..Len(f) :
                  (\A i, j \in 1..m : f[i] = f[j] => i = j) =>
                      m <= Len(Distinct(f)) /\ \A i \in 1..m : Distinct(f)[i] = f[i]
<1> DEFINE n == Len(f)
<1>1. PICK h \in [0..n -> Seq(X)] :
          /\ h[0] = <<>>
          /\ \A k \in 0..n : k < n => h[k + 1] = DistinctStep(h[k], f[k + 1])
          /\ h[n] = Distinct(f)
  BY DistinctSteps
<1>2. n \in Nat /\ DOMAIN f = 1..n /\ \A k \in 1..n : f[k] \in X
  BY LenProperties
<1>3. \A k \in 0..n : /\ h[k] \in Seq(X) /\ Len(h[k]) \in Nat
                      /\ DOMAIN h[k] = 1..Len(h[k])
  BY LenProperties
<1>4. ASSUME NEW k \in 0..n, k < n
      PROVE  \/ h[k + 1] = h[k] /\ f[k + 1] \in ToSet(h[k])
             \/ h[k + 1] = Append(h[k], f[k + 1]) /\ f[k + 1] \notin ToSet(h[k])
  <2>1. Contains(h[k], f[k + 1]) <=> f[k + 1] \in ToSet(h[k])
    BY <1>3 DEF Contains, ToSet
  <2>2. QED
    BY <1>1, <1>4, <2>1 DEF DistinctStep
<1> DEFINE Good(k) == /\ Len(h[k]) <= k
                      /\ Injects(h[k])
                      /\ ToSet(h[k]) = {f[i] : i \in 1..k}
<1>5. \A k \in 0..n : Good(k)
  <2> DEFINE T == {k \in 0..n : Good(k)}
  <2>1. 0 \in T
    <3>1. DOMAIN h[0] = {} /\ Len(h[0]) = 0 /\ 1..0 = {}
      BY <1>1
    <3>2. Good(0)
      BY <3>1 DEF Injects, ToSet
    <3>3. QED
      BY <1>2, <3>2
  <2>2. ASSUME NEW k \in 0..n, k \in T, k < n PROVE k + 1 \in T
    <3>0. k \in Nat /\ k + 1 \in 0..n /\ k + 1 \in 1..n
      BY <1>2, <2>2
    <3>1. /\ Len(h[k]) <= k /\ Injects(h[k]) /\ ToSet(h[k]) = {f[i] : i \in 1..k}
          /\ k \in Nat /\ k + 1 \in 0..n /\ k + 1 \in 1..n
      BY <2>2, <3>0, Zenon
    <3>2. {f[i] : i \in 1..(k + 1)} = ToSet(h[k]) \cup {f[k + 1]}
      <4>1. \A i \in 1..(k + 1) : i \in 1..k \/ i = k + 1
        BY <3>1
      <4>2. k + 1 \in 1..(k + 1) /\ 1..k \subseteq 1..(k + 1)
        BY <3>1
      <4>3. QED
        BY <3>1, <4>1, <4>2
    <3>3. CASE h[k + 1] = h[k] /\ f[k + 1] \in ToSet(h[k])
      BY <1>3, <3>1, <3>2, <3>3
    <3>4. CASE h[k + 1] = Append(h[k], f[k + 1]) /\ f[k + 1] \notin ToSet(h[k])
      <4> DEFINE d == h[k]
                 x == f[k + 1]
                 e == h[k + 1]
      <4>1. d \in Seq(X) /\ x \in X /\ e = Append(d, x)
        BY <1>2, <1>3, <3>1, <3>4
      <4> HIDE DEF d, x, e
      <4>2. /\ Len(d) \in Nat /\ Len(e) = Len(d) + 1
            /\ DOMAIN d = 1..Len(d) /\ DOMAIN e = 1..(Len(d) + 1)
            /\ \A i \in 1..Len(d) : e[i] = d[i]
            /\ e[Len(d) + 1] = x
            /\ ToSet(e) = ToSet(d) \cup {x}
        BY <4>1, Appended
      <4>3. \A i \in DOMAIN e : i \in DOMAIN d \/ i = Len(d) + 1
        BY <4>2
      <4>4. \A i \in DOMAIN d : e[i] = d[i] /\ d[i] # x
        BY <3>4, <4>2 DEF ToSet, d, x
      <4>5. Injects(e)
        BY <3>1, <4>2, <4>3, <4>4 DEF Injects, d
      <4>6. Len(e) <= k + 1
        BY <3>1, <4>2 DEF d
      <4>7. Good(k + 1)
        BY <3>1, <3>2, <4>2, <4>5, <4>6 DEF d, x, e
      <4>8. QED
        BY <3>1, <4>7
    <3>5. QED
      BY <1>4, <2>2, <3>3, <3>4
  <2> HIDE DEF T
  <2>3. \A k \in 0..n : k \in T
    BY <1>2, <2>1, <2>2, CountUp
  <2>4. QED
    BY <2>3 DEF T
<1>6. ASSUME NEW m \in 0..n, \A i, j \in 1..m : f[i] = f[j] => i = j
      PROVE  m <= Len(h[n]) /\ \A i \in 1..m : h[n][i] = f[i]
  <2> DEFINE Starts(k) == /\ (k <= m => Len(h[k]) = k) /\ (m <= k => m <= Len(h[k]))
                          /\ \A i \in 1..k : i <= m => h[k][i] = f[i]
             T == {k \in 0..n : Starts(k)}
  <2>1. 0 \in T
    <3>1. Len(h[0]) = 0 /\ m \in Nat
      BY <1>1, <1>6
    <3>2. QED
      BY <1>2, <3>1
  <2>2. ASSUME NEW k \in 0..n, k \in T, k < n PROVE k + 1 \in T
    <3>1. /\ k \in Nat /\ m \in Nat /\ k + 1 \in 0..n /\ k + 1 \in 1..n
          /\ Len(h[k]) \in Nat
          /\ k <= m => Len(h[k]) = k
          /\ m <= k => m <= Len(h[k])
          /\ \A i \in 1..k : i <= m => h[k][i] = f[i]
      BY <1>2, <1>3, <1>6, <2>2
    <3>2. \A i \in 1..(k + 1) : i \in 1..k \/ i = k + 1
      BY <3>1
    <3>3. CASE h[k + 1] = Append(h[k], f[k + 1])
      <4>1. /\ Len(h[k + 1]) = Len(h[k]) + 1
            /\ \A i \in 1..Len(h[k]) : h[k + 1][i] = h[k][i]
            /\ h[k + 1][Len(h[k]) + 1] = f[k + 1]
        BY <1>2, <1>3, <3>1, <3>3, Appended
      <4>2. ASSUME NEW i \in 1..(k + 1), i <= m PROVE h[k + 1][i] = f[i]
        <5>1. CASE i = k + 1
          BY <3>1, <4>1, <4>2, <5>1
        <5>2. CASE i \in 1..k
          <6>1. i \in 1..Len(h[k])
            BY <3>1, <4>2, <5>2
          <6>2. QED
            BY <3>1, <4>1, <4>2, <5>2, <6>1
        <5>3. QED
          BY <3>2, <4>2, <5>1, <5>2
      <4>3. (k + 1 <= m => Len(h[k + 1]) = k + 1) /\ (m <= k + 1 => m <= Len(h[k + 1]))
        BY <3>1, <4>1
      <4>4. QED
        BY <3>1, <4>2, <4>3
    <3>4. CASE h[k + 1] = h[k] /\ f[k + 1] \in ToSet(h[k])
      <4>1. PICK i \in 1..k : f[i] = f[k + 1]
        <5>1. Good(k)
          BY <1>5
        <5>2. QED
          BY <3>4, <5>1
      <4>2. m <= k
        <5>1. SUFFICES ASSUME k < m PROVE FALSE
          BY <3>1
        <5>2. i \in 1..m /\ k + 1 \in 1..m /\ i # k + 1
          BY <3>1, <5>1
        <5>3. QED
          BY <1>6, <4>1, <5>2
      <4>3. \A j \in 1..(k + 1) : j <= m => j \in 1..k
        BY <3>1, <4>2
      <4>4. k + 1 <= m => FALSE
        BY <3>1, <4>2
      <4>5. Starts(k + 1)
        BY <3>1, <3>4, <4>2, <4>3, <4>4
      <4>6. QED
        BY <3>1, <4>5
    <3>5. QED
      BY <1>4, <2>2, <3>3, <3>4
  <2> HIDE DEF T
  <2>3. \A k \in 0..n : k \in T
    BY <1>2, <2>1, <2>2, CountUp
  <2>4. n \in T
    BY <1>2, <2>3
  <2>5. m <= n /\ \A i \in 1..m : i \in 1..n /\ i <= m
    BY <1>2, <1>6
  <2>6. QED
    BY <2>4, <2>5 DEF T
<1>7. Good(n)
  BY <1>2, <1>5
<1>8. ToSet(f) = {f[i] : i \in 1..n}
  BY <1>2 DEF ToSet
<1>9. h[n] \in Seq(X)
  BY <1>2, <1>3
<1>10. QED
  BY <1>1, <1>6, <1>7, <1>8, <1>9

\* Cut keeps what a budget allows of the start of a list.
LEMMA CutFacts ==
    ASSUME NEW X, NEW s \in Seq(X), NEW n \in Nat
    PROVE  /\ Cut(s, n) \in Seq(X)
           /\ Len(Cut(s, n)) = IF Len(s) < n THEN Len(s) ELSE n
           /\ \A i \in 1..Len(Cut(s, n)) : i \in 1..Len(s) /\ Cut(s, n)[i] = s[i]
           /\ Len(s) <= n => Cut(s, n) = s
<1> DEFINE m == IF Len(s) < n THEN Len(s) ELSE n
<1>1. Len(s) \in Nat /\ m \in 0..Len(s) /\ (Len(s) <= n => m = Len(s))
  BY LenProperties
<1>2. Cut(s, n) = SubSeq(s, 1, m)
  BY DEF Cut
<1> HIDE DEF m
<1>3. /\ SubSeq(s, 1, m) \in Seq(X) /\ Len(SubSeq(s, 1, m)) = m
      /\ \A i \in 1..m : i \in 1..Len(s) /\ SubSeq(s, 1, m)[i] = s[i]
  BY <1>1
<1>4. m = Len(s) => SubSeq(s, 1, m) = s
  BY <1>1
<1>5. QED
  BY <1>1, <1>2, <1>3, <1>4 DEF m

\* As many elements as positions, when no element is repeated.
LEMMA InjectiveCount ==
    ASSUME NEW X, NEW s \in Seq(X), Injects(s)
    PROVE  Cardinality(ToSet(s)) = Len(s)
<1>1. Len(s) \in Nat /\ DOMAIN s = 1..Len(s) /\ s = [i \in 1..Len(s) |-> s[i]]
  BY LenProperties
<1>2. s \in Bijection(1..Len(s), ToSet(s))
  BY <1>1 DEF Bijection, Injection, Surjection, IsInjective, ToSet, Injects
<1>3. ExistsBijection(1..Len(s), ToSet(s))
  BY <1>2 DEF ExistsBijection
<1>4. QED
  BY <1>1, <1>3, FS_CountingElements

\* A concatenation has the elements of both lists, those of the first in place.
LEMMA ConcatFacts ==
    ASSUME NEW X, NEW s \in Seq(X), NEW t \in Seq(X)
    PROVE  /\ s \o t \in Seq(X) /\ Len(s) \in 0..Len(s \o t)
           /\ \A i \in 1..Len(s) : (s \o t)[i] = s[i]
           /\ ToSet(s \o t) = ToSet(s) \cup ToSet(t)
<1> DEFINE u == s \o t
           a == Len(s)
           b == Len(t)
<1>1. /\ u \in Seq(X) /\ a \in Nat /\ b \in Nat /\ Len(u) = a + b
      /\ \A i \in 1..a : u[i] = s[i]
      /\ \A i \in 1..b : u[a + i] = t[i]
      /\ DOMAIN s = 1..a /\ DOMAIN t = 1..b /\ DOMAIN u = 1..(a + b)
  OBVIOUS
<1> HIDE DEF u, a, b
<1>2. /\ \A i \in 1..(a + b) : i \in 1..a \/ \E j \in 1..b : i = a + j
      /\ \A i \in 1..a : i \in 1..(a + b)
      /\ \A j \in 1..b : a + j \in 1..(a + b)
  <2>1. ASSUME NEW i \in 1..(a + b), i \notin 1..a PROVE \E j \in 1..b : i = a + j
    <3>1. i - a \in 1..b /\ i = a + (i - a)
      BY <1>1, <2>1
    <3>2. QED
      BY <3>1
  <2>2. QED
    BY <1>1, <2>1
<1>3. ToSet(u) = ToSet(s) \cup ToSet(t)
  <2>1. \A x \in ToSet(u) : x \in ToSet(s) \/ x \in ToSet(t)
    <3>1. ASSUME NEW i \in 1..(a + b) PROVE u[i] \in ToSet(s) \/ u[i] \in ToSet(t)
      <4>1. CASE i \in 1..a
        BY <1>1, <4>1 DEF ToSet
      <4>2. ASSUME NEW j \in 1..b, i = a + j PROVE u[i] \in ToSet(t)
        BY <1>1, <4>2 DEF ToSet
      <4>3. QED
        BY <1>2, <4>1, <4>2
    <3>2. QED
      BY <1>1, <3>1 DEF ToSet
  <2>2. \A x \in ToSet(s) : x \in ToSet(u)
    BY <1>1, <1>2 DEF ToSet
  <2>3. \A x \in ToSet(t) : x \in ToSet(u)
    <3>1. ASSUME NEW j \in 1..b PROVE t[j] \in ToSet(u)
      <4>1. a + j \in DOMAIN u /\ u[a + j] = t[j]
        BY <1>1, <1>2
      <4>2. QED
        BY <4>1 DEF ToSet
    <3>2. QED
      BY <1>1, <3>1 DEF ToSet
  <2>4. QED
    BY <2>1, <2>2, <2>3
<1>4. a \in 0..Len(u)
  BY <1>1
<1>5. QED
  BY <1>1, <1>3, <1>4 DEF u, a

\* The pages of a job are its supplemental ones and then its seeds, each once.
LEMMA UrlsFacts ==
    ASSUME job \in Jobs
    PROVE  /\ Urls \in Seq(Pages)
           /\ Injects(Urls)
           /\ UrlsFillTheBudget
<1> DEFINE extras == job.extras
           seeds == job.seeds
           d == Distinct(extras)
           list == d \o seeds
           u == Distinct(list)
           listed == ToSet(extras) \cup ToSet(seeds)
<1>1. /\ extras \in Seq(Pages) /\ seeds \in Seq(Pages) /\ Len(extras) <= MaxSupplemental
      /\ MaxSupplemental \in Nat /\ MaxSources \in Nat
  BY ConsensusConstants, SourceConstants
<1>2. /\ d \in Seq(Pages) /\ Len(d) <= Len(extras) /\ Injects(d)
      /\ ToSet(d) = ToSet(extras)
  BY <1>1, DistinctFacts
<1>3. Len(d) \in Nat /\ Len(extras) \in Nat /\ DOMAIN d = 1..Len(d)
  BY <1>1, <1>2, LenProperties
<1>4. Cut(d, MaxSupplemental) = d
  BY <1>1, <1>2, <1>3, CutFacts
<1>5. Urls = Cut(u, MaxSources)
  BY <1>4 DEF Urls, MergeResolutionUrls
<1> HIDE DEF d
<1>6. /\ list \in Seq(Pages) /\ Len(d) \in 0..Len(list)
      /\ \A i \in 1..Len(d) : list[i] = d[i]
      /\ ToSet(list) = listed
  BY <1>1, <1>2, ConcatFacts
<1> HIDE DEF list, extras, seeds
<1>7. \A i, j \in 1..Len(d) : list[i] = list[j] => i = j
  BY <1>2, <1>3, <1>6 DEF Injects
<1>8. /\ u \in Seq(Pages) /\ Injects(u) /\ ToSet(u) = listed
      /\ Len(d) <= Len(u) /\ \A i \in 1..Len(d) : u[i] = d[i]
  BY <1>6, <1>7, DistinctFacts
<1>9. Len(u) \in Nat /\ DOMAIN u = 1..Len(u)
  BY <1>8, LenProperties
<1> HIDE DEF u, listed
<1>10. /\ Urls \in Seq(Pages)
       /\ Len(Urls) = IF Len(u) < MaxSources THEN Len(u) ELSE MaxSources
       /\ \A i \in 1..Len(Urls) : i \in 1..Len(u) /\ Urls[i] = u[i]
       /\ Len(u) <= MaxSources => Urls = u
  BY <1>1, <1>5, <1>8, CutFacts
<1>11. DOMAIN Urls = 1..Len(Urls) /\ Len(Urls) \in Nat
  BY <1>10, LenProperties
<1>12. Injects(Urls)
  BY <1>8, <1>9, <1>10, <1>11 DEF Injects
<1>13. ToSet(Urls) \subseteq listed
  <2>1. ToSet(Urls) \subseteq ToSet(u)
    BY <1>9, <1>10, <1>11 DEF ToSet
  <2>2. QED
    BY <1>8, <2>1
<1>14. ASSUME NEW i \in DOMAIN Urls, NEW j \in DOMAIN Urls,
              Urls[i] \in ToSet(extras), Urls[j] \notin ToSet(extras)
       PROVE  i < j
  <2>1. /\ i \in 1..Len(u) /\ j \in 1..Len(u) /\ Urls[i] = u[i] /\ Urls[j] = u[j]
        /\ i \in Nat /\ j \in Nat
    BY <1>9, <1>10, <1>11
  <2>2. PICK k \in 1..Len(d) : d[k] = u[i]
    BY <1>2, <1>3, <1>14, <2>1 DEF ToSet
  <2>3. k \in 1..Len(u) /\ u[k] = u[i]
    BY <1>3, <1>8, <1>9, <2>2
  <2>4. i = k
    BY <1>8, <1>9, <2>1, <2>3 DEF Injects
  <2>5. j \notin 1..Len(d)
    BY <1>2, <1>3, <1>8, <1>14, <2>1 DEF ToSet
  <2>6. QED
    BY <1>3, <2>1, <2>4, <2>5
<1>15. IF ToSet(Urls) = listed THEN Len(Urls) <= MaxSources ELSE Len(Urls) = MaxSources
  <2>1. Len(u) <= MaxSources => ToSet(Urls) = listed
    BY <1>8, <1>10
  <2>2. \A a, b, c \in Nat : (a = IF b < c THEN b ELSE c) => a <= c /\ (b <= c \/ a = c)
    OBVIOUS
  <2>3. Len(Urls) <= MaxSources /\ (Len(u) <= MaxSources \/ Len(Urls) = MaxSources)
    BY <1>1, <1>9, <1>10, <1>11, <2>2
  <2>4. QED
    BY <2>1, <2>3
<1>16. Cardinality(ToSet(Urls)) = Len(Urls)
  BY <1>10, <1>12, InjectiveCount
<1>17. UrlsFillTheBudget
  BY <1>13, <1>14, <1>15, <1>16 DEF UrlsFillTheBudget, listed, extras, seeds
<1>18. QED
  BY <1>10, <1>12, <1>17

-----------------------------------------------------------------------------
(* The sources the pages become. *)

\* A usable source is of no domain and text an earlier usable one is of, and
\* names none as its own source.
LEMMA UsableIsNew ==
    ASSUME NEW sources \in Seq(Source), NEW item \in Item,
           NEW s, s = Clustered(sources, item)
    PROVE  /\ s.page = item.page
           /\ s.status = "USABLE" =>
                 /\ s.content = item.content /\ s.content # NoContent
                 /\ s.group = Domain[item.page]
                 /\ s.class = SourceClass(item.page, item.content)
                 /\ \A j \in DOMAIN sources : sources[j].status = "USABLE" =>
                       /\ sources[j].group # Domain[item.page]
                       /\ ~Alike(sources[j].content, item.content)
                       /\ <<item.content, sources[j].page>> \notin Cites
<1> DEFINE p == item.page
           c == item.content
           from == DerivedFrom(sources, p, c)
           status == IF \E i \in DOMAIN sources : sources[i].page = p THEN "DUPLICATE"
                     ELSE IF c = NoContent THEN "UNAVAILABLE"
                     ELSE IF from # {} THEN "DERIVED" ELSE "USABLE"
           group == IF status = "DERIVED" THEN sources[Min(from)].group ELSE Domain[p]
           class == CASE status \in {"DUPLICATE", "DERIVED"} -> "DERIVED"
                      [] status = "UNAVAILABLE" -> "UNKNOWN"
                      [] OTHER -> SourceClass(p, c)
           content == IF status = "DUPLICATE" THEN NoContent ELSE c
<1>1. s = [page |-> p, status |-> status, content |-> content, group |-> group,
           class |-> class, eligible |-> FALSE, primary |-> FALSE, independent |-> FALSE]
  BY DEF Clustered
<1>2. from = {} => \A j \in DOMAIN sources : sources[j].status = "USABLE" =>
                       /\ sources[j].group # Domain[p]
                       /\ ~Alike(sources[j].content, c)
                       /\ <<c, sources[j].page>> \notin Cites
  BY DEF DerivedFrom, Resembled, Named, Origins
<1> HIDE DEF from, p, c
<1>3. status = "USABLE" => /\ c # NoContent /\ from = {} /\ content = c
                           /\ group = Domain[p] /\ class = SourceClass(p, c)
  OBVIOUS
<1> HIDE DEF status, group, class, content
<1>4. QED
  BY <1>1, <1>2, <1>3 DEF p, c

\* What the sources of some pages are, as far as a policy asks.
Sources(f, c) ==
    \A i \in DOMAIN c :
        /\ c[i].page = f[i].page
        /\ c[i].status = "USABLE" =>
              /\ c[i].content = f[i].content /\ c[i].content # NoContent
              /\ c[i].group = Domain[c[i].page]
              /\ c[i].class = SourceClass(c[i].page, c[i].content)
              /\ \A j \in DOMAIN c : j < i /\ c[j].status = "USABLE" =>
                    /\ Domain[c[j].page] # Domain[c[i].page]
                    /\ ~Alike(c[j].content, c[i].content)
                    /\ <<c[i].content, c[j].page>> \notin Cites

LEMMA ClusterFacts ==
    ASSUME NEW f \in Seq(Item)
    PROVE  /\ ClusterSources(f) \in Seq(Source)
           /\ Len(ClusterSources(f)) = Len(f)
           /\ Sources(f, ClusterSources(f))
<1> DEFINE n == Len(f)
<1>1. PICK h \in [0..n -> Seq(Source)] :
          /\ h[0] = <<>>
          /\ \A k \in 0..n : k < n => h[k + 1] = Append(h[k], Clustered(h[k], f[k + 1]))
          /\ h[n] = ClusterSources(f)
  BY ClusterSteps
<1>2. n \in Nat /\ DOMAIN f = 1..n /\ \A k \in 1..n : f[k] \in Item
  BY LenProperties
<1>3. \A k \in 0..n : h[k] \in Seq(Source) /\ Len(h[k]) \in Nat /\ DOMAIN h[k] = 1..Len(h[k])
  BY LenProperties
<1> DEFINE Good(k) == Len(h[k]) = k /\ Sources(f, h[k])
           T == {k \in 0..n : Good(k)}
<1>4. 0 \in T
  <2>1. Len(h[0]) = 0 /\ DOMAIN h[0] = {}
    BY <1>1
  <2>2. QED
    BY <1>2, <2>1 DEF Sources
<1>5. ASSUME NEW k \in 0..n, k \in T, k < n PROVE k + 1 \in T
  <2>1. k \in Nat /\ k + 1 \in 0..n /\ k + 1 \in 1..n
    BY <1>2, <1>5
  <2>2. Len(h[k]) = k /\ Sources(f, h[k])
    BY <1>5, Zenon
  <2> DEFINE old == h[k]
             s == Clustered(old, f[k + 1])
             new == h[k + 1]
  <2>3. old \in Seq(Source) /\ s \in Source /\ new = Append(old, s) /\ f[k + 1] \in Item
    BY <1>1, <1>2, <1>3, <1>5, <2>1, ClusteredType
  <2>4. /\ s.page = f[k + 1].page
        /\ s.status = "USABLE" =>
              /\ s.content = f[k + 1].content /\ s.content # NoContent
              /\ s.group = Domain[s.page]
              /\ s.class = SourceClass(s.page, s.content)
              /\ \A j \in DOMAIN old : old[j].status = "USABLE" =>
                    /\ old[j].group # Domain[s.page]
                    /\ ~Alike(old[j].content, s.content)
                    /\ <<s.content, old[j].page>> \notin Cites
    BY <2>3, UsableIsNew
  <2> HIDE DEF old, s, new
  <2>5. /\ Len(new) = k + 1 /\ DOMAIN old = 1..k /\ DOMAIN new = 1..(k + 1)
        /\ \A i \in 1..k : new[i] = old[i]
        /\ new[k + 1] = s
    BY <2>2, <2>3, Appended DEF old
  <2>6. /\ \A i \in 1..(k + 1) : i \in 1..k \/ i = k + 1
        /\ \A i \in 1..(k + 1), j \in 1..(k + 1) : j < i => j \in 1..k
    BY <2>1
  <2>7. Sources(f, old)
    BY <2>2 DEF old
  <2>8. ASSUME NEW i \in 1..(k + 1)
        PROVE  /\ new[i].page = f[i].page
               /\ new[i].status = "USABLE" =>
                     /\ new[i].content = f[i].content /\ new[i].content # NoContent
                     /\ new[i].group = Domain[new[i].page]
                     /\ new[i].class = SourceClass(new[i].page, new[i].content)
                     /\ \A j \in DOMAIN new : j < i /\ new[j].status = "USABLE" =>
                           /\ Domain[new[j].page] # Domain[new[i].page]
                           /\ ~Alike(new[j].content, new[i].content)
                           /\ <<new[i].content, new[j].page>> \notin Cites
    <3>1. \A j \in DOMAIN new : j < i => j \in DOMAIN old /\ new[j] = old[j]
      BY <2>5, <2>6
    <3>2. CASE i \in 1..k
      BY <2>5, <2>7, <3>1, <3>2 DEF Sources
    <3>3. CASE i = k + 1
      <4>1. \A j \in DOMAIN old : old[j].status = "USABLE" => old[j].group = Domain[old[j].page]
        BY <2>7 DEF Sources
      <4>2. QED
        BY <2>4, <2>5, <3>1, <3>3, <4>1
    <3>4. QED
      BY <2>6, <3>2, <3>3
  <2>9. Sources(f, new)
    BY <2>5, <2>8 DEF Sources
  <2>10. QED
    BY <2>1, <2>5, <2>9 DEF new
<1>6. n \in T
  <2> HIDE DEF T
  <2>1. \A k \in 0..n : k \in T
    BY <1>2, <1>4, <1>5, CountUp
  <2>2. QED
    BY <1>2, <2>1
<1>7. QED
  BY <1>1, <1>2, <1>3, <1>6

\* What the judged sources are, as far as a policy counts them.
Judgements(c, policy, r) ==
    \A i \in DOMAIN r :
        /\ r[i].page = c[i].page /\ r[i].status = c[i].status
        /\ r[i].content = c[i].content /\ r[i].group = c[i].group
        /\ r[i].class = c[i].class
        /\ r[i].eligible <=> Eligible(c[i], policy)
        /\ r[i].primary <=> r[i].eligible /\ r[i].class \in PrimaryClasses
        /\ r[i].independent => /\ r[i].eligible /\ r[i].class \in IndependentEligible
                               /\ \A j \in DOMAIN r : j < i /\ r[j].independent =>
                                     r[j].group # r[i].group

LEMMA JudgeFacts ==
    ASSUME NEW c \in Seq(Source), NEW policy
    PROVE  /\ ApplySourcePolicy(c, policy) \in Seq(Source)
           /\ Len(ApplySourcePolicy(c, policy)) = Len(c)
           /\ Judgements(c, policy, ApplySourcePolicy(c, policy))
<1> DEFINE n == Len(c)
<1>1. PICK h \in [0..n -> Seq(Source)] :
          /\ h[0] = <<>>
          /\ \A k \in 0..n : k < n => h[k + 1] = Append(h[k], Judged(h[k], c[k + 1], policy))
          /\ h[n] = ApplySourcePolicy(c, policy)
  BY JudgeSteps
<1>2. n \in Nat /\ DOMAIN c = 1..n /\ \A k \in 1..n : c[k] \in Source
  BY LenProperties
<1>3. \A k \in 0..n : h[k] \in Seq(Source) /\ Len(h[k]) \in Nat /\ DOMAIN h[k] = 1..Len(h[k])
  BY LenProperties
<1> DEFINE Good(k) == Len(h[k]) = k /\ Judgements(c, policy, h[k])
           T == {k \in 0..n : Good(k)}
<1>4. 0 \in T
  <2>1. Len(h[0]) = 0 /\ DOMAIN h[0] = {}
    BY <1>1
  <2>2. QED
    BY <1>2, <2>1 DEF Judgements
<1>5. ASSUME NEW k \in 0..n, k \in T, k < n PROVE k + 1 \in T
  <2>1. k \in Nat /\ k + 1 \in 0..n /\ k + 1 \in 1..n
    BY <1>2, <1>5
  <2>2. Len(h[k]) = k /\ Judgements(c, policy, h[k])
    BY <1>5, Zenon
  <2> DEFINE old == h[k]
             x == c[k + 1]
             s == Judged(old, x, policy)
             new == h[k + 1]
  <2>3. old \in Seq(Source) /\ x \in Source /\ s \in Source /\ new = Append(old, s)
    BY <1>1, <1>2, <1>3, <1>5, <2>1, JudgedType
  <2> HIDE DEF old, x
  <2>4. /\ s.page = x.page /\ s.status = x.status /\ s.content = x.content
        /\ s.group = x.group /\ s.class = x.class
        /\ s.eligible = Eligible(x, policy)
        /\ s.primary = (s.eligible /\ s.class \in PrimaryClasses)
        /\ s.independent = (/\ s.eligible /\ s.class \in IndependentEligible
                            /\ \A j \in DOMAIN old :
                                  old[j].independent => old[j].group # s.group)
    BY <2>3 DEF Judged, Source
  <2> HIDE DEF s, new
  <2>5. /\ Len(new) = k + 1 /\ DOMAIN old = 1..k /\ DOMAIN new = 1..(k + 1)
        /\ \A i \in 1..k : new[i] = old[i]
        /\ new[k + 1] = s
    BY <2>2, <2>3, Appended DEF old
  <2>6. /\ \A i \in 1..(k + 1) : i \in 1..k \/ i = k + 1
        /\ \A i \in 1..(k + 1), j \in 1..(k + 1) : j < i => j \in 1..k
    BY <2>1
  <2>7. Judgements(c, policy, old)
    BY <2>2 DEF old
  <2>8. ASSUME NEW i \in 1..(k + 1)
        PROVE  /\ new[i].page = c[i].page /\ new[i].status = c[i].status
               /\ new[i].content = c[i].content /\ new[i].group = c[i].group
               /\ new[i].class = c[i].class
               /\ new[i].eligible <=> Eligible(c[i], policy)
               /\ new[i].primary <=> new[i].eligible /\ new[i].class \in PrimaryClasses
               /\ new[i].independent =>
                     /\ new[i].eligible /\ new[i].class \in IndependentEligible
                     /\ \A j \in DOMAIN new : j < i /\ new[j].independent =>
                           new[j].group # new[i].group
    <3>1. \A j \in DOMAIN new : j < i => j \in DOMAIN old /\ new[j] = old[j]
      BY <2>5, <2>6
    <3>2. CASE i \in 1..k
      <4>1. new[i] = old[i] /\ i \in DOMAIN old
        BY <2>5, <3>2
      <4>2. /\ old[i].page = c[i].page /\ old[i].status = c[i].status
            /\ old[i].content = c[i].content /\ old[i].group = c[i].group
            /\ old[i].class = c[i].class
            /\ old[i].eligible <=> Eligible(c[i], policy)
            /\ old[i].primary <=> old[i].eligible /\ old[i].class \in PrimaryClasses
            /\ old[i].independent =>
                  /\ old[i].eligible /\ old[i].class \in IndependentEligible
                  /\ \A j \in DOMAIN old : j < i /\ old[j].independent =>
                        old[j].group # old[i].group
        BY <2>7, <4>1, Zenon DEF Judgements
      <4>3. QED
        BY <3>1, <4>1, <4>2
    <3>3. CASE i = k + 1
      BY <2>4, <2>5, <3>1, <3>3 DEF x
    <3>4. QED
      BY <2>6, <3>2, <3>3
  <2>9. Judgements(c, policy, new)
    BY <2>5, <2>8 DEF Judgements
  <2>10. QED
    BY <2>1, <2>5, <2>9 DEF new
<1>6. n \in T
  <2> HIDE DEF T
  <2>1. \A k \in 0..n : k \in T
    BY <1>2, <1>4, <1>5, CountUp
  <2>2. QED
    BY <1>2, <2>1
<1>7. QED
  BY <1>1, <1>2, <1>3, <1>6

\* What a policy counts of the evidence, in terms of what was fetched.
Evidenced(f, policy, r) ==
    \A i \in DOMAIN r :
        /\ i \in DOMAIN f /\ r[i].page = f[i].page
        /\ r[i].primary => r[i].eligible /\ SourceClass(f[i].page, f[i].content) \in PrimaryClasses
        /\ r[i].independent => r[i].eligible /\ IndependentlyClassed(f, i)
        /\ r[i].eligible =>
              /\ i \in Admitted(f, policy)
              /\ r[i].content = f[i].content
              /\ \A j \in DOMAIN r : j < i /\ r[j].eligible =>
                    /\ Domain[f[j].page] # Domain[f[i].page]
                    /\ ~Alike(f[j].content, f[i].content)
                    /\ <<f[i].content, f[j].page>> \notin Cites

LEMMA EvidenceFacts ==
    ASSUME NEW f \in Seq(Item), NEW policy
    PROVE  /\ DedupeAndGroup(f, policy) \in Seq(Source)
           /\ Len(DedupeAndGroup(f, policy)) = Len(f)
           /\ Evidenced(f, policy, DedupeAndGroup(f, policy))
<1> DEFINE c == ClusterSources(f)
           r == ApplySourcePolicy(c, policy)
<1>1. c \in Seq(Source) /\ Len(c) = Len(f) /\ Sources(f, c)
  BY ClusterFacts
<1>2. r \in Seq(Source) /\ Len(r) = Len(c) /\ Judgements(c, policy, r)
  BY <1>1, JudgeFacts
<1> HIDE DEF c, r
<1>3. DOMAIN r = DOMAIN c /\ DOMAIN c = DOMAIN f
  BY <1>1, <1>2, LenProperties
<1>4. ASSUME NEW i \in DOMAIN r, r[i].eligible
      PROVE  /\ c[i].status = "USABLE" /\ f[i].content # NoContent
             /\ r[i].content = f[i].content
             /\ r[i].class = SourceClass(f[i].page, f[i].content)
             /\ i \in Admitted(f, policy)
  <2>1. c[i].page = f[i].page /\ (c[i].status = "USABLE" =>
            /\ c[i].content = f[i].content /\ c[i].content # NoContent
            /\ c[i].class = SourceClass(c[i].page, c[i].content))
    BY <1>1, <1>3, <1>4 DEF Sources
  <2>2. /\ r[i].content = c[i].content /\ r[i].class = c[i].class
        /\ Eligible(c[i], policy)
    BY <1>2, <1>4 DEF Judgements
  <2>3. c[i].status = "USABLE" /\ f[i].content # NoContent
        /\ r[i].content = f[i].content /\ r[i].class = SourceClass(f[i].page, f[i].content)
    BY <2>1, <2>2 DEF Eligible
  <2>4. i \in Admitted(f, policy)
    BY <1>3, <2>2, <2>3 DEF Eligible, Admitted
  <2>5. QED
    BY <2>3, <2>4
<1>5. ASSUME NEW i \in DOMAIN r, NEW j \in DOMAIN r, r[i].eligible, r[j].eligible, j < i
      PROVE  /\ Domain[f[j].page] # Domain[f[i].page]
             /\ ~Alike(f[j].content, f[i].content)
             /\ <<f[i].content, f[j].page>> \notin Cites
  <2>1. /\ c[i].status = "USABLE" /\ c[j].status = "USABLE"
    BY <1>4, <1>5
  <2>2. /\ c[i].page = f[i].page /\ c[j].page = f[j].page
        /\ c[i].content = f[i].content /\ c[j].content = f[j].content
        /\ Domain[c[j].page] # Domain[c[i].page]
        /\ ~Alike(c[j].content, c[i].content)
        /\ <<c[i].content, c[j].page>> \notin Cites
    BY <1>1, <1>3, <1>5, <2>1 DEF Sources
  <2>3. QED
    BY <2>2
<1>6. ASSUME NEW i \in DOMAIN r
      PROVE  /\ i \in DOMAIN f /\ r[i].page = f[i].page
             /\ r[i].primary =>
                   r[i].eligible /\ SourceClass(f[i].page, f[i].content) \in PrimaryClasses
             /\ r[i].independent => r[i].eligible /\ IndependentlyClassed(f, i)
  <2>1. /\ r[i].page = c[i].page
        /\ r[i].primary => r[i].eligible /\ r[i].class \in PrimaryClasses
        /\ r[i].independent => r[i].eligible /\ r[i].class \in IndependentEligible
    BY <1>2 DEF Judgements
  <2>2. c[i].page = f[i].page
    BY <1>1, <1>3 DEF Sources
  <2>3. QED
    BY <1>3, <1>4, <2>1, <2>2 DEF IndependentlyClassed
<1>7. Evidenced(f, policy, r)
  BY <1>4, <1>5, <1>6 DEF Evidenced
<1>8. QED
  BY <1>1, <1>2, <1>7 DEF DedupeAndGroup, r, c

\* What each party fetched, and what its verdict says of the policy.
LEMMA PartyFacts ==
    ASSUME job \in Jobs, NEW party \in Executions
    PROVE  /\ party.fetched \in Seq(Item)
           /\ \A i, j \in DOMAIN party.fetched :
                  party.fetched[i].page = party.fetched[j].page => i = j
           /\ Evidence(party) = DedupeAndGroup(party.fetched, job.policy)
           /\ party.verdict.policyOk => PolicyOk(Evidence(party), job.policy)
<1>1. PICK found \in [ToSet(Urls) -> Contents \cup {NoContent}], answer \in Answers :
          party = Execution(Fetched(found), answer, job.policy)
  BY DEF Executions
<1>2. party.fetched = Fetched(found)
  BY <1>1 DEF Execution
<1>3. Urls \in Seq(Pages) /\ Injects(Urls) /\ DOMAIN Urls = 1..Len(Urls) /\ Len(Urls) \in Nat
  BY UrlsFacts, LenProperties
<1>4. \A i \in DOMAIN Urls : Urls[i] \in Pages /\ Urls[i] \in ToSet(Urls)
  BY <1>3 DEF ToSet
<1>5. \A i \in DOMAIN Urls : [page |-> Urls[i], content |-> found[Urls[i]]] \in Item
  BY <1>4 DEF Item
<1>6. Fetched(found) \in Seq(Item)
  BY <1>3, <1>5 DEF Fetched
<1>7. \A i, j \in DOMAIN Fetched(found) : Fetched(found)[i].page = Fetched(found)[j].page => i = j
  BY <1>3 DEF Fetched, Injects
<1>8. QED
  BY <1>2, <1>6, <1>7, ExecutionIsBounded DEF Evidence

\* The evidence of a party, and a policy met by it.
LEMMA PartyEvidence ==
    ASSUME job \in Jobs, NEW party \in Executions
    PROVE  /\ Evidence(party) \in Seq(Source)
           /\ DOMAIN Evidence(party) = DOMAIN party.fetched
           /\ IsFiniteSet(DOMAIN party.fetched) /\ DOMAIN party.fetched \subseteq Nat
           /\ Evidenced(party.fetched, job.policy, Evidence(party))
<1>1. party.fetched \in Seq(Item) /\ Evidence(party) = DedupeAndGroup(party.fetched, job.policy)
  BY PartyFacts
<1>2. /\ Evidence(party) \in Seq(Source) /\ Len(Evidence(party)) = Len(party.fetched)
      /\ Evidenced(party.fetched, job.policy, Evidence(party))
  BY <1>1, EvidenceFacts
<1>3. /\ DOMAIN party.fetched = 1..Len(party.fetched) /\ Len(party.fetched) \in Nat
      /\ DOMAIN Evidence(party) = 1..Len(Evidence(party))
  BY <1>1, <1>2, LenProperties
<1>4. IsFiniteSet(1..Len(party.fetched))
  BY <1>3, FS_Interval
<1>5. QED
  BY <1>2, <1>3, <1>4

\* Two pages that count are of different domains, whatever they count as.
LEMMA SeparateEvidence ==
    ASSUME job \in Jobs, NEW party \in Executions,
           NEW i \in DOMAIN Evidence(party), NEW j \in DOMAIN Evidence(party),
           Evidence(party)[i].eligible, Evidence(party)[j].eligible,
           Domain[party.fetched[i].page] = Domain[party.fetched[j].page]
    PROVE  i = j
<1>1. i \in Nat /\ j \in Nat /\ Evidenced(party.fetched, job.policy, Evidence(party))
  BY PartyEvidence
<1>2. ~(i < j) /\ ~(j < i)
  BY <1>1 DEF Evidenced
<1>3. QED
  BY <1>1, <1>2

LEMMA SourcesAreSeparate ==
    ASSUME job \in Jobs, Parties \subseteq Executions
    PROVE  IndependentSourcesAreSeparate
<1> SUFFICES ASSUME NEW party \in Parties,
                    NEW i \in DOMAIN Evidence(party), NEW j \in DOMAIN Evidence(party), i < j,
                    Evidence(party)[i].independent, Evidence(party)[j].independent
             PROVE  /\ Domain[Evidence(party)[i].page] # Domain[Evidence(party)[j].page]
                    /\ ~Alike(Evidence(party)[i].content, Evidence(party)[j].content)
                    /\ <<Evidence(party)[j].content, Evidence(party)[i].page>> \notin Cites
  BY DEF IndependentSourcesAreSeparate
<1>1. Evidenced(party.fetched, job.policy, Evidence(party))
  BY PartyEvidence
<1>2. QED
  BY <1>1 DEF Evidenced

\* Only the subject's pages are primary.
LEMMA PrimaryIsOwned ==
    ASSUME NEW p \in Pages, NEW c, SourceClass(p, c) \in PrimaryClasses
    PROVE  p \in Owned
BY SourceConstants DEF SourceClass, PrimaryClasses, HostKinds

\* Primary sources are admitted, the subject's and of different domains.
LEMMA PrimaryCountsDomains ==
    ASSUME job \in Jobs, NEW party \in Executions
    PROVE  /\ PrimaryCount(Evidence(party)) \in Nat
           /\ Cardinality(SubjectDomains(party.fetched, job.policy)) \in Nat
           /\ PrimaryCount(Evidence(party))
                <= Cardinality(SubjectDomains(party.fetched, job.policy))
<1> DEFINE r == Evidence(party)
           f == party.fetched
           own == {i \in Admitted(f, job.policy) : f[i].page \in Owned}
           domains == SubjectDomains(f, job.policy)
           P == {i \in DOMAIN r : r[i].primary}
<1>1. PrimaryCount(r) = Cardinality(P)
  BY DEF PrimaryCount, Count
<1>2. f \in Seq(Item)
  BY PartyFacts
<1>3. Evidenced(f, job.policy, r) /\ DOMAIN r = DOMAIN f /\ IsFiniteSet(DOMAIN f)
  BY PartyEvidence
<1>4. \A i \in P : i \in own /\ r[i].eligible
  <2>1. ASSUME NEW i \in P PROVE i \in own /\ r[i].eligible
    <3>1. r[i].eligible /\ SourceClass(f[i].page, f[i].content) \in PrimaryClasses
      BY <1>3 DEF Evidenced
    <3>2. f[i] \in Item
      BY <1>2, <1>3
    <3>3. f[i].page \in Owned
      BY <3>1, <3>2, PrimaryIsOwned DEF Item
    <3>4. i \in Admitted(f, job.policy)
      BY <1>3, <3>1 DEF Evidenced
    <3>5. QED
      BY <3>1, <3>3, <3>4
  <2>2. QED
    BY <2>1
<1>5. domains = {Domain[f[i].page] : i \in own}
  BY DEF SubjectDomains
<1>6. IsFiniteSet(P) /\ IsFiniteSet(own)
  <2>1. own \subseteq DOMAIN f
    BY DEF Admitted
  <2>2. QED
    BY <1>3, <2>1, FS_Subset
<1>7. IsFiniteSet(domains)
  <2> DEFINE g == [i \in own |-> Domain[f[i].page]]
  <2>1. g \in Surjection(own, domains)
    BY <1>5 DEF Surjection
  <2>2. QED
    BY <1>6, <2>1, FS_Surjection
<1>8. Cardinality(P) <= Cardinality(domains)
  <2> DEFINE g == [i \in P |-> Domain[f[i].page]]
  <2>1. \A i, j \in P : Domain[f[i].page] = Domain[f[j].page] => i = j
    BY <1>4, SeparateEvidence
  <2>2. g \in [P -> domains]
    BY <1>4, <1>5
  <2> HIDE DEF domains
  <2>3. g \in Injection(P, domains)
    BY <2>1, <2>2 DEF Injection, IsInjective
  <2>4. QED
    BY <1>7, <2>3, FS_Injection
<1>9. QED
  BY <1>1, <1>6, <1>7, <1>8, FS_CardinalityType

LEMMA JobPolicyType ==
    ASSUME job \in Jobs
    PROVE  job.policy.minPrimary \in Nat /\ job.policy.minIndependent \in Nat
BY ConsensusConstants DEF SourcePolicies

LEMMA CountedPerDomain ==
    ASSUME job \in Jobs, Parties \subseteq Executions
    PROVE  SubjectCountsOncePerDomain
<1> SUFFICES ASSUME NEW party \in Parties
             PROVE  LET domains == SubjectDomains(party.fetched, job.policy) IN
                    /\ PrimaryCount(Evidence(party)) <= Cardinality(domains)
                    /\ party.verdict.policyOk => job.policy.minPrimary <= Cardinality(domains)
  BY DEF SubjectCountsOncePerDomain
<1> DEFINE domains == SubjectDomains(party.fetched, job.policy)
<1>1. /\ PrimaryCount(Evidence(party)) \in Nat /\ Cardinality(domains) \in Nat
      /\ PrimaryCount(Evidence(party)) <= Cardinality(domains)
  BY PrimaryCountsDomains
<1>2. party.verdict.policyOk => PrimaryCount(Evidence(party)) >= job.policy.minPrimary
  BY PartyFacts DEF PolicyOk
<1> HIDE DEF domains
<1>3. QED
  BY <1>1, <1>2, JobPolicyType DEF domains

\* A satisfied policy rests on as many admitted pages as it asks for.
LEMMA PoliciesAreMet ==
    ASSUME job \in Jobs, Parties \subseteq Executions
    PROVE  PolicyIsMet
<1> SUFFICES ASSUME NEW party \in Parties, party.verdict.policyOk
             PROVE  LET fetched == party.fetched
                        admitted == Admitted(fetched, job.policy)
                        domains == {Domain[fetched[i].page] :
                                       i \in {j \in admitted : IndependentlyClassed(fetched, j)}}
                        own == {i \in admitted : fetched[i].page \in Owned}
                    IN /\ admitted # {}
                       /\ Cardinality(domains) >= job.policy.minIndependent
                       /\ job.policy.crossCheck => Cardinality(domains) >= 2
                       /\ Cardinality(own) >= job.policy.minPrimary
  BY DEF PolicyIsMet
<1> DEFINE r == Evidence(party)
           f == party.fetched
           admitted == Admitted(f, job.policy)
           classed == {j \in admitted : IndependentlyClassed(f, j)}
           domains == {Domain[f[i].page] : i \in classed}
           own == {i \in admitted : f[i].page \in Owned}
           P == {i \in DOMAIN r : r[i].primary}
           I == {i \in DOMAIN r : r[i].independent}
<1>1. /\ f \in Seq(Item) /\ DOMAIN r = DOMAIN f /\ IsFiniteSet(DOMAIN f)
      /\ Evidenced(f, job.policy, r) /\ PolicyOk(r, job.policy)
  BY PartyFacts, PartyEvidence
<1>2. PrimaryCount(r) = Cardinality(P) /\ IndependentCount(r) = Cardinality(I)
  BY DEF PrimaryCount, IndependentCount, Count
<1>3. /\ \E i \in DOMAIN r : r[i].eligible
      /\ Cardinality(P) >= job.policy.minPrimary
      /\ Cardinality(I) >= job.policy.minIndependent
      /\ job.policy.crossCheck => Cardinality(I) >= 2
  BY <1>1, <1>2 DEF PolicyOk
<1>4. \A i \in DOMAIN r : r[i].eligible => i \in admitted
  BY <1>1 DEF Evidenced
<1>5. \A i \in P : i \in own
  <2>1. ASSUME NEW i \in P PROVE i \in own
    <3>1. r[i].eligible /\ SourceClass(f[i].page, f[i].content) \in PrimaryClasses
      BY <1>1 DEF Evidenced
    <3>2. f[i] \in Item
      BY <1>1
    <3>3. f[i].page \in Owned
      BY <3>1, <3>2, PrimaryIsOwned DEF Item
    <3>4. QED
      BY <1>4, <3>1, <3>3
  <2>2. QED
    BY <2>1
<1>6. \A i \in I : i \in classed /\ r[i].eligible
  BY <1>1, <1>4 DEF Evidenced
<1>7. admitted \subseteq DOMAIN f /\ own \subseteq DOMAIN f /\ classed \subseteq DOMAIN f
  BY DEF Admitted
<1>8. IsFiniteSet(own) /\ Cardinality(P) <= Cardinality(own) /\ IsFiniteSet(classed)
  BY <1>1, <1>5, <1>7, FS_Subset
<1>9. IsFiniteSet(domains)
  <2> DEFINE g == [i \in classed |-> Domain[f[i].page]]
  <2>1. g \in Surjection(classed, domains)
    BY DEF Surjection
  <2>2. QED
    BY <1>8, <2>1, FS_Surjection
<1>10. Cardinality(I) <= Cardinality(domains)
  <2> DEFINE g == [i \in I |-> Domain[f[i].page]]
  <2>1. \A i, j \in I : Domain[f[i].page] = Domain[f[j].page] => i = j
    BY <1>6, SeparateEvidence
  <2>2. g \in [I -> domains]
    BY <1>6
  <2> HIDE DEF domains
  <2>3. g \in Injection(I, domains)
    BY <2>1, <2>2 DEF Injection, IsInjective
  <2>4. QED
    BY <1>9, <2>3, FS_Injection
<1>11. /\ Cardinality(P) \in Nat /\ Cardinality(I) \in Nat
       /\ Cardinality(own) \in Nat /\ Cardinality(domains) \in Nat
  <2>1. IsFiniteSet(P) /\ IsFiniteSet(I)
    BY <1>1, FS_Subset
  <2>2. QED
    BY <1>8, <1>9, <2>1, FS_CardinalityType
<1>12. /\ Cardinality(domains) >= job.policy.minIndependent
       /\ job.policy.crossCheck => Cardinality(domains) >= 2
       /\ Cardinality(own) >= job.policy.minPrimary
  <2> HIDE DEF P, I, own, domains
  <2>1. QED
    BY <1>3, <1>8, <1>10, <1>11, JobPolicyType
<1>13. admitted # {}
  BY <1>3, <1>4
<1>14. QED
  BY <1>12, <1>13

-----------------------------------------------------------------------------
(* What could not be fetched. *)

\* A set of sequences that holds the empty one and, with any of its members,
\* what appending an element makes of it, holds them all.
LEMMA AllSequences ==
    ASSUME NEW X, NEW Q, <<>> \in Q, \A s \in Seq(X) \cap Q, x \in X : Append(s, x) \in Q
    PROVE  Seq(X) \subseteq Q
<1> SUFFICES ASSUME NEW s \in Seq(X) PROVE s \in Q
  OBVIOUS
<1> DEFINE n == Len(s)
           T == {k \in 0..n : SubSeq(s, 1, k) \in Q}
<1>1. n \in Nat /\ \A k \in 1..n : s[k] \in X
  BY LenProperties
<1>2. 0 \in T
  <2>1. SubSeq(s, 1, 0) = <<>>
    OBVIOUS
  <2>2. SubSeq(s, 1, 0) \in Q
    BY <2>1, Zenon
  <2>3. 0 \in 0..n
    BY <1>1
  <2>4. QED
    BY <2>2, <2>3
<1>3. ASSUME NEW k \in 0..n, k \in T, k < n PROVE k + 1 \in T
  <2>1. k \in Nat /\ k + 1 \in 0..n /\ k + 1 \in 1..n
    BY <1>1, <1>3
  <2>2. /\ SubSeq(s, 1, k) \in Seq(X) /\ SubSeq(s, 1, k + 1) \in Seq(X)
        /\ SubSeq(s, 1, k + 1) = Append(SubSeq(s, 1, k), s[k + 1])
    BY <1>1, <2>1
  <2>3. SubSeq(s, 1, k) \in Q
    BY <1>3
  <2>4. QED
    BY <1>1, <2>1, <2>2, <2>3
<1>4. n \in T
  <2> HIDE DEF T
  <2>1. \A k \in 0..n : k \in T
    BY <1>1, <1>2, <1>3, CountUp
  <2>2. QED
    BY <1>1, <2>1
<1>5. SubSeq(s, 1, n) = s
  OBVIOUS
<1>6. QED
  BY <1>4, <1>5

\* Two runs that start alike and take the same steps end alike.
LEMMA SameRuns ==
    ASSUME NEW n \in Nat, NEW g, NEW h, g[0] = h[0],
           \A k \in 0..n : k < n /\ g[k] = h[k] => g[k + 1] = h[k + 1]
    PROVE  g[n] = h[n]
<1> DEFINE T == {k \in 0..n : g[k] = h[k]}
<1>1. 0 \in T
  OBVIOUS
<1>2. \A k \in 0..n : k \in T /\ k < n => k + 1 \in T
  <2>1. ASSUME NEW k \in 0..n, k \in T, k < n PROVE k + 1 \in T
    <3>1. k + 1 \in 0..n
      BY <2>1
    <3>2. QED
      BY <2>1, <3>1
  <2>2. QED
    BY <2>1
<1> HIDE DEF T
<1>3. n \in T
  BY <1>1, <1>2, CountUp
<1>4. QED
  BY <1>3 DEF T

\* Nothing comes of no page.
LEMMA EmptyFolds ==
    ASSUME NEW policy
    PROVE  /\ WithContent(<<>>) = <<>> /\ ClusterSources(<<>>) = <<>>
           /\ ApplySourcePolicy(<<>>, policy) = <<>>
<1>1. <<>> \in Seq(Item) /\ Len(<<>>) = 0
  OBVIOUS
<1>2. PICK z \in [0..0 -> Seq(Item)] : z[0] = <<>> /\ z[0] = WithContent(<<>>)
  BY <1>1, ContentSteps
<1>3. PICK y \in [0..0 -> Seq(Source)] : y[0] = <<>> /\ y[0] = ClusterSources(<<>>)
  BY <1>1, ClusterSteps
<1>4. <<>> \in Seq(Source) /\ Len(<<>>) = 0
  OBVIOUS
<1>5. PICK x \in [0..0 -> Seq(Source)] : x[0] = <<>> /\ x[0] = ApplySourcePolicy(<<>>, policy)
  BY <1>4, JudgeSteps
<1>6. QED
  BY <1>2, <1>3, <1>5

\* A fold of one element more takes one step more.
LEMMA ClusterLast ==
    ASSUME NEW f \in Seq(Item), NEW x \in Item
    PROVE  ClusterSources(Append(f, x))
            = Append(ClusterSources(f), Clustered(ClusterSources(f), x))
<1> DEFINE n == Len(f)
           e == Append(f, x)
<1>1. /\ e \in Seq(Item) /\ n \in Nat /\ Len(e) = n + 1
      /\ \A i \in 1..n : e[i] = f[i]
      /\ e[n + 1] = x
  BY Appended
<1>2. PICK g \in [0..n -> Seq(Source)] :
          /\ g[0] = <<>>
          /\ \A k \in 0..n : k < n => g[k + 1] = Append(g[k], Clustered(g[k], f[k + 1]))
          /\ g[n] = ClusterSources(f)
  BY ClusterSteps
<1> HIDE DEF e
<1>3. PICK h \in [0..Len(e) -> Seq(Source)] :
          /\ h[0] = <<>>
          /\ \A k \in 0..Len(e) : k < Len(e) => h[k + 1] = Append(h[k], Clustered(h[k], e[k + 1]))
          /\ h[Len(e)] = ClusterSources(e)
  BY <1>1, ClusterSteps
<1> HIDE DEF n
<1>4. \A k \in 0..n : k < n => k + 1 \in 1..n /\ k \in 0..(n + 1) /\ k < n + 1
  BY <1>1
<1>5. \A k \in 0..n : k < n /\ g[k] = h[k] => g[k + 1] = h[k + 1]
  BY <1>1, <1>2, <1>3, <1>4
<1>6. g[n] = h[n]
  <2>1. g[0] = h[0]
    BY <1>2, <1>3
  <2>2. QED
    BY <1>1, <1>5, <2>1, SameRuns
<1>7. n \in 0..(n + 1) /\ n < n + 1
  BY <1>1
<1>8. h[n + 1] = Append(h[n], Clustered(h[n], x))
  BY <1>1, <1>3, <1>7
<1>9. QED
  BY <1>1, <1>2, <1>3, <1>6, <1>8 DEF e

LEMMA JudgeLast ==
    ASSUME NEW f \in Seq(Source), NEW x \in Source, NEW policy
    PROVE  ApplySourcePolicy(Append(f, x), policy)
            = Append(ApplySourcePolicy(f, policy), Judged(ApplySourcePolicy(f, policy), x, policy))
<1> DEFINE n == Len(f)
           e == Append(f, x)
<1>1. /\ e \in Seq(Source) /\ n \in Nat /\ Len(e) = n + 1
      /\ \A i \in 1..n : e[i] = f[i]
      /\ e[n + 1] = x
  BY Appended
<1>2. PICK g \in [0..n -> Seq(Source)] :
          /\ g[0] = <<>>
          /\ \A k \in 0..n : k < n => g[k + 1] = Append(g[k], Judged(g[k], f[k + 1], policy))
          /\ g[n] = ApplySourcePolicy(f, policy)
  BY JudgeSteps
<1> HIDE DEF e
<1>3. PICK h \in [0..Len(e) -> Seq(Source)] :
          /\ h[0] = <<>>
          /\ \A k \in 0..Len(e) : k < Len(e) => h[k + 1] = Append(h[k], Judged(h[k], e[k + 1], policy))
          /\ h[Len(e)] = ApplySourcePolicy(e, policy)
  BY <1>1, JudgeSteps
<1> HIDE DEF n
<1>4. \A k \in 0..n : k < n => k + 1 \in 1..n /\ k \in 0..(n + 1) /\ k < n + 1
  BY <1>1
<1>5. \A k \in 0..n : k < n /\ g[k] = h[k] => g[k + 1] = h[k + 1]
  BY <1>1, <1>2, <1>3, <1>4
<1>6. g[n] = h[n]
  <2>1. g[0] = h[0]
    BY <1>2, <1>3
  <2>2. QED
    BY <1>1, <1>5, <2>1, SameRuns
<1>7. n \in 0..(n + 1) /\ n < n + 1
  BY <1>1
<1>8. h[n + 1] = Append(h[n], Judged(h[n], x, policy))
  BY <1>1, <1>3, <1>7
<1>9. QED
  BY <1>1, <1>2, <1>3, <1>6, <1>8 DEF e

LEMMA ContentLast ==
    ASSUME NEW X, NEW f \in Seq(X), NEW x \in X
    PROVE  WithContent(Append(f, x))
            = ContentStep(WithContent(f), x)
<1> DEFINE n == Len(f)
           e == Append(f, x)
<1>1. /\ e \in Seq(X) /\ n \in Nat /\ Len(e) = n + 1
      /\ \A i \in 1..n : e[i] = f[i]
      /\ e[n + 1] = x
  BY Appended
<1>2. PICK g \in [0..n -> Seq(X)] :
          /\ g[0] = <<>>
          /\ \A k \in 0..n : k < n => g[k + 1] = ContentStep(g[k], f[k + 1])
          /\ g[n] = WithContent(f)
  BY ContentSteps
<1> HIDE DEF e
<1>3. PICK h \in [0..Len(e) -> Seq(X)] :
          /\ h[0] = <<>>
          /\ \A k \in 0..Len(e) : k < Len(e) => h[k + 1] = ContentStep(h[k], e[k + 1])
          /\ h[Len(e)] = WithContent(e)
  BY <1>1, ContentSteps
<1> HIDE DEF n
<1>4. \A k \in 0..n : k < n => k + 1 \in 1..n /\ k \in 0..(n + 1) /\ k < n + 1
  BY <1>1
<1>5. \A k \in 0..n : k < n /\ g[k] = h[k] => g[k + 1] = h[k + 1]
  BY <1>1, <1>2, <1>3, <1>4
<1>6. g[n] = h[n]
  <2>1. g[0] = h[0]
    BY <1>2, <1>3
  <2>2. QED
    BY <1>1, <1>5, <2>1, SameRuns
<1>7. n \in 0..(n + 1) /\ n < n + 1
  BY <1>1
<1>8. h[n + 1] = ContentStep(h[n], x)
  BY <1>1, <1>3, <1>7
<1>9. QED
  BY <1>1, <1>2, <1>3, <1>6, <1>8 DEF e

\* What WithContent selects: the elements with a content, in their order.
Selects(f, w) ==
    \E e \in [DOMAIN w -> DOMAIN f] :
        /\ \A i \in DOMAIN w : w[i] = f[e[i]] /\ w[i].content # NoContent
        /\ \A i, j \in DOMAIN w : i < j => e[i] < e[j]
        /\ \A k \in DOMAIN f : f[k].content # NoContent => \E i \in DOMAIN w : e[i] = k

LEMMA ContentFacts ==
    ASSUME NEW X, NEW f \in Seq(X)
    PROVE  WithContent(f) \in Seq(X) /\ Selects(f, WithContent(f))
<1> DEFINE Q == {s \in Seq(X) : WithContent(s) \in Seq(X) /\ Selects(s, WithContent(s))}
<1>1. <<>> \in Q
  <2>2. WithContent(<<>>) = <<>>
    BY EmptyFolds
  <2>3. DOMAIN <<>> = {} /\ <<>> \in Seq(X)
    OBVIOUS
  <2>4. Selects(<<>>, <<>>)
    <3>1. <<>> \in [DOMAIN <<>> -> DOMAIN <<>>]
      OBVIOUS
    <3>2. QED
      BY <2>3, <3>1 DEF Selects
  <2>5. QED
    BY <2>2, <2>3, <2>4
<1>2. ASSUME NEW s \in Seq(X), s \in Q, NEW x \in X PROVE Append(s, x) \in Q
  <2> DEFINE t == Append(s, x)
             v == WithContent(s)
             w == WithContent(t)
             n == Len(s)
             m == Len(v)
  <2>1. v \in Seq(X) /\ Selects(s, v) /\ w = ContentStep(v, x)
    BY <1>2, ContentLast
  <2>2. /\ t \in Seq(X) /\ n \in Nat /\ DOMAIN s = 1..n /\ DOMAIN t = 1..(n + 1)
        /\ \A i \in 1..n : t[i] = s[i]
        /\ t[n + 1] = x
    BY Appended
  <2> HIDE DEF t, v, w, n
  <2>3. PICK e \in [DOMAIN v -> DOMAIN s] :
          /\ \A i \in DOMAIN v : v[i] = s[e[i]] /\ v[i].content # NoContent
          /\ \A i, j \in DOMAIN v : i < j => e[i] < e[j]
          /\ \A k \in DOMAIN s : s[k].content # NoContent => \E i \in DOMAIN v : e[i] = k
    BY <2>1 DEF Selects
  <2>4. /\ \A i \in 1..(n + 1) : i \in 1..n \/ i = n + 1
        /\ \A i \in 1..n : i \in 1..(n + 1) /\ i < n + 1
        /\ n + 1 \in 1..(n + 1)
    BY <2>2
  <2>5. CASE x.content = NoContent
    <3>1. w = v
      BY <2>1, <2>5 DEF ContentStep
    <3>2. e \in [DOMAIN w -> DOMAIN t]
      BY <2>2, <2>3, <2>4, <3>1
    <3>3. \A i \in DOMAIN w : w[i] = t[e[i]] /\ w[i].content # NoContent
      BY <2>2, <2>3, <3>1
    <3>4. \A k \in DOMAIN t : t[k].content # NoContent => \E i \in DOMAIN w : e[i] = k
      BY <2>2, <2>3, <2>4, <2>5, <3>1
    <3>5. Selects(t, w)
      BY <2>3, <3>1, <3>2, <3>3, <3>4 DEF Selects
    <3>6. QED
      BY <2>1, <2>2, <3>1, <3>5 DEF t, w
  <2>6. CASE x.content # NoContent
    <3>1. /\ w = Append(v, x) /\ w \in Seq(X) /\ m \in Nat
          /\ DOMAIN v = 1..m /\ DOMAIN w = 1..(m + 1)
          /\ \A i \in 1..m : w[i] = v[i]
          /\ w[m + 1] = x
      BY <2>1, <2>6, Appended DEF ContentStep
    <3> HIDE DEF m
    <3> DEFINE d == [i \in 1..(m + 1) |-> IF i = m + 1 THEN n + 1 ELSE e[i]]
    <3>2. /\ \A i \in 1..(m + 1) : i \in 1..m \/ i = m + 1
          /\ \A i \in 1..m : i \in 1..(m + 1) /\ i # m + 1
          /\ m + 1 \in 1..(m + 1)
          /\ \A i, j \in 1..(m + 1) : i < j => i \in 1..m
      BY <3>1
    <3>3. /\ d[m + 1] = n + 1 /\ (\A i \in 1..m : d[i] = e[i])
          /\ d = [i \in 1..(m + 1) |-> d[i]]
      BY <3>2
    <3> HIDE DEF d
    <3>4. d \in [DOMAIN w -> DOMAIN t]
      <4>1. \A i \in 1..m : e[i] \in 1..(n + 1)
        BY <2>2, <2>3, <2>4, <3>1
      <4>2. \A i \in 1..(m + 1) : d[i] \in 1..(n + 1)
        BY <2>4, <3>2, <3>3, <4>1
      <4>3. QED
        BY <2>2, <3>1, <3>3, <4>2
    <3>5. \A i \in DOMAIN w : w[i] = t[d[i]] /\ w[i].content # NoContent
      <4>1. ASSUME NEW i \in 1..m PROVE w[i] = t[d[i]] /\ w[i].content # NoContent
        <5>1. i \in DOMAIN v /\ w[i] = v[i] /\ d[i] = e[i]
          BY <3>1, <3>3
        <5>2. e[i] \in 1..n /\ v[i] = s[e[i]] /\ v[i].content # NoContent
          BY <2>2, <2>3, <5>1
        <5>3. t[e[i]] = s[e[i]]
          BY <2>2, <5>2
        <5>4. QED
          BY <5>1, <5>2, <5>3
      <4>2. QED
        BY <2>2, <2>6, <3>1, <3>2, <3>3, <4>1
    <3>6. ASSUME NEW i \in DOMAIN w, NEW j \in DOMAIN w, i < j PROVE d[i] < d[j]
      <4>1. i \in 1..m /\ d[i] = e[i] /\ e[i] \in 1..n
        BY <2>2, <2>3, <3>1, <3>2, <3>3, <3>6
      <4>2. CASE j = m + 1
        BY <2>4, <3>3, <4>1, <4>2
      <4>3. CASE j \in 1..m
        BY <2>3, <3>1, <3>3, <3>6, <4>1, <4>3
      <4>4. QED
        BY <3>1, <3>2, <4>2, <4>3
    <3>7. \A k \in DOMAIN t : t[k].content # NoContent => \E i \in DOMAIN w : d[i] = k
      <4>1. ASSUME NEW k \in 1..n, t[k].content # NoContent PROVE \E i \in DOMAIN w : d[i] = k
        <5>1. PICK i \in DOMAIN v : e[i] = k
          BY <2>2, <2>3, <4>1
        <5>2. QED
          BY <3>1, <3>2, <3>3, <5>1
      <4>2. QED
        BY <2>2, <2>4, <3>1, <3>2, <3>3, <4>1
    <3>8. Selects(t, w)
      BY <3>4, <3>5, <3>6, <3>7 DEF Selects
    <3>9. QED
      BY <2>2, <3>1, <3>8 DEF t, w
  <2>7. QED
    BY <2>5, <2>6
<1> HIDE DEF Q
<1>3. Seq(X) \subseteq Q
  BY <1>1, <1>2, AllSequences
<1>4. QED
  BY <1>3 DEF Q

\* A page is clustered with those that have a content as with all.
LEMMA ClusteredNeutral ==
    ASSUME NEW c \in Seq(Source), NEW item \in Item,
           \A i \in DOMAIN c : c[i].status = "USABLE" => c[i].content # NoContent,
           \A i \in DOMAIN c : c[i].page # item.page
    PROVE  /\ Clustered(WithContent(c), item) = Clustered(c, item)
           /\ Clustered(c, item).content = item.content
<1> DEFINE w == WithContent(c)
           p == item.page
           t == item.content
           a == DerivedFrom(w, p, t)
           b == DerivedFrom(c, p, t)
<1>1. w \in Seq(Source) /\ Selects(c, w)
  BY ContentFacts
<1> HIDE DEF w
<1>2. PICK e \in [DOMAIN w -> DOMAIN c] :
        /\ \A i \in DOMAIN w : w[i] = c[e[i]] /\ w[i].content # NoContent
        /\ \A i, j \in DOMAIN w : i < j => e[i] < e[j]
        /\ \A k \in DOMAIN c : c[k].content # NoContent => \E i \in DOMAIN w : e[i] = k
  BY <1>1 DEF Selects
<1>3. DOMAIN w \subseteq Nat /\ DOMAIN c \subseteq Nat
  BY <1>1, LenProperties
<1>4. ASSUME NEW i \in DOMAIN w
      PROVE  /\ i \in Resembled(w, p, t) <=> e[i] \in Resembled(c, p, t)
             /\ i \in Named(w, p, t) <=> e[i] \in Named(c, p, t)
  BY <1>2 DEF Resembled, Named, Origins
<1>5. ASSUME NEW k \in Resembled(c, p, t) \cup Named(c, p, t)
      PROVE  \E i \in DOMAIN w : e[i] = k
  <2>1. k \in DOMAIN c /\ c[k].content # NoContent
    BY DEF Resembled, Named, Origins
  <2>2. QED
    BY <1>2, <2>1
<1>6. /\ Resembled(w, p, t) \subseteq DOMAIN w /\ Named(w, p, t) \subseteq DOMAIN w
      /\ Resembled(c, p, t) \subseteq DOMAIN c /\ Named(c, p, t) \subseteq DOMAIN c
  BY DEF Resembled, Named, Origins
<1> HIDE DEF p, t
<1>7. Resembled(w, p, t) = {} <=> Resembled(c, p, t) = {}
  BY <1>4, <1>5, <1>6
<1>8. a \subseteq DOMAIN w /\ b \subseteq DOMAIN c
  BY <1>6 DEF DerivedFrom
<1>9. \A i \in DOMAIN w : i \in a <=> e[i] \in b
  BY <1>4, <1>7 DEF DerivedFrom
<1>10. \A k \in b : \E i \in DOMAIN w : e[i] = k
  BY <1>5 DEF DerivedFrom
<1> HIDE DEF a, b
<1>11. a = {} <=> b = {}
  BY <1>8, <1>9, <1>10
<1>12. ASSUME b # {} PROVE w[Min(a)] = c[Min(b)]
  <2>1. a \in SUBSET Nat /\ b \in SUBSET Nat
    BY <1>3, <1>8
  <2>2. /\ Min(a) \in a /\ \A y \in a : Min(a) <= y
        /\ Min(b) \in b /\ \A y \in b : Min(b) <= y
    BY <1>11, <1>12, <2>1, MinFacts
  <2>3. PICK i \in DOMAIN w : e[i] = Min(b)
    BY <1>10, <2>2
  <2>4. i \in a
    BY <1>9, <2>2, <2>3
  <2>5. i \in Nat /\ Min(a) \in Nat /\ Min(a) \in DOMAIN w /\ Min(a) <= i
    BY <1>3, <1>8, <2>2, <2>4
  <2>6. ~(Min(a) < i)
    <3>1. SUFFICES ASSUME Min(a) < i PROVE FALSE
      OBVIOUS
    <3>2. e[Min(a)] < e[i] /\ e[Min(a)] \in b
      BY <1>2, <1>9, <2>2, <2>5, <3>1
    <3>3. Min(b) <= e[Min(a)] /\ e[Min(a)] \in Nat /\ e[i] \in Nat
      BY <1>2, <1>3, <2>2, <2>5, <3>2
    <3>4. QED
      BY <2>3, <3>2, <3>3
  <2>7. Min(a) = i
    BY <2>5, <2>6
  <2>8. QED
    BY <1>2, <2>3, <2>7
<1>13. /\ ~ \E i \in DOMAIN c : c[i].page = p
       /\ ~ \E i \in DOMAIN w : w[i].page = p
  BY <1>2 DEF p
<1>14. Clustered(w, item) = Clustered(c, item) /\ Clustered(c, item).content = item.content
  BY <1>11, <1>12, <1>13 DEF Clustered, a, b, p, t
<1>15. QED
  BY <1>14 DEF w

OnePageEach(f) == \A i, j \in DOMAIN f : f[i].page = f[j].page => i = j

LEMMA ClusterNeutral ==
    ASSUME NEW f \in Seq(Item), OnePageEach(f)
    PROVE  ClusterSources(WithContent(f)) = WithContent(ClusterSources(f))
<1> DEFINE Neutral(s) == ClusterSources(WithContent(s)) = WithContent(ClusterSources(s))
           Q == {s \in Seq(Item) : OnePageEach(s) => Neutral(s)}
<1>1. <<>> \in Q
  <2>1. <<>> \in Seq(Item)
    OBVIOUS
  <2>2. WithContent(<<>>) = <<>> /\ ClusterSources(<<>>) = <<>>
    BY EmptyFolds
  <2>3. QED
    BY <2>1, <2>2
<1>2. ASSUME NEW s \in Seq(Item), s \in Q, NEW x \in Item PROVE Append(s, x) \in Q
  <2> DEFINE t == Append(s, x)
             c == ClusterSources(s)
             z == Clustered(c, x)
  <2>1. /\ t \in Seq(Item) /\ Len(s) \in Nat
        /\ DOMAIN s = 1..Len(s) /\ DOMAIN t = 1..(Len(s) + 1)
        /\ \A i \in 1..Len(s) : t[i] = s[i]
        /\ t[Len(s) + 1] = x
    BY Appended
  <2> HIDE DEF t
  <2>2. SUFFICES ASSUME OnePageEach(t) PROVE Neutral(t)
    BY <2>1 DEF t
  <2>3. /\ \A i \in DOMAIN s : i \in DOMAIN t /\ t[i] = s[i]
        /\ Len(s) + 1 \in DOMAIN t /\ \A i \in DOMAIN s : i # Len(s) + 1
    BY <2>1
  <2>4. OnePageEach(s) /\ \A i \in DOMAIN s : s[i].page # x.page
    BY <2>1, <2>2, <2>3 DEF OnePageEach
  <2>5. ClusterSources(WithContent(s)) = WithContent(c)
    BY <1>2, <2>4
  <2>6. c \in Seq(Source) /\ Len(c) = Len(s) /\ Sources(s, c)
    BY ClusterFacts
  <2> HIDE DEF c
  <2>7. DOMAIN c = DOMAIN s
    BY <2>6, LenProperties
  <2>8. \A i \in DOMAIN c : c[i].page # x.page /\ (c[i].status = "USABLE" => c[i].content # NoContent)
    BY <2>4, <2>6, <2>7 DEF Sources
  <2>9. z \in Source /\ Clustered(WithContent(c), x) = z /\ z.content = x.content
    BY <2>6, <2>8, ClusteredType, ClusteredNeutral
  <2> HIDE DEF z
  <2>10. ClusterSources(t) = Append(c, z)
    BY ClusterLast DEF t, c, z
  <2>11. WithContent(ClusterSources(t)) = ContentStep(WithContent(c), z)
    BY <2>6, <2>9, <2>10, ContentLast
  <2>12. WithContent(t) = ContentStep(WithContent(s), x) /\ WithContent(s) \in Seq(Item)
    BY ContentLast, ContentFacts DEF t
  <2>13. CASE x.content = NoContent
    BY <2>5, <2>9, <2>11, <2>12, <2>13 DEF ContentStep
  <2>14. CASE x.content # NoContent
    <3>1. WithContent(t) = Append(WithContent(s), x)
      BY <2>12, <2>14 DEF ContentStep
    <3>2. ClusterSources(Append(WithContent(s), x))
            = Append(ClusterSources(WithContent(s)), Clustered(ClusterSources(WithContent(s)), x))
      BY <2>12, ClusterLast
    <3>3. WithContent(ClusterSources(t)) = Append(WithContent(c), z)
      BY <2>9, <2>11, <2>14 DEF ContentStep
    <3>4. QED
      BY <2>5, <2>9, <3>1, <3>2, <3>3
  <2>15. QED
    BY <2>13, <2>14
<1> HIDE DEF Q
<1>3. Seq(Item) \subseteq Q
  BY <1>1, <1>2, AllSequences
<1>4. QED
  BY <1>3 DEF Q

LEMMA JudgeNeutral ==
    ASSUME NEW c \in Seq(Source), NEW policy,
           \A i \in DOMAIN c : c[i].status = "USABLE" => c[i].content # NoContent
    PROVE  ApplySourcePolicy(WithContent(c), policy) = WithContent(ApplySourcePolicy(c, policy))
<1> DEFINE Neutral(s) == ApplySourcePolicy(WithContent(s), policy)
                           = WithContent(ApplySourcePolicy(s, policy))
           Read(s) == \A i \in DOMAIN s : s[i].status = "USABLE" => s[i].content # NoContent
           Q == {s \in Seq(Source) : Read(s) => Neutral(s)}
<1>1. <<>> \in Q
  <2>1. <<>> \in Seq(Source)
    OBVIOUS
  <2>2. WithContent(<<>>) = <<>> /\ ApplySourcePolicy(<<>>, policy) = <<>>
    BY EmptyFolds
  <2>3. QED
    BY <2>1, <2>2
<1>2. ASSUME NEW s \in Seq(Source), s \in Q, NEW x \in Source PROVE Append(s, x) \in Q
  <2> DEFINE t == Append(s, x)
             r == ApplySourcePolicy(s, policy)
             w == WithContent(r)
             z == Judged(r, x, policy)
  <2>1. /\ t \in Seq(Source) /\ Len(s) \in Nat
        /\ DOMAIN s = 1..Len(s) /\ DOMAIN t = 1..(Len(s) + 1)
        /\ \A i \in 1..Len(s) : t[i] = s[i]
    BY Appended
  <2> HIDE DEF t
  <2>2. SUFFICES ASSUME Read(t) PROVE Neutral(t)
    BY <2>1 DEF t
  <2>3. \A i \in DOMAIN s : i \in DOMAIN t /\ t[i] = s[i]
    BY <2>1
  <2>4. Read(s)
    BY <2>2, <2>3
  <2>5. ApplySourcePolicy(WithContent(s), policy) = w
    BY <1>2, <2>4
  <2>6. r \in Seq(Source) /\ Len(r) = Len(s) /\ Judgements(s, policy, r)
    BY JudgeFacts
  <2> HIDE DEF r
  <2>7. DOMAIN r = DOMAIN s
    BY <2>6, LenProperties
  <2>8. \A i \in DOMAIN r : r[i].independent => r[i].content # NoContent
    <3>1. ASSUME NEW i \in DOMAIN r, r[i].independent PROVE r[i].content # NoContent
      <4>1. r[i].content = s[i].content /\ Eligible(s[i], policy)
        BY <2>6, <3>1 DEF Judgements
      <4>2. QED
        BY <2>4, <2>7, <4>1 DEF Eligible
    <3>2. QED
      BY <3>1
  <2>9. w \in Seq(Source) /\ Selects(r, w)
    BY <2>6, ContentFacts
  <2> HIDE DEF w
  <2>10. (\A i \in DOMAIN w : w[i].independent => w[i].group # x.group)
           <=> (\A i \in DOMAIN r : r[i].independent => r[i].group # x.group)
    BY <2>8, <2>9 DEF Selects
  <2>11. Judged(w, x, policy) = z
    BY <2>10 DEF Judged
  <2>12. z \in Source /\ z.content = x.content
    <3>1. z \in Source
      BY <2>6, JudgedType
    <3>2. QED
      BY <3>1 DEF Judged, Source
  <2> HIDE DEF z
  <2>13. ApplySourcePolicy(t, policy) = Append(r, z)
    BY JudgeLast DEF t, r, z
  <2>14. WithContent(ApplySourcePolicy(t, policy)) = ContentStep(w, z)
    BY <2>6, <2>12, <2>13, ContentLast DEF w
  <2>15. WithContent(t) = ContentStep(WithContent(s), x) /\ WithContent(s) \in Seq(Source)
    BY ContentLast, ContentFacts DEF t
  <2>16. CASE x.content = NoContent
    BY <2>5, <2>12, <2>14, <2>15, <2>16 DEF ContentStep
  <2>17. CASE x.content # NoContent
    <3>1. WithContent(t) = Append(WithContent(s), x)
      BY <2>15, <2>17 DEF ContentStep
    <3>2. ApplySourcePolicy(Append(WithContent(s), x), policy)
            = Append(ApplySourcePolicy(WithContent(s), policy),
                     Judged(ApplySourcePolicy(WithContent(s), policy), x, policy))
      BY <2>15, JudgeLast
    <3>3. WithContent(ApplySourcePolicy(t, policy)) = Append(w, z)
      BY <2>12, <2>14, <2>17 DEF ContentStep
    <3>4. QED
      BY <2>5, <2>11, <3>1, <3>2, <3>3
  <2>18. QED
    BY <2>16, <2>17
<1> HIDE DEF Q
<1>3. Seq(Source) \subseteq Q
  BY <1>1, <1>2, AllSequences
<1>4. QED
  BY <1>3 DEF Q

LEMMA UnavailablePagesAreNeutral ==
    ASSUME job \in Jobs, Parties \subseteq Executions
    PROVE  UnavailableIsNeutral
<1> SUFFICES ASSUME NEW party \in Parties
             PROVE  DedupeAndGroup(WithContent(party.fetched), job.policy)
                      = WithContent(Evidence(party))
  BY DEF UnavailableIsNeutral
<1> DEFINE f == party.fetched
           c == ClusterSources(f)
<1>1. /\ f \in Seq(Item) /\ OnePageEach(f)
      /\ Evidence(party) = ApplySourcePolicy(c, job.policy)
  BY PartyFacts DEF OnePageEach, DedupeAndGroup
<1>2. c \in Seq(Source) /\ Sources(f, c)
  BY <1>1, ClusterFacts
<1>3. \A i \in DOMAIN c : c[i].status = "USABLE" => c[i].content # NoContent
  BY <1>2 DEF Sources
<1>4. ClusterSources(WithContent(f)) = WithContent(c)
  BY <1>1, ClusterNeutral
<1> HIDE DEF f, c
<1>5. ApplySourcePolicy(WithContent(c), job.policy) = WithContent(ApplySourcePolicy(c, job.policy))
  BY <1>2, <1>3, JudgeNeutral
<1>6. QED
  BY <1>1, <1>4, <1>5 DEF DedupeAndGroup, f

-----------------------------------------------------------------------------
(* What they promise of the evidence, in every state. *)

\* The executions of a reachable state are of its job.
LEMMA PartiesOfAJob == ResolverInv => job \in Jobs /\ Parties \subseteq Executions
BY PartiesAreExecutions DEF ResolverInv

\* Every page fetched is a listed one, once, and one is left out only for a
\* budget that is used up (merge_resolution_urls).
THEOREM UrlsAreWithinBudget == Spec => []UrlsFillTheBudget
<1>1. ResolverInv => UrlsFillTheBudget
  BY UrlsFacts DEF ResolverInv
<1> QED
  BY <1>1, ResolverInvariance, PTL

\* No mirror, reprint or quotation counts as a second independent source, however
\* many pages there are and in whatever order (_cluster_sources).
THEOREM IndependenceIsReal == Spec => []IndependentSourcesAreSeparate
<1>1. ResolverInv => IndependentSourcesAreSeparate
  BY PartiesOfAJob, SourcesAreSeparate
<1> QED
  BY <1>1, ResolverInvariance, PTL

\* The subject is one primary source for each of its admitted domains, whatever
\* its pages: a policy reported as satisfied asks for no more primary sources
\* than that (_cluster_sources, _policy_eval).
THEOREM SubjectsCountOncePerDomain == Spec => []SubjectCountsOncePerDomain
<1>1. ResolverInv => SubjectCountsOncePerDomain
  BY PartiesOfAJob, CountedPerDomain
<1> QED
  BY <1>1, ResolverInvariance, PTL

\* A policy reported as satisfied is satisfied by pages that were fetched, that it
\* admits and that are of as many domains as it asks for (_policy_eval).
THEOREM ReportedPoliciesAreMet == Spec => []PolicyIsMet
<1>1. ResolverInv => PolicyIsMet
  BY PartiesOfAJob, PoliciesAreMet
<1> QED
  BY <1>1, ResolverInvariance, PTL

\* Leaving out the pages that could not be fetched changes the judgement of no
\* other page (_cluster_sources).
THEOREM FailedPagesChangeNothing == Spec => []UnavailableIsNeutral
<1>1. ResolverInv => UnavailableIsNeutral
  BY PartiesOfAJob, UnavailablePagesAreNeutral
<1> QED
  BY <1>1, ResolverInvariance, PTL
=============================================================================
