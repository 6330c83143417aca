--------------------------- MODULE PromotionProofs ---------------------------
(***************************************************************************)
(* Proofs about Promotion for every set of thresholds: typing, the gate    *)
(* against the KPIs, the evidence behind a ready route, what can take a    *)
(* status or a phase back, and the score that ranks the routes.            *)
(***************************************************************************)
EXTENDS Promotion, FiniteSetTheorems, TLAPS

-----------------------------------------------------------------------------
(***************************************************************************)
(* Typing.                                                                 *)
(***************************************************************************)
LEMMA LevelsTyped ==
  /\ \A w, h : NormalizeFee(w, h) \in FeeLevels
  /\ \A w, h : NormalizeBalance(w, h) \in BalanceLevels
  /\ \A w : NormalizeQuoteMatch(w) \in QuoteLevels
  /\ \A w : NormalizeSupport(w) \in Supports
<1>1. ASSUME NEW w, NEW h PROVE NormalizeFee(w, h) \in FeeLevels
  BY DEF NormalizeFee, FlaggedFee, FeeLevels, FeeRank
<1>2. ASSUME NEW w, NEW h PROVE NormalizeBalance(w, h) \in BalanceLevels
  BY DEF NormalizeBalance, BalanceLevels, BalanceRank
<1>3. ASSUME NEW w PROVE NormalizeQuoteMatch(w) \in QuoteLevels
  BY DEF NormalizeQuoteMatch, QuoteLevels, QuoteRank
<1>4. ASSUME NEW w PROVE NormalizeSupport(w) \in Supports
  BY DEF NormalizeSupport, Supports, SupportRank
<1> QED BY <1>1, <1>2, <1>3, <1>4

LEMMA TotalTyped ==
  ASSUME NEW c \in [Reasons -> Nat]
  PROVE  Total(c) \in Nat
BY DEF Total, Reasons

LEMMA UnseenTyped == Unseen \in HealthType
BY DEF Unseen, HealthType, Supports, SupportRank, FeeLevels, FeeRank,
       QuoteLevels, QuoteRank, BalanceLevels, BalanceRank

LEMMA InitTyped == Init => TypeOK
<1> SUFFICES ASSUME Init PROVE TypeOK
  OBVIOUS
<1>1. /\ kind \in Kinds /\ opps \in [Reasons -> Nat] /\ runs \in [RunModes -> Nat]
      /\ misnoted \in [RunModes -> RunModes] /\ \A m \in RunModes : misnoted[m] = m
      /\ recent \in [total : Nat, unavailable : Nat]
      /\ fatalPaused \in BOOLEAN /\ cooling \in BOOLEAN
  BY DEF Init
<1>2. health \in HealthType BY UnseenTyped DEF Init
<1> QED BY <1>1, <1>2 DEF Init, TypeOK

LEMMA StepTyped == TypeOK /\ [Next]_vars => TypeOK'
<1> SUFFICES ASSUME TypeOK, [Next]_vars PROVE TypeOK'
  OBVIOUS
<1> USE PromotionAssumption DEF replays
<1>1. ASSUME NEW source \in {"real", "mock"}, RecordSnapshots(source) PROVE TypeOK'
  BY <1>1 DEF TypeOK, RecordSnapshots, scanned, runtime
<1>2. ASSUME NEW s \in Stretches, RecordOpportunities(s) PROVE TypeOK'
  <2>1. s \in [Reasons -> Nat] OBVIOUS
  <2>2. Total(s) \in Nat BY <2>1, TotalTyped
  <2>3. s["quote_unavailable"] \in Nat BY <2>1 DEF Reasons
  <2>4. opps' \in [Reasons -> Nat] BY <1>2, <2>1 DEF RecordOpportunities, TypeOK
  <2>5. recent' \in [total : Nat, unavailable : Nat]
    BY <1>2, <2>2, <2>3 DEF RecordOpportunities, TypeOK
  <2>6. fatalPaused' \in BOOLEAN BY <1>2 DEF RecordOpportunities
  <2>7. stretches' \in Nat BY <1>2 DEF RecordOpportunities, TypeOK
  <2> QED BY <1>2, <2>4, <2>5, <2>6, <2>7 DEF RecordOpportunities, TypeOK, observed
<1>3. ASSUME NEW h \in Healths, RecordHealth(h) PROVE TypeOK'
  <2>1. h.cooling \in BOOLEAN OBVIOUS
  <2>2. health' \in HealthType BY <1>3, <2>1, LevelsTyped DEF RecordHealth, HealthType
  <2> QED BY <1>3, <2>2 DEF RecordHealth, TypeOK, observed, scanned, runtime
<1>4. ASSUME NEW n \in RunModes, NEW m \in RunModes, CreateRun(n, m) PROVE TypeOK'
  <2>1. runs' \in [RunModes -> Nat] BY <1>4 DEF CreateRun, TypeOK
  <2>2. misnoted' \in [RunModes -> RunModes] BY <1>4 DEF CreateRun, TypeOK
  <2>3. \A k \in RunModes : misnoted'[k] # k => runs'[k] > 0
    BY <1>4, <2>2 DEF CreateRun, TypeOK
  <2> QED BY <1>4, <2>1, <2>2, <2>3 DEF CreateRun, TypeOK, observed, scanned, runtime
<1>10. ASSUME NEW n \in RunModes, StoreResult(n) PROVE TypeOK'
  <2>1. misnoted[n] \in RunModes /\ misnoted[n] # n /\ runs[n] \in Nat \ {0}
    BY <1>10 DEF StoreResult, TypeOK
  <2>2. runs' \in [RunModes -> Nat] BY <1>10, <2>1 DEF StoreResult, TypeOK
  <2>3. misnoted' \in [RunModes -> RunModes] BY <1>10 DEF StoreResult, TypeOK
  <2>4. ASSUME NEW k \in RunModes, misnoted'[k] # k PROVE runs'[k] > 0
    <3>1. k # n /\ misnoted[k] # k BY <1>10, <2>3, <2>4 DEF StoreResult, TypeOK
    <3>2. runs[k] > 0 /\ runs[k] \in Nat BY <3>1 DEF TypeOK
    <3>3. runs'[k] \in {runs[k], runs[k] + 1} BY <1>10, <2>1, <3>1 DEF StoreResult, TypeOK
    <3> QED BY <3>2, <3>3
  <2> QED BY <1>10, <2>2, <2>3, <2>4 DEF StoreResult, TypeOK, observed, scanned, runtime
<1>5. ASSUME NEW fatal \in BOOLEAN, NEW cooled \in BOOLEAN, FailedAttempt(fatal, cooled)
      PROVE TypeOK'
  <2>1. fatals' \in Nat /\ cools' \in Nat BY <1>5 DEF FailedAttempt, TypeOK
  <2>2. fatalPaused' \in BOOLEAN BY <1>5 DEF FailedAttempt
  <2>3. cooling' \in BOOLEAN BY <1>5 DEF FailedAttempt
  <2> QED BY <1>5, <2>1, <2>2, <2>3 DEF FailedAttempt, TypeOK, observed, scanned
<1>6. ASSUME Release PROVE TypeOK'
  BY <1>6 DEF Release, TypeOK, observed, scanned
<1>7. ASSUME CooldownEnds PROVE TypeOK'
  BY <1>7 DEF CooldownEnds, TypeOK, observed, scanned
<1>8. ASSUME DayPasses PROVE TypeOK'
  <2>1. recent' \in [total : Nat, unavailable : Nat] BY <1>8 DEF DayPasses
  <2> QED BY <1>8, <2>1 DEF DayPasses, TypeOK, observed, runtime
<1>9. ASSUME UNCHANGED vars PROVE TypeOK'
  BY <1>9 DEF vars, TypeOK, observed, scanned, runtime
<1> QED BY <1>1, <1>2, <1>3, <1>4, <1>5, <1>6, <1>7, <1>8, <1>9, <1>10 DEF Next

\* Every count, day and status of a route's evidence has its type, whatever
\* is written and in whatever order.
THEOREM TypeCorrect == Spec => []TypeOK
<1> QED BY InitTyped, StepTyped, PTL DEF Spec

-----------------------------------------------------------------------------
(***************************************************************************)
(* The KPIs, one by one.                                                   *)
(***************************************************************************)
LEMMA Verdicts ==
  /\ Verdict("observation_window_days") = Minimum(Window, Need.days)
  /\ Verdict("market_snapshot_count") = Minimum(real, Need.snapshots)
  /\ Verdict("opportunity_count") = Minimum(Opportunities, Need.opportunities)
  /\ Verdict("backtest_run_count_market_snapshots")
       = Minimum(runs["market_snapshots"], Need.market)
  /\ Verdict("backtest_run_count_opportunities")
       = Minimum(runs["opportunities"], Need.replayed)
  /\ Verdict("backtest_run_count_total") = Minimum(RunTotal, Need.total)
  /\ Verdict("quote_unavailable_rate")
       = Rate("quote_unavailable", Need.unavailable, WarnUnavailable)
  /\ Verdict("support_status") = Must(health.support = "supported")
  /\ Verdict("fatal_pause_unresolved") = Must(~fatalPaused)
BY DEF Verdict

LEMMA GradeVerdict == Grade = "red" => Verdict("readiness_grade") = "fail"
<1> HIDE DEF Grade
<1> QED BY DEF Verdict

\* What no failing KPI says of the route, but for its quote rate.
LEMMA NoFailure ==
  ASSUME ~CriticalFail
  PROVE  /\ Window >= Need.days /\ real >= Need.snapshots
         /\ Opportunities >= Need.opportunities
         /\ runs["market_snapshots"] >= Need.market
         /\ runs["opportunities"] >= Need.replayed
         /\ RunTotal >= Need.total
         /\ health.support = "supported" /\ Grade # "red" /\ ~fatalPaused
<1>1. \A k \in KpiNames : Verdict(k) # "fail" BY DEF CriticalFail
<1>2. Minimum(Window, Need.days) # "fail" BY <1>1, Verdicts DEF KpiNames
<1>3. Minimum(real, Need.snapshots) # "fail" BY <1>1, Verdicts DEF KpiNames
<1>4. Minimum(Opportunities, Need.opportunities) # "fail"
  BY <1>1, Verdicts DEF KpiNames
<1>5. Minimum(runs["market_snapshots"], Need.market) # "fail"
  BY <1>1, Verdicts DEF KpiNames
<1>6. Minimum(runs["opportunities"], Need.replayed) # "fail"
  BY <1>1, Verdicts DEF KpiNames
<1>7. Minimum(RunTotal, Need.total) # "fail" BY <1>1, Verdicts DEF KpiNames
<1>8. Must(health.support = "supported") # "fail" BY <1>1, Verdicts DEF KpiNames
<1>9. Must(~fatalPaused) # "fail" BY <1>1, Verdicts DEF KpiNames
<1>10. Grade # "red" BY <1>1, GradeVerdict DEF KpiNames
<1>11. /\ Window >= Need.days /\ real >= Need.snapshots
       /\ Opportunities >= Need.opportunities
  BY <1>2, <1>3, <1>4 DEF Minimum
<1>12. /\ runs["market_snapshots"] >= Need.market
       /\ runs["opportunities"] >= Need.replayed
       /\ RunTotal >= Need.total
  BY <1>5, <1>6, <1>7 DEF Minimum
<1>13. health.support = "supported" BY <1>8 DEF Must
<1>14. ~fatalPaused BY <1>9 DEF Must
<1> QED BY <1>10, <1>11, <1>12, <1>13, <1>14

LEMMA QuoteVerdict ==
  /\ Within("quote_unavailable", Need.unavailable)
       <=> Verdict("quote_unavailable_rate") = "pass"
  /\ Verdict("quote_unavailable_rate") \in {"pass", "warn", "fail"}
BY Verdicts DEF Rate

\* With no KPI failing, the gate hangs on the quote rate alone.
LEMMA GateOnQuotes ==
  ASSUME ~CriticalFail
  PROVE  MinimumGatePassed <=> Verdict("quote_unavailable_rate") = "pass"
BY NoFailure, QuoteVerdict DEF MinimumGatePassed

LEMMA GateMatches == TypeOK => GateMatchesKpis
<1> SUFFICES ASSUME TypeOK, kind # "other"
             PROVE  PromotionStatus = "not_ready"
                      <=> ~CriticalFail /\ Verdict("quote_unavailable_rate") = "warn"
  BY DEF GateMatchesKpis
<1>1. CASE CriticalFail BY <1>1 DEF PromotionStatus
<1>2. CASE ~CriticalFail
  <2>1. Verdict("quote_unavailable_rate") # "fail" BY <1>2 DEF CriticalFail, KpiNames
  <2>2. MinimumGatePassed <=> Verdict("quote_unavailable_rate") = "pass"
    BY <1>2, GateOnQuotes
  <2>3. PromotionStatus = "not_ready" <=> ~MinimumGatePassed
    BY <1>2 DEF PromotionStatus
  <2> QED BY <1>2, <2>1, <2>2, <2>3, QuoteVerdict
<1> QED BY <1>1, <1>2

\* A route is "not ready" exactly when no KPI fails and its quote rate is in the
\* warn band, for every set of thresholds (_evaluate_kpis, _minimum_gate_passed).
THEOREM GateAndKpisAgree == Spec => []GateMatchesKpis
<1> QED BY TypeCorrect, GateMatches, PTL

-----------------------------------------------------------------------------
(***************************************************************************)
(* What is behind a ready route.                                           *)
(***************************************************************************)
LEMMA BlockersDefined ==
  /\ Blocks("fee_unverified") <=> ~FeeAtLeast(health.fee, ReadinessMin.fee)
  /\ Blocks("balance_mismatch") <=> health.balance = "mismatch"
  /\ Blocks("balance_unverified")
       <=> /\ health.balance # "mismatch"
           /\ ~BalanceAtLeast(health.balance, ReadinessMin.balance)
  /\ Blocks("quote_match_unverified")
       <=> ~QuoteMatchAtLeast(health.quote, ReadinessMin.quote)
BY DEF Blocks

LEMMA ReadyMeans ==
  ASSUME Ready
  PROVE  ~CriticalFail /\ MinimumGatePassed /\ kind # "other"
BY DEF Ready, PromotionStatus

LEMMA ReadyEvidence ==
  ASSUME Ready
  PROVE  /\ health.support = "supported" /\ ~fatalPaused
         /\ FeeAtLeast(health.fee, ReadinessMin.fee)
         /\ QuoteMatchAtLeast(health.quote, ReadinessMin.quote)
         /\ health.balance # "mismatch"
         /\ BalanceAtLeast(health.balance, ReadinessMin.balance)
<1>1. /\ health.support = "supported" /\ ~fatalPaused /\ Grade # "red"
  BY ReadyMeans DEF MinimumGatePassed
<1>2. \A b \in CriticalBlockers : ~Blocks(b) BY <1>1 DEF Grade
<1>3. /\ ~Blocks("fee_unverified") /\ ~Blocks("balance_mismatch")
      /\ ~Blocks("balance_unverified") /\ ~Blocks("quote_match_unverified")
  BY <1>2 DEF CriticalBlockers
<1> QED BY <1>1, <1>3, BlockersDefined

LEMMA RanksTyped ==
  /\ \A l \in FeeLevels : FeeRank[l] \in Int
  /\ \A l \in BalanceLevels : BalanceRank[l] \in Int
  /\ \A l \in QuoteLevels : QuoteRank[l] \in Int
<1>1. \A l \in FeeLevels : FeeRank[l] \in Int BY DEF FeeLevels, FeeRank
<1>2. \A l \in BalanceLevels : BalanceRank[l] \in Int BY DEF BalanceLevels, BalanceRank
<1>3. \A l \in QuoteLevels : QuoteRank[l] \in Int BY DEF QuoteLevels, QuoteRank
<1> QED BY <1>1, <1>2, <1>3

\* At least as good as what is itself at least something.
LEMMA FeeTransitive ==
  ASSUME NEW fee, NEW m, NEW floor, FeeAtLeast(fee, m), FeeAtLeast(m, floor)
  PROVE  FeeAtLeast(fee, floor)
<1> DEFINE R(w) == FeeRank[NormalizeFee(w, "")]
<1>1. \A w : R(w) \in Int BY LevelsTyped, RanksTyped
<1>2. R(fee) >= R(m) /\ R(m) >= R(floor) BY DEF FeeAtLeast
<1> HIDE DEF R
<1>3. R(fee) >= R(floor) BY <1>1, <1>2
<1> QED BY <1>3 DEF R, FeeAtLeast

LEMMA BalanceTransitive ==
  ASSUME NEW balance, NEW m, NEW floor,
         BalanceAtLeast(balance, m), BalanceAtLeast(m, floor)
  PROVE  BalanceAtLeast(balance, floor)
<1> DEFINE R(w) == BalanceRank[NormalizeBalance(w, "")]
<1>1. \A w : R(w) \in Int BY LevelsTyped, RanksTyped
<1>2. R(balance) >= R(m) /\ R(m) >= R(floor) BY DEF BalanceAtLeast
<1> HIDE DEF R
<1>3. R(balance) >= R(floor) BY <1>1, <1>2
<1> QED BY <1>3 DEF R, BalanceAtLeast

LEMMA QuoteTransitive ==
  ASSUME NEW quote, NEW m, NEW floor,
         QuoteMatchAtLeast(quote, m), QuoteMatchAtLeast(m, floor)
  PROVE  QuoteMatchAtLeast(quote, floor)
<1> DEFINE R(w) == QuoteRank[NormalizeQuoteMatch(w)]
<1>1. \A w : R(w) \in Int BY LevelsTyped, RanksTyped
<1>2. R(quote) >= R(m) /\ R(m) >= R(floor) BY DEF QuoteMatchAtLeast
<1> HIDE DEF R
<1>3. R(quote) >= R(floor) BY <1>1, <1>2
<1> QED BY <1>3 DEF R, QuoteMatchAtLeast

\* The least levels of paper trading are above those that say nothing good.
LEMMA PaperFloor ==
  ASSUME NEW fee, NEW quote, NEW balance,
         FeeAtLeast(fee, "fallback_only"), QuoteMatchAtLeast(quote, "matched"),
         BalanceAtLeast(balance, "internal_ok")
  PROVE  PaperAdmits(fee, quote, balance)
<1>1. fee # "unknown"
  <2>1. FeeRank[NormalizeFee(fee, "")] >= FeeRank[NormalizeFee("fallback_only", "")]
    BY DEF FeeAtLeast
  <2>2. NormalizeFee("fallback_only", "") = "fallback_only" BY DEF NormalizeFee, FeeLevels, FeeRank
  <2>3. NormalizeFee("unknown", "") = "unknown" BY DEF NormalizeFee, FeeLevels, FeeRank
  <2>4. FeeRank["fallback_only"] = 1 /\ FeeRank["unknown"] = 0 BY DEF FeeRank
  <2>5. fee = "unknown" => FeeRank["unknown"] >= FeeRank["fallback_only"]
    BY <2>1, <2>2, <2>3, Zenon
  <2> QED BY <2>4, <2>5
<1>2. quote # "unknown"
  <2>1. QuoteRank[NormalizeQuoteMatch(quote)] >= QuoteRank[NormalizeQuoteMatch("matched")]
    BY DEF QuoteMatchAtLeast
  <2>2. NormalizeQuoteMatch("matched") = "matched"
    BY DEF NormalizeQuoteMatch, QuoteLevels, QuoteRank, Yes, No
  <2>3. NormalizeQuoteMatch("unknown") = "unknown"
    BY DEF NormalizeQuoteMatch, QuoteLevels, QuoteRank, Yes, No
  <2>4. QuoteRank["matched"] = 2 /\ QuoteRank["unknown"] = 0 BY DEF QuoteRank
  <2> QED BY <2>1, <2>2, <2>3, <2>4
<1>3. balance \notin {"unknown", "mismatch"}
  <2>1. BalanceRank[NormalizeBalance(balance, "")]
          >= BalanceRank[NormalizeBalance("internal_ok", "")]
    BY DEF BalanceAtLeast
  <2>2. /\ NormalizeBalance("internal_ok", "") = "internal_ok"
        /\ NormalizeBalance("unknown", "") = "unknown"
        /\ NormalizeBalance("mismatch", "") = "mismatch"
    BY DEF NormalizeBalance, BalanceLevels, BalanceRank
  <2>3. /\ BalanceRank["internal_ok"] = 2 /\ BalanceRank["unknown"] = 0
        /\ BalanceRank["mismatch"] = 1
    BY DEF BalanceRank
  <2>4. balance = "unknown" => BalanceRank["unknown"] >= BalanceRank["internal_ok"]
    BY <2>1, <2>2, Zenon
  <2>5. balance = "mismatch" => BalanceRank["mismatch"] >= BalanceRank["internal_ok"]
    BY <2>1, <2>2, Zenon
  <2> QED BY <2>3, <2>4, <2>5
<1> QED BY <1>1, <1>2, <1>3 DEF PaperAdmits, EvidenceAdmitted

\* What readiness asks of a live route is more than paper trading does.
LEMMA LiveMinimum ==
  /\ FeeAtLeast("venue_declared", "fallback_only")
  /\ QuoteMatchAtLeast("matched", "matched")
  /\ BalanceAtLeast("wallet_verified", "internal_ok")
<1>1. FeeAtLeast("venue_declared", "fallback_only")
  <2>1. /\ NormalizeFee("venue_declared", "") = "venue_declared"
        /\ NormalizeFee("fallback_only", "") = "fallback_only"
    BY DEF NormalizeFee, FeeLevels, FeeRank
  <2>2. FeeRank["venue_declared"] = 3 /\ FeeRank["fallback_only"] = 1 BY DEF FeeRank
  <2>3. FeeRank["venue_declared"] >= FeeRank["fallback_only"] BY <2>2
  <2> QED BY <2>1, <2>3, Zenon DEF FeeAtLeast
<1>2. QuoteMatchAtLeast("matched", "matched")
  <2>1. NormalizeQuoteMatch("matched") \in QuoteLevels BY LevelsTyped
  <2> QED BY <2>1, RanksTyped DEF QuoteMatchAtLeast
<1>3. BalanceAtLeast("wallet_verified", "internal_ok")
  <2>1. /\ NormalizeBalance("wallet_verified", "") = "wallet_verified"
        /\ NormalizeBalance("internal_ok", "") = "internal_ok"
    BY DEF NormalizeBalance, BalanceLevels, BalanceRank
  <2>2. BalanceRank["wallet_verified"] = 4 /\ BalanceRank["internal_ok"] = 2
    BY DEF BalanceRank
  <2>3. BalanceRank["wallet_verified"] >= BalanceRank["internal_ok"] BY <2>2
  <2> QED BY <2>1, <2>3, Zenon DEF BalanceAtLeast
<1> QED BY <1>1, <1>2, <1>3

LEMMA ReviewedAdmitted ==
  ASSUME PaperAdmits(ShadowMin.fee, ShadowMin.quote, ShadowMin.balance)
  PROVE  ReviewedRoutesAdmitted
<1> SUFFICES ASSUME Ready
             PROVE  PaperAdmits(health.fee, health.quote, health.balance)
  BY ReadyEvidence DEF ReviewedRoutesAdmitted
<1>1. /\ FeeAtLeast(ReadinessMin.fee, "fallback_only")
      /\ QuoteMatchAtLeast(ReadinessMin.quote, "matched")
      /\ BalanceAtLeast(ReadinessMin.balance, "internal_ok")
  <2>1. CASE kind = "shadow"
    BY <2>1 DEF ReadinessMin, PaperAdmits, EvidenceAdmitted
  <2>2. CASE kind # "shadow" BY <2>2, LiveMinimum DEF ReadinessMin
  <2> QED BY <2>1, <2>2
<1>2. FeeAtLeast(health.fee, "fallback_only") BY <1>1, ReadyEvidence, FeeTransitive
<1>3. QuoteMatchAtLeast(health.quote, "matched") BY <1>1, ReadyEvidence, QuoteTransitive
<1>4. BalanceAtLeast(health.balance, "internal_ok")
  BY <1>1, ReadyEvidence, BalanceTransitive
<1> QED BY <1>2, <1>3, <1>4, PaperFloor

\* A ready route has evidence that paper trading admits, and no unresolved fatal
\* pause, for every readiness minimum of shadow routes that is itself admitted.
THEOREM ReadyIsAdmitted ==
  ASSUME PaperAdmits(ShadowMin.fee, ShadowMin.quote, ShadowMin.balance)
  PROVE  Spec => []ReviewedRoutesAdmitted
<1>1. ReviewedRoutesAdmitted BY ReviewedAdmitted
<1> QED BY <1>1, PTL

-----------------------------------------------------------------------------
(***************************************************************************)
(* What a step may take back.                                              *)
(***************************************************************************)
\* A rate that is not over both of its limits.
Tolerated(reason) ==
  Within(reason, Limits[reason].warn) \/ Within(reason, Limits[reason].fail)

\* A ready route, spelled out.
Standing ==
  /\ kind # "other"
  /\ Window >= Need.days /\ real >= Need.snapshots
  /\ Opportunities >= Need.opportunities
  /\ runs["market_snapshots"] >= Need.market /\ runs["opportunities"] >= Need.replayed
  /\ RunTotal >= Need.total
  /\ Within("quote_unavailable", Need.unavailable)
  /\ Tolerated("health_unknown") /\ Tolerated("fee_unverified")
  /\ Tolerated("balance_unverified") /\ Tolerated("quote_mismatch")
  /\ health.support = "supported" /\ ~fatalPaused
  /\ \A b \in CriticalBlockers : ~Blocks(b)

ReadySpelled == Ready <=> Standing

LEMMA LimitedVerdicts ==
  \A r \in {"health_unknown", "fee_unverified", "balance_unverified", "quote_mismatch"} :
    LimitedRate(r) # "fail" <=> Tolerated(r)
BY DEF LimitedRate, Rate, Tolerated

LEMMA MoreVerdicts ==
  /\ Verdict("health_unknown_rate") = LimitedRate("health_unknown")
  /\ Verdict("fee_unverified_rate") = LimitedRate("fee_unverified")
  /\ Verdict("balance_unverified_rate") = LimitedRate("balance_unverified")
  /\ Verdict("quote_mismatch_rate") = LimitedRate("quote_mismatch")
  /\ Verdict("fatal_pause_count") = Advisory(fatals)
  /\ Verdict("cooldown_event_count") = Advisory(cools)
BY DEF Verdict

LEMMA GradeNotRed == Grade # "red" <=> \A b \in CriticalBlockers : ~Blocks(b)
<1> HIDE DEF Blocks, CriticalBlockers, BlockerNames
<1> QED BY DEF Grade

LEMMA GradeVerdictNotFail == Grade # "red" => Verdict("readiness_grade") # "fail"
<1>1. Grade \in {"green", "yellow", "red"} BY DEF Grade
<1> HIDE DEF Grade
<1> QED BY <1>1 DEF Verdict

LEMMA StandingFails == Standing => ~CriticalFail
<1> SUFFICES ASSUME Standing, NEW k \in KpiNames PROVE Verdict(k) # "fail"
  BY DEF CriticalFail
<1>1. CASE k \in {"observation_window_days", "market_snapshot_count",
                  "opportunity_count", "backtest_run_count_market_snapshots",
                  "backtest_run_count_opportunities", "backtest_run_count_total"}
  BY <1>1, Verdicts DEF Standing, Minimum
<1>2. CASE k = "quote_unavailable_rate" BY <1>2, Verdicts DEF Standing, Rate
<1>3. CASE k \in {"health_unknown_rate", "fee_unverified_rate",
                  "balance_unverified_rate", "quote_mismatch_rate"}
  BY <1>3, MoreVerdicts, LimitedVerdicts DEF Standing
<1>4. CASE k \in {"support_status", "fatal_pause_unresolved"}
  BY <1>4, Verdicts DEF Standing, Must
<1>5. CASE k = "readiness_grade"
  BY <1>5, GradeNotRed, GradeVerdictNotFail DEF Standing
<1>6. CASE k \in {"fatal_pause_count", "cooldown_event_count"}
  BY <1>6, MoreVerdicts DEF Advisory
<1> QED BY <1>1, <1>2, <1>3, <1>4, <1>5, <1>6 DEF KpiNames

LEMMA ReadyIsStanding == ReadySpelled
<1>1. ASSUME Standing PROVE Ready
  <2>1. ~CriticalFail BY <1>1, StandingFails
  <2>2. MinimumGatePassed BY <1>1, GradeNotRed DEF Standing, MinimumGatePassed
  <2> QED BY <1>1, <2>1, <2>2 DEF Standing, Ready, PromotionStatus
<1>2. ASSUME Ready PROVE Standing
  <2>1. ~CriticalFail /\ MinimumGatePassed /\ kind # "other" BY <1>2, ReadyMeans
  <2>2. \A k \in KpiNames : Verdict(k) # "fail" BY <2>1 DEF CriticalFail
  <2>3. /\ Tolerated("health_unknown") /\ Tolerated("fee_unverified")
        /\ Tolerated("balance_unverified") /\ Tolerated("quote_mismatch")
    BY <2>2, MoreVerdicts, LimitedVerdicts DEF KpiNames
  <2> QED BY <2>1, <2>3, GradeNotRed DEF MinimumGatePassed, Standing
<1> QED BY <1>1, <1>2 DEF ReadySpelled

\* What is counted only grows, but a run may be counted under another mode, and the
\* strategy of a route does not change.
Grows ==
  /\ kind' = kind /\ real' >= real /\ Window' >= Window
  /\ Opportunities' >= Opportunities /\ RunTotal' >= RunTotal

LEMMA Unmoved ==
  ASSUME TypeOK, UNCHANGED <<kind, first, last, real, opps, runs>>
  PROVE  Grows
<1>1. Window \in Int BY DEF TypeOK, Window
<1>2. Opportunities \in Int BY TotalTyped DEF TypeOK, Opportunities
<1>3. Window' = Window BY DEF Window
<1>4. Opportunities' = Opportunities BY DEF Opportunities, Total
<1>5. RunTotal' = RunTotal /\ RunTotal \in Int BY DEF TypeOK, RunTotal, RunModes
<1> QED BY <1>1, <1>2, <1>3, <1>4, <1>5 DEF Grows, TypeOK

LEMMA StepGrows == TypeOK /\ [Next]_vars => Grows
<1> SUFFICES ASSUME TypeOK, [Next]_vars PROVE Grows
  OBVIOUS
<1> USE PromotionAssumption DEF replays
<1>0. RunTotal \in Int BY DEF TypeOK, RunTotal, RunModes
<1>1. ASSUME NEW source \in {"real", "mock"}, RecordSnapshots(source) PROVE Grows
  <2>1. CASE source = "mock"
    BY <1>1, <2>1, Unmoved DEF RecordSnapshots, scanned
  <2>2. CASE source = "real"
    <3>1. real' = real + Snapshots /\ last' = today
          /\ first' = IF real = 0 THEN today ELSE first
      BY <1>1, <2>2 DEF RecordSnapshots
    <3>2. real' >= real /\ Window' >= Window BY <3>1 DEF TypeOK, Window
    <3>3. UNCHANGED <<kind, opps, runs>> BY <1>1 DEF RecordSnapshots, scanned
    <3>4. Opportunities' = Opportunities BY <3>3 DEF Opportunities, Total
    <3>5. Opportunities \in Int BY TotalTyped DEF TypeOK, Opportunities
    <3>6. RunTotal' = RunTotal BY <3>3 DEF RunTotal
    <3> QED BY <1>0, <3>2, <3>3, <3>4, <3>5, <3>6 DEF Grows, TypeOK
  <2> QED BY <2>1, <2>2
<1>2. ASSUME NEW s \in Stretches, RecordOpportunities(s) PROVE Grows
  <2>1. \A r \in Reasons : opps'[r] = opps[r] + s[r]
    BY <1>2 DEF RecordOpportunities
  <2>2. \A r \in Reasons : opps[r] \in Nat /\ s[r] \in Nat BY DEF TypeOK
  <2>3. Opportunities' >= Opportunities
    BY <2>1, <2>2 DEF Opportunities, Total, Reasons
  <2>4. UNCHANGED <<kind, first, last, real, runs>>
    BY <1>2 DEF RecordOpportunities, observed
  <2>5. Window' = Window BY <2>4 DEF Window
  <2>6. Window \in Int BY DEF TypeOK, Window
  <2>7. RunTotal' = RunTotal BY <2>4 DEF RunTotal
  <2> QED BY <1>0, <2>3, <2>4, <2>5, <2>6, <2>7 DEF Grows, TypeOK
<1>3. ASSUME NEW h \in Healths, RecordHealth(h) PROVE Grows
  BY <1>3, Unmoved DEF RecordHealth, observed, scanned
<1>4. ASSUME NEW n \in RunModes, NEW m \in RunModes, CreateRun(n, m) \/ StoreResult(n)
      PROVE  Grows
  <2>1. ASSUME CreateRun(n, m) PROVE RunTotal' >= RunTotal
    <3>1. runs' = [runs EXCEPT ![n] = @ + 1] BY <2>1 DEF CreateRun
    <3> QED BY <3>1 DEF TypeOK, RunTotal, RunModes
  <2>2. ASSUME StoreResult(n) PROVE RunTotal' >= RunTotal
    <3>1. PICK k \in RunModes \ {n} : runs' = [runs EXCEPT ![n] = @ - 1, ![k] = @ + 1]
      BY <2>2 DEF StoreResult, TypeOK
    <3> QED BY <3>1 DEF TypeOK, RunTotal, RunModes
  <2>3. RunTotal' >= RunTotal BY <1>4, <2>1, <2>2
  <2>4. UNCHANGED <<kind, first, last, real, opps>>
    BY <1>4 DEF CreateRun, StoreResult, observed, scanned
  <2>5. Window' = Window /\ Opportunities' = Opportunities
    BY <2>4 DEF Window, Opportunities, Total
  <2>6. Window \in Int BY DEF TypeOK, Window
  <2>7. Opportunities \in Int BY TotalTyped DEF TypeOK, Opportunities
  <2> QED BY <2>3, <2>4, <2>5, <2>6, <2>7 DEF Grows, TypeOK
<1>5. ASSUME NEW fatal \in BOOLEAN, NEW cooled \in BOOLEAN, FailedAttempt(fatal, cooled)
      PROVE Grows
  BY <1>5, Unmoved DEF FailedAttempt, observed, scanned
<1>6. ASSUME Release PROVE Grows BY <1>6, Unmoved DEF Release, observed, scanned
<1>7. ASSUME CooldownEnds PROVE Grows
  BY <1>7, Unmoved DEF CooldownEnds, observed, scanned
<1>8. ASSUME DayPasses PROVE Grows BY <1>8, Unmoved DEF DayPasses, observed
<1>9. ASSUME UNCHANGED vars PROVE Grows
  BY <1>9, Unmoved DEF vars, observed, scanned
<1> QED BY <1>1, <1>2, <1>3, <1>4, <1>5, <1>6, <1>7, <1>8, <1>9 DEF Next

\* More rows and no more of a reason: its rate does not rise.
LEMMA RateFalls ==
  ASSUME NEW count \in Nat, NEW max \in Nat, NEW n \in Nat, NEW m \in Nat,
         count * Scale <= max * n, n <= m
  PROVE  count * Scale <= max * m
<1>1. max * n <= max * m
  <2>1. PICK d \in Nat : m = n + d
    <3>1. m - n \in Nat /\ m = n + (m - n) OBVIOUS
    <3> QED BY <3>1
  <2>2. max * m = max * n + max * d BY <2>1
  <2>3. max * d \in Nat OBVIOUS
  <2>4. max * n \in Int OBVIOUS
  <2> QED BY <2>2, <2>3, <2>4
<1>2. count * Scale \in Int BY DEF Scale
<1>3. max * n \in Int /\ max * m \in Int OBVIOUS
<1>4. \A a, b, c \in Int : a <= b /\ b <= c => a <= c OBVIOUS
<1> QED BY <1>1, <1>2, <1>3, <1>4

\* A step that brings no worse evidence.
NoWorse ==
  /\ UNCHANGED <<kind, health, fatalPaused>>
  /\ \A r \in Counted : opps'[r] = opps[r]
  /\ \A m \in RunModes : runs'[m] >= runs[m]

LEMMA WithinKept ==
  ASSUME TypeOK, TypeOK', Grows, NoWorse,
         NEW r \in Counted, NEW max \in Nat, opps[r] * Scale <= max * Opportunities
  PROVE  opps'[r] * Scale <= max * Opportunities'
<1>1. opps'[r] = opps[r] BY DEF NoWorse
<1>2. opps[r] \in Nat BY DEF TypeOK, Counted
<1>3. Opportunities \in Nat BY TotalTyped DEF TypeOK, Opportunities
<1>4. opps' \in [Reasons -> Nat] BY DEF TypeOK
<1>5. Total(opps') \in Nat BY <1>4, TotalTyped
<1>6. Opportunities' \in Nat BY <1>5 DEF Opportunities
<1>7. Opportunities <= Opportunities' BY <1>3, <1>6 DEF Grows
<1>8. opps[r] * Scale <= max * Opportunities'
  BY <1>2, <1>3, <1>6, <1>7, RateFalls
<1> QED BY <1>1, <1>8

LEMMA BlocksKept ==
  ASSUME TypeOK, TypeOK', Grows, NoWorse, \A b \in CriticalBlockers : ~Blocks(b)
  PROVE  \A b \in CriticalBlockers : ~Blocks(b)'
<1>1. UNCHANGED <<kind, health, fatalPaused>> BY DEF NoWorse
<1>2. RunTotal' >= RunTotal BY DEF Grows
<1>3. RunTotal \in Int /\ RunTotal' \in Int BY DEF TypeOK, RunTotal, RunModes
<1>4. ASSUME NEW b \in CriticalBlockers PROVE ~Blocks(b)'
  <2>1. ~Blocks(b) OBVIOUS
  <2>2. CASE b = "backtest_missing"
    <3>1. Blocks(b) <=> RunTotal < 1 BY <2>2 DEF Blocks
    <3>2. Blocks(b)' <=> RunTotal' < 1 BY <2>2 DEF Blocks
    <3> QED BY <1>2, <1>3, <2>1, <3>1, <3>2
  <2>3. CASE b # "backtest_missing"
    BY <1>1, <2>1, <2>3 DEF CriticalBlockers, Blocks, ReadinessMin
  <2> QED BY <2>2, <2>3
<1> QED BY <1>4

LEMMA StandingKept ==
  ASSUME TypeOK, TypeOK', Grows, NoWorse, Standing
  PROVE  Standing'
<1> USE PromotionAssumption
<1>1. Need' = Need BY DEF Need, NoWorse
<1>2. Need \in NeedType BY DEF Need
<1>3. /\ Need.days \in Nat /\ Need.snapshots \in Nat /\ Need.opportunities \in Nat
      /\ Need.market \in Nat /\ Need.replayed \in Nat /\ Need.total \in Nat
      /\ Need.unavailable \in Nat
  BY <1>2 DEF NeedType
<1> HIDE DEF Need
<1>4. Window \in Int /\ Window' \in Int BY DEF TypeOK, Window
<1>5. Window' >= Need.days /\ real' >= Need.snapshots
  BY <1>3, <1>4 DEF Standing, Grows, TypeOK
<1>6. Opportunities' >= Need.opportunities
  <2>1. Opportunities \in Nat BY TotalTyped DEF TypeOK, Opportunities
  <2>2. opps' \in [Reasons -> Nat] BY DEF TypeOK
  <2>3. Opportunities' \in Nat BY <2>2, TotalTyped DEF Opportunities
  <2> QED BY <1>3, <2>1, <2>3 DEF Standing, Grows
<1>7. runs'["market_snapshots"] >= Need.market /\ runs'["opportunities"] >= Need.replayed
  BY <1>3 DEF Standing, NoWorse, TypeOK, RunModes
<1>8. RunTotal' >= Need.total
  <2>1. RunTotal \in Int /\ RunTotal' \in Int BY DEF TypeOK, RunTotal, RunModes
  <2> QED BY <1>3, <2>1 DEF Standing, Grows
<1>9. opps'["quote_unavailable"] * Scale <= Need.unavailable * Opportunities'
  BY <1>3, WithinKept DEF Standing, Within, Counted, Reasons
<1>10. ASSUME NEW r \in Counted \ {"quote_unavailable"}, Tolerated(r)
       PROVE  Tolerated(r)'
  <2>1. Limits[r].warn \in Nat /\ Limits[r].fail \in Nat OBVIOUS
  <2> QED BY <1>10, <2>1, WithinKept DEF Tolerated, Within
<1>11. /\ Tolerated("health_unknown")' /\ Tolerated("fee_unverified")'
       /\ Tolerated("balance_unverified")' /\ Tolerated("quote_mismatch")'
  BY <1>10 DEF Standing, Counted, Reasons
<1>12. kind' # "other" /\ health'.support = "supported" /\ ~fatalPaused'
  BY DEF Standing, NoWorse
<1>13. \A b \in CriticalBlockers : ~Blocks(b)' BY BlocksKept DEF Standing
<1> QED BY <1>1, <1>5, <1>6, <1>7, <1>8, <1>9, <1>11, <1>12, <1>13 DEF Standing, Within

LEMMA ReadyStep ==
  ASSUME TypeOK, TypeOK', ReadySpelled, ReadySpelled', [Next]_vars
  PROVE  Ready /\ NoWorse => Ready'
BY StepGrows, StandingKept DEF ReadySpelled

\* Only a health row, a fatal pause, an opportunity blocked for a counted reason or a
\* result that moves its run to another mode takes a ready status away, for every set
\* of thresholds and at any size.
THEOREM ReadyLasts == Spec => ReadyOutlivesGoodNews
<1>1. TypeOK /\ TypeOK' /\ ReadySpelled /\ ReadySpelled' /\ [Next]_vars
        => [Ready /\ NoWorse => Ready']_vars
  BY ReadyStep
<1>2. [Ready /\ NoWorse => Ready']_vars
        <=> [/\ UNCHANGED <<kind, health, fatalPaused>>
             /\ \A r \in Counted : opps'[r] = opps[r]
             /\ \A m \in RunModes : runs'[m] >= runs[m]
             /\ Ready
             => Ready']_vars
  BY DEF NoWorse
<1>3. ReadySpelled BY ReadyIsStanding
<1> QED BY <1>1, <1>2, <1>3, TypeCorrect, PTL DEF Spec, ReadyOutlivesGoodNews

LEMMA PhaseStep ==
  ASSUME TypeOK, TypeOK', [Next]_vars
  PROVE  Phase' < Phase => Phase = 3 /\ Phase' = 2
<1>1. Grows BY StepGrows
<1>2. RunTotal' >= RunTotal BY <1>1 DEF Grows
<1>3. /\ RunTotal \in Nat /\ RunTotal' \in Nat
  BY DEF TypeOK, RunTotal, RunModes
<1>4. Opportunities \in Nat BY TotalTyped DEF TypeOK, Opportunities
<1>5. opps' \in [Reasons -> Nat] BY DEF TypeOK
<1>6. Opportunities' \in Nat BY <1>5, TotalTyped DEF Opportunities
<1>7. real \in Nat /\ real' \in Nat BY DEF TypeOK
<1>8. real' >= real /\ Opportunities' >= Opportunities BY <1>1 DEF Grows
<1> HIDE DEF Ready, RunTotal, Opportunities
<1> QED BY <1>2, <1>3, <1>4, <1>6, <1>7, <1>8 DEF Phase

\* The phase of a route falls only from the review to the replays.
THEOREM PhaseKept == Spec => PhaseOnlyFallsFromReview
<1>1. TypeOK /\ TypeOK' /\ [Next]_vars
        => [Phase' < Phase => Phase = 3 /\ Phase' = 2]_vars
  BY PhaseStep
<1> QED BY <1>1, TypeCorrect, PTL DEF Spec, PhaseOnlyFallsFromReview

-----------------------------------------------------------------------------
(***************************************************************************)
(* The ranking score.                                                      *)
(***************************************************************************)
\* A quotient is bounded by what the dividend is a multiple of.
LEMMA QuotientBound ==
  ASSUME NEW a \in Nat, NEW b \in Nat \ {0}, NEW k \in Nat
  PROVE  /\ a \div b \in Nat
         /\ a <= k * b => a \div b <= k
         /\ a >= k * b => a \div b >= k
<1>1. PICK q \in Int, r \in Int : q = a \div b /\ a = b * q + r /\ 0 <= r /\ r < b
  <2>1. a = b * (a \div b) + (a % b) /\ 0 <= a % b /\ a % b < b /\ a \div b \in Int /\ a % b \in Int
    OBVIOUS
  <2> QED BY <2>1
<1>2. q >= 0
  <2>1. SUFFICES ASSUME q <= -1 PROVE FALSE
    BY <1>1
  <2>2. b * q <= b * (-1)
    BY <1>1, <2>1
  <2> QED BY <1>1, <2>2
<1>3. ASSUME a <= k * b PROVE q <= k
  <2>1. SUFFICES ASSUME q >= k + 1 PROVE FALSE
    BY <1>1
  <2>2. b * q >= b * (k + 1)
    BY <1>1, <2>1
  <2>3. b * (k + 1) = k * b + b
    OBVIOUS
  <2> QED BY <1>1, <1>3, <2>2, <2>3
<1>4. ASSUME a >= k * b PROVE q >= k
  <2>1. SUFFICES ASSUME q <= k - 1 PROVE FALSE
    BY <1>1
  <2>2. b * q <= b * (k - 1)
    BY <1>1, <2>1
  <2>3. b * (k - 1) = k * b - b
    OBVIOUS
  <2> QED BY <1>1, <1>4, <2>2, <2>3
<1> QED BY <1>1, <1>2, <1>3, <1>4

\* The points of a minimum: all of them when it is met.
Paid(points, met) == points \in Nat /\ points <= 5000 /\ (met => points = 5000)

LEMMA CompletionPaid ==
  ASSUME NEW v \in Nat, NEW r \in Nat
  PROVE  Paid(Completion(v, r), v >= r)
<1>1. CASE r = 0
  BY <1>1 DEF Completion, Paid
<1>2. CASE r # 0
  <2> DEFINE q == (5000 * v) \div r
  <2>1. q \in Nat /\ (5000 * v >= 5000 * r => q >= 5000)
    BY <1>2, QuotientBound
  <2>2. v >= r => 5000 * v >= 5000 * r
    OBVIOUS
  <2>3. Completion(v, r) = Lesser(q, 5000)
    BY <1>2 DEF Completion
  <2> HIDE DEF q
  <2> QED BY <2>1, <2>2, <2>3 DEF Lesser, Paid
<1> QED BY <1>1, <1>2

\* What the score reads is typed.
LEMMA ScoreTyped ==
  ASSUME TypeOK
  PROVE  /\ Need \in NeedType
         /\ Window \in Nat /\ real \in Nat /\ Opportunities \in Nat /\ RunTotal \in Nat
         /\ runs["market_snapshots"] \in Nat /\ runs["opportunities"] \in Nat
         /\ opps["quote_unavailable"] \in Nat
<1>1. Need \in NeedType
  BY PromotionAssumption DEF Need
<1>2. Window \in Nat
  BY DEF TypeOK, Window
<1>3. Opportunities \in Nat
  BY TotalTyped DEF TypeOK, Opportunities
<1>4. \A m \in RunModes : runs[m] \in Nat
  BY DEF TypeOK
<1>5. RunTotal \in Nat
  BY <1>4 DEF RunTotal, RunModes
<1>6. opps["quote_unavailable"] \in Nat
  BY DEF TypeOK, Reasons
<1> QED BY <1>1, <1>2, <1>3, <1>4, <1>5, <1>6 DEF TypeOK, RunModes

\* A route with no failing KPI has all the points of completion.
LEMMA BonusBounds ==
  ASSUME TypeOK
  PROVE  /\ CompletionBonus \in Nat /\ CompletionBonus <= 20000
         /\ ~CriticalFail => CompletionBonus = 20000
<1> DEFINE d == Completion(Window, Need.days)
           s == Completion(real, Need.snapshots)
           o == Completion(Opportunities, Need.opportunities)
           m == Completion(runs["market_snapshots"], Need.market)
           p == Completion(runs["opportunities"], Need.replayed)
           t == Completion(RunTotal, Need.total)
<1>1. /\ Need.days \in Nat /\ Need.snapshots \in Nat /\ Need.opportunities \in Nat
      /\ Need.market \in Nat /\ Need.replayed \in Nat /\ Need.total \in Nat
  BY ScoreTyped DEF NeedType
<1>2. /\ Window \in Nat /\ real \in Nat /\ Opportunities \in Nat /\ RunTotal \in Nat
      /\ runs["market_snapshots"] \in Nat /\ runs["opportunities"] \in Nat
  BY ScoreTyped
<1>3. /\ Paid(d, Window >= Need.days)
      /\ Paid(s, real >= Need.snapshots)
      /\ Paid(o, Opportunities >= Need.opportunities)
      /\ Paid(m, runs["market_snapshots"] >= Need.market)
      /\ Paid(p, runs["opportunities"] >= Need.replayed)
      /\ Paid(t, RunTotal >= Need.total)
  BY <1>1, <1>2, CompletionPaid, Zenon
<1>4. CompletionBonus = d + s + o + (IF kind = "live_intent" THEN (m + p) \div 2 ELSE t)
  BY DEF CompletionBonus
<1> HIDE DEF d, s, o, m, p, t
<1>5. /\ d \in Nat /\ s \in Nat /\ o \in Nat /\ m \in Nat /\ p \in Nat /\ t \in Nat
      /\ d <= 5000 /\ s <= 5000 /\ o <= 5000 /\ m <= 5000 /\ p <= 5000 /\ t <= 5000
  BY <1>3 DEF Paid
<1>6. ~CriticalFail => d = 5000 /\ s = 5000 /\ o = 5000 /\ m = 5000 /\ p = 5000 /\ t = 5000
  BY <1>3, NoFailure DEF Paid
<1>7. (m + p) \div 2 \in Nat /\ (m + p) \div 2 <= 5000
      /\ (m = 5000 /\ p = 5000 => (m + p) \div 2 = 5000)
  BY <1>5
<1> QED BY <1>4, <1>5, <1>6, <1>7

LEMMA PenaltyBounds ==
  ASSUME TypeOK
  PROVE  /\ QuotePenalty \in Nat /\ QuotePenalty <= 15000
         /\ Within("quote_unavailable", 5000) => QuotePenalty <= 10000
<1>1. CASE Opportunities = 0
  BY <1>1 DEF QuotePenalty
<1>2. CASE Opportunities # 0
  <2> DEFINE u == opps["quote_unavailable"]
             q == (200000 * u) \div Opportunities
  <2>1. u \in Nat /\ Opportunities \in Nat \ {0}
    BY <1>2, ScoreTyped
  <2>2. Within("quote_unavailable", 5000) => 200000 * u <= 10000 * Opportunities
    BY <2>1 DEF Within, Scale
  <2> HIDE DEF u
  <2>3. q \in Nat /\ (200000 * u <= 10000 * Opportunities => q <= 10000)
    BY <2>1, QuotientBound
  <2>4. QuotePenalty = Lesser(q, 15000)
    BY <1>2 DEF QuotePenalty, u
  <2> HIDE DEF q
  <2> QED BY <2>2, <2>3, <2>4 DEF Lesser
<1> QED BY <1>1, <1>2

\* At most k members.
AtMost(S, k) == IsFiniteSet(S) /\ Cardinality(S) <= k

LEMMA OneMoreMember ==
  ASSUME NEW S, NEW x, NEW k \in Nat, AtMost(S, k), NEW m, m = k + 1
  PROVE  AtMost(S \cup {x}, m)
<1>1. Cardinality(S) \in Nat
  BY FS_CardinalityType DEF AtMost
<1>2. IsFiniteSet(S \cup {x})
      /\ Cardinality(S \cup {x}) = IF x \in S THEN Cardinality(S) ELSE Cardinality(S) + 1
  BY FS_AddElement DEF AtMost
<1> QED BY <1>1, <1>2 DEF AtMost

\* What a route that may be promoted can be warned of: all but its quote rate.
RateWarnings == {"health_unknown_rate", "fee_unverified_rate", "balance_unverified_rate",
                 "quote_mismatch_rate"}
OtherWarnings == {"readiness_grade", "fatal_pause_count", "cooldown_event_count"}

LEMMA SevenWarnings == AtMost(RateWarnings \cup OtherWarnings, 7)
<1>0. AtMost({}, 0)
  BY FS_EmptySet DEF AtMost
<1> DEFINE s1 == {} \cup {"health_unknown_rate"}
           s2 == s1 \cup {"fee_unverified_rate"}
           s3 == s2 \cup {"balance_unverified_rate"}
           s4 == s3 \cup {"quote_mismatch_rate"}
           s5 == s4 \cup {"readiness_grade"}
           s6 == s5 \cup {"fatal_pause_count"}
           s7 == s6 \cup {"cooldown_event_count"}
<1>1. AtMost(s1, 1)
  <2>1. 0 \in Nat /\ 1 = 0 + 1 OBVIOUS
  <2> QED BY <1>0, <2>1, OneMoreMember, Zenon
<1>2. AtMost(s2, 2)
  <2>1. 1 \in Nat /\ 2 = 1 + 1 OBVIOUS
  <2> QED BY <1>1, <2>1, OneMoreMember, Zenon
<1>3. AtMost(s3, 3)
  <2>1. 2 \in Nat /\ 3 = 2 + 1 OBVIOUS
  <2> QED BY <1>2, <2>1, OneMoreMember, Zenon
<1>4. AtMost(s4, 4)
  <2>1. 3 \in Nat /\ 4 = 3 + 1 OBVIOUS
  <2> QED BY <1>3, <2>1, OneMoreMember, Zenon
<1>5. AtMost(s5, 5)
  <2>1. 4 \in Nat /\ 5 = 4 + 1 OBVIOUS
  <2> QED BY <1>4, <2>1, OneMoreMember, Zenon
<1>6. AtMost(s6, 6)
  <2>1. 5 \in Nat /\ 6 = 5 + 1 OBVIOUS
  <2> QED BY <1>5, <2>1, OneMoreMember, Zenon
<1>7. AtMost(s7, 7)
  <2>1. 6 \in Nat /\ 7 = 6 + 1 OBVIOUS
  <2> QED BY <1>6, <2>1, OneMoreMember, Zenon
<1>8. RateWarnings \cup OtherWarnings = s7
  BY DEF RateWarnings, OtherWarnings
<1> QED BY <1>7, <1>8

LEMMA KpisFinite == IsFiniteSet(KpiNames)
<1>1. \A S, x, y, z : IsFiniteSet(S) => IsFiniteSet(S \cup {x, y, z})
  <2> SUFFICES ASSUME NEW S, NEW x, NEW y, NEW z, IsFiniteSet(S)
               PROVE  IsFiniteSet(S \cup {x, y, z})
    OBVIOUS
  <2>1. IsFiniteSet(((S \cup {x}) \cup {y}) \cup {z})
    BY FS_AddElement
  <2>2. S \cup {x, y, z} = ((S \cup {x}) \cup {y}) \cup {z}
    OBVIOUS
  <2> QED BY <2>1, <2>2
<1> DEFINE a == RateWarnings \cup OtherWarnings
           b == a \cup {"quote_unavailable_rate", "observation_window_days",
                        "market_snapshot_count"}
           c == b \cup {"opportunity_count", "backtest_run_count_market_snapshots",
                        "backtest_run_count_opportunities"}
           d == c \cup {"backtest_run_count_total", "support_status",
                        "fatal_pause_unresolved"}
<1>2. IsFiniteSet(a)
  BY SevenWarnings DEF AtMost
<1>3. IsFiniteSet(b)
  BY <1>1, <1>2
<1>4. IsFiniteSet(c)
  BY <1>1, <1>3
<1>5. IsFiniteSet(d)
  BY <1>1, <1>4
<1>6. KpiNames = d
  BY DEF KpiNames, RateWarnings, OtherWarnings
<1> QED BY <1>5, <1>6

LEMMA KpiCounts ==
  ASSUME NEW v
  PROVE  IsFiniteSet(Kpis(v)) /\ Cardinality(Kpis(v)) \in Nat
<1>1. Kpis(v) \subseteq KpiNames
  BY DEF Kpis
<1> QED BY <1>1, KpisFinite, FS_Subset, FS_CardinalityType

\* A route that may be promoted has at most seven warnings.
LEMMA ReadyWarnings ==
  ASSUME ~CriticalFail, MinimumGatePassed
  PROVE  Cardinality(Kpis("fail")) = 0 /\ Cardinality(Kpis("warn")) <= 7
<1>1. Kpis("fail") = {}
  BY DEF Kpis, CriticalFail
<1>2. Kpis("warn") \subseteq RateWarnings \cup OtherWarnings
  <2> SUFFICES ASSUME NEW k \in KpiNames, k \notin RateWarnings \cup OtherWarnings
               PROVE  Verdict(k) # "warn"
    BY DEF Kpis
  <2>1. Verdict("quote_unavailable_rate") = "pass"
    BY GateOnQuotes
  <2>2. CASE k \in {"observation_window_days", "market_snapshot_count",
                    "opportunity_count", "backtest_run_count_market_snapshots",
                    "backtest_run_count_opportunities", "backtest_run_count_total"}
    BY <2>2, Verdicts DEF Minimum
  <2>3. CASE k \in {"support_status", "fatal_pause_unresolved"}
    BY <2>3, Verdicts DEF Must
  <2> QED BY <2>1, <2>2, <2>3 DEF KpiNames, RateWarnings, OtherWarnings
<1>3. Cardinality(Kpis("warn")) <= Cardinality(RateWarnings \cup OtherWarnings)
  BY <1>2, SevenWarnings, FS_Subset DEF AtMost
<1>4. Cardinality(Kpis("warn")) \in Nat /\ Cardinality(RateWarnings \cup OtherWarnings) \in Nat
  BY KpiCounts, SevenWarnings, FS_CardinalityType DEF AtMost
<1>5. Cardinality(Kpis("fail")) = 0
  BY <1>1, FS_EmptySet
<1> QED BY <1>3, <1>4, <1>5, SevenWarnings DEF AtMost

\* A blocked route has a failing KPI, and a yellow one a warning too.
LEMMA BlockedCounts ==
  ASSUME CriticalFail
  PROVE  /\ Cardinality(Kpis("fail")) >= 1
         /\ Grade = "yellow" => Cardinality(Kpis("warn")) >= 1
<1>1. \A v : Kpis(v) # {} => Cardinality(Kpis(v)) >= 1
  <2> SUFFICES ASSUME NEW v, Kpis(v) # {} PROVE Cardinality(Kpis(v)) >= 1
    OBVIOUS
  <2>1. IsFiniteSet(Kpis(v)) /\ Cardinality(Kpis(v)) \in Nat
    BY KpiCounts
  <2>2. Cardinality(Kpis(v)) # 0
    BY <2>1, FS_EmptySet, Zenon
  <2> QED BY <2>1, <2>2
<1>2. Kpis("fail") # {}
  BY DEF CriticalFail, Kpis
<1>3. ASSUME Grade = "yellow" PROVE Kpis("warn") # {}
  <2>1. Verdict("readiness_grade") = "warn"
    <3> HIDE DEF Grade
    <3> QED BY <1>3 DEF Verdict
  <2> QED BY <2>1 DEF Kpis, KpiNames
<1> QED BY <1>1, <1>2, <1>3

\* The limits and lines the defaults of settings.py leave room for: a live route's
\* quotes are unavailable at most one time in twenty.
LinesBetween ==
  /\ Needs.live_intent.unavailable <= 5000
  /\ Line["live_intent"] \in Nat /\ 41000 < Line["live_intent"] /\ Line["live_intent"] < 45000
  /\ Line["shadow"] \in Nat /\ 19000 < Line["shadow"] /\ Line["shadow"] < 27000

\* A shadow route is at best yellow.
LEMMA ShadowNotGreen == kind = "shadow" => Grade # "green"
<1> SUFFICES ASSUME kind = "shadow" PROVE Grade # "green"
  OBVIOUS
<1>1. Blocks("observation_only_route")
  BY DEF Blocks
<1>2. "observation_only_route" \in BlockerNames
  BY DEF BlockerNames
<1> HIDE DEF Blocks, BlockerNames, CriticalBlockers
<1> QED BY <1>1, <1>2 DEF Grade

LEMMA ReadyScore ==
  ASSUME TypeOK, LinesBetween, kind \in {"live_intent", "shadow"}, Ready
  PROVE  Score > Line[kind]
<1>1. ~CriticalFail /\ MinimumGatePassed
      /\ PromotionStatus = (IF kind = "shadow" THEN "observation_ready" ELSE "review_ready")
  BY DEF Ready, PromotionStatus
<1>2. CompletionBonus = 20000
  BY <1>1, BonusBounds
<1> DEFINE f == Cardinality(Kpis("fail"))
           w == Cardinality(Kpis("warn"))
           s == StatusPoints[PromotionStatus]
           g == GradePoints[Grade]
           q == QuotePenalty
<1>3. f = 0 /\ w \in Nat /\ w <= 7
  BY <1>1, ReadyWarnings, KpiCounts
<1>4. s = IF kind = "shadow" THEN 40000 ELSE 45000
  BY <1>1 DEF StatusPoints
<1>5. g \in Nat /\ g >= 10000
  <2>1. Grade \in {"green", "yellow"}
    BY <1>1, NoFailure DEF Grade
  <2> QED BY <2>1 DEF GradePoints
<1>6. q \in Nat /\ q <= 15000 /\ (kind = "live_intent" => q <= 10000)
  <2>1. ASSUME kind = "live_intent" PROVE Within("quote_unavailable", 5000)
    <3>1. Within("quote_unavailable", Need.unavailable)
      BY <1>1 DEF MinimumGatePassed
    <3>2. Need.unavailable \in Nat /\ Need.unavailable <= 5000
      BY <2>1, ScoreTyped DEF Need, NeedType, LinesBetween
    <3> DEFINE n == Need.unavailable
               u == opps["quote_unavailable"]
    <3>3. u * Scale <= n * Opportunities
      BY <3>1 DEF Within
    <3>4. Opportunities \in Nat /\ u * Scale \in Int
      BY ScoreTyped DEF Scale
    <3>5. n \in Nat /\ n <= 5000
      BY <3>2
    <3> HIDE DEF n, u
    <3>6. n * Opportunities <= 5000 * Opportunities
      BY <3>4, <3>5
    <3>7. u * Scale <= 5000 * Opportunities
      BY <3>3, <3>4, <3>5, <3>6
    <3> QED BY <3>7 DEF Within, u
  <2> QED BY <2>1, PenaltyBounds
<1>7. Score = LET raw == s + g + (IF kind = "live_intent" THEN 8000 ELSE 0) + CompletionBonus
                         - 12000 * f - 4000 * w - q
              IN  IF raw < 0 THEN 0 ELSE Lesser(raw, 100000)
  BY DEF Score
<1> HIDE DEF f, w, s, g, q
<1>8. CASE kind = "live_intent"
  BY <1>2, <1>3, <1>4, <1>5, <1>6, <1>7, <1>8 DEF Lesser, LinesBetween
<1>9. CASE kind = "shadow"
  BY <1>2, <1>3, <1>4, <1>5, <1>6, <1>7, <1>9 DEF Lesser, LinesBetween
<1> QED BY <1>8, <1>9

LEMMA BlockedScore ==
  ASSUME TypeOK, LinesBetween, kind \in {"live_intent", "shadow"},
         PromotionStatus = "promotion_blocked"
  PROVE  Score < Line[kind]
<1>1. CriticalFail
  BY DEF PromotionStatus
<1> DEFINE f == Cardinality(Kpis("fail"))
           w == Cardinality(Kpis("warn"))
           g == GradePoints[Grade]
           q == QuotePenalty
           c == CompletionBonus
<1>2. /\ f \in Nat /\ f >= 1 /\ w \in Nat
      /\ Grade = "yellow" => w >= 1
  BY <1>1, BlockedCounts, KpiCounts
<1>3. /\ g = (IF Grade = "green" THEN 20000 ELSE IF Grade = "yellow" THEN 10000 ELSE 0)
  <2>1. Grade \in {"green", "yellow", "red"}
    BY DEF Grade
  <2> HIDE DEF Grade
  <2> QED BY <2>1 DEF GradePoints
<1>4. c \in Nat /\ c <= 20000
  BY BonusBounds
<1>5. q \in Nat
  BY PenaltyBounds
<1>6. Score = LET raw == 5000 + g + (IF kind = "live_intent" THEN 8000 ELSE 0) + c
                         - 12000 * f - 4000 * w - q
              IN  IF raw < 0 THEN 0 ELSE Lesser(raw, 100000)
  BY DEF Score, StatusPoints
<1> HIDE DEF f, w, g, q, c
<1>7. CASE kind = "live_intent"
  BY <1>2, <1>3, <1>4, <1>5, <1>6, <1>7 DEF Lesser, LinesBetween
<1>8. CASE kind = "shadow"
  BY <1>2, <1>3, <1>4, <1>5, <1>6, <1>8, ShadowNotGreen DEF Lesser, LinesBetween
<1> QED BY <1>7, <1>8

\* The ranking never mixes ready and blocked routes of a kind (_score_row): the gap
\* between the status points is wider than all a ready route can lose and a
\* blocked one can gain, whatever the thresholds, if the live limit on unavailable
\* quotes is at most the default one.
THEOREM ScoresStaySeparate ==
  ASSUME LinesBetween
  PROVE  Spec => []ScoresSeparate
<1>1. TypeOK => ScoresSeparate
  <2> SUFFICES ASSUME TypeOK, kind # "other" PROVE ScoresSeparate
    BY DEF ScoresSeparate
  <2>1. kind \in {"live_intent", "shadow"}
    BY DEF TypeOK, Kinds
  <2>2. Ready => Score > Line[kind]
    BY <2>1, ReadyScore
  <2>3. PromotionStatus = "promotion_blocked" => Score < Line[kind]
    BY <2>1, BlockedScore
  <2> QED BY <2>2, <2>3 DEF ScoresSeparate
<1> QED BY <1>1, TypeCorrect, PTL
=============================================================================
