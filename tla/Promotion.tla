----------------------------- MODULE Promotion -----------------------------
(***************************************************************************)
(* The promotion of a route.  The bot leaves evidence of a route in the    *)
(* database, row by row and in no fixed order; the reports read it back:   *)
(* the readiness of the route (its grade and what blocks it), the KPIs of  *)
(* its commissioning, the promotion gate, the phase and the ranking score. *)
(* Rows are counted in stretches of scans, and rates and scores are        *)
(* integers: rates in 1 / Scale, scores in thousandths.                    *)
(***************************************************************************)
EXTENDS Confidence, FiniteSets

CONSTANTS
  Stretches,   \* what a stretch of scans may record: a count of each Reason
  Healths,     \* what a route health row may be written with
  Snapshots,   \* market snapshots of a stretch
  Needs,       \* commissioning_live_* and commissioning_shadow_*
  Limits,      \* commissioning_warn_* and commissioning_fail_*
  ShadowMin,   \* shadow_min_*_for_readiness
  Line,        \* a score between the blocked and the ready routes of a kind
  Noted,       \* the runs: the mode their notes name first and the mode they replay
  MaxDay, MaxStretches, MaxRuns, MaxAttempts   \* bounds

Scale == 100000
Kinds == {"live_intent", "shadow", "other"}

\* Blocked reasons the KPIs count; "other" is a row that was not blocked too.
Reasons == {"quote_unavailable", "health_unknown", "fee_unverified",
            "balance_unverified", "quote_mismatch", "other"}
Counted == Reasons \ {"other"}

\* "other" is opportunities_legacy, and any other word that the notes name.
RunModes == {"market_snapshots", "opportunities", "other"}

HealthType == [support : Supports, fee : FeeLevels, quote : QuoteLevels,
               balance : BalanceLevels, cooling : BOOLEAN]
NeedType == [days : Nat, snapshots : Nat, opportunities : Nat,
             market : Nat, replayed : Nat, total : Nat, unavailable : Nat]

ASSUME PromotionAssumption ==
  /\ Stretches \subseteq [Reasons -> Nat]
  /\ Healths \subseteq [support : STRING, fee : STRING, quote : STRING,
                        balance : STRING, cooling : BOOLEAN]
  /\ Snapshots \in Nat /\ MaxDay \in Nat /\ MaxStretches \in Nat
  /\ MaxRuns \in Nat /\ MaxAttempts \in Nat
  /\ Needs \in [live_intent : NeedType, shadow : NeedType]
  /\ Limits \in [Counted \ {"quote_unavailable"} -> [warn : Nat, fail : Nat]]
  /\ \A r \in DOMAIN Limits : Limits[r].warn <= Limits[r].fail
  /\ ShadowMin \in [fee : STRING, quote : STRING, balance : STRING]
  /\ Line \in [{"live_intent", "shadow"} -> Nat]
  /\ Noted \subseteq RunModes \X RunModes

VARIABLES
  kind,         \* _route_type of the strategy
  today,        \* the day
  first, last,  \* days of the first and of the last real market snapshot
  real, mock,   \* market snapshots by source_type
  opps,         \* opportunities by blocked_reason
  recent,       \* opportunities of the last 24 hours
  runs,         \* backtest runs by the mode they are counted under
  misnoted,     \* by mode: what the run replays that only its notes count here
  health,       \* the latest route health row, as it is read
  fatalPaused,  \* route_runtime_states: paused and last_failure_fatal
  cooling,      \* route_runtime_states: cooldown_until in the future
  fatals,       \* trade attempts with is_fatal_failure
  cools,        \* trade attempts with cooldown_triggered
  stretches     \* stretches recorded, for the bound

observed == <<first, last, real, mock>>
scanned == <<opps, recent, stretches>>
runtime == <<fatalPaused, cooling, fatals, cools>>
replays == <<runs, misnoted>>
vars == <<kind, today, observed, scanned, replays, health, runtime>>

Unseen == [support |-> "unknown", fee |-> "unknown", quote |-> "unknown",
           balance |-> "unknown", cooling |-> FALSE]

TypeOK ==
  /\ kind \in Kinds
  /\ today \in Nat /\ first \in Nat /\ last \in Nat
  /\ first <= last /\ last <= today
  /\ real \in Nat /\ mock \in Nat
  /\ opps \in [Reasons -> Nat]
  /\ recent \in [total : Nat, unavailable : Nat]
  /\ runs \in [RunModes -> Nat] /\ misnoted \in [RunModes -> RunModes]
  /\ \A m \in RunModes : misnoted[m] # m => runs[m] > 0
  /\ health \in HealthType
  /\ fatalPaused \in BOOLEAN /\ cooling \in BOOLEAN
  /\ fatals \in Nat /\ cools \in Nat /\ stretches \in Nat

Init ==
  /\ kind \in Kinds
  /\ today = 0 /\ first = 0 /\ last = 0 /\ real = 0 /\ mock = 0
  /\ opps = [r \in Reasons |-> 0]
  /\ recent = [total |-> 0, unavailable |-> 0]
  /\ runs = [m \in RunModes |-> 0] /\ misnoted = [m \in RunModes |-> m]
  /\ health = Unseen
  /\ fatalPaused = FALSE /\ cooling = FALSE /\ fatals = 0 /\ cools = 0
  /\ stretches = 0

-----------------------------------------------------------------------------
(***************************************************************************)
(* Rows written.                                                           *)
(***************************************************************************)
Total(c) == c["quote_unavailable"] + c["health_unknown"] + c["fee_unverified"]
            + c["balance_unverified"] + c["quote_mismatch"] + c["other"]

\* Every scan of a quoted route writes a snapshot of each leg.
RecordSnapshots(source) ==
  /\ real + mock < MaxStretches * Snapshots
  /\ \/ /\ source = "real"
        /\ real' = real + Snapshots
        /\ first' = IF real = 0 THEN today ELSE first
        /\ last' = today
        /\ UNCHANGED mock
     \/ /\ source = "mock"
        /\ mock' = mock + Snapshots
        /\ UNCHANGED <<first, last, real>>
  /\ UNCHANGED <<kind, today, scanned, replays, health, runtime>>

\* Two of the reasons are fatal: the route is paused on the spot.  In a stretch
\* with several of them the operator has resumed the route in between.
RecordOpportunities(s) ==
  /\ stretches < MaxStretches
  /\ stretches' = stretches + 1
  /\ opps' = [r \in Reasons |-> opps[r] + s[r]]
  /\ recent' = [total |-> recent.total + Total(s),
                unavailable |-> recent.unavailable + s["quote_unavailable"]]
  /\ fatalPaused' = (fatalPaused \/ s["quote_unavailable"] + s["quote_mismatch"] > 0)
  /\ UNCHANGED <<kind, today, observed, replays, health, cooling, fatals, cools>>

\* Mutant: a status is stored as it was written.
RecordHealth_Verbatim(h) ==
  /\ health' = h
  /\ UNCHANGED <<kind, today, observed, scanned, replays, runtime>>

\* The statuses are made canonical before they are stored and after they are read.
RecordHealth(h) ==
  /\ health' = [support |-> NormalizeSupport(h.support),
                fee     |-> NormalizeFee(h.fee, ""),
                quote   |-> NormalizeQuoteMatch(h.quote),
                balance |-> NormalizeBalance(h.balance, ""),
                cooling |-> h.cooling]
  /\ UNCHANGED <<kind, today, observed, scanned, replays, runtime>>

RunTotal == runs["market_snapshots"] + runs["opportunities"] + runs["other"]

\* A run is evidence from the moment its row exists, whatever becomes of it.  Until
\* it has a result it is counted by its notes, where a user may have named another
\* mode before the engine names its own.  At most one such run of a mode is told
\* apart at a time.
CreateRun(named, replayed) ==
  /\ RunTotal < MaxRuns
  /\ misnoted[named] = named \/ named = replayed
  /\ runs' = [runs EXCEPT ![named] = @ + 1]
  /\ misnoted' = IF named = replayed THEN misnoted
                 ELSE [misnoted EXCEPT ![named] = replayed]
  /\ UNCHANGED <<kind, today, observed, scanned, health, runtime>>

\* The result of a run tells what it replayed.
StoreResult(named) ==
  /\ misnoted[named] # named
  /\ runs' = [runs EXCEPT ![named] = @ - 1, ![misnoted[named]] = @ + 1]
  /\ misnoted' = [misnoted EXCEPT ![named] = named]
  /\ UNCHANGED <<kind, today, observed, scanned, health, runtime>>

FailedAttempt(fatal, cooled) ==
  /\ fatals + cools < MaxAttempts
  /\ fatals' = IF fatal THEN fatals + 1 ELSE fatals
  /\ cools' = IF cooled THEN cools + 1 ELSE cools
  /\ fatalPaused' = (fatalPaused \/ fatal)
  /\ cooling' = (cooling \/ cooled)
  /\ UNCHANGED <<kind, today, observed, scanned, replays, health>>

\* The operator clears the pause; a cooldown runs out.
Release ==
  /\ fatalPaused' = FALSE
  /\ UNCHANGED <<kind, today, observed, scanned, replays, health, cooling, fatals, cools>>

CooldownEnds ==
  /\ cooling' = FALSE
  /\ UNCHANGED <<kind, today, observed, scanned, replays, health, fatalPaused, fatals, cools>>

DayPasses ==
  /\ today < MaxDay
  /\ today' = today + 1
  /\ recent' = [total |-> 0, unavailable |-> 0]
  /\ UNCHANGED <<kind, observed, opps, stretches, replays, health, runtime>>

Next ==
  \/ \E source \in {"real", "mock"} : RecordSnapshots(source)
  \/ \E s \in Stretches : RecordOpportunities(s)
  \/ \E h \in Healths : RecordHealth(h)
  \/ \E run \in Noted : CreateRun(run[1], run[2])
  \/ \E m \in RunModes : StoreResult(m)
  \/ \E fatal, cooled \in BOOLEAN : FailedAttempt(fatal, cooled)
  \/ Release
  \/ CooldownEnds
  \/ DayPasses

Spec == Init /\ [][Next]_vars

-----------------------------------------------------------------------------
(***************************************************************************)
(* Readiness of the route.                                                 *)
(***************************************************************************)
ReadinessMin ==
  IF kind = "shadow" THEN ShadowMin
  ELSE [fee |-> "venue_declared", quote |-> "matched", balance |-> "wallet_verified"]

BlockerNames ==
  {"unsupported_route", "fee_unverified", "balance_mismatch", "balance_unverified",
   "quote_match_unverified", "insufficient_observations", "backtest_missing",
   "quote_unavailable_rate_high", "cooldown_active", "fatal_paused",
   "observation_only_route"}

Blocks(b) ==
  CASE b = "unsupported_route" -> health.support # "supported"
    [] b = "fee_unverified" -> ~FeeAtLeast(health.fee, ReadinessMin.fee)
    [] b = "balance_mismatch" -> health.balance = "mismatch"
    [] b = "balance_unverified" ->
         /\ health.balance # "mismatch"
         /\ ~BalanceAtLeast(health.balance, ReadinessMin.balance)
    [] b = "quote_match_unverified" -> ~QuoteMatchAtLeast(health.quote, ReadinessMin.quote)
    [] b = "insufficient_observations" -> real + mock < 20
    [] b = "backtest_missing" -> RunTotal < 1
    [] b = "quote_unavailable_rate_high" ->
         recent.total > 0 /\ 5 * recent.unavailable >= recent.total
    [] b = "cooldown_active" -> cooling \/ health.cooling
    [] b = "fatal_paused" -> fatalPaused
    [] b = "observation_only_route" -> kind = "shadow"

\* Mutant: a balance that was never verified does not hold a route back.
CriticalBlockers_AnyBalance ==
  {"unsupported_route", "fee_unverified", "balance_mismatch",
   "quote_match_unverified", "backtest_missing", "fatal_paused"}

\* Mutant: a cooldown is as bad as a pause.
CriticalBlockers_Cooldown ==
  {"unsupported_route", "fee_unverified", "balance_mismatch", "balance_unverified",
   "quote_match_unverified", "backtest_missing", "fatal_paused", "cooldown_active"}

CriticalBlockers ==
  {"unsupported_route", "fee_unverified", "balance_mismatch", "balance_unverified",
   "quote_match_unverified", "backtest_missing", "fatal_paused"}

Grade ==
  IF \E b \in CriticalBlockers : Blocks(b) THEN "red"
  ELSE IF \E b \in BlockerNames : Blocks(b) THEN "yellow" ELSE "green"

-----------------------------------------------------------------------------
(***************************************************************************)
(* The KPIs and the promotion gate.                                        *)
(***************************************************************************)
Lesser(a, b) == IF a <= b THEN a ELSE b
Need == IF kind = "live_intent" THEN Needs.live_intent ELSE Needs.shadow
Window == IF real = 0 THEN 0 ELSE last - first

\* Mutant: only the opportunities of the last 24 hours are counted.
Opportunities_Recent == recent.total

Opportunities == Total(opps)

\* opps[reason] / Opportunities <= max; the rates of no rows are 0.
Within(reason, max) == opps[reason] * Scale <= max * Opportunities

\* One and a half times the limit, to the digit of Scale (half to even).
WarnUnavailable ==
  LET tripled == 3 * Need.unavailable
  IN  Lesser((IF tripled % 4 = 3 THEN tripled + 1 ELSE tripled) \div 2, Scale)

Minimum(value, required) == IF value >= required THEN "pass" ELSE "fail"
Rate(reason, pass, warn) ==
  IF Within(reason, pass) THEN "pass" ELSE IF Within(reason, warn) THEN "warn" ELSE "fail"
LimitedRate(reason) == Rate(reason, Limits[reason].warn, Limits[reason].fail)
Advisory(count) == IF count = 0 THEN "pass" ELSE "warn"
Must(ok) == IF ok THEN "pass" ELSE "fail"

KpiNames ==
  {"observation_window_days", "market_snapshot_count", "opportunity_count",
   "backtest_run_count_market_snapshots", "backtest_run_count_opportunities",
   "backtest_run_count_total", "quote_unavailable_rate", "health_unknown_rate",
   "fee_unverified_rate", "balance_unverified_rate", "quote_mismatch_rate",
   "support_status", "readiness_grade", "fatal_pause_unresolved",
   "fatal_pause_count", "cooldown_event_count"}

\* A threshold of 0 stands for a KPI the kind of route does not have.
Verdict(k) ==
  CASE k = "observation_window_days" -> Minimum(Window, Need.days)
    [] k = "market_snapshot_count" -> Minimum(real, Need.snapshots)
    [] k = "opportunity_count" -> Minimum(Opportunities, Need.opportunities)
    [] k = "backtest_run_count_market_snapshots" ->
         Minimum(runs["market_snapshots"], Need.market)
    [] k = "backtest_run_count_opportunities" ->
         Minimum(runs["opportunities"], Need.replayed)
    [] k = "backtest_run_count_total" -> Minimum(RunTotal, Need.total)
    [] k = "quote_unavailable_rate" ->
         Rate("quote_unavailable", Need.unavailable, WarnUnavailable)
    [] k = "health_unknown_rate" -> LimitedRate("health_unknown")
    [] k = "fee_unverified_rate" -> LimitedRate("fee_unverified")
    [] k = "balance_unverified_rate" -> LimitedRate("balance_unverified")
    [] k = "quote_mismatch_rate" -> LimitedRate("quote_mismatch")
    [] k = "support_status" -> Must(health.support = "supported")
    [] k = "readiness_grade" ->
         (CASE Grade = "green" -> "pass" [] Grade = "yellow" -> "warn" [] OTHER -> "fail")
    [] k = "fatal_pause_unresolved" -> Must(~fatalPaused)
    [] k = "fatal_pause_count" -> Advisory(fatals)
    [] k = "cooldown_event_count" -> Advisory(cools)

Kpis(verdict) == {k \in KpiNames : Verdict(k) = verdict}

\* The counts of fatal pauses and of cooldowns are not critical, and never fail.
CriticalFail == \E k \in KpiNames : Verdict(k) = "fail"

\* Mutant: the gate wants more snapshots than the KPI does.
MinimumGatePassed_Strict ==
  /\ Window >= Need.days /\ real > Need.snapshots
  /\ Opportunities >= Need.opportunities
  /\ runs["market_snapshots"] >= Need.market /\ runs["opportunities"] >= Need.replayed
  /\ RunTotal >= Need.total
  /\ Within("quote_unavailable", Need.unavailable)
  /\ health.support = "supported" /\ Grade # "red" /\ ~fatalPaused

MinimumGatePassed ==
  /\ Window >= Need.days /\ real >= Need.snapshots
  /\ Opportunities >= Need.opportunities
  /\ runs["market_snapshots"] >= Need.market /\ runs["opportunities"] >= Need.replayed
  /\ RunTotal >= Need.total
  /\ Within("quote_unavailable", Need.unavailable)
  /\ health.support = "supported" /\ Grade # "red" /\ ~fatalPaused

PromotionStatus ==
  IF CriticalFail THEN "promotion_blocked"
  ELSE IF ~MinimumGatePassed \/ kind = "other" THEN "not_ready"
  ELSE IF kind = "shadow" THEN "observation_ready" ELSE "review_ready"

Ready == PromotionStatus \in {"observation_ready", "review_ready"}

\* phase_0_mock_sanity, phase_1_real_observation, phase_2_replay_review and
\* phase_3_commissioning_review.
Phase ==
  IF real = 0 /\ Opportunities = 0 THEN 0
  ELSE IF RunTotal = 0 THEN 1
  ELSE IF Ready THEN 3 ELSE 2

-----------------------------------------------------------------------------
(***************************************************************************)
(* The ranking score.  Each term is rounded down, to the thousandth.       *)
(***************************************************************************)
\* A quarter of the 20 points of completion.
Completion(value, required) ==
  IF required = 0 THEN 5000 ELSE Lesser((5000 * value) \div required, 5000)

CompletionBonus ==
  Completion(Window, Need.days) + Completion(real, Need.snapshots)
  + Completion(Opportunities, Need.opportunities)
  + IF kind = "live_intent"
    THEN (Completion(runs["market_snapshots"], Need.market)
          + Completion(runs["opportunities"], Need.replayed)) \div 2
    ELSE Completion(RunTotal, Need.total)

StatusPoints == [review_ready |-> 45000, observation_ready |-> 40000,
                 not_ready |-> 20000, promotion_blocked |-> 5000]
GradePoints == [green |-> 20000, yellow |-> 10000, red |-> 0]

\* Mutant: the penalty of the quote rate has no ceiling of its own.
QuotePenalty_Unbounded ==
  IF Opportunities = 0 THEN 0
  ELSE (400000 * opps["quote_unavailable"]) \div Opportunities

QuotePenalty ==
  IF Opportunities = 0 THEN 0
  ELSE Lesser((200000 * opps["quote_unavailable"]) \div Opportunities, 15000)

Score ==
  LET raw == StatusPoints[PromotionStatus] + GradePoints[Grade]
             + (IF kind = "live_intent" THEN 8000 ELSE 0) + CompletionBonus
             - 12000 * Cardinality(Kpis("fail")) - 4000 * Cardinality(Kpis("warn"))
             - QuotePenalty
  IN  IF raw < 0 THEN 0 ELSE Lesser(raw, 100000)

-----------------------------------------------------------------------------
(***************************************************************************)
(* Properties.                                                             *)
(***************************************************************************)
\* The gate and the KPIs are two passes over the same thresholds: a route that
\* may be promoted is "not ready" exactly when no KPI fails and its quote rate is
\* in the warn band (commissioning/service.py _evaluate_kpis, _minimum_gate_passed).
GateMatchesKpis ==
  kind # "other" =>
    (PromotionStatus = "not_ready"
       <=> ~CriticalFail /\ Verdict("quote_unavailable_rate") = "warn")

\* The ranking puts every ready route above every blocked one of its kind, whatever
\* warnings the one has collected and however near the other is (_score_row).
ScoresSeparate ==
  kind # "other" =>
    /\ Ready => Score > Line[kind]
    /\ PromotionStatus = "promotion_blocked" => Score < Line[kind]

\* A ready route, live or shadow, has evidence the risk gate of paper trading would
\* admit, from its latest health row, and no unresolved fatal pause (readiness
\* thresholds against RiskManager.evaluate).
ReviewedRoutesAdmitted ==
  Ready =>
    /\ health.support = "supported" /\ ~fatalPaused
    /\ PaperAdmits(health.fee, health.quote, health.balance)

\* Ready ends only with a health row, a fatal pause, an opportunity blocked for a
\* counted reason or the result of a run that the notes had counted elsewhere: time,
\* snapshots of any source, further opportunities, runs, cooldowns and failed
\* attempts never take it away (the repository's statistics).
ReadyOutlivesGoodNews ==
  [][/\ UNCHANGED <<kind, health, fatalPaused>>
     /\ \A r \in Counted : opps'[r] = opps[r]
     /\ \A m \in RunModes : runs'[m] >= runs[m]
     /\ Ready
     => Ready']_vars

\* The phase of a route falls only from the review back to the replays
\* (_phase_for_route over rows that are never deleted).
PhaseOnlyFallsFromReview ==
  [][Phase' < Phase => Phase = 3 /\ Phase' = 2]_vars

=============================================================================
