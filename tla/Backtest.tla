------------------------------ MODULE Backtest ------------------------------
(***************************************************************************)
(* A backtest run: the rows of a route's history are replayed one by one,  *)
(* each outcome is committed as a trade row, the aggregates are kept on    *)
(* the way and committed at the end, and the run's status says how far it  *)
(* got, whatever fails in between.                                         *)
(***************************************************************************)
EXTENDS Confidence, Sequences, FiniteSets

CONSTANTS
  Rows,        \* what a row of the history may be
  Healths,     \* what a health row may be
  Gains,       \* what a fill may be expected to bring, gas deducted
  Penalties,   \* params: the penalties, in the unit of Gains
  MaxRows,     \* bound on the rows of a history
  MaxHealths,  \* bound on its health rows
  MinFee,      \* params: min_fee_confidence_status
  MinBalance,  \* params: min_balance_confidence_status
  ZeroEdge     \* params: min_modeled_edge_bps <= 0

Modes == {"opportunities", "opportunities_legacy", "market_snapshots"}

\* Statuses are words of whatever version wrote the row; "sound" says that the
\* checks of edge, slippage, age and liquidity pass.
RowType ==
  [fee : STRING, feeHint : STRING, feeKnown : STRING, balance : STRING,
   reason : STRING, quote : STRING, quoteFlag : STRING, support : STRING,
   unavailable : BOOLEAN,
   funded : BOOLEAN, sound : BOOLEAN, wasEligible : BOOLEAN]
HealthType ==
  [at : 1..MaxRows, fee : FeeLevels, balance : BalanceLevels, quote : QuoteLevels,
   support : Supports]

ASSUME BacktestAssumption ==
  /\ Rows \subseteq RowType /\ Healths \subseteq HealthType
  /\ Gains \subseteq Int
  /\ Penalties \in [always : Nat, fallbackFee : Nat, unverifiedFee : Nat,
                   unverifiedBalance : Nat]
  /\ MaxRows \in Nat /\ MaxHealths \in Nat
  /\ MinFee \in STRING /\ MinBalance \in STRING
  /\ ZeroEdge \in BOOLEAN

VARIABLES
  mode,      \* replay_mode
  rows,      \* the listed history: row k has timestamp k
  health,    \* the listed health rows, in the order of their timestamps
  run,       \* BacktestRun.status
  trades,    \* the BacktestTrade rows of the run
  result,    \* its BacktestResult row
  acc,       \* the accumulators of the replay
  seen,      \* health_ptr
  session,   \* whether the database session can still be used
  pc,        \* where the engine is
  answer     \* what the caller is told

vars == <<mode, rows, health, run, trades, result, acc, seen, session, pc, answer>>
history == <<mode, rows, health>>

Outcomes == [signals : Nat, eligible : Nat, blocked : Nat, missed : Nat,
             positive : Nat, pnl : Int, drawdown : Nat, worst : Nat]
Accumulators == [eligible : Nat, blocked : Nat, missed : Nat, positive : Nat,
                 pnl : Int, drawdown : Nat, worst : Nat, peak : Nat, losing : Nat]
NoResult == [signals |-> -1]

TypeOK ==
  /\ mode \in Modes /\ rows \in Seq(Rows) /\ health \in Seq(Healths)
  /\ run \in {"none", "running", "completed", "failed"}
  /\ trades \in Seq([fill : BOOLEAN, pnl : Int])
  /\ result \in Outcomes \cup {NoResult}
  /\ acc \in Accumulators
  /\ seen \in 0..Len(health)
  /\ session \in {"usable", "broken"}
  /\ pc \in {"create", "list", "replay", "store", "except", "done"}
  /\ answer \in {"none", "completed", "failed", "error"}

Histories(S, n) == UNION {[1..k -> S] : k \in 0..n}
Ordered(h) == \A i, j \in DOMAIN h : i < j => h[i].at <= h[j].at

Init ==
  /\ mode \in Modes
  /\ rows \in Histories(Rows, MaxRows)
  /\ health \in {h \in Histories(Healths, MaxHealths) : Ordered(h)}
  /\ mode # "market_snapshots" => health = <<>>
  /\ run = "none" /\ trades = <<>> /\ result = NoResult
  /\ acc = [eligible |-> 0, blocked |-> 0, missed |-> 0, positive |-> 0, pnl |-> 0,
            drawdown |-> 0, worst |-> 0, peak |-> 0, losing |-> 0]
  /\ seen = 0 /\ session = "usable" /\ pc = "create" /\ answer = "none"

-----------------------------------------------------------------------------
(***************************************************************************)
(* What a row shows.                                                       *)
(***************************************************************************)
\* From the row alone; a flag of older versions vouches for a configured fee,
\* and only the legacy mode takes a quoted route for a supported one.
OpportunityEvidence(row) ==
  LET fee == NormalizeFee(row.fee, row.feeHint)
      quote == NormalizeQuoteMatch(row.quote)
      support == NormalizeSupport(row.support)
  IN  [fee     |-> IF fee = "unknown" /\ row.feeKnown = "true" THEN "config_only" ELSE fee,
       balance |-> NormalizeBalance(row.balance, row.reason),
       quote   |-> IF quote = "unknown" THEN NormalizeQuoteMatch(row.quoteFlag) ELSE quote,
       support |-> IF /\ mode = "opportunities_legacy"
                      /\ support = "unknown" /\ ~row.unavailable
                   THEN "supported" ELSE support]

\* From the snapshot, and where it is silent from the health row h in force
\* (0: none yet); a health row that knows the support has the last word on it.
SnapshotEvidence(row, h) ==
  LET own == [fee     |-> NormalizeFee(row.fee, row.feeHint),
              balance |-> NormalizeBalance(row.balance, row.reason),
              quote   |-> NormalizeQuoteMatch(row.quote),
              support |-> NormalizeSupport(row.support)]
      Filled(k) == IF h # 0 /\ own[k] = "unknown" THEN health[h][k] ELSE own[k]
      support == IF h # 0 /\ health[h].support # "unknown" THEN health[h].support
                 ELSE own.support
  IN  [fee     |-> Filled("fee"),
       balance |-> Filled("balance"),
       quote   |-> Filled("quote"),
       support |-> IF row.unavailable /\ support = "unknown" THEN "unsupported"
                   ELSE support]

Evidence(row, h) ==
  IF mode = "market_snapshots" THEN SnapshotEvidence(row, h) ELSE OpportunityEvidence(row)

\* Mutant: a balance nobody checked is not asked for.
Vouched_AnyBalance(e) ==
  /\ e.support = "supported"
  /\ e.fee # "unknown" /\ FeeAtLeast(e.fee, MinFee)
  /\ e.quote = "matched"
  /\ e.balance # "mismatch"

\* The evidence checks of either replay.
Vouched(e) ==
  /\ e.support = "supported"
  /\ e.fee # "unknown" /\ FeeAtLeast(e.fee, MinFee)
  /\ e.quote = "matched"
  /\ e.balance \notin {"unknown", "mismatch"} /\ BalanceAtLeast(e.balance, MinBalance)

\* The edge over no funds is zero in a snapshot replay; an opportunity without
\* funds is blocked.
Fills(row, h) ==
  /\ ~row.unavailable /\ Vouched(Evidence(row, h))
  /\ row.sound
  /\ row.funded \/ (mode = "market_snapshots" /\ ZeroEdge)

\* Weak evidence costs: what a fill pays for gas, drift and latency, and for a
\* fee or balance that nobody verified.
Penalty(e) ==
  Penalties.always
  + (IF e.fee = "fallback_only" THEN Penalties.fallbackFee ELSE 0)
  + (IF e.fee \in {"fallback_only", "config_only"} THEN Penalties.unverifiedFee ELSE 0)
  + (IF e.balance \in {"unknown", "internal_ok", "db_inventory_ok"}
     THEN Penalties.unverifiedBalance ELSE 0)

-----------------------------------------------------------------------------
(***************************************************************************)
(* The accumulators.                                                       *)
(***************************************************************************)
Larger(a, b) == IF a < b THEN b ELSE a

\* Mutant: the drawdown of the moment, from the peak before it.
AfterFill_OldPeak(pnl) ==
  [acc EXCEPT !.eligible = @ + 1, !.pnl = @ + pnl,
              !.peak = Larger(@, acc.pnl + pnl), !.drawdown = acc.peak - (acc.pnl + pnl)]

\* Mutant: only a gain ends a losing sequence.
AfterFill_ZeroLoses(pnl) ==
  LET sum == acc.pnl + pnl
      peak == Larger(acc.peak, sum)
      losing == IF pnl > 0 THEN 0 ELSE acc.losing + 1
  IN  [acc EXCEPT !.eligible = @ + 1, !.positive = IF pnl > 0 THEN @ + 1 ELSE @,
                  !.pnl = sum, !.peak = peak, !.drawdown = Larger(@, peak - sum),
                  !.losing = losing, !.worst = Larger(@, losing)]

AfterFill(pnl) ==
  LET sum == acc.pnl + pnl
      peak == Larger(acc.peak, sum)
      losing == IF pnl < 0 THEN acc.losing + 1 ELSE 0
  IN  [acc EXCEPT !.eligible = @ + 1, !.positive = IF pnl > 0 THEN @ + 1 ELSE @,
                  !.pnl = sum, !.peak = peak, !.drawdown = Larger(@, peak - sum),
                  !.losing = losing, !.worst = Larger(@, losing)]

\* What was eligible when recorded and is blocked now was missed; snapshots do
\* not say what became of them.
Missed(row) == mode # "market_snapshots" /\ row.wasEligible

AfterBlock(row) ==
  [acc EXCEPT !.blocked = @ + 1, !.missed = IF Missed(row) THEN @ + 1 ELSE @]

Summary ==
  [signals |-> Len(rows), eligible |-> acc.eligible, blocked |-> acc.blocked,
   missed |-> acc.missed, positive |-> acc.positive, pnl |-> acc.pnl,
   drawdown |-> acc.drawdown, worst |-> acc.worst]

-----------------------------------------------------------------------------
(***************************************************************************)
(* The writes, each one commit.                                            *)
(***************************************************************************)
Turn == Len(trades) + 1               \* the row whose turn it is
Replayed == Turn > Len(rows)

\* Mutant: a health row of the same instant comes too late.
Advanced_Strict ==
  CHOOSE n \in seen..Len(health) :
    /\ \A i \in seen + 1..n : health[i].at < Turn
    /\ n < Len(health) => health[n + 1].at >= Turn

\* health_ptr after the loop that catches up with the row's timestamp.
Advanced ==
  CHOOSE n \in seen..Len(health) :
    /\ \A i \in seen + 1..n : health[i].at <= Turn
    /\ n < Len(health) => health[n + 1].at > Turn

WriteRun(status) == run' = status /\ UNCHANGED <<trades, result>>

WriteTrade(trade) == trades' = Append(trades, trade) /\ UNCHANGED <<run, result>>

\* Mutant: the result is added to the session and not committed.
WriteResult_Uncommitted == UNCHANGED <<run, trades, result>>

WriteResult == result' = Summary /\ UNCHANGED <<run, trades>>

ReplayFill(gain) ==
  /\ pc = "replay" /\ ~Replayed
  /\ Fills(rows[Turn], Advanced)
  /\ LET pnl == gain - Penalty(Evidence(rows[Turn], Advanced))
     IN  acc' = AfterFill(pnl) /\ WriteTrade([fill |-> TRUE, pnl |-> pnl])

ReplayBlock ==
  /\ pc = "replay" /\ ~Replayed
  /\ ~Fills(rows[Turn], Advanced)
  /\ acc' = AfterBlock(rows[Turn])
  /\ WriteTrade([fill |-> FALSE, pnl |-> 0])

ReplayRow ==
  /\ ReplayBlock \/ \E gain \in Gains : ReplayFill(gain)
  /\ seen' = Advanced

-----------------------------------------------------------------------------
(***************************************************************************)
(* The engine's run.                                                       *)
(***************************************************************************)
Create ==
  /\ pc = "create" /\ pc' = "list"
  /\ WriteRun("running")
  /\ UNCHANGED <<history, acc, seen, session, answer>>

ListRows ==
  /\ pc = "list" /\ pc' = "replay"
  /\ UNCHANGED <<history, run, trades, result, acc, seen, session, answer>>

Replay ==
  /\ ReplayRow
  /\ UNCHANGED <<history, session, pc, answer>>

StoreResult ==
  /\ pc = "replay" /\ Replayed /\ pc' = "store"
  /\ WriteResult
  /\ UNCHANGED <<history, acc, seen, session, answer>>

Complete ==
  /\ pc = "store" /\ pc' = "done" /\ answer' = "completed"
  /\ WriteRun("completed")
  /\ UNCHANGED <<history, acc, seen, session>>

\* The except branch: it answers that the run failed once it could write so.
Fail ==
  /\ pc = "except" /\ session = "usable"
  /\ pc' = "done" /\ answer' = "failed"
  /\ WriteRun("failed")
  /\ UNCHANGED <<history, acc, seen, session>>

-----------------------------------------------------------------------------
(***************************************************************************)
(* What goes wrong.                                                        *)
(***************************************************************************)
\* A payload that cannot be read, before anything of its row is written.
DataFault ==
  /\ pc = "replay" /\ ~Replayed /\ pc' = "except"
  /\ UNCHANGED <<history, run, trades, result, acc, seen, session, answer>>

\* A query or commit raises inside the try.  The commit may have happened all
\* the same, and the session may refuse everything until it is rolled back.
DatabaseFault ==
  /\ pc \in {"list", "replay", "store"} /\ pc' = "except"
  /\ session' \in {"usable", "broken"}
  /\ \/ UNCHANGED <<run, trades, result, acc, seen>>
     \/ ReplayRow
     \/ /\ pc = "replay" /\ Replayed /\ WriteResult
        /\ UNCHANGED <<acc, seen>>
     \/ /\ pc = "store" /\ WriteRun("completed")
        /\ UNCHANGED <<acc, seen>>
  /\ UNCHANGED <<history, answer>>

\* Creating the run or writing its failure raises, outside any try: the caller
\* gets an error.
Escape ==
  /\ pc \in {"create", "except"} /\ pc' = "done" /\ answer' = "error"
  /\ \/ UNCHANGED <<run, trades, result>>
     \/ pc = "create" /\ WriteRun("running")
     \/ pc = "except" /\ session = "usable" /\ WriteRun("failed")
  /\ UNCHANGED <<history, acc, seen, session>>

\* The process ends; nothing ever looks at the run again.
Crash ==
  /\ pc # "done" /\ pc' = "done"
  /\ UNCHANGED <<history, run, trades, result, acc, seen, session, answer>>

Next ==
  \/ Create \/ ListRows \/ Replay \/ StoreResult \/ Complete \/ Fail
  \/ DataFault \/ DatabaseFault \/ Escape \/ Crash

Spec == Init /\ [][Next]_vars

-----------------------------------------------------------------------------
(***************************************************************************)
(* Properties.                                                             *)
(***************************************************************************)
Largest(S) == CHOOSE m \in S : \A n \in S : n <= m

\* The latest health row that is not younger than row k.
InForce(k) == Largest({0} \cup {i \in DOMAIN health : health[i].at <= k})

\* Every trade row on record is what its history row comes to in the light of
\* the health row in force at its time: the replay neither looks ahead nor
\* goes on with a health row that was superseded, and skips no row.
TradesFollowHistory ==
  /\ Len(trades) <= Len(rows)
  /\ \A k \in DOMAIN trades : trades[k].fill <=> Fills(rows[k], InForce(k))

\* Whatever the minimum levels of the parameter set, no replay fills a row
\* whose evidence the paper gate of the risk manager would turn away.
FillsPassTheGate ==
  \A k \in DOMAIN trades : trades[k].fill =>
    LET e == Evidence(rows[k], InForce(k)) IN PaperAdmits(e.fee, e.quote, e.balance)

\* What the caller is told is on record, and a run on record as completed has
\* its result and every trade row.
RecordStandsForAnswer ==
  /\ answer \in {"completed", "failed"} => run = answer
  /\ run = "completed" => result # NoResult /\ Len(trades) = Len(rows)

\* The equity curve: what the stored fills have brought up to the n-th row.
Gain(k) == IF trades[k].fill THEN trades[k].pnl ELSE 0
Equity ==
  LET sum[n \in 0..Len(trades)] == IF n = 0 THEN 0 ELSE sum[n - 1] + Gain(n) IN sum

\* The stretches of rows, from after p[1] to p[2], and the fills in one.
Stretches == {p \in (0..Len(trades)) \X (0..Len(trades)) : p[1] <= p[2]}
FillsIn(p) == {k \in p[1] + 1..p[2] : trades[k].fill}
AllLose(p) == \A k \in FillsIn(p) : trades[k].pnl < 0

\* The stored result is that of the stored trades: drawdown is the deepest fall
\* between any two points of the equity curve, the worst sequence the most fills
\* of a stretch in which every fill loses.
ResultMatchesTrades ==
  result # NoResult =>
    LET n == Len(trades)
        fills == FillsIn(<<0, n>>)
        blocked == (1..n) \ fills
    IN  /\ result.signals = n
        /\ result.eligible = Cardinality(fills) /\ result.signals = result.eligible + result.blocked
        /\ result.missed = Cardinality({k \in blocked : Missed(rows[k])})
        /\ result.positive = Cardinality({k \in fills : trades[k].pnl > 0})
        /\ result.pnl = Equity[n]
        /\ result.drawdown = Largest({Equity[p[1]] - Equity[p[2]] : p \in Stretches})
        /\ result.worst = Largest({Cardinality(FillsIn(p)) : p \in {q \in Stretches : AllLose(q)}})
=============================================================================
