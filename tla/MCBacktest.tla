----------------------------- MODULE MCBacktest -----------------------------
(***************************************************************************)
(* Backtest over histories of up to three rows and two health rows.        *)
(***************************************************************************)
EXTENDS Backtest

Recent ==
  [fee |-> "venue_declared", feeHint |-> "", feeKnown |-> "true",
   balance |-> "db_inventory_ok", reason |-> "", quote |-> "matched", quoteFlag |-> "",
   support |-> "supported", unavailable |-> FALSE, funded |-> TRUE, sound |-> TRUE,
   wasEligible |-> TRUE]

\* A snapshot that knows nothing of itself, a row of an old version, one that was
\* never quoted, one whose inventory drifted, one without funds.
Silent == [Recent EXCEPT !.fee = "", !.feeKnown = "unknown", !.balance = "",
                         !.quote = "", !.support = "unknown", !.wasEligible = FALSE]
Old == [Recent EXCEPT !.fee = "unknown", !.balance = "yes", !.quote = "",
                      !.quoteFlag = "true", !.support = ""]
Unquoted == [Silent EXCEPT !.unavailable = TRUE, !.funded = FALSE]
Drifted == [Recent EXCEPT !.balance = "false", !.reason = "inventory_drift"]
Unfunded == [Recent EXCEPT !.funded = FALSE]

AnyRow == {Recent, Silent, Old, Drifted, Unfunded, Unquoted}

AnyHealth ==
  {[at |-> t, fee |-> "config_only", balance |-> b, quote |-> "matched",
    support |-> "supported"] : t \in 1..MaxRows, b \in {"internal_ok", "unknown"}}

NoGainOrSome == {0, 1, 3}

OneEach ==
  [always |-> 0, fallbackFee |-> 1, unverifiedFee |-> 1, unverifiedBalance |-> 1]
=============================================================================
