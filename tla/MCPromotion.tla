---------------------------- MODULE MCPromotion ----------------------------
(***************************************************************************)
(* Promotion at small minimums and the default rates of settings.py.       *)
(***************************************************************************)
EXTENDS Promotion

None == [r \in Reasons |-> 0]
Clean == [None EXCEPT !["other"] = 20]

\* Three of forty unavailable is the end of the warn band of a live route.
BandEnd == [None EXCEPT !["quote_unavailable"] = 3, !["other"] = 37]
Single == [None EXCEPT !["quote_unavailable"] = 1]

\* One of twenty unavailable, a live route's limit to the digit, and every other
\* rate in its warn band; and one rate over its own.
Worn == [quote_unavailable |-> 1, health_unknown |-> 3, fee_unverified |-> 5,
         balance_unverified |-> 5, quote_mismatch |-> 3, other |-> 3]
Unhealthy == [None EXCEPT !["health_unknown"] = 9, !["other"] = 11]

SomeStretches == {Clean, BandEnd, Single, Worn, Unhealthy}

Verified == [support |-> "true", fee |-> "chain_pool_fee", quote |-> "yes",
             balance |-> "wallet", cooling |-> FALSE]
SomeHealths ==
  {Verified,
   [Verified EXCEPT !.fee = "fallback", !.balance = "yes", !.cooling = TRUE],
   [Verified EXCEPT !.balance = "unheard_of"]}

SmallNeeds ==
  [live_intent |-> [days |-> 1, snapshots |-> 40, opportunities |-> 20,
                    market |-> 1, replayed |-> 1, total |-> 0, unavailable |-> 5000],
   shadow |-> [days |-> 1, snapshots |-> 40, opportunities |-> 20,
               market |-> 0, replayed |-> 0, total |-> 2, unavailable |-> 10000]]

DefaultLimits ==
  [health_unknown |-> [warn |-> 10000, fail |-> 20000],
   fee_unverified |-> [warn |-> 20000, fail |-> 40000],
   balance_unverified |-> [warn |-> 20000, fail |-> 40000],
   quote_mismatch |-> [warn |-> 10000, fail |-> 20000]]

DefaultShadowMin ==
  [fee |-> "fallback_only", quote |-> "matched", balance |-> "internal_ok"]

\* Notes that say nothing of a mode, notes that name a mode the run does not replay,
\* and notes that name no mode at all.
SomeNotes ==
  {<<"market_snapshots", "market_snapshots">>, <<"opportunities", "opportunities">>,
   <<"market_snapshots", "opportunities">>, <<"other", "market_snapshots">>}

MiddleLine == [live_intent |-> 43000, shadow |-> 23000]
=============================================================================
