----------------------------- MODULE Confidence -----------------------------
(***************************************************************************)
(* The vocabulary of evidence: how sure the bot is of a route's support,   *)
(* of its fees, of the match of its quotes and of its balances.  Words of  *)
(* older versions are read as one of the levels, and levels are compared   *)
(* by rank.                                                                *)
(***************************************************************************)
EXTENDS Integers

SupportRank == [unknown |-> 0, unsupported |-> 1, supported |-> 2]
FeeRank == [unknown |-> 0, fallback_only |-> 1, config_only |-> 2,
            venue_declared |-> 3, acct_verified |-> 4, chain_verified |-> 5]
BalanceRank == [unknown |-> 0, mismatch |-> 1, internal_ok |-> 2,
                db_inventory_ok |-> 3, wallet_verified |-> 4, venue_verified |-> 5]
QuoteRank == [unknown |-> 0, mismatch |-> 1, matched |-> 2]

Supports == DOMAIN SupportRank
FeeLevels == DOMAIN FeeRank
BalanceLevels == DOMAIN BalanceRank
QuoteLevels == DOMAIN QuoteRank

-----------------------------------------------------------------------------
(***************************************************************************)
(* Reading a word.  Words are lower case and trimmed.                      *)
(***************************************************************************)
Yes == {"true", "1", "yes", "good"}
No == {"false", "0", "no", "bad"}

NormalizeSupport(word) ==
  CASE word \in Supports           -> word
    [] word \in Yes \cup {"ok"}    -> "supported"
    [] word \in No                 -> "unsupported"
    [] OTHER                       -> "unknown"

NormalizeQuoteMatch(word) ==
  CASE word \in QuoteLevels -> word
    [] word \in Yes         -> "matched"
    [] word \in No          -> "mismatch"
    [] OTHER                -> "unknown"

ConfigWords == {"config", "configured", "configured_economic_fee"}
VenueWords == {"venue_declared", "venue_default", "venue_specific", "symbol_override"}
AccountWords == {"acct_verified", "account_verified"}
ChainWords == {"chain_verified", "chain_pool_fee"}

\* What a flag that says yes is worth, given where the fee came from.
FlaggedFee(hint) ==
  CASE hint \in ChainWords   -> "chain_verified"
    [] hint \in AccountWords -> "acct_verified"
    [] hint \in VenueWords   -> "venue_declared"
    [] OTHER                 -> "config_only"

NormalizeFee(word, hint) ==
  IF word \in FeeLevels THEN word
  ELSE IF \/ word \in {"fallback", "fallback_fee"}
          \/ hint \in {"fallback", "fallback_only"} THEN "fallback_only"
  ELSE IF word \in ConfigWords THEN "config_only"
  ELSE IF word \in VenueWords THEN "venue_declared"
  ELSE IF word \in AccountWords THEN "acct_verified"
  ELSE IF word \in ChainWords THEN "chain_verified"
  ELSE IF word \in Yes THEN FlaggedFee(hint)
  ELSE "unknown"

WalletWords == {"wallet_verified", "wallet"}
HeldWords == {"venue_verified", "venue"}
InventoryWords == {"db_inventory_ok", "db_inventory", "inventory"}
InternalWords == {"internal_ok", "internal"}
DriftWords == {"mismatch", "inventory_drift", "wallet_balance_mismatch"}

\* The hint is looked at beside the word, in the order of the levels below.
NormalizeBalance(word, hint) ==
  IF word \in BalanceLevels THEN word
  ELSE IF {word, hint} \cap WalletWords # {} THEN "wallet_verified"
  ELSE IF {word, hint} \cap HeldWords # {} THEN "venue_verified"
  ELSE IF {word, hint} \cap InventoryWords # {} THEN "db_inventory_ok"
  ELSE IF {word, hint} \cap InternalWords # {} THEN "internal_ok"
  ELSE IF word \in DriftWords THEN "mismatch"
  ELSE IF word \in Yes THEN "internal_ok"
  ELSE IF word \in No /\ hint \in DriftWords THEN "mismatch"
  ELSE "unknown"

-----------------------------------------------------------------------------
FeeAtLeast(actual, required) ==
  FeeRank[NormalizeFee(actual, "")] >= FeeRank[NormalizeFee(required, "")]

BalanceAtLeast(actual, required) ==
  BalanceRank[NormalizeBalance(actual, "")] >= BalanceRank[NormalizeBalance(required, "")]

QuoteMatchAtLeast(actual, required) ==
  QuoteRank[NormalizeQuoteMatch(actual)] >= QuoteRank[NormalizeQuoteMatch(required)]

-----------------------------------------------------------------------------
(***************************************************************************)
(* The evidence guards of the risk gate, on the statuses of a snapshot.    *)
(***************************************************************************)
EvidenceAdmitted(fee, quote, balance, minFee, minQuote, minBalance) ==
  /\ fee # "unknown" /\ FeeAtLeast(fee, minFee)
  /\ quote # "unknown" /\ QuoteMatchAtLeast(quote, minQuote)
  /\ balance \notin {"unknown", "mismatch"} /\ BalanceAtLeast(balance, minBalance)

PaperAdmits(fee, quote, balance) ==
  EvidenceAdmitted(fee, quote, balance, "fallback_only", "matched", "internal_ok")
=============================================================================
