--------------------------- MODULE BacktestProofs ---------------------------
(***************************************************************************)
(* Proofs about Backtest for every history, every set of gains and every   *)
(* parameter set: typing, the replay follows the history, no fill escapes  *)
(* the paper gate, the record stands for the answer, and the stored result *)
(* is the one of the stored trades; and about the vocabulary of evidence.  *)
(***************************************************************************)
EXTENDS Backtest, WellFoundedInduction, SequenceTheorems, FiniteSetTheorems, TLAPS

-----------------------------------------------------------------------------
(***************************************************************************)
(* Evidence.                                                               *)
(***************************************************************************)
LEMMA LevelsTyped ==
  /\ \A w, h : NormalizeFee(w, h) \in FeeLevels
  /\ \A w, h : NormalizeBalance(w, h) \in BalanceLevels
  /\ \A w : NormalizeQuoteMatch(w) \in QuoteLevels
  /\ \A w : NormalizeSupport(w) \in Supports
<1>1. ASSUME NEW w, NEW h PROVE NormalizeFee(w, h) \in FeeLevels
  BY DEF NormalizeFee, FlaggedFee, FeeLevels, FeeRank
<1>2. ASSUME NEW w, NEW h PROVE NormalizeBalance(w, h) \in BalanceLevels
  BY DEF NormalizeBalance, BalanceLevels, BalanceRank
<1>3. ASSUME NEW w PROVE NormalizeQuoteMatch(w) \in QuoteLevels
  BY DEF NormalizeQuoteMatch, QuoteLevels, QuoteRank
<1>4. ASSUME NEW w PROVE NormalizeSupport(w) \in Supports
  BY DEF NormalizeSupport, Supports, SupportRank
<1> QED BY <1>1, <1>2, <1>3, <1>4

\* A level is read as itself, whatever hint comes with it.
LEMMA LevelsKept ==
  /\ \A l \in FeeLevels : NormalizeFee(l, "") = l
  /\ \A l \in BalanceLevels : NormalizeBalance(l, "") = l
  /\ \A l \in QuoteLevels : NormalizeQuoteMatch(l) = l
<1>1. \A l \in FeeLevels : NormalizeFee(l, "") = l BY DEF NormalizeFee
<1>2. \A l \in BalanceLevels : NormalizeBalance(l, "") = l BY DEF NormalizeBalance
<1>3. \A l \in QuoteLevels : NormalizeQuoteMatch(l) = l
  BY DEF NormalizeQuoteMatch, QuoteLevels, QuoteRank, Yes, No
<1> QED BY <1>1, <1>2, <1>3

LEMMA RanksTyped ==
  /\ \A l \in FeeLevels : FeeRank[l] \in Int
  /\ \A l \in BalanceLevels : BalanceRank[l] \in Int
<1>1. \A l \in FeeLevels : FeeRank[l] \in Int BY DEF FeeLevels, FeeRank
<1>2. \A l \in BalanceLevels : BalanceRank[l] \in Int BY DEF BalanceLevels, BalanceRank
<1> QED BY <1>1, <1>2

\* At least as good as something that is good enough.
LEMMA FeeMonotone ==
  ASSUME NEW l \in FeeLevels, NEW m \in FeeLevels, NEW required,
         FeeRank[l] <= FeeRank[m], FeeAtLeast(l, required)
  PROVE  FeeAtLeast(m, required)
<1> DEFINE r == NormalizeFee(required, "")
<1>1. r \in FeeLevels BY LevelsTyped
<1>2. FeeRank[l] >= FeeRank[r] BY LevelsKept DEF FeeAtLeast
<1>3. NormalizeFee(m, "") = m BY LevelsKept
<1> HIDE DEF r
<1>4. FeeRank[l] \in Int BY RanksTyped
<1>5. FeeRank[m] \in Int BY RanksTyped
<1>6. FeeRank[r] \in Int BY <1>1, RanksTyped
<1>7. \A a, b, c \in Int : a <= b /\ a >= c => b >= c OBVIOUS
<1>8. FeeRank[m] >= FeeRank[r] BY <1>2, <1>4, <1>5, <1>6, <1>7
<1> QED BY <1>3, <1>8 DEF FeeAtLeast, r

LEMMA BalanceMonotone ==
  ASSUME NEW l \in BalanceLevels, NEW m \in BalanceLevels, NEW required,
         BalanceRank[l] <= BalanceRank[m], BalanceAtLeast(l, required)
  PROVE  BalanceAtLeast(m, required)
<1> DEFINE r == NormalizeBalance(required, "")
<1>1. r \in BalanceLevels BY LevelsTyped
<1>2. BalanceRank[l] >= BalanceRank[r] BY LevelsKept DEF BalanceAtLeast
<1>3. NormalizeBalance(m, "") = m BY LevelsKept
<1> HIDE DEF r
<1>4. BalanceRank[l] \in Int BY RanksTyped
<1>5. BalanceRank[m] \in Int BY RanksTyped
<1>6. BalanceRank[r] \in Int BY <1>1, RanksTyped
<1>7. \A a, b, c \in Int : a <= b /\ a >= c => b >= c OBVIOUS
<1>8. BalanceRank[m] >= BalanceRank[r] BY <1>2, <1>4, <1>5, <1>6, <1>7
<1> QED BY <1>3, <1>8 DEF BalanceAtLeast, r

\* Paper asks for the least level that says anything good at all.
LEMMA PaperLevels ==
  ASSUME NEW fee \in FeeLevels, fee # "unknown",
         NEW balance \in BalanceLevels, balance \notin {"unknown", "mismatch"}
  PROVE  PaperAdmits(fee, "matched", balance)
<1>1. FeeAtLeast(fee, "fallback_only")
  <2>1. FeeRank[fee] >= FeeRank["fallback_only"] BY DEF FeeLevels, FeeRank
  <2>2. "fallback_only" \in FeeLevels BY DEF FeeLevels, FeeRank
  <2> QED BY <2>1, <2>2, LevelsKept DEF FeeAtLeast
<1>2. BalanceAtLeast(balance, "internal_ok")
  <2>1. BalanceRank[balance] >= BalanceRank["internal_ok"]
    BY DEF BalanceLevels, BalanceRank
  <2>2. "internal_ok" \in BalanceLevels BY DEF BalanceLevels, BalanceRank
  <2> QED BY <2>1, <2>2, LevelsKept DEF BalanceAtLeast
<1>3. QuoteMatchAtLeast("matched", "matched")
  <2>1. NormalizeQuoteMatch("matched") = "matched" BY LevelsKept DEF QuoteLevels, QuoteRank
  <2>2. QuoteRank["matched"] = 2 BY DEF QuoteRank
  <2> QED BY <2>1, <2>2 DEF QuoteMatchAtLeast
<1> QED BY <1>1, <1>2, <1>3 DEF PaperAdmits, EvidenceAdmitted

LEMMA VouchedAdmitted ==
  ASSUME NEW e, e.fee \in FeeLevels, e.balance \in BalanceLevels, Vouched(e)
  PROVE  PaperAdmits(e.fee, e.quote, e.balance)
<1>1. /\ e.fee # "unknown" /\ e.quote = "matched"
      /\ e.balance \notin {"unknown", "mismatch"}
  BY DEF Vouched
<1> QED BY <1>1, PaperLevels

\* Evidence f is at least as good as e.
Better(e, f) ==
  /\ FeeRank[e.fee] <= FeeRank[f.fee]
  /\ BalanceRank[e.balance] <= BalanceRank[f.balance]
  /\ f.quote = e.quote \/ f.quote = "matched"
  /\ f.support = e.support \/ f.support = "supported"

EvidenceType ==
  [fee : FeeLevels, balance : BalanceLevels, quote : QuoteLevels, support : Supports]

\* Better evidence never costs a fill and never costs more: the replay's evidence
\* checks and penalties (engine.py) are monotone, for every parameter set.
THEOREM BetterEvidenceNeverHurts ==
  ASSUME NEW e \in EvidenceType, NEW f \in EvidenceType, Better(e, f), Vouched(e)
  PROVE  Vouched(f) /\ Penalty(f) <= Penalty(e)
<1>1. /\ e.fee \in FeeLevels /\ f.fee \in FeeLevels
      /\ e.balance \in BalanceLevels /\ f.balance \in BalanceLevels
  BY DEF EvidenceType
<1>2. f.support = "supported" /\ f.quote = "matched" BY DEF Better, Vouched
<1>3. f.fee # "unknown"
  BY <1>1 DEF Better, Vouched, FeeLevels, FeeRank
<1>4. FeeAtLeast(f.fee, MinFee) BY <1>1, FeeMonotone DEF Better, Vouched
<1>5. f.balance \notin {"unknown", "mismatch"}
  BY <1>1 DEF Better, Vouched, BalanceLevels, BalanceRank
<1>6. BalanceAtLeast(f.balance, MinBalance)
  BY <1>1, BalanceMonotone DEF Better, Vouched
<1>7. Vouched(f) BY <1>2, <1>3, <1>4, <1>5, <1>6 DEF Vouched
<1>8. Penalty(f) <= Penalty(e)
  <2>1. /\ Penalties.always \in Nat /\ Penalties.fallbackFee \in Nat
        /\ Penalties.unverifiedFee \in Nat /\ Penalties.unverifiedBalance \in Nat
    BY BacktestAssumption DEF BacktestAssumption
  <2>2. f.fee = "fallback_only" => e.fee = "fallback_only"
    BY <1>1 DEF Better, Vouched, FeeLevels, FeeRank
  <2>3. f.fee = "config_only" => e.fee \in {"fallback_only", "config_only"}
    BY <1>1 DEF Better, Vouched, FeeLevels, FeeRank
  <2>4. f.balance \in {"unknown", "internal_ok", "db_inventory_ok"}
          => e.balance \in {"unknown", "internal_ok", "db_inventory_ok"}
    BY <1>1, <1>5 DEF Better, Vouched, BalanceLevels, BalanceRank
  <2> QED BY <2>1, <2>2, <2>3, <2>4 DEF Penalty
<1> QED BY <1>7, <1>8

\* In live mode the gate asks for the configured levels instead (manager.py), which
\* may be any (settings.py).  What live admits paper admits too exactly when the
\* configured quote level is "matched", whatever the two others are: with a weaker
\* one, live admits a mismatch that paper refuses.
THEOREM LiveAsStrictWhenMatched ==
  ASSUME NEW minFee, NEW minQuote, NEW minBalance
  PROVE  NormalizeQuoteMatch(minQuote) = "matched" <=>
           \A fee \in FeeLevels, quote \in QuoteLevels, balance \in BalanceLevels :
             EvidenceAdmitted(fee, quote, balance, minFee, minQuote, minBalance)
               => PaperAdmits(fee, quote, balance)
<1>0. \A l \in QuoteLevels : NormalizeQuoteMatch(l) = l BY LevelsKept
<1>1. ASSUME NormalizeQuoteMatch(minQuote) = "matched",
             NEW fee \in FeeLevels, NEW quote \in QuoteLevels, NEW balance \in BalanceLevels,
             EvidenceAdmitted(fee, quote, balance, minFee, minQuote, minBalance)
      PROVE  PaperAdmits(fee, quote, balance)
  <2>1. fee # "unknown" /\ balance \notin {"unknown", "mismatch"}
    BY <1>1 DEF EvidenceAdmitted
  <2>2. QuoteRank[quote] >= QuoteRank["matched"]
    BY <1>0, <1>1 DEF EvidenceAdmitted, QuoteMatchAtLeast
  <2>3. quote = "matched" BY <2>2 DEF QuoteLevels, QuoteRank
  <2> QED BY <2>1, <2>3, PaperLevels
<1>2. ASSUME NormalizeQuoteMatch(minQuote) # "matched"
      PROVE  /\ EvidenceAdmitted("chain_verified", "mismatch", "venue_verified",
                                minFee, minQuote, minBalance)
             /\ ~PaperAdmits("chain_verified", "mismatch", "venue_verified")
  <2>1. "chain_verified" \in FeeLevels /\ "venue_verified" \in BalanceLevels
        /\ "mismatch" \in QuoteLevels /\ "matched" \in QuoteLevels
    BY DEF FeeLevels, FeeRank, BalanceLevels, BalanceRank, QuoteLevels, QuoteRank
  <2>2. NormalizeFee(minFee, "") \in FeeLevels /\ NormalizeBalance(minBalance, "") \in BalanceLevels
        /\ NormalizeQuoteMatch(minQuote) \in QuoteLevels
    BY LevelsTyped
  <2>3. NormalizeFee("chain_verified", "") = "chain_verified"
        /\ NormalizeBalance("venue_verified", "") = "venue_verified"
        /\ NormalizeQuoteMatch("mismatch") = "mismatch" /\ NormalizeQuoteMatch("matched") = "matched"
    BY <2>1, LevelsKept
  <2>4. \A l \in FeeLevels : FeeRank["chain_verified"] >= FeeRank[l]
    BY DEF FeeLevels, FeeRank
  <2>5. \A l \in BalanceLevels : BalanceRank["venue_verified"] >= BalanceRank[l]
    BY DEF BalanceLevels, BalanceRank
  <2>6. \A l \in QuoteLevels : l # "matched" => QuoteRank["mismatch"] >= QuoteRank[l]
    BY DEF QuoteLevels, QuoteRank
  <2>7. FeeAtLeast("chain_verified", minFee) BY <2>2, <2>3, <2>4 DEF FeeAtLeast
  <2>8. BalanceAtLeast("venue_verified", minBalance) BY <2>2, <2>3, <2>5 DEF BalanceAtLeast
  <2>9. QuoteMatchAtLeast("mismatch", minQuote)
    BY <1>2, <2>2, <2>3, <2>6 DEF QuoteMatchAtLeast
  <2>10. ~QuoteMatchAtLeast("mismatch", "matched")
    <3>1. ~(QuoteRank["mismatch"] >= QuoteRank["matched"]) BY DEF QuoteRank
    <3> QED BY <2>3, <3>1 DEF QuoteMatchAtLeast
  <2> QED BY <2>7, <2>8, <2>9, <2>10 DEF EvidenceAdmitted, PaperAdmits
<1>3. "chain_verified" \in FeeLevels /\ "venue_verified" \in BalanceLevels /\ "mismatch" \in QuoteLevels
  BY DEF FeeLevels, FeeRank, BalanceLevels, BalanceRank, QuoteLevels, QuoteRank
<1> QED BY <1>1, <1>2, <1>3

\* Reading a word twice, whatever hint comes with it the second time, reads it as
\* the first time did: the rows, the snapshot, the gate and the reports may each
\* normalise what another has normalised (confidence.py).
THEOREM WordsReadOnce ==
  /\ \A w, h, g : NormalizeFee(NormalizeFee(w, h), g) = NormalizeFee(w, h)
  /\ \A w, h, g : NormalizeBalance(NormalizeBalance(w, h), g) = NormalizeBalance(w, h)
  /\ \A w : NormalizeQuoteMatch(NormalizeQuoteMatch(w)) = NormalizeQuoteMatch(w)
  /\ \A w : NormalizeSupport(NormalizeSupport(w)) = NormalizeSupport(w)
<1>1. \A l \in FeeLevels : \A g : NormalizeFee(l, g) = l BY DEF NormalizeFee
<1>2. \A l \in BalanceLevels : \A g : NormalizeBalance(l, g) = l BY DEF NormalizeBalance
<1>3. \A l \in Supports : NormalizeSupport(l) = l
  BY DEF NormalizeSupport, Supports, SupportRank, Yes, No
<1> QED BY <1>1, <1>2, <1>3, LevelsTyped, LevelsKept, Zenon

-----------------------------------------------------------------------------
(***************************************************************************)
(* The health pointer.                                                     *)
(***************************************************************************)
\* No consumed health row is younger than the row whose turn it is.
PointerBehind ==
  pc \in {"create", "list", "replay"} => \A i \in 1..seen : health[i].at <= Turn

PastRows == \A i \in DOMAIN health : health[i].at \in Int

LEMMA AdvancedExists ==
  ASSUME health \in Seq(Healths), PastRows, seen \in 0..Len(health), Turn \in Nat
  PROVE  /\ Advanced \in seen..Len(health)
         /\ \A i \in seen + 1..Advanced : health[i].at <= Turn
         /\ Advanced < Len(health) => health[Advanced + 1].at > Turn
<1> DEFINE P(n) == /\ \A i \in seen + 1..n : health[i].at <= Turn
                   /\ n < Len(health) => health[n + 1].at > Turn
           stops == {n \in seen..Len(health) : n < Len(health) => health[n + 1].at > Turn}
<1>0. Len(health) \in Nat /\ DOMAIN health = 1..Len(health) OBVIOUS
<1>1. stops \in SUBSET Nat /\ Len(health) \in stops BY <1>0
<1> HIDE DEF stops
<1>2. PICK m \in stops : \A n \in stops : ~(<<n, m>> \in OpToRel(<, Nat))
  BY <1>1, WFMin, NatLessThanWellFounded
<1>3. \A n \in stops : ~(n < m) BY <1>1, <1>2 DEF OpToRel
<1> USE DEF stops
<1>4. m \in seen..Len(health) /\ (m < Len(health) => health[m + 1].at > Turn) OBVIOUS
<1>5. \A i \in seen + 1..m : health[i].at <= Turn
  <2> SUFFICES ASSUME NEW i \in seen + 1..m PROVE health[i].at <= Turn
    OBVIOUS
  <2>1. i - 1 \in seen..Len(health) /\ i - 1 < m BY <1>0, <1>4
  <2>2. i - 1 \notin stops BY <1>3, <2>1
  <2>3. ~(i - 1 < Len(health) => health[i - 1 + 1].at > Turn) BY <2>1, <2>2
  <2>4. i - 1 + 1 = i /\ i \in 1..Len(health) BY <2>1, <1>0
  <2>5. health[i].at \in Int BY <2>4, <1>0 DEF PastRows
  <2> HIDE DEF stops
  <2> QED BY <2>3, <2>4, <2>5
<1>6. P(m) BY <1>4, <1>5
<1>7. \E n \in seen..Len(health) : P(n) BY <1>4, <1>6
<1>8. Advanced = CHOOSE n \in seen..Len(health) : P(n) BY DEF Advanced
<1> HIDE DEF P
<1>9. Advanced \in seen..Len(health) /\ P(Advanced) BY <1>7, <1>8
<1> QED BY <1>9 DEF P

LEMMA LargestOfPrefix ==
  ASSUME NEW n \in Nat
  PROVE  Largest(0..n) = n
<1>1. n \in 0..n /\ \A x \in 0..n : x <= n OBVIOUS
<1>2. \A m \in 0..n : (\A x \in 0..n : x <= m) => m = n OBVIOUS
<1> QED BY <1>1, <1>2 DEF Largest

\* Where the loop stops is the health row in force.
LEMMA AdvancedInForce ==
  ASSUME health \in Seq(Healths), PastRows, Ordered(health), seen \in 0..Len(health),
         Turn \in Nat, \A i \in 1..seen : health[i].at <= Turn
  PROVE  Advanced = InForce(Turn)
<1>0. Len(health) \in Nat /\ DOMAIN health = 1..Len(health) OBVIOUS
<1>1. /\ Advanced \in seen..Len(health)
      /\ \A i \in seen + 1..Advanced : health[i].at <= Turn
      /\ Advanced < Len(health) => health[Advanced + 1].at > Turn
  BY AdvancedExists
<1> DEFINE n == Advanced
<1> HIDE DEF n
<1>2. n \in Nat /\ n <= Len(health) /\ seen <= n BY <1>0, <1>1 DEF n
<1>3. \A i \in 1..n : health[i].at <= Turn
  <2> SUFFICES ASSUME NEW i \in 1..n PROVE health[i].at <= Turn
    OBVIOUS
  <2>1. i \in 1..seen \/ i \in seen + 1..n BY <1>2
  <2> QED BY <1>1, <2>1 DEF n
<1>4. \A i \in n + 1..Len(health) : ~(health[i].at <= Turn)
  <2> SUFFICES ASSUME NEW i \in n + 1..Len(health) PROVE ~(health[i].at <= Turn)
    OBVIOUS
  <2>1. n < Len(health) /\ n + 1 \in DOMAIN health /\ i \in DOMAIN health
    BY <1>0, <1>2
  <2>2. health[n + 1].at > Turn BY <1>1, <2>1 DEF n
  <2>3. n + 1 = i \/ health[n + 1].at <= health[i].at
    <3>1. n + 1 = i \/ n + 1 < i BY <1>2
    <3> QED BY <3>1, <2>1 DEF Ordered
  <2>4. health[n + 1].at \in Int /\ health[i].at \in Int BY <2>1 DEF PastRows
  <2>5. \A a, b, t \in Int : a > t /\ a <= b => ~(b <= t) OBVIOUS
  <2>6. \A a, t \in Int : a > t => ~(a <= t) OBVIOUS
  <2> QED BY <2>2, <2>3, <2>4, <2>5, <2>6
<1>5. {0} \cup {i \in DOMAIN health : health[i].at <= Turn} = 0..n
  <2>1. \A i \in 1..Len(health) : health[i].at <= Turn <=> i \in 1..n
    BY <1>2, <1>3, <1>4
  <2>2. {i \in DOMAIN health : health[i].at <= Turn} = 1..n BY <1>0, <1>2, <2>1
  <2> HIDE DEF n
  <2>3. {0} \cup 1..n = 0..n BY <1>2
  <2> QED BY <2>2, <2>3
<1>6. InForce(Turn) = n BY <1>2, <1>5, LargestOfPrefix DEF InForce
<1> QED BY <1>6 DEF n
-----------------------------------------------------------------------------
(***************************************************************************)
(* Typing.                                                                 *)
(***************************************************************************)
LEMMA HistoriesAreSequences ==
  ASSUME NEW S, NEW n \in Nat PROVE Histories(S, n) \subseteq Seq(S)
BY SeqDef DEF Histories

LEMMA HealthTimes ==
  ASSUME health \in Seq(Healths)
  PROVE  PastRows /\ \A i \in DOMAIN health : health[i] \in HealthType
<1>1. DOMAIN health = 1..Len(health) OBVIOUS
<1>2. \A i \in DOMAIN health : health[i] \in Healths BY <1>1, ElementOfSeq
<1>3. \A i \in DOMAIN health : health[i] \in HealthType
  BY <1>2, BacktestAssumption DEF BacktestAssumption
<1>4. \A i \in DOMAIN health : health[i].at \in Int
  BY <1>3, BacktestAssumption DEF HealthType, BacktestAssumption
<1> QED BY <1>3, <1>4 DEF PastRows

LEMMA EvidenceTyped ==
  ASSUME health \in Seq(Healths), NEW row, NEW h \in 0..Len(health)
  PROVE  /\ Evidence(row, h).fee \in FeeLevels
         /\ Evidence(row, h).balance \in BalanceLevels
<1>1. OpportunityEvidence(row).fee \in FeeLevels
  BY LevelsTyped DEF OpportunityEvidence, FeeLevels, FeeRank
<1>2. OpportunityEvidence(row).balance \in BalanceLevels
  BY LevelsTyped DEF OpportunityEvidence
<1>3. h # 0 => health[h].fee \in FeeLevels /\ health[h].balance \in BalanceLevels
  <2>1. h # 0 => h \in DOMAIN health OBVIOUS
  <2> QED BY <2>1, HealthTimes DEF HealthType
<1>4. SnapshotEvidence(row, h).fee \in FeeLevels
  BY <1>3, LevelsTyped DEF SnapshotEvidence
<1>5. SnapshotEvidence(row, h).balance \in BalanceLevels
  BY <1>3, LevelsTyped DEF SnapshotEvidence
<1> QED BY <1>1, <1>2, <1>4, <1>5 DEF Evidence

LEMMA PenaltyTyped == ASSUME NEW e PROVE Penalty(e) \in Nat
<1>1. /\ Penalties.always \in Nat /\ Penalties.fallbackFee \in Nat
      /\ Penalties.unverifiedFee \in Nat /\ Penalties.unverifiedBalance \in Nat
  BY BacktestAssumption DEF BacktestAssumption
<1> QED BY <1>1 DEF Penalty

LEMMA AfterFillTyped ==
  ASSUME acc \in Accumulators, NEW pnl \in Int
  PROVE  AfterFill(pnl) \in Accumulators
<1> DEFINE sum == acc.pnl + pnl
           peak == Larger(acc.peak, sum)
           losing == IF pnl < 0 THEN acc.losing + 1 ELSE 0
           positive == IF pnl > 0 THEN acc.positive + 1 ELSE acc.positive
           drawdown == Larger(acc.drawdown, peak - sum)
           worst == Larger(acc.worst, losing)
<1>1. /\ acc.eligible \in Nat /\ acc.blocked \in Nat /\ acc.missed \in Nat
      /\ acc.positive \in Nat /\ acc.pnl \in Int /\ acc.drawdown \in Nat
      /\ acc.worst \in Nat /\ acc.peak \in Nat /\ acc.losing \in Nat
  BY DEF Accumulators
<1>2. sum \in Int /\ losing \in Nat /\ positive \in Nat BY <1>1
<1>3. peak \in Nat BY <1>1, <1>2 DEF Larger
<1>4. drawdown \in Nat /\ worst \in Nat BY <1>1, <1>2, <1>3 DEF Larger
<1> HIDE DEF sum, peak, losing, positive, drawdown, worst
<1>5. [eligible |-> acc.eligible + 1, blocked |-> acc.blocked, missed |-> acc.missed,
       positive |-> positive, pnl |-> sum, drawdown |-> drawdown, worst |-> worst,
       peak |-> peak, losing |-> losing] \in Accumulators
  BY <1>1, <1>2, <1>3, <1>4 DEF Accumulators
<1>6. AfterFill(pnl) =
        [acc EXCEPT !.eligible = acc.eligible + 1, !.positive = positive, !.pnl = sum,
                    !.peak = peak, !.drawdown = drawdown, !.losing = losing,
                    !.worst = worst]
  BY DEF AfterFill, sum, peak, losing, positive, drawdown, worst
<1>7. acc = [eligible |-> acc.eligible, blocked |-> acc.blocked, missed |-> acc.missed,
             positive |-> acc.positive, pnl |-> acc.pnl, drawdown |-> acc.drawdown,
             worst |-> acc.worst, peak |-> acc.peak, losing |-> acc.losing]
  BY DEF Accumulators
<1> QED BY <1>5, <1>6, <1>7

LEMMA AfterBlockTyped ==
  ASSUME acc \in Accumulators, NEW row
  PROVE  AfterBlock(row) \in Accumulators
<1> DEFINE missed == IF Missed(row) THEN acc.missed + 1 ELSE acc.missed
<1>1. acc.blocked + 1 \in Nat /\ missed \in Nat BY DEF Accumulators
<1>2. AfterBlock(row) = [acc EXCEPT !.blocked = acc.blocked + 1, !.missed = missed]
  BY DEF AfterBlock
<1> HIDE DEF missed
<1>3. [acc EXCEPT !.blocked = acc.blocked + 1] \in Accumulators BY <1>1 DEF Accumulators
<1>4. \A a \in Accumulators : [a EXCEPT !.missed = missed] \in Accumulators
  BY <1>1 DEF Accumulators
<1>5. AfterBlock(row) = [[acc EXCEPT !.blocked = acc.blocked + 1] EXCEPT !.missed = missed]
  BY <1>2
<1> QED BY <1>3, <1>4, <1>5

LEMMA SummaryTyped ==
  ASSUME acc \in Accumulators, Len(rows) \in Nat
  PROVE  Summary \in Outcomes /\ Summary # NoResult
<1>1. Summary \in Outcomes BY DEF Summary, Outcomes, Accumulators
<1>2. Summary.signals # NoResult.signals BY DEF Summary, NoResult
<1> QED BY <1>1, <1>2
-----------------------------------------------------------------------------
(***************************************************************************)
(* The invariant.  TradesFollowHistory needs the pointer to be behind the  *)
(* row whose turn it is, and the record needs to know that the result was  *)
(* committed before the run's status.                                      *)
(***************************************************************************)
Recorded ==
  /\ pc = "store" => result # NoResult /\ Len(trades) = Len(rows)
  /\ pc \in {"create", "list", "replay", "store"} => run # "completed"
  /\ pc # "done" => answer = "none"
  /\ RecordStandsForAnswer

Inv == TypeOK /\ Ordered(health) /\ PointerBehind /\ TradesFollowHistory /\ Recorded

LEMMA InitInv == Init => Inv
<1> SUFFICES ASSUME Init PROVE Inv
  OBVIOUS
<1> USE DEF Init
<1>1. rows \in Seq(Rows) /\ health \in Seq(Healths)
  BY HistoriesAreSequences, BacktestAssumption DEF BacktestAssumption
<1>2. acc \in Accumulators BY DEF Accumulators
<1>3. Len(health) \in Nat BY <1>1
<1>4. TypeOK BY <1>1, <1>2, <1>3 DEF TypeOK
<1>5. PointerBehind BY DEF PointerBehind
<1>6. TradesFollowHistory
  <2>1. Len(trades) <= Len(rows) /\ DOMAIN trades = {} BY <1>1
  <2> QED BY <2>1 DEF TradesFollowHistory
<1>7. Recorded BY DEF Recorded, RecordStandsForAnswer
<1> QED BY <1>4, <1>5, <1>6, <1>7 DEF Inv

\* While the history stays what it was, so does what its rows come to.
LEMMA SameHistory ==
  ASSUME UNCHANGED history
  PROVE  /\ \A k : Fills(rows[k], InForce(k))' <=> Fills(rows[k], InForce(k))
         /\ \A k : (rows[k])' = rows[k] /\ InForce(k)' = InForce(k)
<1>1. \A k : InForce(k)' = InForce(k) BY DEF InForce, history
<1>2. \A r, h : Evidence(r, h)' = Evidence(r, h)
  BY DEF Evidence, OpportunityEvidence, SnapshotEvidence, history
<1>3. \A r, h : Fills(r, h)' <=> Fills(r, h)
  BY <1>2 DEF Fills, Vouched, history
<1> QED BY <1>1, <1>3 DEF history

\* What a row's turn does, whether or not its commit is known to have happened.
LEMMA ReplayKeeps ==
  ASSUME Inv, ReplayRow, UNCHANGED history
  PROVE  /\ acc' \in Accumulators /\ seen' \in 0..Len(health)'
         /\ trades' \in Seq([fill : BOOLEAN, pnl : Int])
         /\ Len(trades') = Turn /\ Turn <= Len(rows)
         /\ \A i \in 1..seen' : health[i].at <= Turn
         /\ TradesFollowHistory'
         /\ UNCHANGED <<run, result>>
<1> USE DEF Inv
<1>1. /\ health \in Seq(Healths) /\ seen \in 0..Len(health) /\ rows \in Seq(Rows)
      /\ trades \in Seq([fill : BOOLEAN, pnl : Int]) /\ acc \in Accumulators
  BY DEF TypeOK
<1>2. Len(trades) \in Nat /\ Len(rows) \in Nat /\ Turn \in Nat /\ DOMAIN trades = 1..Len(trades)
  BY <1>1 DEF Turn
<1>3. pc = "replay" /\ ~Replayed BY DEF ReplayRow, ReplayFill, ReplayBlock
<1>4. Turn <= Len(rows) BY <1>2, <1>3 DEF Replayed
<1>5. PastRows BY <1>1, HealthTimes
<1>6. \A i \in 1..seen : health[i].at <= Turn BY <1>3 DEF PointerBehind
<1>7. /\ Advanced \in seen..Len(health)
      /\ \A i \in seen + 1..Advanced : health[i].at <= Turn
  BY <1>1, <1>2, <1>5, AdvancedExists
<1>8. Advanced = InForce(Turn) BY <1>1, <1>2, <1>5, <1>6, AdvancedInForce
<1>9. Advanced \in 0..Len(health)
  BY <1>1, <1>7
<1>10. seen' = Advanced BY DEF ReplayRow
<1>11. \A i \in 1..seen' : health[i].at <= Turn
  <2> SUFFICES ASSUME NEW i \in 1..seen' PROVE health[i].at <= Turn
    OBVIOUS
  <2>1. i \in 1..seen \/ i \in seen + 1..Advanced BY <1>1, <1>9, <1>10
  <2> QED BY <1>6, <1>7, <2>1
<1>12. PICK trade \in [fill : BOOLEAN, pnl : Int] :
         /\ trade.fill <=> Fills(rows[Turn], Advanced)
         /\ WriteTrade(trade) /\ acc' \in Accumulators
  <2>1. CASE ReplayBlock
    <3>1. [fill |-> FALSE, pnl |-> 0] \in [fill : BOOLEAN, pnl : Int] OBVIOUS
    <3>2. acc' \in Accumulators BY <1>1, <2>1, AfterBlockTyped DEF ReplayBlock
    <3> QED BY <2>1, <3>1, <3>2 DEF ReplayBlock
  <2>2. ASSUME NEW gain \in Gains, ReplayFill(gain)
        PROVE  \E trade \in [fill : BOOLEAN, pnl : Int] :
                 /\ trade.fill <=> Fills(rows[Turn], Advanced)
                 /\ WriteTrade(trade) /\ acc' \in Accumulators
    <3> DEFINE pnl == gain - Penalty(Evidence(rows[Turn], Advanced))
    <3>1. gain \in Int BY BacktestAssumption DEF BacktestAssumption
    <3>2. pnl \in Int BY <3>1, PenaltyTyped
    <3>3. acc' = AfterFill(pnl) /\ WriteTrade([fill |-> TRUE, pnl |-> pnl])
      BY <2>2 DEF ReplayFill
    <3>4. Fills(rows[Turn], Advanced) BY <2>2 DEF ReplayFill
    <3> HIDE DEF pnl
    <3>5. [fill |-> TRUE, pnl |-> pnl] \in [fill : BOOLEAN, pnl : Int] BY <3>2
    <3>6. acc' \in Accumulators BY <1>1, <3>2, <3>3, AfterFillTyped
    <3> QED BY <3>3, <3>4, <3>5, <3>6
  <2> QED BY <2>1, <2>2 DEF ReplayRow
<1>13. trades' = Append(trades, trade) /\ UNCHANGED <<run, result>>
  BY <1>12 DEF WriteTrade
<1>14. /\ trades' \in Seq([fill : BOOLEAN, pnl : Int])
       /\ Len(trades') = Turn
       /\ \A k \in 1..Len(trades) : trades'[k] = trades[k]
       /\ trades'[Turn] = trade
  BY <1>1, <1>2, <1>13, AppendProperties DEF Turn
<1>15. TradesFollowHistory'
  <2>1. Len(trades') <= Len(rows') BY <1>4, <1>14 DEF history
  <2>2. \A k \in DOMAIN trades' : k \in 1..Len(trades) \/ k = Turn
    BY <1>2, <1>14 DEF Turn
  <2>3. ASSUME NEW k \in DOMAIN trades'
        PROVE  trades'[k].fill <=> Fills(rows[k], InForce(k))'
    <3>1. CASE k \in 1..Len(trades)
      <4>1. trades'[k].fill <=> Fills(rows[k], InForce(k))
        BY <1>2, <1>14, <3>1 DEF TradesFollowHistory
      <4> QED BY <4>1, SameHistory
    <3>2. CASE k = Turn
      <4>1. trades'[k].fill <=> Fills(rows[k], InForce(k)) BY <1>8, <1>12, <1>14, <3>2
      <4> QED BY <4>1, SameHistory
    <3> QED BY <2>2, <3>1, <3>2
  <2> QED BY <2>1, <2>3 DEF TradesFollowHistory
<1> QED BY <1>4, <1>9, <1>10, <1>11, <1>12, <1>13, <1>14, <1>15 DEF history
\* The parts of the invariant about the replay survive any step that leaves the
\* history, the trade rows and the pointer alone.
LEMMA ReplayUntouched ==
  ASSUME Inv, UNCHANGED <<history, trades, seen>>
  PROVE  /\ Ordered(health)' /\ TradesFollowHistory'
         /\ mode' \in Modes /\ rows' \in Seq(Rows) /\ health' \in Seq(Healths)
         /\ trades' \in Seq([fill : BOOLEAN, pnl : Int])
         /\ seen' \in 0..Len(health')
         /\ PointerBehind /\ (pc' \in {"create", "list", "replay"}
                              => pc \in {"create", "list", "replay"}) => PointerBehind'
<1> USE DEF Inv
<1>1. Ordered(health)' BY DEF Ordered, history
<1>2. TradesFollowHistory'
  <2>1. trades' = trades /\ rows' = rows BY DEF history
  <2>2. \A k \in DOMAIN trades : trades[k].fill <=> Fills(rows[k], InForce(k))'
    BY SameHistory DEF TradesFollowHistory
  <2>3. Len(trades) <= Len(rows) BY DEF TradesFollowHistory
  <2> QED BY <2>1, <2>2, <2>3 DEF TradesFollowHistory
<1>3. PointerBehind /\ (pc' \in {"create", "list", "replay"}
                        => pc \in {"create", "list", "replay"}) => PointerBehind'
  BY DEF PointerBehind, Turn, history
<1> QED BY <1>1, <1>2, <1>3 DEF TypeOK, history

LEMMA StepInv == Inv /\ [Next]_vars => Inv'
<1> SUFFICES ASSUME Inv, [Next]_vars PROVE Inv'
  OBVIOUS
<1>0. /\ TypeOK /\ Ordered(health) /\ PointerBehind /\ TradesFollowHistory /\ Recorded
      /\ Len(rows) \in Nat /\ Len(trades) \in Nat
  BY DEF Inv, TypeOK
<1>1. CASE Create
  <2>1. UNCHANGED <<history, trades, seen, result, acc, session, answer>>
        /\ pc = "create" /\ pc' = "list" /\ run' = "running"
    BY <1>1 DEF Create, WriteRun
  <2>2. Recorded' BY <1>0, <2>1 DEF Recorded, RecordStandsForAnswer
  <2>3. TypeOK' BY <1>0, <2>1, ReplayUntouched DEF TypeOK
  <2> QED BY <1>0, <2>1, <2>2, <2>3, ReplayUntouched DEF Inv
<1>2. CASE ListRows
  <2>1. UNCHANGED <<history, trades, seen, result, acc, session, answer, run>>
        /\ pc = "list" /\ pc' = "replay"
    BY <1>2 DEF ListRows
  <2>2. Recorded' BY <1>0, <2>1 DEF Recorded, RecordStandsForAnswer
  <2>3. TypeOK' BY <1>0, <2>1, ReplayUntouched DEF TypeOK
  <2> QED BY <1>0, <2>1, <2>2, <2>3, ReplayUntouched DEF Inv
<1>3. CASE Replay
  <2>1. ReplayRow /\ UNCHANGED <<history, session, pc, answer>> BY <1>3 DEF Replay
  <2>2. /\ acc' \in Accumulators /\ seen' \in 0..Len(health)'
        /\ trades' \in Seq([fill : BOOLEAN, pnl : Int])
        /\ Len(trades') = Turn
        /\ \A i \in 1..seen' : health[i].at <= Turn
        /\ TradesFollowHistory' /\ UNCHANGED <<run, result>>
    BY <2>1, ReplayKeeps
  <2>3. pc = "replay" BY <2>1 DEF ReplayRow, ReplayFill, ReplayBlock
  <2>4. Recorded' BY <1>0, <2>1, <2>2, <2>3 DEF Recorded, RecordStandsForAnswer
  <2>5. TypeOK' BY <1>0, <2>1, <2>2 DEF TypeOK, history
  <2>6. PointerBehind'
    <3>1. Turn \in Int /\ Turn' = Turn + 1 BY <1>0, <2>2 DEF Turn
    <3>2. ASSUME NEW i \in 1..seen' PROVE health'[i].at <= Turn'
      <4>1. health' = health BY <2>1 DEF history
      <4>2. i \in DOMAIN health BY <1>0, <2>2, <4>1 DEF TypeOK
      <4>3. health[i].at \in Int BY <1>0, <4>2, HealthTimes DEF TypeOK, PastRows
      <4>4. \A a, t \in Int : a <= t => a <= t + 1 OBVIOUS
      <4>5. health[i].at <= Turn BY <2>2
      <4> QED BY <3>1, <4>1, <4>3, <4>4, <4>5
    <3> QED BY <3>2 DEF PointerBehind
  <2>7. Ordered(health)' BY <1>0, <2>1 DEF Ordered, history
  <2> QED BY <2>2, <2>4, <2>5, <2>6, <2>7 DEF Inv
<1>4. CASE StoreResult
  <2>1. UNCHANGED <<history, trades, seen, acc, session, answer, run>>
        /\ pc = "replay" /\ Replayed /\ pc' = "store" /\ result' = Summary
    BY <1>4 DEF StoreResult, WriteResult
  <2>2. Summary \in Outcomes /\ Summary # NoResult BY <1>0, SummaryTyped DEF TypeOK
  <2>3. Len(trades) = Len(rows)
    BY <1>0, <2>1 DEF Replayed, Turn, TradesFollowHistory
  <2>4. Recorded' BY <1>0, <2>1, <2>2, <2>3 DEF Recorded, RecordStandsForAnswer, history
  <2>5. TypeOK' BY <1>0, <2>1, <2>2, ReplayUntouched DEF TypeOK
  <2> QED BY <1>0, <2>1, <2>4, <2>5, ReplayUntouched DEF Inv
<1>5. CASE Complete
  <2>1. UNCHANGED <<history, trades, seen, acc, session, result>>
        /\ pc = "store" /\ pc' = "done" /\ answer' = "completed" /\ run' = "completed"
    BY <1>5 DEF Complete, WriteRun
  <2>2. Recorded' BY <1>0, <2>1 DEF Recorded, RecordStandsForAnswer, history
  <2>3. TypeOK' BY <1>0, <2>1, ReplayUntouched DEF TypeOK
  <2> QED BY <1>0, <2>1, <2>2, <2>3, ReplayUntouched DEF Inv
<1>6. CASE Fail
  <2>1. UNCHANGED <<history, trades, seen, acc, session, result>>
        /\ pc = "except" /\ pc' = "done" /\ answer' = "failed" /\ run' = "failed"
    BY <1>6 DEF Fail, WriteRun
  <2>2. Recorded' BY <1>0, <2>1 DEF Recorded, RecordStandsForAnswer, history
  <2>3. TypeOK' BY <1>0, <2>1, ReplayUntouched DEF TypeOK
  <2> QED BY <1>0, <2>1, <2>2, <2>3, ReplayUntouched DEF Inv
<1>7. CASE DataFault
  <2>1. UNCHANGED <<history, trades, seen, acc, session, result, run, answer>>
        /\ pc = "replay" /\ pc' = "except"
    BY <1>7 DEF DataFault
  <2>2. Recorded' BY <1>0, <2>1 DEF Recorded, RecordStandsForAnswer, history
  <2>3. TypeOK' BY <1>0, <2>1, ReplayUntouched DEF TypeOK
  <2> QED BY <1>0, <2>1, <2>2, <2>3, ReplayUntouched DEF Inv
<1>8. CASE DatabaseFault
  <2>0. /\ UNCHANGED history /\ answer' = answer /\ session' \in {"usable", "broken"}
        /\ pc \in {"list", "replay", "store"} /\ pc' = "except"
    BY <1>8 DEF DatabaseFault
  <2>1. CASE UNCHANGED <<run, trades, result, acc, seen>>
    <3>1. Recorded' BY <1>0, <2>0, <2>1 DEF Recorded, RecordStandsForAnswer, history
    <3>2. TypeOK' BY <1>0, <2>0, <2>1, ReplayUntouched DEF TypeOK
    <3> QED BY <1>0, <2>0, <2>1, <3>1, <3>2, ReplayUntouched DEF Inv
  <2>2. CASE ReplayRow
    <3>1. /\ acc' \in Accumulators /\ seen' \in 0..Len(health)'
          /\ trades' \in Seq([fill : BOOLEAN, pnl : Int])
          /\ TradesFollowHistory' /\ UNCHANGED <<run, result>>
      BY <2>0, <2>2, ReplayKeeps
    <3>2. pc = "replay" BY <2>2 DEF ReplayRow, ReplayFill, ReplayBlock
    <3>3. Recorded' BY <1>0, <2>0, <3>1, <3>2 DEF Recorded, RecordStandsForAnswer
    <3>4. TypeOK' BY <1>0, <2>0, <3>1 DEF TypeOK, history
    <3>5. Ordered(health)' BY <1>0, <2>0 DEF Ordered, history
    <3>6. PointerBehind' BY <2>0 DEF PointerBehind
    <3> QED BY <3>1, <3>3, <3>4, <3>5, <3>6 DEF Inv
  <2>3. CASE pc = "replay" /\ Replayed /\ WriteResult /\ UNCHANGED <<acc, seen>>
    <3>1. UNCHANGED <<trades, run, acc, seen>> /\ result' = Summary
      BY <2>3 DEF WriteResult
    <3>2. Summary \in Outcomes BY <1>0, SummaryTyped DEF TypeOK
    <3>3. Recorded' BY <1>0, <2>0, <2>3, <3>1 DEF Recorded, RecordStandsForAnswer
    <3>4. TypeOK' BY <1>0, <2>0, <3>1, <3>2, ReplayUntouched DEF TypeOK
    <3> QED BY <1>0, <2>0, <3>1, <3>3, <3>4, ReplayUntouched DEF Inv
  <2>4. CASE pc = "store" /\ WriteRun("completed") /\ UNCHANGED <<acc, seen>>
    <3>1. UNCHANGED <<trades, result, acc, seen>> /\ run' = "completed"
      BY <2>4 DEF WriteRun
    <3>2. Recorded' BY <1>0, <2>0, <2>4, <3>1 DEF Recorded, RecordStandsForAnswer, history
    <3>3. TypeOK' BY <1>0, <2>0, <3>1, ReplayUntouched DEF TypeOK
    <3> QED BY <1>0, <2>0, <3>1, <3>2, <3>3, ReplayUntouched DEF Inv
  <2> QED BY <1>8, <2>1, <2>2, <2>3, <2>4 DEF DatabaseFault
<1>9. CASE Escape
  <2>1. /\ UNCHANGED <<history, trades, seen, acc, session, result>>
        /\ pc \in {"create", "except"} /\ pc' = "done" /\ answer' = "error"
        /\ \/ run' = run
           \/ pc = "create" /\ run' = "running"
           \/ run' = "failed"
    BY <1>9 DEF Escape, WriteRun
  <2>2. Recorded' BY <1>0, <2>1 DEF Recorded, RecordStandsForAnswer, history
  <2>3. TypeOK' BY <1>0, <2>1, ReplayUntouched DEF TypeOK
  <2> QED BY <1>0, <2>1, <2>2, <2>3, ReplayUntouched DEF Inv
<1>10. CASE Crash
  <2>1. UNCHANGED <<history, trades, seen, acc, session, result, run, answer>>
        /\ pc # "done" /\ pc' = "done"
    BY <1>10 DEF Crash
  <2>2. Recorded' BY <1>0, <2>1 DEF Recorded, RecordStandsForAnswer, history
  <2>3. TypeOK' BY <1>0, <2>1, ReplayUntouched DEF TypeOK
  <2> QED BY <1>0, <2>1, <2>2, <2>3, ReplayUntouched DEF Inv
<1>11. CASE UNCHANGED vars
  <2>1. UNCHANGED <<history, trades, seen, acc, session, result, run, answer, pc>>
    BY <1>11 DEF vars, history
  <2>2. Recorded' BY <1>0, <2>1 DEF Recorded, RecordStandsForAnswer, history
  <2>3. TypeOK' BY <1>0, <2>1, ReplayUntouched DEF TypeOK
  <2> QED BY <1>0, <2>1, <2>2, <2>3, ReplayUntouched DEF Inv
<1> QED BY <1>1, <1>2, <1>3, <1>4, <1>5, <1>6, <1>7, <1>8, <1>9, <1>10, <1>11 DEF Next

LEMMA Invariance == Spec => []Inv
BY InitInv, StepInv, PTL DEF Spec

\* The engine, its faults and a crash keep the run, its rows and the accumulators
\* in their types.
THEOREM TypeCorrect == Spec => []TypeOK
<1>1. Inv => TypeOK BY DEF Inv
<1> QED BY <1>1, Invariance, PTL

\* The health row a replayed row was judged by is the one in force at its time
\* (engine.py, health_ptr), for histories of every length.
THEOREM HistoryFollowed == Spec => []TradesFollowHistory
<1>1. Inv => TradesFollowHistory BY DEF Inv
<1> QED BY <1>1, Invariance, PTL

\* No replay, in any mode and for any parameter set, fills what the evidence
\* guards of evaluate (manager.py) turn away on paper.
THEOREM GateRespected == Spec => []FillsPassTheGate
<1>1. Inv => FillsPassTheGate
  <2> SUFFICES ASSUME Inv, NEW k \in DOMAIN trades, trades[k].fill
               PROVE  PaperAdmits(Evidence(rows[k], InForce(k)).fee,
                                  Evidence(rows[k], InForce(k)).quote,
                                  Evidence(rows[k], InForce(k)).balance)
    BY DEF FillsPassTheGate
  <2>1. /\ health \in Seq(Healths) /\ Ordered(health)
        /\ trades \in Seq([fill : BOOLEAN, pnl : Int])
    BY DEF Inv, TypeOK
  <2>2. Fills(rows[k], InForce(k)) BY DEF Inv, TradesFollowHistory
  <2>3. InForce(k) \in 0..Len(health)
    <3> DEFINE S == {0} \cup {i \in DOMAIN health : health[i].at <= k}
    <3>1. Len(health) \in Nat /\ DOMAIN health = 1..Len(health) BY <2>1
    <3>2. S \subseteq 0..Len(health) BY <3>1
    <3>3. \E m \in S : \A n \in S : n <= m
      <4>1. S \in SUBSET Int /\ S # {} BY <3>1
      <4>2. \A n \in S : n <= Len(health) BY <3>1, <3>2
      <4> DEFINE up == {Len(health) - n : n \in S}
      <4>3. up \in SUBSET Nat /\ up # {} BY <3>1, <3>2, <4>1
      <4> HIDE DEF up
      <4>4. PICK u \in up : \A v \in up : ~(<<v, u>> \in OpToRel(<, Nat))
        BY <4>3, WFMin, NatLessThanWellFounded
      <4>5. \A v \in up : ~(v < u) BY <4>3, <4>4 DEF OpToRel
      <4> USE DEF up
      <4> HIDE DEF S
      <4>6. PICK m \in S : u = Len(health) - m OBVIOUS
      <4>7. \A n \in S : Len(health) - n \in up OBVIOUS
      <4> HIDE DEF up
      <4>8. \A n \in S : ~(Len(health) - n < Len(health) - m) BY <4>5, <4>6, <4>7
      <4>9. \A n \in S : n <= m BY <3>1, <3>2, <4>8
      <4> QED BY <4>9
    <3> HIDE DEF S
    <3>4. Largest(S) \in S BY <3>3 DEF Largest
    <3> QED BY <3>2, <3>4 DEF InForce, S
  <2> DEFINE e == Evidence(rows[k], InForce(k))
  <2>4. e.fee \in FeeLevels /\ e.balance \in BalanceLevels
    BY <2>1, <2>3, EvidenceTyped
  <2>5. Vouched(e) BY <2>2 DEF Fills
  <2> HIDE DEF e
  <2>6. PaperAdmits(e.fee, e.quote, e.balance) BY <2>4, <2>5, VouchedAdmitted
  <2> QED BY <2>6 DEF e
<1> QED BY <1>1, Invariance, PTL

\* Whatever commit, session or process fails, the caller is told nothing that is
\* not on record, and a completed run is complete.
THEOREM RecordStands == Spec => []RecordStandsForAnswer
<1>1. Inv => RecordStandsForAnswer BY DEF Inv, Recorded
<1> QED BY <1>1, Invariance, PTL

-----------------------------------------------------------------------------
(***************************************************************************)
(* The result.  An equity curve is defined by a recursion over the rows.   *)
(* The invariant speaks of every function that satisfies the recursion and *)
(* says that there is one, so that a step extends a curve by one point and *)
(* no induction over the rows is needed.                                   *)
(***************************************************************************)
-----------------------------------------------------------------------------
(***************************************************************************)
(* The accumulators follow the trade rows.  Induction over the rows is the *)
(* behaviour's own: each row's turn extends the equity curve by one point, *)
(* and the invariant speaks of every curve that satisfies the recursion.   *)
(***************************************************************************)
IsEquity(e) == e = [n \in 0..Len(trades) |-> IF n = 0 THEN 0 ELSE e[n - 1] + Gain(n)]

\* A point of the curve, a fall between two, and a stretch without a gain.
Fall(e, d) == \E p \in Stretches : e[p[1]] - e[p[2]] = d
Follows(e) ==
  /\ e \in [0..Len(trades) -> Int]
  /\ e[Len(trades)] = acc.pnl
  /\ \A i \in 0..Len(trades) : e[i] <= acc.peak
  /\ \E i \in 0..Len(trades) : e[i] = acc.peak
  /\ \A p \in Stretches : e[p[1]] - e[p[2]] <= acc.drawdown
  /\ Fall(e, acc.drawdown)

CurveInv == (\E e : IsEquity(e)) /\ (\A e : IsEquity(e) => Follows(e))

\* The losing sequence in progress ends with the last row.
ToEnd(i) == <<i, Len(trades)>>
SequenceInv ==
  /\ \A i \in 0..Len(trades) : AllLose(ToEnd(i)) => Cardinality(FillsIn(ToEnd(i))) <= acc.losing
  /\ \E i \in 0..Len(trades) : AllLose(ToEnd(i)) /\ Cardinality(FillsIn(ToEnd(i))) = acc.losing
  /\ \A p \in Stretches : AllLose(p) => Cardinality(FillsIn(p)) <= acc.worst
  /\ \E p \in Stretches : AllLose(p) /\ Cardinality(FillsIn(p)) = acc.worst

AllFills == {k \in DOMAIN trades : trades[k].fill}
AllBlocked == {k \in DOMAIN trades : ~trades[k].fill}
CountInv ==
  /\ acc.eligible = Cardinality(AllFills)
  /\ acc.eligible + acc.blocked = Len(trades)
  /\ acc.positive = Cardinality({k \in AllFills : trades[k].pnl > 0})
  /\ acc.missed = Cardinality({k \in AllBlocked : Missed(rows[k])})

\* The result is written once, from accumulators that change no more.
Stored ==
  /\ pc \in {"create", "list", "replay"} => result = NoResult
  /\ result # NoResult => result = Summary /\ Len(trades) = Len(rows)

TradeType == [fill : BOOLEAN, pnl : Int]

-----------------------------------------------------------------------------
\* One more trade row.
LEMMA OneMore ==
  ASSUME trades \in Seq(TradeType), NEW t \in TradeType, trades' = Append(trades, t)
  PROVE  /\ Len(trades) \in Nat /\ Len(trades') = Len(trades) + 1
         /\ DOMAIN trades = 1..Len(trades) /\ DOMAIN trades' = 1..Len(trades) + 1
         /\ \A k \in 1..Len(trades) : trades'[k] = trades[k] /\ trades[k] \in TradeType
         /\ trades'[Len(trades) + 1] = t
         /\ \A k \in 1..Len(trades) : Gain(k)' = Gain(k) /\ Gain(k) \in Int
         /\ \A k : k = Len(trades) + 1 => Gain(k)' = IF t.fill THEN t.pnl ELSE 0
<1>1. /\ Len(trades) \in Nat /\ Len(trades') = Len(trades) + 1
      /\ DOMAIN trades = 1..Len(trades) /\ DOMAIN trades' = 1..Len(trades) + 1
      /\ \A k \in 1..Len(trades) : trades'[k] = trades[k] /\ trades[k] \in TradeType
      /\ trades'[Len(trades) + 1] = t
  OBVIOUS
<1>2. \A k \in 1..Len(trades) : Gain(k)' = Gain(k) /\ Gain(k) \in Int
  BY <1>1 DEF Gain, TradeType
<1>3. \A k : k = Len(trades) + 1 => Gain(k)' = IF t.fill THEN t.pnl ELSE 0
  BY <1>1, Zenon DEF Gain
<1> QED BY <1>1, <1>2, <1>3

\* The curve goes on from where it was.
LEMMA CurveExtends ==
  ASSUME trades \in Seq(TradeType), NEW t \in TradeType, trades' = Append(trades, t),
         acc \in Accumulators, CurveInv,
         NEW g \in Int, g = (IF t.fill THEN t.pnl ELSE 0),
         acc'.pnl = acc.pnl + g,
         acc'.peak = Larger(acc.peak, acc.pnl + g),
         acc'.drawdown = Larger(acc.drawdown, acc'.peak - (acc.pnl + g))
  PROVE  CurveInv'
<1> DEFINE n == Len(trades)
<1>0. /\ n \in Nat /\ Len(trades') = n + 1
      /\ \A k \in 1..n : Gain(k)' = Gain(k) /\ Gain(k) \in Int
      /\ \A k : k = n + 1 => Gain(k)' = g
  BY OneMore
<1> HIDE DEF n
<1>a. /\ acc.pnl \in Int /\ acc.peak \in Int /\ acc.drawdown \in Nat
      /\ acc'.pnl \in Int /\ acc'.peak \in Int /\ acc'.drawdown \in Int
      /\ acc.peak <= acc'.peak /\ acc'.pnl <= acc'.peak
      /\ acc'.peak = acc.peak \/ acc'.peak = acc'.pnl
      /\ acc.drawdown <= acc'.drawdown /\ acc'.peak - acc'.pnl <= acc'.drawdown
      /\ acc'.drawdown = acc.drawdown \/ acc'.drawdown = acc'.peak - acc'.pnl
  <2>1. acc.pnl \in Int /\ acc.peak \in Int /\ acc.drawdown \in Nat
    BY DEF Accumulators
  <2>2. acc'.pnl \in Int
    BY <2>1
  <2>3. /\ acc'.peak \in Int /\ acc.peak <= acc'.peak /\ acc'.pnl <= acc'.peak
        /\ acc'.peak = acc.peak \/ acc'.peak = acc'.pnl
    BY <2>1, <2>2 DEF Larger
  <2>4. acc'.drawdown = Larger(acc.drawdown, acc'.peak - acc'.pnl)
    OBVIOUS
  <2>5. /\ acc'.drawdown \in Int
        /\ acc.drawdown <= acc'.drawdown /\ acc'.peak - acc'.pnl <= acc'.drawdown
        /\ acc'.drawdown = acc.drawdown \/ acc'.drawdown = acc'.peak - acc'.pnl
    BY <2>1, <2>2, <2>3, <2>4 DEF Larger
  <2> QED BY <2>1, <2>2, <2>3, <2>5
<1>b. n \in Nat /\ \A i \in 0..n + 1 : i \in 0..n \/ i = n + 1
  BY <1>0
<1>1. \E e : IsEquity(e)'
  <2>1. PICK e : IsEquity(e)
    BY DEF CurveInv
  <2>2. \A i \in 0..n : e[i] = IF i = 0 THEN 0 ELSE e[i - 1] + Gain(i)
    BY <2>1 DEF IsEquity, n
  <2> DEFINE f == [i \in 0..n + 1 |-> IF i = n + 1 THEN e[n] + g ELSE e[i]]
  <2>3. \A i \in 0..n + 1 : f[i] = IF i = 0 THEN 0 ELSE f[i - 1] + Gain(i)'
    <3> SUFFICES ASSUME NEW i \in 0..n + 1 PROVE f[i] = IF i = 0 THEN 0 ELSE f[i - 1] + Gain(i)'
      OBVIOUS
    <3>1. CASE i = n + 1
      <4>1. f[i] = e[n] + g /\ f[i - 1] = e[n] /\ i # 0
        BY <1>0, <3>1
      <4> QED BY <1>0, <3>1, <4>1, Zenon
    <3>2. CASE i = 0
      BY <1>0, <2>2, <3>2
    <3>3. CASE i \in 1..n
      <4>1. f[i] = e[i] /\ f[i - 1] = e[i - 1] /\ i # 0 /\ i \in 0..n
        BY <1>0, <3>3
      <4>2. e[i] = e[i - 1] + Gain(i) /\ Gain(i)' = Gain(i)
        BY <1>0, <2>2, <3>3, <4>1
      <4> QED BY <4>1, <4>2, Zenon
    <3> QED BY <1>0, <3>1, <3>2, <3>3
  <2> HIDE DEF f
  <2>4. f = [i \in 0..n + 1 |-> IF i = 0 THEN 0 ELSE f[i - 1] + Gain(i)']
    <3>1. f = [i \in 0..n + 1 |-> f[i]]
      BY DEF f
    <3> QED BY <2>3, <3>1, Zenon
  <2>5. PICK h : h = [i \in 0..n + 1 |-> IF i = 0 THEN 0 ELSE h[i - 1] + Gain(i)']
    BY <2>4
  <2>6. IsEquity(h)'
    BY <1>0, <2>5 DEF IsEquity
  <2> QED BY <2>6
<1>2. ASSUME NEW f, IsEquity(f)'
      PROVE  Follows(f)'
  <2> DEFINE e == [i \in 0..n |-> f[i]]
  <2>1. f = [i \in 0..n + 1 |-> IF i = 0 THEN 0 ELSE f[i - 1] + Gain(i)']
    BY <1>0, <1>2, Zenon DEF IsEquity
  <2>2. \A i \in 0..n + 1 : f[i] = IF i = 0 THEN 0 ELSE f[i - 1] + Gain(i)'
    BY <2>1
  <2>3. IsEquity(e)
    <3>1. \A i \in 0..n : f[i] = IF i = 0 THEN 0 ELSE e[i - 1] + Gain(i)
      BY <1>0, <2>2
    <3>2. e = [i \in 0..n |-> IF i = 0 THEN 0 ELSE e[i - 1] + Gain(i)]
      BY <3>1
    <3> HIDE DEF e
    <3> QED BY <3>2 DEF IsEquity, n
  <2>4. Follows(e)
    BY <2>3, Zenon DEF CurveInv
  <2>5. \A i \in 0..n : f[i] = e[i] /\ e[i] \in Int
    BY <2>4 DEF Follows, n
  <2>6. e[n] = acc.pnl
    BY <2>4 DEF Follows, n
  <2> HIDE DEF e
  <2>7. f[n + 1] = acc'.pnl
    <3>1. f[n + 1] = f[n] + g /\ n \in 0..n
      BY <1>0, <2>2
    <3> QED BY <2>5, <2>6, <3>1
  <2>8. f \in [0..n + 1 -> Int]
    <3>1. \A i \in 0..n + 1 : f[i] \in Int
      BY <1>a, <1>b, <2>5, <2>7, Zenon
    <3>2. f = [i \in 0..n + 1 |-> f[i]]
      BY <2>1
    <3> QED BY <3>1, <3>2
  <2>9. \A i \in 0..n + 1 : f[i] <= acc'.peak
    <3>1. \A i \in 0..n : e[i] <= acc.peak
      BY <2>4 DEF Follows, n
    <3>2. \A a, b, c \in Int : a <= b /\ b <= c => a <= c
      OBVIOUS
    <3> QED BY <1>a, <1>b, <2>5, <2>7, <3>1, <3>2
  <2>10. PICK top \in 0..n + 1 : f[top] = acc'.peak
    <3>1. PICK i \in 0..n : e[i] = acc.peak
      BY <2>4 DEF Follows, n
    <3> QED BY <1>0, <1>a, <2>5, <2>7, <3>1
  <2>11. \A i, j \in 0..n + 1 : i <= j => f[i] - f[j] <= acc'.drawdown
    <3> SUFFICES ASSUME NEW i \in 0..n + 1, NEW j \in 0..n + 1, i <= j
                 PROVE  f[i] - f[j] <= acc'.drawdown
      OBVIOUS
    <3>1. CASE j = n + 1
      <4>1. f[i] <= acc'.peak /\ f[j] = acc'.pnl /\ f[i] \in Int
        BY <2>7, <2>8, <2>9, <3>1
      <4> QED BY <1>a, <4>1
    <3>2. CASE j \in 0..n
      <4>1. i \in 0..n
        BY <1>0, <3>2
      <4>2. <<i, j>> \in Stretches
        BY <3>2, <4>1 DEF Stretches, n
      <4>3. e[i] - e[j] <= acc.drawdown
        BY <2>4, <4>2 DEF Follows
      <4> QED BY <1>a, <2>5, <3>2, <4>1, <4>3
    <3> QED BY <1>0, <3>1, <3>2
  <2>12. \E i, j \in 0..n + 1 : i <= j /\ f[i] - f[j] = acc'.drawdown
    <3>1. CASE acc'.drawdown = acc.drawdown
      <4>1. PICK p \in Stretches : e[p[1]] - e[p[2]] = acc.drawdown
        BY <2>4 DEF Follows, Fall
      <4>2. p[1] \in 0..n /\ p[2] \in 0..n /\ p[1] <= p[2]
        BY <4>1 DEF Stretches, n
      <4>3. f[p[1]] - f[p[2]] = acc'.drawdown
        BY <2>5, <3>1, <4>1, <4>2
      <4>4. p[1] \in 0..n + 1 /\ p[2] \in 0..n + 1
        BY <1>0, <4>2
      <4> QED BY <4>2, <4>3, <4>4, Zenon
    <3>2. CASE acc'.drawdown = acc'.peak - acc'.pnl
      <4>1. n + 1 \in 0..n + 1 /\ top <= n + 1
        BY <1>0
      <4> QED BY <2>7, <2>10, <3>2, <4>1, Zenon
    <3> QED BY <1>a, <3>1, <3>2
  <2>13. \A p \in Stretches' : f[p[1]] - f[p[2]] <= acc'.drawdown
    BY <1>0, <2>11 DEF Stretches
  <2>14. Fall(f, acc.drawdown)'
    <3>1. PICK i, j \in 0..n + 1 : i <= j /\ f[i] - f[j] = acc'.drawdown
      BY <2>12
    <3>2. <<i, j>> \in Stretches'
      BY <1>0, <3>1 DEF Stretches
    <3>3. f[<<i, j>>[1]] - f[<<i, j>>[2]] = acc'.drawdown
      BY <3>1
    <3> QED BY <3>2, <3>3, Zenon DEF Fall
  <2> QED BY <1>0, <2>7, <2>8, <2>9, <2>10, <2>13, <2>14, Zenon DEF Follows
<1> QED BY <1>1, <1>2, Zenon DEF CurveInv

\* The fills of a stretch are those of the rows, and finitely many.
LEMMA FillsFinite ==
  ASSUME NEW i \in Nat, NEW j \in Nat
  PROVE  IsFiniteSet(FillsIn(<<i, j>>)) /\ Cardinality(FillsIn(<<i, j>>)) \in Nat
<1>1. i + 1..j = (i + 1)..j /\ IsFiniteSet(i + 1..j)
  BY FS_Interval
<1>2. FillsIn(<<i, j>>) \subseteq i + 1..j
  BY DEF FillsIn
<1> QED BY <1>1, <1>2, FS_Subset, FS_CardinalityType

\* A stretch that ends before the new row is what it was; one that ends with it
\* has one fill more, if the row is one.
LEMMA StretchGrows ==
  ASSUME trades \in Seq(TradeType), NEW t \in TradeType, trades' = Append(trades, t),
         NEW n, n = Len(trades)
  PROVE  /\ n \in Nat /\ Len(trades') = n + 1
         /\ \A i, j \in 0..n : /\ FillsIn(<<i, j>>)' = FillsIn(<<i, j>>)
                               /\ AllLose(<<i, j>>)' <=> AllLose(<<i, j>>)
         /\ \A i \in 0..n :
              /\ FillsIn(<<i, n + 1>>)' = IF t.fill THEN FillsIn(<<i, n>>) \cup {n + 1}
                                                    ELSE FillsIn(<<i, n>>)
              /\ AllLose(<<i, n + 1>>)' <=> AllLose(<<i, n>>) /\ (t.fill => t.pnl < 0)
              /\ n + 1 \notin FillsIn(<<i, n>>)
         /\ FillsIn(<<n + 1, n + 1>>)' = {} /\ AllLose(<<n + 1, n + 1>>)'
<1>1. /\ n \in Nat /\ Len(trades') = n + 1
      /\ \A k \in 1..n : trades'[k] = trades[k]
      /\ trades'[n + 1] = t
  BY OneMore
<1>2. ASSUME NEW i \in 0..n, NEW j \in 0..n
      PROVE  FillsIn(<<i, j>>)' = FillsIn(<<i, j>>) /\ (AllLose(<<i, j>>)' <=> AllLose(<<i, j>>))
  <2>1. \A k \in i + 1..j : k \in 1..n
    BY <1>1
  <2>2. FillsIn(<<i, j>>) = {k \in i + 1..j : trades[k].fill}
    BY DEF FillsIn
  <2>3. FillsIn(<<i, j>>)' = {k \in i + 1..j : trades'[k].fill}
    BY DEF FillsIn
  <2>4. FillsIn(<<i, j>>)' = FillsIn(<<i, j>>)
    BY <1>1, <2>1, <2>2, <2>3
  <2>5. \A k \in FillsIn(<<i, j>>) : trades'[k] = trades[k]
    BY <1>1, <2>1, <2>2
  <2> QED BY <2>4, <2>5, Zenon DEF AllLose
<1>3. ASSUME NEW i \in 0..n
      PROVE  /\ FillsIn(<<i, n + 1>>)' = IF t.fill THEN FillsIn(<<i, n>>) \cup {n + 1}
                                                   ELSE FillsIn(<<i, n>>)
             /\ AllLose(<<i, n + 1>>)' <=> AllLose(<<i, n>>) /\ (t.fill => t.pnl < 0)
             /\ n + 1 \notin FillsIn(<<i, n>>)
  <2>1. i + 1..n + 1 = (i + 1..n) \cup {n + 1} /\ n + 1 \notin i + 1..n
    BY <1>1
  <2>2. FillsIn(<<i, n>>) = {k \in i + 1..n : trades[k].fill}
    BY DEF FillsIn
  <2>3. FillsIn(<<i, n + 1>>)' = {k \in i + 1..n + 1 : trades'[k].fill}
    BY DEF FillsIn
  <2>4. \A k \in i + 1..n : trades'[k] = trades[k]
    BY <1>1
  <2>5. FillsIn(<<i, n + 1>>)' = IF t.fill THEN FillsIn(<<i, n>>) \cup {n + 1} ELSE FillsIn(<<i, n>>)
    <3>0. trades'[n + 1] = t
      BY <1>1
    <3>1. CASE t.fill
      <4>1. \A k \in i + 1..n + 1 : trades'[k].fill <=> k \in FillsIn(<<i, n>>) \cup {n + 1}
        BY <2>1, <2>2, <2>4, <3>0, <3>1, Zenon
      <4>2. FillsIn(<<i, n>>) \cup {n + 1} \subseteq i + 1..n + 1
        BY <2>1, <2>2, Zenon
      <4> QED BY <2>3, <3>1, <4>1, <4>2, Zenon
    <3>2. CASE ~t.fill
      BY <2>1, <2>2, <2>3, <2>4, <3>0, <3>2, Zenon
    <3> QED BY <3>1, <3>2, Zenon
  <2>6. n + 1 \notin FillsIn(<<i, n>>)
    BY <2>1, <2>2
  <2>7. \A k \in FillsIn(<<i, n>>) : trades'[k] = trades[k]
    BY <2>2, <2>4
  <2>8. AllLose(<<i, n + 1>>)' <=> \A k \in FillsIn(<<i, n + 1>>)' : trades'[k].pnl < 0
    BY Zenon DEF AllLose
  <2>9. AllLose(<<i, n>>) <=> \A k \in FillsIn(<<i, n>>) : trades[k].pnl < 0
    BY Zenon DEF AllLose
  <2> QED BY <1>1, <2>5, <2>6, <2>7, <2>8, <2>9, Zenon
<1>4. FillsIn(<<n + 1, n + 1>>)' = {} /\ AllLose(<<n + 1, n + 1>>)'
  <2>1. n + 1 + 1..n + 1 = {}
    BY <1>1
  <2>2. FillsIn(<<n + 1, n + 1>>)' = {}
    BY <2>1 DEF FillsIn
  <2> QED BY <2>2, Zenon DEF AllLose
<1> QED BY <1>1, <1>2, <1>3, <1>4

\* A loss makes the sequence in progress longer, another fill ends it, and a
\* blocked row leaves it alone.
LEMMA SequenceExtends ==
  ASSUME trades \in Seq(TradeType), NEW t \in TradeType, trades' = Append(trades, t),
         acc \in Accumulators, SequenceInv,
         acc'.losing = (IF ~t.fill THEN acc.losing ELSE IF t.pnl < 0 THEN acc.losing + 1 ELSE 0),
         acc'.worst = (IF t.fill THEN Larger(acc.worst, acc'.losing) ELSE acc.worst)
  PROVE  SequenceInv'
<1>0. PICK n : n = Len(trades)
  OBVIOUS
<1> DEFINE old(i, j) == Cardinality(FillsIn(<<i, j>>))
<1>1. /\ n \in Nat /\ Len(trades') = n + 1
      /\ \A i, j \in 0..n : /\ FillsIn(<<i, j>>)' = FillsIn(<<i, j>>)
                            /\ AllLose(<<i, j>>)' <=> AllLose(<<i, j>>)
      /\ FillsIn(<<n + 1, n + 1>>)' = {} /\ AllLose(<<n + 1, n + 1>>)'
      /\ \A i \in 0..n : n + 1 \notin FillsIn(<<i, n>>)
  BY <1>0, StretchGrows
<1>2. /\ \A i \in 0..n : FillsIn(<<i, n + 1>>)' = IF t.fill THEN FillsIn(<<i, n>>) \cup {n + 1}
                                                            ELSE FillsIn(<<i, n>>)
      /\ \A i \in 0..n : AllLose(<<i, n + 1>>)' <=> AllLose(<<i, n>>) /\ (t.fill => t.pnl < 0)
  BY <1>0, StretchGrows
<1>3. \A i, j \in 0..n : IsFiniteSet(FillsIn(<<i, j>>)) /\ old(i, j) \in Nat
  <2>1. \A i \in 0..n : i \in Nat
    BY <1>1
  <2> QED BY <2>1, FillsFinite, Zenon
<1> DEFINE new(i) == Cardinality(FillsIn(<<i, n + 1>>)')
<1>4. \A i \in 0..n : new(i) = IF t.fill THEN old(i, n) + 1 ELSE old(i, n)
  <2> SUFFICES ASSUME NEW i \in 0..n PROVE new(i) = IF t.fill THEN old(i, n) + 1 ELSE old(i, n)
    OBVIOUS
  <2>1. IsFiniteSet(FillsIn(<<i, n>>)) /\ n + 1 \notin FillsIn(<<i, n>>)
    BY <1>1, <1>3
  <2>2. Cardinality(FillsIn(<<i, n>>) \cup {n + 1}) = old(i, n) + 1
    BY <2>1, FS_AddElement
  <2> QED BY <1>2, <2>2, Zenon
<1>5. new(n + 1) = 0
  BY <1>1, FS_EmptySet, Zenon
<1>6. \A i, j \in 0..n : Cardinality(FillsIn(<<i, j>>)') = old(i, j)
  BY <1>1, Zenon
<1> HIDE DEF old, new
<1>7. /\ acc.losing \in Nat /\ acc.worst \in Nat /\ t.fill \in BOOLEAN /\ t.pnl \in Int
  BY DEF Accumulators, TradeType
<1>8. /\ \A i \in 0..n : AllLose(<<i, n>>) => old(i, n) <= acc.losing
      /\ \E i \in 0..n : AllLose(<<i, n>>) /\ old(i, n) = acc.losing
  BY <1>0, Zenon DEF SequenceInv, ToEnd, old
<1>9. /\ \A i, j \in 0..n : i <= j /\ AllLose(<<i, j>>) => old(i, j) <= acc.worst
      /\ \E i, j \in 0..n : i <= j /\ AllLose(<<i, j>>) /\ old(i, j) = acc.worst
  <2>1. Stretches = {p \in (0..n) \X (0..n) : p[1] <= p[2]}
    BY <1>0 DEF Stretches
  <2>2. \A i, j \in 0..n : i <= j => <<i, j>> \in Stretches
    BY <2>1
  <2>3. \A p \in Stretches : /\ p[1] \in 0..n /\ p[2] \in 0..n /\ p[1] <= p[2]
                             /\ p = <<p[1], p[2]>>
    BY <2>1
  <2>4. \A i, j \in 0..n : i <= j /\ AllLose(<<i, j>>) => old(i, j) <= acc.worst
    BY <2>2, Zenon DEF SequenceInv, old
  <2>5. PICK p \in Stretches : AllLose(p) /\ Cardinality(FillsIn(p)) = acc.worst
    BY DEF SequenceInv
  <2>6. AllLose(<<p[1], p[2]>>) /\ old(p[1], p[2]) = acc.worst
    BY <2>3, <2>5, Zenon DEF old
  <2> QED BY <2>3, <2>4, <2>6, Zenon
<1>10. acc.losing <= acc.worst
  <2>1. PICK i \in 0..n : AllLose(<<i, n>>) /\ old(i, n) = acc.losing
    BY <1>8
  <2>2. n \in 0..n /\ i <= n
    BY <1>1
  <2> QED BY <1>9, <2>1, <2>2
<1>11. /\ acc'.losing \in Nat /\ acc'.worst \in Nat /\ acc'.losing <= acc'.worst
       /\ acc.worst <= acc'.worst /\ (acc'.worst = acc.worst \/ acc'.worst = acc'.losing)
  <2>1. acc'.losing \in Nat
    BY <1>7
  <2>2. CASE t.fill
    BY <1>7, <2>1, <2>2 DEF Larger
  <2>3. CASE ~t.fill
    BY <1>7, <1>10, <2>3
  <2> QED BY <2>1, <2>2, <2>3
<1>12. n \in Nat /\ \A i \in 0..n + 1 : i \in 0..n \/ i = n + 1
  BY <1>1
<1> DEFINE Lose(i, j) == AllLose(<<i, j>>)'
           Fills2(i, j) == Cardinality(FillsIn(<<i, j>>)')
<1>13. /\ \A i, j \in 0..n : (Lose(i, j) <=> AllLose(<<i, j>>)) /\ Fills2(i, j) = old(i, j)
       /\ \A i \in 0..n : Lose(i, n + 1) <=> AllLose(<<i, n>>) /\ (t.fill => t.pnl < 0)
       /\ \A i \in 0..n : Fills2(i, n + 1) = IF t.fill THEN old(i, n) + 1 ELSE old(i, n)
       /\ Lose(n + 1, n + 1) /\ Fills2(n + 1, n + 1) = 0
  BY <1>1, <1>2, <1>4, <1>5, <1>6, Zenon DEF new
<1> HIDE DEF Lose, Fills2
<1>14. \A i \in 0..n + 1 : Lose(i, n + 1) => Fills2(i, n + 1) <= acc'.losing
  <2> SUFFICES ASSUME NEW i \in 0..n, Lose(i, n + 1) PROVE Fills2(i, n + 1) <= acc'.losing
    BY <1>11, <1>12, <1>13
  <2>1. AllLose(<<i, n>>) /\ (t.fill => t.pnl < 0)
    BY <1>13, Zenon
  <2>2. old(i, n) <= acc.losing /\ old(i, n) \in Nat
    <3>1. n \in 0..n
      BY <1>12
    <3> QED BY <1>3, <1>8, <2>1, <3>1
  <2>3. Fills2(i, n + 1) = IF t.fill THEN old(i, n) + 1 ELSE old(i, n)
    BY <1>13
  <2> QED BY <1>7, <2>1, <2>2, <2>3
<1>15. \E i \in 0..n + 1 : Lose(i, n + 1) /\ Fills2(i, n + 1) = acc'.losing
  <2>1. CASE t.fill /\ ~(t.pnl < 0)
    <3>1. acc'.losing = 0 /\ n + 1 \in 0..n + 1
      BY <1>12, <2>1
    <3> QED BY <1>13, <3>1, Zenon
  <2>2. CASE t.fill => t.pnl < 0
    <3>1. PICK i \in 0..n : AllLose(<<i, n>>) /\ old(i, n) = acc.losing
      BY <1>8
    <3>2. i \in 0..n + 1
      BY <1>12
    <3>3. Fills2(i, n + 1) = acc'.losing
      <4>1. CASE t.fill
        BY <1>13, <2>2, <3>1, <4>1
      <4>2. CASE ~t.fill
        BY <1>13, <3>1, <4>2
      <4> QED BY <4>1, <4>2
    <3>4. Lose(i, n + 1)
      BY <1>13, <2>2, <3>1, Zenon
    <3> QED BY <3>2, <3>3, <3>4
  <2> QED BY <2>1, <2>2, Zenon
<1>16. \A i, j \in 0..n + 1 : i <= j /\ Lose(i, j) => Fills2(i, j) <= acc'.worst
  <2> SUFFICES ASSUME NEW i \in 0..n + 1, NEW j \in 0..n + 1, i <= j, Lose(i, j)
               PROVE  Fills2(i, j) <= acc'.worst
    OBVIOUS
  <2>1. CASE j = n + 1
    <3>1. Fills2(i, j) <= acc'.losing
      BY <1>14, <2>1
    <3>2. Fills2(i, j) \in Nat
      <4>1. CASE i \in 0..n
        <5>1. Fills2(i, n + 1) = (IF t.fill THEN old(i, n) + 1 ELSE old(i, n)) /\ n \in 0..n
          BY <1>12, <1>13, <4>1
        <5>2. old(i, n) \in Nat
          BY <1>3, <4>1, <5>1, Zenon
        <5>3. \A k \in Nat : k + 1 \in Nat
          OBVIOUS
        <5> QED BY <2>1, <5>1, <5>2, <5>3, Zenon
      <4>2. CASE i = n + 1
        BY <1>13, <2>1, <4>2
      <4> QED BY <1>12, <4>1, <4>2
    <3> QED BY <1>11, <3>1, <3>2
  <2>2. CASE j \in 0..n
    <3>1. i \in 0..n
      BY <1>12, <2>2
    <3>2. Fills2(i, j) = old(i, j) /\ AllLose(<<i, j>>)
      BY <1>13, <2>2, <3>1, Zenon
    <3>3. old(i, j) <= acc.worst /\ old(i, j) \in Nat
      BY <1>3, <1>9, <2>2, <3>1, <3>2
    <3> QED BY <1>7, <1>11, <3>2, <3>3
  <2> QED BY <1>12, <2>1, <2>2
<1>17. \E i, j \in 0..n + 1 : i <= j /\ Lose(i, j) /\ Fills2(i, j) = acc'.worst
  <2>1. CASE acc'.worst = acc.worst
    <3>1. PICK i, j \in 0..n : i <= j /\ AllLose(<<i, j>>) /\ old(i, j) = acc.worst
      BY <1>9
    <3>2. i \in 0..n + 1 /\ j \in 0..n + 1
      BY <1>12
    <3> QED BY <1>13, <2>1, <3>1, <3>2, Zenon
  <2>2. CASE acc'.worst = acc'.losing
    <3>1. PICK i \in 0..n + 1 : Lose(i, n + 1) /\ Fills2(i, n + 1) = acc'.losing
      BY <1>15
    <3>2. n + 1 \in 0..n + 1 /\ i <= n + 1
      BY <1>12
    <3> QED BY <2>2, <3>1, <3>2, Zenon
  <2> QED BY <1>11, <2>1, <2>2
<1>18. Stretches' = {p \in (0..n + 1) \X (0..n + 1) : p[1] <= p[2]}
  BY <1>1 DEF Stretches
<1>19. \A p \in Stretches' : /\ p[1] \in 0..n + 1 /\ p[2] \in 0..n + 1 /\ p[1] <= p[2]
                             /\ p = <<p[1], p[2]>>
  BY <1>18
<1>20. \A p \in Stretches' : AllLose(p)' => Cardinality(FillsIn(p)') <= acc'.worst
  <2>1. \A p, i, j : p = <<i, j>> => /\ AllLose(p)' <=> Lose(i, j)
                                     /\ Cardinality(FillsIn(p)') = Fills2(i, j)
    BY Zenon DEF Lose, Fills2, AllLose, FillsIn
  <2> SUFFICES ASSUME NEW p \in Stretches', AllLose(p)'
               PROVE  Cardinality(FillsIn(p)') <= acc'.worst
    OBVIOUS
  <2>2. /\ p[1] \in 0..n + 1 /\ p[2] \in 0..n + 1 /\ p[1] <= p[2]
        /\ p = <<p[1], p[2]>>
    BY <1>19
  <2>3. Lose(p[1], p[2]) /\ Cardinality(FillsIn(p)') = Fills2(p[1], p[2])
    BY <2>2 DEF Lose, Fills2, AllLose, FillsIn
  <2> QED BY <1>16, <2>2, <2>3, Zenon
<1>21. \E p \in Stretches' : AllLose(p)' /\ Cardinality(FillsIn(p)') = acc'.worst
  <2>1. PICK i, j \in 0..n + 1 : i <= j /\ Lose(i, j) /\ Fills2(i, j) = acc'.worst
    BY <1>17
  <2>2. <<i, j>> \in Stretches'
    BY <1>18, <2>1
  <2> QED BY <2>1, <2>2, Zenon DEF Lose, Fills2
<1>22. Len(trades') = n + 1
  BY <1>1
<1>23. /\ \A i \in 0..Len(trades') : AllLose(ToEnd(i))' => Cardinality(FillsIn(ToEnd(i))') <= acc'.losing
       /\ \E i \in 0..Len(trades') : AllLose(ToEnd(i))' /\ Cardinality(FillsIn(ToEnd(i))') = acc'.losing
  <2>1. \A i : /\ AllLose(ToEnd(i))' <=> Lose(i, n + 1)
               /\ Cardinality(FillsIn(ToEnd(i))') = Fills2(i, n + 1)
    BY <1>22, Zenon DEF ToEnd, Lose, Fills2, AllLose, FillsIn
  <2> QED BY <1>14, <1>15, <1>22, <2>1, Zenon
<1> QED BY <1>20, <1>21, <1>23, Zenon DEF SequenceInv

\* A fill and a blocked row are counted once, each as what it is.
LEMMA CountExtends ==
  ASSUME trades \in Seq(TradeType), NEW t \in TradeType, trades' = Append(trades, t),
         acc \in Accumulators, CountInv, UNCHANGED history,
         acc'.eligible = (IF t.fill THEN acc.eligible + 1 ELSE acc.eligible),
         acc'.blocked = (IF t.fill THEN acc.blocked ELSE acc.blocked + 1),
         acc'.positive = (IF t.fill /\ t.pnl > 0 THEN acc.positive + 1 ELSE acc.positive),
         acc'.missed = (IF ~t.fill /\ Missed(rows[Len(trades) + 1]) THEN acc.missed + 1 ELSE acc.missed)
  PROVE  CountInv'
<1>0. PICK n : n = Len(trades)
  OBVIOUS
<1>1. /\ n \in Nat /\ Len(trades') = n + 1
      /\ DOMAIN trades = 1..n /\ DOMAIN trades' = 1..n + 1
      /\ \A k \in 1..n : trades'[k] = trades[k]
      /\ trades'[n + 1] = t
  BY <1>0, OneMore
<1>2. 1..n + 1 = (1..n) \cup {n + 1} /\ n + 1 \notin 1..n
  BY <1>1
<1>3. /\ t.fill \in BOOLEAN /\ t.pnl \in Int /\ acc.eligible \in Nat /\ acc.blocked \in Nat
      /\ acc.positive \in Nat /\ acc.missed \in Nat
  BY DEF TradeType, Accumulators
<1> DEFINE win == {k \in AllFills : trades[k].pnl > 0}
           miss == {k \in AllBlocked : Missed(rows[k])}
<1>4. /\ acc.eligible = Cardinality(AllFills) /\ acc.eligible + acc.blocked = n
      /\ acc.positive = Cardinality(win) /\ acc.missed = Cardinality(miss)
  BY <1>0, Zenon DEF CountInv
<1>5. /\ AllFills = {k \in 1..n : trades[k].fill} /\ AllBlocked = {k \in 1..n : ~trades[k].fill}
      /\ AllFills' = {k \in 1..n + 1 : trades'[k].fill}
      /\ AllBlocked' = {k \in 1..n + 1 : ~trades'[k].fill}
  BY <1>1, Zenon DEF AllFills, AllBlocked
<1>6. \A k : Missed(rows[k])' <=> Missed(rows[k])
  BY Zenon DEF Missed, history
<1>7. /\ IsFiniteSet(AllFills) /\ IsFiniteSet(win) /\ IsFiniteSet(miss)
      /\ n + 1 \notin AllFills /\ n + 1 \notin win /\ n + 1 \notin miss
  <2>1. IsFiniteSet(1..n) /\ AllFills \subseteq 1..n /\ win \subseteq 1..n /\ miss \subseteq 1..n
    <3>1. IsFiniteSet(1..n)
      BY <1>1, FS_Interval
    <3>2. AllFills \subseteq 1..n /\ AllBlocked \subseteq 1..n
      BY <1>5
    <3> QED BY <3>1, <3>2
  <2> HIDE DEF win, miss
  <2> QED BY <1>2, <2>1, FS_Subset
<1>8. AllFills' = IF t.fill THEN AllFills \cup {n + 1} ELSE AllFills
  <2>1. CASE t.fill
    <3>1. \A k \in 1..n + 1 : trades'[k].fill <=> k \in AllFills \cup {n + 1}
      BY <1>1, <1>2, <1>5, <2>1, Zenon
    <3>2. AllFills \cup {n + 1} \subseteq 1..n + 1
      BY <1>2, <1>5, Zenon
    <3> QED BY <1>5, <2>1, <3>1, <3>2, Zenon
  <2>2. CASE ~t.fill
    <3>1. \A k \in 1..n + 1 : trades'[k].fill <=> k \in AllFills
      BY <1>1, <1>2, <1>5, <2>2, Zenon
    <3>2. AllFills \subseteq 1..n + 1
      BY <1>2, <1>5, Zenon
    <3> QED BY <1>5, <2>2, <3>1, <3>2, Zenon
  <2> QED BY <2>1, <2>2
<1>9. win' = IF t.fill /\ t.pnl > 0 THEN win \cup {n + 1} ELSE win
  <2>1. win' = {k \in AllFills' : trades'[k].pnl > 0}
    OBVIOUS
  <2>2. \A k \in AllFills : trades'[k] = trades[k]
    BY <1>1, <1>5
  <2>3. trades'[n + 1] = t
    BY <1>1
  <2>4. CASE t.fill
    BY <1>8, <2>1, <2>2, <2>3, <2>4
  <2>5. CASE ~t.fill
    BY <1>8, <2>1, <2>2, <2>3, <2>5
  <2> QED BY <2>4, <2>5
<1>10. miss' = IF ~t.fill /\ Missed(rows[n + 1]) THEN miss \cup {n + 1} ELSE miss
  <2>1. miss' = {k \in AllBlocked' : Missed(rows[k])}
    BY <1>6, Zenon
  <2>2. CASE t.fill
    <3>1. \A k : k \in AllBlocked' <=> k \in AllBlocked
      BY <1>1, <1>2, <1>5, <2>2, Zenon
    <3> QED BY <2>1, <2>2, <3>1, Zenon
  <2>3. CASE ~t.fill
    <3>1. \A k : k \in AllBlocked' <=> k \in AllBlocked \/ k = n + 1
      BY <1>1, <1>2, <1>5, <2>3, Zenon
    <3>2. CASE Missed(rows[n + 1])
      BY <2>1, <2>3, <3>1, <3>2, Zenon
    <3>3. CASE ~Missed(rows[n + 1])
      BY <2>1, <2>3, <3>1, <3>3, Zenon
    <3> QED BY <3>2, <3>3
  <2> QED BY <2>2, <2>3
<1> HIDE DEF win, miss
<1>11. Cardinality(AllFills') = IF t.fill THEN Cardinality(AllFills) + 1 ELSE Cardinality(AllFills)
  <2>1. Cardinality(AllFills \cup {n + 1}) = Cardinality(AllFills) + 1
    BY <1>7, FS_AddElement
  <2> QED BY <1>8, <2>1, Zenon
<1>12. Cardinality(win') = IF t.fill /\ t.pnl > 0 THEN Cardinality(win) + 1 ELSE Cardinality(win)
  <2>1. Cardinality(win \cup {n + 1}) = Cardinality(win) + 1
    BY <1>7, FS_AddElement
  <2> QED BY <1>9, <2>1, Zenon
<1>13. Cardinality(miss') = IF ~t.fill /\ Missed(rows[n + 1]) THEN Cardinality(miss) + 1
                                                             ELSE Cardinality(miss)
  <2>1. Cardinality(miss \cup {n + 1}) = Cardinality(miss) + 1
    BY <1>7, FS_AddElement
  <2> QED BY <1>10, <2>1, Zenon
<1>14. /\ acc'.eligible = Cardinality(AllFills')
       /\ acc'.positive = Cardinality(win')
       /\ acc'.missed = Cardinality(miss')
  <2>1. acc'.eligible = Cardinality(AllFills')
    BY <1>4, <1>11, Zenon
  <2>2. acc'.positive = Cardinality(win')
    <3>1. CASE t.fill /\ t.pnl > 0
      BY <1>4, <1>12, <3>1, Zenon
    <3>2. CASE ~(t.fill /\ t.pnl > 0)
      BY <1>4, <1>12, <3>2, Zenon
    <3> QED BY <3>1, <3>2
  <2>3. acc'.missed = Cardinality(miss')
    <3>1. acc'.missed = IF ~t.fill /\ Missed(rows[n + 1]) THEN acc.missed + 1 ELSE acc.missed
      BY <1>0, Zenon
    <3>2. CASE ~t.fill /\ Missed(rows[n + 1])
      BY <1>4, <1>13, <3>1, <3>2, Zenon
    <3>3. CASE ~(~t.fill /\ Missed(rows[n + 1]))
      BY <1>4, <1>13, <3>1, <3>3, Zenon
    <3> QED BY <3>2, <3>3
  <2> QED BY <2>1, <2>2, <2>3, Zenon
<1>15. acc'.eligible + acc'.blocked = Len(trades')
  <2>1. CASE t.fill
    BY <1>1, <1>3, <1>4, <2>1
  <2>2. CASE ~t.fill
    BY <1>1, <1>3, <1>4, <2>2
  <2> QED BY <2>1, <2>2
<1> QED BY <1>14, <1>15, Zenon DEF CountInv, win, miss

\* A row's turn, as the accumulators see it.
Tally == CurveInv /\ SequenceInv /\ CountInv

LEMMA RowTallied ==
  ASSUME Inv, Tally, ReplayRow, UNCHANGED history
  PROVE  Tally'
<1>1. trades \in Seq(TradeType) /\ acc \in Accumulators /\ Turn = Len(trades) + 1
  BY DEF Inv, TypeOK, TradeType, Turn
<1>2. /\ acc.eligible \in Nat /\ acc.blocked \in Nat /\ acc.missed \in Nat
      /\ acc.positive \in Nat /\ acc.pnl \in Int /\ acc.drawdown \in Nat
      /\ acc.worst \in Nat /\ acc.peak \in Nat /\ acc.losing \in Nat
  BY <1>1 DEF Accumulators
<1>3. ASSUME NEW gain \in Gains, ReplayFill(gain)
      PROVE  Tally'
  <2> DEFINE p == gain - Penalty(Evidence(rows[Turn], Advanced))
  <2>1. p \in Int
    BY BacktestAssumption, PenaltyTyped
  <2>2. acc' = AfterFill(p) /\ trades' = Append(trades, [fill |-> TRUE, pnl |-> p])
    BY <1>3 DEF ReplayFill, WriteTrade
  <2> HIDE DEF p
  <2>3. PICK q : q = p
    OBVIOUS
  <2> DEFINE t == [fill |-> TRUE, pnl |-> q]
  <2>4. t \in TradeType /\ trades' = Append(trades, t) /\ t.fill = TRUE /\ t.pnl = q /\ q \in Int
    BY <2>1, <2>2, <2>3 DEF TradeType
  <2>5. /\ acc'.eligible = acc.eligible + 1 /\ acc'.blocked = acc.blocked
        /\ acc'.positive = (IF q > 0 THEN acc.positive + 1 ELSE acc.positive)
        /\ acc'.missed = acc.missed
        /\ acc'.pnl = acc.pnl + q
        /\ acc'.peak = Larger(acc.peak, acc.pnl + q)
        /\ acc'.drawdown = Larger(acc.drawdown, acc'.peak - (acc.pnl + q))
        /\ acc'.losing = (IF q < 0 THEN acc.losing + 1 ELSE 0)
        /\ acc'.worst = Larger(acc.worst, acc'.losing)
    BY <1>1, <2>2, <2>3 DEF AfterFill, Accumulators
  <2> HIDE DEF t
  <2>6. CurveInv'
    BY <1>1, <2>4, <2>5, CurveExtends DEF Tally
  <2>7. SequenceInv'
    BY <1>1, <2>4, <2>5, SequenceExtends DEF Tally
  <2>8. CountInv'
    BY <1>1, <2>4, <2>5, CountExtends DEF Tally
  <2> QED BY <2>6, <2>7, <2>8, Zenon DEF Tally
<1>4. CASE ReplayBlock
  <2> DEFINE t == [fill |-> FALSE, pnl |-> 0]
  <2>1. acc' = AfterBlock(rows[Turn]) /\ trades' = Append(trades, t)
    BY <1>4 DEF ReplayBlock, WriteTrade
  <2>2. t \in TradeType /\ t.fill = FALSE /\ t.pnl = 0
    BY DEF TradeType
  <2> HIDE DEF t
  <2>3. /\ acc'.eligible = acc.eligible /\ acc'.blocked = acc.blocked + 1
        /\ acc'.positive = acc.positive
        /\ acc'.missed = (IF Missed(rows[Turn]) THEN acc.missed + 1 ELSE acc.missed)
        /\ acc'.pnl = acc.pnl /\ acc'.peak = acc.peak /\ acc'.drawdown = acc.drawdown
        /\ acc'.losing = acc.losing /\ acc'.worst = acc.worst
    BY <1>1, <2>1 DEF AfterBlock, Accumulators
  <2>4. acc.pnl <= acc.peak /\ acc.peak - acc.pnl <= acc.drawdown
    <3>1. PICK e : IsEquity(e)
      BY DEF Tally, CurveInv
    <3>2. Follows(e)
      BY <3>1, Zenon DEF Tally, CurveInv
    <3>3. Len(trades) \in 0..Len(trades) /\ e[Len(trades)] = acc.pnl
      BY <1>1, <3>2 DEF Follows
    <3>4. PICK i \in 0..Len(trades) : e[i] = acc.peak
      BY <3>2 DEF Follows
    <3>5. <<i, Len(trades)>> \in Stretches
      BY <1>1, <3>3, <3>4 DEF Stretches
    <3> QED BY <3>2, <3>3, <3>4, <3>5 DEF Follows
  <2>5. CurveInv'
    <3>1. acc.pnl + 0 = acc.pnl /\ acc'.pnl = acc.pnl + 0
      BY <1>2, <2>3
    <3>2. acc'.peak = Larger(acc.peak, acc.pnl + 0)
      BY <1>2, <2>3, <2>4 DEF Larger
    <3>3. acc'.drawdown = Larger(acc.drawdown, acc'.peak - (acc.pnl + 0))
      BY <1>2, <2>3, <2>4 DEF Larger
    <3>4. 0 = (IF t.fill THEN t.pnl ELSE 0) /\ 0 \in Int
      BY <2>2
    <3> QED BY <1>1, <2>1, <2>2, <3>1, <3>2, <3>3, <3>4, CurveExtends DEF Tally
  <2>6. SequenceInv'
    BY <1>1, <2>1, <2>2, <2>3, SequenceExtends DEF Tally
  <2>7. CountInv'
    BY <1>1, <2>1, <2>2, <2>3, CountExtends DEF Tally
  <2> QED BY <2>5, <2>6, <2>7, Zenon DEF Tally
<1> QED BY <1>3, <1>4 DEF ReplayRow

\* Before the first row the curve is the point 0, and nothing is counted.
LEMMA InitTally ==
  ASSUME Init
  PROVE  Tally /\ Stored
<1>1. /\ trades = <<>> /\ Len(trades) = 0 /\ DOMAIN trades = {}
      /\ acc.eligible = 0 /\ acc.blocked = 0 /\ acc.missed = 0 /\ acc.positive = 0
      /\ acc.pnl = 0 /\ acc.drawdown = 0 /\ acc.worst = 0 /\ acc.peak = 0 /\ acc.losing = 0
      /\ pc = "create" /\ result = NoResult
  BY DEF Init
<1>2. Stretches = {<<0, 0>>} /\ 0..Len(trades) = {0}
  BY <1>1 DEF Stretches
<1>3. FillsIn(<<0, 0>>) = {} /\ AllLose(<<0, 0>>) /\ Cardinality(FillsIn(<<0, 0>>)) = 0
  <2>1. FillsIn(<<0, 0>>) = {}
    BY DEF FillsIn
  <2> QED BY <2>1, FS_EmptySet DEF AllLose
<1>4. CurveInv
  <2> DEFINE e == [i \in {0} |-> 0]
  <2>1. e = [i \in {0} |-> IF i = 0 THEN 0 ELSE e[i - 1] + Gain(i)]
    OBVIOUS
  <2>2. IsEquity(e)
    BY <1>2, <2>1, Zenon DEF IsEquity
  <2>3. ASSUME NEW f, IsEquity(f) PROVE Follows(f)
    <3>1. f = [i \in {0} |-> IF i = 0 THEN 0 ELSE f[i - 1] + Gain(i)]
      BY <1>2, <2>3, Zenon DEF IsEquity
    <3>2. f[0] = 0 /\ f \in [{0} -> Int]
      BY <3>1
    <3>3. f[<<0, 0>>[1]] - f[<<0, 0>>[2]] = 0
      BY <3>2
    <3>4. Fall(f, acc.drawdown) /\ \A p \in Stretches : f[p[1]] - f[p[2]] <= acc.drawdown
      BY <1>1, <1>2, <3>3 DEF Fall
    <3> QED BY <1>1, <1>2, <3>2, <3>4 DEF Follows
  <2> QED BY <2>2, <2>3 DEF CurveInv
<1>5. SequenceInv
  <2>1. \A i \in 0..Len(trades) : ToEnd(i) = <<0, 0>>
    BY <1>1, <1>2 DEF ToEnd
  <2> QED BY <1>1, <1>2, <1>3, <2>1 DEF SequenceInv
<1>6. CountInv
  <2>1. AllFills = {} /\ AllBlocked = {}
    BY <1>1 DEF AllFills, AllBlocked
  <2> QED BY <1>1, <2>1, FS_EmptySet DEF CountInv
<1>7. Stored
  BY <1>1 DEF Stored
<1> QED BY <1>4, <1>5, <1>6, <1>7 DEF Tally

\* What leaves the history, the trade rows and the accumulators alone leaves the
\* tally alone.
LEMMA TallyUntouched ==
  ASSUME Tally, UNCHANGED <<history, trades, acc>>
  PROVE  Tally'
<1>0. trades' = trades /\ acc' = acc /\ rows' = rows /\ mode' = mode
  BY DEF history
<1>1. CurveInv'
  <2>1. \A i : Gain(i)' = Gain(i)
    BY <1>0, Zenon DEF Gain
  <2>2. \A e : IsEquity(e)' <=> IsEquity(e)
    BY <1>0, <2>1, Zenon DEF IsEquity
  <2>3. Stretches' = Stretches
    BY <1>0, Zenon DEF Stretches
  <2>4. \A e : Follows(e)' <=> Follows(e)
    <3>1. \A e, d : Fall(e, d)' <=> Fall(e, d)
      BY <2>3, Zenon DEF Fall
    <3>2. acc'.drawdown = acc.drawdown BY <1>0
    <3> QED BY <1>0, <2>3, <3>1, <3>2, Zenon DEF Follows
  <2> QED BY <2>2, <2>4, Zenon DEF Tally, CurveInv
<1>2. SequenceInv'
  BY <1>0, Zenon DEF Tally, SequenceInv, AllLose, FillsIn, ToEnd, Stretches
<1>3. CountInv'
  BY <1>0, Zenon DEF Tally, CountInv, AllFills, AllBlocked, Missed
<1> QED BY <1>1, <1>2, <1>3 DEF Tally

\* The result is stored when every row has had its turn, and then nothing has one.
LEMMA StepTally ==
  ASSUME Inv, Tally, Stored, [Next]_vars
  PROVE  Tally' /\ Stored'
<1>1. ASSUME ReplayRow, UNCHANGED history
      PROVE  Tally' /\ result' = NoResult /\ pc = "replay"
  <2>1. Tally'
    BY <1>1, RowTallied
  <2>2. result' = result /\ pc = "replay"
    BY <1>1 DEF ReplayRow, ReplayFill, ReplayBlock, WriteTrade
  <2> QED BY <2>1, <2>2 DEF Stored
<1>2. ASSUME UNCHANGED <<history, trades, acc, result>>, result = NoResult \/ pc' \notin {"create", "list", "replay"}
      PROVE  Tally' /\ Stored'
  <2>1. Tally'
    BY <1>2, TallyUntouched
  <2>2. Summary' = Summary /\ rows' = rows
    BY <1>2 DEF Summary, history
  <2> QED BY <1>2, <2>1, <2>2 DEF Stored
<1>3. ASSUME Replayed, UNCHANGED <<history, trades, acc>>, result' = Summary,
             pc' \in {"store", "except"}
      PROVE  Tally' /\ Stored'
  <2>1. Tally'
    BY <1>3, TallyUntouched
  <2>2. Summary' = Summary /\ rows' = rows
    BY <1>3 DEF Summary, history
  <2>3. Len(trades) = Len(rows)
    BY <1>3 DEF Replayed, Turn, Inv, TypeOK, TradesFollowHistory
  <2> QED BY <1>3, <2>1, <2>2, <2>3 DEF Stored
<1>4. CASE Create \/ ListRows
  <2>1. UNCHANGED <<history, trades, acc, result>> /\ pc \in {"create", "list"}
    BY <1>4 DEF Create, ListRows, WriteRun
  <2> QED BY <1>2, <2>1 DEF Stored
<1>5. CASE Replay
  <2>1. ReplayRow /\ UNCHANGED history /\ pc' = pc
    BY <1>5 DEF Replay
  <2> QED BY <1>1, <2>1 DEF Stored
<1>6. CASE StoreResult
  <2>1. Replayed /\ UNCHANGED <<history, trades, acc>> /\ result' = Summary /\ pc' = "store"
    BY <1>6 DEF StoreResult, WriteResult
  <2> QED BY <1>3, <2>1
<1>7. CASE Complete \/ Fail \/ DataFault \/ Escape \/ Crash
  <2>1. UNCHANGED <<history, trades, acc, result>> /\ pc' \in {"done", "except"}
    BY <1>7 DEF Complete, Fail, DataFault, Escape, Crash, WriteRun
  <2> QED BY <1>2, <2>1
<1>8. CASE DatabaseFault
  <2>0. UNCHANGED history /\ pc' = "except"
    BY <1>8 DEF DatabaseFault
  <2>1. CASE UNCHANGED <<run, trades, result, acc, seen>>
    BY <1>2, <2>0, <2>1
  <2>2. CASE ReplayRow
    BY <1>1, <2>0, <2>2 DEF Stored
  <2>3. CASE pc = "replay" /\ Replayed /\ WriteResult /\ UNCHANGED <<acc, seen>>
    BY <1>3, <2>0, <2>3 DEF WriteResult
  <2>4. CASE pc = "store" /\ WriteRun("completed") /\ UNCHANGED <<acc, seen>>
    BY <1>2, <2>0, <2>4 DEF WriteRun
  <2> QED BY <1>8, <2>1, <2>2, <2>3, <2>4 DEF DatabaseFault
<1>9. CASE UNCHANGED vars
  <2>1. UNCHANGED <<history, trades, acc, result, pc>>
    BY <1>9 DEF vars, history
  <2> QED BY <1>2, <2>1 DEF Stored
<1> QED BY <1>4, <1>5, <1>6, <1>7, <1>8, <1>9 DEF Next

\* What is largest is what no other exceeds.
LEMMA LargestIs ==
  ASSUME NEW S, NEW m \in S, S \subseteq Int, \A x \in S : x <= m
  PROVE  Largest(S) = m
<1>1. \A k \in S : (\A x \in S : x <= k) => k = m
  OBVIOUS
<1> QED BY <1>1 DEF Largest

\* The stored result, from the accumulators it was stored from.
LEMMA TallyMatches ==
  ASSUME Inv, Tally, Stored
  PROVE  ResultMatchesTrades
<1> SUFFICES ASSUME result # NoResult PROVE ResultMatchesTrades
  BY DEF ResultMatchesTrades
<1> DEFINE n == Len(trades)
<1>1. result = Summary /\ Len(rows) = n /\ n \in Nat /\ trades \in Seq(TradeType)
      /\ DOMAIN trades = 1..n
  BY DEF Stored, Inv, TypeOK, TradeType
<1>2. /\ result.signals = n /\ result.eligible = acc.eligible /\ result.blocked = acc.blocked
      /\ result.missed = acc.missed /\ result.positive = acc.positive /\ result.pnl = acc.pnl
      /\ result.drawdown = acc.drawdown /\ result.worst = acc.worst
  BY <1>1 DEF Summary
<1>3. AllFills = FillsIn(<<0, n>>) /\ AllBlocked = (1..n) \ FillsIn(<<0, n>>)
  BY <1>1 DEF AllFills, AllBlocked, FillsIn
<1>4. IsEquity(Equity)
  <2>1. Equity = CHOOSE e : IsEquity(e)
    BY Zenon DEF Equity, IsEquity
  <2>2. \E e : IsEquity(e)
    BY DEF Tally, CurveInv
  <2> QED BY <2>1, <2>2, Zenon
<1>5. Follows(Equity)
  BY <1>4, Zenon DEF Tally, CurveInv
<1>6. Equity[n] = acc.pnl
  BY <1>5 DEF Follows
<1>7. acc.drawdown = Largest({Equity[p[1]] - Equity[p[2]] : p \in Stretches})
  <2> DEFINE S == {Equity[p[1]] - Equity[p[2]] : p \in Stretches}
  <2>1. acc.drawdown \in S
    BY <1>5 DEF Follows, Fall
  <2>2. \A x \in S : x <= acc.drawdown
    BY <1>5 DEF Follows
  <2>3. S \subseteq Int
    <3>1. \A p \in Stretches : p[1] \in 0..n /\ p[2] \in 0..n
      BY DEF Stretches
    <3>2. \A i \in 0..n : Equity[i] \in Int
      BY <1>5 DEF Follows
    <3> QED BY <3>1, <3>2
  <2> HIDE DEF S
  <2>4. Largest(S) = acc.drawdown
    BY <2>1, <2>2, <2>3, LargestIs
  <2> QED BY <2>4 DEF S
<1>8. acc.worst = Largest({Cardinality(FillsIn(p)) : p \in {q \in Stretches : AllLose(q)}})
  <2> DEFINE S == {Cardinality(FillsIn(p)) : p \in {q \in Stretches : AllLose(q)}}
  <2>1. acc.worst \in S
    BY DEF Tally, SequenceInv
  <2>2. \A x \in S : x <= acc.worst
    BY DEF Tally, SequenceInv
  <2>3. S \subseteq Int
    <3>1. \A p \in Stretches : p[1] \in Nat /\ p[2] \in Nat /\ p = <<p[1], p[2]>>
      BY <1>1 DEF Stretches
    <3>2. \A p \in Stretches : Cardinality(FillsIn(p)) \in Nat
      BY <3>1, FillsFinite
    <3> QED BY <3>2
  <2> HIDE DEF S
  <2>4. Largest(S) = acc.worst
    BY <2>1, <2>2, <2>3, LargestIs
  <2> QED BY <2>4 DEF S
<1>9. /\ acc.eligible = Cardinality(AllFills) /\ acc.eligible + acc.blocked = n
      /\ acc.positive = Cardinality({k \in AllFills : trades[k].pnl > 0})
      /\ acc.missed = Cardinality({k \in AllBlocked : Missed(rows[k])})
  BY DEF Tally, CountInv
<1> HIDE DEF n
<1> QED BY <1>2, <1>3, <1>6, <1>7, <1>8, <1>9, Zenon DEF ResultMatchesTrades, n

\* The stored result is the one of the stored trades (engine.py, the accumulators
\* and _finalize_outcome), for histories of every length, gains and penalties.
THEOREM ResultMatches == Spec => []ResultMatchesTrades
<1>1. Init => Inv /\ Tally /\ Stored
  BY InitInv, InitTally
<1>2. Inv /\ Tally /\ Stored /\ [Next]_vars => Inv' /\ Tally' /\ Stored'
  BY StepInv, StepTally
<1>3. Inv /\ Tally /\ Stored => ResultMatchesTrades
  BY TallyMatches
<1> QED BY <1>1, <1>2, <1>3, PTL DEF Spec
=============================================================================
