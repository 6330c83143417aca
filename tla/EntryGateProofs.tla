--------------------------- MODULE EntryGateProofs ---------------------------
(***************************************************************************)
(* Proofs about EntryGate for every set of quotes and thresholds: typing,  *)
(* what an entry says of the timer, of failed quotes and of the peg, and   *)
(* how many successes any window holds.                                    *)
(***************************************************************************)
EXTENDS EntryGate, FiniteSetTheorems, TLAPS

-----------------------------------------------------------------------------
(***************************************************************************)
(* Typing.                                                                 *)
(***************************************************************************)
Finite == IsFiniteSet(executions) /\ IsFiniteSet(history)

TypedInv == TypeOK /\ Finite

LEMMA QuotesModeled ==
  ASSUME NEW q \in Quotes
  PROVE  /\ q \in QuoteType /\ q.available
         /\ q.net \in Int /\ q.raw \in Int /\ q.net <= q.raw
<1>1. PICK raw \in RawEdges, costs \in Costs : q = ModeledQuote(raw, costs)
  BY DEF Quotes
<1>2. raw \in Int /\ costs \in Nat BY EntryAssumption
<1> QED BY <1>1, <1>2 DEF ModeledQuote, QuoteType

Verdict == {"paused", "quote_unavailable", "quote_mismatch", "other"}

\* What popleft leaves is typed and finite, and no more than there was.
LEMMA RecentTyped ==
  ASSUME TypedInv
  PROVE  /\ Recent \subseteq executions /\ Recent \in SUBSET Successes
         /\ IsFiniteSet(Recent) /\ Cardinality(Recent) \in Nat
<1>1. Recent \subseteq executions BY DEF Recent
<1>2. IsFiniteSet(Recent) BY <1>1, FS_Subset DEF TypedInv, Finite
<1> QED BY <1>1, <1>2, FS_CardinalityType DEF TypedInv, TypeOK

LEMMA InitTyped == Init => TypedInv
<1> SUFFICES ASSUME Init PROVE TypedInv
  OBVIOUS
<1>1. Finite BY FS_EmptySet DEF Init, Finite
<1>2. FreshVisit \in [pc : ScanPcs, mode : Modes, quote : Quotes \cup {Unavailable},
                      persisted : 0..now]
  BY DEF Init, FreshVisit, ScanPcs, Modes
<1> QED BY <1>1, <1>2 DEF Init, TypedInv, TypeOK

\* The visit has the most ways to change: it is dropped or moves on, or it records
\* the mode, or the quote.
VisitType(n) == [pc : ScanPcs, mode : Modes, quote : Quotes \cup {Unavailable},
                 persisted : 0..n]

LEMMA VisitDropped ==
  ASSUME TypedInv PROVE FreshVisit \in VisitType(now)
BY DEF FreshVisit, VisitType, ScanPcs, Modes, TypedInv, TypeOK

LEMMA VisitMoved ==
  ASSUME TypedInv, NEW pc \in ScanPcs PROVE [scan EXCEPT !.pc = pc] \in VisitType(now)
BY DEF VisitType, TypedInv, TypeOK

LEMMA VisitStarted ==
  ASSUME TypedInv, NEW pc \in ScanPcs, NEW m \in Modes
  PROVE  [FreshVisit EXCEPT !.pc = pc, !.mode = m] \in VisitType(now)
<1>1. FreshVisit \in VisitType(now) BY VisitDropped
<1> QED BY <1>1 DEF VisitType

LEMMA VisitQuoted ==
  ASSUME TypedInv, NEW pc \in ScanPcs, NEW q \in Quotes \cup {Unavailable}, NEW p \in 0..now
  PROVE  [scan EXCEPT !.pc = pc, !.quote = q, !.persisted = p] \in VisitType(now)
BY DEF VisitType, TypedInv, TypeOK

LEMMA MeasureTyped ==
  ASSUME TypedInv, NEW q \in Quotes, ScanMeasure(q)
  PROVE  since' \in 0..now \cup {None} /\ Persisted(since') \in 0..now
BY EntryAssumption
   DEF TypedInv, TypeOK, ScanMeasure, SinceAfter, Persisted, None

LEMMA StepTyped == TypedInv /\ [Next]_vars => TypedInv'
<1> SUFFICES ASSUME TypedInv, [Next]_vars PROVE TypedInv'
  OBVIOUS
<1>t. now \in Nat BY DEF TypedInv, TypeOK
<1>1. CASE ScanStart
  <2>1. StrategyMode \in Modes BY DEF StrategyMode, TypedInv, TypeOK, Modes
  <2>2. scan' = [FreshVisit EXCEPT !.pc = "quote", !.mode = StrategyMode]
    BY <1>1 DEF ScanStart
  <2>3. scan' \in VisitType(now)
    BY <1>1, <2>1, <2>2, VisitStarted DEF ScanStart, ScanPcs
  <2> QED BY <1>1, <2>3 DEF ScanStart, TypedInv, TypeOK, VisitType, Finite, settled, observed
<1>2. ASSUME NEW q \in Quotes, ScanMeasure(q) PROVE TypedInv'
  <2>1. since' \in 0..now \cup {None} /\ Persisted(since') \in 0..now BY <1>2, MeasureTyped
  <2>2. scan' \in VisitType(now)
    BY <1>2, <2>1, VisitQuoted DEF ScanMeasure, ScanPcs
  <2> QED BY <1>2, <2>1, <2>2 DEF ScanMeasure, TypedInv, TypeOK, VisitType, Finite, settled
<1>3. CASE ScanQuoted
  <2>1. scan' \in VisitType(now)
    BY <1>3, VisitMoved DEF ScanQuoted, ScanPcs
  <2> QED BY <1>3, <2>1 DEF ScanQuoted, TypedInv, TypeOK, VisitType, Finite, settled, observed
<1>4. CASE ScanQuoteFails
  <2>1. 0 \in 0..now BY DEF TypedInv, TypeOK
  <2>2. scan' \in VisitType(now)
    BY <1>4, <2>1, VisitQuoted DEF ScanQuoteFails, ScanPcs
  <2> QED BY <1>4, <2>2 DEF ScanQuoteFails, TypedInv, TypeOK, VisitType, Finite, settled
<1>5. CASE ScanEnter
  <2>1. scan' \in VisitType(now)
    BY <1>5, VisitMoved DEF ScanEnter, ScanPcs
  <2> QED BY <1>5, <2>1, RecentTyped
        DEF ScanEnter, TypedInv, TypeOK, VisitType, Finite, settled, observed
<1>6. CASE ScanStopped
  <2>1. scan' \in VisitType(now)
    BY <1>6, VisitDropped DEF ScanStopped
  <2> QED BY <1>6, <2>1, RecentTyped
        DEF ScanStopped, TypedInv, TypeOK, VisitType, Finite, settled, observed
<1>7. ASSUME NEW v \in Verdict, ScanBlocked(v) PROVE TypedInv'
  <2>1. scan' = FreshVisit \/ scan' = [scan EXCEPT !.pc = "mark"]
    BY <1>7 DEF ScanBlocked
  <2>2. scan' \in VisitType(now)
    BY <1>7, <2>1, VisitDropped, VisitMoved DEF ScanBlocked, ScanPcs
  <2>3. executions' \in SUBSET Successes /\ IsFiniteSet(executions')
    BY <1>7, RecentTyped DEF ScanBlocked, TypedInv, TypeOK, VisitType, Finite
  <2> QED BY <1>7, <2>2, <2>3 DEF ScanBlocked, TypedInv, TypeOK, VisitType, Finite, settled, observed
<1>8. CASE ScanMark
  <2>1. scan' \in VisitType(now)
    BY <1>8, VisitDropped DEF ScanMark
  <2> QED BY <1>8, <2>1
        DEF ScanMark, TypedInv, TypeOK, VisitType, Finite, Scopes, settled, observed
<1>9. CASE ScanSucceed
  <2> DEFINE success == [process |-> crashes, n |-> Cardinality(history), at |-> now]
  <2>1. scan' \in VisitType(now)
    BY <1>9, VisitDropped DEF ScanSucceed
  <2>2. success \in Successes
    BY FS_CardinalityType DEF TypedInv, TypeOK, VisitType, Finite, Successes
  <2>3. executions' = Recent \cup {success} /\ history' = history \cup {success}
    BY <1>9 DEF ScanSucceed
  <2>4. IsFiniteSet(executions') /\ IsFiniteSet(history')
    BY <2>3, RecentTyped, FS_AddElement DEF TypedInv, Finite
  <2>5. executions' \in SUBSET Successes /\ history' \in SUBSET Successes
    BY <2>2, <2>3, RecentTyped DEF TypedInv, TypeOK
  <2> QED BY <1>9, <2>1, <2>4, <2>5
        DEF ScanSucceed, TypedInv, TypeOK, VisitType, Finite, settled
<1>10. CASE ScanFail
  <2>1. scan' \in VisitType(now)
    BY <1>10, VisitDropped DEF ScanFail
  <2> QED BY <1>10, <2>1 DEF ScanFail, TypedInv, TypeOK, VisitType, Finite, settled
<1>11. ASSUME NEW s \in Scopes, Pause(s) PROVE TypedInv'
  BY <1>11 DEF Pause, TypedInv, TypeOK, VisitType, Finite, settled, observed
<1>12. ASSUME NEW s \in Scopes, Resume(s) PROVE TypedInv'
  BY <1>12 DEF Resume, TypedInv, TypeOK, VisitType, Finite, settled
<1>13. ASSUME NEW m \in Modes, SwitchMode(m) PROVE TypedInv'
  BY <1>13 DEF SwitchMode, TypedInv, TypeOK, VisitType, Finite, settled, observed
<1>14. CASE Tick
  <2>1. now' \in Nat /\ now <= now' BY <1>14, <1>t DEF Tick
  <2>2. 0..now \subseteq 0..now' BY <1>t, <2>1
  <2>3. scan' \in VisitType(now')
    BY <1>14, <2>2 DEF Tick, TypedInv, TypeOK, VisitType
  <2>4. since' \in 0..now' \cup {None} /\ dip' \in 0..now' \cup {None}
    BY <1>14, <2>2 DEF Tick, TypedInv, TypeOK, observed
  <2> QED BY <1>14, <2>1, <2>3, <2>4 DEF Tick, TypedInv, TypeOK, VisitType, Finite, settled, observed
<1>15. CASE Crash
  <2>1. scan' \in VisitType(now)
    BY <1>15, VisitDropped DEF Crash
  <2>2. crashes' \in Nat BY <1>15 DEF Crash, TypedInv, TypeOK
  <2>3. pauses' \in SUBSET Scopes BY <1>15 DEF Crash, Scopes
  <2> QED BY <1>15, <2>1, <2>2, <2>3, FS_EmptySet
        DEF Crash, TypedInv, TypeOK, VisitType, Finite, settled
<1>16. CASE UNCHANGED vars
  BY <1>16 DEF vars, TypedInv, TypeOK, VisitType, Finite
<1> QED
  BY <1>1, <1>2, <1>3, <1>4, <1>5, <1>6, <1>7, <1>8, <1>9, <1>10, <1>11, <1>12, <1>13,
     <1>14, <1>15, <1>16 DEF Next, ScanStep, Verdict

\* Every variable keeps its type: quotes, marks, pauses, ticks and restarts included.
THEOREM TypeCorrect == Spec => []TypeOK
<1>1. TypedInv => TypeOK BY DEF TypedInv
<1> QED BY InitTyped, StepTyped, <1>1, PTL DEF Spec

-----------------------------------------------------------------------------
(***************************************************************************)
(* The timer: it starts after the last quote below the least threshold,    *)
(* and the age a visit carries is at most the age of the timer.            *)
(***************************************************************************)
LiveOnlyHyper == strategy # "hyperevm_dex_dex" => scan.mode # "live"

Carried ==
  scan.pc \in {"measured", "judge"} /\ scan.persisted > 0 =>
    since # None /\ scan.persisted <= now - since

StartsAfterDip == since # None /\ dip # None => dip <= since

TimerInv == LiveOnlyHyper /\ Carried /\ StartsAfterDip

LEMMA AgeOfTimer ==
  ASSUME TypedInv, NEW started \in 0..now PROVE Persisted(started) <= now - started
BY DEF Persisted, None, TypedInv, TypeOK

LEMMA MeasureTimer ==
  ASSUME TypedInv, TimerInv, NEW q \in Quotes, ScanMeasure(q)
  PROVE  TimerInv'
<1>1. LiveOnlyHyper' BY DEF ScanMeasure, TimerInv, LiveOnlyHyper, TypedInv, TypeOK, settled
<1>2. Carried'
  <2>1. scan'.persisted = Persisted(since') /\ now' = now
    BY DEF ScanMeasure, TypedInv, TypeOK
  <2>2. since' \in 0..now \cup {None} BY MeasureTyped
  <2>3. now \in Nat BY DEF TypedInv, TypeOK
  <2>4. CASE since' = None BY <2>1, <2>4 DEF Carried, Persisted
  <2>5. CASE since' # None
    <3>1. since' \in 0..now BY <2>2, <2>5
    <3>2. Persisted(since') <= now - since' BY <3>1, AgeOfTimer
    <3>3. scan'.persisted <= now' - since' BY <2>1, <3>2
    <3> QED BY <2>5, <3>3 DEF Carried
  <2> QED BY <2>4, <2>5
<1>3. StartsAfterDip'
  <2>1. CASE since' = None BY <2>1 DEF StartsAfterDip
  <2>2. CASE since' # None
    <3>1. q.net >= MinEdge(scan.mode)
      BY <2>2, EntryAssumption, QuotesModeled
         DEF ScanMeasure, SinceAfter, MinEdge, TypedInv, TypeOK
    <3>2. MinEdge(scan.mode) >= Floor
      BY EntryAssumption DEF MinEdge, Floor, TimerInv, LiveOnlyHyper
    <3>3. q.net \in Int /\ MinEdge(scan.mode) \in Int /\ Floor \in Int
      BY EntryAssumption, QuotesModeled DEF MinEdge, Floor
    <3>4. dip' = dip BY <3>1, <3>2, <3>3 DEF ScanMeasure
    <3>5. since' = now \/ (since' = since /\ since # None)
      BY <2>2 DEF ScanMeasure, SinceAfter
    <3> QED BY <3>4, <3>5 DEF StartsAfterDip, TimerInv, TypedInv, TypeOK
  <2> QED BY <2>1, <2>2
<1> QED BY <1>1, <1>2, <1>3 DEF TimerInv

LEMMA InitTimer == Init => TimerInv
BY DEF Init, TimerInv, LiveOnlyHyper, Carried, StartsAfterDip, FreshVisit

LEMMA StepTimer == TypedInv /\ TimerInv /\ [Next]_vars => TimerInv'
<1> SUFFICES ASSUME TypedInv, TimerInv, [Next]_vars PROVE TimerInv'
  OBVIOUS
<1> USE DEF TimerInv, LiveOnlyHyper, Carried, StartsAfterDip, TypedInv, TypeOK
<1>1. CASE ScanStart
  <2>1. strategy # "hyperevm_dex_dex" => StrategyMode # "live" BY DEF StrategyMode
  <2>2. scan' = [FreshVisit EXCEPT !.pc = "quote", !.mode = StrategyMode]
        /\ UNCHANGED <<now, strategy, since, dip>>
    BY <1>1 DEF ScanStart, settled, observed
  <2>3. scan'.pc = "quote" /\ scan'.mode = StrategyMode BY <2>2 DEF FreshVisit
  <2> QED BY <2>1, <2>2, <2>3
<1>2. ASSUME NEW q \in Quotes, ScanMeasure(q) PROVE TimerInv'
  BY <1>2, MeasureTimer
<1>3. CASE ScanQuoted
  BY <1>3 DEF ScanQuoted, settled, observed
<1>4. CASE ScanQuoteFails
  BY <1>4 DEF ScanQuoteFails, settled
<1>5. CASE ScanEnter
  BY <1>5 DEF ScanEnter, settled, observed
<1>6. CASE ScanStopped
  BY <1>6 DEF ScanStopped, FreshVisit, settled, observed
<1>7. ASSUME NEW v \in Verdict, ScanBlocked(v) PROVE TimerInv'
  <2>1. scan' = FreshVisit \/ scan' = [scan EXCEPT !.pc = "mark"]
    BY <1>7 DEF ScanBlocked
  <2> QED BY <1>7, <2>1 DEF ScanBlocked, FreshVisit, settled, observed
<1>8. CASE ScanMark
  BY <1>8 DEF ScanMark, FreshVisit, settled, observed
<1>9. CASE ScanSucceed
  BY <1>9 DEF ScanSucceed, FreshVisit, settled
<1>10. CASE ScanFail
  BY <1>10 DEF ScanFail, FreshVisit, settled
<1>11. ASSUME NEW s \in Scopes, Pause(s) PROVE TimerInv'
  BY <1>11 DEF Pause, settled, observed
<1>12. ASSUME NEW s \in Scopes, Resume(s) PROVE TimerInv'
  BY <1>12 DEF Resume, settled
<1>13. ASSUME NEW m \in Modes, SwitchMode(m) PROVE TimerInv'
  BY <1>13 DEF SwitchMode, settled, observed
<1>14. CASE Tick
  BY <1>14 DEF Tick, settled, observed
<1>15. CASE Crash
  BY <1>15 DEF Crash, FreshVisit, settled
<1>16. CASE UNCHANGED vars
  BY <1>16 DEF vars
<1> QED
  BY <1>1, <1>2, <1>3, <1>4, <1>5, <1>6, <1>7, <1>8, <1>9, <1>10, <1>11, <1>12, <1>13,
     <1>14, <1>15, <1>16 DEF Next, ScanStep, Verdict

\* No step but ScanEnter takes a visit from the gate to a trade.
LEMMA OnlyEnterEnters == [Next]_vars /\ TypedInv /\ Enters => ScanEnter
<1> SUFFICES ASSUME [Next]_vars, TypedInv, Enters PROVE ScanEnter
  OBVIOUS
<1> USE DEF Enters
<1>1. ASSUME NEW q \in Quotes, ScanMeasure(q) PROVE FALSE
  BY <1>1 DEF ScanMeasure
<1>2. ASSUME NEW v \in Verdict, ScanBlocked(v) PROVE FALSE
  BY <1>2 DEF ScanBlocked, FreshVisit, TypedInv, TypeOK
<1>3. ASSUME NEW s \in Scopes, Pause(s) \/ Resume(s) PROVE FALSE
  BY <1>3 DEF Pause, Resume
<1>4. ASSUME NEW m \in Modes, SwitchMode(m) PROVE FALSE
  BY <1>4 DEF SwitchMode
<1>5. ~ScanStart /\ ~ScanQuoted /\ ~ScanQuoteFails /\ ~ScanSucceed
  BY DEF ScanStart, ScanQuoted, ScanQuoteFails, ScanSucceed
<1>6. ~ScanStopped /\ ~ScanMark /\ ~ScanFail /\ ~Crash /\ ~Tick
  BY DEF ScanStopped, ScanMark, ScanFail, Crash, Tick, FreshVisit
<1>7. ~UNCHANGED vars BY DEF vars
<1> QED BY <1>1, <1>2, <1>3, <1>4, <1>5, <1>6, <1>7 DEF Next, ScanStep, Verdict

\* When a route is entered, no quote was below the engine's least threshold for as
\* long as the mode asks (_update_persistence against evaluate's persist guard).
THEOREM EdgeHasHeld == Spec => EdgeHeld
<1>1. TypedInv /\ TimerInv /\ [Next]_vars
      => [Enters => dip = None \/ now - dip >= MinPersist(scan.mode)]_vars
  <2> SUFFICES ASSUME TypedInv, TimerInv, [Next]_vars, Enters, dip # None
               PROVE  now - dip >= MinPersist(scan.mode)
    OBVIOUS
  <2>1. ScanEnter BY OnlyEnterEnters
  <2>2. scan.pc = "judge" /\ scan.persisted >= MinPersist(scan.mode)
    BY <2>1 DEF ScanEnter, Admits
  <2>3. MinPersist(scan.mode) \in Nat BY EntryAssumption DEF MinPersist
  <2>4. dip \in 0..now /\ now \in Nat /\ scan.persisted \in 0..now
        /\ since \in 0..now \cup {None}
    BY DEF TypedInv, TypeOK
  <2>5. CASE scan.persisted = 0 BY <2>2, <2>3, <2>4, <2>5
  <2>6. CASE scan.persisted > 0
    BY <2>2, <2>3, <2>4, <2>6 DEF TimerInv, Carried, StartsAfterDip, None
  <2> QED BY <2>4, <2>5, <2>6
<1> QED BY <1>1, InitTyped, StepTyped, InitTimer, StepTimer, PTL DEF Spec, EdgeHeld

-----------------------------------------------------------------------------
(***************************************************************************)
(* Failed quotes: while one is unreviewed, either something is paused or   *)
(* the visit that saw it is about to pause the route.                      *)
(***************************************************************************)
GapInv == gap => pauses # {} \/ (scan.pc \in {"judge", "mark"} /\ ~scan.quote.available)

LEMMA StepGap == TypedInv /\ GapInv /\ [Next]_vars => GapInv'
<1> SUFFICES ASSUME TypedInv, GapInv, [Next]_vars PROVE GapInv'
  OBVIOUS
<1> USE DEF GapInv
<1>1. CASE ScanStart
  BY <1>1 DEF ScanStart, observed
<1>2. ASSUME NEW q \in Quotes, ScanMeasure(q) PROVE GapInv'
  BY <1>2 DEF ScanMeasure
<1>3. CASE ScanQuoted
  BY <1>3 DEF ScanQuoted, observed
<1>4. CASE ScanQuoteFails
  <2>1. scan'.pc = "judge" /\ scan'.quote = Unavailable
    BY <1>4 DEF ScanQuoteFails, TypedInv, TypeOK
  <2> QED BY <2>1 DEF Unavailable
<1>5. CASE ScanEnter
  BY <1>5 DEF ScanEnter, Admits, observed
<1>6. CASE ScanStopped
  BY <1>6 DEF ScanStopped, Admits, observed
<1>7. ASSUME NEW v \in Verdict, ScanBlocked(v) PROVE GapInv'
  <2>1. pauses' = pauses /\ gap' = gap /\ scan.pc = "judge"
    BY <1>7 DEF ScanBlocked, observed
  <2>2. CASE pauses # {} \/ ~gap BY <2>1, <2>2
  <2>3. CASE pauses = {} /\ gap
    <3>1. ~scan.quote.available BY <2>3
    <3>2. v = "quote_unavailable" BY <1>7, <2>3, <3>1 DEF ScanBlocked, Verdicts
    <3>3. scan' = [scan EXCEPT !.pc = "mark"] BY <1>7, <3>2 DEF ScanBlocked, Fatal
    <3> QED BY <3>1, <3>3 DEF TypedInv, TypeOK
  <2> QED BY <2>2, <2>3
<1>8. CASE ScanMark
  BY <1>8 DEF ScanMark
<1>9. CASE ScanSucceed
  BY <1>9 DEF ScanSucceed
<1>10. CASE ScanFail
  BY <1>10 DEF ScanFail
<1>11. ASSUME NEW s \in Scopes, Pause(s) PROVE GapInv'
  BY <1>11 DEF Pause
<1>12. ASSUME NEW s \in Scopes, Resume(s) PROVE GapInv'
  BY <1>12 DEF Resume
<1>13. ASSUME NEW m \in Modes, SwitchMode(m) PROVE GapInv'
  BY <1>13 DEF SwitchMode, observed
<1>14. CASE Tick
  BY <1>14 DEF Tick, observed
<1>15. CASE Crash
  BY <1>15 DEF Crash
<1>16. CASE UNCHANGED vars
  BY <1>16 DEF vars
<1> QED
  BY <1>1, <1>2, <1>3, <1>4, <1>5, <1>6, <1>7, <1>8, <1>9, <1>10, <1>11, <1>12, <1>13,
     <1>14, <1>15, <1>16 DEF Next, ScanStep, Verdict

\* No entry follows a failed quote that the timer ran through, unless something was
\* resumed or released since, an exception hid the failure or the process restarted
\* (quote_unavailable is in FATAL_FAILURE_CATEGORIES).
THEOREM GapIsReviewed == Spec => GapReviewed
<1>1. Init => GapInv BY DEF Init, GapInv
<1>2. TypedInv /\ GapInv /\ [Next]_vars => [Enters => ~gap]_vars
  <2> SUFFICES ASSUME TypedInv, GapInv, [Next]_vars, Enters PROVE ~gap
    OBVIOUS
  <2> QED BY OnlyEnterEnters DEF ScanEnter, Admits, GapInv
<1> QED BY <1>1, <1>2, InitTyped, StepTyped, StepGap, PTL DEF Spec, GapReviewed

-----------------------------------------------------------------------------
(***************************************************************************)
(* The peg.                                                                *)
(***************************************************************************)
\* No step but ScanEnter brings a visit in paper mode to its trade.
LEMMA OnlyEnterPays ==
  TypedInv /\ [Next]_vars /\ ~PaperEntered /\ PaperEntered' => ScanEnter
<1> SUFFICES ASSUME TypedInv, [Next]_vars, ~PaperEntered, PaperEntered' PROVE ScanEnter
  OBVIOUS
<1> USE DEF PaperEntered
<1>1. ASSUME NEW q \in Quotes, ScanMeasure(q) PROVE FALSE
  BY <1>1 DEF ScanMeasure, TypedInv, TypeOK
<1>2. ASSUME NEW v \in Verdict, ScanBlocked(v) PROVE FALSE
  <2>1. scan' = FreshVisit \/ scan' = [scan EXCEPT !.pc = "mark"]
    BY <1>2 DEF ScanBlocked
  <2> QED BY <2>1 DEF FreshVisit, TypedInv, TypeOK
<1>3. ASSUME NEW s \in Scopes, Pause(s) \/ Resume(s) PROVE FALSE
  BY <1>3 DEF Pause, Resume
<1>4. ASSUME NEW m \in Modes, SwitchMode(m) PROVE FALSE
  BY <1>4 DEF SwitchMode
<1>5. ~ScanStart BY DEF ScanStart, FreshVisit
<1>6. ~ScanQuoted /\ ~ScanQuoteFails
  BY DEF ScanQuoted, ScanQuoteFails, TypedInv, TypeOK
<1>7. ~ScanStopped /\ ~ScanMark /\ ~ScanSucceed /\ ~ScanFail /\ ~Crash /\ ~Tick
  BY DEF ScanStopped, ScanMark, ScanSucceed, ScanFail, Crash, Tick, FreshVisit
<1>8. ~UNCHANGED vars BY DEF vars
<1> QED
  BY <1>1, <1>2, <1>3, <1>4, <1>5, <1>6, <1>7, <1>8 DEF Next, ScanStep, Verdict

\* With the shadow threshold above the depeg threshold, as in the defaults, no paper
\* route is ever entered, whatever edges it shows: so PaperTrades fails for all such
\* thresholds (evaluate as _scan_loop calls it: the raw edge stands for the deviation).
THEOREM PaperIsBlocked == Spec => [](ShadowMinEdge > depegLimit => ~PaperEntered)
<1> DEFINE Blocked == ShadowMinEdge > depegLimit => ~PaperEntered
<1>1. Init => Blocked BY DEF Init, FreshVisit, PaperEntered
<1>2. TypedInv /\ Blocked /\ [Next]_vars => Blocked'
  <2> SUFFICES ASSUME TypedInv, Blocked, [Next]_vars,
                      ShadowMinEdge > depegLimit', PaperEntered'
               PROVE  FALSE
    OBVIOUS
  <2>1. depegLimit' = depegLimit
    BY DEF Next, vars, ScanStep, ScanStart, ScanMeasure, ScanQuoted, ScanQuoteFails, ScanEnter,
           ScanStopped, ScanBlocked, ScanMark, ScanSucceed, ScanFail, Pause, Resume, SwitchMode,
           Tick, Crash, settled
  <2>2. ~PaperEntered BY <2>1
  <2>3. ScanEnter BY <2>2, OnlyEnterPays
  <2>4. Admits /\ scan.mode = "paper"
    BY <2>3 DEF ScanEnter, PaperEntered, TypedInv, TypeOK
  <2>5. scan.quote \in Quotes BY <2>4 DEF Admits, TypedInv, TypeOK, Unavailable
  <2>6. /\ scan.quote.net \in Int /\ scan.quote.raw \in Int
        /\ scan.quote.net <= scan.quote.raw
    BY <2>5, QuotesModeled
  <2>7. ShadowMinEdge \in Int /\ depegLimit \in Int
    BY EntryAssumption DEF TypedInv, TypeOK
  <2>8. scan.quote.net >= ShadowMinEdge BY <2>4 DEF Admits, MinEdge
  <2>9. scan.quote.raw <= depegLimit BY <2>4 DEF Admits, PegHolds
  <2> QED BY <2>1, <2>6, <2>7, <2>8, <2>9
<1> QED BY <1>1, <1>2, InitTyped, StepTyped, PTL DEF Spec

-----------------------------------------------------------------------------
(***************************************************************************)
(* The rate: the executions hold every success of the process in the last  *)
(* window, and a trade only begins while they are fewer than the limit.    *)
(***************************************************************************)
InPast == \A h \in history : h.process <= crashes /\ h.at <= now

Remembered == {h \in history : h.process = crashes /\ h.at >= now - Window} \subseteq executions

RoomForOne == scan.pc = "trade" => Cardinality(executions) < MaxTrades

RateInv == InPast /\ Remembered /\ RoomForOne /\ RateBounded

Stretch(p, t) == {h \in history : h.process = p /\ h.at \in t..t + Window}

LEMMA HistoryTyped ==
  ASSUME TypedInv, NEW h \in history
  PROVE  h.process \in Nat /\ h.at \in Nat
BY DEF TypedInv, TypeOK, Successes

\* A step that leaves the history and the process alone, and does not turn back the
\* clock, keeps every stretch bounded: one that begins after the clock is empty.
LEMMA StretchesKept ==
  ASSUME TypedInv, RateInv, history' = history, now' \in Nat, crashes' = crashes
  PROVE  RateBounded'
<1> SUFFICES ASSUME NEW p \in 0..crashes, NEW t \in 0..now'
             PROVE  Cardinality(Stretch(p, t)) <= MaxTrades
  BY DEF RateBounded, Stretch
<1>1. CASE t \in 0..now BY <1>1 DEF RateInv, RateBounded, Stretch
<1>2. CASE t \notin 0..now
  <2>1. \A h \in history : h.at < t
    BY <1>2, HistoryTyped DEF RateInv, InPast, TypedInv, TypeOK
  <2>2. Stretch(p, t) = {}
    BY <2>1, HistoryTyped, EntryAssumption DEF Stretch
  <2> QED BY <2>2, FS_EmptySet, EntryAssumption
<1> QED BY <1>1, <1>2

LEMMA SuccessRate ==
  ASSUME TypedInv, RateInv, ScanSucceed
  PROVE  RateInv'
<1> DEFINE success == [process |-> crashes, n |-> Cardinality(history), at |-> now]
<1> USE EntryAssumption
<1>0. /\ now \in Nat /\ crashes \in Nat /\ now' = now /\ crashes' = crashes
      /\ success.process = crashes /\ success.at = now
  BY DEF ScanSucceed, settled, TypedInv, TypeOK
<1>1. executions' = Recent \cup {success} /\ history' = history \cup {success}
  BY DEF ScanSucceed
<1> HIDE DEF success
<1>2. InPast' BY <1>0, <1>1 DEF RateInv, InPast
<1>3. Remembered'
  <2> SUFFICES ASSUME NEW h \in history', h.process = crashes, h.at >= now - Window
               PROVE  h \in executions'
    BY <1>0 DEF Remembered
  <2>1. CASE h = success BY <1>1, <2>1
  <2>2. CASE h \in history
    BY <1>1, <2>2 DEF RateInv, Remembered, Recent
  <2> QED BY <1>1, <2>1, <2>2
<1>4. RoomForOne' BY DEF ScanSucceed, FreshVisit, RoomForOne
<1>5. RateBounded'
  <2> SUFFICES ASSUME NEW p \in 0..crashes, NEW t \in 0..now
               PROVE  Cardinality(Stretch(p, t)') <= MaxTrades
    BY <1>0 DEF RateBounded, Stretch
  <2>1. Cardinality(Stretch(p, t)) <= MaxTrades BY DEF RateInv, RateBounded, Stretch
  <2>2. Stretch(p, t)' = Stretch(p, t)
                         \cup {h \in {success} : h.process = p /\ h.at \in t..t + Window}
    BY <1>1 DEF Stretch
  <2>3. CASE p = crashes /\ now \in t..t + Window
    <3>1. Stretch(p, t) \subseteq executions
      <4> SUFFICES ASSUME NEW h \in Stretch(p, t) PROVE h \in executions
        OBVIOUS
      <4>1. h \in history /\ h.process = crashes /\ h.at >= t BY <2>3 DEF Stretch
      <4>2. h.at \in Nat BY <4>1, HistoryTyped
      <4>3. h.at >= now - Window BY <1>0, <2>3, <4>1, <4>2
      <4> QED BY <4>1, <4>3 DEF RateInv, Remembered
    <3>2. IsFiniteSet(Stretch(p, t)) /\ Cardinality(Stretch(p, t)) <= Cardinality(executions)
      BY <3>1, FS_Subset DEF TypedInv, Finite
    <3>3. Cardinality(executions) \in Nat /\ Cardinality(Stretch(p, t)) \in Nat
      BY <3>2, FS_CardinalityType DEF TypedInv, Finite
    <3>4. Cardinality(executions) < MaxTrades BY DEF ScanSucceed, RateInv, RoomForOne
    <3>5. \/ Cardinality(Stretch(p, t) \cup {success}) = Cardinality(Stretch(p, t))
          \/ Cardinality(Stretch(p, t) \cup {success}) = Cardinality(Stretch(p, t)) + 1
      BY <3>2, FS_AddElement, Zenon
    <3>6. Stretch(p, t)' = Stretch(p, t) \cup {success} BY <1>0, <2>2, <2>3
    <3>7. Cardinality(Stretch(p, t) \cup {success}) \in Nat
      BY <3>2, FS_AddElement, FS_CardinalityType
    <3> QED BY <3>2, <3>3, <3>4, <3>5, <3>6, <3>7
  <2>4. CASE ~(p = crashes /\ now \in t..t + Window)
    <3>1. Stretch(p, t)' = Stretch(p, t) BY <1>0, <2>2, <2>4
    <3> QED BY <2>1, <3>1
  <2> QED BY <2>3, <2>4
<1> QED BY <1>2, <1>3, <1>4, <1>5 DEF RateInv

LEMMA CrashRate ==
  ASSUME TypedInv, RateInv, Crash
  PROVE  RateInv'
<1>0. /\ now \in Nat /\ crashes \in Nat /\ now' = now /\ crashes' = crashes + 1
      /\ history' = history /\ executions' = {}
  BY DEF Crash, TypedInv, TypeOK
<1>1. \A h \in history : h.process < crashes'
  BY <1>0, HistoryTyped DEF RateInv, InPast
<1>2. InPast' BY <1>0, <1>1, HistoryTyped DEF RateInv, InPast
<1>3. Remembered' BY <1>0, <1>1, HistoryTyped DEF Remembered
<1>4. RoomForOne' BY DEF Crash, FreshVisit, RoomForOne
<1>5. RateBounded'
  <2> SUFFICES ASSUME NEW p \in 0..crashes', NEW t \in 0..now
               PROVE  Cardinality(Stretch(p, t)) <= MaxTrades
    BY <1>0 DEF RateBounded, Stretch
  <2>1. CASE p \in 0..crashes BY <2>1 DEF RateInv, RateBounded, Stretch
  <2>2. CASE p \notin 0..crashes
    <3>1. p = crashes' BY <1>0, <2>2
    <3>2. Stretch(p, t) = {} BY <1>0, <1>1, <3>1, HistoryTyped DEF Stretch
    <3> QED BY <3>2, FS_EmptySet, EntryAssumption
  <2> QED BY <2>1, <2>2
<1> QED BY <1>2, <1>3, <1>4, <1>5 DEF RateInv

LEMMA TickRate ==
  ASSUME TypedInv, RateInv, Tick
  PROVE  RateInv'
<1>0. /\ now \in Nat /\ now' = now + 1 /\ crashes' = crashes
      /\ history' = history /\ executions' = executions /\ scan' = scan
  BY DEF Tick, TypedInv, TypeOK, observed
<1>1. InPast' BY <1>0, HistoryTyped DEF RateInv, InPast
<1>2. Remembered' BY <1>0, HistoryTyped, EntryAssumption DEF RateInv, Remembered
<1>3. RoomForOne' BY <1>0 DEF RateInv, RoomForOne
<1>4. RateBounded' BY <1>0, StretchesKept
<1> QED BY <1>1, <1>2, <1>3, <1>4 DEF RateInv

\* A step that leaves the history, the clock and the process alone may drop old
\* executions, and starts a trade only with room for one.
LEMMA OtherRate ==
  ASSUME TypedInv, RateInv, UNCHANGED <<now, crashes, history>>,
         executions' = executions \/ executions' = Recent,
         RoomForOne'
  PROVE  RateInv'
<1>1. InPast' BY DEF RateInv, InPast
<1>2. Remembered' BY DEF RateInv, Remembered, Recent
<1>3. RateBounded' BY StretchesKept DEF TypedInv, TypeOK
<1> QED BY <1>1, <1>2, <1>3 DEF RateInv

LEMMA InitRate == Init => RateInv
<1> SUFFICES ASSUME Init PROVE RateInv
  OBVIOUS
<1>1. InPast /\ Remembered /\ RoomForOne
  BY DEF Init, FreshVisit, InPast, Remembered, RoomForOne
<1>2. RateBounded
  <2> SUFFICES ASSUME NEW p \in 0..crashes, NEW t \in 0..now
               PROVE  Cardinality(Stretch(p, t)) <= MaxTrades
    BY DEF RateBounded, Stretch
  <2>1. Stretch(p, t) = {} BY DEF Init, Stretch
  <2> QED BY <2>1, FS_EmptySet, EntryAssumption
<1> QED BY <1>1, <1>2 DEF RateInv

LEMMA StepRate == TypedInv /\ RateInv /\ [Next]_vars => RateInv'
<1> SUFFICES ASSUME TypedInv, RateInv, [Next]_vars PROVE RateInv'
  OBVIOUS
<1>r. RoomForOne BY DEF RateInv
<1> USE DEF RoomForOne, TypedInv, TypeOK
<1>1. CASE ScanStart
  BY <1>1, OtherRate DEF ScanStart, FreshVisit, settled, observed
<1>2. ASSUME NEW q \in Quotes, ScanMeasure(q) PROVE RateInv'
  BY <1>2, OtherRate DEF ScanMeasure, settled
<1>3. CASE ScanQuoted
  BY <1>3, OtherRate DEF ScanQuoted, settled, observed
<1>4. CASE ScanQuoteFails
  BY <1>4, OtherRate DEF ScanQuoteFails, settled
<1>5. CASE ScanEnter
  BY <1>5, OtherRate DEF ScanEnter, Admits, settled, observed
<1>6. CASE ScanStopped
  BY <1>6, OtherRate DEF ScanStopped, FreshVisit, settled, observed
<1>7. ASSUME NEW v \in Verdict, ScanBlocked(v) PROVE RateInv'
  <2>1. scan' = FreshVisit \/ scan' = [scan EXCEPT !.pc = "mark"]
    BY <1>7 DEF ScanBlocked
  <2>2. scan'.pc # "trade" BY <2>1 DEF FreshVisit
  <2> QED BY <1>7, <2>2, OtherRate DEF ScanBlocked, settled, observed
<1>8. CASE ScanMark
  BY <1>8, OtherRate DEF ScanMark, FreshVisit, settled, observed
<1>9. CASE ScanSucceed BY <1>9, SuccessRate
<1>10. CASE ScanFail
  BY <1>10, OtherRate DEF ScanFail, FreshVisit, settled
<1>11. ASSUME NEW s \in Scopes, Pause(s) PROVE RateInv'
  BY <1>11, <1>r, OtherRate DEF Pause, settled, observed
<1>12. ASSUME NEW s \in Scopes, Resume(s) PROVE RateInv'
  BY <1>12, <1>r, OtherRate DEF Resume, settled
<1>13. ASSUME NEW m \in Modes, SwitchMode(m) PROVE RateInv'
  BY <1>13, <1>r, OtherRate DEF SwitchMode, settled, observed
<1>14. CASE Tick BY <1>14, TickRate
<1>15. CASE Crash BY <1>15, CrashRate
<1>16. CASE UNCHANGED vars
  BY <1>16, <1>r, OtherRate DEF vars
<1> QED
  BY <1>1, <1>2, <1>3, <1>4, <1>5, <1>6, <1>7, <1>8, <1>9, <1>10, <1>11, <1>12, <1>13,
     <1>14, <1>15, <1>16 DEF Next, ScanStep, Verdict

\* No stretch of the window's length, wherever it starts, holds more successes of one
\* process than the limit (evaluate's route_rate_limit against mark_success).
THEOREM RateIsBounded == Spec => []RateBounded
<1>1. RateInv => RateBounded BY DEF RateInv
<1> QED BY InitTyped, StepTyped, InitRate, StepRate, <1>1, PTL DEF Spec
=============================================================================
