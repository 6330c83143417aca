-------------------------- MODULE TradeLedgerProofs --------------------------
(***************************************************************************)
(* What the tables say of the trades holds for any number of routes,       *)
(* attempts, crashes, exceptions and days, and for any results and limits. *)
(***************************************************************************)
EXTENDS TradeLedger, TLAPS, FiniteSetTheorems, Folds, WellFoundedInduction

Executed == {executions[i].attempt : i \in Rows}

\* Where the trade in progress stands, and what the tables hold of it.
TradeInv ==
  /\ Trading \/ At("alert") => scan.pos <= NRoutes
  /\ Trading => Last >= 1 /\ Last \notin Executed
  /\ scan.pc \in {"execute", "save", "outcome"} => attempts[Last] = "submitted"
  /\ At("execution") => attempts[Last] = scan.status
  /\ Counted => scan.status \in Outcomes
  /\ scan.pc \in {"outcome", "execution"} => Last \in saved

Inv ==
  /\ TypeOK
  /\ TradeInv
  /\ ExecutionsMatchAttempts
  /\ OutcomeAfterState
  /\ IsFiniteSet(Unexecuted) /\ AttemptsAccountedFor

-----------------------------------------------------------------------------
\* The assumption on the constants, in the form the steps use.
LEMMA Numbers ==
  /\ NRoutes \in Nat /\ NRoutes >= 1
  /\ \A p \in Pnls : p \in Int
BY ConstantsAssumption

\* A cycle begins, and a step inside a cycle keeps its type.
LEMMA CycleType ==
  /\ FreshScan \in Cycles
  /\ \A c \in Cycles, pc \in Pcs : [c EXCEPT !.pc = pc] \in Cycles
  /\ \A c \in Cycles, pc \in Pcs, pos \in 1..NRoutes + 1 : [c EXCEPT !.pc = pc, !.pos = pos] \in Cycles
  /\ \A c \in Cycles, pos \in 1..NRoutes + 1 : [c EXCEPT !.pos = pos] \in Cycles
  /\ \A c \in Cycles, st \in Statuses, n \in Int :
       [c EXCEPT !.pc = "save", !.status = st, !.realized = n] \in Cycles
<1>1. FreshScan \in Cycles
  BY Numbers DEF FreshScan, Cycles, Pcs, Statuses
<1>2. \A c \in Cycles, pc \in Pcs : [c EXCEPT !.pc = pc] \in Cycles
  BY DEF Cycles
<1>3. \A c \in Cycles, pc \in Pcs, pos \in 1..NRoutes + 1 : [c EXCEPT !.pc = pc, !.pos = pos] \in Cycles
  BY DEF Cycles
<1>4. \A c \in Cycles, pos \in 1..NRoutes + 1 : [c EXCEPT !.pos = pos] \in Cycles
  BY DEF Cycles
<1>5. \A c \in Cycles, st \in Statuses, n \in Int :
        [c EXCEPT !.pc = "save", !.status = st, !.realized = n] \in Cycles
  BY DEF Cycles, Pcs
<1> QED
  BY <1>1, <1>2, <1>3, <1>4, <1>5

\* Nothing is on record in the beginning.
LEMMA InitInv ==
  Init => Inv
<1> SUFFICES ASSUME Init PROVE Inv
  OBVIOUS
<1>1. TypeOK
  <2>1. attempts \in Seq(Statuses) /\ executions \in Seq(Executions)
    BY DEF Init
  <2>2. saved \subseteq 1..Len(attempts) /\ unfiled \in Nat
    BY DEF Init
  <2>3. scan \in Cycles
    BY CycleType DEF Init
  <2>5. halted \in BOOLEAN
    BY Zenon DEF Init
  <2>4. /\ pnl \in Int /\ anchor \in Nat /\ today \in Nat
        /\ crashes \in Nat /\ failures \in Nat /\ resumes \in Nat
    BY DEF Init
  <2> QED
    BY <2>1, <2>2, <2>3, <2>4, <2>5 DEF TypeOK
<1>2. Rows = {} /\ Unexecuted = {} /\ DOMAIN attempts = {}
  BY DEF Init, Rows, Unexecuted
<1>3. TradeInv
  BY DEF Init, TradeInv, Trading, Counted, At, FreshScan
<1>4. ExecutionsMatchAttempts /\ OutcomeAfterState
  BY <1>2 DEF ExecutionsMatchAttempts, OutcomeAfterState
<1>5. IsFiniteSet(Unexecuted) /\ AttemptsAccountedFor
  BY <1>2, FS_EmptySet DEF Init, AttemptsAccountedFor, Trading, FreshScan
<1> QED
  BY <1>1, <1>3, <1>4, <1>5 DEF Inv

\* A step that writes nothing and does not go on with a trade.
LEMMA IdleStep ==
  ASSUME Inv, UNCHANGED <<attempts, executions, saved>>, TypeOK',
         scan'.pc \in {"check", "stop", "route"},
         crashes' + failures' >= crashes + failures,
         Trading => crashes' + failures' >= crashes + failures + 1
  PROVE  Inv'
<1>1. Unexecuted' = Unexecuted /\ Rows' = Rows /\ Last' = Last
  BY DEF Unexecuted, Rows, Last
<1>2. TradeInv' /\ ~Trading'
  BY DEF TradeInv, Trading, Counted, At
<1>3. ExecutionsMatchAttempts' /\ OutcomeAfterState'
  BY DEF Inv, ExecutionsMatchAttempts, OutcomeAfterState, Rows
<1>4. Cardinality(Unexecuted) \in Nat
  BY FS_CardinalityType DEF Inv
<1>7. Cardinality(Unexecuted') = Cardinality(Unexecuted)
  BY <1>1, Zenon
<1>5. Cardinality(Unexecuted') <= crashes' + failures'
  <2>1. /\ crashes \in Nat /\ failures \in Nat
        /\ crashes' \in Nat /\ failures' \in Nat
    BY DEF Inv, TypeOK
  <2>4. \A k, a, b, c, d \in Nat :
          /\ k <= a + b + 1 /\ c + d >= a + b + 1 => k <= c + d
          /\ k <= a + b /\ c + d >= a + b => k <= c + d
    OBVIOUS
  <2>2. CASE Trading
    <3>1. Cardinality(Unexecuted) <= crashes + failures + 1
      BY <2>2 DEF Inv, AttemptsAccountedFor
    <3>2. crashes' + failures' >= crashes + failures + 1
      BY <2>2
    <3> QED
      BY <1>4, <1>7, <2>1, <2>4, <3>1, <3>2, Zenon
  <2>3. CASE ~Trading
    <3>1. Cardinality(Unexecuted) <= crashes + failures
      BY <2>1, <2>3 DEF Inv, AttemptsAccountedFor
    <3> QED
      BY <1>4, <1>7, <2>1, <2>4, <3>1, Zenon
  <2> QED
    BY <2>2, <2>3
<1>6. IsFiniteSet(Unexecuted') /\ AttemptsAccountedFor'
  BY <1>1, <1>2, <1>5 DEF Inv, TypeOK, AttemptsAccountedFor
<1> QED
  BY <1>2, <1>3, <1>6 DEF Inv

\* A step that writes neither table and stays within or outside a trade.
LEMMA TradeStep ==
  ASSUME Inv, UNCHANGED <<attempts, executions, crashes, failures>>, TypeOK',
         saved \subseteq saved', Trading' = Trading, TradeInv'
  PROVE  Inv'
<1>1. Unexecuted' = Unexecuted /\ Rows' = Rows
  BY DEF Unexecuted, Rows
<1>2. ExecutionsMatchAttempts' /\ OutcomeAfterState'
  BY DEF Inv, ExecutionsMatchAttempts, OutcomeAfterState, Rows
<1>3. IsFiniteSet(Unexecuted') /\ AttemptsAccountedFor'
  BY <1>1 DEF Inv, AttemptsAccountedFor
<1> QED
  BY <1>2, <1>3 DEF Inv

\* The steps of a cycle outside its trades.
LEMMA OutsideInv ==
  ASSUME Inv,
         \/ \E funded \in BOOLEAN : ScanCheckDd(funded)
         \/ ScanWriteStop \/ ScanSkip \/ ScanAlert \/ ScanSleep
  PROVE  Inv'
<1>1. scan' \in Cycles /\ halted' \in BOOLEAN
  <2>1. CASE \E funded \in BOOLEAN : ScanCheckDd(funded)
    <3>1. 1 \in 1..NRoutes + 1
      BY Numbers
    <3>2. /\ scan' = [scan EXCEPT !.pc = "stop", !.pos = 1]
             \/ scan' = [scan EXCEPT !.pc = "route", !.pos = 1]
          /\ halted' = halted
      BY <2>1 DEF ScanCheckDd
    <3>3. scan \in Cycles /\ halted \in BOOLEAN /\ "stop" \in Pcs /\ "route" \in Pcs
      BY DEF Inv, TypeOK, Pcs
    <3>4. /\ [scan EXCEPT !.pc = "stop", !.pos = 1] \in Cycles
          /\ [scan EXCEPT !.pc = "route", !.pos = 1] \in Cycles
      BY <3>1, <3>3, CycleType
    <3> QED
      BY <3>2, <3>3, <3>4
  <2>2. CASE ScanWriteStop
    BY <2>2, CycleType DEF ScanWriteStop, Inv, TypeOK, Pcs
  <2>3. CASE ScanSkip
    <3>1. scan.pos + 1 \in 1..NRoutes + 1
      BY <2>3, Numbers DEF ScanSkip, Inv, TypeOK, Cycles
    <3>2. scan' = [scan EXCEPT !.pos = scan.pos + 1] /\ halted' = halted
      BY <2>3 DEF ScanSkip
    <3>3. scan \in Cycles /\ halted \in BOOLEAN
      BY DEF Inv, TypeOK
    <3>4. [scan EXCEPT !.pos = scan.pos + 1] \in Cycles
      BY <3>1, <3>3, CycleType
    <3>5. halted' \in BOOLEAN
      BY <3>2, <3>3, Zenon
    <3>6. scan' \in Cycles
      BY <3>2, <3>4, Zenon
    <3> QED
      BY <3>5, <3>6, Zenon
  <2>4. CASE ScanAlert
    <3>1. scan.pos + 1 \in 1..NRoutes + 1
      BY <2>4, Numbers DEF ScanAlert, Inv, TypeOK, TradeInv, Cycles
    <3> QED
      BY <2>4, <3>1, CycleType DEF ScanAlert, Inv, TypeOK, Pcs
  <2>5. CASE ScanSleep
    BY <2>5, CycleType DEF ScanSleep, Inv, TypeOK
  <2> QED
    BY <2>1, <2>2, <2>3, <2>4, <2>5
<1>2. TypeOK'
  <2>1. UNCHANGED <<attempts, executions, pnl, anchor, today, crashes, failures, resumes,
                    saved, unfiled>>
    BY DEF ScanCheckDd, ScanWriteStop, ScanSkip, ScanAlert, ScanSleep, book, daily
  <2> QED
    BY <1>1, <2>1 DEF Inv, TypeOK
<1>3. ~Trading /\ scan'.pc \in {"check", "stop", "route"}
  <2>1. scan \in Cycles /\ scan.pc \in {"check", "stop", "route", "alert"}
    BY DEF Inv, TypeOK, At, ScanCheckDd, ScanWriteStop, ScanSkip, ScanAlert, ScanSleep
  <2>2. scan'.pc \in {"check", "stop", "route"}
    <3>1. CASE \E funded \in BOOLEAN : ScanCheckDd(funded)
      BY <2>1, <3>1 DEF ScanCheckDd, Cycles
    <3>2. CASE ScanWriteStop \/ ScanAlert
      BY <2>1, <3>2 DEF ScanWriteStop, ScanAlert, Cycles
    <3>3. CASE ScanSkip
      BY <2>1, <3>3 DEF ScanSkip, Cycles, At
    <3>4. CASE ScanSleep
      BY <3>4 DEF ScanSleep, FreshScan
    <3> QED
      BY <3>1, <3>2, <3>3, <3>4
  <2> QED
    BY <2>1, <2>2 DEF Trading
<1>4. UNCHANGED <<attempts, executions, saved, crashes, failures>>
  BY DEF ScanCheckDd, ScanWriteStop, ScanSkip, ScanAlert, ScanSleep, book
<1> QED
  BY <1>2, <1>3, <1>4, IdleStep DEF Inv, TypeOK

-----------------------------------------------------------------------------
\* A new attempt is submitted, has no execution, and is the trade in progress.
LEMMA AttemptInv ==
  ASSUME Inv, ScanAttempt
  PROVE  Inv'
<1> DEFINE n == Len(attempts)
<1>1. /\ n \in Nat /\ n + 1 \in Nat /\ n + 1 \notin 1..n
      /\ Len(attempts') = n + 1 /\ attempts'[n + 1] = "submitted"
      /\ attempts' \in Seq(Statuses)
      /\ DOMAIN attempts' = DOMAIN attempts \cup {n + 1}
      /\ DOMAIN attempts = 1..n
      /\ \A i \in DOMAIN attempts : attempts'[i] = attempts[i]
  BY DEF ScanAttempt, Inv, TypeOK, Statuses
<1>2. /\ UNCHANGED <<executions, saved, crashes, failures>>
      /\ Rows' = Rows /\ Executed' = Executed
      /\ Last' = n + 1
  BY <1>1 DEF ScanAttempt, Rows, Executed, Last
<1>3. Executed \subseteq 1..n
  BY <1>1 DEF Inv, ExecutionsMatchAttempts, Executed
<1>4. scan \in Cycles /\ scan' = [scan EXCEPT !.pc = "execute"] /\ scan.pc = "route"
      /\ scan.pos <= NRoutes
  BY DEF ScanAttempt, Inv, TypeOK, At
<1>5. scan' \in Cycles /\ scan'.pc = "execute" /\ Trading' /\ ~Trading
      /\ scan'.pos <= NRoutes
  BY <1>4 DEF Cycles, Pcs, Trading
<1>6. TypeOK'
  <2>1. saved' \subseteq 1..Len(attempts')
    BY <1>1, <1>2 DEF Inv, TypeOK
  <2>2. UNCHANGED <<executions, halted, pnl, anchor, today, crashes, failures, resumes, unfiled>>
    BY DEF ScanAttempt, daily
  <2> QED
    BY <1>1, <1>5, <2>1, <2>2 DEF Inv, TypeOK
<1>7. TradeInv'
  <2>1. Last' >= 1 /\ Last' \notin Executed' /\ attempts'[Last'] = "submitted"
    BY <1>1, <1>2, <1>3
  <2> QED
    BY <1>5, <2>1 DEF TradeInv, Counted, At
<1>8. ExecutionsMatchAttempts'
  BY <1>1, <1>2, <1>3 DEF Inv, ExecutionsMatchAttempts, Executed
<1>9. OutcomeAfterState'
  BY <1>1, <1>2 DEF Inv, OutcomeAfterState
<1>10. IsFiniteSet(Unexecuted') /\ AttemptsAccountedFor'
  <2>1. Unexecuted' = Unexecuted \cup {n + 1} /\ n + 1 \notin Unexecuted
    BY <1>1, <1>2, <1>3 DEF Unexecuted, Executed
  <2>2. /\ IsFiniteSet(Unexecuted') /\ Cardinality(Unexecuted) \in Nat
        /\ Cardinality(Unexecuted') = Cardinality(Unexecuted) + 1
    BY <2>1, FS_AddElement, FS_CardinalityType DEF Inv
  <2>3. Cardinality(Unexecuted) <= crashes + failures
    BY <1>5, <2>2 DEF Inv, TypeOK, AttemptsAccountedFor
  <2>4. crashes + failures \in Nat
    BY DEF Inv, TypeOK
  <2>5. Cardinality(Unexecuted') <= crashes + failures + 1
    BY <2>2, <2>3, <2>4
  <2> QED
    BY <1>2, <1>5, <2>2, <2>5 DEF AttemptsAccountedFor
<1> QED
  BY <1>6, <1>7, <1>8, <1>9, <1>10 DEF Inv

\* The trade is over in memory, with an outcome.
LEMMA ExecuteInv ==
  ASSUME Inv, ScanExecute
  PROVE  Inv'
<1>1. PICK st \in Outcomes, n \in Int :
        scan' = [scan EXCEPT !.pc = "save", !.status = st, !.realized = n]
  <2>1. "success" \in Outcomes /\ "dry_run" \in Outcomes /\ "dry_run_blocked" \in Outcomes
    BY DEF Outcomes
  <2>2. \/ \E p \in Pnls : scan' = [scan EXCEPT !.pc = "save", !.status = "success", !.realized = p]
        \/ scan' = [scan EXCEPT !.pc = "save", !.status = "dry_run", !.realized = 0]
        \/ scan' = [scan EXCEPT !.pc = "save", !.status = "dry_run_blocked", !.realized = 0]
    BY DEF ScanExecute
  <2>3. CASE \E p \in Pnls : scan' = [scan EXCEPT !.pc = "save", !.status = "success", !.realized = p]
    BY <2>1, <2>3, Numbers, Zenon
  <2>6. 0 \in Int
    OBVIOUS
  <2>4. CASE scan' = [scan EXCEPT !.pc = "save", !.status = "dry_run", !.realized = 0]
    BY <2>1, <2>4, <2>6, Zenon
  <2>5. CASE scan' = [scan EXCEPT !.pc = "save", !.status = "dry_run_blocked", !.realized = 0]
    BY <2>1, <2>5, <2>6, Zenon
  <2> QED
    BY <2>2, <2>3, <2>4, <2>5
<1>2. scan \in Cycles /\ scan.pc = "execute"
  BY DEF Inv, TypeOK, ScanExecute, At
<1>3. scan'.pc = "save" /\ scan'.status = st /\ scan'.pos = scan.pos /\ scan' \in Cycles
  <2>1. scan'.pc = "save" /\ scan'.status = st /\ scan'.pos = scan.pos
    BY <1>1, <1>2 DEF Cycles
  <2>2. st \in Statuses
    BY DEF Statuses
  <2>3. [scan EXCEPT !.pc = "save", !.status = st, !.realized = n] \in Cycles
    BY <1>2, <2>2, CycleType
  <2> QED
    BY <1>1, <2>1, <2>3
<1>4. pnl' \in Int /\ anchor' \in Nat
  <2>1. \A p \in Int : MarkSuccess(p) => pnl' \in Int /\ anchor' \in Nat
    BY DEF MarkSuccess, Inv, TypeOK
  <2>2. UNCHANGED daily => pnl' \in Int /\ anchor' \in Nat
    BY DEF daily, Inv, TypeOK
  <2>3. (\E p \in Pnls : MarkSuccess(p)) \/ MarkSuccess(0) \/ UNCHANGED daily
    BY Zenon DEF ScanExecute
  <2>4. 0 \in Int
    OBVIOUS
  <2> QED
    BY <2>1, <2>2, <2>3, <2>4, Numbers, Zenon
<1>5. UNCHANGED <<attempts, executions, halted, today, crashes, failures, resumes, saved, unfiled>>
  BY DEF ScanExecute, book
<1>6. TypeOK'
  BY <1>3, <1>4, <1>5 DEF Inv, TypeOK
<1>7. Trading /\ Trading'
  BY <1>2, <1>3 DEF Trading
<1>8. TradeInv'
  BY <1>2, <1>3, <1>5, <1>7 DEF Inv, TradeInv, Counted, At, Last, Executed, Rows
<1> QED
  BY <1>5, <1>6, <1>7, <1>8, TradeStep

\* The route's state is committed.
LEMMA SaveInv ==
  ASSUME Inv, ScanSave
  PROVE  Inv'
<1>1. /\ scan \in Cycles /\ scan.pc = "save"
      /\ scan' = [scan EXCEPT !.pc = "outcome"]
      /\ saved' = saved \cup {Last}
  BY DEF Inv, TypeOK, ScanSave, At
<1>2. scan'.pc = "outcome" /\ scan'.pos = scan.pos /\ scan'.status = scan.status /\ scan' \in Cycles
  BY <1>1 DEF Cycles, Pcs
<1>3. UNCHANGED <<attempts, executions, halted, pnl, anchor, today, crashes, failures, resumes, unfiled>>
  BY DEF ScanSave, book, daily
<1>4. Trading /\ Trading'
  BY <1>1, <1>2 DEF Trading
<1>5. Last \in 1..Len(attempts)
  BY <1>4 DEF Inv, TypeOK, TradeInv, Last
<1>6. TypeOK'
  BY <1>1, <1>2, <1>3, <1>5 DEF Inv, TypeOK
<1>7. TradeInv'
  BY <1>1, <1>2, <1>3, <1>4 DEF Inv, TradeInv, Counted, At, Last, Executed, Rows
<1> QED
  BY <1>1, <1>3, <1>4, <1>6, <1>7, TradeStep

\* The attempt gets its outcome; it has no execution yet that could disagree.
LEMMA OutcomeInv ==
  ASSUME Inv, ScanOutcome
  PROVE  Inv'
<1> DEFINE n == Len(attempts)
<1>1. /\ scan \in Cycles /\ scan.pc = "outcome"
      /\ scan' = [scan EXCEPT !.pc = "execution"]
      /\ attempts' = [attempts EXCEPT ![n] = scan.status]
  BY DEF Inv, TypeOK, ScanOutcome, At, Last
<1>2. scan'.pc = "execution" /\ scan'.pos = scan.pos /\ scan'.status = scan.status /\ scan' \in Cycles
  BY <1>1 DEF Cycles, Pcs
<1>3. Trading /\ Trading'
  BY <1>1, <1>2 DEF Trading
<1>4. n \in 1..n /\ n \notin Executed /\ n \in saved /\ scan.status \in Outcomes
  BY <1>1, <1>3 DEF Inv, TypeOK, TradeInv, Last, Counted
<1>5. /\ attempts' \in Seq(Statuses) /\ Len(attempts') = n
      /\ DOMAIN attempts' = DOMAIN attempts
      /\ attempts'[n] = scan.status
      /\ \A i \in DOMAIN attempts : i # n => attempts'[i] = attempts[i]
  BY <1>1, <1>4 DEF Inv, TypeOK, Statuses
<1>6. UNCHANGED <<executions, halted, pnl, anchor, today, crashes, failures, resumes, saved, unfiled>>
  BY DEF ScanOutcome, daily
<1>7. Rows' = Rows /\ Executed' = Executed /\ Unexecuted' = Unexecuted /\ Last' = Last
  BY <1>5, <1>6 DEF Rows, Executed, Unexecuted, Last
<1>8. TypeOK'
  BY <1>2, <1>5, <1>6 DEF Inv, TypeOK
<1>9. TradeInv'
  BY <1>2, <1>3, <1>4, <1>5, <1>6, <1>7 DEF Inv, TradeInv, Counted, At, Last
<1>10. ExecutionsMatchAttempts'
  <2>1. \A i \in Rows : executions[i].attempt # n
    BY <1>4 DEF Executed
  <2> QED
    BY <1>5, <1>6, <1>7, <2>1 DEF Inv, ExecutionsMatchAttempts
<1>11. OutcomeAfterState'
  BY <1>4, <1>5, <1>6 DEF Inv, OutcomeAfterState
<1>12. IsFiniteSet(Unexecuted') /\ AttemptsAccountedFor'
  BY <1>3, <1>6, <1>7 DEF Inv, AttemptsAccountedFor
<1> QED
  BY <1>8, <1>9, <1>10, <1>11, <1>12 DEF Inv

\* The execution row says what the attempt says.
LEMMA ExecutionInv ==
  ASSUME Inv, ScanExecution
  PROVE  Inv'
<1> DEFINE n == Len(attempts)
           m == Len(executions)
           e == [attempt |-> n, status |-> scan.status,
                 realized |-> scan.realized, day |-> today, process |-> crashes]
<1>1. /\ scan \in Cycles /\ scan.pc = "execution"
      /\ scan' = [scan EXCEPT !.pc = "alert"]
      /\ executions' = Append(executions, e)
  BY DEF Inv, TypeOK, ScanExecution, At, Last
<1>2. scan'.pc = "alert" /\ scan'.pos = scan.pos /\ scan' \in Cycles /\ Trading /\ ~Trading'
  BY <1>1 DEF Cycles, Pcs, Trading
<1>3. n \in 1..n /\ n \notin Executed /\ attempts[n] = scan.status /\ scan.status \in Outcomes
  BY <1>1, <1>2 DEF Inv, TypeOK, TradeInv, Last, Counted, At
<1>4. e \in Executions
  BY <1>1, <1>3 DEF Inv, TypeOK, Executions, Cycles
<1>5. /\ executions' \in Seq(Executions)
      /\ Rows' = Rows \cup {m + 1} /\ m + 1 \notin Rows
      /\ executions'[m + 1] = e
      /\ \A i \in Rows : executions'[i] = executions[i]
  BY <1>1, <1>4 DEF Inv, TypeOK, Rows
<1>6. UNCHANGED <<attempts, halted, pnl, anchor, today, crashes, failures, resumes, saved, unfiled>>
  BY DEF ScanExecution, daily
<1>7. e.attempt = n /\ e.status = scan.status
  OBVIOUS
<1> HIDE DEF e
<1>8. Executed' = Executed \cup {n}
  BY <1>5, <1>7 DEF Executed
<1>9. TypeOK'
  BY <1>2, <1>5, <1>6 DEF Inv, TypeOK
<1>10. TradeInv'
  BY <1>2, <1>6 DEF Inv, TradeInv, Counted, At
<1>11. ExecutionsMatchAttempts'
  <2>1. \A i \in Rows : executions[i].attempt # n
    BY <1>3 DEF Executed
  <2>2. n \in DOMAIN attempts
    BY <1>3 DEF Inv, TypeOK
  <2>3. \A i \in Rows' : /\ executions'[i].attempt \in DOMAIN attempts
                        /\ attempts[executions'[i].attempt] = executions'[i].status
    BY <1>3, <1>5, <1>7, <2>2 DEF Inv, ExecutionsMatchAttempts
  <2>4. \A i, j \in Rows' : executions'[i].attempt = executions'[j].attempt => i = j
    BY <1>5, <1>7, <2>1 DEF Inv, ExecutionsMatchAttempts
  <2> QED
    BY <1>6, <2>3, <2>4 DEF ExecutionsMatchAttempts
<1>12. OutcomeAfterState'
  BY <1>6 DEF Inv, OutcomeAfterState
<1>13. IsFiniteSet(Unexecuted') /\ AttemptsAccountedFor'
  <2>1. n \in Unexecuted /\ Unexecuted' = Unexecuted \ {n}
    BY <1>3, <1>6, <1>8 DEF Inv, TypeOK, Unexecuted, Executed
  <2>2. /\ IsFiniteSet(Unexecuted') /\ Cardinality(Unexecuted) \in Nat
        /\ Cardinality(Unexecuted') = Cardinality(Unexecuted) - 1
    BY <2>1, FS_RemoveElement, FS_CardinalityType DEF Inv
  <2>3. Cardinality(Unexecuted) <= crashes + failures + 1
    BY <1>2 DEF Inv, AttemptsAccountedFor
  <2>4. crashes \in Nat /\ failures \in Nat
    BY DEF Inv, TypeOK
  <2>5. Cardinality(Unexecuted') <= crashes + failures
    BY <2>2, <2>3, <2>4
  <2> QED
    BY <1>2, <1>6, <2>2, <2>4, <2>5 DEF AttemptsAccountedFor
<1> QED
  BY <1>9, <1>10, <1>11, <1>12, <1>13 DEF Inv

\* An exception or a crash ends the trade in progress, and is counted for it.
LEMMA InterruptionInv ==
  ASSUME Inv, ScanFail \/ Crash
  PROVE  Inv'
<1>1. scan' = FreshScan /\ scan' \in Cycles /\ scan'.pc = "check"
  <2>1. scan' = FreshScan
    BY DEF ScanFail, Crash
  <2> QED
    BY <2>1, CycleType DEF FreshScan
<1>2. UNCHANGED <<attempts, executions, halted, today, resumes, saved>>
  BY DEF ScanFail, Crash, book
<1>3. unfiled' \in Nat /\ pnl' \in Int /\ anchor' \in Nat
  BY DEF ScanFail, Crash, UnfiledAfter, Inv, TypeOK, daily
<1>4. /\ crashes' \in Nat /\ failures' \in Nat
      /\ crashes' + failures' >= crashes + failures
      /\ Trading => crashes' + failures' >= crashes + failures + 1
  <2>1. crashes \in Nat /\ failures \in Nat
    BY DEF Inv, TypeOK
  <2>2. CASE ScanFail
    <3>1. crashes' = crashes /\ failures' = (IF Trading THEN failures + 1 ELSE failures)
      BY <2>2 DEF ScanFail
    <3>2. CASE Trading
      BY <2>1, <3>1, <3>2
    <3>3. CASE ~Trading
      BY <2>1, <3>1, <3>3
    <3> QED
      BY <3>2, <3>3
  <2>3. CASE Crash
    BY <2>1, <2>3 DEF Crash
  <2> QED
    BY <2>2, <2>3
<1>5. TypeOK'
  BY <1>1, <1>2, <1>3, <1>4 DEF Inv, TypeOK
<1> QED
  BY <1>1, <1>2, <1>4, <1>5, IdleStep

\* The calendar and the operators touch neither the tables nor the cycle.
LEMMA OutsiderInv ==
  ASSUME Inv, NewDay \/ Resume
  PROVE  Inv'
<1>1. UNCHANGED <<attempts, executions, scan, pnl, anchor, crashes, failures, saved>>
  BY DEF NewDay, Resume, book, daily
<1>2. halted' \in BOOLEAN /\ today' \in Nat /\ resumes' \in Nat /\ unfiled' \in Nat
  <2>1. halted' \in BOOLEAN
    BY Zenon DEF NewDay, Resume, Inv, TypeOK
  <2>2. today' \in Nat /\ resumes' \in Nat /\ unfiled' \in Nat
    BY DEF NewDay, Resume, UnfiledAfter, Inv, TypeOK
  <2> QED
    BY <2>1, <2>2
<1>3. TypeOK'
  BY <1>1, <1>2 DEF Inv, TypeOK
<1>4. TradeInv' /\ Trading' = Trading
  BY <1>1 DEF Inv, TradeInv, Trading, Counted, At, Last, Executed, Rows
<1> QED
  BY <1>1, <1>3, <1>4, TradeStep

\* Every step keeps the invariant.
LEMMA StepInv ==
  Inv /\ [Next]_vars => Inv'
<1> SUFFICES ASSUME Inv, [Next]_vars PROVE Inv'
  OBVIOUS
<1>1. CASE \/ \E funded \in BOOLEAN : ScanCheckDd(funded)
           \/ ScanWriteStop \/ ScanSkip \/ ScanAlert \/ ScanSleep
  BY <1>1, OutsideInv
<1>2. CASE ScanAttempt
  BY <1>2, AttemptInv
<1>3. CASE ScanExecute
  BY <1>3, ExecuteInv
<1>4. CASE ScanSave
  BY <1>4, SaveInv
<1>5. CASE ScanOutcome
  BY <1>5, OutcomeInv
<1>6. CASE ScanExecution
  BY <1>6, ExecutionInv
<1>7. CASE ScanFail \/ Crash
  BY <1>7, InterruptionInv
<1>8. CASE NewDay \/ Resume
  BY <1>8, OutsiderInv
<1>9. CASE UNCHANGED vars
  <2>1. UNCHANGED <<attempts, executions, halted, scan, pnl, anchor, today, crashes, failures,
                    resumes, saved, unfiled>>
    BY <1>9 DEF vars, book, daily
  <2>2. TypeOK' /\ TradeInv' /\ Trading' = Trading
    BY <2>1 DEF Inv, TypeOK, TradeInv, Trading, Counted, At, Last, Executed, Rows
  <2> QED
    BY <2>1, <2>2, TradeStep
<1> QED
  BY <1>1, <1>2, <1>3, <1>4, <1>5, <1>6, <1>7, <1>8, <1>9 DEF Next

-----------------------------------------------------------------------------
\* The tables and the trade in progress always fit together.
THEOREM InvAlways == Spec => []Inv
BY InitInv, StepInv, PTL DEF Spec

\* Every commit, exception, crash and day keeps the state in its types.
THEOREM TypeCorrect == Spec => []TypeOK
<1>1. Inv => TypeOK
  BY DEF Inv
<1> QED
  BY <1>1, InvAlways, PTL

\* Every execution row says what its attempt says, and is its only one.
THEOREM ExecutionsMatch == Spec => []ExecutionsMatchAttempts
<1>1. Inv => ExecutionsMatchAttempts
  BY DEF Inv
<1> QED
  BY <1>1, InvAlways, PTL

\* An outcome is on record only after the route's state is.
THEOREM StateFirst == Spec => []OutcomeAfterState
<1>1. Inv => OutcomeAfterState
  BY DEF Inv
<1> QED
  BY <1>1, InvAlways, PTL

\* One crash or exception leaves at most one attempt without its execution.
THEOREM AttemptsAccounted == Spec => []AttemptsAccountedFor
<1>1. Inv => AttemptsAccountedFor
  BY DEF Inv
<1> QED
  BY <1>1, InvAlways, PTL

-----------------------------------------------------------------------------
(***************************************************************************)
(* Sums over finite sets, by first-order induction on the subsets.         *)
(***************************************************************************)
\* A set of naturals with 0 and every successor is the set of all of them: first-order
\* induction, from a set without a least element.
LEMMA NatSets ==
  ASSUME NEW S \in SUBSET Nat, 0 \in S, \A n \in S : n + 1 \in S
  PROVE  S = Nat
<1> DEFINE R == OpToRel(<, Nat)
<1>1. IsWellFoundedOn(R, Nat)
  BY NatLessThanWellFounded
<1>2. \A m, n \in Nat : m < n => <<m, n>> \in R
  BY DEF OpToRel
<1> HIDE DEF R
<1> SUFFICES ASSUME Nat \ S # {} PROVE FALSE
  OBVIOUS
<1>3. PICK x \in Nat \ S : \A y \in Nat \ S : ~(<<y, x>> \in R)
  BY <1>1, WFMin
<1>4. x # 0 /\ x - 1 \in Nat /\ x - 1 < x
  BY <1>3
<1>5. x - 1 \in S
  BY <1>2, <1>3, <1>4
<1> QED
  BY <1>3, <1>4, <1>5

\* A property of the subsets of a finite set that a set has when it is empty, or
\* when every set with one element less has it, is one of all of them.
LEMMA SubsetInduction ==
  ASSUME NEW D, IsFiniteSet(D), NEW C \in SUBSET SUBSET D,
         \A T \in SUBSET D : (\A x \in T : T \ {x} \in C) => T \in C
  PROVE  C = SUBSET D
<1> DEFINE Good == {n \in Nat : \A T \in SUBSET D : Cardinality(T) = n => T \in C}
<1>1. \A T \in SUBSET D : IsFiniteSet(T) /\ Cardinality(T) \in Nat
  BY FS_Subset, FS_CardinalityType
<1>2. 0 \in Good
  <2> SUFFICES ASSUME NEW T \in SUBSET D, Cardinality(T) = 0 PROVE T \in C
    OBVIOUS
  <2>1. T = {}
    BY <1>1, FS_EmptySet
  <2> QED
    BY <2>1
<1>3. ASSUME NEW n \in Good PROVE n + 1 \in Good
  <2> SUFFICES ASSUME NEW T \in SUBSET D, Cardinality(T) = n + 1 PROVE T \in C
    OBVIOUS
  <2>1. ASSUME NEW x \in T PROVE T \ {x} \in C
    <3>1. Cardinality(T \ {x}) = Cardinality(T) - 1
      BY <1>1, FS_RemoveElement
    <3>2. n \in Nat /\ T \ {x} \in SUBSET D /\ Cardinality(T \ {x}) = n
      BY <3>1
    <3> QED
      BY <3>2
  <2> QED
    BY <2>1
<1>4. Good = Nat
  <2> HIDE DEF Good
  <2>1. Good \in SUBSET Nat
    BY DEF Good
  <2> QED
    BY <1>2, <1>3, <2>1, NatSets
<1> QED
  BY <1>1, <1>4

-----------------------------------------------------------------------------
\* SumFunctionOnSet adds up element by element, in an order it chooses.
Pick(T) == CHOOSE x \in T : TRUE
Folded(f, T, g) == IF T = {} THEN 0 ELSE f[Pick(T)] + g[T \ {Pick(T)}]
IsSumOf(f, S, g) == g = [T \in SUBSET S |-> Folded(f, T, g)]

\* The library's sum, by the function it chooses.
LEMMA SumDef ==
  ASSUME NEW f, NEW S
  PROVE  SumFunctionOnSet(f, S) = (CHOOSE g : IsSumOf(f, S, g))[S]
BY Zenon DEF SumFunctionOnSet, FoldFunctionOnSet, MapThenFoldSet, IsSumOf, Folded, Pick

\* The fold takes an element of the set.
LEMMA PickIn == \A T : T # {} => Pick(T) \in T
BY Zenon DEF Pick

\* The function that adds up the values element by element exists.
LEMMA SumExists ==
  ASSUME NEW f, NEW S, IsFiniteSet(S)
  PROVE  \E g : IsSumOf(f, S, g)
<1> DEFINE Upto(n) == {T \in SUBSET S : Cardinality(T) <= n}
           Good == {n \in Nat : \E g : g = [T \in Upto(n) |-> Folded(f, T, g)]}
<1>1. \A T \in SUBSET S : IsFiniteSet(T) /\ Cardinality(T) \in Nat
  BY FS_Subset, FS_CardinalityType
<1>2. ASSUME NEW n \in Nat, NEW g, NEW T \in Upto(n + 1), T # {}
      PROVE  T \ {Pick(T)} \in Upto(n)
  <2>1. IsFiniteSet(T) /\ Cardinality(T) \in Nat /\ Pick(T) \in T
    BY <1>1, <1>2, PickIn
  <2>2. Cardinality(T \ {Pick(T)}) = Cardinality(T) - 1
    BY <2>1, FS_RemoveElement
  <2> QED
    BY <2>1, <2>2
<1>3. 0 \in Good
  <2>1. \A T \in Upto(0) : T = {}
    BY <1>1, FS_EmptySet
  <2> DEFINE g == [T \in Upto(0) |-> 0]
  <2>2. \A T \in Upto(0) : Folded(f, T, g) = 0
    BY <2>1 DEF Folded
  <2>3. g = [T \in Upto(0) |-> Folded(f, T, g)]
    BY <2>2
  <2> QED
    BY <2>3
<1>4. ASSUME NEW n \in Good PROVE n + 1 \in Good
  <2>1. n \in Nat /\ n + 1 \in Nat
    OBVIOUS
  <2>2. PICK g : g = [T \in Upto(n) |-> Folded(f, T, g)]
    OBVIOUS
  <2> DEFINE h == [T \in Upto(n + 1) |-> Folded(f, T, g)]
  <2>3. Upto(n) \subseteq Upto(n + 1)
    BY <1>1
  <2> HIDE DEF Upto
  <2>4. \A T \in Upto(n) : h[T] = g[T]
    BY <2>2, <2>3
  <2> HIDE DEF h
  <2>5. \A T \in Upto(n + 1) : Folded(f, T, h) = Folded(f, T, g)
    <3> TAKE T \in Upto(n + 1)
    <3>1. CASE T = {}
      BY <3>1, Zenon DEF Folded
    <3>2. CASE T # {}
      <4>1. T \ {Pick(T)} \in Upto(n)
        BY <1>2, <2>1, <3>2
      <4>2. h[T \ {Pick(T)}] = g[T \ {Pick(T)}]
        BY <2>4, <4>1
      <4> QED
        BY <4>2, Zenon DEF Folded
    <3> QED
      BY <3>1, <3>2
  <2>6. h = [T \in Upto(n + 1) |-> Folded(f, T, h)]
    BY <2>5 DEF h
  <2> QED
    BY <2>1, <2>6
<1>5. Good = Nat
  <2> HIDE DEF Good
  <2>1. Good \in SUBSET Nat
    BY DEF Good
  <2> QED
    BY <1>3, <1>4, <2>1, NatSets
<1>6. Cardinality(S) \in Nat /\ Cardinality(S) \in Good
  BY <1>1, <1>5
<1>7. PICK g : g = [T \in Upto(Cardinality(S)) |-> Folded(f, T, g)]
  BY <1>6
<1>8. Upto(Cardinality(S)) = SUBSET S
  <2>1. \A T \in SUBSET S : Cardinality(T) <= Cardinality(S)
    BY FS_Subset
  <2> QED
    BY <2>1
<1> QED
  BY <1>7, <1>8 DEF IsSumOf

\* What it yields for a set depends on the values over that set alone.
LEMMA SumAgrees ==
  ASSUME NEW f, NEW S, NEW g, IsSumOf(f, S, g), NEW h, NEW R, NEW k, IsSumOf(h, R, k),
         IsFiniteSet(S), S \subseteq R, \A x \in S : f[x] = h[x]
  PROVE  g[S] = k[S]
<1> DEFINE C == {T \in SUBSET S : g[T] = k[T]}
<1>1. ASSUME NEW T \in SUBSET S, \A x \in T : T \ {x} \in C
      PROVE  T \in C
  <2>1. g[T] = Folded(f, T, g) /\ k[T] = Folded(h, T, k)
    BY DEF IsSumOf
  <2>2. CASE T = {}
    BY <2>1, <2>2 DEF Folded
  <2>3. CASE T # {}
    <3>1. Pick(T) \in T
      BY <2>3, PickIn
    <3>2. f[Pick(T)] = h[Pick(T)] /\ g[T \ {Pick(T)}] = k[T \ {Pick(T)}]
      BY <1>1, <3>1
    <3> QED
      BY <2>1, <2>3, <3>2 DEF Folded
  <2> QED
    BY <2>2, <2>3
<1>2. C = SUBSET S
  <2> HIDE DEF C
  <2>1. C \in SUBSET SUBSET S
    BY DEF C
  <2> QED
    BY <1>1, <2>1, SubsetInduction
<1> QED
  BY <1>2

\* One function adds up every subset.
LEMMA SumFolds ==
  ASSUME NEW f, NEW S, IsFiniteSet(S)
  PROVE  \E g : /\ IsSumOf(f, S, g)
                /\ \A T \in SUBSET S : SumFunctionOnSet(f, T) = g[T]
<1>1. PICK g : IsSumOf(f, S, g) /\ g = (CHOOSE x : IsSumOf(f, S, x))
  BY SumExists
<1>2. ASSUME NEW T \in SUBSET S PROVE SumFunctionOnSet(f, T) = g[T]
  <2>1. IsFiniteSet(T)
    BY FS_Subset
  <2>2. PICK k : IsSumOf(f, T, k) /\ k = (CHOOSE x : IsSumOf(f, T, x))
    BY <2>1, SumExists
  <2>3. k[T] = g[T]
    BY <1>1, <2>1, <2>2, SumAgrees
  <2> QED
    BY <2>2, <2>3, SumDef
<1> QED
  BY <1>1, <1>2

\* Equal values have equal sums.
LEMMA SumSame ==
  ASSUME NEW f, NEW h, NEW S, IsFiniteSet(S), \A x \in S : f[x] = h[x]
  PROVE  SumFunctionOnSet(f, S) = SumFunctionOnSet(h, S)
<1>1. PICK g : IsSumOf(f, S, g) /\ \A T \in SUBSET S : SumFunctionOnSet(f, T) = g[T]
  BY SumFolds
<1>2. PICK k : IsSumOf(h, S, k) /\ \A T \in SUBSET S : SumFunctionOnSet(h, T) = k[T]
  BY SumFolds
<1>3. g[S] = k[S]
  BY <1>1, <1>2, SumAgrees
<1> QED
  BY <1>1, <1>2, <1>3

\* Nothing adds up to nothing.
LEMMA SumEmpty == \A f : SumFunctionOnSet(f, {}) = 0
<1> SUFFICES ASSUME NEW f PROVE SumFunctionOnSet(f, {}) = 0
  OBVIOUS
<1>1. PICK g : IsSumOf(f, {}, g) /\ \A T \in SUBSET {} : SumFunctionOnSet(f, T) = g[T]
  BY SumFolds, FS_EmptySet
<1> QED
  BY <1>1 DEF IsSumOf, Folded

\* The sum of a set is the chosen element's value and the sum of the rest.
LEMMA SumPick ==
  ASSUME NEW f, NEW S, IsFiniteSet(S), S # {}
  PROVE  SumFunctionOnSet(f, S) = f[Pick(S)] + SumFunctionOnSet(f, S \ {Pick(S)})
<1>1. PICK g : IsSumOf(f, S, g) /\ \A T \in SUBSET S : SumFunctionOnSet(f, T) = g[T]
  BY SumFolds
<1>2. g[S] = f[Pick(S)] + g[S \ {Pick(S)}]
  BY <1>1 DEF IsSumOf, Folded
<1> QED
  BY <1>1, <1>2

\* A sum of integers is an integer.
LEMMA SumType ==
  ASSUME NEW f, NEW S, IsFiniteSet(S), \A x \in S : f[x] \in Int
  PROVE  SumFunctionOnSet(f, S) \in Int
<1> DEFINE C == {T \in SUBSET S : SumFunctionOnSet(f, T) \in Int}
<1>1. ASSUME NEW T \in SUBSET S, \A x \in T : T \ {x} \in C
      PROVE  T \in C
  <2>1. CASE T = {}
    BY <2>1, SumEmpty
  <2>2. CASE T # {}
    <3>1. Pick(T) \in T /\ IsFiniteSet(T)
      BY <2>2, PickIn, FS_Subset
    <3>2. SumFunctionOnSet(f, T) = f[Pick(T)] + SumFunctionOnSet(f, T \ {Pick(T)})
      BY <2>2, <3>1, SumPick
    <3>3. f[Pick(T)] \in Int /\ SumFunctionOnSet(f, T \ {Pick(T)}) \in Int
      BY <1>1, <3>1
    <3> QED
      BY <3>2, <3>3
  <2> QED
    BY <2>1, <2>2
<1>2. C = SUBSET S
  <2> HIDE DEF C
  <2>1. C \in SUBSET SUBSET S
    BY DEF C
  <2> QED
    BY <1>1, <2>1, SubsetInduction
<1> QED
  BY <1>2

\* The order does not matter.
LEMMA SumRemove ==
  ASSUME NEW f, NEW S, IsFiniteSet(S), \A x \in S : f[x] \in Int, NEW y \in S
  PROVE  SumFunctionOnSet(f, S) = f[y] + SumFunctionOnSet(f, S \ {y})
<1> DEFINE Sum(T) == SumFunctionOnSet(f, T)
           C == {T \in SUBSET S : \A x \in T : Sum(T) = f[x] + Sum(T \ {x})}
<1>0. \A T \in SUBSET S : IsFiniteSet(T) /\ Sum(T) \in Int
  BY FS_Subset, SumType
<1>4. \A T \in SUBSET S : T # {} => Sum(T) = f[Pick(T)] + Sum(T \ {Pick(T)})
  BY <1>0, SumPick
<1> HIDE DEF Sum
<1>1. ASSUME NEW T \in SUBSET S, \A x \in T : T \ {x} \in C
      PROVE  T \in C
  <2> SUFFICES ASSUME NEW x \in T PROVE Sum(T) = f[x] + Sum(T \ {x})
    OBVIOUS
  <2> DEFINE p == Pick(T)
  <2>1. p \in T /\ Sum(T) = f[p] + Sum(T \ {p})
    BY <1>4, PickIn
  <2> HIDE DEF p
  <2>2. CASE x = p
    BY <2>1, <2>2
  <2>3. CASE x # p
    <3>1. Sum(T \ {p}) = f[x] + Sum((T \ {p}) \ {x})
      BY <1>1, <2>1, <2>3
    <3>2. Sum(T \ {x}) = f[p] + Sum((T \ {x}) \ {p})
      BY <1>1, <2>1, <2>3
    <3>3. (T \ {p}) \ {x} = (T \ {x}) \ {p}
      OBVIOUS
    <3>4. f[x] \in Int /\ f[p] \in Int /\ Sum((T \ {x}) \ {p}) \in Int
      BY <1>0, <2>1
    <3>5. Sum((T \ {p}) \ {x}) = Sum((T \ {x}) \ {p})
      BY <3>3
    <3>6. \A a, b, c \in Int : a + (b + c) = b + (a + c)
      OBVIOUS
    <3>7. Sum(T) = f[p] + (f[x] + Sum((T \ {x}) \ {p}))
      BY <2>1, <3>1, <3>5, Zenon
    <3>8. f[p] + (f[x] + Sum((T \ {x}) \ {p})) = f[x] + (f[p] + Sum((T \ {x}) \ {p}))
      BY <3>4, <3>6
    <3> QED
      BY <3>2, <3>7, <3>8, Zenon
  <2> QED
    BY <2>2, <2>3
<1>2. C = SUBSET S
  <2> HIDE DEF C
  <2>1. C \in SUBSET SUBSET S
    BY DEF C
  <2> QED
    BY <1>1, <2>1, SubsetInduction
<1> QED
  BY <1>2 DEF Sum

\* An element more.
LEMMA SumAdd ==
  ASSUME NEW f, NEW S, IsFiniteSet(S), NEW y, y \notin S, f[y] \in Int,
         \A x \in S : f[x] \in Int
  PROVE  SumFunctionOnSet(f, S \cup {y}) = f[y] + SumFunctionOnSet(f, S)
<1>1. IsFiniteSet(S \cup {y})
  BY FS_AddElement
<1>2. (S \cup {y}) \ {y} = S
  OBVIOUS
<1> QED
  BY <1>1, <1>2, SumRemove

-----------------------------------------------------------------------------
\* The result counted in memory whose row is not there yet.
Pending == IF Counted THEN scan.realized ELSE 0
\* The rows of the result the process counts, of its own today, and of a day.
Booked == Filed(CountedRows)
TodaysOwn == {i \in Rows : executions[i].process = crashes /\ executions[i].day = today}
OwnToday == Filed(TodaysOwn)
\* What the rows cut off, or after midnight, may hide.
Slack == unfiled * MaxResult

\* No row is of the future.
RowsPast ==
  /\ anchor <= today
  /\ \A i \in Rows : executions[i].day <= today /\ executions[i].process <= crashes

\* Until the first success of a new day, the result in memory is still the one of
\* the day before, and what this process writes today belongs to no result.
MemoryInv ==
  /\ RowsPast
  /\ Within(Pending, MaxResult)
  /\ anchor = today => Within(pnl - Booked - Pending, Slack)
  /\ anchor # today => /\ Within(pnl - Booked, Slack)
                       /\ Within(OwnToday + Pending, Slack)

-----------------------------------------------------------------------------
\* The rows are finitely many, with their types.
LEMMA RowFacts ==
  ASSUME Inv
  PROVE  /\ IsFiniteSet(Rows)
         /\ \A i \in Rows : /\ executions[i].realized \in Int /\ executions[i].day \in Nat
                            /\ executions[i].process \in Nat
<1>1. executions \in Seq(Executions)
  BY DEF Inv, TypeOK
<1>2. Rows = 1..Len(executions) /\ \A i \in Rows : executions[i] \in Executions
  BY <1>1 DEF Rows
<1>3. IsFiniteSet(Rows)
  BY <1>1, <1>2, FS_Interval
<1> QED
  BY <1>2, <1>3 DEF Executions

\* What is filed is a sum of integers.
LEMMA FiledType ==
  ASSUME Inv, NEW T \in SUBSET Rows
  PROVE  Filed(T) \in Int
<1>1. IsFiniteSet(T)
  BY RowFacts, FS_Subset
<1>2. \A i \in T : [j \in Rows |-> executions[j].realized][i] \in Int
  BY RowFacts
<1> QED
  BY <1>1, <1>2, SumType DEF Filed

\* And so are the three sums the argument is about.
LEMMA SumsType ==
  ASSUME Inv
  PROVE  /\ Booked \in Int /\ OwnToday \in Int
         /\ \A d : RealizedOn(d) \in Int
<1>1. CountedRows \in SUBSET Rows /\ TodaysOwn \in SUBSET Rows
  BY DEF CountedRows, TodaysOwn
<1>2. \A d : {i \in Rows : executions[i].day = d} \in SUBSET Rows
  OBVIOUS
<1> QED
  BY <1>1, <1>2, FiledType DEF Booked, OwnToday, RealizedOn

\* A step that writes no row leaves every sum over the same rows alone.
LEMMA SumsKept ==
  ASSUME UNCHANGED executions
  PROVE  /\ Rows' = Rows
         /\ UNCHANGED <<crashes, anchor>> => Booked' = Booked
         /\ UNCHANGED <<crashes, today>> => OwnToday' = OwnToday
         /\ \A d : RealizedOn(d)' = RealizedOn(d)
<1>1. Rows' = Rows
  BY DEF Rows
<1>2. UNCHANGED <<crashes, anchor>> => Booked' = Booked
  BY <1>1, Zenon DEF Booked, Filed, CountedRows
<1>3. UNCHANGED <<crashes, today>> => OwnToday' = OwnToday
  BY <1>1, Zenon DEF OwnToday, Filed, TodaysOwn
<1>4. \A d : RealizedOn(d)' = RealizedOn(d)
  BY <1>1, Zenon DEF RealizedOn, Filed
<1> QED
  BY <1>1, <1>2, <1>3, <1>4

\* Nothing is filed where there is no row.
LEMMA FiledNone ==
  /\ CountedRows = {} => Booked = 0
  /\ TodaysOwn = {} => OwnToday = 0
  /\ \A d : (\A i \in Rows : executions[i].day # d) => RealizedOn(d) = 0
<1>1. \A d : (\A i \in Rows : executions[i].day # d) => {i \in Rows : executions[i].day = d} = {}
  OBVIOUS
<1>2. Filed({}) = 0
  BY SumEmpty, Zenon DEF Filed
<1> QED
  BY <1>1, <1>2, Zenon DEF Booked, OwnToday, RealizedOn

\* The new row counts for its day, for its process today, and for the result in
\* memory when that is of today.
LEMMA SumsAdded ==
  ASSUME Inv, ScanExecution
  PROVE  /\ Booked' = IF anchor = today THEN Booked + scan.realized ELSE Booked
         /\ OwnToday' = OwnToday + scan.realized
         /\ \A d : RealizedOn(d)' = IF d = today THEN RealizedOn(d) + scan.realized
                                                 ELSE RealizedOn(d)
         /\ \A i \in Rows' : i \in Rows \/ (executions'[i].day = today /\ executions'[i].process = crashes)
         /\ \A i \in Rows : executions'[i] = executions[i]
<1> DEFINE m == Len(executions) + 1
           f == [i \in Rows |-> executions[i].realized]
           g == [i \in Rows' |-> executions'[i].realized]
           e == [attempt |-> Last, status |-> scan.status,
                 realized |-> scan.realized, day |-> today, process |-> crashes]
<1>1. /\ executions' = Append(executions, e) /\ executions \in Seq(Executions)
      /\ UNCHANGED <<crashes, anchor, today>>
      /\ scan.realized \in Int
  BY DEF ScanExecution, Inv, TypeOK, daily, Cycles
<1>2. /\ e.realized = scan.realized /\ e.day = today /\ e.process = crashes
  OBVIOUS
<1> HIDE DEF e
<1>3. /\ Rows' = Rows \cup {m} /\ m \notin Rows /\ executions'[m] = e
      /\ \A i \in Rows : executions'[i] = executions[i]
  BY <1>1 DEF Rows
<1>4. /\ \A i \in Rows : f[i] = g[i] /\ f[i] \in Int
      /\ g[m] = scan.realized
  BY <1>2, <1>3, RowFacts
<1> HIDE DEF f, g, m
<1>5. ASSUME NEW T \in SUBSET Rows
      PROVE  /\ SumFunctionOnSet(g, T) = SumFunctionOnSet(f, T)
             /\ SumFunctionOnSet(g, T \cup {m}) = scan.realized + SumFunctionOnSet(f, T)
  <2>1. IsFiniteSet(T) /\ m \notin T /\ \A i \in T : f[i] = g[i] /\ g[i] \in Int
    BY <1>3, <1>4, RowFacts, FS_Subset
  <2>2. SumFunctionOnSet(g, T) = SumFunctionOnSet(f, T)
    BY <2>1, SumSame
  <2>3. SumFunctionOnSet(g, T \cup {m}) = g[m] + SumFunctionOnSet(g, T)
    BY <1>1, <1>4, <2>1, SumAdd
  <2> QED
    BY <1>4, <2>2, <2>3
<1>6. ASSUME NEW T \in SUBSET Rows
      PROVE  /\ SumFunctionOnSet(g, T) = Filed(T)
             /\ SumFunctionOnSet(g, T \cup {m}) = Filed(T) + scan.realized
  <2>1. SumFunctionOnSet(f, T) = Filed(T) /\ Filed(T) \in Int
    <3>1. SumFunctionOnSet(f, T) = Filed(T)
      BY Zenon DEF f, Filed
    <3> QED
      BY <3>1, FiledType
  <2>2. \A a, b \in Int : a + b = b + a
    OBVIOUS
  <2>3. scan.realized \in Int
    BY <1>1
  <2> QED
    BY <1>5, <2>1, <2>2, <2>3, Zenon
<1>7. Booked' = IF anchor = today THEN Booked + scan.realized ELSE Booked
  <2>1. CountedRows \in SUBSET Rows
    BY DEF CountedRows
  <2>2. Booked' = SumFunctionOnSet(g, CountedRows')
    BY Zenon DEF Booked, Filed, g
  <2>3. CountedRows' = IF anchor = today THEN CountedRows \cup {m} ELSE CountedRows
    BY <1>1, <1>2, <1>3 DEF CountedRows
  <2> QED
    BY <1>6, <2>1, <2>2, <2>3, Zenon DEF Booked
<1>8. OwnToday' = OwnToday + scan.realized
  <2>1. TodaysOwn \in SUBSET Rows
    BY DEF TodaysOwn
  <2>2. OwnToday' = SumFunctionOnSet(g, TodaysOwn')
    BY Zenon DEF OwnToday, Filed, g
  <2>3. TodaysOwn' = TodaysOwn \cup {m}
    BY <1>1, <1>2, <1>3 DEF TodaysOwn
  <2> QED
    BY <1>6, <2>1, <2>2, <2>3, Zenon DEF OwnToday
<1>9. ASSUME NEW d
      PROVE  RealizedOn(d)' = IF d = today THEN RealizedOn(d) + scan.realized ELSE RealizedOn(d)
  <2> DEFINE Of == {i \in Rows : executions[i].day = d}
  <2>1. Of \in SUBSET Rows
    OBVIOUS
  <2>2. RealizedOn(d)' = SumFunctionOnSet(g, Of')
    BY Zenon DEF RealizedOn, Filed, g
  <2>3. Of' = IF d = today THEN Of \cup {m} ELSE Of
    BY <1>1, <1>2, <1>3
  <2>4. RealizedOn(d) = Filed(Of)
    BY Zenon DEF RealizedOn
  <2> HIDE DEF Of
  <2> QED
    BY <1>6, <2>1, <2>2, <2>3, <2>4, Zenon
<1>10. \A i \in Rows' : i \in Rows \/ (executions'[i].day = today /\ executions'[i].process = crashes)
  BY <1>2, <1>3
<1> QED
  BY <1>3, <1>7, <1>8, <1>9, <1>10

-----------------------------------------------------------------------------
\* A result is at most the largest, and a row cut off or after midnight hides one.
LEMMA ResultFacts ==
  ASSUME Inv
  PROVE  /\ MaxResult \in Nat /\ MaxLoss <= MaxResult
         /\ \A p \in Pnls : p \in Int /\ Within(p, MaxResult) /\ -MaxLoss <= p
         /\ Slack \in Nat
         /\ UnfiledAfter * MaxResult = IF Counted THEN Slack + MaxResult ELSE Slack
<1>1. /\ MaxLoss \in Nat /\ MaxGain \in Nat /\ Pnls \subseteq -MaxLoss..MaxGain
  BY ConstantsAssumption
<1>2. MaxResult \in Nat /\ MaxLoss <= MaxResult /\ MaxGain <= MaxResult
  BY <1>1 DEF MaxResult
<1>3. \A p \in Pnls : p \in Int /\ Within(p, MaxResult) /\ -MaxLoss <= p
  BY <1>1, <1>2 DEF Within
<1>4. unfiled \in Nat
  BY DEF Inv, TypeOK
<1>5. \A a, b \in Nat : a * b \in Nat /\ (a + 1) * b = a * b + b
  OBVIOUS
<1>6. Slack \in Nat
  BY <1>2, <1>4, <1>5 DEF Slack
<1>7. UnfiledAfter * MaxResult = IF Counted THEN Slack + MaxResult ELSE Slack
  BY <1>2, <1>4, <1>5, Zenon DEF Slack, UnfiledAfter
<1> QED
  BY <1>2, <1>3, <1>6, <1>7

\* The measures the argument is about are integers.
LEMMA MeasureTypes ==
  ASSUME Inv, MemoryInv
  PROVE  /\ Booked \in Int /\ OwnToday \in Int /\ pnl \in Int /\ Slack \in Nat
         /\ MaxResult \in Nat /\ Pending \in Int /\ scan.realized \in Int
         /\ today \in Nat /\ anchor \in Nat /\ crashes \in Nat
<1>1. scan.realized \in Int /\ Pending \in Int
  BY DEF Inv, TypeOK, Cycles, Pending
<1> QED
  BY <1>1, SumsType, ResultFacts DEF Inv, TypeOK

\* Nothing is on record, in memory or pending in the beginning.
LEMMA InitMemory ==
  ASSUME Init
  PROVE  MemoryInv
<1>1. Inv
  BY InitInv
<1>2. Rows = {} /\ CountedRows = {} /\ Pending = 0 /\ pnl = 0 /\ anchor = 0 /\ today = 0
  BY DEF Init, Rows, CountedRows, Pending, Counted, FreshScan
<1>3. Booked = 0
  BY <1>2, FiledNone
<1>4. Slack \in Nat /\ MaxResult \in Nat
  BY <1>1, ResultFacts
<1> QED
  BY <1>2, <1>3, <1>4 DEF MemoryInv, RowsPast, Within

\* A step that neither counts nor files a result.
LEMMA QuietMemory ==
  ASSUME Inv, MemoryInv, UNCHANGED <<executions, pnl, anchor, today, crashes, unfiled>>,
         Pending' = Pending
  PROVE  MemoryInv'
<1>1. Rows' = Rows /\ Booked' = Booked /\ OwnToday' = OwnToday
  BY SumsKept
<1>2. Slack' = Slack
  BY DEF Slack
<1>3. RowsPast'
  BY <1>1 DEF MemoryInv, RowsPast
<1> QED
  BY <1>1, <1>2, <1>3, Zenon DEF MemoryInv, Within

\* A success goes to the result in memory, and is pending.
LEMMA ExecuteMemory ==
  ASSUME Inv, MemoryInv, ScanExecute
  PROVE  MemoryInv'
<1>1. /\ UNCHANGED <<executions, today, crashes, unfiled>> /\ scan \in Cycles
      /\ scan.pc = "execute"
  BY DEF ScanExecute, book, Inv, TypeOK, At
<1>2. Pending = 0
  BY <1>1 DEF Pending, Counted
<1>3. Slack' = Slack /\ Rows' = Rows /\ OwnToday' = OwnToday
      /\ (anchor' = anchor => Booked' = Booked)
  BY <1>1, SumsKept DEF Slack
<1>4. CASE UNCHANGED daily /\ scan' = [scan EXCEPT !.pc = "save", !.status = "dry_run_blocked", !.realized = 0]
  <2>1. Pending' = 0
    BY <1>1, <1>4 DEF Pending, Counted, Cycles
  <2>2. pnl' = pnl /\ anchor' = anchor
    BY <1>4 DEF daily
  <2> QED
    BY <1>1, <1>2, <2>1, <2>2, QuietMemory
<1>5. CASE \E p \in Pnls \cup {0} : /\ MarkSuccess(p)
                                    /\ Pending' = p
  <2>1. PICK p \in Pnls \cup {0} : MarkSuccess(p) /\ Pending' = p
    BY <1>5
  <2>2. p \in Int /\ Within(p, MaxResult)
    BY ResultFacts DEF Within
  <2>3. anchor' = today /\ today' = today
    BY <1>1, <2>1 DEF MarkSuccess
  <2>4. RowsPast'
    BY <1>1, <1>3, <2>3, MeasureTypes DEF MemoryInv, RowsPast
  <2>5. Within(Pending', MaxResult)
    BY <2>1, <2>2, Zenon
  <2>6. Within(pnl' - Booked' - Pending', Slack')
    <3>1. CASE anchor = today
      <4>1. pnl' = pnl + p /\ Booked' = Booked /\ Pending' = p
        BY <1>3, <2>1, <2>3, <3>1 DEF MarkSuccess
      <4>2. Within(pnl - Booked - Pending, Slack)
        BY <3>1 DEF MemoryInv
      <4> QED
        BY <1>2, <1>3, <2>2, <4>1, <4>2, MeasureTypes DEF Within
    <3>2. CASE anchor # today
      <4>1. pnl' = p /\ Pending' = p
        BY <2>1, <2>2, <3>2 DEF MarkSuccess
      <4>2. Within(OwnToday + Pending, Slack)
        BY <3>2 DEF MemoryInv
      <4>3. CountedRows' = TodaysOwn'
        BY <2>3 DEF CountedRows, TodaysOwn
      <4>4. Booked' = OwnToday
        BY <1>3, <4>3, Zenon DEF Booked, OwnToday
      <4> QED
        BY <1>2, <1>3, <2>2, <4>1, <4>2, <4>4, MeasureTypes DEF Within
    <3> QED
      BY <3>1, <3>2
  <2> QED
    BY <2>3, <2>4, <2>5, <2>6, Zenon DEF MemoryInv
<1>6. \/ UNCHANGED daily /\ scan' = [scan EXCEPT !.pc = "save", !.status = "dry_run_blocked", !.realized = 0]
      \/ \E p \in Pnls \cup {0} : /\ MarkSuccess(p)
                                  /\ Pending' = p
  <2>1. \A st, n : scan' = [scan EXCEPT !.pc = "save", !.status = st, !.realized = n] => Pending' = n
    BY <1>1 DEF Pending, Counted, Cycles
  <2>2. CASE \E p \in Pnls : /\ MarkSuccess(p)
                             /\ scan' = [scan EXCEPT !.pc = "save", !.status = "success", !.realized = p]
    BY <2>1, <2>2, Zenon
  <2>3. CASE MarkSuccess(0) /\ scan' = [scan EXCEPT !.pc = "save", !.status = "dry_run", !.realized = 0]
    BY <2>1, <2>3, Zenon
  <2> QED
    BY <2>2, <2>3, Zenon DEF ScanExecute
<1> QED
  BY <1>4, <1>5, <1>6

\* A pending result is filed.
LEMMA ExecutionMemory ==
  ASSUME Inv, MemoryInv, ScanExecution
  PROVE  MemoryInv'
<1>1. /\ UNCHANGED <<pnl, anchor, today, crashes, unfiled>> /\ scan \in Cycles
      /\ scan.pc = "execution" /\ scan' = [scan EXCEPT !.pc = "alert"]
  BY DEF ScanExecution, daily, Inv, TypeOK, At
<1>2. Pending = scan.realized /\ Pending' = 0
  BY <1>1 DEF Pending, Counted, Cycles
<1>3. Slack' = Slack
  BY <1>1 DEF Slack
<1>4. RowsPast'
  <2>1. /\ \A i \in Rows' : i \in Rows \/ (executions'[i].day = today /\ executions'[i].process = crashes)
        /\ \A i \in Rows : executions'[i] = executions[i]
    BY SumsAdded
  <2> QED
    BY <1>1, <2>1, MeasureTypes DEF MemoryInv, RowsPast
<1>5. /\ Booked' = IF anchor = today THEN Booked + scan.realized ELSE Booked
      /\ OwnToday' = OwnToday + scan.realized
  BY SumsAdded
<1>6. CASE anchor = today
  <2>1. Within(pnl - Booked - Pending, Slack)
    BY <1>6 DEF MemoryInv
  <2>2. Within(pnl' - Booked' - Pending', Slack')
    BY <1>1, <1>2, <1>3, <1>5, <1>6, <2>1, MeasureTypes DEF Within
  <2>3. Within(Pending', MaxResult)
    BY <1>2, MeasureTypes DEF Within
  <2> QED
    BY <1>1, <1>4, <1>6, <2>2, <2>3, Zenon DEF MemoryInv
<1>7. CASE anchor # today
  <2>1. Within(pnl - Booked, Slack) /\ Within(OwnToday + Pending, Slack)
    BY <1>7 DEF MemoryInv
  <2>2. Within(pnl' - Booked', Slack') /\ Within(OwnToday' + Pending', Slack')
    BY <1>1, <1>2, <1>3, <1>5, <1>7, <2>1, MeasureTypes DEF Within
  <2>3. Within(Pending', MaxResult)
    BY <1>2, MeasureTypes DEF Within
  <2> QED
    BY <1>1, <1>4, <1>7, <2>2, <2>3, Zenon DEF MemoryInv
<1> QED
  BY <1>6, <1>7

\* An exception cuts the pending row off.
LEMMA FailMemory ==
  ASSUME Inv, MemoryInv, ScanFail
  PROVE  MemoryInv'
<1>1. UNCHANGED <<executions, pnl, anchor, today, crashes>> /\ Pending' = 0
  BY DEF ScanFail, book, daily, Pending, Counted, FreshScan
<1>2. Slack' = IF Counted THEN Slack + MaxResult ELSE Slack
  <2>1. unfiled' = UnfiledAfter
    BY DEF ScanFail
  <2> QED
    BY <2>1, ResultFacts, Zenon DEF Slack
<1>3. Rows' = Rows /\ Booked' = Booked /\ OwnToday' = OwnToday
  BY <1>1, SumsKept
<1>4. RowsPast'
  BY <1>1, <1>3 DEF MemoryInv, RowsPast
<1>5. Within(Pending, MaxResult) /\ (~Counted => Pending = 0)
  BY DEF MemoryInv, Pending
<1> QED
  BY <1>1, <1>2, <1>3, <1>4, <1>5, MeasureTypes DEF MemoryInv, Within

\* At midnight no row is of the new day, and the pending one comes late.
LEMMA NewDayMemory ==
  ASSUME Inv, MemoryInv, NewDay
  PROVE  MemoryInv'
<1>1. UNCHANGED <<executions, pnl, anchor, crashes>> /\ Pending' = Pending /\ today' = today + 1
  BY DEF NewDay, book, daily, Pending, Counted
<1>2. Slack' = IF Counted THEN Slack + MaxResult ELSE Slack
  <2>1. unfiled' = UnfiledAfter
    BY DEF NewDay
  <2> QED
    BY <2>1, ResultFacts, Zenon DEF Slack
<1>3. Rows' = Rows /\ Booked' = Booked
  BY <1>1, SumsKept
<1>4. RowsPast'
  BY <1>1, <1>3, RowFacts, MeasureTypes DEF MemoryInv, RowsPast
<1>5. OwnToday' = 0
  <2>1. TodaysOwn' = {}
    BY <1>1, <1>3, RowFacts, MeasureTypes DEF MemoryInv, RowsPast, TodaysOwn
  <2>2. Filed({})' = 0
    BY SumEmpty, Zenon DEF Filed
  <2> QED
    BY <2>1, <2>2, Zenon DEF OwnToday
<1>6. Within(Pending, MaxResult) /\ (~Counted => Pending = 0)
  BY DEF MemoryInv, Pending
<1>7. anchor' # today'
  BY <1>1, MeasureTypes DEF MemoryInv, RowsPast
<1> QED
  BY <1>1, <1>2, <1>3, <1>4, <1>5, <1>6, <1>7, MeasureTypes DEF MemoryInv, Within

\* A new process counts from nothing, and none of the rows is its own.
LEMMA CrashMemory ==
  ASSUME Inv, MemoryInv, Crash
  PROVE  MemoryInv'
<1>1. /\ UNCHANGED <<executions, today>> /\ Pending' = 0 /\ pnl' = 0 /\ anchor' = today
      /\ crashes' = crashes + 1
  BY DEF Crash, book, Pending, Counted, FreshScan
<1>2. Slack' \in Nat
  <2>1. unfiled' = UnfiledAfter
    BY DEF Crash
  <2>2. Slack' = IF Counted THEN Slack + MaxResult ELSE Slack
    BY <2>1, ResultFacts, Zenon DEF Slack
  <2> QED
    BY <2>2, MeasureTypes
<1>3. Rows' = Rows
  BY <1>1, SumsKept
<1>4. RowsPast'
  BY <1>1, <1>3, RowFacts, MeasureTypes DEF MemoryInv, RowsPast
<1>5. Booked' = 0
  <2>1. CountedRows' = {}
    BY <1>1, <1>3, RowFacts, MeasureTypes DEF MemoryInv, RowsPast, CountedRows
  <2>2. Filed({})' = 0
    BY SumEmpty, Zenon DEF Filed
  <2> QED
    BY <2>1, <2>2, Zenon DEF Booked
<1>6. Within(Pending', MaxResult) /\ Within(pnl' - Booked' - Pending', Slack')
  <2>1. \A n \in Nat : Within(0, n) /\ Within(0 - 0 - 0, n)
    BY DEF Within
  <2> QED
    BY <1>1, <1>2, <1>5, <2>1, MeasureTypes, Zenon
<1>7. anchor' = today'
  BY <1>1
<1> QED
  BY <1>4, <1>6, <1>7, Zenon DEF MemoryInv

\* Every step keeps what the memory says near what the tables say.
LEMMA StepMemory ==
  ASSUME Inv, MemoryInv, [Next]_vars
  PROVE  MemoryInv'
<1>1. CASE (\E funded \in BOOLEAN : ScanCheckDd(funded)) \/ ScanWriteStop \/ ScanSkip
           \/ ScanAlert \/ ScanSleep \/ ScanAttempt
  <2>1. UNCHANGED <<executions, pnl, anchor, today, crashes, unfiled>>
    BY <1>1 DEF ScanCheckDd, ScanWriteStop, ScanSkip, ScanAlert, ScanSleep, ScanAttempt, book, daily
  <2>2. scan \in Cycles
    BY DEF Inv, TypeOK
  <2>3. ~Counted /\ ~Counted'
    <3>1. CASE \E funded \in BOOLEAN : ScanCheckDd(funded)
      BY <2>2, <3>1 DEF ScanCheckDd, Counted, Cycles, At
    <3>2. CASE ScanWriteStop \/ ScanSkip \/ ScanAlert \/ ScanAttempt
      BY <2>2, <3>2 DEF ScanWriteStop, ScanSkip, ScanAlert, ScanAttempt, Counted, Cycles, At
    <3>3. CASE ScanSleep
      BY <3>3 DEF ScanSleep, FreshScan, Counted, At
    <3> QED
      BY <1>1, <3>1, <3>2, <3>3
  <2> QED
    BY <2>1, <2>3, QuietMemory, Zenon DEF Pending
<1>2. CASE ScanSave \/ ScanOutcome
  <2>1. UNCHANGED <<executions, pnl, anchor, today, crashes, unfiled>>
    BY <1>2 DEF ScanSave, ScanOutcome, book, daily
  <2>2. scan \in Cycles
    BY DEF Inv, TypeOK
  <2>3. Counted /\ Counted' /\ scan'.realized = scan.realized
    BY <1>2, <2>2 DEF ScanSave, ScanOutcome, Counted, Cycles, At
  <2> QED
    BY <2>1, <2>3, QuietMemory, Zenon DEF Pending
<1>3. CASE Resume \/ UNCHANGED vars
  BY <1>3, QuietMemory DEF Resume, vars, book, daily, Pending, Counted
<1> QED
  BY <1>1, <1>2, <1>3, ExecuteMemory, ExecutionMemory, FailMemory, NewDayMemory, CrashMemory DEF Next

\* The result in memory is near the rows it is the sum of.
LEMMA MemoryNear ==
  ASSUME Inv, MemoryInv
  PROVE  MemoryNearBook
<1>1. Within(Pending, MaxResult) /\ (~Counted => Pending = 0)
  BY DEF MemoryInv, Pending
<1>2. Within(pnl - Booked, IF Counted THEN Slack + MaxResult ELSE Slack)
  BY <1>1, MeasureTypes DEF MemoryInv, Within
<1> QED
  BY <1>2, ResultFacts, Zenon DEF MemoryNearBook, Booked

-----------------------------------------------------------------------------
\* What the process has lost today, as far as the stop can see.
TodaysResult == IF anchor = today THEN pnl ELSE 0
\* The trades the cycle may still make, and what they may lose.
TurnsLeft ==
  CASE scan.pc \in {"route", "execute"} -> NRoutes + 1 - scan.pos
    [] scan.pc \in {"save", "outcome", "execution", "alert"} -> NRoutes - scan.pos
    [] OTHER -> 0
Exposure == TurnsLeft * MaxLoss
\* The most that a process loses in a day without a resume.
Ceiling == DdLimit + CycleLoss
\* What the processes of the day lost before this one, with the resumes they had,
\* and what this one may lose with the others.
Carried(earlier) == crashes * Ceiling + earlier * CycleLoss
Allowed(earlier) == Ceiling + (resumes - earlier) * CycleLoss
DayLimit == (1 + crashes) * Ceiling + resumes * CycleLoss + Slack

\* A process stays below its limit even if every trade it may still make loses
\* the most, unless the stop is in force; the rows of today tell its result, that
\* of the processes before it, and what is pending.
ProcessWithin(earlier) ==
  /\ -TodaysResult < Allowed(earlier)
  /\ ~halted => -TodaysResult + Exposure < Allowed(earlier)
  /\ -RealizedOn(today) + TodaysResult - Pending <= Carried(earlier) + Slack

LossInv ==
  /\ Trading \/ At("alert") => ~halted
  /\ \E earlier \in 0..resumes : ProcessWithin(earlier)
  /\ \A day \in 0..today - 1 : -RealizedOn(day) < DayLimit

-----------------------------------------------------------------------------
\* The cycle has at most as many turns left as there are routes.
LEMMA TurnFacts ==
  ASSUME Inv
  PROVE  TurnsLeft \in 0..NRoutes
<1>1. /\ scan \in Cycles /\ NRoutes \in Nat
      /\ scan.pc \in {"execute", "save", "outcome", "execution", "alert"} => scan.pos <= NRoutes
  BY Numbers DEF Inv, TypeOK, TradeInv, Trading, At
<1>2. scan.pos \in 1..NRoutes + 1 /\ scan.pc \in Pcs
  BY <1>1 DEF Cycles
<1> QED
  BY <1>1, <1>2 DEF TurnsLeft, Pcs

\* What the limits are made of.
LEMMA LimitTypes ==
  ASSUME Inv
  PROVE  /\ CycleLoss \in Nat /\ Ceiling \in Nat /\ CycleLoss < Ceiling
         /\ Exposure \in 0..CycleLoss
         /\ MaxLoss \in Nat
<1>1. MaxLoss \in Nat /\ NRoutes \in Nat /\ DdLimit \in Nat /\ DdLimit > 0
  BY ConstantsAssumption
<1>2. \A n, k, l \in Nat : k <= n => k * l \in Nat /\ k * l <= n * l
  OBVIOUS
<1>3. CycleLoss \in Nat
  BY <1>1, <1>2 DEF CycleLoss
<1>4. Exposure \in 0..CycleLoss
  <2>1. TurnsLeft \in Nat /\ TurnsLeft <= NRoutes
    BY TurnFacts, <1>1
  <2>2. Exposure \in Nat /\ Exposure <= CycleLoss
    BY <1>1, <1>2, <2>1, Zenon DEF Exposure, CycleLoss
  <2> QED
    BY <1>3, <2>2
<1> QED
  BY <1>1, <1>3, <1>4 DEF Ceiling

\* The parts of a day's limit, and what one more crash, resume or row cut off adds.
LEMMA LimitParts ==
  ASSUME Inv, NEW e \in 0..resumes
  PROVE  /\ Carried(e) \in Nat /\ Allowed(e) \in Int /\ Ceiling <= Allowed(e)
         /\ DayLimit \in Nat /\ Carried(e) + Allowed(e) + Slack = DayLimit
<1> DEFINE c == crashes * Ceiling
           k == e * CycleLoss
           r == resumes * CycleLoss
<1>1. /\ crashes \in Nat /\ resumes \in Nat /\ e \in Nat /\ e <= resumes
      /\ CycleLoss \in Nat /\ Ceiling \in Nat /\ Slack \in Nat
  BY LimitTypes, ResultFacts DEF Inv, TypeOK
<1>2. \A a, b, l \in Nat : a <= b => a * l \in Nat /\ a * l <= b * l /\ (b - a) * l = b * l - a * l
  OBVIOUS
<1>3. \A a, l \in Nat : a * l \in Nat /\ (1 + a) * l = l + a * l
  OBVIOUS
<1>4. c \in Nat /\ (1 + crashes) * Ceiling = Ceiling + c
  BY <1>1, <1>3, Zenon
<1>5. k \in Nat /\ r \in Nat /\ k <= r /\ (resumes - e) * CycleLoss = r - k
  <2>1. k \in Nat /\ k <= r /\ (resumes - e) * CycleLoss = r - k
    BY <1>1, <1>2, Zenon
  <2> QED
    BY <1>1, <1>3, <2>1, Zenon
<1>6. /\ Carried(e) = c + k /\ Allowed(e) = Ceiling + (r - k)
      /\ DayLimit = (Ceiling + c) + r + Slack
  BY <1>4, <1>5, Zenon DEF Carried, Allowed, DayLimit
<1> HIDE DEF c, k, r
<1> QED
  BY <1>1, <1>4, <1>5, <1>6

\* The measures of the loss are integers, and fit together.
LEMMA LossTypes ==
  ASSUME Inv, MemoryInv
  PROVE  /\ TodaysResult \in Int /\ RealizedOn(today) \in Int /\ Pending \in Int
         /\ -MaxResult <= Pending /\ Pending <= MaxResult /\ MaxResult \in Nat
         /\ ~Counted => Pending = 0
         /\ Exposure \in 0..CycleLoss /\ CycleLoss \in Nat /\ Ceiling \in Nat /\ CycleLoss < Ceiling
         /\ Slack \in Nat /\ MaxLoss \in Nat /\ resumes \in Nat
<1>1. TodaysResult \in Int
  BY MeasureTypes DEF TodaysResult
<1>2. -MaxResult <= Pending /\ Pending <= MaxResult /\ (~Counted => Pending = 0)
  BY DEF MemoryInv, Within, Pending
<1> QED
  BY <1>1, <1>2, MeasureTypes, SumsType, LimitTypes DEF Inv, TypeOK

\* The limit of a day depends on the crashes, the resumes and the rows cut off.
LEMMA LimitKept ==
  ASSUME UNCHANGED <<crashes, resumes, unfiled>>
  PROVE  /\ Slack' = Slack /\ DayLimit' = DayLimit
         /\ \A e : Allowed(e)' = Allowed(e) /\ Carried(e)' = Carried(e)
BY Zenon DEF Slack, DayLimit, Allowed, Carried

\* One more result cut off, or late, adds one result to the limit.
LEMMA LimitCut ==
  ASSUME Inv, UNCHANGED resumes, unfiled' = UnfiledAfter
  PROVE  /\ Slack' = IF Counted THEN Slack + MaxResult ELSE Slack
         /\ crashes' = crashes =>
              /\ DayLimit' = IF Counted THEN DayLimit + MaxResult ELSE DayLimit
              /\ \A e : Allowed(e)' = Allowed(e) /\ Carried(e)' = Carried(e)
<1>1. Slack' = IF Counted THEN Slack + MaxResult ELSE Slack
  BY ResultFacts, Zenon DEF Slack
<1>2. ASSUME crashes' = crashes
      PROVE  DayLimit' = IF Counted THEN DayLimit + MaxResult ELSE DayLimit
  <2> DEFINE x == (1 + crashes) * Ceiling
             y == resumes * CycleLoss
  <2>1. x \in Int /\ y \in Int /\ Slack \in Int /\ MaxResult \in Int
    BY LimitTypes, ResultFacts DEF Inv, TypeOK
  <2>2. DayLimit = x + y + Slack /\ DayLimit' = x + y + Slack'
    BY <1>2, Zenon DEF DayLimit
  <2> HIDE DEF x, y
  <2> QED
    BY <1>1, <2>1, <2>2
<1>3. ASSUME crashes' = crashes
      PROVE  \A e : Allowed(e)' = Allowed(e) /\ Carried(e)' = Carried(e)
  BY <1>3, Zenon DEF Allowed, Carried
<1> QED
  BY <1>1, <1>2, <1>3

\* A day that is over loses no more.
LEMMA PastDays ==
  ASSUME Inv, LossInv, UNCHANGED <<executions, today>>, DayLimit' \in Int, DayLimit' >= DayLimit
  PROVE  \A day \in 0..today' - 1 : -RealizedOn(day)' < DayLimit'
<1> SUFFICES ASSUME NEW day \in 0..today - 1 PROVE -RealizedOn(day)' < DayLimit'
  OBVIOUS
<1>1. RealizedOn(day)' = RealizedOn(day) /\ RealizedOn(day) \in Int
  BY SumsKept, SumsType
<1>2. -RealizedOn(day) < DayLimit
  BY DEF LossInv
<1>3. DayLimit \in Int
  <2>1. 0 \in 0..resumes
    BY DEF Inv, TypeOK
  <2> QED
    BY <2>1, LimitParts
<1> QED
  BY <1>1, <1>2, <1>3

\* No day loses more than its limit, and the result that is pending.
LEMMA DaySoFar ==
  ASSUME Inv, MemoryInv, LossInv
  PROVE  /\ DayLimit \in Nat
         /\ \A day \in 0..today :
              -RealizedOn(day) < DayLimit + (IF Counted THEN MaxResult ELSE 0)
<1>1. PICK e \in 0..resumes : ProcessWithin(e)
  BY DEF LossInv
<1>2. /\ Carried(e) \in Nat /\ Allowed(e) \in Int /\ DayLimit \in Nat
      /\ Carried(e) + Allowed(e) + Slack = DayLimit
  BY LimitParts
<1>3. -RealizedOn(today) < DayLimit + (IF Counted THEN MaxResult ELSE 0)
  <2>1. -TodaysResult < Allowed(e) /\ -RealizedOn(today) + TodaysResult - Pending <= Carried(e) + Slack
    BY <1>1 DEF ProcessWithin
  <2> QED
    BY <1>2, <2>1, LossTypes
<1>4. ASSUME NEW day \in 0..today - 1
      PROVE  -RealizedOn(day) < DayLimit + (IF Counted THEN MaxResult ELSE 0)
  BY <1>2, SumsType, LossTypes DEF LossInv
<1>5. today \in Nat
  BY DEF Inv, TypeOK
<1> QED
  BY <1>2, <1>3, <1>4, <1>5

\* Nothing is lost in the beginning.
LEMMA InitLoss ==
  ASSUME Init
  PROVE  LossInv
<1>1. Inv /\ MemoryInv
  BY InitInv, InitMemory
<1>2. /\ Rows = {} /\ Pending = 0 /\ pnl = 0 /\ anchor = 0 /\ today = 0 /\ resumes = 0
      /\ ~Trading /\ ~At("alert") /\ TurnsLeft = 0
  BY DEF Init, Rows, Pending, Counted, Trading, At, FreshScan, TurnsLeft
<1>3. TodaysResult = 0 /\ RealizedOn(today) = 0
  BY <1>2, FiledNone DEF TodaysResult
<1>4. Exposure = 0
  BY <1>1, <1>2, LossTypes DEF Exposure
<1>5. 0 \in 0..resumes
  BY <1>2
<1>6. ProcessWithin(0)
  <2>1. Carried(0) \in Nat /\ Allowed(0) \in Int /\ Ceiling <= Allowed(0)
    BY <1>1, <1>5, LimitParts
  <2> QED
    BY <1>1, <1>2, <1>3, <1>4, <2>1, LossTypes DEF ProcessWithin
<1> QED
  BY <1>2, <1>5, <1>6 DEF LossInv

\* A step of the cycle that neither counts nor files a result, and after which the
\* cycle has no more to lose, or the stop is in force.
LEMMA QuietLoss ==
  ASSUME Inv, MemoryInv, LossInv,
         UNCHANGED <<executions, pnl, anchor, today, crashes, resumes, unfiled>>,
         Pending' = Pending, Exposure' \in Int,
         Trading' \/ At("alert")' => ~halted',
         ~halted' => ~halted /\ Exposure' <= Exposure
  PROVE  LossInv'
<1>1. /\ RealizedOn(today)' = RealizedOn(today) /\ TodaysResult' = TodaysResult
  BY SumsKept, Zenon DEF RealizedOn, Filed, TodaysResult
<1>2. PICK e \in 0..resumes : ProcessWithin(e)
  BY DEF LossInv
<1>3. /\ Slack' = Slack /\ DayLimit' = DayLimit
      /\ Allowed(e)' = Allowed(e) /\ Carried(e)' = Carried(e)
  BY LimitKept
<1>4. Allowed(e) \in Int /\ Carried(e) \in Nat /\ DayLimit \in Nat
  BY LimitParts
<1>5. ProcessWithin(e)'
  <2>1. ~halted' => -TodaysResult + Exposure' < Allowed(e)
    BY <1>2, <1>4, LossTypes DEF ProcessWithin
  <2>2. ~halted' => -TodaysResult' + Exposure' < Allowed(e)'
    BY <1>1, <1>3, <2>1, Zenon
  <2>3. -TodaysResult' < Allowed(e)'
    BY <1>1, <1>2, <1>3, Zenon DEF ProcessWithin
  <2>4. -RealizedOn(today)' + TodaysResult' - Pending' <= Carried(e)' + Slack'
    BY <1>1, <1>2, <1>3, Zenon DEF ProcessWithin
  <2> QED
    BY <2>2, <2>3, <2>4, Zenon DEF ProcessWithin
<1>6. \A day \in 0..today' - 1 : -RealizedOn(day)' < DayLimit'
  BY <1>3, <1>4, PastDays
<1>7. e \in 0..resumes'
  BY <1>2
<1> QED
  BY <1>5, <1>6, <1>7, Zenon DEF LossInv

\* The stop lets a cycle begin only below the limit.
LEMMA CheckLoss ==
  ASSUME Inv, MemoryInv, LossInv, NEW funded, ScanCheckDd(funded)
  PROVE  LossInv'
<1>1. /\ UNCHANGED <<executions, halted, pnl, anchor, today, crashes, resumes, unfiled>>
      /\ scan \in Cycles /\ scan.pc = "check"
      /\ scan' = [scan EXCEPT !.pc = IF ~funded \/ -pnl >= DdLimit THEN "stop" ELSE "route", !.pos = 1]
  BY DEF ScanCheckDd, book, daily, Inv, TypeOK, At
<1>2. /\ scan'.pos = 1
      /\ scan'.pc = "stop" \/ (scan'.pc = "route" /\ ~(-pnl >= DdLimit))
  BY <1>1 DEF Cycles
<1>3. ~Trading' /\ ~At("alert")' /\ Pending = 0 /\ Pending' = 0 /\ TurnsLeft = 0
  BY <1>1, <1>2 DEF Trading, At, Pending, Counted, TurnsLeft
<1>4. CASE scan'.pc = "stop"
  <2>1. TurnsLeft' = 0
    BY <1>4 DEF TurnsLeft
  <2>2. Exposure' = Exposure
    BY <1>3, <2>1, Zenon DEF Exposure
  <2> QED
    BY <1>1, <1>3, <2>2, QuietLoss, LossTypes
<1>5. CASE scan'.pc = "route" /\ ~(-pnl >= DdLimit)
  <2>1. TurnsLeft' = NRoutes
    BY <1>2, <1>5, Numbers DEF TurnsLeft
  <2>2. Exposure' = CycleLoss
    BY <2>1, Zenon DEF Exposure, CycleLoss
  <2>3. PICK e \in 0..resumes : ProcessWithin(e)
    BY DEF LossInv
  <2>4. /\ Slack' = Slack /\ DayLimit' = DayLimit
        /\ Allowed(e)' = Allowed(e) /\ Carried(e)' = Carried(e)
    BY <1>1, LimitKept
  <2>5. RealizedOn(today)' = RealizedOn(today) /\ TodaysResult' = TodaysResult
    BY <1>1, SumsKept, Zenon DEF RealizedOn, Filed, TodaysResult
  <2>6. -TodaysResult + CycleLoss < Allowed(e)
    <3>1. -TodaysResult < DdLimit
      BY <1>5, MeasureTypes, ConstantsAssumption DEF TodaysResult
    <3>2. Ceiling = DdLimit + CycleLoss /\ Ceiling <= Allowed(e) /\ Allowed(e) \in Int
      BY LimitParts DEF Ceiling
    <3>3. DdLimit \in Int
      BY ConstantsAssumption
    <3> QED
      BY <3>1, <3>2, <3>3, LossTypes
  <2>7. ProcessWithin(e)'
    <3>1. ~halted' => -TodaysResult' + Exposure' < Allowed(e)'
      BY <2>2, <2>4, <2>5, <2>6, Zenon
    <3>2. /\ -TodaysResult' < Allowed(e)'
          /\ -RealizedOn(today)' + TodaysResult' - Pending' <= Carried(e)' + Slack'
      BY <1>3, <2>3, <2>4, <2>5, Zenon DEF ProcessWithin
    <3> QED
      BY <3>1, <3>2, Zenon DEF ProcessWithin
  <2>8. \A day \in 0..today' - 1 : -RealizedOn(day)' < DayLimit'
    BY <1>1, <2>3, <2>4, LimitParts, PastDays
  <2>9. e \in 0..resumes'
    BY <1>1, <2>3
  <2> QED
    BY <1>3, <2>7, <2>8, <2>9, Zenon DEF LossInv
<1> QED
  BY <1>2, <1>4, <1>5

\* A turn less.
LEMMA OneTurn ==
  \A t, l \in Nat : t >= 1 => (t - 1) * l = t * l - l
OBVIOUS

\* The other steps of the cycle lose nothing.
LEMMA CycleLossInv ==
  ASSUME Inv, MemoryInv, LossInv,
         \/ ScanWriteStop \/ ScanSkip \/ ScanAttempt \/ ScanSave \/ ScanOutcome
         \/ ScanAlert \/ ScanSleep
  PROVE  LossInv'
<1>1. /\ UNCHANGED <<executions, pnl, anchor, today, crashes, resumes, unfiled>>
      /\ scan \in Cycles /\ NRoutes \in Nat
  BY Numbers DEF ScanWriteStop, ScanSkip, ScanAttempt, ScanSave, ScanOutcome, ScanAlert, ScanSleep,
                 book, daily, Inv, TypeOK
<1>2. TurnsLeft \in Nat /\ Exposure \in Int /\ MaxLoss \in Nat
  BY <1>1, TurnFacts, LossTypes
<1>3. CASE ScanWriteStop
  <2>1. scan.pc = "stop" /\ scan' = [scan EXCEPT !.pc = "route"] /\ halted' = TRUE
    BY <1>3 DEF ScanWriteStop, At
  <2>2. scan'.pc = "route" /\ scan'.pos = scan.pos
    BY <1>1, <2>1 DEF Cycles
  <2>3. ~Trading' /\ ~At("alert")' /\ Pending' = 0 /\ Pending = 0
    BY <2>1, <2>2 DEF Trading, At, Pending, Counted
  <2>4. Exposure' \in Int
    <3>1. TurnsLeft' \in Int
      BY <1>1, <2>2 DEF TurnsLeft, Cycles
    <3>2. \A a, b \in Int : a * b \in Int
      OBVIOUS
    <3> QED
      BY <1>2, <3>1, <3>2 DEF Exposure
  <2> QED
    BY <1>1, <2>1, <2>3, <2>4, QuietLoss
<1>4. CASE ScanSkip
  <2>1. /\ scan.pc = "route" /\ scan' = [scan EXCEPT !.pos = scan.pos + 1] /\ halted' = halted
        /\ scan.pos <= NRoutes
    BY <1>4 DEF ScanSkip, At
  <2>2. scan'.pc = "route" /\ scan'.pos = scan.pos + 1 /\ scan.pos \in 1..NRoutes
    BY <1>1, <2>1 DEF Cycles
  <2>3. ~Trading' /\ ~At("alert")' /\ Pending' = 0 /\ Pending = 0
    BY <2>1, <2>2 DEF Trading, At, Pending, Counted
  <2>4. Exposure' \in Int /\ Exposure' <= Exposure
    <3>1. TurnsLeft >= 1 /\ TurnsLeft' = TurnsLeft - 1
      BY <1>1, <2>1, <2>2 DEF TurnsLeft
    <3>2. Exposure' = Exposure - MaxLoss
      BY <1>2, <3>1, OneTurn DEF Exposure
    <3> QED
      BY <1>2, <3>2
  <2> QED
    BY <1>1, <2>1, <2>3, <2>4, QuietLoss
<1>5. CASE ScanAttempt
  <2>1. /\ scan.pc = "route" /\ scan' = [scan EXCEPT !.pc = "execute"] /\ halted' = halted /\ ~halted
    BY <1>5 DEF ScanAttempt, At
  <2>2. scan'.pc = "execute" /\ scan'.pos = scan.pos
    BY <1>1, <2>1 DEF Cycles
  <2>3. Pending' = 0 /\ Pending = 0 /\ TurnsLeft' = TurnsLeft
    BY <2>1, <2>2 DEF Pending, Counted, TurnsLeft
  <2>4. Exposure' = Exposure
    BY <2>3, Zenon DEF Exposure
  <2> QED
    BY <1>1, <1>2, <2>1, <2>3, <2>4, QuietLoss
<1>6. CASE ScanSave \/ ScanOutcome
  <2>1. /\ halted' = halted /\ Trading /\ Counted
        /\ \/ scan.pc = "save" /\ scan' = [scan EXCEPT !.pc = "outcome"]
           \/ scan.pc = "outcome" /\ scan' = [scan EXCEPT !.pc = "execution"]
    BY <1>6 DEF ScanSave, ScanOutcome, At, Trading, Counted
  <2>2. scan'.pc \in {"outcome", "execution"} /\ scan'.pos = scan.pos /\ scan'.realized = scan.realized
    BY <1>1, <2>1 DEF Cycles
  <2>3. Pending' = Pending /\ TurnsLeft' = TurnsLeft
    BY <2>1, <2>2 DEF Pending, Counted, TurnsLeft
  <2>4. Exposure' = Exposure
    BY <2>3, Zenon DEF Exposure
  <2>5. ~halted
    BY <2>1 DEF LossInv
  <2> QED
    BY <1>1, <1>2, <2>1, <2>3, <2>4, <2>5, QuietLoss
<1>7. CASE ScanAlert
  <2>1. /\ scan.pc = "alert" /\ scan' = [scan EXCEPT !.pc = "route", !.pos = scan.pos + 1] /\ halted' = halted
    BY <1>7 DEF ScanAlert, At
  <2>2. scan'.pc = "route" /\ scan'.pos = scan.pos + 1 /\ scan.pos \in Int
    BY <1>1, <2>1 DEF Cycles
  <2>3. Pending' = 0 /\ Pending = 0 /\ ~Trading' /\ ~At("alert")'
    BY <2>1, <2>2 DEF Pending, Counted, Trading, At
  <2>4. Exposure' = Exposure
    <3>1. TurnsLeft' = TurnsLeft
      BY <1>1, <2>1, <2>2 DEF TurnsLeft
    <3> QED
      BY <3>1, Zenon DEF Exposure
  <2> QED
    BY <1>1, <1>2, <2>1, <2>3, <2>4, QuietLoss
<1>8. CASE ScanSleep
  <2>1. /\ scan.pc = "route" /\ scan.pos = NRoutes + 1 /\ scan' = FreshScan /\ halted' = halted
    BY <1>8 DEF ScanSleep, At
  <2>2. Pending' = 0 /\ Pending = 0 /\ ~Trading' /\ ~At("alert")'
    BY <2>1 DEF Pending, Counted, Trading, At, FreshScan
  <2>3. Exposure' = Exposure
    <3>1. TurnsLeft' = TurnsLeft
      BY <1>1, <2>1 DEF TurnsLeft, FreshScan
    <3> QED
      BY <3>1, Zenon DEF Exposure
  <2> QED
    BY <1>1, <1>2, <2>1, <2>2, <2>3, QuietLoss
<1> QED
  BY <1>3, <1>4, <1>5, <1>6, <1>7, <1>8

\* A trade takes one turn, and loses at most what the turn may lose.
LEMMA ExecuteLoss ==
  ASSUME Inv, MemoryInv, LossInv, ScanExecute
  PROVE  LossInv'
<1>1. /\ UNCHANGED <<executions, halted, today, crashes, resumes, unfiled>>
      /\ scan \in Cycles /\ scan.pc = "execute" /\ NRoutes \in Nat
  BY Numbers DEF ScanExecute, book, Inv, TypeOK, At
<1>2. PICK p \in Int : /\ -MaxLoss <= p
                       /\ MarkSuccess(p) \/ (UNCHANGED daily /\ p = 0)
                       /\ \E st : scan' = [scan EXCEPT !.pc = "save", !.status = st, !.realized = p]
  <2>0. 0 \in Int /\ -MaxLoss <= 0
    BY LossTypes
  <2>1. CASE \E p \in Pnls : /\ MarkSuccess(p)
                             /\ scan' = [scan EXCEPT !.pc = "save", !.status = "success", !.realized = p]
    BY <2>1, ResultFacts, Zenon
  <2>2. CASE MarkSuccess(0) /\ scan' = [scan EXCEPT !.pc = "save", !.status = "dry_run", !.realized = 0]
    BY <2>0, <2>2, Zenon
  <2>3. CASE UNCHANGED daily /\ scan' = [scan EXCEPT !.pc = "save", !.status = "dry_run_blocked", !.realized = 0]
    BY <2>0, <2>3, Zenon
  <2> QED
    BY <2>1, <2>2, <2>3, Zenon DEF ScanExecute
<1>3. scan'.pc = "save" /\ scan'.pos = scan.pos /\ scan'.realized = p
  BY <1>1, <1>2 DEF Cycles
<1>4. Pending = 0 /\ Pending' = p /\ ~halted
  <2>1. Trading
    BY <1>1 DEF Trading
  <2> QED
    BY <1>1, <1>3, <2>1 DEF Pending, Counted, LossInv
<1>5. TodaysResult' = TodaysResult + p
  <2>1. CASE MarkSuccess(p)
    BY <1>1, <1>2, <2>1, MeasureTypes DEF MarkSuccess, TodaysResult
  <2>2. CASE UNCHANGED daily /\ p = 0
    BY <1>1, <2>2, MeasureTypes DEF daily, TodaysResult
  <2> QED
    BY <1>2, <2>1, <2>2
<1>6. Exposure' = Exposure - MaxLoss /\ Exposure' >= 0
  <2>1. TurnsLeft \in Nat /\ TurnsLeft >= 1 /\ TurnsLeft' = TurnsLeft - 1
    <3>1. scan.pos \in 1..NRoutes
      BY <1>1 DEF Inv, TypeOK, Cycles, TradeInv, Trading
    <3> QED
      BY <1>1, <1>3, <3>1 DEF TurnsLeft
  <2>2. \A t, l \in Nat : t * l >= 0
    OBVIOUS
  <2>3. TurnsLeft - 1 \in Nat /\ MaxLoss \in Nat
    BY <2>1, LossTypes
  <2> QED
    BY <2>1, <2>2, <2>3, OneTurn DEF Exposure
<1>7. RealizedOn(today)' = RealizedOn(today)
  BY <1>1, SumsKept, Zenon DEF RealizedOn, Filed
<1>8. PICK e \in 0..resumes : ProcessWithin(e)
  BY DEF LossInv
<1>9. /\ Slack' = Slack /\ DayLimit' = DayLimit
      /\ Allowed(e)' = Allowed(e) /\ Carried(e)' = Carried(e)
  BY <1>1, LimitKept
<1>10. Allowed(e) \in Int /\ Carried(e) \in Nat /\ DayLimit \in Nat
  BY LimitParts
<1>11. ProcessWithin(e)'
  <2>1. -TodaysResult + Exposure < Allowed(e)
    BY <1>4, <1>8 DEF ProcessWithin
  <2>2. -(TodaysResult + p) + (Exposure - MaxLoss) < Allowed(e)
    BY <1>2, <1>10, <2>1, LossTypes
  <2>3. -(TodaysResult + p) < Allowed(e)
    BY <1>2, <1>6, <1>10, <2>2, LossTypes
  <2>4. -RealizedOn(today) + (TodaysResult + p) - p <= Carried(e) + Slack
    <3>1. -RealizedOn(today) + TodaysResult - Pending <= Carried(e) + Slack
      BY <1>8 DEF ProcessWithin
    <3> QED
      BY <1>4, <1>10, <3>1, LossTypes
  <2> QED
    BY <1>4, <1>5, <1>6, <1>7, <1>9, <2>2, <2>3, <2>4, Zenon DEF ProcessWithin
<1>12. \A day \in 0..today' - 1 : -RealizedOn(day)' < DayLimit'
  BY <1>1, <1>9, <1>10, PastDays
<1>13. e \in 0..resumes' /\ ~halted'
  BY <1>1, <1>4, <1>8
<1> QED
  BY <1>11, <1>12, <1>13, Zenon DEF LossInv

\* The terms of the limits are numbers.
LEMMA LimitTerms ==
  ASSUME Inv
  PROVE  (1 + crashes) * Ceiling \in Int /\ resumes * CycleLoss \in Int
<1>1. crashes \in Nat /\ resumes \in Nat /\ Ceiling \in Nat /\ CycleLoss \in Nat
  BY LimitTypes DEF Inv, TypeOK
<1>2. \A a, b \in Nat : a * b \in Int /\ (1 + a) * b \in Int
  OBVIOUS
<1> QED
  BY <1>1, <1>2, Zenon

\* A pending result is filed on today's rows.
LEMMA ExecutionLoss ==
  ASSUME Inv, MemoryInv, LossInv, ScanExecution
  PROVE  LossInv'
<1>1. /\ UNCHANGED <<halted, pnl, anchor, today, crashes, resumes, unfiled>> /\ scan \in Cycles
      /\ scan.pc = "execution" /\ scan' = [scan EXCEPT !.pc = "alert"]
  BY DEF ScanExecution, daily, Inv, TypeOK, At
<1>2. scan'.pc = "alert" /\ scan'.pos = scan.pos
  BY <1>1 DEF Cycles
<1>3. Pending = scan.realized /\ Pending' = 0 /\ ~halted
  <2>1. Trading
    BY <1>1 DEF Trading
  <2> QED
    BY <1>1, <1>2, <2>1 DEF Pending, Counted, LossInv
<1>4. TodaysResult' = TodaysResult /\ Exposure' = Exposure
  <2>1. TurnsLeft' = TurnsLeft
    BY <1>1, <1>2 DEF TurnsLeft
  <2> QED
    BY <1>1, <2>1, Zenon DEF TodaysResult, Exposure
<1>5. \A d : RealizedOn(d)' = IF d = today THEN RealizedOn(d) + scan.realized ELSE RealizedOn(d)
  BY SumsAdded
<1>6. RealizedOn(today)' = RealizedOn(today) + scan.realized
  <2>1. \A d : d = today => RealizedOn(d)' = RealizedOn(today)'
    BY <1>1, Zenon DEF RealizedOn
  <2> QED
    BY <1>5, <2>1, Zenon
<1>7. PICK e \in 0..resumes : ProcessWithin(e)
  BY DEF LossInv
<1>8. /\ Slack' = Slack /\ DayLimit' = DayLimit
      /\ Allowed(e)' = Allowed(e) /\ Carried(e)' = Carried(e)
  BY <1>1, LimitKept
<1>9. Allowed(e) \in Int /\ Carried(e) \in Nat /\ DayLimit \in Nat
  BY LimitParts
<1>10. ProcessWithin(e)'
  <2>1. -TodaysResult' < Allowed(e)' /\ (~halted' => -TodaysResult' + Exposure' < Allowed(e)')
    BY <1>1, <1>4, <1>7, <1>8, Zenon DEF ProcessWithin
  <2>2. -RealizedOn(today)' + TodaysResult' - Pending' <= Carried(e)' + Slack'
    <3>1. -RealizedOn(today) + TodaysResult - Pending <= Carried(e) + Slack
      BY <1>7 DEF ProcessWithin
    <3> QED
      BY <1>3, <1>4, <1>6, <1>8, <1>9, <3>1, LossTypes
  <2> QED
    BY <2>1, <2>2, Zenon DEF ProcessWithin
<1>11. \A day \in 0..today' - 1 : -RealizedOn(day)' < DayLimit'
  <2> SUFFICES ASSUME NEW day \in 0..today - 1 PROVE -RealizedOn(day)' < DayLimit'
    BY <1>1
  <2>1. day # today
    BY MeasureTypes
  <2>2. -RealizedOn(day) < DayLimit
    BY DEF LossInv
  <2> QED
    BY <1>5, <1>8, <2>1, <2>2, Zenon
<1>12. e \in 0..resumes' /\ ~halted'
  BY <1>1, <1>3, <1>7
<1> QED
  BY <1>10, <1>11, <1>12, Zenon DEF LossInv

\* An exception ends the cycle, and cuts the pending row off.
LEMMA FailLoss ==
  ASSUME Inv, MemoryInv, LossInv, ScanFail
  PROVE  LossInv'
<1>1. /\ UNCHANGED <<executions, halted, pnl, anchor, today, crashes, resumes>>
      /\ unfiled' = UnfiledAfter /\ scan' = FreshScan
  BY DEF ScanFail, book, daily
<1>2. Pending' = 0 /\ TurnsLeft' = 0 /\ ~Trading' /\ ~At("alert")'
  BY <1>1 DEF FreshScan, Pending, Counted, TurnsLeft, Trading, At
<1>3. Exposure' = 0
  <2>1. 0 * MaxLoss = 0
    BY LossTypes
  <2> QED
    BY <1>2, <2>1, Zenon DEF Exposure
<1>4. RealizedOn(today)' = RealizedOn(today) /\ TodaysResult' = TodaysResult
  BY <1>1, SumsKept, Zenon DEF RealizedOn, Filed, TodaysResult
<1>5. PICK e \in 0..resumes : ProcessWithin(e)
  BY DEF LossInv
<1>6. /\ Slack' = IF Counted THEN Slack + MaxResult ELSE Slack
      /\ DayLimit' = IF Counted THEN DayLimit + MaxResult ELSE DayLimit
      /\ Allowed(e)' = Allowed(e) /\ Carried(e)' = Carried(e)
  BY <1>1, LimitCut
<1>7. Allowed(e) \in Int /\ Carried(e) \in Nat /\ DayLimit \in Nat
  BY LimitParts
<1>8. ProcessWithin(e)'
  <2>1. -TodaysResult + 0 < Allowed(e) /\ -TodaysResult < Allowed(e)
    BY <1>5, <1>7, LossTypes DEF ProcessWithin
  <2>2. -RealizedOn(today)' + TodaysResult' - Pending' <= Carried(e)' + Slack'
    <3>1. -RealizedOn(today) + TodaysResult - Pending <= Carried(e) + Slack
      BY <1>5 DEF ProcessWithin
    <3> QED
      BY <1>2, <1>4, <1>6, <1>7, <3>1, LossTypes
  <2> QED
    BY <1>3, <1>4, <1>6, <2>1, <2>2, Zenon DEF ProcessWithin
<1>9. \A day \in 0..today' - 1 : -RealizedOn(day)' < DayLimit'
  <2>1. DayLimit' \in Int /\ DayLimit' >= DayLimit
    BY <1>6, <1>7, LossTypes
  <2> QED
    BY <1>1, <2>1, PastDays
<1>10. e \in 0..resumes'
  BY <1>1, <1>5
<1> QED
  BY <1>2, <1>8, <1>9, <1>10, Zenon DEF LossInv

\* At midnight the day's result is over, and the process starts from nothing.
LEMMA NewDayLoss ==
  ASSUME Inv, MemoryInv, LossInv, NewDay
  PROVE  LossInv'
<1>1. /\ UNCHANGED <<executions, halted, scan, pnl, anchor, crashes, resumes>>
      /\ unfiled' = UnfiledAfter /\ today' = today + 1
  BY DEF NewDay, book, daily
<1>2. Pending' = Pending /\ Exposure' = Exposure /\ Trading' = Trading /\ At("alert")' = At("alert")
  BY <1>1, Zenon DEF Pending, Counted, Exposure, TurnsLeft, Trading, At
<1>3. TodaysResult' = 0
  BY <1>1, MeasureTypes DEF TodaysResult, MemoryInv, RowsPast
<1>4. \A d : RealizedOn(d)' = RealizedOn(d)
  BY <1>1, SumsKept
<1>5. RealizedOn(today)' = 0
  <2>1. \A d : d = today + 1 => RealizedOn(d) = 0
    BY FiledNone, RowFacts, MeasureTypes DEF MemoryInv, RowsPast
  <2>2. \A d : d = today + 1 => RealizedOn(today)' = RealizedOn(d)'
    BY <1>1, Zenon DEF RealizedOn
  <2> QED
    BY <1>4, <2>1, <2>2, Zenon
<1>6. PICK e \in 0..resumes : ProcessWithin(e)
  BY DEF LossInv
<1>7. /\ Slack' = IF Counted THEN Slack + MaxResult ELSE Slack
      /\ DayLimit' = IF Counted THEN DayLimit + MaxResult ELSE DayLimit
      /\ Allowed(e)' = Allowed(e) /\ Carried(e)' = Carried(e)
  BY <1>1, LimitCut
<1>8. Allowed(e) \in Int /\ Carried(e) \in Nat /\ DayLimit \in Nat /\ Ceiling <= Allowed(e)
  BY LimitParts
<1>9. ProcessWithin(e)'
  <2>1. -TodaysResult' < Allowed(e)' /\ -TodaysResult' + Exposure' < Allowed(e)'
    BY <1>2, <1>3, <1>7, <1>8, LossTypes
  <2>2. -RealizedOn(today)' + TodaysResult' - Pending' <= Carried(e)' + Slack'
    BY <1>2, <1>3, <1>5, <1>7, <1>8, LossTypes
  <2> QED
    BY <2>1, <2>2, Zenon DEF ProcessWithin
<1>10. \A day \in 0..today' - 1 : -RealizedOn(day)' < DayLimit'
  <2> SUFFICES ASSUME NEW day \in 0..today PROVE -RealizedOn(day)' < DayLimit'
    BY <1>1, MeasureTypes
  <2>1. -RealizedOn(day) < DayLimit + (IF Counted THEN MaxResult ELSE 0)
    BY DaySoFar
  <2>2. DayLimit' = DayLimit + (IF Counted THEN MaxResult ELSE 0)
    BY <1>7, <1>8, LossTypes
  <2> QED
    BY <1>4, <2>1, <2>2, Zenon
<1>11. e \in 0..resumes'
  BY <1>1, <1>6
<1>12. Trading' \/ At("alert")' => ~halted'
  BY <1>1, <1>2, Zenon DEF LossInv
<1> QED
  BY <1>9, <1>10, <1>11, <1>12, Zenon DEF LossInv

\* A resume lets the cycle in progress lose once more.
LEMMA ResumeLoss ==
  ASSUME Inv, MemoryInv, LossInv, Inv', Resume
  PROVE  LossInv'
<1>1. /\ UNCHANGED <<executions, scan, pnl, anchor, today, crashes, unfiled>>
      /\ resumes' = resumes + 1 /\ halted' = FALSE
  BY DEF Resume, book, daily
<1>2. /\ Pending' = Pending /\ Exposure' = Exposure /\ Slack' = Slack
      /\ TodaysResult' = TodaysResult
  BY <1>1, Zenon DEF Pending, Counted, Exposure, TurnsLeft, Slack, TodaysResult
<1>3. RealizedOn(today)' = RealizedOn(today)
  BY <1>1, SumsKept, Zenon DEF RealizedOn, Filed
<1>4. PICK e \in 0..resumes : ProcessWithin(e)
  BY DEF LossInv
<1>5. Allowed(e) \in Int /\ Carried(e) \in Nat /\ DayLimit \in Nat /\ e \in Nat /\ e <= resumes
  BY <1>4, LimitParts, LossTypes
<1>6. /\ Allowed(e)' = Allowed(e) + CycleLoss /\ Carried(e)' = Carried(e)
      /\ DayLimit' = DayLimit + CycleLoss
  <2>1. \A n, k, l \in Nat : k <= n => /\ (n - k) * l \in Nat
                                      /\ ((n + 1) - k) * l = (n - k) * l + l
                                      /\ (n + 1) * l = n * l + l
    OBVIOUS
  <2>2. Allowed(e)' = Allowed(e) + CycleLoss
    <3>1. Allowed(e)' = Ceiling + ((resumes + 1) - e) * CycleLoss
      <4>1. resumes' = resumes + 1
        BY <1>1
      <4> QED
        BY <4>1, Zenon DEF Allowed
    <3>2. Ceiling \in Nat /\ resumes \in Nat /\ CycleLoss \in Nat
      BY LossTypes
    <3> DEFINE k == (resumes - e) * CycleLoss
    <3>3. k \in Nat /\ ((resumes + 1) - e) * CycleLoss = k + CycleLoss
      BY <1>5, <2>1, <3>2
    <3>4. Allowed(e) = Ceiling + k /\ Allowed(e)' = Ceiling + (k + CycleLoss)
      BY <3>1, <3>3, Zenon DEF Allowed
    <3> HIDE DEF k
    <3> QED
      BY <3>2, <3>3, <3>4
  <2>3. Carried(e)' = Carried(e)
    BY <1>1, Zenon DEF Carried
  <2>4. DayLimit' = DayLimit + CycleLoss
    <3> DEFINE x == (1 + crashes) * Ceiling
               y == resumes * CycleLoss
    <3>1. x \in Int /\ y \in Int /\ Slack \in Int /\ CycleLoss \in Int
      BY LimitTerms, LossTypes
    <3>2. (resumes + 1) * CycleLoss = y + CycleLoss
      BY <2>1, LossTypes
    <3>3. DayLimit = x + y + Slack /\ DayLimit' = x + (y + CycleLoss) + Slack
      BY <1>1, <1>2, <3>2, Zenon DEF DayLimit
    <3> HIDE DEF x, y
    <3> QED
      BY <3>1, <3>3
  <2> QED
    BY <2>2, <2>3, <2>4
<1>7. ProcessWithin(e)'
  <2>1. -TodaysResult < Allowed(e) /\ -RealizedOn(today) + TodaysResult - Pending <= Carried(e) + Slack
    BY <1>4 DEF ProcessWithin
  <2>2. -TodaysResult' < Allowed(e)' /\ -TodaysResult' + Exposure' < Allowed(e)'
    BY <1>2, <1>5, <1>6, <2>1, LossTypes
  <2>3. -RealizedOn(today)' + TodaysResult' - Pending' <= Carried(e)' + Slack'
    BY <1>2, <1>3, <1>6, <2>1, Zenon
  <2> QED
    BY <2>2, <2>3, Zenon DEF ProcessWithin
<1>8. \A day \in 0..today' - 1 : -RealizedOn(day)' < DayLimit'
  <2>1. DayLimit' \in Int /\ DayLimit' >= DayLimit
    BY <1>5, <1>6, LossTypes
  <2>2. UNCHANGED <<executions, today>>
    BY <1>1
  <2> QED
    BY <2>1, <2>2, PastDays
<1>9. e \in 0..resumes'
  <2>1. resumes' = resumes + 1
    BY <1>1
  <2> QED
    BY <1>5, <2>1, LossTypes
<1>10. ~halted'
  BY <1>1, Zenon
<1> QED
  BY <1>7, <1>8, <1>9, <1>10, Zenon DEF LossInv

\* A new process has its own limit, and carries what those before it lost.
LEMMA CrashLoss ==
  ASSUME Inv, MemoryInv, LossInv, Inv', MemoryInv', Crash
  PROVE  LossInv'
<1>1. /\ UNCHANGED <<executions, halted, today, resumes>>
      /\ pnl' = 0 /\ anchor' = today /\ crashes' = crashes + 1
      /\ unfiled' = UnfiledAfter /\ scan' = FreshScan
  BY DEF Crash, book
<1>2. /\ Pending' = 0 /\ TurnsLeft' = 0 /\ ~Trading' /\ ~At("alert")'
      /\ TodaysResult' = 0
  BY <1>1 DEF FreshScan, Pending, Counted, TurnsLeft, Trading, At, TodaysResult
<1>3. Exposure' = 0
  <2>1. 0 * MaxLoss = 0
    BY LossTypes
  <2> QED
    BY <1>2, <2>1, Zenon DEF Exposure
<1>4. RealizedOn(today)' = RealizedOn(today)
  BY <1>1, SumsKept, Zenon DEF RealizedOn, Filed
<1>5. Slack' = IF Counted THEN Slack + MaxResult ELSE Slack
  BY <1>1, LimitCut
<1>6. resumes \in 0..resumes
  BY LossTypes
<1>7. Carried(resumes)' = DayLimit - Slack /\ DayLimit' = DayLimit - Slack + Slack' + Ceiling
      /\ Allowed(resumes)' = Ceiling
  <2> DEFINE x == (1 + crashes) * Ceiling
             y == resumes * CycleLoss
  <2>1. x \in Int /\ y \in Int /\ Slack \in Int /\ Slack' \in Int /\ Ceiling \in Int
    BY <1>5, LimitTerms, LossTypes
  <2>2. crashes \in Nat /\ Ceiling \in Nat
    BY LimitTypes DEF Inv, TypeOK
  <2>3. \A k, c \in Nat : (1 + (k + 1)) * c = (1 + k) * c + c /\ (k + 1) * c = (1 + k) * c
    OBVIOUS
  <2>4. /\ (1 + (crashes + 1)) * Ceiling = x + Ceiling
        /\ (crashes + 1) * Ceiling = x
    BY <2>2, <2>3, Zenon
  <2>5. DayLimit = x + y + Slack /\ DayLimit' = (x + Ceiling) + y + Slack'
    BY <1>1, <2>4, Zenon DEF DayLimit
  <2>6. Carried(resumes)' = x + y
    BY <1>1, <2>4, Zenon DEF Carried
  <2>7. Allowed(resumes)' = Ceiling
    <3>1. (resumes - resumes) * CycleLoss = 0
      BY LossTypes
    <3>2. Allowed(resumes)' = Ceiling + 0
      BY <1>1, <3>1, Zenon DEF Allowed
    <3> QED
      BY <2>1, <3>2
  <2> HIDE DEF x, y
  <2>8. Carried(resumes)' = DayLimit - Slack /\ DayLimit' = DayLimit - Slack + Slack' + Ceiling
    BY <2>1, <2>5, <2>6
  <2> QED
    BY <2>7, <2>8
<1>8. DayLimit \in Nat /\ -RealizedOn(today) < DayLimit + (IF Counted THEN MaxResult ELSE 0)
  BY DaySoFar, LossTypes, MeasureTypes
<1>9. ProcessWithin(resumes)'
  <2>1. -TodaysResult' < Allowed(resumes)' /\ -TodaysResult' + Exposure' < Allowed(resumes)'
    BY <1>2, <1>3, <1>7, LossTypes
  <2>2. -RealizedOn(today)' + TodaysResult' - Pending' <= Carried(resumes)' + Slack'
    BY <1>2, <1>4, <1>5, <1>7, <1>8, LossTypes
  <2> QED
    BY <2>1, <2>2, Zenon DEF ProcessWithin
<1>10. \A day \in 0..today' - 1 : -RealizedOn(day)' < DayLimit'
  <2>1. DayLimit' \in Int /\ DayLimit' >= DayLimit
    BY <1>5, <1>7, <1>8, LossTypes
  <2> QED
    BY <1>1, <2>1, PastDays
<1>11. \E e \in 0..resumes' : ProcessWithin(e)'
  BY <1>1, <1>6, <1>9, Zenon
<1> QED
  BY <1>2, <1>10, <1>11, Zenon DEF LossInv

\* Every step keeps every process, and every day, within its limit.
LEMMA StepLoss ==
  ASSUME Inv, MemoryInv, LossInv, Inv', MemoryInv', [Next]_vars
  PROVE  LossInv'
<1>1. CASE \E funded \in BOOLEAN : ScanCheckDd(funded)
  BY <1>1, CheckLoss
<1>2. CASE UNCHANGED vars
  <2>1. UNCHANGED <<executions, halted, scan, pnl, anchor, today, crashes, resumes, unfiled>>
    BY <1>2 DEF vars, book, daily
  <2>2. /\ Pending' = Pending /\ Exposure' = Exposure
        /\ Trading' = Trading /\ At("alert")' = At("alert")
    BY <2>1, Zenon DEF Pending, Counted, Exposure, TurnsLeft, Trading, At
  <2>3. Exposure \in Int
    BY LossTypes
  <2>4. Trading' \/ At("alert")' => ~halted'
    BY <2>1, <2>2, Zenon DEF LossInv
  <2> QED
    BY <2>1, <2>2, <2>3, <2>4, QuietLoss
<1> QED
  BY <1>1, <1>2, CycleLossInv, ExecuteLoss, ExecutionLoss, FailLoss, NewDayLoss, ResumeLoss, CrashLoss
  DEF Next

\* The day's rows stay within the day's limit.
LEMMA DayBounded ==
  ASSUME Inv, MemoryInv, LossInv
  PROVE  DayLossBounded
<1> DEFINE x == (1 + crashes) * Ceiling
           y == resumes * CycleLoss
<1>1. x \in Int /\ y \in Int /\ Slack \in Int /\ MaxResult \in Int
  BY LimitTypes, ResultFacts DEF Inv, TypeOK
<1>2. DayLimit = x + y + Slack
  BY Zenon DEF DayLimit
<1>3. UnfiledAfter * MaxResult = IF Counted THEN Slack + MaxResult ELSE Slack
  BY ResultFacts
<1>4. \A day \in 0..today : -RealizedOn(day) < x + y + UnfiledAfter * MaxResult
  <2> HIDE DEF x, y
  <2>1. DayLimit + (IF Counted THEN MaxResult ELSE 0) = x + y + UnfiledAfter * MaxResult
    BY <1>1, <1>2, <1>3
  <2> QED
    BY <2>1, DaySoFar, Zenon
<1> QED
  BY <1>4, Zenon DEF DayLossBounded, Ceiling

-----------------------------------------------------------------------------
\* The memory, the tables and the limits always fit together.
LEMMA SumsAlways == Spec => [](MemoryInv /\ LossInv)
<1>1. Init => Inv /\ MemoryInv /\ LossInv
  BY InitInv, InitMemory, InitLoss
<1>2. Inv /\ MemoryInv /\ LossInv /\ [Next]_vars => Inv' /\ MemoryInv' /\ LossInv'
  BY StepInv, StepMemory, StepLoss
<1> QED
  BY <1>1, <1>2, PTL DEF Spec

\* The result the stop looks at and the rows the dashboard sums differ by at most
\* one result for each row cut off or late.
THEOREM MemoryFollowsBook == Spec => []MemoryNearBook
<1>1. Inv /\ MemoryInv => MemoryNearBook
  BY MemoryNear
<1> QED
  BY <1>1, InvAlways, SumsAlways, PTL

\* No day loses more, on record, than its processes, resumes and late rows allow.
THEOREM DayLossCapped == Spec => []DayLossBounded
<1>1. Inv /\ MemoryInv /\ LossInv => DayLossBounded
  BY DayBounded
<1> QED
  BY <1>1, InvAlways, SumsAlways, PTL
=============================================================================
