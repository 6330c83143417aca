-------------------------- MODULE KillSwitchProofs --------------------------
(***************************************************************************)
(* The safety properties of KillSwitch, for any number of routes, control  *)
(* requests, crashes and resumes, and for any limits.                      *)
(***************************************************************************)
EXTENDS KillSwitch, TLAPS

\* The assumption on the constants, in the form the steps use.
LEMMA Numbers ==
  /\ NRoutes \in Nat /\ NRoutes >= 1
  /\ MaxLoss \in Nat
  /\ DdLimit \in Nat /\ DdLimit >= 1
  /\ \A p \in Pnls : p \in Int /\ p >= -MaxLoss
  /\ \A op \in Ops : op \in AllOps
BY ConstantsAssumption

\* The values a process starts with are well typed.
LEMMA InitialValues ==
  /\ NoRow \in Rows
  /\ IdleRequest \in RequestStates
  /\ FreshScan \in Cycles
  /\ [FreshScan EXCEPT !.pc = "dead"] \in Cycles
<1>1. NoRow \in Rows
  BY DEF NoRow, Rows, Modes
<1>2. IdleRequest \in RequestStates
  BY <1>1 DEF IdleRequest, RequestStates, AllOps, PauseOps, ReqPcs
<1>3. 1 \in 1..NRoutes + 1
  BY Numbers
<1>4. FreshScan \in Cycles
  BY <1>1, <1>3 DEF FreshScan, Cycles, ScanPcs
<1> QED
  BY <1>1, <1>2, <1>4 DEF FreshScan, Cycles, ScanPcs

\* Writing one column of a row leaves a row.
LEMMA FlushType ==
  ASSUME NEW row \in Rows, NEW loaded \in Rows,
         NEW b \in BOOLEAN, NEW m \in Modes
  PROVE  Flush(row, "pause", loaded, b) \in Rows /\ Flush(row, "mode", loaded, m) \in Rows
BY DEF Flush, Rows

\* A request that moves on is a request.
LEMMA GotoType ==
  ASSUME TypeOK, NEW h \in Requests, NEW pc \in ReqPcs
  PROVE  Goto(h, pc) \in [Requests -> RequestStates]
BY InitialValues DEF TypeOK, Goto, RequestStates

\* A request that has loaded a column is a request.
LEMMA LoadType ==
  ASSUME TypeOK, NEW h \in Requests, NEW column \in {"mode", "pause"}, NEW pc \in ReqPcs
  PROVE  Load(h, column, pc) \in [Requests -> RequestStates]
<1>1. [NoRow EXCEPT ![column] = control[column]] \in Rows
  BY InitialValues DEF TypeOK, Rows
<1> QED
  BY <1>1 DEF TypeOK, Load, RequestStates

\* A cycle that moves on is a cycle.
LEMMA CycleType ==
  ASSUME NEW s \in Cycles, NEW pc \in ScanPcs, NEW pos \in 1..NRoutes + 1
  PROVE  [s EXCEPT !.pc = pc, !.pos = pos] \in Cycles
BY DEF Cycles

\* The positions of a cycle: the first, and the one after a route.
LEMMA Positions ==
  /\ 1 \in 1..NRoutes + 1
  /\ \A i \in 1..NRoutes + 1 : i <= NRoutes => i + 1 \in 1..NRoutes + 1
BY Numbers

\* What the control points say about the rest of a request and of a cycle.
Shape ==
  /\ \A h \in Requests :
       /\ req[h].pc \in {"load_mode", "write_mode"} => req[h].op \in SwitchOps \cup {"stop_all"}
       /\ req[h].pc = "refresh" => req[h].op = "stopped"
       /\ req[h].pc \in {"load_pause", "write_pause"} =>
            req[h].op \in PauseOps \cup {"resume", "stopped"}
       /\ req[h].pc = "finish" => req[h].op \in PauseOps \cup {"resume"}
  /\ scan.pc = "trade" => scan.pos <= NRoutes
  /\ scan.pc = "write_stop" => scan.dd

\* The initial states are well typed and in shape.
LEMMA ShapeInit == Init => TypeOK /\ Shape
<1> SUFFICES ASSUME Init PROVE TypeOK /\ Shape
  OBVIOUS
<1>1. kill \in BOOLEAN /\ armed \in BOOLEAN /\ released \in BOOLEAN
  BY ConstantsAssumption, Zenon DEF Init
<1>2. req \in [Requests -> RequestStates] /\ scan \in Cycles /\ control \in Rows
  BY InitialValues DEF Init
<1>3. pnl \in Int /\ anchor \in Nat /\ today \in Nat /\ crashes \in Nat
      /\ releases \in Nat /\ late \in Nat
  BY DEF Init
<1>4. Shape
  BY DEF Init, Shape, IdleRequest, FreshScan
<1> QED
  BY <1>1, <1>2, <1>3, <1>4 DEF TypeOK

\* Every step keeps the types and the shape.
LEMMA ShapeStep == TypeOK /\ Shape /\ [Next]_vars => TypeOK' /\ Shape'
<1> SUFFICES ASSUME TypeOK, Shape, [Next]_vars PROVE TypeOK' /\ Shape'
  OBVIOUS
<1> USE DEF envVars, ghosts
<1>1. ASSUME NEW h \in Requests, NEW op \in Ops, Accept(h, op) PROVE TypeOK' /\ Shape'
  <2>1. op \in AllOps
    BY Numbers
  <2>2. req' \in [Requests -> RequestStates]
    BY <1>1, <2>1 DEF Accept, TypeOK, RequestStates, ReqPcs
  <2>3. armed' \in BOOLEAN
    BY <1>1, Zenon DEF Accept, TypeOK
  <2>4. Shape'
    BY <1>1, <2>1 DEF Accept, Shape, TypeOK, RequestStates, AllOps, SwitchOps, PauseOps
  <2> QED
    BY <1>1, <2>2, <2>3, <2>4 DEF Accept, TypeOK
<1>2. ASSUME NEW h \in Requests, LoadPause(h) PROVE TypeOK' /\ Shape'
  <2>1. TypeOK'
    BY <1>2, LoadType DEF LoadPause, ReqPcs, TypeOK
  <2> QED
    BY <1>2, <2>1 DEF LoadPause, Load, At, Shape, TypeOK, RequestStates
<1>3. ASSUME NEW h \in Requests, WritePause(h) PROVE TypeOK' /\ Shape'
  <2>1. control' \in Rows
    BY <1>3, FlushType DEF WritePause, ToPause, RequestStates, Modes, TypeOK
  <2>2. req' \in [Requests -> RequestStates]
    BY <1>3, GotoType DEF WritePause, ReqPcs
  <2>3. Shape'
    BY <1>3 DEF WritePause, Goto, At, IdleRequest, Shape, TypeOK, RequestStates, PauseOps, SwitchOps
  <2> QED
    BY <1>3, <2>1, <2>2, <2>3 DEF WritePause, LateAfter, TypeOK
<1>4. ASSUME NEW h \in Requests, LoadMode(h) PROVE TypeOK' /\ Shape'
  <2>1. TypeOK'
    BY <1>4, LoadType DEF LoadMode, ReqPcs, TypeOK
  <2> QED
    BY <1>4, <2>1 DEF LoadMode, Load, At, Shape, TypeOK, RequestStates
<1>5. ASSUME NEW h \in Requests, WriteMode(h) PROVE TypeOK' /\ Shape'
  <2>1. ToMode(req[h].op) \in Modes
    BY <1>5 DEF WriteMode, At, Shape, SwitchOps, Modes, ToMode
  <2>2. control' \in Rows
    BY <1>5, <2>1, FlushType DEF WriteMode, RequestStates, TypeOK
  <2>3. req' \in [Requests -> RequestStates]
    BY <1>5, GotoType DEF WriteMode, ReqPcs
  <2>4. Shape'
    BY <1>5 DEF WriteMode, Goto, At, IdleRequest, Shape, TypeOK, RequestStates, PauseOps
  <2> QED
    BY <1>5, <2>2, <2>3, <2>4 DEF WriteMode, TypeOK
<1>6. ASSUME NEW h \in Requests, Refresh(h) PROVE TypeOK' /\ Shape'
  <2>1. TypeOK'
    BY <1>6, LoadType DEF Refresh, ReqPcs, TypeOK
  <2> QED
    BY <1>6, <2>1 DEF Refresh, Load, At, Shape, TypeOK, RequestStates
<1>7. ASSUME NEW h \in Requests, Finish(h) PROVE TypeOK' /\ Shape'
  <2>0. kill' \in BOOLEAN /\ armed' \in BOOLEAN
    <3>1. (req[h].op \in PauseOps) \in BOOLEAN
      OBVIOUS
    <3>2. (armed /\ req[h].op # "stop_all") \in BOOLEAN
      OBVIOUS
    <3> QED
      BY <1>7, <3>1, <3>2, Zenon DEF Finish
  <2>1. released' \in BOOLEAN
    BY <1>7, Zenon DEF Finish, TypeOK
  <2>2. req' \in [Requests -> RequestStates]
    BY <1>7, GotoType DEF Finish, ReqPcs
  <2>3. releases' \in Nat /\ late' \in Nat
    BY <1>7 DEF Finish, TypeOK
  <2>4. Shape'
    BY <1>7 DEF Finish, Goto, IdleRequest, Shape, TypeOK, RequestStates
  <2> QED
    BY <1>7, <2>0, <2>1, <2>2, <2>3, <2>4 DEF Finish, TypeOK
<1>8. ASSUME NEW h \in Requests, FailRequest(h) PROVE TypeOK' /\ Shape'
  <2>1. TypeOK'
    BY <1>8, GotoType DEF FailRequest, ReqPcs, TypeOK
  <2> QED
    BY <1>8, <2>1 DEF FailRequest, Goto, IdleRequest, Shape, TypeOK
<1>9. CASE ScanQuery
  BY <1>9 DEF ScanQuery, Cycles, ScanPcs, TypeOK, Shape
<1>10. CASE ScanApply
  <2>1. kill' \in BOOLEAN /\ released' \in BOOLEAN
    BY <1>10, Zenon DEF ScanApply, TypeOK, Cycles, Rows
  <2>2. scan' \in Cycles
    BY <1>10 DEF ScanApply, TypeOK, Cycles, ScanPcs
  <2> QED
    BY <1>10, <2>1, <2>2 DEF ScanApply, TypeOK, Shape, Cycles
<1>11. ASSUME NEW funded \in BOOLEAN, ScanCheckDd(funded) PROVE TypeOK' /\ Shape'
  <2>1. kill' \in BOOLEAN /\ released' \in BOOLEAN
    BY <1>11, Zenon DEF ScanCheckDd, TypeOK
  <2>2. scan' \in Cycles
    <3>1. [scan EXCEPT !.pc = "write_stop", !.dd = TRUE] \in Cycles
      BY DEF TypeOK, Cycles, ScanPcs
    <3>2. [scan EXCEPT !.pc = "route", !.pos = 1] \in Cycles
      BY CycleType, Positions DEF TypeOK, ScanPcs
    <3> QED
      BY <1>11, <3>1, <3>2 DEF ScanCheckDd
  <2> QED
    BY <1>11, <2>1, <2>2 DEF ScanCheckDd, TypeOK, Shape, Cycles
<1>12. CASE ScanWriteStop
  <2>1. control' \in Rows
    BY <1>12, FlushType DEF ScanWriteStop, TypeOK, Cycles, Modes
  <2>2. scan' \in Cycles
    BY <1>12, CycleType, Positions DEF ScanWriteStop, TypeOK, ScanPcs
  <2> QED
    BY <1>12, <2>1, <2>2 DEF ScanWriteStop, TypeOK, Shape, Cycles
<1>13. CASE ScanBlocked
  BY <1>13, Numbers DEF ScanBlocked, Cycles, ScanPcs, TypeOK, Shape
<1>14. CASE ScanTradable
  BY <1>14, Numbers DEF ScanTradable, OneMoreLate, Cycles, ScanPcs, TypeOK, Shape
<1>15. CASE ScanSettle
  <2>1. pnl' \in Int /\ anchor' \in Nat
    BY <1>15, Numbers DEF ScanSettle, MarkSuccess, TypeOK
  <2>2. scan' \in Cycles
    <3>1. scan.pos + 1 \in 1..NRoutes + 1
      BY <1>15, Positions DEF ScanSettle, TypeOK, Shape, Cycles
    <3> QED
      BY <1>15, <3>1, CycleType DEF ScanSettle, TypeOK, ScanPcs
  <2> QED
    BY <1>15, <2>1, <2>2 DEF ScanSettle, TypeOK, Shape, Cycles
<1>16. CASE ScanSleep
  BY <1>16, InitialValues DEF ScanSleep, FreshScan, TypeOK, Shape
<1>17. CASE ScanFail
  <2>1. scan' \in Cycles
    BY <1>17, InitialValues DEF ScanFail
  <2>2. Shape'
    BY <1>17 DEF ScanFail, FreshScan, Shape
  <2> QED
    BY <1>17, <2>1, <2>2 DEF ScanFail, TypeOK
<1>18. CASE NewDay
  BY <1>18 DEF NewDay, TypeOK, Shape
<1>19. CASE Crash
  <2>1. kill' \in BOOLEAN /\ armed' \in BOOLEAN /\ released' \in BOOLEAN
    BY <1>19, ConstantsAssumption, Zenon DEF Crash
  <2>2. req' \in [Requests -> RequestStates] /\ scan' \in Cycles
    BY <1>19, InitialValues DEF Crash
  <2>3. Shape'
    BY <1>19 DEF Crash, Shape, IdleRequest, FreshScan
  <2> QED
    BY <1>19, <2>1, <2>2, <2>3 DEF Crash, TypeOK
<1>20. CASE UNCHANGED vars
  BY <1>20 DEF vars, TypeOK, Shape
<1> QED
  BY <1>1, <1>2, <1>3, <1>4, <1>5, <1>6, <1>7, <1>8, <1>9, <1>10, <1>11, <1>12, <1>13,
     <1>14, <1>15, <1>16, <1>17, <1>18, <1>19, <1>20 DEF Next, HandleRequest, ScanStep

\* Types and shape hold throughout: every request and every cycle is where the
\* order of its awaits says it can be.
THEOREM ShapeAlways == Spec => [](TypeOK /\ Shape)
BY ShapeInit, ShapeStep, PTL DEF Spec

\* The state has the declared types (all handlers, the scan cycle, crashes).
THEOREM TypeCorrect == Spec => []TypeOK
BY ShapeAlways, PTL

-----------------------------------------------------------------------------
(***************************************************************************)
(* A stopped cycle takes no trade.  Once the cycle has copied the row into *)
(* the flag, a cycle that must not trade finds the flag up until a resume  *)
(* lowers it; the requests only ever raise it otherwise.                   *)
(***************************************************************************)
Copied == scan.pc \in {"balance", "write_stop", "route", "trade"}
MustNotTrade == scan.row.pause \/ scan.dd

FlagHolds == Copied /\ MustNotTrade => kill \/ released

StopInv == FlagHolds /\ StoppedCycleTakesNoTrade

\* Every step keeps the stop: only a resume lowers the flag of a cycle that must
\* not trade.
LEMMA StopStep == TypeOK /\ Shape /\ StopInv /\ [Next]_vars => StopInv'
<1> SUFFICES ASSUME TypeOK, Shape, StopInv, [Next]_vars PROVE StopInv'
  OBVIOUS
<1> USE DEF envVars, ghosts, StopInv, FlagHolds, Copied, MustNotTrade, StoppedCycleTakesNoTrade
<1>1. ASSUME NEW h \in Requests, Finish(h) PROVE StopInv'
  <2>1. CASE req[h].op = "resume"
    BY <1>1, <2>1 DEF Finish
  <2>2. CASE req[h].op # "resume" /\ req[h].op \in PauseOps
    BY <1>1, <2>2 DEF Finish
  <2>3. req[h].op = "resume" \/ req[h].op \in PauseOps
    BY <1>1 DEF Finish, At, Shape
  <2> QED
    BY <2>1, <2>2, <2>3
<1>2. CASE ScanQuery
  BY <1>2 DEF ScanQuery, TypeOK, Cycles
<1>3. CASE ScanApply
  BY <1>3 DEF ScanApply, TypeOK, Cycles
<1>4. ASSUME NEW funded \in BOOLEAN, ScanCheckDd(funded) PROVE StopInv'
  BY <1>4 DEF ScanCheckDd, TypeOK, Cycles
<1>5. CASE ScanWriteStop
  BY <1>5 DEF ScanWriteStop, TypeOK, Cycles
<1>6. CASE ScanBlocked
  BY <1>6 DEF ScanBlocked, TypeOK, Cycles
<1>7. CASE ScanTradable
  BY <1>7 DEF ScanTradable, TypeOK, Cycles
<1>8. CASE ScanSettle
  BY <1>8 DEF ScanSettle, TypeOK, Cycles
<1>9. CASE ScanSleep \/ ScanFail \/ Crash
  BY <1>9 DEF ScanSleep, ScanFail, Crash, FreshScan
<1>10. CASE NewDay \/ UNCHANGED vars
  BY <1>10 DEF NewDay, vars
<1>11. ASSUME NEW h \in Requests,
              (\E op \in Ops : Accept(h, op)) \/ LoadPause(h) \/ WritePause(h) \/ LoadMode(h)
              \/ WriteMode(h) \/ Refresh(h) \/ FailRequest(h)
       PROVE  StopInv'
  BY <1>11 DEF Accept, LoadPause, WritePause, LoadMode, WriteMode, Refresh, FailRequest
<1> QED
  BY <1>1, <1>2, <1>3, <1>4, <1>5, <1>6, <1>7, <1>8, <1>9, <1>10, <1>11
     DEF Next, HandleRequest, ScanStep

\* In a cycle that must not trade the flag stays up until a resume lowers it.
THEOREM StopAlways == Spec => []StopInv
<1>1. Init => StopInv
  BY DEF Init, StopInv, FlagHolds, Copied, StoppedCycleTakesNoTrade, FreshScan
<1> QED
  BY <1>1, StopStep, ShapeAlways, PTL DEF Spec

\* No trade in a cycle that read a paused row or whose drawdown stop fired,
\* except through a resume handled during that cycle (runner.py's scan loop).
THEOREM StoppedCycle == Spec => []StoppedCycleTakesNoTrade
<1>1. StopInv => StoppedCycleTakesNoTrade
  BY DEF StopInv
<1> QED
  BY <1>1, StopAlways, PTL

-----------------------------------------------------------------------------
(***************************************************************************)
(* Trades under a committed pause.  They all belong to one cycle: the one  *)
(* that read the row before the commit, or the one a resume interrupted;   *)
(* and in it the count never passes the number of routes visited.          *)
(***************************************************************************)
Visited == CASE scan.pc = "trade" -> scan.pos
             [] scan.pc = "route" -> scan.pos - 1
             [] OTHER -> 0

LateInv ==
  /\ ~control.pause => late = 0
  /\ late <= NRoutes
  /\ (Copied \/ scan.pc = "apply") /\ ~scan.row.pause => late <= Visited
  /\ Copied /\ released => late <= Visited

\* Every step keeps the bound on late trades: a route is passed once per cycle.
LEMMA LateStep == TypeOK /\ Shape /\ StopInv /\ LateInv /\ [Next]_vars => LateInv'
<1> SUFFICES ASSUME TypeOK, Shape, StopInv, LateInv, [Next]_vars PROVE LateInv'
  OBVIOUS
<1>0. /\ late \in Nat /\ scan.pos \in Nat /\ scan.pos >= 1 /\ scan.pos <= NRoutes + 1
      /\ NRoutes \in Nat
  BY Numbers DEF TypeOK, Cycles
<1> USE DEF envVars, ghosts, LateInv, Copied, Visited
<1>1. ASSUME NEW h \in Requests, WritePause(h) PROVE LateInv'
  <2>1. control.pause \in BOOLEAN
    BY DEF TypeOK, Rows
  <2>2. late' = 0 \/ (late' = late /\ control'.pause)
    BY <1>1 DEF WritePause, LateAfter
  <2>3. ~control'.pause => late' = 0
    BY <1>1 DEF WritePause, LateAfter
  <2> QED
    BY <1>0, <1>1, <2>2, <2>3 DEF WritePause
<1>2. ASSUME NEW h \in Requests, WriteMode(h) PROVE LateInv'
  <2>1. control'.pause = control.pause
    BY <1>2 DEF WriteMode, Flush, TypeOK, Rows
  <2> QED
    BY <1>2, <2>1 DEF WriteMode
<1>3. ASSUME NEW h \in Requests, Finish(h) PROVE LateInv'
  BY <1>0, <1>3 DEF Finish
<1>4. CASE ScanQuery
  BY <1>0, <1>4 DEF ScanQuery, TypeOK, Cycles
<1>5. CASE ScanApply
  BY <1>0, <1>5 DEF ScanApply, TypeOK, Cycles
<1>6. ASSUME NEW funded \in BOOLEAN, ScanCheckDd(funded) PROVE LateInv'
  <2>1. scan'.row = scan.row /\ (released' => released)
        /\ ((scan'.pc = "route" /\ scan'.pos = 1) \/ scan'.pc = "write_stop")
    BY <1>6 DEF ScanCheckDd, TypeOK, Cycles
  <2>2. Visited = 0 /\ Visited' = 0 /\ late' = late /\ control' = control
    BY <1>6, <2>1 DEF ScanCheckDd
  <2> QED
    BY <1>6, <2>1, <2>2 DEF ScanCheckDd
<1>7. CASE ScanWriteStop
  <2>1. control.pause => control'.pause
    BY <1>7 DEF ScanWriteStop, Flush, TypeOK, Rows
  <2>2. scan'.row = scan.row /\ scan'.pc = "route" /\ scan'.pos = 1
    BY <1>7 DEF ScanWriteStop, TypeOK, Cycles
  <2>3. Visited = 0 /\ Visited' = 0 /\ late' = late /\ released' = released
    BY <1>7, <2>2 DEF ScanWriteStop
  <2>4. late' <= NRoutes /\ (~control'.pause => late' = 0)
    BY <2>1, <2>3
  <2>5. ~scan.row.pause \/ released => late <= 0
    BY <1>7, <2>3 DEF ScanWriteStop
  <2> QED
    BY <2>2, <2>3, <2>4, <2>5
<1>8. CASE ScanBlocked
  <2>1. /\ UNCHANGED <<control, released, late>>
        /\ scan'.row = scan.row /\ scan'.pc = "route" /\ scan.pc = "route"
        /\ scan'.pos = scan.pos + 1
    BY <1>8 DEF ScanBlocked, TypeOK, Cycles
  <2>2. Visited = scan.pos - 1 /\ Visited' = scan.pos
    BY <1>0, <2>1
  <2> QED
    BY <1>0, <2>1, <2>2
<1>9. CASE ScanTradable
  <2>1. control.pause => late <= scan.pos - 1
    BY <1>0, <1>9 DEF ScanTradable, StopInv, FlagHolds, MustNotTrade
  <2>2. late' <= scan.pos /\ (~control.pause => late' = 0)
    BY <1>0, <1>9, <2>1 DEF ScanTradable, OneMoreLate
  <2>3. scan'.pos = scan.pos /\ scan'.pc = "trade"
    BY <1>9 DEF ScanTradable, TypeOK, Cycles
  <2>4. scan.pos <= NRoutes /\ control' = control
    BY <1>9 DEF ScanTradable
  <2>5. late' \in Nat
    BY <1>0, <1>9 DEF ScanTradable, OneMoreLate
  <2>6. late' <= NRoutes /\ Visited' = scan.pos
    BY <1>0, <2>2, <2>3, <2>4, <2>5
  <2> QED
    BY <2>2, <2>4, <2>6
<1>10. CASE ScanSettle
  BY <1>0, <1>10 DEF ScanSettle, TypeOK, Cycles
<1>11. CASE ScanSleep \/ ScanFail \/ Crash
  BY <1>11 DEF ScanSleep, ScanFail, Crash, FreshScan
<1>12. CASE NewDay \/ UNCHANGED vars
  BY <1>12 DEF NewDay, vars
<1>13. ASSUME NEW h \in Requests,
              (\E op \in Ops : Accept(h, op)) \/ LoadPause(h) \/ LoadMode(h)
              \/ Refresh(h) \/ FailRequest(h)
       PROVE  LateInv'
  <2>1. UNCHANGED <<control, scan, released, late>>
    BY <1>13 DEF Accept, LoadPause, LoadMode, Refresh, FailRequest
  <2> QED
    BY <2>1
<1> QED
  BY <1>1, <1>2, <1>3, <1>4, <1>5, <1>6, <1>7, <1>8, <1>9, <1>10, <1>11, <1>12, <1>13
     DEF Next, HandleRequest, ScanStep

\* At most one trade per route begins under a committed pause before the next
\* release, although the pause handlers and the scan loop race on the flag.
THEOREM LateTrades == Spec => []LateTradesBounded
<1>1. Init => LateInv
  BY Numbers DEF Init, LateInv, Copied, Visited, FreshScan, NoRow
<1>2. LateInv => LateTradesBounded
  BY DEF LateInv, LateTradesBounded
<1> QED
  BY <1>1, <1>2, LateStep, StopAlways, ShapeAlways, PTL DEF Spec

-----------------------------------------------------------------------------
(***************************************************************************)
(* The daily result.  Below the limit at the drawdown check, a cycle can   *)
(* lose MaxLoss per route; above it, only a resume lets the cycle go on,   *)
(* once.                                                                   *)
(***************************************************************************)
InLoop == scan.pc \in {"route", "trade"}
LoopLoss == (scan.pos - 1) * MaxLoss
ReleaseLoss == releases * CycleLoss

LossInv ==
  /\ DailyResultBounded
  /\ InLoop /\ ~scan.dd => -pnl < DdLimit + LoopLoss
  /\ scan.pc = "write_stop" /\ released => -pnl < DdLimit + ReleaseLoss
  /\ InLoop /\ scan.dd /\ released => -pnl < DdLimit + ReleaseLoss + LoopLoss

\* The arithmetic of the loss bound: products with the number of routes.
LEMMA Products ==
  /\ \A i \in 1..NRoutes + 1 : (i - 1) * MaxLoss \in Nat /\ (i - 1) * MaxLoss <= CycleLoss
  /\ \A i \in 1..NRoutes : ((i + 1) - 1) * MaxLoss = (i - 1) * MaxLoss + MaxLoss
  /\ (1 - 1) * MaxLoss = 0
  /\ CycleLoss \in Nat
  /\ \A k \in Nat : k * CycleLoss \in Nat /\ (k + 1) * CycleLoss = k * CycleLoss + CycleLoss
<1>1. \A a, b \in Nat : a * b \in Nat
  OBVIOUS
<1>2. \A a, b \in Nat : (a + 1) * b = a * b + b
  OBVIOUS
<1>3. \A a, b, c \in Nat : a <= b => a * c <= b * c
  OBVIOUS
<1>4. \A i \in 1..NRoutes + 1 : i - 1 \in Nat /\ i - 1 <= NRoutes
  BY Numbers
<1>5. CycleLoss \in Nat
  BY <1>1, Numbers DEF CycleLoss
<1>6. \A i \in 1..NRoutes + 1 : (i - 1) * MaxLoss \in Nat /\ (i - 1) * MaxLoss <= CycleLoss
  BY <1>1, <1>3, <1>4, Numbers DEF CycleLoss
<1>7. ASSUME NEW i \in 1..NRoutes
      PROVE  ((i + 1) - 1) * MaxLoss = (i - 1) * MaxLoss + MaxLoss
  <2>1. i - 1 \in Nat /\ (i + 1) - 1 = (i - 1) + 1
    BY Numbers
  <2> QED
    BY <2>1, <1>2, Numbers
<1> QED
  BY <1>1, <1>2, <1>5, <1>6, <1>7, Numbers

\* A result that loses at most m, after the previous one or after a new day's 0.
LEMMA OneMoreLoss ==
  ASSUME NEW old \in Int, NEW new \in Int, NEW d \in Nat, d >= 1,
         NEW m \in Nat, NEW l \in Nat, NEW r \in Nat, NEW c \in Nat, l + m <= c,
         -new <= -old + m \/ -new <= m
  PROVE  /\ -old < d + l => -new < d + (l + m)
         /\ -old < d + r + l => -new < d + r + (l + m)
         /\ -new < d + (l + m) => -new < d + c + r
         /\ -new < d + r + (l + m) => -new < d + c + r
OBVIOUS

\* Every step keeps the bound on the loss.
LEMMA LossStep == TypeOK /\ Shape /\ StopInv /\ LossInv /\ [Next]_vars => LossInv'
<1> SUFFICES ASSUME TypeOK, Shape, StopInv, LossInv, [Next]_vars PROVE LossInv'
  OBVIOUS
<1>0. /\ pnl \in Int /\ releases \in Nat /\ scan.pos \in 1..NRoutes + 1
      /\ NRoutes \in Nat /\ DdLimit \in Nat /\ DdLimit >= 1 /\ MaxLoss \in Nat
      /\ CycleLoss \in Nat /\ ReleaseLoss \in Nat
      /\ LoopLoss \in Nat /\ LoopLoss <= CycleLoss
  BY Numbers, Products DEF TypeOK, Cycles, ReleaseLoss, LoopLoss
<1> USE DEF envVars, ghosts, LossInv, DailyResultBounded, InLoop
<1>1. ASSUME NEW h \in Requests, Finish(h) PROVE LossInv'
  <2>1. CASE req[h].op = "resume"
    <3>1. ReleaseLoss' = ReleaseLoss + CycleLoss
      BY <1>0, <1>1, <2>1, Products DEF Finish, ReleaseLoss, CycleLoss
    <3>2. UNCHANGED <<pnl, scan, LoopLoss>>
      BY <1>1 DEF Finish, LoopLoss
    <3> QED
      BY <1>0, <1>1, <2>1, <3>1, <3>2 DEF Finish, ReleaseLoss, CycleLoss
  <2>2. CASE req[h].op # "resume"
    BY <1>1, <2>2 DEF Finish, ReleaseLoss, LoopLoss
  <2> QED
    BY <2>1, <2>2
<1>2. CASE ScanQuery \/ ScanApply
  <2>1. UNCHANGED <<pnl, releases>> /\ scan'.pc \in {"apply", "balance"}
    BY <1>2 DEF ScanQuery, ScanApply, TypeOK, Cycles
  <2> QED
    BY <2>1 DEF CycleLoss
<1>3. ASSUME NEW funded \in BOOLEAN, ScanCheckDd(funded) PROVE LossInv'
  <2>1. CASE ShouldStopForDailyDd(funded)
    <3>1. UNCHANGED <<pnl, releases>> /\ ~released' /\ scan'.pc = "write_stop"
      BY <1>3, <2>1 DEF ScanCheckDd, TypeOK, Cycles
    <3> QED
      BY <3>1 DEF CycleLoss
  <2>2. CASE ~ShouldStopForDailyDd(funded)
    <3>1. UNCHANGED <<pnl, releases>> /\ scan'.pc = "route" /\ scan'.pos = 1
          /\ scan'.dd = scan.dd
      BY <1>3, <2>2 DEF ScanCheckDd, TypeOK, Cycles
    <3>2. -pnl < DdLimit
      BY <1>0, <2>2 DEF ShouldStopForDailyDd
    <3>3. LoopLoss' = 0 /\ ReleaseLoss' = ReleaseLoss
      BY <3>1, Products DEF LoopLoss, ReleaseLoss, CycleLoss
    <3> QED
      BY <1>0, <3>1, <3>2, <3>3 DEF ReleaseLoss, CycleLoss
  <2> QED
    BY <2>1, <2>2
<1>4. CASE ScanWriteStop
  <2>1. UNCHANGED <<pnl, releases, released>> /\ scan'.pc = "route" /\ scan'.pos = 1
        /\ scan'.dd = scan.dd /\ scan.dd
    BY <1>4 DEF ScanWriteStop, TypeOK, Cycles, Shape
  <2>2. LoopLoss' = 0 /\ ReleaseLoss' = ReleaseLoss
    BY <2>1, Products DEF LoopLoss, ReleaseLoss, CycleLoss
  <2> QED
    BY <1>0, <1>4, <2>1, <2>2 DEF ScanWriteStop, ReleaseLoss, CycleLoss
<1>5. CASE ScanBlocked
  <2>1. UNCHANGED <<pnl, releases, released>> /\ scan'.pc = "route" /\ scan'.dd = scan.dd
        /\ scan'.pos = scan.pos + 1 /\ scan.pos \in 1..NRoutes
    BY <1>0, <1>5 DEF ScanBlocked, TypeOK, Cycles
  <2>2. LoopLoss' = LoopLoss + MaxLoss /\ ReleaseLoss' = ReleaseLoss
    BY <2>1, Products DEF LoopLoss, ReleaseLoss, CycleLoss
  <2> QED
    BY <1>0, <1>5, <2>1, <2>2 DEF ScanBlocked, ReleaseLoss, CycleLoss
<1>6. CASE ScanTradable
  <2>1. UNCHANGED <<pnl, releases, released>> /\ scan'.dd = scan.dd
        /\ scan'.pos = scan.pos /\ scan.pc = "route" /\ scan'.pc = "trade"
    BY <1>6 DEF ScanTradable, TypeOK, Cycles
  <2> QED
    BY <2>1 DEF LoopLoss, ReleaseLoss, CycleLoss
<1>7. CASE ScanSettle
  <2>1. UNCHANGED <<releases, released>> /\ scan'.pc = "route" /\ scan'.dd = scan.dd
        /\ scan'.pos = scan.pos + 1 /\ scan.pos \in 1..NRoutes /\ scan.pc = "trade"
    BY <1>0, <1>7 DEF ScanSettle, TypeOK, Cycles, Shape
  <2>2. LoopLoss' = LoopLoss + MaxLoss /\ ReleaseLoss' = ReleaseLoss
        /\ LoopLoss' <= CycleLoss
    <3>1. scan'.pos \in 1..NRoutes + 1
      BY <1>0, <2>1
    <3> QED
      BY <2>1, <3>1, Products DEF LoopLoss, ReleaseLoss, CycleLoss
  <2>3. pnl' \in Int /\ (-pnl' <= -pnl + MaxLoss \/ -pnl' <= MaxLoss)
    BY <1>0, <1>7, Numbers DEF ScanSettle, MarkSuccess
  <2>4. scan.dd => released
    BY <2>1 DEF StopInv, StoppedCycleTakesNoTrade
  <2>5. /\ ~scan.dd => -pnl < DdLimit + LoopLoss
        /\ scan.dd => -pnl < DdLimit + ReleaseLoss + LoopLoss
    BY <2>1, <2>4
  <2> HIDE DEF LossInv, DailyResultBounded
  <2>6. /\ ~scan.dd => -pnl' < DdLimit + LoopLoss'
        /\ scan.dd => -pnl' < DdLimit + ReleaseLoss' + LoopLoss'
    BY <1>0, <2>2, <2>3, <2>5, OneMoreLoss
  <2>7. -pnl' < DdLimit + CycleLoss + ReleaseLoss'
    BY <1>0, <2>2, <2>3, <2>6, OneMoreLoss
  <2>8. DailyResultBounded'
    BY <2>7 DEF DailyResultBounded, ReleaseLoss, CycleLoss
  <2> QED
    BY <2>1, <2>6, <2>8 DEF LossInv
<1>8. CASE ScanSleep \/ ScanFail
  <2>1. UNCHANGED <<pnl, releases>> /\ scan'.pc \in {"query", "dead"}
    BY <1>8 DEF ScanSleep, ScanFail, FreshScan
  <2> QED
    BY <2>1 DEF CycleLoss
<1>9. CASE Crash
  <2>1. pnl' = 0 /\ releases' = 0 /\ scan'.pc = "query"
    BY <1>9 DEF Crash, FreshScan
  <2>2. releases' * CycleLoss = 0
    BY <1>0, <2>1
  <2>3. CycleLoss' = CycleLoss
    BY DEF CycleLoss
  <2>4. DailyResultBounded'
    BY <1>0, <2>1, <2>2, <2>3
  <2>5. ~InLoop' /\ scan'.pc # "write_stop"
    BY <2>1
  <2> HIDE DEF DailyResultBounded, InLoop
  <2> QED
    BY <2>4, <2>5
<1>10. CASE NewDay \/ UNCHANGED vars
  BY <1>10 DEF NewDay, vars, LoopLoss, ReleaseLoss, CycleLoss
<1>11. ASSUME NEW h \in Requests,
              (\E op \in Ops : Accept(h, op)) \/ LoadPause(h) \/ WritePause(h) \/ LoadMode(h)
              \/ WriteMode(h) \/ Refresh(h) \/ FailRequest(h)
       PROVE  LossInv'
  <2>1. UNCHANGED <<pnl, scan, released, releases>>
    BY <1>11 DEF Accept, LoadPause, WritePause, LoadMode, WriteMode, Refresh, FailRequest
  <2> QED
    BY <2>1 DEF LoopLoss, ReleaseLoss, CycleLoss
<1> QED
  BY <1>1, <1>2, <1>3, <1>4, <1>5, <1>6, <1>7, <1>8, <1>9, <1>10, <1>11
     DEF Next, HandleRequest, ScanStep

\* The drawdown stop caps what the daily result shows lost since the first success
\* of its day (mark_success restarts it): the limit, one cycle's losses, and one more
\* cycle for each resume, whatever the number of routes.
THEOREM DailyResultCapped == Spec => []DailyResultBounded
<1>1. Init => LossInv
  <2> SUFFICES ASSUME Init PROVE LossInv
    OBVIOUS
  <2>1. pnl = 0 /\ releases = 0 /\ scan.pc = "query"
    BY DEF Init, FreshScan
  <2>2. CycleLoss \in Nat /\ 0 * CycleLoss = 0
    BY Products
  <2> QED
    BY <2>1, <2>2, Numbers DEF LossInv, DailyResultBounded, InLoop
<1>2. LossInv => DailyResultBounded
  BY DEF LossInv
<1> QED
  BY <1>1, <1>2, LossStep, StopAlways, ShapeAlways, PTL DEF Spec

-----------------------------------------------------------------------------
(***************************************************************************)
(* A cycle ends.  This is the part of PauseEndsTrading and                 *)
(* ReleaseReachesFlag that does not need fairness: how far the scan task   *)
(* is from reading the row again.                                          *)
(***************************************************************************)
StepsLeft ==
  CASE scan.pc = "apply"      -> 2 * NRoutes + 4
    [] scan.pc = "balance"    -> 2 * NRoutes + 3
    [] scan.pc = "write_stop" -> 2 * NRoutes + 2
    [] scan.pc = "route"      -> 2 * (NRoutes + 1 - scan.pos) + 1
    [] scan.pc = "trade"      -> 2 * (NRoutes + 1 - scan.pos)
    [] OTHER                  -> 0

Nearer ==
  scan.pc # "query" => /\ StepsLeft' <= StepsLeft
                       /\ ScanStep => StepsLeft' < StepsLeft

LEMMA StepsBounded ==
  ASSUME TypeOK
  PROVE  StepsLeft \in Nat /\ StepsLeft <= 2 * NRoutes + 4
<1>1. scan.pos \in Nat /\ scan.pos >= 1 /\ scan.pos <= NRoutes + 1 /\ NRoutes \in Nat
  BY Numbers DEF TypeOK, Cycles
<1> QED
  BY <1>1 DEF StepsLeft

LEMMA StepNearer == TypeOK /\ Shape /\ [Next]_vars => Nearer
<1> SUFFICES ASSUME TypeOK, Shape, [Next]_vars, scan.pc # "query"
             PROVE  /\ StepsLeft' <= StepsLeft
                    /\ ScanStep => StepsLeft' < StepsLeft
  BY DEF Nearer
<1>0. /\ scan.pos \in Nat /\ scan.pos >= 1 /\ scan.pos <= NRoutes + 1 /\ NRoutes \in Nat
      /\ scan.pc = "trade" => scan.pos <= NRoutes
      /\ scan \in Cycles /\ StepsLeft \in Nat
  BY Numbers, StepsBounded DEF TypeOK, Cycles, Shape
<1>1. ASSUME ScanStep PROVE StepsLeft' < StepsLeft
  <2>1. CASE ScanQuery
    BY <2>1 DEF ScanQuery
  <2>2. CASE ScanApply
    BY <1>0, <2>2 DEF ScanApply, Cycles, StepsLeft
  <2>3. ASSUME NEW funded \in BOOLEAN, ScanCheckDd(funded) PROVE StepsLeft' < StepsLeft
    <3>1. scan.pc = "balance" /\ StepsLeft = 2 * NRoutes + 3
      BY <2>3 DEF ScanCheckDd, StepsLeft
    <3>2. scan'.pc = "write_stop" \/ (scan'.pc = "route" /\ scan'.pos = 1)
      BY <1>0, <2>3 DEF ScanCheckDd, Cycles
    <3>3. StepsLeft' = 2 * NRoutes + 2 \/ StepsLeft' = 2 * NRoutes + 1
      BY <1>0, <3>2 DEF StepsLeft
    <3> QED
      BY <1>0, <3>1, <3>3
  <2>4. CASE ScanWriteStop
    BY <1>0, <2>4 DEF ScanWriteStop, Cycles, StepsLeft
  <2>5. CASE ScanBlocked
    BY <1>0, <2>5 DEF ScanBlocked, Cycles, StepsLeft
  <2>6. CASE ScanTradable
    BY <1>0, <2>6 DEF ScanTradable, Cycles, StepsLeft
  <2>7. CASE ScanSettle
    <3>1. scan.pc = "trade" /\ scan' = [scan EXCEPT !.pc = "route", !.pos = @ + 1]
      BY <2>7 DEF ScanSettle
    <3> QED
      BY <1>0, <3>1 DEF Cycles, StepsLeft
  <2>8. CASE ScanSleep
    BY <1>0, <2>8 DEF ScanSleep, FreshScan, Cycles, StepsLeft
  <2> QED
    BY <1>1, <2>1, <2>2, <2>3, <2>4, <2>5, <2>6, <2>7, <2>8 DEF ScanStep
<1>2. ASSUME scan' = scan PROVE StepsLeft' = StepsLeft
  BY <1>2 DEF StepsLeft
<1>3. ASSUME scan' \in {FreshScan, [FreshScan EXCEPT !.pc = "dead"]} PROVE StepsLeft' = 0
  BY <1>3 DEF FreshScan, StepsLeft
<1>4. ASSUME NEW h \in Requests, HandleRequest(h) PROVE scan' = scan
  BY <1>4 DEF HandleRequest, LoadPause, WritePause, LoadMode, WriteMode, Refresh, Finish
<1>5. (\E h \in Requests : (\E op \in Ops : Accept(h, op)) \/ HandleRequest(h) \/ FailRequest(h))
        => scan' = scan
  BY <1>4 DEF Accept, FailRequest
<1>6. NewDay \/ UNCHANGED vars => scan' = scan
  BY DEF NewDay, vars
<1>7. ScanFail \/ Crash => scan' \in {FreshScan, [FreshScan EXCEPT !.pc = "dead"]}
  BY DEF ScanFail, Crash
<1>8. ScanStep \/ scan' = scan \/ scan' \in {FreshScan, [FreshScan EXCEPT !.pc = "dead"]}
  BY <1>5, <1>6, <1>7, Zenon DEF Next
<1>9. StepsLeft' <= StepsLeft
  <2>1. CASE ScanStep
    <3>1. StepsLeft' < StepsLeft
      BY <1>1, <2>1
    <3>2. TypeOK'
      BY ShapeStep
    <3>3. StepsLeft' \in Nat
      BY <3>2, <1>0, ShapeStep DEF TypeOK, Cycles, StepsLeft
    <3> QED
      BY <1>0, <3>1, <3>3
  <2>2. CASE scan' = scan
    BY <1>0, <1>2, <2>2
  <2>3. CASE scan' \in {FreshScan, [FreshScan EXCEPT !.pc = "dead"]}
    BY <1>0, <1>3, <2>3
  <2> QED
    BY <1>8, <2>1, <2>2, <2>3
<1> QED
  BY <1>1, <1>9

\* A cycle that has read the row is at most 2 NRoutes + 4 steps of the scan task away
\* from the next one, each brings it nearer, and nothing in between takes it back:
\* no request, day, exception or crash (_scan_loop).
THEOREM CyclesEnd ==
  Spec => /\ [](StepsLeft \in Nat /\ StepsLeft <= 2 * NRoutes + 4)
          /\ [][Nearer]_vars
<1>1. TypeOK => StepsLeft \in Nat /\ StepsLeft <= 2 * NRoutes + 4
  BY StepsBounded
<1>2. TypeOK /\ Shape /\ [Next]_vars => [Nearer]_vars
  BY StepNearer
<1> QED
  BY <1>1, <1>2, ShapeAlways, PTL DEF Spec
=============================================================================
