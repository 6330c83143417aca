----------------------------- MODULE KillSwitch -----------------------------
(***************************************************************************)
(* The global stop of the bot: the runtime_controls row (mode and          *)
(* global_pause, durable), the risk manager's global_kill_switch and the   *)
(* live engine's runtime_armed flag (volatile), the scan loop that copies  *)
(* the row into the flag once per cycle and then trades the routes one by  *)
(* one, the daily-drawdown stop, and the control API handlers that change  *)
(* the row and the flag while a cycle is running.                          *)
(*                                                                         *)
(* Everything runs on one asyncio event loop: an action is the code        *)
(* between two awaits.  An ORM write is a load, then a commit that writes  *)
(* only the columns whose value differs from the loaded one.               *)
(***************************************************************************)
EXTENDS Integers, FiniteSets

CONSTANTS
  NRoutes,      \* number of routes a scan cycle visits, in order
  Shadow,       \* the routes of strategy base_virtual_shadow (always paper)
  Requests,     \* slots for control requests being handled concurrently
  Ops,          \* the control operations the operators use
  LiveEnabled,  \* settings.live_enable_flag
  InitialKill,  \* settings.global_kill_switch
  Pnls,         \* what a paper execution may realise
  MaxLoss,      \* the largest loss of one execution
  DdLimit,      \* loss at which the daily drawdown stop fires
  MaxPnl,       \* bound: gains are counted up to here
  MaxDay,       \* bound on the calendar
  MaxReleases,  \* bound on resume requests per process lifetime
  MaxCrashes    \* bound on process crashes

PauseOps == {"pause", "stop_all"}
SwitchOps == {"stopped", "paper", "live"}     \* switch-mode, by target mode
AllOps == PauseOps \cup {"resume"} \cup SwitchOps

ASSUME ConstantsAssumption ==
  /\ NRoutes \in Nat \ {0}
  /\ Shadow \subseteq 1..NRoutes
  /\ Ops \subseteq AllOps
  /\ LiveEnabled \in BOOLEAN
  /\ InitialKill \in BOOLEAN
  /\ MaxLoss \in Nat
  /\ Pnls \subseteq Int /\ 0 \in Pnls /\ \A p \in Pnls : p >= -MaxLoss
  /\ DdLimit \in Nat \ {0}
  /\ MaxPnl \in Nat /\ MaxDay \in Nat /\ MaxReleases \in Nat /\ MaxCrashes \in Nat

VARIABLES
  control,   \* the runtime_controls row
  kill,      \* GlobalRiskManager.global_kill_switch
  armed,     \* LiveDryRunExecutionEngine.runtime_armed
  req,       \* the control requests in progress
  scan,      \* the scan cycle in progress
  pnl,       \* GlobalRiskManager.daily_realized_pnl
  anchor,    \* GlobalRiskManager.day_anchor
  today,     \* the calendar
  crashes,
  \* observation only:
  released,  \* a resume lowered the flag since the cycle last set it
  releases,  \* resumes that lowered the flag in this process lifetime
  late       \* trades begun under a committed pause since the last release

envVars == <<pnl, anchor, today, crashes>>
ghosts == <<released, releases, late>>
vars == <<control, kill, armed, req, scan, envVars, ghosts>>

Modes == {"stopped", "paper", "live"}
Rows == [mode : Modes, pause : BOOLEAN]
ReqPcs == {"idle", "load_pause", "write_pause", "load_mode", "write_mode",
           "refresh", "finish"}
ScanPcs == {"query", "apply", "balance", "write_stop", "route", "trade", "dead"}

RequestStates == [op : AllOps, pc : ReqPcs, row : Rows]
Cycles == [pc : ScanPcs, row : Rows, dd : BOOLEAN, pos : 1..NRoutes + 1]

TypeOK ==
  /\ control \in Rows
  /\ kill \in BOOLEAN /\ armed \in BOOLEAN
  /\ req \in [Requests -> RequestStates]
  /\ scan \in Cycles
  /\ pnl \in Int /\ anchor \in Nat /\ today \in Nat /\ crashes \in Nat
  /\ released \in BOOLEAN /\ releases \in Nat /\ late \in Nat

-----------------------------------------------------------------------------
NoRow == [mode |-> "paper", pause |-> FALSE]       \* RuntimeControl's defaults
IdleRequest == [op |-> "pause", pc |-> "idle", row |-> NoRow]
FreshScan == [pc |-> "query", row |-> NoRow, dd |-> FALSE, pos |-> 1]

Init ==
  /\ control = NoRow
  /\ kill = InitialKill /\ armed = FALSE
  /\ req = [h \in Requests |-> IdleRequest]
  /\ scan = FreshScan
  /\ pnl = 0 /\ today = 0 /\ anchor = 0 /\ crashes = 0
  /\ released = FALSE /\ releases = 0 /\ late = 0

-----------------------------------------------------------------------------
(***************************************************************************)
(* Control requests.  pause, resume and stop-all write the row first and   *)
(* the flag last; switch-mode arms or disarms first and never touches the  *)
(* flag.  A database error at any await abandons the request there.        *)
(***************************************************************************)
ToPause(op) == op # "resume"                       \* the value written
ToMode(op) == IF op = "stop_all" THEN "stopped" ELSE op

At(h, pc) == req[h].pc = pc

\* Where a request goes next; a finished one leaves nothing behind.
Goto(h, pc) ==
  IF pc = "idle" THEN [req EXCEPT ![h] = IdleRequest] ELSE [req EXCEPT ![h].pc = pc]

\* A SELECT of the row, of which the request will assign one column.
Load(h, column, pc) ==
  [req EXCEPT ![h].row = [NoRow EXCEPT ![column] = control[column]], ![h].pc = pc]

\* Columns left unchanged by the assignment are not part of the UPDATE.
Flush(row, column, loaded, value) ==
  IF value = loaded[column] THEN row ELSE [row EXCEPT ![column] = value]

\* The counter of late trades restarts when the row is not paused.
LateAfter(row) == IF row.pause THEN late ELSE 0
\* It stops counting when there is one too many.
OneMoreLate == IF late > NRoutes THEN late ELSE late + 1

InFlight(op) == {h \in Requests : ~At(h, "idle") /\ req[h].op = op}

Accept(h, op) ==
  /\ At(h, "idle")
  /\ op = "live" => LiveEnabled                    \* otherwise HTTP 400
  /\ op = "resume" => releases + Cardinality(InFlight("resume")) < MaxReleases
  /\ req' = [req EXCEPT ![h].op = op,
                        ![h].pc = IF op \in SwitchOps THEN "load_mode" ELSE "load_pause"]
  /\ armed' = IF op \in SwitchOps THEN op = "live" ELSE armed
  /\ UNCHANGED <<control, kill, scan, envVars, ghosts>>

LoadPause(h) ==
  /\ At(h, "load_pause")
  /\ req' = Load(h, "pause", "write_pause")
  /\ UNCHANGED <<control, kill, armed, scan, envVars, ghosts>>

WritePause(h) ==
  /\ At(h, "write_pause")
  /\ control' = Flush(control, "pause", req[h].row, ToPause(req[h].op))
  /\ late' = LateAfter(control')
  /\ req' = Goto(h, CASE req[h].op = "stop_all" -> "load_mode"
                      [] req[h].op = "stopped" -> "idle"
                      [] OTHER -> "finish")
  /\ UNCHANGED <<kill, armed, scan, envVars, released, releases>>

LoadMode(h) ==
  /\ At(h, "load_mode")
  /\ req' = Load(h, "mode", "write_mode")
  /\ UNCHANGED <<control, kill, armed, scan, envVars, ghosts>>

WriteMode(h) ==
  /\ At(h, "write_mode")
  /\ control' = Flush(control, "mode", req[h].row, ToMode(req[h].op))
  /\ req' = Goto(h, CASE req[h].op = "stop_all" -> "finish"
                      [] req[h].op = "stopped" -> "refresh"
                      [] OTHER -> "idle")
  /\ UNCHANGED <<kill, armed, scan, envVars, ghosts>>

\* switch-mode to stopped keeps the refreshed object: set_global_pause gets it
\* back from the session's identity map, not from the database.
Refresh(h) ==
  /\ At(h, "refresh")
  /\ req' = Load(h, "pause", "write_pause")
  /\ UNCHANGED <<control, kill, armed, scan, envVars, ghosts>>

\* After the kill_switch_events row is committed.
Finish(h) ==
  /\ At(h, "finish")
  /\ kill' = (req[h].op \in PauseOps)
  /\ armed' = (armed /\ req[h].op # "stop_all")
  /\ req' = Goto(h, "idle")
  /\ IF req[h].op = "resume"
     THEN released' = TRUE /\ releases' = releases + 1 /\ late' = 0
     ELSE UNCHANGED ghosts
  /\ UNCHANGED <<control, scan, envVars>>

FailRequest(h) ==
  /\ ~At(h, "idle")
  /\ req' = Goto(h, "idle")
  /\ UNCHANGED <<control, kill, armed, scan, envVars, ghosts>>

HandleRequest(h) ==
  LoadPause(h) \/ WritePause(h) \/ LoadMode(h) \/ WriteMode(h) \/ Refresh(h) \/ Finish(h)

-----------------------------------------------------------------------------
(***************************************************************************)
(* The scan cycle.                                                         *)
(***************************************************************************)
\* The SELECT reads the row; the loop gets the result one await later.
ScanQuery ==
  /\ scan.pc = "query"
  /\ scan' = [scan EXCEPT !.pc = "apply", !.row = control]
  /\ UNCHANGED <<control, kill, armed, req, envVars, ghosts>>

\* Mutants of the next action: the row is not copied; it can only raise the flag.
ScanApply_KeepsFlag ==
  /\ scan.pc = "apply"
  /\ scan' = [scan EXCEPT !.pc = "balance", !.dd = FALSE]
  /\ released' = FALSE
  /\ UNCHANGED <<control, kill, armed, req, envVars, releases, late>>

ScanApply_Latches ==
  /\ scan.pc = "apply"
  /\ kill' = (kill \/ scan.row.pause)
  /\ scan' = [scan EXCEPT !.pc = "balance", !.dd = FALSE]
  /\ released' = FALSE
  /\ UNCHANGED <<control, armed, req, envVars, releases, late>>

ScanApply ==
  /\ scan.pc = "apply"
  /\ kill' = scan.row.pause
  /\ scan' = [scan EXCEPT !.pc = "balance", !.dd = FALSE]
  /\ released' = FALSE
  /\ UNCHANGED <<control, armed, req, envVars, releases, late>>

\* Mutant: the loss must exceed the limit.
ShouldStop_OffByOne(funded) == ~funded \/ -pnl > DdLimit

\* No positive balance, or a loss that reaches the limit.
ShouldStopForDailyDd(funded) == ~funded \/ -pnl >= DdLimit

ScanCheckDd(funded) ==
  /\ scan.pc = "balance"
  /\ IF ShouldStopForDailyDd(funded)
     THEN /\ kill' = TRUE
          /\ scan' = [scan EXCEPT !.pc = "write_stop", !.dd = TRUE]
          /\ released' = FALSE
     ELSE /\ scan' = [scan EXCEPT !.pc = "route", !.pos = 1]
          /\ UNCHANGED <<kill, released>>
  /\ UNCHANGED <<control, armed, req, envVars, releases, late>>

\* set_global_pause works on the object the cycle loaded at its start.
ScanWriteStop ==
  /\ scan.pc = "write_stop"
  /\ control' = Flush(control, "pause", scan.row, TRUE)
  /\ scan' = [scan EXCEPT !.pc = "route", !.pos = 1]
  /\ UNCHANGED <<kill, armed, req, envVars, ghosts>>

StrategyMode(r) == IF r \in Shadow THEN "paper" ELSE scan.row.mode

\* Mutant: one position too many.
ScanBlocked_OffByOne ==
  /\ scan.pc = "route" /\ scan.pos <= NRoutes + 1
  /\ scan' = [scan EXCEPT !.pos = @ + 1]
  /\ UNCHANGED <<control, kill, armed, req, envVars, ghosts>>

\* evaluate: the flag first, then every other guard (left open: any route may
\* be blocked by them).  A tradable route goes on unless the mode is stopped.
ScanBlocked ==
  /\ scan.pc = "route" /\ scan.pos <= NRoutes
  /\ scan' = [scan EXCEPT !.pos = @ + 1]
  /\ UNCHANGED <<control, kill, armed, req, envVars, ghosts>>

\* Mutant: the flag is not looked at.
ScanTradable_IgnoresFlag ==
  /\ scan.pc = "route" /\ scan.pos <= NRoutes
  /\ StrategyMode(scan.pos) # "stopped"
  /\ scan' = [scan EXCEPT !.pc = "trade"]
  /\ late' = IF control.pause THEN OneMoreLate ELSE 0
  /\ UNCHANGED <<control, kill, armed, req, envVars, released, releases>>

ScanTradable ==
  /\ scan.pc = "route" /\ scan.pos <= NRoutes
  /\ ~kill
  /\ StrategyMode(scan.pos) # "stopped"
  /\ scan' = [scan EXCEPT !.pc = "trade"]
  /\ late' = IF control.pause THEN OneMoreLate ELSE 0
  /\ UNCHANGED <<control, kill, armed, req, envVars, released, releases>>

\* mark_success: the first success of a new day restarts the daily result.
MarkSuccess(p) ==
  LET carried == IF today = anchor THEN pnl ELSE 0
  IN  /\ carried + p <= MaxPnl
      /\ pnl' = carried + p
      /\ anchor' = today

\* Paper realises a result; a live dry run realises 0, or fails and records a
\* route failure that leaves the daily result alone.
ScanSettle ==
  /\ scan.pc = "trade"
  /\ \/ \E p \in IF StrategyMode(scan.pos) = "paper" THEN Pnls ELSE {0} : MarkSuccess(p)
     \/ StrategyMode(scan.pos) = "live" /\ UNCHANGED <<pnl, anchor>>
  /\ scan' = [scan EXCEPT !.pc = "route", !.pos = @ + 1]
  /\ UNCHANGED <<control, kill, armed, req, today, crashes, ghosts>>

ScanSleep ==
  /\ scan.pc = "route" /\ scan.pos = NRoutes + 1
  /\ scan' = FreshScan
  /\ UNCHANGED <<control, kill, armed, req, envVars, ghosts>>

\* An exception ends the cycle.  The handler writes an alert row: when that
\* fails too, the exception leaves the loop and the task is gone.
ScanFail ==
  /\ scan.pc \notin {"apply", "dead"}
  /\ scan' \in {FreshScan, [FreshScan EXCEPT !.pc = "dead"]}
  /\ UNCHANGED <<control, kill, armed, req, envVars, ghosts>>

ScanStep ==
  \/ ScanQuery \/ ScanApply \/ ScanWriteStop
  \/ \E funded \in BOOLEAN : ScanCheckDd(funded)
  \/ ScanBlocked \/ ScanTradable \/ ScanSettle \/ ScanSleep

-----------------------------------------------------------------------------
NewDay ==
  /\ today < MaxDay
  /\ today' = today + 1
  /\ UNCHANGED <<control, kill, armed, req, scan, pnl, anchor, crashes, ghosts>>

\* The process dies and is started again; only the row survives.
Crash ==
  /\ crashes < MaxCrashes
  /\ crashes' = crashes + 1
  /\ kill' = InitialKill /\ armed' = FALSE
  /\ req' = [h \in Requests |-> IdleRequest]
  /\ scan' = FreshScan
  /\ pnl' = 0 /\ anchor' = today
  /\ released' = FALSE /\ releases' = 0
  /\ UNCHANGED <<control, today, late>>

Next ==
  \/ \E h \in Requests : \/ \E op \in Ops : Accept(h, op)
                         \/ HandleRequest(h)
                         \/ FailRequest(h)
  \/ ScanStep
  \/ ScanFail
  \/ NewDay
  \/ Crash

\* The event loop keeps running the scan task; nothing is assumed of requests.
Spec == Init /\ [][Next]_vars
FairSpec == Spec /\ WF_vars(ScanStep)

-----------------------------------------------------------------------------
(***************************************************************************)
(* Properties.                                                             *)
(***************************************************************************)
\* A cycle that read a paused row, or whose drawdown check fired, starts no
\* trade, except through a resume handled while the cycle was running.
StoppedCycleTakesNoTrade ==
  scan.pc = "trade" /\ (scan.row.pause \/ scan.dd) => released

\* A committed pause is not immediate: the cycle that read the row earlier
\* lowers the flag again.  The exposure is bounded: at most one trade per
\* route begins under a committed pause before an operator releases it again.
LateTradesBounded == late <= NRoutes

\* The drawdown stop caps the daily result from below: the limit, plus what one
\* cycle can lose, plus one more such cycle for each resume of the process.  The
\* first success of each day restarts the result, so a process may lose as much
\* again every day; real days and several processes are in TradeLedger.
CycleLoss == NRoutes * MaxLoss
DailyResultBounded == -pnl < DdLimit + CycleLoss + releases * CycleLoss

\* A pause that stays in the row ends all trading for good, whatever requests,
\* failures and crashes happen meanwhile.
PauseEndsTrading == <>[](control.pause) => <>[](scan.pc # "trade")

\* A row that stays released reaches the flag again and again: no stale pause
\* survives in memory, as long as the scan task lives.
ReleaseReachesFlag == <>[](~control.pause) => []<>(~kill \/ scan.pc = "dead")

\* "daily drawdown": the stop looks at the result of the current day.
DailyStopUsesTodaysResult ==
  [][~scan.dd /\ scan'.dd /\ -pnl >= DdLimit => anchor = today]_vars

\* "mode=live allowed only with multi-guard arming": a live cycle trades only
\* in a process that was armed.
LiveTradesOnlyWhenArmed ==
  scan.pc = "trade" /\ StrategyMode(scan.pos) = "live" => armed
=============================================================================
