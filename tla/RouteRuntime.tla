---------------------------- MODULE RouteRuntime ----------------------------
(***************************************************************************)
(* The quarantine of a route: the risk manager keeps, in memory, whether a *)
(* route is paused, its cooldown and its failure and loss counters; the    *)
(* table route_runtime_states keeps a copy that a restart reads back.  The *)
(* scan loop and the control API handlers change the memory and then save  *)
(* the copy, on one event loop but each in its own database session: a     *)
(* save captures the memory, loads the row, and commits the columns whose  *)
(* value differs from the loaded one.                                      *)
(*                                                                         *)
(* An action is the code between two awaits.                               *)
(***************************************************************************)
EXTENDS Integers

CONSTANTS
  Routes,
  Requests,       \* slots for control requests handled concurrently
  Scanner,        \* the scan loop
  Ops,            \* the control operations the operators use
  MaxFails,       \* settings.live_max_consecutive_failures_per_route
  MaxLosses,      \* settings.live_max_consecutive_losses_per_route
  Cooldown,       \* settings.route_fatal_failure_cooldown_seconds, in ticks
  HydrationWins,  \* the restored rows arrive before the first cycle's
  FailBound,      \* bound on the failure counter
  MaxNow,         \* bound on the clock
  MaxCrashes      \* bound on process crashes

AllOps == {"disable", "enable", "clear"}
Actors == Requests \cup {Scanner}

ASSUME ConstantsAssumption ==
  /\ Routes # {} /\ Scanner \notin Requests
  /\ Ops \subseteq AllOps
  /\ MaxFails \in Nat \ {0} /\ MaxLosses \in Nat \ {0} /\ Cooldown \in Nat
  /\ HydrationWins \in BOOLEAN
  /\ FailBound \in Nat /\ MaxNow \in Nat /\ MaxCrashes \in Nat

VARIABLES
  enabled,  \* routes.enabled
  row,      \* route_runtime_states, by route
  mem,      \* GlobalRiskManager: route_paused, cooldown_until, route_stats
  save,     \* the save an actor is doing
  dirty,    \* the routes an actor changed in memory and has yet to save
  req,      \* the control requests in progress
  scan,     \* the scan cycle in progress
  boot,     \* the startup in progress, with the rows it has read
  now,      \* the clock; a cooldown ends at a time
  crashes,
  \* observation only:
  torn,     \* why the row may differ from the memory: overlapping or abandoned saves
  truth     \* what the memory would be had the process never crashed

database == <<enabled, row>>
control == <<req, scan, boot>>
vars == <<database, mem, save, dirty, control, now, crashes, torn, truth>>

States == [paused : BOOLEAN, until : Nat, fails : Nat, losses : Nat]
Saves == [pc : {"idle", "load", "commit"}, route : Routes, new : States, loaded : States]
RequestStates == [op : AllOps, pc : {"idle", "column", "flag", "save"}, target : SUBSET Routes]
Cycles == [pc : {"list", "route", "mark", "trade"}, todo : SUBSET Routes, route : Routes]

TypeOK ==
  /\ enabled \in [Routes -> BOOLEAN]
  /\ row \in [Routes -> States] /\ mem \in [Routes -> States] /\ truth \in [Routes -> States]
  /\ save \in [Actors -> Saves] /\ dirty \in [Actors -> SUBSET Routes]
  /\ req \in [Requests -> RequestStates] /\ scan \in Cycles
  /\ boot \in [pc : {"query", "apply", "up"}, rows : [Routes -> States]]
  /\ now \in Nat /\ crashes \in Nat
  /\ torn \in [Routes -> SUBSET {"overlap", "abandoned"}]

-----------------------------------------------------------------------------
Fresh == [paused |-> FALSE, until |-> 0, fails |-> 0, losses |-> 0]
AllFresh == [r \in Routes |-> Fresh]
SomeRoute == CHOOSE r \in Routes : TRUE
NoSave == [pc |-> "idle", route |-> SomeRoute, new |-> Fresh, loaded |-> Fresh]
NoRequest == [op |-> "clear", pc |-> "idle", target |-> {}]
FreshScan == [pc |-> "list", todo |-> {}, route |-> SomeRoute]
Booting == [pc |-> "query", rows |-> AllFresh]

Init ==
  /\ enabled = [r \in Routes |-> TRUE]
  /\ row = AllFresh /\ mem = AllFresh /\ truth = AllFresh
  /\ save = [a \in Actors |-> NoSave] /\ dirty = [a \in Actors |-> {}]
  /\ req = [h \in Requests |-> NoRequest] /\ scan = FreshScan /\ boot = Booting
  /\ now = 0 /\ crashes = 0
  /\ torn = [r \in Routes |-> {}]

-----------------------------------------------------------------------------
(***************************************************************************)
(* What the risk manager does to the state of one route.                   *)
(***************************************************************************)
\* Mutant: a gain takes one loss back instead of starting over.
Changed_GainCountsDown(what, s) ==
  CASE what = "disable" -> [s EXCEPT !.paused = TRUE]
    [] what = "enable" -> [s EXCEPT !.paused = FALSE]
    [] what = "clear" -> [s EXCEPT !.until = 0, !.fails = 0]
    [] what = "failure" -> [s EXCEPT !.fails = @ + 1, !.until = now + Cooldown, !.paused = TRUE]
    [] what = "loss" -> [s EXCEPT !.fails = 0, !.losses = @ + 1]
    [] what = "gain" -> [s EXCEPT !.fails = 0, !.losses = @ - 1]

Changed(what, s) ==
  CASE what = "disable" -> [s EXCEPT !.paused = TRUE]
    [] what = "enable" -> [s EXCEPT !.paused = FALSE]
    \* clear_cooldown leaves the pause and the losses alone.
    [] what = "clear" -> [s EXCEPT !.until = 0, !.fails = 0]
    \* Every category the scan loop records is fatal: the route is paused too.
    [] what = "failure" -> [s EXCEPT !.fails = @ + 1, !.until = now + Cooldown, !.paused = TRUE]
    [] what = "loss" -> [s EXCEPT !.fails = 0, !.losses = @ + 1]
    [] what = "gain" -> [s EXCEPT !.fails = 0, !.losses = 0]

\* Mutant: the losses are not read back.
Restored_ForgetsLosses(s) == [s EXCEPT !.until = IF @ > now THEN @ ELSE 0, !.losses = 0]

\* Mutant: the comparison is turned around.
Restored_DropsRunningCooldown(s) == [s EXCEPT !.until = IF @ > now THEN 0 ELSE @]

\* hydrate_route_state drops a cooldown that is over.
Restored(s) == [s EXCEPT !.until = IF @ > now THEN @ ELSE 0]

\* The part of evaluate that looks at this state and lets the route through.
Open(s) == ~s.paused /\ s.fails < MaxFails /\ s.losses < MaxLosses /\ now >= s.until

-----------------------------------------------------------------------------
(***************************************************************************)
(* Changing the memory and saving it.                                      *)
(***************************************************************************)
Up == boot.pc = "up"
Busy(r) == {a \in Actors : r \in dirty[a]}
Quiet(r) == Busy(r) = {}

\* An actor changes some routes in memory and owes their saves.
Change(a, touched, what) ==
  /\ mem' = [r \in Routes |-> IF r \in touched THEN Changed(what, mem[r]) ELSE mem[r]]
  /\ truth' = [r \in Routes |-> IF r \in touched THEN Changed(what, truth[r]) ELSE truth[r]]
  /\ dirty' = [dirty EXCEPT ![a] = touched]
  /\ torn' = [r \in Routes |-> IF r \notin touched THEN torn[r]
                               ELSE IF Quiet(r) THEN {} ELSE torn[r] \cup {"overlap"}]

\* get_route_state at the beginning of a save.
Capturing(r, s) == [NoSave EXCEPT !.pc = "load", !.route = r, !.new = s]

\* Columns left unchanged by the assignments are not part of the UPDATE.
Flush(current, loaded, new) ==
  LET Column(c) == IF new[c] = loaded[c] THEN current[c] ELSE new[c]
  IN  [paused |-> Column("paused"), until |-> Column("until"),
       fails |-> Column("fails"), losses |-> Column("losses")]

SaveLoad(a) ==
  /\ save[a].pc = "load"
  /\ save' = [save EXCEPT ![a].loaded = row[save[a].route], ![a].pc = "commit"]
  /\ UNCHANGED <<database, mem, dirty, control, now, crashes, torn, truth>>

\* A request ends with the save of the last route it changed.
SaveCommit(a) ==
  /\ save[a].pc = "commit"
  /\ LET r == save[a].route IN
       /\ row' = [row EXCEPT ![r] = Flush(@, save[a].loaded, save[a].new)]
       /\ dirty' = [dirty EXCEPT ![a] = @ \ {r}]
  /\ save' = [save EXCEPT ![a] = NoSave]
  /\ req' = IF a \in Requests /\ dirty'[a] = {} THEN [req EXCEPT ![a] = NoRequest] ELSE req
  /\ UNCHANGED <<enabled, mem, scan, boot, now, crashes, torn, truth>>

\* An exception in the middle: what was changed in memory stays unsaved.
Abandon(a) ==
  /\ dirty' = [dirty EXCEPT ![a] = {}]
  /\ save' = [save EXCEPT ![a] = NoSave]
  /\ torn' = [r \in Routes |-> IF r \in dirty[a] THEN torn[r] \cup {"abandoned"} ELSE torn[r]]

-----------------------------------------------------------------------------
(***************************************************************************)
(* Control requests; they are served once the startup is over.             *)
(***************************************************************************)
At(h, pc) == req[h].pc = pc

AcceptSwitch(h, op, r) ==
  /\ Up /\ At(h, "idle") /\ op \in {"disable", "enable"}
  /\ req' = [req EXCEPT ![h] = [op |-> op, pc |-> "column", target |-> {r}]]
  /\ UNCHANGED <<database, mem, save, dirty, scan, boot, now, crashes, torn, truth>>

\* clear-cooldown, for one route or for all of them, clears the memory at once.
AcceptClear(h, touched) ==
  /\ Up /\ At(h, "idle")
  /\ Change(h, touched, "clear")
  /\ req' = [req EXCEPT ![h] = [op |-> "clear", pc |-> "save", target |-> touched]]
  /\ UNCHANGED <<database, save, scan, boot, now, crashes>>

WriteColumn(h) ==
  /\ At(h, "column")
  /\ enabled' = [r \in Routes |-> IF r \in req[h].target THEN req[h].op = "enable"
                                                         ELSE enabled[r]]
  /\ req' = [req EXCEPT ![h].pc = "flag"]
  /\ UNCHANGED <<row, mem, save, dirty, scan, boot, now, crashes, torn, truth>>

\* Mutant: the state is captured before the flag changes.
SetFlag_SavesFirst(h) ==
  /\ At(h, "flag")
  /\ Change(h, req[h].target, req[h].op)
  /\ \E r \in req[h].target : save' = [save EXCEPT ![h] = Capturing(r, mem[r])]
  /\ req' = [req EXCEPT ![h].pc = "save"]
  /\ UNCHANGED <<database, scan, boot, now, crashes>>

\* After the audit row and the kill_switch_events row are committed.
SetFlag(h) ==
  /\ At(h, "flag")
  /\ Change(h, req[h].target, req[h].op)
  /\ \E r \in req[h].target : save' = [save EXCEPT ![h] = Capturing(r, mem'[r])]
  /\ req' = [req EXCEPT ![h].pc = "save"]
  /\ UNCHANGED <<database, scan, boot, now, crashes>>

\* clear-cooldown goes on to the save of a route, after its audit row.
BeginSave(h) ==
  /\ At(h, "save") /\ save[h].pc = "idle"
  /\ \E r \in dirty[h] : save' = [save EXCEPT ![h] = Capturing(r, mem[r])]
  /\ UNCHANGED <<database, mem, dirty, control, now, crashes, torn, truth>>

FailRequest(h) ==
  /\ ~At(h, "idle")
  /\ Abandon(h)
  /\ req' = [req EXCEPT ![h] = NoRequest]
  /\ UNCHANGED <<database, mem, scan, boot, now, crashes, truth>>

-----------------------------------------------------------------------------
(***************************************************************************)
(* The scan cycle; a route it has not finished saving holds it up.         *)
(***************************************************************************)
ScanFree(pc) == scan.pc = pc /\ save[Scanner].pc = "idle"

ScanList ==
  /\ ScanFree("list") /\ (HydrationWins => Up)
  /\ scan' = [scan EXCEPT !.pc = "route", !.todo = {r \in Routes : enabled[r]}]
  /\ UNCHANGED <<database, mem, save, dirty, req, boot, now, crashes, torn, truth>>

\* Paused, or stopped by one of the guards this module leaves open.
ScanBlocked(r) ==
  /\ ScanFree("route") /\ r \in scan.todo
  /\ scan' = [scan EXCEPT !.todo = @ \ {r}]
  /\ UNCHANGED <<database, mem, save, dirty, req, boot, now, crashes, torn, truth>>

\* mark_failure or mark_success, with the beginning of its save.
Record(r, outcome) ==
  /\ outcome = "failure" => mem[r].fails < FailBound
  /\ Change(Scanner, {r}, outcome)
  /\ save' = [save EXCEPT ![Scanner] = Capturing(r, mem'[r])]
  /\ UNCHANGED <<database, req, boot, now, crashes>>

\* The quote is unavailable or does not match: evaluate gets there only when
\* the route is not paused, but before it looks at the counters.
ScanBadQuote(r) ==
  /\ ScanFree("route") /\ r \in scan.todo
  /\ ~mem[r].paused /\ mem[r].fails < FailBound
  /\ scan' = [pc |-> "mark", todo |-> scan.todo \ {r}, route |-> r]
  /\ UNCHANGED <<database, mem, save, dirty, req, boot, now, crashes, torn, truth>>

\* The failure is counted after the awaits that record the opportunity, whatever
\* an operator did to the route meanwhile.
ScanMark ==
  /\ ScanFree("mark")
  /\ Record(scan.route, "failure")
  /\ scan' = [scan EXCEPT !.pc = "route"]

ScanEligible(r) ==
  /\ ScanFree("route") /\ r \in scan.todo
  /\ Open(mem[r])
  /\ scan' = [pc |-> "trade", todo |-> scan.todo \ {r}, route |-> r]
  /\ UNCHANGED <<database, mem, save, dirty, req, boot, now, crashes, torn, truth>>

\* A paper trade wins or loses, a live dry run may find the wrong chain.
ScanSettle ==
  /\ ScanFree("trade")
  /\ \E outcome \in {"failure", "loss", "gain"} : Record(scan.route, outcome)
  /\ scan' = [scan EXCEPT !.pc = "route"]

ScanSleep ==
  /\ ScanFree("route") /\ scan.todo = {}
  /\ scan' = FreshScan
  /\ UNCHANGED <<database, mem, save, dirty, req, boot, now, crashes, torn, truth>>

ScanFail ==
  /\ Abandon(Scanner)
  /\ scan' = FreshScan
  /\ UNCHANGED <<database, mem, req, boot, now, crashes, truth>>

ScanStep ==
  \/ ScanList \/ ScanMark \/ ScanSettle \/ ScanSleep \/ ScanFail
  \/ \E r \in Routes : ScanBlocked(r) \/ ScanBadQuote(r) \/ ScanEligible(r)

-----------------------------------------------------------------------------
(***************************************************************************)
(* Startup, the clock and crashes.  BotRunner.start creates the scan task, *)
(* reads the rows, and puts them into the memory when they arrive.         *)
(***************************************************************************)
BootQuery ==
  /\ boot.pc = "query"
  /\ boot' = [pc |-> "apply", rows |-> row]
  /\ UNCHANGED <<database, mem, save, dirty, req, scan, now, crashes, torn, truth>>

BootApply ==
  /\ boot.pc = "apply"
  /\ mem' = [r \in Routes |-> Restored(boot.rows[r])]
  /\ boot' = [Booting EXCEPT !.pc = "up"]
  /\ UNCHANGED <<database, save, dirty, req, scan, now, crashes, torn, truth>>

Tick ==
  /\ now < MaxNow
  /\ now' = now + 1
  /\ UNCHANGED <<database, mem, save, dirty, control, crashes, torn, truth>>

\* The process dies.  A change whose save was not over, or went wrong, is gone:
\* the truth about that route becomes what the row says.
Crash ==
  /\ crashes < MaxCrashes
  /\ crashes' = crashes + 1
  /\ truth' = [r \in Routes |-> IF Quiet(r) /\ torn[r] = {} THEN truth[r] ELSE row[r]]
  /\ mem' = AllFresh
  /\ save' = [a \in Actors |-> NoSave] /\ dirty' = [a \in Actors |-> {}]
  /\ req' = [h \in Requests |-> NoRequest] /\ scan' = FreshScan /\ boot' = Booting
  /\ torn' = [r \in Routes |-> {}]
  /\ UNCHANGED <<database, now>>

Next ==
  \/ \E h \in Requests :
       \/ \E op \in Ops, r \in Routes : AcceptSwitch(h, op, r)
       \/ "clear" \in Ops /\ \E touched \in {{r} : r \in Routes} \cup {Routes} : AcceptClear(h, touched)
       \/ WriteColumn(h) \/ SetFlag(h) \/ BeginSave(h) \/ FailRequest(h)
  \/ \E a \in Actors : SaveLoad(a) \/ SaveCommit(a)
  \/ ScanStep
  \/ BootQuery \/ BootApply \/ Tick \/ Crash

Spec == Init /\ [][Next]_vars

-----------------------------------------------------------------------------
(***************************************************************************)
(* Properties.                                                             *)
(***************************************************************************)
\* The same state at a time, when a cooldown that is over is no cooldown.
Same(s, t, time) ==
  /\ s.paused = t.paused /\ s.fails = t.fails /\ s.losses = t.losses
  /\ s.until = t.until \/ (s.until <= time /\ t.until <= time)

\* A route begins a trade only when its quarantine is over: whatever crashes
\* happened since, a pause is lifted by enable-route alone, the failure counter
\* at its limit by clear-cooldown alone, and the loss counter at its limit by
\* nothing; only a change whose save a crash cut short, or that another save or
\* an exception spoiled, may be forgotten.
QuarantineHolds ==
  [][\A r \in Routes : ScanEligible(r) => Open(truth[r])]_vars

\* The reasons for which evaluate turns away a route with the state s.
Why(s, time) ==
  {k \in {"pause", "cooldown", "failures", "losses"} :
     \/ k = "pause" /\ s.paused
     \/ k = "cooldown" /\ s.until > time
     \/ k = "failures" /\ s.fails >= MaxFails
     \/ k = "losses" /\ s.losses >= MaxLosses}

\* Where the state of a route is: in memory while the process is up, in its row else.
Cell == IF Up THEN mem ELSE row
HeldFor == [r \in Routes |-> Why(Cell[r], now)]
AtRisk == {r \in Routes : ~Quiet(r) \/ torn[r] # {}}
Trading == IF scan.pc = "trade" THEN {scan.route} ELSE {}

Store == INSTANCE QuarantineStore WITH held <- HeldFor, atRisk <- AtRisk, trading <- Trading

\* Memory, row, savers and startup together are one durable store of quarantines: no
\* reason to hold a route gets lost but by the operation that lifts it, by time, or by
\* a crash while the route's last change was not yet saved, or not saved cleanly.
KeepsQuarantine == Store!Spec

\* Once the last save of a route is over, the row holds what the memory holds,
\* unless saves of that route overlapped or one was abandoned: of two overlapping
\* saves the later commit may put the older state back.  The saved rows are assumed
\* to be restored before the first cycle (HydrationWins).
SavedRowMatchesMemory ==
  Up => \A r \in Routes : Quiet(r) /\ torn[r] = {} => Same(row[r], mem[r], now)
=============================================================================
