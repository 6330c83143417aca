----------------------------- MODULE HealthGate -----------------------------
(***************************************************************************)
(* What the health collector remembers and what the risk gate makes of it: *)
(* the heartbeat of the scan loop, the sliding windows of probe and alert  *)
(* results, the health loop that fills them, the scan cycle that trims     *)
(* them, reads them and trades, and the operator who pauses and resumes    *)
(* while a cycle is running.                                               *)
(*                                                                         *)
(* Time is a tick that ages everything at once.  Ages are relative and     *)
(* capped where the code stops telling them apart, so no clock is kept.    *)
(***************************************************************************)
EXTENDS Integers, Sequences

CONSTANTS
  Probes,          \* what the health loop samples: the RPC endpoints, the database
  Window,          \* age at which _trim_all drops a sample (five minutes)
  Skew,            \* heartbeat lag at which clock_skew blocks (ten seconds)
  AlertThreshold,  \* settings.alert_failure_stop_threshold
  MaxIncidents     \* bound on alerts that no trade causes

ASSUME GateAssumption ==
  /\ Window \in Nat \ {0} /\ Skew \in Nat \ {0}
  /\ AlertThreshold \in Nat \ {0}
  /\ MaxIncidents \in Nat

VARIABLES
  webhook,    \* AlertService.webhook_url is set (a setting)
  row,        \* runtime_controls.global_pause
  kill,       \* GlobalRiskManager.global_kill_switch
  pending,    \* requests that committed the row and have yet to set the flag
  scan,       \* the scan cycle: where it is, the pause it read
  heartbeat,  \* age of HealthCollector._heartbeat_ts
  newest,     \* per probe: age of the newest result if it was good, else None
  alerts,     \* ages of the failures in _alert_results, oldest first
  incidents,  \* alerts sent that no trade caused
  \* observation only:
  stopAge,    \* since the pause was committed or a late release undid it
  trades      \* ages of the trades of the last Window without a webhook

control == <<webhook, row, kill, pending>>
windows == <<newest, alerts>>
vars == <<control, scan, heartbeat, windows, incidents, stopAge, trades>>

OldSample == Window + Skew              \* no age is told apart from an older one
OldAlert == Window + 1
None == -1
Requests == {"pause", "resume"}
ScanPcs == {"start", "read", "apply", "drawdown", "quote", "judge", "trade",
            "record", "alert", "dead"}

TypeOK ==
  /\ webhook \in BOOLEAN
  /\ row \in BOOLEAN /\ kill \in BOOLEAN /\ pending \in SUBSET Requests
  /\ scan \in [pc : ScanPcs, row : BOOLEAN]
  /\ heartbeat \in 0..Skew
  /\ newest \in [Probes -> 0..OldSample \cup {None}]
  /\ alerts \in Seq(0..OldAlert)
  /\ incidents \in Nat
  /\ stopAge \in 0..Skew
  /\ trades \in Seq(0..Window)

\* A process has just started: memory is empty, the row is what it was.
Init ==
  /\ webhook \in BOOLEAN
  /\ row \in BOOLEAN /\ kill = FALSE /\ pending = {}
  /\ scan = [pc |-> "start", row |-> FALSE]
  /\ heartbeat = 0
  /\ newest = [p \in Probes |-> None]
  /\ alerts = <<>> /\ incidents = 0
  /\ stopAge = Skew /\ trades = <<>>

-----------------------------------------------------------------------------
(***************************************************************************)
(* The windows.  Every record_* trims them all.  A window's newest result  *)
(* goes last, so the window is empty when that one is dropped.             *)
(***************************************************************************)
Fresh(age) == IF age > Window THEN None ELSE age

\* popleft while the oldest is past the limit.
Expire(ages, limit) ==
  LET gone == CHOOSE n \in 0..Len(ages) :
                /\ \A i \in 1..n : ages[i] > limit
                /\ n < Len(ages) => ages[n + 1] <= limit
  IN  SubSeq(ages, gone + 1, Len(ages))

\* Mutant: the cut is never reached.
TrimAges_Keeps(ages) == Expire(ages, OldAlert)

TrimAges(ages) == Expire(ages, Window)

TrimAll ==
  /\ newest' = [p \in Probes |-> Fresh(newest[p])]
  /\ alerts' = TrimAges(alerts)

\* Mutant: without a webhook an alert that is not sent is not recorded.
SendAlert_OnlyFailures ==
  /\ newest' = [p \in Probes |-> Fresh(newest[p])]
  /\ alerts' = TrimAges(alerts)

\* AlertService.send and record_alert_result: without a webhook nothing is sent,
\* and what is not sent counts as failed.
SendAlert ==
  /\ newest' = [p \in Probes |-> Fresh(newest[p])]
  /\ \/ webhook /\ alerts' = TrimAges(alerts)
     \/ alerts' = Append(TrimAges(alerts), 0)

SendIncident ==
  /\ incidents < MaxIncidents
  /\ incidents' = incidents + 1
  /\ SendAlert

\* Mutant: a failed probe goes by the last good one.
HealthSample_KeepsLast(p, ok) ==
  /\ newest' = [newest EXCEPT ![p] = IF ok THEN 0 ELSE @ + 1]
  /\ UNCHANGED <<control, scan, heartbeat, alerts, incidents, stopAge, trades>>

\* The health loop records the outcome of a probe.
HealthSample(p, ok) ==
  /\ newest' = [q \in Probes |-> IF q = p THEN (IF ok THEN 0 ELSE None)
                                 ELSE Fresh(newest[q])]
  /\ alerts' = TrimAges(alerts)
  /\ UNCHANGED <<control, scan, heartbeat, incidents, stopAge, trades>>

\* The gas price it records next, or the zero that stands for a failed probe,
\* trims the windows too.
GasSample ==
  /\ TrimAll
  /\ UNCHANGED <<control, scan, heartbeat, incidents, stopAge, trades>>

-----------------------------------------------------------------------------
(***************************************************************************)
(* pause and resume: the row first, the flag some awaits later.            *)
(***************************************************************************)
\* The moment from which a pause should hold.
StopAgeAfter(paused) == IF ~row /\ paused THEN 0 ELSE stopAge

CommitRow(op) ==
  /\ op \notin pending
  /\ pending' = pending \cup {op}
  /\ row' = (op = "pause")
  /\ stopAge' = StopAgeAfter(op = "pause")
  /\ UNCHANGED <<webhook, kill, scan, heartbeat, windows, incidents, trades>>

SetFlag(op) ==
  /\ op \in pending
  /\ pending' = pending \ {op}
  /\ kill' = (op = "pause")
  /\ stopAge' = IF op = "resume" /\ row THEN 0 ELSE stopAge
  /\ UNCHANGED <<webhook, row, scan, heartbeat, windows, incidents, trades>>

\* The event row could not be written: the flag is never set.
AbandonFlag(op) ==
  /\ op \in pending
  /\ pending' = pending \ {op}
  /\ UNCHANGED <<webhook, row, kill, scan, heartbeat, windows, incidents, stopAge, trades>>

-----------------------------------------------------------------------------
(***************************************************************************)
(* The scan loop.                                                          *)
(***************************************************************************)
Goto(pc) == scan' = [pc |-> pc, row |-> FALSE]     \* what was read is of no more use

ScanStart ==
  /\ scan.pc = "start"
  /\ heartbeat' = 0
  /\ Goto("read")
  /\ UNCHANGED <<control, windows, incidents, stopAge, trades>>

ScanRead ==
  /\ scan.pc = "read"
  /\ scan' = [pc |-> "apply", row |-> row]
  /\ UNCHANGED <<control, heartbeat, windows, incidents, stopAge, trades>>

ScanApply ==
  /\ scan.pc = "apply"
  /\ kill' = scan.row
  /\ scan' = [pc |-> "drawdown", row |-> scan.row]
  /\ UNCHANGED <<webhook, row, pending, heartbeat, windows, incidents, stopAge, trades>>

ScanNoDrawdown ==
  /\ scan.pc = "drawdown"
  /\ Goto("quote")
  /\ UNCHANGED <<control, heartbeat, windows, incidents, stopAge, trades>>

\* The daily stop raises the flag and the row (unless the cycle read it as
\* paused: nothing to update then) and sends an alert.
ScanDrawdown ==
  /\ scan.pc = "drawdown"
  /\ kill' = TRUE /\ row' = (row \/ ~scan.row)
  /\ stopAge' = StopAgeAfter(row')
  /\ SendIncident
  /\ Goto("quote")
  /\ UNCHANGED <<webhook, pending, heartbeat, trades>>

\* Mutant: recording a quote probe forgets nothing.
ScanQuote_NoTrim ==
  /\ scan.pc = "quote"
  /\ Goto("judge")
  /\ UNCHANGED <<control, heartbeat, windows, incidents, stopAge, trades>>

\* A quote, failed or not, is recorded for both venues.
ScanQuote ==
  /\ scan.pc = "quote"
  /\ TrimAll
  /\ Goto("judge")
  /\ UNCHANGED <<control, heartbeat, incidents, stopAge, trades>>

\* Mutant: no clock_skew guard.
Admits_NoClockGuard ==
  ~kill /\ (\A p \in Probes : newest[p] # None) /\ Len(alerts) < AlertThreshold

\* to_risk_snapshot and evaluate, with no await between them.  The snapshot's
\* own age is measured from set_quality_status just before: it is never stale.
Admits ==
  /\ ~kill
  /\ \A p \in Probes : newest[p] # None            \* known and reachable
  /\ heartbeat < Skew                              \* clock_skew_ok
  /\ Len(alerts) < AlertThreshold                  \* alert_health

ScanEligible ==
  /\ scan.pc = "judge" /\ Admits
  /\ Goto("trade")
  /\ UNCHANGED <<control, heartbeat, windows, incidents, stopAge, trades>>

\* Blocked by one of these guards or by any other (an error rate among them).
\* The next route, or sleep.
ScanBlocked ==
  /\ scan.pc = "judge"
  /\ \E next \in {"quote", "start"} : Goto(next)
  /\ UNCHANGED <<control, heartbeat, windows, incidents, stopAge, trades>>

ScanTrade ==
  /\ scan.pc = "trade"
  /\ trades' = IF webhook THEN trades ELSE Append(trades, 0)
  /\ Goto("record")
  /\ UNCHANGED <<control, heartbeat, windows, incidents, stopAge>>

\* record_execution_result trims as well.
ScanRecord ==
  /\ scan.pc = "record"
  /\ TrimAll
  /\ Goto("alert")
  /\ UNCHANGED <<control, heartbeat, incidents, stopAge, trades>>

ScanAlert ==
  /\ scan.pc = "alert"
  /\ SendAlert
  /\ \E next \in {"quote", "start"} : Goto(next)
  /\ UNCHANGED <<control, heartbeat, incidents, stopAge, trades>>

\* An exception ends the cycle with an alert of its own; when that cannot be
\* written either, the task is gone.
ScanFail ==
  /\ scan.pc \notin {"start", "apply", "dead"}
  /\ SendIncident
  /\ Goto("start")
  /\ UNCHANGED <<control, heartbeat, stopAge, trades>>

ScanDies ==
  /\ scan.pc \notin {"start", "apply", "dead"}
  /\ Goto("dead")
  /\ UNCHANGED <<control, heartbeat, windows, incidents, stopAge, trades>>

ScanStep ==
  \/ ScanStart \/ ScanRead \/ ScanApply \/ ScanNoDrawdown \/ ScanDrawdown
  \/ ScanQuote \/ ScanEligible \/ ScanBlocked \/ ScanTrade \/ ScanRecord \/ ScanAlert

\* BotRunner.start announces itself once the tasks run.
StartupAlert ==
  /\ incidents = 0
  /\ SendIncident
  /\ UNCHANGED <<control, scan, heartbeat, stopAge, trades>>

-----------------------------------------------------------------------------
Older(age, cap) == IF age < cap THEN age + 1 ELSE cap

Tick ==
  /\ heartbeat' = Older(heartbeat, Skew)
  /\ newest' = [p \in Probes |-> IF newest[p] = None THEN None
                                 ELSE Older(newest[p], OldSample)]
  /\ alerts' = [i \in DOMAIN alerts |-> Older(alerts[i], OldAlert)]
  /\ stopAge' = Older(stopAge, Skew)
  /\ LET lasting == Expire(trades, Window - 1)
     IN  trades' = [i \in DOMAIN lasting |-> lasting[i] + 1]
  /\ UNCHANGED <<control, scan, incidents>>

Next ==
  \/ \E p \in Probes, ok \in BOOLEAN : HealthSample(p, ok)
  \/ GasSample
  \/ \E op \in Requests : CommitRow(op) \/ SetFlag(op) \/ AbandonFlag(op)
  \/ ScanStep
  \/ ScanFail \/ ScanDies
  \/ StartupAlert
  \/ Tick

\* Time passes and the event loop keeps running the scan task; the health loop
\* may hang in a probe, and operators do as they like.
Spec == Init /\ [][Next]_vars
FairSpec == Spec /\ WF_vars(Tick) /\ WF_vars(ScanStep)

-----------------------------------------------------------------------------
(***************************************************************************)
(* Properties.                                                             *)
(***************************************************************************)
Decides == scan.pc = "judge" /\ scan'.pc = "trade"

\* No decision to trade is taken under a pause that was committed Skew or more
\* ago, unless a release handled late lowered the flag since: however slow the
\* quotes of a cycle are, the heartbeat guard ends it.
PauseLagBounded == [][Decides /\ row => stopAge < Skew]_vars

\* A decision to trade rests on a last RPC probe and a last database probe that
\* succeeded less than Window + Skew ago: a health loop that hangs or was never
\* started does not leave its last good samples in force.
EvidenceBounded ==
  [][Decides => \A p \in Probes : newest[p] \in 0..Window + Skew - 1]_vars

\* Without a webhook every alert fails, so every trade and every failed cycle
\* uses up the alert budget: no more than AlertThreshold trades in any Window.
TradesThrottledByAlerts == ~webhook => Len(trades) <= AlertThreshold

\* The throttle is not a lock-out: the failures that block trading age out, for
\* the windows are trimmed by every quote.
AlertBlockEnds == []<>(Len(alerts) < AlertThreshold \/ scan.pc = "dead")
=============================================================================
