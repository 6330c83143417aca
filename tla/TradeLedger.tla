----------------------------- MODULE TradeLedger -----------------------------
(***************************************************************************)
(* What the bot leaves on record of its trades.  For a tradable route the  *)
(* scan loop commits, one after the other: an attempt as "submitted", the  *)
(* route's runtime state, the attempt's outcome, and an execution row with *)
(* the realised result.  The risk manager counts that result in memory as  *)
(* soon as the trade is over, and stops a cycle on it; the dashboard sums  *)
(* the execution rows of the day.  A crash or an exception may come between*)
(* any two commits, and so may midnight.                                   *)
(*                                                                         *)
(* There is one scan loop, hence one trade at a time: the last attempt.    *)
(* KillSwitch has the handlers that pause and resume beside it; here they  *)
(* appear as Resume.                                                       *)
(***************************************************************************)
EXTENDS Integers, Sequences, FiniteSets, Functions

CONSTANTS
  NRoutes,     \* routes a cycle visits
  Pnls,        \* what a paper execution may realise
  MaxLoss,     \* the largest loss of one execution
  MaxGain,     \* the largest gain of one execution
  DdLimit,     \* loss at which the daily drawdown stop fires
  MaxAttempts, \* bound on the attempts of a behaviour
  MaxDay,      \* bound on the calendar
  MaxResumes,  \* bound on the operators' resumes
  MaxFailures, \* bound on exceptions during a trade
  MaxCrashes   \* bound on process crashes

ASSUME ConstantsAssumption ==
  /\ NRoutes \in Nat \ {0}
  /\ MaxLoss \in Nat /\ MaxGain \in Nat
  /\ Pnls \subseteq -MaxLoss..MaxGain
  /\ DdLimit \in Nat \ {0}
  /\ \A bound \in {MaxAttempts, MaxDay, MaxResumes, MaxFailures, MaxCrashes} : bound \in Nat

VARIABLES
  attempts,    \* trade_attempts, oldest first: their status
  executions,  \* executions, oldest first
  halted,      \* the global stop is in force
  scan,        \* the cycle in progress: where it is, and the trade's local variables
  pnl,         \* GlobalRiskManager.daily_realized_pnl
  anchor,      \* GlobalRiskManager.day_anchor
  today,       \* the calendar
  crashes, failures, resumes,
  \* observation only:
  saved,       \* attempts after which the route's runtime state was committed
  unfiled      \* results counted in memory whose row came on another day or never

book == <<attempts, executions>>
daily == <<pnl, anchor>>
vars == <<book, halted, scan, daily, today, crashes, failures, resumes, saved, unfiled>>

Outcomes == {"success", "dry_run", "dry_run_blocked"}
Statuses == Outcomes \cup {"submitted"}
\* The process is not a column: a process writes the rows created since its start.
Executions == [attempt : Nat, status : Outcomes, realized : Int, day : Nat, process : Nat]
Pcs == {"check", "stop", "route", "execute", "save", "outcome", "execution", "alert"}
Cycles == [pc : Pcs, pos : 1..NRoutes + 1, status : Statuses, realized : Int]

TypeOK ==
  /\ attempts \in Seq(Statuses) /\ executions \in Seq(Executions)
  /\ halted \in BOOLEAN /\ scan \in Cycles
  /\ pnl \in Int /\ anchor \in Nat /\ today \in Nat
  /\ crashes \in Nat /\ failures \in Nat /\ resumes \in Nat
  /\ saved \subseteq 1..Len(attempts) /\ unfiled \in Nat

FreshScan == [pc |-> "check", pos |-> 1, status |-> "submitted", realized |-> 0]

Init ==
  /\ attempts = <<>> /\ executions = <<>>
  /\ halted = FALSE /\ scan = FreshScan
  /\ pnl = 0 /\ anchor = 0 /\ today = 0
  /\ crashes = 0 /\ failures = 0 /\ resumes = 0
  /\ saved = {} /\ unfiled = 0

At(pc) == scan.pc = pc
Last == Len(attempts)                       \* the attempt of the trade in progress

-----------------------------------------------------------------------------
(***************************************************************************)
(* The cycle                                                               *)
(***************************************************************************)
\* Mutant: the loss must exceed the limit.
ScanCheckDd_OffByOne(funded) ==
  /\ At("check")
  /\ scan' = [scan EXCEPT !.pc = IF ~funded \/ -pnl > DdLimit THEN "stop" ELSE "route", !.pos = 1]
  /\ UNCHANGED <<book, halted, daily, today, crashes, failures, resumes, saved, unfiled>>

\* No positive balance, or a loss that reaches the limit.
ScanCheckDd(funded) ==
  /\ At("check")
  /\ scan' = [scan EXCEPT !.pc = IF ~funded \/ -pnl >= DdLimit THEN "stop" ELSE "route", !.pos = 1]
  /\ UNCHANGED <<book, halted, daily, today, crashes, failures, resumes, saved, unfiled>>

\* The row is what counts: nothing trades between the flag and its commit.
ScanWriteStop ==
  /\ At("stop")
  /\ halted' = TRUE
  /\ scan' = [scan EXCEPT !.pc = "route"]
  /\ UNCHANGED <<book, daily, today, crashes, failures, resumes, saved, unfiled>>

\* Blocked by one of the guards of evaluate, or eligible in stopped mode.
ScanSkip ==
  /\ At("route") /\ scan.pos <= NRoutes
  /\ scan' = [scan EXCEPT !.pos = @ + 1]
  /\ UNCHANGED <<book, halted, daily, today, crashes, failures, resumes, saved, unfiled>>

ScanAttempt ==
  /\ At("route") /\ scan.pos <= NRoutes
  /\ ~halted
  /\ Len(attempts) < MaxAttempts
  /\ attempts' = Append(attempts, "submitted")
  /\ scan' = [scan EXCEPT !.pc = "execute"]
  /\ UNCHANGED <<executions, halted, daily, today, crashes, failures, resumes, saved, unfiled>>

\* Mutant: the daily result is not restarted.
MarkSuccess_NoReset(p) == pnl' = pnl + p /\ anchor' = today

\* The first success of a new day restarts the daily result.
MarkSuccess(p) ==
  /\ pnl' = (IF today = anchor THEN pnl ELSE 0) + p
  /\ anchor' = today

\* Mutant: a blocked dry run keeps the status the trade began with.
ScanExecute_StatusUnset ==
  /\ At("execute")
  /\ \/ \E p \in Pnls :
          /\ MarkSuccess(p)
          /\ scan' = [scan EXCEPT !.pc = "save", !.status = "success", !.realized = p]
     \/ /\ MarkSuccess(0)
        /\ scan' = [scan EXCEPT !.pc = "save", !.status = "dry_run", !.realized = 0]
     \/ /\ scan' = [scan EXCEPT !.pc = "save", !.status = "submitted", !.realized = 0]
        /\ UNCHANGED daily
  /\ UNCHANGED <<book, halted, today, crashes, failures, resumes, saved, unfiled>>

\* Paper realises a result, a live dry run passes or is blocked.  The risk
\* manager is told before anything is written.
ScanExecute ==
  /\ At("execute")
  /\ \/ \E p \in Pnls :
          /\ MarkSuccess(p)
          /\ scan' = [scan EXCEPT !.pc = "save", !.status = "success", !.realized = p]
     \/ /\ MarkSuccess(0)
        /\ scan' = [scan EXCEPT !.pc = "save", !.status = "dry_run", !.realized = 0]
     \/ /\ scan' = [scan EXCEPT !.pc = "save", !.status = "dry_run_blocked", !.realized = 0]
        /\ UNCHANGED daily
  /\ UNCHANGED <<book, halted, today, crashes, failures, resumes, saved, unfiled>>

\* Mutant: a save that failed is swallowed.
ScanSave_Swallowed ==
  /\ At("save")
  /\ scan' = [scan EXCEPT !.pc = "outcome"]
  /\ saved' \in {saved, saved \cup {Last}}
  /\ UNCHANGED <<book, halted, daily, today, crashes, failures, resumes, unfiled>>

ScanSave ==
  /\ At("save")
  /\ scan' = [scan EXCEPT !.pc = "outcome"]
  /\ saved' = saved \cup {Last}
  /\ UNCHANGED <<book, halted, daily, today, crashes, failures, resumes, unfiled>>

\* Mutant: the outcome is left to a later clean-up.
ScanOutcome_Skipped ==
  /\ At("outcome")
  /\ scan' = [scan EXCEPT !.pc = "execution"]
  /\ UNCHANGED <<book, halted, daily, today, crashes, failures, resumes, saved, unfiled>>

ScanOutcome ==
  /\ At("outcome")
  /\ attempts' = [attempts EXCEPT ![Last] = scan.status]
  /\ scan' = [scan EXCEPT !.pc = "execution"]
  /\ UNCHANGED <<executions, halted, daily, today, crashes, failures, resumes, saved, unfiled>>

\* Mutant: a dry run leaves no execution.
ScanExecution_PaperOnly ==
  /\ At("execution")
  /\ executions' = IF scan.status # "success" THEN executions ELSE
       Append(executions, [attempt |-> Last, status |-> scan.status,
                           realized |-> scan.realized, day |-> today, process |-> crashes])
  /\ scan' = [scan EXCEPT !.pc = "alert"]
  /\ UNCHANGED <<attempts, halted, daily, today, crashes, failures, resumes, saved, unfiled>>

ScanExecution ==
  /\ At("execution")
  /\ executions' = Append(executions, [attempt |-> Last, status |-> scan.status,
                            realized |-> scan.realized, day |-> today, process |-> crashes])
  /\ scan' = [scan EXCEPT !.pc = "alert"]
  /\ UNCHANGED <<attempts, halted, daily, today, crashes, failures, resumes, saved, unfiled>>

ScanAlert ==
  /\ At("alert")
  /\ scan' = [scan EXCEPT !.pc = "route", !.pos = @ + 1]
  /\ UNCHANGED <<book, halted, daily, today, crashes, failures, resumes, saved, unfiled>>

ScanSleep ==
  /\ At("route") /\ scan.pos = NRoutes + 1
  /\ scan' = FreshScan
  /\ UNCHANGED <<book, halted, daily, today, crashes, failures, resumes, saved, unfiled>>

-----------------------------------------------------------------------------
(***************************************************************************)
(* What comes in between                                                   *)
(***************************************************************************)
Trading == scan.pc \in {"execute", "save", "outcome", "execution"}
\* A result has been counted and its row is not there yet.
Counted == scan.pc \in {"save", "outcome", "execution"}
UnfiledAfter == IF Counted THEN unfiled + 1 ELSE unfiled

\* An exception ends the cycle.
ScanFail ==
  /\ failures' = IF Trading THEN failures + 1 ELSE failures
  /\ failures' <= MaxFailures
  /\ scan' = FreshScan
  /\ unfiled' = UnfiledAfter
  /\ UNCHANGED <<book, halted, daily, today, crashes, resumes, saved>>

NewDay ==
  /\ today < MaxDay
  /\ today' = today + 1
  /\ unfiled' = UnfiledAfter
  /\ UNCHANGED <<book, halted, scan, daily, crashes, failures, resumes, saved>>

Resume ==
  /\ resumes < MaxResumes
  /\ resumes' = resumes + 1
  /\ halted' = FALSE
  /\ UNCHANGED <<book, scan, daily, today, crashes, failures, saved, unfiled>>

\* The tables and the stop survive, the daily result does not.
Crash ==
  /\ crashes < MaxCrashes
  /\ crashes' = crashes + 1
  /\ scan' = FreshScan
  /\ pnl' = 0 /\ anchor' = today
  /\ unfiled' = UnfiledAfter
  /\ UNCHANGED <<book, halted, today, failures, resumes, saved>>

Next ==
  \/ \E funded \in BOOLEAN : ScanCheckDd(funded)
  \/ ScanWriteStop \/ ScanSkip \/ ScanAttempt \/ ScanExecute \/ ScanSave \/ ScanOutcome
  \/ ScanExecution \/ ScanAlert \/ ScanSleep
  \/ ScanFail \/ NewDay \/ Resume \/ Crash

Spec == Init /\ [][Next]_vars

-----------------------------------------------------------------------------
(***************************************************************************)
(* Properties.                                                             *)
(***************************************************************************)
Rows == DOMAIN executions
Filed(rows) == SumFunctionOnSet([i \in Rows |-> executions[i].realized], rows)

\* overview: today_realized, for any day.
RealizedOn(day) == Filed({i \in Rows : executions[i].day = day})

\* The rows of the result the drawdown stop is about.
CountedRows == {i \in Rows : executions[i].process = crashes /\ executions[i].day = anchor}

MaxResult == IF MaxLoss > MaxGain THEN MaxLoss ELSE MaxGain
Within(x, bound) == -bound <= x /\ x <= bound

\* An execution row speaks of one attempt, which says the same: there is no
\* execution of an attempt still "submitted", and no attempt has two.
ExecutionsMatchAttempts ==
  /\ \A i \in Rows : /\ executions[i].attempt \in DOMAIN attempts
                    /\ attempts[executions[i].attempt] = executions[i].status
  /\ \A i, j \in Rows : executions[i].attempt = executions[j].attempt => i = j

\* An outcome on record means that the route's state after it is on record too:
\* no crash leaves a failure in the attempts that the route's quarantine forgot.
OutcomeAfterState ==
  \A n \in DOMAIN attempts : attempts[n] # "submitted" => n \in saved

\* Every attempt has its execution, but for the trade in progress and one trade
\* per crash or exception.
Unexecuted == DOMAIN attempts \ {executions[i].attempt : i \in Rows}
AttemptsAccountedFor ==
  Cardinality(Unexecuted) <= crashes + failures + (IF Trading THEN 1 ELSE 0)

\* The result in memory, which the stop looks at, and the rows on record, which
\* the dashboard sums, differ by at most one result for each row that was cut
\* off or came after midnight, and for the one about to be written.
MemoryNearBook ==
  Within(pnl - Filed(CountedRows), UnfiledAfter * MaxResult)

\* What a day can lose on record: the limit and one cycle for every process, one
\* cycle for every resume, one result for every row cut off or after midnight.
CycleLoss == NRoutes * MaxLoss
DayLossBounded ==
  \A day \in 0..today :
    -RealizedOn(day) < (1 + crashes) * (DdLimit + CycleLoss) + resumes * CycleLoss
                         + UnfiledAfter * MaxResult
=============================================================================
