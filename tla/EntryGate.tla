------------------------------ MODULE EntryGate ------------------------------
(***************************************************************************)
(* The entry of one route, from its quote to its trade: the timer of how   *)
(* long its edge has lasted, which the quote engine keeps in memory across *)
(* good, bad and failed quotes; the guards on edge, persistence, peg and   *)
(* rate; the pauses of the operator and of fatal failures, switches of the *)
(* mode, and restarts, which forget the timer, the rate and some pauses.   *)
(*                                                                         *)
(* The other guards are left open: any evaluation may be blocked.          *)
(***************************************************************************)
EXTENDS Integers, FiniteSets

CONSTANTS
  RawEdges,       \* spreads over the amount that two legs may show
  Costs,          \* fees, gas, buffers and margins together, in the same unit
  LiveMinEdge,    \* live_min_net_edge_bps
  ShadowMinEdge,  \* shadow_min_net_edge_bps
  LivePersist,    \* live_min_edge_persist_seconds
  ShadowPersist,  \* shadow_min_edge_persist_seconds
  DepegLimits,    \* values depeg_threshold_bps may have
  MaxTrades,      \* live_max_trades_per_route_per_10m
  Window,         \* the ten minutes
  MaxNow, MaxCrashes  \* bounds

QuoteType == [available : BOOLEAN, net : Int, raw : Int]

\* The edge that is left when all costs are paid.
ModeledQuote(raw, costs) == [available |-> TRUE, net |-> raw - costs, raw |-> raw]
Quotes == {ModeledQuote(raw, costs) : raw \in RawEdges, costs \in Costs}

\* What stands for a quote that failed.
Unavailable == [available |-> FALSE, net |-> 0, raw |-> 0]

\* Costs are never negative.
ASSUME EntryAssumption ==
  /\ RawEdges \subseteq Int /\ Costs \subseteq Nat
  /\ LiveMinEdge \in Int /\ ShadowMinEdge \in Int /\ DepegLimits \subseteq Int
  /\ LivePersist \in Nat /\ ShadowPersist \in Nat
  /\ MaxTrades \in Nat /\ Window \in Nat
  /\ MaxNow \in Nat /\ MaxCrashes \in Nat

VARIABLES
  now,         \* the clock
  depegLimit,  \* depeg_threshold_bps, which never changes
  strategy,    \* of the route
  mode,        \* runtime_controls.mode
  pauses,      \* what evaluate finds paused: globally, the strategy or a venue, the route
  since,       \* _edge_started_at of the route
  executions,  \* RouteStats.executions of the route
  scan,        \* the cycle's visit to the route
  crashes,     \* processes that ended
  \* observation only:
  dip,         \* when a quote last showed less than the engine ever asks for
  gap,         \* a quote failed while the timer ran, and nobody had a look since
  history      \* every success, with the process and the time it happened in

vars == <<now, depegLimit, strategy, mode, pauses, since, executions, scan, crashes,
          dip, gap, history>>
settled == <<depegLimit, strategy>>
observed == <<dip, gap, history>>

None == -1
Strategies == {"hyperevm_dex_dex", "base_virtual_shadow"}
Modes == {"paper", "live", "stopped"}
Scopes == {"global", "strategy", "route"}  \* "strategy" stands for a venue as well
ScanPcs == {"start", "quote", "measured", "judge", "mark", "trade"}
Successes == [process : Nat, n : Nat, at : Nat]

TypeOK ==
  /\ now \in Nat /\ depegLimit \in DepegLimits /\ strategy \in Strategies /\ mode \in Modes
  /\ pauses \in SUBSET Scopes
  /\ since \in 0..now \cup {None} /\ dip \in 0..now \cup {None}
  /\ executions \in SUBSET Successes /\ history \in SUBSET Successes
  /\ scan \in [pc : ScanPcs, mode : Modes, quote : Quotes \cup {Unavailable},
               persisted : 0..now]
  /\ crashes \in Nat /\ gap \in BOOLEAN

FreshVisit == [pc |-> "start", mode |-> "paper", quote |-> Unavailable, persisted |-> 0]

Init ==
  /\ now = 0 /\ depegLimit \in DepegLimits /\ strategy \in Strategies /\ mode \in Modes
  /\ pauses \in SUBSET Scopes
  /\ since = None /\ executions = {} /\ scan = FreshVisit /\ crashes = 0
  /\ dip = None /\ gap = FALSE /\ history = {}

-----------------------------------------------------------------------------
(***************************************************************************)
(* The quote and the timer of its edge.                                    *)
(***************************************************************************)
\* Only the strategy that can go live follows the mode.
StrategyMode == IF strategy = "hyperevm_dex_dex" THEN mode ELSE "paper"

MinEdge(m) == IF m = "live" THEN LiveMinEdge ELSE ShadowMinEdge
MinPersist(m) == IF m = "live" THEN LivePersist ELSE ShadowPersist

\* The least edge with which the engine of the route keeps a timer running.
Floor ==
  IF strategy = "hyperevm_dex_dex" /\ LiveMinEdge < ShadowMinEdge
  THEN LiveMinEdge ELSE ShadowMinEdge

\* Mutant: an edge that is gone does not stop the timer.
SinceAfter_KeepsOn(edge, m) ==
  IF edge >= MinEdge(m) /\ since = None THEN now ELSE since

\* setdefault, or pop.
SinceAfter(edge, m) ==
  IF edge < MinEdge(m) THEN None ELSE IF since = None THEN now ELSE since

\* Mutant: the age of a timer that was never started.
Persisted_Unguarded(started) == now - started

Persisted(started) == IF started = None THEN 0 ELSE now - started

ScanStart ==
  /\ scan.pc = "start"
  /\ scan' = [FreshVisit EXCEPT !.pc = "quote", !.mode = StrategyMode]
  /\ UNCHANGED <<now, settled, mode, pauses, since, executions, crashes, observed>>

\* Both legs are quoted: _update_persistence.
ScanMeasure(q) ==
  /\ scan.pc = "quote"
  /\ since' = SinceAfter(q.net, scan.mode)
  /\ scan' = [scan EXCEPT !.pc = "measured", !.quote = q, !.persisted = Persisted(since')]
  /\ dip' = IF q.net < Floor THEN now ELSE dip
  /\ gap' = (gap /\ since' # None)
  /\ UNCHANGED <<now, settled, mode, pauses, executions, crashes, history>>

\* Pool health, liquidity, fees and the way back are known too.
ScanQuoted ==
  /\ scan.pc = "measured"
  /\ scan' = [scan EXCEPT !.pc = "judge"]
  /\ UNCHANGED <<now, settled, mode, pauses, since, executions, crashes, observed>>

\* Any of these calls raises; a timer already updated stays as it is.
ScanQuoteFails ==
  /\ scan.pc \in {"quote", "measured"}
  /\ scan' = [scan EXCEPT !.pc = "judge", !.quote = Unavailable, !.persisted = 0]
  /\ gap' = (gap \/ since # None)
  /\ UNCHANGED <<now, settled, mode, pauses, since, executions, crashes, dip, history>>

-----------------------------------------------------------------------------
(***************************************************************************)
(* The gate.                                                               *)
(***************************************************************************)
\* Mutant: the cutoff itself is dropped.
Recent_DropsCutoff == {e \in executions : e.at > now - Window}

\* What popleft leaves of the executions.
Recent == {e \in executions : e.at >= now - Window}

\* The raw edge of the quote is passed for its deviation from the reference.
PegHolds(q) == q.raw <= depegLimit /\ -q.raw <= depegLimit

Admits ==
  /\ pauses = {}
  /\ scan.quote.available
  /\ PegHolds(scan.quote)
  /\ Cardinality(Recent) < MaxTrades
  /\ scan.quote.net >= MinEdge(scan.mode)
  /\ scan.persisted >= MinPersist(scan.mode)

ScanEnter ==
  /\ scan.pc = "judge" /\ Admits /\ scan.mode # "stopped"
  /\ scan' = [scan EXCEPT !.pc = "trade"]
  /\ executions' = Recent
  /\ UNCHANGED <<now, settled, mode, pauses, since, crashes, observed>>

\* In stopped mode an admitted quote is recorded and left alone.
ScanStopped ==
  /\ scan.pc = "judge" /\ Admits /\ scan.mode = "stopped"
  /\ scan' = FreshVisit
  /\ executions' = Recent
  /\ UNCHANGED <<now, settled, mode, pauses, since, crashes, observed>>

\* Mutant: a quote that cannot be had is no failure.
Fatal_OnlyMismatch(verdict) == verdict = "quote_mismatch"

Fatal(verdict) == verdict \in {"quote_unavailable", "quote_mismatch"}

\* What a blocked evaluation may answer.  The pauses come first, then the quote;
\* the old executions are dropped only where the guard on them was reached.
Verdicts ==
  IF pauses # {} THEN {"paused"}
  ELSE IF ~scan.quote.available THEN {"quote_unavailable"}
  ELSE {"quote_mismatch", "other"}

ScanBlocked(verdict) ==
  /\ scan.pc = "judge" /\ verdict \in Verdicts
  /\ scan' = IF Fatal(verdict) THEN [scan EXCEPT !.pc = "mark"] ELSE FreshVisit
  /\ \/ executions' = executions
     \/ verdict = "other" /\ executions' = Recent
  /\ UNCHANGED <<now, settled, mode, pauses, since, crashes, observed>>

\* mark_failure after the opportunity was recorded, or after the trade failed: a dry
\* run on the wrong chain, for a paper trade always succeeds.
ScanMark ==
  /\ scan.pc = "mark" \/ (scan.pc = "trade" /\ scan.mode = "live")
  /\ pauses' = pauses \cup {"route"}
  /\ scan' = FreshVisit
  /\ UNCHANGED <<now, settled, mode, since, executions, crashes, observed>>

\* mark_success.
ScanSucceed ==
  /\ scan.pc = "trade"
  /\ LET success == [process |-> crashes, n |-> Cardinality(history), at |-> now]
     IN  /\ executions' = Recent \cup {success}
         /\ history' = history \cup {success}
  /\ scan' = FreshVisit
  /\ UNCHANGED <<now, settled, mode, pauses, since, crashes, dip, gap>>

\* An exception ends the cycle; the failed quote of this cycle goes unmarked.
ScanFail ==
  /\ scan.pc # "start"
  /\ scan' = FreshVisit
  /\ gap' = (gap /\ (scan.quote.available \/ scan.pc = "quote"))
  /\ UNCHANGED <<now, settled, mode, pauses, since, executions, crashes, dip, history>>

-----------------------------------------------------------------------------
(***************************************************************************)
(* Operators, time and restarts.                                           *)
(***************************************************************************)
Pause(scope) ==
  /\ pauses' = pauses \cup {scope}
  /\ UNCHANGED <<now, settled, mode, since, executions, scan, crashes, observed>>

\* The operator, or for the global pause the cycle that copies the row.
Resume(scope) ==
  /\ scope \in pauses
  /\ pauses' = pauses \ {scope}
  /\ gap' = FALSE
  /\ UNCHANGED <<now, settled, mode, since, executions, scan, crashes, dip, history>>

SwitchMode(m) ==
  /\ mode' = m
  /\ UNCHANGED <<now, settled, pauses, since, executions, scan, crashes, observed>>

Tick ==
  /\ now < MaxNow
  /\ now' = now + 1
  /\ UNCHANGED <<settled, mode, pauses, since, executions, scan, crashes, observed>>

\* Strategy and venue pauses are memory only.  Whether the others come back is
\* the subject of KillSwitch and RouteRuntime.
Crash ==
  /\ crashes < MaxCrashes
  /\ crashes' = crashes + 1
  /\ pauses' \in SUBSET (pauses \cap {"global", "route"})
  /\ since' = None /\ executions' = {} /\ scan' = FreshVisit
  /\ gap' = FALSE
  /\ UNCHANGED <<now, settled, mode, dip, history>>

ScanStep ==
  \/ ScanStart \/ (\E q \in Quotes : ScanMeasure(q)) \/ ScanQuoted \/ ScanQuoteFails
  \/ ScanEnter \/ ScanStopped
  \/ \E v \in {"paused", "quote_unavailable", "quote_mismatch", "other"} : ScanBlocked(v)
  \/ ScanMark \/ ScanSucceed

Next ==
  \/ ScanStep \/ ScanFail
  \/ \E s \in Scopes : Pause(s) \/ Resume(s)
  \/ \E m \in Modes : SwitchMode(m)
  \/ Tick
  \/ Crash

Spec == Init /\ [][Next]_vars

\* The scan task goes on, and the guards left open do not block every eligible
\* visit in paper mode for ever.
FairSpec ==
  /\ Spec
  /\ WF_vars(ScanStep)
  /\ SF_vars(ScanEnter /\ scan.mode = "paper")

-----------------------------------------------------------------------------
(***************************************************************************)
(* Properties.                                                             *)
(***************************************************************************)
Enters == scan.pc = "judge" /\ scan'.pc = "trade"

\* No stretch of Window holds more successes of one process than the limit, wherever
\* it starts; a restart, which forgets them, gives the route a fresh budget
\* (evaluate's route_rate_limit against mark_success).
RateBounded ==
  \A p \in 0..crashes, t \in 0..now :
    Cardinality({h \in history : h.process = p /\ h.at \in t..t + Window}) <= MaxTrades

\* When the route is entered, no quote showed less than the engine's least
\* threshold for as long as the mode asks, although the mode may have changed and
\* quotes may have failed while the timer ran (_update_persistence).
EdgeHeld == [][Enters => dip = None \/ now - dip >= MinPersist(scan.mode)]_vars

\* A failed quote does not stop the timer, but none that ran through one lets an
\* entry through unless somebody resumed or released something since, the process
\* restarted, or an exception hid the failure (quote_unavailable is fatal).
GapReviewed == [][Enters => ~gap]_vars

\* A visit in paper mode to a route whose edge, persistence, rate and quote are as
\* the gate asks and which nobody has paused.
PaperChance ==
  /\ scan.pc = "judge" /\ scan.mode = "paper"
  /\ pauses = {} /\ scan.quote.available
  /\ scan.quote.net >= MinEdge("paper") /\ scan.persisted >= MinPersist("paper")
  /\ Cardinality(Recent) < MaxTrades

PaperEntered == scan.pc = "trade" /\ scan.mode = "paper"

\* "If eligible: paper mode: simulated execution + PnL write": a route that shows
\* such an edge again and again is traded on paper at last (evaluate as _scan_loop
\* calls it).
PaperTrades == []<>PaperChance => <>PaperEntered
=============================================================================
