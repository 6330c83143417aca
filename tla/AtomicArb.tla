----------------------------- MODULE AtomicArb -----------------------------
(***************************************************************************)
(* What the ArbExecutor contract promises: a two-leg arbitrage happens at  *)
(* once or not at all.  A call is submitted, and either it is rejected and *)
(* nothing has moved, or it trades: the owner gets back at least what the  *)
(* call asks for, nobody else's account is touched, only the routers of an *)
(* enabled and allowlisted route are allowed more than before, and what    *)
(* the contract held for itself stays where it is.  Its own is what no     *)
(* router is allowed to take (negative when a withdrawal left less than    *)
(* that): an allowance a trade leaves unused may be drawn at any time      *)
(* later.                                                                  *)
(***************************************************************************)
EXTENDS Integers

CONSTANTS
  Accounts,   \* the externally owned accounts
  Routers,
  Tokens,
  Executor    \* the contract's own address

Holders == Accounts \cup Routers \cup {Executor}

VARIABLES
  ledger,     \* the balances the chain has committed
  own,        \* what the contract holds for itself, per token
  allowance,  \* what routers may take from the contract
  conf,       \* the contract's configuration
  pending     \* the call being executed, if any

vars == <<ledger, own, allowance, conf, pending>>

\* The contract's own becomes less of no token.
OwnKept == \A k \in Tokens : own'[k] >= own[k]

\* What the owner receives from the call c that starts with token s.
Received(c, s) == ledger'[s][conf.owner] - ledger[s][conf.owner] + c.initial

\* The call c trades along the route with configuration t.
Trade(c, t) ==
  LET final == Received(c, t.start)
  IN  /\ ~conf.paused /\ t.enabled
      /\ {t.start, t.mid} \subseteq conf.tokens
      /\ {t.routers[1], t.routers[2]} \subseteq conf.routers
      /\ final >= c.minOut
      /\ c.minProfit > 0 => final - c.initial >= c.minProfit
      /\ OwnKept
      /\ \A k \in Tokens : \A h \in Accounts :
            ledger'[k][h] = ledger[k][h] \/ (h = conf.owner /\ k = t.start)
      /\ \A k \in Tokens : \A r \in Routers :
            allowance'[k][r] <= allowance[k][r] \/ <<k, r>> \in {<<t.start, t.routers[1]>>, <<t.mid, t.routers[2]>>}

Init == pending = {}

Submit ==
  /\ pending = {} /\ \E c \in pending' : pending' = {c}
  /\ ~conf.paused
  /\ UNCHANGED <<ledger, own, allowance, conf>>

Commit ==
  /\ \E c \in pending : Trade(c, conf.routes[c.id])
  /\ pending' = {}
  /\ UNCHANGED conf

Reject ==
  /\ pending' = {}
  /\ UNCHANGED <<ledger, own, allowance, conf>>

Configure ==
  /\ pending = {}
  /\ UNCHANGED <<ledger, own, allowance, pending>>

\* A router takes what it is allowed to.
Draw ==
  /\ pending = {}
  /\ OwnKept
  /\ \A k \in Tokens : \A h \in Accounts : ledger'[k][h] = ledger[k][h]
  /\ \A k \in Tokens : \A r \in Routers : allowance'[k][r] <= allowance[k][r]
  /\ UNCHANGED <<conf, pending>>

\* Nothing leaves the other holders.
Withdraw ==
  /\ pending = {}
  /\ \A k \in Tokens : \A h \in Holders \ {Executor} : ledger'[k][h] >= ledger[k][h]
  /\ UNCHANGED <<allowance, conf, pending>>

Next == Submit \/ Commit \/ Reject \/ Configure \/ Draw \/ Withdraw

Spec == Init /\ [][Next]_vars
=============================================================================
