---------------------------- MODULE ArbExecutor ----------------------------
(***************************************************************************)
(* The ArbExecutor contract: the owner's two-leg executeArb, call by call, *)
(* with the token contracts and the routers it calls, and the owner's      *)
(* administration of the allowlists and routes.                            *)
(*                                                                         *)
(* A transaction runs alone and its effects are kept only when it ends:    *)
(* settled and granted are the balances and allowances the chain has       *)
(* committed, bal and allow those the transaction sees.  A check that      *)
(* fails before the first transfer changes nothing and is a stuttering     *)
(* step.  A step whose router, tokens, pool, fee or selector is not the    *)
(* registered one fails like that, so the steps below are the registered   *)
(* ones.  Of the data handed to a router only the selector is looked at,   *)
(* so a called router does anything a router can: it and the routers it    *)
(* calls pull what they are allowed to and pay the contract.  What a       *)
(* router leaves of an allowance it keeps, also after the transaction.     *)
(***************************************************************************)
EXTENDS Integers, FiniteSets

CONSTANTS
  Accounts,   \* the externally owned accounts
  Routers,
  Tokens,
  Executor,   \* the contract's own address
  RouteIds,
  Amounts,    \* the amounts and limits the calls use
  Offered,    \* the route configurations the owner registers
  Funds       \* the balances at deployment

Holders == Accounts \cup Routers \cup {Executor}
RouteConfigs == [enabled : BOOLEAN, start : Tokens, mid : Tokens, routers : [{1, 2} -> Routers]]
Ledgers == [Tokens -> [Holders -> Nat]]
Allowances == [Tokens -> [Routers -> Nat]]   \* of the contract's tokens
RouteTables == UNION {[ids -> RouteConfigs] : ids \in SUBSET RouteIds}
Configs == [owner : Accounts, paused : BOOLEAN, routers : SUBSET Routers,
            tokens : SUBSET Tokens, routes : RouteTables]

ASSUME AddressAssumption ==
  /\ Accounts \cap Routers = {}
  /\ Executor \notin Accounts \cup Routers
  /\ IsFiniteSet(Routers)
  /\ Amounts \subseteq Nat /\ 0 \in Amounts
  /\ RouteIds # {} /\ Tokens # {}
  /\ Offered \subseteq RouteConfigs
  /\ Funds \in Ledgers

VARIABLES
  bal,       \* balanceOf, per token contract and holder
  allow,     \* allowance[Executor], per token contract and router
  settled,   \* bal at the end of the last transaction
  granted,   \* allow at the end of the last transaction
  conf,      \* owner, paused, allowlistedRouters, allowlistedTokens, routes
  tx         \* the executeArb in progress

vars == <<bal, allow, settled, granted, conf, tx>>

Pcs == {"idle", "leg1", "call1", "leg2", "call2", "pay"}
Calls == [id : RouteIds, initial : Nat, minOut : Nat, minProfit : Nat]
\* token and amount: what the call has in hand; before: beforeOut of a leg.
Txs == [pc : Pcs, call : Calls, token : Tokens, amount : Nat, before : Nat]

TypeOK ==
  /\ bal \in Ledgers /\ settled \in Ledgers
  /\ allow \in Allowances /\ granted \in Allowances
  /\ conf \in Configs
  /\ tx \in Txs

-----------------------------------------------------------------------------
NoCall == [id |-> CHOOSE id \in RouteIds : TRUE, initial |-> 0, minOut |-> 0, minProfit |-> 0]
NoTx == [pc |-> "idle", call |-> NoCall, token |-> CHOOSE t \in Tokens : TRUE,
         amount |-> 0, before |-> 0]

Init ==
  /\ bal = Funds /\ settled = Funds
  /\ allow = [t \in Tokens |-> [r \in Routers |-> 0]] /\ granted = allow
  /\ conf \in [owner : Accounts, paused : {FALSE}, routers : SUBSET Routers,
               tokens : SUBSET Tokens, routes : {<<>>}]
  /\ tx = NoTx

\* A token transfer; the token refuses what the sender does not have.
Sent(h, from, to, n) == (IF h = to THEN n ELSE 0) - (IF h = from THEN n ELSE 0)
Move(b, t, from, to, n) ==
  [b EXCEPT ![t] = [h \in Holders |-> b[t][h] + Sent(h, from, to, n)]]

Idle == tx.pc = "idle"
Route == conf.routes[tx.call.id]                   \* read once, at the start

-----------------------------------------------------------------------------
(***************************************************************************)
(* executeArb                                                              *)
(***************************************************************************)
Begin(c) ==
  LET start == conf.routes[c.id].start
  IN  /\ Idle /\ ~conf.paused
      /\ c.id \in DOMAIN conf.routes /\ conf.routes[c.id].enabled
      /\ start \in conf.tokens
      /\ bal[start][conf.owner] >= c.initial
      /\ bal' = Move(bal, start, conf.owner, Executor, c.initial)
      /\ tx' = [pc |-> "leg1", call |-> c, token |-> start, amount |-> c.initial, before |-> 0]
      /\ UNCHANGED <<allow, settled, granted, conf>>

First == tx.pc \in {"leg1", "call1"}
TokenOut == IF First THEN Route.mid ELSE Route.start
Router == IF First THEN Route.routers[1] ELSE Route.routers[2]

\* The start of a leg.  amountIn (0: all that is in hand) replaces what the
\* router was allowed before; the amount is the router's to take now.
Approve(amountIn) ==
  LET approved == IF amountIn = 0 THEN tx.amount ELSE amountIn
  IN  /\ tx.pc \in {"leg1", "leg2"}
      /\ Router \in conf.routers /\ {tx.token, TokenOut} \subseteq conf.tokens
      /\ approved <= tx.amount
      /\ allow' = [allow EXCEPT ![tx.token][Router] = approved]
      /\ tx' = [tx EXCEPT !.pc = IF First THEN "call1" ELSE "call2",
                          !.amount = 0, !.before = bal[TokenOut][Executor]]
      /\ UNCHANGED <<bal, settled, granted, conf>>

Calling == tx.pc \in {"call1", "call2"}

\* A router spends an allowance: in a call or in a transaction of its own.
Pull(r, t, n) ==
  /\ Calling \/ Idle
  /\ n <= allow[t][r] /\ n <= bal[t][Executor]
  /\ bal' = Move(bal, t, Executor, r, n)
  /\ allow' = [allow EXCEPT ![t][r] = @ - n]
  /\ IF Idle THEN settled' = bal' /\ granted' = allow' ELSE UNCHANGED <<settled, granted>>
  /\ UNCHANGED <<conf, tx>>

\* A router pays the contract during a call.
Give(r, t, n) ==
  /\ Calling
  /\ n <= bal[t][r]
  /\ bal' = Move(bal, t, r, Executor, n)
  /\ UNCHANGED <<allow, settled, granted, conf, tx>>

\* Mutant: the whole balance counts as output, not the difference.
Output_Whole == bal[TokenOut][Executor]

\* afterOut - beforeOut
Output == bal[TokenOut][Executor] - tx.before

\* Mutant: neither the minimum output nor the subtraction is checked.
Return_Unchecked(minOut) ==
  /\ Calling
  /\ tx' = [tx EXCEPT !.pc = IF First THEN "leg2" ELSE "pay",
                      !.token = TokenOut, !.amount = Output, !.before = 0]
  /\ UNCHANGED <<bal, allow, settled, granted, conf>>

\* The end of a leg: what the contract gained is what goes on.
Return(minOut) ==
  /\ Calling
  /\ Output >= minOut
  /\ tx' = [tx EXCEPT !.pc = IF First THEN "leg2" ELSE "pay",
                      !.token = TokenOut, !.amount = Output, !.before = 0]
  /\ UNCHANGED <<bal, allow, settled, granted, conf>>

Profit == IF tx.amount > tx.call.initial THEN tx.amount - tx.call.initial ELSE 0

\* Mutant: one of the two limits is enough.
Accepted_Either == tx.amount >= tx.call.minOut \/ Profit >= tx.call.minProfit

Accepted == tx.amount >= tx.call.minOut /\ Profit >= tx.call.minProfit

Settle ==
  /\ tx.pc = "pay" /\ tx.token = Route.start
  /\ Accepted
  /\ bal[Route.start][Executor] >= tx.amount
  /\ bal' = Move(bal, Route.start, Executor, conf.owner, tx.amount)
  /\ settled' = bal' /\ granted' = allow
  /\ tx' = NoTx
  /\ UNCHANGED <<allow, conf>>

\* Any check, token or router that fails undoes the transaction.
Revert ==
  /\ ~Idle
  /\ bal' = settled /\ allow' = granted
  /\ tx' = NoTx
  /\ UNCHANGED <<settled, granted, conf>>

-----------------------------------------------------------------------------
(***************************************************************************)
(* The owner's other calls                                                 *)
(***************************************************************************)
EmergencyWithdraw(t, n, to) ==
  /\ Idle
  /\ bal[t][Executor] >= n
  /\ bal' = Move(bal, t, Executor, to, n)
  /\ settled' = bal'
  /\ UNCHANGED <<allow, granted, conf, tx>>

\* A registration replaces the route; the allowlists are looked at now only.
RegisterRoute(id, r) ==
  /\ {r.start, r.mid} \subseteq conf.tokens
  /\ {r.routers[1], r.routers[2]} \subseteq conf.routers
  /\ conf' = [conf EXCEPT !.routes =
                [i \in DOMAIN conf.routes \cup {id} |-> IF i = id THEN r ELSE conf.routes[i]]]

SetRouteEnabled(id, on) ==
  /\ id \in DOMAIN conf.routes
  /\ conf' = [conf EXCEPT !.routes[id].enabled = on]

SetAllowlistedRouter(r, allowed) ==
  conf' = [conf EXCEPT !.routers = IF allowed THEN @ \cup {r} ELSE @ \ {r}]

SetAllowlistedToken(t, allowed) ==
  conf' = [conf EXCEPT !.tokens = IF allowed THEN @ \cup {t} ELSE @ \ {t}]

SetPaused(p) == conf' = [conf EXCEPT !.paused = p]
TransferOwnership(a) == conf' = [conf EXCEPT !.owner = a]

Administer ==
  /\ Idle
  /\ \/ \E id \in RouteIds :
          (\E r \in Offered : RegisterRoute(id, r)) \/ (\E on \in BOOLEAN : SetRouteEnabled(id, on))
     \/ \E allowed \in BOOLEAN :
          \/ \E r \in Routers : SetAllowlistedRouter(r, allowed)
          \/ \E t \in Tokens : SetAllowlistedToken(t, allowed)
     \/ \E p \in BOOLEAN : SetPaused(p)
     \/ \E a \in Accounts : TransferOwnership(a)
  /\ UNCHANGED <<bal, allow, settled, granted, tx>>

Next ==
  \/ \E c \in [id : RouteIds, initial : Amounts, minOut : Amounts, minProfit : Amounts] : Begin(c)
  \/ \E amountIn \in Amounts : Approve(amountIn)
  \/ \E r \in Routers, t \in Tokens, n \in Amounts : Pull(r, t, n) \/ Give(r, t, n)
  \/ \E minOut \in Amounts : Return(minOut)
  \/ Settle
  \/ Revert
  \/ \E t \in Tokens, n \in Amounts, to \in Holders : EmergencyWithdraw(t, n, to)
  \/ Administer

Spec == Init /\ [][Next]_vars

-----------------------------------------------------------------------------
(***************************************************************************)
(* Properties.                                                             *)
(***************************************************************************)
\* The units of a token, allowed by a, that routers may still take.
Claims(a) == UNION {{r} \X (1 .. a[r]) : r \in Routers}

\* What the contract holds for itself of a token: the balance h beyond the
\* claims that a allows; negative when a withdrawal left less than them.
Own(h, a) == h - Cardinality(Claims(a))

\* The amount handed from leg to leg is covered by what this transaction
\* brought in: it comes on top of what the contract held for itself before.
\* So approving or paying out the amount cannot touch the contract's own.
FundsCovered ==
  \A t \in Tokens :
    Own(bal[t][Executor], allow[t]) >= Own(settled[t][Executor], granted[t]) +
                                         (IF t = tx.token THEN tx.amount ELSE 0)

\* "in a single atomic transaction path": seen from the committed balances and
\* allowances, the legs, the routers, failures and administration implement
\* AtomicArb.
Pending == IF Idle THEN {} ELSE {tx.call}
OwnFunds == [t \in Tokens |-> Own(settled[t][Executor], granted[t])]
Atomic == INSTANCE AtomicArb
  WITH ledger <- settled, own <- OwnFunds, allowance <- granted, pending <- Pending
TradesAtomically == Atomic!Spec
=============================================================================
