---------------------------- MODULE MCArbExecutor ----------------------------
(* Small instances of ArbExecutor for TLC. *)
EXTENDS ArbExecutor

CONSTANTS owner, other, r1, r2, usdc, usdt, executor

AmountsTo1 == 0..1
TwoAccounts == {owner, other}
\* usdc -> usdt -> usdc over two routers, and both legs in one token.
TwoRoutes == {[enabled |-> TRUE, start |-> usdc, mid |-> usdt, routers |-> <<r1, r2>>],
              [enabled |-> TRUE, start |-> usdt, mid |-> usdt, routers |-> <<r2, r2>>]}
\* The owner has usdc, r1 sells usdt for it, r2 sells usdc and can pay a
\* profit, and the contract holds some usdc.
SmallFunds == [t \in {usdc, usdt} |-> [h \in Holders |->
  CASE t = usdc /\ h \in {owner, executor} -> 1
    [] t = usdc /\ h = r2 -> 1
    [] t = usdt /\ h = r1 -> 1
    [] OTHER -> 0]]
=============================================================================
