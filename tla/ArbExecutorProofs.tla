------------------------- MODULE ArbExecutorProofs -------------------------
(***************************************************************************)
(* Proofs about ArbExecutor, for every set of accounts, routers, tokens    *)
(* and routes and every initial distribution of funds: the state is well   *)
(* typed, the amount handed on is covered, and the contract implements     *)
(* AtomicArb.  The three rest on one invariant about what the contract     *)
(* holds for itself, beyond what routers are allowed to take: a router     *)
(* that takes uses up as much of its allowance, so only the contract's own *)
(* steps could spend it, and each of them spends an amount that the call   *)
(* has brought in on top.                                                  *)
(***************************************************************************)
EXTENDS ArbExecutor, FiniteSetTheorems, TLAPS

\* How much of a token routers may still take.
Loan(a) == Cardinality(Claims(a))

\* Where the running call stands: the checks it has passed and what it has
\* moved since the last commit.
Passed ==
  /\ ~conf.paused
  /\ tx.call.id \in DOMAIN conf.routes
  /\ Route.enabled
  /\ Route.start \in conf.tokens
  /\ tx.token = IF tx.pc \in {"leg2", "call2"} THEN Route.mid ELSE Route.start
  /\ tx.pc # "leg1" => Route.routers[1] \in conf.routers /\ Route.mid \in conf.tokens
  /\ tx.pc \in {"call2", "pay"} => Route.routers[2] \in conf.routers

Spent ==
  /\ bal[Route.start][conf.owner] = settled[Route.start][conf.owner] - tx.call.initial
  /\ \A k \in Tokens : \A h \in Accounts :
        bal[k][h] = settled[k][h] \/ (h = conf.owner /\ k = Route.start)
  /\ \A k \in Tokens : \A r \in Routers :
        \/ allow[k][r] <= granted[k][r]
        \/ <<k, r>> \in {<<Route.start, Route.routers[1]>>, <<Route.mid, Route.routers[2]>>}

\* The output of a leg is counted from a balance that covers the loans.
Measured ==
  Calling => tx.before - Loan(allow[TokenOut]) >= settled[TokenOut][Executor] - Loan(granted[TokenOut])

Quiet == Idle => bal = settled /\ allow = granted /\ tx.amount = 0
Running == ~Idle => Passed /\ Spent
Inv == TypeOK /\ FundsCovered /\ Quiet /\ Running /\ Measured

\* The type of the ledger in the middle of a transfer.
IntLedgers == [Tokens -> [Holders -> Int]]

\* A transfer changes the two holders of one token, and only them.
Moved(b, m, t, from, to, n) ==
  /\ m \in IntLedgers
  /\ \A k \in Tokens : k # t => m[k] = b[k]
  /\ \A h \in Holders \ {from, to} : m[t][h] = b[t][h]
  /\ from # to => m[t][from] = b[t][from] - n
  /\ from # to => m[t][to] = b[t][to] + n
  /\ from = to => m[t][to] = b[t][to]

LEMMA MoveAt ==
  ASSUME NEW b \in IntLedgers, NEW t \in Tokens, NEW from \in Holders, NEW to \in Holders,
         NEW n \in Int
  PROVE  Moved(b, Move(b, t, from, to, n), t, from, to, n)
<1> DEFINE row == [h \in Holders |-> b[t][h] + Sent(h, from, to, n)]
<1>1. \A h \in Holders : b[t][h] \in Int /\ Sent(h, from, to, n) \in Int
  BY DEF IntLedgers, Sent
<1>2. row \in [Holders -> Int]  BY <1>1
<1>3. Move(b, t, from, to, n) = [b EXCEPT ![t] = row]  BY DEF Move
<1>4. Move(b, t, from, to, n) \in IntLedgers  BY <1>2, <1>3 DEF IntLedgers
<1>5. Move(b, t, from, to, n)[t] = row  BY <1>3 DEF IntLedgers
<1>6. \A k \in Tokens : k # t => Move(b, t, from, to, n)[k] = b[k]  BY <1>3 DEF IntLedgers
<1>7. \A h \in Holders \ {from, to} : row[h] = b[t][h]  BY <1>1 DEF Sent
<1>8. from # to => row[from] = b[t][from] - n /\ row[to] = b[t][to] + n  BY <1>1 DEF Sent
<1>9. from = to => row[to] = b[t][to]  BY <1>1 DEF Sent
<1> QED  BY <1>4, <1>5, <1>6, <1>7, <1>8, <1>9 DEF Moved

\* A holder that has the amount can send it: no balance becomes negative.
LEMMA MoveType ==
  ASSUME NEW b \in Ledgers, NEW t \in Tokens, NEW from \in Holders, NEW to \in Holders,
         NEW n \in Nat, n <= b[t][from]
  PROVE  Move(b, t, from, to, n) \in Ledgers
<1> DEFINE m == Move(b, t, from, to, n)
<1>1. b \in IntLedgers  BY DEF Ledgers, IntLedgers
<1>2. Moved(b, m, t, from, to, n)  BY <1>1, MoveAt
<1> HIDE DEF m
<1>3. \A k \in Tokens : \A h \in Holders : m[k][h] \in Nat
  <2> SUFFICES ASSUME NEW k \in Tokens, NEW h \in Holders PROVE m[k][h] \in Nat  OBVIOUS
  <2>1. b[k][h] \in Nat /\ b[t][from] \in Nat /\ b[t][to] \in Nat  BY DEF Ledgers
  <2>2. CASE k # t  BY <1>2, <2>1, <2>2 DEF Moved
  <2>3. CASE k = t  BY <1>2, <2>1, <2>3 DEF Moved
  <2> QED  BY <2>2, <2>3
<1>4. m \in [Tokens -> [Holders -> Int]]  BY <1>2 DEF Moved, IntLedgers
<1>5. \A k \in Tokens : m[k] \in [Holders -> Nat]  BY <1>3, <1>4
<1>6. m \in Ledgers  BY <1>4, <1>5 DEF Ledgers
<1> QED  BY <1>6 DEF m

-----------------------------------------------------------------------------
(***************************************************************************)
(* What routers may take.                                                  *)
(***************************************************************************)
\* The claims on a token that are not the router r's.
Others(a, r) == UNION {{q} \X (1 .. a[q]) : q \in Routers \ {r}}

\* The claims are those of one router and those of the others.
LEMMA ClaimsSplit ==
  ASSUME NEW a \in [Routers -> Nat], NEW r \in Routers
  PROVE  /\ IsFiniteSet(Others(a, r))
         /\ IsFiniteSet(Claims(a))
         /\ Loan(a) = Cardinality(Others(a, r)) + a[r]
         /\ Cardinality(Others(a, r)) \in Nat
<1> DEFINE own == {r} \X (1 .. a[r])
           part(q) == {q} \X (1 .. a[q])
           parts == {part(q) : q \in Routers \ {r}}
<1>1. ASSUME NEW q \in Routers
      PROVE  IsFiniteSet(part(q)) /\ Cardinality(part(q)) = a[q]
  <2>1. a[q] \in Nat  OBVIOUS
  <2>2. IsFiniteSet(1 .. a[q]) /\ Cardinality(1 .. a[q]) = a[q]
    <3>1. 1 \in Int /\ a[q] \in Int  BY <2>1
    <3>2. IsFiniteSet(1 .. a[q]) /\ Cardinality(1 .. a[q]) = IF 1 > a[q] THEN 0 ELSE a[q] - 1 + 1
      BY <3>1, FS_Interval
    <3> QED  BY <2>1, <3>2
  <2>3. IsFiniteSet({q}) /\ Cardinality({q}) = 1  BY FS_Singleton
  <2>4. IsFiniteSet(part(q)) /\ Cardinality(part(q)) = 1 * a[q]
    BY <2>2, <2>3, FS_Product
  <2> QED  BY <2>1, <2>4
<1>2. IsFiniteSet(parts)
  <2>1. IsFiniteSet(Routers \ {r})  BY AddressAssumption, FS_Difference
  <2> DEFINE f == [q \in Routers \ {r} |-> part(q)]
  <2>2. f \in Surjection(Routers \ {r}, parts)  BY DEF Surjection
  <2> QED  BY <2>1, <2>2, FS_Surjection
<1>3. IsFiniteSet(UNION parts)
  <2>1. \A p \in parts : IsFiniteSet(p)  BY <1>1
  <2> QED  BY <1>2, <2>1, FS_UNION
<1>4. Others(a, r) = UNION parts  BY DEF Others
<1>5. Claims(a) = Others(a, r) \cup own
  <2>1. Routers = (Routers \ {r}) \cup {r}  OBVIOUS
  <2> QED  BY <2>1 DEF Claims, Others
<1>6. Others(a, r) \cap own = {}  BY DEF Others
<1>7. IsFiniteSet(Others(a, r)) /\ IsFiniteSet(own) /\ Cardinality(own) = a[r]
  BY <1>1, <1>3, <1>4
<1> HIDE DEF own, part, parts
<1>8. /\ IsFiniteSet(Others(a, r) \cup own)
      /\ Cardinality(Others(a, r) \cup own) =
            Cardinality(Others(a, r)) + Cardinality(own) - Cardinality(Others(a, r) \cap own)
  BY <1>7, FS_Union
<1>9. Cardinality(Others(a, r)) \in Nat /\ a[r] \in Nat  BY <1>7, FS_CardinalityType
<1>10. Cardinality(Others(a, r) \cap own) = 0  BY <1>6, FS_EmptySet
<1> QED  BY <1>5, <1>7, <1>8, <1>9, <1>10 DEF Loan

\* Replacing one allowance changes the claims by the difference.
LEMMA LoanSet ==
  ASSUME NEW a \in [Routers -> Nat], NEW r \in Routers, NEW n \in Nat
  PROVE  /\ Loan(a) \in Nat /\ a[r] <= Loan(a)
         /\ Loan([a EXCEPT ![r] = n]) = Loan(a) - a[r] + n
<1> DEFINE b == [a EXCEPT ![r] = n]
<1>1. b \in [Routers -> Nat] /\ b[r] = n /\ \A q \in Routers \ {r} : b[q] = a[q]  OBVIOUS
<1>2. Others(b, r) = Others(a, r)  BY <1>1 DEF Others
<1>3. Loan(a) = Cardinality(Others(a, r)) + a[r] /\ Cardinality(Others(a, r)) \in Nat
  BY ClaimsSplit
<1>4. Loan(b) = Cardinality(Others(b, r)) + b[r]
  <2> HIDE DEF b
  <2> QED  BY <1>1, ClaimsSplit
<1>5. a[r] \in Nat  OBVIOUS
<1> QED  BY <1>1, <1>2, <1>3, <1>4, <1>5

\* The claims on a token are a number of units, also when there is no router.
LEMMA LoanType == ASSUME NEW a \in [Routers -> Nat] PROVE Loan(a) \in Nat
<1>1. CASE Routers = {}
  <2>1. Claims(a) = {}  BY <1>1 DEF Claims
  <2> QED  BY <2>1, FS_EmptySet DEF Loan
<1>2. CASE Routers # {}
  <2>1. PICK r \in Routers : TRUE  BY <1>2
  <2> QED  BY <2>1, 0 \in Nat, LoanSet
<1> QED  BY <1>1, <1>2

-----------------------------------------------------------------------------
\* The idle contract's transaction is a well-typed one.
LEMMA IdleTx == NoTx \in Txs /\ NoTx.pc = "idle" /\ NoTx.amount = 0
<1>1. (CHOOSE id \in RouteIds : TRUE) \in RouteIds  BY AddressAssumption
<1>2. (CHOOSE t \in Tokens : TRUE) \in Tokens  BY AddressAssumption
<1>3. NoCall \in Calls  BY <1>1 DEF NoCall, Calls
<1> QED  BY <1>2, <1>3 DEF NoTx, Txs, Pcs

\* A registered route is a route configuration.
LEMMA RouteType ==
  ASSUME conf \in Configs, NEW id \in DOMAIN conf.routes
  PROVE  /\ conf.routes[id] \in RouteConfigs
         /\ conf.routes[id].start \in Tokens /\ conf.routes[id].mid \in Tokens
         /\ conf.routes[id].routers[1] \in Routers /\ conf.routes[id].routers[2] \in Routers
<1>1. conf.routes \in RouteTables  BY DEF Configs
<1>2. PICK ids \in SUBSET RouteIds : conf.routes \in [ids -> RouteConfigs]
  BY <1>1 DEF RouteTables
<1>3. conf.routes[id] \in RouteConfigs  BY <1>2
<1> QED  BY <1>3 DEF RouteConfigs

\* The owner is a holder, and neither the contract nor a router.
LEMMA OwnerType ==
  ASSUME conf \in Configs
  PROVE  /\ conf.owner \in Accounts /\ conf.owner \in Holders
         /\ conf.owner # Executor /\ conf.owner \notin Routers
<1>1. conf.owner \in Accounts  BY DEF Configs
<1> QED  BY <1>1, AddressAssumption DEF Holders

\* A step that ends between two transactions establishes the invariant.
LEMMA QuietInv ==
  ASSUME bal' \in Ledgers, settled' = bal', allow' \in Allowances, granted' = allow',
         conf' \in Configs, tx' \in Txs, tx'.pc = "idle", tx'.amount = 0
  PROVE  Inv'
<1>1. Executor \in Holders  BY DEF Holders
<1>2. \A t \in Tokens : bal'[t][Executor] \in Nat  BY <1>1 DEF Ledgers
<1>3. \A t \in Tokens : Loan(allow'[t]) \in Nat  BY LoanType DEF Allowances
<1>4. FundsCovered'
  <2>1. \A t \in Tokens : bal'[t][Executor] - Loan(allow'[t]) >= bal'[t][Executor] - Loan(allow'[t]) + 0
    BY <1>2, <1>3
  <2> QED  BY <2>1 DEF FundsCovered, Own, Loan
<1>5. TypeOK'  BY DEF TypeOK
<1> QED  BY <1>4, <1>5 DEF Inv, Quiet, Running, Measured, Calling, Idle

\* The constructor establishes the invariant.
LEMMA InitInv == Init => Inv
<1> SUFFICES ASSUME Init PROVE Inv  OBVIOUS
<1>1. bal \in Ledgers /\ settled = bal  BY AddressAssumption DEF Init
<1>2. <<>> \in RouteTables
  <2>1. <<>> \in [{} -> RouteConfigs]  OBVIOUS
  <2>2. {} \in SUBSET RouteIds  OBVIOUS
  <2> QED  BY <2>1, <2>2 DEF RouteTables
<1>3. conf \in Configs  BY <1>2 DEF Init, Configs
<1>4. tx \in Txs /\ tx.pc = "idle" /\ tx.amount = 0  BY IdleTx DEF Init
<1>5. Executor \in Holders  BY DEF Holders
<1>6. allow \in Allowances /\ granted = allow  BY DEF Init, Allowances
<1>7. \A t \in Tokens : bal[t][Executor] \in Nat /\ Loan(allow[t]) \in Nat
  BY <1>1, <1>5, <1>6, LoanType DEF Ledgers, Allowances
<1>8. FundsCovered
  <2>1. \A t \in Tokens : bal[t][Executor] - Loan(allow[t]) >= bal[t][Executor] - Loan(allow[t]) + 0
    BY <1>7
  <2> QED  BY <1>1, <1>4, <1>6, <2>1 DEF FundsCovered, Own, Loan
<1>9. TypeOK  BY <1>1, <1>3, <1>4, <1>6 DEF TypeOK
<1> QED  BY <1>1, <1>4, <1>6, <1>8, <1>9 DEF Inv, Quiet, Running, Measured, Calling, Idle

\* The balances and claims of the contract are numbers.
LEMMA Numbers ==
  ASSUME TypeOK, NEW k \in Tokens
  PROVE  /\ bal[k][Executor] \in Nat /\ settled[k][Executor] \in Nat
         /\ Loan(allow[k]) \in Nat /\ Loan(granted[k]) \in Nat
         /\ allow[k] \in [Routers -> Nat]
<1>1. Executor \in Holders  BY DEF Holders
<1>2. allow[k] \in [Routers -> Nat] /\ granted[k] \in [Routers -> Nat]  BY DEF TypeOK, Allowances
<1> QED  BY <1>1, <1>2, LoanType DEF TypeOK, Ledgers

\* FundsCovered, in terms of the claims.
Covered(b, a, in, n) ==
  \A t \in Tokens : b[t][Executor] - Loan(a[t]) >=
    settled[t][Executor] - Loan(granted[t]) + (IF t = in THEN n ELSE 0)

\* The first transfer: the owner has paid, the contract holds the amount.
LEMMA BeginInv ==
  ASSUME Inv, NEW c \in Calls, Begin(c)
  PROVE  Inv'
<1> DEFINE start == conf.routes[c.id].start
           o == conf.owner
           m == Move(bal, start, o, Executor, c.initial)
<1>0. bal \in Ledgers /\ settled = bal /\ granted = allow /\ conf \in Configs /\ c.initial \in Nat
      /\ allow \in Allowances /\ TypeOK
  BY DEF Inv, TypeOK, Quiet, Begin, Calls
<1>1. c.id \in DOMAIN conf.routes  BY DEF Begin
<1>2. /\ start \in Tokens /\ conf.routes[c.id].mid \in Tokens
      /\ conf.routes[c.id].routers[1] \in Routers /\ conf.routes[c.id].routers[2] \in Routers
  BY <1>0, <1>1, RouteType
<1>3. o \in Holders /\ o # Executor /\ Executor \in Holders
  BY <1>0, OwnerType DEF Holders
<1>4. c.initial <= bal[start][o] /\ bal' = m
  <2>1. bal[start][o] >= c.initial /\ bal' = m  BY DEF Begin
  <2>2. bal[start][o] \in Nat  BY <1>0, <1>2, <1>3 DEF Ledgers
  <2> QED  BY <1>0, <2>1, <2>2
<1>5. m \in Ledgers  BY <1>0, <1>2, <1>3, <1>4, MoveType
<1>6. /\ \A k \in Tokens : k # start => m[k] = bal[k]
      /\ \A h \in Holders \ {o, Executor} : m[start][h] = bal[start][h]
      /\ m[start][o] = bal[start][o] - c.initial
      /\ m[start][Executor] = bal[start][Executor] + c.initial
  <2>1. bal \in IntLedgers /\ c.initial \in Int  BY <1>0 DEF Ledgers, IntLedgers
  <2>2. Moved(bal, m, start, o, Executor, c.initial)  BY <1>2, <1>3, <2>1, MoveAt
  <2> HIDE DEF start, o, m
  <2> QED  BY <1>3, <2>2 DEF Moved
<1> HIDE DEF m
<1>7. /\ tx' = [pc |-> "leg1", call |-> c, token |-> start, amount |-> c.initial, before |-> 0]
      /\ settled' = settled /\ conf' = conf /\ allow' = allow /\ granted' = granted
  BY DEF Begin
<1>8. /\ tx'.pc = "leg1" /\ tx'.call = c /\ tx'.token = start /\ tx'.amount = c.initial
      /\ ~Idle' /\ ~Calling' /\ Route' = conf.routes[c.id]
  BY <1>7 DEF Idle, Calling, Route
<1>9. TypeOK'
  <2>1. tx' \in Txs  BY <1>0, <1>2, <1>7 DEF Txs, Pcs
  <2> QED  BY <1>0, <1>4, <1>5, <1>7, <2>1 DEF TypeOK
<1>10. FundsCovered'
  <2>1. \A t \in Tokens : m[t][Executor] - Loan(allow[t]) >=
           bal[t][Executor] - Loan(allow[t]) + (IF t = start THEN c.initial ELSE 0)
    <3> SUFFICES ASSUME NEW t \in Tokens
                 PROVE  m[t][Executor] - Loan(allow[t]) >=
                          bal[t][Executor] - Loan(allow[t]) + (IF t = start THEN c.initial ELSE 0)
      OBVIOUS
    <3>1. bal[t][Executor] \in Nat /\ Loan(allow[t]) \in Nat  BY <1>0, Numbers
    <3>2. CASE t = start  BY <1>0, <1>6, <3>1, <3>2
    <3>3. CASE t # start  BY <1>6, <3>1, <3>3
    <3> QED  BY <3>2, <3>3
  <2> QED  BY <1>0, <1>4, <1>7, <1>8, <2>1 DEF FundsCovered, Own, Loan
<1>11. Passed'
  BY <1>1, <1>7, <1>8 DEF Begin, Passed
<1>12. Spent'
  <2>1. bal'[start][o] = settled[start][o] - c.initial  BY <1>0, <1>4, <1>6
  <2>2. \A k \in Tokens : \A h \in Accounts :
           bal'[k][h] = settled[k][h] \/ (h = o /\ k = start)
    BY <1>0, <1>4, <1>6, AddressAssumption DEF Holders
  <2>3. \A k \in Tokens : \A r \in Routers : allow'[k][r] <= granted'[k][r]
    BY <1>0, <1>7 DEF Allowances
  <2> QED  BY <1>7, <1>8, <2>1, <2>2, <2>3 DEF Spent
<1> QED  BY <1>8, <1>9, <1>10, <1>11, <1>12 DEF Inv, Quiet, Running, Measured

\* A running call's route and the parties of its leg.
LEMMA RunningType ==
  ASSUME Inv, ~Idle
  PROVE  /\ Passed /\ Spent
         /\ Route.start \in Tokens /\ Route.mid \in Tokens
         /\ Route.routers[1] \in Routers /\ Route.routers[2] \in Routers
         /\ Router \in Routers /\ TokenOut \in Tokens /\ tx.token \in Tokens
<1>1. Passed /\ Spent /\ conf \in Configs /\ tx \in Txs  BY DEF Inv, Running, TypeOK
<1>2. Route.start \in Tokens /\ Route.mid \in Tokens
      /\ Route.routers[1] \in Routers /\ Route.routers[2] \in Routers
  BY <1>1, RouteType DEF Passed, Route
<1> QED  BY <1>1, <1>2 DEF Router, TokenOut, Txs

\* A leg begins: the amount in hand becomes the router's claim.
LEMMA ApproveInv ==
  ASSUME Inv, NEW amountIn \in Nat, Approve(amountIn)
  PROVE  Inv'
<1>1. ~Idle /\ ~Calling /\ tx.pc \in {"leg1", "leg2"}  BY DEF Approve, Idle, Calling
<1>2. /\ Passed /\ Spent /\ Router \in Routers /\ TokenOut \in Tokens /\ tx.token \in Tokens
      /\ Route.start \in Tokens /\ Route.mid \in Tokens
  BY <1>1, RunningType
<1>3. TypeOK /\ tx \in Txs /\ tx.amount \in Nat  BY DEF Inv, TypeOK, Txs
<1>4. PICK approved \in Nat :
        /\ approved <= tx.amount
        /\ allow' = [allow EXCEPT ![tx.token][Router] = approved]
  BY <1>3 DEF Approve
<1>5. /\ tx' = [tx EXCEPT !.pc = IF First THEN "call1" ELSE "call2",
                          !.amount = 0, !.before = bal[TokenOut][Executor]]
      /\ bal' = bal /\ settled' = settled /\ granted' = granted /\ conf' = conf
      /\ Router \in conf.routers /\ tx.token \in conf.tokens /\ TokenOut \in conf.tokens
  BY DEF Approve
<1>6. bal[TokenOut][Executor] \in Nat  BY <1>2, <1>3, Numbers
<1>7. /\ tx' \in Txs /\ tx'.pc = (IF First THEN "call1" ELSE "call2") /\ tx'.call = tx.call
      /\ tx'.token = tx.token /\ tx'.amount = 0 /\ tx'.before = bal[TokenOut][Executor]
  BY <1>3, <1>5, <1>6 DEF Txs, Pcs
<1>8. ~Idle' /\ Calling' /\ Route' = Route /\ First' = First
  <2>1. First <=> tx.pc = "leg1"  BY <1>1 DEF First
  <2> QED  BY <1>1, <1>5, <1>7, <2>1 DEF Idle, Calling, Route, First
<1>9. TokenOut' = TokenOut /\ Router' = Router  BY <1>8 DEF TokenOut, Router
<1>10. /\ allow' \in Allowances
       /\ \A k \in Tokens : k # tx.token => allow'[k] = allow[k]
       /\ allow'[tx.token] = [allow[tx.token] EXCEPT ![Router] = approved]
  <2>1. allow \in Allowances  BY <1>3 DEF TypeOK
  <2> QED  BY <1>2, <1>4, <2>1 DEF Allowances
<1>11. TypeOK'  BY <1>3, <1>5, <1>7, <1>10 DEF TypeOK
<1>12. Covered(bal, allow', tx.token, 0)
  <2> SUFFICES ASSUME NEW k \in Tokens
               PROVE  bal[k][Executor] - Loan(allow'[k]) >= settled[k][Executor] - Loan(granted[k]) +
                                                              (IF k = tx.token THEN 0 ELSE 0)
    BY DEF Covered
  <2>1. /\ bal[k][Executor] \in Nat /\ settled[k][Executor] \in Nat
        /\ Loan(allow[k]) \in Nat /\ Loan(granted[k]) \in Nat /\ allow[k] \in [Routers -> Nat]
    BY <1>3, Numbers
  <2>2. bal[k][Executor] - Loan(allow[k]) >= settled[k][Executor] - Loan(granted[k]) +
                                              (IF k = tx.token THEN tx.amount ELSE 0)
    BY DEF Inv, FundsCovered, Own, Loan
  <2>3. CASE k # tx.token
    <3>1. allow'[k] = allow[k]  BY <1>10, <2>3
    <3> QED  BY <2>1, <2>2, <2>3, <3>1
  <2>4. CASE k = tx.token
    <3>1. Loan(allow'[k]) = Loan(allow[k]) - allow[k][Router] + approved
      BY <1>2, <1>10, <2>1, <2>4, LoanSet
    <3>2. allow[k][Router] \in Nat  BY <1>2, <2>1
    <3>3. bal[k][Executor] - Loan(allow[k]) >= settled[k][Executor] - Loan(granted[k]) + tx.amount
      BY <2>2, <2>4
    <3> QED  BY <1>3, <1>4, <2>1, <3>1, <3>2, <3>3
  <2> QED  BY <2>3, <2>4
<1>13. FundsCovered'  BY <1>5, <1>7, <1>12 DEF Covered, FundsCovered, Own, Loan
<1>14. Measured'
  <2>1. bal[TokenOut][Executor] - Loan(allow'[TokenOut]) >=
          settled[TokenOut][Executor] - Loan(granted[TokenOut]) + 0
    BY <1>2, <1>12 DEF Covered
  <2>2. settled[TokenOut][Executor] \in Nat /\ Loan(granted[TokenOut]) \in Nat  BY <1>2, <1>3, Numbers
  <2>3. bal[TokenOut][Executor] - Loan(allow'[TokenOut]) >=
          settled[TokenOut][Executor] - Loan(granted[TokenOut])
    BY <2>1, <2>2
  <2> QED  BY <1>5, <1>7, <1>9, <2>3 DEF Measured, Loan
<1>15. Passed'
  <2>1. CASE tx.pc = "leg1"
    BY <1>2, <1>5, <1>7, <1>8, <2>1 DEF Passed, First, TokenOut, Router
  <2>2. CASE tx.pc = "leg2"
    BY <1>2, <1>5, <1>7, <1>8, <2>2 DEF Passed, First, TokenOut, Router
  <2> QED  BY <1>1, <2>1, <2>2
<1>16. Spent'
  <2>1. <<tx.token, Router>> \in {<<Route.start, Route.routers[1]>>, <<Route.mid, Route.routers[2]>>}
    <3>1. CASE tx.pc = "leg1"  BY <1>2, <3>1 DEF Passed, First, Router
    <3>2. CASE tx.pc = "leg2"  BY <1>2, <3>2 DEF Passed, First, Router
    <3> QED  BY <1>1, <3>1, <3>2
  <2>2. ASSUME NEW k \in Tokens, NEW r \in Routers, <<k, r>> # <<tx.token, Router>>
        PROVE  allow'[k][r] = allow[k][r]
    BY <1>2, <1>3, <1>10, <2>2 DEF TypeOK, Allowances
  <2>3. \A k \in Tokens : \A r \in Routers :
           \/ allow'[k][r] <= granted[k][r]
           \/ <<k, r>> \in {<<Route.start, Route.routers[1]>>, <<Route.mid, Route.routers[2]>>}
    <3> SUFFICES ASSUME NEW k \in Tokens, NEW r \in Routers
                 PROVE  \/ allow'[k][r] <= granted[k][r]
                        \/ <<k, r>> \in {<<Route.start, Route.routers[1]>>, <<Route.mid, Route.routers[2]>>}
      OBVIOUS
    <3>1. CASE <<k, r>> = <<tx.token, Router>>  BY <2>1, <3>1
    <3>2. CASE <<k, r>> # <<tx.token, Router>>
      <4>1. allow'[k][r] = allow[k][r]  BY <2>2, <3>2
      <4> QED  BY <1>2, <4>1 DEF Spent
    <3> QED  BY <3>1, <3>2
  <2> QED  BY <1>2, <1>5, <1>7, <1>8, <2>3 DEF Spent
<1> QED  BY <1>8, <1>11, <1>13, <1>14, <1>15, <1>16 DEF Inv, Quiet, Running

\* A router's claim pays for what it takes: the contract's own stays as it is.
LEMMA PullMoves ==
  ASSUME TypeOK, NEW r \in Routers, NEW t \in Tokens, NEW n \in Nat, Pull(r, t, n)
  PROVE  /\ bal' \in Ledgers /\ allow' \in Allowances
         /\ \A k \in Tokens : /\ bal'[k][Executor] - Loan(allow'[k]) = bal[k][Executor] - Loan(allow[k])
                             /\ Loan(allow'[k]) <= Loan(allow[k])
         /\ \A k \in Tokens : \A h \in Accounts : bal'[k][h] = bal[k][h]
         /\ \A k \in Tokens : \A q \in Routers : allow'[k][q] <= allow[k][q]
<1> DEFINE m == Move(bal, t, Executor, r, n)
<1>1. /\ bal \in Ledgers /\ allow \in Allowances /\ n <= allow[t][r] /\ n <= bal[t][Executor]
      /\ bal' = m /\ allow' = [allow EXCEPT ![t][r] = @ - n]
  BY DEF TypeOK, Pull
<1>2. Executor \in Holders /\ r \in Holders /\ r # Executor /\ r \notin Accounts
      /\ Accounts \subseteq Holders \ {Executor, r}
  BY AddressAssumption DEF Holders
<1>3. m \in Ledgers  BY <1>1, <1>2, MoveType
<1>4. /\ \A k \in Tokens : k # t => m[k] = bal[k]
      /\ \A h \in Holders \ {Executor, r} : m[t][h] = bal[t][h]
      /\ m[t][Executor] = bal[t][Executor] - n
  <2>1. bal \in IntLedgers /\ n \in Int  BY <1>1 DEF Ledgers, IntLedgers
  <2>2. Moved(bal, m, t, Executor, r, n)  BY <1>2, <2>1, MoveAt
  <2> HIDE DEF m
  <2> QED  BY <1>2, <2>2 DEF Moved
<1> HIDE DEF m
<1>5. allow[t][r] \in Nat /\ allow[t][r] - n \in Nat  BY <1>1 DEF Allowances
<1>6. /\ allow' \in Allowances
      /\ \A k \in Tokens : k # t => allow'[k] = allow[k]
      /\ allow'[t] = [allow[t] EXCEPT ![r] = allow[t][r] - n]
  BY <1>1, <1>5 DEF Allowances
<1>7. ASSUME NEW k \in Tokens
      PROVE  /\ bal'[k][Executor] - Loan(allow'[k]) = bal[k][Executor] - Loan(allow[k])
             /\ Loan(allow'[k]) <= Loan(allow[k])
  <2>1. bal[k][Executor] \in Nat /\ Loan(allow[k]) \in Nat /\ allow[k] \in [Routers -> Nat]
    BY Numbers
  <2>2. CASE k # t  BY <1>1, <1>4, <1>6, <2>1, <2>2
  <2>3. CASE k = t
    <3>1. Loan(allow'[k]) = Loan(allow[k]) - allow[k][r] + (allow[k][r] - n)
      BY <1>5, <1>6, <2>1, <2>3, LoanSet
    <3>2. bal'[k][Executor] = bal[k][Executor] - n  BY <1>1, <1>4, <2>3
    <3> QED  BY <1>5, <2>1, <2>3, <3>1, <3>2
  <2> QED  BY <2>2, <2>3
<1>8. \A k \in Tokens : \A h \in Accounts : bal'[k][h] = bal[k][h]
  BY <1>1, <1>2, <1>4
<1>9. \A k \in Tokens : \A q \in Routers : allow'[k][q] <= allow[k][q]
  <2> SUFFICES ASSUME NEW k \in Tokens, NEW q \in Routers PROVE allow'[k][q] <= allow[k][q]
    OBVIOUS
  <2>1. allow[k][q] \in Nat /\ allow[t] \in [Routers -> Nat]  BY <1>1 DEF Allowances
  <2>2. CASE k # t \/ q # r
    <3>1. allow'[k][q] = allow[k][q]  BY <1>6, <2>1, <2>2
    <3> QED  BY <2>1, <3>1
  <2>3. CASE k = t /\ q = r
    <3>1. allow'[k][q] = allow[k][q] - n  BY <1>6, <2>1, <2>3
    <3> QED  BY <2>1, <3>1
  <2> QED  BY <2>2, <2>3
<1> QED  BY <1>1, <1>3, <1>6, <1>7, <1>8, <1>9

\* A step of a router in a call: it leaves the call and the accounts alone, no
\* claim grows and the contract's own does not shrink.
RouterStep ==
  /\ Calling
  /\ bal' \in Ledgers /\ allow' \in Allowances
  /\ UNCHANGED <<settled, granted, conf, tx>>
  /\ \A k \in Tokens : /\ bal'[k][Executor] - Loan(allow'[k]) >= bal[k][Executor] - Loan(allow[k])
                      /\ Loan(allow'[k]) <= Loan(allow[k])
  /\ \A k \in Tokens : \A h \in Accounts : bal'[k][h] = bal[k][h]
  /\ \A k \in Tokens : \A q \in Routers : allow'[k][q] <= allow[k][q]

LEMMA RouterInv ==
  ASSUME Inv, RouterStep
  PROVE  Inv'
<1>1. Calling /\ ~Idle /\ TypeOK  BY DEF RouterStep, Calling, Idle, Inv
<1>2. settled' = settled /\ granted' = granted /\ conf' = conf /\ tx' = tx
  BY DEF RouterStep
<1>3. Route' = Route /\ TokenOut' = TokenOut /\ ~Idle' /\ Calling'
  BY <1>1, <1>2 DEF Route, TokenOut, First, Idle, Calling
<1>4. Passed /\ Spent /\ TokenOut \in Tokens  BY <1>1, RunningType
<1>5. TypeOK'  BY <1>1, <1>2 DEF RouterStep, TypeOK
<1>6. FundsCovered'
  <2> SUFFICES ASSUME NEW k \in Tokens
               PROVE  bal'[k][Executor] - Loan(allow'[k]) >= settled[k][Executor] - Loan(granted[k]) +
                                                               (IF k = tx.token THEN tx.amount ELSE 0)
    BY <1>2 DEF FundsCovered, Own, Loan
  <2>1. bal[k][Executor] - Loan(allow[k]) >= settled[k][Executor] - Loan(granted[k]) +
                                              (IF k = tx.token THEN tx.amount ELSE 0)
    BY DEF Inv, FundsCovered, Own, Loan
  <2>2. bal'[k][Executor] - Loan(allow'[k]) >= bal[k][Executor] - Loan(allow[k])  BY DEF RouterStep
  <2>3. bal[k][Executor] \in Nat /\ settled[k][Executor] \in Nat /\ Loan(allow[k]) \in Nat
        /\ Loan(granted[k]) \in Nat
    BY <1>1, Numbers
  <2>4. bal'[k][Executor] \in Nat /\ Loan(allow'[k]) \in Nat /\ tx.amount \in Nat
    <3>1. Executor \in Holders  BY DEF Holders
    <3> QED  BY <1>1, <3>1, LoanType DEF RouterStep, Ledgers, Allowances, TypeOK, Txs
  <2> QED  BY <2>1, <2>2, <2>3, <2>4
<1>7. Measured'
  <2>1. tx.before - Loan(allow[TokenOut]) >= settled[TokenOut][Executor] - Loan(granted[TokenOut])
    BY <1>1 DEF Inv, Measured
  <2>2. Loan(allow'[TokenOut]) <= Loan(allow[TokenOut])  BY <1>4 DEF RouterStep
  <2>3. Loan(allow[TokenOut]) \in Nat /\ Loan(allow'[TokenOut]) \in Nat /\ tx.before \in Nat
        /\ settled[TokenOut][Executor] \in Nat /\ Loan(granted[TokenOut]) \in Nat
    BY <1>1, <1>4, Numbers, LoanType DEF RouterStep, Allowances, TypeOK, Txs
  <2>4. tx.before - Loan(allow'[TokenOut]) >= settled[TokenOut][Executor] - Loan(granted[TokenOut])
    BY <2>1, <2>2, <2>3
  <2> QED  BY <1>2, <1>3, <2>4 DEF Measured, Loan
<1>8. Passed'  BY <1>2, <1>3, <1>4 DEF Passed
<1>9. Spent'
  <2>1. bal'[Route.start][conf.owner] = settled[Route.start][conf.owner] - tx.call.initial
    <3>1. conf.owner \in Accounts /\ Route.start \in Tokens  BY <1>1, OwnerType, RunningType DEF TypeOK
    <3> QED  BY <1>4, <3>1 DEF RouterStep, Spent
  <2>2. \A k \in Tokens : \A h \in Accounts :
          bal'[k][h] = settled[k][h] \/ (h = conf.owner /\ k = Route.start)
    BY <1>4 DEF RouterStep, Spent
  <2>3. \A k \in Tokens : \A q \in Routers :
          \/ allow'[k][q] <= granted[k][q]
          \/ <<k, q>> \in {<<Route.start, Route.routers[1]>>, <<Route.mid, Route.routers[2]>>}
    <3> SUFFICES ASSUME NEW k \in Tokens, NEW q \in Routers, allow[k][q] <= granted[k][q]
                 PROVE  allow'[k][q] <= granted[k][q]
      BY <1>4 DEF Spent
    <3>1. allow'[k][q] <= allow[k][q]  BY DEF RouterStep
    <3>2. allow'[k][q] \in Nat /\ allow[k][q] \in Nat /\ granted[k][q] \in Nat
      BY <1>1 DEF RouterStep, Allowances, TypeOK
    <3> QED  BY <3>1, <3>2
  <2> QED  BY <1>2, <1>3, <2>1, <2>2, <2>3 DEF Spent
<1> QED  BY <1>3, <1>5, <1>6, <1>7, <1>8, <1>9 DEF Inv, Quiet, Running

\* A router takes: in a call a step of a router, between calls a commit.
LEMMA PullInv ==
  ASSUME Inv, NEW r \in Routers, NEW t \in Tokens, NEW n \in Nat, Pull(r, t, n)
  PROVE  Inv'
<1>1. TypeOK  BY DEF Inv
<1>2. /\ bal' \in Ledgers /\ allow' \in Allowances
      /\ \A k \in Tokens : /\ bal'[k][Executor] - Loan(allow'[k]) = bal[k][Executor] - Loan(allow[k])
                          /\ Loan(allow'[k]) <= Loan(allow[k])
      /\ \A k \in Tokens : \A h \in Accounts : bal'[k][h] = bal[k][h]
      /\ \A k \in Tokens : \A q \in Routers : allow'[k][q] <= allow[k][q]
  BY <1>1, PullMoves
<1>3. CASE Idle
  <2>1. settled' = bal' /\ granted' = allow' /\ conf' = conf /\ tx' = tx
    BY <1>3 DEF Pull
  <2>2. conf' \in Configs /\ tx' \in Txs /\ tx'.pc = "idle" /\ tx'.amount = 0
    BY <1>3, <2>1 DEF Inv, TypeOK, Quiet, Idle
  <2> QED  BY <1>2, <2>1, <2>2, QuietInv
<1>4. CASE ~Idle
  <2>1. Calling /\ UNCHANGED <<settled, granted, conf, tx>>  BY <1>4 DEF Pull
  <2>2. ASSUME NEW k \in Tokens
        PROVE  bal'[k][Executor] - Loan(allow'[k]) >= bal[k][Executor] - Loan(allow[k])
    <3>1. bal[k][Executor] \in Nat /\ Loan(allow[k]) \in Nat  BY <1>1, Numbers
    <3>2. bal'[k][Executor] - Loan(allow'[k]) = bal[k][Executor] - Loan(allow[k])  BY <1>2
    <3> QED  BY <3>1, <3>2
  <2>3. RouterStep  BY <1>2, <2>1, <2>2 DEF RouterStep
  <2> QED  BY <2>3, RouterInv
<1> QED  BY <1>3, <1>4

\* A router pays: the contract has more.
LEMMA GiveInv ==
  ASSUME Inv, NEW r \in Routers, NEW t \in Tokens, NEW n \in Nat, Give(r, t, n)
  PROVE  Inv'
<1> DEFINE m == Move(bal, t, r, Executor, n)
<1>1. /\ bal \in Ledgers /\ TypeOK /\ allow \in Allowances /\ n <= bal[t][r] /\ bal' = m
      /\ Calling /\ allow' = allow /\ UNCHANGED <<settled, granted, conf, tx>>
  BY DEF Inv, TypeOK, Give
<1>2. Executor \in Holders /\ r \in Holders /\ r # Executor
      /\ Accounts \subseteq Holders \ {Executor, r}
  BY AddressAssumption DEF Holders
<1>3. m \in Ledgers  BY <1>1, <1>2, MoveType
<1>4. /\ \A k \in Tokens : k # t => m[k] = bal[k]
      /\ \A h \in Holders \ {Executor, r} : m[t][h] = bal[t][h]
      /\ m[t][Executor] = bal[t][Executor] + n
  <2>1. bal \in IntLedgers /\ n \in Int  BY <1>1 DEF Ledgers, IntLedgers
  <2>2. Moved(bal, m, t, r, Executor, n)  BY <1>2, <2>1, MoveAt
  <2> HIDE DEF m
  <2> QED  BY <1>2, <2>2 DEF Moved
<1> HIDE DEF m
<1>5. ASSUME NEW k \in Tokens
      PROVE  /\ bal'[k][Executor] - Loan(allow'[k]) >= bal[k][Executor] - Loan(allow[k])
             /\ Loan(allow'[k]) <= Loan(allow[k])
  <2>1. bal[k][Executor] \in Nat /\ Loan(allow[k]) \in Nat  BY <1>1, Numbers
  <2>2. CASE k = t  BY <1>1, <1>4, <2>1, <2>2
  <2>3. CASE k # t  BY <1>1, <1>4, <2>1, <2>3
  <2> QED  BY <2>2, <2>3
<1>6. \A k \in Tokens : \A h \in Accounts : bal'[k][h] = bal[k][h]  BY <1>1, <1>2, <1>4
<1>7. \A k \in Tokens : \A q \in Routers : allow'[k][q] <= allow[k][q]  BY <1>1 DEF Allowances
<1>8. RouterStep  BY <1>1, <1>3, <1>5, <1>6, <1>7 DEF RouterStep
<1> QED  BY <1>8, RouterInv

\* A leg ends: what the contract gained since the approval is in hand.
LEMMA ReturnInv ==
  ASSUME Inv, NEW minOut \in Nat, Return(minOut)
  PROVE  Inv'
<1>1. Calling /\ ~Idle /\ tx.pc \in {"call1", "call2"} /\ TypeOK
  BY DEF Return, Calling, Idle, Inv
<1>2. /\ Passed /\ Spent /\ TokenOut \in Tokens /\ Route.start \in Tokens /\ Route.mid \in Tokens
  BY <1>1, RunningType
<1>3. /\ tx' = [tx EXCEPT !.pc = IF First THEN "leg2" ELSE "pay",
                          !.token = TokenOut, !.amount = Output, !.before = 0]
      /\ bal' = bal /\ allow' = allow /\ settled' = settled /\ granted' = granted /\ conf' = conf
      /\ Output >= minOut
  BY DEF Return
<1>4. tx \in Txs /\ tx.before \in Nat /\ bal[TokenOut][Executor] \in Nat
  BY <1>1, <1>2, Numbers DEF TypeOK, Txs
<1>5. Output \in Nat /\ Output = bal[TokenOut][Executor] - tx.before
  BY <1>3, <1>4 DEF Output
<1>6. /\ tx' \in Txs /\ tx'.pc = (IF First THEN "leg2" ELSE "pay") /\ tx'.call = tx.call
      /\ tx'.token = TokenOut /\ tx'.amount = Output
  BY <1>2, <1>3, <1>4, <1>5 DEF Txs, Pcs
<1>7. ~Idle' /\ ~Calling' /\ Route' = Route
  BY <1>3, <1>6 DEF Idle, Calling, Route
<1>8. TypeOK'  BY <1>1, <1>3, <1>6 DEF TypeOK
<1>9. Covered(bal, allow, TokenOut, Output)
  <2> SUFFICES ASSUME NEW k \in Tokens
               PROVE  bal[k][Executor] - Loan(allow[k]) >= settled[k][Executor] - Loan(granted[k]) +
                                                             (IF k = TokenOut THEN Output ELSE 0)
    BY DEF Covered
  <2>1. /\ bal[k][Executor] \in Nat /\ settled[k][Executor] \in Nat
        /\ Loan(allow[k]) \in Nat /\ Loan(granted[k]) \in Nat /\ tx.amount \in Nat
    BY <1>1, Numbers DEF TypeOK, Txs
  <2>2. CASE k # TokenOut
    <3>1. bal[k][Executor] - Loan(allow[k]) >= settled[k][Executor] - Loan(granted[k]) +
                                                (IF k = tx.token THEN tx.amount ELSE 0)
      BY DEF Inv, FundsCovered, Own, Loan
    <3> QED  BY <2>1, <2>2, <3>1
  <2>3. CASE k = TokenOut
    <3>1. tx.before - Loan(allow[k]) >= settled[k][Executor] - Loan(granted[k])
      BY <1>1, <2>3 DEF Inv, Measured
    <3> HIDE DEF Output
    <3>2. Output = bal[k][Executor] - tx.before  BY <1>5, <2>3
    <3> QED  BY <1>4, <1>5, <2>1, <2>3, <3>1, <3>2
  <2> QED  BY <2>2, <2>3
<1>10. FundsCovered'  BY <1>3, <1>6, <1>9 DEF Covered, FundsCovered, Own, Loan
<1>11. Passed'
  <2>1. CASE tx.pc = "call1"
    BY <1>2, <1>3, <1>6, <1>7, <2>1 DEF Passed, First, TokenOut
  <2>2. CASE tx.pc = "call2"
    BY <1>2, <1>3, <1>6, <1>7, <2>2 DEF Passed, First, TokenOut
  <2> QED  BY <1>1, <2>1, <2>2
<1>12. Spent'  BY <1>2, <1>3, <1>6, <1>7 DEF Spent
<1> QED  BY <1>7, <1>8, <1>10, <1>11, <1>12 DEF Inv, Quiet, Running, Measured

\* Paying out: what goes to the owner is what the call brought in.
LEMMA SettleMoves ==
  ASSUME Inv, Settle
  PROVE  /\ Passed /\ Spent /\ tx.pc = "pay" /\ Route.start \in Tokens /\ Route.mid \in Tokens
         /\ Route.routers[1] \in Routers /\ Route.routers[2] \in Routers
         /\ bal' \in Ledgers /\ settled' = bal' /\ allow' = allow /\ granted' = allow /\ conf' = conf
         /\ \A k \in Tokens : bal'[k][Executor] - Loan(allow[k]) >= settled[k][Executor] - Loan(granted[k])
         /\ bal'[Route.start][conf.owner] = bal[Route.start][conf.owner] + tx.amount
         /\ \A h \in Holders \ {Executor, conf.owner} : bal'[Route.start][h] = bal[Route.start][h]
         /\ \A k \in Tokens : k # Route.start => bal'[k] = bal[k]
<1> DEFINE s == Route.start
           o == conf.owner
           n == tx.amount
           m == Move(bal, s, Executor, o, n)
<1>1. /\ bal \in Ledgers /\ TypeOK /\ conf \in Configs /\ n \in Nat
  BY DEF Inv, TypeOK, Txs
<1>2. tx.pc = "pay" /\ ~Idle /\ tx.token = s /\ bal' = m /\ settled' = bal' /\ conf' = conf
      /\ allow' = allow /\ granted' = allow /\ bal[s][Executor] >= n
  BY DEF Settle, Idle
<1>3. /\ Passed /\ Spent /\ s \in Tokens /\ Route.mid \in Tokens
      /\ Route.routers[1] \in Routers /\ Route.routers[2] \in Routers
  BY <1>2, RunningType
<1>4. o \in Holders /\ o # Executor /\ Executor \in Holders
  BY <1>1, OwnerType DEF Holders
<1>5. /\ m \in Ledgers
      /\ \A k \in Tokens : k # s => m[k] = bal[k]
      /\ \A h \in Holders \ {Executor, o} : m[s][h] = bal[s][h]
      /\ m[s][Executor] = bal[s][Executor] - n
      /\ m[s][o] = bal[s][o] + n
  <2> HIDE DEF s, o, n
  <2>1. bal \in IntLedgers /\ n \in Int  BY <1>1 DEF Ledgers, IntLedgers
  <2>2. n <= bal[s][Executor]
    <3>1. bal[s][Executor] \in Nat  BY <1>1, <1>3, Numbers
    <3> QED  BY <1>1, <1>2, <3>1
  <2>3. m \in Ledgers  BY <1>1, <1>3, <1>4, <2>2, MoveType
  <2>4. Moved(bal, m, s, Executor, o, n)  BY <1>3, <1>4, <2>1, MoveAt
  <2> HIDE DEF m
  <2> QED  BY <1>4, <2>3, <2>4 DEF Moved
<1>6. ASSUME NEW k \in Tokens
      PROVE  m[k][Executor] - Loan(allow[k]) >= settled[k][Executor] - Loan(granted[k])
  <2>1. bal[k][Executor] - Loan(allow[k]) >= settled[k][Executor] - Loan(granted[k]) +
                                              (IF k = s THEN n ELSE 0)
    BY <1>2 DEF Inv, FundsCovered, Own, Loan
  <2>2. bal[k][Executor] \in Nat /\ settled[k][Executor] \in Nat /\ Loan(allow[k]) \in Nat
        /\ Loan(granted[k]) \in Nat
    BY <1>1, Numbers
  <2> HIDE DEF s, n, m
  <2>3. CASE k = s
    <3>1. m[k][Executor] = bal[k][Executor] - n  BY <1>5, <2>3
    <3>2. bal[k][Executor] - Loan(allow[k]) >= settled[k][Executor] - Loan(granted[k]) + n  BY <2>1, <2>3
    <3> QED  BY <1>1, <2>2, <3>1, <3>2
  <2>4. CASE k # s
    <3>1. m[k] = bal[k]  BY <1>5, <2>4
    <3>2. bal[k][Executor] - Loan(allow[k]) >= settled[k][Executor] - Loan(granted[k]) + 0  BY <2>1, <2>4
    <3> QED  BY <2>2, <3>1, <3>2
  <2> QED  BY <2>3, <2>4
<1> QED  BY <1>2, <1>3, <1>5, <1>6

\* After the payment the contract is idle again, with a well-typed ledger.
LEMMA SettleInv ==
  ASSUME Inv, Settle
  PROVE  Inv'
<1>1. bal' \in Ledgers /\ settled' = bal' /\ conf' = conf /\ allow' = allow /\ granted' = allow
  BY SettleMoves
<1>2. conf' \in Configs /\ allow' \in Allowances  BY <1>1 DEF Inv, TypeOK
<1>3. tx' \in Txs /\ tx'.pc = "idle" /\ tx'.amount = 0  BY IdleTx DEF Settle
<1> QED  BY <1>1, <1>2, <1>3, QuietInv

\* A failed transaction leaves what was committed, which is well typed.
LEMMA RevertInv ==
  ASSUME Inv, Revert
  PROVE  Inv'
<1>1. /\ bal' = settled /\ settled' = settled /\ allow' = granted /\ granted' = granted
      /\ conf' = conf /\ tx' = NoTx
  BY DEF Revert
<1>2. bal' \in Ledgers /\ settled' = bal' /\ allow' \in Allowances /\ granted' = allow' /\ conf' \in Configs
  BY <1>1 DEF Inv, TypeOK
<1>3. tx' \in Txs /\ tx'.pc = "idle" /\ tx'.amount = 0  BY <1>1, IdleTx
<1> QED  BY <1>2, <1>3, QuietInv

\* A withdrawal takes from the contract only.
LEMMA WithdrawMoves ==
  ASSUME Inv, NEW t \in Tokens, NEW n \in Nat, NEW to \in Holders, EmergencyWithdraw(t, n, to)
  PROVE  /\ bal' \in Ledgers /\ settled' = bal' /\ conf' = conf /\ tx' = tx /\ Idle
         /\ allow' = allow /\ granted' = granted /\ granted = allow
         /\ \A k \in Tokens : \A h \in Holders \ {Executor} : bal'[k][h] >= settled[k][h]
<1> DEFINE m == Move(bal, t, Executor, to, n)
<1>1. /\ bal \in Ledgers /\ Idle /\ settled = bal /\ bal' = m /\ settled' = bal'
      /\ allow' = allow /\ granted' = granted /\ granted = allow
      /\ conf' = conf /\ tx' = tx /\ bal[t][Executor] >= n /\ Executor \in Holders
  BY DEF Inv, TypeOK, Quiet, EmergencyWithdraw, Holders
<1>2. \A k \in Tokens : \A h \in Holders : bal[k][h] \in Nat  BY <1>1 DEF Ledgers
<1>3. n <= bal[t][Executor]  BY <1>1, <1>2
<1>4. m \in Ledgers  BY <1>1, <1>3, MoveType
<1>5. bal \in IntLedgers /\ n \in Int  BY <1>1 DEF Ledgers, IntLedgers
<1>6. /\ \A k \in Tokens : k # t => m[k] = bal[k]
      /\ \A h \in Holders \ {Executor, to} : m[t][h] = bal[t][h]
      /\ Executor # to => m[t][to] = bal[t][to] + n
  <2>1. Moved(bal, m, t, Executor, to, n)  BY <1>1, <1>5, MoveAt
  <2> HIDE DEF m
  <2> QED  BY <2>1 DEF Moved
<1> HIDE DEF m
<1>7. \A k \in Tokens : \A h \in Holders \ {Executor} : m[k][h] >= bal[k][h]
  <2> SUFFICES ASSUME NEW k \in Tokens, NEW h \in Holders \ {Executor}
               PROVE  m[k][h] >= bal[k][h]
    OBVIOUS
  <2>1. CASE k # t  BY <1>2, <1>6, <2>1
  <2>2. CASE k = t /\ h # to  BY <1>2, <1>6, <2>2
  <2>3. CASE k = t /\ h = to  BY <1>2, <1>6, <2>3
  <2> QED  BY <2>1, <2>2, <2>3
<1> QED  BY <1>1, <1>4, <1>7

\* After a withdrawal the contract is idle, with a well-typed ledger.
LEMMA WithdrawInv ==
  ASSUME Inv, NEW t \in Tokens, NEW n \in Nat, NEW to \in Holders, EmergencyWithdraw(t, n, to)
  PROVE  Inv'
<1>1. bal' \in Ledgers /\ settled' = bal' /\ conf' = conf /\ tx' = tx /\ Idle
      /\ allow' = allow /\ granted' = granted /\ granted = allow
  BY WithdrawMoves
<1>2. conf' \in Configs /\ tx' \in Txs /\ tx'.pc = "idle" /\ tx'.amount = 0 /\ allow' \in Allowances
  BY <1>1 DEF Inv, TypeOK, Quiet, Idle
<1> QED  BY <1>1, <1>2, QuietInv

\* A registration of a route configuration leaves a table of them.
LEMMA RegisterType ==
  ASSUME conf \in Configs, NEW id \in RouteIds, NEW r \in RouteConfigs, RegisterRoute(id, r)
  PROVE  conf' \in Configs
<1> DEFINE table == [i \in DOMAIN conf.routes \cup {id} |-> IF i = id THEN r ELSE conf.routes[i]]
<1>1. PICK ids \in SUBSET RouteIds : conf.routes \in [ids -> RouteConfigs]
  BY DEF Configs, RouteTables
<1>2. DOMAIN conf.routes = ids  BY <1>1
<1>3. table \in [ids \cup {id} -> RouteConfigs]  BY <1>1, <1>2
<1>4. table \in RouteTables  BY <1>3 DEF RouteTables
<1>5. conf' = [conf EXCEPT !.routes = table]  BY DEF RegisterRoute
<1> QED  BY <1>4, <1>5 DEF Configs

\* Enabling or disabling a registered route leaves a table of them.
LEMMA EnableType ==
  ASSUME conf \in Configs, NEW id \in RouteIds, NEW on \in BOOLEAN, SetRouteEnabled(id, on)
  PROVE  conf' \in Configs
<1> DEFINE table == [conf.routes EXCEPT ![id] = [conf.routes[id] EXCEPT !.enabled = on]]
<1>1. PICK ids \in SUBSET RouteIds : conf.routes \in [ids -> RouteConfigs]
  BY DEF Configs, RouteTables
<1>2. id \in ids  BY <1>1 DEF SetRouteEnabled
<1>3. [conf.routes[id] EXCEPT !.enabled = on] \in RouteConfigs  BY <1>1, <1>2 DEF RouteConfigs
<1>4. table \in [ids -> RouteConfigs]  BY <1>1, <1>2, <1>3
<1>5. table \in RouteTables  BY <1>4 DEF RouteTables
<1>6. conf' = [conf EXCEPT !.routes = table]  BY DEF SetRouteEnabled
<1> QED  BY <1>5, <1>6 DEF Configs

\* Administration changes the configuration only, between transactions.
LEMMA AdministerInv ==
  ASSUME Inv, Administer
  PROVE  Inv'
<1>1. /\ Idle /\ bal' = bal /\ settled' = settled /\ tx' = tx /\ conf \in Configs
      /\ allow' = allow /\ granted' = granted /\ granted = allow /\ allow \in Allowances
      /\ bal \in Ledgers /\ settled = bal /\ tx \in Txs /\ tx.pc = "idle"
      /\ tx.amount = 0
  BY DEF Inv, TypeOK, Quiet, Administer, Idle
<1>2. conf' \in Configs
  <2>1. CASE \E id \in RouteIds, r \in Offered : RegisterRoute(id, r)
    <3>1. Offered \subseteq RouteConfigs  BY AddressAssumption
    <3> QED  BY <1>1, <2>1, <3>1, RegisterType
  <2>2. CASE \E id \in RouteIds, on \in BOOLEAN : SetRouteEnabled(id, on)
    BY <1>1, <2>2, EnableType
  <2>3. CASE \E allowed \in BOOLEAN, r \in Routers : SetAllowlistedRouter(r, allowed)
    <3>1. PICK allowed \in BOOLEAN, r \in Routers : SetAllowlistedRouter(r, allowed)  BY <2>3
    <3>2. (IF allowed THEN conf.routers \cup {r} ELSE conf.routers \ {r}) \in SUBSET Routers
      BY <1>1 DEF Configs
    <3> QED  BY <1>1, <3>1, <3>2 DEF Configs, SetAllowlistedRouter
  <2>4. CASE \E allowed \in BOOLEAN, t \in Tokens : SetAllowlistedToken(t, allowed)
    <3>1. PICK allowed \in BOOLEAN, t \in Tokens : SetAllowlistedToken(t, allowed)  BY <2>4
    <3>2. (IF allowed THEN conf.tokens \cup {t} ELSE conf.tokens \ {t}) \in SUBSET Tokens
      BY <1>1 DEF Configs
    <3> QED  BY <1>1, <3>1, <3>2 DEF Configs, SetAllowlistedToken
  <2>5. CASE \E p \in BOOLEAN : SetPaused(p)
    BY <1>1, <2>5 DEF Configs, SetPaused
  <2>6. CASE \E a \in Accounts : TransferOwnership(a)
    BY <1>1, <2>6 DEF Configs, TransferOwnership
  <2> QED  BY <2>1, <2>2, <2>3, <2>4, <2>5, <2>6 DEF Administer
<1> QED  BY <1>1, <1>2, QuietInv

\* Every step of the contract preserves the invariant.
LEMMA StepInv ==
  ASSUME Inv, [Next]_vars
  PROVE  Inv'
<1>0. Amounts \subseteq Nat  BY AddressAssumption
<1>1. CASE \E c \in [id : RouteIds, initial : Amounts, minOut : Amounts, minProfit : Amounts] : Begin(c)
  <2>1. PICK c \in [id : RouteIds, initial : Amounts, minOut : Amounts, minProfit : Amounts] : Begin(c)
    BY <1>1
  <2>2. c \in Calls  BY <1>0 DEF Calls
  <2> QED  BY <2>1, <2>2, BeginInv
<1>2. CASE \E amountIn \in Amounts : Approve(amountIn)  BY <1>0, <1>2, ApproveInv
<1>8. CASE \E r \in Routers, t \in Tokens, n \in Amounts : Pull(r, t, n) \/ Give(r, t, n)
  BY <1>0, <1>8, PullInv, GiveInv
<1>9. CASE \E minOut \in Amounts : Return(minOut)  BY <1>0, <1>9, ReturnInv
<1>3. CASE Settle  BY <1>3, SettleInv
<1>4. CASE Revert  BY <1>4, RevertInv
<1>5. CASE \E t \in Tokens, n \in Amounts, to \in Holders : EmergencyWithdraw(t, n, to)
  BY <1>0, <1>5, WithdrawInv
<1>6. CASE Administer  BY <1>6, AdministerInv
<1>7. CASE UNCHANGED vars
  <2>1. UNCHANGED <<bal, allow, settled, granted, conf, tx>>  BY <1>7 DEF vars
  <2>2. TypeOK' /\ FundsCovered' /\ Quiet'
    BY <2>1 DEF Inv, TypeOK, FundsCovered, Own, Quiet, Idle
  <2>3. Running'  BY <2>1 DEF Inv, Running, Passed, Spent, Idle, Route
  <2>4. Measured'  BY <2>1 DEF Inv, Measured, Calling, TokenOut, First, Route
  <2> QED  BY <2>2, <2>3, <2>4 DEF Inv
<1> QED  BY <1>1, <1>2, <1>3, <1>4, <1>5, <1>6, <1>7, <1>8, <1>9 DEF Next

\* The invariant holds throughout.
THEOREM InvAlways == Spec => []Inv
<1>1. Init => Inv  BY InitInv
<1>2. Inv /\ [Next]_vars => Inv'  BY StepInv
<1> QED  BY <1>1, <1>2, PTL DEF Spec

\* Every balance, amount and configuration is a proper one in every state: no
\* checked subtraction of the contract or of a token goes below zero.
THEOREM TypeCorrect == Spec => []TypeOK
<1>1. Inv => TypeOK  BY DEF Inv
<1> QED  BY <1>1, InvAlways, PTL

\* What a call hands on and finally pays out never comes from what the
\* contract held for itself, whatever its routers take and give back.
THEOREM FundsAlwaysCovered == Spec => []FundsCovered
<1>1. Inv => FundsCovered  BY DEF Inv
<1> QED  BY <1>1, InvAlways, PTL

-----------------------------------------------------------------------------
(***************************************************************************)
(* The refinement: legs and routers in a call stutter, Settle commits,     *)
(* Revert rejects, a router between calls draws.                           *)
(***************************************************************************)
LEMMA BeginSubmits ==
  ASSUME Inv, NEW c \in Calls, Begin(c)
  PROVE  Atomic!Submit
<1>1. Pending = {} /\ settled' = settled /\ granted' = granted /\ conf' = conf /\ ~conf.paused
      /\ OwnFunds' = OwnFunds
  BY DEF Begin, Pending, OwnFunds
<1>2. tx' = [pc |-> "leg1", call |-> c, token |-> conf.routes[c.id].start, amount |-> c.initial, before |-> 0]
  BY DEF Begin
<1>3. Pending' = {c}  BY <1>2 DEF Pending, Idle
<1> QED  BY <1>1, <1>3 DEF Atomic!Submit

\* A leg changes nothing the chain has committed, and neither does a router in it.
LEMMA LegStutters ==
  ASSUME Inv, NEW amountIn \in Nat, NEW minOut \in Nat,
         NEW r \in Routers, NEW t \in Tokens, NEW n \in Nat,
         Approve(amountIn) \/ Return(minOut) \/ Give(r, t, n) \/ (~Idle /\ Pull(r, t, n))
  PROVE  UNCHANGED Atomic!vars
<1>1. settled' = settled /\ granted' = granted /\ conf' = conf /\ OwnFunds' = OwnFunds
  BY DEF Approve, Return, Give, Pull, OwnFunds
<1>2. tx \in Txs  BY DEF Inv, TypeOK
<1>3. Pending' = Pending
  <2>1. CASE Approve(amountIn)
    <3>1. tx'.pc \in {"call1", "call2"} /\ tx'.call = tx.call /\ tx.pc \in {"leg1", "leg2"}
      BY <1>2, <2>1 DEF Approve, Txs
    <3> QED  BY <3>1 DEF Pending, Idle
  <2>2. CASE Return(minOut)
    <3>1. tx'.pc \in {"leg2", "pay"} /\ tx'.call = tx.call /\ tx.pc \in {"call1", "call2"}
      BY <1>2, <2>2 DEF Return, Calling, Txs
    <3> QED  BY <3>1 DEF Pending, Idle
  <2>3. CASE Give(r, t, n) \/ (~Idle /\ Pull(r, t, n))
    BY <2>3 DEF Give, Pull, Pending, Idle
  <2> QED  BY <2>1, <2>2, <2>3
<1> QED  BY <1>1, <1>3 DEF Atomic!vars

\* Between calls a router draws on its claim.
LEMMA IdlePullDraws ==
  ASSUME Inv, NEW r \in Routers, NEW t \in Tokens, NEW n \in Nat, Idle, Pull(r, t, n)
  PROVE  Atomic!Draw
<1>1. TypeOK /\ settled = bal /\ granted = allow  BY DEF Inv, Quiet
<1>2. settled' = bal' /\ granted' = allow' /\ conf' = conf /\ tx' = tx  BY DEF Pull
<1>3. /\ \A k \in Tokens : bal'[k][Executor] - Loan(allow'[k]) = bal[k][Executor] - Loan(allow[k])
      /\ \A k \in Tokens : \A h \in Accounts : bal'[k][h] = bal[k][h]
      /\ \A k \in Tokens : \A q \in Routers : allow'[k][q] <= allow[k][q]
  BY <1>1, PullMoves
<1>4. Pending = {} /\ Pending' = Pending  BY <1>2 DEF Pending, Idle
<1>5. ASSUME NEW k \in Tokens PROVE OwnFunds'[k] >= OwnFunds[k]
  <2>1. bal[k][Executor] \in Nat /\ Loan(allow[k]) \in Nat  BY <1>1, Numbers
  <2>2. OwnFunds'[k] = bal'[k][Executor] - Loan(allow'[k])  BY <1>2 DEF OwnFunds, Own, Loan
  <2>3. OwnFunds[k] = bal[k][Executor] - Loan(allow[k])  BY <1>1 DEF OwnFunds, Own, Loan
  <2>4. bal'[k][Executor] - Loan(allow'[k]) = bal[k][Executor] - Loan(allow[k])  BY <1>3
  <2> QED  BY <2>1, <2>2, <2>3, <2>4
<1> QED  BY <1>1, <1>2, <1>3, <1>4, <1>5 DEF Atomic!Draw, Atomic!OwnKept

\* Settle trades: what the owner receives is the amount handed on, within the
\* limits of the call, and nobody but the two routers has paid for it.
LEMMA SettleCommits ==
  ASSUME Inv, Settle
  PROVE  Atomic!Commit
<1> DEFINE c == tx.call
           r == conf.routes[c.id]
           s == r.start
           o == conf.owner
<1>1. /\ Passed /\ Spent /\ tx.pc = "pay" /\ s \in Tokens /\ r.mid \in Tokens
      /\ r.routers[1] \in Routers /\ r.routers[2] \in Routers
      /\ settled' = bal' /\ granted' = allow /\ conf' = conf
      /\ \A k \in Tokens : bal'[k][Executor] - Loan(allow[k]) >= settled[k][Executor] - Loan(granted[k])
      /\ bal'[s][o] = bal[s][o] + tx.amount
      /\ \A h \in Holders \ {Executor, o} : bal'[s][h] = bal[s][h]
      /\ \A k \in Tokens : k # s => bal'[k] = bal[k]
  BY SettleMoves DEF Route
<1>2. /\ bal \in Ledgers /\ settled \in Ledgers /\ conf \in Configs /\ tx.amount \in Nat
      /\ c.initial \in Nat /\ c.minOut \in Nat /\ c.minProfit \in Nat
  BY DEF Inv, TypeOK, Txs, Calls
<1>3. o \in Holders  BY <1>2, OwnerType
<1>4. /\ bal[s][o] = settled[s][o] - c.initial
      /\ \A k \in Tokens : \A h \in Accounts :
            bal[k][h] = settled[k][h] \/ (h = o /\ k = s)
      /\ \A k \in Tokens : \A q \in Routers :
            \/ allow[k][q] <= granted[k][q]
            \/ <<k, q>> \in {<<s, r.routers[1]>>, <<r.mid, r.routers[2]>>}
  BY <1>1 DEF Spent, Route
<1>5. Atomic!Received(c, s) = tx.amount
  <2>1. settled[s][o] \in Nat  BY <1>1, <1>2, <1>3 DEF Ledgers
  <2>2. settled'[s][o] = settled[s][o] - c.initial + tx.amount  BY <1>1, <1>4
  <2>3. settled'[s][o] - settled[s][o] + c.initial = tx.amount  BY <1>2, <2>1, <2>2
  <2> QED  BY <2>3 DEF Atomic!Received
<1>6. tx.amount >= c.minOut /\ (c.minProfit > 0 => tx.amount - c.initial >= c.minProfit)
  <2>1. Accepted  BY DEF Settle
  <2> QED  BY <1>2, <2>1 DEF Accepted, Profit
<1>7. /\ ~conf.paused /\ r.enabled
      /\ {s, r.mid} \subseteq conf.tokens
      /\ {r.routers[1], r.routers[2]} \subseteq conf.routers
  BY <1>1 DEF Passed, Route
<1>8. \A k \in Tokens : \A h \in Accounts :
         settled'[k][h] = settled[k][h] \/ (h = o /\ k = s)
  <2> SUFFICES ASSUME NEW k \in Tokens, NEW h \in Accounts, ~(h = o /\ k = s)
               PROVE  settled'[k][h] = settled[k][h]
    OBVIOUS
  <2>1. h \in Holders \ {Executor}  BY AddressAssumption DEF Holders
  <2>2. bal'[k][h] = bal[k][h]  BY <1>1, <2>1
  <2>3. bal[k][h] = settled[k][h]  BY <1>4
  <2> QED  BY <1>1, <2>2, <2>3
<1>12. \A k \in Tokens : OwnFunds'[k] >= OwnFunds[k]
  BY <1>1 DEF OwnFunds, Own, Loan
<1>13. \A k \in Tokens : \A q \in Routers :
         granted'[k][q] <= granted[k][q] \/ <<k, q>> \in {<<s, r.routers[1]>>, <<r.mid, r.routers[2]>>}
  BY <1>1, <1>4
<1>9. Atomic!Trade(c, r)
  BY <1>5, <1>6, <1>7, <1>8, <1>12, <1>13 DEF Atomic!Trade, Atomic!OwnKept
<1>10. Pending = {c}  BY <1>1 DEF Pending, Idle
<1>11. Pending' = {}
  <2>1. tx' = NoTx  BY DEF Settle
  <2> QED  BY <2>1, IdleTx DEF Pending, Idle
<1> QED  BY <1>1, <1>9, <1>10, <1>11 DEF Atomic!Commit

\* Revert drops the call and leaves the committed ledger as it is.
LEMMA RevertRejects ==
  ASSUME Inv, Revert
  PROVE  Atomic!Reject
<1>1. tx' = NoTx /\ settled' = settled /\ granted' = granted /\ conf' = conf /\ OwnFunds' = OwnFunds
  BY DEF Revert, OwnFunds
<1>2. Pending' = {}  BY <1>1, IdleTx DEF Pending, Idle
<1> QED  BY <1>1, <1>2 DEF Atomic!Reject

\* A step of the contract is a step of AtomicArb, or leaves what it sees.
LEMMA StepRefines ==
  ASSUME Inv, [Next]_vars
  PROVE  [Atomic!Next]_(Atomic!vars)
<1>0. Amounts \subseteq Nat  BY AddressAssumption
<1>1. CASE \E c \in [id : RouteIds, initial : Amounts, minOut : Amounts, minProfit : Amounts] : Begin(c)
  <2>1. PICK c \in [id : RouteIds, initial : Amounts, minOut : Amounts, minProfit : Amounts] : Begin(c)
    BY <1>1
  <2>2. c \in Calls  BY <1>0 DEF Calls
  <2>3. Atomic!Submit  BY <2>1, <2>2, BeginSubmits
  <2> QED  BY <2>3 DEF Atomic!Next
<1>8. 0 \in Nat  OBVIOUS
<1>2. CASE (\E amountIn \in Amounts : Approve(amountIn)) \/ (\E minOut \in Amounts : Return(minOut))
  <2>1. PICK amountIn \in Nat, minOut \in Nat : Approve(amountIn) \/ Return(minOut)  BY <1>0, <1>2, <1>8
  <2>2. ~Idle /\ conf \in Configs  BY <2>1 DEF Approve, Return, Calling, Idle, Inv, TypeOK
  <2>3. Router \in Routers /\ tx.token \in Tokens  BY <2>2, RunningType
  <2> QED  BY <1>8, <2>1, <2>3, LegStutters
<1>10. CASE \E r \in Routers, t \in Tokens, n \in Amounts : Pull(r, t, n) \/ Give(r, t, n)
  <2>1. PICK r \in Routers, t \in Tokens, n \in Nat : Pull(r, t, n) \/ Give(r, t, n)  BY <1>0, <1>10
  <2>2. CASE Idle /\ Pull(r, t, n)
    <3>1. Atomic!Draw  BY <2>2, IdlePullDraws
    <3> QED  BY <3>1 DEF Atomic!Next
  <2>3. CASE ~(Idle /\ Pull(r, t, n))  BY <1>8, <2>1, <2>3, LegStutters
  <2> QED  BY <2>2, <2>3
<1>3. CASE Settle
  BY <1>3, SettleCommits DEF Atomic!Next
<1>4. CASE Revert
  BY <1>4, RevertRejects DEF Atomic!Next
<1>5. CASE \E t \in Tokens, n \in Amounts, to \in Holders : EmergencyWithdraw(t, n, to)
  <2>1. PICK t \in Tokens, n \in Nat, to \in Holders : EmergencyWithdraw(t, n, to)  BY <1>0, <1>5
  <2>2. /\ settled' = bal' /\ conf' = conf /\ tx' = tx /\ Idle /\ granted' = granted
        /\ \A k \in Tokens : \A h \in Holders \ {Executor} : bal'[k][h] >= settled[k][h]
    BY <2>1, WithdrawMoves
  <2>3. Pending = {} /\ Pending' = Pending  BY <2>2 DEF Pending, Idle
  <2>4. Atomic!Holders = Holders  BY DEF Atomic!Holders, Holders
  <2>5. Atomic!Withdraw  BY <2>2, <2>3, <2>4 DEF Atomic!Withdraw
  <2> QED  BY <2>5 DEF Atomic!Next
<1>6. CASE Administer
  <2>1. Idle /\ settled' = settled /\ granted' = granted /\ tx' = tx /\ OwnFunds' = OwnFunds
    BY <1>6 DEF Administer, OwnFunds
  <2>2. Pending = {} /\ Pending' = Pending  BY <2>1 DEF Pending, Idle
  <2>3. Atomic!Configure  BY <2>1, <2>2 DEF Atomic!Configure
  <2> QED  BY <2>3 DEF Atomic!Next
<1>7. CASE UNCHANGED vars
  BY <1>7 DEF vars, Atomic!vars, Pending, OwnFunds, Idle
<1> QED  BY <1>1, <1>2, <1>3, <1>4, <1>5, <1>6, <1>7, <1>10 DEF Next

\* The contract implements AtomicArb: seen from the committed ledger, a call
\* trades within its limits over an enabled, allowlisted route, or not at all.
THEOREM Atomicity == Spec => TradesAtomically
<1>1. Init => Atomic!Init
  <2>1. Init => Idle  BY IdleTx DEF Init, Idle
  <2> QED  BY <2>1 DEF Atomic!Init, Pending
<1>2. Inv /\ [Next]_vars => [Atomic!Next]_(Atomic!vars)  BY StepRefines
<1> QED  BY <1>1, <1>2, InvAlways, PTL DEF Spec, TradesAtomically, Atomic!Spec

-----------------------------------------------------------------------------
\* What the contract holds for itself becomes less only by emergencyWithdraw: no
\* arbitrage and no router, whatever the limits and the outcome, costs the
\* contract more than the unused allowances it had left standing.
THEOREM OwnFundsStay ==
  Spec => [][(\E k \in Tokens : OwnFunds'[k] < OwnFunds[k])
             => \E t \in Tokens, n \in Amounts, to \in Holders : EmergencyWithdraw(t, n, to)]_vars
<1> DEFINE Shrinks == \E k \in Tokens : OwnFunds'[k] < OwnFunds[k]
           Withdrawn == \E t \in Tokens, n \in Amounts, to \in Holders : EmergencyWithdraw(t, n, to)
<1>1. ASSUME Inv, Next, Shrinks PROVE Withdrawn
  <2>1. TypeOK /\ Amounts \subseteq Nat  BY <1>1, AddressAssumption DEF Inv
  <2>2. \A k \in Tokens : OwnFunds[k] \in Int
    BY <2>1, Numbers DEF OwnFunds, Own, Loan
  <2>3. OwnFunds' # OwnFunds
    <3> SUFFICES ASSUME OwnFunds' = OwnFunds PROVE FALSE
      OBVIOUS
    <3>1. \A k \in Tokens : ~(OwnFunds[k] < OwnFunds[k])
      BY <2>2
    <3> QED BY <1>1, <3>1
  <2>4. ~Atomic!OwnKept
    <3> SUFFICES ASSUME Atomic!OwnKept PROVE FALSE
      OBVIOUS
    <3>1. PICK k \in Tokens : OwnFunds'[k] < OwnFunds[k]  BY <1>1
    <3>2. OwnFunds'[k] >= OwnFunds[k]  BY DEF Atomic!OwnKept
    <3>3. OwnFunds'[k] \in Int
      <4>1. TypeOK'  BY <1>1, StepInv DEF Inv
      <4>2. settled'[k][Executor] \in Nat /\ granted'[k] \in [Routers -> Nat]
        BY <4>1 DEF TypeOK, Ledgers, Allowances, Holders
      <4>3. Loan(granted'[k]) \in Nat  BY <4>2, LoanType
      <4> QED  BY <4>2, <4>3 DEF OwnFunds, Own, Loan
    <3> QED  BY <2>2, <3>1, <3>2, <3>3
  <2>5. ~Settle
    BY <1>1, <2>4, SettleCommits DEF Atomic!Commit, Atomic!Trade
  <2>6. \A r \in Routers, t \in Tokens, n \in Amounts : ~(Pull(r, t, n) \/ Give(r, t, n))
    <3> SUFFICES ASSUME NEW r \in Routers, NEW t \in Tokens, NEW n \in Amounts,
                        Pull(r, t, n) \/ Give(r, t, n)
                 PROVE  FALSE
      OBVIOUS
    <3>1. n \in Nat /\ 0 \in Nat  BY <2>1
    <3>2. CASE Idle /\ Pull(r, t, n)  BY <1>1, <2>4, <3>1, <3>2, IdlePullDraws DEF Atomic!Draw
    <3>3. CASE ~(Idle /\ Pull(r, t, n))
      <4>1. UNCHANGED Atomic!vars  BY <1>1, <3>1, <3>3, LegStutters
      <4> QED  BY <2>3, <4>1 DEF Atomic!vars
    <3> QED  BY <3>2, <3>3
  <2>7. /\ ~(\E c \in [id : RouteIds, initial : Amounts, minOut : Amounts, minProfit : Amounts] : Begin(c))
        /\ ~(\E amountIn \in Amounts : Approve(amountIn))
        /\ ~(\E minOut \in Amounts : Return(minOut))
        /\ ~Revert /\ ~Administer
    <3>1. ~(settled' = settled /\ granted' = granted)  BY <2>3 DEF OwnFunds
    <3> QED  BY <3>1, Zenon DEF Begin, Approve, Return, Revert, Administer
  <2> QED BY <1>1, <2>5, <2>6, <2>7, Zenon DEF Next
<1>2. Inv /\ [Next]_vars => [Shrinks => Withdrawn]_vars
  BY <1>1
<1> QED BY <1>2, InvAlways, PTL DEF Spec
=============================================================================
