-------------------------- MODULE HealthGateProofs --------------------------
(***************************************************************************)
(* Proofs about HealthGate for every window, heartbeat limit, alert        *)
(* threshold and set of probes: typing, the two bounds on a decision to    *)
(* trade, and the throttle that unsent alerts put on trades.               *)
(***************************************************************************)
EXTENDS HealthGate, WellFoundedInduction, SequenceTheorems, TLAPS

-----------------------------------------------------------------------------
(***************************************************************************)
(* Ageing sequences.  Ages are oldest first, hence never increasing.       *)
(***************************************************************************)
Sorted(ages) == \A i, j \in 1..Len(ages) : i <= j => ages[j] <= ages[i]

\* Expire drops a prefix, and only what is past the limit.
LEMMA ExpireDropsPrefix ==
  ASSUME NEW ages \in Seq(Nat), NEW limit \in Int
  PROVE  \E n \in 0..Len(ages) :
           /\ \A i \in 1..n : ages[i] > limit
           /\ n < Len(ages) => ages[n + 1] <= limit
           /\ Expire(ages, limit) = SubSeq(ages, n + 1, Len(ages))
<1> DEFINE P(n) == /\ \A i \in 1..n : ages[i] > limit
                   /\ n < Len(ages) => ages[n + 1] <= limit
           kept == {i \in 1..Len(ages) : ages[i] <= limit}
<1>0. Len(ages) \in Nat OBVIOUS
<1>1. \E n \in 0..Len(ages) : P(n)
  <2>1. CASE kept = {}
    <3>1. \A i \in 1..Len(ages) : ages[i] > limit BY <2>1, <1>0
    <3>2. P(Len(ages)) BY <3>1, <1>0
    <3>3. Len(ages) \in 0..Len(ages) BY <1>0
    <3> WITNESS Len(ages) \in 0..Len(ages)
    <3> QED BY <3>2
  <2>2. CASE kept # {}
    <3>1. kept \in SUBSET Nat BY <1>0
    <3> HIDE DEF kept
    <3>a. PICK m \in kept : \A i \in kept : ~(<<i, m>> \in OpToRel(<, Nat))
      BY <2>2, <3>1, WFMin, NatLessThanWellFounded
    <3>b. \A i \in kept : ~(i < m) BY <3>a, <3>1 DEF OpToRel
    <3>2. \A i \in kept : m <= i BY <3>b, <3>1
    <3> USE DEF kept
    <3>3. m \in 1..Len(ages) /\ ages[m] <= limit BY <3>2
    <3>4. \A i \in 1..(m - 1) : ages[i] > limit BY <3>2, <3>3, <1>0
    <3>5. P(m - 1) BY <3>3, <3>4, <1>0
    <3>6. m - 1 \in 0..Len(ages) BY <3>3, <1>0
    <3> WITNESS m - 1 \in 0..Len(ages)
    <3> QED BY <3>5
  <2> QED BY <2>1, <2>2
<1> DEFINE gone == CHOOSE n \in 0..Len(ages) : P(n)
<1>2. gone \in 0..Len(ages) /\ P(gone) BY <1>1
<1>3. Expire(ages, limit) = SubSeq(ages, gone + 1, Len(ages)) BY DEF Expire
<1> QED BY <1>2, <1>3

\* What is left, element by element.
LEMMA ExpireElements ==
  ASSUME NEW ages \in Seq(Nat), NEW limit \in Int
  PROVE  \E n \in 0..Len(ages) :
           /\ \A i \in 1..n : ages[i] > limit
           /\ n < Len(ages) => ages[n + 1] <= limit
           /\ Expire(ages, limit) \in Seq(Nat)
           /\ Len(Expire(ages, limit)) = Len(ages) - n
           /\ \A i \in 1..(Len(ages) - n) : Expire(ages, limit)[i] = ages[n + i]
<1>1. PICK n \in 0..Len(ages) :
           /\ \A i \in 1..n : ages[i] > limit
           /\ n < Len(ages) => ages[n + 1] <= limit
           /\ Expire(ages, limit) = SubSeq(ages, n + 1, Len(ages))
      BY ExpireDropsPrefix
<1>2. Len(ages) \in Nat /\ n \in Nat /\ n <= Len(ages) BY <1>1
<1> DEFINE rest == SubSeq(ages, n + 1, Len(ages))
<1>3. /\ rest \in Seq(Nat)
      /\ Len(rest) = Len(ages) - n
      /\ \A i \in 1..(Len(ages) - n) : rest[i] = ages[n + i]
  <2>1. rest = [i \in 1..(Len(ages) - n) |-> ages[n + i]] BY <1>2
  <2>2. \A i \in 1..(Len(ages) - n) : ages[n + i] \in Nat BY <1>2
  <2>3. Len(ages) - n \in Nat BY <1>2
  <2> QED BY <2>1, <2>2, <2>3
<1> QED BY <1>1, <1>3

\* T's ages, all but the k newest, are matched from the end by younger ones of A.
Covered(T, A, k) ==
  /\ Len(T) - k <= Len(A)
  /\ \A j \in 1..(Len(T) - k) : A[Len(A) - (Len(T) - k) + j] <= T[j]

\* Trimming keeps an order and drops nothing that covers a trade of the window.
LEMMA TrimKeeps ==
  ASSUME NEW A \in Seq(Nat), Sorted(A), GateAssumption
  PROVE  /\ TrimAges(A) \in Seq(Nat) /\ Sorted(TrimAges(A))
         /\ Len(TrimAges(A)) <= Len(A)
         /\ \A cap \in Nat : A \in Seq(0..cap) => TrimAges(A) \in Seq(0..cap)
         /\ \A T \in Seq(0..Window), k \in {0, 1} :
              Covered(T, A, k) => Covered(T, TrimAges(A), k)
<1>0. Window \in Nat BY DEF GateAssumption
<1> DEFINE B == TrimAges(A)
<1>1. PICK n \in 0..Len(A) :
           /\ \A i \in 1..n : A[i] > Window
           /\ B \in Seq(Nat)
           /\ Len(B) = Len(A) - n
           /\ \A i \in 1..(Len(A) - n) : B[i] = A[n + i]
  <2>1. B = Expire(A, Window) BY DEF TrimAges
  <2> HIDE DEF B
  <2>2. Window \in Int BY <1>0
  <2>3. PICK n \in 0..Len(A) :
           /\ \A i \in 1..n : A[i] > Window
           /\ n < Len(A) => A[n + 1] <= Window
           /\ Expire(A, Window) \in Seq(Nat)
           /\ Len(Expire(A, Window)) = Len(A) - n
           /\ \A i \in 1..(Len(A) - n) : Expire(A, Window)[i] = A[n + i]
    BY <2>2, ExpireElements
  <2> QED BY <2>1, <2>3
<1>2. Len(A) \in Nat /\ n \in Nat /\ n <= Len(A) BY <1>1
<1> HIDE DEF B
<1>3. Sorted(B)
  <2> SUFFICES ASSUME NEW i \in 1..Len(B), NEW j \in 1..Len(B), i <= j PROVE B[j] <= B[i]
    BY DEF Sorted
  <2>1. B[i] = A[n + i] /\ B[j] = A[n + j] BY <1>1, <1>2
  <2>2. n + i \in 1..Len(A) /\ n + j \in 1..Len(A) /\ n + i <= n + j BY <1>1, <1>2
  <2> QED BY <2>1, <2>2 DEF Sorted
<1>4. ASSUME NEW cap \in Nat, A \in Seq(0..cap) PROVE B \in Seq(0..cap)
  <2>1. \A i \in 1..Len(B) : B[i] \in 0..cap
    <3> SUFFICES ASSUME NEW i \in 1..Len(B) PROVE B[i] \in 0..cap OBVIOUS
    <3>1. n + i \in 1..Len(A) BY <1>1, <1>2
    <3>2. A[n + i] \in 0..cap BY <3>1, <1>4
    <3> QED BY <3>2, <1>1, <1>2
  <2>2. B = [i \in 1..Len(B) |-> B[i]] BY <1>1
  <2>3. Len(B) \in Nat BY <1>1
  <2> QED BY <2>1, <2>2, <2>3
<1>5. ASSUME NEW T \in Seq(0..Window), NEW k \in {0, 1}, Covered(T, A, k)
      PROVE  Covered(T, B, k)
  <2>1. Len(T) \in Nat /\ k \in Nat OBVIOUS
  <2>2. Len(T) - k <= Len(B)
    <3>1. CASE Len(T) - k <= 0 BY <3>1, <1>1, <1>2, <2>1
    <3>2. CASE Len(T) - k >= 1
      <4> DEFINE p == Len(A) - (Len(T) - k) + 1
      <4>1. A[p] <= T[1] BY <1>5, <3>2, <2>1 DEF Covered
      <4>2. T[1] \in 0..Window BY <3>2, <2>1
      <4>3. Len(T) - k <= Len(A) BY <1>5 DEF Covered
      <4>4. p \in 1..Len(A) BY <4>3, <3>2, <2>1, <1>2
      <4>5. A[p] \in Nat BY <4>4
      <4>6. ~(p \in 1..n) BY <4>1, <4>2, <4>5, <1>1, <1>0
      <4>7. p > n BY <4>6, <4>4, <1>2
      <4>8. Len(T) - k \in Nat BY <3>2, <2>1
      <4> QED BY <4>7, <4>8, <1>1, <1>2
    <3> QED BY <3>1, <3>2, <2>1
  <2>3. ASSUME NEW j \in 1..(Len(T) - k) PROVE B[Len(B) - (Len(T) - k) + j] <= T[j]
    <3> DEFINE q == Len(B) - (Len(T) - k) + j
    <3>0. \A b, t \in Int : t <= b => \A i \in 1..t : b - t + i \in 1..b OBVIOUS
    <3>a. Len(T) - k \in Int /\ Len(B) \in Int BY <2>1, <1>1
    <3>b. q \in 1..Len(B) BY <3>0, <3>a, <2>2
    <3>1. q \in 1..(Len(A) - n) BY <3>b, <1>1
    <3>2. B[q] = A[n + q] BY <3>1, <1>1
    <3>3. n + q = Len(A) - (Len(T) - k) + j BY <1>1, <1>2, <2>1, <3>a
    <3>4. A[Len(A) - (Len(T) - k) + j] <= T[j] BY <1>5 DEF Covered
    <3> QED BY <3>2, <3>3, <3>4
  <2> QED BY <2>2, <2>3 DEF Covered
<1>6. Len(B) <= Len(A) BY <1>1, <1>2
<1> QED BY <1>1, <1>3, <1>4, <1>5, <1>6 DEF B

\* A new failure covers one more trade, or leaves the others covered.
LEMMA AppendKeeps ==
  ASSUME NEW A \in Seq(Nat), Sorted(A)
  PROVE  /\ Append(A, 0) \in Seq(Nat) /\ Sorted(Append(A, 0))
         /\ \A cap \in Nat : A \in Seq(0..cap) => Append(A, 0) \in Seq(0..cap)
         /\ \A T \in Seq(Nat), k \in {0, 1} : Covered(T, A, k) => Covered(T, Append(A, 0), 0)
<1> DEFINE B == Append(A, 0)
<1>1. /\ B \in Seq(Nat) /\ Len(B) = Len(A) + 1 /\ B[Len(A) + 1] = 0
      /\ \A i \in 1..Len(A) : B[i] = A[i]
      BY AppendProperties
<1>2. Len(A) \in Nat /\ \A i \in 1..Len(A) : A[i] \in Nat OBVIOUS
<1>3. ASSUME NEW cap \in Nat, A \in Seq(0..cap) PROVE B \in Seq(0..cap) BY <1>3
<1> HIDE DEF B
<1>4. Sorted(B)
  <2> SUFFICES ASSUME NEW i \in 1..Len(B), NEW j \in 1..Len(B), i <= j PROVE B[j] <= B[i]
    BY DEF Sorted
  <2>1. CASE j = Len(A) + 1
    <3>1. B[i] \in Nat BY <1>1
    <3> QED BY <3>1, <2>1, <1>1
  <2>2. CASE j # Len(A) + 1
    <3>1. i \in 1..Len(A) /\ j \in 1..Len(A) BY <2>2, <1>1, <1>2
    <3> QED BY <3>1, <1>1 DEF Sorted
  <2> QED BY <2>1, <2>2
<1>5. ASSUME NEW T \in Seq(Nat), NEW k \in {0, 1}, Covered(T, A, k) PROVE Covered(T, B, 0)
  <2>1. Len(T) \in Nat /\ k \in Nat /\ \A j \in 1..Len(T) : T[j] \in Nat OBVIOUS
  <2>2. Len(T) - k <= Len(A) BY <1>5 DEF Covered
  <2>3. Len(T) - 0 <= Len(B) BY <2>1, <2>2, <1>1, <1>2
  <2>4. ASSUME NEW j \in 1..(Len(T) - 0) PROVE B[Len(B) - (Len(T) - 0) + j] <= T[j]
    <3> DEFINE q == Len(A) + 1 - Len(T) + j
    <3>1. q = Len(B) - (Len(T) - 0) + j BY <1>1, <2>1
    <3>2. j \in 1..Len(T) BY <2>1
    <3>3. CASE j = Len(T) BY <3>1, <3>2, <3>3, <1>1, <1>2, <2>1
    <3>4. CASE j < Len(T)
      <4>1. j \in 1..(Len(T) - k) BY <3>2, <3>4, <2>1
      <4> DEFINE p == Len(A) - (Len(T) - k) + j
      <4>2. A[p] <= T[j] BY <4>1, <1>5 DEF Covered
      <4>3. q \in 1..Len(A) /\ p \in 1..Len(A) /\ p <= q BY <4>1, <3>2, <3>4, <2>1, <2>2, <1>2
      <4>4. A[q] <= A[p] BY <4>3 DEF Sorted
      <4>5. A[q] \in Nat /\ A[p] \in Nat /\ T[j] \in Nat BY <4>3, <3>2, <1>2, <2>1
      <4>6. B[q] = A[q] BY <4>3, <1>1
      <4>7. B[q] <= T[j] BY <4>2, <4>4, <4>5, <4>6
      <4> HIDE DEF q
      <4> QED BY <4>7, <3>1
    <3> QED BY <3>2, <3>3, <3>4, <2>1
  <2> QED BY <2>3, <2>4 DEF Covered
<1> QED BY <1>1, <1>3, <1>4, <1>5 DEF B

\* One tick older: order and cover are kept, for a trade ages as fast as its alert.
AgedAlerts(A) == [i \in DOMAIN A |-> Older(A[i], OldAlert)]
AgedTrades(T) == [i \in DOMAIN Expire(T, Window - 1) |-> Expire(T, Window - 1)[i] + 1]

LEMMA AlertsAge ==
  ASSUME NEW A \in Seq(0..OldAlert), Sorted(A), GateAssumption
  PROVE  /\ AgedAlerts(A) \in Seq(0..OldAlert) /\ Sorted(AgedAlerts(A))
         /\ Len(AgedAlerts(A)) = Len(A)
         /\ \A i \in 1..Len(A) : AgedAlerts(A)[i] <= A[i] + 1
<1>0. OldAlert \in Nat BY DEF GateAssumption, OldAlert
<1>1. Len(A) \in Nat /\ DOMAIN A = 1..Len(A) /\ \A i \in 1..Len(A) : A[i] \in 0..OldAlert
      BY LenProperties, ElementOfSeq
<1>2. \A a \in 0..OldAlert : Older(a, OldAlert) \in 0..OldAlert /\ Older(a, OldAlert) <= a + 1
      BY <1>0 DEF Older
<1>3. \A a, b \in 0..OldAlert : a <= b => Older(a, OldAlert) <= Older(b, OldAlert)
      BY <1>0 DEF Older
<1>4. AgedAlerts(A) = [i \in 1..Len(A) |-> Older(A[i], OldAlert)] BY <1>1 DEF AgedAlerts
<1>5. \A i \in 1..Len(A) : AgedAlerts(A)[i] = Older(A[i], OldAlert) BY <1>4
<1>6. AgedAlerts(A) \in Seq(0..OldAlert) /\ Len(AgedAlerts(A)) = Len(A) BY <1>1, <1>2, <1>4
<1>7. Sorted(AgedAlerts(A)) BY <1>1, <1>3, <1>5, <1>6 DEF Sorted
<1> QED BY <1>1, <1>2, <1>5, <1>6, <1>7

LEMMA TradesAge ==
  ASSUME NEW T \in Seq(0..Window), Sorted(T), GateAssumption
  PROVE  /\ AgedTrades(T) \in Seq(0..Window) /\ Sorted(AgedTrades(T))
         /\ \E n \in 0..Len(T) :
              /\ Len(AgedTrades(T)) = Len(T) - n
              /\ \A i \in 1..(Len(T) - n) : AgedTrades(T)[i] = T[n + i] + 1
<1>0. Window \in Nat /\ Window - 1 \in Nat BY DEF GateAssumption
<1> DEFINE E == Expire(T, Window - 1)
<1>1. T \in Seq(Nat) BY <1>0
<1>2. PICK n \in 0..Len(T) :
           /\ \A i \in 1..n : T[i] > Window - 1
           /\ n < Len(T) => T[n + 1] <= Window - 1
           /\ E \in Seq(Nat)
           /\ Len(E) = Len(T) - n
           /\ \A i \in 1..(Len(T) - n) : E[i] = T[n + i]
  <2>1. Window - 1 \in Int BY <1>0
  <2> QED BY <2>1, <1>1, ExpireElements
<1>3. Len(T) \in Nat /\ n \in Nat /\ n <= Len(T) BY <1>1, <1>2
<1>4. AgedTrades(T) = [i \in 1..(Len(T) - n) |-> E[i] + 1] BY <1>2 DEF AgedTrades
<1> HIDE DEF E
<1>5. \A i \in 1..(Len(T) - n) : AgedTrades(T)[i] = T[n + i] + 1 BY <1>2, <1>4
<1>6. \A i \in 1..(Len(T) - n) : T[n + i] \in 0..(Window - 1)
  <2> SUFFICES ASSUME NEW i \in 1..(Len(T) - n) PROVE T[n + i] \in 0..(Window - 1) OBVIOUS
  <2>1. n + i \in 1..Len(T) /\ n + 1 \in 1..Len(T) /\ n + 1 <= n + i BY <1>3
  <2>2. T[n + i] <= T[n + 1] BY <2>1 DEF Sorted
  <2>3. T[n + 1] <= Window - 1 BY <2>1, <1>2, <1>3
  <2>4. T[n + i] \in Nat /\ T[n + 1] \in Nat BY <2>1, <1>1
  <2> QED BY <2>2, <2>3, <2>4, <1>0
<1>a. \A x \in 0..(Window - 1) : x + 1 \in 0..Window BY <1>0
<1>7. \A i \in 1..(Len(T) - n) : AgedTrades(T)[i] \in 0..Window
  <2> SUFFICES ASSUME NEW i \in 1..(Len(T) - n) PROVE AgedTrades(T)[i] \in 0..Window OBVIOUS
  <2>1. T[n + i] + 1 \in 0..Window BY <1>6, <1>a
  <2> QED BY <2>1, <1>5
<1>8. Len(T) - n \in Nat BY <1>3
<1>9. AgedTrades(T) = [i \in 1..(Len(T) - n) |-> AgedTrades(T)[i]] BY <1>4
<1>10. AgedTrades(T) \in Seq(0..Window) /\ Len(AgedTrades(T)) = Len(T) - n
  <2> DEFINE m == Len(T) - n
  <2>1. m \in Nat BY <1>8
  <2>2. AgedTrades(T) = [i \in 1..m |-> AgedTrades(T)[i]] BY <1>9
  <2>3. \A i \in 1..m : AgedTrades(T)[i] \in 0..Window BY <1>7
  <2> HIDE DEF m
  <2>4. AgedTrades(T) \in Seq(0..Window) BY <2>1, <2>2, <2>3
  <2>5. Len(AgedTrades(T)) = m BY <2>1, <2>2
  <2> QED BY <2>4, <2>5 DEF m
<1>11. Sorted(AgedTrades(T))
  <2> SUFFICES ASSUME NEW i \in 1..(Len(T) - n), NEW j \in 1..(Len(T) - n), i <= j
               PROVE  AgedTrades(T)[j] <= AgedTrades(T)[i]
    BY <1>10 DEF Sorted
  <2>1. n + i \in 1..Len(T) /\ n + j \in 1..Len(T) /\ n + i <= n + j BY <1>3
  <2>2. T[n + j] <= T[n + i] BY <2>1 DEF Sorted
  <2>3. T[n + j] \in Nat /\ T[n + i] \in Nat BY <2>1, <1>1
  <2> QED BY <1>5, <2>2, <2>3
<1> QED BY <1>5, <1>10, <1>11

LEMMA AgeingKeepsCover ==
  ASSUME NEW A \in Seq(0..OldAlert), Sorted(A), NEW T \in Seq(0..Window), Sorted(T),
         NEW k \in {0, 1}, Covered(T, A, k), GateAssumption
  PROVE  Covered(AgedTrades(T), AgedAlerts(A), k)
<1> DEFINE B == AgedAlerts(A)
           U == AgedTrades(T)
<1>1. Len(B) = Len(A) /\ \A i \in 1..Len(A) : B[i] <= A[i] + 1 BY AlertsAge
<1>2. PICK n \in 0..Len(T) : /\ Len(U) = Len(T) - n
                             /\ \A i \in 1..(Len(T) - n) : U[i] = T[n + i] + 1
      BY TradesAge
<1>a. B \in Seq(0..OldAlert) BY AlertsAge
<1> HIDE DEF B, U
<1>3. Len(T) \in Nat /\ n \in Nat /\ n <= Len(T) /\ k \in Nat /\ k <= 1 BY <1>2
<1>4. Len(A) \in Nat /\ OldAlert \in Nat /\ Window \in Nat BY DEF GateAssumption, OldAlert
<1>5. Len(T) - k <= Len(A) BY DEF Covered
<1>6. Len(U) - k <= Len(B) BY <1>1, <1>2, <1>3, <1>4, <1>5
<1>7. ASSUME NEW j \in 1..(Len(U) - k) PROVE B[Len(B) - (Len(U) - k) + j] <= U[j]
  <2> DEFINE p == Len(A) - (Len(T) - k) + (n + j)
  <2>1. n + j \in 1..(Len(T) - k) /\ j \in 1..(Len(T) - n) /\ n + j \in 1..Len(T)
        BY <1>2, <1>3
  <2>a. \A a, t, m, l, i \in Int : a - (t - l) + (m + i) = a - ((t - m) - l) + i OBVIOUS
  <2>b. Len(B) - (Len(U) - k) + j = Len(A) - ((Len(T) - n) - k) + j BY <1>1, <1>2
  <2>2. p = Len(B) - (Len(U) - k) + j BY <2>a, <2>b, <1>3, <1>4
  <2>c. \A a, t \in Int : t <= a => \A i \in 1..t : a - t + i \in 1..a OBVIOUS
  <2>d. Len(T) - k \in Int /\ Len(A) \in Int BY <1>3, <1>4
  <2>3. p \in 1..Len(A) BY <2>1, <2>c, <2>d, <1>5
  <2>4. A[p] <= T[n + j] BY <2>1 DEF Covered
  <2> HIDE DEF p
  <2>e. A[p] \in 0..OldAlert BY <2>3, ElementOfSeq
  <2>f. B[p] \in 0..OldAlert BY <2>3, <1>a, <1>1, ElementOfSeq
  <2>g. T[n + j] \in 0..Window BY <2>1, ElementOfSeq
  <2>5. A[p] \in Nat /\ T[n + j] \in Nat /\ B[p] \in Nat BY <2>e, <2>f, <2>g
  <2>6. B[p] <= A[p] + 1 BY <2>3, <1>1
  <2>7. U[j] = T[n + j] + 1 BY <2>1, <1>2
  <2>h. \A a, b, t \in Nat : b <= a + 1 /\ a <= t => b <= t + 1 OBVIOUS
  <2>i. B[p] <= T[n + j] + 1 BY <2>h, <2>4, <2>5, <2>6
  <2>8. B[p] <= U[j] BY <2>i, <2>7
  <2> QED BY <2>8, <2>2
<1> QED BY <1>6, <1>7 DEF Covered, B, U

\* A trade starts uncovered; one that waits for its alert is no harder to cover.
LEMMA NewTradeOwesAlert ==
  ASSUME NEW A \in Seq(Nat), NEW T \in Seq(0..Window), Sorted(T), Covered(T, A, 0), Window \in Nat
  PROVE  /\ Append(T, 0) \in Seq(0..Window) /\ Sorted(Append(T, 0))
         /\ Len(Append(T, 0)) = Len(T) + 1
         /\ Covered(Append(T, 0), A, 1)
<1> DEFINE U == Append(T, 0)
<1>0. T \in Seq(Nat) OBVIOUS
<1>1. U \in Seq(0..Window) OBVIOUS
<1>2. Sorted(U) BY <1>0, AppendKeeps
<1>3. Len(T) \in Nat /\ Len(U) = Len(T) + 1 /\ \A i \in 1..Len(T) : U[i] = T[i]
      BY AppendProperties
<1> HIDE DEF U
<1>4. Len(U) - 1 = Len(T) - 0 BY <1>3
<1>5. \A j \in 1..(Len(T) - 0) : U[j] = T[j] BY <1>3
<1>6. Covered(U, A, 1) BY <1>4, <1>5 DEF Covered
<1> QED BY <1>1, <1>2, <1>3, <1>6 DEF U

LEMMA CoverWeakens ==
  ASSUME NEW A \in Seq(Nat), Sorted(A), NEW T \in Seq(Nat), Covered(T, A, 0)
  PROVE  Covered(T, A, 1)
<1>1. Len(A) \in Nat /\ Len(T) \in Nat /\ Len(T) - 0 <= Len(A) BY DEF Covered
<1>2. ASSUME NEW j \in 1..(Len(T) - 1) PROVE A[Len(A) - (Len(T) - 1) + j] <= T[j]
  <2> DEFINE p == Len(A) - (Len(T) - 0) + j
             q == Len(A) - (Len(T) - 1) + j
  <2>1. p \in 1..Len(A) /\ q \in 1..Len(A) /\ p <= q /\ j \in 1..(Len(T) - 0) /\ j \in 1..Len(T)
        BY <1>1
  <2>2. A[p] <= T[j] BY <2>1 DEF Covered
  <2>3. A[q] <= A[p] BY <2>1 DEF Sorted
  <2>4. A[p] \in Nat /\ A[q] \in Nat /\ T[j] \in Nat BY <2>1, ElementOfSeq
  <2> QED BY <2>2, <2>3, <2>4
<1> QED BY <1>1, <1>2 DEF Covered

-----------------------------------------------------------------------------
(***************************************************************************)
(* Typing, with the order of the two sequences.                            *)
(***************************************************************************)
Typed == TypeOK /\ Sorted(alerts) /\ Sorted(trades)

LEMMA TypedFacts ==
  ASSUME Typed, GateAssumption
  PROVE  /\ alerts \in Seq(Nat) /\ trades \in Seq(Nat)
         /\ alerts \in Seq(0..OldAlert) /\ trades \in Seq(0..Window)
         /\ Sorted(alerts) /\ Sorted(trades)
         /\ OldAlert \in Nat /\ OldSample \in Nat /\ Window \in Nat /\ Skew \in Nat
<1>1. OldAlert \in Nat /\ OldSample \in Nat /\ Window \in Nat /\ Skew \in Nat
      BY DEF GateAssumption, OldAlert, OldSample
<1>2. alerts \in Seq(0..OldAlert) /\ trades \in Seq(0..Window) /\ Sorted(alerts) /\ Sorted(trades)
      BY DEF Typed, TypeOK
<1>3. alerts \in Seq(Nat) BY <1>1, <1>2
<1>4. trades \in Seq(Nat) BY <1>1, <1>2
<1> QED BY <1>1, <1>2, <1>3, <1>4

\* What the type says of the windows.
WindowsTyped == /\ newest \in [Probes -> 0..OldSample \cup {None}]
                /\ alerts \in Seq(0..OldAlert) /\ Sorted(alerts)

LEMMA FreshTyped ==
  ASSUME Typed, GateAssumption
  PROVE  [p \in Probes |-> Fresh(newest[p])] \in [Probes -> 0..OldSample \cup {None}]
BY DEF Typed, TypeOK, Fresh

LEMMA TrimTyped ==
  ASSUME Typed, GateAssumption
  PROVE  /\ TrimAges(alerts) \in Seq(0..OldAlert) /\ Sorted(TrimAges(alerts))
         /\ TrimAges(alerts) \in Seq(Nat)
<1>1. alerts \in Seq(Nat) /\ alerts \in Seq(0..OldAlert) /\ Sorted(alerts) /\ OldAlert \in Nat
      BY TypedFacts
<1> QED BY <1>1, TrimKeeps

LEMMA SendTyped ==
  ASSUME Typed, GateAssumption, SendAlert PROVE WindowsTyped'
<1>1. newest' \in [Probes -> 0..OldSample \cup {None}] BY FreshTyped DEF SendAlert
<1>2. alerts' \in Seq(0..OldAlert) /\ Sorted(alerts')
  <2>1. CASE alerts' = TrimAges(alerts) BY <2>1, TrimTyped
  <2>2. CASE alerts' = Append(TrimAges(alerts), 0)
    <3>1. OldAlert \in Nat BY TypedFacts
    <3> QED BY <2>2, <3>1, TrimTyped, AppendKeeps
  <2> QED BY <2>1, <2>2 DEF SendAlert
<1> QED BY <1>1, <1>2 DEF WindowsTyped, OldSample, OldAlert, None

LEMMA TrimAllTyped ==
  ASSUME Typed, GateAssumption, TrimAll PROVE WindowsTyped'
BY FreshTyped, TrimTyped DEF TrimAll, WindowsTyped, OldSample, OldAlert, None

LEMMA TypedStep ==
  ASSUME Typed, GateAssumption, [Next]_vars
  PROVE  Typed'
<1> DEFINE Rest == /\ webhook \in BOOLEAN /\ row \in BOOLEAN /\ kill \in BOOLEAN
                   /\ pending \in SUBSET Requests
                   /\ scan \in [pc : ScanPcs, row : BOOLEAN]
                   /\ heartbeat \in 0..Skew /\ incidents \in Nat /\ stopAge \in 0..Skew
           TradesTyped == trades \in Seq(0..Window) /\ Sorted(trades)
<1>0. Rest /\ WindowsTyped /\ TradesTyped BY DEF Typed, TypeOK, WindowsTyped
<1>a. Skew \in Nat BY TypedFacts
<1>b. ASSUME Rest', WindowsTyped', TradesTyped' PROVE Typed'
      BY <1>b DEF Typed, TypeOK, WindowsTyped
<1>c. ASSUME UNCHANGED trades PROVE TradesTyped' BY <1>c, <1>0 DEF Sorted
<1>d. ASSUME UNCHANGED windows PROVE WindowsTyped'
      BY <1>d, <1>0 DEF windows, WindowsTyped, Sorted, OldSample, OldAlert
<1>e. ASSUME NEW pc \in ScanPcs, Goto(pc) PROVE scan' \in [pc : ScanPcs, row : BOOLEAN]
      BY <1>e DEF Goto
<1>1. ASSUME NEW p \in Probes, NEW ok \in BOOLEAN, HealthSample(p, ok) PROVE Typed'
  <2>1. newest' \in [Probes -> 0..OldSample \cup {None}]
    <3>1. OldSample \in Nat BY TypedFacts
    <3> QED BY <1>1, <1>0, <3>1, FreshTyped DEF HealthSample, WindowsTyped, Fresh
  <2>2. WindowsTyped' BY <2>1, <1>1, TrimTyped DEF HealthSample, WindowsTyped, OldSample, OldAlert, None
  <2>3. Rest' BY <1>1, <1>0 DEF HealthSample, control
  <2> QED BY <2>2, <2>3, <1>1, <1>b, <1>c DEF HealthSample
<1>2. ASSUME NEW op \in Requests, CommitRow(op) \/ SetFlag(op) \/ AbandonFlag(op) PROVE Typed'
  <2>1. Rest'
    <3>1. pending' \in SUBSET Requests BY <1>2, <1>0 DEF CommitRow, SetFlag, AbandonFlag
    <3>2. stopAge' \in 0..Skew
      <4>1. 0 \in 0..Skew /\ stopAge \in 0..Skew BY <1>0, <1>a
      <4> QED BY <4>1, <1>2 DEF CommitRow, SetFlag, AbandonFlag, StopAgeAfter
    <3>3. row' \in BOOLEAN /\ kill' \in BOOLEAN
          BY <1>2, <1>0, Zenon DEF CommitRow, SetFlag, AbandonFlag
    <3>4. UNCHANGED <<webhook, scan, heartbeat, incidents>>
          BY <1>2 DEF CommitRow, SetFlag, AbandonFlag
    <3> QED BY <3>1, <3>2, <3>3, <3>4, <1>0
  <2>2. UNCHANGED trades /\ UNCHANGED windows BY <1>2 DEF CommitRow, SetFlag, AbandonFlag
  <2> QED BY <2>1, <2>2, <1>b, <1>c, <1>d
<1>3. CASE ScanStart \/ ScanRead \/ ScanApply \/ ScanNoDrawdown \/ ScanEligible \/ ScanBlocked \/ ScanDies
  <2>1. Rest' BY <1>3, <1>0, <1>a, <1>e
        DEF ScanStart, ScanRead, ScanApply, ScanNoDrawdown, ScanEligible, ScanBlocked, ScanDies,
            Goto, control, ScanPcs
  <2>2. UNCHANGED trades /\ UNCHANGED windows
        BY <1>3 DEF ScanStart, ScanRead, ScanApply, ScanNoDrawdown, ScanEligible, ScanBlocked, ScanDies
  <2> QED BY <2>1, <2>2, <1>b, <1>c, <1>d
<1>4. CASE ScanDrawdown \/ ScanFail \/ StartupAlert
  <2>1. SendIncident /\ UNCHANGED trades BY <1>4 DEF ScanDrawdown, ScanFail, StartupAlert
  <2>2. WindowsTyped' BY <2>1, SendTyped DEF SendIncident
  <2>3. incidents' \in Nat BY <2>1, <1>0 DEF SendIncident
  <2>4. Rest'
    <3>1. stopAge' \in 0..Skew
      <4>1. 0 \in 0..Skew /\ stopAge \in 0..Skew BY <1>0, <1>a
      <4> QED BY <4>1, <1>4 DEF ScanDrawdown, ScanFail, StartupAlert, StopAgeAfter
    <3>2. row' \in BOOLEAN /\ kill' \in BOOLEAN
          BY <1>4, <1>0, Zenon DEF ScanDrawdown, ScanFail, StartupAlert, control
    <3>3. scan' \in [pc : ScanPcs, row : BOOLEAN]
          BY <1>4, <1>0, <1>e DEF ScanDrawdown, ScanFail, StartupAlert, control, ScanPcs
    <3>4. UNCHANGED <<webhook, pending, heartbeat>>
          BY <1>4 DEF ScanDrawdown, ScanFail, StartupAlert, control
    <3> QED BY <3>1, <3>2, <3>3, <3>4, <2>3, <1>0
  <2> QED BY <2>1, <2>2, <2>4, <1>b, <1>c
<1>5. CASE ScanAlert
  <2>1. WindowsTyped' BY <1>5, SendTyped DEF ScanAlert
  <2>2. Rest' BY <1>5, <1>0 DEF ScanAlert, Goto, control, ScanPcs
  <2> QED BY <2>1, <2>2, <1>5, <1>b, <1>c DEF ScanAlert
<1>6. CASE ScanQuote \/ ScanRecord
  <2>1. WindowsTyped' BY <1>6, TrimAllTyped DEF ScanQuote, ScanRecord
  <2>2. scan' \in [pc : ScanPcs, row : BOOLEAN]
        BY <1>6, <1>e DEF ScanQuote, ScanRecord, ScanPcs
  <2>3. UNCHANGED <<control, heartbeat, incidents, stopAge, trades>>
        BY <1>6 DEF ScanQuote, ScanRecord
  <2>4. Rest' BY <2>2, <2>3, <1>0 DEF control
  <2> QED BY <2>1, <2>3, <2>4, <1>b, <1>c
<1>7. CASE ScanTrade
  <2>1. TradesTyped'
    <3>1. CASE webhook BY <3>1, <1>7, <1>0 DEF ScanTrade, Sorted
    <3>2. CASE ~webhook
      <4>1. trades' = Append(trades, 0) BY <3>2, <1>7 DEF ScanTrade
      <4> QED BY <4>1, TypedFacts, AppendKeeps
    <3> QED BY <3>1, <3>2
  <2>2. Rest' /\ UNCHANGED windows BY <1>7, <1>0 DEF ScanTrade, Goto, control, ScanPcs
  <2> QED BY <2>1, <2>2, <1>b, <1>d
<1>8. CASE Tick
  <2>1. newest' \in [Probes -> 0..OldSample \cup {None}]
    <3>1. OldSample \in Nat BY TypedFacts
    <3> QED BY <1>8, <1>0, <3>1 DEF Tick, WindowsTyped, Older, None
  <2>2. alerts' = AgedAlerts(alerts) /\ trades' = AgedTrades(trades)
        BY <1>8 DEF Tick, AgedAlerts, AgedTrades
  <2>3. WindowsTyped' BY <2>1, <2>2, TypedFacts, AlertsAge DEF WindowsTyped, OldSample, OldAlert, None
  <2>4. TradesTyped' BY <2>2, TypedFacts, TradesAge
  <2>5. Rest' BY <1>8, <1>0, <1>a DEF Tick, Older, control
  <2> QED BY <2>3, <2>4, <2>5, <1>b
<1>10. CASE GasSample
  <2>1. WindowsTyped' BY <1>10, TrimAllTyped DEF GasSample
  <2>2. Rest' /\ UNCHANGED trades BY <1>10, <1>0 DEF GasSample, control
  <2> QED BY <2>1, <2>2, <1>b, <1>c
<1>9. CASE UNCHANGED vars
  <2>1. Rest' /\ UNCHANGED trades /\ UNCHANGED windows BY <1>9, <1>0 DEF vars, control, windows
  <2> QED BY <2>1, <1>b, <1>c, <1>d
<1> QED BY <1>1, <1>2, <1>3, <1>4, <1>5, <1>6, <1>7, <1>8, <1>9, <1>10 DEF Next, ScanStep

LEMMA InitTyped == Init => Typed
<1> SUFFICES ASSUME Init PROVE Typed OBVIOUS
<1>1. Skew \in Nat /\ OldSample \in Nat BY GateAssumption DEF GateAssumption, OldSample
<1>2. alerts \in Seq(0..OldAlert) /\ trades \in Seq(0..Window) BY DEF Init
<1>4. newest \in [Probes -> 0..OldSample \cup {None}] BY DEF Init
<1>5. scan \in [pc : ScanPcs, row : BOOLEAN] BY DEF Init, ScanPcs
<1>7. heartbeat \in 0..Skew /\ stopAge \in 0..Skew /\ incidents \in Nat BY <1>1 DEF Init
<1>8. row \in BOOLEAN /\ kill \in BOOLEAN /\ webhook \in BOOLEAN /\ pending \in SUBSET Requests
        BY DEF Init
<1>6. TypeOK BY <1>2, <1>4, <1>5, <1>7, <1>8 DEF TypeOK
<1>3. Sorted(alerts) /\ Sorted(trades) BY DEF Init, Sorted
<1> QED BY <1>6, <1>3 DEF Typed

\* Only an admitted opportunity moves from judge to trade.
LEMMA DecidesOnlyIfAdmitted ==
  ASSUME Next, Decides PROVE ScanEligible
<1>1. scan.pc = "judge" /\ scan'.pc = "trade" BY DEF Decides
<1>2. scan' # scan BY <1>1
<1>3. ASSUME NEW p \in Probes, NEW ok \in BOOLEAN, HealthSample(p, ok) PROVE FALSE
      BY <1>2, <1>3 DEF HealthSample
<1>4. ASSUME NEW op \in Requests, CommitRow(op) \/ SetFlag(op) \/ AbandonFlag(op) PROVE FALSE
      BY <1>2, <1>4 DEF CommitRow, SetFlag, AbandonFlag
<1>5. ~(ScanStart \/ ScanRead \/ ScanApply \/ ScanNoDrawdown \/ ScanDrawdown \/ ScanQuote)
      BY <1>1 DEF ScanStart, ScanRead, ScanApply, ScanNoDrawdown, ScanDrawdown, ScanQuote
<1>6. ~(ScanTrade \/ ScanRecord \/ ScanAlert)
      BY <1>1 DEF ScanTrade, ScanRecord, ScanAlert
<1>7. ~ScanBlocked BY <1>1 DEF ScanBlocked, Goto
<1>8. ~(ScanFail \/ ScanDies) BY <1>1 DEF ScanFail, ScanDies, Goto
<1>9. ~(GasSample \/ StartupAlert \/ Tick) BY <1>2 DEF GasSample, StartupAlert, Tick
<1> QED BY <1>3, <1>4, <1>5, <1>6, <1>7, <1>8, <1>9 DEF Next, ScanStep

\* Every reachable state of the gate is well typed.
THEOREM TypeCorrect == Spec => []TypeOK
<1>1. Init => Typed BY InitTyped
<1>2. Typed /\ [Next]_vars => Typed' BY TypedStep, GateAssumption
<1>3. Typed => TypeOK BY DEF Typed
<1> QED BY <1>1, <1>2, <1>3, PTL DEF Spec

-----------------------------------------------------------------------------
(***************************************************************************)
(* A pause that the flag does not show yet is younger than the cycle that  *)
(* ignores it.                                                             *)
(***************************************************************************)
Applied == {"drawdown", "quote", "judge", "trade", "record", "alert"}

LagInv ==
  /\ scan.pc = "apply" /\ row /\ ~scan.row => stopAge <= heartbeat
  /\ scan.pc \in Applied /\ row /\ ~kill => stopAge <= heartbeat

LEMMA LagStep ==
  ASSUME Typed, LagInv, GateAssumption, [Next]_vars
  PROVE  LagInv'
<1>0. /\ heartbeat \in 0..Skew /\ stopAge \in 0..Skew /\ Skew \in Nat
      /\ scan \in [pc : ScanPcs, row : BOOLEAN]
      BY TypedFacts DEF Typed, TypeOK
<1>1. ASSUME NEW p \in Probes, NEW ok \in BOOLEAN, HealthSample(p, ok) PROVE LagInv'
  BY <1>1 DEF HealthSample, control, LagInv
<1>2. ASSUME NEW op \in Requests, CommitRow(op) PROVE LagInv'
  <2>1. UNCHANGED <<scan, kill, heartbeat>> BY <1>2 DEF CommitRow
  <2>2. row \in BOOLEAN BY DEF Typed, TypeOK
  <2>3. row' => (row /\ stopAge' = stopAge) \/ stopAge' = 0
    <3>1. CASE ~row /\ op = "pause" BY <3>1, <1>2 DEF CommitRow, StopAgeAfter
    <3>2. CASE row \/ op # "pause"
      <4>1. stopAge' = stopAge BY <3>2, <1>2 DEF CommitRow, StopAgeAfter
      <4>2. row' = (op = "pause") BY <1>2, Zenon DEF CommitRow
      <4> QED BY <4>1, <4>2, <3>2
    <3> QED BY <3>1, <3>2
  <2> QED BY <2>1, <2>3, <1>0 DEF LagInv
<1>3. ASSUME NEW op \in Requests, SetFlag(op) PROVE LagInv'
  <2>1. UNCHANGED <<scan, row, heartbeat>> BY <1>3 DEF SetFlag
  <2>2. stopAge' = IF op = "resume" /\ row THEN 0 ELSE stopAge BY <1>3 DEF SetFlag
  <2>3. kill' = (op = "pause") BY <1>3, Zenon DEF SetFlag
  <2>4. CASE op = "pause"
    <3>1. kill' /\ stopAge' = stopAge BY <2>2, <2>3, <2>4
    <3> QED BY <2>1, <3>1 DEF LagInv
  <2>5. CASE op = "resume"
    <3>1. row => stopAge' = 0 BY <2>2, <2>5
    <3> QED BY <2>1, <3>1, <1>0 DEF LagInv
  <2> QED BY <2>4, <2>5 DEF Requests
<1>4. ASSUME NEW op \in Requests, AbandonFlag(op) PROVE LagInv'
  BY <1>4 DEF AbandonFlag, LagInv
<1>5. CASE ScanStart BY <1>5 DEF ScanStart, Goto, LagInv, Applied
<1>6. CASE ScanRead
  <2>1. scan'.pc = "apply" /\ scan'.row = row /\ row' = row BY <1>6 DEF ScanRead, control
  <2> QED BY <2>1 DEF LagInv, Applied
<1>7. CASE ScanApply
  <2>1. scan'.pc = "drawdown" /\ kill' = scan.row /\ row' = row /\ scan.pc = "apply"
        /\ heartbeat' = heartbeat /\ stopAge' = stopAge
        BY <1>7 DEF ScanApply
  <2> QED BY <2>1 DEF LagInv
<1>8. CASE ScanDrawdown
  <2>1. scan'.pc = "quote" /\ kill' BY <1>8, Zenon DEF ScanDrawdown, Goto
  <2> QED BY <2>1 DEF LagInv
<1>9. CASE ScanNoDrawdown \/ ScanQuote \/ ScanEligible \/ ScanTrade \/ ScanRecord
  <2>1. /\ scan.pc \in Applied /\ scan'.pc # "apply"
        /\ UNCHANGED <<row, kill, heartbeat, stopAge>>
        BY <1>9 DEF ScanNoDrawdown, ScanQuote, ScanEligible, ScanTrade, ScanRecord,
                    Goto, control, Applied
  <2> QED BY <2>1 DEF LagInv
<1>10. CASE ScanBlocked \/ ScanAlert
  <2>1. /\ scan.pc \in Applied /\ scan'.pc # "apply"
        /\ UNCHANGED <<row, kill, heartbeat, stopAge>>
        BY <1>10 DEF ScanBlocked, ScanAlert, Goto, control, Applied
  <2> QED BY <2>1 DEF LagInv
<1>11. CASE ScanFail \/ ScanDies
  BY <1>11 DEF ScanFail, ScanDies, Goto, LagInv, Applied
<1>12. CASE GasSample \/ StartupAlert BY <1>12 DEF GasSample, StartupAlert, control, LagInv
<1>13. CASE Tick
  <2>1. UNCHANGED <<row, kill, scan>> /\ heartbeat' = Older(heartbeat, Skew)
        /\ stopAge' = Older(stopAge, Skew)
        BY <1>13 DEF Tick, control
  <2>2. stopAge <= heartbeat => stopAge' <= heartbeat' BY <2>1, <1>0 DEF Older
  <2> QED BY <2>1, <2>2 DEF LagInv
<1>14. CASE UNCHANGED vars BY <1>14 DEF vars, control, LagInv
<1> QED BY <1>1, <1>2, <1>3, <1>4, <1>5, <1>6, <1>7, <1>8, <1>9, <1>10, <1>11, <1>12, <1>13,
           <1>14 DEF Next, ScanStep

\* Whatever the operators do, a pause is obeyed within the heartbeat limit.
THEOREM PauseLag == Spec => PauseLagBounded
<1>1. Init => Typed /\ LagInv
  <2>1. Init => Typed BY InitTyped
  <2>2. Init => LagInv BY DEF Init, LagInv, Applied
  <2> QED BY <2>1, <2>2
<1>2. Typed /\ LagInv /\ [Next]_vars => (Typed /\ LagInv)'
      BY TypedStep, LagStep, GateAssumption
<1>3. Typed /\ LagInv /\ [Next]_vars => [Decides /\ row => stopAge < Skew]_vars
  <2> SUFFICES ASSUME Typed, LagInv, Next, Decides, row PROVE stopAge < Skew
    BY DEF vars, Decides
  <2>1. ScanEligible BY DecidesOnlyIfAdmitted
  <2>2. ~kill /\ heartbeat < Skew /\ scan.pc = "judge" BY <2>1 DEF ScanEligible, Admits
  <2>3. stopAge <= heartbeat BY <2>2 DEF LagInv, Applied
  <2>4. stopAge \in Nat /\ heartbeat \in Nat /\ Skew \in Nat
        BY TypedFacts, GateAssumption DEF Typed, TypeOK
  <2> QED BY <2>2, <2>3, <2>4
<1> QED BY <1>1, <1>2, <1>3, PTL DEF Spec, PauseLagBounded

-----------------------------------------------------------------------------
(***************************************************************************)
(* Nothing the gate reads is older than the window plus the cycle's age.   *)
(***************************************************************************)
EvidenceInv == scan.pc = "judge" => \A p \in Probes : newest[p] <= Window + heartbeat

LEMMA FreshBound ==
  ASSUME Typed, GateAssumption, NEW p \in Probes
  PROVE  Fresh(newest[p]) <= Window + heartbeat /\ Fresh(newest[p]) <= newest[p]
<1>1. newest[p] \in 0..OldSample \cup {None} /\ heartbeat \in 0..Skew BY DEF Typed, TypeOK
<1>2. OldSample \in Nat /\ Window \in Nat /\ Skew \in Nat BY TypedFacts
<1> QED BY <1>1, <1>2 DEF Fresh, None

LEMMA EvidenceStep ==
  ASSUME Typed, EvidenceInv, GateAssumption, [Next]_vars
  PROVE  EvidenceInv'
<1>0. /\ heartbeat \in 0..Skew /\ Skew \in Nat /\ Window \in Nat /\ OldSample = Window + Skew
      /\ \A p \in Probes : newest[p] \in 0..OldSample \cup {None}
      BY TypedFacts DEF Typed, TypeOK, OldSample
<1>1. ASSUME NEW p \in Probes, NEW ok \in BOOLEAN, HealthSample(p, ok) PROVE EvidenceInv'
  <2>1. UNCHANGED <<scan, heartbeat>> BY <1>1 DEF HealthSample
  <2>2. \A q \in Probes : newest'[q] <= Window + heartbeat
    <3> SUFFICES ASSUME NEW q \in Probes PROVE newest'[q] <= Window + heartbeat OBVIOUS
    <3>1. newest'[q] = IF q = p THEN (IF ok THEN 0 ELSE None) ELSE Fresh(newest[q])
          BY <1>1 DEF HealthSample
    <3> QED BY <3>1, <1>0, FreshBound DEF None
  <2> QED BY <2>1, <2>2 DEF EvidenceInv
<1>2. ASSUME NEW op \in Requests, CommitRow(op) \/ SetFlag(op) \/ AbandonFlag(op)
      PROVE  EvidenceInv'
  BY <1>2 DEF CommitRow, SetFlag, AbandonFlag, windows, EvidenceInv
<1>3. CASE ScanQuote
  <2>1. heartbeat' = heartbeat /\ newest' = [p \in Probes |-> Fresh(newest[p])]
        BY <1>3 DEF ScanQuote, TrimAll
  <2>2. \A q \in Probes : newest'[q] <= Window + heartbeat BY <2>1, FreshBound
  <2> QED BY <2>1, <2>2 DEF EvidenceInv
<1>4. CASE ScanStart \/ ScanRead \/ ScanApply \/ ScanNoDrawdown \/ ScanDrawdown
  <2>1. scan'.pc # "judge"
        BY <1>4 DEF ScanStart, ScanRead, ScanApply, ScanNoDrawdown, ScanDrawdown, Goto
  <2> QED BY <2>1 DEF EvidenceInv
<1>5. CASE ScanEligible \/ ScanBlocked \/ ScanTrade \/ ScanRecord \/ ScanAlert \/ ScanFail \/ ScanDies
  <2>1. scan'.pc # "judge"
        BY <1>5 DEF ScanEligible, ScanBlocked, ScanTrade, ScanRecord, ScanAlert, ScanFail, ScanDies, Goto
  <2> QED BY <2>1 DEF EvidenceInv
<1>6. CASE GasSample \/ StartupAlert
  <2>1. UNCHANGED <<scan, heartbeat>> /\ newest' = [p \in Probes |-> Fresh(newest[p])]
        BY <1>6 DEF GasSample, TrimAll, StartupAlert, SendIncident, SendAlert
  <2>2. \A q \in Probes : newest'[q] <= Window + heartbeat BY <2>1, FreshBound
  <2> QED BY <2>1, <2>2 DEF EvidenceInv
<1>7. CASE Tick
  <2>1. /\ scan' = scan /\ heartbeat' = Older(heartbeat, Skew)
        /\ \A q \in Probes : newest'[q] = IF newest[q] = None THEN None
                                          ELSE Older(newest[q], OldSample)
        BY <1>7 DEF Tick
  <2>2. ASSUME NEW q \in Probes, newest[q] <= Window + heartbeat
        PROVE  newest'[q] <= Window + heartbeat'
    BY <2>1, <2>2, <1>0 DEF Older, None
  <2> QED BY <2>1, <2>2 DEF EvidenceInv
<1>8. CASE UNCHANGED vars BY <1>8 DEF vars, windows, EvidenceInv
<1> QED BY <1>1, <1>2, <1>3, <1>4, <1>5, <1>6, <1>7, <1>8 DEF Next, ScanStep

\* However the probes hang or fail, a trade rests on recent good ones.
THEOREM EvidenceRecent == Spec => EvidenceBounded
<1>1. Init => Typed /\ EvidenceInv
  <2>1. Init => Typed BY InitTyped
  <2>2. Init => scan.pc # "judge" BY DEF Init
  <2>3. scan.pc # "judge" => EvidenceInv BY DEF EvidenceInv
  <2> QED BY <2>1, <2>2, <2>3
<1>2. Typed /\ EvidenceInv /\ [Next]_vars => (Typed /\ EvidenceInv)'
      BY TypedStep, EvidenceStep, GateAssumption
<1>3. Typed /\ EvidenceInv /\ [Next]_vars
        => [Decides => \A p \in Probes : newest[p] \in 0..Window + Skew - 1]_vars
  <2> SUFFICES ASSUME Typed, EvidenceInv, Next, Decides, NEW p \in Probes
               PROVE  newest[p] \in 0..Window + Skew - 1
    BY DEF vars, Decides
  <2>1. ScanEligible BY DecidesOnlyIfAdmitted
  <2>2. newest[p] # None /\ heartbeat < Skew /\ scan.pc = "judge"
        BY <2>1 DEF ScanEligible, Admits
  <2>3. newest[p] <= Window + heartbeat BY <2>2 DEF EvidenceInv
  <2>4. /\ newest[p] \in 0..OldSample \cup {None} /\ heartbeat \in 0..Skew
        /\ Skew \in Nat /\ Window \in Nat /\ OldSample \in Nat
        BY TypedFacts, GateAssumption DEF Typed, TypeOK
  <2> QED BY <2>2, <2>3, <2>4
<1> QED BY <1>1, <1>2, <1>3, PTL DEF Spec, EvidenceBounded

-----------------------------------------------------------------------------
(***************************************************************************)
(* Every trade of the window has a failed alert that is no older, except   *)
(* the one whose alert is still to be sent.                                *)
(***************************************************************************)
Owed == IF scan.pc \in {"record", "alert"} THEN 1 ELSE 0

ThrottleInv ==
  ~webhook =>
    /\ Len(trades) <= AlertThreshold
    /\ scan.pc = "trade" => Len(trades) < AlertThreshold
    /\ scan.pc # "dead" => Covered(trades, alerts, Owed)

\* The facts every step below works with.
LEMMA ThrottleFacts ==
  ASSUME Typed, ThrottleInv, ~webhook, GateAssumption
  PROVE  /\ Len(trades) <= AlertThreshold
         /\ scan.pc = "trade" => Len(trades) < AlertThreshold
         /\ scan.pc # "dead" => Covered(trades, alerts, Owed)
         /\ Owed \in {0, 1}
         /\ Len(trades) \in Nat /\ Len(alerts) \in Nat /\ AlertThreshold \in Nat
<1>1. Len(trades) \in Nat /\ Len(alerts) \in Nat BY TypedFacts, LenProperties
<1> QED BY <1>1 DEF ThrottleInv, Owed, GateAssumption

\* Trimming, and trimming before a new failure.
LEMMA TrimCovers ==
  ASSUME Typed, GateAssumption, NEW k \in {0, 1}, Covered(trades, alerts, k)
  PROVE  /\ Covered(trades, TrimAges(alerts), k)
         /\ Covered(trades, Append(TrimAges(alerts), 0), 0)
         /\ Covered(trades, Append(TrimAges(alerts), 0), 1)
<1>1. alerts \in Seq(Nat) /\ Sorted(alerts) /\ trades \in Seq(0..Window) /\ trades \in Seq(Nat)
      BY TypedFacts
<1> DEFINE A == TrimAges(alerts)
<1>2. A \in Seq(Nat) /\ Sorted(A) /\ Covered(trades, A, k) BY <1>1, TrimKeeps
<1> HIDE DEF A
<1> DEFINE B == Append(A, 0)
<1>3. B \in Seq(Nat) /\ Sorted(B) /\ Covered(trades, B, 0) BY <1>1, <1>2, AppendKeeps
<1> HIDE DEF B
<1>4. Covered(trades, B, 1) BY <1>1, <1>3, CoverWeakens
<1> QED BY <1>2, <1>3, <1>4 DEF A, B

LEMMA ThrottleStep ==
  ASSUME Typed, ThrottleInv, GateAssumption, [Next]_vars
  PROVE  ThrottleInv'
<1> SUFFICES ASSUME ~webhook'
             PROVE  /\ Len(trades') <= AlertThreshold
                    /\ scan'.pc = "trade" => Len(trades') < AlertThreshold
                    /\ scan'.pc # "dead" => Covered(trades', alerts', Owed')
  BY DEF ThrottleInv, Covered
<1>0. ~webhook
  <2>1. webhook' = webhook
    BY DEF Next, vars, control, HealthSample, GasSample, CommitRow, SetFlag, AbandonFlag, ScanStep, ScanStart,
           ScanRead, ScanApply, ScanNoDrawdown, ScanDrawdown, ScanQuote, ScanEligible, ScanBlocked,
           ScanTrade, ScanRecord, ScanAlert, ScanFail, ScanDies, StartupAlert, Tick
  <2> QED BY <2>1
<1>a. /\ Len(trades) <= AlertThreshold
      /\ scan.pc = "trade" => Len(trades) < AlertThreshold
      /\ scan.pc # "dead" => Covered(trades, alerts, Owed)
      /\ Owed \in {0, 1}
      /\ Len(trades) \in Nat /\ Len(alerts) \in Nat /\ AlertThreshold \in Nat
      BY <1>0, ThrottleFacts
<1>b. SendAlert => alerts' = Append(TrimAges(alerts), 0) BY <1>0 DEF SendAlert
<1>1. ASSUME NEW p \in Probes, NEW ok \in BOOLEAN, HealthSample(p, ok)
      PROVE  scan' = scan /\ trades' = trades /\ alerts' = TrimAges(alerts)
  BY <1>1 DEF HealthSample
<1>14. GasSample => scan' = scan /\ trades' = trades /\ alerts' = TrimAges(alerts)
  BY DEF GasSample, TrimAll
<1>2. CASE scan' = scan /\ trades' = trades /\ alerts' = TrimAges(alerts)
  <2>1. Owed' = Owed BY <1>2 DEF Owed
  <2>2. scan.pc # "dead" => Covered(trades, TrimAges(alerts), Owed) BY <1>a, TrimCovers
  <2> QED BY <1>2, <1>a, <2>1, <2>2
<1>3. CASE scan' = scan /\ trades' = trades /\ alerts' = alerts
  <2>1. Owed' = Owed BY <1>3 DEF Owed
  <2> QED BY <1>3, <1>a, <2>1
<1>4. ASSUME NEW op \in Requests, CommitRow(op) \/ SetFlag(op) \/ AbandonFlag(op)
      PROVE  scan' = scan /\ trades' = trades /\ alerts' = alerts
  BY <1>4 DEF CommitRow, SetFlag, AbandonFlag, windows
<1>5. CASE ScanStart \/ ScanRead \/ ScanApply \/ ScanNoDrawdown \/ ScanBlocked
  <2>1. /\ trades' = trades /\ alerts' = alerts /\ scan.pc # "dead"
        /\ scan'.pc \notin {"trade", "record", "alert"} /\ scan.pc \notin {"record", "alert"}
        BY <1>5 DEF ScanStart, ScanRead, ScanApply, ScanNoDrawdown, ScanBlocked, Goto, windows
  <2>2. Owed' = 0 /\ Owed = 0 BY <2>1 DEF Owed
  <2> QED BY <2>1, <2>2, <1>a
<1>6. CASE ScanDrawdown \/ ScanAlert \/ ScanFail
  <2>1. SendAlert BY <1>6 DEF ScanDrawdown, ScanAlert, ScanFail, SendIncident
  <2>2. /\ trades' = trades /\ scan.pc # "dead"
        /\ scan'.pc \notin {"trade", "record", "alert"}
        BY <1>6 DEF ScanDrawdown, ScanAlert, ScanFail, Goto
  <2>3. Owed' = 0 BY <2>2 DEF Owed
  <2>4. Covered(trades, Append(TrimAges(alerts), 0), 0) BY <2>2, <1>a, TrimCovers
  <2> QED BY <2>1, <2>2, <2>3, <2>4, <1>a, <1>b
<1>7. CASE ScanDies
  <2>1. trades' = trades /\ scan'.pc = "dead" BY <1>7 DEF ScanDies, Goto
  <2> QED BY <2>1, <1>a
<1>8. CASE ScanQuote \/ ScanRecord
  <2>1. /\ trades' = trades /\ alerts' = TrimAges(alerts) /\ scan.pc # "dead"
        /\ scan'.pc # "trade"
        /\ scan'.pc \in {"record", "alert"} <=> scan.pc \in {"record", "alert"}
        BY <1>8 DEF ScanQuote, ScanRecord, TrimAll, Goto
  <2>2. Owed' = Owed BY <2>1 DEF Owed
  <2>3. Covered(trades, TrimAges(alerts), Owed) BY <2>1, <1>a, TrimCovers
  <2> QED BY <2>1, <2>2, <2>3, <1>a
<1>9. CASE ScanEligible
  <2>1. /\ trades' = trades /\ alerts' = alerts /\ scan.pc = "judge" /\ scan'.pc = "trade"
        /\ Len(alerts) < AlertThreshold
        BY <1>9 DEF ScanEligible, Admits, Goto, windows
  <2>2. Owed = 0 /\ Owed' = 0 BY <2>1 DEF Owed
  <2>3. Covered(trades, alerts, 0) BY <2>1, <2>2, <1>a
  <2>4. Len(trades) - 0 <= Len(alerts) BY <2>3 DEF Covered
  <2> QED BY <2>1, <2>2, <2>3, <2>4, <1>a
<1>10. CASE ScanTrade
  <2>1. /\ trades' = Append(trades, 0) /\ alerts' = alerts /\ scan.pc = "trade"
        /\ scan'.pc = "record"
        BY <1>10, <1>0 DEF ScanTrade, Goto, windows
  <2>2. Owed = 0 /\ Owed' = 1 BY <2>1 DEF Owed
  <2>3. Covered(trades, alerts, 0) BY <2>1, <2>2, <1>a
  <2>4. alerts \in Seq(Nat) /\ trades \in Seq(0..Window) /\ Sorted(trades) /\ Window \in Nat
        BY TypedFacts
  <2>5. Len(Append(trades, 0)) = Len(trades) + 1 /\ Covered(Append(trades, 0), alerts, 1)
        BY <2>3, <2>4, NewTradeOwesAlert
  <2> QED BY <2>1, <2>2, <2>5, <1>a
<1>11. CASE StartupAlert
  <2>1. scan' = scan /\ trades' = trades /\ SendAlert BY <1>11 DEF StartupAlert, SendIncident
  <2>2. Owed' = Owed BY <2>1 DEF Owed
  <2>3. scan.pc # "dead" => Covered(trades, Append(TrimAges(alerts), 0), Owed)
        BY <1>a, TrimCovers
  <2> QED BY <2>1, <2>2, <2>3, <1>a, <1>b
<1>12. CASE Tick
  <2>1. scan' = scan /\ trades' = AgedTrades(trades) /\ alerts' = AgedAlerts(alerts)
        BY <1>12 DEF Tick, AgedTrades, AgedAlerts
  <2>2. Owed' = Owed BY <2>1 DEF Owed
  <2>3. /\ alerts \in Seq(0..OldAlert) /\ Sorted(alerts)
        /\ trades \in Seq(0..Window) /\ Sorted(trades)
        BY TypedFacts
  <2>4. scan.pc # "dead" => Covered(AgedTrades(trades), AgedAlerts(alerts), Owed)
        BY <2>3, <1>a, AgeingKeepsCover
  <2>5. Len(AgedTrades(trades)) <= Len(trades) /\ Len(AgedTrades(trades)) \in Int
    <3>1. PICK n \in 0..Len(trades) : Len(AgedTrades(trades)) = Len(trades) - n
          BY <2>3, TradesAge
    <3> QED BY <3>1, <1>a
  <2> QED BY <2>1, <2>2, <2>4, <2>5, <1>a
<1>13. CASE UNCHANGED vars BY <1>13, <1>3 DEF vars, windows
<1> QED BY <1>1, <1>2, <1>3, <1>4, <1>5, <1>6, <1>7, <1>8, <1>9, <1>10, <1>11, <1>12, <1>13,
           <1>14 DEF Next, ScanStep

\* Without a webhook the alert guard throttles trading, whatever fails meanwhile.
THEOREM Throttled == Spec => []TradesThrottledByAlerts
<1>1. Init => Typed /\ ThrottleInv
  <2>1. Init => Typed BY InitTyped
  <2>2. ASSUME Init PROVE ThrottleInv
    <3>1. trades = <<>> /\ alerts = <<>> /\ scan.pc = "start" BY <2>2 DEF Init
    <3>2. Owed = 0 BY <3>1 DEF Owed
    <3>3. AlertThreshold \in Nat BY GateAssumption DEF GateAssumption
    <3>4. Len(trades) = 0 /\ Len(alerts) = 0 BY <3>1
    <3>5. Covered(trades, alerts, 0) BY <3>4 DEF Covered
    <3> QED BY <3>1, <3>2, <3>3, <3>4, <3>5 DEF ThrottleInv
  <2> QED BY <2>1, <2>2
<1>2. Typed /\ ThrottleInv /\ [Next]_vars => (Typed /\ ThrottleInv)'
      BY TypedStep, ThrottleStep, GateAssumption
<1>3. ThrottleInv => TradesThrottledByAlerts BY DEF ThrottleInv, TradesThrottledByAlerts
<1> QED BY <1>1, <1>2, <1>3, PTL DEF Spec
=============================================================================
