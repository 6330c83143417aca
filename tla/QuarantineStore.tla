-------------------------- MODULE QuarantineStore --------------------------
(***************************************************************************)
(* What the bot promises of the quarantine of its routes.  A route is held *)
(* for reasons: it is paused, it cools down, it failed or lost too often.  *)
(* It trades only while there is none.  A reason goes away only by the     *)
(* operation that lifts it, a cooldown also by itself; no operation lifts  *)
(* a hold for losses.  A restart changes nothing about a route, unless the *)
(* route was at risk: changed since it was last brought into safety.       *)
(***************************************************************************)
CONSTANT Routes

VARIABLES
  held,     \* the reasons for which each route is held
  atRisk,   \* the routes a restart may forget something about
  trading   \* the route that is being traded, if any

vars == <<held, atRisk, trading>>

Reasons == {"pause", "cooldown", "failures", "losses"}

Init ==
  /\ held = [r \in Routes |-> {}]
  /\ atRisk = {} /\ trading = {}

Disable(r) ==
  /\ held' = [held EXCEPT ![r] = @ \cup {"pause"}]
  /\ atRisk' = atRisk \cup {r} /\ UNCHANGED trading

Enable(r) ==
  /\ held' = [held EXCEPT ![r] = @ \ {"pause"}]
  /\ atRisk' = atRisk \cup {r} /\ UNCHANGED trading

Clear(touched) ==
  /\ held' = [r \in Routes |-> IF r \in touched THEN held[r] \ {"cooldown", "failures"}
                               ELSE held[r]]
  /\ atRisk' = atRisk \cup touched /\ UNCHANGED trading

\* A cooldown ends, or none does.
Expire ==
  /\ held' \in [Routes -> SUBSET Reasons]
  /\ \A r \in Routes : held[r] \ {"cooldown"} \subseteq held'[r] /\ held'[r] \subseteq held[r]
  /\ UNCHANGED <<atRisk, trading>>

Begin(r) ==
  /\ held[r] = {} /\ trading = {}
  /\ trading' = {r}
  /\ UNCHANGED <<held, atRisk>>

\* A trade or a quote failed; the cooldown starts anew.
Fail(r) ==
  /\ trading \subseteq {r} /\ trading' = {}
  /\ \E more \in SUBSET {"cooldown", "failures"} :
       held' = [held EXCEPT ![r] = (@ \ {"cooldown"}) \cup {"pause"} \cup more]
  /\ atRisk' = atRisk \cup {r}

\* The trade is over; its loss may have been one too many.
Finish(r) ==
  /\ trading = {r} /\ trading' = {}
  /\ \E more \in SUBSET {"losses"} : held' = [held EXCEPT ![r] = @ \cup more]
  /\ atRisk' = atRisk \cup {r}

\* The trade is given up.
Drop == trading' = {} /\ UNCHANGED <<held, atRisk>>

Secure == atRisk' \subseteq atRisk /\ UNCHANGED <<held, trading>>

Restart ==
  /\ held' \in [Routes -> SUBSET Reasons]
  /\ \A r \in Routes \ atRisk : held'[r] = held[r]
  /\ atRisk' = {} /\ trading' = {}

Next ==
  \/ \E r \in Routes : Disable(r) \/ Enable(r) \/ Begin(r) \/ Fail(r) \/ Finish(r)
  \/ \E touched \in SUBSET Routes : Clear(touched)
  \/ Expire \/ Drop \/ Secure \/ Restart

Spec == Init /\ [][Next]_vars
=============================================================================
