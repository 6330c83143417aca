------------------------- MODULE RouteRuntimeProofs -------------------------
(***************************************************************************)
(* The quarantine properties of RouteRuntime, for any routes, requests,    *)
(* limits and number of crashes, when the restored rows come first.        *)
(***************************************************************************)
EXTENDS RouteRuntime, TLAPS

Kinds == {"disable", "enable", "clear", "failure", "loss", "gain"}

\* The assumption on the constants, in the form the steps use.
LEMMA Numbers ==
  /\ Cooldown \in Nat /\ MaxFails \in Nat /\ MaxLosses \in Nat
  /\ Scanner \notin Requests
BY ConstantsAssumption

\* Every change of a route state leaves a route state.
LEMMA ChangedType ==
  ASSUME NEW s \in States, now \in Nat, NEW what \in Kinds
  PROVE  Changed(what, s) \in States
<1> USE DEF Changed, States
<1>1. CASE what \in {"disable", "enable"}
  BY <1>1
<1>2. CASE what = "clear"
  BY <1>2
<1>3. CASE what = "failure"
  <2>1. s.fails + 1 \in Nat /\ now + Cooldown \in Nat
    BY Numbers
  <2>2. [s EXCEPT !.fails = @ + 1, !.until = now + Cooldown, !.paused = TRUE] \in States
    BY <2>1
  <2> QED
    BY <1>3, <2>2
<1>4. CASE what = "loss"
  <2>1. s.losses + 1 \in Nat
    OBVIOUS
  <2>2. [s EXCEPT !.fails = 0, !.losses = @ + 1] \in States
    BY <2>1
  <2> QED
    BY <1>4, <2>2
<1>5. CASE what = "gain"
  BY <1>5
<1> QED
  BY <1>1, <1>2, <1>3, <1>4, <1>5 DEF Kinds

\* A commit of the changed columns leaves a route state.
LEMMA FlushType ==
  ASSUME NEW s \in States, NEW t \in States, NEW u \in States
  PROVE  Flush(s, t, u) \in States
BY DEF Flush, States

\* A save that loaded the current row makes it what was captured.
LEMMA FlushCurrent ==
  ASSUME NEW s \in States, NEW u \in States
  PROVE  Flush(s, s, u) = u
BY DEF Flush, States

\* Being the same state at a time is an equivalence.
LEMMA SameIsEquivalence ==
  /\ \A s \in States, n \in Nat : Same(s, s, n)
  /\ \A s, t \in States, n \in Nat : Same(s, t, n) => Same(t, s, n)
  /\ \A s, t, u \in States, n \in Nat : Same(s, t, n) /\ Same(t, u, n) => Same(s, u, n)
BY DEF Same, States

\* A cooldown that is over stays over.
LEMMA SameLater ==
  ASSUME NEW s \in States, NEW t \in States, NEW n \in Nat, Same(s, t, n)
  PROVE  Same(s, t, n + 1)
BY DEF Same, States

\* Dropping a cooldown that is over leaves the same state.
LEMMA RestoredIsSame ==
  ASSUME NEW s \in States, now \in Nat
  PROVE  Restored(s) \in States /\ Same(Restored(s), s, now)
BY DEF Same, States, Restored

\* The same change to the same state.
LEMMA SameChange ==
  ASSUME NEW s \in States, NEW t \in States, now \in Nat, Same(s, t, now),
         NEW what \in Kinds
  PROVE  Same(Changed(what, s), Changed(what, t), now)
BY Numbers DEF Same, States, Changed, Kinds

\* The same states let a route through alike.
LEMMA SameOpen ==
  ASSUME NEW s \in States, NEW t \in States, now \in Nat, Same(s, t, now), Open(s)
  PROVE  Open(t)
BY Numbers DEF Same, States, Open

-----------------------------------------------------------------------------
(***************************************************************************)
(* Types.                                                                  *)
(***************************************************************************)
LEMMA InitialValues ==
  /\ Fresh \in States /\ AllFresh \in [Routes -> States] /\ SomeRoute \in Routes
  /\ NoSave \in Saves /\ NoRequest \in RequestStates /\ FreshScan \in Cycles
  /\ Booting \in [pc : {"query", "apply", "up"}, rows : [Routes -> States]]
<1>1. Fresh \in States
  BY DEF Fresh, States
<1>2. SomeRoute \in Routes
  BY ConstantsAssumption DEF SomeRoute
<1> QED
  BY <1>1, <1>2 DEF AllFresh, NoSave, Saves, NoRequest, RequestStates, AllOps, FreshScan,
                    Cycles, Booting

\* Changing some routes keeps the types.
LEMMA ChangeType ==
  ASSUME TypeOK, NEW a \in Actors, NEW touched \in SUBSET Routes, NEW what \in Kinds,
         Change(a, touched, what)
  PROVE  /\ mem' \in [Routes -> States] /\ truth' \in [Routes -> States]
         /\ dirty' \in [Actors -> SUBSET Routes]
         /\ torn' \in [Routes -> SUBSET {"overlap", "abandoned"}]
<1>1. \A r \in Routes : Changed(what, mem[r]) \in States /\ Changed(what, truth[r]) \in States
  BY ChangedType DEF TypeOK
<1>2. mem' \in [Routes -> States] /\ truth' \in [Routes -> States]
  BY <1>1 DEF Change, TypeOK
<1>3. dirty' \in [Actors -> SUBSET Routes]
  BY DEF Change, TypeOK
<1>4. torn' \in [Routes -> SUBSET {"overlap", "abandoned"}]
  BY DEF Change, TypeOK
<1> QED
  BY <1>2, <1>3, <1>4

\* Beginning a save keeps the types.
LEMMA CaptureType ==
  ASSUME TypeOK, NEW a \in Actors, NEW r \in Routes, NEW s \in States
  PROVE  [save EXCEPT ![a] = Capturing(r, s)] \in [Actors -> Saves]
<1>1. Capturing(r, s) \in Saves
  BY InitialValues DEF Capturing, NoSave, Saves
<1> QED
  BY <1>1 DEF TypeOK

\* Giving up keeps the types.
LEMMA AbandonType ==
  ASSUME TypeOK, NEW a \in Actors, Abandon(a)
  PROVE  /\ dirty' \in [Actors -> SUBSET Routes] /\ save' \in [Actors -> Saves]
         /\ torn' \in [Routes -> SUBSET {"overlap", "abandoned"}]
<1>1. torn' \in [Routes -> SUBSET {"overlap", "abandoned"}]
  BY DEF Abandon, TypeOK
<1> QED
  BY <1>1, InitialValues DEF Abandon, TypeOK

\* The initial states are well typed.
LEMMA TypeInit == Init => TypeOK
BY InitialValues DEF Init, TypeOK

\* Every step keeps the types.
LEMMA TypeStep == TypeOK /\ [Next]_vars => TypeOK'
<1> SUFFICES ASSUME TypeOK, [Next]_vars PROVE TypeOK'
  OBVIOUS
<1> USE DEF database, control, Actors
<1>1. ASSUME NEW h \in Requests, NEW op \in Ops, NEW r \in Routes, AcceptSwitch(h, op, r)
      PROVE  TypeOK'
  <2>1. op \in AllOps
    BY ConstantsAssumption
  <2>2. req' \in [Requests -> RequestStates]
    BY <1>1, <2>1 DEF AcceptSwitch, TypeOK, RequestStates
  <2> QED
    BY <1>1, <2>2 DEF AcceptSwitch, TypeOK
<1>2. ASSUME NEW h \in Requests, NEW touched \in SUBSET Routes, AcceptClear(h, touched)
      PROVE  TypeOK'
  <2>1. "clear" \in Kinds
    BY DEF Kinds
  <2>2. req' \in [Requests -> RequestStates]
    BY <1>2 DEF AcceptClear, TypeOK, RequestStates, AllOps
  <2> QED
    BY <1>2, <2>1, <2>2, ChangeType DEF AcceptClear, TypeOK
<1>3. ASSUME NEW h \in Requests, WriteColumn(h) PROVE TypeOK'
  <2>1. enabled' \in [Routes -> BOOLEAN]
    <3>1. (req[h].op = "enable") \in BOOLEAN
      OBVIOUS
    <3> QED
      BY <1>3, <3>1, Zenon DEF WriteColumn, TypeOK
  <2>2. req' \in [Requests -> RequestStates]
    BY <1>3 DEF WriteColumn, TypeOK, RequestStates
  <2> QED
    BY <1>3, <2>1, <2>2 DEF WriteColumn, TypeOK
<1>4. ASSUME NEW h \in Requests, SetFlag(h) PROVE TypeOK'
  <2>1. req[h].op \in Kinds /\ req[h].target \in SUBSET Routes
    BY DEF TypeOK, RequestStates, AllOps, Kinds
  <2>2. /\ mem' \in [Routes -> States] /\ truth' \in [Routes -> States]
        /\ dirty' \in [Actors -> SUBSET Routes]
        /\ torn' \in [Routes -> SUBSET {"overlap", "abandoned"}]
    BY <1>4, <2>1, ChangeType DEF SetFlag
  <2>3. save' \in [Actors -> Saves]
    BY <1>4, <2>1, <2>2, CaptureType DEF SetFlag
  <2>4. req' \in [Requests -> RequestStates]
    BY <1>4 DEF SetFlag, TypeOK, RequestStates
  <2> QED
    BY <1>4, <2>2, <2>3, <2>4 DEF SetFlag, TypeOK
<1>5. ASSUME NEW h \in Requests, BeginSave(h) PROVE TypeOK'
  <2>1. save' \in [Actors -> Saves]
    BY <1>5, CaptureType DEF BeginSave, TypeOK
  <2> QED
    BY <1>5, <2>1 DEF BeginSave, TypeOK
<1>6. ASSUME NEW h \in Requests, FailRequest(h) PROVE TypeOK'
  BY <1>6, AbandonType, InitialValues DEF FailRequest, TypeOK
<1>7. ASSUME NEW a \in Actors, SaveLoad(a) PROVE TypeOK'
  <2>1. save' \in [Actors -> Saves]
    BY <1>7 DEF SaveLoad, TypeOK, Saves
  <2> QED
    BY <1>7, <2>1 DEF SaveLoad, TypeOK
<1>8. ASSUME NEW a \in Actors, SaveCommit(a) PROVE TypeOK'
  <2>1. row' \in [Routes -> States]
    BY <1>8, FlushType DEF SaveCommit, TypeOK, Saves
  <2>2. dirty' \in [Actors -> SUBSET Routes]
    BY <1>8 DEF SaveCommit, TypeOK
  <2>3. save' \in [Actors -> Saves] /\ req' \in [Requests -> RequestStates]
    BY <1>8, InitialValues DEF SaveCommit, TypeOK
  <2> QED
    BY <1>8, <2>1, <2>2, <2>3 DEF SaveCommit, TypeOK
<1>9. CASE ScanList
  <2>1. scan' \in Cycles
    BY <1>9 DEF ScanList, TypeOK, Cycles
  <2> QED
    BY <1>9, <2>1 DEF ScanList, TypeOK
<1>10. ASSUME NEW r \in Routes, NEW what \in Kinds, Record(r, what)
       PROVE  /\ mem' \in [Routes -> States] /\ truth' \in [Routes -> States]
              /\ dirty' \in [Actors -> SUBSET Routes] /\ save' \in [Actors -> Saves]
              /\ torn' \in [Routes -> SUBSET {"overlap", "abandoned"}]
              /\ UNCHANGED <<database, req, boot, now, crashes>>
  <2>1. /\ mem' \in [Routes -> States] /\ truth' \in [Routes -> States]
        /\ dirty' \in [Actors -> SUBSET Routes]
        /\ torn' \in [Routes -> SUBSET {"overlap", "abandoned"}]
    BY <1>10, ChangeType DEF Record
  <2> QED
    BY <1>10, <2>1, CaptureType DEF Record
<1>11. ASSUME NEW r \in Routes, ScanBlocked(r) \/ ScanBadQuote(r) \/ ScanEligible(r)
       PROVE  TypeOK'
  <2>1. scan' \in Cycles
    BY <1>11 DEF ScanBlocked, ScanBadQuote, ScanEligible, TypeOK, Cycles
  <2> QED
    BY <1>11, <2>1 DEF ScanBlocked, ScanBadQuote, ScanEligible, TypeOK
<1>12. CASE ScanMark
  <2>1. scan' \in Cycles /\ scan.route \in Routes
    BY <1>12 DEF ScanMark, TypeOK, Cycles
  <2> QED
    BY <1>10, <1>12, <2>1 DEF ScanMark, Kinds, TypeOK
<1>13. CASE ScanSettle
  <2>1. scan' \in Cycles /\ scan.route \in Routes
    BY <1>13 DEF ScanSettle, TypeOK, Cycles
  <2> QED
    BY <1>10, <1>13, <2>1 DEF ScanSettle, Kinds, TypeOK
<1>14. CASE ScanSleep
  BY <1>14, InitialValues DEF ScanSleep, TypeOK
<1>15. CASE ScanFail
  BY <1>15, AbandonType, InitialValues DEF ScanFail, TypeOK
<1>16. CASE BootQuery
  BY <1>16 DEF BootQuery, TypeOK
<1>17. CASE BootApply
  <2>1. \A r \in Routes : Restored(boot.rows[r]) \in States
    BY RestoredIsSame DEF TypeOK
  <2> QED
    BY <1>17, <2>1, InitialValues DEF BootApply, TypeOK
<1>18. CASE Tick
  BY <1>18 DEF Tick, TypeOK
<1>19. CASE Crash
  <2>1. truth' \in [Routes -> States]
    BY <1>19 DEF Crash, TypeOK
  <2>2. torn' \in [Routes -> SUBSET {"overlap", "abandoned"}]
    BY <1>19 DEF Crash
  <2> QED
    BY <1>19, <2>1, <2>2, InitialValues DEF Crash, TypeOK
<1>20. CASE UNCHANGED vars
  BY <1>20 DEF vars, TypeOK
<1> QED
  BY <1>1, <1>2, <1>3, <1>4, <1>5, <1>6, <1>7, <1>8, <1>9, <1>11, <1>12, <1>13,
     <1>14, <1>15, <1>16, <1>17, <1>18, <1>19, <1>20 DEF Next, ScanStep

\* The state has the declared types.
THEOREM TypeCorrect == Spec => []TypeOK
BY TypeInit, TypeStep, PTL DEF Spec

-----------------------------------------------------------------------------
(***************************************************************************)
(* Who owes a save.  Only a request in its last phase and a scan that      *)
(* waits for its save do; before the startup is over, nobody does.         *)
(***************************************************************************)
RequestShape ==
  \A h \in Requests :
    /\ req[h].pc # "save" => dirty[h] = {}
    /\ req[h].pc \in {"column", "flag"} =>
         req[h].op \in {"disable", "enable"} /\ \E r \in Routes : req[h].target = {r}
    /\ req[h].pc # "idle" => Up

SaveShape == \A a \in Actors : save[a].pc # "idle" => save[a].route \in dirty[a]

ScanShape ==
  /\ dirty[Scanner] = IF save[Scanner].pc = "idle" THEN {} ELSE {save[Scanner].route}
  /\ ~Up => scan.pc = "list" /\ dirty[Scanner] = {}

Shape == RequestShape /\ SaveShape /\ ScanShape

\* The initial states are in shape.
LEMMA ShapeInit == Init => Shape
BY ConstantsAssumption
   DEF Init, Shape, RequestShape, SaveShape, ScanShape, Actors, NoSave, NoRequest, Booting, FreshScan, Up

\* Every step keeps the shape: who saves what, and what is still to be saved.
LEMMA ShapeStep ==
  ASSUME HydrationWins, TypeOK, Shape, [Next]_vars
  PROVE  Shape'
<1> USE DEF database, control, Actors, Shape, RequestShape, SaveShape, ScanShape, Up, At, ScanFree
<1>0. Scanner \in Actors /\ Scanner \notin Requests
  BY Numbers
<1>1. ASSUME NEW h \in Requests, NEW op \in Ops, NEW r \in Routes, AcceptSwitch(h, op, r)
      PROVE  Shape'
  BY <1>1 DEF AcceptSwitch, TypeOK, RequestStates
<1>2. ASSUME NEW h \in Requests, NEW touched \in SUBSET Routes, AcceptClear(h, touched)
      PROVE  Shape'
  <2>1. \A a \in Actors : a # h => dirty'[a] = dirty[a]
    BY <1>2 DEF AcceptClear, Change, TypeOK
  <2>2. save[h].pc = "idle"
    BY <1>2 DEF AcceptClear
  <2>3. UNCHANGED <<save, scan, boot>> /\ Up
    BY <1>2 DEF AcceptClear
  <2>4. \A g \in Requests : g # h => req'[g] = req[g]
    BY <1>2 DEF AcceptClear, TypeOK
  <2>5. req'[h].pc = "save"
    BY <1>2 DEF AcceptClear, TypeOK
  <2> QED
    BY <1>0, <2>1, <2>2, <2>3, <2>4, <2>5
<1>3. ASSUME NEW h \in Requests, WriteColumn(h) PROVE Shape'
  BY <1>3 DEF WriteColumn, TypeOK, RequestStates
<1>4. ASSUME NEW h \in Requests, SetFlag(h) PROVE Shape'
  <2>1. \A a \in Actors : a # h => dirty'[a] = dirty[a] /\ save'[a] = save[a]
    BY <1>4 DEF SetFlag, Change, TypeOK
  <2>2. dirty'[h] = req[h].target /\ save'[h].route \in req[h].target
    BY <1>4 DEF SetFlag, Change, TypeOK, Capturing, NoSave
  <2>3. UNCHANGED <<scan, boot>> /\ Up
    BY <1>4 DEF SetFlag
  <2>4. /\ \A g \in Requests : g # h => req'[g] = req[g]
        /\ req'[h].pc = "save"
    BY <1>4 DEF SetFlag, TypeOK, RequestStates
  <2>5. RequestShape'
    BY <1>0, <2>1, <2>3, <2>4
  <2>6. SaveShape'
    BY <2>1, <2>2
  <2>7. ScanShape'
    BY <1>0, <2>1, <2>3
  <2> QED
    BY <2>5, <2>6, <2>7
<1>5. ASSUME NEW h \in Requests, BeginSave(h) PROVE Shape'
  <2>1. \A a \in Actors : a # h => save'[a] = save[a]
    BY <1>5 DEF BeginSave, TypeOK
  <2>2. save'[h].route \in dirty[h]
    BY <1>5 DEF BeginSave, TypeOK, Capturing, NoSave
  <2>3. UNCHANGED <<dirty, req, scan, boot>>
    BY <1>5 DEF BeginSave
  <2> QED
    BY <1>0, <2>1, <2>2, <2>3
<1>6. ASSUME NEW h \in Requests, FailRequest(h) PROVE Shape'
  BY <1>0, <1>6 DEF FailRequest, Abandon, TypeOK, NoSave, NoRequest
<1>7. ASSUME NEW a \in Actors, SaveLoad(a) PROVE Shape'
  BY <1>7 DEF SaveLoad, TypeOK, Saves
<1>8. ASSUME NEW a \in Actors, SaveCommit(a) PROVE Shape'
  <2>1. \A b \in Actors : b # a => dirty'[b] = dirty[b] /\ save'[b] = save[b]
    BY <1>8 DEF SaveCommit, TypeOK
  <2>2. save'[a].pc = "idle" /\ dirty'[a] = dirty[a] \ {save[a].route}
    BY <1>8 DEF SaveCommit, TypeOK, NoSave
  <2>3. UNCHANGED <<scan, boot>> /\ save[a].pc # "idle"
    BY <1>8 DEF SaveCommit
  <2>4. \A h \in Requests : h # a => req'[h] = req[h]
    BY <1>8 DEF SaveCommit, TypeOK
  <2>5. a \in Requests => req'[a] = req[a] \/ (req'[a] = NoRequest /\ dirty'[a] = {})
    BY <1>8 DEF SaveCommit, TypeOK
  <2>6. a = Scanner => dirty'[a] = {}
    BY <2>2, <2>3
  <2>7. RequestShape'
    <3>1. ASSUME NEW h \in Requests, h # a PROVE RequestShape!(h)'
      BY <2>1, <2>3, <2>4, <3>1
    <3>2. CASE a \in Requests
      <4>1. req[a].pc = "save"
        BY <2>3, <3>2
      <4>2. RequestShape!(a)'
        BY <2>3, <2>5, <3>2, <4>1 DEF NoRequest
      <4> QED
        BY <3>1, <4>2
    <3> QED
      BY <3>1, <3>2
  <2>8. SaveShape'
    BY <2>1, <2>2
  <2>9. ScanShape'
    BY <1>0, <2>1, <2>2, <2>3, <2>6
  <2> QED
    BY <2>7, <2>8, <2>9
<1>9. CASE ScanList
  BY <1>9 DEF ScanList, TypeOK, Cycles
<1>10. ASSUME NEW r \in Routes, NEW what \in Kinds, Record(r, what),
              save[Scanner].pc = "idle", scan.pc # "list"
       PROVE  Shape'
  <2>1. \A a \in Actors : a # Scanner => dirty'[a] = dirty[a] /\ save'[a] = save[a]
    BY <1>10 DEF Record, Change, TypeOK
  <2>2. /\ dirty'[Scanner] = {r} /\ save'[Scanner].route = r
        /\ save'[Scanner].pc = "load"
    BY <1>0, <1>10 DEF Record, Change, TypeOK, Capturing, NoSave
  <2>3. UNCHANGED <<req, boot>> /\ Up
    BY <1>10 DEF Record
  <2>4. RequestShape'
    BY <1>0, <2>1, <2>3
  <2>5. SaveShape'
    BY <2>1, <2>2
  <2>6. ScanShape'
    BY <2>2, <2>3
  <2> QED
    BY <2>4, <2>5, <2>6
<1>11. ASSUME NEW r \in Routes, ScanBlocked(r) \/ ScanBadQuote(r) \/ ScanEligible(r)
       PROVE  Shape'
  <2>1. UNCHANGED <<req, dirty, save, boot>> /\ scan.pc # "list"
    BY <1>11 DEF ScanBlocked, ScanBadQuote, ScanEligible
  <2> QED
    BY <2>1
<1>12. CASE ScanMark
  <2>1. "failure" \in Kinds /\ Record(scan.route, "failure") /\ save[Scanner].pc = "idle"
        /\ scan.pc # "list" /\ scan.route \in Routes
    BY <1>12 DEF ScanMark, Kinds, TypeOK, Cycles
  <2> QED
    BY <1>10, <2>1, Zenon
<1>13. CASE ScanSettle
  <2>1. PICK what \in Kinds : Record(scan.route, what)
    BY <1>13 DEF ScanSettle, Kinds
  <2>2. scan.route \in Routes /\ save[Scanner].pc = "idle" /\ scan.pc # "list"
    BY <1>13 DEF ScanSettle, TypeOK, Cycles
  <2> QED
    BY <1>10, <2>1, <2>2, Zenon
<1>14. CASE ScanSleep
  BY <1>14 DEF ScanSleep, FreshScan
<1>15. CASE ScanFail
  BY <1>0, <1>15 DEF ScanFail, Abandon, TypeOK, NoSave, FreshScan
<1>16. CASE BootQuery
  BY <1>16 DEF BootQuery
<1>17. CASE BootApply
  BY <1>17 DEF BootApply, Booting
<1>18. CASE Tick \/ UNCHANGED vars
  BY <1>18 DEF Tick, vars
<1>19. CASE Crash
  BY <1>0, <1>19 DEF Crash, NoSave, NoRequest, FreshScan, Booting
<1> QED
  BY <1>1, <1>2, <1>3, <1>4, <1>5, <1>6, <1>7, <1>8, <1>9, <1>11, <1>12, <1>13,
     <1>14, <1>15, <1>16, <1>17, <1>18, <1>19 DEF Next, ScanStep

-----------------------------------------------------------------------------
(***************************************************************************)
(* Memory, row and truth.  Once the process is up the memory is the truth. *)
(* A route whose saves did not collide has at most one actor saving it,    *)
(* who captured the current memory and loaded the current row; once that   *)
(* save is over the row is the memory.  So what a crash leaves in the rows *)
(* is the truth, and the startup brings it back before the scan begins.    *)
(***************************************************************************)
BootInv ==
  /\ ~Up => \A r \in Routes : torn[r] = {} /\ Same(row[r], truth[r], now)
  /\ boot.pc = "apply" => boot.rows = row

MemInv == Up => \A r \in Routes : Same(mem[r], truth[r], now)

Saved(r) ==
  /\ (\A a \in Actors : r \notin dirty[a]) => Same(row[r], mem[r], now)
  /\ \A a, b \in Actors : r \in dirty[a] /\ r \in dirty[b] => a = b
  /\ \A a \in Actors : save[a].pc # "idle" /\ save[a].route = r =>
       /\ Same(save[a].new, mem[r], now)
       /\ save[a].pc = "commit" => save[a].loaded = row[r]

RowInv == Up => \A r \in Routes : torn[r] = {} => Saved(r)

Inv == BootInv /\ MemInv /\ RowInv

\* A quiet route is in nobody's list of routes to save.
LEMMA QuietMeans == \A r \in Routes : Quiet(r) <=> \A a \in Actors : r \notin dirty[a]
BY DEF Quiet, Busy

\* When hydration wins, nothing is changed or saved before the startup is over.
LEMMA NobodyBeforeUp ==
  ASSUME Shape, ~Up
  PROVE  \A a \in Actors : dirty[a] = {} /\ save[a].pc = "idle"
BY DEF Shape, RequestShape, SaveShape, ScanShape, Actors

\* A change of some routes keeps the invariant.
LEMMA ChangeKeeps ==
  ASSUME TypeOK, Shape, Inv, Up, NEW a \in Actors, dirty[a] = {},
         NEW touched \in SUBSET Routes, NEW what \in Kinds, Change(a, touched, what),
         UNCHANGED <<row, boot, now>>,
         \/ save' = save
         \/ \E r \in Routes : touched = {r} /\ save' = [save EXCEPT ![a] = Capturing(r, mem'[r])]
  PROVE  Inv'
<1> USE DEF Up
<1>0. now \in Nat /\ now' = now /\ row' = row /\ boot' = boot
  BY DEF TypeOK
<1>1. save[a].pc = "idle"
  BY DEF Shape, SaveShape
<1>2. BootInv'
  BY <1>0 DEF BootInv, Inv
<1>3. MemInv'
  <2> SUFFICES ASSUME NEW r \in Routes PROVE Same(mem[r], truth[r], now)'
    BY DEF MemInv
  <2>1. Same(mem[r], truth[r], now) /\ mem[r] \in States /\ truth[r] \in States
    BY DEF Inv, MemInv, TypeOK
  <2>2. CASE r \in touched
    <3>1. mem'[r] = Changed(what, mem[r]) /\ truth'[r] = Changed(what, truth[r])
      BY <2>2 DEF Change
    <3>2. Same(Changed(what, mem[r]), Changed(what, truth[r]), now)
      BY <1>0, <2>1, SameChange
    <3> QED
      BY <1>0, <3>1, <3>2
  <2>3. CASE r \notin touched
    <3>1. mem'[r] = mem[r] /\ truth'[r] = truth[r]
      BY <2>3 DEF Change
    <3> QED
      BY <1>0, <2>1, <3>1
  <2> QED
    BY <2>2, <2>3
<1>4. RowInv'
  <2> SUFFICES ASSUME NEW r \in Routes, torn'[r] = {} PROVE Saved(r)'
    BY DEF RowInv
  <2>0. \A b \in Actors : dirty'[b] = IF b = a THEN touched ELSE dirty[b]
    BY DEF Change, TypeOK
  <2>1. CASE r \notin touched
    <3>1. torn[r] = {} /\ mem'[r] = mem[r]
      BY <2>1 DEF Change
    <3>2. Saved(r)
      BY <3>1 DEF Inv, RowInv
    <3>3. \A b \in Actors : r \in dirty'[b] <=> r \in dirty[b]
      BY <2>0, <2>1
    <3>4. \A b \in Actors : save'[b].pc # "idle" /\ save'[b].route = r => save'[b] = save[b]
      <4>1. CASE save' = save
        BY <4>1
      <4>2. ASSUME NEW q \in Routes, touched = {q},
                   save' = [save EXCEPT ![a] = Capturing(q, mem'[q])]
            PROVE  \A b \in Actors : save'[b].route = r => save'[b] = save[b]
        BY <2>1, <4>2 DEF Capturing, NoSave, TypeOK
      <4> QED
        BY <4>1, <4>2
    <3> QED
      BY <1>0, <3>1, <3>2, <3>3, <3>4 DEF Saved
  <2>2. CASE r \in touched
    <3>1. Quiet(r)
      BY <2>2 DEF Change
    <3>2. \A b \in Actors : r \notin dirty[b]
      BY <3>1, QuietMeans
    <3>3. \A b \in Actors : save[b].pc # "idle" => save[b].route # r
      BY <3>2 DEF Shape, SaveShape
    <3>4. \A b \in Actors : save'[b].pc # "idle" /\ save'[b].route = r =>
            save'[b].new = mem'[r] /\ save'[b].pc = "load"
      <4>1. CASE save' = save
        BY <3>3, <4>1
      <4>2. ASSUME NEW q \in Routes, touched = {q},
                   save' = [save EXCEPT ![a] = Capturing(q, mem'[q])]
            PROVE  \A b \in Actors : save'[b].pc # "idle" /\ save'[b].route = r =>
                     save'[b].new = mem'[r] /\ save'[b].pc = "load"
        BY <2>2, <3>3, <4>2 DEF Capturing, NoSave, TypeOK
      <4> QED
        BY <4>1, <4>2
    <3>5. mem'[r] \in States
      BY ChangeType
    <3>6. Same(mem'[r], mem'[r], now)
      BY <1>0, <3>5, SameIsEquivalence
    <3> QED
      BY <1>0, <2>0, <2>2, <3>2, <3>4, <3>6 DEF Saved
  <2> QED
    BY <2>1, <2>2
<1> QED
  BY <1>2, <1>3, <1>4 DEF Inv

\* A step that only moves a request or the cycle on.
LEMMA FrameKeeps ==
  ASSUME Inv, UNCHANGED <<row, mem, truth, dirty, save, boot, now, torn>>
  PROVE  Inv'
BY DEF Inv, BootInv, MemInv, RowInv, Saved, Up

\* Giving up a save keeps the invariant: the route is marked as torn.
LEMMA AbandonKeeps ==
  ASSUME TypeOK, Shape, Inv, NEW a \in Actors, Abandon(a),
         UNCHANGED <<row, mem, truth, boot, now>>
  PROVE  Inv'
<1> USE DEF Up
<1>1. \A r \in Routes : torn'[r] = {} => torn[r] = {} /\ r \notin dirty[a]
  BY DEF Abandon, TypeOK
<1>2. BootInv'
  <2>1. CASE ~Up
    <3>1. dirty[a] = {}
      BY <2>1, NobodyBeforeUp
    <3>2. \A r \in Routes : torn'[r] = torn[r]
      BY <3>1 DEF Abandon, TypeOK
    <3> QED
      BY <3>2 DEF Inv, BootInv
  <2>2. CASE Up
    BY <2>2 DEF Inv, BootInv
  <2> QED
    BY <2>1, <2>2
<1>3. MemInv'
  BY DEF Inv, MemInv
<1>4. RowInv'
  <2> SUFFICES ASSUME Up, NEW r \in Routes, torn'[r] = {} PROVE Saved(r)'
    BY DEF RowInv
  <2>1. Saved(r)
    BY <1>1 DEF Inv, RowInv
  <2>2. \A b \in Actors : r \in dirty'[b] <=> r \in dirty[b]
    BY <1>1 DEF Abandon, TypeOK
  <2>3. \A b \in Actors : save'[b].pc # "idle" => save'[b] = save[b]
    BY DEF Abandon, TypeOK, NoSave
  <2> QED
    BY <2>1, <2>2, <2>3 DEF Saved
<1> QED
  BY <1>2, <1>3, <1>4 DEF Inv

\* The load and the commit of a save keep the invariant.
LEMMA SaveKeeps ==
  ASSUME TypeOK, Shape, Inv, NEW a \in Actors, SaveLoad(a) \/ SaveCommit(a)
  PROVE  Inv'
<1> USE DEF database, control, Up
<1>0. UNCHANGED <<mem, boot, now, torn, truth>> /\ now \in Nat
  BY DEF SaveLoad, SaveCommit, TypeOK
<1>1. save[a].pc # "idle" /\ save[a].route \in dirty[a] /\ save[a].route \in Routes
  BY DEF SaveLoad, SaveCommit, Shape, SaveShape, TypeOK, Saves
<1>2. Up
  BY <1>1, NobodyBeforeUp
<1>3. BootInv' /\ MemInv'
  BY <1>0, <1>2 DEF Inv, BootInv, MemInv
<1>4. CASE SaveLoad(a)
  <2>1. UNCHANGED <<row, dirty>>
    BY <1>4 DEF SaveLoad
  <2>2. \A b \in Actors : b # a => save'[b] = save[b]
    BY <1>4 DEF SaveLoad, TypeOK
  <2>3. /\ save'[a].route = save[a].route /\ save'[a].new = save[a].new
        /\ save'[a].loaded = row[save[a].route]
    BY <1>4 DEF SaveLoad, TypeOK, Saves
  <2> SUFFICES ASSUME NEW r \in Routes, torn[r] = {} PROVE Saved(r)'
    BY <1>0, <1>3 DEF RowInv, Inv
  <2>4. Saved(r)
    BY <1>2 DEF Inv, RowInv
  <2> QED
    BY <1>0, <1>1, <2>1, <2>2, <2>3, <2>4 DEF Saved
<1>5. CASE SaveCommit(a)
  <2> DEFINE q == save[a].route
  <2>1. /\ row' = [row EXCEPT ![q] = Flush(row[q], save[a].loaded, save[a].new)]
        /\ save[a].pc = "commit"
    BY <1>5 DEF SaveCommit, TypeOK
  <2>2. \A b \in Actors : save'[b] = IF b = a THEN NoSave ELSE save[b]
    BY <1>5 DEF SaveCommit, TypeOK
  <2>3. \A b \in Actors : dirty'[b] = IF b = a THEN dirty[a] \ {q} ELSE dirty[b]
    BY <1>5 DEF SaveCommit, TypeOK
  <2> SUFFICES ASSUME NEW r \in Routes, torn[r] = {} PROVE Saved(r)'
    BY <1>0, <1>3 DEF RowInv, Inv
  <2>4. Saved(r)
    BY <1>2 DEF Inv, RowInv
  <2>5. CASE r = q
    <3>1. save[a].loaded = row[q] /\ Same(save[a].new, mem[q], now)
      BY <2>1, <2>4, <2>5 DEF Saved
    <3>2. row[q] \in States /\ save[a].new \in States
      BY <1>1 DEF TypeOK, Saves
    <3>3. row'[r] = save[a].new
      BY <1>1, <2>1, <2>5, <3>1, <3>2, FlushCurrent DEF TypeOK
    <3>4. \A b \in Actors : r \in dirty[b] => b = a
      BY <1>1, <2>4, <2>5 DEF Saved
    <3>5. \A b \in Actors : r \notin dirty'[b]
      BY <2>3, <2>5, <3>4
    <3>6. \A b \in Actors : save'[b].pc # "idle" => save'[b].route # r
      BY <2>2, <3>4 DEF Shape, SaveShape, NoSave
    <3>7. Same(row'[r], mem'[r], now')
      BY <1>0, <2>5, <3>1, <3>3
    <3> QED
      BY <3>5, <3>6, <3>7 DEF Saved
  <2>6. CASE r # q
    <3>1. row'[r] = row[r]
      BY <2>1, <2>6 DEF TypeOK
    <3>2. \A b \in Actors : r \in dirty'[b] <=> r \in dirty[b]
      BY <2>3, <2>6
    <3>3. \A b \in Actors : save'[b].pc # "idle" => save'[b] = save[b]
      BY <2>2 DEF NoSave
    <3> QED
      BY <1>0, <2>4, <3>1, <3>2, <3>3 DEF Saved
  <2> QED
    BY <2>5, <2>6
<1> QED
  BY <1>4, <1>5

\* The invariant holds initially.
LEMMA InvInit == Init => Inv
<1> SUFFICES ASSUME Init PROVE Inv
  OBVIOUS
<1>1. ~Up /\ boot.pc # "apply" /\ \A r \in Routes : torn[r] = {}
  BY DEF Init, Booting, Up
<1>2. \A r \in Routes : Same(row[r], truth[r], now)
  BY InitialValues, SameIsEquivalence DEF Init, AllFresh
<1> QED
  BY <1>1, <1>2 DEF Inv, BootInv, MemInv, RowInv

\* Every step keeps the invariant.
LEMMA InvStep ==
  ASSUME HydrationWins, TypeOK, Shape, Inv, [Next]_vars
  PROVE  Inv'
<1> USE DEF database, control
<1>0. Scanner \in Actors /\ now \in Nat /\ \A h \in Requests : h \in Actors
  BY DEF Actors, TypeOK
<1>1. ASSUME NEW h \in Requests,
             \/ \E op \in Ops, r \in Routes : AcceptSwitch(h, op, r)
             \/ WriteColumn(h)
      PROVE  Inv'
  <2>1. UNCHANGED <<row, mem, truth, dirty, save, boot, now, torn>>
    BY <1>1 DEF AcceptSwitch, WriteColumn
  <2> QED
    BY <2>1, FrameKeeps
<1>2. ASSUME NEW h \in Requests, NEW touched \in SUBSET Routes, AcceptClear(h, touched)
      PROVE  Inv'
  <2>1. dirty[h] = {}
    BY <1>2 DEF AcceptClear, At, Shape, RequestShape
  <2>2. "clear" \in Kinds
    BY DEF Kinds
  <2>3. Up /\ Change(h, touched, "clear") /\ UNCHANGED <<row, boot, now>> /\ save' = save
    BY <1>2 DEF AcceptClear
  <2> QED
    BY <1>0, <2>1, <2>2, <2>3, ChangeKeeps
<1>3. ASSUME NEW h \in Requests, SetFlag(h) PROVE Inv'
  <2>1. dirty[h] = {} /\ Up
    BY <1>3 DEF SetFlag, At, Shape, RequestShape
  <2>2. req[h].op \in Kinds
    BY DEF TypeOK, RequestStates, AllOps, Kinds
  <2>3. PICK q \in Routes : req[h].target = {q}
    BY <1>3 DEF SetFlag, At, Shape, RequestShape
  <2>4. /\ Change(h, {q}, req[h].op) /\ UNCHANGED <<row, boot, now>>
        /\ save' = [save EXCEPT ![h] = Capturing(q, mem'[q])]
    BY <1>3, <2>3 DEF SetFlag
  <2>5. {q} \in SUBSET Routes
    OBVIOUS
  <2> QED
    BY <1>0, <2>1, <2>2, <2>4, <2>5, ChangeKeeps
<1>4. ASSUME NEW h \in Requests, BeginSave(h) PROVE Inv'
  <2>1. /\ UNCHANGED <<row, mem, truth, dirty, boot, now, torn>> /\ Up
        /\ save[h].pc = "idle"
    BY <1>4 DEF BeginSave, At, Shape, RequestShape
  <2>2. PICK q \in dirty[h] : save' = [save EXCEPT ![h] = Capturing(q, mem[q])]
    BY <1>4 DEF BeginSave
  <2>3. q \in Routes /\ mem[q] \in States
    BY <1>0, <2>2 DEF TypeOK
  <2>4. \A a \in Actors : a # h => save'[a] = save[a]
    BY <2>2 DEF TypeOK
  <2>5. save'[h].pc = "load" /\ save'[h].route = q /\ save'[h].new = mem[q]
    BY <1>0, <2>2 DEF TypeOK, Capturing, NoSave
  <2>6. Same(mem[q], mem[q], now)
    BY <1>0, <2>3, SameIsEquivalence
  <2>7. ASSUME NEW r \in Routes, torn[r] = {} PROVE Saved(r)'
    <3>1. Saved(r)
      BY <2>1, <2>7 DEF Inv, RowInv
    <3> QED
      BY <2>1, <2>4, <2>5, <2>6, <3>1 DEF Saved
  <2>8. BootInv' /\ MemInv'
    BY <2>1 DEF Inv, BootInv, MemInv, Up
  <2> QED
    BY <2>1, <2>7, <2>8 DEF Inv, RowInv
<1>5. ASSUME NEW h \in Requests, FailRequest(h) PROVE Inv'
  <2>1. Abandon(h) /\ UNCHANGED <<row, mem, truth, boot, now>>
    BY <1>5 DEF FailRequest
  <2> QED
    BY <1>0, <2>1, AbandonKeeps
<1>6. ASSUME NEW a \in Actors, SaveLoad(a) \/ SaveCommit(a) PROVE Inv'
  BY <1>6, SaveKeeps
<1>7. ASSUME NEW r \in Routes, NEW what \in Kinds, Record(r, what),
             save[Scanner].pc = "idle", scan.pc # "list"
      PROVE  Inv'
  <2>1. dirty[Scanner] = {} /\ Up
    BY <1>7 DEF Shape, ScanShape
  <2>2. /\ Change(Scanner, {r}, what) /\ UNCHANGED <<row, boot, now>>
        /\ save' = [save EXCEPT ![Scanner] = Capturing(r, mem'[r])]
    BY <1>7 DEF Record
  <2>3. {r} \in SUBSET Routes
    OBVIOUS
  <2> QED
    BY <1>0, <2>1, <2>2, <2>3, ChangeKeeps
<1>8. CASE ScanMark
  <2>1. "failure" \in Kinds /\ Record(scan.route, "failure") /\ save[Scanner].pc = "idle"
        /\ scan.pc # "list" /\ scan.route \in Routes
    BY <1>8 DEF ScanMark, ScanFree, Kinds, TypeOK, Cycles
  <2> QED
    BY <1>7, <2>1, Zenon
<1>9. CASE ScanSettle
  <2>1. PICK what \in Kinds : Record(scan.route, what)
    BY <1>9 DEF ScanSettle, Kinds
  <2>2. scan.route \in Routes /\ save[Scanner].pc = "idle" /\ scan.pc # "list"
    BY <1>9 DEF ScanSettle, ScanFree, TypeOK, Cycles
  <2> QED
    BY <1>7, <2>1, <2>2, Zenon
<1>10. CASE \/ ScanList \/ ScanSleep \/ UNCHANGED vars
            \/ \E r \in Routes : ScanBlocked(r) \/ ScanBadQuote(r) \/ ScanEligible(r)
  <2>1. UNCHANGED <<row, mem, truth, dirty, save, boot, now, torn>>
    BY <1>10 DEF ScanList, ScanSleep, ScanBlocked, ScanBadQuote, ScanEligible, vars
  <2> QED
    BY <2>1, FrameKeeps
<1>11. CASE ScanFail
  <2>1. Abandon(Scanner) /\ UNCHANGED <<row, mem, truth, boot, now>>
    BY <1>11 DEF ScanFail
  <2> QED
    BY <1>0, <2>1, AbandonKeeps
<1>12. CASE BootQuery
  BY <1>12 DEF BootQuery, Inv, BootInv, MemInv, RowInv, Up
<1>13. CASE BootApply
  <2>1. /\ UNCHANGED <<row, dirty, save, now, torn, truth>> /\ Up' /\ ~Up
        /\ boot'.pc # "apply" /\ boot.rows = row
    BY <1>13 DEF BootApply, Booting, Up, Inv, BootInv
  <2>2. ASSUME NEW r \in Routes
        PROVE  Same(mem'[r], row[r], now) /\ Same(mem'[r], truth[r], now)
               /\ Same(row[r], mem'[r], now)
    <3>1. mem'[r] = Restored(row[r])
      BY <1>13, <2>1 DEF BootApply
    <3>2. row[r] \in States /\ truth[r] \in States /\ Same(row[r], truth[r], now)
      BY <2>1 DEF TypeOK, Inv, BootInv
    <3> QED
      BY <1>0, <3>1, <3>2, RestoredIsSame, SameIsEquivalence
  <2>3. \A a \in Actors : dirty[a] = {} /\ save[a].pc = "idle"
    BY <2>1, NobodyBeforeUp
  <2>4. BootInv' /\ MemInv'
    BY <2>1, <2>2 DEF BootInv, MemInv
  <2>5. RowInv'
    BY <2>1, <2>2, <2>3 DEF RowInv, Saved
  <2> QED
    BY <2>4, <2>5 DEF Inv
<1>14. CASE Tick
  <2>1. UNCHANGED <<row, mem, truth, dirty, save, boot, torn>> /\ now' = now + 1
    BY <1>14 DEF Tick
  <2>2. \A s, t \in States : Same(s, t, now) => Same(s, t, now')
    BY <1>0, <2>1, SameLater
  <2>3. BootInv' /\ MemInv'
    BY <2>1, <2>2 DEF Inv, BootInv, MemInv, TypeOK, Up
  <2>4. ASSUME Up, NEW r \in Routes, torn[r] = {} PROVE Saved(r)'
    <3>1. Saved(r)
      BY <2>4 DEF Inv, RowInv
    <3>2. \A a \in Actors : save[a].new \in States
      BY DEF TypeOK, Saves
    <3> QED
      BY <2>1, <2>2, <3>1, <3>2 DEF Saved, TypeOK
  <2> QED
    BY <2>1, <2>3, <2>4 DEF Inv, RowInv, Up
<1>15. CASE Crash
  <2>1. ~Up' /\ boot'.pc # "apply" /\ UNCHANGED <<row, now>>
        /\ \A r \in Routes : torn'[r] = {}
    BY <1>15 DEF Crash, Booting, Up
  <2>2. ASSUME NEW r \in Routes PROVE Same(row[r], truth'[r], now)
    <3>0. row[r] \in States /\ mem[r] \in States /\ truth[r] \in States
      BY DEF TypeOK
    <3>1. truth'[r] = IF Quiet(r) /\ torn[r] = {} THEN truth[r] ELSE row[r]
      BY <1>15 DEF Crash
    <3>2. CASE ~(Quiet(r) /\ torn[r] = {})
      BY <1>0, <3>0, <3>1, <3>2, SameIsEquivalence
    <3>3. CASE ~Up
      <4>1. Same(row[r], truth[r], now)
        BY <3>3 DEF Inv, BootInv
      <4> QED
        BY <1>0, <3>0, <3>1, <4>1, SameIsEquivalence
    <3>4. CASE Up /\ Quiet(r) /\ torn[r] = {}
      <4>1. Same(row[r], mem[r], now) /\ Same(mem[r], truth[r], now)
        BY <3>4, QuietMeans DEF Inv, RowInv, MemInv, Saved
      <4> QED
        BY <1>0, <3>0, <3>1, <3>4, <4>1, SameIsEquivalence
    <3> QED
      BY <3>2, <3>3, <3>4
  <2> QED
    BY <2>1, <2>2 DEF Inv, BootInv, MemInv, RowInv
<1> QED
  BY <1>1, <1>2, <1>3, <1>4, <1>5, <1>6, <1>8, <1>9, <1>10, <1>11, <1>12, <1>13, <1>14,
     <1>15 DEF Next, ScanStep

\* The inductive invariant holds when the restored rows come first.
THEOREM InvAlways ==
  ASSUME HydrationWins
  PROVE  Spec => [](TypeOK /\ Shape /\ Inv)
<1>1. Init => TypeOK /\ Shape /\ Inv
  BY TypeInit, ShapeInit, InvInit
<1>2. TypeOK /\ Shape /\ Inv /\ [Next]_vars => (TypeOK /\ Shape /\ Inv)'
  BY TypeStep, ShapeStep, InvStep
<1> QED
  BY <1>1, <1>2, PTL DEF Spec

\* When the saves of a route are over and none of them collided or was
\* abandoned, route_runtime_states holds what the risk manager holds.
THEOREM RowMatchesMemory ==
  ASSUME HydrationWins
  PROVE  Spec => []SavedRowMatchesMemory
<1>1. Inv => SavedRowMatchesMemory
  BY QuietMeans DEF Inv, RowInv, Saved, SavedRowMatchesMemory
<1> QED
  BY <1>1, InvAlways, PTL

\* A restart does not end a quarantine: evaluate lets a route through only when
\* the state it would have had without any crash lets it through.
THEOREM Quarantine ==
  ASSUME HydrationWins
  PROVE  Spec => QuarantineHolds
<1>1. TypeOK /\ Shape /\ Inv /\ [Next]_vars =>
        [\A r \in Routes : ScanEligible(r) => Open(truth[r])]_vars
  <2> SUFFICES ASSUME TypeOK, Shape, Inv, NEW r \in Routes, ScanEligible(r)
               PROVE  Open(truth[r])
    BY DEF vars
  <2>1. Up
    BY DEF ScanEligible, ScanFree, Shape, ScanShape
  <2>2. Same(mem[r], truth[r], now) /\ Open(mem[r])
    BY <2>1 DEF Inv, MemInv, ScanEligible
  <2> QED
    BY <2>2, SameOpen DEF TypeOK
<1> QED
  BY <1>1, InvAlways, PTL DEF Spec, QuarantineHolds

-----------------------------------------------------------------------------
(***************************************************************************)
(* The refinement: seen from where the state of a route is, in memory or   *)
(* in its row, the quarantines are those of QuarantineStore.               *)
(***************************************************************************)

\* The same states hold a route for the same reasons.
LEMMA WhySame ==
  ASSUME NEW s \in States, NEW t \in States, NEW n \in Nat, Same(s, t, n)
  PROVE  Why(s, n) = Why(t, n)
BY DEF Same, States, Why

\* A cooldown is the only reason that time takes away.
LEMMA WhyLater ==
  ASSUME NEW s \in States, NEW n \in Nat
  PROVE  /\ Why(s, n) \ {"cooldown"} \subseteq Why(s, n + 1)
         /\ Why(s, n + 1) \subseteq Why(s, n)
BY DEF Why, States

\* evaluate lets a route through when nothing holds it.
LEMMA WhyOpen ==
  ASSUME NEW s \in States, now \in Nat, Open(s)
  PROVE  Why(s, now) = {}
BY Numbers DEF Why, Open, States

\* What each change adds to the reasons, and what it takes away.
LEMMA WhyChanged ==
  ASSUME NEW s \in States, now \in Nat
  PROVE  /\ Why(Changed("disable", s), now) = Why(s, now) \cup {"pause"}
         /\ Why(Changed("enable", s), now) = Why(s, now) \ {"pause"}
         /\ Why(Changed("clear", s), now) = Why(s, now) \ {"cooldown", "failures"}
<1>1. 0 < MaxFails /\ MaxFails \in Nat  BY ConstantsAssumption
<1>2. Changed("disable", s) = [s EXCEPT !.paused = TRUE]  BY DEF Changed
<1>3. Changed("enable", s) = [s EXCEPT !.paused = FALSE]  BY DEF Changed
<1>4. Changed("clear", s) = [s EXCEPT !.until = 0, !.fails = 0]  BY DEF Changed
<1>5. Why(Changed("disable", s), now) = Why(s, now) \cup {"pause"}
  BY <1>2 DEF Why, States
<1>6. Why(Changed("enable", s), now) = Why(s, now) \ {"pause"}
  BY <1>3 DEF Why, States
<1>7. Why(Changed("clear", s), now) = Why(s, now) \ {"cooldown", "failures"}
  <2> DEFINE t == Changed("clear", s)
  <2>1. t.paused = s.paused /\ t.until = 0 /\ t.fails = 0 /\ t.losses = s.losses
    BY <1>4 DEF States
  <2> HIDE DEF t
  <2>2. ~(t.until > now) /\ ~(t.fails >= MaxFails)  BY <1>1, <2>1
  <2>3. Why(t, now) = Why(s, now) \ {"cooldown", "failures"}
    BY <2>1, <2>2, Zenon DEF Why
  <2> QED  BY <2>3 DEF t
<1> QED  BY <1>5, <1>6, <1>7

\* A failure pauses, starts the cooldown anew, and may be one too many.
LEMMA WhyFailed ==
  ASSUME NEW s \in States, now \in Nat
  PROVE  \E more \in SUBSET {"cooldown", "failures"} :
           Why(Changed("failure", s), now) = (Why(s, now) \ {"cooldown"}) \cup {"pause"} \cup more
<1>1. /\ Cooldown \in Nat /\ MaxFails \in Nat /\ MaxLosses \in Nat  BY Numbers
<1> DEFINE t == Changed("failure", s)
           W == Why(t, now)
           more == W \cap {"cooldown", "failures"}
<1>2. /\ t.paused = TRUE /\ t.fails = s.fails + 1 /\ t.losses = s.losses
      /\ s.fails \in Nat /\ s.losses \in Nat
  BY DEF Changed, States
<1>3. /\ W \subseteq {"pause", "cooldown", "failures", "losses"}
      /\ "pause" \in W
      /\ "losses" \in W <=> "losses" \in Why(s, now)
      /\ "failures" \in Why(s, now) => "failures" \in W
      /\ Why(s, now) \subseteq {"pause", "cooldown", "failures", "losses"}
  <2> HIDE DEF t
  <2> QED  BY <1>1, <1>2 DEF Why
<1> HIDE DEF W
<1>4. W = (Why(s, now) \ {"cooldown"}) \cup {"pause"} \cup more  BY <1>3
<1> QED  BY <1>4 DEF W

\* The outcome of a trade holds a route that was not held for its counters for
\* nothing but a loss too many.
LEMMA WhyFinished ==
  ASSUME NEW s \in States, now \in Nat, s.fails < MaxFails, s.losses < MaxLosses,
         NEW what \in {"loss", "gain"}
  PROVE  \E more \in SUBSET {"losses"} : Why(Changed(what, s), now) = Why(s, now) \cup more
<1>1. /\ 0 < MaxFails /\ MaxFails \in Nat /\ 0 < MaxLosses /\ MaxLosses \in Nat
  BY ConstantsAssumption
<1> DEFINE t == Changed(what, s)
           W == Why(t, now)
           more == W \cap {"losses"}
<1>2. /\ t.paused = s.paused /\ t.until = s.until /\ t.fails = 0
      /\ s.fails \in Nat /\ s.losses \in Nat
  BY DEF Changed, States
<1>3. /\ W \subseteq {"pause", "cooldown", "failures", "losses"}
      /\ Why(s, now) \subseteq {"pause", "cooldown"}
      /\ "failures" \notin W
      /\ "pause" \in W <=> "pause" \in Why(s, now)
      /\ "cooldown" \in W <=> "cooldown" \in Why(s, now)
  <2> HIDE DEF t
  <2> QED  BY <1>1, <1>2 DEF Why
<1> HIDE DEF W
<1>4. W = Why(s, now) \cup more  BY <1>3
<1> QED  BY <1>4 DEF W

\* A change of the memory is seen in the changed routes, and puts them at risk.
LEMMA ChangeSeen ==
  ASSUME TypeOK, Up, Up', now' = now, NEW a \in Actors, dirty[a] = {},
         NEW touched \in SUBSET Routes, NEW what \in Kinds, Change(a, touched, what)
  PROVE  /\ HeldFor' = [r \in Routes |-> IF r \in touched THEN Why(Changed(what, mem[r]), now)
                                         ELSE HeldFor[r]]
         /\ AtRisk' = AtRisk \cup touched
<1>1. \A r \in Routes : mem'[r] = IF r \in touched THEN Changed(what, mem[r]) ELSE mem[r]
  BY DEF Change
<1>2. /\ Cell = mem /\ Cell' = mem'  BY DEF Cell
<1>3. HeldFor' = [r \in Routes |-> IF r \in touched THEN Why(Changed(what, mem[r]), now)
                                   ELSE HeldFor[r]]
  BY <1>1, <1>2 DEF HeldFor, Why
<1>4. ASSUME NEW r \in Routes
      PROVE  (~Quiet(r) \/ torn[r] # {})' <=> (~Quiet(r) \/ torn[r] # {}) \/ r \in touched
  <2>1. \A b \in Actors : dirty'[b] = IF b = a THEN touched ELSE dirty[b]
    BY DEF Change, TypeOK
  <2>2. r \notin touched => torn'[r] = torn[r]  BY DEF Change
  <2>3. r \in touched => ~Quiet(r)'  BY <2>1 DEF Quiet, Busy
  <2>4. r \notin touched => (Quiet(r)' <=> Quiet(r))  BY <2>1 DEF Quiet, Busy
  <2> QED  BY <2>2, <2>3, <2>4
<1>5. AtRisk' = AtRisk \cup touched  BY <1>4 DEF AtRisk
<1> QED  BY <1>3, <1>5

\* Giving up leaves what was not saved at risk.
LEMMA AbandonSeen ==
  ASSUME TypeOK, NEW a \in Actors, Abandon(a)
  PROVE  AtRisk' = AtRisk
<1>1. ASSUME NEW r \in Routes
      PROVE  (~Quiet(r) \/ torn[r] # {})' <=> (~Quiet(r) \/ torn[r] # {})
  <2>1. \A b \in Actors : dirty'[b] = IF b = a THEN {} ELSE dirty[b]
    BY DEF Abandon, TypeOK
  <2>2. torn'[r] = IF r \in dirty[a] THEN torn[r] \cup {"abandoned"} ELSE torn[r]
    BY DEF Abandon
  <2>3. r \in dirty[a] => ~Quiet(r)  BY DEF Quiet, Busy
  <2>4. r \notin dirty[a] => (Quiet(r)' <=> Quiet(r))  BY <2>1 DEF Quiet, Busy
  <2> QED  BY <2>2, <2>3, <2>4
<1> QED  BY <1>1 DEF AtRisk

\* A route is traded with counters below their limits.
TradeInv ==
  scan.pc = "trade" =>
    Up /\ mem[scan.route].fails < MaxFails /\ mem[scan.route].losses < MaxLosses

LEMMA TradeStep ==
  ASSUME HydrationWins, TypeOK, Shape, TradeInv, [Next]_vars
  PROVE  TradeInv'
<1> USE DEF database, control, At, ScanFree
<1>0. scan \in Cycles /\ mem \in [Routes -> States] /\ 0 < MaxFails /\ MaxFails \in Nat
  BY ConstantsAssumption DEF TypeOK
<1>1. CASE UNCHANGED <<mem, scan, boot>>
  BY <1>1 DEF TradeInv, Up
<1>2. CASE scan'.pc # "trade"
  BY <1>2 DEF TradeInv
<1>3. ASSUME NEW a \in Actors, NEW touched \in SUBSET Routes,
             NEW what \in {"disable", "enable", "clear"},
             Change(a, touched, what), UNCHANGED <<scan, boot>>
      PROVE  TradeInv'
  <2> SUFFICES ASSUME scan.pc = "trade"
               PROVE  Up' /\ mem'[scan.route].fails < MaxFails /\ mem'[scan.route].losses < MaxLosses
    BY <1>3 DEF TradeInv
  <2>1. /\ Up /\ Up' /\ scan.route \in Routes /\ mem[scan.route] \in States
        /\ mem[scan.route].fails < MaxFails /\ mem[scan.route].losses < MaxLosses
    BY <1>0, <1>3 DEF TradeInv, Up, Cycles
  <2>2. mem'[scan.route] = IF scan.route \in touched THEN Changed(what, mem[scan.route])
                                                     ELSE mem[scan.route]
    BY <1>3, <2>1 DEF Change
  <2>3. /\ Changed(what, mem[scan.route]).fails \in {0, mem[scan.route].fails}
        /\ Changed(what, mem[scan.route]).losses = mem[scan.route].losses
    BY <1>3, <2>1 DEF Changed, States
  <2> QED  BY <1>0, <2>1, <2>2, <2>3
<1>4. ASSUME NEW h \in Requests, NEW op \in Ops, NEW r \in Routes, AcceptSwitch(h, op, r)
      PROVE  TradeInv'
  BY <1>1, <1>4 DEF AcceptSwitch
<1>5. ASSUME NEW h \in Requests, NEW touched \in SUBSET Routes, AcceptClear(h, touched)
      PROVE  TradeInv'
  BY <1>3, <1>5 DEF AcceptClear, Actors
<1>6. ASSUME NEW h \in Requests, WriteColumn(h) \/ BeginSave(h) \/ FailRequest(h)
      PROVE  TradeInv'
  BY <1>1, <1>6 DEF WriteColumn, BeginSave, FailRequest
<1>7. ASSUME NEW h \in Requests, SetFlag(h) PROVE TradeInv'
  <2>1. /\ Change(h, req[h].target, req[h].op) /\ UNCHANGED <<scan, boot>>
        /\ req[h].op \in {"disable", "enable"} /\ req[h].target \in SUBSET Routes
    BY <1>7 DEF SetFlag, Shape, RequestShape, TypeOK, RequestStates
  <2> QED  BY <1>3, <2>1 DEF Actors
<1>8. ASSUME NEW a \in Actors, SaveLoad(a) \/ SaveCommit(a) PROVE TradeInv'
  BY <1>1, <1>8 DEF SaveLoad, SaveCommit
<1>9. CASE ScanList \/ ScanMark \/ ScanSettle \/ ScanSleep \/ ScanFail
  <2>1. ScanList => scan'.pc = "route"  BY <1>0 DEF ScanList, Cycles
  <2>2. ScanMark \/ ScanSettle => scan'.pc = "route"  BY <1>0 DEF ScanMark, ScanSettle, Cycles
  <2>3. ScanSleep \/ ScanFail => scan'.pc = "list"  BY DEF ScanSleep, ScanFail, FreshScan
  <2> QED  BY <1>2, <1>9, <2>1, <2>2, <2>3
<1>10. ASSUME NEW r \in Routes, ScanBlocked(r) \/ ScanBadQuote(r) PROVE TradeInv'
  BY <1>0, <1>2, <1>10 DEF ScanBlocked, ScanBadQuote, Cycles
<1>11. ASSUME NEW r \in Routes, ScanEligible(r) PROVE TradeInv'
  <2>1. /\ Open(mem[r]) /\ UNCHANGED <<mem, boot>> /\ scan'.route = r /\ scan.pc = "route"
    BY <1>11 DEF ScanEligible
  <2>2. Up  BY <2>1 DEF Shape, ScanShape
  <2> QED  BY <2>1, <2>2 DEF TradeInv, Open, Up
<1>12. CASE BootQuery \/ BootApply
  <2>1. ~Up /\ UNCHANGED scan  BY <1>12 DEF BootQuery, BootApply, Up
  <2>2. scan.pc = "list"  BY <2>1 DEF Shape, ScanShape
  <2> QED  BY <1>2, <2>1, <2>2
<1>13. CASE Tick \/ UNCHANGED vars
  BY <1>1, <1>13 DEF Tick, vars
<1>14. CASE Crash
  BY <1>2, <1>14 DEF Crash, FreshScan
<1> QED
  BY <1>4, <1>5, <1>6, <1>7, <1>8, <1>9, <1>10, <1>11, <1>12, <1>13, <1>14
     DEF Next, ScanStep

\* Every step is a step of the store, or leaves what it sees.
LEMMA StoreStep ==
  ASSUME HydrationWins, TypeOK, Shape, Inv, TradeInv, [Next]_vars
  PROVE  [Store!Next]_(Store!vars)
<1> USE DEF database, control, At, ScanFree
<1>0. /\ now \in Nat /\ scan \in Cycles /\ mem \in [Routes -> States]
      /\ row \in [Routes -> States] /\ dirty \in [Actors -> SUBSET Routes]
      /\ Scanner \in Actors /\ Requests \subseteq Actors
  BY DEF TypeOK, Actors
<1>2. ASSUME UNCHANGED <<mem, row, dirty, scan, boot, now, torn>>
      PROVE  UNCHANGED Store!vars
  <2>1. UNCHANGED Cell /\ UNCHANGED Trading  BY <1>2 DEF Cell, Up, Trading
  <2>2. HeldFor' = HeldFor  BY <1>2, <2>1 DEF HeldFor, Why
  <2>3. AtRisk' = AtRisk  BY <1>2 DEF AtRisk, Quiet, Busy
  <2> QED  BY <2>1, <2>2, <2>3 DEF Store!vars
<1>3. ASSUME NEW h \in Requests, NEW op \in Ops, NEW r \in Routes, AcceptSwitch(h, op, r)
      PROVE  UNCHANGED Store!vars
  BY <1>2, <1>3 DEF AcceptSwitch
<1>4. ASSUME NEW h \in Requests, NEW touched \in SUBSET Routes, AcceptClear(h, touched)
      PROVE  Store!Clear(touched)
  <2>1. /\ Up /\ Up' /\ now' = now /\ Change(h, touched, "clear") /\ UNCHANGED scan
        /\ dirty[h] = {}
    BY <1>4 DEF AcceptClear, Up, Shape, RequestShape
  <2>2. /\ HeldFor' = [r \in Routes |-> IF r \in touched THEN Why(Changed("clear", mem[r]), now)
                                        ELSE HeldFor[r]]
        /\ AtRisk' = AtRisk \cup touched
    BY <1>0, <2>1, ChangeSeen DEF Kinds
  <2>3. \A r \in Routes : HeldFor[r] = Why(mem[r], now)  BY <2>1 DEF HeldFor, Cell
  <2>4. \A r \in Routes : Why(Changed("clear", mem[r]), now) = HeldFor[r] \ {"cooldown", "failures"}
    BY <1>0, <2>3, WhyChanged
  <2> QED  BY <2>1, <2>2, <2>4 DEF Store!Clear, Trading
<1>5. ASSUME NEW h \in Requests, WriteColumn(h) \/ BeginSave(h) PROVE UNCHANGED Store!vars
  BY <1>2, <1>5 DEF WriteColumn, BeginSave
<1>6. ASSUME NEW h \in Requests, SetFlag(h)
      PROVE  \E r \in Routes : Store!Disable(r) \/ Store!Enable(r)
  <2>1. /\ Up /\ Up' /\ now' = now /\ Change(h, req[h].target, req[h].op) /\ UNCHANGED scan
        /\ dirty[h] = {} /\ req[h].op \in {"disable", "enable"}
    BY <1>6 DEF SetFlag, Up, Shape, RequestShape
  <2>2. PICK r \in Routes : req[h].target = {r}
    BY <1>6 DEF SetFlag, Shape, RequestShape
  <2>3. /\ HeldFor' = [q \in Routes |-> IF q \in {r} THEN Why(Changed(req[h].op, mem[q]), now)
                                        ELSE HeldFor[q]]
        /\ AtRisk' = AtRisk \cup {r}
    BY <1>0, <2>1, <2>2, ChangeSeen DEF Kinds
  <2>4. HeldFor[r] = Why(mem[r], now) /\ HeldFor = [q \in Routes |-> HeldFor[q]]
    BY <2>1 DEF HeldFor, Cell
  <2>5. Trading' = Trading  BY <2>1 DEF Trading
  <2>6. CASE req[h].op = "disable"
    <3>1. Why(Changed("disable", mem[r]), now) = HeldFor[r] \cup {"pause"}
      BY <1>0, <2>4, WhyChanged
    <3>2. HeldFor' = [HeldFor EXCEPT ![r] = HeldFor[r] \cup {"pause"}]
      BY <2>3, <2>4, <2>6, <3>1
    <3> QED  BY <2>3, <2>5, <3>2 DEF Store!Disable
  <2>7. CASE req[h].op = "enable"
    <3>1. Why(Changed("enable", mem[r]), now) = HeldFor[r] \ {"pause"}
      BY <1>0, <2>4, WhyChanged
    <3>2. HeldFor' = [HeldFor EXCEPT ![r] = HeldFor[r] \ {"pause"}]
      BY <2>3, <2>4, <2>7, <3>1
    <3> QED  BY <2>3, <2>5, <3>2 DEF Store!Enable
  <2> QED  BY <2>1, <2>6, <2>7
<1>7. ASSUME NEW h \in Requests, FailRequest(h) PROVE UNCHANGED Store!vars
  <2>1. Abandon(h) /\ UNCHANGED <<mem, row, scan, boot, now>>  BY <1>7 DEF FailRequest
  <2>2. AtRisk' = AtRisk  BY <1>0, <2>1, AbandonSeen
  <2>3. HeldFor' = HeldFor /\ Trading' = Trading
    BY <2>1 DEF HeldFor, Cell, Up, Why, Trading
  <2> QED  BY <2>2, <2>3 DEF Store!vars
<1>8. ASSUME NEW a \in Actors, SaveLoad(a) PROVE UNCHANGED Store!vars
  BY <1>2, <1>8 DEF SaveLoad
<1>9. ASSUME NEW a \in Actors, SaveCommit(a) PROVE Store!Secure
  <2>1. Up  BY <1>9, NobodyBeforeUp DEF SaveCommit
  <2>2. /\ UNCHANGED <<mem, scan, boot, now, torn>>
        /\ \A b \in Actors : dirty'[b] \subseteq dirty[b]
    BY <1>0, <1>9 DEF SaveCommit
  <2>3. HeldFor' = HeldFor /\ Trading' = Trading
    BY <2>1, <2>2 DEF HeldFor, Cell, Up, Why, Trading
  <2>4. AtRisk' \subseteq AtRisk  BY <2>2 DEF AtRisk, Quiet, Busy
  <2> QED  BY <2>3, <2>4 DEF Store!Secure
<1>10. CASE ScanList \/ ScanSleep
  <2>1. /\ UNCHANGED <<mem, row, dirty, boot, now, torn>>
        /\ scan.pc # "trade" /\ scan'.pc # "trade"
    <3>1. ScanList => scan.pc = "list" /\ scan'.pc = "route"  BY <1>0 DEF ScanList, Cycles
    <3>2. ScanSleep => scan.pc = "route" /\ scan'.pc = "list"  BY DEF ScanSleep, FreshScan
    <3>3. UNCHANGED <<mem, row, dirty, boot, now, torn>>  BY <1>10 DEF ScanList, ScanSleep
    <3> QED  BY <1>10, <3>1, <3>2, <3>3
  <2>2. Trading' = Trading  BY <2>1 DEF Trading
  <2>3. HeldFor' = HeldFor  BY <2>1 DEF HeldFor, Cell, Up, Why
  <2>4. AtRisk' = AtRisk  BY <2>1 DEF AtRisk, Quiet, Busy
  <2> QED  BY <2>2, <2>3, <2>4 DEF Store!vars
<1>11. ASSUME NEW r \in Routes, ScanBlocked(r) \/ ScanBadQuote(r) PROVE UNCHANGED Store!vars
  <2>1. /\ UNCHANGED <<mem, row, dirty, boot, now, torn>>
        /\ scan.pc # "trade" /\ scan'.pc # "trade"
    BY <1>0, <1>11 DEF ScanBlocked, ScanBadQuote, Cycles
  <2>2. Trading' = Trading  BY <2>1 DEF Trading
  <2>3. HeldFor' = HeldFor  BY <2>1 DEF HeldFor, Cell, Up, Why
  <2>4. AtRisk' = AtRisk  BY <2>1 DEF AtRisk, Quiet, Busy
  <2> QED  BY <2>2, <2>3, <2>4 DEF Store!vars
<1>12. ASSUME NEW r \in Routes, ScanEligible(r) PROVE Store!Begin(r)
  <2>1. /\ UNCHANGED <<mem, row, dirty, boot, now, torn>> /\ Open(mem[r])
        /\ scan.pc = "route" /\ scan'.pc = "trade" /\ scan'.route = r
    BY <1>12 DEF ScanEligible
  <2>2. Up  BY <2>1 DEF Shape, ScanShape
  <2>3. HeldFor[r] = {}  BY <1>0, <2>1, <2>2, WhyOpen DEF HeldFor, Cell
  <2>4. Trading = {} /\ Trading' = {r}  BY <2>1 DEF Trading
  <2>5. HeldFor' = HeldFor  BY <2>1 DEF HeldFor, Cell, Up, Why
  <2>6. AtRisk' = AtRisk  BY <2>1 DEF AtRisk, Quiet, Busy
  <2> QED  BY <2>3, <2>4, <2>5, <2>6 DEF Store!Begin
<1>13. ASSUME NEW r \in Routes, NEW outcome \in {"failure", "loss", "gain"}, Record(r, outcome),
              dirty[Scanner] = {}, Up, scan'.pc # "trade",
              scan.pc = "trade" => scan.route = r,
              outcome # "failure" => scan.pc = "trade"
      PROVE  Store!Fail(r) \/ Store!Finish(r)
  <2>1. Up' /\ now' = now /\ Change(Scanner, {r}, outcome)  BY <1>13 DEF Record, Up
  <2>2. /\ HeldFor' = [q \in Routes |-> IF q \in {r} THEN Why(Changed(outcome, mem[q]), now)
                                        ELSE HeldFor[q]]
        /\ AtRisk' = AtRisk \cup {r}
    BY <1>0, <1>13, <2>1, ChangeSeen DEF Kinds
  <2>3. HeldFor[r] = Why(mem[r], now) /\ HeldFor = [q \in Routes |-> HeldFor[q]]
    BY <1>13 DEF HeldFor, Cell
  <2>4. /\ Trading \subseteq {r} /\ Trading' = {}
        /\ outcome # "failure" => Trading = {r}
    BY <1>13 DEF Trading
  <2>5. CASE outcome = "failure"
    <3>1. PICK more \in SUBSET {"cooldown", "failures"} :
            Why(Changed("failure", mem[r]), now)
              = (Why(mem[r], now) \ {"cooldown"}) \cup {"pause"} \cup more
      BY <1>0, <1>13, WhyFailed
    <3>2. HeldFor' = [HeldFor EXCEPT ![r] = (HeldFor[r] \ {"cooldown"}) \cup {"pause"} \cup more]
      BY <2>2, <2>3, <2>5, <3>1
    <3>3. Store!Fail(r)  BY <2>2, <2>4, <3>2 DEF Store!Fail
    <3> QED  BY <3>3
  <2>6. CASE outcome \in {"loss", "gain"}
    <3>1. mem[r].fails < MaxFails /\ mem[r].losses < MaxLosses
      BY <1>13, <2>6 DEF TradeInv
    <3>2. PICK more \in SUBSET {"losses"} :
            Why(Changed(outcome, mem[r]), now) = Why(mem[r], now) \cup more
      BY <1>0, <1>13, <2>6, <3>1, WhyFinished
    <3>3. HeldFor' = [HeldFor EXCEPT ![r] = HeldFor[r] \cup more]
      BY <2>2, <2>3, <3>2
    <3>4. Store!Finish(r)  BY <2>2, <2>4, <2>6, <3>3 DEF Store!Finish
    <3> QED  BY <3>4
  <2> QED  BY <1>13, <2>5, <2>6
<1>14. CASE ScanMark
  <2>1. /\ Record(scan.route, "failure") /\ scan.pc = "mark" /\ scan'.pc = "route"
        /\ save[Scanner].pc = "idle" /\ scan.route \in Routes
    BY <1>0, <1>14 DEF ScanMark, Cycles
  <2>2. dirty[Scanner] = {} /\ Up  BY <2>1 DEF Shape, ScanShape
  <2>3. Store!Fail(scan.route) \/ Store!Finish(scan.route)  BY <1>13, <2>1, <2>2
  <2> QED  BY <2>1, <2>3 DEF Store!Next
<1>15. CASE ScanSettle
  <2>1. PICK outcome \in {"failure", "loss", "gain"} : Record(scan.route, outcome)
    BY <1>15 DEF ScanSettle
  <2>2. /\ scan.pc = "trade" /\ scan'.pc = "route" /\ save[Scanner].pc = "idle"
        /\ scan.route \in Routes
    BY <1>0, <1>15 DEF ScanSettle, Cycles
  <2>3. dirty[Scanner] = {} /\ Up  BY <2>2 DEF Shape, ScanShape
  <2>4. Store!Fail(scan.route) \/ Store!Finish(scan.route)  BY <1>13, <2>1, <2>2, <2>3
  <2> QED  BY <2>2, <2>4 DEF Store!Next
<1>16. CASE ScanFail
  <2>1. /\ Abandon(Scanner) /\ UNCHANGED <<mem, row, boot, now>> /\ scan'.pc = "list"
    BY <1>16 DEF ScanFail, FreshScan
  <2>2. AtRisk' = AtRisk  BY <1>0, <2>1, AbandonSeen
  <2>3. HeldFor' = HeldFor /\ Trading' = {}
    BY <2>1 DEF HeldFor, Cell, Up, Why, Trading
  <2>4. Store!Drop  BY <2>2, <2>3 DEF Store!Drop
  <2> QED  BY <2>4 DEF Store!Next
<1>17. CASE BootQuery
  <2>1. UNCHANGED <<mem, row, dirty, scan, now, torn>> /\ ~Up /\ ~Up'
    BY <1>17 DEF BootQuery, Up
  <2>2. HeldFor' = HeldFor /\ Trading' = Trading
    BY <2>1 DEF HeldFor, Cell, Why, Trading
  <2>3. AtRisk' = AtRisk  BY <2>1 DEF AtRisk, Quiet, Busy
  <2> QED  BY <2>2, <2>3 DEF Store!vars
<1>18. \A s, n : Why(s, n) \subseteq Store!Reasons
  BY DEF Why, Store!Reasons
<1>19. CASE BootApply
  <2>1. /\ UNCHANGED <<row, dirty, scan, now, torn>> /\ ~Up /\ Up' /\ boot.rows = row
        /\ \A r \in Routes : mem'[r] = Restored(row[r])
    BY <1>19 DEF BootApply, Up, Inv, BootInv
  <2>2. \A r \in Routes : Why(mem'[r], now) = Why(row[r], now)
    BY <1>0, <2>1, RestoredIsSame, WhySame
  <2>3. HeldFor' = HeldFor  BY <2>1, <2>2 DEF HeldFor, Cell, Why
  <2>4. AtRisk' = {}
    <3>1. \A a \in Actors : dirty[a] = {}  BY <2>1, NobodyBeforeUp
    <3>2. \A r \in Routes : torn[r] = {}  BY <2>1 DEF Inv, BootInv
    <3> QED  BY <2>1, <3>1, <3>2 DEF AtRisk, Quiet, Busy
  <2>5. Trading' = {}  BY <2>1 DEF Shape, ScanShape, Trading
  <2>6. HeldFor' \in [Routes -> SUBSET Store!Reasons]  BY <1>18, <2>3 DEF HeldFor
  <2>7. Store!Restart  BY <2>3, <2>4, <2>5, <2>6 DEF Store!Restart
  <2> QED  BY <2>7 DEF Store!Next
<1>20. CASE Tick
  <2>1. UNCHANGED <<mem, row, dirty, scan, boot, torn>> /\ now' = now + 1  BY <1>20 DEF Tick
  <2>2. Cell' = Cell /\ Cell \in [Routes -> States]  BY <1>0, <2>1 DEF Cell, Up
  <2>3. HeldFor' = [r \in Routes |-> Why(Cell[r], now + 1)]  BY <2>1, <2>2 DEF HeldFor, Why
  <2>4. \A r \in Routes : HeldFor[r] = Why(Cell[r], now)  BY DEF HeldFor
  <2>5. \A r \in Routes : HeldFor[r] \ {"cooldown"} \subseteq HeldFor'[r]
                          /\ HeldFor'[r] \subseteq HeldFor[r]
    BY <1>0, <2>2, <2>3, <2>4, WhyLater
  <2>6. HeldFor' \in [Routes -> SUBSET Store!Reasons]  BY <1>18, <2>3
  <2>7. AtRisk' = AtRisk /\ Trading' = Trading  BY <2>1 DEF AtRisk, Quiet, Busy, Trading
  <2>8. Store!Expire  BY <2>5, <2>6, <2>7 DEF Store!Expire
  <2> QED  BY <2>8 DEF Store!Next
<1>21. CASE Crash
  <2>1. /\ ~Up' /\ UNCHANGED <<row, now>> /\ scan'.pc = "list"
        /\ \A a \in Actors : dirty'[a] = {}
        /\ \A r \in Routes : torn'[r] = {}
    BY <1>21 DEF Crash, Booting, FreshScan, Up
  <2>2. HeldFor' = [r \in Routes |-> Why(row[r], now)]  BY <2>1 DEF HeldFor, Cell, Why
  <2>3. AtRisk' = {} /\ Trading' = {}  BY <2>1 DEF AtRisk, Quiet, Busy, Trading
  <2>4. ASSUME NEW r \in Routes \ AtRisk PROVE HeldFor'[r] = HeldFor[r]
    <3>1. Quiet(r) /\ torn[r] = {}  BY DEF AtRisk
    <3>2. CASE Up
      <4>1. Same(row[r], mem[r], now)
        BY <3>1, <3>2, QuietMeans DEF Inv, RowInv, Saved
      <4>2. Why(row[r], now) = Why(mem[r], now)  BY <1>0, <4>1, WhySame
      <4> QED  BY <2>2, <3>2, <4>2 DEF HeldFor, Cell
    <3>3. CASE ~Up
      BY <2>2, <3>3 DEF HeldFor, Cell
    <3> QED  BY <3>2, <3>3
  <2>5. HeldFor' \in [Routes -> SUBSET Store!Reasons]  BY <1>18, <2>2
  <2>6. Store!Restart  BY <2>3, <2>4, <2>5 DEF Store!Restart
  <2> QED  BY <2>6 DEF Store!Next
<1>22. CASE UNCHANGED vars
  BY <1>2, <1>22 DEF vars
<1>23. CASE \E r \in Routes : ScanBlocked(r) \/ ScanBadQuote(r) \/ ScanEligible(r)
  BY <1>11, <1>12, <1>23 DEF Store!Next
<1>24. CASE \E h \in Requests :
              \/ \E op \in Ops, r \in Routes : AcceptSwitch(h, op, r)
              \/ "clear" \in Ops
                 /\ \E touched \in {{r} : r \in Routes} \cup {Routes} : AcceptClear(h, touched)
              \/ WriteColumn(h) \/ SetFlag(h) \/ BeginSave(h) \/ FailRequest(h)
  <2>1. \A touched \in {{r} : r \in Routes} \cup {Routes} : touched \in SUBSET Routes  OBVIOUS
  <2> QED  BY <1>3, <1>4, <1>5, <1>6, <1>7, <1>24, <2>1 DEF Store!Next
<1>25. CASE \E a \in Actors : SaveLoad(a) \/ SaveCommit(a)
  BY <1>8, <1>9, <1>25 DEF Store!Next
<1> QED
  BY <1>10, <1>14, <1>15, <1>16, <1>17, <1>19, <1>20, <1>21, <1>22, <1>23, <1>24, <1>25
     DEF Next, ScanStep

\* When the restored rows come first, memory, row, savers and startup implement
\* QuarantineStore: a quarantine gets lost only by a crash that cuts its save short
\* or after a save that collided or was abandoned.
THEOREM KeptQuarantine ==
  ASSUME HydrationWins
  PROVE  Spec => KeepsQuarantine
<1>1. Init => Store!Init
  <2> SUFFICES ASSUME Init PROVE Store!Init  OBVIOUS
  <2>1. ~Up /\ now = 0 /\ scan.pc = "list" /\ \A r \in Routes : row[r] = Fresh
    BY DEF Init, Booting, FreshScan, Up, AllFresh
  <2>2. Why(Fresh, 0) = {}  BY ConstantsAssumption DEF Why, Fresh
  <2>3. HeldFor = [r \in Routes |-> {}]  BY <2>1, <2>2 DEF HeldFor, Cell
  <2>4. AtRisk = {} /\ Trading = {}
    BY <2>1 DEF Init, AtRisk, Quiet, Busy, Trading
  <2> QED  BY <2>3, <2>4 DEF Store!Init
<1>2. Init => TradeInv  BY DEF Init, FreshScan, TradeInv
<1>3. TypeOK /\ Shape /\ Inv /\ TradeInv /\ [Next]_vars => TradeInv'
  BY TradeStep
<1>4. TypeOK /\ Shape /\ Inv /\ TradeInv /\ [Next]_vars => [Store!Next]_(Store!vars)
  BY StoreStep
<1> QED  BY <1>1, <1>2, <1>3, <1>4, InvAlways, PTL DEF Spec, KeepsQuarantine, Store!Spec
=============================================================================
