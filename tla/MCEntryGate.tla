----------------------------- MODULE MCEntryGate -----------------------------
(***************************************************************************)
(* EntryGate with the edge for live below the edge for paper, as in the    *)
(* defaults, and the peg between the two, as in the defaults, or above.    *)
(* The run about paper entries has the peg between the two only.           *)
(***************************************************************************)
EXTENDS EntryGate
=============================================================================
