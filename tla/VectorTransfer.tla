--------------------------- MODULE VectorTransfer ---------------------------
(***************************************************************************)
(* What a vector instruction is to the core: it is issued, moves exactly   *)
(* the packets its length and element width call for, one after the other, *)
(* and completes; then the next one may be issued.                         *)
(***************************************************************************)
EXTENDS Integers

VARIABLES
  busy,    (* an instruction is in progress          *)
  total,   (* packets it has to move                 *)
  moved    (* packets it has moved                   *)

vtVars == <<busy, total, moved>>

VTInit == ~busy /\ total = 0 /\ moved = 0

VTIssue ==
  /\ ~busy
  /\ busy' = TRUE
  /\ total' \in Nat
  /\ moved' = 0

VTMove ==
  /\ busy
  /\ moved < total
  /\ moved' = moved + 1
  /\ UNCHANGED <<busy, total>>

VTComplete ==
  /\ busy
  /\ moved = total
  /\ busy' = FALSE
  /\ UNCHANGED <<total, moved>>

VTNext == VTIssue \/ VTMove \/ VTComplete

VTSpec == VTInit /\ [][VTNext]_vtVars
=============================================================================
