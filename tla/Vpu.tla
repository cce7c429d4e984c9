--------------------------------- MODULE Vpu ---------------------------------
(***************************************************************************)
(* The vector unit behind the OVI bridge.  It is external to this          *)
(* repository (a submodule): this module states what ovi/src/ovi.sv and    *)
(* ovi/src/top.sv rely on, and leaves the rest open.                       *)
(*                                                                         *)
(*  - An instruction it accepts completes, after a delay it chooses, with  *)
(*    one pulse of completed.                                              *)
(*  - A load or a store first raises one pulse of sync_start; then store   *)
(*    chunks flow out, at most StoreCredits ahead of the credits that come *)
(*    back, and the instruction does not complete before sync_end.         *)
(*  - Every accepted instruction gives one issue credit back, in any later *)
(*    cycle: before it completes, after, or while others are accepted.     *)
(***************************************************************************)
EXTENDS Integers

CONSTANTS
  VpuLatencies,   (* the delays, in cycles, the VPU may choose                *)
  StoreCredits    (* chunks it may send before a store credit comes back      *)

ASSUME VpuAssumption ==
  /\ VpuLatencies \subseteq Nat
  /\ VpuLatencies # {}
  /\ StoreCredits \in Nat \ {0}

VARIABLES
  vpu_state,          (* IDLE, BUSY, MEMORY (between sync_start and sync_end) or DRAIN *)
  vpu_timer,          (* cycles before its next move                                   *)
  vpu_instr,          (* the instruction being executed                                *)
  vpu_sb,             (* its scoreboard id                                             *)
  vpu_chunks,         (* store chunks sent                                             *)
  vpu_store_credits,  (* store chunks it may still send                                *)
  vpu_owed,           (* issue credits it has not given back                           *)
  vpu_completed, vpu_sync_start, vpu_store_valid, vpu_store_data, vpu_credit

vpuVars == <<vpu_state, vpu_timer, vpu_instr, vpu_sb, vpu_chunks, vpu_store_credits,
             vpu_owed, vpu_completed, vpu_sync_start, vpu_store_valid, vpu_store_data,
             vpu_credit>>

(* What the bridge sees of the VPU in a cycle. *)
VpuBus == [completed |-> vpu_completed, sync_start |-> vpu_sync_start,
           store_valid |-> vpu_store_valid, store_data |-> vpu_store_data,
           credit |-> vpu_credit]

VpuInit(none) ==
  /\ vpu_state = "IDLE"
  /\ vpu_timer = 0
  /\ vpu_instr = [kind |-> "arith", vl |-> 0, sew |-> 0, wb |-> FALSE]
  /\ vpu_sb = 0
  /\ vpu_chunks = 0
  /\ vpu_store_credits = StoreCredits
  /\ vpu_owed = 0
  /\ vpu_completed = FALSE
  /\ vpu_sync_start = FALSE
  /\ vpu_store_valid = FALSE
  /\ vpu_store_data = none
  /\ vpu_credit = FALSE

-----------------------------------------------------------------------------
(* An issue credit goes back at any time after the instruction was accepted. *)
GiveCredit(accepted) ==
  /\ vpu_credit' \in IF vpu_owed = 0 THEN {FALSE} ELSE BOOLEAN
  /\ vpu_owed' = vpu_owed + (IF accepted THEN 1 ELSE 0) - (IF vpu_credit' THEN 1 ELSE 0)

Silent ==
  /\ vpu_completed' = FALSE
  /\ vpu_sync_start' = FALSE
  /\ vpu_store_valid' = FALSE
  /\ UNCHANGED vpu_store_data

(* The VPU takes every instruction the bridge forwards. *)
VpuAccept(issue_valid, issue, sb) ==
  /\ issue_valid
  /\ vpu_state' = "BUSY"
  /\ vpu_timer' \in VpuLatencies
  /\ vpu_instr' = issue
  /\ vpu_sb' = sb
  /\ vpu_chunks' = 0
  /\ Silent
  /\ GiveCredit(TRUE)
  /\ UNCHANGED vpu_store_credits

VpuIdle(issue_valid) ==
  /\ ~issue_valid
  /\ vpu_state = "IDLE"
  /\ Silent
  /\ GiveCredit(FALSE)
  /\ UNCHANGED <<vpu_state, vpu_timer, vpu_instr, vpu_sb, vpu_chunks, vpu_store_credits>>

VpuWait(issue_valid) ==
  /\ ~issue_valid
  /\ vpu_state \in {"BUSY", "DRAIN"}
  /\ vpu_timer > 0
  /\ vpu_timer' = vpu_timer - 1
  /\ Silent
  /\ GiveCredit(FALSE)
  /\ UNCHANGED <<vpu_state, vpu_instr, vpu_sb, vpu_chunks, vpu_store_credits>>

(* An arithmetic instruction, or a memory one after sync_end, completes. *)
VpuComplete(issue_valid) ==
  /\ ~issue_valid
  /\ vpu_timer = 0
  /\ vpu_state = "DRAIN" \/ (vpu_state = "BUSY" /\ vpu_instr.kind = "arith")
  /\ vpu_state' = "IDLE"
  /\ vpu_completed' = TRUE
  /\ vpu_sync_start' = FALSE
  /\ vpu_store_valid' = FALSE
  /\ GiveCredit(FALSE)
  /\ UNCHANGED <<vpu_timer, vpu_instr, vpu_sb, vpu_chunks, vpu_store_credits, vpu_store_data>>

VpuStartMemory(issue_valid) ==
  /\ ~issue_valid
  /\ vpu_timer = 0
  /\ vpu_state = "BUSY"
  /\ vpu_instr.kind # "arith"
  /\ vpu_state' = "MEMORY"
  /\ vpu_timer' \in VpuLatencies
  /\ vpu_sync_start' = TRUE
  /\ vpu_completed' = FALSE
  /\ vpu_store_valid' = FALSE
  /\ GiveCredit(FALSE)
  /\ UNCHANGED <<vpu_instr, vpu_sb, vpu_chunks, vpu_store_credits, vpu_store_data>>

(* Chunks the VPU sends for a store of vl elements. *)
StoreChunks(i, per_chunk) == (i.vl + per_chunk - 1) \div per_chunk

(* Between sync_start and sync_end: a store sends its chunks as its credits
   allow; store_credit and ended are the pulses of the bridge. *)
VpuMemory(issue_valid, per_chunk, store_credit, ended) ==
  /\ ~issue_valid
  /\ vpu_state = "MEMORY"
  /\ LET send == /\ vpu_instr.kind = "store"
                 /\ vpu_timer = 0
                 /\ vpu_store_credits > 0
                 /\ vpu_chunks < StoreChunks(vpu_instr, per_chunk)
     IN  /\ vpu_store_valid' = send
         /\ IF send
            THEN /\ vpu_store_data' = <<vpu_sb, vpu_chunks>>
                 /\ vpu_chunks' = vpu_chunks + 1
            ELSE UNCHANGED <<vpu_store_data, vpu_chunks>>
         /\ vpu_timer' \in IF send \/ ended THEN VpuLatencies
                           ELSE {IF vpu_timer > 0 THEN vpu_timer - 1 ELSE 0}
         /\ vpu_store_credits' = vpu_store_credits
                                 + (IF store_credit THEN 1 ELSE 0) - (IF send THEN 1 ELSE 0)
  /\ vpu_state' = IF ended THEN "DRAIN" ELSE vpu_state
  /\ vpu_completed' = FALSE
  /\ vpu_sync_start' = FALSE
  /\ GiveCredit(FALSE)
  /\ UNCHANGED <<vpu_instr, vpu_sb>>

VpuEdge(issue_valid, issue, sb, per_chunk, store_credit, ended) ==
  \/ VpuAccept(issue_valid, issue, sb)
  \/ VpuIdle(issue_valid)
  \/ VpuWait(issue_valid)
  \/ VpuComplete(issue_valid)
  \/ VpuStartMemory(issue_valid)
  \/ VpuMemory(issue_valid, per_chunk, store_credit, ended)

-----------------------------------------------------------------------------
VpuTypeOK ==
  /\ vpu_state \in {"IDLE", "BUSY", "MEMORY", "DRAIN"}
  /\ vpu_timer \in Nat
  /\ vpu_chunks \in Nat
  /\ vpu_store_credits \in Int
  /\ vpu_owed \in Nat
  /\ vpu_completed \in BOOLEAN
  /\ vpu_sync_start \in BOOLEAN
  /\ vpu_store_valid \in BOOLEAN
  /\ vpu_credit \in BOOLEAN
=============================================================================
