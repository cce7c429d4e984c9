------------------------------ MODULE Automata ------------------------------
(***************************************************************************)
(* The core of the stand-alone harness (ovi/src/automata.sv): it issues    *)
(* the vector instructions of a small program one after the other, and     *)
(* answers the memory petitions of the bridge with a one-word memory.      *)
(* As in Ovi, an action is one rising clock edge.                          *)
(***************************************************************************)
EXTENDS Integers

CONSTANTS
  Programs,      (* the programs: functions from 0..n-1 to kinds of instruction *)
  VectorConfigs  (* the <<vl, sew>> pairs vl.mem may hold                       *)

ASSUME AutomataAssumption ==
  /\ \A p \in Programs : /\ DOMAIN p \subseteq 0..63
                          /\ \A i \in DOMAIN p : p[i] \in {"load", "store", "arith"}
  /\ VectorConfigs \subseteq Nat \X (0..3)

VARIABLES
  MEM,             (* the program, loaded from program.mem       *)
  vl, sew,         (* vector length and element width, vl.mem    *)
  aut_state,       (* REST, READ_AND_ISSUE or WAIT_ANSWER        *)
  mem_ptr,         (* next instruction                           *)
  delay,           (* start-up delay: counts up and stops at 0   *)
  LMEM,            (* the word loads return, plus one per answer *)
  reg_memready,    (* cycles before the memory is ready again    *)
  reg_memvalid,    (* cycles before the answer                   *)
  is_load          (* the answer belongs to a load               *)

autVars == <<MEM, vl, sew, aut_state, mem_ptr, delay, LMEM, reg_memready,
             reg_memvalid, is_load>>

(* read_instruction == -1: the end of the program. *)
at_end == mem_ptr \notin DOMAIN MEM
halt(core_halt) == core_halt \/ delay # 0 \/ at_end

CORE_ISSUE_valid(core_halt) == aut_state = "READ_AND_ISSUE" /\ ~halt(core_halt)
CORE_ISSUE_instr ==
  [kind |-> IF at_end THEN "arith" ELSE MEM[mem_ptr], vl |-> vl, sew |-> sew, wb |-> FALSE]

datavalid == reg_memvalid = 1
memready == reg_memready = 0

(* The answer bus; p says that a petition is on the bus in the same cycle. *)
MemBus(p) == [ready |-> memready /\ ~p, valid |-> datavalid /\ is_load, data |-> LMEM]

AutomataInit ==
  /\ MEM \in Programs
  /\ \E c \in VectorConfigs : vl = c[1] /\ sew = c[2]
  /\ aut_state = "REST"
  /\ mem_ptr = 0
  /\ delay = 1
  /\ LMEM = 0
  /\ reg_memready = 0
  /\ reg_memvalid = 0
  /\ is_load = FALSE

-----------------------------------------------------------------------------
(* The countdowns of the memory.  A petition is only seen in WAIT_ANSWER; it
   restarts reg_memready, which starts reg_memvalid when it passes 3. *)
Memory(load_p, store_p) ==
  /\ reg_memready' = IF load_p \/ store_p THEN 6
                     ELSE IF reg_memready # 0 THEN reg_memready - 1 ELSE 0
  /\ reg_memvalid' = IF reg_memvalid # 0 THEN reg_memvalid - 1
                     ELSE IF reg_memready = 3 THEN 5 ELSE 0
  /\ is_load' = IF store_p THEN FALSE ELSE IF load_p THEN TRUE ELSE is_load
  /\ LMEM' = IF datavalid /\ is_load THEN LMEM + 1 ELSE LMEM
  /\ delay' = IF delay # 0 THEN (delay + 1) % 16 ELSE 0
  /\ UNCHANGED <<MEM, vl, sew>>

Rest(core_halt) ==
  /\ aut_state = "REST"
  /\ aut_state' = IF halt(core_halt) THEN "REST" ELSE "READ_AND_ISSUE"
  /\ Memory(FALSE, FALSE)
  /\ UNCHANGED mem_ptr

(* The pointer moves on whether or not the instruction was valid on the bus. *)
ReadAndIssue ==
  /\ aut_state = "READ_AND_ISSUE"
  /\ aut_state' = "WAIT_ANSWER"
  /\ mem_ptr' = (mem_ptr + 1) % 64
  /\ Memory(FALSE, FALSE)

WaitAnswer(core_halt, completed, load_p, store_p) ==
  /\ aut_state = "WAIT_ANSWER"
  /\ aut_state' = IF ~completed THEN "WAIT_ANSWER"
                  ELSE IF halt(core_halt) THEN "REST" ELSE "READ_AND_ISSUE"
  /\ Memory(load_p, store_p)
  /\ UNCHANGED mem_ptr

AutomataEdge(core_halt, completed, load_p, store_p) ==
  \/ Rest(core_halt)
  \/ ReadAndIssue
  \/ WaitAnswer(core_halt, completed, load_p, store_p)

-----------------------------------------------------------------------------
AutomataTypeOK ==
  /\ MEM \in Programs
  /\ vl \in Nat /\ sew \in 0..3
  /\ aut_state \in {"REST", "READ_AND_ISSUE", "WAIT_ANSWER"}
  /\ mem_ptr \in 0..63
  /\ delay \in 0..15
  /\ LMEM \in Nat
  /\ reg_memready \in 0..6
  /\ reg_memvalid \in 0..5
  /\ is_load \in BOOLEAN
=============================================================================
