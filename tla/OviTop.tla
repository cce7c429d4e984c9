------------------------------- MODULE OviTop -------------------------------
(***************************************************************************)
(* The stand-alone harness (ovi/src/top.sv): automata, OVI bridge and VPU  *)
(* on one clock.  A step is one rising edge of CLK for the three of them.  *)
(***************************************************************************)
EXTENDS Ovi, Automata, Vpu

VARIABLES
  served,     (* history: petitions the core has seen since the issue           *)
  announced,  (* history: elements handed to the VPU with el_id and el_count    *)
  lmem_base,  (* history: LMEM when the instruction was issued                  *)
  collided    (* history: credits that came back in the cycle of an issue       *)

history == <<served, announced, lmem_base, collided>>
vars == <<oviVars, autVars, vpuVars, history>>

issue_valid == CORE_ISSUE_valid(CORE_HALT)
core_bus == [valid |-> issue_valid, issue |-> CORE_ISSUE_instr]
issuing == VPU_ISSUE(issue_valid)

Init == OviInit /\ AutomataInit /\ VpuInit(NoData)
        /\ served = 0 /\ announced = {} /\ lmem_base = 0 /\ collided = 0

History ==
  /\ served' = IF issuing THEN 0 ELSE IF petition THEN served + 1 ELSE served
  /\ announced' = IF issuing THEN {}
                  ELSE IF buffer_load_ready
                       THEN announced \cup (el_id..el_id + el_count - 1)
                       ELSE announced
  /\ lmem_base' = IF issuing THEN LMEM ELSE lmem_base
  /\ collided' = IF issuing /\ vpu_credit THEN collided + 1 ELSE collided

(* The wiring of top.sv. *)
Next ==
  /\ OviEdge(core_bus, MemBus(petition), VpuBus)
  /\ AutomataEdge(CORE_HALT, vpu_completed, load_valid, store_valid)
  /\ VpuEdge(issuing, CORE_ISSUE_instr, sbid_counter, ChunkElements(vpu_instr.sew),
             vpu_send_store_credit, sync_end)
  /\ History

Spec == Init /\ [][Next]_vars

(* The clock never stops, which is all a synchronous design needs, and the VPU
   does not keep the credits it owes for ever. *)
FairSpec == Spec /\ WF_vars(Next) /\ []<>(vpu_owed = 0 \/ vpu_credit)

-----------------------------------------------------------------------------
(* Type invariant: the ranges the register widths allow, as far as the model
   keeps them, and the states of the three machines. *)
TypeOK ==
  /\ OviTypeOK
  /\ AutomataTypeOK
  /\ VpuTypeOK
  /\ vpu_instr \in Instructions
  /\ served \in Nat
  /\ collided \in Nat

memory_op == instr.kind \in {"load", "store"}

(* The automata takes an instruction out of its memory one cycle after it saw
   the bridge ready, and moves its pointer on without looking again
   (automata.sv READ_AND_ISSUE): the bridge is still ready then, so no
   instruction is skipped. *)
NoInstructionSkipped == aut_state = "READ_AND_ISSUE" => issuing

(* The bridge leaves its memory states on the last packet while that packet is
   still a register away from the core (ovi.sv RECEIVE_DATA, SEND_DATA): all
   the same the core sees every packet of the instruction, and none twice or
   beyond the last, before the VPU completes it. *)
ExactlyAllPackets ==
  /\ memory_op => served <= n_packets
  /\ vpu_completed /\ memory_op => served = n_packets

(* sent_packets counts a petition one cycle after it was raised; a petition on
   the bus carries the packet that is due next, at that packet's address, and
   for a store the data of a chunk the VPU sent for this very instruction. *)
StorePetitionIsNextPacket ==
  store_valid => /\ sent_packets = served
                 /\ chunk < buffer_store_index
                 /\ store_data = <<<<VPU_sb_id, served \div SubPackets>>, served % SubPackets>>

(* Consecutive petitions cover consecutive packets of memory: what the comment
   "hardcoded for 32-bit petitions" says of every element width. *)
PetitionsContiguous == petition => addr_offset = served * (PacketBits \div 8)

(* Every answer of the memory reaches the bridge while it waits for it, and the
   bridge never counts more answers than it sent petitions: an answer left over
   from an earlier instruction would be taken as data of the load in progress,
   and the last true answer would then come when nobody listens. *)
AnswersMatchPetitions ==
  /\ datavalid /\ is_load => curr_state = "SEND_DATA"
  /\ curr_state = "SEND_DATA" =>
       load_packets + (IF datavalid /\ is_load THEN 1 ELSE 0) <= served

(* Each element the bridge announces to the VPU comes with the packet the
   memory returned for it: the n-th answer of the instruction for packet n. *)
AnnouncedDataIsFresh ==
  buffer_load_ready =>
    LET first == (el_id * instrbits(instr.sew)) \div PacketBits
        count == (el_count * instrbits(instr.sew)) \div PacketBits
    IN  \A s \in 0..count - 1 : BUFFER_LOAD[s] = lmem_base + first + s

(* When a load completes, every element of the vector was announced. *)
AllElementsAnnounced ==
  vpu_completed /\ instr.kind = "load" => announced = 0..instr.vl - 1

(* A credit returned in the cycle of an issue overwrites the decrement
   (ovi.sv:166, :249).  Whenever the VPU returns its credits, that is the only
   way the counter and the VPU come to disagree: by one for each such cycle,
   and modulo the 4 bits of the register; and the VPU is never sent more
   instructions than it has given credits for, but for those. *)
credits_left == MaxCredits + collided - vpu_owed - (IF vpu_credit THEN 1 ELSE 0)
CreditsAccounted == credits_left >= 0 /\ issue_credits = credits_left % 16

(* What the other two machines can be doing while the VPU is in a state of its
   own: the bridge leaves WAIT_ANSWER on a pulse it sees for one cycle only
   (completed, sync_start), and leaves a memory state in the cycle in which it
   raises sync_end; no pulse is missed and no machine runs ahead. *)
Lockstep ==
  /\ aut_state = "WAIT_ANSWER" <=> curr_state # "WAIT_ISSUE"
  /\ curr_state # "WAIT_ISSUE" => vpu_instr = instr
  /\ vpu_state = "IDLE" =>
       /\ curr_state = IF vpu_completed THEN "WAIT_ANSWER" ELSE "WAIT_ISSUE"
       /\ ~vpu_sync_start /\ ~sync_end
  /\ vpu_state \in {"BUSY", "DRAIN"} =>
       /\ curr_state = "WAIT_ANSWER"
       /\ ~vpu_completed /\ ~vpu_sync_start /\ ~sync_end
  /\ vpu_state = "MEMORY" =>
       /\ memory_op /\ ~vpu_completed /\ ~(vpu_sync_start /\ sync_end)
       /\ curr_state = IF vpu_sync_start \/ sync_end THEN "WAIT_ANSWER" ELSE memory_state

(* The store credits the VPU spent on an instruction are all back when the
   instruction completes, and never more than it spent. *)
StoreCreditsConserved ==
  /\ vpu_store_credits \in 0..StoreCredits
  /\ vpu_completed => vpu_store_credits = StoreCredits

(* A chunk the VPU sends finds the bridge in RECEIVE_DATA, and an entry of
   BUFFER_STORE: the index starts anew at every sync_start, and no entry is
   used again within an instruction, however many credits have come back. *)
StoreBufferNeverOverrun ==
  vpu_store_valid => curr_state = "RECEIVE_DATA" /\ buffer_store_index < StoreDepth

(* Once the bridge serves a memory instruction it gets to the last packet and
   raises sync_end. *)
MemoryOperationEnds == (curr_state \in {"RECEIVE_DATA", "SEND_DATA"}) ~> sync_end

(* Every program runs to its end, whatever delays the VPU chooses. *)
ProgramCompletes == <>[](at_end /\ aut_state = "REST" /\ vpu_state = "IDLE")

(* The bridge, the automata and the VPU together implement VectorTransfer. *)
Transfer == INSTANCE VectorTransfer WITH
  busy <- curr_state # "WAIT_ISSUE",
  total <- IF memory_op THEN n_packets ELSE 0,
  moved <- served

ImplementsVectorTransfer == Transfer!VTSpec
=============================================================================
