--------------------------------- MODULE Ovi ---------------------------------
(***************************************************************************)
(* The OVI bridge (ovi/src/ovi.sv): it sits between a scalar core and the  *)
(* external vector unit (VPU), forwards one vector instruction at a time,  *)
(* and breaks the memory traffic of vector loads and stores, which the VPU *)
(* speaks in chunks of MEMDATA bits, into packets of one core word.        *)
(*                                                                         *)
(* The bridge is synchronous.  A step of this module is one rising clock   *)
(* edge: the registers are the variables, the wires are operators on the   *)
(* unprimed registers, and the inputs of the bridge are the parameters of  *)
(* the actions.  OviTop composes the module with a core and a VPU.         *)
(*                                                                         *)
(* A definition with a suffix (_late, _early, ...) that stands just before *)
(* another one is a faulty variant of it: the runs show that the           *)
(* properties tell the two apart.                                          *)
(***************************************************************************)
EXTENDS Integers

CONSTANTS
  SubPackets,      (* packets per chunk: 2^SUBPACKET_BITS, 512/32 = 16 in the code   *)
  PacketBits,      (* CPU_PACKET_WIDTH, 32 in the code                               *)
  StoreDepth,      (* entries of BUFFER_STORE, 32 in the code                        *)
  MaxCredits,      (* reset value of issue_credits, 4 in the code                    *)
  SbIds,           (* scoreboard ids: 2^OVI_SBID_WIDTH, 32 in the code               *)
  NoData           (* content of a buffer slot nothing was written to                *)

ASSUME OviAssumption ==
  /\ SubPackets \in Nat \ {0}
  /\ PacketBits \in Nat \ {0}
  /\ SubPackets * PacketBits >= 64   (* a chunk holds an element of any width *)
  /\ StoreDepth \in Nat \ {0}
  /\ MaxCredits \in 1..15
  /\ SbIds \in Nat \ {0}

VARIABLES
  curr_state,            (* FSM state                                                *)
  issue_credits,         (* instructions the VPU can still accept, 4 bits            *)
  sbid_counter,          (* scoreboard id of the next instruction                    *)
  instr,                 (* saved instruction: instr_is_load/store, vl, sew, wb, dst *)
  n_packets,             (* packets of the current memory instruction                *)
  sent_packets,          (* petitions already sent to the core                       *)
  load_packets,          (* load answers already received from the core              *)
  addr_offset,           (* byte offset of the next petition                         *)
  send_load_petition,    (* a load petition is on the core bus in this cycle         *)
  send_store_petition,   (* a store petition is on the core bus in this cycle        *)
  buffer_store_index,    (* store chunks received from the VPU                       *)
  vpu_send_store_credit, (* a store credit is given back in this cycle               *)
  sync_end,              (* the memory operation ends in this cycle                  *)
  buffer_load_ready,     (* a load chunk is on the VPU bus in this cycle             *)
  el_id, el_count,       (* first element of that chunk, and how many it holds       *)
  BUFFER_LOAD,           (* the chunk being assembled, per packet                    *)
  BUFFER_STORE           (* the chunks received from the VPU                         *)

control == <<curr_state, issue_credits, sbid_counter, instr>>
counters == <<n_packets, sent_packets, load_packets, addr_offset>>
pulses == <<send_load_petition, send_store_petition, vpu_send_store_credit,
            sync_end, buffer_load_ready>>
buffers == <<buffer_store_index, el_id, el_count, BUFFER_LOAD, BUFFER_STORE>>
oviVars == <<control, counters, pulses, buffers>>

OviStates == {"WAIT_ISSUE", "WAIT_ANSWER", "RECEIVE_DATA", "SEND_DATA"}
Kinds == {"load", "store", "arith"}
Sews == 0..3
Instructions == [kind : Kinds, vl : Nat, sew : Sews, wb : BOOLEAN]

-----------------------------------------------------------------------------
(* Wires.                                                                    *)

(* Bits of an element of width code sew: 8, 16, 32 or 64. *)
instrbits(sew) == CASE sew = 0 -> 8 [] sew = 1 -> 16 [] sew = 2 -> 32 [] OTHER -> 64

(* Elements that fit a chunk: 512 >> reg_instrlogbits. *)
ChunkElements(sew) == (SubPackets * PacketBits) \div instrbits(sew)

(* Packets of an instruction; the shift left is 16 bits wide, and the shift
   right drops the bits that do not fill a packet. *)
PacketsOf(i) == ((i.vl * instrbits(i.sew)) % 65536) \div PacketBits

extra_elements_off_by_one == (instr.vl - 1) % ChunkElements(instr.sew)
extra_elements == instr.vl % ChunkElements(instr.sew)

chunk == sent_packets \div SubPackets
chunk_offset == sent_packets % SubPackets
last_packet_late == sent_packets = n_packets
last_packet_early == sent_packets + 2 >= n_packets
last_packet == sent_packets + 1 = n_packets
last_chunk_offset_every == TRUE
last_chunk_offset == last_packet \/ chunk_offset = SubPackets - 1
chunk_received_early == buffer_store_index >= chunk
chunk_received == buffer_store_index > chunk

load_chunk == load_packets \div SubPackets
load_chunk_offset_of_petition == chunk_offset
load_chunk_offset == load_packets % SubPackets
last_load_packet_late == load_packets = n_packets
last_load_packet_early == load_packets + 2 >= n_packets
last_load_packet == load_packets + 1 = n_packets
last_load_chunk_offset == last_load_packet \/ load_chunk_offset = SubPackets - 1

(* Outputs towards the core. *)
CORE_HALT == curr_state # "WAIT_ISSUE" \/ issue_credits = 0
load_valid == curr_state = "SEND_DATA" /\ send_load_petition
store_valid == send_store_petition
petition == load_valid \/ store_valid
store_data == <<BUFFER_STORE[chunk], chunk_offset>>

(* Outputs towards the VPU: an instruction is forwarded, and dispatched as the
   next senior, in the cycle the core presents it. *)
VPU_ISSUE_keeping_one(issue_valid) ==
  curr_state = "WAIT_ISSUE" /\ issue_credits > 1 /\ issue_valid
VPU_ISSUE(issue_valid) ==
  curr_state = "WAIT_ISSUE" /\ issue_credits > 0 /\ issue_valid
next_sb_id_unwrapped == sbid_counter + 1
next_sb_id == (sbid_counter + 1) % SbIds
VPU_sb_id == (sbid_counter - 1) % SbIds

-----------------------------------------------------------------------------
OviInit ==
  /\ curr_state = "WAIT_ISSUE"
  /\ issue_credits = MaxCredits
  /\ sbid_counter = 0
  /\ instr = [kind |-> "arith", vl |-> 0, sew |-> 0, wb |-> FALSE]
  /\ n_packets = 0
  /\ sent_packets = 0
  /\ load_packets = 0
  /\ addr_offset = 0
  /\ send_load_petition = FALSE
  /\ send_store_petition = FALSE
  /\ buffer_store_index = 0
  /\ vpu_send_store_credit = FALSE
  /\ sync_end = FALSE
  /\ buffer_load_ready = FALSE
  /\ el_id = 0
  /\ el_count = 0
  /\ BUFFER_LOAD = [s \in 0..SubPackets - 1 |-> NoData]
  /\ BUFFER_STORE = [c \in 0..StoreDepth - 1 |-> NoData]

NoPulsesButSyncEnd ==
  /\ send_load_petition' = FALSE
  /\ send_store_petition' = FALSE
  /\ vpu_send_store_credit' = FALSE
  /\ buffer_load_ready' = FALSE
  /\ UNCHANGED sync_end

(* The pulses default to 0 at every edge; an action names the ones it raises. *)
NoPulses ==
  /\ send_load_petition' = FALSE
  /\ send_store_petition' = FALSE
  /\ vpu_send_store_credit' = FALSE
  /\ sync_end' = FALSE
  /\ buffer_load_ready' = FALSE

CreditsNeverTaken(issued, returned) ==
  issue_credits' = IF returned THEN (issue_credits + 1) % 16 ELSE issue_credits

(* The credit counter.  Both assignments are non-blocking and the one of the
   returned credit comes last: in a cycle with an issue and a returned credit
   the decrement is lost. *)
Credits(issued, returned) ==
  issue_credits' = IF returned THEN (issue_credits + 1) % 16
                   ELSE IF issued THEN issue_credits - 1
                   ELSE issue_credits

CountPetitionInBytes(on_bus) ==
  IF on_bus
  THEN /\ addr_offset' = addr_offset + 1
       /\ sent_packets' = sent_packets + 1
  ELSE UNCHANGED <<addr_offset, sent_packets>>

(* The petition that is on the bus is accounted for one cycle after it was
   raised.  The address advances by the size of an element, whatever its
   relation to the size of a packet. *)
CountPetition(on_bus) ==
  IF on_bus
  THEN /\ addr_offset' = addr_offset + instrbits(instr.sew) \div 8
       /\ sent_packets' = sent_packets + 1
  ELSE UNCHANGED <<addr_offset, sent_packets>>

(* WAIT_ISSUE without an instruction, or without a credit for it. *)
Idle(issue_valid, credit) ==
  /\ curr_state = "WAIT_ISSUE"
  /\ ~VPU_ISSUE(issue_valid)
  /\ Credits(FALSE, credit)
  /\ NoPulses
  /\ UNCHANGED <<curr_state, sbid_counter, instr, counters, buffers>>

(* WAIT_ISSUE: the instruction on the core bus is saved and forwarded. *)
Issue(issue_valid, issue, credit) ==
  /\ VPU_ISSUE(issue_valid)
  /\ Credits(TRUE, credit)
  /\ sbid_counter' = next_sb_id
  /\ instr' = issue
  /\ n_packets' = PacketsOf(issue)
  /\ sent_packets' = 0
  /\ load_packets' = 0
  /\ addr_offset' = 0
  /\ curr_state' = "WAIT_ANSWER"
  /\ NoPulses
  /\ UNCHANGED buffers

memory_state == CASE instr.kind = "store" -> "RECEIVE_DATA"
                  [] instr.kind = "load" -> "SEND_DATA"
                  [] OTHER -> "WAIT_ANSWER"
StartMemoryKeepingIndex == curr_state' = memory_state /\ UNCHANGED buffer_store_index
StartMemory == curr_state' = memory_state /\ buffer_store_index' = 0

(* WAIT_ANSWER: the VPU completes the instruction, or starts its memory
   operation, or is still busy. *)
Answer(completed, sync_start, credit) ==
  /\ curr_state = "WAIT_ANSWER"
  /\ \/ /\ completed
        /\ curr_state' = "WAIT_ISSUE"
        /\ UNCHANGED buffer_store_index
     \/ /\ ~completed
        /\ sync_start
        /\ StartMemory
     \/ /\ ~completed
        /\ ~sync_start
        /\ UNCHANGED <<curr_state, buffer_store_index>>
  /\ Credits(FALSE, credit)
  /\ NoPulses
  /\ UNCHANGED <<sbid_counter, instr, counters, el_id, el_count, BUFFER_LOAD, BUFFER_STORE>>

(* RECEIVE_DATA: chunks come in from the VPU while packets of the chunks
   already received go out to the core. *)
ReceiveData(mem_ready, vpu_store_valid, vpu_store_data, credit) ==
  /\ curr_state = "RECEIVE_DATA"
  /\ LET send == mem_ready /\ chunk_received
         last == send /\ last_packet
     IN  /\ send_store_petition' = send
         /\ vpu_send_store_credit' = (send /\ last_chunk_offset)
         /\ sync_end' = last
         /\ curr_state' = IF last THEN "WAIT_ANSWER" ELSE curr_state
  /\ IF vpu_store_valid
     THEN /\ BUFFER_STORE' = [BUFFER_STORE EXCEPT ![buffer_store_index] = vpu_store_data]
          /\ buffer_store_index' = (buffer_store_index + 1) % 64
     ELSE UNCHANGED <<BUFFER_STORE, buffer_store_index>>
  /\ CountPetition(send_store_petition)
  /\ Credits(FALSE, credit)
  /\ send_load_petition' = FALSE
  /\ buffer_load_ready' = FALSE
  /\ UNCHANGED <<sbid_counter, instr, n_packets, load_packets, el_id, el_count, BUFFER_LOAD>>

(* SEND_DATA: load petitions go out to the core, answers come back, and a full
   chunk, or the last one, is handed to the VPU. *)
SendData(mem_ready, resp_valid, resp_data, credit) ==
  /\ curr_state = "SEND_DATA"
  /\ send_load_petition' = (mem_ready /\ sent_packets < n_packets)
  /\ LET full == resp_valid /\ last_load_chunk_offset
         last == resp_valid /\ last_load_packet
     IN  /\ buffer_load_ready' = full
         /\ sync_end' = last
         /\ curr_state' = IF last THEN "WAIT_ANSWER" ELSE curr_state
         /\ IF full
            THEN /\ el_id' = load_chunk * ChunkElements(instr.sew)
                 /\ el_count' = IF last THEN extra_elements ELSE ChunkElements(instr.sew)
            ELSE UNCHANGED <<el_id, el_count>>
  /\ IF resp_valid
     THEN /\ BUFFER_LOAD' = [BUFFER_LOAD EXCEPT ![load_chunk_offset] = resp_data]
          /\ load_packets' = load_packets + 1
     ELSE UNCHANGED <<BUFFER_LOAD, load_packets>>
  /\ CountPetition(send_load_petition)
  /\ Credits(FALSE, credit)
  /\ send_store_petition' = FALSE
  /\ vpu_send_store_credit' = FALSE
  /\ UNCHANGED <<sbid_counter, instr, n_packets, buffer_store_index, BUFFER_STORE>>

(***************************************************************************)
(* One clock edge of the bridge.  core = [valid, issue], resp = [ready,    *)
(* valid, data], vpu = [completed, sync_start, store_valid, store_data,    *)
(* credit] are the values on its input buses before the edge.              *)
(***************************************************************************)
OviEdge(core, resp, vpu) ==
  \/ Idle(core.valid, vpu.credit)
  \/ Issue(core.valid, core.issue, vpu.credit)
  \/ Answer(vpu.completed, vpu.sync_start, vpu.credit)
  \/ ReceiveData(resp.ready, vpu.store_valid, vpu.store_data, vpu.credit)
  \/ SendData(resp.ready, resp.valid, resp.data, vpu.credit)

-----------------------------------------------------------------------------
OviTypeOK ==
  /\ curr_state \in OviStates
  /\ issue_credits \in 0..15
  /\ sbid_counter \in 0..SbIds - 1
  /\ instr \in Instructions
  /\ n_packets \in Nat
  /\ sent_packets \in Nat
  /\ load_packets \in Nat
  /\ addr_offset \in Nat
  /\ send_load_petition \in BOOLEAN
  /\ send_store_petition \in BOOLEAN
  /\ vpu_send_store_credit \in BOOLEAN
  /\ sync_end \in BOOLEAN
  /\ buffer_load_ready \in BOOLEAN
  /\ buffer_store_index \in 0..63
  /\ el_id \in Nat
  /\ el_count \in Nat
  /\ DOMAIN BUFFER_LOAD = 0..SubPackets - 1
  /\ DOMAIN BUFFER_STORE = 0..StoreDepth - 1
=============================================================================
