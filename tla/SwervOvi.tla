------------------------------ MODULE SwervOvi ------------------------------
(***************************************************************************)
(* The OVI bridge inside the SweRV core (design/exu/exu.sv,                *)
(* design/swerv.sv, design/dec/dec_decode_ctl.sv, design/lsu): decode      *)
(* hands it a vector instruction and stalls, and the memory traffic of the *)
(* vector goes through the load/store pipe of the core as petitions that   *)
(* have no instruction behind them: nothing holds them, nothing retries    *)
(* them, and their answers come back as those of non-blocking loads do.    *)
(*                                                                         *)
(* A step is one clock edge for decode, bridge, VPU, pipe and bus.  Of the *)
(* scalar program only its loads are kept, since they share the pipe and   *)
(* the answers.  The bus buffer is what LsuBusBuffer makes of it: loads    *)
(* that committed and have not been answered, oldest first.                *)
(***************************************************************************)
EXTENDS Ovi, Vpu, Sequences, FiniteSets

CONSTANTS
  VectorInstrs,    (* the vector instructions of the program                        *)
  ScalarDrained,   (* TRUE: no vector load is decoded while a scalar load is open   *)
  MaxDecoded,      (* bound of the model: instructions of the program               *)
  MaxMishaps       (* bound of the model: flushes, bus errors, loads of data at hand *)

ASSUME SwervOviAssumption ==
  /\ VectorInstrs \subseteq Instructions
  /\ ScalarDrained \in BOOLEAN
  /\ {MaxDecoded, MaxMishaps} \subseteq Nat

VARIABLES
  slot,           (* instruction in decode: [op |-> "none", "load" or "vector", vec]    *)
  vpu_stall_ff,   (* the bridge was busy a cycle ago                                    *)
  dc,             (* packets in dc1..dc5                                                *)
  ld_freeze_dc3,  (* a scalar load in dc3 holds dc1 to dc3 until it is answered         *)
  bus,            (* loads that wait for an answer, oldest first                        *)
  answer,         (* load whose data the bus buffer gives to the core in this cycle     *)
  lsu_stbuf_full_any,   (* the store buffer has no room                                 *)
  served,         (* history: petitions on the core bus since the issue                 *)
  stored,         (* history: store petitions committed since the issue                 *)
  lost,           (* history: petitions that get no answer or are not committed         *)
  decoded, mishaps            (* counters of the bounds                                 *)

coreVars == <<slot, vpu_stall_ff, dc, ld_freeze_dc3, bus, answer,
              lsu_stbuf_full_any>>
swHistory == <<served, stored, lost, decoded, mishaps>>
swVars == <<oviVars, vpuVars, coreVars, swHistory>>

NoPacket == [by |-> "none", op |-> "none", data |-> <<0, 0>>]
Stages == 1..5
NoInstr == [op |-> "none", vec |-> [kind |-> "arith", vl |-> 0, sew |-> 0, wb |-> FALSE]]

(***************************************************************************)
(* Inputs of a cycle: go, decode is not held for a reason of its own; dma, *)
(* the DMA controller has a request;                                       *)
(* cut, the last stage a flush empties: none (0), dc4 (a flush from the    *)
(* commit point), or dc5 as well (it kills what is in write-back).         *)
(* Branches of e3 do not matter here: when a petition is on the bus, the   *)
(* instructions older than the vector one have left e3.                    *)
(***************************************************************************)

Choice(possible) == IF possible THEN BOOLEAN ELSE {FALSE}

lsu_freeze_dc3(cut) == ld_freeze_dc3 /\ cut < 4

(* vpu_stall: the bridge is busy, and one cycle more for the write-back. *)
vpu_stall_registered == vpu_stall_ff
vpu_stall == CORE_HALT \/ vpu_stall_ff

open_scalar_loads ==
  \/ \E s \in Stages : dc[s].by = "core"
  \/ \E k \in DOMAIN bus : bus[k].by = "core"
  \/ answer.by = "core"

dec_i0_decode_d(go, cut) ==
  /\ slot.op # "none" /\ go
  /\ ~vpu_stall /\ cut = 0 /\ ~lsu_freeze_dc3(cut)
core_issue_valid(go, cut) == slot.op = "vector" /\ dec_i0_decode_d(go, cut)

(* What goes into dc1: a petition of the bridge has precedence over decode, and
   a request of the DMA controller over both. *)
lsu_p_valid(go, cut) == petition \/ (slot.op = "load" /\ dec_i0_decode_d(go, cut))
lsu_p ==
  IF petition
  THEN [by |-> "vec", op |-> IF load_valid THEN "load" ELSE "store", data |-> <<VPU_sb_id, served>>]
  ELSE [by |-> "core", op |-> "load", data |-> <<0, 0>>]

ldst_nodma_dc1todc3 == \E s \in 1..3 : dc[s] # NoPacket
dccm_ready_without_lsu_p(go, cut) ==
  ~(lsu_stbuf_full_any \/ lsu_freeze_dc3(cut) \/ ldst_nodma_dc1todc3)
dccm_ready(go, cut) ==
  ~(lsu_p_valid(go, cut) \/ lsu_stbuf_full_any \/ lsu_freeze_dc3(cut) \/ ldst_nodma_dc1todc3)
dma_dccm_req(go, dma, cut) == dma /\ dccm_ready(go, cut)

core_response_any_load(go, cut) ==
  [ready |-> dccm_ready(go, cut), valid |-> answer.by # "none", data |-> answer.data]
core_response(go, cut) ==
  [ready |-> dccm_ready(go, cut), valid |-> answer.by \in {"core", "vec"}, data |-> answer.data]

-----------------------------------------------------------------------------
(* The load/store pipe. *)

(* A flush empties stages 0 (decode) to cut. *)
survives(s, cut) == cut = 0 \/ s > cut
Moved(p, s, cut) == IF survives(s, cut) THEN p ELSE NoPacket

(* A DMA access is not followed further: nothing here depends on it. *)
dc1_in(go, dma, cut) ==
  IF lsu_p_valid(go, cut) /\ ~dma_dccm_req(go, dma, cut) THEN Moved(lsu_p, 0, cut) ELSE NoPacket

(* hit: the load of dc2 finds its data in the DCCM or in a store that waits for
   the bus; it makes no bus request, and so no non-blocking load.  block: it is
   a scalar load with a reader behind it, and waits in dc3 for its data. *)
Dc3(in3, hit, block) ==
  IF hit THEN NoPacket ELSE IF block THEN [in3 EXCEPT !.op = "none"] ELSE in3

PipeEdge(go, dma, cut, hit, block) ==
  LET frozen == lsu_freeze_dc3(cut)
      in3 == Moved(dc[2], 2, cut)
  IN  /\ ~(hit /\ block)
      /\ dc' = [s \in Stages |->
                  CASE s = 1 -> IF frozen THEN dc[1] ELSE dc1_in(go, dma, cut)
                    [] s = 2 -> IF frozen THEN dc[2] ELSE Moved(dc[1], 1, cut)
                    [] s = 3 -> IF frozen THEN dc[3] ELSE Dc3(in3, hit, block)
                    [] s = 4 -> IF frozen THEN NoPacket ELSE Moved(dc[3], 3, cut)
                    [] OTHER -> Moved(dc[4], 4, cut)]
      /\ lsu_stbuf_full_any' \in Choice(\A s \in 1..3 : dc'[s] = NoPacket)
      /\ ld_freeze_dc3' = IF frozen THEN answer.by # "freeze" ELSE block

(* A load of dc5 that is not killed waits for its answer.  The bus buffer gives
   one answer in a cycle, oldest request first; error: the bus answered with an
   error, and the core gets no data. *)
BusEdge(cut, block, ans, error) ==
  LET joins == dc[5].op = "load" /\ survives(5, cut)
  IN  /\ bus' = (IF ans THEN Tail(bus) ELSE bus)
                \o (IF joins THEN <<dc[5]>> ELSE <<>>)
                \o (IF block THEN <<[NoPacket EXCEPT !.by = "freeze"]>> ELSE <<>>)
      /\ answer' = IF ans /\ ~error THEN Head(bus) ELSE NoPacket

-----------------------------------------------------------------------------
(* Decode: an instruction that is decoded leaves the slot, and so does one that
   is flushed. *)
Fetched == {NoInstr, [NoInstr EXCEPT !.op = "load"]}
           \cup [op : {"vector"}, vec : VectorInstrs]

DecodeEdge(go, cut) ==
  LET leaves == slot.op = "none" \/ dec_i0_decode_d(go, cut) \/ cut # 0
  IN  /\ slot' \in IF leaves /\ decoded < MaxDecoded THEN Fetched
                   ELSE IF leaves THEN {NoInstr} ELSE {slot}
      /\ decoded' = decoded + (IF dec_i0_decode_d(go, cut) THEN 1 ELSE 0)
      /\ vpu_stall_ff' = CORE_HALT

own(p) == p.by = "vec" /\ p.data[1] = VPU_sb_id

(* Petitions of the instruction that leave the pipe without an effect. *)
dropped(cut, hit, error) ==
  {s \in Stages : own(dc[s]) /\ ~survives(s, cut)}
  \cup {s \in {0} : petition /\ cut # 0}
  \cup {s \in {6} : hit /\ own(dc[2])}
  \cup {s \in {7} : error}

SwHistory(go, cut, hit, error) ==
  LET issued == VPU_ISSUE(core_issue_valid(go, cut))
  IN  /\ served' = IF issued THEN 0 ELSE IF petition THEN served + 1 ELSE served
      /\ stored' = IF issued THEN 0
                   ELSE IF own(dc[5]) /\ dc[5].op = "store" /\ survives(5, cut)
                        THEN stored + 1 ELSE stored
      /\ lost' = IF issued THEN 0 ELSE lost + Cardinality(dropped(cut, hit, error))
      /\ mishaps' = mishaps + Cardinality({cut # 0, hit /\ own(dc[2]), error} \cap {TRUE})

Edge(go, dma, cut, hit, block, ans, error) ==
  LET valid == core_issue_valid(go, cut)
      issued == VPU_ISSUE(valid)
  IN  /\ PipeEdge(go, dma, cut, hit, block)
      /\ BusEdge(cut, block, ans, error)
      /\ OviEdge([valid |-> valid, issue |-> slot.vec], core_response(go, cut), VpuBus)
      /\ VpuEdge(issued, slot.vec, sbid_counter, ChunkElements(vpu_instr.sew),
                 vpu_send_store_credit, sync_end)
      /\ DecodeEdge(go, cut)
      /\ SwHistory(go, cut, hit, error)

SwInit ==
  /\ OviInit /\ VpuInit(NoData)
  /\ slot = NoInstr
  /\ vpu_stall_ff = FALSE
  /\ dc = [s \in Stages |-> NoPacket]
  /\ ld_freeze_dc3 = FALSE
  /\ bus = <<>>
  /\ answer = NoPacket
  /\ lsu_stbuf_full_any = FALSE
  /\ served = 0 /\ stored = 0 /\ lost = 0
  /\ decoded = 0 /\ mishaps = 0

(* The inputs, each with the values that can make a difference. *)
Cuts == IF mishaps < MaxMishaps THEN {0, 4, 5} ELSE {0}
waits_for_scalar_loads == ScalarDrained /\ slot.vec.kind = "load" /\ open_scalar_loads
Goes == Choice(slot.op # "none" /\ ~vpu_stall /\ ~waits_for_scalar_loads)
Hits(cut) == Choice(/\ dc[2].op = "load" /\ cut = 0 /\ ~ld_freeze_dc3
                    /\ dc[2].by = "core" \/ mishaps < MaxMishaps)
Blocks(cut) == Choice(dc[2].by = "core" /\ cut = 0 /\ ~ld_freeze_dc3)
Errors == Choice(bus # <<>> /\ Head(bus).by = "vec" /\ mishaps < MaxMishaps)

SwNext ==
  \E cut \in Cuts, go \in Goes, ans \in Choice(bus # <<>>) :
    \E dma \in Choice(dccm_ready(go, cut)), hit \in Hits(cut), block \in Blocks(cut),
       error \in IF ans THEN Errors ELSE {FALSE} :
      Edge(go, dma, cut, hit, block, ans, error)

SwSpec == SwInit /\ [][SwNext]_swVars

(* The clock runs, the store buffer drains in the end, and the bus answers. *)
FairSwSpec ==
  /\ SwSpec /\ WF_swVars(SwNext)
  /\ []<>~lsu_stbuf_full_any
  /\ []<>(bus = <<>> \/ answer # NoPacket)

-----------------------------------------------------------------------------
(* Bridge, VPU, decode, pipe and bus keep to their types; the bus holds loads only. *)
SwTypeOK ==
  /\ OviTypeOK /\ VpuTypeOK
  /\ slot \in Fetched
  /\ dc \in [Stages -> [by : {"none", "core", "vec"}, op : {"none", "load", "store"},
                        data : (0..SbIds - 1) \X Nat]]
  /\ {vpu_stall_ff, ld_freeze_dc3} \subseteq BOOLEAN
  /\ \A k \in DOMAIN bus : bus[k].by \in {"core", "vec", "freeze"}
  /\ {served, stored, lost} \subseteq Nat

vector_op == instr.kind \in {"load", "store"}

(* Decode counts a vector instruction as issued when it leaves the slot
   (dec_decode_ctl.sv, core_issue.valid) and never hears from the bridge: the
   bridge must take it in that very cycle, and the VPU be idle.  The stall of
   decode, one cycle of the bridge and one of a register, sees to it. *)
VectorTakenWhenDecoded ==
  \A go \in BOOLEAN, cut \in {0, 4, 5} :
    core_issue_valid(go, cut) => VPU_ISSUE(TRUE) /\ vpu_state = "IDLE"

(* Where the petitions of the instruction are. *)
in_pipe == Cardinality({s \in Stages : own(dc[s])})
on_bus == Cardinality({k \in DOMAIN bus : own(bus[k])})
just_answered == IF own(answer) THEN 1 ELSE 0

(* A petition has no handshake and takes the place of whatever else would enter
   dc1 (swerv.sv lsu_p, lsu_lsc_ctl.sv lsu_pkt_dc1_in): no scalar load and no DMA
   access takes its place either, so each petition is in the pipe, on the bus,
   answered, committed, or was taken out by a flush, an error or a hit. *)
PetitionsAccounted ==
  vector_op =>
    /\ served = in_pipe + on_bus + just_answered + load_packets + stored + lost
    /\ served <= n_packets
    /\ vpu_completed => served = n_packets

(* The bridge assigns answers to packets by counting them (ovi.sv SEND_DATA): the
   elements it hands to the VPU are the ones of the packets they are named for. *)
LoadedDataIsOwn ==
  buffer_load_ready /\ lost = 0 =>
    LET first == (el_id * instrbits(instr.sew)) \div PacketBits
        count == (el_count * instrbits(instr.sew)) \div PacketBits
    IN  \A s \in 0..count - 1 : BUFFER_LOAD[s] = <<VPU_sb_id, first + s>>

(* "Only if its vec....": the data of load_valid is data of a vector load. *)
AnswersAreVectorData ==
  curr_state = "SEND_DATA" => answer.by # "core"

(* A vector instruction comes to its end, and decode goes on, unless a petition
   was lost: then a load waits for ever, and decode with it. *)
VectorEnds == (curr_state # "WAIT_ISSUE") ~> (curr_state = "WAIT_ISSUE" \/ lost > 0)
=============================================================================
