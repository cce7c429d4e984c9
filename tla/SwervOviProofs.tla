--------------------------- MODULE SwervOviProofs ---------------------------
(*************************************************************************)
(* Theorems about the bridge in the SweRV core, for every width, depth,  *)
(* number of credits, program and delay of the VPU, whatever becomes of  *)
(* the petitions: bridge and VPU stay in lockstep, no petition           *)
(* disappears, and a load gives the VPU the data of its own packets.     *)
(* The last two ask for a core that drains its scalar loads before a     *)
(* vector load (LoadsAreDrained): this core does not, and the run of     *)
(* SwervOvi with ScalarDrained = FALSE shows what comes of it.           *)
(*************************************************************************)
EXTENDS SwervOvi, OviProofs, FiniteSetTheorems, FunctionTheorems

-----------------------------------------------------------------------------
(* The inductive invariant.                                                  *)

(* What the argument needs of the types. *)
Typed ==
  /\ curr_state \in OviStates /\ issue_credits \in 0..15 /\ instr.kind \in Kinds
  /\ slot.vec.kind \in Kinds
  /\ vpu_state \in {"IDLE", "BUSY", "MEMORY", "DRAIN"}

(* Bridge and VPU in lockstep: the two leave their waits on pulses that last one
   cycle, and neither misses one. *)
InStep ==
  /\ curr_state # "WAIT_ISSUE" => vpu_instr = instr
  /\ vpu_state = "IDLE" =>
       /\ curr_state = IF vpu_completed THEN "WAIT_ANSWER" ELSE "WAIT_ISSUE"
       /\ ~vpu_sync_start /\ ~sync_end
  /\ vpu_state \in {"BUSY", "DRAIN"} =>
       /\ curr_state = "WAIT_ANSWER"
       /\ ~vpu_completed /\ ~vpu_sync_start /\ ~sync_end
  /\ vpu_state = "MEMORY" =>
       /\ vector_op /\ ~vpu_completed /\ ~(vpu_sync_start /\ sync_end)
       /\ curr_state = IF vpu_sync_start \/ sync_end THEN "WAIT_ANSWER" ELSE memory_state

SwIInv == Typed /\ InStep

(* The parts of a clock edge that matter here; resp and go, cut are inputs. *)
Bridge(go, cut) ==
  OviEdge([valid |-> core_issue_valid(go, cut), issue |-> slot.vec], core_response(go, cut), VpuBus)
Coprocessor(go, cut) ==
  VpuEdge(VPU_ISSUE(core_issue_valid(go, cut)), slot.vec, sbid_counter,
          ChunkElements(vpu_instr.sew), vpu_send_store_credit, sync_end)

LEMMA NextIsEdge ==
  ASSUME SwNext
  PROVE  \E go, cut : Bridge(go, cut) /\ Coprocessor(go, cut) /\ DecodeEdge(go, cut)
BY DEF SwNext, Edge, Bridge, Coprocessor

-----------------------------------------------------------------------------
(* The bridge, state by state.                                               *)

LEMMA BridgeIssues ==
  ASSUME NEW go, NEW cut, Bridge(go, cut), VPU_ISSUE(core_issue_valid(go, cut))
  PROVE  curr_state' = "WAIT_ANSWER" /\ instr' = slot.vec /\ ~sync_end'
BY DEF Bridge, OviEdge, VpuBus, Idle, Issue, Answer, ReceiveData, SendData, VPU_ISSUE, NoPulses

LEMMA BridgeIdles ==
  ASSUME NEW go, NEW cut, Bridge(go, cut), ~VPU_ISSUE(core_issue_valid(go, cut)),
         curr_state = "WAIT_ISSUE"
  PROVE  curr_state' = "WAIT_ISSUE" /\ instr' = instr /\ ~sync_end'
BY DEF Bridge, OviEdge, VpuBus, Idle, Issue, Answer, ReceiveData, SendData, NoPulses

LEMMA BridgeWaits ==
  ASSUME NEW go, NEW cut, Bridge(go, cut), curr_state = "WAIT_ANSWER"
  PROVE  /\ instr' = instr /\ sync_end' = FALSE
         /\ curr_state' = IF vpu_completed THEN "WAIT_ISSUE"
                          ELSE IF vpu_sync_start THEN memory_state ELSE "WAIT_ANSWER"
<1>1. Answer(vpu_completed, vpu_sync_start, vpu_credit)
  BY DEF Bridge, OviEdge, VpuBus, Idle, Issue, ReceiveData, SendData, VPU_ISSUE
<1> QED
  BY <1>1 DEF Answer, NoPulses, StartMemory

(* In a memory state the bridge raises sync_end exactly when it leaves. *)
LEMMA BridgeMoves ==
  ASSUME NEW go, NEW cut, Bridge(go, cut), curr_state \in {"RECEIVE_DATA", "SEND_DATA"}
  PROVE  /\ instr' = instr /\ sync_end' \in BOOLEAN
         /\ curr_state' = IF sync_end' THEN "WAIT_ANSWER" ELSE curr_state
<1>1. \/ ReceiveData(core_response(go, cut).ready, vpu_store_valid, vpu_store_data, vpu_credit)
      \/ SendData(core_response(go, cut).ready, core_response(go, cut).valid,
                  core_response(go, cut).data, vpu_credit)
  BY DEF Bridge, OviEdge, VpuBus, Idle, Issue, Answer, VPU_ISSUE
<1> QED
  BY <1>1 DEF ReceiveData, SendData

LEMMA BridgeCredits ==
  ASSUME NEW go, NEW cut, Bridge(go, cut), issue_credits \in 0..15
  PROVE  issue_credits' \in 0..15
<1>1. Credits(VPU_ISSUE(core_issue_valid(go, cut)), vpu_credit)
  BY DEF Bridge, OviEdge, VpuBus, Idle, Issue, Answer, ReceiveData, SendData, VPU_ISSUE
<1>2. VPU_ISSUE(core_issue_valid(go, cut)) => issue_credits > 0
  BY DEF VPU_ISSUE
<1> QED
  BY <1>1, <1>2 DEF Credits

-----------------------------------------------------------------------------
(* A clock edge.                                                             *)

LEMMA SlotStep ==
  ASSUME NEW go, NEW cut, DecodeEdge(go, cut), Typed
  PROVE  slot'.vec.kind \in Kinds
<1>1. slot' \in Fetched \/ slot' = slot
  BY DEF DecodeEdge, Fetched
<1>2. \A s \in Fetched : s.vec.kind \in Kinds
  <2>1. NoInstr.vec.kind \in Kinds /\ [NoInstr EXCEPT !.op = "load"].vec.kind \in Kinds
    BY DEF NoInstr, Kinds
  <2>2. \A s \in [op : {"vector"}, vec : VectorInstrs] : s.vec.kind \in Kinds
    BY SwervOviAssumption DEF Instructions
  <2> QED
    BY <2>1, <2>2 DEF Fetched
<1> QED
  BY <1>1, <1>2 DEF Typed

LEMMA InStepStep ==
  ASSUME SwIInv, NEW go, NEW cut, Bridge(go, cut), Coprocessor(go, cut)
  PROVE  InStep' /\ instr'.kind \in Kinds /\ curr_state' \in OviStates
         /\ vpu_state' \in {"IDLE", "BUSY", "MEMORY", "DRAIN"}
<1> DEFINE issued == VPU_ISSUE(core_issue_valid(go, cut))
<1>1. Typed /\ InStep
  BY DEF SwIInv
<1>2. CASE issued
  <2>1. VpuAccept(issued, slot.vec, sbid_counter)
    BY <1>2 DEF Coprocessor, VpuEdge, VpuIdle, VpuWait, VpuComplete, VpuStartMemory, VpuMemory
  <2>2. /\ vpu_state' = "BUSY" /\ vpu_instr' = slot.vec
        /\ ~vpu_completed' /\ ~vpu_sync_start'
    BY <2>1 DEF VpuAccept, Silent
  <2> QED
    BY <1>1, <1>2, <2>2, BridgeIssues DEF InStep, Typed, OviStates
<1>3. CASE ~issued /\ vpu_state = "IDLE"
  <2>1. VpuIdle(issued)
    BY <1>3 DEF Coprocessor, VpuEdge, VpuAccept, VpuWait, VpuComplete, VpuStartMemory, VpuMemory
  <2>2. vpu_state' = "IDLE" /\ ~vpu_completed' /\ ~vpu_sync_start'
    BY <1>3, <2>1 DEF VpuIdle, Silent
  <2>3. curr_state' = "WAIT_ISSUE" /\ instr' = instr /\ ~sync_end'
    BY <1>1, <1>3, BridgeIdles, BridgeWaits DEF InStep
  <2> QED
    BY <1>1, <2>2, <2>3 DEF InStep, Typed, OviStates
<1>4. CASE ~issued /\ vpu_state \in {"BUSY", "DRAIN"}
  <2>1. curr_state' = "WAIT_ANSWER" /\ instr' = instr /\ ~sync_end' /\ vpu_instr = instr
    BY <1>1, <1>4, BridgeWaits DEF InStep
  <2>2. VpuWait(issued) \/ VpuComplete(issued) \/ VpuStartMemory(issued)
    BY <1>4 DEF Coprocessor, VpuEdge, VpuAccept, VpuIdle, VpuMemory
  <2>3. CASE VpuWait(issued)
    <3>1. /\ vpu_state' = vpu_state /\ vpu_instr' = vpu_instr
          /\ ~vpu_completed' /\ ~vpu_sync_start'
      BY <2>3 DEF VpuWait, Silent
    <3> QED
      BY <1>1, <1>4, <2>1, <3>1 DEF InStep, Typed, OviStates
  <2>4. CASE VpuComplete(issued)
    <3>1. /\ vpu_state' = "IDLE" /\ vpu_instr' = vpu_instr
          /\ vpu_completed' /\ ~vpu_sync_start'
      BY <2>4 DEF VpuComplete
    <3> QED
      BY <1>1, <2>1, <3>1 DEF InStep, Typed, OviStates
  <2>5. CASE VpuStartMemory(issued)
    <3>1. /\ vpu_state' = "MEMORY" /\ vpu_instr' = vpu_instr
          /\ ~vpu_completed' /\ vpu_sync_start' /\ vpu_instr.kind # "arith"
      BY <2>5 DEF VpuStartMemory
    <3>2. vector_op'
      BY <1>1, <2>1, <3>1 DEF vector_op, Typed, Kinds
    <3> QED
      BY <1>1, <2>1, <3>1, <3>2 DEF InStep, Typed, OviStates
  <2> QED
    BY <2>2, <2>3, <2>4, <2>5
<1>5. CASE ~issued /\ vpu_state = "MEMORY"
  <2>1. /\ vpu_instr = instr /\ vector_op /\ ~vpu_completed /\ ~(vpu_sync_start /\ sync_end)
        /\ curr_state = IF vpu_sync_start \/ sync_end THEN "WAIT_ANSWER" ELSE memory_state
        /\ memory_state \in {"RECEIVE_DATA", "SEND_DATA"}
    BY <1>1, <1>5 DEF InStep, vector_op, memory_state
  <2>2. VpuMemory(issued, ChunkElements(vpu_instr.sew), vpu_send_store_credit, sync_end)
    BY <1>5 DEF Coprocessor, VpuEdge, VpuAccept, VpuIdle, VpuWait, VpuComplete, VpuStartMemory
  <2>3. /\ vpu_state' = (IF sync_end THEN "DRAIN" ELSE "MEMORY") /\ vpu_instr' = vpu_instr
        /\ ~vpu_completed' /\ ~vpu_sync_start'
    BY <1>5, <2>2 DEF VpuMemory
  <2>4. /\ instr' = instr /\ sync_end' \in BOOLEAN
        /\ curr_state' = IF sync_end \/ sync_end' THEN "WAIT_ANSWER" ELSE memory_state
        /\ sync_end => ~sync_end'
    <3>1. CASE sync_end
      BY <2>1, <3>1, BridgeWaits
    <3>2. CASE ~sync_end /\ vpu_sync_start
      BY <2>1, <3>2, BridgeWaits
    <3>3. CASE ~sync_end /\ ~vpu_sync_start
      BY <2>1, <3>3, BridgeMoves
    <3> QED
      BY <3>1, <3>2, <3>3
  <2>5. vector_op' /\ memory_state' = memory_state
    BY <2>1, <2>4 DEF vector_op, memory_state
  <2> QED
    BY <1>1, <2>1, <2>3, <2>4, <2>5 DEF InStep, Typed, OviStates
<1> QED
  BY <1>1, <1>2, <1>3, <1>4, <1>5 DEF Typed

LEMMA SwInitIInv == ASSUME SwInit PROVE SwIInv
<1>1. issue_credits \in 0..15
  BY OviAssumption DEF SwInit, OviInit
<1>2. curr_state = "WAIT_ISSUE" /\ instr.kind = "arith" /\ ~sync_end
  BY DEF SwInit, OviInit
<1>3. vpu_state = "IDLE" /\ ~vpu_completed /\ ~vpu_sync_start
  BY DEF SwInit, VpuInit
<1>4. slot.vec.kind = "arith"
  BY DEF SwInit, NoInstr
<1> QED
  BY <1>1, <1>2, <1>3, <1>4 DEF SwIInv, Typed, InStep, OviStates, Kinds

LEMMA SwNextIInv == ASSUME SwIInv, [SwNext]_swVars PROVE SwIInv'
<1>1. CASE SwNext
  <2>1. PICK go, cut : Bridge(go, cut) /\ Coprocessor(go, cut) /\ DecodeEdge(go, cut)
    BY <1>1, NextIsEdge
  <2>2. slot'.vec.kind \in Kinds /\ issue_credits' \in 0..15
    BY <2>1, SlotStep, BridgeCredits DEF SwIInv, Typed
  <2> QED
    BY <2>1, <2>2, InStepStep DEF SwIInv, Typed
<1>2. CASE UNCHANGED swVars
  BY <1>2 DEF swVars, oviVars, control, pulses, vpuVars, coreVars, SwIInv, Typed, InStep,
              vector_op, memory_state
<1> QED
  BY <1>1, <1>2

(* A vector instruction that decode lets go is taken by the bridge in that cycle,
   and the VPU is idle: the stall, one cycle of the bridge and one of a register,
   is enough for every number of credits and every delay of the VPU. *)
THEOREM DecodedIsTaken == SwSpec => []VectorTakenWhenDecoded
<1>1. SwIInv => VectorTakenWhenDecoded
  BY DEF SwIInv, Typed, InStep, VectorTakenWhenDecoded, core_issue_valid, dec_i0_decode_d,
         vpu_stall, CORE_HALT, VPU_ISSUE, vector_op, memory_state
<1>2. SwSpec => []SwIInv
  BY SwInitIInv, SwNextIInv, PTL DEF SwSpec
<1> QED
  BY <1>1, <1>2, PTL

-----------------------------------------------------------------------------
(* Types. *)

Packets == [by : {"none", "core", "vec", "freeze"}, op : {"none", "load", "store"},
            data : (0..SbIds - 1) \X Nat]

WellTyped ==
  /\ SwTypeOK
  /\ bus \in Seq(Packets) /\ answer \in Packets
  /\ \A s \in Stages : dc[s].by = "none" => dc[s] = NoPacket

(* A clock edge with its inputs. *)
Clock(go, dma, cut, hit, block, ans, error) ==
  /\ Edge(go, dma, cut, hit, block, ans, error)
  /\ cut \in {0, 4, 5} /\ {go, hit, block, ans, error} \subseteq BOOLEAN
  /\ go => ~vpu_stall /\ ~waits_for_scalar_loads
  /\ dma => dccm_ready(go, cut)
  /\ hit => dc[2].op = "load" /\ cut = 0 /\ ~ld_freeze_dc3
  /\ block => dc[2].by = "core" /\ cut = 0 /\ ~ld_freeze_dc3
  /\ ans => bus # <<>>
  /\ error => ans /\ Head(bus).by = "vec"

LEMMA NextIsClock ==
  ASSUME SwNext
  PROVE  \E go, dma, cut, hit, block, ans, error : Clock(go, dma, cut, hit, block, ans, error)
<1>1. PICK cut \in Cuts, go \in Goes, ans \in Choice(bus # <<>>) :
        \E dma \in Choice(dccm_ready(go, cut)), hit \in Hits(cut), block \in Blocks(cut),
           error \in IF ans THEN Errors ELSE {FALSE} :
          Edge(go, dma, cut, hit, block, ans, error)
  BY DEF SwNext
<1>2. PICK dma \in Choice(dccm_ready(go, cut)), hit \in Hits(cut), block \in Blocks(cut),
           error \in IF ans THEN Errors ELSE {FALSE} :
        Edge(go, dma, cut, hit, block, ans, error)
  BY <1>1
<1>3. cut \in {0, 4, 5}
  BY DEF Cuts
<1>4. go \in BOOLEAN /\ (go => ~vpu_stall /\ ~waits_for_scalar_loads)
  BY DEF Goes, Choice
<1>5. ans \in BOOLEAN /\ (ans => bus # <<>>)
  BY DEF Choice
<1>6. dma => dccm_ready(go, cut)
  BY DEF Choice
<1>7. hit \in BOOLEAN /\ (hit => dc[2].op = "load" /\ cut = 0 /\ ~ld_freeze_dc3)
  BY DEF Hits, Choice
<1>8. block \in BOOLEAN /\ (block => dc[2].by = "core" /\ cut = 0 /\ ~ld_freeze_dc3)
  BY DEF Blocks, Choice
<1>9. error \in BOOLEAN /\ (error => ans /\ Head(bus).by = "vec")
  BY <1>5 DEF Errors, Choice
<1>10. Clock(go, dma, cut, hit, block, ans, error)
  BY <1>2, <1>3, <1>4, <1>5, <1>6, <1>7, <1>8, <1>9 DEF Clock
<1> QED
  BY <1>10

(* Where the packets go: a petition is taken whenever it is there, unless the pipe
   is held; a flush empties dc1 to dc4.                                          *)
LEMMA PacketsMove ==
  ASSUME NEW go, NEW dma, NEW cut, NEW hit, NEW block, NEW ans, NEW error,
         Clock(go, dma, cut, hit, block, ans, error)
  PROVE  LET frozen == ld_freeze_dc3 /\ cut = 0
         IN  /\ dc' \in [Stages -> {dc'[s] : s \in Stages}]
             /\ dc'[1] = IF frozen THEN dc[1]
                         ELSE IF cut = 0 /\ lsu_p_valid(go, cut) THEN lsu_p ELSE NoPacket
             /\ dc'[2] = IF frozen THEN dc[2] ELSE IF cut = 0 THEN dc[1] ELSE NoPacket
             /\ dc'[3] = IF frozen THEN dc[3]
                         ELSE IF cut # 0 \/ hit THEN NoPacket
                         ELSE IF block THEN [dc[2] EXCEPT !.op = "none"] ELSE dc[2]
             /\ dc'[4] = IF frozen \/ cut # 0 THEN NoPacket ELSE dc[3]
             /\ dc'[5] = IF cut = 0 THEN dc[4] ELSE NoPacket
             /\ ld_freeze_dc3' = IF frozen THEN answer.by # "freeze" ELSE block
<1> DEFINE frozen == ld_freeze_dc3 /\ cut = 0
<1>1. PipeEdge(go, dma, cut, hit, block) /\ cut \in {0, 4, 5}
  BY DEF Clock, Edge
<1>2. /\ lsu_freeze_dc3(cut) <=> frozen
      /\ \A s \in 0..4 : survives(s, cut) <=> cut = 0
  BY <1>1 DEF lsu_freeze_dc3, survives
<1>3. ~(lsu_p_valid(go, cut) /\ dma_dccm_req(go, dma, cut))
  BY DEF dma_dccm_req, dccm_ready
<1>4. dc1_in(go, dma, cut) = IF cut = 0 /\ lsu_p_valid(go, cut) THEN lsu_p ELSE NoPacket
  BY <1>2, <1>3 DEF dc1_in, Moved
<1>5. /\ Moved(dc[1], 1, cut) = IF cut = 0 THEN dc[1] ELSE NoPacket
      /\ Moved(dc[2], 2, cut) = IF cut = 0 THEN dc[2] ELSE NoPacket
      /\ Moved(dc[3], 3, cut) = IF cut = 0 THEN dc[3] ELSE NoPacket
      /\ Moved(dc[4], 4, cut) = IF cut = 0 THEN dc[4] ELSE NoPacket
  BY <1>2 DEF Moved
<1>6. hit => cut = 0
  BY DEF Clock
<1>7. block => cut = 0
  BY DEF Clock
<1>8. dc' = [s \in Stages |->
               CASE s = 1 -> IF frozen THEN dc[1] ELSE dc1_in(go, dma, cut)
                 [] s = 2 -> IF frozen THEN dc[2] ELSE Moved(dc[1], 1, cut)
                 [] s = 3 -> IF frozen THEN dc[3] ELSE Dc3(Moved(dc[2], 2, cut), hit, block)
                 [] s = 4 -> IF frozen THEN NoPacket ELSE Moved(dc[3], 3, cut)
                 [] OTHER -> Moved(dc[4], 4, cut)]
      /\ ld_freeze_dc3' = IF frozen THEN answer.by # "freeze" ELSE block
  BY <1>1, <1>2 DEF PipeEdge
<1> HIDE DEF frozen
<1>9. 1 \in Stages /\ 2 \in Stages /\ 3 \in Stages /\ 4 \in Stages /\ 5 \in Stages
  BY DEF Stages
<1>10. /\ dc'[1] = IF frozen THEN dc[1] ELSE dc1_in(go, dma, cut)
       /\ dc'[2] = IF frozen THEN dc[2] ELSE Moved(dc[1], 1, cut)
       /\ dc'[3] = IF frozen THEN dc[3] ELSE Dc3(Moved(dc[2], 2, cut), hit, block)
       /\ dc'[4] = IF frozen THEN NoPacket ELSE Moved(dc[3], 3, cut)
       /\ dc'[5] = Moved(dc[4], 4, cut)
  BY <1>8, <1>9
<1>11. Dc3(Moved(dc[2], 2, cut), hit, block) =
         IF cut # 0 \/ hit THEN NoPacket
         ELSE IF block THEN [dc[2] EXCEPT !.op = "none"] ELSE dc[2]
  BY <1>5, <1>6, <1>7 DEF Dc3
<1>12. dc' \in [Stages -> {dc'[s] : s \in Stages}]
  BY <1>8
<1> QED
  BY <1>4, <1>5, <1>8, <1>10, <1>11, <1>12 DEF frozen

LEMMA BridgeCases ==
  ASSUME NEW go, NEW dma, NEW cut, NEW hit, NEW block, NEW ans, NEW error,
         Clock(go, dma, cut, hit, block, ans, error)
  PROVE  LET v == core_issue_valid(go, cut)
             valid == answer.by \in {"core", "vec"}
         IN  \/ Idle(v, vpu_credit)
             \/ Issue(v, slot.vec, vpu_credit)
             \/ Answer(vpu_completed, vpu_sync_start, vpu_credit)
             \/ ReceiveData(dccm_ready(go, cut), vpu_store_valid, vpu_store_data, vpu_credit)
             \/ SendData(dccm_ready(go, cut), valid, answer.data, vpu_credit)
BY DEF Clock, Edge, OviEdge, core_response, VpuBus

-----------------------------------------------------------------------------
(* The types are kept. *)

LEMMA FetchedTyped ==
  ASSUME NEW s \in Fetched PROVE s.vec \in Instructions
<1>1. NoInstr.vec \in Instructions /\ [NoInstr EXCEPT !.op = "load"].vec \in Instructions
  BY DEF NoInstr, Instructions, Kinds, Sews
<1>2. \A t \in [op : {"vector"}, vec : VectorInstrs] : t.vec \in Instructions
  BY SwervOviAssumption
<1> QED
  BY <1>1, <1>2 DEF Fetched

LEMMA BridgeTyped ==
  ASSUME WellTyped, NEW go, NEW dma, NEW cut, NEW hit, NEW block, NEW ans, NEW error,
         Clock(go, dma, cut, hit, block, ans, error)
  PROVE  OviTypeOK' /\ VpuTypeOK'
<1> DEFINE core == [valid |-> core_issue_valid(go, cut), issue |-> slot.vec]
<1>1. OviTypeOK /\ VpuTypeOK /\ core.issue \in Instructions /\ VpuBus.credit \in BOOLEAN
  BY FetchedTyped DEF WellTyped, SwTypeOK, VpuTypeOK, VpuBus
<1>2. /\ OviEdge(core, core_response(go, cut), VpuBus)
      /\ VpuEdge(VPU_ISSUE(core_issue_valid(go, cut)), slot.vec, sbid_counter,
                 ChunkElements(vpu_instr.sew), vpu_send_store_credit, sync_end)
  BY DEF Clock, Edge
<1> HIDE DEF core
<1> QED
  BY <1>1, <1>2, OviTypeStep, VpuTypeStep

(* What the bus holds after the edge: the oldest load is answered, a load of dc5
   that is not killed joins, and so does a load that waits in dc3. *)
BusAnswered(ans) == IF ans THEN Tail(bus) ELSE bus
Joining(cut) == IF dc[5].op = "load" /\ cut # 5 THEN <<dc[5]>> ELSE <<>>
Blocking(block) == IF block THEN <<[NoPacket EXCEPT !.by = "freeze"]>> ELSE <<>>

LEMMA BusMoves ==
  ASSUME NEW go, NEW dma, NEW cut, NEW hit, NEW block, NEW ans, NEW error,
         Clock(go, dma, cut, hit, block, ans, error)
  PROVE  /\ bus' = (BusAnswered(ans) \o Joining(cut)) \o Blocking(block)
         /\ answer' = IF ans /\ ~error THEN Head(bus) ELSE NoPacket
<1>1. survives(5, cut) <=> cut # 5
  BY DEF survives, Clock
<1> QED
  BY <1>1 DEF Clock, Edge, BusEdge, BusAnswered, Joining, Blocking

LEMMA PacketTypes ==
  /\ NoPacket \in Packets /\ [NoPacket EXCEPT !.by = "freeze"] \in Packets
  /\ NoPacket.by = "none" /\ NoPacket.op = "none" /\ [NoPacket EXCEPT !.by = "freeze"].by = "freeze"
<1>1. 0 \in 0..SbIds - 1 /\ 0 \in Nat
  BY OviAssumption
<1> QED
  BY <1>1 DEF Packets, NoPacket

LEMMA PetitionTyped ==
  ASSUME WellTyped
  PROVE  /\ lsu_p \in Packets /\ lsu_p.by \in {"core", "vec"} /\ lsu_p.op \in {"load", "store"}
         /\ VPU_sb_id \in 0..SbIds - 1
<1>1. (sbid_counter - 1) % SbIds \in 0..SbIds - 1 /\ served \in Nat /\ 0 \in 0..SbIds - 1 /\ 0 \in Nat
  <2>1. sbid_counter - 1 \in Int /\ SbIds \in Nat \ {0}
    BY OviAssumption DEF WellTyped, SwTypeOK, OviTypeOK
  <2>2. (sbid_counter - 1) % SbIds \in 0..SbIds - 1
    BY <2>1, ModRange
  <2> QED
    BY <2>1, <2>2 DEF WellTyped, SwTypeOK
<1>2. VPU_sb_id \in 0..SbIds - 1
  BY <1>1 DEF VPU_sb_id
<1> QED
  BY <1>1, <1>2 DEF lsu_p, Packets

LEMMA PipeTyped ==
  ASSUME WellTyped, NEW go, NEW dma, NEW cut, NEW hit, NEW block, NEW ans, NEW error,
         Clock(go, dma, cut, hit, block, ans, error)
  PROVE  /\ dc' \in [Stages -> [by : {"none", "core", "vec"}, op : {"none", "load", "store"},
                                data : (0..SbIds - 1) \X Nat]]
         /\ ld_freeze_dc3' \in BOOLEAN
         /\ \A s \in Stages : dc'[s].by = "none" => dc'[s] = NoPacket
<1> DEFINE P == [by : {"none", "core", "vec"}, op : {"none", "load", "store"},
                 data : (0..SbIds - 1) \X Nat]
           Good(p) == p \in P /\ (p.by = "none" => p = NoPacket)
<1>1. Good(NoPacket)
  BY PacketTypes DEF Packets, NoPacket
<1>2. Good(lsu_p)
  BY PetitionTyped DEF Packets
<1>3. \A s \in Stages : Good(dc[s])
  BY DEF WellTyped, SwTypeOK
<1>4. block => Good([dc[2] EXCEPT !.op = "none"])
  <2>1. 2 \in Stages
    BY DEF Stages
  <2> QED
    BY <1>3, <2>1 DEF Clock
<1> HIDE DEF Good
<1>5. \A s \in Stages : Good(dc'[s])
  <2>1. 1 \in Stages /\ 2 \in Stages /\ 3 \in Stages /\ 4 \in Stages
    BY DEF Stages
  <2>2. Good(dc'[1]) /\ Good(dc'[2]) /\ Good(dc'[3]) /\ Good(dc'[4]) /\ Good(dc'[5])
    BY <1>1, <1>2, <1>3, <1>4, <2>1, PacketsMove
  <2>3. \A s \in Stages : s = 1 \/ s = 2 \/ s = 3 \/ s = 4 \/ s = 5
    BY DEF Stages
  <2> QED
    BY <2>2, <2>3
<1>6. dc' = [s \in Stages |-> dc'[s]]
  BY PacketsMove
<1>7. ld_freeze_dc3' \in BOOLEAN
  <2>1. block \in BOOLEAN /\ (answer.by # "freeze") \in BOOLEAN
    BY DEF Clock
  <2>2. ld_freeze_dc3' = (answer.by # "freeze") \/ ld_freeze_dc3' = block
    BY PacketsMove
  <2> QED
    BY <2>1, <2>2
<1> QED
  BY <1>5, <1>6, <1>7 DEF Good

LEMMA BusTyped ==
  ASSUME WellTyped, NEW go, NEW dma, NEW cut, NEW hit, NEW block, NEW ans, NEW error,
         Clock(go, dma, cut, hit, block, ans, error)
  PROVE  /\ bus' \in Seq(Packets) /\ answer' \in Packets
         /\ \A k \in DOMAIN bus' : bus'[k].by \in {"core", "vec", "freeze"}
<1> DEFINE L == {p \in Packets : p.by \in {"core", "vec", "freeze"}}
<1>1. bus \in Seq(Packets) /\ \A k \in DOMAIN bus : bus[k].by \in {"core", "vec", "freeze"}
  BY DEF WellTyped, SwTypeOK
<1>2. bus \in Seq(L)
  <2>1. \A k \in 1..Len(bus) : bus[k] \in L
    BY <1>1
  <2> QED
    BY <1>1, <2>1
<1>3. Joining(cut) \in Seq(L)
  <2> DEFINE p == dc[5]
  <2>1. ASSUME dc[5].op = "load" PROVE p \in L
    <3>1. 5 \in Stages
      BY DEF Stages
    <3>2. dc[5] \in Packets /\ dc[5].by \in {"none", "core", "vec"} /\ dc[5] # NoPacket
      BY <2>1, <3>1, PacketTypes DEF WellTyped, SwTypeOK, Packets
    <3>3. dc[5].by # "none"
      BY <3>1, <3>2 DEF WellTyped
    <3> QED
      BY <3>2, <3>3
  <2>2. <<>> \in Seq(L) /\ (p \in L => <<p>> \in Seq(L))
    <3> HIDE DEF p, L
    <3> QED
      OBVIOUS
  <2> QED
    BY <2>1, <2>2 DEF Joining
<1>4. Blocking(block) \in Seq(L)
  <2> DEFINE f == [NoPacket EXCEPT !.by = "freeze"]
  <2>1. f \in L
    BY PacketTypes
  <2> HIDE DEF f
  <2>2. <<f>> \in Seq(L) /\ <<>> \in Seq(L)
    BY <2>1
  <2> QED
    BY <2>2 DEF Blocking, f
<1>5. (ans => bus # <<>>) /\ BusAnswered(ans) \in Seq(L)
  BY <1>2 DEF BusAnswered, Clock
<1>6. bus' \in Seq(L)
  <2> HIDE DEF L
  <2>1. bus' = (BusAnswered(ans) \o Joining(cut)) \o Blocking(block)
    BY BusMoves
  <2>2. \A a, b \in Seq(L) : a \o b \in Seq(L)
    OBVIOUS
  <2> QED
    BY <1>3, <1>4, <1>5, <2>1, <2>2
<1>7. bus' \in Seq(Packets)
  <2>1. \A k \in 1..Len(bus') : bus'[k] \in L
    BY <1>6
  <2> QED
    BY <1>6, <2>1
<1>8. answer' \in Packets
  <2>1. bus # <<>> => Head(bus) \in Packets
    BY <1>1
  <2> QED
    BY <1>5, <2>1, PacketTypes, BusMoves
<1> QED
  BY <1>6, <1>7, <1>8

LEMMA DroppedFinite ==
  ASSUME NEW cut, NEW hit, NEW error
  PROVE  IsFiniteSet(dropped(cut, hit, error)) /\ Cardinality(dropped(cut, hit, error)) \in Nat
<1>1. dropped(cut, hit, error) \in SUBSET (0..7)
  BY DEF dropped, Stages
<1>2. IsFiniteSet(0..7)
  <2>1. 0 \in Int /\ 7 \in Int
    OBVIOUS
  <2> QED
    BY <2>1, FS_Interval
<1> QED
  BY <1>1, <1>2, FS_Subset, FS_CardinalityType

LEMMA WellTypedStep ==
  ASSUME WellTyped, [SwNext]_swVars PROVE WellTyped'
<1>1. CASE SwNext
  <2>1. PICK go, dma, cut, hit, block, ans, error : Clock(go, dma, cut, hit, block, ans, error)
    BY <1>1, NextIsClock
  <2>2. OviTypeOK' /\ VpuTypeOK'
    BY <2>1, BridgeTyped
  <2>3. slot' \in Fetched /\ vpu_stall_ff' \in BOOLEAN
    BY <2>1 DEF Clock, Edge, DecodeEdge, Fetched, WellTyped, SwTypeOK, CORE_HALT
  <2>4. {served', stored', lost'} \subseteq Nat
    <3>1. lost' \in Nat
      BY <2>1, DroppedFinite DEF Clock, Edge, SwHistory, WellTyped, SwTypeOK
    <3>2. served' \in {0, served, served + 1} /\ stored' \in {0, stored, stored + 1}
      BY <2>1 DEF Clock, Edge, SwHistory
    <3> QED
      BY <3>1, <3>2 DEF WellTyped, SwTypeOK
  <2>5. {vpu_stall_ff', ld_freeze_dc3'} \subseteq BOOLEAN
    BY <2>1, <2>3, PipeTyped
  <2> QED
    BY <2>1, <2>2, <2>3, <2>4, <2>5, PipeTyped, BusTyped DEF WellTyped, SwTypeOK
<1>2. CASE UNCHANGED swVars
  <2>1. OviTypeOK'
    BY <1>2 DEF swVars, oviVars, control, counters, pulses, buffers, OviTypeOK, WellTyped, SwTypeOK
  <2>2. VpuTypeOK'
    BY <1>2 DEF swVars, vpuVars, VpuTypeOK, WellTyped, SwTypeOK
  <2> QED
    BY <1>2, <2>1, <2>2 DEF swVars, coreVars, swHistory, WellTyped, SwTypeOK
<1> QED
  BY <1>1, <1>2

LEMMA WellTypedInit ==
  ASSUME SwInit PROVE WellTyped
<1>1. OviTypeOK
  <2>1. instr \in Instructions
    BY DEF SwInit, OviInit, Instructions, Kinds, Sews
  <2>2. issue_credits \in 0..15 /\ sbid_counter \in 0..SbIds - 1
    BY OviAssumption DEF SwInit, OviInit
  <2>3. /\ curr_state \in OviStates
        /\ n_packets \in Nat /\ sent_packets \in Nat /\ load_packets \in Nat
        /\ addr_offset \in Nat /\ el_id \in Nat /\ el_count \in Nat
        /\ buffer_store_index \in 0..63
    BY DEF SwInit, OviInit, OviStates
  <2>4. /\ DOMAIN BUFFER_LOAD = 0..SubPackets - 1
        /\ DOMAIN BUFFER_STORE = 0..StoreDepth - 1
    BY DEF SwInit, OviInit
  <2>5. /\ send_load_petition \in BOOLEAN /\ send_store_petition \in BOOLEAN
        /\ vpu_send_store_credit \in BOOLEAN
        /\ sync_end \in BOOLEAN /\ buffer_load_ready \in BOOLEAN
    BY DEF SwInit, OviInit
  <2> QED
    BY <2>1, <2>2, <2>3, <2>4, <2>5 DEF OviTypeOK
<1>2. VpuTypeOK
  <2>1. vpu_store_credits \in Int
    BY VpuAssumption DEF SwInit, VpuInit
  <2> QED
    BY <2>1 DEF SwInit, VpuInit, VpuTypeOK
<1>3. slot \in Fetched
  BY DEF SwInit, Fetched
<1>4. \A s \in Stages : dc[s] = NoPacket
  BY DEF SwInit
<1>5. dc \in [Stages -> [by : {"none", "core", "vec"}, op : {"none", "load", "store"},
                         data : (0..SbIds - 1) \X Nat]]
  BY PacketTypes DEF SwInit, NoPacket, Packets
<1>6. bus \in Seq(Packets) /\ DOMAIN bus = {} /\ answer \in Packets
  BY PacketTypes DEF SwInit
<1>7. vpu_stall_ff \in BOOLEAN /\ ld_freeze_dc3 \in BOOLEAN
  BY DEF SwInit
<1>8. served \in Nat /\ stored \in Nat /\ lost \in Nat
  BY DEF SwInit
<1> QED
  BY <1>1, <1>2, <1>3, <1>4, <1>5, <1>6, <1>7, <1>8 DEF WellTyped, SwTypeOK

(* Bridge, VPU, decode, pipe and bus keep to their types (ovi.sv, swerv.sv), for
   every width, program, and number of petitions under way. *)
THEOREM CoreTypeCorrect == SwSpec => []SwTypeOK
<1>1. SwSpec => []WellTyped
  BY WellTypedInit, WellTypedStep, PTL DEF SwSpec
<1>2. WellTyped => SwTypeOK
  BY DEF WellTyped
<1> QED
  BY <1>1, <1>2, PTL

-----------------------------------------------------------------------------
(* The petitions.  Of the packets of vectors in the pipe at most one is in dc1 to
   dc5, and it is far from the loads of the scalar program and from the petition
   that follows.                                                               *)

Apart ==
  /\ \A s, t \in Stages : dc[s].by = "vec" /\ dc[t].by = "vec" => s = t
  /\ petition => ~ld_freeze_dc3 /\ \A s \in 1..4 : dc[s] = NoPacket
  /\ (\E s \in 1..3 : dc[s].by = "vec") => ~ld_freeze_dc3 /\ \A s \in 1..3 : dc[s].by # "core"

(* How far the instruction of a packet has come when the packet is in dc1, dc2, dc3:
   the next one is not decoded before it is in dc4.                              *)
moving == vpu_state \in {"MEMORY", "DRAIN"} /\ ~vpu_sync_start
Phases ==
  /\ petition => vpu_state = "MEMORY" /\ ~vpu_sync_start
  /\ dc[1].by = "vec" => moving
  /\ dc[2].by = "vec" => moving \/ vpu_completed
  /\ dc[3].by = "vec" => moving \/ vpu_completed \/ (curr_state = "WAIT_ISSUE" /\ vpu_stall_ff)

(* Whose the packets are: those of the instruction in progress, but for a store of
   the one before, which is in dc5 in the first cycle of the next one.           *)
Owned ==
  /\ \A s \in Stages : dc[s].by = "vec" =>
       \/ /\ dc[s].data = <<VPU_sb_id, served - 1>> /\ dc[s].op = instr.kind
          /\ vpu_state # "BUSY" /\ ~vpu_sync_start
       \/ s = 5 /\ dc[5].op = "store" /\ vpu_state = "BUSY" /\ dc[5].data[1] # VPU_sb_id
  /\ \A k \in DOMAIN bus : bus[k].by = "vec" => own(bus[k])
  /\ answer.by = "vec" => own(answer)

(* Loads of the vector are under way only while the bridge waits for their data. *)
vector_loads ==
  \/ \E s \in Stages : dc[s].by = "vec" /\ dc[s].op = "load"
  \/ \E k \in DOMAIN bus : bus[k].by = "vec"
  \/ answer.by = "vec"
Awaited == vector_loads => curr_state = "SEND_DATA"

(* No scalar load is open while a vector load is in progress. *)
Drained == instr.kind = "load" /\ curr_state # "WAIT_ISSUE" => ~open_scalar_loads

on_core_bus == IF petition THEN 1 ELSE 0
Progress ==
  /\ curr_state # "WAIT_ISSUE" => n_packets = PacketsOf(instr) /\ instr \in VectorInstrs
  /\ curr_state = "WAIT_ISSUE" /\ vector_op => served = n_packets
  /\ vpu_state = "BUSY" \/ vpu_sync_start => served = 0 /\ sent_packets = 0 /\ load_packets = 0
  /\ curr_state \in {"RECEIVE_DATA", "SEND_DATA"} => sent_packets = served
  /\ curr_state = "RECEIVE_DATA" => served + on_core_bus < n_packets
  /\ curr_state = "SEND_DATA" => served + on_core_bus <= n_packets
  /\ vpu_state = "MEMORY" /\ sync_end => served + on_core_bus = n_packets
  /\ vpu_state = "DRAIN" => vector_op
  /\ vpu_state = "DRAIN" \/ (vpu_completed /\ vector_op) => served = n_packets
  /\ store_valid =>
       instr.kind = "store" /\ (curr_state = "RECEIVE_DATA" \/ (vpu_state = "MEMORY" /\ sync_end))

Accounted ==
  vector_op => served = in_pipe + on_bus + just_answered + load_packets + stored + lost

Petitions ==
  /\ WellTyped /\ SwIInv
  /\ Apart /\ Phases /\ Owned /\ Awaited /\ Drained /\ Progress /\ Accounted

(* What the theorems ask of the core and its program. *)
LoadsAreDrained == ScalarDrained = TRUE
TellsApart == SbIds > 1
WholePackets == \A i \in VectorInstrs : i.kind # "arith" => PacketsOf(i) > 0

-----------------------------------------------------------------------------
(* The machines at an edge. *)

(* Decode lets an instruction go only when nothing stalls or flushes it. *)
LEMMA Decodes ==
  ASSUME NEW go, NEW cut, dec_i0_decode_d(go, cut)
  PROVE  /\ curr_state = "WAIT_ISSUE" /\ ~vpu_stall_ff /\ cut = 0 /\ ~ld_freeze_dc3
         /\ go
BY DEF dec_i0_decode_d, vpu_stall, CORE_HALT, lsu_freeze_dc3

LEMMA Issues ==
  ASSUME SwIInv, WellTyped,
         NEW go, NEW dma, NEW cut, NEW hit, NEW block, NEW ans, NEW error,
         Clock(go, dma, cut, hit, block, ans, error),
         VPU_ISSUE(core_issue_valid(go, cut))
  PROVE  /\ curr_state = "WAIT_ISSUE" /\ ~vpu_stall_ff /\ cut = 0 /\ ~ld_freeze_dc3
         /\ vpu_state = "IDLE" /\ ~vpu_completed
         /\ slot.op = "vector" /\ slot.vec \in VectorInstrs
         /\ ScalarDrained = TRUE /\ slot.vec.kind = "load" => ~open_scalar_loads
         /\ vpu_state' = "BUSY" /\ ~vpu_completed' /\ ~vpu_sync_start'
         /\ instr' = slot.vec /\ curr_state' = "WAIT_ANSWER" /\ n_packets' = PacketsOf(slot.vec)
         /\ sent_packets' = 0 /\ load_packets' = 0 /\ sbid_counter' = (sbid_counter + 1) % SbIds
         /\ served' = 0 /\ stored' = 0 /\ lost' = 0
         /\ send_load_petition' = FALSE /\ send_store_petition' = FALSE /\ sync_end' = FALSE
         /\ buffer_load_ready' = FALSE
<1>1. core_issue_valid(go, cut) /\ curr_state = "WAIT_ISSUE"
  BY DEF VPU_ISSUE
<1>2. dec_i0_decode_d(go, cut) /\ slot.op = "vector"
  BY <1>1 DEF core_issue_valid
<1>3. /\ ~vpu_stall_ff /\ cut = 0 /\ ~ld_freeze_dc3 /\ go
  BY <1>2, Decodes
<1>4. vpu_state = "IDLE" /\ ~vpu_completed
  BY <1>1 DEF SwIInv, Typed, InStep, vector_op, memory_state
<1>5. slot.vec \in VectorInstrs
  <2>1. slot \in Fetched
    BY DEF WellTyped, SwTypeOK
  <2>2. NoInstr.op = "none" /\ [NoInstr EXCEPT !.op = "load"].op = "load"
    BY DEF NoInstr
  <2>3. slot \in [op : {"vector"}, vec : VectorInstrs]
    BY <1>2, <2>1, <2>2 DEF Fetched
  <2> QED
    BY <2>3
<1>6. ScalarDrained = TRUE /\ slot.vec.kind = "load" => ~open_scalar_loads
  BY <1>3 DEF Clock, waits_for_scalar_loads
<1>7. VpuAccept(VPU_ISSUE(core_issue_valid(go, cut)), slot.vec, sbid_counter)
  BY DEF Clock, Edge, VpuEdge, VpuIdle, VpuWait, VpuComplete, VpuStartMemory, VpuMemory
<1>8. vpu_state' = "BUSY" /\ ~vpu_completed' /\ ~vpu_sync_start'
  BY <1>7 DEF VpuAccept, Silent
<1>9. Issue(core_issue_valid(go, cut), slot.vec, vpu_credit)
  BY <1>1, BridgeCases DEF Idle, Answer, ReceiveData, SendData
<1>10. served' = 0 /\ stored' = 0 /\ lost' = 0
  BY DEF Clock, Edge, SwHistory
<1> QED
  BY <1>1, <1>2, <1>3, <1>4, <1>5, <1>6, <1>8, <1>9, <1>10 DEF Issue, NoPulses, next_sb_id

(* Without an issue bridge and VPU keep the instruction, ... *)
LEMMA Keeps ==
  ASSUME WellTyped, NEW go, NEW dma, NEW cut, NEW hit, NEW block, NEW ans, NEW error,
         Clock(go, dma, cut, hit, block, ans, error),
         ~VPU_ISSUE(core_issue_valid(go, cut))
  PROVE  /\ UNCHANGED <<instr, n_packets, sbid_counter>>
         /\ served' = served + on_core_bus
         /\ lost' = lost + Cardinality(dropped(cut, hit, error))
         /\ stored' = IF own(dc[5]) /\ dc[5].op = "store" /\ cut # 5 THEN stored + 1 ELSE stored
<1>1. UNCHANGED <<instr, n_packets, sbid_counter>>
  BY BridgeCases DEF Idle, Issue, Answer, ReceiveData, SendData, counters
<1>2. survives(5, cut) <=> cut # 5
  BY DEF survives, Clock
<1>3. SwHistory(go, cut, hit, error)
  BY DEF Clock, Edge
<1>4. served \in Nat
  BY DEF WellTyped, SwTypeOK
<1> QED
  BY <1>1, <1>2, <1>3, <1>4 DEF SwHistory, on_core_bus

(* ... the VPU goes on, and the bridge with it, ... *)
LEMMA Turns ==
  ASSUME SwIInv, NEW go, NEW dma, NEW cut, NEW hit, NEW block, NEW ans, NEW error,
         Clock(go, dma, cut, hit, block, ans, error),
         ~VPU_ISSUE(core_issue_valid(go, cut))
  PROVE  /\ vpu_state = "IDLE" =>
              vpu_state' = "IDLE" /\ ~vpu_completed' /\ ~vpu_sync_start' /\ curr_state' = "WAIT_ISSUE"
         /\ vpu_state = "BUSY" =>
              /\ curr_state' = "WAIT_ANSWER"
              /\ \/ vpu_state' = "BUSY" /\ ~vpu_completed' /\ ~vpu_sync_start'
                 \/ vpu_state' = "IDLE" /\ vpu_completed' /\ ~vpu_sync_start' /\ instr.kind = "arith"
                 \/ vpu_state' = "MEMORY" /\ ~vpu_completed' /\ vpu_sync_start'
         /\ vpu_state = "DRAIN" =>
              /\ curr_state' = "WAIT_ANSWER" /\ ~vpu_sync_start'
              /\ \/ vpu_state' = "DRAIN" /\ ~vpu_completed'
                 \/ vpu_state' = "IDLE" /\ vpu_completed'
         /\ vpu_state = "MEMORY" =>
              /\ vpu_state' = (IF sync_end THEN "DRAIN" ELSE "MEMORY")
              /\ ~vpu_completed' /\ ~vpu_sync_start'
<1> DEFINE issued == VPU_ISSUE(core_issue_valid(go, cut))
<1>0. Bridge(go, cut) /\ Coprocessor(go, cut) /\ Typed /\ InStep
  BY DEF Clock, Edge, Bridge, Coprocessor, SwIInv
<1>1. ASSUME vpu_state = "IDLE"
      PROVE  vpu_state' = "IDLE" /\ ~vpu_completed' /\ ~vpu_sync_start' /\ curr_state' = "WAIT_ISSUE"
  <2>1. VpuIdle(issued)
    BY <1>0, <1>1 DEF Coprocessor, VpuEdge, VpuAccept, VpuWait, VpuComplete, VpuStartMemory, VpuMemory
  <2>2. vpu_state' = "IDLE" /\ ~vpu_completed' /\ ~vpu_sync_start'
    BY <1>1, <2>1 DEF VpuIdle, Silent
  <2> QED
    BY <1>0, <1>1, <2>2, BridgeIdles, BridgeWaits DEF InStep
<1>2. ASSUME vpu_state \in {"BUSY", "DRAIN"}
      PROVE  /\ curr_state' = "WAIT_ANSWER"
             /\ \/ vpu_state' = vpu_state /\ ~vpu_completed' /\ ~vpu_sync_start'
                \/ /\ vpu_state = "DRAIN" \/ instr.kind = "arith"
                   /\ vpu_state' = "IDLE" /\ vpu_completed' /\ ~vpu_sync_start'
                \/ vpu_state = "BUSY" /\ vpu_state' = "MEMORY" /\ ~vpu_completed' /\ vpu_sync_start'
  <2>1. curr_state' = "WAIT_ANSWER" /\ vpu_instr = instr
    BY <1>0, <1>2, BridgeWaits DEF InStep
  <2>2. VpuWait(issued) \/ VpuComplete(issued) \/ VpuStartMemory(issued)
    BY <1>0, <1>2 DEF Coprocessor, VpuEdge, VpuAccept, VpuIdle, VpuMemory
  <2> QED
    BY <2>1, <2>2 DEF VpuWait, VpuComplete, VpuStartMemory, Silent
<1>3. ASSUME vpu_state = "MEMORY"
      PROVE  /\ vpu_state' = (IF sync_end THEN "DRAIN" ELSE "MEMORY")
             /\ ~vpu_completed' /\ ~vpu_sync_start'
  <2>1. VpuMemory(issued, ChunkElements(vpu_instr.sew), vpu_send_store_credit, sync_end)
    BY <1>0, <1>3 DEF Coprocessor, VpuEdge, VpuAccept, VpuIdle, VpuWait, VpuComplete, VpuStartMemory
  <2> QED
    BY <1>3, <2>1 DEF VpuMemory
<1>4. vpu_state = "BUSY" => vpu_state \in {"BUSY", "DRAIN"} /\ vpu_state # "DRAIN"
  OBVIOUS
<1>5. vpu_state = "DRAIN" => vpu_state \in {"BUSY", "DRAIN"} /\ vpu_state # "BUSY"
  OBVIOUS
<1> QED
  BY <1>1, <1>2, <1>3, <1>4, <1>5

(* ... in its waits without a pulse, ... *)
LEMMA AtRest ==
  ASSUME NEW go, NEW dma, NEW cut, NEW hit, NEW block, NEW ans, NEW error,
         Clock(go, dma, cut, hit, block, ans, error),
         ~VPU_ISSUE(core_issue_valid(go, cut)),
         curr_state \in {"WAIT_ISSUE", "WAIT_ANSWER"}
  PROVE  /\ send_load_petition' = FALSE /\ send_store_petition' = FALSE
         /\ sync_end' = FALSE /\ buffer_load_ready' = FALSE
         /\ UNCHANGED <<sent_packets, load_packets, el_id, el_count, BUFFER_LOAD>>
         /\ curr_state = "WAIT_ISSUE" => curr_state' = "WAIT_ISSUE"
         /\ curr_state = "WAIT_ANSWER" =>
              curr_state' = IF vpu_completed THEN "WAIT_ISSUE"
                            ELSE IF vpu_sync_start THEN memory_state ELSE "WAIT_ANSWER"
<1>1. \/ Idle(core_issue_valid(go, cut), vpu_credit)
      \/ Answer(vpu_completed, vpu_sync_start, vpu_credit)
  BY BridgeCases DEF Issue, ReceiveData, SendData
<1> QED
  BY <1>1 DEF Idle, Answer, NoPulses, counters, buffers, StartMemory

LEMMA Receives ==
  ASSUME NEW go, NEW dma, NEW cut, NEW hit, NEW block, NEW ans, NEW error,
         Clock(go, dma, cut, hit, block, ans, error), curr_state = "RECEIVE_DATA"
  PROVE  /\ ~VPU_ISSUE(core_issue_valid(go, cut))
         /\ ReceiveData(dccm_ready(go, cut), vpu_store_valid, vpu_store_data, vpu_credit)
<1>1. ReceiveData(dccm_ready(go, cut), vpu_store_valid, vpu_store_data, vpu_credit)
  BY BridgeCases DEF Idle, Issue, Answer, SendData, VPU_ISSUE
<1> QED
  BY <1>1 DEF VPU_ISSUE

LEMMA Sends ==
  ASSUME NEW go, NEW dma, NEW cut, NEW hit, NEW block, NEW ans, NEW error,
         Clock(go, dma, cut, hit, block, ans, error), curr_state = "SEND_DATA"
  PROVE  /\ ~VPU_ISSUE(core_issue_valid(go, cut))
         /\ SendData(dccm_ready(go, cut), answer.by \in {"core", "vec"}, answer.data, vpu_credit)
<1>1. SendData(dccm_ready(go, cut), answer.by \in {"core", "vec"}, answer.data, vpu_credit)
  BY BridgeCases DEF Idle, Issue, Answer, ReceiveData, VPU_ISSUE
<1> QED
  BY <1>1 DEF VPU_ISSUE

(* ... and in a memory state raises a petition only when the pipe takes one. *)
LEMMA Petitions1 ==
  ASSUME SwIInv, NEW go, NEW dma, NEW cut, NEW hit, NEW block, NEW ans, NEW error,
         Clock(go, dma, cut, hit, block, ans, error), petition'
  PROVE  /\ curr_state \in {"RECEIVE_DATA", "SEND_DATA"} /\ dccm_ready(go, cut)
         /\ vpu_state = "MEMORY" /\ ~vpu_sync_start /\ ~sync_end
<1>1. send_load_petition' \/ send_store_petition'
  BY DEF petition, load_valid, store_valid
<1>2. dccm_ready(go, cut) /\ curr_state \in {"RECEIVE_DATA", "SEND_DATA"}
  BY <1>1, BridgeCases DEF Idle, Issue, Answer, NoPulses, ReceiveData, SendData
<1> QED
  BY <1>2 DEF SwIInv, Typed, InStep

(* In a memory state the VPU waits in MEMORY for sync_end. *)
LEMMA MemoryStates ==
  ASSUME SwIInv
  PROVE  /\ curr_state \in {"RECEIVE_DATA", "SEND_DATA"} =>
              vpu_state = "MEMORY" /\ ~vpu_sync_start /\ ~sync_end /\ ~vpu_completed
         /\ curr_state = "RECEIVE_DATA" => instr.kind = "store"
         /\ curr_state = "SEND_DATA" => instr.kind = "load"
         /\ moving => curr_state # "WAIT_ISSUE"
         /\ vpu_completed => curr_state = "WAIT_ANSWER" /\ vpu_state = "IDLE"
         /\ vpu_state = "IDLE" /\ ~vpu_completed <=> curr_state = "WAIT_ISSUE"
         /\ vpu_state = "BUSY" \/ vpu_sync_start => curr_state = "WAIT_ANSWER"
BY DEF SwIInv, Typed, InStep, memory_state, moving, vector_op

LEMMA IdsDiffer ==
  ASSUME TellsApart, NEW c \in 0..SbIds - 1
  PROVE  (((c + 1) % SbIds) - 1) % SbIds # (c - 1) % SbIds
<1> DEFINE n == SbIds
<1>1. n \in Nat /\ n > 1 /\ c \in 0..n - 1
  BY OviAssumption DEF TellsApart
<1> HIDE DEF n
<1>2. (c - 1) % n # c
  <2>1. CASE c = 0
    <3>1. c - 1 = -1 /\ (-1) % n = n - 1
      BY <1>1, <2>1
    <3> QED
      BY <1>1, <2>1, <3>1
  <2>2. CASE c # 0
    <3>1. c - 1 \in 0..n - 1 /\ \A a \in 0..n - 1 : a % n = a
      BY <1>1, <2>2
    <3> QED
      BY <1>1, <2>2, <3>1
  <2> QED
    BY <2>1, <2>2
<1> QED
  BY <1>2, TagOfLast DEF n

(* The bus after the edge holds what it held, a load that leaves dc5, and a load
   that waits in dc3. *)
LEMMA BusMembers ==
  ASSUME WellTyped, NEW go, NEW dma, NEW cut, NEW hit, NEW block, NEW ans, NEW error,
         Clock(go, dma, cut, hit, block, ans, error)
  PROVE  /\ \A k \in DOMAIN bus' :
              \/ \E j \in DOMAIN bus : bus'[k] = bus[j]
              \/ bus'[k] = dc[5] /\ dc[5].op = "load" /\ cut # 5
              \/ bus'[k].by = "freeze" /\ block
         /\ \/ answer' = NoPacket
            \/ ans /\ ~error /\ 1 \in DOMAIN bus /\ answer' = bus[1]
<1> DEFINE f == [NoPacket EXCEPT !.by = "freeze"]
           old == {bus[j] : j \in DOMAIN bus}
           L == old \cup {p \in {dc[5]} : dc[5].op = "load" /\ cut # 5} \cup {p \in {f} : block}
<1>1. bus \in Seq(Packets)
  BY DEF WellTyped
<1>2. bus \in Seq(old)
  BY <1>1
<1>3. old \subseteq L
  OBVIOUS
<1>4. bus \in Seq(L)
  <2> HIDE DEF L, old
  <2>1. \A k \in 1..Len(bus) : bus[k] \in L
    BY <1>2, <1>3
  <2> QED
    BY <1>1, <2>1
<1>5. Joining(cut) \in Seq(L)
  <2>1. dc[5].op = "load" /\ cut # 5 => dc[5] \in L
    OBVIOUS
  <2> HIDE DEF L
  <2>2. \A p : p \in L => <<p>> \in Seq(L)
    OBVIOUS
  <2>3. <<>> \in Seq(L)
    OBVIOUS
  <2> QED
    BY <2>1, <2>2, <2>3 DEF Joining
<1>6. Blocking(block) \in Seq(L)
  <2>1. block => f \in L
    OBVIOUS
  <2> HIDE DEF L, f
  <2>2. \A p : p \in L => <<p>> \in Seq(L)
    OBVIOUS
  <2>3. <<>> \in Seq(L)
    OBVIOUS
  <2> QED
    BY <2>1, <2>2, <2>3 DEF Blocking, f
<1>7. bus' \in Seq(L)
  <2> HIDE DEF L
  <2>1. BusAnswered(ans) \in Seq(L)
    BY <1>4 DEF BusAnswered, Clock
  <2>2. \A a, b \in Seq(L) : a \o b \in Seq(L)
    OBVIOUS
  <2>3. bus' = (BusAnswered(ans) \o Joining(cut)) \o Blocking(block)
    BY BusMoves
  <2> QED
    BY <1>5, <1>6, <2>1, <2>2, <2>3
<1>8. \A k \in DOMAIN bus' : bus'[k] \in L
  <2> HIDE DEF L
  <2> QED
    BY <1>7
<1>9. f.by = "freeze"
  BY PacketTypes
<1>10. ans => 1 \in DOMAIN bus /\ Head(bus) = bus[1]
  BY <1>1 DEF Clock
<1>11. \/ answer' = NoPacket
       \/ ans /\ ~error /\ answer' = Head(bus)
  BY BusMoves
<1>12. ASSUME NEW p \in L
       PROVE  \/ \E j \in DOMAIN bus : p = bus[j]
              \/ p = dc[5] /\ dc[5].op = "load" /\ cut # 5
              \/ p.by = "freeze" /\ block
  BY <1>9
<1> HIDE DEF L, old, f
<1> QED
  BY <1>8, <1>10, <1>11, <1>12

(* A packet of a vector moves on in every cycle, unless a flush or a hit takes it. *)
LEMMA VectorsMove ==
  ASSUME WellTyped, Apart, NEW go, NEW dma, NEW cut, NEW hit, NEW block, NEW ans, NEW error,
         Clock(go, dma, cut, hit, block, ans, error)
  PROVE  /\ \A s \in Stages : dc'[s].by = "vec" =>
              /\ cut = 0 /\ ~(s = 3 /\ hit)
              /\ \/ s = 1 /\ petition /\ dc'[1] = lsu_p
                 \/ s > 1 /\ s - 1 \in 1..4 /\ dc'[s] = dc[s - 1]
         /\ petition /\ cut = 0 => dc'[1] = lsu_p /\ lsu_p.by = "vec"
         /\ \A s \in 1..4 : dc[s].by = "vec" /\ cut = 0 /\ ~(s = 2 /\ hit) => dc'[s + 1] = dc[s]
<1> DEFINE frozen == ld_freeze_dc3 /\ cut = 0
<1>1. frozen => /\ ~petition
                /\ dc[1].by # "vec" /\ dc[2].by # "vec" /\ dc[3].by # "vec"
  BY DEF Apart
<1>2. NoPacket.by = "none"
  BY PacketTypes
<1>3. /\ lsu_p.by = "vec" <=> petition
      /\ petition => lsu_p_valid(go, cut)
  BY DEF lsu_p, lsu_p_valid
<1>4. block => dc[2].by = "core" /\ [dc[2] EXCEPT !.op = "none"].by = "core"
  <2>1. 2 \in Stages
    BY DEF Stages
  <2> QED
    BY <2>1 DEF Clock, WellTyped, SwTypeOK
<1>5. /\ dc'[1] = IF frozen THEN dc[1]
                  ELSE IF cut = 0 /\ lsu_p_valid(go, cut) THEN lsu_p ELSE NoPacket
      /\ dc'[2] = IF frozen THEN dc[2] ELSE IF cut = 0 THEN dc[1] ELSE NoPacket
      /\ dc'[3] = IF frozen THEN dc[3]
                  ELSE IF cut # 0 \/ hit THEN NoPacket
                  ELSE IF block THEN [dc[2] EXCEPT !.op = "none"] ELSE dc[2]
      /\ dc'[4] = IF frozen \/ cut # 0 THEN NoPacket ELSE dc[3]
      /\ dc'[5] = IF cut = 0 THEN dc[4] ELSE NoPacket
  BY PacketsMove
<1> HIDE DEF frozen
<1>6. dc'[1].by = "vec" => cut = 0 /\ petition /\ dc'[1] = lsu_p
  BY <1>1, <1>2, <1>3, <1>5
<1>7. dc'[2].by = "vec" => cut = 0 /\ dc'[2] = dc[1]
  BY <1>1, <1>2, <1>5
<1>8. dc'[3].by = "vec" => cut = 0 /\ ~hit /\ dc'[3] = dc[2]
  BY <1>1, <1>2, <1>4, <1>5
<1>9. dc'[4].by = "vec" => cut = 0 /\ dc'[4] = dc[3]
  BY <1>2, <1>5
<1>10. dc'[5].by = "vec" => cut = 0 /\ dc'[5] = dc[4]
  BY <1>2, <1>5
<1>11. petition /\ cut = 0 => dc'[1] = lsu_p /\ lsu_p.by = "vec"
  BY <1>1, <1>3, <1>5
<1>12. cut = 0 => /\ dc[1].by = "vec" => dc'[2] = dc[1]
                  /\ dc[2].by = "vec" /\ ~hit => dc'[3] = dc[2]
                  /\ dc[3].by = "vec" => dc'[4] = dc[3]
                  /\ dc[4].by = "vec" => dc'[5] = dc[4]
  BY <1>1, <1>4, <1>5
<1>13. \A s \in Stages : dc'[s].by = "vec" =>
              /\ cut = 0 /\ ~(s = 3 /\ hit)
              /\ \/ s = 1 /\ petition /\ dc'[1] = lsu_p
                 \/ s > 1 /\ s - 1 \in 1..4 /\ dc'[s] = dc[s - 1]
  <2> TAKE s \in Stages
  <2>1. s \in {1, 2, 3, 4, 5}
    BY DEF Stages
  <2>2. CASE s = 1
    BY <1>6, <2>2
  <2>3. CASE s = 2
    BY <1>7, <2>3
  <2>4. CASE s = 3
    BY <1>8, <2>4
  <2>5. CASE s = 4
    BY <1>9, <2>5
  <2>6. CASE s = 5
    BY <1>10, <2>6
  <2> QED
    BY <2>1, <2>2, <2>3, <2>4, <2>5, <2>6
<1>14. \A s \in 1..4 : dc[s].by = "vec" /\ cut = 0 /\ ~(s = 2 /\ hit) => dc'[s + 1] = dc[s]
  <2> TAKE s \in 1..4
  <2>1. s \in {1, 2, 3, 4}
    OBVIOUS
  <2> QED
    BY <1>12, <2>1
<1> QED
  BY <1>11, <1>13, <1>14

(* Of a scalar load that enters dc1 decode is the source, and the bridge is idle. *)
LEMMA ScalarEnters ==
  ASSUME NEW go, NEW cut, lsu_p_valid(go, cut), ~petition
  PROVE  /\ curr_state = "WAIT_ISSUE" /\ ~vpu_stall_ff /\ cut = 0 /\ ~ld_freeze_dc3
         /\ slot.op = "load"
BY Decodes DEF lsu_p_valid

LEMMA ApartStep ==
  ASSUME WellTyped, SwIInv, Apart, Phases,
         NEW go, NEW dma, NEW cut, NEW hit, NEW block, NEW ans, NEW error,
         Clock(go, dma, cut, hit, block, ans, error)
  PROVE  Apart'
<1> DEFINE frozen == ld_freeze_dc3 /\ cut = 0
<1>0. /\ dc'[1] = IF frozen THEN dc[1]
                  ELSE IF cut = 0 /\ lsu_p_valid(go, cut) THEN lsu_p ELSE NoPacket
      /\ dc'[2] = IF frozen THEN dc[2] ELSE IF cut = 0 THEN dc[1] ELSE NoPacket
      /\ dc'[3] = IF frozen THEN dc[3]
                  ELSE IF cut # 0 \/ hit THEN NoPacket
                  ELSE IF block THEN [dc[2] EXCEPT !.op = "none"] ELSE dc[2]
      /\ dc'[4] = IF frozen \/ cut # 0 THEN NoPacket ELSE dc[3]
      /\ dc'[5] = IF cut = 0 THEN dc[4] ELSE NoPacket
      /\ ld_freeze_dc3' = IF frozen THEN answer.by # "freeze" ELSE block
  BY PacketsMove
<1>1. \A s, t \in Stages : dc'[s].by = "vec" /\ dc'[t].by = "vec" => s = t
  <2>1. ASSUME NEW s \in Stages, NEW t \in Stages, dc'[s].by = "vec", dc'[t].by = "vec", s # t
        PROVE  FALSE
    <3>1. CASE s = 1 \/ t = 1
      <4>1. PICK u \in 1..4 : dc[u].by = "vec" /\ petition
        BY <2>1, <3>1, VectorsMove
      <4>2. dc[u] = NoPacket
        BY <4>1 DEF Apart
      <4> QED
        BY <4>1, <4>2, PacketTypes
    <3>2. CASE s # 1 /\ t # 1
      <4>1. /\ s - 1 \in 1..4 /\ dc[s - 1].by = "vec"
            /\ t - 1 \in 1..4 /\ dc[t - 1].by = "vec"
        BY <2>1, <3>2, VectorsMove
      <4>2. s - 1 \in Stages /\ t - 1 \in Stages
        BY <4>1 DEF Stages
      <4>3. s - 1 = t - 1
        BY <4>1, <4>2 DEF Apart
      <4> QED
        BY <2>1, <4>3 DEF Stages
    <3> QED
      BY <3>1, <3>2
  <2> QED
    BY <2>1
<1>2. ASSUME petition' PROVE ~ld_freeze_dc3' /\ \A s \in 1..4 : dc'[s] = NoPacket
  <2>1. dccm_ready(go, cut)
    BY <1>2, Petitions1
  <2>2. ~lsu_p_valid(go, cut) /\ ~lsu_freeze_dc3(cut) /\ ~ldst_nodma_dc1todc3
    BY <2>1 DEF dccm_ready
  <2>3. dc[1] = NoPacket /\ dc[2] = NoPacket /\ dc[3] = NoPacket
    <3>1. 1 \in 1..3 /\ 2 \in 1..3 /\ 3 \in 1..3
      OBVIOUS
    <3> QED
      BY <2>2, <3>1 DEF ldst_nodma_dc1todc3
  <2>4. ~frozen
    BY <2>2 DEF lsu_freeze_dc3
  <2>5. ~block
    BY <2>3, PacketTypes DEF Clock
  <2>6. dc'[1] = NoPacket /\ dc'[2] = NoPacket /\ dc'[3] = NoPacket /\ dc'[4] = NoPacket
    BY <1>0, <2>2, <2>3, <2>4, <2>5
  <2>7. ~ld_freeze_dc3'
    BY <1>0, <2>4, <2>5
  <2>8. \A s \in 1..4 : s = 1 \/ s = 2 \/ s = 3 \/ s = 4
    OBVIOUS
  <2> QED
    BY <2>6, <2>7, <2>8
<1>3. ASSUME NEW s \in 1..3, dc'[s].by = "vec"
      PROVE  ~ld_freeze_dc3' /\ \A t \in 1..3 : dc'[t].by # "core"
  <2>1. s \in Stages
    BY DEF Stages
  <2>2. cut = 0 /\ ( \/ s = 1 /\ petition /\ dc'[1] = lsu_p
                     \/ s > 1 /\ s - 1 \in 1..4 /\ dc'[s] = dc[s - 1])
    BY <1>3, <2>1, VectorsMove
  <2>3. ~ld_freeze_dc3 /\ dc[1].by # "core" /\ dc[2].by # "core"
    <3>1. CASE petition
      <4>1. ~ld_freeze_dc3 /\ dc[1] = NoPacket /\ dc[2] = NoPacket
        BY <3>1 DEF Apart
      <4> QED
        BY <4>1, PacketTypes
    <3>2. CASE ~petition
      <4>1. s - 1 \in 1..3 /\ dc[s - 1].by = "vec"
        BY <1>3, <2>2, <3>2
      <4> QED
        BY <4>1 DEF Apart
    <3> QED
      BY <3>1, <3>2
  <2>4. ~frozen /\ ~block
    BY <2>3 DEF Clock
  <2>5. dc'[1].by # "core"
    <3>1. ASSUME dc'[1].by = "core" PROVE FALSE
      <4>1. lsu_p_valid(go, cut) /\ ~petition
        BY <1>0, <2>4, <3>1, PacketTypes DEF lsu_p
      <4>2. curr_state = "WAIT_ISSUE"
        BY <4>1, ScalarEnters
      <4>3. s # 1 /\ dc[s - 1].by = "vec"
        BY <1>3, <2>2, <4>1
      <4>4. dc[1].by = "vec" \/ dc[2].by = "vec"
        BY <4>3
      <4> QED
        BY <4>2, <4>4, MemoryStates DEF Phases
    <3> QED
      BY <3>1
  <2>6. dc'[2].by # "core" /\ dc'[3].by # "core"
    BY <1>0, <2>2, <2>3, <2>4, PacketTypes
  <2>7. ~ld_freeze_dc3'
    BY <1>0, <2>4
  <2>8. \A t \in 1..3 : t = 1 \/ t = 2 \/ t = 3
    OBVIOUS
  <2> QED
    BY <2>5, <2>6, <2>7, <2>8
<1> QED
  BY <1>1, <1>2, <1>3 DEF Apart

LEMMA PhasesStep ==
  ASSUME WellTyped, SwIInv, Apart, Phases,
         NEW go, NEW dma, NEW cut, NEW hit, NEW block, NEW ans, NEW error,
         Clock(go, dma, cut, hit, block, ans, error)
  PROVE  Phases'
<1> DEFINE issued == VPU_ISSUE(core_issue_valid(go, cut))
<1>1. petition' => vpu_state' = "MEMORY" /\ ~vpu_sync_start'
  <2>1. ASSUME petition' PROVE vpu_state' = "MEMORY" /\ ~vpu_sync_start'
    <3>1. /\ curr_state \in {"RECEIVE_DATA", "SEND_DATA"}
          /\ vpu_state = "MEMORY" /\ ~vpu_sync_start /\ ~sync_end
      BY <2>1, Petitions1
    <3>2. ~issued
      BY <3>1 DEF VPU_ISSUE
    <3> QED
      BY <3>1, <3>2, Turns
  <2> QED
    BY <2>1
<1>2. ASSUME moving PROVE ~issued /\ (moving' \/ vpu_completed')
  <2>1. ~issued
    BY <1>2, MemoryStates DEF VPU_ISSUE
  <2> QED
    BY <1>2, <2>1, Turns DEF moving
<1>3. ASSUME dc'[1].by = "vec" PROVE moving'
  <2>1. petition
    <3>1. 1 \in Stages
      BY DEF Stages
    <3> QED
      BY <1>3, <3>1, VectorsMove
  <2>2. vpu_state = "MEMORY" /\ ~vpu_sync_start
    BY <2>1 DEF Phases
  <2>3. ~issued
    BY <1>2, <2>2 DEF moving
  <2> QED
    BY <2>2, <2>3, Turns DEF moving
<1>4. ASSUME dc'[2].by = "vec" PROVE moving' \/ vpu_completed'
  <2>1. dc[1].by = "vec"
    <3>1. 2 \in Stages
      BY DEF Stages
    <3> QED
      BY <1>4, <3>1, VectorsMove
  <2> QED
    BY <1>2, <2>1 DEF Phases
<1>5. ASSUME dc'[3].by = "vec"
      PROVE  moving' \/ vpu_completed' \/ (curr_state' = "WAIT_ISSUE" /\ vpu_stall_ff')
  <2>1. dc[2].by = "vec"
    <3>1. 3 \in Stages
      BY DEF Stages
    <3> QED
      BY <1>5, <3>1, VectorsMove
  <2>2. CASE moving
    BY <1>2, <2>2
  <2>3. CASE vpu_completed
    <3>1. curr_state = "WAIT_ANSWER"
      BY <2>3, MemoryStates
    <3>2. ~issued
      BY <3>1 DEF VPU_ISSUE
    <3>3. curr_state' = "WAIT_ISSUE"
      BY <2>3, <3>1, <3>2, AtRest
    <3>4. vpu_stall_ff' = TRUE
      BY <3>1 DEF Clock, Edge, DecodeEdge, CORE_HALT
    <3> QED
      BY <3>3, <3>4
  <2> QED
    BY <2>1, <2>2, <2>3 DEF Phases
<1> QED
  BY <1>1, <1>3, <1>4, <1>5 DEF Phases

(* The tag of the next instruction is another one. *)
LEMMA NewTag ==
  ASSUME WellTyped, TellsApart, sbid_counter' = (sbid_counter + 1) % SbIds
  PROVE  VPU_sb_id' # VPU_sb_id
<1>1. sbid_counter \in 0..SbIds - 1
  BY DEF WellTyped, SwTypeOK, OviTypeOK
<1>2. VPU_sb_id' = (((sbid_counter + 1) % SbIds) - 1) % SbIds
  BY DEF VPU_sb_id
<1> QED
  BY <1>1, <1>2, IdsDiffer DEF VPU_sb_id

(* At an issue nothing of a vector is under way but a store that leaves dc4. *)
LEMMA QuietAtIssue ==
  ASSUME Petitions, NEW go, NEW dma, NEW cut, NEW hit, NEW block, NEW ans, NEW error,
         Clock(go, dma, cut, hit, block, ans, error),
         VPU_ISSUE(core_issue_valid(go, cut))
  PROVE  /\ ~petition
         /\ \A s \in Stages : dc'[s].by = "vec" =>
              /\ s = 5 /\ dc'[5] = dc[4] /\ dc[4].by = "vec" /\ dc[4].op = "store"
              /\ dc[4].data = <<VPU_sb_id, served - 1>>
         /\ \A k \in DOMAIN bus' : bus'[k].by # "vec"
         /\ answer'.by # "vec"
<1>0. WellTyped /\ SwIInv /\ Apart /\ Phases /\ Owned /\ Awaited
  BY DEF Petitions
<1>1. /\ curr_state = "WAIT_ISSUE" /\ ~vpu_stall_ff
      /\ vpu_state = "IDLE" /\ ~vpu_completed
  BY <1>0, Issues
<1>2. ~petition
  BY <1>0, <1>1 DEF Phases
<1>3. dc[1].by # "vec" /\ dc[2].by # "vec" /\ dc[3].by # "vec"
  BY <1>0, <1>1 DEF Phases, moving
<1>4. ~vector_loads
  BY <1>0, <1>1 DEF Awaited
<1>5. ASSUME NEW s \in Stages, dc'[s].by = "vec"
      PROVE  /\ s = 5 /\ dc'[5] = dc[4] /\ dc[4].by = "vec" /\ dc[4].op = "store"
             /\ dc[4].data = <<VPU_sb_id, served - 1>>
  <2>1. s > 1 /\ s - 1 \in 1..4 /\ dc'[s] = dc[s - 1]
    BY <1>0, <1>2, <1>5, VectorsMove
  <2>2. dc[s - 1].by = "vec"
    BY <1>5, <2>1
  <2>3. s - 1 = 4 /\ s = 5
    <3>1. s - 1 # 1 /\ s - 1 # 2 /\ s - 1 # 3
      BY <1>3, <2>2
    <3> QED
      BY <2>1, <3>1 DEF Stages
  <2>4. 4 \in Stages /\ 4 # 5 /\ dc[4].by = "vec"
    BY <2>2, <2>3 DEF Stages
  <2>5. dc[4].data = <<VPU_sb_id, served - 1>> /\ dc[4].op = instr.kind
    BY <1>0, <2>4 DEF Owned
  <2>6. dc[4].op # "load"
    BY <1>4, <2>4 DEF vector_loads
  <2>7. dc[4].op \in {"none", "load", "store"}
    BY <1>0, <2>4 DEF WellTyped, SwTypeOK
  <2>8. instr.kind \in {"load", "store", "arith"}
    BY <1>0 DEF SwIInv, Typed, Kinds
  <2>9. dc[4].op = "store"
    BY <2>5, <2>6, <2>7, <2>8
  <2> QED
    BY <2>1, <2>3, <2>4, <2>5, <2>9
<1>6. 5 \in Stages
  BY DEF Stages
<1>7. ASSUME NEW k \in DOMAIN bus', bus'[k].by = "vec" PROVE FALSE
  <2>1. CASE \E j \in DOMAIN bus : bus'[k] = bus[j]
    BY <1>4, <1>7, <2>1 DEF vector_loads
  <2>2. CASE bus'[k] = dc[5] /\ dc[5].op = "load" /\ cut # 5
    BY <1>4, <1>6, <1>7, <2>2 DEF vector_loads
  <2>3. CASE bus'[k].by = "freeze" /\ block
    BY <1>7, <2>3
  <2> QED
    BY <1>0, <2>1, <2>2, <2>3, BusMembers
<1>8. answer'.by # "vec"
  <2>1. answer' = NoPacket \/ (1 \in DOMAIN bus /\ answer' = bus[1])
    BY <1>0, BusMembers
  <2> QED
    BY <1>4, <2>1, PacketTypes DEF vector_loads
<1> QED
  BY <1>2, <1>5, <1>7, <1>8

LEMMA OwnedStep ==
  ASSUME Petitions, TellsApart,
         NEW go, NEW dma, NEW cut, NEW hit, NEW block, NEW ans, NEW error,
         Clock(go, dma, cut, hit, block, ans, error)
  PROVE  Owned'
<1> DEFINE issued == VPU_ISSUE(core_issue_valid(go, cut))
<1>0. WellTyped /\ SwIInv /\ Apart /\ Phases /\ Owned /\ Awaited /\ Progress
  BY DEF Petitions
<1>1. CASE issued
  <2>1. vpu_state' = "BUSY" /\ sbid_counter' = (sbid_counter + 1) % SbIds
    BY <1>0, <1>1, Issues
  <2>2. VPU_sb_id' # VPU_sb_id
    BY <1>0, <2>1, NewTag
  <2>3. ASSUME NEW s \in Stages, dc'[s].by = "vec"
        PROVE  s = 5 /\ dc'[5].op = "store" /\ dc'[5].data[1] # VPU_sb_id'
    <3>1. s = 5 /\ dc'[5] = dc[4] /\ dc[4].op = "store" /\ dc[4].data = <<VPU_sb_id, served - 1>>
      BY <1>1, <2>3, QuietAtIssue
    <3> QED
      BY <2>2, <3>1
  <2>4. (\A k \in DOMAIN bus' : bus'[k].by # "vec") /\ answer'.by # "vec"
    BY <1>1, QuietAtIssue
  <2> QED
    BY <2>1, <2>3, <2>4 DEF Owned
<1>2. CASE ~issued
  <2>1. UNCHANGED <<instr, sbid_counter>> /\ served' = served + on_core_bus
    BY <1>2, Keeps DEF Petitions
  <2>2. VPU_sb_id' = VPU_sb_id
    BY <2>1 DEF VPU_sb_id
  <2>3. vpu_state # "BUSY" /\ ~vpu_sync_start => vpu_state' # "BUSY" /\ ~vpu_sync_start'
    BY <1>0, <1>2, Turns DEF SwIInv, Typed
  <2>4. served \in Nat
    BY <1>0 DEF WellTyped, SwTypeOK
  <2>5. ASSUME NEW s \in Stages, dc'[s].by = "vec"
        PROVE  /\ dc'[s].data = <<VPU_sb_id', served' - 1>> /\ dc'[s].op = instr'.kind
               /\ vpu_state' # "BUSY" /\ ~vpu_sync_start'
    <3>1. \/ s = 1 /\ petition /\ dc'[1] = lsu_p
          \/ s > 1 /\ s - 1 \in 1..4 /\ dc'[s] = dc[s - 1]
      BY <1>0, <2>5, VectorsMove
    <3>2. CASE s = 1 /\ petition /\ dc'[1] = lsu_p
      <4>1. vpu_state = "MEMORY" /\ ~vpu_sync_start
        BY <1>0, <3>2 DEF Phases
      <4>2. served' - 1 = served
        BY <2>1, <2>4, <3>2 DEF on_core_bus
      <4>3. lsu_p.data = <<VPU_sb_id, served>> /\ lsu_p.op = IF load_valid THEN "load" ELSE "store"
        BY <3>2 DEF lsu_p
      <4>4. load_valid => instr.kind = "load"
        BY <1>0, MemoryStates DEF load_valid
      <4>5. ~load_valid => instr.kind = "store"
        BY <1>0, <3>2 DEF Progress, petition
      <4> QED
        BY <2>1, <2>2, <2>3, <3>2, <4>1, <4>2, <4>3, <4>4, <4>5
    <3>3. CASE s > 1 /\ s - 1 \in 1..4 /\ dc'[s] = dc[s - 1]
      <4>1. s - 1 \in Stages /\ s - 1 # 5 /\ dc[s - 1].by = "vec"
        BY <2>5, <3>3 DEF Stages
      <4>2. /\ dc[s - 1].data = <<VPU_sb_id, served - 1>> /\ dc[s - 1].op = instr.kind
            /\ vpu_state # "BUSY" /\ ~vpu_sync_start
        BY <1>0, <4>1 DEF Owned
      <4>3. ~petition
        <5>1. petition => dc[s - 1] = NoPacket
          BY <1>0, <3>3 DEF Apart
        <5> QED
          BY <4>1, <5>1, PacketTypes
      <4>4. served' = served
        BY <2>1, <2>4, <4>3 DEF on_core_bus
      <4> QED
        BY <2>1, <2>2, <2>3, <3>3, <4>2, <4>4
    <3> QED
      BY <3>1, <3>2, <3>3
  <2>7. dc[5].by = "vec" /\ dc[5].op = "load" => own(dc[5])
    <3>1. 5 \in Stages
      BY DEF Stages
    <3> QED
      BY <1>0, <3>1 DEF Owned, own
  <2>8. ASSUME NEW k \in DOMAIN bus', bus'[k].by = "vec" PROVE own(bus'[k])
    <3>1. CASE \E j \in DOMAIN bus : bus'[k] = bus[j]
      BY <1>0, <2>8, <3>1 DEF Owned
    <3>2. CASE bus'[k] = dc[5] /\ dc[5].op = "load" /\ cut # 5
      BY <2>7, <2>8, <3>2
    <3>3. CASE bus'[k].by = "freeze" /\ block
      BY <2>8, <3>3
    <3> QED
      BY <1>0, <3>1, <3>2, <3>3, BusMembers
  <2>9. answer'.by = "vec" => own(answer')
    <3>1. answer' = NoPacket \/ (1 \in DOMAIN bus /\ answer' = bus[1])
      BY <1>0, BusMembers
    <3> QED
      BY <1>0, <3>1, PacketTypes DEF Owned
  <2>10. \A k \in DOMAIN bus' : bus'[k].by = "vec" => bus'[k].data[1] = VPU_sb_id'
    BY <2>2, <2>8 DEF own
  <2>11. answer'.by = "vec" => answer'.data[1] = VPU_sb_id'
    BY <2>2, <2>9 DEF own
  <2> QED
    BY <2>5, <2>10, <2>11 DEF Owned, own
<1> QED
  BY <1>1, <1>2

-----------------------------------------------------------------------------
(* Counts. *)

(* The members of S in a sequence. *)
Count(q, S) == Cardinality({k \in DOMAIN q : q[k] \in S})

LEMMA CountNat ==
  ASSUME NEW T, NEW q \in Seq(T), NEW S
  PROVE  /\ IsFiniteSet({k \in DOMAIN q : q[k] \in S}) /\ Count(q, S) \in Nat
         /\ Count(q, S) = 0 => \A k \in DOMAIN q : q[k] \notin S
<1> DEFINE D == {k \in DOMAIN q : q[k] \in S}
<1>1. DOMAIN q = 1..Len(q) /\ Len(q) \in Nat
  OBVIOUS
<1>2. IsFiniteSet(1..Len(q))
  <2>1. 1 \in Int /\ Len(q) \in Int
    BY <1>1
  <2> QED
    BY <2>1, FS_Interval
<1>3. IsFiniteSet(D)
  <2>1. D \in SUBSET (1..Len(q))
    BY <1>1
  <2> QED
    BY <1>2, <2>1, FS_Subset
<1>4. Cardinality(D) \in Nat /\ (Cardinality(D) = 0 <=> D = {})
  BY <1>3, FS_CardinalityType, FS_EmptySet
<1> QED
  BY <1>3, <1>4 DEF Count

LEMMA CountAppend ==
  ASSUME NEW T, NEW q \in Seq(T), NEW e \in T, NEW S
  PROVE  Count(q \o <<e>>, S) = Count(q, S) + IF e \in S THEN 1 ELSE 0
<1> DEFINE n == Len(q)
           r == q \o <<e>>
           D == {k \in 1..n : q[k] \in S}
           R == {k \in 1..n + 1 : r[k] \in S}
<1>1. n \in Nat /\ DOMAIN q = 1..n /\ DOMAIN r = 1..n + 1
  OBVIOUS
<1>2. (\A k \in 1..n : r[k] = q[k]) /\ r[n + 1] = e
  OBVIOUS
<1>3. Count(q, S) = Cardinality(D) /\ Count(r, S) = Cardinality(R) /\ IsFiniteSet(D)
      /\ Cardinality(D) \in Nat
  BY <1>1, CountNat DEF Count
<1> HIDE DEF n, r
<1>4. n + 1 \notin D
  BY <1>1
<1>5. CASE e \in S
  <2>1. R = D \cup {n + 1}
    BY <1>1, <1>2, <1>5
  <2> QED
    BY <1>3, <1>4, <1>5, <2>1, FS_AddElement DEF r
<1>6. CASE e \notin S
  <2>1. R = D
    BY <1>1, <1>2, <1>6
  <2> HIDE DEF D, R
  <2> QED
    BY <1>3, <1>6, <2>1 DEF r
<1> QED
  BY <1>5, <1>6

LEMMA CountTail ==
  ASSUME NEW T, NEW q \in Seq(T), q # <<>>, NEW S
  PROVE  Count(q, S) = Count(Tail(q), S) + IF Head(q) \in S THEN 1 ELSE 0
<1> DEFINE n == Len(q)
           r == Tail(q)
           D == {k \in 1..n : q[k] \in S}
           R == {k \in 1..n - 1 : r[k] \in S}
           F == [k \in D \ {1} |-> k - 1]
<1>1. n \in Nat /\ n > 0 /\ DOMAIN q = 1..n /\ DOMAIN r = 1..n - 1 /\ r \in Seq(T)
  OBVIOUS
<1>2. (\A k \in 1..n - 1 : r[k] = q[k + 1]) /\ Head(q) = q[1]
  OBVIOUS
<1>3. Count(q, S) = Cardinality(D) /\ Count(r, S) = Cardinality(R) /\ IsFiniteSet(D)
      /\ Cardinality(D) \in Nat
  BY <1>1, CountNat DEF Count
<1>4. F \in Bijection(D \ {1}, R)
  <2> HIDE DEF n, r
  <2>1. \A k \in D \ {1} : k - 1 \in R
    <3>1. ASSUME NEW k \in D \ {1} PROVE k - 1 \in R
      <4>1. k \in 1..n /\ k # 1 /\ q[k] \in S
        OBVIOUS
      <4>2. k - 1 \in 1..n - 1 /\ (k - 1) + 1 = k
        BY <1>1, <4>1
      <4>3. r[k - 1] = q[k]
        BY <1>2, <4>2
      <4> QED
        BY <4>1, <4>2, <4>3
    <3> QED
      BY <3>1
  <2>2. \A k, l \in D \ {1} : k - 1 = l - 1 => k = l
    BY <1>1
  <2>3. \A m \in R : \E k \in D \ {1} : k - 1 = m
    <3>1. ASSUME NEW m \in R PROVE m + 1 \in D \ {1} /\ (m + 1) - 1 = m
      <4>1. m \in 1..n - 1 /\ q[m + 1] \in S
        BY <1>2
      <4> QED
        BY <1>1, <4>1
    <3> QED
      BY <3>1
  <2> DEFINE DD == D \ {1}
  <2>4. \A k \in DD : k - 1 \in R
    BY <2>1
  <2>5. \A k, l \in DD : k - 1 = l - 1 => k = l
    BY <2>2
  <2>6. \A m \in R : \E k \in DD : k - 1 = m
    BY <2>3
  <2> HIDE DEF DD, R
  <2>7. DD = D \ {1}
    BY DEF DD
  <2> HIDE DEF D
  <2>8. F \in [DD -> R] /\ \A k \in DD : F[k] = k - 1
    BY <2>4, <2>7
  <2> HIDE DEF F
  <2>9. F \in Bijection(DD, R)
    BY <2>5, <2>6, <2>8, Fun_IsBij
  <2> QED
    BY <2>7, <2>9
<1>5. Cardinality(R) = Cardinality(D \ {1})
  <2>1. IsFiniteSet(D \ {1})
    BY <1>3, FS_RemoveElement
  <2> HIDE DEF D, R, F
  <2> QED
    BY <1>4, <2>1, FS_Bijection DEF ExistsBijection
<1>6. 1 \in D <=> Head(q) \in S
  BY <1>1, <1>2
<1>7. Cardinality(D \ {1}) = IF 1 \in D THEN Cardinality(D) - 1 ELSE Cardinality(D)
  BY <1>3, FS_RemoveElement
<1> HIDE DEF n, D, R, r, F
<1> QED
  BY <1>3, <1>5, <1>6, <1>7 DEF r

(* A choice of at most one element adds one or nothing. *)

LEMMA AtMostOne ==
  ASSUME NEW S, \A s, t \in S : s = t
  PROVE  IsFiniteSet(S) /\ Cardinality(S) = IF S = {} THEN 0 ELSE 1
<1>1. CASE S = {}
  BY <1>1, FS_EmptySet
<1>2. CASE S # {}
  <2>1. PICK s \in S : TRUE
    BY <1>2
  <2>2. S = {s}
    BY <2>1
  <2>3. IsFiniteSet({s}) /\ Cardinality({s}) = 1
    BY FS_Singleton
  <2> HIDE <2>1
  <2> QED
    BY <1>2, <2>2, <2>3
<1> QED
  BY <1>1, <1>2

(* 1 for what is so, 0 for what is not. *)
Bit(b) == IF b THEN 1 ELSE 0

LEMMA AddBit ==
  ASSUME NEW S, IsFiniteSet(S), NEW c, c \notin S, NEW b
  PROVE  /\ IsFiniteSet(S \cup {x \in {c} : b})
         /\ Cardinality(S \cup {x \in {c} : b}) = Cardinality(S) + Bit(b)
<1>1. Cardinality(S) \in Nat
  BY FS_CardinalityType
<1>2. CASE b
  <2>1. {x \in {c} : b} = {c}
    BY <1>2
  <2> QED
    BY <1>1, <1>2, <2>1, FS_AddElement DEF Bit
<1>3. CASE ~b
  <2>1. S \cup {x \in {c} : b} = S
    BY <1>3
  <2> QED
    BY <1>1, <1>3, <2>1 DEF Bit
<1> QED
  BY <1>2, <1>3

(* Where a packet of the instruction is: before dc5, or in it. *)
own_early == \E s \in 1..4 : own(dc[s])
kept(cut, hit) == \E s \in 1..4 : own(dc[s]) /\ cut = 0 /\ ~(s = 2 /\ hit)

LEMMA PipeCount ==
  ASSUME Petitions, Apart',
         NEW go, NEW dma, NEW cut, NEW hit, NEW block, NEW ans, NEW error,
         Clock(go, dma, cut, hit, block, ans, error),
         ~VPU_ISSUE(core_issue_valid(go, cut))
  PROVE  /\ in_pipe = Bit(own_early) + Bit(own(dc[5])) /\ ~(own_early /\ own(dc[5]))
         /\ in_pipe' = Bit(petition /\ cut = 0) + Bit(kept(cut, hit))
         /\ ~(petition /\ own_early)
<1>0. WellTyped /\ Apart
  BY DEF Petitions
<1>1. \A s, t \in Stages : own(dc[s]) /\ own(dc[t]) => s = t
  BY <1>0 DEF Apart, own
<1>2. ~(own_early /\ own(dc[5]))
  BY <1>1 DEF own_early, Stages
<1>3. in_pipe = IF \E s \in Stages : own(dc[s]) THEN 1 ELSE 0
  <2> DEFINE P == {s \in Stages : own(dc[s])}
  <2>1. Cardinality(P) = IF P = {} THEN 0 ELSE 1
    <3>1. \A s, t \in P : s = t
      BY <1>1
    <3> HIDE DEF P
    <3> QED
      BY <3>1, AtMostOne
  <2> QED
    BY <2>1 DEF in_pipe
<1>4. (\E s \in Stages : own(dc[s])) <=> own_early \/ own(dc[5])
  BY DEF own_early, Stages
<1>5. UNCHANGED sbid_counter
  BY Keeps DEF Petitions
<1>6. VPU_sb_id' = VPU_sb_id
  BY <1>5 DEF VPU_sb_id
<1>7. \A s \in Stages : own(dc[s])' <=> own(dc'[s])
  BY <1>6 DEF own
<1>8. in_pipe' = IF \E s \in Stages : own(dc'[s]) THEN 1 ELSE 0
  <2> DEFINE P == {s \in Stages : own(dc'[s])}
  <2>1. \A s, t \in P : s = t
    BY DEF Apart, own
  <2>2. Cardinality(P) = IF P = {} THEN 0 ELSE 1
    <3> HIDE DEF P
    <3> QED
      BY <2>1, AtMostOne
  <2>3. {s \in Stages : own(dc[s])}' = P
    BY <1>7
  <2> QED
    BY <2>2, <2>3 DEF in_pipe
<1>9. petition /\ cut = 0 => own(dc'[1])
  <2>1. petition => lsu_p.by = "vec" /\ lsu_p.data[1] = VPU_sb_id
    BY DEF lsu_p
  <2> QED
    BY <1>0, <2>1, VectorsMove DEF own
<1>10. ~(petition /\ own_early)
  BY <1>0, PacketTypes DEF Apart, own_early, own
<1>11. kept(cut, hit) => \E s \in Stages : own(dc'[s])
  <2>1. ASSUME NEW s \in 1..4, own(dc[s]), cut = 0, ~(s = 2 /\ hit)
        PROVE  s + 1 \in Stages /\ own(dc'[s + 1])
    BY <1>0, <2>1, VectorsMove DEF own, Stages
  <2> QED
    BY <2>1 DEF kept
<1>12. (\E s \in Stages : own(dc'[s])) => (petition /\ cut = 0) \/ kept(cut, hit)
  <2>1. ASSUME NEW s \in Stages, own(dc'[s]), ~(petition /\ cut = 0)
        PROVE  kept(cut, hit)
    <3>1. cut = 0 /\ ~(s = 3 /\ hit) /\ s > 1 /\ s - 1 \in 1..4 /\ dc'[s] = dc[s - 1]
      BY <1>0, <2>1, VectorsMove DEF own
    <3>2. own(dc[s - 1]) /\ ~(s - 1 = 2 /\ hit)
      BY <2>1, <3>1
    <3> QED
      BY <3>1, <3>2 DEF kept
  <2> QED
    BY <2>1
<1>13. kept(cut, hit) => own_early
  BY DEF kept, own_early
<1>14. 1 \in Stages
  BY DEF Stages
<1>15. in_pipe = Bit(own_early) + Bit(own(dc[5]))
  BY <1>2, <1>3, <1>4 DEF Bit
<1>16. in_pipe' = Bit(petition /\ cut = 0) + Bit(kept(cut, hit))
  BY <1>8, <1>9, <1>10, <1>11, <1>12, <1>13, <1>14 DEF Bit
<1> QED
  BY <1>2, <1>10, <1>15, <1>16

LEMMA LostCount ==
  ASSUME Petitions, NEW go, NEW dma, NEW cut, NEW hit, NEW block, NEW ans, NEW error,
         Clock(go, dma, cut, hit, block, ans, error)
  PROVE  Cardinality(dropped(cut, hit, error)) =
           ((Bit((own_early /\ cut # 0) \/ (own(dc[5]) /\ cut = 5))
             + Bit(petition /\ cut # 0)) + Bit(hit /\ own(dc[2]))) + Bit(error)
<1> DEFINE A == {s \in Stages : own(dc[s]) /\ ~survives(s, cut)}
           B == A \cup {s \in {0} : petition /\ cut # 0}
           C == B \cup {s \in {6} : hit /\ own(dc[2])}
<1>0. Apart /\ cut \in {0, 4, 5}
  BY DEF Petitions, Clock
<1>1. \A s, t \in A : s = t
  BY <1>0 DEF Apart, own
<1>2. A \subseteq Stages
  OBVIOUS
<1>3. A # {} <=> (own_early /\ cut # 0) \/ (own(dc[5]) /\ cut = 5)
  <2>1. \A s \in Stages : ~survives(s, cut) <=> cut # 0 /\ (s = 5 => cut = 5)
    BY <1>0 DEF survives, Stages
  <2>2. ASSUME own_early, cut # 0 PROVE A # {}
    <3>1. PICK s \in 1..4 : own(dc[s])
      BY <2>2 DEF own_early
    <3>2. s \in Stages /\ s # 5
      BY DEF Stages
    <3>3. s \in A
      BY <2>1, <2>2, <3>1, <3>2
    <3> QED
      BY <3>3
  <2>3. ASSUME own(dc[5]), cut = 5 PROVE A # {}
    <3>1. 5 \in Stages
      BY DEF Stages
    <3>2. 5 \in A
      BY <2>1, <2>3, <3>1
    <3> QED
      BY <3>2
  <2>4. ASSUME NEW s \in A PROVE (own_early /\ cut # 0) \/ (own(dc[5]) /\ cut = 5)
    <3>1. s \in Stages /\ own(dc[s]) /\ cut # 0 /\ (s = 5 => cut = 5)
      BY <2>1
    <3>2. s # 5 => s \in 1..4
      BY <3>1 DEF Stages
    <3> QED
      BY <3>1, <3>2 DEF own_early
  <2> QED
    BY <2>2, <2>3, <2>4
<1>4. IsFiniteSet(A) /\ Cardinality(A) = Bit((own_early /\ cut # 0) \/ (own(dc[5]) /\ cut = 5))
  <2> HIDE DEF A
  <2>1. IsFiniteSet(A) /\ Cardinality(A) = IF A = {} THEN 0 ELSE 1
    BY <1>1, AtMostOne
  <2> QED
    BY <1>3, <2>1 DEF Bit
<1>5. 0 \notin A /\ 6 \notin B /\ 7 \notin C
  BY <1>2 DEF Stages
<1>6. dropped(cut, hit, error) = C \cup {s \in {7} : error}
  BY DEF dropped
<1> HIDE DEF A
<1>7. IsFiniteSet(B) /\ Cardinality(B) = Cardinality(A) + Bit(petition /\ cut # 0)
  BY <1>4, <1>5, AddBit
<1> HIDE DEF B
<1>8. IsFiniteSet(C) /\ Cardinality(C) = Cardinality(B) + Bit(hit /\ own(dc[2]))
  BY <1>5, <1>7, AddBit
<1> HIDE DEF C
<1>9. Cardinality(dropped(cut, hit, error)) = Cardinality(C) + Bit(error)
  <2>1. 7 \notin C /\ IsFiniteSet(C)
    BY <1>5, <1>8
  <2>2. Cardinality(C \cup {s \in {7} : error}) = Cardinality(C) + Bit(error)
    BY <2>1, AddBit
  <2> QED
    BY <1>6, <2>2, Zenon
<1> QED
  BY <1>4, <1>7, <1>8, <1>9

LEMMA BusCount ==
  ASSUME Petitions, NEW go, NEW dma, NEW cut, NEW hit, NEW block, NEW ans, NEW error,
         Clock(go, dma, cut, hit, block, ans, error),
         ~VPU_ISSUE(core_issue_valid(go, cut))
  PROVE  /\ on_bus \in Nat
         /\ on_bus' = (on_bus - Bit(ans /\ own(Head(bus))))
                      + Bit(own(dc[5]) /\ dc[5].op = "load" /\ cut # 5)
         /\ just_answered' = Bit(ans /\ own(Head(bus))) - Bit(error)
         /\ (\E k \in DOMAIN bus : own(bus[k])) => on_bus > 0
<1> DEFINE S == {p \in Packets : own(p)}
           answered == BusAnswered(ans)
           joined == answered \o Joining(cut)
           f == [NoPacket EXCEPT !.by = "freeze"]
<1>0. WellTyped /\ Owned
  BY DEF Petitions
<1>1. bus \in Seq(Packets) /\ (ans => bus # <<>>) /\ (error => ans /\ Head(bus).by = "vec")
      /\ ans \in BOOLEAN
  BY <1>0 DEF WellTyped, Clock
<1>2. dc[5] \in Packets
  <2>1. 5 \in Stages
    BY DEF Stages
  <2> QED
    BY <1>0, <2>1 DEF WellTyped, SwTypeOK, Packets
<1>3. f \in Packets /\ f \notin S /\ ~own(NoPacket)
  BY PacketTypes DEF own
<1>4. on_bus = Count(bus, S)
  <2>1. \A k \in DOMAIN bus : bus[k] \in Packets
    BY <1>1
  <2> QED
    BY <2>1 DEF on_bus, Count
<1>5. VPU_sb_id' = VPU_sb_id
  BY Keeps DEF Petitions, VPU_sb_id
<1>6. on_bus' = Count(bus', S)
  <2>1. bus' \in Seq(Packets)
    BY <1>0, BusTyped
  <2>2. \A k \in DOMAIN bus' : bus'[k] \in Packets
    BY <2>1
  <2>3. \A k \in DOMAIN bus' : own(bus[k])' <=> own(bus'[k])
    BY <1>5 DEF own
  <2>4. {k \in DOMAIN bus : own(bus[k])}' = {k \in DOMAIN bus' : bus'[k] \in S}
    BY <2>2, <2>3
  <2> QED
    BY <2>4 DEF on_bus, Count
<1>7. answered \in Seq(Packets) /\ Count(bus, S) = Count(answered, S) + Bit(ans /\ own(Head(bus)))
  <2>1. CASE ans
    <3>1. answered = Tail(bus) /\ bus # <<>>
      BY <1>1, <2>1 DEF BusAnswered
    <3>2. Tail(bus) \in Seq(Packets) /\ Head(bus) \in Packets
      BY <1>1, <3>1
    <3>3. Count(bus, S) = Count(Tail(bus), S) + IF Head(bus) \in S THEN 1 ELSE 0
      <4> HIDE DEF S
      <4> QED
        BY <1>1, <3>1, CountTail
    <3> QED
      BY <2>1, <3>1, <3>2, <3>3 DEF Bit
  <2>2. CASE ~ans
    <3>1. answered = bus
      BY <2>2 DEF BusAnswered
    <3>2. Count(bus, S) \in Nat
      <4> HIDE DEF S
      <4> QED
        BY <1>1, CountNat
    <3> HIDE DEF S, answered
    <3> QED
      BY <1>1, <2>2, <3>1, <3>2 DEF Bit
  <2> QED
    BY <2>1, <2>2
<1>8. Count(answered, S) \in Nat /\ Count(bus, S) \in Nat
  <2> HIDE DEF S, answered
  <2> QED
    BY <1>1, <1>7, CountNat
<1>9. /\ joined \in Seq(Packets)
      /\ Count(joined, S) =
           Count(answered, S) + Bit(own(dc[5]) /\ dc[5].op = "load" /\ cut # 5)
  <2> HIDE DEF answered
  <2>1. CASE dc[5].op = "load" /\ cut # 5
    <3>1. joined = answered \o <<dc[5]>>
      BY <2>1 DEF Joining
    <3>2. answered \o <<dc[5]>> \in Seq(Packets)
      BY <1>2, <1>7
    <3>3. Count(joined, S) = Count(answered, S) + IF dc[5] \in S THEN 1 ELSE 0
      <4> HIDE DEF S, joined
      <4> QED
        BY <1>2, <1>7, <3>1, CountAppend
    <3> QED
      BY <1>2, <2>1, <3>1, <3>2, <3>3 DEF Bit
  <2>2. CASE ~(dc[5].op = "load" /\ cut # 5)
    <3>1. joined = answered
      BY <1>7, <2>2 DEF Joining
    <3> HIDE DEF joined, S
    <3> QED
      BY <1>7, <1>8, <2>2, <3>1 DEF Bit
  <2> QED
    BY <2>1, <2>2
<1>10. Count(bus', S) = Count(joined, S)
  <2>1. bus' = joined \o Blocking(block)
    BY BusMoves
  <2> HIDE DEF joined, S
  <2>2. CASE block
    <3>1. bus' = joined \o <<f>>
      BY <2>1, <2>2 DEF Blocking
    <3>2. Count(joined, S) \in Nat
      BY <1>9, CountNat
    <3> HIDE DEF f
    <3>3. Count(bus', S) = Count(joined, S) + 0
      BY <1>3, <1>9, <3>1, CountAppend
    <3> QED
      BY <3>2, <3>3
  <2>3. CASE ~block
    <3>1. bus' = joined
      BY <1>9, <2>1, <2>3 DEF Blocking
    <3> QED
      BY <3>1
  <2> QED
    BY <2>2, <2>3
<1>11. just_answered' = Bit(ans /\ own(Head(bus))) - Bit(error)
  <2>1. just_answered' = IF own(answer') THEN 1 ELSE 0
    <3>1. own(answer)' <=> own(answer')
      BY <1>5 DEF own
    <3> QED
      BY <3>1 DEF just_answered
  <2>2. CASE ans /\ ~error
    <3>0. answer' = IF ans /\ ~error THEN Head(bus) ELSE NoPacket
      BY BusMoves
    <3>1. answer' = Head(bus)
      BY <2>2, <3>0
    <3> QED
      BY <2>1, <2>2, <3>1 DEF Bit
  <2>3. CASE ans /\ error
    <3>1. answer' = NoPacket
      BY <2>3, BusMoves
    <3>2. own(Head(bus))
      <4>1. 1 \in DOMAIN bus /\ Head(bus) = bus[1]
        BY <1>1, <2>3
      <4> QED
        BY <1>0, <1>1, <2>3, <4>1 DEF Owned
    <3> QED
      BY <1>3, <2>1, <2>3, <3>1, <3>2 DEF Bit
  <2>4. CASE ~ans
    <3>1. answer' = NoPacket /\ ~error
      BY <1>1, <2>4, BusMoves
    <3> QED
      BY <1>3, <2>1, <2>4, <3>1 DEF Bit
  <2> QED
    BY <2>2, <2>3, <2>4
<1>12. (\E k \in DOMAIN bus : own(bus[k])) => on_bus > 0
  <2>1. ASSUME NEW k \in DOMAIN bus, own(bus[k]) PROVE on_bus # 0
    <3>1. bus[k] \in S
      BY <1>1, <2>1
    <3> HIDE DEF S
    <3> QED
      BY <1>1, <1>4, <3>1, CountNat
  <2> QED
    BY <1>4, <1>8, <2>1
<1> HIDE DEF S, answered, joined
<1>13. Bit(ans /\ own(Head(bus))) \in {0, 1}
       /\ Bit(own(dc[5]) /\ dc[5].op = "load" /\ cut # 5) \in {0, 1}
  BY DEF Bit
<1> QED
  BY <1>4, <1>6, <1>7, <1>8, <1>9, <1>10, <1>11, <1>12, <1>13

-----------------------------------------------------------------------------
(* The parts of the invariant at an edge. *)

(* The bridge counts an answer in the cycle it is there, and nothing else. *)
LEMMA LoadCount ==
  ASSUME Petitions, NEW go, NEW dma, NEW cut, NEW hit, NEW block, NEW ans, NEW error,
         Clock(go, dma, cut, hit, block, ans, error),
         ~VPU_ISSUE(core_issue_valid(go, cut))
  PROVE  /\ load_packets' = load_packets + just_answered
         /\ curr_state = "SEND_DATA" => (answer.by \in {"core", "vec"} <=> just_answered = 1)
<1>0. WellTyped /\ SwIInv /\ Owned /\ Awaited /\ Drained
  BY DEF Petitions
<1>1. load_packets \in Nat /\ curr_state \in OviStates
  BY <1>0 DEF WellTyped, SwTypeOK, OviTypeOK
<1>2. answer.by = "vec" <=> just_answered = 1
  BY <1>0 DEF Owned, just_answered, own
<1>3. just_answered \in {0, 1}
  BY DEF just_answered
<1>4. curr_state # "SEND_DATA" => just_answered = 0
  BY <1>0, <1>2, <1>3 DEF Awaited, vector_loads
<1>5. curr_state = "SEND_DATA" => answer.by # "core"
  BY <1>0, MemoryStates DEF Drained, open_scalar_loads
<1>6. CASE curr_state = "SEND_DATA"
  <2>1. SendData(dccm_ready(go, cut), answer.by \in {"core", "vec"}, answer.data, vpu_credit)
    BY <1>6, Sends
  <2>2. load_packets' = IF answer.by \in {"core", "vec"} THEN load_packets + 1 ELSE load_packets
    BY <2>1 DEF SendData
  <2> QED
    BY <1>1, <1>2, <1>3, <1>5, <1>6, <2>2
<1>7. CASE curr_state = "RECEIVE_DATA"
  <2>1. load_packets' = load_packets
    BY <1>7, Receives DEF ReceiveData
  <2> QED
    BY <1>1, <1>4, <1>7, <2>1
<1>8. CASE curr_state \in {"WAIT_ISSUE", "WAIT_ANSWER"}
  <2>1. load_packets' = load_packets
    BY <1>8, AtRest
  <2> QED
    BY <1>1, <1>4, <1>8, <2>1
<1> QED
  BY <1>1, <1>6, <1>7, <1>8 DEF OviStates

(* When the last answer is there, every petition has been answered. *)
LEMMA LastAnswer ==
  ASSUME Petitions, NEW go, NEW dma, NEW cut, NEW hit, NEW block, NEW ans, NEW error,
         Clock(go, dma, cut, hit, block, ans, error),
         curr_state = "SEND_DATA", answer.by \in {"core", "vec"}, last_load_packet
  PROVE  served = n_packets /\ on_core_bus = 0 /\ in_pipe = 0 /\ on_bus = 0
<1>0. WellTyped /\ SwIInv /\ Progress /\ Accounted
  BY DEF Petitions
<1>1. ~VPU_ISSUE(core_issue_valid(go, cut))
  BY Sends
<1>2. just_answered = 1 /\ on_bus \in Nat
  BY <1>1, LoadCount, BusCount
<1>3. in_pipe \in Nat
  <2>1. IsFiniteSet({s \in Stages : own(dc[s])})
    <3>1. \A s, t \in {s \in Stages : own(dc[s])} : s = t
      BY DEF Petitions, Apart, own
    <3> QED
      BY <3>1, AtMostOne
  <2> QED
    BY <2>1, FS_CardinalityType DEF in_pipe
<1>4. vector_op
  BY <1>0, MemoryStates DEF vector_op
<1>5. served = in_pipe + on_bus + just_answered + load_packets + stored + lost
  BY <1>0, <1>4 DEF Accounted
<1>6. served + on_core_bus <= n_packets /\ load_packets + 1 = n_packets
  BY <1>0 DEF Progress, last_load_packet
<1>7. /\ served \in Nat /\ stored \in Nat /\ lost \in Nat /\ load_packets \in Nat
      /\ n_packets \in Nat /\ on_core_bus \in {0, 1}
  BY <1>0 DEF WellTyped, SwTypeOK, OviTypeOK, on_core_bus
<1> HIDE DEF on_core_bus
<1> QED
  BY <1>2, <1>3, <1>5, <1>6, <1>7

LEMMA AwaitedStep ==
  ASSUME Petitions, NEW go, NEW dma, NEW cut, NEW hit, NEW block, NEW ans, NEW error,
         Clock(go, dma, cut, hit, block, ans, error)
  PROVE  Awaited'
<1> DEFINE issued == VPU_ISSUE(core_issue_valid(go, cut))
<1>0. WellTyped /\ SwIInv /\ Apart /\ Phases /\ Owned /\ Awaited
  BY DEF Petitions
<1>1. ASSUME vector_loads' PROVE ~issued /\ (vector_loads \/ (petition /\ load_valid))
  <2>1. ~issued
    <3>1. ASSUME issued PROVE FALSE
      <4>1. \A s \in Stages : dc'[s].by = "vec" => dc'[s].op # "load"
        BY <3>1, QuietAtIssue
      <4> QED
        BY <1>1, <3>1, <4>1, QuietAtIssue DEF vector_loads
    <3> QED
      BY <3>1
  <2>2. \A s \in Stages : dc'[s].by = "vec" /\ dc'[s].op = "load" =>
          vector_loads \/ (petition /\ load_valid)
    <3> SUFFICES ASSUME NEW s \in Stages, dc'[s].by = "vec", dc'[s].op = "load",
                        ~vector_loads
                 PROVE  petition /\ load_valid
      OBVIOUS
    <3>1. CASE s = 1 /\ petition /\ dc'[1] = lsu_p
      BY <3>1 DEF lsu_p
    <3>2. CASE s > 1 /\ s - 1 \in 1..4 /\ dc'[s] = dc[s - 1]
      <4>1. s - 1 \in Stages
        BY <3>2 DEF Stages
      <4> QED
        BY <3>2, <4>1 DEF vector_loads
    <3> QED
      BY <1>0, <3>1, <3>2, VectorsMove
  <2>3. \A k \in DOMAIN bus' : bus'[k].by = "vec" => vector_loads
    <3> SUFFICES ASSUME NEW k \in DOMAIN bus', bus'[k].by = "vec" PROVE vector_loads
      OBVIOUS
    <3>1. CASE \E j \in DOMAIN bus : bus'[k] = bus[j]
      BY <3>1 DEF vector_loads
    <3>2. CASE bus'[k] = dc[5] /\ dc[5].op = "load" /\ cut # 5
      <4>1. 5 \in Stages
        BY DEF Stages
      <4> QED
        BY <3>2, <4>1 DEF vector_loads
    <3>3. CASE bus'[k].by = "freeze" /\ block
      BY <3>3
    <3> QED
      BY <1>0, <3>1, <3>2, <3>3, BusMembers
  <2>4. answer'.by = "vec" => vector_loads
    <3>1. answer' = NoPacket \/ (1 \in DOMAIN bus /\ answer' = bus[1])
      BY <1>0, BusMembers
    <3> QED
      BY <3>1, PacketTypes DEF vector_loads
  <2> QED
    BY <1>1, <2>1, <2>2, <2>3, <2>4 DEF vector_loads
<1>2. ASSUME vector_loads', curr_state' # "SEND_DATA" PROVE FALSE
  <2>1. ~issued /\ curr_state = "SEND_DATA"
    BY <1>0, <1>1, <1>2 DEF Awaited, load_valid
  <2>2. SendData(dccm_ready(go, cut), answer.by \in {"core", "vec"}, answer.data, vpu_credit)
    BY <2>1, Sends
  <2>3. answer.by \in {"core", "vec"} /\ last_load_packet
    BY <1>2, <2>1, <2>2 DEF SendData
  <2>4. on_core_bus = 0 /\ in_pipe = 0 /\ on_bus = 0
    BY <2>1, <2>3, LastAnswer
  <2>5. ~petition
    BY <2>4 DEF on_core_bus
  <2>6. \A s \in Stages : dc[s].by # "vec"
    <3> DEFINE P == {s \in Stages : own(dc[s])}
    <3>1. \A s, t \in P : s = t
      BY <1>0 DEF Apart, own
    <3>2. IsFiniteSet(P) /\ Cardinality(P) = 0
      <4> HIDE DEF P
      <4>1. IsFiniteSet(P)
        BY <3>1, AtMostOne
      <4> QED
        BY <2>4, <4>1 DEF in_pipe, P
    <3>3. P = {}
      <4> HIDE DEF P
      <4> QED
        BY <3>2, FS_EmptySet
    <3>4. vpu_state = "MEMORY"
      BY <1>0, <2>1, MemoryStates
    <3>5. \A s \in Stages : dc[s].by = "vec" => own(dc[s])
      BY <1>0, <3>4 DEF Owned, own
    <3> QED
      BY <3>3, <3>5
  <2>7. \A k \in DOMAIN bus' : bus'[k].by # "vec"
    <3> SUFFICES ASSUME NEW k \in DOMAIN bus', bus'[k].by = "vec" PROVE FALSE
      OBVIOUS
    <3>1. \A j \in DOMAIN bus : bus[j].by # "vec"
      BY <1>0, <2>1, <2>4, BusCount DEF Owned
    <3>2. 5 \in Stages
      BY DEF Stages
    <3> QED
      BY <1>0, <2>6, <3>1, <3>2, BusMembers
  <2>8. answer'.by # "vec"
    <3>1. \A j \in DOMAIN bus : bus[j].by # "vec"
      BY <1>0, <2>1, <2>4, BusCount DEF Owned
    <3>2. answer' = NoPacket \/ (1 \in DOMAIN bus /\ answer' = bus[1])
      BY <1>0, BusMembers
    <3> QED
      BY <3>1, <3>2, PacketTypes
  <2>9. \A s \in Stages : dc'[s].by # "vec"
    <3> SUFFICES ASSUME NEW s \in Stages, dc'[s].by = "vec" PROVE FALSE
      OBVIOUS
    <3>1. s - 1 \in 1..4 /\ dc'[s] = dc[s - 1]
      BY <1>0, <2>5, VectorsMove
    <3>2. s - 1 \in Stages
      BY <3>1 DEF Stages
    <3> QED
      BY <2>6, <3>1, <3>2
  <2> QED
    BY <1>2, <2>7, <2>8, <2>9 DEF vector_loads
<1> QED
  BY <1>2 DEF Awaited

LEMMA DrainedStep ==
  ASSUME Petitions, LoadsAreDrained,
         NEW go, NEW dma, NEW cut, NEW hit, NEW block, NEW ans, NEW error,
         Clock(go, dma, cut, hit, block, ans, error)
  PROVE  Drained'
<1> DEFINE issued == VPU_ISSUE(core_issue_valid(go, cut))
<1>0. WellTyped /\ SwIInv /\ Drained
  BY DEF Petitions
<1>1. ASSUME ~open_scalar_loads, curr_state # "WAIT_ISSUE" \/ slot.op # "load"
      PROVE  ~open_scalar_loads'
  <2>1. \A s \in Stages : dc[s].by # "core"
    BY <1>1 DEF open_scalar_loads
  <2>2. /\ 1 \in Stages /\ 2 \in Stages /\ 3 \in Stages /\ 4 \in Stages /\ 5 \in Stages
        /\ \A s \in Stages : s = 1 \/ s = 2 \/ s = 3 \/ s = 4 \/ s = 5
    BY DEF Stages
  <2>3. ~block
    BY <2>1, <2>2 DEF Clock
  <2>4. lsu_p_valid(go, cut) => lsu_p.by # "core"
    <3>1. petition => lsu_p.by # "core"
      BY DEF lsu_p
    <3> QED
      BY <1>1, <3>1, ScalarEnters
  <2>5. dc'[1].by # "core"
    BY <2>1, <2>2, <2>4, PacketsMove, PacketTypes
  <2>6. dc'[2].by # "core"
    BY <2>1, <2>2, PacketsMove, PacketTypes
  <2>7. dc'[3].by # "core"
    BY <2>1, <2>2, <2>3, PacketsMove, PacketTypes
  <2>8. dc'[4].by # "core"
    BY <2>1, <2>2, PacketsMove, PacketTypes
  <2>9. dc'[5].by # "core"
    BY <2>1, <2>2, PacketsMove, PacketTypes
  <2>10. ASSUME NEW k \in DOMAIN bus' PROVE bus'[k].by # "core"
    <3>1. CASE \E j \in DOMAIN bus : bus'[k] = bus[j]
      BY <1>1, <3>1 DEF open_scalar_loads
    <3>2. CASE bus'[k] = dc[5] /\ dc[5].op = "load" /\ cut # 5
      BY <2>1, <2>2, <3>2
    <3>3. CASE bus'[k].by = "freeze" /\ block
      BY <3>3
    <3> QED
      BY <1>0, <3>1, <3>2, <3>3, BusMembers
  <2>11. answer'.by # "core"
    <3>1. answer' = NoPacket \/ (1 \in DOMAIN bus /\ answer' = bus[1])
      BY <1>0, BusMembers
    <3> QED
      BY <1>1, <3>1, PacketTypes DEF open_scalar_loads
  <2> QED
    BY <2>2, <2>5, <2>6, <2>7, <2>8, <2>9, <2>10, <2>11 DEF open_scalar_loads
<1>2. CASE issued
  <2>1. instr' = slot.vec /\ slot.op = "vector" /\ (slot.vec.kind = "load" => ~open_scalar_loads)
    BY <1>0, <1>2, Issues DEF LoadsAreDrained
  <2> QED
    BY <1>1, <2>1 DEF Drained
<1>3. CASE ~issued
  <2>1. instr' = instr
    BY <1>3, Keeps DEF Petitions
  <2>2. curr_state = "WAIT_ISSUE" => curr_state' = "WAIT_ISSUE"
    BY <1>3, AtRest
  <2> QED
    BY <1>0, <1>1, <2>1, <2>2 DEF Drained
<1> QED
  BY <1>2, <1>3

(* No petition is raised out of a memory state. *)
LEMMA NoPetition ==
  ASSUME SwIInv, NEW go, NEW dma, NEW cut, NEW hit, NEW block, NEW ans, NEW error,
         Clock(go, dma, cut, hit, block, ans, error),
         curr_state \notin {"RECEIVE_DATA", "SEND_DATA"}
  PROVE  ~petition' /\ on_core_bus' = 0 /\ ~store_valid'
<1>1. ~petition'
  BY Petitions1
<1> QED
  BY <1>1 DEF on_core_bus, petition

LEMMA ReceiveProgress ==
  ASSUME Petitions, NEW go, NEW dma, NEW cut, NEW hit, NEW block, NEW ans, NEW error,
         Clock(go, dma, cut, hit, block, ans, error), curr_state = "RECEIVE_DATA"
  PROVE  Progress'
<1>0. WellTyped /\ SwIInv /\ Progress
  BY DEF Petitions
<1> DEFINE mem_ready == dccm_ready(go, cut)
           send == mem_ready /\ chunk_received
           last == send /\ last_packet
<1>1. ~VPU_ISSUE(core_issue_valid(go, cut))
      /\ ReceiveData(mem_ready, vpu_store_valid, vpu_store_data, vpu_credit)
  BY Receives
<1>2. /\ vpu_state = "MEMORY" /\ ~vpu_sync_start /\ ~sync_end /\ instr.kind = "store"
      /\ vpu_state' = "MEMORY" /\ ~vpu_completed' /\ ~vpu_sync_start'
  BY <1>0, <1>1, MemoryStates, Turns
<1>3. /\ instr' = instr /\ n_packets' = n_packets
      /\ served' = served + on_core_bus
  BY <1>1, Keeps DEF Petitions
<1>4. /\ served \in Nat /\ n_packets \in Nat /\ sent_packets = served
      /\ served + on_core_bus < n_packets
      /\ n_packets = PacketsOf(instr) /\ instr \in VectorInstrs
  BY <1>0 DEF Progress, WellTyped, SwTypeOK, OviTypeOK
<1>5. petition <=> send_store_petition
  BY DEF petition, load_valid, store_valid
<1>6. mem_ready => ~petition
  BY DEF dccm_ready, lsu_p_valid
<1>7. sent_packets' = served'
  BY <1>1, <1>3, <1>4, <1>5 DEF ReceiveData, CountPetition, on_core_bus
<1>8. /\ send_store_petition' = send /\ send_load_petition' = FALSE
      /\ sync_end' = last /\ curr_state' = IF last THEN "WAIT_ANSWER" ELSE "RECEIVE_DATA"
  BY <1>1 DEF ReceiveData
<1>9. petition' <=> send
  BY <1>8 DEF petition, load_valid, store_valid
<1>10. /\ send => served' = served /\ on_core_bus' = 1
       /\ ~send => on_core_bus' = 0
  BY <1>3, <1>4, <1>6, <1>9 DEF on_core_bus
<1>11. last => served' + on_core_bus' = n_packets'
  BY <1>3, <1>4, <1>10 DEF last_packet
<1>12. ~last => served' + on_core_bus' < n_packets'
  <2>1. CASE send /\ ~last
    <3>1. served + 1 # n_packets
      BY <1>4, <2>1 DEF last_packet
    <3>2. on_core_bus = 0
      BY <1>6, <2>1 DEF on_core_bus
    <3> QED
      BY <1>3, <1>4, <1>10, <2>1, <3>1, <3>2
  <2>2. CASE ~send
    <3>1. served' + on_core_bus' = served + on_core_bus
      <4>1. on_core_bus \in {0, 1}
        BY DEF on_core_bus
      <4> HIDE DEF on_core_bus
      <4> QED
        BY <1>3, <1>4, <1>10, <2>2, <4>1
    <3> QED
      BY <1>3, <1>4, <3>1
  <2> QED
    BY <2>1, <2>2
<1>13. sync_end' => last
  BY <1>8
<1> HIDE DEF last, send
<1> QED
  BY <1>2, <1>3, <1>4, <1>7, <1>8, <1>11, <1>12, <1>13 DEF Progress, vector_op

LEMMA SendProgress ==
  ASSUME Petitions, NEW go, NEW dma, NEW cut, NEW hit, NEW block, NEW ans, NEW error,
         Clock(go, dma, cut, hit, block, ans, error), curr_state = "SEND_DATA"
  PROVE  Progress'
<1>0. WellTyped /\ SwIInv /\ Progress
  BY DEF Petitions
<1> DEFINE mem_ready == dccm_ready(go, cut)
           last == answer.by \in {"core", "vec"} /\ last_load_packet
<1>1. ~VPU_ISSUE(core_issue_valid(go, cut))
      /\ SendData(mem_ready, answer.by \in {"core", "vec"}, answer.data, vpu_credit)
  BY Sends
<1>2. /\ vpu_state = "MEMORY" /\ ~vpu_sync_start /\ ~sync_end /\ instr.kind = "load"
      /\ vpu_state' = "MEMORY" /\ ~vpu_completed' /\ ~vpu_sync_start'
  BY <1>0, <1>1, MemoryStates, Turns
<1>3. /\ instr' = instr /\ n_packets' = n_packets
      /\ served' = served + on_core_bus
  BY <1>1, Keeps DEF Petitions
<1>4. /\ served \in Nat /\ n_packets \in Nat /\ sent_packets = served
      /\ served + on_core_bus <= n_packets
      /\ n_packets = PacketsOf(instr) /\ instr \in VectorInstrs
  BY <1>0 DEF Progress, WellTyped, SwTypeOK, OviTypeOK
<1>5. petition <=> send_load_petition
  BY <1>0, <1>2 DEF petition, load_valid, Progress
<1>6. mem_ready => ~petition
  BY DEF dccm_ready, lsu_p_valid
<1>7. sent_packets' = served'
  BY <1>1, <1>3, <1>4, <1>5 DEF SendData, CountPetition, on_core_bus
<1>8. /\ send_load_petition' = (mem_ready /\ sent_packets < n_packets)
      /\ send_store_petition' = FALSE
      /\ sync_end' = last /\ curr_state' = IF last THEN "WAIT_ANSWER" ELSE "SEND_DATA"
  BY <1>1 DEF SendData
<1>9. petition' => mem_ready /\ served < n_packets /\ ~last
  BY <1>4, <1>8 DEF petition, load_valid, store_valid
<1>10. /\ petition' => served' = served /\ on_core_bus' = 1
       /\ ~petition' => on_core_bus' = 0
  BY <1>3, <1>4, <1>6, <1>9 DEF on_core_bus
<1>11. last => served' + on_core_bus' = n_packets'
  <2>1. ASSUME last PROVE served' + on_core_bus' = n_packets'
    <3>1. served = n_packets /\ on_core_bus = 0
      BY <2>1, LastAnswer
    <3>2. on_core_bus' = 0
      BY <1>9, <1>10, <2>1
    <3> QED
      BY <1>3, <1>4, <3>1, <3>2
  <2> QED
    BY <2>1
<1>12. served' + on_core_bus' <= n_packets'
  <2>1. CASE petition'
    BY <1>3, <1>4, <1>9, <1>10, <2>1
  <2>2. CASE ~petition'
    <3>1. on_core_bus \in {0, 1}
      BY DEF on_core_bus
    <3> HIDE DEF on_core_bus
    <3> QED
      BY <1>3, <1>4, <1>10, <2>2, <3>1
  <2> QED
    BY <2>1, <2>2
<1>13. (sync_end' => last) /\ ~store_valid'
  BY <1>8 DEF store_valid
<1> HIDE DEF last
<1> QED
  BY <1>2, <1>3, <1>4, <1>7, <1>8, <1>11, <1>12, <1>13 DEF Progress, vector_op

LEMMA ProgressStep ==
  ASSUME Petitions, WholePackets, WellTyped',
         NEW go, NEW dma, NEW cut, NEW hit, NEW block, NEW ans, NEW error,
         Clock(go, dma, cut, hit, block, ans, error)
  PROVE  Progress'
<1> DEFINE issued == VPU_ISSUE(core_issue_valid(go, cut))
<1>0. WellTyped /\ SwIInv /\ Phases /\ Progress
  BY DEF Petitions
<1>1. CASE issued
  <2>1. /\ vpu_state' = "BUSY" /\ ~vpu_completed' /\ ~vpu_sync_start'
        /\ slot.vec \in VectorInstrs
        /\ instr' = slot.vec /\ curr_state' = "WAIT_ANSWER" /\ n_packets' = PacketsOf(slot.vec)
        /\ sent_packets' = 0 /\ load_packets' = 0 /\ served' = 0
        /\ send_load_petition' = FALSE /\ send_store_petition' = FALSE
    BY <1>0, <1>1, Issues
  <2>2. ~store_valid'
    BY <2>1 DEF store_valid
  <2> QED
    BY <2>1, <2>2 DEF Progress
<1>2. CASE ~issued /\ curr_state \in {"WAIT_ISSUE", "WAIT_ANSWER"}
  <2>1. /\ instr' = instr /\ n_packets' = n_packets
        /\ served' = served + on_core_bus
    BY <1>2, Keeps DEF Petitions
  <2>2. /\ UNCHANGED <<sent_packets, load_packets>>
        /\ sync_end' = FALSE
        /\ curr_state = "WAIT_ISSUE" => curr_state' = "WAIT_ISSUE"
        /\ curr_state = "WAIT_ANSWER" =>
             curr_state' = IF vpu_completed THEN "WAIT_ISSUE"
                           ELSE IF vpu_sync_start THEN memory_state ELSE "WAIT_ANSWER"
    BY <1>2, AtRest
  <2>3. ~petition' /\ on_core_bus' = 0 /\ ~store_valid'
    BY <1>0, <1>2, NoPetition
  <2>4. petition => vpu_state = "MEMORY" /\ ~vpu_sync_start /\ sync_end
    BY <1>0, <1>2 DEF Phases, SwIInv, InStep, memory_state, vector_op
  <2>5. /\ served \in Nat /\ n_packets \in Nat
        /\ served' \in Nat
    BY <1>0 DEF WellTyped, SwTypeOK, OviTypeOK
  <2>6. ~petition => served' = served
    BY <2>1, <2>5 DEF on_core_bus
  <2>7. vector_op' <=> vector_op
    BY <2>1 DEF vector_op
  <2>8. CASE vpu_state = "IDLE" /\ ~vpu_completed
    <3>1. curr_state = "WAIT_ISSUE"
      BY <1>0, <2>8, MemoryStates
    <3>2. vpu_state' = "IDLE" /\ ~vpu_completed' /\ ~vpu_sync_start' /\ curr_state' = "WAIT_ISSUE"
      BY <1>0, <1>2, <2>8, Turns
    <3>3. vector_op' => served' = n_packets'
      BY <1>0, <2>1, <2>4, <2>6, <2>7, <2>8, <3>1 DEF Progress
    <3> QED
      BY <2>3, <3>2, <3>3 DEF Progress
  <2>9. CASE vpu_state = "IDLE" /\ vpu_completed
    <3>1. curr_state = "WAIT_ANSWER"
      BY <1>0, <2>9, MemoryStates
    <3>2. vpu_state' = "IDLE" /\ ~vpu_completed' /\ ~vpu_sync_start' /\ curr_state' = "WAIT_ISSUE"
      BY <1>0, <1>2, <2>9, Turns
    <3>3. vector_op' => served' = n_packets'
      BY <1>0, <2>1, <2>4, <2>6, <2>7, <2>9 DEF Progress
    <3> QED
      BY <2>3, <3>2, <3>3 DEF Progress
  <2>10. CASE vpu_state = "BUSY"
    <3>1. /\ curr_state' = "WAIT_ANSWER"
          /\ \/ vpu_state' = "BUSY" /\ ~vpu_completed' /\ ~vpu_sync_start'
             \/ vpu_state' = "IDLE" /\ vpu_completed' /\ ~vpu_sync_start' /\ instr.kind = "arith"
             \/ vpu_state' = "MEMORY" /\ ~vpu_completed' /\ vpu_sync_start'
      BY <1>0, <1>2, <2>10, Turns
    <3>2. curr_state = "WAIT_ANSWER"
      BY <1>0, <2>10, MemoryStates
    <3>3. served' = 0 /\ sent_packets' = 0 /\ load_packets' = 0
      BY <1>0, <2>2, <2>4, <2>6, <2>10 DEF Progress
    <3>4. n_packets' = PacketsOf(instr') /\ instr' \in VectorInstrs
      BY <1>0, <2>1, <3>2 DEF Progress
    <3>5. instr.kind = "arith" => ~vector_op'
      BY <2>7 DEF vector_op
    <3> QED
      BY <2>2, <2>3, <3>1, <3>3, <3>4, <3>5 DEF Progress
  <2>11. CASE vpu_state = "DRAIN"
    <3>1. /\ curr_state' = "WAIT_ANSWER" /\ ~vpu_sync_start'
          /\ \/ vpu_state' = "DRAIN" /\ ~vpu_completed'
             \/ vpu_state' = "IDLE" /\ vpu_completed'
      BY <1>0, <1>2, <2>11, Turns
    <3>2. curr_state = "WAIT_ANSWER"
      BY <1>0, <2>11 DEF SwIInv, InStep
    <3>3. vector_op /\ served' = n_packets'
      BY <1>0, <2>1, <2>4, <2>6, <2>11 DEF Progress
    <3>4. n_packets' = PacketsOf(instr') /\ instr' \in VectorInstrs
      BY <1>0, <2>1, <3>2 DEF Progress
    <3> QED
      BY <2>2, <2>3, <2>7, <3>1, <3>3, <3>4 DEF Progress
  <2>12. CASE vpu_state = "MEMORY"
    <3>1. /\ curr_state = "WAIT_ANSWER" /\ vector_op /\ ~vpu_completed
          /\ (vpu_sync_start \/ sync_end) /\ ~(vpu_sync_start /\ sync_end)
      BY <1>0, <1>2, <2>12 DEF SwIInv, InStep, memory_state, vector_op
    <3>2. /\ vpu_state' = (IF sync_end THEN "DRAIN" ELSE "MEMORY")
          /\ ~vpu_completed' /\ ~vpu_sync_start'
      BY <1>0, <1>2, <2>12, Turns
    <3>3. n_packets' = PacketsOf(instr') /\ instr' \in VectorInstrs
      BY <1>0, <2>1, <3>1 DEF Progress
    <3>4. CASE sync_end
      <4>1. served' = n_packets' /\ curr_state' = "WAIT_ANSWER"
        BY <1>0, <2>1, <2>2, <2>12, <3>1, <3>4 DEF Progress
      <4> QED
        BY <2>2, <2>3, <2>7, <3>1, <3>2, <3>3, <3>4, <4>1 DEF Progress
    <3>5. CASE ~sync_end
      <4>1. vpu_sync_start /\ served = 0 /\ sent_packets = 0 /\ ~petition
        BY <1>0, <2>4, <3>1, <3>5 DEF Progress
      <4>2. curr_state' = memory_state /\ served' = 0 /\ sent_packets' = 0
        BY <2>2, <2>6, <3>1, <4>1
      <4>3. n_packets' \in Nat /\ n_packets' > 0
        <5>1. instr.kind # "arith"
          BY <3>1 DEF vector_op
        <5> QED
          BY <2>1, <2>5, <3>3, <5>1 DEF WholePackets
      <4>4. served' + on_core_bus' = 0
        BY <2>3, <4>2
      <4>5. curr_state' \in {"RECEIVE_DATA", "SEND_DATA"}
        BY <3>1, <4>2 DEF memory_state, vector_op
      <4> QED
        BY <2>2, <2>3, <3>2, <3>3, <3>5, <4>2, <4>3, <4>4, <4>5 DEF Progress
    <3> QED
      BY <3>4, <3>5
  <2> QED
    BY <1>0, <2>8, <2>9, <2>10, <2>11, <2>12 DEF SwIInv, Typed
<1>3. CASE curr_state = "RECEIVE_DATA"
  BY <1>3, ReceiveProgress
<1>4. CASE curr_state = "SEND_DATA"
  BY <1>4, SendProgress
<1> QED
  BY <1>0, <1>1, <1>2, <1>3, <1>4 DEF SwIInv, Typed, OviStates

LEMMA AccountedStep ==
  ASSUME Petitions, Apart', Owned',
         NEW go, NEW dma, NEW cut, NEW hit, NEW block, NEW ans, NEW error,
         Clock(go, dma, cut, hit, block, ans, error)
  PROVE  Accounted'
<1> DEFINE issued == VPU_ISSUE(core_issue_valid(go, cut))
<1>0. WellTyped /\ SwIInv /\ Apart /\ Owned /\ Progress /\ Accounted
  BY DEF Petitions
<1>1. CASE issued
  <2>1. served' = 0 /\ stored' = 0 /\ lost' = 0 /\ load_packets' = 0 /\ vpu_state' = "BUSY"
    BY <1>0, <1>1, Issues
  <2>2. in_pipe' = 0
    <3>1. \A s \in Stages : ~own(dc[s])'
      BY <1>1, <2>1, QuietAtIssue DEF Owned, own
    <3>2. {s \in Stages : own(dc[s])}' = {}
      BY <3>1
    <3> QED
      BY <3>2, FS_EmptySet DEF in_pipe
  <2>3. on_bus' = 0
    <3>1. \A k \in DOMAIN bus' : ~own(bus[k])'
      BY <1>1, QuietAtIssue DEF own
    <3>2. {k \in DOMAIN bus : own(bus[k])}' = {}
      BY <3>1
    <3> QED
      BY <3>2, FS_EmptySet DEF on_bus
  <2>4. just_answered' = 0
    BY <1>1, QuietAtIssue DEF just_answered, own
  <2> QED
    BY <2>1, <2>2, <2>3, <2>4 DEF Accounted
<1>2. CASE ~issued /\ vector_op
  <2> DEFINE p0 == Bit(petition /\ cut = 0)
             pc == Bit(petition /\ cut # 0)
             early == Bit(own_early)
             five == Bit(own(dc[5]))
             keep == Bit(kept(cut, hit))
             gone == Bit((own_early /\ cut # 0) \/ (own(dc[5]) /\ cut = 5))
             found == Bit(hit /\ own(dc[2]))
             err == Bit(error)
             head == Bit(ans /\ own(Head(bus)))
             joins == Bit(own(dc[5]) /\ dc[5].op = "load" /\ cut # 5)
             stores == Bit(own(dc[5]) /\ dc[5].op = "store" /\ cut # 5)
  <2>1. served = in_pipe + on_bus + just_answered + load_packets + stored + lost
    BY <1>0, <1>2 DEF Accounted
  <2>2. served' = served + on_core_bus /\ lost' = lost + Cardinality(dropped(cut, hit, error))
        /\ stored' = IF own(dc[5]) /\ dc[5].op = "store" /\ cut # 5 THEN stored + 1 ELSE stored
    BY <1>2, Keeps DEF Petitions
  <2>3. in_pipe = early + five /\ in_pipe' = p0 + keep /\ ~(own_early /\ own(dc[5]))
    BY <1>2, PipeCount
  <2>4. lost' = lost + (((gone + pc) + found) + err)
    BY <2>2, LostCount
  <2>5. on_bus' = (on_bus - head) + joins /\ just_answered' = head - err /\ on_bus \in Nat
    BY <1>2, BusCount
  <2>6. load_packets' = load_packets + just_answered
    BY <1>2, LoadCount
  <2>7. on_core_bus = p0 + pc
    BY DEF on_core_bus, Bit
  <2>8. stored' = stored + stores
    <3>1. stored \in Nat
      BY <1>0 DEF WellTyped, SwTypeOK
    <3> QED
      BY <2>2, <3>1 DEF Bit
  <2>9. (early + five) = ((keep + gone) + found) + (joins + stores)
    <3>1. own(dc[5]) => dc[5].op \in {"load", "store"}
      <4>1. 5 \in Stages
        BY DEF Stages
      <4>2. own(dc[5]) => dc[5].op = instr.kind
        BY <1>0, <4>1 DEF Owned, own
      <4> QED
        BY <1>2, <4>2 DEF vector_op
    <3>2. kept(cut, hit) => own_early /\ cut = 0
      BY DEF kept, own_early
    <3>3. hit /\ own(dc[2]) => own_early /\ cut = 0 /\ ~kept(cut, hit)
      <4>1. ASSUME hit, own(dc[2]) PROVE own_early /\ cut = 0
        <5>1. 2 \in 1..4
          OBVIOUS
        <5> QED
          BY <4>1, <5>1 DEF own_early, Clock
      <4>2. ASSUME hit, own(dc[2]), NEW s \in 1..4, own(dc[s]) PROVE s = 2
        <5>1. s \in Stages /\ 2 \in Stages
          BY DEF Stages
        <5> QED
          BY <1>0, <4>2, <5>1 DEF Apart, own
      <4> QED
        BY <4>1, <4>2 DEF kept
    <3>4. own_early /\ cut = 0 /\ ~(hit /\ own(dc[2])) => kept(cut, hit)
      BY DEF own_early, kept
    <3>5. CASE own(dc[5])
      <4>1. early = 0 /\ five = 1 /\ keep = 0 /\ found = 0
        BY <2>3, <3>2, <3>3, <3>5 DEF Bit
      <4>2. gone = (IF cut = 5 THEN 1 ELSE 0) /\ joins + stores = (IF cut = 5 THEN 0 ELSE 1)
        BY <2>3, <3>1, <3>5 DEF Bit
      <4> HIDE DEF early, five, keep, found, gone, joins, stores
      <4> QED
        BY <4>1, <4>2
    <3>6. CASE ~own(dc[5])
      <4>1. five = 0 /\ joins = 0 /\ stores = 0
        BY <3>6 DEF Bit
      <4>2. early = (keep + gone) + found
        BY <3>2, <3>3, <3>4, <3>6 DEF Bit
      <4>3. keep \in {0, 1} /\ gone \in {0, 1} /\ found \in {0, 1}
        BY DEF Bit
      <4> HIDE DEF early, five, keep, found, gone, joins, stores
      <4> QED
        BY <4>1, <4>2, <4>3
    <3> QED
      BY <3>5, <3>6
  <2>10. {p0, pc, early, five, keep, gone, found, err, head, joins, stores} \subseteq {0, 1}
    BY DEF Bit
  <2>11. /\ served \in Nat /\ stored \in Nat /\ lost \in Nat /\ load_packets \in Nat
         /\ just_answered \in {0, 1}
    BY <1>0 DEF WellTyped, SwTypeOK, OviTypeOK, just_answered
  <2> HIDE DEF p0, pc, early, five, keep, gone, found, err, head, joins, stores
  <2>12. served' = in_pipe' + on_bus' + just_answered' + load_packets' + stored' + lost'
    <3>1. served' = served + on_core_bus
      BY <2>2
    <3> QED
      BY <2>1, <2>3, <2>4, <2>5, <2>6, <2>7, <2>8, <2>9, <2>10, <2>11, <3>1
  <2> QED
    BY <2>12 DEF Accounted
<1>3. CASE ~issued /\ ~vector_op
  <2>1. instr' = instr
    BY <1>3, Keeps DEF Petitions
  <2> QED
    BY <1>3, <2>1 DEF Accounted, vector_op
<1> QED
  BY <1>1, <1>2, <1>3

-----------------------------------------------------------------------------
(* The theorem. *)

LEMMA PetitionsInit == ASSUME SwInit PROVE Petitions
<1>1. WellTyped /\ SwIInv
  BY WellTypedInit, SwInitIInv
<1>2. /\ curr_state = "WAIT_ISSUE" /\ send_load_petition = FALSE /\ send_store_petition = FALSE
      /\ instr.kind = "arith"
  BY DEF SwInit, OviInit
<1>3. vpu_state = "IDLE" /\ vpu_completed = FALSE /\ vpu_sync_start = FALSE
  BY DEF SwInit, VpuInit
<1>4. (\A s \in Stages : dc[s] = NoPacket) /\ bus = <<>> /\ answer = NoPacket
  BY DEF SwInit
<1>5. ~petition /\ ~store_valid
  BY <1>2 DEF petition, load_valid, store_valid
<1>6. NoPacket.by = "none"
  BY PacketTypes
<1>7. (\A s \in Stages : dc[s].by = "none") /\ DOMAIN bus = {} /\ answer.by = "none"
  BY <1>4, <1>6
<1>8. 1 \in Stages /\ 2 \in Stages /\ 3 \in Stages /\ (\A s \in 1..3 : s \in Stages)
  BY DEF Stages
<1>9. Apart
  BY <1>5, <1>7, <1>8 DEF Apart
<1>10. Phases
  BY <1>5, <1>7, <1>8 DEF Phases
<1>11. Owned /\ Awaited
  BY <1>7 DEF Owned, Awaited, vector_loads
<1>12. Drained /\ Progress /\ Accounted
  BY <1>2, <1>3, <1>5 DEF Drained, Progress, Accounted, vector_op
<1> QED
  BY <1>1, <1>9, <1>10, <1>11, <1>12 DEF Petitions

LEMMA PetitionsStep ==
  ASSUME LoadsAreDrained, TellsApart, WholePackets, Petitions, [SwNext]_swVars
  PROVE  Petitions'
<1>0. WellTyped /\ SwIInv /\ Apart /\ Phases
  BY DEF Petitions
<1>1. WellTyped' /\ SwIInv'
  BY <1>0, WellTypedStep, SwNextIInv
<1>2. CASE SwNext
  <2>1. PICK go, dma, cut, hit, block, ans, error : Clock(go, dma, cut, hit, block, ans, error)
    BY <1>2, NextIsClock
  <2>2. Apart' /\ Phases'
    BY <1>0, <2>1, ApartStep, PhasesStep
  <2>3. Owned' /\ Awaited' /\ Drained'
    BY <2>1, OwnedStep, AwaitedStep, DrainedStep
  <2>4. Progress'
    BY <1>1, <2>1, ProgressStep
  <2>5. Accounted'
    BY <2>1, <2>2, <2>3, AccountedStep
  <2> QED
    BY <1>1, <2>2, <2>3, <2>4, <2>5 DEF Petitions
<1>3. CASE UNCHANGED swVars
  <2>1. UNCHANGED <<curr_state, sbid_counter, instr, n_packets, sent_packets, load_packets,
                    send_load_petition, send_store_petition, sync_end>>
    BY <1>3 DEF swVars, oviVars, control, counters, pulses
  <2>2. UNCHANGED <<vpu_state, vpu_completed, vpu_sync_start>>
    BY <1>3 DEF swVars, vpuVars
  <2>3. UNCHANGED <<vpu_stall_ff, dc, ld_freeze_dc3, bus, answer, served, stored, lost>>
    BY <1>3 DEF swVars, coreVars, swHistory
  <2>4. Apart' /\ Phases'
    BY <1>0, <2>1, <2>2, <2>3 DEF Apart, Phases, moving, petition, load_valid, store_valid
  <2>5. Owned' /\ Awaited' /\ Drained'
    BY <2>1, <2>2, <2>3
       DEF Petitions, Owned, Awaited, Drained, vector_loads, open_scalar_loads, own, VPU_sb_id
  <2>6. Progress'
    BY <2>1, <2>2, <2>3
       DEF Petitions, Progress, on_core_bus, vector_op, petition, load_valid, store_valid
  <2>7. Accounted'
    BY <2>1, <2>3 DEF Petitions, Accounted, vector_op, in_pipe, on_bus, just_answered, own, VPU_sb_id
  <2> QED
    BY <1>1, <2>4, <2>5, <2>6, <2>7 DEF Petitions
<1> QED
  BY <1>2, <1>3

LEMMA AccountsClosed ==
  ASSUME Petitions PROVE PetitionsAccounted
<1>0. WellTyped /\ SwIInv /\ Progress /\ Accounted
  BY DEF Petitions
<1>1. /\ served \in Nat /\ n_packets \in Nat /\ on_core_bus \in {0, 1}
  BY <1>0 DEF WellTyped, SwTypeOK, OviTypeOK, on_core_bus
<1>2. vector_op /\ vpu_completed => served = n_packets
  BY <1>0 DEF Progress
<1>3. vector_op => served <= n_packets
  <2>1. CASE vpu_state = "IDLE"
    BY <1>0, <1>1, <1>2, <2>1, MemoryStates DEF Progress
  <2>2. CASE vpu_state = "BUSY" \/ vpu_sync_start
    BY <1>0, <1>1, <2>2 DEF Progress
  <2>3. CASE vpu_state = "DRAIN"
    BY <1>0, <1>1, <2>3 DEF Progress
  <2>4. CASE vpu_state = "MEMORY" /\ sync_end
    <3>1. served + on_core_bus = n_packets
      BY <1>0, <2>4 DEF Progress
    <3> HIDE DEF on_core_bus
    <3> QED
      BY <1>1, <3>1
  <2>5. CASE vpu_state = "MEMORY" /\ ~sync_end /\ ~vpu_sync_start
    <3>1. vector_op => curr_state \in {"RECEIVE_DATA", "SEND_DATA"}
      BY <1>0, <2>5 DEF SwIInv, InStep, memory_state, vector_op
    <3>2. vector_op => served + on_core_bus <= n_packets
      <4>1. curr_state = "RECEIVE_DATA" => served + on_core_bus < n_packets
        BY <1>0 DEF Progress
      <4>2. curr_state = "SEND_DATA" => served + on_core_bus <= n_packets
        BY <1>0 DEF Progress
      <4> HIDE DEF on_core_bus
      <4> QED
        BY <1>1, <3>1, <4>1, <4>2
    <3> HIDE DEF on_core_bus
    <3> QED
      BY <1>1, <3>2
  <2> QED
    BY <1>0, <2>1, <2>2, <2>3, <2>4, <2>5 DEF SwIInv, Typed
<1> QED
  BY <1>0, <1>2, <1>3 DEF PetitionsAccounted, Accounted

(* A petition has no handshake in the pipe of the core (swerv.sv lsu_p), and yet none
   disappears: each is in the pipe, on the bus, answered, committed, or was taken by a
   flush, an error or a hit, whatever the program, the widths and the delays; and the
   instruction ends only when all were made.  The hypotheses: no vector load is decoded
   with a scalar load open, two instructions in a row have different tags, and a memory
   instruction has a packet. *)
THEOREM NoPetitionDisappears ==
  ASSUME LoadsAreDrained, TellsApart, WholePackets
  PROVE  SwSpec => []PetitionsAccounted
<1>1. SwSpec => []Petitions
  <2>1. Petitions /\ [SwNext]_swVars => Petitions'
    BY PetitionsStep
  <2> QED
    BY PetitionsInit, <2>1, PTL DEF SwSpec
<1> QED
  BY <1>1, AccountsClosed, PTL

-----------------------------------------------------------------------------
(* The data of a load: the bridge counts answers, so they must come in the order of
   the petitions.  While none was lost, the bus holds the packets that left the
   pipe last, the newest at its end, and the answer is the packet due next.       *)

InOrder ==
  /\ instr.kind = "load" => stored = 0
  /\ lost = 0 => \A k \in DOMAIN bus : bus[k].by = "vec" =>
       /\ \A j \in DOMAIN bus : j >= k => bus[j].by = "vec"
       /\ bus[k].data[2] = (served - in_pipe) - 1 - (Len(bus) - k)
  /\ lost = 0 /\ answer.by = "vec" => answer.data[2] = load_packets
Chunks ==
  /\ ~loading => ~buffer_load_ready
  /\ loading => ChunkCounts /\ (lost = 0 => ChunkHolds([n \in Nat |-> <<VPU_sb_id, n>>]))
Data == InOrder /\ Chunks

(* A load in progress has the pipe, the bus and the answers for itself. *)
LEMMA Alone ==
  ASSUME Petitions, NEW go, NEW dma, NEW cut, NEW hit, NEW block, NEW ans, NEW error,
         Clock(go, dma, cut, hit, block, ans, error),
         instr.kind = "load", curr_state # "WAIT_ISSUE"
  PROVE  /\ ~block
         /\ dc[5].op = "load" => own(dc[5])
         /\ own(dc[5]) => dc[5].op = "load" /\ dc[5].data[2] = served - 1
         /\ answer.by \in {"core", "vec"} => own(answer)
<1>1. ~open_scalar_loads
  BY DEF Petitions, Drained
<1>2. ~block
  BY <1>1 DEF Clock, open_scalar_loads, Stages
<1>3. 5 \in Stages
  BY DEF Stages
<1>4. dc[5].op = "load" => dc[5].by = "vec"
  <2>1. dc[5].by \in {"none", "core", "vec"} /\ dc[5].by # "core"
    BY <1>1, <1>3 DEF Petitions, WellTyped, SwTypeOK, open_scalar_loads
  <2>2. dc[5].by = "none" => dc[5].op = "none"
    BY <1>3, PacketTypes DEF Petitions, WellTyped
  <2> QED
    BY <2>1, <2>2
<1>5. dc[5].by = "vec" =>
        \/ /\ dc[5].data = <<VPU_sb_id, served - 1>> /\ dc[5].op = instr.kind
        \/ dc[5].op = "store" /\ dc[5].data[1] # VPU_sb_id
  BY <1>3 DEF Petitions, Owned
<1>6. answer.by \in {"core", "vec"} => own(answer)
  BY <1>1 DEF Petitions, Owned, open_scalar_loads
<1> QED
  BY <1>2, <1>4, <1>5, <1>6 DEF own

LEMMA NothingLost ==
  ASSUME Petitions, Apart', NEW go, NEW dma, NEW cut, NEW hit, NEW block, NEW ans, NEW error,
         Clock(go, dma, cut, hit, block, ans, error),
         ~VPU_ISSUE(core_issue_valid(go, cut)), lost' = 0
  PROVE  /\ lost = 0 /\ ~error
         /\ own(dc[5]) => cut # 5
         /\ served' - in_pipe' = (served - in_pipe) + Bit(own(dc[5]))
<1>1. lost \in Nat /\ served \in Nat
  BY DEF Petitions, WellTyped, SwTypeOK
<1>2. lost' = lost + Cardinality(dropped(cut, hit, error)) /\ served' = served + on_core_bus
  BY Keeps DEF Petitions
<1>3. Cardinality(dropped(cut, hit, error)) =
           ((Bit((own_early /\ cut # 0) \/ (own(dc[5]) /\ cut = 5))
             + Bit(petition /\ cut # 0)) + Bit(hit /\ own(dc[2]))) + Bit(error)
  BY LostCount
<1>4. /\ lost = 0 /\ ~error /\ ~(hit /\ own(dc[2])) /\ ~(petition /\ cut # 0)
      /\ ~(own_early /\ cut # 0) /\ ~(own(dc[5]) /\ cut = 5)
  BY <1>1, <1>2, <1>3 DEF Bit
<1>5. kept(cut, hit) <=> own_early
  <2>1. ASSUME own_early PROVE kept(cut, hit)
    <3>1. PICK s \in 1..4 : own(dc[s])
      BY <2>1 DEF own_early
    <3>2. cut = 0 /\ ~(s = 2 /\ hit)
      BY <1>4, <2>1, <3>1
    <3> QED
      BY <3>1, <3>2 DEF kept
  <2> QED
    BY <2>1 DEF kept, own_early
<1>6. /\ in_pipe = Bit(own_early) + Bit(own(dc[5]))
      /\ in_pipe' = Bit(petition /\ cut = 0) + Bit(kept(cut, hit))
  BY PipeCount
<1>7. Bit(petition /\ cut = 0) = on_core_bus
  BY <1>4 DEF Bit, on_core_bus
<1>8. Bit(kept(cut, hit)) = Bit(own_early)
  BY <1>5 DEF Bit
<1>9. Bit(own_early) \in {0, 1} /\ Bit(own(dc[5])) \in {0, 1} /\ on_core_bus \in {0, 1}
  BY DEF Bit, on_core_bus
<1>10. served' - in_pipe' = (served - in_pipe) + Bit(own(dc[5]))
  BY <1>1, <1>2, <1>6, <1>7, <1>8, <1>9
<1> QED
  BY <1>4, <1>10

(* The bus after the edge, without its oldest load if that one was answered. *)
LEMMA AnsweredElements ==
  ASSUME WellTyped, NEW ans \in BOOLEAN, ans => bus # <<>>
  PROVE  /\ BusAnswered(ans) \in Seq(Packets) /\ Len(BusAnswered(ans)) = Len(bus) - Bit(ans)
         /\ \A k \in 1..Len(BusAnswered(ans)) :
              k + Bit(ans) \in DOMAIN bus /\ BusAnswered(ans)[k] = bus[k + Bit(ans)]
<1>1. bus \in Seq(Packets)
  BY DEF WellTyped
<1> HIDE DEF Packets
<1>2. CASE ans
  BY <1>1, <1>2 DEF BusAnswered, Bit
<1>3. CASE ~ans
  BY <1>1, <1>3 DEF BusAnswered, Bit
<1> QED
  BY <1>2, <1>3

LEMMA BusOrderStep ==
  ASSUME Petitions, InOrder, Apart',
         NEW go, NEW dma, NEW cut, NEW hit, NEW block, NEW ans, NEW error,
         Clock(go, dma, cut, hit, block, ans, error),
         ~VPU_ISSUE(core_issue_valid(go, cut)), lost' = 0,
         instr.kind = "load", curr_state # "WAIT_ISSUE"
  PROVE  \A k \in DOMAIN bus' : bus'[k].by = "vec" =>
           /\ \A j \in DOMAIN bus' : j >= k => bus'[j].by = "vec"
           /\ bus'[k].data[2] = (served' - in_pipe') - 1 - (Len(bus') - k)
<1> DEFINE q == BusAnswered(ans)
           t == served - in_pipe
<1>1. /\ ~block /\ (dc[5].op = "load" => own(dc[5]))
      /\ own(dc[5]) => dc[5].op = "load" /\ dc[5].data[2] = served - 1
  BY Alone
<1>2. /\ lost = 0 /\ (own(dc[5]) => cut # 5)
      /\ served' - in_pipe' = t + Bit(own(dc[5]))
  BY NothingLost
<1>3. /\ q \in Seq(Packets) /\ Len(q) = Len(bus) - Bit(ans)
      /\ \A k \in 1..Len(q) : k + Bit(ans) \in DOMAIN bus /\ q[k] = bus[k + Bit(ans)]
  BY AnsweredElements DEF Clock, Petitions
<1>4. \A k \in DOMAIN bus : bus[k].by = "vec" =>
        /\ \A j \in DOMAIN bus : j >= k => bus[j].by = "vec"
        /\ bus[k].data[2] = t - 1 - (Len(bus) - k)
  BY <1>2 DEF InOrder
<1>5. bus' = (q \o Joining(cut)) \o <<>>
  BY <1>1, BusMoves DEF Blocking
<1>6. dc[5] \in Packets
  BY DEF Petitions, WellTyped, SwTypeOK, Packets, Stages
<1>7. Bit(ans) \in {0, 1} /\ Len(bus) \in Nat /\ t \in Int
  <2>1. in_pipe \in Int
    BY PipeCount DEF Bit
  <2> QED
    BY <2>1 DEF Bit, Petitions, WellTyped, SwTypeOK
<1>8. own(dc[5]) => t = served - 1 /\ dc[5].by = "vec"
  <2>1. in_pipe = Bit(own_early) + Bit(own(dc[5])) /\ ~(own_early /\ own(dc[5]))
    BY PipeCount
  <2>2. own(dc[5]) => in_pipe = 1
    BY <2>1 DEF Bit
  <2> QED
    BY <2>2 DEF own
<1> HIDE DEF q, t
<1>9. ASSUME NEW k \in 1..Len(q), q[k].by = "vec"
      PROVE  /\ \A j \in 1..Len(q) : j >= k => q[j].by = "vec"
             /\ q[k].data[2] = t - 1 - (Len(q) - k)
  <2>1. k + Bit(ans) \in DOMAIN bus /\ q[k] = bus[k + Bit(ans)]
    BY <1>3
  <2>2. ASSUME NEW j \in 1..Len(q), j >= k PROVE q[j].by = "vec"
    <3>1. j + Bit(ans) \in DOMAIN bus /\ q[j] = bus[j + Bit(ans)] /\ j + Bit(ans) >= k + Bit(ans)
      BY <1>3, <1>7, <2>2
    <3> QED
      BY <1>4, <1>9, <2>1, <3>1
  <2>3. q[k].data[2] = t - 1 - (Len(bus) - (k + Bit(ans)))
    BY <1>4, <1>9, <2>1
  <2>4. Len(bus) - (k + Bit(ans)) = Len(q) - k
    BY <1>3, <1>7
  <2> QED
    BY <2>2, <2>3, <2>4
<1>10. CASE own(dc[5])
  <2>1. bus' = q \o <<dc[5]>>
    <3>1. Joining(cut) = <<dc[5]>>
      BY <1>1, <1>2, <1>10 DEF Joining
    <3> QED
      BY <1>3, <1>5, <1>6, <3>1
  <2>2. Len(bus') = Len(q) + 1 /\ DOMAIN bus' = 1..Len(q) + 1
    BY <1>3, <1>6, <2>1
  <2>3. (\A k \in 1..Len(q) : bus'[k] = q[k]) /\ bus'[Len(q) + 1] = dc[5]
    BY <1>3, <1>6, <2>1
  <2>4. served' - in_pipe' = t + 1 /\ Len(q) \in Nat
    BY <1>2, <1>3, <1>10 DEF Bit
  <2>5. dc[5].by = "vec" /\ dc[5].data[2] = t
    BY <1>1, <1>7, <1>8, <1>10
  <2>6. \A k \in DOMAIN bus' : k \in 1..Len(q) \/ k = Len(q) + 1
    BY <2>2, <2>4
  <2>7. ASSUME NEW k \in 1..Len(q), bus'[k].by = "vec"
        PROVE  /\ \A j \in DOMAIN bus' : j >= k => bus'[j].by = "vec"
               /\ bus'[k].data[2] = (t + 1) - 1 - (Len(bus') - k)
    <3>1. q[k].by = "vec" /\ q[k].data[2] = t - 1 - (Len(q) - k)
      BY <1>9, <2>3, <2>7
    <3>2. t - 1 - (Len(q) - k) = (t + 1) - 1 - (Len(bus') - k)
      BY <1>7, <2>2, <2>4
    <3>3. \A j \in DOMAIN bus' : j >= k => bus'[j].by = "vec"
      BY <1>9, <2>3, <2>5, <2>6, <3>1
    <3> QED
      BY <2>3, <3>1, <3>2, <3>3
  <2>8. ASSUME NEW k \in DOMAIN bus', k = Len(q) + 1
        PROVE  /\ \A j \in DOMAIN bus' : j >= k => bus'[j].by = "vec"
               /\ bus'[k].data[2] = (t + 1) - 1 - (Len(bus') - k)
    <3>1. \A j \in DOMAIN bus' : j >= k => j = k
      BY <2>2, <2>4, <2>8
    <3> QED
      BY <1>7, <2>2, <2>3, <2>4, <2>5, <2>8, <3>1
  <2> QED
    BY <2>4, <2>6, <2>7, <2>8
<1>11. CASE ~own(dc[5])
  <2>1. bus' = q
    <3>1. Joining(cut) = <<>>
      BY <1>1, <1>11 DEF Joining
    <3> QED
      BY <1>3, <1>5, <3>1
  <2>2. DOMAIN q = 1..Len(q) /\ served' - in_pipe' = t
    BY <1>2, <1>3, <1>7, <1>11 DEF Bit
  <2> QED
    BY <1>9, <2>1, <2>2
<1> QED
  BY <1>10, <1>11

(* When the oldest load on the bus is the vector's, every load on it is. *)
LEMMA BusOwn ==
  ASSUME Petitions, InOrder, lost = 0, 1 \in DOMAIN bus, bus[1].by = "vec"
  PROVE  on_bus = Len(bus) /\ Len(bus) \in Nat
<1>1. Len(bus) \in Nat /\ DOMAIN bus = 1..Len(bus)
  BY DEF Petitions, WellTyped
<1>2. ASSUME NEW k \in DOMAIN bus PROVE own(bus[k])
  <2>1. bus[k].by = "vec"
    BY <1>1, <1>2 DEF InOrder
  <2> QED
    BY <2>1 DEF Petitions, Owned
<1>3. {k \in DOMAIN bus : own(bus[k])} = 1..Len(bus)
  BY <1>1, <1>2
<1>4. Cardinality(1..Len(bus)) = Len(bus)
  <2>1. 1 \in Int /\ Len(bus) \in Int
    BY <1>1
  <2>2. Cardinality(1..Len(bus)) = IF 1 > Len(bus) THEN 0 ELSE Len(bus) - 1 + 1
    BY <2>1, FS_Interval
  <2> QED
    BY <1>1, <2>2
<1> QED
  BY <1>1, <1>3, <1>4 DEF on_bus

(* The oldest load of the bus is the packet due after the one that is answered now. *)
LEMMA AnswerOrderStep ==
  ASSUME Petitions, InOrder, Apart',
         NEW go, NEW dma, NEW cut, NEW hit, NEW block, NEW ans, NEW error,
         Clock(go, dma, cut, hit, block, ans, error),
         ~VPU_ISSUE(core_issue_valid(go, cut)), lost' = 0,
         instr.kind = "load", answer'.by = "vec"
  PROVE  answer'.data[2] = load_packets'
<1>1. lost = 0 /\ stored = 0 /\ Accounted /\ vector_op
  BY NothingLost DEF InOrder, Petitions, vector_op
<1>2. 1 \in DOMAIN bus /\ answer' = bus[1]
  BY BusMembers, PacketTypes DEF Petitions
<1>3. on_bus = Len(bus) /\ Len(bus) \in Nat
  BY <1>1, <1>2, BusOwn
<1>4. bus[1].data[2] = (served - in_pipe) - 1 - (Len(bus) - 1)
  BY <1>1, <1>2 DEF InOrder
<1>5. served = in_pipe + on_bus + just_answered + load_packets + stored + lost
  BY <1>1 DEF Accounted
<1>6. load_packets' = load_packets + just_answered
  BY LoadCount
<1>7. /\ served \in Int /\ in_pipe \in Int /\ load_packets \in Int
      /\ just_answered \in Int
  <2>1. in_pipe \in Int
    BY PipeCount DEF Bit
  <2> QED
    BY <2>1 DEF just_answered, Petitions, WellTyped, SwTypeOK, OviTypeOK
<1> QED
  BY <1>1, <1>2, <1>3, <1>4, <1>5, <1>6, <1>7

LEMMA InOrderStep ==
  ASSUME Petitions, Petitions', InOrder,
         NEW go, NEW dma, NEW cut, NEW hit, NEW block, NEW ans, NEW error,
         Clock(go, dma, cut, hit, block, ans, error)
  PROVE  InOrder'
<1>0. WellTyped /\ SwIInv /\ Apart' /\ Awaited' /\ SwIInv'
  BY DEF Petitions
<1>1. CASE VPU_ISSUE(core_issue_valid(go, cut))
  <2>1. stored' = 0
    BY <1>0, <1>1, Issues
  <2>2. (\A k \in DOMAIN bus' : bus'[k].by # "vec") /\ answer'.by # "vec"
    BY <1>1, QuietAtIssue
  <2> QED
    BY <2>1, <2>2 DEF InOrder
<1>2. CASE ~VPU_ISSUE(core_issue_valid(go, cut))
  <2>1. instr' = instr
    BY <1>0, <1>2, Keeps
  <2>2. instr.kind = "load" => stored' = 0
    <3> SUFFICES ASSUME instr.kind = "load" PROVE stored' = 0
      OBVIOUS
    <3>1. stored = 0
      BY DEF InOrder
    <3>2. 5 \in Stages
      BY DEF Stages
    <3>3. own(dc[5]) => dc[5].op = "load"
      BY <3>2 DEF Petitions, Owned, own
    <3> QED
      BY <1>0, <1>2, <3>1, <3>3, Keeps
  <2>3. vector_loads' => instr.kind = "load" /\ curr_state # "WAIT_ISSUE"
    <3> SUFFICES ASSUME vector_loads' PROVE instr.kind = "load" /\ curr_state # "WAIT_ISSUE"
      OBVIOUS
    <3>1. curr_state' = "SEND_DATA"
      BY <1>0 DEF Awaited
    <3>2. instr'.kind = "load"
      BY <1>0, <3>1 DEF SwIInv, Typed, InStep, memory_state
    <3>3. curr_state # "WAIT_ISSUE"
      BY <1>2, <3>1, AtRest
    <3> QED
      BY <2>1, <3>2, <3>3
  <2>4. ASSUME lost' = 0, NEW k \in DOMAIN bus', bus'[k].by = "vec"
        PROVE  /\ \A j \in DOMAIN bus' : j >= k => bus'[j].by = "vec"
               /\ bus'[k].data[2] = (served' - in_pipe') - 1 - (Len(bus') - k)
    <3>1. instr.kind = "load" /\ curr_state # "WAIT_ISSUE"
      BY <2>3, <2>4 DEF vector_loads
    <3> QED
      BY <1>0, <1>2, <2>4, <3>1, BusOrderStep
  <2>5. lost' = 0 /\ answer'.by = "vec" => answer'.data[2] = load_packets'
    <3>1. answer'.by = "vec" => instr.kind = "load"
      BY <2>3 DEF vector_loads
    <3> QED
      BY <1>0, <1>2, <3>1, AnswerOrderStep
  <2> QED
    BY <2>1, <2>2, <2>4, <2>5 DEF InOrder
<1> QED
  BY <1>1, <1>2

(* An answer in SEND_DATA is the word of the packet that is due. *)
LEMMA AnswerIsDue ==
  ASSUME Petitions, InOrder, NEW go, NEW dma, NEW cut, NEW hit, NEW block, NEW ans, NEW error,
         Clock(go, dma, cut, hit, block, ans, error),
         curr_state = "SEND_DATA", lost = 0, answer.by \in {"core", "vec"}
  PROVE  answer.data = <<VPU_sb_id, load_packets>>
<1>1. WellTyped /\ SwIInv
  BY DEF Petitions
<1>2. instr.kind = "load"
  BY <1>1, MemoryStates
<1>3. own(answer)
  BY <1>2, Alone
<1>4. answer.by = "vec" /\ answer.data[1] = VPU_sb_id
  BY <1>3 DEF own
<1>5. answer.data[2] = load_packets
  BY <1>4 DEF InOrder
<1>6. answer.data \in (0..SbIds - 1) \X Nat
  BY <1>1 DEF WellTyped, Packets
<1> QED
  BY <1>4, <1>5, <1>6

LEMMA ChunksStep ==
  ASSUME WholePackets, Petitions, Petitions', Data,
         NEW go, NEW dma, NEW cut, NEW hit, NEW block, NEW ans, NEW error,
         Clock(go, dma, cut, hit, block, ans, error)
  PROVE  Chunks'
<1>0. /\ WellTyped /\ WellTyped' /\ SwIInv /\ SwIInv' /\ Progress /\ Progress' /\ Apart'
      /\ OviTypeOK /\ OviTypeOK'
  BY DEF Petitions, WellTyped, SwTypeOK
<1> DEFINE issued == VPU_ISSUE(core_issue_valid(go, cut))
<1>1. CASE issued
  <2>1. vpu_state' = "BUSY" /\ buffer_load_ready' = FALSE
    BY <1>0, <1>1, Issues
  <2> QED
    BY <2>1 DEF Chunks, loading
<1>2. CASE ~issued /\ curr_state \in {"WAIT_ISSUE", "WAIT_ANSWER"}
  <2>1. buffer_load_ready' = FALSE /\ sync_end' = FALSE
    BY <1>2, AtRest
  <2>2. ASSUME loading'
        PROVE  ChunkCounts' /\ \A w : ChunkHolds(w)'
    <3>1. vpu_state' = "MEMORY" /\ ~vpu_sync_start' /\ instr'.kind = "load"
      BY <2>2 DEF loading
    <3>2. vpu_state = "MEMORY" /\ ~sync_end
      BY <1>0, <1>2, <3>1, Turns DEF SwIInv, Typed
    <3>3. instr' = instr /\ n_packets' = n_packets /\ load_packets' = load_packets
      BY <1>0, <1>2, Keeps, AtRest
    <3>4. vpu_sync_start
      BY <1>0, <1>2, <3>1, <3>2, <3>3 DEF SwIInv, InStep, memory_state
    <3>5. curr_state # "WAIT_ISSUE"
      BY <1>0, <3>4, MemoryStates
    <3>6. load_packets = 0 /\ n_packets = PacketsOf(instr) /\ instr \in VectorInstrs
      BY <1>0, <3>4, <3>5 DEF Progress
    <3>7. n_packets > 0 /\ n_packets \in Nat
      BY <1>0, <3>1, <3>3, <3>6 DEF WholePackets, OviTypeOK
    <3>8. load_packets' = 0 /\ n_packets' \in Nat \ {0} /\ ~buffer_load_ready' /\ ~sync_end'
      BY <2>1, <3>3, <3>6, <3>7
    <3> QED
      BY <3>8, ChunkIsEmpty
  <2> QED
    BY <2>1, <2>2 DEF Chunks
<1>3. CASE curr_state = "RECEIVE_DATA"
  <2>1. instr.kind = "store" /\ ~issued
    BY <1>0, <1>3, MemoryStates, Receives
  <2>2. instr' = instr
    BY <1>0, <2>1, Keeps
  <2>3. buffer_load_ready' = FALSE
    BY <1>3, Receives DEF ReceiveData
  <2> QED
    BY <2>1, <2>2, <2>3 DEF Chunks, loading
<1>4. CASE curr_state = "SEND_DATA"
  <2>1. /\ vpu_state = "MEMORY" /\ ~vpu_sync_start /\ ~sync_end /\ instr.kind = "load"
    BY <1>0, <1>4, MemoryStates
  <2>2. loading /\ ~issued
    BY <1>4, <2>1, Sends DEF loading
  <2>3. UNCHANGED <<instr, sbid_counter>>
    BY <1>0, <2>2, Keeps
  <2>4. loading'
    BY <1>0, <2>1, <2>2, <2>3, Turns DEF loading
  <2>5. SendData(dccm_ready(go, cut), answer.by \in {"core", "vec"}, answer.data, vpu_credit)
    BY <1>4, Sends
  <2>6. ChunkCounts
    BY <2>2 DEF Data, Chunks
  <2>7. ChunkCounts'
    BY <1>0, <2>1, <2>5, <2>6, ChunkSends
  <2>8. ASSUME lost' = 0
        PROVE  ChunkHolds([n \in Nat |-> <<VPU_sb_id, n>>])'
    <3>1. lost = 0
      BY <1>0, <2>2, <2>8, NothingLost
    <3>2. PICK u : u = [n \in Nat |-> <<VPU_sb_id, n>>]
      OBVIOUS
    <3>3. u = [n \in Nat |-> <<VPU_sb_id, n>>]'
      <4>1. VPU_sb_id' = VPU_sb_id
        BY <2>3 DEF VPU_sb_id
      <4> QED
        BY <3>2, <4>1
    <3>4. ChunkHolds(u)
      BY <2>2, <3>1, <3>2 DEF Data, Chunks
    <3>5. load_packets \in Nat
      BY <1>0 DEF OviTypeOK
    <3>6. answer.by \in {"core", "vec"} => answer.data = u[load_packets]
      BY <1>4, <3>1, <3>2, <3>5, AnswerIsDue DEF Data
    <3>7. ChunkHolds(u)'
      <4> DEFINE ready == dccm_ready(go, cut)
                 valid == answer.by \in {"core", "vec"}
                 data == answer.data
      <4>1. SendData(ready, valid, data, vpu_credit) /\ (valid => data = u[load_packets])
        BY <2>5, <3>6
      <4>2. OviTypeOK /\ ~sync_end
        BY <1>0, <2>1
      <4> HIDE DEF ready, valid, data
      <4> QED
        BY <2>6, <3>4, <4>1, <4>2, WordsStored
    <3> QED
      BY <3>3, <3>7
  <2> QED
    BY <2>4, <2>7, <2>8 DEF Chunks
<1> QED
  BY <1>0, <1>1, <1>2, <1>3, <1>4 DEF SwIInv, Typed, OviStates

LEMMA DataInit == ASSUME SwInit PROVE Data
<1>1. instr.kind = "arith" /\ buffer_load_ready = FALSE
  BY DEF SwInit, OviInit
<1>2. DOMAIN bus = {} /\ answer.by = "none"
  BY PacketTypes DEF SwInit
<1> QED
  BY <1>1, <1>2 DEF Data, InOrder, Chunks, loading

LEMMA DataStep ==
  ASSUME WholePackets, Petitions, Petitions', Data, [SwNext]_swVars
  PROVE  Data'
<1>1. CASE SwNext
  <2>1. PICK go, dma, cut, hit, block, ans, error : Clock(go, dma, cut, hit, block, ans, error)
    BY <1>1, NextIsClock
  <2> QED
    BY <2>1, InOrderStep, ChunksStep DEF Data
<1>2. CASE UNCHANGED swVars
  <2>1. UNCHANGED <<sbid_counter, instr, n_packets, load_packets, sync_end, buffer_load_ready,
                    el_id, el_count, BUFFER_LOAD>>
    BY <1>2 DEF swVars, oviVars, control, counters, pulses, buffers
  <2>2. UNCHANGED <<vpu_state, vpu_sync_start, dc, bus, answer, served, stored, lost>>
    BY <1>2 DEF swVars, vpuVars, coreVars, swHistory
  <2>3. InOrder'
    BY <2>1, <2>2 DEF Data, InOrder, in_pipe, own, VPU_sb_id
  <2>4. PICK u : u = [n \in Nat |-> <<VPU_sb_id, n>>]
    OBVIOUS
  <2>5. u = [n \in Nat |-> <<VPU_sb_id, n>>]'
    BY <2>1, <2>4 DEF VPU_sb_id
  <2>6. ChunkHolds(u)' <=> ChunkHolds(u)
    BY <2>1 DEF ChunkHolds, filling
  <2>7. ChunkCounts' <=> ChunkCounts
    BY <2>1 DEF ChunkCounts, filling, per_chunk, extra_elements
  <2>8. loading' <=> loading
    BY <2>1, <2>2 DEF loading
  <2>9. Chunks'
    BY <2>1, <2>2, <2>4, <2>5, <2>6, <2>7, <2>8 DEF Data, Chunks
  <2> QED
    BY <2>3, <2>9 DEF Data
<1> QED
  BY <1>1, <1>2

(* What the theorem asks of the program besides: no vector too long for the shift
   that counts its packets. *)
ShortVectors == \A i \in VectorInstrs : FitsShift(i)

LEMMA DataIsOwn ==
  ASSUME WholeElements, ShortVectors, Petitions, Data
  PROVE  LoadedDataIsOwn
<1> SUFFICES ASSUME buffer_load_ready, lost = 0
             PROVE  LET first == (el_id * instrbits(instr.sew)) \div PacketBits
                        count == (el_count * instrbits(instr.sew)) \div PacketBits
                    IN  \A s \in 0..count - 1 : BUFFER_LOAD[s] = <<VPU_sb_id, first + s>>
  BY DEF LoadedDataIsOwn
<1>1. OviTypeOK /\ SwIInv /\ Progress
  BY DEF Petitions, WellTyped, SwTypeOK
<1>2. loading /\ ChunkCounts /\ ChunkHolds([n \in Nat |-> <<VPU_sb_id, n>>])
  BY DEF Data, Chunks
<1>3. curr_state # "WAIT_ISSUE"
  BY <1>1, <1>2, MemoryStates DEF loading, moving
<1>4. n_packets = PacketsOf(instr) /\ FitsShift(instr)
  BY <1>1, <1>3 DEF Progress, ShortVectors
<1>5. PICK u : u = [n \in Nat |-> <<VPU_sb_id, n>>]
  OBVIOUS
<1> DEFINE first == (el_id * instrbits(instr.sew)) \div PacketBits
           count == (el_count * instrbits(instr.sew)) \div PacketBits
<1>6. \A s \in 0..count - 1 : BUFFER_LOAD[s] = u[first + s]
  BY <1>1, <1>2, <1>4, <1>5, ChunkIsOwn
<1>7. first \in Nat
  <2>1. instr.sew \in Sews /\ el_id \in Nat
    BY <1>1 DEF OviTypeOK, Instructions
  <2>2. el_id * instrbits(instr.sew) \in Nat
    BY <2>1, InstrBits
  <2>3. PacketBits \in Nat \ {0}
    BY OviAssumption
  <2> QED
    BY <2>2, <2>3, DivNat
<1> HIDE DEF first, count
<1>8. \A s \in 0..count - 1 : first + s \in Nat
  BY <1>7
<1>9. \A s \in 0..count - 1 : BUFFER_LOAD[s] = <<VPU_sb_id, first + s>>
  BY <1>5, <1>6, <1>8
<1> QED
  BY <1>9 DEF first, count

(* The bridge assigns answers to packets by counting them (ovi.sv SEND_DATA) and the
   core gives it none of its own order: yet, while no petition is lost, the elements it
   hands to the VPU are those of the packets they are named for, for every program, width
   and delay in which besides a chunk is whole elements and a vector fits the shift
   that counts its packets. *)
THEOREM LoadedDataIsItsOwn ==
  ASSUME LoadsAreDrained, TellsApart, WholePackets, WholeElements, ShortVectors
  PROVE  SwSpec => []LoadedDataIsOwn
<1>1. SwInit => Petitions /\ Data
  BY PetitionsInit, DataInit
<1>2. (Petitions /\ Data) /\ [SwNext]_swVars => (Petitions /\ Data)'
  BY PetitionsStep, DataStep
<1>3. Petitions /\ Data => LoadedDataIsOwn
  BY DataIsOwn
<1> QED
  BY <1>1, <1>2, <1>3, PTL DEF SwSpec
=============================================================================
