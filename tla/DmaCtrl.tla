------------------------------ MODULE DmaCtrl ------------------------------
(***************************************************************************)
(* The DMA controller (dma_ctrl.sv): requests of the AXI write and read     *)
(* channels and of the debug module go into one queue with three pointers,  *)
(* to the next free entry (WrPtr), the next one to send to the memories     *)
(* (RdPtr) and the next one to answer (RspPtr).  The data of a read comes    *)
(* back to the entry RdPtr named two or three clocks ago.  The bus has a     *)
(* clock of its own, an enable of the core's clock.                         *)
(*                                                                         *)
(* A request is a number; so is the data a read returns, the number of the  *)
(* request that was sent.                                                  *)
(***************************************************************************)
EXTENDS Integers, Sequences, FiniteSets

CONSTANTS
  DMA_BUF_DEPTH,          \* entries
  dec_tlu_dma_qos_prty,   \* refusals after which decode is stalled
  DrainCycles,            \* clocks a stalled core needs to leave the memories
  Writes, Reads, DbgWrites, DbgReads   \* the memories requests of each kind name

Slots == 0..DMA_BUF_DEPTH - 1
DmaIds == 1..DMA_BUF_DEPTH + 1
Memories == {"dccm", "iccm", "none"}

ASSUME DmaAssumption ==
  /\ DMA_BUF_DEPTH \in {2, 4, 8}     \* the pointers wrap by their width
  /\ dec_tlu_dma_qos_prty \in 0..7 /\ DrainCycles \in Nat
  /\ {Writes, Reads, DbgWrites, DbgReads} \subseteq SUBSET Memories

VARIABLES
  fifo,        \* slot -> the fields of the entry
  wrp, rdp, rsp,        \* WrPtr, RdPtr, RspPtr
  rdp_q,       \* <<RdPtr_Q1, RdPtr_Q2, RdPtr_Q3>>, 0 where no read was sent
  dccm_reads, iccm_reads,    \* reads in the memories, one place per clock
  wrbuf, wrbuf_data_vld, rdbuf,   \* the address of a write, is its data there, the address of a read
  axi_mstr_priority,
  full_bus, bubble_bus,   \* fifo_full_spec_bus, dbg_dma_bubble_bus
  axi_slv_sent_q,
  dma_nack_count,
  stalled,     \* clocks the core has been stalled for
  refused,     \* flips with every refusal, so that a clock that refuses is a step
  dbg,         \* the debug module: "idle", "start" or "wait"
  dma_accessed, dma_answered      \* history: what the last clock performed and answered

dmaVars == <<fifo, wrp, rdp, rsp, rdp_q, dccm_reads, iccm_reads, wrbuf, wrbuf_data_vld, rdbuf,
             axi_mstr_priority, full_bus, bubble_bus, axi_slv_sent_q, dma_nack_count,
             stalled, refused, dbg, dma_accessed, dma_answered>>

Empty == [valid |-> FALSE, id |-> 0, write |-> FALSE, dbg |-> FALSE, mem |-> "none", error |-> FALSE,
          data_valid |-> FALSE, data |-> 0, rpend |-> FALSE, done |-> FALSE, done_bus |-> FALSE]

DmaInit ==
  /\ fifo = [i \in Slots |-> Empty]
  /\ wrp = 0 /\ rdp = 0 /\ rsp = 0 /\ rdp_q = <<0, 0, 0>>
  /\ dccm_reads = <<0, 0, 0>> /\ iccm_reads = <<0, 0>>
  /\ wrbuf = {} /\ wrbuf_data_vld = FALSE /\ rdbuf = {}
  /\ axi_mstr_priority = FALSE
  /\ full_bus = FALSE /\ bubble_bus = FALSE /\ axi_slv_sent_q = FALSE
  /\ dma_nack_count = 0 /\ stalled = 0 /\ refused = FALSE /\ dbg = "idle"
  /\ dma_accessed = {} /\ dma_answered = {}

After(p) == (p + 1) % DMA_BUF_DEPTH

-----------------------------------------------------------------------------
(* From the bus into the queue.  ready: the memory would take an access. *)

wrbuf_ready == wrbuf # {} /\ wrbuf_data_vld
dma_fifo_ready == ~(full_bus \/ bubble_bus)
axi_mstr_valid == (wrbuf_ready \/ rdbuf # {}) /\ dma_fifo_ready
axi_mstr_sel == IF wrbuf_ready /\ rdbuf # {} THEN axi_mstr_priority ELSE wrbuf_ready
axi_mstr_addr == CHOOSE m \in (IF axi_mstr_sel THEN wrbuf ELSE rdbuf) : TRUE

wrbuf_cmd_sent == axi_mstr_valid /\ axi_mstr_sel
rdbuf_cmd_sent == axi_mstr_valid /\ ~axi_mstr_sel

slots_taken == {i \in Slots : fifo[i].valid \/ (axi_mstr_valid /\ i = wrp)}
fifo_empty == slots_taken = {} /\ ~axi_mstr_valid /\ ~axi_slv_sent_q

dbg_dma_bubble == dbg # "idle"
dma_dbg_ready == fifo_empty /\ dbg_dma_bubble
dbg_cmd_valid == dbg = "start" /\ dma_dbg_ready

-----------------------------------------------------------------------------
(* From the queue to the memories. *)

dma_mem_req ==
  LET e == fifo[rdp]
  IN  /\ e.valid /\ ~e.rpend /\ ~e.done /\ ~e.error
      /\ ~e.write \/ e.data_valid
dma_req(ready) == dma_mem_req /\ ready
dma_read(ready, mem) ==
  IF dma_req(ready) /\ ~fifo[rdp].write /\ fifo[rdp].mem = mem THEN fifo[rdp].id ELSE 0

dma_stall_any == dma_mem_req /\ dma_nack_count >= dec_tlu_dma_qos_prty

nack_count_forgets(ready) ==    \* faulty: every refusal is the first
  IF dma_nack_count >= dec_tlu_dma_qos_prty THEN dma_nack_count ELSE 0
dma_nack_count_d(ready) ==
  IF dma_nack_count >= dec_tlu_dma_qos_prty
  THEN IF dma_req(ready) THEN 0 ELSE dma_nack_count
  ELSE IF dma_mem_req /\ ~dma_req(ready) THEN dma_nack_count + 1 ELSE 0

(* The slot a read that comes back is for. *)
dma_rvalid(i) ==
  \/ dccm_reads[3] # 0 /\ i = rdp_q[3]
  \/ iccm_reads[2] # 0 /\ i = rdp_q[2]
dma_rdata(i) ==
  IF dccm_reads[3] # 0 /\ i = rdp_q[3] THEN dccm_reads[3] ELSE iccm_reads[2]

-----------------------------------------------------------------------------
(* From the queue to the requesters. *)

axi_slv_valid == fifo[rsp].valid /\ ~fifo[rsp].dbg /\ fifo[rsp].done_bus
dma_dbg_cmd_done ==
  LET e == fifo[rsp] IN e.valid /\ e.dbg /\ (e.write \/ e.data_valid \/ e.error)

full_of_valid(answer) ==    \* faulty: the request on its way is not counted
  {i \in Slots : fifo[i].valid} = Slots /\ ~answer
fifo_full_spec(answer) == Cardinality(slots_taken) = DMA_BUF_DEPTH /\ ~answer

-----------------------------------------------------------------------------
(* One clock.  bus: the bus clock ticks; ready: the memory of RdPtr is free;
   sent: the requester takes the answer; new: the command of the debug module. *)

Answer(bus, sent) == (sent /\ bus) \/ dma_dbg_cmd_done

NewId == CHOOSE n \in DmaIds : /\ \A i \in Slots : fifo[i].valid => fifo[i].id # n
                               /\ \A k \in DmaIds :
                                    (\A i \in Slots : fifo[i].valid => fifo[i].id # k) => n <= k

(* An error found when the request comes in: no memory has the address. *)
NewEntry(write, is_dbg, mem) ==
  [Empty EXCEPT !.valid = TRUE, !.id = NewId, !.write = write, !.dbg = is_dbg, !.mem = mem,
                !.error = (mem = "none"), !.data_valid = write \/ (mem = "none" /\ ~is_dbg)]

fifo_done_en(i, ready) ==
  \/ i = rdp /\ (fifo[i].error \/ (dma_req(ready) /\ fifo[i].write))
  \/ dma_rvalid(i)

(* fifo_reset wins over every enable; the fields it leaves alone are not read
   while the entry is not valid. *)
Entry(i, bus, ready, sent, new) ==
  LET e == IF i = wrp /\ axi_mstr_valid /\ bus THEN NewEntry(axi_mstr_sel, FALSE, axi_mstr_addr)
           ELSE IF i = wrp /\ dbg_cmd_valid THEN NewEntry(new.write, TRUE, new.mem)
           ELSE fifo[i]
      f == [e EXCEPT !.data_valid = @ \/ dma_rvalid(i),
                     !.data = IF dma_rvalid(i) THEN dma_rdata(i) ELSE @,
                     !.rpend = @ \/ (i = rdp /\ dma_req(ready) /\ ~fifo[i].write),
                     !.done = @ \/ fifo_done_en(i, ready),
                     !.done_bus = @ \/ (bus /\ (fifo[i].done \/ fifo_done_en(i, ready)))]
  IN  IF i = rsp /\ Answer(bus, sent) THEN Empty ELSE f

QueueEdge(bus, ready, sent, new) ==
  /\ fifo' = [i \in Slots |-> Entry(i, bus, ready, sent, new)]
  /\ wrp' = IF (axi_mstr_valid /\ bus) \/ dbg_cmd_valid THEN After(wrp) ELSE wrp
  /\ rdp' = IF dma_req(ready) \/ (fifo[rdp].error /\ ~fifo[rdp].done) THEN After(rdp) ELSE rdp
  /\ rsp' = IF Answer(bus, sent) THEN After(rsp) ELSE rsp
  /\ rdp_q' = <<IF dma_req(ready) /\ ~fifo[rdp].write THEN rdp ELSE 0, rdp_q[1], rdp_q[2]>>

MemoryEdge(ready) ==
  /\ dccm_reads' = <<dma_read(ready, "dccm"), dccm_reads[1], dccm_reads[2]>>
  /\ iccm_reads' = <<dma_read(ready, "iccm"), iccm_reads[1]>>
  /\ dma_nack_count' = IF dma_mem_req THEN dma_nack_count_d(ready) ELSE dma_nack_count
  /\ stalled' = IF dma_stall_any /\ ~dma_req(ready) THEN stalled + 1 ELSE 0
  /\ refused' = (dma_mem_req /\ ~dma_req(ready) /\ ~refused)

(* The channels take the address of a write, its data, the address of a read
   when their buffer is free or goes free (awready, wready, arready). *)
ChannelsEdge ==
  /\ IF wrbuf # {} /\ ~wrbuf_cmd_sent THEN wrbuf' = wrbuf
     ELSE \E aw \in {{}} \cup {{m} : m \in Writes} : wrbuf' = aw
  /\ IF wrbuf_data_vld /\ ~wrbuf_cmd_sent THEN wrbuf_data_vld' = TRUE
     ELSE wrbuf_data_vld' \in (IF Writes = {} THEN {FALSE} ELSE BOOLEAN)
  /\ IF rdbuf # {} /\ ~rdbuf_cmd_sent THEN rdbuf' = rdbuf
     ELSE \E ar \in {{}} \cup {{m} : m \in Reads} : rdbuf' = ar

BusEdge(bus, sent) ==
  IF ~bus
  THEN UNCHANGED <<wrbuf, wrbuf_data_vld, rdbuf, axi_mstr_priority, full_bus, bubble_bus, axi_slv_sent_q>>
  ELSE /\ ChannelsEdge
       /\ axi_mstr_priority' = (axi_mstr_priority # axi_mstr_valid)
       /\ full_bus' = fifo_full_spec(Answer(bus, sent))
       /\ bubble_bus' = dbg_dma_bubble
       /\ axi_slv_sent_q' = sent

(* The debug module asks for one access at a time, of a halted core. *)
DebugEdge ==
  IF dbg = "idle" THEN dbg' \in (IF DbgWrites \cup DbgReads = {} THEN {"idle"} ELSE {"idle", "start"})
  ELSE dbg' = CASE dbg_cmd_valid -> "wait"
                [] dbg = "wait" /\ dma_dbg_cmd_done -> "idle"
                [] OTHER -> dbg

Observed(bus, ready, sent) ==
  /\ dma_accessed' = IF dma_req(ready) THEN {fifo[rdp].id} ELSE {}
  /\ dma_answered' =
       IF ~Answer(bus, sent) THEN {}
       ELSE LET e == fifo[rsp]
            IN  {[id |-> e.id, data |-> IF e.error THEN 0 ELSE IF e.write THEN e.id ELSE e.data]}

(* The core lets the DMA in when decode has been stalled for long enough, and a
   halted core always does. *)
ReadyInputs == IF dbg # "idle" \/ ~dma_mem_req \/ stalled >= DrainCycles THEN {TRUE} ELSE BOOLEAN
DbgCommands == [write : {TRUE}, mem : DbgWrites] \cup [write : {FALSE}, mem : DbgReads]

DmaClock(bus, ready, sent) ==
  /\ IF dbg_cmd_valid THEN \E new \in DbgCommands : QueueEdge(bus, ready, sent, new)
     ELSE QueueEdge(bus, ready, sent, {})
  /\ MemoryEdge(ready)
  /\ Observed(bus, ready, sent)
  /\ BusEdge(bus, sent)
  /\ DebugEdge

DmaNext == \E bus \in BOOLEAN, ready \in ReadyInputs, sent \in BOOLEAN :
             /\ sent => axi_slv_valid
             /\ DmaClock(bus, ready, sent)

(* The bus clock ticks for ever and the requester takes its answers. *)
DmaBusTick == \E ready \in ReadyInputs : DmaClock(TRUE, ready, axi_slv_valid)
DmaSpec == DmaInit /\ [][DmaNext]_dmaVars /\ WF_dmaVars(DmaBusTick)

-----------------------------------------------------------------------------
(* Properties. *)

(* The entries from RspPtr on. *)
Queued ==
  LET n == Cardinality({i \in Slots : fifo[i].valid})
      slot(k) == (rsp + k - 1) % DMA_BUF_DEPTH
  IN  [k \in 1..n |-> [id |-> fifo[slot(k)].id, bad |-> fifo[slot(k)].error,
                       done |-> fifo[slot(k)].rpend \/ fifo[slot(k)].done]]

(* The controller is a queue: whatever the clock of the bus, refusals, the reads
   in the memories and the debug module do, requests are performed once, in
   order, and each answer carries what its own access returned. *)
Queue == INSTANCE DmaQueue WITH Ids <- DmaIds, Capacity <- DMA_BUF_DEPTH, requests <- Queued,
                                accessed <- dma_accessed, answered <- dma_answered
DmaImplementsQueue == Queue!Spec

(* Every request in the queue is answered, and every access of the debug module
   ends: the core cannot keep the DMA out of the memories for ever. *)
EveryRequestAnswered ==
  /\ \A i \in Slots : fifo[i].valid ~> ~fifo[i].valid
  /\ dbg = "start" ~> dbg = "idle"
=============================================================================
