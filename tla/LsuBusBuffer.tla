---------------------------- MODULE LsuBusBuffer ----------------------------
(***************************************************************************)
(* The external side of the load/store pipe: the requests of dc2 to dc5,    *)
(* the forwarding of stores to loads (lsu_bus_intf.sv), and the bus buffer  *)
(* (lsu_bus_buffer.sv): an input buffer that merges stores, an array of      *)
(* entries with their ages, an output buffer, and the AXI channels.         *)
(*                                                                         *)
(* A step is one edge of the core clock; lsu_bus_clk_en says whether it is   *)
(* an edge of the bus clock too.  A store writes its own number to each of   *)
(* its bytes, so that what a load returns names the stores it saw.          *)
(***************************************************************************)
EXTENDS Integers, FiniteSets, FiniteSetsExt

CONSTANTS
  DEPTH,              \* RV_LSU_NUM_NBLOAD
  BYTES,              \* bytes of a word, 4 in the code
  TIMER_MAX,          \* 7 in the code
  Words,              \* words of external memory, 0..n; two to a bus word
  Accesses,           \* [op, addr, size, sideeffect] the core may issue
  BusClockDivided,    \* does the bus run on a slower clock than the core?
  CoalescingDisable,  \* bus_coalescing_disable
  PostedDisable,      \* dec_tlu_sideeffect_posted_disable
  BusErrors,          \* does the bus answer with errors?
  Flushes,            \* are there flushes?
  MaxOps              \* bound of the model: accesses issued

Byte == 0..BYTES - 1
Entries == 0..DEPTH - 1
States == {"IDLE", "WAIT", "CMD", "RESP", "DONE"}

word(a) == a \div BYTES
dword(w) == w \div 2

ASSUME BusBufferAssumption ==
  /\ DEPTH \in {2, 4, 8} /\ BYTES \in Nat \ {0} /\ TIMER_MAX \in Nat /\ MaxOps \in Nat
  /\ \A w \in Words : w \in Nat /\ {2 * dword(w), 2 * dword(w) + 1} \subseteq Words
  /\ {BusClockDivided, CoalescingDisable, PostedDisable, BusErrors, Flushes} \subseteq BOOLEAN
  /\ \A a \in Accesses :
       /\ a.op \in {"load", "store"} /\ a.addr \in Nat /\ a.size \in 1..BYTES
       /\ word(a.addr) \in Words /\ word(a.addr + a.size - 1) \in Words
       /\ a.sideeffect \in BOOLEAN
       /\ a.sideeffect => word(a.addr) = word(a.addr + a.size - 1)    \* others take an exception
       /\ \A b \in Accesses :    \* a region has side effects or not
            dword(word(a.addr)) = dword(word(b.addr)) => a.sideeffect = b.sideeffect

VARIABLES
  dc1, dc2, dc3, dc4, dc5,  \* packets, from dc3 on with lsu_busreq_dcX
  fwd_dc3,                  \* bytes forwarded to a load in dc3, if it got all of them
  ld_freeze_dc3, FreezePtr, flush_e3,
  ibuf, buf, buf_age, obuf,
  obuf_wr_enQ, obuf_wr_timer, lsu_bus_clk_en_q,
  bus_rsp_read, bus_rsp_write,   \* the answers registered from the R and B channels
  bus,                      \* the slave: transactions it accepted and has not answered
  memory,                   \* the slave: contents of the external memory
  program,                  \* history: memory as the committed stores left it
  issued,                   \* history: accesses issued so far
  outstanding               \* history: tags of non-blocking loads that decode waits for

vars == <<dc1, dc2, dc3, dc4, dc5, fwd_dc3, ld_freeze_dc3, FreezePtr, flush_e3, ibuf, buf,
          buf_age, obuf, obuf_wr_enQ, obuf_wr_timer, lsu_bus_clk_en_q, bus_rsp_read,
          bus_rsp_write, bus, memory, program, issued, outstanding>>

NoPacket == [valid |-> FALSE, busreq |-> FALSE, nb |-> FALSE]
NoEntry == [state |-> "IDLE"]
Nothing == [valid |-> FALSE]
NoBytes == [b \in {} |-> 0]

-----------------------------------------------------------------------------
(* Addresses and bytes. *)
lo(p) == word(p.addr)
hi(p) == word(p.addr + p.size - 1)
ldst_dual(p) == lo(p) # hi(p)
ldst_samedw(p) == dword(lo(p)) = dword(hi(p))
byteen(p, w) == {b \in Byte : w * BYTES + b \in p.addr..p.addr + p.size - 1}
cells(p) == UNION {{w} \X byteen(p, w) : w \in {lo(p), hi(p)}}

busreq_dc2(flush_dc2_up) == dc2.valid /\ ~flush_dc2_up
lsu_freeze_dc3(flush_lower) == ld_freeze_dc3 /\ ~flush_lower
lsu_commit_dc5(kill) == dc5.valid /\ ~kill

(* What is in the buffers for a byte. *)
req(i) == buf[i].req
pending(i) == buf[i].state \in {"WAIT", "CMD"}

(* The entry in CMD that is in the output buffer since the last bus clock. *)
buf_cmd_state_bus_en(i) ==
  /\ buf[i].state = "CMD" /\ obuf.valid /\ obuf_wr_enQ
  /\ obuf.tag0 = i \/ (obuf.merge /\ obuf.tag1 = i)
age(i) == {j \in buf_age[i] : ~buf_cmd_state_bus_en(j)}

-----------------------------------------------------------------------------
(* Forwarding to a load in dc2. *)

buf_age_younger(i) == {j \in Entries \ {i} : j \notin age(i) /\ buf[j].state # "IDLE"}
hitvec(c) == {i \in Entries : pending(i) /\ req(i).write /\ req(i).word = c[1] /\ c[2] \in req(i).byteen}
hitvecfn(c) == {i \in hitvec(c) : hitvec(c) \cap buf_age_younger(i) = {}}

ibuf_hit(c) ==
  ibuf.valid /\ ibuf.req.write /\ ibuf.req.word = c[1] /\ c[2] \in ibuf.req.byteen
pipe_hit(p, c) == p.valid /\ p.op = "store" /\ c \in cells(p)

byte_hit(c) ==
  \/ \E p \in {dc3, dc4, dc5} : pipe_hit(p, c)
  \/ ibuf_hit(c)
  \/ hitvecfn(c) # {}

fwd_byte_oldest(c) ==    \* faulty: the oldest instruction of the pipe wins
  CASE pipe_hit(dc5, c) -> dc5.id
    [] pipe_hit(dc4, c) /\ ~pipe_hit(dc5, c) -> dc4.id
    [] pipe_hit(dc3, c) /\ ~pipe_hit(dc4, c) /\ ~pipe_hit(dc5, c) -> dc3.id
    [] OTHER -> IF ibuf_hit(c) THEN ibuf.req.data[c[2]]
                ELSE req(CHOOSE i \in hitvecfn(c) : TRUE).data[c[2]]

fwd_byte(c) ==
  CASE pipe_hit(dc3, c) -> dc3.id
    [] pipe_hit(dc4, c) /\ ~pipe_hit(dc3, c) -> dc4.id
    [] pipe_hit(dc5, c) /\ ~pipe_hit(dc4, c) /\ ~pipe_hit(dc3, c) -> dc5.id
    [] OTHER -> IF ibuf_hit(c) THEN ibuf.req.data[c[2]]
                ELSE req(CHOOSE i \in hitvecfn(c) : TRUE).data[c[2]]

ld_full_hit_dc2(flush_dc2_up) ==
  /\ busreq_dc2(flush_dc2_up) /\ dc2.op = "load" /\ ~dc2.sideeffect
  /\ \A c \in cells(dc2) : byte_hit(c)

-----------------------------------------------------------------------------
(* Where a request in dc3 will go: the first entries nobody has. *)

ptrs(p) == IF ~p.busreq THEN {} ELSE IF ldst_dual(p) THEN {p.ptr0, p.ptr1} ELSE {p.ptr0}
reserved_pipe_only == ptrs(dc4) \cup ptrs(dc5)    \* faulty: the ibuf is forgotten
reserved == (IF ibuf.valid THEN {ibuf.tag} ELSE {}) \cup ptrs(dc4) \cup ptrs(dc5)

first_of(free) == IF free = {} THEN DEPTH - 1 ELSE Min(free)
free_entries == {i \in Entries : buf[i].state = "IDLE"} \ reserved
WrPtr0_dc3 == first_of(free_entries)
WrPtr1_dc3 == first_of(IF dc3.busreq THEN free_entries \ {WrPtr0_dc3} ELSE free_entries)

(* How many entries are taken or may be asked for: decode sends neither loads
   nor stores while the buffer may be full. *)
asks(p, asked) == IF ~asked THEN 0 ELSE IF ldst_dual(p) THEN 2 ELSE 1
buf_numvld_any ==
  asks(dc1, dc1.valid) + asks(dc2, dc2.valid) + asks(dc3, dc3.busreq)
  + asks(dc4, dc4.busreq) + asks(dc5, dc5.busreq) + (IF ibuf.valid THEN 1 ELSE 0)
  + Cardinality({i \in Entries : buf[i].state # "IDLE"})
lsu_bus_buffer_full_any_late == buf_numvld_any >= DEPTH    \* faulty
lsu_bus_buffer_full_any == buf_numvld_any >= DEPTH - 1

-----------------------------------------------------------------------------
(* The input buffer. *)

(* The youngest request behind dc5 cannot join the store in dc5. *)
behind(flush_dc2_up) ==
  IF dc4.busreq THEN {dc4} ELSE IF dc3.busreq THEN {dc3}
  ELSE IF busreq_dc2(flush_dc2_up) THEN {dc2} ELSE {}
no_word_merge_dc5(flush_dc2_up) ==
  ~ldst_dual(dc5) /\ \E p \in behind(flush_dc2_up) : p.op = "load" \/ lo(p) # lo(dc5)
no_dword_merge_dc5(flush_dc2_up) ==
  ~ldst_dual(dc5) /\ \E p \in behind(flush_dc2_up) : p.op = "load" \/ dword(lo(p)) # dword(lo(dc5))

only_dc2(flush_dc2_up) == busreq_dc2(flush_dc2_up) /\ ~dc3.busreq /\ ~dc4.busreq /\ ~dc5.busreq

ibuf_byp(flush_dc2_up) ==
  dc5.busreq /\ (dc5.op = "load" \/ no_word_merge_dc5(flush_dc2_up)) /\ ~ibuf.valid
accepted(kill, freeze) == dc5.busreq /\ (lsu_commit_dc5(kill) \/ freeze)
ibuf_wr_en(flush_dc2_up, kill, freeze) == accepted(kill, freeze) /\ ~ibuf_byp(flush_dc2_up)

ibuf_merge_en(kill) ==
  /\ dc5.busreq /\ lsu_commit_dc5(kill) /\ dc5.op = "store"
  /\ ibuf.valid /\ ibuf.req.write /\ lo(dc5) = ibuf.req.word
  /\ ~dc5.sideeffect /\ ~CoalescingDisable
merges(kill) == ibuf_merge_en(kill) /\ ~ldst_dual(dc5)

ibuf_force_drain(flush_dc2_up) ==
  /\ ibuf.valid /\ only_dc2(flush_dc2_up)
  /\ dc2.op = "load" \/ ibuf.req.word # lo(dc2)

ibuf_drain_vld(flush_dc2_up, kill, freeze) ==
  /\ ibuf.valid
  /\ \/ ibuf_wr_en(flush_dc2_up, kill, freeze) /\ ~merges(kill)
     \/ ibuf.timer = TIMER_MAX /\ ~merges(kill)
     \/ ibuf_byp(flush_dc2_up)
     \/ ibuf_force_drain(flush_dc2_up)
     \/ ibuf.req.sideeffect \/ ~ibuf.req.write \/ CoalescingDisable

StoreBytes(p, w) == [b \in IF p.op = "store" THEN byteen(p, w) ELSE {} |-> p.id]
Onto(new, old) == [b \in DOMAIN new \cup DOMAIN old |-> IF b \in DOMAIN new THEN new[b] ELSE old[b]]

(* History: the bytes a load must return, as the program order has them. *)
Expect(p, w) == IF p.op = "load" THEN [b \in byteen(p, w) |-> program[w][b]] ELSE NoBytes

-----------------------------------------------------------------------------
(* What an entry gets: half of the request in dc5, or the input buffer. *)
Half(w, other, high, nomerge) ==
  [write |-> dc5.op = "store", word |-> w, byteen |-> byteen(dc5, w),
   data |-> StoreBytes(dc5, w), expect |-> Expect(dc5, w),
   dual |-> ldst_dual(dc5), samedw |-> ldst_samedw(dc5), dualhi |-> high,
   dualtag |-> other, nomerge |-> nomerge, nb |-> dc5.nb, id |-> dc5.id, sideeffect |-> dc5.sideeffect]
LoHalf(flush_dc2_up) == Half(lo(dc5), dc5.ptr1, FALSE, no_dword_merge_dc5(flush_dc2_up))
HiHalf(flush_dc2_up) == Half(hi(dc5), dc5.ptr0, TRUE, no_dword_merge_dc5(flush_dc2_up))

(* The store in dc5 joins the one in the input buffer, or, if it is dual, its
   low half does so on the way out. *)
Joined(half) == [half EXCEPT !.byteen = @ \cup ibuf.req.byteen, !.data = Onto(@, ibuf.req.data)]
DrainedIbuf(flush_dc2_up, kill) ==
  LET out == IF ibuf_merge_en(kill) /\ ldst_dual(dc5) THEN StoreBytes(dc5, lo(dc5)) ELSE NoBytes
  IN  [ibuf.req EXCEPT !.byteen = @ \cup DOMAIN out, !.data = Onto(out, @),
                       !.nomerge = @ \/ ibuf_force_drain(flush_dc2_up)]

IbufEdge(flush_dc2_up, kill, freeze) ==
  ibuf' =
    IF ibuf_wr_en(flush_dc2_up, kill, freeze)
    THEN [valid |-> TRUE, timer |-> 0,
          tag |-> IF merges(kill) THEN ibuf.tag
                  ELSE IF ldst_dual(dc5) THEN dc5.ptr1 ELSE dc5.ptr0,
          req |-> IF merges(kill) THEN Joined(LoHalf(flush_dc2_up))
                  ELSE IF ldst_dual(dc5) THEN HiHalf(flush_dc2_up) ELSE LoHalf(flush_dc2_up)]
    ELSE IF ibuf_drain_vld(flush_dc2_up, kill, freeze) THEN Nothing
    ELSE IF ibuf.valid /\ ibuf.timer < TIMER_MAX THEN [ibuf EXCEPT !.timer = @ + 1]
    ELSE ibuf

-----------------------------------------------------------------------------
(* The output buffer: the oldest entry in CMD, with the other half of the same
   load if it is in the same bus word. *)

in_cmd(i) == buf[i].state = "CMD" /\ ~buf_cmd_state_bus_en(i)
CmdPtr0Dec == {i \in Entries : in_cmd(i) /\ age(i) = {}}
CmdPtr1Dec == {i \in Entries : in_cmd(i) /\ i \notin CmdPtr0Dec /\ age(i) \subseteq CmdPtr0Dec}
CmdPtr0 == Min(CmdPtr0Dec)
CmdPtr1 == Min(CmdPtr1Dec)

buf_numvld_cmd_any == Cardinality({i \in Entries : in_cmd(i)})
buf_numvld_wrcmd_any == Cardinality({i \in Entries : in_cmd(i) /\ req(i).write})
buf_numvld_pend_any == Cardinality({i \in Entries : buf[i].state = "WAIT" \/ in_cmd(i)})

ibuf_buf_byp(flush_dc2_up) ==
  ibuf_byp(flush_dc2_up) /\ buf_numvld_pend_any = 0 /\ ~ldst_dual(dc5) /\ dc5.op = "store"

obuf_force_wr_en(flush_dc2_up) ==
  /\ only_dc2(flush_dc2_up) /\ ~ibuf.valid
  /\ buf_numvld_cmd_any = 1 /\ CmdPtr0Dec # {} /\ lo(dc2) # req(CmdPtr0).word

(* A single store waits a while for another one to join it. *)
obuf_wr_wait_for_ever(flush_dc2_up) ==    \* faulty: the timer is not looked at
  /\ buf_numvld_wrcmd_any = 1 /\ buf_numvld_cmd_any = 1
  /\ ~CoalescingDisable /\ CmdPtr0Dec # {} /\ ~req(CmdPtr0).nomerge
  /\ ~obuf_force_wr_en(flush_dc2_up)
obuf_wr_wait(flush_dc2_up) ==
  /\ buf_numvld_wrcmd_any = 1 /\ buf_numvld_cmd_any = 1 /\ obuf_wr_timer # TIMER_MAX
  /\ ~CoalescingDisable /\ CmdPtr0Dec # {} /\ ~req(CmdPtr0).nomerge
  /\ ~obuf_force_wr_en(flush_dc2_up)

bus_sideeffect_pend_answers ==    \* faulty: only what was sent
  PostedDisable /\ \E i \in Entries : buf[i].state = "RESP" /\ req(i).sideeffect
bus_sideeffect_pend ==
  /\ PostedDisable
  /\ \/ obuf.valid /\ obuf.sideeffect
     \/ \E i \in Entries : buf[i].state = "RESP" /\ req(i).sideeffect

bus_addr_match_pending_never == FALSE    \* faulty: as if AXI kept the order

(* AXI orders nothing: a transaction waits for those before it in its bus word. *)
bus_addr_match_pending ==
  /\ obuf.valid
  /\ \E i \in Entries :
       /\ buf[i].state = "RESP" /\ dword(req(i).word) = obuf.dword
       /\ i # obuf.tag0 /\ ~(obuf.merge /\ i = obuf.tag1)

same_dword_load(i) == req(i).dual /\ req(i).samedw /\ ~req(i).write
obuf_merge_en ==
  /\ CmdPtr0Dec # {} /\ CmdPtr1Dec # {}
  /\ same_dword_load(CmdPtr0) /\ ~req(CmdPtr0).dualhi /\ ~req(CmdPtr0).sideeffect

lsu_axi_awvalid == obuf.valid /\ obuf.write /\ ~obuf.cmd_done /\ ~bus_addr_match_pending
lsu_axi_wvalid == obuf.valid /\ obuf.write /\ ~obuf.data_done /\ ~bus_addr_match_pending
lsu_axi_arvalid == obuf.valid /\ ~obuf.write /\ ~bus_addr_match_pending

(* ready: the channels on which the slave is ready. *)
wcmd_done(ready) == obuf.cmd_done \/ (lsu_axi_awvalid /\ "aw" \in ready)
wdata_done(ready) == obuf.data_done \/ (lsu_axi_wvalid /\ "w" \in ready)
bus_cmd_sent(ready) ==
  /\ obuf.valid
  /\ \/ wcmd_done(ready) /\ wdata_done(ready)
     \/ lsu_axi_arvalid /\ "ar" \in ready
bus_cmd_ready(ready) ==
  IF obuf.write THEN (obuf.cmd_done \/ "aw" \in ready) /\ (obuf.data_done \/ "w" \in ready)
                ELSE "ar" \in ready

(* A load in two entries of a bus word waits for its other half. *)
other_half_there(flush_dc2_up) ==
  \/ ~same_dword_load(CmdPtr0) \/ CmdPtr1Dec # {}
  \/ req(CmdPtr0).nomerge \/ obuf_force_wr_en(flush_dc2_up)

obuf_wr_en(flush_dc2_up, kill, ready) ==
  /\ \/ ibuf_buf_byp(flush_dc2_up) /\ lsu_commit_dc5(kill)
     \/ CmdPtr0Dec # {} /\ other_half_there(flush_dc2_up)
  /\ ~obuf.valid \/ bus_cmd_ready(ready)
  /\ ~obuf_wr_wait(flush_dc2_up) /\ ~bus_sideeffect_pend /\ ~bus_addr_match_pending

Command(r, tag) ==
  [valid |-> TRUE, write |-> r.write, sideeffect |-> r.sideeffect, dword |-> dword(r.word),
   data |-> [c \in {r.word} \X DOMAIN r.data |-> r.data[c[2]]], tag0 |-> tag, tag1 |-> tag,
   merge |-> FALSE, cmd_done |-> FALSE, data_done |-> FALSE]
NextCommand(flush_dc2_up) ==
  IF ibuf_buf_byp(flush_dc2_up) THEN Command(LoHalf(flush_dc2_up), dc5.ptr0)
  ELSE IF obuf_merge_en THEN [Command(req(CmdPtr0), CmdPtr0) EXCEPT !.tag1 = CmdPtr1, !.merge = TRUE]
  ELSE Command(req(CmdPtr0), CmdPtr0)

obuf_wr_timer_in(wr_en) ==
  IF wr_en THEN 0
  ELSE IF buf_numvld_cmd_any > 0 /\ obuf_wr_timer < TIMER_MAX THEN obuf_wr_timer + 1
  ELSE obuf_wr_timer

ObufEdge(clk_en, flush_dc2_up, kill, ready) ==
  IF ~clk_en THEN UNCHANGED <<obuf, obuf_wr_enQ, obuf_wr_timer>>
  ELSE LET wr_en == obuf_wr_en(flush_dc2_up, kill, ready) IN
    /\ obuf' = IF wr_en THEN NextCommand(flush_dc2_up)
               ELSE IF bus_cmd_sent(ready) THEN Nothing
               ELSE IF obuf.valid /\ obuf.write
                 THEN [obuf EXCEPT !.cmd_done = wcmd_done(ready), !.data_done = wdata_done(ready)]
               ELSE obuf
    /\ obuf_wr_enQ' = wr_en
    /\ obuf_wr_timer' = obuf_wr_timer_in(wr_en)

-----------------------------------------------------------------------------
(* The entries. *)

(* The half of a load that went out with the other one takes its answer. *)
rsp_read_for_dual(i) ==    \* faulty: also if its other half went out alone
  /\ bus_rsp_read.valid
  /\ \/ bus_rsp_read.tag = i
     \/ req(i).dual /\ req(i).dualhi /\ ~req(i).write /\ bus_rsp_read.tag = req(i).dualtag
rsp_read_for(i) ==
  /\ bus_rsp_read.valid
  /\ \/ bus_rsp_read.tag = i
     \/ same_dword_load(i) /\ req(i).dualhi /\ bus_rsp_read.tag = req(i).dualtag
rsp_write_for(i) == bus_rsp_write.valid /\ bus_rsp_write.tag = i
rsp_error(i) ==
  \/ bus_rsp_read.valid /\ bus_rsp_read.tag = i /\ bus_rsp_read.error
  \/ rsp_write_for(i) /\ bus_rsp_write.error

buf_rst(i) ==
  /\ buf[i].state = "DONE" /\ lsu_bus_clk_en_q
  /\ req(i).write \/ ~req(i).dual \/ buf[req(i).dualtag].state = "DONE"

Answered(i) ==
  IF req(i).write /\ ~(bus_rsp_write.valid /\ bus_rsp_write.error) THEN NoEntry
  ELSE [state |-> "DONE", error |-> rsp_error(i),
        req |-> IF ~req(i).write /\ bus_rsp_read.valid
                  THEN [req(i) EXCEPT !.data = bus_rsp_read.data[req(i).word % 2]] ELSE req(i)]

(* Who gets an entry: the input buffer that drains, or the request in dc5 that
   passes it by; a dual request that does not leaves its high half there. *)
lo_direct(flush_dc2_up, kill, freeze) ==
  accepted(kill, freeze) /\ (ibuf_byp(flush_dc2_up) \/ ldst_dual(dc5)) /\ ~ibuf_merge_en(kill)
hi_direct(flush_dc2_up, kill, freeze) ==
  accepted(kill, freeze) /\ ibuf_byp(flush_dc2_up) /\ ldst_dual(dc5)

New(i, flush_dc2_up, kill, freeze) ==
  IF ibuf_drain_vld(flush_dc2_up, kill, freeze) /\ i = ibuf.tag THEN {DrainedIbuf(flush_dc2_up, kill)}
  ELSE IF hi_direct(flush_dc2_up, kill, freeze) /\ i = dc5.ptr1 THEN {HiHalf(flush_dc2_up)}
  ELSE IF lo_direct(flush_dc2_up, kill, freeze) /\ i = dc5.ptr0 THEN {LoHalf(flush_dc2_up)}
  ELSE {}

BufEdge(clk_en, flush_dc2_up, kill, freeze) ==
  buf' = [i \in Entries |->
    CASE buf[i].state = "IDLE" ->
           IF New(i, flush_dc2_up, kill, freeze) = {} THEN NoEntry
           ELSE [state |-> IF clk_en THEN "CMD" ELSE "WAIT", error |-> FALSE,
                 req |-> CHOOSE r \in New(i, flush_dc2_up, kill, freeze) : TRUE]
      [] buf[i].state = "WAIT" -> IF clk_en THEN [buf[i] EXCEPT !.state = "CMD"] ELSE buf[i]
      [] buf[i].state = "CMD" ->
           IF clk_en /\ buf_cmd_state_bus_en(i) THEN [buf[i] EXCEPT !.state = "RESP"] ELSE buf[i]
      [] buf[i].state = "RESP" ->
           IF clk_en /\ (rsp_read_for(i) \/ rsp_write_for(i)) THEN Answered(i) ELSE buf[i]
      [] OTHER -> IF buf_rst(i) THEN NoEntry ELSE buf[i]]

older_in_buf(i, flush_dc2_up, kill, freeze) ==    \* faulty: only those already there
  {j \in Entries : buf[j].state = "WAIT" \/ in_cmd(j)}
older(i, flush_dc2_up, kill, freeze) ==
  {j \in Entries : buf[j].state = "WAIT" \/ in_cmd(j)}
  \cup (IF /\ ibuf_drain_vld(flush_dc2_up, kill, freeze) /\ dc5.busreq
           /\ ibuf_byp(flush_dc2_up) \/ ldst_dual(dc5)
           /\ i = dc5.ptr0 THEN {ibuf.tag} ELSE {})
  \cup (IF ibuf_byp(flush_dc2_up) /\ ldst_dual(dc5) /\ i = dc5.ptr1 THEN {dc5.ptr0} ELSE {})

AgeEdge(flush_dc2_up, kill, freeze) ==
  buf_age' = [i \in Entries |->
    age(i) \cup (IF buf[i].state = "IDLE" /\ New(i, flush_dc2_up, kill, freeze) # {}
                   THEN older(i, flush_dc2_up, kill, freeze) ELSE {})]

-----------------------------------------------------------------------------
(* The pipe. *)

InDc3(p, flush_dc2_up, hold) ==
  IF ~p.valid \/ flush_dc2_up THEN NoPacket
  ELSE [valid |-> TRUE, busreq |-> ~ld_full_hit_dc2(flush_dc2_up), op |-> p.op, addr |-> p.addr,
        size |-> p.size, sideeffect |-> p.sideeffect, id |-> p.id, hold |-> hold, nb |-> FALSE]

lsu_nonblock_load_valid_dc3(flush_dc3, freeze) ==
  dc3.busreq /\ dc3.valid /\ dc3.op = "load" /\ ~flush_dc3 /\ ~dc3.hold /\ ~freeze

(* A load that froze the pipe stays in dc3, its request goes on without it. *)
InDc4(flush_dc3, flush_dc4, freeze) ==
  IF ~dc3.busreq \/ flush_dc4 THEN NoPacket
  ELSE [valid |-> ~flush_dc3 /\ ~freeze, busreq |-> TRUE, op |-> dc3.op, addr |-> dc3.addr,
        size |-> dc3.size, sideeffect |-> dc3.sideeffect, id |-> dc3.id,
        ptr0 |-> WrPtr0_dc3, ptr1 |-> WrPtr1_dc3,
        nb |-> lsu_nonblock_load_valid_dc3(flush_dc3, freeze)]
InDc5(flush_dc4, flush_dc5) ==
  IF dc4.busreq /\ ~flush_dc5 THEN [dc4 EXCEPT !.valid = @ /\ ~flush_dc4]
  ELSE IF dc4.nb THEN [valid |-> FALSE, busreq |-> FALSE, nb |-> TRUE, ptr0 |-> dc4.ptr0]
  ELSE NoPacket

PipeEdge(packet, flush_lower, flush_dc2_up, flush_dc3, kill, hold, freeze) ==
  /\ IF freeze THEN UNCHANGED <<dc1, dc2, fwd_dc3>> /\ dc3' = [dc3 EXCEPT !.busreq = FALSE]
     ELSE /\ dc1' = IF flush_dc2_up THEN NoPacket ELSE packet
          /\ dc2' = IF flush_dc2_up THEN NoPacket ELSE dc1
          /\ dc3' = InDc3(dc2, flush_dc2_up, hold)
          /\ fwd_dc3' = IF ld_full_hit_dc2(flush_dc2_up)
                          THEN [c \in cells(dc2) |-> fwd_byte(c)] ELSE NoBytes
  /\ dc4' = InDc4(flush_dc3, flush_lower, freeze)
  /\ dc5' = InDc5(flush_lower, kill)

ld_freeze_en(hold, flush_dc2_up, freeze) ==
  /\ hold /\ busreq_dc2(flush_dc2_up) /\ dc2.op = "load"
  /\ ~freeze /\ ~ld_full_hit_dc2(flush_dc2_up)
load_answered_early == ld_freeze_dc3 /\ buf_rst(FreezePtr)    \* faulty: by an old FreezePtr
FreezePtrEn == dc3.busreq /\ dc3.op = "load" /\ ld_freeze_dc3
load_answered == ld_freeze_dc3 /\ ~FreezePtrEn /\ buf_rst(FreezePtr)

FreezeEdge(hold, branch, flush_lower, flush_dc2_up, flush_dc3, freeze) ==
  /\ ld_freeze_dc3' = (/\ ld_freeze_dc3 \/ ld_freeze_en(hold, flush_dc2_up, freeze)
                       /\ ~flush_dc3 /\ ~load_answered)
  /\ FreezePtr' = IF FreezePtrEn THEN WrPtr0_dc3 ELSE FreezePtr
  /\ flush_e3' = IF freeze THEN flush_e3 ELSE IF flush_lower THEN "i0" ELSE branch

-----------------------------------------------------------------------------
(* The slave on the bus: it answers what it accepted in any order. *)

Accepted(ready) ==
  IF bus_cmd_sent(ready)
    THEN {[tag |-> obuf.tag0, write |-> obuf.write, dword |-> obuf.dword, data |-> obuf.data]}
    ELSE {}

Written(t) == [w \in Words |-> [b \in Byte |-> IF <<w, b>> \in DOMAIN t.data THEN t.data[<<w, b>>]
                                               ELSE memory[w][b]]]

(* answers: at most one transaction of each kind, with its error. *)
BusEdge(clk_en, ready, reads, writes, error) ==
  IF ~clk_en THEN UNCHANGED <<bus, memory, bus_rsp_read, bus_rsp_write>>
  ELSE /\ bus' = (bus \ (reads \cup writes)) \cup Accepted(ready)
       /\ IF writes = {} THEN memory' = memory /\ bus_rsp_write' = Nothing
          ELSE \E t \in writes :
                 /\ memory' = Written(t)
                 /\ bus_rsp_write' = [valid |-> TRUE, tag |-> t.tag, error |-> error]
       /\ IF reads = {} THEN bus_rsp_read' = Nothing
          ELSE \E t \in reads :
                 bus_rsp_read' = [valid |-> TRUE, tag |-> t.tag, error |-> error,
                                  data |-> [n \in 0..1 |-> memory[2 * t.dword + n]]]

(* What decode hears of non-blocking loads: data or an error for a tag, or that
   the load was not committed. *)
lsu_nonblock_load_data_tags ==
  {i \in Entries : /\ buf[i].state = "DONE" /\ buf_rst(i) /\ req(i).nb
                   /\ ~req(i).dual \/ ~req(i).dualhi}
inv_tags_of_requests(kill) ==    \* faulty: not if the request was flushed
  IF dc5.nb /\ dc5.busreq /\ ~lsu_commit_dc5(kill) THEN {dc5.ptr0} ELSE {}
lsu_nonblock_load_inv_tags(kill) == IF dc5.nb /\ ~lsu_commit_dc5(kill) THEN {dc5.ptr0} ELSE {}

History(flush_dc3, freeze, kill, packet) ==
  /\ outstanding' =
       (outstanding \ (lsu_nonblock_load_data_tags \cup lsu_nonblock_load_inv_tags(kill)))
       \cup (IF lsu_nonblock_load_valid_dc3(flush_dc3, freeze) THEN {WrPtr0_dc3} ELSE {})
  /\ program' = IF dc5.busreq /\ lsu_commit_dc5(kill) /\ dc5.op = "store"
                  THEN [w \in Words |-> [b \in Byte |->
                          IF <<w, b>> \in cells(dc5) THEN dc5.id ELSE program[w][b]]]
                  ELSE program
  /\ issued' = IF packet.valid THEN issued + 1 ELSE issued

-----------------------------------------------------------------------------
Packet(a) == [valid |-> TRUE, busreq |-> FALSE, nb |-> FALSE, op |-> a.op, addr |-> a.addr, size |-> a.size,
              sideeffect |-> a.sideeffect, id |-> issued + 1]

(* Decode sends nothing into a flush, a freeze or a full buffer. *)
Issuable(flush_lower, freeze) ==
  {NoPacket} \cup
  (IF flush_lower \/ flush_e3 # "none" \/ freeze \/ lsu_bus_buffer_full_any \/ issued >= MaxOps
     THEN {} ELSE {Packet(a) : a \in Accesses})

AtMostOne(S) == {{}} \cup {{t} : t \in S}

Edge(clk_en, packet, flush_lower, kill, branch, hold, ready, reads, writes, error) ==
  LET freeze == lsu_freeze_dc3(flush_lower)
      flush_dc2_up == flush_lower \/ flush_e3 # "none"
      flush_dc3 == flush_lower \/ flush_e3 = "i0"
  IN
  /\ PipeEdge(packet, flush_lower, flush_dc2_up, flush_dc3, kill, hold, freeze)
  /\ FreezeEdge(hold, branch, flush_lower, flush_dc2_up, flush_dc3, freeze)
  /\ IbufEdge(flush_dc2_up, kill, freeze)
  /\ BufEdge(clk_en, flush_dc2_up, kill, freeze)
  /\ AgeEdge(flush_dc2_up, kill, freeze)
  /\ ObufEdge(clk_en, flush_dc2_up, kill, ready)
  /\ BusEdge(clk_en, ready, reads, writes, error)
  /\ History(flush_dc3, freeze, kill, packet)
  /\ lsu_bus_clk_en_q' = clk_en

Init ==
  /\ dc1 = NoPacket /\ dc2 = NoPacket /\ dc3 = NoPacket /\ dc4 = NoPacket /\ dc5 = NoPacket
  /\ fwd_dc3 = NoBytes /\ ld_freeze_dc3 = FALSE /\ FreezePtr = 0 /\ flush_e3 = "none"
  /\ ibuf = Nothing /\ obuf = Nothing /\ obuf_wr_enQ = FALSE /\ obuf_wr_timer = 0
  /\ buf = [i \in Entries |-> NoEntry] /\ buf_age = [i \in Entries |-> {}]
  /\ lsu_bus_clk_en_q = FALSE /\ bus_rsp_read = Nothing /\ bus_rsp_write = Nothing
  /\ bus = {} /\ memory = [w \in Words |-> [b \in Byte |-> 0]] /\ program = memory /\ issued = 0
  /\ outstanding = {}

(* The inputs of the edge.  flush_lower: the commit point flushes the pipe;
   kill: and the instruction in dc5 with it; branch: a branch in e3 of this or
   of the other pipe, with a packet in dc2 or dc3 behind it; hold: an instruction needs
   the load in dc2. *)
OnlyIf(possible) == IF possible THEN BOOLEAN ELSE {FALSE}
Next ==
  \E clk_en \in {TRUE, ~BusClockDivided}, flush_lower \in OnlyIf(Flushes) :
    \E packet \in Issuable(flush_lower, lsu_freeze_dc3(flush_lower)),
       kill \in OnlyIf(flush_lower),
       branch \in (IF Flushes /\ ~flush_lower /\ ~ld_freeze_dc3 /\ (dc1.valid \/ dc2.valid)
                   THEN {"none", "i0", "i1"} ELSE {"none"}),
       hold \in OnlyIf(dc2.valid /\ dc2.op = "load" /\ ~flush_lower /\ flush_e3 = "none"),
       ready \in (IF ~clk_en \/ ~obuf.valid THEN {{}}
                  ELSE IF obuf.write THEN SUBSET {"aw", "w"} ELSE SUBSET {"ar"}),
       reads \in (IF clk_en THEN AtMostOne({t \in bus : ~t.write}) ELSE {{}}),
       writes \in (IF clk_en THEN AtMostOne({t \in bus : t.write}) ELSE {{}}) :
      \E error \in OnlyIf(BusErrors /\ reads \cup writes # {}) :
        Edge(clk_en, packet, flush_lower, kill, branch, hold, ready, reads, writes, error)

Spec == Init /\ [][Next]_vars

(* The core clock never stops, the bus clock ticks again and again, and then the
   slave takes what is offered and answers one read and one write it owes. *)
BusServes ==
  \E packet \in Issuable(FALSE, lsu_freeze_dc3(FALSE)),
     hold \in OnlyIf(dc2.valid /\ dc2.op = "load" /\ flush_e3 = "none"),
     reads \in AtMostOne({t \in bus : ~t.write}), writes \in AtMostOne({t \in bus : t.write}) :
    /\ reads = {} => \A t \in bus : t.write
    /\ writes = {} => \A t \in bus : ~t.write
    /\ Edge(TRUE, packet, FALSE, FALSE, "none", hold, {"aw", "w", "ar"}, reads, writes, FALSE)
FairSpec == Spec /\ WF_vars(Next) /\ SF_vars(BusServes)

-----------------------------------------------------------------------------
(* Type invariant; the wait timer of the output buffer (obuf_wr_timer, three bits in
   the code) stops at its maximum and does not wrap. *)
PacketOK(p) == {p.valid, p.busreq, p.nb} \subseteq BOOLEAN
TypeOK ==
  /\ \A p \in {dc1, dc2, dc3, dc4, dc5} : PacketOK(p)
  /\ \A i \in Entries : buf[i].state \in States /\ buf_age[i] \subseteq Entries
  /\ ld_freeze_dc3 \in BOOLEAN /\ FreezePtr \in Entries /\ flush_e3 \in {"none", "i0", "i1"}
  /\ ibuf.valid => ibuf.tag \in Entries /\ ibuf.timer \in 0..TIMER_MAX
  /\ obuf.valid => obuf.tag0 \in Entries /\ obuf.tag1 \in Entries
  /\ obuf_wr_timer \in 0..TIMER_MAX /\ issued \in 0..MaxOps
  /\ memory \in [Words -> [Byte -> Nat]] /\ program \in [Words -> [Byte -> Nat]]

(* Every load returns the bytes that program order gives it, whichever way they
   come: from the pipe, the input buffer and the entries at once, or from the
   bus after the stores before it. *)
ForwardedRight ==
  \A c \in DOMAIN fwd_dc3 :
    fwd_dc3[c] = IF pipe_hit(dc4, c) THEN dc4.id ELSE IF pipe_hit(dc5, c) THEN dc5.id
                 ELSE program[c[1]][c[2]]
LoadsSeeProgramOrder ==
  /\ ForwardedRight
  /\ \A i \in Entries :
       buf[i].state = "DONE" /\ ~req(i).write /\ ~buf[i].error =>
         \A b \in req(i).byteen : req(i).data[b] = req(i).expect[b]

(* When nothing is left in the buffers and on the bus, memory is what the
   committed stores made it: none lost, doubled, undone or reordered. *)
empty == ~ibuf.valid /\ ~obuf.valid /\ (\A i \in Entries : buf[i].state = "IDLE")
MemoryFollowsProgram == empty /\ bus = {} => memory = program

(* An entry has one owner: a request in dc4 or dc5 it is reserved for, the input
   buffer, or the transaction it holds.  The tag of a non-blocking load is the
   number of its entry, so two owners are two loads with one tag. *)
OneOwner ==
  LET busy == {i \in Entries : buf[i].state # "IDLE"}
      tagged == IF ibuf.valid THEN {ibuf.tag} ELSE {}
  IN  /\ ptrs(dc4) \cap ptrs(dc5) = {}
      /\ (ptrs(dc4) \cup ptrs(dc5)) \cap busy = {}
      /\ tagged \cap (ptrs(dc4) \cup ptrs(dc5) \cup busy) = {}
      /\ dc4.busreq /\ ldst_dual(dc4) => dc4.ptr0 # dc4.ptr1

(* The transactions on the bus, and the answers on their way back, are those of
   the entries in RESP: at most one for an entry and for the word it waits for. *)
AnswersHaveOwners ==
  /\ \A t \in bus : /\ buf[t.tag].state = "RESP" /\ req(t.tag).write = t.write
                    /\ dword(req(t.tag).word) = t.dword
  /\ \A t, u \in bus : t.tag = u.tag => t = u
  /\ bus_rsp_read.valid => buf[bus_rsp_read.tag].state = "RESP"
  /\ bus_rsp_write.valid => buf[bus_rsp_write.tag].state = "RESP"

(* "These should be one-hot" (lsu_bus_buffer.sv): one entry is the next to send,
   one the next but one, and one the entry a byte is forwarded from. *)
OneHot ==
  /\ Cardinality(CmdPtr0Dec) <= 1 /\ Cardinality(CmdPtr1Dec) <= 1
  /\ \A w \in Words, b \in Byte : Cardinality(hitvecfn(<<w, b>>)) <= 1

(* Decode gets exactly one word of each non-blocking load: a tag that comes back,
   or that is taken back in dc5, is one it waits for; a tag that is handed out
   is not; and no two come back at once, since their numbers would be ORed. *)
TagsComeBack ==
  /\ lsu_nonblock_load_data_tags \subseteq outstanding
  /\ Cardinality(lsu_nonblock_load_data_tags) <= 1
  /\ dc5.nb => dc5.ptr0 \in outstanding /\ dc5.ptr0 \notin lsu_nonblock_load_data_tags
  /\ \A flush_dc3, freeze \in BOOLEAN :
       lsu_nonblock_load_valid_dc3(flush_dc3, freeze) => WrPtr0_dc3 \notin outstanding

(* The answer that thaws the pipe is the one to the load that froze it. *)
FrozenLoadIsAnswered ==
  ld_freeze_dc3' # ld_freeze_dc3 /\ load_answered =>
    dc3.op = "load" /\ req(FreezePtr).id = dc3.id /\ ~req(FreezePtr).write
NeverThawedByAnother == [][FrozenLoadIsAnswered]_vars

(* Once no more accesses are issued, everything that was committed is sent and
   answered, and the pipe is thawed: a store that waits for company does not
   wait for ever, and no answer is awaited twice. *)
EverythingDrains == <>[](empty /\ bus = {} /\ ~ld_freeze_dc3)

(* Accesses with side effects reach the bus in program order, and one at a time
   when they may not be posted. *)
DevicesInOrder ==
  LET sent == {i \in Entries : buf[i].state = "RESP" /\ req(i).sideeffect}
      waiting == {req(i).id : i \in {j \in Entries : pending(j) /\ req(j).sideeffect}}
                 \cup (IF ibuf.valid /\ ibuf.req.sideeffect THEN {ibuf.req.id} ELSE {})
  IN  /\ \A i \in sent, n \in waiting : req(i).id < n
      /\ PostedDisable => Cardinality(sent) <= 1

(* Entries and ages are sound: OneOwner and OneHot. *)
EntriesSound == TypeOK /\ OneOwner /\ OneHot
=============================================================================
