------------------------------ MODULE LsuStbuf ------------------------------
(***************************************************************************)
(* The DCCM/PIC side of the load/store pipe: stages dc1 to dc5             *)
(* (lsu_lsc_ctl.sv), the store buffer with its forwarding (lsu_stbuf.sv),   *)
(* the port of the DCCM and of the PIC (lsu_dccm_ctl.sv, lsu_dccm_mem.sv)   *)
(* and the merge of store data with the word it belongs to (lsu_ecc.sv).    *)
(*                                                                         *)
(* A word is BYTES bytes wide and a byte holds one value.  Only the bytes   *)
(* of Watched are ever given a value other than 0 by a store: the pipe      *)
(* never looks at the data it moves, so what holds of one byte holds of     *)
(* them all.  A stage that holds nothing holds NoPacket, whatever its       *)
(* registers were left with.                                                *)
(***************************************************************************)
EXTENDS Integers, FiniteSets, FiniteSetsExt, Functions

CONSTANTS
  DEPTH,          \* LSU_STBUF_DEPTH
  BYTES,          \* DCCM_BYTE_WIDTH
  NumBanks,       \* DCCM_NUM_BANKS
  Words,          \* words of each internal memory, 0..n
  Values,         \* what a byte may hold
  Watched,        \* <<region, byte address>> whose values are followed
  CoreAccesses,   \* [op, region, addr, size] the core may issue
  DmaAccesses,    \* [op, region, addr, size] the DMA may issue
  EccErrors,      \* does the DCCM return words with single-bit errors?
  MaxInFlight     \* bound of the model: packets in dc1 to dc5

Internal == {"dccm", "pic"}
Byte == 0..BYTES - 1
Cells == Internal \X Words
Entries == 0..DEPTH - 1

ASSUME StbufAssumption ==
  /\ DEPTH \in {2, 4, 8} /\ BYTES \in Nat \ {0} /\ NumBanks \in Nat \ {0}
  /\ 0 \in Values
  /\ \A a \in CoreAccesses \cup DmaAccesses :
       /\ a.op \in {"load", "store"} /\ a.addr \in Nat /\ a.size \in {1, BYTES, 2 * BYTES}
       /\ a.region = "pic" => a.size = BYTES /\ a.addr % BYTES = 0
       /\ a.region \in Internal =>
            a.addr \div BYTES \in Words /\ (a.addr + a.size - 1) \div BYTES \in Words
  /\ \A a \in DmaAccesses : a.region = "dccm"
  /\ \A a \in CoreAccesses : a.size # 2 * BYTES

VARIABLES
  dc1, dc2, dc3,    \* lsu_pkt_dc1 to lsu_pkt_dc3 with their addresses and data
  dc4, dc5,         \* what dc4 and dc5 still need of a packet that took an entry
  rd_dc2, rd_dc3,   \* the words read from the DCCM or the PIC
  fwd_dc3,          \* the bytes forwarded to dc3
  stbuf, WrPtr, RdPtr,
  ld_freeze_dc3, flush_e3,
  array,            \* the contents of the DCCM and of the PIC registers
  mem               \* history: memory as the committed stores and the DMA left it

vars == <<dc1, dc2, dc3, dc4, dc5, rd_dc2, rd_dc3, fwd_dc3, stbuf, WrPtr, RdPtr,
          ld_freeze_dc3, flush_e3, array, mem>>

NoPacket == [valid |-> FALSE]
NoEntry == [data_vld |-> FALSE, drain_vld |-> FALSE, flush_vld |-> FALSE]
NoWrite == [reqvld |-> FALSE]
NoBytes == [b \in {} |-> 0]
NoRead == [lo |-> NoBytes, hi |-> NoBytes]

-----------------------------------------------------------------------------
(* Addresses. *)

word(a) == a \div BYTES
end_addr(p) == p.addr + p.size - 1
lo(p) == <<p.region, word(p.addr)>>
hi(p) == <<p.region, word(end_addr(p))>>
ldst_dual(p) == lo(p) # hi(p)
bank(cell) == cell[2] % NumBanks

byteen(p, cell) == {b \in Byte : cell[2] * BYTES + b \in p.addr..end_addr(p)}
databyte(p, cell, b) == p.data[cell[2] * BYTES + b - p.addr + 1]

internal(p) == p.valid /\ p.region \in Internal
core(p) == p.valid /\ ~p.dma

(* What an issued packet carries: a store to a watched byte any value. *)
StoreData(a) ==
  {d \in [1..a.size -> Values] :
     \A n \in 1..a.size : <<a.region, a.addr + n - 1>> \notin Watched => d[n] = 0}

Packet(a, dma, d) ==
  [valid |-> TRUE, dma |-> dma, op |-> a.op, region |-> a.region, addr |-> a.addr,
   size |-> a.size, data |-> d]

Packets(accesses, dma) ==
  UNION {{Packet(a, dma, d) : d \in IF a.op = "store" THEN StoreData(a) ELSE {<<>>}} :
         a \in accesses}
CorePackets == Packets(CoreAccesses, FALSE)
DmaPackets == Packets(DmaAccesses, TRUE)

-----------------------------------------------------------------------------
(* The memory port, in dc1. *)

(* An aligned word brings its own ECC: only the other stores read first. *)
whole_words(p) == p.size >= BYTES /\ p.addr % BYTES = 0
reads_dccm(p) == internal(p) /\ p.region = "dccm" /\ (p.op = "load" \/ ~whole_words(p))
lsu_dccm_rden_dc1 == reads_dccm(dc1)
picm_access_dc1 == internal(dc1) /\ dc1.region = "pic"    \* picm_rden | picm_mken

lsu_freeze_dc3(flush_lower) == ld_freeze_dc3 /\ ~flush_lower

head == stbuf[RdPtr]
stbuf_reqvld_any == head.drain_vld
stbuf_addr_in_pic_any == head.addr[1] = "pic"

(* Faulty variants, for the checks of the properties: the drain ignores the bank
   that dc1 reads, or goes on while the pipe is frozen. *)
lsu_stbuf_commit_any_anybank(freeze) == stbuf_reqvld_any /\ ~freeze /\ ~picm_access_dc1
lsu_stbuf_commit_any_frozen(freeze) ==
  /\ stbuf_reqvld_any
  /\ lsu_dccm_rden_dc1 => bank(head.addr) \notin {bank(lo(dc1)), bank(hi(dc1))}

lsu_stbuf_commit_any(freeze) ==
  /\ stbuf_reqvld_any /\ ~freeze
  /\ \/ ~lsu_dccm_rden_dc1 /\ ~picm_access_dc1
     \/ picm_access_dc1 /\ ~stbuf_addr_in_pic_any
     \/ lsu_dccm_rden_dc1 /\ \/ stbuf_addr_in_pic_any
                             \/ bank(head.addr) \notin {bank(lo(dc1)), bank(hi(dc1))}

(* A bank has one port: in a cycle in which it is written it reads nothing. *)
Garbage == -1
ReadCell(cell, commit) ==
  IF commit /\ head.addr[1] = "dccm" /\ cell[1] = "dccm" /\ bank(head.addr) = bank(cell)
    THEN [b \in Byte |-> Garbage]
    ELSE array[cell]

ReadPort(commit) ==
  IF lsu_dccm_rden_dc1 \/ (picm_access_dc1 /\ dc1.op = "load")
    THEN [lo |-> ReadCell(lo(dc1), commit), hi |-> ReadCell(hi(dc1), commit)]
    ELSE NoRead

-----------------------------------------------------------------------------
(* The word an instruction in dc3 makes: its own bytes over the forwarded
   ones over the ones that were read. *)

Over(new, old) == [b \in Byte |-> IF b \in DOMAIN new THEN new[b]
                                  ELSE IF b \in DOMAIN old THEN old[b] ELSE Garbage]

StoreBytes(p, cell) ==
  [b \in IF p.op = "store" THEN byteen(p, cell) ELSE {} |-> databyte(p, cell, b)]

lsu_rdata_lo_dc3 == Over(fwd_dc3.lo, rd_dc3.lo)
lsu_rdata_hi_dc3 == Over(fwd_dc3.hi, rd_dc3.hi)

store_ecc_datafn_lo_dc3 == Over(StoreBytes(dc3, lo(dc3)), lsu_rdata_lo_dc3)
store_ecc_datafn_hi_dc3 == Over(StoreBytes(dc3, hi(dc3)), lsu_rdata_hi_dc3)

-----------------------------------------------------------------------------
(* Requests for an entry, and how full the buffer is. *)

numvld == Cardinality({i \in Entries : stbuf[i].data_vld})
spec(p) == IF ldst_dual(p) THEN 2 ELSE 1
stbuf_specvld_any ==
  numvld + (IF dc1.valid THEN spec(dc1) ELSE 0)
         + (IF internal(dc2) THEN spec(dc2) ELSE 0)
         + (IF internal(dc3) THEN spec(dc3) ELSE 0)

(* Faulty variants: one entry too many, or loads that ask for none. *)
lsu_stbuf_full_any_late == stbuf_specvld_any > DEPTH - 1
lsu_stbuf_full_any_stores ==
  numvld + Quantify({1, 2, 3}, LAMBDA n :
             LET p == <<dc1, dc2, dc3>>[n] IN p.valid /\ p.op = "store") > DEPTH - 2

lsu_stbuf_full_any == stbuf_specvld_any > DEPTH - 2

store_stbuf_reqvld(flush_dc3, freeze) ==
  internal(dc3) /\ dc3.op = "store" /\ (~flush_dc3 \/ dc3.dma) /\ ~freeze

(* err: which of the two words had a single-bit error, {} or a subset of
   {"lo", "hi"}.  A load writes the corrected word back through the buffer. *)
load_stbuf_reqvld(flush_dc3, freeze, err) ==
  internal(dc3) /\ dc3.op = "load" /\ err # {} /\ (~flush_dc3 \/ dc3.dma) /\ ~freeze
dual_ecc_error(err) == err = {"lo", "hi"}

(* Faulty variant: a load repair takes an entry whether there is one or not. *)
ldst_stbuf_reqvld_noroom(flush_dc3, freeze, err) ==
  store_stbuf_reqvld(flush_dc3, freeze) \/ load_stbuf_reqvld(flush_dc3, freeze, err)

ldst_stbuf_reqvld(flush_dc3, freeze, err) ==
  \/ store_stbuf_reqvld(flush_dc3, freeze)
  \/ /\ load_stbuf_reqvld(flush_dc3, freeze, err)
     /\ IF dual_ecc_error(err) THEN numvld < DEPTH - 1 ELSE numvld < DEPTH

dual_stbuf_write(flush_dc3, freeze, err) ==
  /\ dc3.valid /\ ldst_dual(dc3)
  /\ store_stbuf_reqvld(flush_dc3, freeze) \/ dual_ecc_error(err)

(* The errors that are corrected on the way and, for a load, written back; those
   of a store's words leave no other trace. *)
Errors ==
  IF EccErrors /\ reads_dccm(dc3) /\ dc3.op = "load"
    THEN SUBSET (IF ldst_dual(dc3) THEN {"lo", "hi"} ELSE {"lo"})
    ELSE {{}}

-----------------------------------------------------------------------------
(* Forwarding to dc2: from the valid entries, the newest first, and over them
   from the instruction in dc3 that takes an entry in this very cycle. *)

(* The entries in the order the buffer was filled, the newest last. *)
slot(k) == (WrPtr + k) % DEPTH

(* Faulty variant: the region is not compared. *)
forwards_aliased(e, cell, b, dma) ==
  e.data_vld /\ ~e.flush_vld /\ (e.drain_vld \/ ~dma) /\ e.addr[2] = cell[2] /\ b \in e.byteen

forwards(e, cell, b, dma) ==
  e.data_vld /\ e.addr = cell /\ b \in e.byteen /\ ~e.flush_vld /\ (e.drain_vld \/ ~dma)
Sources(cell, b, dma) == {k \in Entries : forwards(stbuf[slot(k)], cell, b, dma)}

ForwardedByEntries(cell, dma) ==
  [b \in {c \in Byte : Sources(cell, c, dma) # {}} |->
     stbuf[slot(Max(Sources(cell, b, dma)))].data[b]]

ForwardedByDc3(cell, dma, reqvld, dual) ==
  LET match == dc3.valid /\ reqvld /\ ~(dma /\ ~dc3.dma)
  IN  CASE match /\ cell = lo(dc3) ->
             [b \in byteen(dc3, cell) |-> store_ecc_datafn_lo_dc3[b]]
        [] match /\ cell # lo(dc3) /\ cell = hi(dc3) /\ dual ->
             [b \in byteen(dc3, cell) |-> store_ecc_datafn_hi_dc3[b]]
        [] OTHER -> NoBytes

Forwarded(cell, dma, reqvld, dual) ==
  LET jit == ForwardedByDc3(cell, dma, reqvld, dual)
      old == ForwardedByEntries(cell, dma)
  IN  [b \in DOMAIN jit \cup DOMAIN old |-> IF b \in DOMAIN jit THEN jit[b] ELSE old[b]]

ForwardTo(p, reqvld, dual) ==
  IF internal(p) THEN [lo |-> Forwarded(lo(p), p.dma, reqvld, dual),
                       hi |-> Forwarded(hi(p), p.dma, reqvld, dual)]
                 ELSE NoRead

-----------------------------------------------------------------------------
(* The clock edge, part by part. *)

OneEntry(cell, data) ==
  [data_vld |-> TRUE, drain_vld |-> dc3.dma, flush_vld |-> FALSE, dma |-> dc3.dma,
   addr |-> cell, byteen |-> byteen(dc3, cell), data |-> data]

(* The first of the entries dc3 writes: the low word, unless a load repairs
   its high word only. *)
FirstEntry(err) ==
  IF ~ldst_dual(dc3) \/ dc3.op = "store" \/ "lo" \in err
    THEN OneEntry(lo(dc3), store_ecc_datafn_lo_dc3)
    ELSE OneEntry(hi(dc3), store_ecc_datafn_hi_dc3)

Taken(first, dual) == {first} \cup (IF dual THEN {(first + 1) % DEPTH} ELSE {})

(* The entries of the instruction in dc5, to drain or to flush. *)
Decided_first == IF dc5.reqvld /\ ~dc5.dma THEN {dc5.ptr} ELSE {}    \* faulty: one of two
Decided == IF dc5.reqvld /\ ~dc5.dma THEN Taken(dc5.ptr, dc5.dual) ELSE {}

lsu_commit_dc5_killed(kill) == dc5.valid /\ ~dc5.dma    \* faulty: the kill is not looked at
lsu_commit_dc5(kill) == dc5.valid /\ ~kill /\ ~dc5.dma
pop(freeze) == lsu_stbuf_commit_any(freeze) \/ head.flush_vld

StbufEdge(reqvld, dual, err, freeze, kill) ==
  LET popped == IF pop(freeze) THEN {RdPtr} ELSE {}
      written == IF reqvld THEN Taken(WrPtr, dual) ELSE {}
  IN
  /\ stbuf' = [i \in Entries |->
       IF i \in popped THEN NoEntry
       ELSE IF i \in written
         THEN IF i = WrPtr THEN FirstEntry(err)
                           ELSE OneEntry(hi(dc3), store_ecc_datafn_hi_dc3)
       ELSE IF i \in Decided
         THEN IF lsu_commit_dc5(kill) THEN [stbuf[i] EXCEPT !.drain_vld = TRUE]
                                      ELSE [stbuf[i] EXCEPT !.flush_vld = TRUE]
       ELSE stbuf[i]]
  /\ WrPtr' = IF reqvld THEN (WrPtr + (IF dual THEN 2 ELSE 1)) % DEPTH ELSE WrPtr
  /\ RdPtr' = IF popped # {} THEN (RdPtr + 1) % DEPTH ELSE RdPtr

ArrayEdge(freeze) ==
  array' = IF lsu_stbuf_commit_any(freeze) THEN [array EXCEPT ![head.addr] = head.data]
                                           ELSE array

(* dc4 and dc5 run on when dc1 to dc3 are frozen. *)
LateEdge(reqvld, dual, flush_dc4) ==
  /\ dc4' = IF reqvld THEN [reqvld |-> TRUE, valid |-> TRUE, dma |-> dc3.dma,
                            op |-> dc3.op, dual |-> dual, ptr |-> WrPtr]
                      ELSE NoWrite
  /\ dc5' = IF dc4.reqvld THEN [dc4 EXCEPT !.valid = @ /\ ~(flush_dc4 /\ ~dc4.dma)]
                          ELSE NoWrite

survives(p, flush) == p.valid /\ ~(flush /\ ~p.dma)

EarlyEdge(issued, reqvld, dual, flush_dc2_up, freeze) ==
  IF freeze THEN UNCHANGED <<dc1, dc2, dc3, rd_dc2, rd_dc3, fwd_dc3>>
  ELSE
    /\ dc1' = IF survives(issued, flush_dc2_up) THEN issued ELSE NoPacket
    /\ dc2' = IF survives(dc1, flush_dc2_up) THEN dc1 ELSE NoPacket
    /\ dc3' = IF survives(dc2, flush_dc2_up) THEN dc2 ELSE NoPacket
    /\ rd_dc2' = IF survives(dc1, flush_dc2_up)
                   THEN ReadPort(lsu_stbuf_commit_any(freeze)) ELSE NoRead
    /\ rd_dc3' = IF survives(dc2, flush_dc2_up) THEN rd_dc2 ELSE NoRead
    /\ fwd_dc3' = IF survives(dc2, flush_dc2_up) THEN ForwardTo(dc2, reqvld, dual) ELSE NoRead

(* An external load may hold the pipe until its data come back. *)
may_freeze(flush_dc2_up, freeze) ==
  dc2.valid /\ dc2.region = "ext" /\ dc2.op = "load" /\ ~freeze /\ ~flush_dc2_up

FreezeEdge(hold, answer, flush_dc2_up, flush_dc3, freeze) ==
  ld_freeze_dc3' = (/\ ld_freeze_dc3 \/ (hold /\ may_freeze(flush_dc2_up, freeze))
                    /\ ~flush_dc3 /\ ~(answer /\ ld_freeze_dc3))

(* A flush decided in e2 is seen in e3 one cycle later. *)
FlushEdge(branch, flush_lower, freeze) ==
  flush_e3' = IF freeze THEN flush_e3 ELSE IF flush_lower THEN "i0" ELSE branch

(* Memory as the program and the DMA see it: the bytes of a store, once it
   commits; those of the DMA at once. *)
CommittedBytes(kill) ==
  IF dc5.reqvld /\ dc5.valid /\ ~kill /\ ~dc5.dma /\ dc5.op = "store"
    THEN {stbuf[i] : i \in Taken(dc5.ptr, dc5.dual)} ELSE {}
Written(cell, b, kill, reqvld) ==
  {e.data[b] : e \in {x \in CommittedBytes(kill) : x.addr = cell /\ b \in x.byteen}}
  \cup (IF reqvld /\ dc3.dma /\ b \in DOMAIN StoreBytes(dc3, cell) /\ cell \in {lo(dc3), hi(dc3)}
          THEN {databyte(dc3, cell, b)} ELSE {})
History(kill, reqvld) ==
  IF CommittedBytes(kill) = {} /\ ~(reqvld /\ dc3.dma) THEN UNCHANGED mem
  ELSE mem' = [cell \in Cells |-> [b \in Byte |->
         IF Written(cell, b, kill, reqvld) = {} THEN mem[cell][b]
         ELSE CHOOSE v \in Written(cell, b, kill, reqvld) : TRUE]]

-----------------------------------------------------------------------------
(* What may enter dc1. *)

in_flight == Cardinality({n \in 1..5 : <<dc1.valid, dc2.valid, dc3.valid,
                                        dc4.reqvld, dc5.reqvld>>[n]})

(* Decode sends a load or a store when nothing flushes or freezes the pipe,
   and no store while the buffer may be full. *)
CoreIssue(p, flush_lower, freeze) ==
  /\ ~flush_lower /\ flush_e3 = "none" /\ ~freeze
  /\ p.op = "store" => ~lsu_stbuf_full_any

ldst_nodma_dc1todc2 == core(dc1) \/ core(dc2)    \* faulty: dc3 is not looked at
ldst_nodma_dc1todc3 == core(dc1) \/ core(dc2) \/ core(dc3)
dccm_ready(freeze) == ~lsu_stbuf_full_any /\ ~freeze /\ ~ldst_nodma_dc1todc3

Issued(flush_lower, freeze) ==
  {NoPacket} \cup
  (IF in_flight >= MaxInFlight THEN {}
   ELSE {p \in CorePackets : CoreIssue(p, flush_lower, freeze)}
        \cup (IF dccm_ready(freeze) THEN DmaPackets ELSE {}))

Edge(flush_lower, kill, branch, err, hold, answer) ==
  LET freeze == lsu_freeze_dc3(flush_lower)
      flush_dc2_up == flush_lower \/ flush_e3 # "none"
      flush_dc3 == flush_lower \/ flush_e3 = "i0"
      reqvld == ldst_stbuf_reqvld(flush_dc3, freeze, err)
      dual == reqvld /\ dual_stbuf_write(flush_dc3, freeze, err)
  IN
  /\ StbufEdge(reqvld, dual, err, freeze, kill)
  /\ ArrayEdge(freeze)
  /\ LateEdge(reqvld, dual, flush_lower)
  /\ FreezeEdge(hold, answer, flush_dc2_up, flush_dc3, freeze)
  /\ FlushEdge(branch, flush_lower, freeze)
  /\ History(kill, reqvld)
  /\ \E issued \in Issued(flush_lower, freeze) :
       EarlyEdge(issued, reqvld, dual, flush_dc2_up, freeze)

Init ==
  /\ dc1 = NoPacket /\ dc2 = NoPacket /\ dc3 = NoPacket /\ dc4 = NoWrite /\ dc5 = NoWrite
  /\ rd_dc2 = NoRead /\ rd_dc3 = NoRead /\ fwd_dc3 = NoRead
  /\ stbuf = [i \in Entries |-> NoEntry] /\ WrPtr = 0 /\ RdPtr = 0
  /\ ld_freeze_dc3 = FALSE /\ flush_e3 = "none"
  /\ array = [c \in Cells |-> [b \in Byte |-> 0]] /\ mem = array

(* flush_lower: the commit point flushes the pipe; kill: and the instruction in
   dc5 with it; branch: an older branch in e3 of this or of the other pipe. *)
OnlyIf(possible) == IF possible THEN BOOLEAN ELSE {FALSE}
Next ==
  \E flush_lower \in BOOLEAN :
    \E err \in Errors, kill \in OnlyIf(flush_lower /\ dc5.reqvld), answer \in OnlyIf(ld_freeze_dc3),
       hold \in OnlyIf(may_freeze(flush_lower \/ flush_e3 # "none", lsu_freeze_dc3(flush_lower))),
       branch \in (IF flush_lower \/ ld_freeze_dc3 THEN {"none"} ELSE {"none", "i1", "i0"}) :
      Edge(flush_lower, kill, branch, err, hold, answer)

Spec == Init /\ [][Next]_vars

-----------------------------------------------------------------------------
(* The entries whose instruction is still in dc4 or dc5. *)
Undecided ==
  UNION {Taken(s.ptr, s.dual) : s \in {x \in {dc4, dc5} : x.reqvld /\ ~x.dma}}

(* A store in dc3 finds its entries free: the count of the packets that may
   still ask for one (lsu_stbuf_full_any blocks decode and the DMA three stages
   before) is never too low, and a load repair never takes a store's entry. *)
StoreFindsRoom ==
  internal(dc3) /\ dc3.op = "store" =>
    \A i \in Taken(WrPtr, ldst_dual(dc3)) : ~stbuf[i].data_vld

(* The valid entries are those from RdPtr up to WrPtr, and each of them is
   marked to drain, marked as flushed, or waits for its instruction in dc4 or
   dc5 to commit: exactly one of the three.  An entry that were none would stop
   the buffer for good. *)
EveryEntryDecided ==
  /\ numvld = IF WrPtr = RdPtr /\ ~head.data_vld THEN 0
              ELSE IF WrPtr = RdPtr THEN DEPTH ELSE (WrPtr - RdPtr) % DEPTH
  /\ \A i \in Entries :
       /\ stbuf[i].data_vld <=> (i - RdPtr) % DEPTH < numvld
       /\ i \in Undecided <=> stbuf[i].data_vld /\ ~stbuf[i].drain_vld /\ ~stbuf[i].flush_vld
       /\ ~(stbuf[i].drain_vld /\ stbuf[i].flush_vld)

(* The DCCM, with the entries marked to drain written over it in order and as
   whole words, is the memory the committed stores and the DMA left: no byte a
   store did not write comes back to an older value, no flushed store reaches
   memory, no committed one is lost. *)
DrainedOver(cell) ==
  LET drains == {k \in 0..DEPTH - 1 :
                   LET e == stbuf[(RdPtr + k) % DEPTH] IN e.drain_vld /\ e.addr = cell}
  IN  IF drains = {} THEN array[cell] ELSE stbuf[(RdPtr + Max(drains)) % DEPTH].data
DrainsWholeWords == \A cell \in Cells : DrainedOver(cell) = mem[cell]

(* What an instruction in dc3 must see of a byte: memory, and over it the
   stores before it that are still in dc4 or dc5, if it is the core's. *)
Earlier(cell, b) ==
  {k \in 0..DEPTH - 1 :
     LET i == (RdPtr + k) % DEPTH IN
     i \in Undecided /\ stbuf[i].addr = cell /\ b \in stbuf[i].byteen}
Expected(cell, b) ==
  IF dc3.dma \/ Earlier(cell, b) = {} THEN mem[cell][b]
  ELSE stbuf[(RdPtr + Max(Earlier(cell, b))) % DEPTH].data[b]

(* A load, and a store that completes a word with bytes it read, has the value
   of every byte that program order gives it, although the DCCM was read in
   dc1, the buffer was searched in dc2, and entries were drained, flushed and
   taken in between, or the pipe frozen; and the DMA sees no store that has not
   committed. *)
ReadsProgramOrder ==
  reads_dccm(dc3) \/ (internal(dc3) /\ dc3.op = "load") =>
    /\ \A b \in Byte : lsu_rdata_lo_dc3[b] = Expected(lo(dc3), b)
    /\ \A b \in Byte : lsu_rdata_hi_dc3[b] = Expected(hi(dc3), b)

(* "can't have ld/st in dc3-dc5 when dma is in dc2" (lsu.sv): no packet of the
   core is between a DMA packet in dc2 and the end of the pipe. *)
NoCoreAheadOfDma ==
  dc2.valid /\ dc2.dma => ~core(dc3) /\ Undecided = {}

=============================================================================
