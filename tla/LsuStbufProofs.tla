--------------------------- MODULE LsuStbufProofs ---------------------------
(***************************************************************************)
(* Theorems about the store buffer and the load/store pipe, for every word  *)
(* size, number of banks, set of accesses and number of packets in flight   *)
(* of LsuStbuf and for a buffer of 2, 4 or 8 entries.                       *)
(*                                                                         *)
(* First the control: the DMA is alone, a store finds its entries free, and *)
(* every entry is decided (BufferOK).  Then the data, one byte at a time:   *)
(* the entries in the order of the queue are layers over the word of the    *)
(* DCCM or the PIC (Layers), memory is what the decided ones leave and dc3  *)
(* has read what they all leave (Sees).  Draining, deciding, flushing and   *)
(* taking entries keep that view, so partial stores drain as whole words    *)
(* and reads follow program order.                                          *)
(***************************************************************************)
EXTENDS LsuStbuf, FiniteSetTheorems, FunctionTheorems, TLAPS

-----------------------------------------------------------------------------
(* The packets of the pipe. *)

StageOK(p) == p = NoPacket \/ (p.valid /\ p.op \in {"load", "store"} /\ p.dma \in BOOLEAN)
WriteOK(w) ==
  \/ w = NoWrite
  \/ w \in [reqvld : {TRUE}, valid : BOOLEAN, dma : BOOLEAN, op : {"load", "store"},
            dual : BOOLEAN, ptr : Entries]
PacketsOK ==
  /\ StageOK(dc1) /\ StageOK(dc2) /\ StageOK(dc3)
  /\ WriteOK(dc4) /\ WriteOK(dc5)
  /\ WrPtr \in Entries /\ RdPtr \in Entries

(* A clock edge, with the wires that depend on its inputs as parameters. *)
PipeStep(issued, reqvld, dual, freeze, flush_up, flush_lower) ==
  /\ LateEdge(reqvld, dual, flush_lower)
  /\ EarlyEdge(issued, reqvld, dual, flush_up, freeze)
  /\ issued \in Issued(flush_lower, freeze)
  /\ reqvld => internal(dc3) /\ ~freeze
  /\ {reqvld, dual} \subseteq BOOLEAN

BufferStep(reqvld, dual, err, freeze, flush_dc3, kill) ==
  /\ StbufEdge(reqvld, dual, err, freeze, kill)
  /\ reqvld = ldst_stbuf_reqvld(flush_dc3, freeze, err)
  /\ dual = (reqvld /\ dual_stbuf_write(flush_dc3, freeze, err))
  /\ err \in Errors

DataStep(reqvld, freeze, flush_up, flush_lower, flush_dc3, kill) ==
  /\ ArrayEdge(freeze) /\ History(kill, reqvld)
  /\ \E hold, answer : FreezeEdge(hold, answer, flush_up, flush_dc3, freeze)
  /\ freeze = (ld_freeze_dc3 /\ ~flush_lower)
  /\ {flush_lower, kill} \subseteq BOOLEAN
  /\ kill => flush_lower
  /\ flush_lower => flush_up /\ flush_dc3

LEMMA NextIsEdge ==
  ASSUME Next
  PROVE  \E issued, reqvld, dual, err, freeze, flush_up, flush_lower, flush_dc3, kill :
           /\ PipeStep(issued, reqvld, dual, freeze, flush_up, flush_lower)
           /\ BufferStep(reqvld, dual, err, freeze, flush_dc3, kill)
           /\ DataStep(reqvld, freeze, flush_up, flush_lower, flush_dc3, kill)
<1>1. PICK flush_lower \in BOOLEAN :
        \E err \in Errors : \E kill \in OnlyIf(flush_lower /\ dc5.reqvld) :
          \E answer, hold, branch : Edge(flush_lower, kill, branch, err, hold, answer)
  BY DEF Next
<1>2. PICK err \in Errors, kill \in OnlyIf(flush_lower /\ dc5.reqvld) :
        \E answer, hold, branch : Edge(flush_lower, kill, branch, err, hold, answer)
  BY <1>1
<1>3. PICK answer, hold, branch : Edge(flush_lower, kill, branch, err, hold, answer)
  BY <1>2
<1> DEFINE freeze == lsu_freeze_dc3(flush_lower)
           flush_up == flush_lower \/ flush_e3 # "none"
           flush_dc3 == flush_lower \/ flush_e3 = "i0"
           reqvld == ldst_stbuf_reqvld(flush_dc3, freeze, err)
           dual == reqvld /\ dual_stbuf_write(flush_dc3, freeze, err)
<1>4. /\ StbufEdge(reqvld, dual, err, freeze, kill)
      /\ LateEdge(reqvld, dual, flush_lower)
      /\ ArrayEdge(freeze) /\ History(kill, reqvld)
      /\ FreezeEdge(hold, answer, flush_up, flush_dc3, freeze)
      /\ \E issued \in Issued(flush_lower, freeze) :
           EarlyEdge(issued, reqvld, dual, flush_up, freeze)
  BY <1>3 DEF Edge
<1>5. reqvld => internal(dc3) /\ ~freeze
  BY DEF ldst_stbuf_reqvld, store_stbuf_reqvld, load_stbuf_reqvld
<1>6. {reqvld, dual} \subseteq BOOLEAN
  BY DEF ldst_stbuf_reqvld
<1>7. /\ freeze = (ld_freeze_dc3 /\ ~flush_lower)
      /\ {flush_lower, kill} \subseteq BOOLEAN
      /\ kill => flush_lower
      /\ flush_lower => flush_up /\ flush_dc3
  BY <1>1, <1>2 DEF lsu_freeze_dc3, OnlyIf
<1> HIDE DEF freeze, flush_up, flush_dc3
<1>8. PICK issued \in Issued(flush_lower, freeze) :
        PipeStep(issued, reqvld, dual, freeze, flush_up, flush_lower)
  <2> HIDE DEF reqvld, dual
  <2> QED
    BY <1>4, <1>5, <1>6 DEF PipeStep
<1>9. BufferStep(reqvld, dual, err, freeze, flush_dc3, kill)
  BY <1>4 DEF BufferStep
<1>10. DataStep(reqvld, freeze, flush_up, flush_lower, flush_dc3, kill)
  <2> HIDE DEF reqvld, dual
  <2> QED
    BY <1>4, <1>7 DEF DataStep
<1> QED
  BY <1>8, <1>9, <1>10

LEMMA PacketStages ==
  ASSUME NEW dma \in BOOLEAN, NEW p \in Packets(CoreAccesses \cup DmaAccesses, dma)
  PROVE  p.valid /\ p.dma = dma /\ p.op \in {"load", "store"} /\ StageOK(p)
<1>1. PICK a \in CoreAccesses \cup DmaAccesses : \E d : p = Packet(a, dma, d)
  BY DEF Packets
<1>2. a.op \in {"load", "store"}
  BY StbufAssumption
<1> QED
  BY <1>1, <1>2 DEF Packet, StageOK

LEMMA MorePackets ==
  ASSUME NEW A, NEW B, A \subseteq B, NEW dma, NEW p \in Packets(A, dma)
  PROVE  p \in Packets(B, dma)
BY DEF Packets

LEMMA IssuedPacketsAre ==
  /\ CorePackets \subseteq Packets(CoreAccesses \cup DmaAccesses, FALSE)
  /\ DmaPackets \subseteq Packets(CoreAccesses \cup DmaAccesses, TRUE)
BY MorePackets DEF CorePackets, DmaPackets

(* What may be issued. *)
LEMMA IssuedPackets ==
  ASSUME NEW flush, NEW freeze, NEW p \in Issued(flush, freeze)
  PROVE  /\ StageOK(p)
         /\ p.valid /\ p.dma => dccm_ready(freeze)
         /\ p.valid /\ p.op = "store" => ~lsu_stbuf_full_any
<1>1. CASE p = NoPacket
  BY <1>1 DEF StageOK, NoPacket
<1>2. CASE p \in CorePackets /\ CoreIssue(p, flush, freeze)
  <2>1. p \in Packets(CoreAccesses \cup DmaAccesses, FALSE)
    BY <1>2, IssuedPacketsAre
  <2> QED
    BY <1>2, <2>1, PacketStages DEF CoreIssue
<1>3. CASE p \in DmaPackets /\ dccm_ready(freeze)
  <2>1. p \in Packets(CoreAccesses \cup DmaAccesses, TRUE)
    BY <1>3, IssuedPacketsAre
  <2> QED
    BY <1>3, <2>1, PacketStages DEF dccm_ready
<1> QED
  BY <1>1, <1>2, <1>3 DEF Issued

LEMMA PacketsInit ==
  ASSUME Init
  PROVE  PacketsOK
BY StbufAssumption DEF Init, PacketsOK, StageOK, WriteOK, Entries

LEMMA PointerStep ==
  ASSUME NEW p \in Entries, NEW n \in Nat
  PROVE  (p + n) % DEPTH \in Entries
BY StbufAssumption DEF Entries

LEMMA PacketsStep ==
  ASSUME PacketsOK, NEW issued, NEW reqvld, NEW dual, NEW err, NEW freeze, NEW flush_up,
         NEW flush_lower, NEW flush_dc3, NEW kill,
         PipeStep(issued, reqvld, dual, freeze, flush_up, flush_lower),
         BufferStep(reqvld, dual, err, freeze, flush_dc3, kill)
  PROVE  PacketsOK'
<1>1. StageOK(dc1)' /\ StageOK(dc2)' /\ StageOK(dc3)'
  <2>1. StageOK(issued)
    BY IssuedPackets DEF PipeStep
  <2> QED
    BY <2>1 DEF PacketsOK, PipeStep, EarlyEdge, StageOK, NoPacket
<1>2. WriteOK(dc4)'
  <2>1. reqvld => dc3.dma \in BOOLEAN /\ dc3.op \in {"load", "store"}
    BY DEF PacketsOK, PipeStep, StageOK, internal, NoPacket
  <2> QED
    BY <2>1 DEF PacketsOK, PipeStep, LateEdge, WriteOK
<1>3. WriteOK(dc5)'
  <2>1. CASE dc4.reqvld
    <3>1. dc4 \in [reqvld : {TRUE}, valid : BOOLEAN, dma : BOOLEAN, op : {"load", "store"},
                   dual : BOOLEAN, ptr : Entries]
      <4>1. dc4 # NoWrite
        BY <2>1 DEF NoWrite
      <4> QED
        BY <4>1 DEF PacketsOK, WriteOK
    <3>2. dc5' = [dc4 EXCEPT !.valid = dc4.valid /\ ~(flush_lower /\ ~dc4.dma)]
      BY <2>1 DEF PipeStep, LateEdge
    <3> QED
      BY <3>1, <3>2 DEF WriteOK
  <2>2. CASE ~dc4.reqvld
    BY <2>2 DEF PipeStep, LateEdge, WriteOK
  <2> QED
    BY <2>1, <2>2
<1>4. WrPtr' \in Entries /\ RdPtr' \in Entries
  BY PointerStep DEF PacketsOK, BufferStep, StbufEdge
<1> QED
  BY <1>1, <1>2, <1>3, <1>4 DEF PacketsOK

-----------------------------------------------------------------------------
(* The DMA is alone: when it is let in no packet of the core is in dc1 to dc3,
   and what was in dc3 is in dc5 when the DMA is in dc2. *)

dma_in(p) == p.valid /\ p.dma
CoreWrite(w) == w.reqvld /\ ~w.dma
Alone ==
  /\ dma_in(dc1) => ~core(dc2) /\ ~core(dc3) /\ ~CoreWrite(dc4)
  /\ dma_in(dc2) => ~core(dc3) /\ ~CoreWrite(dc4) /\ ~CoreWrite(dc5)

LEMMA AloneStep ==
  ASSUME PacketsOK, Alone, NEW issued, NEW reqvld, NEW dual, NEW freeze, NEW flush_up,
         NEW flush_lower, PipeStep(issued, reqvld, dual, freeze, flush_up, flush_lower)
  PROVE  Alone'
<1>1. dma_in(issued) => ~core(dc1) /\ ~core(dc2) /\ ~core(dc3)
  BY IssuedPackets DEF PipeStep, dma_in, dccm_ready, ldst_nodma_dc1todc3
<1>2. CoreWrite(dc4)' => core(dc3) /\ ~freeze
  BY DEF PipeStep, LateEdge, CoreWrite, NoWrite, core, internal
<1>3. CoreWrite(dc5)' => CoreWrite(dc4)
  BY DEF PipeStep, LateEdge, CoreWrite, NoWrite, PacketsOK, WriteOK
<1>4. CASE freeze
  <2>1. UNCHANGED <<dc1, dc2, dc3>>
    BY <1>4 DEF PipeStep, EarlyEdge
  <2> QED
    BY <1>2, <1>3, <1>4, <2>1 DEF Alone, dma_in, core
<1>5. CASE ~freeze
  <2>1. dma_in(dc1)' => dma_in(issued)
    BY <1>5 DEF PipeStep, EarlyEdge, dma_in, NoPacket
  <2>2. dma_in(dc2)' => dma_in(dc1)
    BY <1>5 DEF PipeStep, EarlyEdge, dma_in, NoPacket
  <2>3. core(dc2)' => core(dc1)
    BY <1>5 DEF PipeStep, EarlyEdge, core, NoPacket
  <2>4. core(dc3)' => core(dc2)
    BY <1>5 DEF PipeStep, EarlyEdge, core, NoPacket
  <2> QED
    BY <1>1, <1>2, <1>3, <2>1, <2>2, <2>3, <2>4 DEF Alone
<1> QED
  BY <1>4, <1>5

(* No packet of the core is between a DMA packet in dc2 and the end of the
   pipe, whatever is flushed or frozen on the way (dccm_ready of lsu.sv). *)
THEOREM DmaIsAlone == Spec => []NoCoreAheadOfDma
<1>1. Init => PacketsOK /\ Alone
  <2>1. Init => Alone
    BY DEF Init, Alone, dma_in, NoPacket
  <2> QED
    BY <2>1, PacketsInit
<1>2. PacketsOK /\ Alone /\ [Next]_vars => (PacketsOK /\ Alone)'
  <2> SUFFICES ASSUME PacketsOK, Alone, [Next]_vars
               PROVE  (PacketsOK /\ Alone)'
    OBVIOUS
  <2>1. CASE Next
    <3>1. PICK issued, reqvld, dual, err, freeze, flush_up, flush_lower, flush_dc3, kill :
            /\ PipeStep(issued, reqvld, dual, freeze, flush_up, flush_lower)
            /\ BufferStep(reqvld, dual, err, freeze, flush_dc3, kill)
      BY <2>1, NextIsEdge
    <3>2. PacketsOK'
      BY <3>1, PacketsStep
    <3>3. Alone'
      BY <3>1, AloneStep
    <3> QED
      BY <3>2, <3>3
  <2>2. CASE UNCHANGED vars
    <3>1. PacketsOK'
      <4>1. StageOK(dc1)' /\ StageOK(dc2)' /\ StageOK(dc3)'
        BY <2>2 DEF vars, PacketsOK, StageOK
      <4>2. WriteOK(dc4)' /\ WriteOK(dc5)'
        BY <2>2 DEF vars, PacketsOK, WriteOK
      <4>3. WrPtr' \in Entries /\ RdPtr' \in Entries
        BY <2>2 DEF vars, PacketsOK
      <4> QED
        BY <4>1, <4>2, <4>3 DEF PacketsOK
    <3>2. Alone'
      BY <2>2 DEF vars, Alone, dma_in, core, CoreWrite
    <3> QED
      BY <3>1, <3>2
  <2> QED
    BY <2>1, <2>2
<1>3. PacketsOK /\ Alone => NoCoreAheadOfDma
  BY DEF PacketsOK, Alone, NoCoreAheadOfDma, Undecided, dma_in, CoreWrite
<1> QED
  BY <1>1, <1>2, <1>3, PTL DEF Spec

-----------------------------------------------------------------------------
(* The buffer is a queue: its n valid entries are those from RdPtr on. *)

dist(i, r) == (i - r) % DEPTH
QueueOf(n) ==
  /\ n \in 0..DEPTH
  /\ WrPtr = (RdPtr + n) % DEPTH
  /\ \A i \in Entries : stbuf[i].data_vld <=> dist(i, RdPtr) < n

(* The pointers wrap at a power of two of entries. *)
LEMMA Wraps ==
  /\ \A i, r \in Entries :
       dist(i, r) = (IF i >= r THEN i - r ELSE i - r + DEPTH) /\ dist(i, r) \in Entries
  /\ \A r \in Entries, k \in 0..DEPTH :
       (r + k) % DEPTH = IF r + k < DEPTH THEN r + k ELSE r + k - DEPTH
BY StbufAssumption DEF dist, Entries

LEMMA CountValid ==
  ASSUME NEW n, QueueOf(n), RdPtr \in Entries
  PROVE  numvld = n
<1> DEFINE S == {i \in Entries : stbuf[i].data_vld}
           F == [k \in 1..n |-> (RdPtr + (k - 1)) % DEPTH]
<1>1. n \in Nat /\ n <= DEPTH /\ DEPTH \in Nat
  BY StbufAssumption DEF QueueOf
<1>2. S = {i \in Entries : dist(i, RdPtr) < n}
  BY DEF QueueOf
<1>3. \A k \in 1..n : F[k] = IF RdPtr + k - 1 < DEPTH THEN RdPtr + k - 1
                                                     ELSE RdPtr + k - 1 - DEPTH
  BY <1>1, Wraps
<1>4. \A k \in 1..n : F[k] \in Entries /\ dist(F[k], RdPtr) = k - 1
  <2> HIDE DEF F
  <2> TAKE k \in 1..n
  <2>1. k \in Int /\ 1 <= k /\ k <= DEPTH /\ RdPtr \in Int /\ 0 <= RdPtr /\ RdPtr < DEPTH
    BY <1>1 DEF Entries
  <2>2. F[k] = IF RdPtr + k - 1 < DEPTH THEN RdPtr + k - 1 ELSE RdPtr + k - 1 - DEPTH
    BY <1>3
  <2>3. F[k] \in Entries
    BY <1>1, <2>1, <2>2 DEF Entries
  <2>4. dist(F[k], RdPtr) = IF F[k] >= RdPtr THEN F[k] - RdPtr ELSE F[k] - RdPtr + DEPTH
    BY <2>3, Wraps
  <2> QED
    BY <1>1, <2>1, <2>2, <2>3, <2>4
<1> HIDE DEF F
<1>5. F \in [1..n -> S]
  <2>1. \A k \in 1..n : F[k] \in S
    BY <1>1, <1>2, <1>4
  <2> QED
    BY <2>1 DEF F
<1>6. \A a, b \in 1..n : F[a] = F[b] => a = b
  BY <1>1, <1>4
<1>7. \A i \in S : \E k \in 1..n : F[k] = i
  <2> TAKE i \in S
  <2>1. i \in Entries /\ dist(i, RdPtr) + 1 \in 1..n
    <3>1. i \in Entries /\ dist(i, RdPtr) < n
      BY <1>2
    <3>2. dist(i, RdPtr) \in Entries
      BY <3>1, Wraps
    <3>3. dist(i, RdPtr) \in Nat
      BY <1>1, <3>2 DEF Entries
    <3> QED
      BY <1>1, <3>1, <3>3
  <2>2. dist(i, RdPtr) = IF i >= RdPtr THEN i - RdPtr ELSE i - RdPtr + DEPTH
    BY <2>1, Wraps
  <2>3. i \in Int /\ 0 <= i /\ i < DEPTH /\ RdPtr \in Int /\ 0 <= RdPtr /\ RdPtr < DEPTH
    BY <1>1, <2>1 DEF Entries
  <2>4. F[dist(i, RdPtr) + 1] = i
    BY <1>1, <1>3, <2>1, <2>2, <2>3
  <2> QED
    BY <2>1, <2>4
<1>8. F \in Bijection(1..n, S)
  BY <1>5, <1>6, <1>7, Fun_IsBij
<1>9. Cardinality(S) = n
  BY <1>1, <1>8, FS_CountingElements DEF ExistsBijection
<1> QED
  BY <1>9 DEF numvld

-----------------------------------------------------------------------------
(* The flags of the entries. *)

Flags(e) ==
  /\ {"data_vld", "drain_vld", "flush_vld"} \subseteq DOMAIN e
  /\ e.data_vld \in BOOLEAN /\ e.drain_vld \in BOOLEAN /\ e.flush_vld \in BOOLEAN
FlagsOK == \A i \in Entries : Flags(stbuf[i])

SameFlags(e, f) ==
  /\ e.data_vld <=> f.data_vld
  /\ e.drain_vld <=> f.drain_vld
  /\ e.flush_vld <=> f.flush_vld

popped(freeze) == IF pop(freeze) THEN {RdPtr} ELSE {}
written(reqvld, dual) == IF reqvld THEN Taken(WrPtr, dual) ELSE {}

LEMMA FlagsInit ==
  ASSUME Init
  PROVE  FlagsOK
BY DEF Init, FlagsOK, Flags, NoEntry

LEMMA Marked ==
  ASSUME NEW e, Flags(e), NEW d,
         d \in {[e EXCEPT !.drain_vld = TRUE], [e EXCEPT !.flush_vld = TRUE]}
  PROVE  /\ Flags(d)
         /\ d.data_vld <=> e.data_vld
         /\ \/ d.drain_vld /\ (d.flush_vld <=> e.flush_vld)
            \/ d.flush_vld /\ (d.drain_vld <=> e.drain_vld)
<1>1. CASE d = [e EXCEPT !.drain_vld = TRUE]
  BY <1>1 DEF Flags
<1>2. CASE d = [e EXCEPT !.flush_vld = TRUE]
  BY <1>2 DEF Flags
<1> QED
  BY <1>1, <1>2

LEMMA FlagsEdge ==
  ASSUME PacketsOK, FlagsOK, NEW issued, NEW reqvld, NEW dual, NEW err, NEW freeze, NEW flush_up,
         NEW flush_lower, NEW flush_dc3, NEW kill,
         PipeStep(issued, reqvld, dual, freeze, flush_up, flush_lower),
         BufferStep(reqvld, dual, err, freeze, flush_dc3, kill),
         NEW i \in Entries
  PROVE  /\ Flags(stbuf[i])'
         /\ i \in popped(freeze) => SameFlags(stbuf'[i], NoEntry)
         /\ i \in written(reqvld, dual) /\ i \notin popped(freeze) =>
              stbuf'[i].data_vld /\ ~stbuf'[i].flush_vld /\ (stbuf'[i].drain_vld <=> dc3.dma)
         /\ i \in Decided /\ i \notin popped(freeze) \cup written(reqvld, dual) =>
              /\ stbuf'[i].data_vld <=> stbuf[i].data_vld
              /\ \/ stbuf'[i].drain_vld /\ (stbuf'[i].flush_vld <=> stbuf[i].flush_vld)
                 \/ stbuf'[i].flush_vld /\ (stbuf'[i].drain_vld <=> stbuf[i].drain_vld)
         /\ i \notin popped(freeze) \cup written(reqvld, dual) \cup Decided =>
              SameFlags(stbuf'[i], stbuf[i])
<1> DEFINE e == stbuf'[i]
<1>1. e = IF i \in popped(freeze) THEN NoEntry
          ELSE IF i \in written(reqvld, dual)
            THEN IF i = WrPtr THEN FirstEntry(err)
                              ELSE OneEntry(hi(dc3), store_ecc_datafn_hi_dc3)
          ELSE IF i \in Decided
            THEN IF lsu_commit_dc5(kill) THEN [stbuf[i] EXCEPT !.drain_vld = TRUE]
                                         ELSE [stbuf[i] EXCEPT !.flush_vld = TRUE]
          ELSE stbuf[i]
  BY DEF BufferStep, StbufEdge, popped, written
<1>2. Flags(stbuf[i])
  BY DEF FlagsOK
<1>3. CASE i \in popped(freeze)
  <2>1. e = NoEntry
    BY <1>1, <1>3
  <2> QED
    BY <1>3, <2>1 DEF Flags, SameFlags, NoEntry
<1>4. CASE i \notin popped(freeze) /\ i \in written(reqvld, dual)
  <2>1. PICK cell, data : e = OneEntry(cell, data)
    BY <1>1, <1>4 DEF FirstEntry
  <2>2. dc3.dma \in BOOLEAN
    <3>1. reqvld
      BY <1>4 DEF written
    <3> QED
      BY <3>1 DEF PipeStep, internal, PacketsOK, StageOK, NoPacket
  <2>3. Flags(e) /\ e.data_vld /\ ~e.flush_vld /\ (e.drain_vld <=> dc3.dma)
    BY <2>1, <2>2 DEF OneEntry, Flags
  <2> QED
    BY <1>4, <2>3
<1>5. CASE i \notin popped(freeze) \cup written(reqvld, dual) /\ i \in Decided
  <2>1. e \in {[stbuf[i] EXCEPT !.drain_vld = TRUE], [stbuf[i] EXCEPT !.flush_vld = TRUE]}
    BY <1>1, <1>5
  <2> HIDE DEF e
  <2>2. /\ Flags(e)
        /\ e.data_vld <=> stbuf[i].data_vld
        /\ \/ e.drain_vld /\ (e.flush_vld <=> stbuf[i].flush_vld)
           \/ e.flush_vld /\ (e.drain_vld <=> stbuf[i].drain_vld)
    BY <1>2, <2>1, Marked
  <2> USE DEF e
  <2> QED
    BY <1>5, <2>2
<1>6. CASE i \notin popped(freeze) \cup written(reqvld, dual) \cup Decided
  <2>1. e = stbuf[i]
    BY <1>1, <1>6
  <2> QED
    BY <1>2, <1>6, <2>1 DEF SameFlags
<1> QED
  BY <1>3, <1>4, <1>5, <1>6

-----------------------------------------------------------------------------
(* The queue at a clock edge: an entry leaves its head, and one or two are
   taken behind its last, if there is room. *)

size(reqvld, dual) == IF ~reqvld THEN 0 ELSE IF dual THEN 2 ELSE 1

LEMMA WrittenEntries ==
  ASSUME NEW n, QueueOf(n), PacketsOK, NEW reqvld \in BOOLEAN, NEW dual \in BOOLEAN,
         n + size(reqvld, dual) <= DEPTH, NEW i \in Entries
  PROVE  i \in written(reqvld, dual) <=>
           n <= dist(i, RdPtr) /\ dist(i, RdPtr) < n + size(reqvld, dual)
<1>1. /\ n \in Nat /\ n <= DEPTH /\ DEPTH \in Nat /\ RdPtr \in Entries /\ WrPtr \in Entries
      /\ i \in Int /\ 0 <= i /\ i < DEPTH /\ RdPtr \in Int /\ 0 <= RdPtr /\ RdPtr < DEPTH
      /\ DEPTH >= 2
  BY StbufAssumption DEF QueueOf, PacketsOK, Entries
<1>2. WrPtr = IF RdPtr + n < DEPTH THEN RdPtr + n ELSE RdPtr + n - DEPTH
  BY <1>1, Wraps DEF QueueOf
<1>3. dist(i, RdPtr) = IF i >= RdPtr THEN i - RdPtr ELSE i - RdPtr + DEPTH
  BY <1>1, Wraps
<1>4. (WrPtr + 1) % DEPTH = IF WrPtr + 1 < DEPTH THEN WrPtr + 1 ELSE WrPtr + 1 - DEPTH
  BY <1>1, Wraps
<1>5. CASE ~reqvld
  BY <1>1, <1>3, <1>5 DEF size, written
<1>6. CASE reqvld /\ ~dual
  <2>1. i \in written(reqvld, dual) <=> i = WrPtr
    BY <1>6 DEF written, Taken
  <2>2. n + 1 <= DEPTH /\ size(reqvld, dual) = 1
    BY <1>6 DEF size
  <2> QED
    BY <1>1, <1>2, <1>3, <2>1, <2>2
<1>7. CASE reqvld /\ dual
  <2>1. i \in written(reqvld, dual) <=> i = WrPtr \/ i = (WrPtr + 1) % DEPTH
    BY <1>7 DEF written, Taken
  <2>2. n + 2 <= DEPTH /\ size(reqvld, dual) = 2
    BY <1>7 DEF size
  <2> QED
    BY <1>1, <1>2, <1>3, <1>4, <2>1, <2>2
<1> QED
  BY <1>5, <1>6, <1>7

LEMMA QueueStep ==
  ASSUME PacketsOK, FlagsOK, NEW issued, NEW reqvld, NEW dual, NEW err, NEW freeze, NEW flush_up,
         NEW flush_lower, NEW flush_dc3, NEW kill,
         PipeStep(issued, reqvld, dual, freeze, flush_up, flush_lower),
         BufferStep(reqvld, dual, err, freeze, flush_dc3, kill),
         NEW n, QueueOf(n), n + size(reqvld, dual) <= DEPTH,
         head.drain_vld \/ head.flush_vld => head.data_vld
  PROVE  \E m : /\ QueueOf(m)' /\ m <= n + size(reqvld, dual)
                /\ m = n + size(reqvld, dual) - (IF pop(freeze) THEN 1 ELSE 0)
<1>0. PICK k, out, m : /\ k = size(reqvld, dual)
                       /\ out = IF pop(freeze) THEN 1 ELSE 0
                       /\ m = n + k - out
  OBVIOUS
<1>1. /\ n \in Nat /\ n <= DEPTH /\ DEPTH \in Nat /\ DEPTH >= 2
      /\ RdPtr \in Entries /\ WrPtr \in Entries
      /\ RdPtr \in Int /\ 0 <= RdPtr /\ RdPtr < DEPTH
      /\ WrPtr \in Int /\ 0 <= WrPtr /\ WrPtr < DEPTH
  BY StbufAssumption DEF QueueOf, PacketsOK, Entries
<1>2. reqvld \in BOOLEAN /\ dual \in BOOLEAN /\ (dual => reqvld)
  BY DEF PipeStep, BufferStep
<1>3. k \in 0..2 /\ out \in 0..1
  BY <1>0 DEF size
<1>4. out = 1 => n >= 1
  <2>1. pop(freeze) => head.data_vld
    BY DEF pop, lsu_stbuf_commit_any, stbuf_reqvld_any
  <2>2. dist(RdPtr, RdPtr) = 0
    BY <1>1, Wraps
  <2> QED
    BY <1>0, <1>1, <2>1, <2>2 DEF QueueOf, head
<1>5. RdPtr' = IF RdPtr + out < DEPTH THEN RdPtr + out ELSE RdPtr + out - DEPTH
  <2>1. RdPtr' = IF pop(freeze) THEN (RdPtr + 1) % DEPTH ELSE RdPtr
    BY DEF BufferStep, StbufEdge
  <2>2. (RdPtr + 1) % DEPTH = IF RdPtr + 1 < DEPTH THEN RdPtr + 1 ELSE RdPtr + 1 - DEPTH
    BY <1>1, Wraps
  <2> QED
    BY <1>0, <1>1, <2>1, <2>2
<1>6. WrPtr' = IF WrPtr + k < DEPTH THEN WrPtr + k ELSE WrPtr + k - DEPTH
  <2>1. WrPtr' = IF reqvld THEN (WrPtr + (IF dual THEN 2 ELSE 1)) % DEPTH ELSE WrPtr
    BY DEF BufferStep, StbufEdge
  <2>2. (WrPtr + 1) % DEPTH = IF WrPtr + 1 < DEPTH THEN WrPtr + 1 ELSE WrPtr + 1 - DEPTH
    BY <1>1, Wraps
  <2>3. (WrPtr + 2) % DEPTH = IF WrPtr + 2 < DEPTH THEN WrPtr + 2 ELSE WrPtr + 2 - DEPTH
    BY <1>1, Wraps
  <2> QED
    BY <1>0, <1>1, <1>2, <2>1, <2>2, <2>3 DEF size
<1>7. m \in 0..DEPTH /\ m <= n + k
  BY <1>0, <1>1, <1>3, <1>4
<1>8. RdPtr' \in Entries /\ WrPtr' \in Entries
  BY PacketsStep DEF PacketsOK
<1>9. WrPtr' = (RdPtr' + m) % DEPTH
  <2>1. WrPtr = IF RdPtr + n < DEPTH THEN RdPtr + n ELSE RdPtr + n - DEPTH
    BY <1>1, Wraps DEF QueueOf
  <2>2. (RdPtr' + m) % DEPTH = IF RdPtr' + m < DEPTH THEN RdPtr' + m ELSE RdPtr' + m - DEPTH
    BY <1>7, <1>8, Wraps
  <2> QED
    BY <1>0, <1>1, <1>3, <1>4, <1>5, <1>6, <1>7, <2>1, <2>2
<1>10. \A i \in Entries : stbuf'[i].data_vld <=> dist(i, RdPtr') < m
  <2> TAKE i \in Entries
  <2>1. i \in popped(freeze) <=> out = 1 /\ i = RdPtr
    BY <1>0 DEF popped
  <2>2. i \in written(reqvld, dual) <=> n <= dist(i, RdPtr) /\ dist(i, RdPtr) < n + k
    BY <1>0, <1>2, WrittenEntries
  <2>3. stbuf'[i].data_vld <=>
          i \notin popped(freeze) /\ (i \in written(reqvld, dual) \/ stbuf[i].data_vld)
    BY FlagsEdge DEF SameFlags, NoEntry
  <2>4. stbuf[i].data_vld <=> dist(i, RdPtr) < n
    BY DEF QueueOf
  <2>5. /\ dist(i, RdPtr) = IF i >= RdPtr THEN i - RdPtr ELSE i - RdPtr + DEPTH
        /\ dist(i, RdPtr') = IF i >= RdPtr' THEN i - RdPtr' ELSE i - RdPtr' + DEPTH
    BY <1>1, <1>8, Wraps
  <2>6. i \in Int /\ 0 <= i /\ i < DEPTH
    BY <1>1 DEF Entries
  <2>7. stbuf'[i].data_vld <=> ~(out = 1 /\ i = RdPtr) /\ dist(i, RdPtr) < n + k
    BY <1>1, <1>3, <2>1, <2>2, <2>3, <2>4, <2>5, <2>6
  <2> QED
    BY <1>0, <1>1, <1>3, <1>4, <1>5, <2>5, <2>6, <2>7
<1>11. QueueOf(m)'
  BY <1>7, <1>9, <1>10 DEF QueueOf
<1> QED
  BY <1>0, <1>7, <1>11

-----------------------------------------------------------------------------
(* The entries that wait for dc4 or dc5 to commit are those that are neither
   marked to drain nor marked as flushed; an entry is marked once. *)

TakenBy(w) == IF CoreWrite(w) THEN Taken(w.ptr, w.dual) ELSE {}
Waits(e) == e.data_vld /\ ~e.drain_vld /\ ~e.flush_vld
DecidedOnce ==
  /\ TakenBy(dc4) \cap TakenBy(dc5) = {}
  /\ \A i \in Entries :
       /\ stbuf[i].drain_vld \/ stbuf[i].flush_vld => stbuf[i].data_vld
       /\ ~(stbuf[i].drain_vld /\ stbuf[i].flush_vld)
       /\ i \in TakenBy(dc4) \cup TakenBy(dc5) <=> Waits(stbuf[i])

LEMMA TakenEntries ==
  ASSUME NEW p \in Entries, NEW dual
  PROVE  Taken(p, dual) \subseteq Entries
BY PointerStep DEF Taken

LEMMA DecidedInit ==
  ASSUME Init
  PROVE  DecidedOnce
BY DEF Init, DecidedOnce, TakenBy, Waits, CoreWrite, NoWrite, NoEntry

LEMMA TakenStep ==
  ASSUME PacketsOK, NEW issued, NEW reqvld, NEW dual, NEW freeze, NEW flush_up, NEW flush_lower,
         PipeStep(issued, reqvld, dual, freeze, flush_up, flush_lower)
  PROVE  /\ (TakenBy(dc4))' = IF reqvld /\ ~dc3.dma THEN written(reqvld, dual) ELSE {}
         /\ (TakenBy(dc5))' = TakenBy(dc4)
<1>1. reqvld \in BOOLEAN /\ dual \in BOOLEAN /\ (reqvld => dc3.dma \in BOOLEAN)
  BY DEF PipeStep, internal, PacketsOK, StageOK, NoPacket
<1>2. (TakenBy(dc4))' = IF reqvld /\ ~dc3.dma THEN written(reqvld, dual) ELSE {}
  BY <1>1 DEF PipeStep, LateEdge, TakenBy, CoreWrite, NoWrite, written, Taken
<1>3. (TakenBy(dc5))' = TakenBy(dc4)
  <2>1. CASE dc4.reqvld
    <3>1. dc4 # NoWrite
      BY <2>1 DEF NoWrite
    <3>2. dc4 \in [reqvld : {TRUE}, valid : BOOLEAN, dma : BOOLEAN, op : {"load", "store"},
                   dual : BOOLEAN, ptr : Entries]
      BY <3>1 DEF PacketsOK, WriteOK
    <3>3. dc5' = [dc4 EXCEPT !.valid = dc4.valid /\ ~(flush_lower /\ ~dc4.dma)]
      BY <2>1 DEF PipeStep, LateEdge
    <3>4. dc5'.reqvld = dc4.reqvld /\ dc5'.dma = dc4.dma /\ dc5'.ptr = dc4.ptr
          /\ dc5'.dual = dc4.dual
      BY <3>2, <3>3
    <3> QED
      BY <3>4 DEF TakenBy, CoreWrite, Taken
  <2>2. CASE ~dc4.reqvld
    BY <2>2 DEF PipeStep, LateEdge, TakenBy, CoreWrite, NoWrite
  <2> QED
    BY <2>1, <2>2
<1> QED
  BY <1>2, <1>3

LEMMA DecidedStep ==
  ASSUME PacketsOK, FlagsOK, DecidedOnce, NEW issued, NEW reqvld, NEW dual, NEW err, NEW freeze,
         NEW flush_up, NEW flush_lower, NEW flush_dc3, NEW kill,
         PipeStep(issued, reqvld, dual, freeze, flush_up, flush_lower),
         BufferStep(reqvld, dual, err, freeze, flush_dc3, kill),
         \A i \in written(reqvld, dual) : ~stbuf[i].data_vld
  PROVE  DecidedOnce'
<1> DEFINE P == popped(freeze)
           W == written(reqvld, dual)
<1>1. reqvld \in BOOLEAN /\ dual \in BOOLEAN /\ (reqvld => dc3.dma \in BOOLEAN)
  BY DEF PipeStep, internal, PacketsOK, StageOK, NoPacket
<1>2. (TakenBy(dc4))' = IF reqvld /\ ~dc3.dma THEN W ELSE {}
  BY TakenStep
<1>3. (TakenBy(dc5))' = TakenBy(dc4)
  BY TakenStep
<1>4. Decided = TakenBy(dc5)
  BY DEF Decided, TakenBy, CoreWrite
<1>5. TakenBy(dc4) \subseteq Entries /\ TakenBy(dc5) \subseteq Entries /\ W \subseteq Entries
  <2>1. CoreWrite(dc4) => dc4.ptr \in Entries
    <3>1. CoreWrite(dc4) => dc4 # NoWrite
      BY DEF CoreWrite, NoWrite
    <3> QED
      BY <3>1 DEF PacketsOK, WriteOK
  <2>2. CoreWrite(dc5) => dc5.ptr \in Entries
    <3>1. CoreWrite(dc5) => dc5 # NoWrite
      BY DEF CoreWrite, NoWrite
    <3> QED
      BY <3>1 DEF PacketsOK, WriteOK
  <2> QED
    BY <2>1, <2>2, TakenEntries DEF TakenBy, written, PacketsOK
<1>6. \A i \in P : i \in Entries /\ (stbuf[i].drain_vld \/ stbuf[i].flush_vld)
  BY DEF popped, pop, lsu_stbuf_commit_any, stbuf_reqvld_any, head, PacketsOK
<1>7. P \cap W = {} /\ P \cap TakenBy(dc4) = {} /\ P \cap TakenBy(dc5) = {}
  BY <1>6 DEF DecidedOnce, Waits
<1>8. W \cap TakenBy(dc4) = {} /\ W \cap TakenBy(dc5) = {}
  BY <1>5 DEF DecidedOnce, Waits
<1>9. TakenBy(dc4)' \cap TakenBy(dc5)' = {}
  BY <1>2, <1>3, <1>8
<1>10. ASSUME NEW i \in Entries
       PROVE  /\ stbuf'[i].drain_vld \/ stbuf'[i].flush_vld => stbuf'[i].data_vld
              /\ ~(stbuf'[i].drain_vld /\ stbuf'[i].flush_vld)
              /\ i \in TakenBy(dc4)' \cup TakenBy(dc5)' <=> Waits(stbuf'[i])
  <2> HIDE DEF P, W
  <2>1. CASE i \in P
    <3>1. SameFlags(stbuf'[i], NoEntry)
      BY <2>1, FlagsEdge DEF P
    <3> QED
      BY <1>2, <1>3, <1>7, <2>1, <3>1 DEF SameFlags, NoEntry, Waits
  <2>2. CASE i \in W
    <3>1. stbuf'[i].data_vld /\ ~stbuf'[i].flush_vld /\ (stbuf'[i].drain_vld <=> dc3.dma)
      BY <1>7, <2>2, FlagsEdge DEF P, W
    <3>2. reqvld
      BY <2>2 DEF W, written
    <3> QED
      BY <1>2, <1>3, <1>8, <2>2, <3>1, <3>2 DEF Waits
  <2>3. CASE i \in TakenBy(dc5)
    <3>1. i \notin P \cup W
      BY <1>7, <1>8, <2>3
    <3>2. /\ stbuf'[i].data_vld <=> stbuf[i].data_vld
          /\ \/ stbuf'[i].drain_vld /\ (stbuf'[i].flush_vld <=> stbuf[i].flush_vld)
             \/ stbuf'[i].flush_vld /\ (stbuf'[i].drain_vld <=> stbuf[i].drain_vld)
      BY <1>4, <2>3, <3>1, FlagsEdge DEF P, W
    <3>3. Waits(stbuf[i]) /\ i \notin TakenBy(dc4)
      BY <2>3 DEF DecidedOnce
    <3> QED
      BY <1>2, <1>3, <3>1, <3>2, <3>3 DEF Waits
  <2>4. CASE i \notin P \cup W \cup TakenBy(dc5)
    <3>1. SameFlags(stbuf'[i], stbuf[i])
      BY <1>4, <2>4, FlagsEdge DEF P, W
    <3>2. /\ stbuf[i].drain_vld \/ stbuf[i].flush_vld => stbuf[i].data_vld
          /\ ~(stbuf[i].drain_vld /\ stbuf[i].flush_vld)
          /\ i \in TakenBy(dc4) <=> Waits(stbuf[i])
      BY <2>4 DEF DecidedOnce
    <3> QED
      BY <1>2, <1>3, <2>4, <3>1, <3>2 DEF SameFlags, Waits
  <2> QED
    BY <2>1, <2>2, <2>3, <2>4
<1> QED
  BY <1>9, <1>10 DEF DecidedOnce

-----------------------------------------------------------------------------
(* Room: a store that is on its way, and every packet ahead of it, still finds
   the entries it may ask for. *)

claim(p) == IF internal(p) THEN spec(p) ELSE 0
store_in(p) == internal(p) /\ p.op = "store"
Room(n) ==
  /\ store_in(dc1) => n + claim(dc1) + claim(dc2) + claim(dc3) <= DEPTH
  /\ store_in(dc2) => n + claim(dc2) + claim(dc3) <= DEPTH
  /\ store_in(dc3) => n + claim(dc3) <= DEPTH

(* What dc3 writes: never more than there is room for, nor than it claims. *)
LEMMA WriteFits ==
  ASSUME PacketsOK, NEW issued, NEW reqvld, NEW dual, NEW err, NEW freeze, NEW flush_up,
         NEW flush_lower, NEW flush_dc3, NEW kill,
         PipeStep(issued, reqvld, dual, freeze, flush_up, flush_lower),
         BufferStep(reqvld, dual, err, freeze, flush_dc3, kill),
         NEW n, QueueOf(n), Room(n)
  PROVE  n + size(reqvld, dual) <= DEPTH /\ size(reqvld, dual) <= claim(dc3)
<1>1. n \in Nat /\ n <= DEPTH /\ DEPTH \in Nat /\ numvld = n
  <2>1. numvld = n
    BY CountValid DEF PacketsOK
  <2> QED
    BY <2>1, StbufAssumption DEF QueueOf
<1>2. reqvld \in BOOLEAN /\ dual \in BOOLEAN
  BY DEF PipeStep
<1>3. CASE ~reqvld
  BY <1>1, <1>3 DEF size, claim, spec
<1>4. CASE reqvld
  <2>1. internal(dc3) /\ dc3.op \in {"load", "store"}
    BY <1>4 DEF PipeStep, internal, PacketsOK, StageOK, NoPacket
  <2>2. size(reqvld, dual) = IF dual THEN 2 ELSE 1
    BY <1>4 DEF size
  <2>3. dual => ldst_dual(dc3)
    BY DEF BufferStep, dual_stbuf_write
  <2>4. claim(dc3) = IF ldst_dual(dc3) THEN 2 ELSE 1
    BY <2>1 DEF claim, spec
  <2>5. CASE dc3.op = "store"
    BY <1>1, <1>2, <2>1, <2>2, <2>3, <2>4, <2>5 DEF Room, store_in
  <2>6. CASE dc3.op = "load"
    <3>1. /\ IF dual_ecc_error(err) THEN numvld < DEPTH - 1 ELSE numvld < DEPTH
          /\ dual => dual_ecc_error(err)
      BY <1>4, <2>6 DEF BufferStep, ldst_stbuf_reqvld, dual_stbuf_write, store_stbuf_reqvld
    <3> QED
      BY <1>1, <1>2, <2>2, <2>3, <2>4, <3>1
  <2> QED
    BY <2>1, <2>5, <2>6
<1> QED
  BY <1>2, <1>3, <1>4

LEMMA RoomStep ==
  ASSUME PacketsOK, NEW issued, NEW reqvld, NEW dual, NEW err, NEW freeze, NEW flush_up,
         NEW flush_lower, NEW flush_dc3, NEW kill,
         PipeStep(issued, reqvld, dual, freeze, flush_up, flush_lower),
         BufferStep(reqvld, dual, err, freeze, flush_dc3, kill),
         NEW n, QueueOf(n), Room(n),
         NEW m \in Nat, m <= n + size(reqvld, dual)
  PROVE  Room(m)'
<1>1. n \in Nat /\ n <= DEPTH /\ DEPTH \in Nat /\ numvld = n
  <2>1. numvld = n
    BY CountValid DEF PacketsOK
  <2> QED
    BY <2>1, StbufAssumption DEF QueueOf
<1>2. size(reqvld, dual) \in 0..2 /\ size(reqvld, dual) <= claim(dc3)
  BY WriteFits DEF size
<1>3. \A p : claim(p) \in 0..2 /\ (~p.valid => claim(p) = 0)
  BY DEF claim, spec, internal
<1>4. claim(NoPacket) = 0 /\ ~store_in(NoPacket)
  BY DEF claim, store_in, internal, NoPacket
<1>5. store_in(issued) => n + claim(dc1) + claim(dc2) + claim(dc3) + 2 <= DEPTH
  <2> SUFFICES ASSUME store_in(issued)
               PROVE  n + claim(dc1) + claim(dc2) + claim(dc3) + 2 <= DEPTH
    OBVIOUS
  <2>1. ~lsu_stbuf_full_any
    BY IssuedPackets DEF PipeStep, store_in, internal
  <2>2. stbuf_specvld_any = n + (IF dc1.valid THEN spec(dc1) ELSE 0) + claim(dc2) + claim(dc3)
    BY <1>1 DEF stbuf_specvld_any, claim
  <2>3. claim(dc1) <= (IF dc1.valid THEN spec(dc1) ELSE 0)
    BY DEF claim, spec, internal
  <2>4. (IF dc1.valid THEN spec(dc1) ELSE 0) \in 0..2
    BY DEF spec
  <2> QED
    BY <1>1, <1>3, <2>1, <2>2, <2>3, <2>4 DEF lsu_stbuf_full_any
<1>6. CASE freeze
  <2>1. UNCHANGED <<dc1, dc2, dc3>>
    BY <1>6 DEF PipeStep, EarlyEdge
  <2>2. size(reqvld, dual) = 0
    BY <1>6 DEF PipeStep, size
  <2>3. m <= n
    BY <1>1, <2>2
  <2> QED
    BY <1>1, <1>3, <2>1, <2>3 DEF Room
<1>7. CASE ~freeze
  <2>1. /\ dc1' \in {issued, NoPacket} /\ dc2' \in {dc1, NoPacket} /\ dc3' \in {dc2, NoPacket}
    BY <1>7 DEF PipeStep, EarlyEdge
  <2>2. /\ claim(dc2') <= claim(dc1) /\ claim(dc3') <= claim(dc2)
        /\ store_in(dc1') => store_in(issued)
        /\ store_in(dc2') => store_in(dc1) /\ dc2' = dc1
        /\ store_in(dc3') => store_in(dc2) /\ dc3' = dc2
    BY <1>3, <1>4, <2>1
  <2>3. store_in(dc1') => m + claim(dc1') + claim(dc2') + claim(dc3') <= DEPTH
    <3>1. /\ claim(dc1) \in 0..2 /\ claim(dc2) \in 0..2 /\ claim(dc3) \in 0..2
          /\ claim(dc1') \in 0..2 /\ claim(dc2') \in 0..2 /\ claim(dc3') \in 0..2
      BY <1>3
    <3> QED
      BY <1>1, <1>2, <1>5, <2>2, <3>1
  <2>4. store_in(dc2') => m + claim(dc2') + claim(dc3') <= DEPTH
    <3>1. /\ claim(dc1) \in 0..2 /\ claim(dc2) \in 0..2 /\ claim(dc3) \in 0..2
          /\ claim(dc2') \in 0..2 /\ claim(dc3') \in 0..2
      BY <1>3
    <3> QED
      BY <1>1, <1>2, <2>2, <3>1 DEF Room
  <2>5. store_in(dc3') => m + claim(dc3') <= DEPTH
    <3>1. claim(dc2) \in 0..2 /\ claim(dc3) \in 0..2 /\ claim(dc3') \in 0..2
      BY <1>3
    <3> QED
      BY <1>1, <1>2, <2>2, <3>1 DEF Room
  <2>6. Room(m)'
    BY <2>3, <2>4, <2>5 DEF Room, claim, store_in, internal, spec, ldst_dual, lo, hi, end_addr
  <2> QED
    BY <2>6
<1> QED
  BY <1>6, <1>7

-----------------------------------------------------------------------------
(* The inductive invariant of the buffer. *)

BufferOK ==
  /\ PacketsOK /\ FlagsOK /\ DecidedOnce
  /\ \E n \in 0..DEPTH : QueueOf(n) /\ Room(n)

LEMMA BufferInit ==
  ASSUME Init
  PROVE  BufferOK
<1>1. QueueOf(0)
  <2>1. DEPTH \in Nat /\ WrPtr = 0 /\ RdPtr = 0 /\ 0 \in Entries /\ 0 \in 0..DEPTH
    BY StbufAssumption DEF Init, Entries
  <2>2. (RdPtr + 0) % DEPTH = 0
    BY StbufAssumption, <2>1
  <2>3. \A i \in Entries : ~stbuf[i].data_vld
    BY DEF Init, NoEntry
  <2>4. \A i \in Entries : dist(i, RdPtr) \in Entries
    BY <2>1, Wraps
  <2>5. \A i \in Entries : ~(dist(i, RdPtr) < 0)
    BY <2>1, <2>4 DEF Entries
  <2> QED
    BY <2>1, <2>2, <2>3, <2>5 DEF QueueOf
<1>2. Room(0)
  BY DEF Init, Room, store_in, internal, NoPacket
<1>3. 0 \in 0..DEPTH
  BY StbufAssumption
<1> QED
  BY <1>1, <1>2, <1>3, PacketsInit, FlagsInit, DecidedInit DEF BufferOK

LEMMA BufferNext ==
  ASSUME BufferOK, Next
  PROVE  BufferOK'
<1>1. PICK issued, reqvld, dual, err, freeze, flush_up, flush_lower, flush_dc3, kill :
        /\ PipeStep(issued, reqvld, dual, freeze, flush_up, flush_lower)
        /\ BufferStep(reqvld, dual, err, freeze, flush_dc3, kill)
  BY NextIsEdge
<1>2. PacketsOK /\ FlagsOK /\ DecidedOnce
  BY DEF BufferOK
<1>3. PICK n \in 0..DEPTH : QueueOf(n) /\ Room(n)
  BY DEF BufferOK
<1>4. n + size(reqvld, dual) <= DEPTH
  BY <1>1, <1>2, <1>3, WriteFits
<1>5. head.drain_vld \/ head.flush_vld => head.data_vld
  BY <1>2 DEF DecidedOnce, PacketsOK, head
<1>6. PICK m : QueueOf(m)' /\ m <= n + size(reqvld, dual)
  BY <1>1, <1>2, <1>3, <1>4, <1>5, QueueStep
<1>7. m \in 0..DEPTH
  BY <1>6 DEF QueueOf
<1>8. m \in Nat
  BY <1>7, StbufAssumption
<1>9. Room(m)'
  BY <1>1, <1>2, <1>3, <1>6, <1>8, RoomStep
<1>10. \A i \in written(reqvld, dual) : ~stbuf[i].data_vld
  <2> TAKE i \in written(reqvld, dual)
  <2>1. reqvld \in BOOLEAN /\ dual \in BOOLEAN
    BY <1>1 DEF PipeStep
  <2>2. i \in Entries
    BY <1>2, TakenEntries DEF written, PacketsOK
  <2>3. n <= dist(i, RdPtr)
    BY <1>2, <1>3, <1>4, <2>1, <2>2, WrittenEntries
  <2>4. dist(i, RdPtr) \in Int /\ n \in Int
    BY <1>2, <2>2, StbufAssumption, Wraps DEF Entries, PacketsOK
  <2> QED
    BY <1>3, <2>2, <2>3, <2>4 DEF QueueOf
<1>11. PacketsOK'
  BY <1>1, <1>2, PacketsStep
<1>12. FlagsOK'
  BY <1>1, <1>2, FlagsEdge DEF FlagsOK
<1>13. DecidedOnce'
  BY <1>1, <1>2, <1>10, DecidedStep
<1> QED
  BY <1>6, <1>7, <1>9, <1>11, <1>12, <1>13 DEF BufferOK

LEMMA BufferStutter ==
  ASSUME BufferOK, UNCHANGED vars
  PROVE  BufferOK'
<1>1. UNCHANGED <<dc1, dc2, dc3, dc4, dc5, stbuf, WrPtr, RdPtr>>
  BY DEF vars
<1>2. PacketsOK'
  <2>1. StageOK(dc1)' /\ StageOK(dc2)' /\ StageOK(dc3)'
    BY <1>1 DEF BufferOK, PacketsOK, StageOK
  <2>2. WriteOK(dc4)' /\ WriteOK(dc5)'
    BY <1>1 DEF BufferOK, PacketsOK, WriteOK
  <2> QED
    BY <1>1, <2>1, <2>2 DEF BufferOK, PacketsOK
<1>3. FlagsOK' /\ DecidedOnce'
  BY <1>1 DEF BufferOK, FlagsOK, Flags, DecidedOnce, TakenBy, CoreWrite, Waits
<1>4. \A n : QueueOf(n) => QueueOf(n)'
  BY <1>1 DEF QueueOf
<1>5. \A n : Room(n) => Room(n)'
  BY <1>1 DEF Room, store_in, claim, internal, spec, ldst_dual, lo, hi, end_addr
<1> QED
  BY <1>2, <1>3, <1>4, <1>5 DEF BufferOK

LEMMA BufferInvariant == Spec => []BufferOK
<1>1. Init => BufferOK
  BY BufferInit
<1>2. BufferOK /\ [Next]_vars => BufferOK'
  BY BufferNext, BufferStutter
<1> QED
  BY <1>1, <1>2, PTL DEF Spec

(* The count of the packets that may still ask for an entry, which stops decode
   and the DMA three stages before, is never too low: a store in dc3 finds its
   entry, or both of its entries, free. *)
THEOREM StoresFindRoom == Spec => []StoreFindsRoom
<1>1. BufferOK => StoreFindsRoom
  <2> SUFFICES ASSUME BufferOK, internal(dc3), dc3.op = "store",
                      NEW i \in Taken(WrPtr, ldst_dual(dc3))
               PROVE  ~stbuf[i].data_vld
    BY DEF StoreFindsRoom
  <2>1. PICK n \in 0..DEPTH : QueueOf(n) /\ Room(n)
    BY DEF BufferOK
  <2> DEFINE two == ldst_dual(dc3)
  <2>2. two \in BOOLEAN /\ i \in written(TRUE, two)
    BY DEF written, ldst_dual
  <2>3. n + size(TRUE, two) <= DEPTH
    BY <2>1 DEF Room, store_in, claim, spec, size
  <2>4. i \in Entries
    BY TakenEntries DEF BufferOK, PacketsOK
  <2> HIDE DEF two
  <2>5. n <= dist(i, RdPtr)
    BY <2>1, <2>2, <2>3, <2>4, WrittenEntries DEF BufferOK
  <2>6. dist(i, RdPtr) \in Int /\ n \in Int
    BY <2>4, StbufAssumption, Wraps DEF Entries, BufferOK, PacketsOK
  <2> QED
    BY <2>1, <2>4, <2>5, <2>6 DEF QueueOf
<1> QED
  BY <1>1, BufferInvariant, PTL

(* Every valid entry is between RdPtr and WrPtr and drains, is flushed, or
   waits for its instruction in dc4 or dc5: none is left that would stop the
   buffer for good. *)
THEOREM EntriesAreDecided == Spec => []EveryEntryDecided
<1>1. BufferOK => EveryEntryDecided
  <2> SUFFICES ASSUME BufferOK
               PROVE  EveryEntryDecided
    OBVIOUS
  <2>1. PICK n \in 0..DEPTH : QueueOf(n)
    BY DEF BufferOK
  <2>2. numvld = n /\ RdPtr \in Entries /\ WrPtr \in Entries
    BY <2>1, CountValid DEF BufferOK, PacketsOK
  <2>3. numvld = IF WrPtr = RdPtr /\ ~head.data_vld THEN 0
                 ELSE IF WrPtr = RdPtr THEN DEPTH ELSE (WrPtr - RdPtr) % DEPTH
    <3>1. n \in Nat /\ n <= DEPTH /\ DEPTH \in Nat /\ DEPTH >= 2
          /\ RdPtr \in Int /\ 0 <= RdPtr /\ RdPtr < DEPTH
      BY <2>2, StbufAssumption DEF Entries
    <3>2. WrPtr = IF RdPtr + n < DEPTH THEN RdPtr + n ELSE RdPtr + n - DEPTH
      BY <2>1, <2>2, Wraps DEF QueueOf
    <3>3. (WrPtr - RdPtr) % DEPTH = IF WrPtr >= RdPtr THEN WrPtr - RdPtr
                                                     ELSE WrPtr - RdPtr + DEPTH
      BY <2>2, Wraps DEF dist
    <3>4. head.data_vld <=> 0 < n
      <4>1. dist(RdPtr, RdPtr) = 0
        BY <2>2, <3>1, Wraps
      <4> QED
        BY <2>1, <2>2, <4>1 DEF QueueOf, head
    <3> QED
      BY <2>2, <3>1, <3>2, <3>3, <3>4
  <2>4. Undecided = TakenBy(dc4) \cup TakenBy(dc5)
    BY DEF Undecided, TakenBy, CoreWrite
  <2>5. \A i \in Entries :
          /\ stbuf[i].data_vld <=> (i - RdPtr) % DEPTH < numvld
          /\ i \in Undecided <=> stbuf[i].data_vld /\ ~stbuf[i].drain_vld /\ ~stbuf[i].flush_vld
          /\ ~(stbuf[i].drain_vld /\ stbuf[i].flush_vld)
    BY <2>1, <2>2, <2>4 DEF QueueOf, dist, BufferOK, DecidedOnce, Waits
  <2> QED
    BY <2>3, <2>5 DEF EveryEntryDecided
<1> QED
  BY <1>1, BufferInvariant, PTL

-----------------------------------------------------------------------------
(* The data of the buffer.  From memory as the DCCM and the PIC hold it, entry
   k of the buffer (the head is entry 0) makes memory as the instructions behind
   it see it: v[k] is the value of byte b of cell c before entry k, v[n] the one
   behind the last. *)

reads(p) == reads_dccm(p) \/ (internal(p) /\ p.op = "load")
at(k) == (RdPtr + k) % DEPTH

(* An entry whose instruction was flushed in dc4, and will be flushed from dc5. *)
doomed(i) == i \in TakenBy(dc5) /\ ~dc5.valid
live(i) == stbuf[i].data_vld /\ ~stbuf[i].flush_vld /\ ~doomed(i)
ofLoad(i) == \E w \in {dc4, dc5} : i \in TakenBy(w) /\ w.op = "load"

(* Entries below d are decided, those from d to e wait for dc5, the others for dc4. *)
Ordered(n, d, e) ==
  /\ d \in 0..n /\ e \in d..n
  /\ \A k \in 0..n - 1 :
       /\ at(k) \in TakenBy(dc5) <=> d <= k /\ k < e
       /\ at(k) \in TakenBy(dc4) <=> e <= k

(* An entry changes what its own bytes show, and with the others, and with all
   those of a load, it repeats what was there. *)
Layers(v, c, b, n) ==
  /\ v[0] = array[c][b]
  /\ \A k \in 0..n - 1 :
       /\ v[k + 1] = IF live(at(k)) /\ stbuf[at(k)].addr = c THEN stbuf[at(k)].data[b] ELSE v[k]
       /\ (stbuf[at(k)].addr = c /\ b \notin stbuf[at(k)].byteen) \/ ofLoad(at(k)) =>
            v[k + 1] = v[k]

(* Memory is what the decided entries leave, dc3 has read what they all leave. *)
Sees(v, c, b, n, d) ==
  /\ mem[c][b] = v[d]
  /\ reads(dc3) => /\ lo(dc3) = c => lsu_rdata_lo_dc3[b] = v[n]
                   /\ hi(dc3) = c => lsu_rdata_hi_dc3[b] = v[n]

Word(w) == w = [b \in Byte |-> w[b]]
Filled(x) ==
  {"addr", "byteen", "data"} \subseteq DOMAIN x /\ x.addr \in Cells /\ Word(x.data)
WordsOK ==
  /\ array = [c \in Cells |-> array[c]] /\ \A c \in Cells : Word(array[c]) /\ Word(mem[c])
  /\ \A i \in Entries : stbuf[i].data_vld => Filled(stbuf[i])
  /\ \A w \in {dc4, dc5} :
       CoreWrite(w) /\ w.dual => stbuf[w.ptr].addr # stbuf[(w.ptr + 1) % DEPTH].addr

(* An internal access is inside the memories; a store that does not read
   fills its words. *)
CellsOK(p) ==
  internal(p) =>
    /\ lo(p) \in Cells /\ hi(p) \in Cells
    /\ ~reads(p) => byteen(p, lo(p)) = Byte /\ byteen(p, hi(p)) = Byte

StagesOK ==
  /\ CellsOK(dc1) /\ CellsOK(dc2) /\ CellsOK(dc3)
  /\ dma_in(dc3) => ~CoreWrite(dc4) /\ ~CoreWrite(dc5)
  /\ dc4.reqvld => dc4.valid
  /\ CoreWrite(dc5) /\ ~dc5.valid =>
       ~core(dc1) /\ ~core(dc2) /\ ~core(dc3) /\ ~CoreWrite(dc4)
  /\ ld_freeze_dc3 => dc3.valid /\ dc3.region = "ext"
  /\ reads(dc2) => rd_dc2.lo = array[lo(dc2)] /\ rd_dc2.hi = array[hi(dc2)]

-----------------------------------------------------------------------------
(* Positions. *)

LEMMA Positions ==
  /\ \A r \in Entries, k \in Entries : (r + k) % DEPTH \in Entries /\ dist((r + k) % DEPTH, r) = k
  /\ \A r \in Entries, i \in Entries : (r + dist(i, r)) % DEPTH = i
<1>1. DEPTH \in Nat /\ DEPTH >= 2
  BY StbufAssumption
<1>2. ASSUME NEW r \in Entries, NEW k \in Entries
      PROVE  (r + k) % DEPTH \in Entries /\ dist((r + k) % DEPTH, r) = k
  <2>1. (r + k) % DEPTH = IF r + k < DEPTH THEN r + k ELSE r + k - DEPTH
    BY <1>1, Wraps DEF Entries
  <2>2. (r + k) % DEPTH \in Entries
    BY <1>1, <2>1 DEF Entries
  <2>3. dist((r + k) % DEPTH, r) = IF ((r + k) % DEPTH) >= r THEN ((r + k) % DEPTH) - r
                                                         ELSE ((r + k) % DEPTH) - r + DEPTH
    BY <2>2, Wraps
  <2> QED
    BY <1>1, <2>1, <2>2, <2>3 DEF Entries
<1>3. ASSUME NEW r \in Entries, NEW i \in Entries
      PROVE  (r + dist(i, r)) % DEPTH = i
  <2>1. dist(i, r) = (IF i >= r THEN i - r ELSE i - r + DEPTH) /\ dist(i, r) \in Entries
    BY Wraps
  <2>2. PICK k \in Entries : k = dist(i, r)
    BY <2>1
  <2>3. (r + k) % DEPTH = IF r + k < DEPTH THEN r + k ELSE r + k - DEPTH
    BY <1>1, Wraps DEF Entries
  <2> QED
    BY <1>1, <2>1, <2>2, <2>3 DEF Entries
<1> QED
  BY <1>2, <1>3

(* A set of positions has a last one. *)
LEMMA LastPosition ==
  ASSUME NEW S, S \subseteq Entries, S # {}
  PROVE  Max(S) \in S /\ \A k \in S : k <= Max(S)
<1>1. S \subseteq {0, 1, 2, 3, 4, 5, 6, 7}
  BY StbufAssumption DEF Entries
<1>2. \E m \in S : \A k \in S : m >= k
  <2>1. CASE 7 \in S
    BY <1>1, <2>1
  <2>2. CASE 6 \in S /\ 7 \notin S
    BY <1>1, <2>2
  <2>3. CASE 5 \in S /\ 6 \notin S /\ 7 \notin S
    BY <1>1, <2>3
  <2>4. CASE 4 \in S /\ 5 \notin S /\ 6 \notin S /\ 7 \notin S
    BY <1>1, <2>4
  <2>5. CASE 3 \in S /\ S \cap {4, 5, 6, 7} = {}
    BY <1>1, <2>5
  <2>6. CASE 2 \in S /\ S \cap {3, 4, 5, 6, 7} = {}
    BY <1>1, <2>6
  <2>7. CASE 1 \in S /\ S \cap {2, 3, 4, 5, 6, 7} = {}
    BY <1>1, <2>7
  <2>8. CASE S \cap {1, 2, 3, 4, 5, 6, 7} = {}
    <3>1. 0 \in S /\ \A k \in S : k = 0
      BY <1>1, <2>8
    <3> QED
      BY <3>1
  <2> QED
    BY <2>1, <2>2, <2>3, <2>4, <2>5, <2>6, <2>7, <2>8
<1>3. PICK m \in S : m = Max(S) /\ \A k \in S : m >= k
  BY <1>2 DEF Max
<1> QED
  BY <1>1, <1>3

(* A view that no entry changes between two positions is the same at both. *)
LEMMA Settled ==
  ASSUME NEW v, NEW n \in 0..DEPTH, NEW m \in 0..n,
         \A k \in 0..n - 1 : m <= k => v[k + 1] = v[k]
  PROVE  v[n] = v[m]
<1>1. n \in 0..8 /\ m \in 0..8 /\ m <= n
  BY StbufAssumption
<1>2. \A k \in 0..7 : m <= k /\ k < n => v[k + 1] = v[k]
  BY <1>1
<1>3. /\ m <= 0 /\ 0 < n => v[1] = v[0]
      /\ m <= 1 /\ 1 < n => v[2] = v[1]
      /\ m <= 2 /\ 2 < n => v[3] = v[2]
      /\ m <= 3 /\ 3 < n => v[4] = v[3]
      /\ m <= 4 /\ 4 < n => v[5] = v[4]
      /\ m <= 5 /\ 5 < n => v[6] = v[5]
      /\ m <= 6 /\ 6 < n => v[7] = v[6]
      /\ m <= 7 /\ 7 < n => v[8] = v[7]
  BY <1>2
<1>4. /\ n \in {0, 1, 2, 3, 4, 5, 6, 7, 8} /\ m \in {0, 1, 2, 3, 4, 5, 6, 7, 8}
  BY <1>1
<1> QED
  BY <1>1, <1>3, <1>4

-----------------------------------------------------------------------------
(* The words of an access. *)

LEMMA Division ==
  ASSUME NEW a \in Nat
  PROVE  /\ a = (a \div BYTES) * BYTES + (a % BYTES)
         /\ a \div BYTES \in Int /\ a % BYTES \in 0..BYTES - 1
BY StbufAssumption

LEMMA LastWord ==
  ASSUME NEW a \in Nat, NEW n \in {1, 2}, a % BYTES = 0
  PROVE  (a + n * BYTES - 1) \div BYTES = (a \div BYTES) + n - 1
<1>1. PICK B \in Nat \ {0} : B = BYTES
  BY StbufAssumption
<1>2. PICK q \in Int : q = a \div BYTES
  BY Division
<1>3. a = q * B
  BY <1>1, <1>2, Division
<1>4. PICK x \in Nat : x = a + n * BYTES - 1
  BY <1>1
<1>5. PICK r \in Int : r = x \div BYTES
  BY Division
<1>6. PICK m \in 0..B - 1 : x = r * B + m
  BY <1>1, <1>5, Division
<1>7. PICK t \in Int : t = q + n - 1
  OBVIOUS
<1>8. x = t * B + B - 1
  <2>1. CASE n = 1
    BY <1>1, <1>3, <1>4, <1>7, <2>1
  <2>2. CASE n = 2
    BY <1>1, <1>3, <1>4, <1>7, <2>2
  <2> QED
    BY <2>1, <2>2
<1>9. (t - r) * B <= 0 /\ (r - t) * B < B
  BY <1>6, <1>8
<1>10. ~(t > r)
  <2> SUFFICES ASSUME t > r
               PROVE  FALSE
    OBVIOUS
  <2>1. t - r >= 1
    OBVIOUS
  <2>2. (t - r) * B >= B
    BY <2>1
  <2> QED
    BY <1>9, <2>2
<1>11. ~(r > t)
  <2> SUFFICES ASSUME r > t
               PROVE  FALSE
    OBVIOUS
  <2>1. r - t >= 1
    OBVIOUS
  <2>2. (r - t) * B >= B
    BY <2>1
  <2> QED
    BY <1>9, <2>2
<1>12. r = t
  BY <1>10, <1>11
<1> QED
  BY <1>2, <1>4, <1>5, <1>7, <1>12

LEMMA WholeWords ==
  ASSUME NEW p, p.addr \in Nat, p.size \in {1, BYTES, 2 * BYTES}, whole_words(p)
  PROVE  byteen(p, lo(p)) = Byte /\ byteen(p, hi(p)) = Byte
<1>1. PICK B \in Nat \ {0} : B = BYTES
  BY StbufAssumption
<1>2. PICK n \in {1, 2} : p.size = n * B
  BY <1>1 DEF whole_words
<1>3. p.addr % BYTES = 0
  BY DEF whole_words
<1>4. PICK q \in Int : q = p.addr \div BYTES
  BY Division
<1>5. p.addr = q * B
  BY <1>1, <1>3, <1>4, Division
<1>6. (p.addr + p.size - 1) \div BYTES = q + n - 1
  BY <1>1, <1>2, <1>3, <1>4, LastWord
<1>7. lo(p)[2] = q /\ hi(p)[2] = q + n - 1
  BY <1>4, <1>6 DEF lo, hi, word, end_addr
<1>8. \A b \in Byte : q * B + b \in q * B .. q * B + n * B - 1
  BY <1>1, <1>2 DEF Byte
<1>9. \A b \in Byte : (q + n - 1) * B + b \in q * B .. q * B + n * B - 1
  <2>1. CASE n = 1
    BY <1>1, <2>1 DEF Byte
  <2>2. CASE n = 2
    BY <1>1, <2>2 DEF Byte
  <2> QED
    BY <2>1, <2>2
<1> QED
  BY <1>1, <1>2, <1>5, <1>7, <1>8, <1>9 DEF byteen, end_addr

(* What is issued is inside the memories. *)
LEMMA AccessCells ==
  ASSUME NEW dma \in BOOLEAN, NEW p \in Packets(CoreAccesses \cup DmaAccesses, dma)
  PROVE  CellsOK(p)
<1>1. PICK a \in CoreAccesses \cup DmaAccesses : \E d : p = Packet(a, dma, d)
  BY DEF Packets
<1>2. /\ p.valid /\ p.op = a.op /\ p.region = a.region /\ p.addr = a.addr /\ p.size = a.size
  BY <1>1 DEF Packet
<1>3. /\ a.op \in {"load", "store"} /\ a.addr \in Nat /\ a.size \in {1, BYTES, 2 * BYTES}
      /\ a.region = "pic" => a.size = BYTES /\ a.addr % BYTES = 0
      /\ a.region \in Internal =>
           a.addr \div BYTES \in Words /\ (a.addr + a.size - 1) \div BYTES \in Words
  BY StbufAssumption
<1>4. ASSUME internal(p)
      PROVE  lo(p) \in Cells /\ hi(p) \in Cells
  BY <1>2, <1>3, <1>4 DEF internal, lo, hi, word, end_addr, Cells
<1>5. ASSUME internal(p), ~reads(p)
      PROVE  whole_words(p)
  <2>1. p.region \in {"dccm", "pic"}
    BY <1>5 DEF internal, Internal
  <2>2. CASE p.region = "dccm"
    BY <1>2, <1>3, <1>5, <2>2 DEF reads, reads_dccm
  <2>3. CASE p.region = "pic"
    BY <1>2, <1>3, <2>3, StbufAssumption DEF whole_words
  <2> QED
    BY <2>1, <2>2, <2>3
<1> QED
  BY <1>2, <1>3, <1>4, <1>5, WholeWords DEF CellsOK

LEMMA IssuedCells ==
  ASSUME NEW flush, NEW freeze, NEW p \in Issued(flush, freeze)
  PROVE  CellsOK(p)
<1>1. CASE p = NoPacket
  BY <1>1 DEF CellsOK, internal, NoPacket
<1>2. CASE p \in CorePackets
  <2>1. p \in Packets(CoreAccesses \cup DmaAccesses, FALSE)
    BY <1>2, IssuedPacketsAre
  <2> QED
    BY <2>1, AccessCells
<1>3. CASE p \in DmaPackets
  <2>1. p \in Packets(CoreAccesses \cup DmaAccesses, TRUE)
    BY <1>3, IssuedPacketsAre
  <2> QED
    BY <2>1, AccessCells
<1> QED
  BY <1>1, <1>2, <1>3 DEF Issued

(* A word is read from the DCCM or the PIC as it is after the edge: what drains
   in the same cycle goes elsewhere. *)
LEMMA ReadInTime ==
  ASSUME reads(dc1), array = [c \in Cells |-> array[c]], NEW freeze, ArrayEdge(freeze),
         NEW c \in Cells, c \in {lo(dc1), hi(dc1)}
  PROVE  ReadCell(c, lsu_stbuf_commit_any(freeze)) = array'[c]
<1>1. c[1] = dc1.region /\ dc1.region \in {"dccm", "pic"} /\ internal(dc1)
  BY DEF reads, reads_dccm, internal, Internal, lo, hi
<1>2. CASE ~lsu_stbuf_commit_any(freeze)
  BY <1>2 DEF ReadCell, ArrayEdge
<1>3. CASE lsu_stbuf_commit_any(freeze)
  <2>1. CASE dc1.region = "dccm"
    <3>1. lsu_dccm_rden_dc1 /\ ~picm_access_dc1
      BY <1>1, <2>1 DEF reads, reads_dccm, lsu_dccm_rden_dc1, picm_access_dc1
    <3>2. head.addr[1] = "pic" \/ bank(head.addr) # bank(c)
      BY <1>3, <3>1 DEF lsu_stbuf_commit_any, stbuf_addr_in_pic_any
    <3>3. head.addr # c
      BY <1>1, <2>1, <3>2
    <3> QED
      BY <1>3, <3>2, <3>3 DEF ReadCell, ArrayEdge
  <2>2. CASE dc1.region = "pic"
    <3>1. ~lsu_dccm_rden_dc1 /\ picm_access_dc1
      BY <1>1, <2>2 DEF reads_dccm, lsu_dccm_rden_dc1, picm_access_dc1
    <3>2. head.addr[1] # "pic"
      BY <1>3, <3>1 DEF lsu_stbuf_commit_any, stbuf_addr_in_pic_any
    <3>3. head.addr # c
      BY <1>1, <2>2, <3>2
    <3> QED
      BY <1>1, <1>3, <2>2, <3>3 DEF ReadCell, ArrayEdge
  <2> QED
    BY <1>1, <2>1, <2>2
<1> QED
  BY <1>2, <1>3

LEMMA StagesStep ==
  ASSUME PacketsOK, Alone, StagesOK, array = [c \in Cells |-> array[c]],
         NEW issued, NEW reqvld, NEW dual, NEW err, NEW freeze, NEW flush_up,
         NEW flush_lower, NEW flush_dc3, NEW kill,
         PipeStep(issued, reqvld, dual, freeze, flush_up, flush_lower),
         BufferStep(reqvld, dual, err, freeze, flush_dc3, kill),
         DataStep(reqvld, freeze, flush_up, flush_lower, flush_dc3, kill)
  PROVE  StagesOK'
<1>1. freeze => UNCHANGED <<dc1, dc2, dc3, rd_dc2, rd_dc3, fwd_dc3>>
  BY DEF PipeStep, EarlyEdge
<1>2. ~freeze => /\ dc1' \in {issued, NoPacket} /\ dc2' \in {dc1, NoPacket}
                 /\ dc3' \in {dc2, NoPacket}
  BY DEF PipeStep, EarlyEdge
<1>3. CoreWrite(dc4)' => core(dc3) /\ ~freeze
  BY DEF PipeStep, LateEdge, CoreWrite, NoWrite, core, internal
<1>4. CoreWrite(dc5)' => CoreWrite(dc4)
  BY DEF PipeStep, LateEdge, CoreWrite, NoWrite, PacketsOK, WriteOK
<1>5. (CellsOK(dc1) /\ CellsOK(dc2) /\ CellsOK(dc3))'
  <2>1. CellsOK(issued) /\ CellsOK(NoPacket)
    BY IssuedCells DEF PipeStep, CellsOK, internal, NoPacket
  <2>2. CellsOK(dc1') /\ CellsOK(dc2') /\ CellsOK(dc3')
    BY <1>1, <1>2, <2>1 DEF StagesOK
  <2> QED
    BY <2>2 DEF CellsOK, internal, lo, hi, word, end_addr, reads, reads_dccm, whole_words, byteen
<1>6. (dma_in(dc3) => ~CoreWrite(dc4) /\ ~CoreWrite(dc5))'
  <2>1. CASE freeze
    <3>1. dma_in(dc3)' => dma_in(dc3)
      BY <1>1, <2>1 DEF dma_in
    <3> QED
      BY <1>3, <1>4, <2>1, <3>1 DEF StagesOK
  <2>2. CASE ~freeze
    <3>1. dma_in(dc3)' => dma_in(dc2)
      BY <1>2, <2>2 DEF dma_in, NoPacket
    <3> QED
      BY <1>3, <1>4, <3>1 DEF Alone
  <2> QED
    BY <2>1, <2>2
<1>7. (dc4.reqvld => dc4.valid)'
  BY DEF PipeStep, LateEdge, NoWrite
<1>8. (CoreWrite(dc5) /\ ~dc5.valid =>
         ~core(dc1) /\ ~core(dc2) /\ ~core(dc3) /\ ~CoreWrite(dc4))'
  <2> SUFFICES ASSUME CoreWrite(dc5)', ~dc5'.valid
               PROVE  (~core(dc1) /\ ~core(dc2) /\ ~core(dc3) /\ ~CoreWrite(dc4))'
    OBVIOUS
  <2>1. CoreWrite(dc4) /\ dc4.valid
    BY <1>4 DEF StagesOK, CoreWrite
  <2>2. flush_lower
    <3>1. dc5' = [dc4 EXCEPT !.valid = dc4.valid /\ ~(flush_lower /\ ~dc4.dma)]
      BY <2>1 DEF PipeStep, LateEdge, CoreWrite
    <3>2. dc4 # NoWrite
      BY <2>1 DEF CoreWrite, NoWrite
    <3>3. dc4 \in [reqvld : {TRUE}, valid : BOOLEAN, dma : BOOLEAN, op : {"load", "store"},
                   dual : BOOLEAN, ptr : Entries]
      BY <3>2 DEF PacketsOK, WriteOK
    <3>4. dc5'.valid = (dc4.valid /\ ~(flush_lower /\ ~dc4.dma))
      BY <3>1, <3>3
    <3> QED
      BY <2>1, <3>4
  <2>3. flush_up /\ flush_dc3 /\ ~freeze
    BY <2>2 DEF DataStep
  <2>4. ~core(dc1)' /\ ~core(dc2)' /\ ~core(dc3)'
    BY <2>3 DEF PipeStep, EarlyEdge, survives, core, NoPacket
  <2>5. ~(reqvld /\ core(dc3))
    BY <2>3 DEF BufferStep, ldst_stbuf_reqvld, store_stbuf_reqvld, load_stbuf_reqvld, core
  <2>6. ~CoreWrite(dc4)'
    <3>1. CoreWrite(dc4)' => reqvld /\ ~dc3.dma
      BY DEF PipeStep, LateEdge, CoreWrite, NoWrite
    <3>2. reqvld => dc3.valid
      BY DEF PipeStep, internal
    <3> QED
      BY <2>5, <3>1, <3>2 DEF core
  <2> QED
    BY <2>4, <2>6
<1>9. (ld_freeze_dc3 => dc3.valid /\ dc3.region = "ext")'
  <2> SUFFICES ASSUME ld_freeze_dc3'
               PROVE  dc3'.valid /\ dc3'.region = "ext"
    OBVIOUS
  <2>1. PICK hold, answer : FreezeEdge(hold, answer, flush_up, flush_dc3, freeze)
    BY DEF DataStep
  <2>2. (ld_freeze_dc3 \/ may_freeze(flush_up, freeze)) /\ ~flush_dc3
    BY <2>1 DEF FreezeEdge
  <2>3. CASE ld_freeze_dc3
    <3>1. freeze
      BY <2>2, <2>3 DEF DataStep
    <3> QED
      BY <1>1, <2>3, <3>1 DEF StagesOK
  <2>4. CASE may_freeze(flush_up, freeze)
    <3>1. dc2.valid /\ dc2.region = "ext" /\ ~freeze /\ ~flush_up
      BY <2>4 DEF may_freeze
    <3> QED
      BY <3>1 DEF PipeStep, EarlyEdge, survives
  <2> QED
    BY <2>2, <2>3, <2>4
<1>10. (reads(dc2) => rd_dc2.lo = array[lo(dc2)] /\ rd_dc2.hi = array[hi(dc2)])'
  <2>1. CASE freeze
    <3>1. array' = array
      BY <2>1 DEF DataStep, ArrayEdge, lsu_stbuf_commit_any
    <3>2. reads(dc2') => rd_dc2'.lo = array'[lo(dc2')] /\ rd_dc2'.hi = array'[hi(dc2')]
      BY <1>1, <2>1, <3>1 DEF StagesOK
    <3> QED
      BY <3>2 DEF reads, reads_dccm, internal, whole_words, lo, hi, word, end_addr
  <2>2. CASE ~freeze
    <3>1. ~reads(NoPacket)
      BY DEF reads, reads_dccm, internal, NoPacket
    <3>2. ASSUME reads(dc2')
          PROVE  rd_dc2'.lo = array'[lo(dc2')] /\ rd_dc2'.hi = array'[hi(dc2')]
      <4>1. dc2' = dc1 /\ rd_dc2' = ReadPort(lsu_stbuf_commit_any(freeze))
        BY <2>2, <3>1, <3>2 DEF PipeStep, EarlyEdge
      <4>2. reads(dc1)
        BY <3>2, <4>1
      <4>3. lsu_dccm_rden_dc1 \/ (picm_access_dc1 /\ dc1.op = "load")
        BY <4>2 DEF reads, reads_dccm, lsu_dccm_rden_dc1, picm_access_dc1, internal, Internal
      <4>4. lo(dc1) \in Cells /\ hi(dc1) \in Cells
        BY <4>2 DEF StagesOK, CellsOK, reads, reads_dccm
      <4>5. \A c \in {lo(dc1), hi(dc1)} :
              ReadCell(c, lsu_stbuf_commit_any(freeze)) = array'[c]
        BY <4>2, <4>4, ReadInTime DEF DataStep
      <4> QED
        BY <4>1, <4>3, <4>5 DEF ReadPort
    <3> QED
      BY <3>2 DEF reads, reads_dccm, internal, whole_words, lo, hi, word, end_addr
  <2> QED
    BY <2>1, <2>2
<1> QED
  BY <1>5, <1>6, <1>7, <1>8, <1>9, <1>10 DEF StagesOK

-----------------------------------------------------------------------------
(* The order of the entries at a clock edge. *)

out(freeze) == IF pop(freeze) THEN 1 ELSE 0

LEMMA HeadMoves ==
  ASSUME PacketsOK, NEW reqvld, NEW dual, NEW err, NEW freeze, NEW flush_dc3, NEW kill,
         BufferStep(reqvld, dual, err, freeze, flush_dc3, kill),
         NEW j \in Nat, j + out(freeze) \in Entries
  PROVE  at(j)' = at(j + out(freeze))
<1>1. DEPTH \in Nat /\ DEPTH >= 2 /\ RdPtr \in Entries
  BY StbufAssumption DEF PacketsOK
<1>2. RdPtr' = IF pop(freeze) THEN (RdPtr + 1) % DEPTH ELSE RdPtr
  BY DEF BufferStep, StbufEdge
<1>3. CASE ~pop(freeze)
  BY <1>2, <1>3 DEF out, at
<1>4. CASE pop(freeze)
  <2>1. j + 1 \in Entries /\ j \in 0..DEPTH /\ j + 1 \in 0..DEPTH /\ 1 \in 0..DEPTH
    BY <1>1, <1>4 DEF out, Entries
  <2>2. RdPtr' = IF RdPtr + 1 < DEPTH THEN RdPtr + 1 ELSE RdPtr + 1 - DEPTH
    BY <1>1, <1>2, <1>4, <2>1, Wraps
  <2>3. RdPtr' \in Entries
    BY <1>1, <2>2 DEF Entries
  <2>4. at(j)' = IF RdPtr' + j < DEPTH THEN RdPtr' + j ELSE RdPtr' + j - DEPTH
    BY <2>1, <2>3, Wraps DEF at
  <2>5. at(j + 1) = IF RdPtr + (j + 1) < DEPTH THEN RdPtr + (j + 1) ELSE RdPtr + (j + 1) - DEPTH
    BY <1>1, <2>1, Wraps DEF at
  <2> QED
    BY <1>1, <1>4, <2>1, <2>2, <2>4, <2>5 DEF out, Entries
<1> QED
  BY <1>3, <1>4

(* A core instruction in dc4 or dc5 has an entry of the queue; when there is none
   every entry is decided. *)
LEMMA AllDecided ==
  ASSUME NEW n \in 0..DEPTH, NEW d, NEW e, Ordered(n, d, e),
         TakenBy(dc4) = {}, TakenBy(dc5) = {}
  PROVE  d = n /\ e = n
<1>1. n \in Nat /\ d \in 0..n /\ e \in d..n
  BY StbufAssumption DEF Ordered
<1>2. ~(e < n)
  <2>1. e < n => e \in 0..n - 1 /\ e <= e
    BY <1>1
  <2> QED
    BY <2>1 DEF Ordered
<1>3. ~(d < e)
  <2>1. d < e => d \in 0..n - 1 /\ d <= d
    BY <1>1
  <2> QED
    BY <2>1 DEF Ordered
<1> QED
  BY <1>1, <1>2, <1>3

LEMMA HeadDecided ==
  ASSUME PacketsOK, DecidedOnce, NEW n, QueueOf(n), NEW d, NEW e, Ordered(n, d, e),
         NEW freeze, pop(freeze)
  PROVE  n >= 1 /\ d >= 1
<1>1. n \in Nat /\ DEPTH \in Nat /\ RdPtr \in Entries /\ 0 \in Entries /\ n <= DEPTH
  BY StbufAssumption DEF QueueOf, PacketsOK, Entries
<1>2. at(0) = RdPtr /\ dist(RdPtr, RdPtr) = 0
  <2>1. at(0) = RdPtr
    BY <1>1, StbufAssumption DEF at, Entries
  <2>2. dist(at(0), RdPtr) = 0
    BY <1>1, Positions DEF at
  <2> QED
    BY <2>1, <2>2
<1>3. stbuf[RdPtr].drain_vld \/ stbuf[RdPtr].flush_vld
  BY DEF pop, lsu_stbuf_commit_any, stbuf_reqvld_any, head
<1>4. stbuf[RdPtr].data_vld /\ RdPtr \notin TakenBy(dc4) /\ RdPtr \notin TakenBy(dc5)
  BY <1>1, <1>3 DEF DecidedOnce, Waits
<1>5. 0 < n
  BY <1>1, <1>2, <1>4 DEF QueueOf
<1>6. d \in 0..n /\ e \in d..n /\ ~(d <= 0 /\ 0 < e) /\ ~(e <= 0)
  BY <1>1, <1>2, <1>4, <1>5 DEF Ordered
<1> QED
  BY <1>1, <1>5, <1>6

LEMMA OrderedStep ==
  ASSUME PacketsOK, DecidedOnce, StagesOK,
         NEW issued, NEW reqvld, NEW dual, NEW err, NEW freeze, NEW flush_up,
         NEW flush_lower, NEW flush_dc3, NEW kill,
         PipeStep(issued, reqvld, dual, freeze, flush_up, flush_lower),
         BufferStep(reqvld, dual, err, freeze, flush_dc3, kill),
         NEW n, QueueOf(n), n + size(reqvld, dual) <= DEPTH,
         NEW d, NEW e, Ordered(n, d, e),
         NEW m, m = n + size(reqvld, dual) - out(freeze),
         NEW d2, d2 = (IF reqvld /\ dc3.dma THEN m ELSE e - out(freeze)),
         NEW e2, e2 = (IF reqvld /\ dc3.dma THEN m ELSE n - out(freeze))
  PROVE  Ordered(m, d2, e2)'
<1>1. PICK k, o : k = size(reqvld, dual) /\ o = out(freeze)
  OBVIOUS
<1>2. /\ n \in Nat /\ n <= DEPTH /\ DEPTH \in Nat /\ k \in 0..2 /\ o \in 0..1
      /\ d \in 0..n /\ e \in d..n /\ RdPtr \in Entries
      /\ reqvld \in BOOLEAN /\ dual \in BOOLEAN /\ (k = 0 <=> ~reqvld)
  BY <1>1, StbufAssumption DEF QueueOf, PacketsOK, Ordered, size, out, PipeStep
<1>3. o = 1 => n >= 1 /\ d >= 1
  BY <1>1, HeadDecided DEF out
<1>4. m \in Nat /\ m + o = n + k /\ m + o <= DEPTH
  BY <1>1, <1>2, <1>3
<1>5. /\ (TakenBy(dc4))' = IF reqvld /\ ~dc3.dma THEN written(reqvld, dual) ELSE {}
      /\ (TakenBy(dc5))' = TakenBy(dc4)
  BY TakenStep
<1>6. CASE reqvld /\ dc3.dma
  <2>1. dma_in(dc3)
    BY <1>6 DEF PipeStep, internal, dma_in
  <2>2. TakenBy(dc4) = {}
    BY <2>1 DEF StagesOK, TakenBy
  <2>3. d2 = m /\ e2 = m /\ (TakenBy(dc4))' = {} /\ (TakenBy(dc5))' = {}
    BY <1>5, <1>6, <2>2
  <2>4. m \in 0..m /\ \A j \in 0..m - 1 : ~(m <= j)
    BY <1>4
  <2> QED
    BY <2>3, <2>4 DEF Ordered
<1>7. CASE ~(reqvld /\ dc3.dma)
  <2>1. d2 = e - o /\ e2 = n - o
    BY <1>1, <1>7
  <2>2. d2 \in 0..m /\ e2 \in d2..m
    BY <1>2, <1>3, <1>4, <2>1
  <2>3. ASSUME NEW j \in 0..m - 1
        PROVE  /\ at(j)' \in (TakenBy(dc5))' <=> d2 <= j /\ j < e2
               /\ at(j)' \in (TakenBy(dc4))' <=> e2 <= j
    <3>1. PICK p \in Nat : p = j + o
      BY <1>2, <1>4
    <3>2. p \in Entries /\ j \in Nat /\ p < n + k
      BY <1>2, <1>4, <3>1 DEF Entries
    <3>3. at(j)' = at(p)
      BY <1>1, <3>1, <3>2, HeadMoves
    <3>4. at(p) \in Entries /\ dist(at(p), RdPtr) = p
      BY <1>2, <3>2, Positions DEF at
    <3>5. at(p) \in written(reqvld, dual) <=> n <= p
      <4>1. at(p) \in written(reqvld, dual) <=> n <= p /\ p < n + size(reqvld, dual)
        <5>1. PICK i \in Entries : i = at(p) /\ dist(i, RdPtr) = p
          BY <3>4
        <5>2. i \in written(reqvld, dual) <=>
                n <= dist(i, RdPtr) /\ dist(i, RdPtr) < n + size(reqvld, dual)
          BY <1>2, WrittenEntries
        <5> QED
          BY <5>1, <5>2
      <4> QED
        BY <1>1, <3>2, <4>1
    <3>6. at(p) \in TakenBy(dc4) <=> e <= p /\ p < n
      <4>1. CASE p < n
        <5>1. p \in 0..n - 1
          BY <1>2, <4>1
        <5> QED
          BY <4>1, <5>1 DEF Ordered
      <4>2. CASE ~(p < n)
        <5>1. ~stbuf[at(p)].data_vld
          BY <3>4, <4>2 DEF QueueOf
        <5> QED
          BY <3>4, <4>2, <5>1 DEF DecidedOnce, Waits
      <4> QED
        BY <4>1, <4>2
    <3>7. reqvld => ~dc3.dma
      BY <1>7
    <3>8. at(p) \in (TakenBy(dc4))' <=> n <= p
      BY <1>5, <3>2, <3>5, <3>7 DEF written
    <3> QED
      BY <1>2, <1>5, <2>1, <3>1, <3>2, <3>3, <3>6, <3>8
  <2> QED
    BY <2>2, <2>3 DEF Ordered
<1> QED
  BY <1>6, <1>7

-----------------------------------------------------------------------------
(* The entries at a clock edge. *)

made(cell) == IF cell = lo(dc3) THEN store_ecc_datafn_lo_dc3 ELSE store_ecc_datafn_hi_dc3
SameWord(x, y) == x.addr = y.addr /\ x.byteen = y.byteen /\ x.data = y.data

LEMMA MarkedWord ==
  ASSUME NEW x, Filled(x), NEW y,
         y \in {[x EXCEPT !.drain_vld = TRUE], [x EXCEPT !.flush_vld = TRUE]}
  PROVE  SameWord(y, x) /\ Filled(y)
<1>1. SameWord(y, x) /\ DOMAIN y = DOMAIN x
  <2>1. CASE y = [x EXCEPT !.drain_vld = TRUE]
    BY <2>1 DEF SameWord, Filled
  <2>2. CASE y = [x EXCEPT !.flush_vld = TRUE]
    BY <2>2 DEF SameWord, Filled
  <2> QED
    BY <2>1, <2>2
<1> QED
  BY <1>1 DEF SameWord, Filled

LEMMA KeptEntry ==
  ASSUME NEW reqvld, NEW dual, NEW err, NEW freeze, NEW flush_dc3, NEW kill,
         BufferStep(reqvld, dual, err, freeze, flush_dc3, kill),
         NEW i \in Entries, Filled(stbuf[i]), i \notin popped(freeze) \cup written(reqvld, dual)
  PROVE  SameWord(stbuf'[i], stbuf[i]) /\ Filled(stbuf'[i])
<1>1. \/ stbuf'[i] = stbuf[i]
      \/ stbuf'[i] \in {[stbuf[i] EXCEPT !.drain_vld = TRUE], [stbuf[i] EXCEPT !.flush_vld = TRUE]}
  BY DEF BufferStep, StbufEdge, popped, written
<1> QED
  BY <1>1, MarkedWord DEF SameWord

(* What dc3 writes is the word of one of its two cells. *)
Fresh(x, i, dual) ==
  /\ \E cell \in {lo(dc3), hi(dc3)} : x = OneEntry(cell, made(cell))
  /\ Filled(x)
  /\ dual \/ dc3.op = "store" => x.addr = IF i = WrPtr THEN lo(dc3) ELSE hi(dc3)

LEMMA FreshEntry ==
  ASSUME StagesOK, NEW issued, NEW reqvld, NEW dual, NEW err, NEW freeze, NEW flush_up,
         NEW flush_lower, NEW flush_dc3, NEW kill,
         PipeStep(issued, reqvld, dual, freeze, flush_up, flush_lower),
         BufferStep(reqvld, dual, err, freeze, flush_dc3, kill), reqvld,
         NEW i \in written(reqvld, dual), i \in Entries, i \notin popped(freeze)
  PROVE  Fresh(stbuf'[i], i, dual)
<1>1. internal(dc3) /\ lo(dc3) \in Cells /\ hi(dc3) \in Cells
  BY DEF PipeStep, StagesOK, CellsOK
<1>2. stbuf'[i] = IF i = WrPtr THEN FirstEntry(err) ELSE OneEntry(hi(dc3), store_ecc_datafn_hi_dc3)
  BY DEF BufferStep, StbufEdge, popped, written
<1>3. dual => ldst_dual(dc3) /\ (dc3.op = "store" \/ "lo" \in err)
  BY DEF BufferStep, dual_stbuf_write, dual_ecc_error, store_stbuf_reqvld
<1>4. i # WrPtr => dual
  BY DEF written, Taken
<1>5. PICK cell \in {lo(dc3), hi(dc3)} :
        /\ stbuf'[i] = OneEntry(cell, made(cell))
        /\ dual => cell = IF i = WrPtr THEN lo(dc3) ELSE hi(dc3)
        /\ dc3.op = "store" => cell = IF i = WrPtr THEN lo(dc3) ELSE hi(dc3)
  <2>1. CASE i # WrPtr
    BY <1>2, <1>3, <1>4, <2>1 DEF made, ldst_dual
  <2>2. CASE i = WrPtr
    BY <1>2, <1>3, <2>2 DEF made, ldst_dual, FirstEntry
  <2> QED
    BY <2>1, <2>2
<1>6. Word(made(cell))
  BY DEF made, store_ecc_datafn_lo_dc3, store_ecc_datafn_hi_dc3, Over, Word
<1>7. /\ stbuf'[i].addr = cell /\ stbuf'[i].data = made(cell)
      /\ {"addr", "byteen", "data"} \subseteq DOMAIN stbuf'[i]
  BY <1>5 DEF OneEntry
<1> QED
  BY <1>1, <1>5, <1>6, <1>7 DEF Filled, Fresh

LEMMA WordsStep ==
  ASSUME PacketsOK, FlagsOK, DecidedOnce, StagesOK, WordsOK,
         NEW issued, NEW reqvld, NEW dual, NEW err, NEW freeze, NEW flush_up,
         NEW flush_lower, NEW flush_dc3, NEW kill,
         PipeStep(issued, reqvld, dual, freeze, flush_up, flush_lower),
         BufferStep(reqvld, dual, err, freeze, flush_dc3, kill),
         DataStep(reqvld, freeze, flush_up, flush_lower, flush_dc3, kill),
         \A i \in written(reqvld, dual) : ~stbuf[i].data_vld
  PROVE  WordsOK'
<1>1. popped(freeze) \subseteq {i \in Entries : stbuf[i].data_vld /\ ~Waits(stbuf[i])}
  BY DEF popped, pop, lsu_stbuf_commit_any, stbuf_reqvld_any, head, PacketsOK, DecidedOnce, Waits
<1>2. written(reqvld, dual) \subseteq Entries \ popped(freeze)
  BY <1>1, TakenEntries DEF written, PacketsOK
<1>3. (array = [c \in Cells |-> array[c]] /\ \A c \in Cells : Word(array[c]) /\ Word(mem[c]))'
  <2>1. /\ array = [c \in Cells |-> array[c]]
        /\ \A c \in Cells : array[c] = [b \in Byte |-> array[c][b]] /\ mem[c] = [b \in Byte |-> mem[c][b]]
    BY DEF WordsOK, Word
  <2>2. array' = [c \in Cells |-> array'[c]]
        /\ \A c \in Cells : array'[c] = [b \in Byte |-> array'[c][b]]
    <3>1. CASE ~lsu_stbuf_commit_any(freeze)
      BY <2>1, <3>1 DEF DataStep, ArrayEdge
    <3>2. CASE lsu_stbuf_commit_any(freeze)
      <4>1. Filled(head)
        BY <1>1, <3>2 DEF WordsOK, head, popped, pop
      <4>2. PICK a, x : a = head.addr /\ x = head.data
        OBVIOUS
      <4>3. a \in Cells /\ x = [b \in Byte |-> x[b]]
        BY <4>1, <4>2 DEF Filled, Word
      <4>4. array' = [array EXCEPT ![a] = x]
        BY <3>2, <4>2 DEF DataStep, ArrayEdge
      <4>5. \A c \in Cells : array'[c] = IF c = a THEN x ELSE array[c]
        BY <2>1, <4>4
      <4>6. array' = [c \in Cells |-> array'[c]]
        BY <2>1, <4>4
      <4> QED
        BY <2>1, <4>3, <4>5, <4>6
    <3> QED
      BY <3>1, <3>2
  <2>3. \A c \in Cells : mem'[c] = [b \in Byte |-> mem'[c][b]]
    <3>1. CASE UNCHANGED mem
      BY <2>1, <3>1
    <3>2. CASE ~UNCHANGED mem
      <4>1. mem' = [cell \in Cells |-> [b \in Byte |->
              IF Written(cell, b, kill, reqvld) = {} THEN mem[cell][b]
              ELSE CHOOSE v \in Written(cell, b, kill, reqvld) : TRUE]]
        BY <3>2 DEF DataStep, History
      <4> QED
        BY <4>1
    <3> QED
      BY <3>1, <3>2
  <2> QED
    BY <2>2, <2>3 DEF Word
<1>4. ASSUME NEW i \in Entries, stbuf'[i].data_vld
      PROVE  Filled(stbuf'[i])
  <2>1. i \notin popped(freeze)
    BY <1>4, FlagsEdge DEF SameFlags, NoEntry
  <2>2. CASE i \in written(reqvld, dual)
    <3>1. Fresh(stbuf'[i], i, dual)
      BY <2>1, <2>2, FreshEntry DEF written
    <3> QED
      BY <3>1 DEF Fresh
  <2>3. CASE i \notin written(reqvld, dual)
    <3>1. stbuf[i].data_vld
      BY <1>4, <2>1, <2>3, FlagsEdge DEF SameFlags
    <3> QED
      BY <2>1, <2>3, <3>1, KeptEntry DEF WordsOK
  <2> QED
    BY <2>2, <2>3
<1>5. ASSUME CoreWrite(dc4)', dc4'.dual
      PROVE  stbuf'[dc4'.ptr].addr # stbuf'[(dc4'.ptr + 1) % DEPTH].addr
  <2>1. reqvld /\ dual /\ dc4'.ptr = WrPtr
    BY <1>5 DEF PipeStep, LateEdge, CoreWrite, NoWrite
  <2>2. ldst_dual(dc3)
    BY <2>1 DEF BufferStep, dual_stbuf_write
  <2>3. WrPtr \in written(reqvld, dual) /\ (WrPtr + 1) % DEPTH \in written(reqvld, dual)
    BY <2>1 DEF written, Taken
  <2>4. (WrPtr + 1) % DEPTH # WrPtr
    <3>1. (WrPtr + 1) % DEPTH = IF WrPtr + 1 < DEPTH THEN WrPtr + 1 ELSE WrPtr + 1 - DEPTH
      BY StbufAssumption, Wraps DEF PacketsOK
    <3> QED
      BY <3>1, StbufAssumption DEF PacketsOK, Entries
  <2>5. /\ stbuf'[WrPtr].addr = lo(dc3)
        /\ stbuf'[(WrPtr + 1) % DEPTH].addr = hi(dc3)
    <3>1. \A i \in written(reqvld, dual) :
            stbuf'[i].addr = IF i = WrPtr THEN lo(dc3) ELSE hi(dc3)
      <4> TAKE i \in written(reqvld, dual)
      <4>1. i \in Entries /\ i \notin popped(freeze)
        BY <1>2
      <4>2. reqvld /\ dual
        BY <2>1
      <4>3. Fresh(stbuf'[i], i, dual)
        BY <4>1, <4>2, FreshEntry
      <4> QED
        BY <4>2, <4>3 DEF Fresh
    <3> QED
      BY <2>3, <2>4, <3>1
  <2> QED
    BY <2>1, <2>2, <2>5 DEF ldst_dual
<1>6. ASSUME CoreWrite(dc5)', dc5'.dual
      PROVE  stbuf'[dc5'.ptr].addr # stbuf'[(dc5'.ptr + 1) % DEPTH].addr
  <2>1. CoreWrite(dc4) /\ dc4.dual /\ dc5'.ptr = dc4.ptr
    <3>1. dc4.reqvld
      BY <1>6 DEF PipeStep, LateEdge, CoreWrite, NoWrite
    <3>2. dc4 # NoWrite
      BY <3>1 DEF NoWrite
    <3>3. dc4 \in [reqvld : {TRUE}, valid : BOOLEAN, dma : BOOLEAN, op : {"load", "store"},
                   dual : BOOLEAN, ptr : Entries]
      BY <3>2 DEF PacketsOK, WriteOK
    <3>4. dc5' = [dc4 EXCEPT !.valid = dc4.valid /\ ~(flush_lower /\ ~dc4.dma)]
      BY <3>1 DEF PipeStep, LateEdge
    <3>5. dc5'.reqvld = dc4.reqvld /\ dc5'.dma = dc4.dma /\ dc5'.ptr = dc4.ptr
          /\ dc5'.dual = dc4.dual
      BY <3>3, <3>4
    <3> QED
      BY <1>6, <3>5 DEF CoreWrite
  <2>2. {dc4.ptr, (dc4.ptr + 1) % DEPTH} \subseteq TakenBy(dc4)
    BY <2>1 DEF TakenBy, Taken
  <2>3. dc4.ptr \in Entries /\ (dc4.ptr + 1) % DEPTH \in Entries
    <3>1. dc4 # NoWrite
      BY <2>1 DEF CoreWrite, NoWrite
    <3> QED
      BY <3>1, PointerStep DEF PacketsOK, WriteOK
  <2>4. \A i \in {dc4.ptr, (dc4.ptr + 1) % DEPTH} : SameWord(stbuf'[i], stbuf[i])
    <3>1. \A i \in {dc4.ptr, (dc4.ptr + 1) % DEPTH} : i \in Entries /\ Waits(stbuf[i])
      BY <2>2, <2>3 DEF DecidedOnce
    <3>2. \A i \in {dc4.ptr, (dc4.ptr + 1) % DEPTH} :
            i \notin popped(freeze) \cup written(reqvld, dual) /\ Filled(stbuf[i])
      BY <1>1, <3>1 DEF Waits, WordsOK
    <3> QED
      BY <3>1, <3>2, KeptEntry
  <2> QED
    BY <2>1, <2>4 DEF SameWord, WordsOK
<1>7. (\A w \in {dc4, dc5} :
        CoreWrite(w) /\ w.dual => stbuf[w.ptr].addr # stbuf[(w.ptr + 1) % DEPTH].addr)'
  BY <1>5, <1>6 DEF CoreWrite
<1>8. (\A i \in Entries : stbuf[i].data_vld => Filled(stbuf[i]))'
  BY <1>4 DEF Filled, Word
<1> QED
  BY <1>3, <1>7, <1>8 DEF WordsOK

-----------------------------------------------------------------------------
(* The layers at a clock edge.  Those of a flushed instruction, from position s
   on, die; those dc3 makes are laid behind the last. *)

cut(n, d, e, flush_lower, kill) == IF kill THEN d ELSE IF flush_lower THEN e ELSE n

LEMMA LateCore ==
  ASSUME PacketsOK, StagesOK, NEW issued, NEW reqvld, NEW dual, NEW freeze, NEW flush_up,
         NEW flush_lower \in BOOLEAN, PipeStep(issued, reqvld, dual, freeze, flush_up, flush_lower),
         CoreWrite(dc5)'
  PROVE  CoreWrite(dc4) /\ dc5'.op = dc4.op /\ (dc5'.valid <=> ~flush_lower)
<1>1. dc4.reqvld
  BY DEF PipeStep, LateEdge, CoreWrite, NoWrite
<1>2. dc4 # NoWrite
  BY <1>1 DEF NoWrite
<1>3. dc4 \in [reqvld : {TRUE}, valid : BOOLEAN, dma : BOOLEAN, op : {"load", "store"},
               dual : BOOLEAN, ptr : Entries]
  BY <1>2 DEF PacketsOK, WriteOK
<1>4. dc5' = [dc4 EXCEPT !.valid = dc4.valid /\ ~(flush_lower /\ ~dc4.dma)]
  BY <1>1 DEF PipeStep, LateEdge
<1>5. /\ dc5'.reqvld = dc4.reqvld /\ dc5'.dma = dc4.dma /\ dc5'.op = dc4.op
      /\ dc5'.valid = (dc4.valid /\ ~(flush_lower /\ ~dc4.dma))
  BY <1>3, <1>4
<1>6. CoreWrite(dc4)
  BY <1>5 DEF CoreWrite
<1>7. dc4.valid
  BY <1>1 DEF StagesOK
<1> QED
  BY <1>5, <1>6, <1>7 DEF CoreWrite

LEMMA OldLayer ==
  ASSUME PacketsOK, FlagsOK, DecidedOnce, StagesOK, WordsOK,
         NEW issued, NEW reqvld, NEW dual, NEW err, NEW freeze, NEW flush_up,
         NEW flush_lower, NEW flush_dc3, NEW kill,
         PipeStep(issued, reqvld, dual, freeze, flush_up, flush_lower),
         BufferStep(reqvld, dual, err, freeze, flush_dc3, kill),
         DataStep(reqvld, freeze, flush_up, flush_lower, flush_dc3, kill),
         NEW n, QueueOf(n), n + size(reqvld, dual) <= DEPTH,
         NEW d, NEW e, Ordered(n, d, e),
         NEW p \in 0..n - 1, out(freeze) <= p
  PROVE  /\ SameWord(stbuf'[at(p)], stbuf[at(p)])
         /\ \A i : i = at(p) =>
              /\ live(i)' <=> live(i) /\ p < cut(n, d, e, flush_lower, kill)
              /\ ofLoad(i)' => ofLoad(i)
<1>1. /\ n \in Nat /\ n <= DEPTH /\ DEPTH \in Nat /\ d \in 0..n /\ e \in d..n
      /\ RdPtr \in Entries /\ p \in Entries /\ p \in Nat /\ p < n
      /\ reqvld \in BOOLEAN /\ dual \in BOOLEAN
  BY StbufAssumption DEF QueueOf, PacketsOK, Ordered, PipeStep, Entries
<1>2. PICK i : i = at(p)
  OBVIOUS
<1>3. i \in Entries /\ dist(i, RdPtr) = p
  BY <1>1, <1>2, Positions DEF at
<1>4. stbuf[i].data_vld
  BY <1>1, <1>3 DEF QueueOf
<1>5. i \notin popped(freeze)
  <2>1. dist(RdPtr, RdPtr) = 0
    BY <1>1, Wraps
  <2> QED
    BY <1>3, <2>1 DEF popped, out
<1>6. i \notin written(reqvld, dual)
  BY <1>1, <1>3, WrittenEntries
<1>7. SameWord(stbuf'[i], stbuf[i])
  BY <1>3, <1>4, <1>5, <1>6, KeptEntry DEF WordsOK
<1>8. /\ i \in TakenBy(dc5) <=> d <= p /\ p < e
      /\ i \in TakenBy(dc4) <=> e <= p
  BY <1>2 DEF Ordered
<1>9. /\ (TakenBy(dc4))' \subseteq written(reqvld, dual)
      /\ (TakenBy(dc5))' = TakenBy(dc4)
  BY TakenStep
<1>10. {flush_lower, kill} \subseteq BOOLEAN /\ (kill => flush_lower)
  BY DEF DataStep
<1>11. doomed(i)' <=> i \in TakenBy(dc4) /\ flush_lower
  <2>1. i \in TakenBy(dc4) => CoreWrite(dc5)'
    BY <1>9 DEF TakenBy
  <2> QED
    BY <1>9, <1>10, <2>1, LateCore DEF doomed
<1>12. ofLoad(i)' => ofLoad(i)
  <2> SUFFICES ASSUME ofLoad(i)'
               PROVE  ofLoad(i)
    OBVIOUS
  <2>1. i \in TakenBy(dc4) /\ dc5'.op = "load"
    BY <1>6, <1>9 DEF ofLoad
  <2>2. CoreWrite(dc5)'
    BY <1>9, <2>1 DEF TakenBy
  <2> QED
    BY <1>10, <2>1, <2>2, LateCore DEF ofLoad
<1>13. live(i)' <=> live(i) /\ p < cut(n, d, e, flush_lower, kill)
  <2>1. CASE p < d
    <3>1. i \notin TakenBy(dc4) /\ i \notin TakenBy(dc5)
      BY <1>1, <1>8, <2>1
    <3>2. SameFlags(stbuf'[i], stbuf[i])
      BY <1>3, <1>5, <1>6, <3>1, FlagsEdge DEF Decided, TakenBy, CoreWrite
    <3> QED
      BY <1>1, <1>11, <2>1, <3>1, <3>2 DEF live, doomed, SameFlags, cut
  <2>2. CASE d <= p /\ p < e
    <3>1. i \in TakenBy(dc5) /\ i \notin TakenBy(dc4) /\ Waits(stbuf[i])
      BY <1>1, <1>3, <1>8, <2>2 DEF DecidedOnce
    <3>2. i \in Decided /\ CoreWrite(dc5)
      BY <3>1 DEF Decided, TakenBy, CoreWrite
    <3>3. stbuf'[i] = IF lsu_commit_dc5(kill) THEN [stbuf[i] EXCEPT !.drain_vld = TRUE]
                                              ELSE [stbuf[i] EXCEPT !.flush_vld = TRUE]
      BY <1>3, <1>5, <1>6, <3>2 DEF BufferStep, StbufEdge, popped, written
    <3>4. lsu_commit_dc5(kill) <=> dc5.valid /\ ~kill
      BY <3>2 DEF lsu_commit_dc5, CoreWrite
    <3>5. Flags(stbuf[i])
      BY <1>3 DEF FlagsOK
    <3>6. stbuf'[i].data_vld /\ (stbuf'[i].flush_vld <=> ~lsu_commit_dc5(kill))
      <4>1. CASE lsu_commit_dc5(kill)
        <5>1. stbuf'[i].data_vld = stbuf[i].data_vld /\ stbuf'[i].flush_vld = stbuf[i].flush_vld
          BY <3>3, <3>5, <4>1 DEF Flags
        <5> QED
          BY <3>1, <4>1, <5>1 DEF Waits
      <4>2. CASE ~lsu_commit_dc5(kill)
        <5>1. stbuf'[i].data_vld = stbuf[i].data_vld /\ stbuf'[i].flush_vld = TRUE
          BY <3>3, <3>5, <4>2 DEF Flags
        <5> QED
          BY <3>1, <4>2, <5>1 DEF Waits
      <4> QED
        BY <4>1, <4>2
    <3>7. live(i)' <=> dc5.valid /\ ~kill
      BY <1>11, <3>1, <3>4, <3>6 DEF live
    <3>8. live(i) <=> dc5.valid
      BY <3>1 DEF live, doomed, Waits
    <3>9. p < cut(n, d, e, flush_lower, kill) <=> ~kill
      BY <1>1, <1>10, <2>2 DEF cut
    <3> QED
      BY <3>7, <3>8, <3>9
  <2>3. CASE e <= p
    <3>1. i \in TakenBy(dc4) /\ i \notin TakenBy(dc5) /\ Waits(stbuf[i])
      BY <1>1, <1>3, <1>8, <2>3 DEF DecidedOnce
    <3>2. SameFlags(stbuf'[i], stbuf[i])
      BY <1>3, <1>5, <1>6, <3>1, FlagsEdge DEF Decided, TakenBy, CoreWrite
    <3>3. live(i) /\ (live(i)' <=> ~flush_lower)
      BY <1>11, <3>1, <3>2 DEF live, doomed, Waits, SameFlags
    <3>4. p < cut(n, d, e, flush_lower, kill) <=> ~flush_lower
      BY <1>1, <1>10, <2>3 DEF cut
    <3> QED
      BY <3>3, <3>4
  <2> QED
    BY <1>1, <2>1, <2>2, <2>3
<1> QED
  BY <1>2, <1>7, <1>12, <1>13

(* The byte dc3 lays on a byte that shows x: its own, if it stores one. *)
top(c, b, x) ==
  IF dc3.op = "store" /\ c \in {lo(dc3), hi(dc3)} /\ b \in byteen(dc3, c)
    THEN databyte(dc3, c, b) ELSE x

LEMMA MadeByte ==
  ASSUME PacketsOK, StagesOK, internal(dc3), NEW c \in {lo(dc3), hi(dc3)}, NEW b \in Byte,
         NEW v, NEW n, NEW d, Sees(v, c, b, n, d)
  PROVE  made(c)[b] = top(c, b, v[n])
<1>1. PICK read : /\ \/ c = lo(dc3) /\ read = lsu_rdata_lo_dc3
                     \/ c = hi(dc3) /\ read = lsu_rdata_hi_dc3
                  /\ made(c) = Over(StoreBytes(dc3, c), read)
  BY DEF made, store_ecc_datafn_lo_dc3, store_ecc_datafn_hi_dc3
<1>2. DOMAIN read = Byte
  BY <1>1 DEF lsu_rdata_lo_dc3, lsu_rdata_hi_dc3, Over
<1>3. DOMAIN StoreBytes(dc3, c) = IF dc3.op = "store" THEN byteen(dc3, c) ELSE {}
  BY DEF StoreBytes
<1>4. CASE dc3.op = "store" /\ b \in byteen(dc3, c)
  BY <1>1, <1>3, <1>4 DEF Over, StoreBytes, top
<1>5. CASE ~(dc3.op = "store" /\ b \in byteen(dc3, c))
  <2>1. made(c)[b] = read[b]
    BY <1>1, <1>2, <1>3, <1>5 DEF Over
  <2>2. reads(dc3)
    <3>1. dc3.op \in {"load", "store"}
      BY DEF PacketsOK, StageOK, internal, NoPacket
    <3>2. CASE dc3.op = "load"
      BY <3>2 DEF reads
    <3>3. CASE dc3.op = "store"
      BY <1>5, <3>3 DEF StagesOK, CellsOK
    <3> QED
      BY <3>1, <3>2, <3>3
  <2>3. read[b] = v[n]
    BY <1>1, <2>2 DEF Sees
  <2> QED
    BY <1>5, <2>1, <2>3 DEF top
<1> QED
  BY <1>4, <1>5

LEMMA NewLayer ==
  ASSUME PacketsOK, FlagsOK, DecidedOnce, StagesOK, WordsOK,
         NEW issued, NEW reqvld, NEW dual, NEW err, NEW freeze, NEW flush_up,
         NEW flush_lower, NEW flush_dc3, NEW kill,
         PipeStep(issued, reqvld, dual, freeze, flush_up, flush_lower),
         BufferStep(reqvld, dual, err, freeze, flush_dc3, kill),
         NEW n, QueueOf(n), n + size(reqvld, dual) <= DEPTH,
         NEW d, NEW e, Ordered(n, d, e),
         NEW p \in Nat, n <= p, p < n + size(reqvld, dual)
  PROVE  /\ reqvld /\ Fresh(stbuf'[at(p)], at(p), dual)
         /\ at(p) = WrPtr <=> p = n
         /\ \A i : i = at(p) => live(i)' /\ (ofLoad(i)' => dc3.op = "load")
<1>1. /\ n \in Nat /\ n <= DEPTH /\ DEPTH \in Nat /\ RdPtr \in Entries /\ WrPtr \in Entries
      /\ reqvld \in BOOLEAN /\ dual \in BOOLEAN /\ size(reqvld, dual) \in 0..2
  BY StbufAssumption DEF QueueOf, PacketsOK, PipeStep, size
<1>2. PICK i : i = at(p)
  OBVIOUS
<1>3. i \in Entries /\ dist(i, RdPtr) = p
  <2>1. p \in Entries
    BY <1>1 DEF Entries
  <2> QED
    BY <1>1, <1>2, <2>1, Positions DEF at
<1>4. i \in written(reqvld, dual)
  BY <1>1, <1>3, WrittenEntries
<1>5. reqvld
  BY <1>4 DEF written
<1>6. ~stbuf[i].data_vld
  BY <1>1, <1>3 DEF QueueOf
<1>7. i \notin popped(freeze)
  BY <1>3, <1>6 DEF popped, pop, lsu_stbuf_commit_any, stbuf_reqvld_any, head, DecidedOnce
<1>8. Fresh(stbuf'[i], i, dual)
  BY <1>3, <1>4, <1>5, <1>7, FreshEntry
<1>9. i = WrPtr <=> p = n
  <2>1. n \in Entries /\ WrPtr = (RdPtr + n) % DEPTH
    BY <1>1 DEF QueueOf, Entries
  <2>2. dist(WrPtr, RdPtr) = n
    BY <1>1, <2>1, Positions
  <2> QED
    BY <1>2, <1>3, <2>1, <2>2 DEF at
<1>10. i \notin TakenBy(dc4)
  BY <1>3, <1>6 DEF DecidedOnce, Waits
<1>11. (TakenBy(dc5))' = TakenBy(dc4)
  BY TakenStep
<1>12. live(i)'
  <2>1. stbuf'[i].data_vld /\ ~stbuf'[i].flush_vld
    BY <1>3, <1>4, <1>7, FlagsEdge
  <2> QED
    BY <1>10, <1>11, <2>1 DEF live, doomed
<1>13. ofLoad(i)' => dc3.op = "load"
  <2>1. dc4'.op = dc3.op \/ dc4' = NoWrite
    BY DEF PipeStep, LateEdge
  <2>2. dc4' = NoWrite => (TakenBy(dc4))' = {}
    BY DEF TakenBy, CoreWrite, NoWrite
  <2> QED
    BY <1>10, <1>11, <2>1, <2>2 DEF ofLoad
<1> QED
  BY <1>2, <1>5, <1>8, <1>9, <1>12, <1>13

(* Nothing dies while dc3 makes an entry: it would be flushed too, and a DMA packet
   in dc3 is alone. *)
LEMMA NoneCut ==
  ASSUME StagesOK, NEW issued, NEW reqvld, NEW dual, NEW err, NEW freeze, NEW flush_up,
         NEW flush_lower, NEW flush_dc3, NEW kill,
         PipeStep(issued, reqvld, dual, freeze, flush_up, flush_lower),
         BufferStep(reqvld, dual, err, freeze, flush_dc3, kill),
         DataStep(reqvld, freeze, flush_up, flush_lower, flush_dc3, kill), reqvld,
         NEW n \in 0..DEPTH, NEW d, NEW e, Ordered(n, d, e)
  PROVE  /\ cut(n, d, e, flush_lower, kill) = n
         /\ dc3.dma => d = n /\ e = n
<1>1. dc3.valid
  BY DEF PipeStep, internal
<1>2. dc3.dma => d = n /\ e = n
  <2>1. dc3.dma => TakenBy(dc4) = {} /\ TakenBy(dc5) = {}
    BY <1>1 DEF StagesOK, dma_in, TakenBy
  <2> QED
    BY <2>1, AllDecided
<1>3. flush_lower => dc3.dma
  BY DEF DataStep, BufferStep, ldst_stbuf_reqvld, store_stbuf_reqvld, load_stbuf_reqvld
<1>4. kill => flush_lower
  BY DEF DataStep
<1> QED
  BY <1>2, <1>3, <1>4 DEF cut

(* The head leaves the array as the layer it was. *)
LEMMA HeadLayer ==
  ASSUME PacketsOK, DecidedOnce, WordsOK,
         NEW reqvld, NEW freeze, NEW flush_up, NEW flush_lower, NEW flush_dc3, NEW kill,
         DataStep(reqvld, freeze, flush_up, flush_lower, flush_dc3, kill),
         NEW n, QueueOf(n), NEW d, NEW e, Ordered(n, d, e),
         NEW c \in Cells, NEW b, NEW v, Layers(v, c, b, n)
  PROVE  v[out(freeze)] = array'[c][b]
<1>1. CASE ~pop(freeze)
  BY <1>1 DEF out, pop, DataStep, ArrayEdge, Layers
<1>2. CASE pop(freeze)
  <2>1. n >= 1 /\ d >= 1 /\ n \in Nat /\ RdPtr \in Entries /\ 0 \in Entries
    <3>1. n >= 1 /\ d >= 1
      BY <1>2, HeadDecided
    <3> QED
      BY <3>1, StbufAssumption DEF QueueOf, PacketsOK, Entries
  <2>2. at(0) = RdPtr
    BY <2>1, StbufAssumption DEF at, Entries
  <2>3. v[1] = IF live(RdPtr) /\ head.addr = c THEN head.data[b] ELSE v[0]
    <3>1. v[0 + 1] = IF live(at(0)) /\ stbuf[at(0)].addr = c THEN stbuf[at(0)].data[b] ELSE v[0]
      BY <2>1 DEF Layers
    <3> QED
      BY <2>2, <3>1 DEF head
  <2>4. v[0] = array[c][b] /\ out(freeze) = 1
    BY <1>2 DEF Layers, out
  <2>5. RdPtr \notin TakenBy(dc5)
    <3>1. at(0) \in TakenBy(dc5) <=> d <= 0 /\ 0 < e
      BY <2>1 DEF Ordered
    <3>2. d \in Int
      BY <2>1, StbufAssumption DEF Ordered
    <3> QED
      BY <2>1, <2>2, <3>1, <3>2
  <2>6. CASE head.flush_vld
    <3>1. ~live(RdPtr) /\ ~head.drain_vld
      BY <2>1, <2>6 DEF live, head, DecidedOnce
    <3>2. array' = array
      BY <3>1 DEF DataStep, ArrayEdge, lsu_stbuf_commit_any, stbuf_reqvld_any
    <3> QED
      BY <2>3, <2>4, <3>1, <3>2
  <2>7. CASE ~head.flush_vld
    <3>1. lsu_stbuf_commit_any(freeze) /\ head.data_vld
      BY <1>2, <2>1, <2>7 DEF pop, lsu_stbuf_commit_any, stbuf_reqvld_any, head, DecidedOnce
    <3>2. live(RdPtr)
      BY <2>5, <2>7, <3>1 DEF live, doomed, head
    <3>3. array' = [array EXCEPT ![head.addr] = head.data]
      BY <3>1 DEF DataStep, ArrayEdge
    <3>4. array'[c] = IF c = head.addr THEN head.data ELSE array[c]
      BY <3>3 DEF WordsOK
    <3> QED
      BY <2>3, <2>4, <3>2, <3>4
  <2> QED
    BY <2>6, <2>7
<1> QED
  BY <1>1, <1>2

LEMMA LayersStep ==
  ASSUME PacketsOK, FlagsOK, DecidedOnce, StagesOK, WordsOK,
         NEW issued, NEW reqvld, NEW dual, NEW err, NEW freeze, NEW flush_up,
         NEW flush_lower, NEW flush_dc3, NEW kill,
         PipeStep(issued, reqvld, dual, freeze, flush_up, flush_lower),
         BufferStep(reqvld, dual, err, freeze, flush_dc3, kill),
         DataStep(reqvld, freeze, flush_up, flush_lower, flush_dc3, kill),
         NEW n, QueueOf(n), n + size(reqvld, dual) <= DEPTH,
         NEW d, NEW e, Ordered(n, d, e),
         NEW m, m = n + size(reqvld, dual) - out(freeze),
         NEW s, s = cut(n, d, e, flush_lower, kill),
         NEW c \in Cells, NEW b \in Byte, NEW v, Layers(v, c, b, n), Sees(v, c, b, n, d)
  PROVE  \E u : /\ Layers(u, c, b, m)'
                /\ \A j \in 0..m : /\ j + out(freeze) <= s => u[j] = v[j + out(freeze)]
                                   /\ s <= j + out(freeze) /\ j + out(freeze) <= n => u[j] = v[s]
                /\ reqvld => u[m] = top(c, b, v[n])
<1>1. PICK k, o, t : k = size(reqvld, dual) /\ o = out(freeze) /\ t = top(c, b, v[n])
  OBVIOUS
<1>2. /\ n \in Nat /\ n <= DEPTH /\ DEPTH \in Nat /\ n \in 0..DEPTH /\ k \in 0..2 /\ o \in 0..1
      /\ d \in 0..n /\ e \in d..n /\ s \in d..n
  BY <1>1, StbufAssumption DEF QueueOf, Ordered, size, out, cut
<1>15. (reqvld => k \in {1, 2}) /\ (~reqvld => k = 0)
  BY <1>1 DEF size
<1>3. o <= d
  BY <1>1, <1>2, HeadDecided DEF out
<1>4. m \in Nat /\ m + o = n + k /\ m <= DEPTH
  BY <1>1, <1>2, <1>3
<1>5. PICK w1, w2 : /\ w1 = IF stbuf'[at(n)].addr = c THEN t ELSE v[n]
                    /\ w2 = IF stbuf'[at(n + 1)].addr = c THEN t ELSE w1
  OBVIOUS
<1>6. PICK u : u = [j \in 0..DEPTH |->
                      IF j + o <= s THEN v[j + o] ELSE IF j + o <= n THEN v[s]
                      ELSE IF j + o = n + 1 THEN w1 ELSE w2]
  OBVIOUS
<1>7. \A j \in 0..m : u[j] = IF j + o <= s THEN v[j + o] ELSE IF j + o <= n THEN v[s]
                             ELSE IF j + o = n + 1 THEN w1 ELSE w2
  BY <1>2, <1>4, <1>6
<1>8. u[0] = array'[c][b]
  <2>1. 0 \in 0..m /\ o <= s
    BY <1>2, <1>3, <1>4
  <2>2. v[o] = array'[c][b]
    BY <1>1, HeadLayer
  <2> QED
    BY <1>2, <1>7, <2>1, <2>2
<1>9. reqvld => s = n
  <2> SUFFICES ASSUME reqvld
               PROVE  s = n
    OBVIOUS
  <2>1. /\ cut(n, d, e, flush_lower, kill) = n
        /\ dc3.dma => d = n /\ e = n
    BY <1>2, NoneCut
  <2> QED
    BY <2>1
(* Each new entry shows t on the byte, if it has the cell. *)
<1>10. ASSUME NEW p \in Nat, n <= p, p < n + k
       PROVE  /\ stbuf'[at(p)].addr = c =>
                   /\ stbuf'[at(p)].data[b] = t
                   /\ b \notin stbuf'[at(p)].byteen => t = v[n]
              /\ dc3.op = "load" => t = v[n]
              /\ c \notin {lo(dc3), hi(dc3)} => stbuf'[at(p)].addr # c
              /\ dual \/ dc3.op = "store" =>
                   stbuf'[at(p)].addr = IF p = n THEN lo(dc3) ELSE hi(dc3)
  <2>1. reqvld /\ Fresh(stbuf'[at(p)], at(p), dual) /\ (at(p) = WrPtr <=> p = n)
    BY <1>1, <1>10, NewLayer
  <2>2. PICK cell \in {lo(dc3), hi(dc3)} : stbuf'[at(p)] = OneEntry(cell, made(cell))
    BY <2>1 DEF Fresh
  <2>3. /\ stbuf'[at(p)].addr = cell /\ stbuf'[at(p)].data = made(cell)
        /\ stbuf'[at(p)].byteen = byteen(dc3, cell)
    BY <2>2 DEF OneEntry
  <2>4. internal(dc3)
    BY <2>1 DEF PipeStep
  <2>5. cell = c => made(cell)[b] = t
    BY <1>1, <2>4, MadeByte
  <2>6. (b \notin byteen(dc3, c) \/ dc3.op = "load") => t = v[n]
    BY <1>1 DEF top
  <2>7. dual \/ dc3.op = "store" =>
          stbuf'[at(p)].addr = IF p = n THEN lo(dc3) ELSE hi(dc3)
    BY <2>1 DEF Fresh
  <2> QED
    BY <2>2, <2>3, <2>5, <2>6, <2>7
<1>11. ASSUME NEW j \in 0..m - 1
       PROVE  \A i : i = at(j)' =>
                /\ u[j + 1] = IF live(i)' /\ stbuf'[i].addr = c THEN stbuf'[i].data[b] ELSE u[j]
                /\ (stbuf'[i].addr = c /\ b \notin stbuf'[i].byteen) \/ ofLoad(i)' =>
                     u[j + 1] = u[j]
  <2>1. PICK p \in Nat : p = j + o
    BY <1>2, <1>4
  <2>2. p \in Entries /\ j \in Nat /\ p < n + k /\ j \in 0..m /\ j + 1 \in 0..m
        /\ (j + 1) + o = p + 1
    <3>1. m + o = n + k /\ n + k <= DEPTH /\ j \in Nat /\ j + 1 <= m /\ m \in Int
      BY <1>1, <1>4
    <3>2. n \in Int /\ k \in Int /\ o \in Int /\ 0 <= o /\ DEPTH \in Nat
      BY <1>2
    <3>3. p < n + k /\ p < DEPTH /\ (j + 1) + o = p + 1
      BY <2>1, <3>1, <3>2
    <3>4. j \in 0..m /\ j + 1 \in 0..m
      BY <3>1
    <3> QED
      BY <2>1, <3>1, <3>2, <3>3, <3>4 DEF Entries
  <2>3. PICK i : i = at(p) /\ i = at(j)'
    BY <1>1, <2>1, <2>2, HeadMoves
  <2>4. /\ u[j] = IF p <= s THEN v[p] ELSE IF p <= n THEN v[s] ELSE IF p = n + 1 THEN w1 ELSE w2
        /\ u[j + 1] = IF p + 1 <= s THEN v[p + 1] ELSE IF p + 1 <= n THEN v[s]
                      ELSE IF p + 1 = n + 1 THEN w1 ELSE w2
    BY <1>7, <2>1, <2>2
  <2>5. CASE p < n
    <3>1. p \in 0..n - 1 /\ o <= p
      BY <1>2, <2>1, <2>5
    <3>2. /\ SameWord(stbuf'[i], stbuf[i])
          /\ live(i)' <=> live(i) /\ p < s
          /\ ofLoad(i)' => ofLoad(i)
      <4>1. out(freeze) <= p
        BY <1>1, <3>1
      <4>2. /\ SameWord(stbuf'[at(p)], stbuf[at(p)])
            /\ \A h : h = at(p) =>
                 /\ live(h)' <=> live(h) /\ p < cut(n, d, e, flush_lower, kill)
                 /\ ofLoad(h)' => ofLoad(h)
        BY <3>1, <4>1, OldLayer
      <4> QED
        BY <2>3, <4>2
    <3>3. /\ v[p + 1] = IF live(i) /\ stbuf[i].addr = c THEN stbuf[i].data[b] ELSE v[p]
          /\ (stbuf[i].addr = c /\ b \notin stbuf[i].byteen) \/ ofLoad(i) => v[p + 1] = v[p]
      BY <2>3, <3>1 DEF Layers
    <3>4. CASE p < s
      <4>1. u[j] = v[p] /\ u[j + 1] = v[p + 1]
        BY <1>2, <2>4, <3>4
      <4> QED
        BY <2>3, <3>2, <3>3, <3>4, <4>1 DEF SameWord
    <3>5. CASE ~(p < s)
      <4>1. u[j] = v[s] /\ u[j + 1] = v[s]
        BY <1>2, <2>4, <2>5, <3>5
      <4> QED
        BY <2>3, <3>2, <3>5, <4>1
    <3> QED
      BY <3>4, <3>5
  <2>6. CASE ~(p < n)
    <3>1. n <= p /\ p < n + k /\ p \in {n, n + 1}
      BY <1>2, <2>2, <2>6
    <3>2. reqvld /\ live(i)' /\ (ofLoad(i)' => dc3.op = "load")
      BY <1>1, <2>3, <3>1, NewLayer
    <3>3. s = n
      BY <1>9, <3>2
    <3>4. /\ stbuf'[i].addr = c =>
               stbuf'[i].data[b] = t /\ (b \notin stbuf'[i].byteen => t = v[n])
          /\ dc3.op = "load" => t = v[n]
      BY <1>10, <2>3, <3>1
    <3>5. CASE p = n
      <4>1. u[j] = v[n] /\ u[j + 1] = w1
        BY <1>2, <2>4, <3>3, <3>5
      <4>2. w1 = IF stbuf'[i].addr = c THEN t ELSE v[n]
        BY <1>5, <2>3, <3>5
      <4> QED
        BY <2>3, <3>2, <3>4, <4>1, <4>2
    <3>6. CASE p = n + 1
      <4>1. u[j] = w1 /\ u[j + 1] = w2
        BY <1>2, <2>4, <3>3, <3>6
      <4>2. w2 = (IF stbuf'[i].addr = c THEN t ELSE w1) /\ w1 \in {t, v[n]}
        BY <1>5, <2>3, <3>6
      <4> QED
        BY <2>3, <3>2, <3>4, <4>1, <4>2
    <3> QED
      BY <3>1, <3>5, <3>6
  <2> QED
    BY <2>3, <2>5, <2>6
<1>12. Layers(u, c, b, m)'
  BY <1>8, <1>11 DEF Layers
<1>13. k \in {1, 2} => u[m] = t
  <2> SUFFICES ASSUME k \in {1, 2}
               PROVE  u[m] = t
    OBVIOUS
  <2>1. reqvld
    BY <1>15
  <2>2. s = n /\ internal(dc3) /\ dc3.op \in {"load", "store"}
    BY <1>9, <2>1 DEF PipeStep, PacketsOK, StageOK, internal, NoPacket
  <2>3. u[m] = IF k = 1 THEN w1 ELSE w2
    <3>1. m \in 0..m /\ m + o = n + k
      BY <1>4
    <3> QED
      BY <1>2, <1>7, <2>2, <3>1
  <2>4. c \notin {lo(dc3), hi(dc3)} \/ dc3.op = "load" => t = v[n]
    BY <1>1 DEF top
  <2>5. CASE t = v[n]
    BY <1>5, <2>3, <2>5
  <2>6. CASE c \in {lo(dc3), hi(dc3)} /\ dc3.op = "store"
    <3>1. dual <=> lo(dc3) # hi(dc3)
      BY <2>1, <2>2, <2>6 DEF BufferStep, dual_stbuf_write, ldst_dual, internal,
           ldst_stbuf_reqvld, load_stbuf_reqvld
    <3>2. k = IF dual THEN 2 ELSE 1
      BY <1>1, <2>1 DEF size
    <3>3. k = IF lo(dc3) # hi(dc3) THEN 2 ELSE 1
      BY <3>1, <3>2
    <3>4. n \in Nat /\ n <= n /\ n < n + k
      BY <1>2
    <3>5. stbuf'[at(n)].addr = lo(dc3)
      BY <1>10, <2>6, <3>4
    <3>6. k = 2 => n + 1 \in Nat /\ n <= n + 1 /\ n + 1 < n + k /\ n + 1 # n
      BY <1>2
    <3>7. k = 2 => stbuf'[at(n + 1)].addr = hi(dc3)
      BY <1>10, <2>6, <3>6
    <3> QED
      BY <1>5, <2>3, <2>6, <3>3, <3>5, <3>7
  <2> QED
    BY <2>2, <2>4, <2>5, <2>6
<1>14. \A j \in 0..m : /\ j + o <= s => u[j] = v[j + o]
                       /\ s <= j + o /\ j + o <= n => u[j] = v[s]
  <2> TAKE j \in 0..m
  <2>1. j + o = s \/ j + o # s
    OBVIOUS
  <2> QED
    BY <1>2, <1>4, <1>7
<1> QED
  BY <1>1, <1>12, <1>13, <1>14, <1>15

-----------------------------------------------------------------------------
(* Forwarding. *)

(* The search of the buffer from WrPtr on ends with the queue. *)
LEMMA Slots ==
  ASSUME PacketsOK, NEW n, QueueOf(n)
  PROVE  /\ \A p \in 0..n - 1 : p + DEPTH - n \in Entries /\ slot(p + DEPTH - n) = at(p)
         /\ \A k \in Entries : stbuf[slot(k)].data_vld => k + n - DEPTH \in 0..n - 1
<1>1. /\ n \in Nat /\ n <= DEPTH /\ DEPTH \in Nat /\ RdPtr \in Entries /\ WrPtr \in Entries
      /\ n \in 0..DEPTH
  BY StbufAssumption DEF QueueOf, PacketsOK
<1>2. WrPtr = IF RdPtr + n < DEPTH THEN RdPtr + n ELSE RdPtr + n - DEPTH
  BY <1>1, Wraps DEF QueueOf
<1>3. \A k \in Entries : k \in 0..DEPTH /\ k \in Int
  BY <1>1 DEF Entries
<1>4. \A k \in Entries : slot(k) = IF WrPtr + k < DEPTH THEN WrPtr + k ELSE WrPtr + k - DEPTH
  BY <1>1, <1>3, Wraps DEF slot
<1>5. \A k \in Entries : at(k) = IF RdPtr + k < DEPTH THEN RdPtr + k ELSE RdPtr + k - DEPTH
  BY <1>1, <1>3, Wraps DEF at
<1>6. ASSUME NEW p \in 0..n - 1
      PROVE  p + DEPTH - n \in Entries /\ slot(p + DEPTH - n) = at(p)
  <2>1. PICK k : k = p + DEPTH - n
    OBVIOUS
  <2>2. k \in Entries /\ p \in Entries
    BY <1>1, <2>1 DEF Entries
  <2> QED
    BY <1>1, <1>2, <1>4, <1>5, <2>1, <2>2 DEF Entries
<1>7. ASSUME NEW k \in Entries, stbuf[slot(k)].data_vld
      PROVE  k + n - DEPTH \in 0..n - 1
  <2> SUFFICES ASSUME ~(k + n >= DEPTH)
               PROVE  FALSE
    BY <1>1 DEF Entries
  <2>1. PICK p : p = k + n
    OBVIOUS
  <2>2. p \in Entries /\ ~(p < n)
    BY <1>1, <2>1 DEF Entries
  <2>3. slot(k) = at(p)
    BY <1>1, <1>2, <1>4, <1>5, <2>1, <2>2 DEF Entries
  <2>4. at(p) \in Entries /\ dist(at(p), RdPtr) = p
    BY <1>1, <2>2, Positions DEF at
  <2> QED
    BY <1>7, <2>2, <2>3, <2>4 DEF QueueOf
<1> QED
  BY <1>6, <1>7

(* The newest entry with the byte shows what is behind the last, if those that
   forward are those that live. *)
LEMMA ForwardEntries ==
  ASSUME PacketsOK, NEW n, QueueOf(n), NEW c, NEW b \in Byte, NEW v, Layers(v, c, b, n), NEW dma,
         \A i \in Entries : stbuf[i].data_vld =>
           (live(i) <=> ~stbuf[i].flush_vld /\ (stbuf[i].drain_vld \/ ~dma))
  PROVE  IF b \in DOMAIN ForwardedByEntries(c, dma)
           THEN ForwardedByEntries(c, dma)[b] = v[n] ELSE v[n] = array[c][b]
<1>1. n \in Nat /\ n <= DEPTH /\ DEPTH \in Nat /\ n \in 0..DEPTH /\ 0 \in 0..n
  BY StbufAssumption DEF QueueOf
<1>2. PICK S : S = Sources(c, b, dma)
  OBVIOUS
<1>3. /\ DOMAIN ForwardedByEntries(c, dma) = {x \in Byte : Sources(c, x, dma) # {}}
      /\ S # {} => ForwardedByEntries(c, dma)[b] = stbuf[slot(Max(S))].data[b]
  BY <1>2 DEF ForwardedByEntries
<1>4. S = {k \in Entries : forwards(stbuf[slot(k)], c, b, dma)}
  BY <1>2 DEF Sources
<1>5. ASSUME NEW p \in 0..n - 1
      PROVE  /\ p + DEPTH - n \notin S => v[p + 1] = v[p]
             /\ p + DEPTH - n \in S => v[p + 1] = stbuf[at(p)].data[b]
  <2>1. p + DEPTH - n \in Entries /\ slot(p + DEPTH - n) = at(p)
    BY Slots
  <2>2. PICK i : i = at(p)
    OBVIOUS
  <2>3. i \in Entries /\ stbuf[i].data_vld
    <3>1. p \in Entries /\ p < n
      BY <1>1 DEF Entries
    <3>2. i \in Entries /\ dist(i, RdPtr) = p
      BY <2>2, <3>1, Positions DEF at, PacketsOK
    <3> QED
      BY <3>1, <3>2 DEF QueueOf
  <2>4. p + DEPTH - n \in S <=> live(i) /\ stbuf[i].addr = c /\ b \in stbuf[i].byteen
    BY <1>4, <2>1, <2>2, <2>3 DEF forwards
  <2>5. /\ v[p + 1] = IF live(i) /\ stbuf[i].addr = c THEN stbuf[i].data[b] ELSE v[p]
        /\ (stbuf[i].addr = c /\ b \notin stbuf[i].byteen) => v[p + 1] = v[p]
    BY <2>2 DEF Layers
  <2> QED
    BY <2>2, <2>4, <2>5
<1>6. CASE S = {}
  <2>1. \A p \in 0..n - 1 : v[p + 1] = v[p]
    BY <1>5, <1>6
  <2>2. v[n] = v[0]
    BY <1>1, <2>1, Settled
  <2> QED
    BY <1>2, <1>3, <1>6, <2>2 DEF Layers
<1>7. CASE S # {}
  <2>1. PICK k : k = Max(S)
    OBVIOUS
  <2>2. k \in S /\ k \in Entries /\ \A x \in S : x <= k
    BY <1>4, <1>7, <2>1, LastPosition
  <2>3. stbuf[slot(k)].data_vld
    BY <1>4, <2>2 DEF forwards
  <2>4. PICK p \in 0..n - 1 : p = k + n - DEPTH
    BY <2>2, <2>3, Slots
  <2>5. k = p + DEPTH - n /\ p + 1 \in 0..n
    BY <1>1, <2>2, <2>4 DEF Entries
  <2>6. v[p + 1] = stbuf[slot(k)].data[b]
    BY <1>5, <2>2, <2>5, Slots
  <2>7. \A q \in 0..n - 1 : p + 1 <= q => v[q + 1] = v[q]
    <3> SUFFICES ASSUME NEW q \in 0..n - 1, p + 1 <= q
                 PROVE  q + DEPTH - n \notin S
      BY <1>5
    <3>1. ~(q + DEPTH - n <= k)
      BY <1>1, <2>5
    <3> QED
      BY <2>2, <3>1
  <2>8. v[n] = v[p + 1]
    BY <1>1, <2>5, <2>7, Settled
  <2> QED
    BY <1>2, <1>3, <1>7, <2>1, <2>6, <2>8
<1> QED
  BY <1>6, <1>7

(* What forwards to dc2: for the core every entry that is not flushed, since none
   it follows is doomed; for the DMA those that drain, since none is undecided. *)
LEMMA Forwarding ==
  ASSUME PacketsOK, DecidedOnce, Alone, StagesOK, dc2.valid,
         NEW i \in Entries, stbuf[i].data_vld
  PROVE  live(i) <=> ~stbuf[i].flush_vld /\ (stbuf[i].drain_vld \/ ~dc2.dma)
<1>1. dc2.dma \in BOOLEAN
  BY DEF PacketsOK, StageOK, NoPacket
<1>2. CASE dc2.dma
  <2>1. TakenBy(dc4) = {} /\ TakenBy(dc5) = {}
    BY <1>2 DEF Alone, dma_in, TakenBy
  <2>2. ~Waits(stbuf[i])
    BY <2>1 DEF DecidedOnce
  <2> QED
    BY <1>2, <2>1, <2>2 DEF live, doomed, Waits
<1>3. CASE ~dc2.dma
  <2>1. ~doomed(i)
    BY <1>3 DEF doomed, TakenBy, StagesOK, core
  <2> QED
    BY <1>3, <2>1 DEF live
<1> QED
  BY <1>1, <1>2, <1>3

LEMMA ForwardDc3 ==
  ASSUME PacketsOK, Alone, StagesOK, dc2.valid,
         NEW issued, NEW reqvld, NEW dual, NEW err, NEW freeze, NEW flush_up,
         NEW flush_lower, NEW flush_dc3, NEW kill,
         PipeStep(issued, reqvld, dual, freeze, flush_up, flush_lower),
         BufferStep(reqvld, dual, err, freeze, flush_dc3, kill),
         NEW c, NEW b \in Byte, NEW v, NEW n, NEW d, Sees(v, c, b, n, d),
         NEW jit, jit = ForwardedByDc3(c, dc2.dma, reqvld, dual),
         NEW x, x = (IF reqvld THEN top(c, b, v[n]) ELSE v[n])
  PROVE  IF b \in DOMAIN jit THEN jit[b] = x ELSE x = v[n]
<1>1. reqvld \in BOOLEAN /\ dual \in BOOLEAN /\ (reqvld => internal(dc3))
  BY DEF PipeStep
<1>2. CASE ~reqvld
  <2>1. jit = NoBytes
    BY <1>2 DEF ForwardedByDc3
  <2> QED
    BY <1>2, <2>1 DEF NoBytes
<1>3. CASE reqvld
  <2>1. internal(dc3) /\ dc3.valid /\ x = top(c, b, v[n])
    BY <1>1, <1>3 DEF internal
  <2>2. ~(dc2.dma /\ ~dc3.dma)
    BY <2>1 DEF Alone, dma_in, core
  <2>3. jit = CASE c = lo(dc3) -> [y \in byteen(dc3, c) |-> store_ecc_datafn_lo_dc3[y]]
                [] c # lo(dc3) /\ c = hi(dc3) /\ dual ->
                     [y \in byteen(dc3, c) |-> store_ecc_datafn_hi_dc3[y]]
                [] OTHER -> NoBytes
    BY <1>3, <2>1, <2>2 DEF ForwardedByDc3
  <2>4. CASE c = lo(dc3) \/ (c = hi(dc3) /\ dual)
    <3>1. jit = [y \in byteen(dc3, c) |-> made(c)[y]]
      BY <2>3, <2>4 DEF made
    <3>2. made(c)[b] = x
      BY <2>1, <2>4, MadeByte
    <3> QED
      BY <2>1, <3>1, <3>2 DEF top
  <2>5. CASE c # lo(dc3) /\ ~(c = hi(dc3) /\ dual)
    <3>1. jit = NoBytes
      BY <2>3, <2>5
    <3>2. dc3.op = "store" /\ c = hi(dc3) => dual
      BY <1>3, <2>1, <2>5 DEF BufferStep, dual_stbuf_write, ldst_dual, internal,
         ldst_stbuf_reqvld, load_stbuf_reqvld
    <3>3. x = v[n]
      BY <2>1, <2>5, <3>2 DEF top
    <3> QED
      BY <3>1, <3>3 DEF NoBytes
  <2> QED
    BY <2>4, <2>5
<1> QED
  BY <1>1, <1>2, <1>3

(* An access that leaves dc2 takes with it the byte that everything ahead of it
   leaves, the entry dc3 makes in this cycle included. *)
LEMMA ReadByte ==
  ASSUME PacketsOK, DecidedOnce, Alone, StagesOK, WordsOK, dc2.valid,
         NEW issued, NEW reqvld, NEW dual, NEW err, NEW freeze, NEW flush_up,
         NEW flush_lower, NEW flush_dc3, NEW kill,
         PipeStep(issued, reqvld, dual, freeze, flush_up, flush_lower),
         BufferStep(reqvld, dual, err, freeze, flush_dc3, kill),
         NEW n, QueueOf(n), NEW d, NEW c \in Cells, NEW b \in Byte,
         NEW v, Layers(v, c, b, n), Sees(v, c, b, n, d)
  PROVE  Over(Forwarded(c, dc2.dma, reqvld, dual), array[c])[b]
           = IF reqvld THEN top(c, b, v[n]) ELSE v[n]
<1>1. PICK jit, old, new, x :
        /\ jit = ForwardedByDc3(c, dc2.dma, reqvld, dual)
        /\ old = ForwardedByEntries(c, dc2.dma)
        /\ new = Forwarded(c, dc2.dma, reqvld, dual)
        /\ x = (IF reqvld THEN top(c, b, v[n]) ELSE v[n])
  OBVIOUS
<1>2. IF b \in DOMAIN jit THEN jit[b] = x ELSE x = v[n]
  BY <1>1, ForwardDc3
<1>3. IF b \in DOMAIN old THEN old[b] = v[n] ELSE v[n] = array[c][b]
  <2>1. PICK dma : dma = dc2.dma
    OBVIOUS
  <2>2. \A i \in Entries : stbuf[i].data_vld =>
          (live(i) <=> ~stbuf[i].flush_vld /\ (stbuf[i].drain_vld \/ ~dma))
    BY <2>1, Forwarding
  <2>3. IF b \in DOMAIN ForwardedByEntries(c, dma)
          THEN ForwardedByEntries(c, dma)[b] = v[n] ELSE v[n] = array[c][b]
    BY <2>2, ForwardEntries
  <2> QED
    BY <1>1, <2>1, <2>3
<1>4. new = [y \in DOMAIN jit \cup DOMAIN old |-> IF y \in DOMAIN jit THEN jit[y] ELSE old[y]]
  BY <1>1 DEF Forwarded
<1>5. IF b \in DOMAIN new THEN new[b] = x ELSE x = array[c][b]
  BY <1>2, <1>3, <1>4
<1>6. b \in DOMAIN array[c]
  BY DEF WordsOK, Word
<1>7. Over(new, array[c])[b] = IF b \in DOMAIN new THEN new[b] ELSE array[c][b]
  BY <1>6 DEF Over
<1> QED
  BY <1>1, <1>5, <1>7

LEMMA ReadStep ==
  ASSUME PacketsOK, DecidedOnce, Alone, StagesOK, WordsOK,
         NEW issued, NEW reqvld, NEW dual, NEW err, NEW freeze, NEW flush_up,
         NEW flush_lower, NEW flush_dc3, NEW kill,
         PipeStep(issued, reqvld, dual, freeze, flush_up, flush_lower),
         BufferStep(reqvld, dual, err, freeze, flush_dc3, kill),
         DataStep(reqvld, freeze, flush_up, flush_lower, flush_dc3, kill),
         NEW n, QueueOf(n), NEW d, NEW e, Ordered(n, d, e),
         NEW c \in Cells, NEW b \in Byte, NEW v, Layers(v, c, b, n), Sees(v, c, b, n, d),
         reads(dc3')
  PROVE  /\ cut(n, d, e, flush_lower, kill) = n
         /\ lo(dc3') = c =>
              lsu_rdata_lo_dc3'[b] = IF reqvld THEN top(c, b, v[n]) ELSE v[n]
         /\ hi(dc3') = c =>
              lsu_rdata_hi_dc3'[b] = IF reqvld THEN top(c, b, v[n]) ELSE v[n]
<1>1. ~freeze
  <2> SUFFICES ASSUME freeze
               PROVE  FALSE
    OBVIOUS
  <2>1. dc3' = dc3 /\ ld_freeze_dc3
    BY DEF PipeStep, EarlyEdge, DataStep
  <2>2. dc3.region = "ext"
    BY <2>1 DEF StagesOK
  <2> QED
    BY <2>1, <2>2 DEF reads, reads_dccm, internal, Internal
<1>2. survives(dc2, flush_up)
  BY <1>1 DEF PipeStep, EarlyEdge, reads, reads_dccm, internal, NoPacket
<1>3. /\ dc3' = dc2 /\ rd_dc3' = rd_dc2
      /\ fwd_dc3' = ForwardTo(dc2, reqvld, dual)
  BY <1>1, <1>2 DEF PipeStep, EarlyEdge
<1>4. reads(dc2) /\ internal(dc2) /\ dc2.valid
  BY <1>3 DEF reads, reads_dccm, internal
<1>5. /\ rd_dc2.lo = array[lo(dc2)] /\ rd_dc2.hi = array[hi(dc2)]
  BY <1>4 DEF StagesOK
<1>6. /\ fwd_dc3'.lo = Forwarded(lo(dc2), dc2.dma, reqvld, dual)
      /\ fwd_dc3'.hi = Forwarded(hi(dc2), dc2.dma, reqvld, dual)
  BY <1>3, <1>4 DEF ForwardTo
<1>7. Over(Forwarded(c, dc2.dma, reqvld, dual), array[c])[b]
        = IF reqvld THEN top(c, b, v[n]) ELSE v[n]
  BY <1>4, ReadByte
<1>8. lo(dc2) = c => Over(fwd_dc3'.lo, rd_dc3'.lo)[b] = IF reqvld THEN top(c, b, v[n]) ELSE v[n]
  BY <1>3, <1>5, <1>6, <1>7
<1>9. hi(dc2) = c => Over(fwd_dc3'.hi, rd_dc3'.hi)[b] = IF reqvld THEN top(c, b, v[n]) ELSE v[n]
  BY <1>3, <1>5, <1>6, <1>7
<1>10. cut(n, d, e, flush_lower, kill) = n
  <2>1. CASE dc2.dma
    <3>1. TakenBy(dc4) = {} /\ TakenBy(dc5) = {}
      BY <1>4, <2>1 DEF Alone, dma_in, TakenBy
    <3>2. d = n /\ e = n
      BY <3>1, AllDecided DEF QueueOf
    <3> QED
      BY <3>2 DEF cut
  <2>2. CASE ~dc2.dma
    <3>1. ~flush_lower /\ ~kill
      BY <1>2, <2>2 DEF survives, DataStep
    <3> QED
      BY <3>1 DEF cut
  <2> QED
    BY <2>1, <2>2
<1> QED
  BY <1>3, <1>8, <1>9, <1>10 DEF lsu_rdata_lo_dc3, lsu_rdata_hi_dc3

-----------------------------------------------------------------------------
(* What commits. *)

committed(kill) == dc5.reqvld /\ dc5.valid /\ ~kill /\ ~dc5.dma /\ dc5.op = "store"
lateBytes(c, b) ==
  {x.data[b] : x \in {y \in {stbuf[i] : i \in Taken(dc5.ptr, dc5.dual)} :
                     y.addr = c /\ b \in y.byteen}}

(* An entry of the instruction in dc5 is between positions d and e. *)
LEMMA LatePositions ==
  ASSUME PacketsOK, DecidedOnce, NEW n, QueueOf(n), NEW d, NEW e, Ordered(n, d, e),
         NEW i \in TakenBy(dc5)
  PROVE  \E k \in d..e - 1 : i = at(k)
<1>1. /\ n \in Nat /\ n <= DEPTH /\ DEPTH \in Nat /\ RdPtr \in Entries
      /\ d \in 0..n /\ e \in d..n
  BY StbufAssumption DEF QueueOf, PacketsOK, Ordered
<1>2. i \in Entries
  <2>1. dc5 # NoWrite
    BY DEF TakenBy, CoreWrite, NoWrite
  <2>2. dc5.ptr \in Entries
    BY <2>1 DEF PacketsOK, WriteOK
  <2> QED
    BY <2>2, TakenEntries DEF TakenBy
<1>3. stbuf[i].data_vld
  BY <1>2 DEF DecidedOnce, Waits
<1>4. PICK k : k = dist(i, RdPtr)
  OBVIOUS
<1>5. k \in Entries /\ k < n /\ i = at(k)
  BY <1>1, <1>2, <1>3, <1>4, Positions, Wraps DEF QueueOf, at
<1>6. k \in 0..n - 1
  BY <1>1, <1>5 DEF Entries
<1>7. d <= k /\ k < e
  BY <1>5, <1>6 DEF Ordered
<1> QED
  BY <1>1, <1>5, <1>6, <1>7

(* When the instruction in dc5 commits no store, its entries show nothing. *)
LEMMA NoneCommitted ==
  ASSUME PacketsOK, DecidedOnce, NEW n, QueueOf(n), NEW d, NEW e, Ordered(n, d, e),
         NEW c, NEW b, NEW v, Layers(v, c, b, n), ~(dc5.valid /\ dc5.op = "store")
  PROVE  v[e] = v[d]
<1>1. /\ n \in Nat /\ n <= DEPTH /\ DEPTH \in Nat /\ d \in 0..n /\ e \in d..n
  BY StbufAssumption DEF QueueOf, Ordered
<1>2. ASSUME NEW k \in 0..e - 1, d <= k
      PROVE  v[k + 1] = v[k]
  <2>1. k \in 0..n - 1 /\ k < e
    BY <1>1
  <2>2. PICK i : i = at(k)
    OBVIOUS
  <2>3. i \in TakenBy(dc5)
    BY <1>2, <2>1, <2>2 DEF Ordered
  <2>4. /\ v[k + 1] = IF live(i) /\ stbuf[i].addr = c THEN stbuf[i].data[b] ELSE v[k]
        /\ ofLoad(i) => v[k + 1] = v[k]
    BY <2>1, <2>2 DEF Layers
  <2>5. dc5 # NoWrite
    BY <2>3 DEF TakenBy, CoreWrite, NoWrite
  <2>6. dc5.op \in {"load", "store"}
    BY <2>5 DEF PacketsOK, WriteOK
  <2>7. ~live(i) \/ ofLoad(i)
    BY <2>3, <2>6 DEF live, doomed, ofLoad
  <2> QED
    BY <2>4, <2>7
<1>3. e \in 0..DEPTH /\ d \in 0..e
  BY <1>1
<1> QED
  BY <1>2, <1>3, Settled

(* The bytes a store commits are those its entries show. *)
LEMMA StoreCommitted ==
  ASSUME PacketsOK, DecidedOnce, WordsOK, NEW n, QueueOf(n), NEW d, NEW e, Ordered(n, d, e),
         NEW c, NEW b, NEW v, Layers(v, c, b, n), NEW kill, committed(kill),
         NEW W, W = lateBytes(c, b)
  PROVE  IF W = {} THEN v[e] = v[d] ELSE W = {v[e]}
<1>1. /\ n \in Nat /\ n <= DEPTH /\ DEPTH \in Nat /\ d \in 0..n /\ e \in d..n
  BY StbufAssumption DEF QueueOf, Ordered
<1>2. PICK T : T = Taken(dc5.ptr, dc5.dual) /\ T = TakenBy(dc5)
  BY DEF committed, TakenBy, CoreWrite
<1>3. PICK H : H = {i \in T : stbuf[i].addr = c /\ b \in stbuf[i].byteen}
  OBVIOUS
<1>4. W = {stbuf[i].data[b] : i \in H}
  BY <1>2, <1>3 DEF lateBytes
<1>5. ASSUME NEW k \in d..e - 1
      PROVE  /\ at(k) \in T
             /\ at(k) \notin H => v[k + 1] = v[k]
             /\ at(k) \in H => v[k + 1] = stbuf[at(k)].data[b]
  <2>1. k \in 0..n - 1 /\ d <= k /\ k < e
    BY <1>1
  <2>2. PICK i : i = at(k)
    OBVIOUS
  <2>3. i \in T
    BY <1>2, <2>1, <2>2 DEF Ordered
  <2>4. i \in Entries
    BY <1>1, <2>1, <2>2, Positions DEF at, PacketsOK, Entries
  <2>5. live(i)
    <3>1. Waits(stbuf[i])
      BY <1>2, <2>3, <2>4 DEF DecidedOnce
    <3> QED
      BY <3>1 DEF live, doomed, Waits, committed
  <2>6. /\ v[k + 1] = IF live(i) /\ stbuf[i].addr = c THEN stbuf[i].data[b] ELSE v[k]
        /\ (stbuf[i].addr = c /\ b \notin stbuf[i].byteen) => v[k + 1] = v[k]
    BY <2>1, <2>2 DEF Layers
  <2> QED
    BY <1>3, <2>2, <2>3, <2>5, <2>6
<1>6. \A i \in H, j \in H : i = j
  <2>1. T = {dc5.ptr} \cup (IF dc5.dual THEN {(dc5.ptr + 1) % DEPTH} ELSE {})
    BY <1>2 DEF Taken
  <2>2. dc5.dual => stbuf[dc5.ptr].addr # stbuf[(dc5.ptr + 1) % DEPTH].addr
    BY DEF WordsOK, CoreWrite, committed
  <2> QED
    BY <1>3, <2>1, <2>2
<1>7. CASE H = {}
  <2>1. \A k \in 0..e - 1 : d <= k => v[k + 1] = v[k]
    BY <1>1, <1>5, <1>7
  <2>2. e \in 0..DEPTH /\ d \in 0..e
    BY <1>1
  <2>3. v[e] = v[d]
    BY <2>1, <2>2, Settled
  <2> QED
    BY <1>4, <1>7, <2>3
<1>8. CASE H # {}
  <2>1. PICK i \in H : H = {i}
    BY <1>6, <1>8
  <2>2. i \in TakenBy(dc5)
    BY <1>2, <1>3, <2>1
  <2>3. PICK k \in d..e - 1 : i = at(k)
    BY <2>2, LatePositions
  <2>4. v[k + 1] = stbuf[i].data[b]
    BY <1>5, <2>1, <2>3
  <2>5. ASSUME NEW q \in 0..e - 1, k + 1 <= q
        PROVE  v[q + 1] = v[q]
    <3>1. q \in d..e - 1 /\ q # k /\ q \in Entries /\ k \in Entries
      BY <1>1, <2>5 DEF Entries
    <3>2. at(q) # at(k)
      BY <3>1, Positions DEF at, PacketsOK
    <3> QED
      BY <1>5, <2>1, <2>3, <3>1, <3>2
  <2>6. e \in 0..DEPTH /\ k + 1 \in 0..e
    BY <1>1
  <2>7. v[e] = v[k + 1]
    BY <2>5, <2>6, Settled
  <2>8. W = {stbuf[i].data[b]}
    BY <1>4, <2>1
  <2> QED
    BY <2>4, <2>7, <2>8
<1> QED
  BY <1>7, <1>8

LEMMA MemStep ==
  ASSUME PacketsOK, DecidedOnce, StagesOK, WordsOK,
         NEW issued, NEW reqvld, NEW dual, NEW err, NEW freeze, NEW flush_up,
         NEW flush_lower, NEW flush_dc3, NEW kill,
         PipeStep(issued, reqvld, dual, freeze, flush_up, flush_lower),
         BufferStep(reqvld, dual, err, freeze, flush_dc3, kill),
         DataStep(reqvld, freeze, flush_up, flush_lower, flush_dc3, kill),
         NEW n, QueueOf(n), NEW d, NEW e, Ordered(n, d, e),
         NEW c \in Cells, NEW b \in Byte, NEW v, Layers(v, c, b, n), Sees(v, c, b, n, d)
  PROVE  mem'[c][b] = IF reqvld /\ dc3.dma THEN top(c, b, v[n]) ELSE IF kill THEN v[d] ELSE v[e]
<1>1. PICK C : C = CommittedBytes(kill)
  OBVIOUS
<1>2. C = IF committed(kill) THEN {stbuf[i] : i \in Taken(dc5.ptr, dc5.dual)} ELSE {}
  BY <1>1 DEF CommittedBytes, committed
<1>3. committed(kill) <=> C # {}
  BY <1>2 DEF Taken
<1>4. mem[c][b] = v[d] /\ kill \in BOOLEAN /\ reqvld \in BOOLEAN
  BY DEF Sees, DataStep, PipeStep
<1>5. PICK W : W = Written(c, b, kill, reqvld)
  OBVIOUS
<1>6. IF C = {} /\ ~(reqvld /\ dc3.dma) THEN mem' = mem
      ELSE mem'[c][b] = IF W = {} THEN mem[c][b] ELSE CHOOSE x \in W : TRUE
  <2>1. CASE C = {} /\ ~(reqvld /\ dc3.dma)
    BY <1>1, <2>1 DEF DataStep, History
  <2>2. CASE ~(C = {} /\ ~(reqvld /\ dc3.dma))
    <3>1. mem' = [cell \in Cells |-> [y \in Byte |->
            IF Written(cell, y, kill, reqvld) = {} THEN mem[cell][y]
            ELSE CHOOSE x \in Written(cell, y, kill, reqvld) : TRUE]]
      BY <1>1, <2>2 DEF DataStep, History
    <3> QED
      BY <1>5, <2>2, <3>1
  <2> QED
    BY <2>1, <2>2
<1>7. W = {x.data[b] : x \in {y \in C : y.addr = c /\ b \in y.byteen}}
          \cup (IF reqvld /\ dc3.dma /\ b \in DOMAIN StoreBytes(dc3, c) /\ c \in {lo(dc3), hi(dc3)}
                  THEN {databyte(dc3, c, b)} ELSE {})
  BY <1>1, <1>5 DEF Written
<1>8. CASE reqvld /\ dc3.dma
  <2>1. ~CoreWrite(dc4) /\ ~CoreWrite(dc5)
    BY <1>8 DEF PipeStep, internal, StagesOK, dma_in
  <2>2. C = {}
    BY <1>2, <2>1 DEF committed, CoreWrite
  <2>3. d = n
    BY <2>1, AllDecided DEF TakenBy, QueueOf
  <2>4. DOMAIN StoreBytes(dc3, c) = IF dc3.op = "store" THEN byteen(dc3, c) ELSE {}
    BY DEF StoreBytes
  <2>5. W = IF dc3.op = "store" /\ c \in {lo(dc3), hi(dc3)} /\ b \in byteen(dc3, c)
              THEN {databyte(dc3, c, b)} ELSE {}
    BY <1>7, <1>8, <2>2, <2>4
  <2>6. mem'[c][b] = IF W = {} THEN v[n] ELSE CHOOSE x \in W : TRUE
    BY <1>4, <1>6, <1>8, <2>3
  <2> QED
    BY <1>8, <2>5, <2>6 DEF top
<1>9. CASE ~(reqvld /\ dc3.dma) /\ ~committed(kill)
  <2>1. mem'[c][b] = v[d]
    BY <1>3, <1>4, <1>6, <1>9
  <2>2. ~kill => v[e] = v[d]
    <3>1. CASE ~(dc5.valid /\ dc5.op = "store")
      BY <3>1, NoneCommitted
    <3>2. CASE dc5.valid /\ dc5.op = "store" /\ ~kill
      <4>1. TakenBy(dc5) = {}
        BY <1>9, <3>2 DEF committed, TakenBy, CoreWrite
      <4>2. d \in 0..n /\ e \in d..n /\ n \in Nat
        BY StbufAssumption DEF Ordered, QueueOf
      <4>3. ~(d < e)
        <5>1. d < e => d \in 0..n - 1 /\ d <= d
          BY <4>2
        <5> QED
          BY <4>1, <5>1 DEF Ordered
      <4> QED
        BY <4>2, <4>3
    <3> QED
      BY <3>1, <3>2
  <2> QED
    BY <1>4, <1>9, <2>1, <2>2
<1>10. CASE ~(reqvld /\ dc3.dma) /\ committed(kill)
  <2>1. W = lateBytes(c, b) /\ committed(kill)
    BY <1>2, <1>7, <1>10 DEF lateBytes
  <2>2. IF W = {} THEN v[e] = v[d] ELSE W = {v[e]}
    BY <2>1, StoreCommitted
  <2>3. mem'[c][b] = v[e]
    BY <1>3, <1>4, <1>6, <1>10, <2>2
  <2> QED
    BY <1>4, <1>10, <2>3 DEF committed
<1> QED
  BY <1>4, <1>8, <1>9, <1>10

-----------------------------------------------------------------------------
(* The inductive invariant of the data. *)

View(c, b, n, d) == \E v : Layers(v, c, b, n) /\ Sees(v, c, b, n, d)
DataOK ==
  \E n, d, e : /\ QueueOf(n) /\ Ordered(n, d, e)
               /\ \A c \in Cells, b \in Byte : View(c, b, n, d)
DataInv == BufferOK /\ Alone /\ StagesOK /\ WordsOK /\ DataOK

LEMMA ViewStep ==
  ASSUME PacketsOK, FlagsOK, DecidedOnce, Alone, StagesOK, WordsOK,
         NEW issued, NEW reqvld, NEW dual, NEW err, NEW freeze, NEW flush_up,
         NEW flush_lower, NEW flush_dc3, NEW kill,
         PipeStep(issued, reqvld, dual, freeze, flush_up, flush_lower),
         BufferStep(reqvld, dual, err, freeze, flush_dc3, kill),
         DataStep(reqvld, freeze, flush_up, flush_lower, flush_dc3, kill),
         NEW n, QueueOf(n), n + size(reqvld, dual) <= DEPTH,
         NEW d, NEW e, Ordered(n, d, e),
         NEW m, m = n + size(reqvld, dual) - out(freeze),
         NEW d2, d2 = (IF reqvld /\ dc3.dma THEN m ELSE e - out(freeze)),
         NEW c \in Cells, NEW b \in Byte, View(c, b, n, d)
  PROVE  View(c, b, m, d2)'
<1>1. PICK v : Layers(v, c, b, n) /\ Sees(v, c, b, n, d)
  BY DEF View
<1>2. PICK k, o, s : /\ k = size(reqvld, dual) /\ o = out(freeze)
                     /\ s = cut(n, d, e, flush_lower, kill)
  OBVIOUS
<1>3. PICK u : /\ Layers(u, c, b, m)'
               /\ \A j \in 0..m : /\ j + o <= s => u[j] = v[j + o]
                                  /\ s <= j + o /\ j + o <= n => u[j] = v[s]
               /\ reqvld => u[m] = top(c, b, v[n])
  BY <1>1, <1>2, LayersStep
<1>4. /\ n \in Nat /\ k \in 0..2 /\ o \in 0..1 /\ d \in 0..n /\ e \in d..n
      /\ reqvld \in BOOLEAN /\ kill \in BOOLEAN /\ (~reqvld => k = 0)
  BY <1>2, StbufAssumption DEF QueueOf, Ordered, size, out, PipeStep, DataStep
<1>5. o <= d /\ o <= n
  BY <1>2, <1>4, HeadDecided DEF out
<1>6. m \in 0..m /\ m + o = n + k
  BY <1>2, <1>4, <1>5
<1>7. mem'[c][b] = u[d2]
  <2>1. mem'[c][b] = IF reqvld /\ dc3.dma THEN top(c, b, v[n])
                     ELSE IF kill THEN v[d] ELSE v[e]
    BY <1>1, MemStep
  <2>2. CASE reqvld /\ dc3.dma
    BY <1>3, <2>1, <2>2
  <2>3. CASE ~(reqvld /\ dc3.dma)
    <3>1. d2 \in 0..m /\ d2 + o = e
      BY <1>2, <1>4, <1>5, <1>6, <2>3
    <3>2. /\ e <= s => u[d2] = v[e]
          /\ s <= e /\ e <= n => u[d2] = v[s]
      BY <1>3, <3>1
    <3>3. CASE kill
      <4>1. s = d
        BY <1>2, <3>3 DEF cut
      <4> QED
        BY <1>4, <2>1, <2>3, <3>2, <3>3, <4>1
    <3>4. CASE ~kill
      <4>1. e <= s
        BY <1>2, <1>4, <3>4 DEF cut
      <4> QED
        BY <2>1, <2>3, <3>2, <3>4, <4>1
    <3> QED
      BY <1>4, <3>3, <3>4
  <2> QED
    BY <2>2, <2>3
<1>8. ASSUME reads(dc3')
      PROVE  /\ lo(dc3') = c => lsu_rdata_lo_dc3'[b] = u[m]
             /\ hi(dc3') = c => lsu_rdata_hi_dc3'[b] = u[m]
  <2>1. /\ s = n
        /\ lo(dc3') = c => lsu_rdata_lo_dc3'[b] = IF reqvld THEN top(c, b, v[n]) ELSE v[n]
        /\ hi(dc3') = c => lsu_rdata_hi_dc3'[b] = IF reqvld THEN top(c, b, v[n]) ELSE v[n]
    BY <1>1, <1>2, <1>8, ReadStep
  <2>2. ~reqvld => u[m] = v[n]
    <3>1. ~reqvld => m + o = n /\ n <= s
      BY <1>4, <1>6, <2>1
    <3> QED
      BY <1>3, <1>6, <3>1
  <2> QED
    BY <1>3, <1>4, <2>1, <2>2
<1>9. Sees(u, c, b, m, d2)'
  <2>1. reads(dc3)' = reads(dc3') /\ lo(dc3)' = lo(dc3') /\ hi(dc3)' = hi(dc3')
    BY DEF reads, reads_dccm, internal, whole_words, lo, hi, word, end_addr
  <2> QED
    BY <1>7, <1>8, <2>1 DEF Sees
<1> QED
  BY <1>3, <1>9 DEF View

LEMMA DataInit ==
  ASSUME Init
  PROVE  DataInv
<1>1. BufferOK
  BY BufferInit
<1>2. Alone /\ StagesOK
  BY DEF Init, Alone, StagesOK, dma_in, NoPacket, CellsOK, internal, CoreWrite, NoWrite,
         reads, reads_dccm
<1>3. WordsOK
  BY DEF Init, WordsOK, Word, NoEntry, CoreWrite, NoWrite
<1>4. DataOK
  <2>1. QueueOf(0)
    <3>1. /\ 0 \in 0..DEPTH /\ 0 \in Entries /\ RdPtr = 0 /\ WrPtr = 0
      BY StbufAssumption DEF Init, Entries
    <3>2. WrPtr = (RdPtr + 0) % DEPTH
      BY <3>1, StbufAssumption
    <3>3. \A i \in Entries : ~stbuf[i].data_vld /\ ~(dist(i, RdPtr) < 0)
      <4>1. \A i \in Entries : dist(i, RdPtr) \in Entries
        BY <3>1, Wraps
      <4> QED
        BY <4>1, StbufAssumption DEF Init, NoEntry, Entries
    <3> QED
      BY <3>1, <3>2, <3>3 DEF QueueOf
  <2>2. Ordered(0, 0, 0)
    BY DEF Ordered
  <2>3. ASSUME NEW c \in Cells, NEW b \in Byte
        PROVE  View(c, b, 0, 0)
    <3>1. PICK v : v = [k \in {0} |-> array[c][b]]
      OBVIOUS
    <3>2. Layers(v, c, b, 0)
      BY <3>1 DEF Layers
    <3>3. Sees(v, c, b, 0, 0)
      BY <3>1 DEF Init, Sees, reads, reads_dccm, internal, NoPacket
    <3> QED
      BY <3>2, <3>3 DEF View
  <2> QED
    BY <2>1, <2>2, <2>3 DEF DataOK
<1> QED
  BY <1>1, <1>2, <1>3, <1>4 DEF DataInv

LEMMA DataNext ==
  ASSUME DataInv, Next
  PROVE  DataInv'
<1>1. PICK issued, reqvld, dual, err, freeze, flush_up, flush_lower, flush_dc3, kill :
        /\ PipeStep(issued, reqvld, dual, freeze, flush_up, flush_lower)
        /\ BufferStep(reqvld, dual, err, freeze, flush_dc3, kill)
        /\ DataStep(reqvld, freeze, flush_up, flush_lower, flush_dc3, kill)
  BY NextIsEdge
<1>2. PacketsOK /\ FlagsOK /\ DecidedOnce /\ Alone /\ StagesOK /\ WordsOK
  BY DEF DataInv, BufferOK
<1>3. PICK n, d, e : /\ QueueOf(n) /\ Ordered(n, d, e)
                     /\ \A c \in Cells, b \in Byte : View(c, b, n, d)
  BY DEF DataInv, DataOK
<1>4. Room(n)
  <2>1. PICK q \in 0..DEPTH : QueueOf(q) /\ Room(q)
    BY DEF DataInv, BufferOK
  <2>2. q = n
    BY <1>2, <1>3, <2>1, CountValid DEF PacketsOK
  <2> QED
    BY <2>1, <2>2
<1>5. n + size(reqvld, dual) <= DEPTH
  BY <1>1, <1>2, <1>3, <1>4, WriteFits
<1>6. head.drain_vld \/ head.flush_vld => head.data_vld
  BY <1>2 DEF DecidedOnce, PacketsOK, head
<1>7. PICK m : QueueOf(m)' /\ m = n + size(reqvld, dual) - out(freeze)
  <2>1. n \in 0..DEPTH
    BY <1>3 DEF QueueOf
  <2> QED
    BY <1>1, <1>2, <1>3, <1>5, <1>6, <2>1, QueueStep DEF out
<1>8. \A i \in written(reqvld, dual) : ~stbuf[i].data_vld
  <2> TAKE i \in written(reqvld, dual)
  <2>1. reqvld \in BOOLEAN /\ dual \in BOOLEAN
    BY <1>1 DEF PipeStep
  <2>2. i \in Entries
    BY <1>2, TakenEntries DEF written, PacketsOK
  <2>3. n <= dist(i, RdPtr)
    BY <1>2, <1>3, <1>5, <2>1, <2>2, WrittenEntries
  <2>4. dist(i, RdPtr) \in Int /\ n \in Int
    BY <1>2, <1>3, <2>2, StbufAssumption, Wraps DEF Entries, PacketsOK, QueueOf
  <2> QED
    BY <1>3, <2>2, <2>3, <2>4 DEF QueueOf
<1>9. PICK d2, e2 : /\ d2 = (IF reqvld /\ dc3.dma THEN m ELSE e - out(freeze))
                    /\ e2 = (IF reqvld /\ dc3.dma THEN m ELSE n - out(freeze))
  OBVIOUS
<1>10. Ordered(m, d2, e2)'
  BY <1>1, <1>2, <1>3, <1>5, <1>7, <1>9, OrderedStep
<1>11. \A c \in Cells, b \in Byte : View(c, b, m, d2)'
  BY <1>1, <1>2, <1>3, <1>5, <1>7, <1>9, ViewStep
<1>12. DataOK'
  BY <1>7, <1>10, <1>11 DEF DataOK
<1>13. BufferOK'
  BY BufferNext DEF DataInv
<1>14. Alone'
  BY <1>1, <1>2, AloneStep
<1>15. StagesOK'
  BY <1>1, <1>2, StagesStep DEF WordsOK
<1>16. WordsOK'
  BY <1>1, <1>2, <1>8, WordsStep
<1> QED
  BY <1>12, <1>13, <1>14, <1>15, <1>16 DEF DataInv

LEMMA DataStutter ==
  ASSUME DataInv, UNCHANGED vars
  PROVE  DataInv'
<1>1. UNCHANGED <<dc1, dc2, dc3, dc4, dc5, rd_dc2, rd_dc3, fwd_dc3, stbuf, WrPtr, RdPtr,
                  ld_freeze_dc3, array, mem>>
  BY DEF vars
<1>2. BufferOK'
  BY BufferStutter DEF DataInv
<1>3. Alone'
  BY <1>1 DEF DataInv, Alone, dma_in, core, CoreWrite
<1>4. StagesOK'
  BY <1>1 DEF DataInv, StagesOK, CellsOK, internal, lo, hi, word, end_addr, reads, reads_dccm,
              whole_words, byteen, dma_in, core, CoreWrite
<1>5. WordsOK'
  BY <1>1 DEF DataInv, WordsOK, Word, Filled, CoreWrite
<1>6. PICK n, d, e : /\ QueueOf(n) /\ Ordered(n, d, e)
                     /\ \A c \in Cells, b \in Byte : View(c, b, n, d)
  BY DEF DataInv, DataOK
<1>7. QueueOf(n)' /\ Ordered(n, d, e)'
  BY <1>1, <1>6 DEF QueueOf, Ordered, at, TakenBy, CoreWrite
<1>8. ASSUME NEW c \in Cells, NEW b \in Byte
      PROVE  View(c, b, n, d)'
  <2>1. PICK v : Layers(v, c, b, n) /\ Sees(v, c, b, n, d)
    BY <1>6 DEF View
  <2>2. Layers(v, c, b, n)'
    BY <1>1, <2>1 DEF Layers, at, live, doomed, ofLoad, TakenBy, CoreWrite
  <2>3. Sees(v, c, b, n, d)'
    BY <1>1, <2>1 DEF Sees, reads, reads_dccm, internal, whole_words, lo, hi, word, end_addr,
                      lsu_rdata_lo_dc3, lsu_rdata_hi_dc3
  <2> QED
    BY <2>2, <2>3 DEF View
<1>9. DataOK'
  BY <1>7, <1>8 DEF DataOK
<1> QED
  BY <1>2, <1>3, <1>4, <1>5, <1>9 DEF DataInv

LEMMA DataInvariant == Spec => []DataInv
<1>1. Init => DataInv
  BY DataInit
<1>2. DataInv /\ [Next]_vars => DataInv'
  BY DataNext, DataStutter
<1> QED
  BY <1>1, <1>2, PTL DEF Spec

-----------------------------------------------------------------------------
(* An entry of the queue is decided or not, by its position. *)
LEMMA PositionFlags ==
  ASSUME PacketsOK, DecidedOnce, NEW n, QueueOf(n), NEW d, NEW e, Ordered(n, d, e),
         NEW k \in Entries, NEW i, i = at(k)
  PROVE  /\ i \in Entries
         /\ stbuf[i].data_vld <=> k < n
         /\ stbuf[i].drain_vld => k < d
         /\ k < d => (live(i) <=> stbuf[i].drain_vld)
         /\ i \in TakenBy(dc4) \cup TakenBy(dc5) <=> d <= k /\ k < n
<1>1. /\ n \in Nat /\ n <= DEPTH /\ DEPTH \in Nat /\ d \in 0..n /\ e \in d..n /\ k \in Nat
      /\ RdPtr \in Entries
  BY StbufAssumption DEF QueueOf, Ordered, Entries, PacketsOK
<1>2. i \in Entries /\ dist(i, RdPtr) = k
  BY <1>1, Positions DEF at
<1>3. stbuf[i].data_vld <=> k < n
  BY <1>2 DEF QueueOf
<1>4. i \in TakenBy(dc4) \cup TakenBy(dc5) <=> Waits(stbuf[i])
  BY <1>2 DEF DecidedOnce
<1>5. i \in TakenBy(dc4) \cup TakenBy(dc5) <=> d <= k /\ k < n
  <2>1. CASE k < n
    <3>1. k \in 0..n - 1
      BY <1>1, <2>1
    <3>2. /\ i \in TakenBy(dc5) <=> d <= k /\ k < e
          /\ i \in TakenBy(dc4) <=> e <= k
      BY <3>1 DEF Ordered
    <3> QED
      BY <1>1, <2>1, <3>2
  <2>2. CASE ~(k < n)
    BY <1>3, <1>4, <2>2 DEF Waits
  <2> QED
    BY <2>1, <2>2
<1>6. stbuf[i].drain_vld => k < n /\ ~(d <= k /\ k < n)
  BY <1>2, <1>3, <1>4, <1>5 DEF DecidedOnce, Waits
<1>7. stbuf[i].drain_vld => k < d
  BY <1>1, <1>6
<1>8. k < d => (live(i) <=> stbuf[i].drain_vld)
  <2> SUFFICES ASSUME k < d
               PROVE  live(i) <=> stbuf[i].drain_vld
    OBVIOUS
  <2>1. k < n /\ ~(d <= k)
    BY <1>1
  <2>2. stbuf[i].data_vld /\ i \notin TakenBy(dc5) /\ ~Waits(stbuf[i])
    BY <1>3, <1>4, <1>5, <2>1
  <2> QED
    BY <1>2, <2>2 DEF live, doomed, Waits, DecidedOnce
<1> QED
  BY <1>2, <1>3, <1>5, <1>7, <1>8

(* The DCCM and the PIC, with the entries marked to drain written over them in
   order and as whole words, are the memory the committed stores and the DMA
   left: a partial store that was completed with the bytes it read brings no
   byte back to an older value, whatever was drained, flushed or taken between
   the read and its commit. *)
THEOREM WholeWordsDrain == Spec => []DrainsWholeWords
<1>1. DataInv => DrainsWholeWords
  <2> SUFFICES ASSUME DataInv, NEW c \in Cells
               PROVE  DrainedOver(c) = mem[c]
    BY DEF DrainsWholeWords
  <2>1. PacketsOK /\ DecidedOnce /\ WordsOK
    BY DEF DataInv, BufferOK
  <2>2. PICK n, d, e : /\ QueueOf(n) /\ Ordered(n, d, e)
                       /\ \A x \in Cells, b \in Byte : View(x, b, n, d)
    BY DEF DataInv, DataOK
  <2>3. /\ n \in Nat /\ d \in 0..n /\ d \in 0..DEPTH /\ 0 \in 0..d /\ DEPTH \in Nat
    BY <2>2, StbufAssumption DEF QueueOf, Ordered
  <2>4. PICK D : D = {k \in Entries : stbuf[at(k)].drain_vld /\ stbuf[at(k)].addr = c}
    OBVIOUS
  <2>5. DrainedOver(c) = IF D = {} THEN array[c] ELSE stbuf[at(Max(D))].data
    BY <2>4 DEF DrainedOver, at, Entries
  <2>6. \A k \in D : k \in Entries /\ k \in 0..d - 1
    <3> TAKE k \in D
    <3>1. k \in Entries /\ stbuf[at(k)].drain_vld
      BY <2>4
    <3>2. k < d
      BY <2>1, <2>2, <3>1, PositionFlags
    <3> QED
      BY <2>3, <3>1, <3>2 DEF Entries
  <2>7. ASSUME NEW b \in Byte, NEW v, Layers(v, c, b, n), NEW k \in 0..d - 1
        PROVE  v[k + 1] = IF k \in D THEN stbuf[at(k)].data[b] ELSE v[k]
    <3>1. k \in Entries /\ k \in 0..n - 1 /\ k < d
      BY <2>2, <2>3 DEF QueueOf, Entries
    <3>2. PICK i : i = at(k)
      OBVIOUS
    <3>3. live(i) <=> stbuf[i].drain_vld
      BY <2>1, <2>2, <3>1, <3>2, PositionFlags
    <3>4. k \in D <=> live(i) /\ stbuf[i].addr = c
      BY <2>4, <3>1, <3>2, <3>3
    <3>5. v[k + 1] = IF live(i) /\ stbuf[i].addr = c THEN stbuf[i].data[b] ELSE v[k]
      BY <2>7, <3>1, <3>2 DEF Layers
    <3> QED
      BY <3>2, <3>4, <3>5
  <2>8. CASE D = {}
    <3>1. ASSUME NEW b \in Byte
          PROVE  array[c][b] = mem[c][b]
      <4>1. PICK v : Layers(v, c, b, n) /\ Sees(v, c, b, n, d)
        BY <2>2 DEF View
      <4>2. \A k \in 0..d - 1 : v[k + 1] = v[k]
        BY <2>7, <2>8, <4>1
      <4>3. v[d] = v[0]
        BY <2>3, <4>2, Settled
      <4> QED
        BY <4>1, <4>3 DEF Layers, Sees
    <3>2. array[c] = [b \in Byte |-> array[c][b]] /\ mem[c] = [b \in Byte |-> mem[c][b]]
      BY <2>1 DEF WordsOK, Word
    <3> QED
      BY <2>5, <2>8, <3>1, <3>2
  <2>9. CASE D # {}
    <3>1. PICK k : k = Max(D)
      OBVIOUS
    <3>2. k \in D /\ \A x \in D : x <= k
      BY <2>6, <2>9, <3>1, LastPosition
    <3>3. k \in Entries /\ k \in 0..d - 1 /\ k + 1 \in 0..d
      BY <2>3, <2>6, <3>2
    <3>4. PICK w : w = stbuf[at(k)].data
      OBVIOUS
    <3>5. Word(w)
      <4>1. at(k) \in Entries /\ stbuf[at(k)].drain_vld
        BY <2>1, <2>2, <2>4, <3>2, <3>3, PositionFlags
      <4> QED
        BY <2>1, <3>4, <4>1 DEF DecidedOnce, WordsOK, Filled
    <3>6. ASSUME NEW b \in Byte
          PROVE  w[b] = mem[c][b]
      <4>1. PICK v : Layers(v, c, b, n) /\ Sees(v, c, b, n, d)
        BY <2>2 DEF View
      <4>2. v[k + 1] = w[b]
        BY <2>7, <3>2, <3>3, <3>4, <4>1
      <4>3. \A q \in 0..d - 1 : k + 1 <= q => v[q + 1] = v[q]
        <5> SUFFICES ASSUME NEW q \in 0..d - 1, k + 1 <= q
                     PROVE  q \notin D
          BY <2>7, <4>1
        <5>1. ~(q <= k)
          BY <2>3, <3>3
        <5> QED
          BY <3>2, <5>1
      <4>4. v[d] = v[k + 1]
        BY <2>3, <3>3, <4>3, Settled
      <4> QED
        BY <4>1, <4>2, <4>4 DEF Sees
    <3>7. w = [b \in Byte |-> w[b]] /\ mem[c] = [b \in Byte |-> mem[c][b]]
      BY <2>1, <3>5 DEF WordsOK, Word
    <3>8. w = mem[c]
      BY <3>6, <3>7
    <3> QED
      BY <2>5, <2>9, <3>1, <3>4, <3>8
  <2> QED
    BY <2>8, <2>9
<1> QED
  BY <1>1, DataInvariant, PTL

(* What is behind the last entry, when dc3 reads, is what it must see. *)
LEMMA LastExpected ==
  ASSUME PacketsOK, DecidedOnce, StagesOK, NEW n, QueueOf(n), NEW d, NEW e, Ordered(n, d, e),
         NEW c, NEW b, NEW v, Layers(v, c, b, n), Sees(v, c, b, n, d), dc3.valid
  PROVE  v[n] = Expected(c, b)
<1>1. /\ n \in Nat /\ d \in 0..n /\ n \in 0..DEPTH /\ n <= DEPTH /\ DEPTH \in Nat
  BY StbufAssumption DEF QueueOf, Ordered
<1>2. dc3.dma \in BOOLEAN /\ mem[c][b] = v[d]
  BY DEF PacketsOK, StageOK, NoPacket, Sees
<1>3. PICK E : E = Earlier(c, b)
  OBVIOUS
<1>4. Expected(c, b) = IF dc3.dma \/ E = {} THEN mem[c][b] ELSE stbuf[at(Max(E))].data[b]
  BY <1>3 DEF Expected, at
<1>5. CASE dc3.dma
  <2>1. TakenBy(dc4) = {} /\ TakenBy(dc5) = {}
    BY <1>5 DEF StagesOK, dma_in, TakenBy
  <2>2. d = n
    BY <1>1, <2>1, AllDecided
  <2> QED
    BY <1>2, <1>4, <1>5, <2>2
<1>6. CASE ~dc3.dma
  <2>1. \A i : ~doomed(i)
    BY <1>6 DEF doomed, TakenBy, StagesOK, core
  <2>2. Undecided = TakenBy(dc4) \cup TakenBy(dc5)
    BY DEF Undecided, TakenBy, CoreWrite
  <2>3. E = {k \in Entries : /\ at(k) \in TakenBy(dc4) \cup TakenBy(dc5)
                             /\ stbuf[at(k)].addr = c /\ b \in stbuf[at(k)].byteen}
    BY <1>3, <2>2 DEF Earlier, at, Entries
  <2>4. \A k \in E : k \in Entries /\ k \in d..n - 1
    <3> TAKE k \in E
    <3>1. k \in Entries /\ at(k) \in TakenBy(dc4) \cup TakenBy(dc5)
      BY <2>3
    <3>2. d <= k /\ k < n
      BY <3>1, PositionFlags
    <3> QED
      BY <1>1, <3>1, <3>2 DEF Entries
  <2>5. ASSUME NEW k \in d..n - 1
        PROVE  v[k + 1] = IF k \in E THEN stbuf[at(k)].data[b] ELSE v[k]
    <3>1. k \in Entries /\ k \in 0..n - 1 /\ d <= k /\ k < n
      BY <1>1 DEF Entries
    <3>2. PICK i : i = at(k)
      OBVIOUS
    <3>3. i \in Entries /\ i \in TakenBy(dc4) \cup TakenBy(dc5)
      BY <3>1, <3>2, PositionFlags
    <3>4. live(i)
      <4>1. Waits(stbuf[i])
        BY <3>3 DEF DecidedOnce
      <4> QED
        BY <2>1, <4>1 DEF live, Waits
    <3>5. k \in E <=> stbuf[i].addr = c /\ b \in stbuf[i].byteen
      BY <2>3, <3>1, <3>2, <3>3
    <3>6. /\ v[k + 1] = IF live(i) /\ stbuf[i].addr = c THEN stbuf[i].data[b] ELSE v[k]
          /\ stbuf[i].addr = c /\ b \notin stbuf[i].byteen => v[k + 1] = v[k]
      BY <3>1, <3>2 DEF Layers
    <3> QED
      BY <3>2, <3>4, <3>5, <3>6
  <2>6. CASE E = {}
    <3>1. \A k \in 0..n - 1 : d <= k => v[k + 1] = v[k]
      <4> SUFFICES ASSUME NEW k \in 0..n - 1, d <= k
                   PROVE  v[k + 1] = v[k]
        OBVIOUS
      <4>1. k \in d..n - 1
        BY <1>1
      <4> QED
        BY <2>5, <2>6, <4>1
    <3>2. v[n] = v[d]
      BY <1>1, <3>1, Settled
    <3> QED
      BY <1>2, <1>4, <2>6, <3>2
  <2>7. CASE E # {}
    <3>1. PICK k : k = Max(E)
      OBVIOUS
    <3>2. k \in E /\ \A x \in E : x <= k
      BY <2>4, <2>7, <3>1, LastPosition
    <3>3. k \in d..n - 1 /\ k + 1 \in 0..n
      BY <1>1, <2>4, <3>2
    <3>4. v[k + 1] = stbuf[at(k)].data[b]
      BY <2>5, <3>2, <3>3
    <3>5. ASSUME NEW q \in 0..n - 1, k + 1 <= q
          PROVE  v[q + 1] = v[q]
      <4>1. q \in d..n - 1 /\ ~(q <= k)
        BY <1>1, <3>3, <3>5
      <4>2. q \notin E
        BY <3>2, <4>1
      <4> QED
        BY <2>5, <4>1, <4>2
    <3>6. v[n] = v[k + 1]
      BY <1>1, <3>3, <3>5, Settled
    <3> QED
      BY <1>4, <1>6, <2>7, <3>1, <3>4, <3>6
  <2> QED
    BY <2>6, <2>7
<1> QED
  BY <1>2, <1>5, <1>6

(* A load, and a store that completes its words with bytes it read, has in dc3
   the value of every byte that program order gives it: the word that was read
   in dc1, what the entries forwarded in dc2 and what dc3 forwarded in that same
   cycle make it up, although entries were drained, flushed and taken in
   between; and the DMA sees no store that has not committed. *)
THEOREM ReadsFollowProgramOrder == Spec => []ReadsProgramOrder
<1>1. DataInv => ReadsProgramOrder
  <2> SUFFICES ASSUME DataInv, reads(dc3)
               PROVE  /\ \A b \in Byte : lsu_rdata_lo_dc3[b] = Expected(lo(dc3), b)
                      /\ \A b \in Byte : lsu_rdata_hi_dc3[b] = Expected(hi(dc3), b)
    BY DEF ReadsProgramOrder, reads
  <2>1. PacketsOK /\ DecidedOnce /\ StagesOK
    BY DEF DataInv, BufferOK
  <2>2. PICK n, d, e : /\ QueueOf(n) /\ Ordered(n, d, e)
                       /\ \A c \in Cells, b \in Byte : View(c, b, n, d)
    BY DEF DataInv, DataOK
  <2>3. internal(dc3) /\ dc3.valid /\ lo(dc3) \in Cells /\ hi(dc3) \in Cells
    BY <2>1 DEF reads, reads_dccm, internal, StagesOK, CellsOK
  <2>4. ASSUME NEW c \in {lo(dc3), hi(dc3)}, NEW b \in Byte
        PROVE  /\ c = lo(dc3) => lsu_rdata_lo_dc3[b] = Expected(c, b)
               /\ c = hi(dc3) => lsu_rdata_hi_dc3[b] = Expected(c, b)
    <3>1. PICK v : Layers(v, c, b, n) /\ Sees(v, c, b, n, d)
      BY <2>2, <2>3 DEF View
    <3>2. v[n] = Expected(c, b)
      BY <2>1, <2>2, <2>3, <3>1, LastExpected
    <3> QED
      BY <3>1, <3>2 DEF Sees
  <2> QED
    BY <2>4
<1> QED
  BY <1>1, DataInvariant, PTL
=============================================================================
