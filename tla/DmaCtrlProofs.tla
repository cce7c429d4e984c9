--------------------------- MODULE DmaCtrlProofs ---------------------------
(***************************************************************************)
(* The DMA controller implements its queue (DmaQueue), for 2, 4 or 8 slots, *)
(* every set of requests, patience of decode and delay of the core.         *)
(***************************************************************************)
EXTENDS DmaCtrl, FiniteSetTheorems, FunctionTheorems, SequenceTheorems, TLAPS

-----------------------------------------------------------------------------
(* The inductive invariant.                                                  *)

Ids == 0..DMA_BUF_DEPTH + 1
EntrySet ==
  [valid : BOOLEAN, id : Ids, write : BOOLEAN, dbg : BOOLEAN, mem : Memories, error : BOOLEAN,
   data_valid : BOOLEAN, data : Ids, rpend : BOOLEAN, done : BOOLEAN, done_bus : BOOLEAN]

DmaTypeOK ==
  /\ fifo \in [Slots -> EntrySet]
  /\ {wrp, rdp, rsp} \subseteq Slots /\ rdp_q \in Slots \X Slots \X Slots
  /\ dccm_reads \in Ids \X Ids \X Ids /\ iccm_reads \in Ids \X Ids
  /\ wrbuf \subseteq Memories /\ rdbuf \subseteq Memories
  /\ {wrbuf_data_vld, axi_mstr_priority, full_bus, bubble_bus} \subseteq BOOLEAN
  /\ dbg \in {"idle", "start", "wait"}

(* The queue is in the slots from RspPtr on: n requests, of which the first m have
   had their turn, and a slot is free if the bus was told so. *)
turned(e) == e.rpend \/ e.done
place(i) == (i - rsp) % DMA_BUF_DEPTH
QueueOf(n, m) ==
  /\ wrp = (rsp + n) % DMA_BUF_DEPTH /\ rdp = (rsp + m) % DMA_BUF_DEPTH
  /\ \A i \in Slots : /\ fifo[i].valid <=> place(i) < n
                      /\ turned(fifo[i]) <=> place(i) < m
  /\ ~full_bus => n < DMA_BUF_DEPTH
Ring == \E n \in 0..DMA_BUF_DEPTH : \E m \in 0..n : QueueOf(n, m)

(* An entry: what it still waits for, and what is in it when it does not. *)
EntryOK(e) ==
  /\ ~e.valid => e = Empty
  /\ e.valid => e.id \in DmaIds
  /\ e.rpend => ~e.write /\ ~e.error
  /\ e.write => e.data_valid
  /\ e.done_bus => e.done
  /\ ~e.write /\ ~e.error /\ (e.done \/ e.data_valid) => e.rpend /\ e.data = e.id
Entries ==
  /\ \A i \in Slots : EntryOK(fifo[i])
  /\ \A i, j \in Slots : fifo[i].valid /\ fifo[j].valid /\ i # j => fifo[i].id # fifo[j].id

(* A read in the memories has a slot of its own, which waits for it. *)
Awaits(e, id) == e.valid /\ e.id = id /\ e.rpend /\ ~e.done /\ ~e.data_valid
away(k) == dccm_reads[k] # 0 \/ (k # 3 /\ iccm_reads[k] # 0)
Reading ==
  /\ \A k \in 1..3 : dccm_reads[k] # 0 => Awaits(fifo[rdp_q[k]], dccm_reads[k])
  /\ \A k \in 1..2 : iccm_reads[k] # 0 => Awaits(fifo[rdp_q[k]], iccm_reads[k]) /\ dccm_reads[k] = 0
  /\ \A k, l \in 1..3 : k # l /\ away(k) /\ away(l) => rdp_q[k] # rdp_q[l]

(* The one access of the debug module is in the queue while it waits. *)
DebugAlone ==
  \A i \in Slots : fifo[i].dbg => dbg = "wait" /\ \A j \in Slots \ {i} : ~fifo[j].dbg

DmaInv == DmaTypeOK /\ Ring /\ Entries /\ Reading /\ DebugAlone

-----------------------------------------------------------------------------
(* Slots and their places.                                                   *)

LEMMA Depth ==
  /\ DMA_BUF_DEPTH \in Nat /\ DMA_BUF_DEPTH >= 2 /\ DMA_BUF_DEPTH <= 8
  /\ IsFiniteSet(Slots) /\ Cardinality(Slots) = DMA_BUF_DEPTH
<1>1. DMA_BUF_DEPTH \in Nat /\ DMA_BUF_DEPTH >= 2 /\ DMA_BUF_DEPTH <= 8
  BY DmaAssumption
<1>2. IsFiniteSet(0..DMA_BUF_DEPTH - 1)
      /\ Cardinality(0..DMA_BUF_DEPTH - 1) =
           IF 0 > DMA_BUF_DEPTH - 1 THEN 0 ELSE DMA_BUF_DEPTH - 1 - 0 + 1
  BY <1>1, FS_Interval
<1> QED
  BY <1>1, <1>2 DEF Slots

(* The pointers wrap at a power of two of slots. *)
LEMMA Wraps ==
  /\ \A i, r \in Slots :
       (i - r) % DMA_BUF_DEPTH = (IF i >= r THEN i - r ELSE i - r + DMA_BUF_DEPTH)
  /\ \A r \in Slots, k \in 0..DMA_BUF_DEPTH :
       (r + k) % DMA_BUF_DEPTH = IF r + k < DMA_BUF_DEPTH THEN r + k ELSE r + k - DMA_BUF_DEPTH
BY DmaAssumption DEF Slots

(* The k-th slot from r on. *)
nth(r, k) == (r + k) % DMA_BUF_DEPTH

LEMMA Nth ==
  ASSUME NEW r \in Slots, NEW k \in 0..DMA_BUF_DEPTH
  PROVE  /\ nth(r, k) \in Slots
         /\ (nth(r, k) - r) % DMA_BUF_DEPTH = IF k = DMA_BUF_DEPTH THEN 0 ELSE k
         /\ After(r) = nth(r, 1) /\ After(r) \in Slots
         /\ k < DMA_BUF_DEPTH => After(nth(r, k)) = nth(r, k + 1)
         /\ k > 0 => nth(After(r), k - 1) = nth(r, k)
<1>1. DMA_BUF_DEPTH \in Nat /\ DMA_BUF_DEPTH >= 2
  BY Depth
<1>2. r \in Int /\ 0 <= r /\ r < DMA_BUF_DEPTH /\ k \in Int /\ 0 <= k /\ k <= DMA_BUF_DEPTH
  BY <1>1 DEF Slots
<1>3. \A l \in 0..DMA_BUF_DEPTH :
        nth(r, l) = IF r + l < DMA_BUF_DEPTH THEN r + l ELSE r + l - DMA_BUF_DEPTH
  BY Wraps DEF nth
<1>4. \A l \in 0..DMA_BUF_DEPTH : nth(r, l) \in Slots
  BY <1>1, <1>2, <1>3 DEF Slots
<1>5. (nth(r, k) - r) % DMA_BUF_DEPTH = IF nth(r, k) >= r THEN nth(r, k) - r ELSE nth(r, k) - r + DMA_BUF_DEPTH
  BY <1>4, Wraps
<1>6. (nth(r, k) - r) % DMA_BUF_DEPTH = IF k = DMA_BUF_DEPTH THEN 0 ELSE k
  <2> DEFINE x == nth(r, k)
             d == (x - r) % DMA_BUF_DEPTH
  <2>1. x = IF r + k < DMA_BUF_DEPTH THEN r + k ELSE r + k - DMA_BUF_DEPTH
    BY <1>3
  <2>2. d = IF x >= r THEN x - r ELSE x - r + DMA_BUF_DEPTH
    BY <1>5
  <2> HIDE DEF x, d
  <2>3. d = IF k = DMA_BUF_DEPTH THEN 0 ELSE k
    BY <1>1, <1>2, <2>1, <2>2
  <2> QED
    BY <2>3 DEF d, x
<1>7. \A q \in Slots : After(q) = nth(q, 1)
  BY DEF After, nth
<1>8. \A q \in Slots : \A l \in 0..DMA_BUF_DEPTH :
        nth(q, l) = IF q + l < DMA_BUF_DEPTH THEN q + l ELSE q + l - DMA_BUF_DEPTH
  BY Wraps DEF nth
<1>9. After(r) = nth(r, 1) /\ After(r) \in Slots
  BY <1>1, <1>4, <1>7
<1>10. ASSUME k < DMA_BUF_DEPTH PROVE After(nth(r, k)) = nth(r, k + 1)
  <2>1. PICK q \in Slots : q = nth(r, k)
    BY <1>4
  <2>2. nth(q, 1) = IF q + 1 < DMA_BUF_DEPTH THEN q + 1 ELSE q + 1 - DMA_BUF_DEPTH
    BY <1>1, <1>8
  <2>3. q = IF r + k < DMA_BUF_DEPTH THEN r + k ELSE r + k - DMA_BUF_DEPTH
    BY <1>3, <2>1
  <2>4. nth(r, k + 1) = IF r + (k + 1) < DMA_BUF_DEPTH THEN r + (k + 1) ELSE r + (k + 1) - DMA_BUF_DEPTH
    BY <1>1, <1>2, <1>3, <1>10
  <2>5. nth(q, 1) = nth(r, k + 1)
    BY <1>1, <1>2, <1>10, <2>2, <2>3, <2>4
  <2> QED
    BY <1>7, <2>1, <2>5
<1>11. ASSUME k > 0 PROVE nth(After(r), k - 1) = nth(r, k)
  <2>1. PICK q \in Slots : q = After(r)
    BY <1>9
  <2>2. q = IF r + 1 < DMA_BUF_DEPTH THEN r + 1 ELSE r + 1 - DMA_BUF_DEPTH
    BY <1>1, <1>3, <1>9, <2>1
  <2>3. nth(q, k - 1) = IF q + (k - 1) < DMA_BUF_DEPTH THEN q + (k - 1) ELSE q + (k - 1) - DMA_BUF_DEPTH
    BY <1>1, <1>2, <1>8, <1>11
  <2>4. nth(r, k) = IF r + k < DMA_BUF_DEPTH THEN r + k ELSE r + k - DMA_BUF_DEPTH
    BY <1>3
  <2>5. nth(q, k - 1) = nth(r, k)
    BY <1>1, <1>2, <1>11, <2>2, <2>3, <2>4
  <2> QED
    BY <2>1, <2>5
<1> QED
  BY <1>4, <1>6, <1>9, <1>10, <1>11

(* A slot has a place from r on, and every place its slot. *)
LEMMA Place ==
  ASSUME NEW r \in Slots, NEW i \in Slots
  PROVE  /\ (i - r) % DMA_BUF_DEPTH \in Slots
         /\ nth(r, (i - r) % DMA_BUF_DEPTH) = i
         /\ (i - After(r)) % DMA_BUF_DEPTH =
              IF i = r THEN DMA_BUF_DEPTH - 1 ELSE ((i - r) % DMA_BUF_DEPTH) - 1
         /\ i = r <=> (i - r) % DMA_BUF_DEPTH = 0
<1>1. DMA_BUF_DEPTH \in Nat /\ DMA_BUF_DEPTH >= 2
  BY Depth
<1>2. r \in Int /\ 0 <= r /\ r < DMA_BUF_DEPTH /\ i \in Int /\ 0 <= i /\ i < DMA_BUF_DEPTH
  BY <1>1 DEF Slots
<1> DEFINE d == (i - r) % DMA_BUF_DEPTH
<1>3. d = IF i >= r THEN i - r ELSE i - r + DMA_BUF_DEPTH
  BY Wraps
<1> HIDE DEF d
<1>4. d \in 0..DMA_BUF_DEPTH - 1 /\ (i = r <=> d = 0)
  BY <1>1, <1>2, <1>3
<1>5. nth(r, d) = i
  <2>1. nth(r, d) = IF r + d < DMA_BUF_DEPTH THEN r + d ELSE r + d - DMA_BUF_DEPTH
    BY <1>1, <1>4, Wraps DEF nth
  <2> QED
    BY <1>1, <1>2, <1>3, <1>4, <2>1
<1>6. PICK q \in Slots : q = After(r)
  BY <1>1, Nth
<1>7. q = IF r + 1 < DMA_BUF_DEPTH THEN r + 1 ELSE r + 1 - DMA_BUF_DEPTH
  BY <1>1, <1>6, Wraps DEF After
<1>8. (i - q) % DMA_BUF_DEPTH = IF i >= q THEN i - q ELSE i - q + DMA_BUF_DEPTH
  BY Wraps
<1>9. (i - q) % DMA_BUF_DEPTH = IF i = r THEN DMA_BUF_DEPTH - 1 ELSE d - 1
  <2> DEFINE x == (i - q) % DMA_BUF_DEPTH
  <2>1. x = IF i >= q THEN i - q ELSE i - q + DMA_BUF_DEPTH
    BY <1>8
  <2> HIDE DEF x
  <2>2. x = IF i = r THEN DMA_BUF_DEPTH - 1 ELSE d - 1
    BY <1>1, <1>2, <1>3, <1>7, <2>1
  <2> QED
    BY <2>2 DEF x
<1> QED
  BY <1>4, <1>5, <1>6, <1>9 DEF d, Slots

(* The number of slots with a place below c is c. *)
LEMMA CountSlots ==
  ASSUME NEW r \in Slots, NEW c \in 0..DMA_BUF_DEPTH
  PROVE  Cardinality({i \in Slots : (i - r) % DMA_BUF_DEPTH < c}) = c
<1> DEFINE S == {i \in Slots : (i - r) % DMA_BUF_DEPTH < c}
           F == [k \in 1..c |-> nth(r, k - 1)]
<1>1. DMA_BUF_DEPTH \in Nat /\ c \in Nat /\ c <= DMA_BUF_DEPTH
  BY Depth
<1>2. \A k \in 1..c : F[k] \in Slots /\ (F[k] - r) % DMA_BUF_DEPTH = k - 1
  <2> TAKE k \in 1..c
  <2>1. k - 1 \in 0..DMA_BUF_DEPTH /\ k - 1 # DMA_BUF_DEPTH
    BY <1>1
  <2>2. nth(r, k - 1) \in Slots /\ (nth(r, k - 1) - r) % DMA_BUF_DEPTH = k - 1
    BY <2>1, Nth
  <2> QED
    BY <2>2
<1>3. F \in [1..c -> S]
  <2>1. \A k \in 1..c : F[k] \in S
    <3> HIDE DEF F
    <3> QED
      BY <1>1, <1>2
  <2> QED
    BY <2>1 DEF F
<1> HIDE DEF F
<1>4. \A a, b \in 1..c : F[a] = F[b] => a = b
  BY <1>1, <1>2
<1>5. \A i \in S : \E k \in 1..c : F[k] = i
  <2> TAKE i \in S
  <2> DEFINE d == (i - r) % DMA_BUF_DEPTH
  <2>1. d \in Slots /\ nth(r, d) = i /\ d < c
    BY Place
  <2> HIDE DEF d
  <2>2. d + 1 \in 1..c /\ (d + 1) - 1 = d
    BY <1>1, <2>1 DEF Slots
  <2>3. F[d + 1] = i
    BY <2>1, <2>2 DEF F
  <2> QED
    BY <2>2, <2>3
<1>6. F \in Bijection(1..c, S)
  BY <1>3, <1>4, <1>5, Fun_IsBij
<1>7. Cardinality(S) = c
  BY <1>1, <1>6, FS_CountingElements DEF ExistsBijection
<1> QED
  BY <1>7

-----------------------------------------------------------------------------
(* A clock, with the inputs DmaNext gives it.                                *)

Clock(bus, ready, sent, new) ==
  /\ {bus, ready, sent} \subseteq BOOLEAN /\ (sent => axi_slv_valid)
  /\ ~ready => dbg = "idle"
  /\ dbg_cmd_valid => new \in DbgCommands
  /\ QueueEdge(bus, ready, sent, new) /\ MemoryEdge(ready) /\ Observed(bus, ready, sent)
  /\ BusEdge(bus, sent) /\ DebugEdge

LEMMA NextIsClock ==
  ASSUME DmaNext
  PROVE  \E bus, ready, sent, new : Clock(bus, ready, sent, new)
<1>1. PICK bus \in BOOLEAN, ready \in ReadyInputs, sent \in BOOLEAN :
        (sent => axi_slv_valid) /\ DmaClock(bus, ready, sent)
  BY DEF DmaNext
<1>2. ready \in BOOLEAN /\ (~ready => dbg = "idle")
  <2>1. CASE dbg # "idle"
    BY <2>1 DEF ReadyInputs
  <2>2. CASE dbg = "idle"
    <3>1. ReadyInputs = {TRUE} \/ ReadyInputs = BOOLEAN
      BY DEF ReadyInputs
    <3> QED
      BY <2>2, <3>1
  <2> QED
    BY <2>1, <2>2
<1>3. PICK new : (dbg_cmd_valid => new \in DbgCommands) /\ QueueEdge(bus, ready, sent, new)
  <2>1. CASE dbg_cmd_valid
    BY <1>1, <2>1 DEF DmaClock
  <2>2. CASE ~dbg_cmd_valid
    BY <1>1, <2>2 DEF DmaClock
  <2> QED
    BY <2>1, <2>2
<1>4. MemoryEdge(ready) /\ Observed(bus, ready, sent) /\ BusEdge(bus, sent) /\ DebugEdge
  BY <1>1 DEF DmaClock
<1>5. {bus, ready, sent} \subseteq BOOLEAN /\ (sent => axi_slv_valid)
  BY <1>1, <1>2
<1> QED
  BY <1>2, <1>3, <1>4, <1>5 DEF Clock

(* What comes in, and whose turn it is. *)
taken(bus) == (axi_mstr_valid /\ bus) \/ dbg_cmd_valid
comes(bus, new) ==
  IF axi_mstr_valid /\ bus THEN NewEntry(axi_mstr_sel, FALSE, axi_mstr_addr)
                           ELSE NewEntry(new.write, TRUE, new.mem)
turn(ready) == dma_req(ready) \/ (fifo[rdp].error /\ ~fifo[rdp].done)

-----------------------------------------------------------------------------
(* The number of a new request.                                              *)

LEMMA LeastId ==
  ASSUME NEW S, S \subseteq DmaIds, S # {}
  PROVE  \E x \in S : \A y \in S : x <= y
<1>1. S \subseteq 1..9
  BY Depth DEF DmaIds
<1>2. CASE 1 \in S
  BY <1>1, <1>2
<1>3. CASE 1 \notin S /\ 2 \in S
  BY <1>1, <1>3
<1>4. CASE S \cap 1..2 = {} /\ 3 \in S
  BY <1>1, <1>4
<1>5. CASE S \cap 1..3 = {} /\ 4 \in S
  BY <1>1, <1>5
<1>6. CASE S \cap 1..4 = {} /\ 5 \in S
  BY <1>1, <1>6
<1>7. CASE S \cap 1..5 = {} /\ 6 \in S
  BY <1>1, <1>7
<1>8. CASE S \cap 1..6 = {} /\ 7 \in S
  BY <1>1, <1>8
<1>9. CASE S \cap 1..7 = {} /\ 8 \in S
  BY <1>1, <1>9
<1>10. CASE S \cap 1..8 = {}
  <2>1. PICK x \in S : TRUE
    OBVIOUS
  <2>2. \A y \in S : y = 9
    BY <1>1, <1>10
  <2> QED
    BY <2>1, <2>2
<1> QED
  BY <1>1, <1>2, <1>3, <1>4, <1>5, <1>6, <1>7, <1>8, <1>9, <1>10

(* There is one more number than there are slots. *)
LEMMA NewIdIsFree == NewId \in DmaIds /\ \A i \in Slots : fifo[i].valid => fifo[i].id # NewId
<1> DEFINE free(n) == \A i \in Slots : fifo[i].valid => fifo[i].id # n
           S == {n \in DmaIds : free(n)}
<1>1. S # {}
  <2> SUFFICES ASSUME S = {} PROVE FALSE
    OBVIOUS
  <2>1. \A n \in DmaIds : \E i \in Slots : fifo[i].id = n
    OBVIOUS
  <2> DEFINE f == [n \in DmaIds |-> CHOOSE i \in Slots : fifo[i].id = n]
  <2>2. f \in [DmaIds -> Slots] /\ \A n \in DmaIds : fifo[f[n]].id = n
    BY <2>1
  <2> HIDE DEF f, S
  <2>3. IsFiniteSet(DmaIds) /\ Cardinality(DmaIds) = DMA_BUF_DEPTH + 1
    <3>1. IsFiniteSet(1..DMA_BUF_DEPTH + 1)
          /\ Cardinality(1..DMA_BUF_DEPTH + 1) =
               IF 1 > DMA_BUF_DEPTH + 1 THEN 0 ELSE DMA_BUF_DEPTH + 1 - 1 + 1
      BY Depth, FS_Interval
    <3> QED
      BY <3>1, Depth DEF DmaIds
  <2>4. Cardinality(Slots) < Cardinality(DmaIds)
    BY <2>3, Depth
  <2>5. \E x, y \in DmaIds : x # y /\ f[x] = f[y]
    BY <2>2, <2>3, <2>4, Depth, FS_PigeonHole
  <2> QED
    BY <2>2, <2>5
<1>2. \E x \in S : \A y \in S : x <= y
  <2>1. S \subseteq DmaIds
    OBVIOUS
  <2> HIDE DEF S
  <2> QED
    BY <1>1, <2>1, LeastId
<1>3. \E n \in DmaIds : free(n) /\ \A k \in DmaIds : free(k) => n <= k
  BY <1>2
<1>4. NewId = CHOOSE n \in DmaIds : free(n) /\ \A k \in DmaIds : free(k) => n <= k
  BY DEF NewId
<1> HIDE DEF free
<1>5. NewId \in DmaIds /\ free(NewId)
  BY <1>3, <1>4
<1> QED
  BY <1>5 DEF free

-----------------------------------------------------------------------------
(* What the state says of the inputs and outputs of a clock.                 *)

EmptyFields ==
  /\ Empty.valid = FALSE /\ Empty.dbg = FALSE /\ Empty.error = FALSE /\ Empty.rpend = FALSE
  /\ Empty.done = FALSE /\ Empty.done_bus = FALSE /\ Empty.data_valid = FALSE /\ Empty.write = FALSE

LEMMA EmptyIsEntry == EmptyFields /\ Empty \in EntrySet
  BY Depth DEF Empty, EmptyFields, EntrySet, Ids, Memories

LEMMA Typed ==
  ASSUME DmaTypeOK
  PROVE  /\ \A i \in Slots : fifo[i] \in EntrySet
         /\ wrp \in Slots /\ rdp \in Slots /\ rsp \in Slots
         /\ \A k \in 1..3 : rdp_q[k] \in Slots /\ dccm_reads[k] \in Ids
         /\ \A k \in 1..2 : iccm_reads[k] \in Ids
  BY DEF DmaTypeOK

(* A slot has a place, which says how far its request is. *)
LEMMA Places ==
  ASSUME DmaTypeOK, NEW n \in 0..DMA_BUF_DEPTH, NEW m \in 0..n, QueueOf(n, m)
  PROVE  /\ \A i \in Slots : /\ place(i) \in 0..DMA_BUF_DEPTH - 1 /\ nth(rsp, place(i)) = i
                             /\ fifo[i].valid <=> place(i) < n
                             /\ turned(fifo[i]) <=> place(i) < m
         /\ place(rsp) = 0
         /\ n < DMA_BUF_DEPTH => place(wrp) = n
         /\ m < DMA_BUF_DEPTH => place(rdp) = m
         /\ m = DMA_BUF_DEPTH => rdp = rsp
<1>1. rsp \in Slots /\ wrp \in Slots /\ rdp \in Slots
  BY Typed
<1>2. \A i \in Slots : place(i) \in Slots /\ nth(rsp, place(i)) = i
  BY <1>1, Place DEF place
<1>3. place(rsp) = 0
  BY <1>1, Place DEF place
<1>4. DMA_BUF_DEPTH \in Nat /\ n \in Nat /\ n <= DMA_BUF_DEPTH /\ m \in Nat /\ m <= n
  BY Depth
<1>5. wrp = nth(rsp, n) /\ rdp = nth(rsp, m)
  BY DEF QueueOf, nth
<1>6. /\ n < DMA_BUF_DEPTH => place(wrp) = n
      /\ m < DMA_BUF_DEPTH => place(rdp) = m
  <2>1. \A k \in 0..DMA_BUF_DEPTH : k < DMA_BUF_DEPTH => (nth(rsp, k) - rsp) % DMA_BUF_DEPTH = k
    <3> TAKE k \in 0..DMA_BUF_DEPTH
    <3> DEFINE d == (nth(rsp, k) - rsp) % DMA_BUF_DEPTH
    <3>1. d = IF k = DMA_BUF_DEPTH THEN 0 ELSE k
      BY <1>1, Nth
    <3> HIDE DEF d
    <3>2. k < DMA_BUF_DEPTH => d = k
      BY <1>4, <3>1
    <3> QED
      BY <3>2 DEF d
  <2> QED
    BY <1>4, <1>5, <2>1 DEF place
<1>7. m = DMA_BUF_DEPTH => rdp = rsp
  <2>1. nth(rsp, DMA_BUF_DEPTH) = rsp
    <3>1. rsp \in Int /\ 0 <= rsp /\ rsp < DMA_BUF_DEPTH
      BY <1>1, <1>4 DEF Slots
    <3>2. nth(rsp, DMA_BUF_DEPTH) = IF rsp + DMA_BUF_DEPTH < DMA_BUF_DEPTH THEN rsp + DMA_BUF_DEPTH
                                    ELSE rsp + DMA_BUF_DEPTH - DMA_BUF_DEPTH
      BY <1>1, <1>4, Wraps DEF nth
    <3> QED
      BY <1>4, <3>1, <3>2
  <2> QED
    BY <1>5, <2>1
<1>8. \A i \in Slots : /\ fifo[i].valid <=> place(i) < n
                       /\ turned(fifo[i]) <=> place(i) < m
  BY DEF QueueOf
<1> QED
  BY <1>2, <1>3, <1>6, <1>7, <1>8 DEF Slots

(* A request is taken into a free slot. *)
LEMMA TakenIsFree ==
  ASSUME DmaInv, NEW n \in 0..DMA_BUF_DEPTH, NEW m \in 0..n, QueueOf(n, m), NEW bus, taken(bus)
  PROVE  /\ n < DMA_BUF_DEPTH /\ place(wrp) = n /\ ~fifo[wrp].valid
         /\ axi_mstr_valid => ~dbg_cmd_valid
         /\ dbg_cmd_valid => n = 0 /\ slots_taken = {}
<1>1. DmaTypeOK /\ DMA_BUF_DEPTH \in Nat /\ DMA_BUF_DEPTH >= 2 /\ rsp \in Slots /\ wrp \in Slots
  BY Depth, Typed DEF DmaInv
<1>2. dbg_cmd_valid => slots_taken = {} /\ ~axi_mstr_valid
  BY DEF dbg_cmd_valid, dma_dbg_ready, fifo_empty
<1>3. dbg_cmd_valid => n = 0
  <2>1. slots_taken = {} => ~fifo[rsp].valid
    BY <1>1 DEF slots_taken
  <2> QED
    BY <1>1, <1>2, <2>1, Places
<1>4. axi_mstr_valid => ~full_bus
  BY DEF axi_mstr_valid, dma_fifo_ready
<1>5. n < DMA_BUF_DEPTH
  BY <1>1, <1>3, <1>4 DEF taken, QueueOf
<1>6. place(wrp) = n /\ ~fifo[wrp].valid
  BY <1>1, <1>5, Places
<1> QED
  BY <1>2, <1>3, <1>5, <1>6

(* The request whose turn it is is the first that has not had it. *)
LEMMA TurnIsFirst ==
  ASSUME DmaInv, NEW n \in 0..DMA_BUF_DEPTH, NEW m \in 0..n, QueueOf(n, m), NEW ready, turn(ready)
  PROVE  m < n /\ place(rdp) = m /\ fifo[rdp].valid /\ ~turned(fifo[rdp])
<1>1. DmaTypeOK /\ DMA_BUF_DEPTH \in Nat /\ DMA_BUF_DEPTH >= 2 /\ rsp \in Slots /\ rdp \in Slots
  BY Depth, Typed DEF DmaInv
<1>2. fifo[rdp].valid /\ ~turned(fifo[rdp])
  <2>1. EntryOK(fifo[rdp])
    BY <1>1 DEF DmaInv, Entries
  <2>2. CASE dma_req(ready)
    BY <2>2 DEF dma_req, dma_mem_req, turned
  <2>3. CASE fifo[rdp].error /\ ~fifo[rdp].done
    BY <2>1, <2>3, EmptyIsEntry DEF EntryOK, EmptyFields, turned
  <2> QED
    BY <2>2, <2>3 DEF turn
<1>3. ~(place(rdp) < m)
  BY <1>1, <1>2, Places
<1>4. m < DMA_BUF_DEPTH
  <2>1. m = DMA_BUF_DEPTH => place(rdp) = 0
    BY <1>1, Places
  <2> QED
    BY <1>1, <1>3, <2>1
<1>5. place(rdp) = m
  BY <1>1, <1>4, Places
<1> QED
  BY <1>1, <1>2, <1>5, Places

(* Data come back for a read that waits for them, and are its own. *)
LEMMA DataIsForReads ==
  ASSUME DmaTypeOK, Reading, NEW i \in Slots, dma_rvalid(i)
  PROVE  /\ fifo[i].valid /\ fifo[i].rpend /\ ~fifo[i].done /\ ~fifo[i].data_valid
         /\ dma_rdata(i) = fifo[i].id
<1>1. CASE dccm_reads[3] # 0 /\ i = rdp_q[3]
  BY <1>1 DEF Reading, Awaits, dma_rdata
<1>2. CASE iccm_reads[2] # 0 /\ i = rdp_q[2]
  <2>1. Awaits(fifo[i], iccm_reads[2])
    BY <1>2 DEF Reading
  <2>2. ~(dccm_reads[3] # 0 /\ i = rdp_q[3])
    BY <1>2 DEF Reading, away
  <2> QED
    BY <2>1, <2>2 DEF Awaits, dma_rdata
<1> QED
  BY <1>1, <1>2 DEF dma_rvalid

(* An answer is given to the oldest request, which has had its turn, at the latest in
   this clock, and has its data. *)
LEMMA AnswerIsDue ==
  ASSUME DmaInv, NEW n \in 0..DMA_BUF_DEPTH, NEW m \in 0..n, QueueOf(n, m),
         NEW bus, NEW ready, NEW sent, NEW new, Clock(bus, ready, sent, new), Answer(bus, sent)
  PROVE  /\ fifo[rsp].valid /\ n > 0
         /\ m > 0 \/ turn(ready)
         /\ ~fifo[rsp].write /\ ~fifo[rsp].error => fifo[rsp].rpend /\ fifo[rsp].data = fifo[rsp].id
         /\ ~(fifo[rsp].rpend /\ ~fifo[rsp].done /\ ~fifo[rsp].data_valid)
         /\ fifo[rsp].dbg => dma_dbg_cmd_done
<1>1. /\ DmaTypeOK /\ DMA_BUF_DEPTH \in Nat /\ rsp \in Slots /\ fifo[rsp] \in EntrySet
      /\ EntryOK(fifo[rsp])
  BY Depth, Typed DEF DmaInv, Entries
<1>2. axi_slv_valid \/ dma_dbg_cmd_done
  BY DEF Clock, Answer
<1>3. fifo[rsp].valid
  BY <1>2 DEF axi_slv_valid, dma_dbg_cmd_done
<1>4. n > 0
  BY <1>1, <1>3, Places
<1>5. turned(fifo[rsp]) => m > 0
  BY <1>1, Places
<1>6. CASE axi_slv_valid
  <2>1. fifo[rsp].done /\ ~fifo[rsp].dbg
    BY <1>1, <1>6 DEF axi_slv_valid, EntryOK
  <2> QED
    BY <1>1, <1>3, <1>4, <1>5, <2>1 DEF EntryOK, turned
<1>7. CASE dma_dbg_cmd_done
  <2>1. fifo[rsp].dbg /\ (fifo[rsp].write \/ fifo[rsp].data_valid \/ fifo[rsp].error)
    BY <1>7 DEF dma_dbg_cmd_done
  <2>2. dbg = "wait"
    BY <1>1, <2>1 DEF DmaInv, DebugAlone
  <2>3. ready
    BY <2>2 DEF Clock
  <2>4. turned(fifo[rsp]) \/ turn(ready)
    <3>1. CASE fifo[rsp].write \/ fifo[rsp].error
      <4> SUFFICES ASSUME ~turned(fifo[rsp]) PROVE turn(ready)
        OBVIOUS
      <4>1. rdp = rsp
        <5>1. m = 0
          <6>1. ~(place(rsp) < m) /\ place(rsp) = 0
            BY <1>1, Places
          <6> QED
            BY <6>1
        <5>2. place(rdp) = 0 /\ nth(rsp, place(rdp)) = rdp /\ nth(rsp, place(rsp)) = rsp /\ place(rsp) = 0
          BY <1>1, <1>4, <5>1, Typed, Places
        <5> QED
          BY <5>2
      <4>2. CASE fifo[rsp].error
        BY <4>1, <4>2 DEF turn, turned
      <4>3. CASE fifo[rsp].write /\ ~fifo[rsp].error
        <5>1. dma_mem_req
          BY <1>1, <1>3, <4>1, <4>3 DEF dma_mem_req, turned, EntryOK
        <5> QED
          BY <2>3, <5>1 DEF turn, dma_req
      <4> QED
        BY <3>1, <4>2, <4>3
    <3>2. CASE ~fifo[rsp].write /\ ~fifo[rsp].error
      BY <1>1, <2>1, <3>2 DEF EntryOK, turned
    <3> QED
      BY <3>1, <3>2
  <2> QED
    BY <1>1, <1>3, <1>4, <1>5, <1>7, <2>1, <2>4 DEF EntryOK
<1> QED
  BY <1>2, <1>6, <1>7

-----------------------------------------------------------------------------
(* What a clock does to an entry.                                            *)

(* An entry that stays: its turn, and data that come back. *)
Kept(f, i, ready) ==
  /\ f \in EntrySet /\ f.valid
  /\ f.id = fifo[i].id /\ f.write = fifo[i].write /\ f.dbg = fifo[i].dbg /\ f.error = fifo[i].error
  /\ f.data_valid <=> fifo[i].data_valid \/ dma_rvalid(i)
  /\ f.data = IF dma_rvalid(i) THEN fifo[i].id ELSE fifo[i].data
  /\ f.rpend <=> fifo[i].rpend \/ (i = rdp /\ dma_req(ready) /\ ~fifo[i].write)
  /\ f.done <=> fifo[i].done \/ fifo_done_en(i, ready)
  /\ f.done_bus => f.done

(* One that has just come. *)
Fresh(f) ==
  /\ f \in EntrySet /\ f.valid /\ f.id = NewId
  /\ ~f.rpend /\ ~f.done /\ ~f.done_bus
  /\ f.write => f.data_valid
  /\ ~f.write /\ ~f.error => ~f.data_valid

LEMMA NewEntryIsFresh ==
  ASSUME NEW write \in BOOLEAN, NEW is_dbg \in BOOLEAN, NEW mem \in Memories
  PROVE  Fresh(NewEntry(write, is_dbg, mem)) /\ NewEntry(write, is_dbg, mem).dbg = is_dbg
<1>1. NewId \in Ids
  BY NewIdIsFree, Depth DEF DmaIds, Ids
<1>2. Empty \in EntrySet /\ Empty.rpend = FALSE /\ Empty.done = FALSE /\ Empty.done_bus = FALSE
  BY EmptyIsEntry DEF EmptyFields
<1> DEFINE dv == write \/ (mem = "none" /\ ~is_dbg)
           er == (mem = "none")
           e == [Empty EXCEPT !.valid = TRUE, !.id = NewId, !.write = write, !.dbg = is_dbg, !.mem = mem,
                              !.error = er, !.data_valid = dv]
<1>3. dv \in BOOLEAN /\ er \in BOOLEAN /\ (write => dv) /\ (~write /\ ~er => ~dv)
  OBVIOUS
<1>4. NewEntry(write, is_dbg, mem) = e
  BY DEF NewEntry
<1> HIDE DEF dv, er
<1>5. e \in EntrySet
  BY <1>1, <1>2, <1>3 DEF EntrySet
<1>6. /\ e.valid = TRUE /\ e.id = NewId /\ e.write = write /\ e.dbg = is_dbg /\ e.error = er
      /\ e.data_valid = dv /\ e.rpend = FALSE /\ e.done = FALSE /\ e.done_bus = FALSE
  BY <1>2 DEF EntrySet
<1> HIDE DEF e
<1>7. Fresh(e) /\ e.dbg = is_dbg
  BY <1>3, <1>5, <1>6 DEF Fresh
<1> QED
  BY <1>4, <1>7

LEMMA ComesFresh ==
  ASSUME DmaTypeOK, NEW bus, NEW ready, NEW sent, NEW new, Clock(bus, ready, sent, new), taken(bus)
  PROVE  /\ Fresh(comes(bus, new))
         /\ comes(bus, new).dbg => dbg_cmd_valid /\ ~(axi_mstr_valid /\ bus)
<1>1. CASE axi_mstr_valid /\ bus
  <2>1. axi_mstr_sel \in BOOLEAN
    BY DEF axi_mstr_sel, wrbuf_ready, DmaTypeOK
  <2>2. (IF axi_mstr_sel THEN wrbuf ELSE rdbuf) # {}
    BY <1>1 DEF axi_mstr_valid, axi_mstr_sel, wrbuf_ready
  <2>3. axi_mstr_addr \in Memories
    BY <2>2 DEF axi_mstr_addr, DmaTypeOK
  <2>4. comes(bus, new) = NewEntry(axi_mstr_sel, FALSE, axi_mstr_addr)
    BY <1>1 DEF comes
  <2> QED
    BY <2>1, <2>3, <2>4, NewEntryIsFresh
<1>2. CASE ~(axi_mstr_valid /\ bus)
  <2>1. dbg_cmd_valid /\ new \in DbgCommands
    BY <1>2 DEF taken, Clock
  <2>2. new.write \in BOOLEAN /\ new.mem \in Memories
    BY <2>1, DmaAssumption DEF DbgCommands
  <2>3. comes(bus, new) = NewEntry(new.write, TRUE, new.mem)
    BY <1>2 DEF comes
  <2> QED
    BY <1>2, <2>1, <2>2, <2>3, NewEntryIsFresh
<1> QED
  BY <1>1, <1>2

LEMMA KeptEntry ==
  ASSUME DmaTypeOK, Reading, NEW bus, NEW ready, NEW i \in Slots, EntryOK(fifo[i]), fifo[i].valid,
         NEW f,
         f = [fifo[i] EXCEPT !.data_valid = @ \/ dma_rvalid(i),
                             !.data = IF dma_rvalid(i) THEN dma_rdata(i) ELSE @,
                             !.rpend = @ \/ (i = rdp /\ dma_req(ready) /\ ~fifo[i].write),
                             !.done = @ \/ fifo_done_en(i, ready),
                             !.done_bus = @ \/ (bus /\ (fifo[i].done \/ fifo_done_en(i, ready)))]
  PROVE  Kept(f, i, ready)
<1>1. fifo[i] \in EntrySet
  BY Typed
<1>2. PICK e \in EntrySet : e = fifo[i]
  BY <1>1
<1> DEFINE dv == e.data_valid \/ dma_rvalid(i)
           da == IF dma_rvalid(i) THEN dma_rdata(i) ELSE e.data
           rp == e.rpend \/ (i = rdp /\ dma_req(ready) /\ ~e.write)
           do == e.done \/ fifo_done_en(i, ready)
           db == e.done_bus \/ (bus /\ (e.done \/ fifo_done_en(i, ready)))
<1>3. f = [e EXCEPT !.data_valid = dv, !.data = da, !.rpend = rp, !.done = do, !.done_bus = db]
  BY <1>2
<1>4. /\ dv \in BOOLEAN /\ rp \in BOOLEAN /\ do \in BOOLEAN /\ db \in BOOLEAN
      /\ (db => do)
  BY <1>2 DEF EntryOK
<1>5. da = (IF dma_rvalid(i) THEN e.id ELSE e.data) /\ da \in Ids
  <2>1. e.id \in Ids /\ e.data \in Ids
    BY DEF EntrySet
  <2> QED
    BY <1>2, <2>1, DataIsForReads
<1>6. /\ dv <=> fifo[i].data_valid \/ dma_rvalid(i)
      /\ rp <=> fifo[i].rpend \/ (i = rdp /\ dma_req(ready) /\ ~fifo[i].write)
      /\ do <=> fifo[i].done \/ fifo_done_en(i, ready)
      /\ da = IF dma_rvalid(i) THEN fifo[i].id ELSE fifo[i].data
  BY <1>2, <1>5
<1> HIDE DEF dv, da, rp, do, db
<1>7. f \in EntrySet
  BY <1>3, <1>4, <1>5 DEF EntrySet
<1>8. /\ f.valid = e.valid /\ f.id = e.id /\ f.write = e.write /\ f.dbg = e.dbg /\ f.error = e.error
      /\ f.data_valid = dv /\ f.data = da /\ f.rpend = rp /\ f.done = do /\ f.done_bus = db
  BY <1>3 DEF EntrySet
<1> QED
  BY <1>2, <1>4, <1>6, <1>7, <1>8 DEF Kept

(* What is not in the queue stays empty, and nothing happens to a slot that is taken. *)
LEMMA FreeSlot ==
  ASSUME DmaInv, NEW n \in 0..DMA_BUF_DEPTH, NEW m \in 0..n, QueueOf(n, m), NEW ready,
         NEW i \in Slots, ~fifo[i].valid
  PROVE  /\ ~dma_rvalid(i) /\ ~(i = rdp /\ dma_req(ready)) /\ ~fifo_done_en(i, ready)
         /\ fifo[i] = Empty
<1>1. DmaTypeOK /\ Reading /\ EntryOK(fifo[i])
  BY DEF DmaInv, Entries
<1>2. fifo[i] = Empty
  BY <1>1 DEF EntryOK
<1>3. ~dma_rvalid(i)
  BY <1>1, DataIsForReads
<1>4. ~(i = rdp /\ dma_req(ready))
  BY DEF dma_req, dma_mem_req
<1> QED
  BY <1>2, <1>3, <1>4, EmptyIsEntry DEF fifo_done_en, EmptyFields

LEMMA SlotStep ==
  ASSUME DmaInv, NEW n \in 0..DMA_BUF_DEPTH, NEW m \in 0..n, QueueOf(n, m),
         NEW bus, NEW ready, NEW sent, NEW new, Clock(bus, ready, sent, new), NEW i \in Slots
  PROVE  /\ i = rsp /\ Answer(bus, sent) => fifo'[i] = Empty
         /\ i = wrp /\ taken(bus) => fifo'[i] = comes(bus, new) /\ ~(i = rsp /\ Answer(bus, sent))
         /\ ~fifo[i].valid /\ ~(i = wrp /\ taken(bus)) => fifo'[i] = Empty
         /\ fifo[i].valid /\ ~(i = rsp /\ Answer(bus, sent)) => Kept(fifo'[i], i, ready)
<1>1. /\ fifo'[i] = Entry(i, bus, ready, sent, new)
      /\ DmaTypeOK /\ Reading /\ EntryOK(fifo[i])
  BY DEF Clock, QueueEdge, DmaInv, Entries
<1>2. i = rsp /\ Answer(bus, sent) => fifo'[i] = Empty
  BY <1>1 DEF Entry
<1>3. Answer(bus, sent) => fifo[rsp].valid
  BY AnswerIsDue
<1>4. taken(bus) => ~fifo[wrp].valid
  BY TakenIsFree
<1>5. ASSUME i = wrp, taken(bus) PROVE fifo'[i] = comes(bus, new)
  <2>1. ~(i = rsp /\ Answer(bus, sent))
    BY <1>3, <1>4, <1>5
  <2>2. ~dma_rvalid(i) /\ ~(i = rdp /\ dma_req(ready)) /\ ~fifo_done_en(i, ready) /\ fifo[i] = Empty
    BY <1>4, <1>5, FreeSlot
  <2>3. Fresh(comes(bus, new))
    BY <1>1, <1>5, ComesFresh
  <2>4. PICK e \in EntrySet : e = comes(bus, new)
    BY <2>3 DEF Fresh
  <2>5. fifo'[i] = [e EXCEPT !.data_valid = @ \/ dma_rvalid(i),
                     !.data = IF dma_rvalid(i) THEN dma_rdata(i) ELSE @,
                     !.rpend = @ \/ (i = rdp /\ dma_req(ready) /\ ~fifo[i].write),
                     !.done = @ \/ fifo_done_en(i, ready),
                     !.done_bus = @ \/ (bus /\ (fifo[i].done \/ fifo_done_en(i, ready)))]
    BY <1>1, <1>5, <2>1, <2>4 DEF Entry, comes, taken
  <2>6. fifo[i].done = FALSE
    BY <2>2, EmptyIsEntry DEF EmptyFields
  <2>7. fifo'[i] = [e EXCEPT !.data_valid = e.data_valid, !.data = e.data, !.rpend = e.rpend,
                             !.done = e.done, !.done_bus = e.done_bus]
    BY <2>2, <2>5, <2>6 DEF EntrySet
  <2>8. fifo'[i] = e
    BY <2>7 DEF EntrySet
  <2> QED
    BY <2>4, <2>8
<1>6. ASSUME ~fifo[i].valid, ~(i = wrp /\ taken(bus)) PROVE fifo'[i] = Empty
  <2>1. ~(i = rsp /\ Answer(bus, sent))
    BY <1>3, <1>6
  <2>2. ~dma_rvalid(i) /\ ~(i = rdp /\ dma_req(ready)) /\ ~fifo_done_en(i, ready) /\ fifo[i] = Empty
    BY <1>6, FreeSlot
  <2>3. PICK e \in EntrySet : e = fifo[i] /\ e = Empty
    BY <2>2, EmptyIsEntry
  <2>4. fifo'[i] = [fifo[i] EXCEPT !.data_valid = @ \/ dma_rvalid(i),
                     !.data = IF dma_rvalid(i) THEN dma_rdata(i) ELSE @,
                     !.rpend = @ \/ (i = rdp /\ dma_req(ready) /\ ~fifo[i].write),
                     !.done = @ \/ fifo_done_en(i, ready),
                     !.done_bus = @ \/ (bus /\ (fifo[i].done \/ fifo_done_en(i, ready)))]
    BY <1>1, <1>6, <2>1 DEF Entry, taken
  <2>5. fifo[i].done = FALSE
    BY <2>2, EmptyIsEntry DEF EmptyFields
  <2>6. fifo'[i] = [e EXCEPT !.data_valid = e.data_valid, !.data = e.data, !.rpend = e.rpend,
                             !.done = e.done, !.done_bus = e.done_bus]
    BY <2>2, <2>3, <2>4, <2>5 DEF EntrySet
  <2>7. fifo'[i] = e
    BY <2>6 DEF EntrySet
  <2> QED
    BY <2>3, <2>7
<1>7. ASSUME fifo[i].valid, ~(i = rsp /\ Answer(bus, sent)) PROVE Kept(fifo'[i], i, ready)
  <2>1. ~(i = wrp /\ taken(bus))
    BY <1>4, <1>7
  <2>2. fifo'[i] = [fifo[i] EXCEPT !.data_valid = @ \/ dma_rvalid(i),
                     !.data = IF dma_rvalid(i) THEN dma_rdata(i) ELSE @,
                     !.rpend = @ \/ (i = rdp /\ dma_req(ready) /\ ~fifo[i].write),
                     !.done = @ \/ fifo_done_en(i, ready),
                     !.done_bus = @ \/ (bus /\ (fifo[i].done \/ fifo_done_en(i, ready)))]
    BY <1>1, <1>7, <2>1 DEF Entry, taken
  <2> QED
    BY <1>1, <1>7, <2>2, KeptEntry
<1> QED
  BY <1>2, <1>3, <1>4, <1>5, <1>6, <1>7

-----------------------------------------------------------------------------
(* The invariant is inductive.                                               *)

LEMMA SlotCases ==
  ASSUME DmaInv, NEW n \in 0..DMA_BUF_DEPTH, NEW m \in 0..n, QueueOf(n, m),
         NEW bus, NEW ready, NEW sent, NEW new, Clock(bus, ready, sent, new), NEW i \in Slots
  PROVE  \/ /\ fifo'[i] = Empty
            /\ (i = rsp /\ Answer(bus, sent)) \/ (~fifo[i].valid /\ ~(i = wrp /\ taken(bus)))
         \/ /\ fifo'[i] = comes(bus, new) /\ Fresh(comes(bus, new))
            /\ i = wrp /\ taken(bus) /\ ~fifo[i].valid
         \/ /\ Kept(fifo'[i], i, ready)
            /\ fifo[i].valid /\ ~(i = rsp /\ Answer(bus, sent)) /\ ~(i = wrp /\ taken(bus))
<1>1. DmaTypeOK
  BY DEF DmaInv
<1>2. taken(bus) => ~fifo[wrp].valid /\ Fresh(comes(bus, new))
  BY <1>1, TakenIsFree, ComesFresh
<1>3. CASE i = rsp /\ Answer(bus, sent)
  BY <1>3, SlotStep
<1>4. CASE i = wrp /\ taken(bus)
  BY <1>2, <1>4, SlotStep
<1>5. CASE ~(i = rsp /\ Answer(bus, sent)) /\ ~(i = wrp /\ taken(bus)) /\ ~fifo[i].valid
  BY <1>5, SlotStep
<1>6. CASE ~(i = rsp /\ Answer(bus, sent)) /\ ~(i = wrp /\ taken(bus)) /\ fifo[i].valid
  BY <1>6, SlotStep
<1> QED
  BY <1>3, <1>4, <1>5, <1>6

LEMMA TypeStep ==
  ASSUME DmaInv, NEW n \in 0..DMA_BUF_DEPTH, NEW m \in 0..n, QueueOf(n, m),
         NEW bus, NEW ready, NEW sent, NEW new, Clock(bus, ready, sent, new)
  PROVE  DmaTypeOK'
<1>1. /\ DmaTypeOK
      /\ QueueEdge(bus, ready, sent, new) /\ MemoryEdge(ready) /\ BusEdge(bus, sent) /\ DebugEdge
  BY DEF DmaInv, Clock
<1>2. fifo' \in [Slots -> EntrySet]
  <2>1. \A i \in Slots : fifo'[i] \in EntrySet
    BY SlotCases, EmptyIsEntry DEF Fresh, Kept
  <2>2. fifo' = [i \in Slots |-> Entry(i, bus, ready, sent, new)]
    BY <1>1 DEF QueueEdge
  <2>3. fifo' = [i \in Slots |-> fifo'[i]]
    BY <2>2
  <2> QED
    BY <2>1, <2>3
<1>3. wrp' \in Slots /\ rdp' \in Slots /\ rsp' \in Slots
  <2>1. \A r \in Slots : After(r) \in Slots
    BY Nth, Depth
  <2> QED
    BY <1>1, <2>1, Typed DEF QueueEdge
<1>4. rdp_q' \in Slots \X Slots \X Slots
  <2>1. 0 \in Slots
    BY Depth DEF Slots
  <2> QED
    BY <1>1, <2>1, Typed DEF QueueEdge
<1>5. dccm_reads' \in Ids \X Ids \X Ids /\ iccm_reads' \in Ids \X Ids
  <2>1. \A mem : dma_read(ready, mem) \in Ids
    BY <1>1, Typed, Depth DEF dma_read, EntrySet, Ids
  <2> QED
    BY <1>1, <2>1, Typed DEF MemoryEdge
<1>6. /\ wrbuf' \subseteq Memories /\ rdbuf' \subseteq Memories
      /\ wrbuf_data_vld' \in BOOLEAN /\ axi_mstr_priority' \in BOOLEAN
      /\ full_bus' \in BOOLEAN /\ bubble_bus' \in BOOLEAN
  <2>1. CASE ~bus
    BY <1>1, <2>1 DEF BusEdge, DmaTypeOK
  <2>2. CASE bus
    <3>1. ChannelsEdge
      BY <1>1, <2>2 DEF BusEdge
    <3>2. wrbuf' \subseteq Memories /\ rdbuf' \subseteq Memories
      BY <1>1, <3>1, DmaAssumption DEF ChannelsEdge, DmaTypeOK
    <3>3. wrbuf_data_vld' \in BOOLEAN
      BY <3>1 DEF ChannelsEdge
    <3>4. axi_mstr_priority' = (axi_mstr_priority # axi_mstr_valid)
      BY <1>1, <2>2 DEF BusEdge
    <3>5. full_bus' = fifo_full_spec(Answer(bus, sent))
      BY <1>1, <2>2 DEF BusEdge
    <3>6. bubble_bus' = dbg_dma_bubble
      BY <1>1, <2>2 DEF BusEdge
    <3> QED
      BY <3>2, <3>3, <3>4, <3>5, <3>6 DEF fifo_full_spec, dbg_dma_bubble
  <2> QED
    BY <2>1, <2>2
<1>7. dbg' \in {"idle", "start", "wait"}
  BY <1>1 DEF DebugEdge, DmaTypeOK
<1> QED
  BY <1>2, <1>3, <1>4, <1>5, <1>6, <1>7 DEF DmaTypeOK

LEMMA EntriesStep ==
  ASSUME DmaInv, NEW n \in 0..DMA_BUF_DEPTH, NEW m \in 0..n, QueueOf(n, m),
         NEW bus, NEW ready, NEW sent, NEW new, Clock(bus, ready, sent, new)
  PROVE  Entries'
<1>1. DmaTypeOK /\ Entries /\ Reading
  BY DEF DmaInv
<1>2. ASSUME NEW i \in Slots PROVE EntryOK(fifo'[i])
  <2>1. CASE fifo'[i] = Empty
    BY <2>1, EmptyIsEntry DEF EntryOK, EmptyFields
  <2>2. CASE fifo'[i] = comes(bus, new) /\ Fresh(comes(bus, new))
    BY <2>2, NewIdIsFree DEF EntryOK, Fresh
  <2>3. CASE Kept(fifo'[i], i, ready) /\ fifo[i].valid
    <3>1. PICK f \in EntrySet : f = fifo'[i] /\ Kept(f, i, ready)
      BY <2>3 DEF Kept
    <3>2. PICK e \in EntrySet : e = fifo[i] /\ EntryOK(e) /\ e.valid
      BY <1>1, <2>3, Typed DEF Entries
    <3>3. dma_rvalid(i) => e.rpend
      BY <1>1, <3>2, DataIsForReads
    <3>4. f.id \in DmaIds
      BY <3>1, <3>2 DEF Kept, EntryOK
    <3>5. f.rpend => ~f.write /\ ~f.error
      <4>1. i = rdp /\ dma_req(ready) => ~e.error
        BY <3>2 DEF dma_req, dma_mem_req
      <4> QED
        BY <3>1, <3>2, <4>1 DEF Kept, EntryOK
    <3>6. (f.write => f.data_valid) /\ (f.done_bus => f.done)
      BY <3>1, <3>2 DEF Kept, EntryOK
    <3>7. ASSUME ~f.write, ~f.error, f.done \/ f.data_valid PROVE f.rpend /\ f.data = f.id
      <4>1. ~e.write /\ ~e.error
        BY <3>1, <3>2, <3>7 DEF Kept
      <4>2. CASE dma_rvalid(i)
        BY <3>1, <3>2, <3>3, <4>2 DEF Kept
      <4>3. CASE ~dma_rvalid(i)
        <5>1. ~fifo_done_en(i, ready)
          BY <3>2, <4>1, <4>3 DEF fifo_done_en
        <5>2. e.done \/ e.data_valid
          BY <3>1, <3>2, <3>7, <4>3, <5>1 DEF Kept
        <5> QED
          BY <3>1, <3>2, <4>1, <4>3, <5>2 DEF Kept, EntryOK
      <4> QED
        BY <4>2, <4>3
    <3>8. f.valid
      BY <3>1 DEF Kept
    <3> QED
      BY <3>1, <3>4, <3>5, <3>6, <3>7, <3>8 DEF EntryOK
  <2> QED
    BY <2>1, <2>2, <2>3, SlotCases
<1>3. ASSUME NEW i \in Slots, NEW j \in Slots, fifo'[i].valid, fifo'[j].valid, i # j
      PROVE  fifo'[i].id # fifo'[j].id
  <2>1. \A l \in Slots : fifo'[l].valid =>
          \/ l = wrp /\ taken(bus) /\ fifo'[l].id = NewId
          \/ fifo[l].valid /\ fifo'[l].id = fifo[l].id
    BY SlotCases, EmptyIsEntry DEF EmptyFields, Fresh, Kept
  <2> QED
    BY <1>1, <1>3, <2>1, NewIdIsFree DEF Entries
<1> QED
  BY <1>2, <1>3 DEF Entries

LEMMA DebugStep ==
  ASSUME DmaInv, NEW n \in 0..DMA_BUF_DEPTH, NEW m \in 0..n, QueueOf(n, m),
         NEW bus, NEW ready, NEW sent, NEW new, Clock(bus, ready, sent, new)
  PROVE  DebugAlone'
<1>1. DmaTypeOK /\ DebugAlone /\ DebugEdge
  BY DEF DmaInv, Clock
<1>2. \A l \in Slots : fifo'[l].dbg =>
        \/ l = wrp /\ dbg_cmd_valid
        \/ fifo[l].dbg /\ fifo[l].valid /\ ~(l = rsp /\ Answer(bus, sent))
  BY <1>1, SlotCases, ComesFresh, EmptyIsEntry DEF EmptyFields, Kept
<1>3. dbg_cmd_valid => taken(bus) /\ dbg = "start" /\ dbg' = "wait"
  BY <1>1 DEF taken, dbg_cmd_valid, DebugEdge
<1>4. dbg_cmd_valid => \A l \in Slots : ~fifo[l].valid
  BY <1>3, TakenIsFree DEF slots_taken
<1>5. ASSUME dbg = "wait", dbg' # "wait" PROVE fifo[rsp].dbg /\ Answer(bus, sent) /\ rsp \in Slots
  <2>1. dma_dbg_cmd_done
    BY <1>1, <1>5 DEF DebugEdge
  <2> QED
    BY <1>1, <2>1, Typed DEF Answer, dma_dbg_cmd_done
<1>6. ASSUME NEW i \in Slots, fifo'[i].dbg PROVE dbg' = "wait" /\ \A j \in Slots \ {i} : ~fifo'[j].dbg
  <2>1. CASE dbg_cmd_valid
    BY <1>2, <1>3, <1>4, <1>6, <2>1
  <2>2. CASE ~dbg_cmd_valid
    BY <1>1, <1>2, <1>5, <1>6, <2>2 DEF DebugAlone
  <2> QED
    BY <2>1, <2>2
<1> QED
  BY <1>6 DEF DebugAlone

LEMMA StillAwaits ==
  ASSUME DmaInv, NEW n \in 0..DMA_BUF_DEPTH, NEW m \in 0..n, QueueOf(n, m),
         NEW bus, NEW ready, NEW sent, NEW new, Clock(bus, ready, sent, new),
         NEW i \in Slots, NEW id, Awaits(fifo[i], id), ~dma_rvalid(i)
  PROVE  Awaits(fifo'[i], id)
<1>1. EntryOK(fifo[i]) /\ fifo[i].valid
  BY DEF DmaInv, Entries, Awaits
<1>2. ~(i = rsp /\ Answer(bus, sent))
  BY AnswerIsDue DEF Awaits
<1>3. Kept(fifo'[i], i, ready)
  BY <1>1, <1>2, SlotStep
<1>4. ~fifo_done_en(i, ready)
  BY <1>1 DEF fifo_done_en, EntryOK, Awaits
<1> QED
  BY <1>3, <1>4 DEF Kept, Awaits

LEMMA ReadSent ==
  ASSUME DmaInv, NEW n \in 0..DMA_BUF_DEPTH, NEW m \in 0..n, QueueOf(n, m),
         NEW bus, NEW ready, NEW sent, NEW new, Clock(bus, ready, sent, new),
         dma_req(ready), ~fifo[rdp].write
  PROVE  Awaits(fifo'[rdp], fifo[rdp].id) /\ ~fifo[rdp].rpend
<1>1. PICK i \in Slots : i = rdp
  BY Typed DEF DmaInv
<1>2. /\ DmaTypeOK /\ Reading /\ EntryOK(fifo[i]) /\ fifo[i] \in EntrySet
      /\ fifo[i].valid /\ ~fifo[i].rpend /\ ~fifo[i].done /\ ~fifo[i].error
  BY <1>1, Typed DEF DmaInv, Entries, dma_req, dma_mem_req
<1>3. ~(i = rsp /\ Answer(bus, sent))
  BY <1>1, <1>2, AnswerIsDue
<1>4. Kept(fifo'[i], i, ready)
  BY <1>2, <1>3, SlotStep
<1>5. ~dma_rvalid(i) /\ ~fifo[i].data_valid
  BY <1>1, <1>2, DataIsForReads DEF EntryOK
<1>6. ~fifo_done_en(i, ready)
  BY <1>1, <1>2, <1>5 DEF fifo_done_en
<1> QED
  BY <1>1, <1>2, <1>4, <1>5, <1>6 DEF Kept, Awaits

LEMMA ReadingStep ==
  ASSUME DmaInv, NEW n \in 0..DMA_BUF_DEPTH, NEW m \in 0..n, QueueOf(n, m),
         NEW bus, NEW ready, NEW sent, NEW new, Clock(bus, ready, sent, new)
  PROVE  Reading'
<1>1. DmaTypeOK /\ Reading /\ QueueEdge(bus, ready, sent, new) /\ MemoryEdge(ready)
  BY DEF DmaInv, Clock
<1>2. /\ rdp_q'[2] = rdp_q[1] /\ rdp_q'[3] = rdp_q[2]
      /\ dccm_reads'[2] = dccm_reads[1] /\ dccm_reads'[3] = dccm_reads[2]
      /\ iccm_reads'[2] = iccm_reads[1]
      /\ dccm_reads'[1] = dma_read(ready, "dccm") /\ iccm_reads'[1] = dma_read(ready, "iccm")
      /\ dma_req(ready) /\ ~fifo[rdp].write => rdp_q'[1] = rdp
  BY <1>1 DEF QueueEdge, MemoryEdge
<1>3. \A k \in 1..3 : rdp_q[k] \in Slots
  BY <1>1, Typed
<1>4. /\ dma_read(ready, "dccm") # 0 \/ dma_read(ready, "iccm") # 0 => dma_req(ready) /\ ~fifo[rdp].write
      /\ dma_read(ready, "dccm") # 0 => dma_read(ready, "dccm") = fifo[rdp].id
      /\ dma_read(ready, "iccm") # 0 => dma_read(ready, "iccm") = fifo[rdp].id
                                        /\ dma_read(ready, "dccm") = 0
  BY DEF dma_read
<1>5. \A k \in 1..2 : away(k) => ~dma_rvalid(rdp_q[k]) \/ (k = 2 /\ iccm_reads[2] # 0)
  BY <1>1 DEF Reading, away, dma_rvalid
<1>6. /\ dccm_reads[1] # 0 => Awaits(fifo'[rdp_q[1]], dccm_reads[1])
      /\ iccm_reads[1] # 0 => Awaits(fifo'[rdp_q[1]], iccm_reads[1])
  <2>1. PICK i \in Slots : i = rdp_q[1]
    BY <1>3
  <2>2. away(1) => ~dma_rvalid(i)
    BY <1>5, <2>1
  <2>3. /\ dccm_reads[1] # 0 => away(1) /\ Awaits(fifo[i], dccm_reads[1])
        /\ iccm_reads[1] # 0 => away(1) /\ Awaits(fifo[i], iccm_reads[1])
    BY <1>1, <2>1 DEF Reading, away
  <2>4. \A id : Awaits(fifo[i], id) /\ ~dma_rvalid(i) => Awaits(fifo'[i], id)
    BY StillAwaits
  <2> QED
    BY <2>1, <2>2, <2>3, <2>4
<1>7. dccm_reads[2] # 0 => Awaits(fifo'[rdp_q[2]], dccm_reads[2])
  <2>1. PICK i \in Slots : i = rdp_q[2]
    BY <1>3
  <2>2. dccm_reads[2] # 0 => ~dma_rvalid(i) /\ Awaits(fifo[i], dccm_reads[2])
    BY <1>1, <1>5, <2>1 DEF Reading, away
  <2>3. \A id : Awaits(fifo[i], id) /\ ~dma_rvalid(i) => Awaits(fifo'[i], id)
    BY StillAwaits
  <2> QED
    BY <2>1, <2>2, <2>3
<1>8. /\ dccm_reads'[1] # 0 => Awaits(fifo'[rdp_q'[1]], dccm_reads'[1])
      /\ iccm_reads'[1] # 0 => Awaits(fifo'[rdp_q'[1]], iccm_reads'[1])
  <2>1. dma_req(ready) /\ ~fifo[rdp].write => Awaits(fifo'[rdp], fifo[rdp].id)
    BY ReadSent
  <2> QED
    BY <1>2, <1>4, <2>1
<1>9. \A k \in 1..3 : dccm_reads'[k] # 0 => Awaits(fifo'[rdp_q'[k]], dccm_reads'[k])
  BY <1>2, <1>6, <1>7, <1>8
<1>10. \A k \in 1..2 : iccm_reads'[k] # 0 => Awaits(fifo'[rdp_q'[k]], iccm_reads'[k]) /\ dccm_reads'[k] = 0
  <2>1. iccm_reads[1] # 0 => dccm_reads[1] = 0
    BY <1>1 DEF Reading
  <2> QED
    BY <1>2, <1>4, <1>6, <1>8, <2>1
<1> DEFINE aw(k) == dccm_reads'[k] # 0 \/ (k # 3 /\ iccm_reads'[k] # 0)
<1>11. /\ aw(1) => dma_req(ready) /\ ~fifo[rdp].write
       /\ aw(2) => away(1) /\ fifo[rdp_q[1]].rpend
       /\ aw(3) => away(2) /\ fifo[rdp_q[2]].rpend
  <2>1. /\ aw(1) => dccm_reads'[1] # 0 \/ iccm_reads'[1] # 0
        /\ aw(2) => dccm_reads'[2] # 0 \/ iccm_reads'[2] # 0
        /\ aw(3) => dccm_reads'[3] # 0
    OBVIOUS
  <2>2. \A k \in 1..2 : away(k) => fifo[rdp_q[k]].rpend
    BY <1>1 DEF Reading, away, Awaits
  <2> QED
    BY <1>2, <1>4, <2>1, <2>2 DEF away
<1> HIDE DEF aw
<1>12. aw(1) => rdp_q'[1] = rdp /\ ~fifo[rdp].rpend
  BY <1>2, <1>11, ReadSent
<1>13. aw(1) /\ aw(2) => rdp_q'[1] # rdp_q'[2]
  BY <1>2, <1>11, <1>12
<1>14. aw(1) /\ aw(3) => rdp_q'[1] # rdp_q'[3]
  BY <1>2, <1>11, <1>12
<1>15. aw(2) /\ aw(3) => rdp_q'[2] # rdp_q'[3]
  <2>1. away(1) /\ away(2) => rdp_q[1] # rdp_q[2]
    BY <1>1 DEF Reading
  <2> QED
    BY <1>2, <1>11, <2>1
<1>16. \A k, l \in 1..3 : k # l /\ aw(k) /\ aw(l) => rdp_q'[k] # rdp_q'[l]
  <2> SUFFICES ASSUME NEW k \in 1..3, NEW l \in 1..3, k # l, aw(k), aw(l)
               PROVE  rdp_q'[k] # rdp_q'[l]
    OBVIOUS
  <2>1. \/ (k = 1 /\ l = 2) \/ (k = 1 /\ l = 3) \/ (k = 2 /\ l = 3)
        \/ (k = 2 /\ l = 1) \/ (k = 3 /\ l = 1) \/ (k = 3 /\ l = 2)
    OBVIOUS
  <2> QED
    BY <1>13, <1>14, <1>15, <2>1
<1> QED
  BY <1>9, <1>10, <1>16 DEF Reading, away, aw

bit(b) == IF b THEN 1 ELSE 0

(* The places of the slots after a clock. *)
LEMMA PlaceStep ==
  ASSUME DmaTypeOK, NEW bus, NEW ready, NEW sent, NEW new, Clock(bus, ready, sent, new),
         NEW i \in Slots
  PROVE  (i - rsp') % DMA_BUF_DEPTH =
           IF ~Answer(bus, sent) THEN place(i)
           ELSE IF i = rsp THEN DMA_BUF_DEPTH - 1 ELSE place(i) - 1
<1>1. rsp \in Slots /\ rsp' = IF Answer(bus, sent) THEN After(rsp) ELSE rsp
  BY Typed DEF Clock, QueueEdge
<1>2. (i - After(rsp)) % DMA_BUF_DEPTH = IF i = rsp THEN DMA_BUF_DEPTH - 1 ELSE place(i) - 1
  BY <1>1, Place DEF place
<1>3. CASE Answer(bus, sent)
  BY <1>1, <1>2, <1>3
<1>4. CASE ~Answer(bus, sent)
  BY <1>1, <1>4 DEF place
<1> QED
  BY <1>3, <1>4

(* A clock lengthens the queue by what it takes, shortens it by what it answers, and
   moves the end of those that have had their turn likewise. *)
LEMMA Lengths ==
  ASSUME DmaInv, NEW n \in 0..DMA_BUF_DEPTH, NEW m \in 0..n, QueueOf(n, m),
         NEW bus, NEW ready, NEW sent, NEW new, Clock(bus, ready, sent, new),
         NEW t, t = bit(taken(bus)), NEW a, a = bit(Answer(bus, sent)), NEW p, p = bit(turn(ready))
  PROVE  /\ {t, a, p} \subseteq {0, 1}
         /\ n + t - a \in 0..DMA_BUF_DEPTH /\ m + p - a \in 0..n + t - a
         /\ n + t <= DMA_BUF_DEPTH /\ m + p <= n /\ a <= m + p /\ a <= n
<1>1. DMA_BUF_DEPTH \in Nat /\ n \in Nat /\ m \in Nat /\ n <= DMA_BUF_DEPTH /\ m <= n
  BY Depth
<1>2. {t, a, p} \subseteq {0, 1}
  BY DEF bit
<1>3. t = 1 => n < DMA_BUF_DEPTH
  BY TakenIsFree DEF bit
<1>4. p = 1 => m < n
  BY TurnIsFirst DEF bit
<1>5. a = 1 => n > 0 /\ (m > 0 \/ p = 1)
  BY AnswerIsDue DEF bit
<1> QED
  BY <1>1, <1>2, <1>3, <1>4, <1>5

(* An entry that stays has had its turn if it had, or has it in this clock. *)
LEMMA TurnedStep ==
  ASSUME DmaInv, NEW ready, NEW i \in Slots, NEW f, Kept(f, i, ready)
  PROVE  turned(f) <=> turned(fifo[i]) \/ (i = rdp /\ turn(ready))
<1>1. fifo[i] \in EntrySet /\ EntryOK(fifo[i])
  BY Typed DEF DmaInv, Entries
<1>2. dma_rvalid(i) => fifo[i].rpend
  BY DataIsForReads DEF DmaInv
<1>3. f.rpend <=> fifo[i].rpend \/ (i = rdp /\ dma_req(ready) /\ ~fifo[i].write)
  BY DEF Kept
<1>4. f.done <=> fifo[i].done \/ dma_rvalid(i)
                 \/ (i = rdp /\ (fifo[i].error \/ (dma_req(ready) /\ fifo[i].write)))
  BY DEF Kept, fifo_done_en
<1>5. i = rdp /\ turn(ready) <=> i = rdp /\ (dma_req(ready) \/ (fifo[i].error /\ ~fifo[i].done))
  BY DEF turn
<1> QED
  BY <1>2, <1>3, <1>4, <1>5 DEF turned

LEMMA RingStep ==
  ASSUME DmaInv, NEW n \in 0..DMA_BUF_DEPTH, NEW m \in 0..n, QueueOf(n, m),
         NEW bus, NEW ready, NEW sent, NEW new, Clock(bus, ready, sent, new),
         NEW t, t = bit(taken(bus)), NEW a, a = bit(Answer(bus, sent)), NEW p, p = bit(turn(ready))
  PROVE  QueueOf(n + t - a, m + p - a)'
<1>1. /\ DMA_BUF_DEPTH \in Nat /\ DMA_BUF_DEPTH >= 2
      /\ n \in Nat /\ m \in Nat /\ n <= DMA_BUF_DEPTH /\ m <= n
      /\ DmaTypeOK /\ rsp \in Slots /\ QueueEdge(bus, ready, sent, new) /\ BusEdge(bus, sent)
  BY Depth, Typed DEF DmaInv, Clock
<1>2. /\ {t, a, p} \subseteq {0, 1}
      /\ n + t - a \in 0..DMA_BUF_DEPTH /\ m + p - a \in 0..n + t - a
      /\ n + t <= DMA_BUF_DEPTH /\ m + p <= n /\ a <= m + p /\ a <= n
  BY Lengths
<1>3. /\ t = 1 <=> taken(bus)
      /\ a = 1 <=> Answer(bus, sent)
      /\ p = 1 <=> turn(ready)
  BY DEF bit
<1>4. wrp' = nth(rsp', n + t - a) /\ rdp' = nth(rsp', m + p - a)
  <2>0. \A k \in 0..DMA_BUF_DEPTH : k < DMA_BUF_DEPTH => After(nth(rsp, k)) = nth(rsp, k + 1)
    BY <1>1, Nth
  <2>1. wrp = nth(rsp, n) /\ rdp = nth(rsp, m)
    BY DEF QueueOf, nth
  <2>2. wrp' = nth(rsp, n + t)
    <3>1. t = 1 => After(nth(rsp, n)) = nth(rsp, n + 1)
      BY <1>1, <1>2, <2>0
    <3>2. wrp' = IF t = 1 THEN After(wrp) ELSE wrp
      BY <1>1, <1>3 DEF QueueEdge, taken
    <3> QED
      BY <1>1, <1>2, <2>1, <3>1, <3>2
  <2>3. rdp' = nth(rsp, m + p)
    <3>1. p = 1 => After(nth(rsp, m)) = nth(rsp, m + 1)
      <4>1. m \in 0..DMA_BUF_DEPTH /\ (p = 1 => m < DMA_BUF_DEPTH)
        BY <1>1, <1>2
      <4> QED
        BY <2>0, <4>1
    <3>2. rdp' = IF p = 1 THEN After(rdp) ELSE rdp
      BY <1>1, <1>3 DEF QueueEdge, turn
    <3> QED
      BY <1>1, <1>2, <2>1, <3>1, <3>2
  <2>4. CASE a = 1
    <3>1. rsp' = After(rsp)
      BY <1>1, <1>3, <2>4 DEF QueueEdge
    <3>2. \A k \in 1..DMA_BUF_DEPTH : nth(After(rsp), k - 1) = nth(rsp, k)
      BY <1>1, Nth
    <3>3. /\ n + t \in 1..DMA_BUF_DEPTH /\ m + p \in 1..DMA_BUF_DEPTH
          /\ n + t - a = (n + t) - 1 /\ m + p - a = (m + p) - 1
      BY <1>1, <1>2, <2>4
    <3> QED
      BY <2>2, <2>3, <3>1, <3>2, <3>3
  <2>5. CASE a = 0
    <3>1. rsp' = rsp
      BY <1>1, <1>3, <2>5 DEF QueueEdge
    <3>2. n + t - a = n + t /\ m + p - a = m + p
      BY <1>1, <1>2, <2>5
    <3> QED
      BY <2>2, <2>3, <3>1, <3>2
  <2> QED
    BY <1>2, <2>4, <2>5
<1>5. ASSUME NEW i \in Slots
      PROVE  /\ fifo'[i].valid <=> (i - rsp') % DMA_BUF_DEPTH < n + t - a
             /\ turned(fifo'[i]) <=> (i - rsp') % DMA_BUF_DEPTH < m + p - a
  <2> DEFINE d == place(i)
             e == (i - rsp') % DMA_BUF_DEPTH
  <2>1. e = IF a = 0 THEN d ELSE IF i = rsp THEN DMA_BUF_DEPTH - 1 ELSE d - 1
    BY <1>1, <1>2, <1>3, PlaceStep
  <2>2. /\ d \in Nat /\ d < DMA_BUF_DEPTH /\ (i = rsp <=> d = 0)
        /\ (fifo[i].valid <=> d < n) /\ (turned(fifo[i]) <=> d < m)
    BY <1>1, Places, Place DEF place
  <2>4. t = 1 /\ d = n => i = wrp
    <3>1. t = 1 => place(wrp) = n /\ wrp \in Slots
      BY <1>1, <1>3, TakenIsFree, Typed
    <3>2. nth(rsp, place(i)) = i /\ nth(rsp, place(wrp)) = wrp
      BY <1>1, Typed, Places
    <3> QED
      BY <3>1, <3>2
  <2>5. p = 1 => (i = rdp <=> d = m)
    <3>1. p = 1 => place(rdp) = m
      BY <1>3, TurnIsFirst
    <3>2. nth(rsp, place(i)) = i /\ nth(rsp, place(rdp)) = rdp
      BY <1>1, Typed, Places
    <3> QED
      BY <3>1, <3>2
  <2>6. a = 1 => fifo[rsp].valid
    BY <1>3, AnswerIsDue
  <2>7. \/ fifo'[i] = Empty /\ ((i = rsp /\ a = 1) \/ (~fifo[i].valid /\ ~(i = wrp /\ t = 1)))
        \/ Fresh(fifo'[i]) /\ i = wrp /\ t = 1 /\ ~fifo[i].valid
        \/ Kept(fifo'[i], i, ready) /\ fifo[i].valid /\ ~(i = rsp /\ a = 1)
    BY <1>3, SlotCases
  <2> HIDE DEF d, e
  <2>8. CASE fifo'[i] = Empty /\ ((i = rsp /\ a = 1) \/ (~fifo[i].valid /\ ~(i = wrp /\ t = 1)))
    <3>1. fifo'[i].valid = FALSE /\ ~turned(fifo'[i])
      BY <2>8, EmptyIsEntry DEF EmptyFields, turned
    <3>2. e >= n + t - a
      <4>1. CASE i = rsp /\ a = 1
        BY <1>1, <1>2, <2>1, <4>1
      <4>2. CASE ~(i = rsp /\ a = 1) /\ ~fifo[i].valid /\ ~(i = wrp /\ t = 1)
        <5>1. d >= n + t
          BY <1>1, <1>2, <2>2, <2>4, <4>2
        <5> QED
          BY <1>1, <1>2, <2>1, <2>2, <4>2, <5>1
      <4> QED
        BY <2>8, <4>1, <4>2
    <3>3. e \in Int /\ ~(e < n + t - a) /\ ~(e < m + p - a)
      BY <1>1, <1>2, <2>1, <2>2, <3>2
    <3> QED
      BY <3>1, <3>3 DEF e
  <2>9. CASE Fresh(fifo'[i]) /\ i = wrp /\ t = 1 /\ ~fifo[i].valid
    <3>1. fifo'[i].valid /\ ~turned(fifo'[i])
      BY <2>9 DEF Fresh, turned
    <3>2. d = n
      BY <1>3, <2>9, TakenIsFree DEF d
    <3>3. a = 1 => i # rsp
      BY <2>6, <2>9
    <3>4. e = n - a
      BY <1>1, <1>2, <2>1, <3>2, <3>3
    <3>5. e < n + t - a /\ ~(e < m + p - a)
      BY <1>1, <1>2, <2>9, <3>4
    <3> QED
      BY <3>1, <3>5 DEF e
  <2>10. CASE Kept(fifo'[i], i, ready) /\ fifo[i].valid /\ ~(i = rsp /\ a = 1)
    <3>1. fifo'[i].valid
      BY <2>10 DEF Kept
    <3>2. turned(fifo'[i]) <=> d < m \/ (p = 1 /\ d = m)
      BY <1>3, <2>2, <2>5, <2>10, TurnedStep
    <3>3. e = d - a /\ d < n
      BY <1>1, <1>2, <2>1, <2>2, <2>10
    <3>4. e < n + t - a
      BY <1>1, <1>2, <2>2, <3>3
    <3>5. e < m + p - a <=> d < m \/ (p = 1 /\ d = m)
      BY <1>1, <1>2, <2>2, <3>3
    <3> QED
      BY <3>1, <3>2, <3>4, <3>5 DEF e
  <2> QED
    BY <2>7, <2>8, <2>9, <2>10
<1>6. ~full_bus' => n + t - a < DMA_BUF_DEPTH
  <2>1. taken(bus) => n < DMA_BUF_DEPTH /\ (dbg_cmd_valid => n = 0)
    BY TakenIsFree
  <2>2. CASE ~bus
    <3>1. full_bus' = full_bus
      BY <1>1, <2>2 DEF BusEdge
    <3>2. t = 1 => n = 0
      BY <1>3, <2>1, <2>2 DEF taken
    <3>3. ~full_bus => n < DMA_BUF_DEPTH
      BY DEF QueueOf
    <3> QED
      BY <1>1, <1>2, <3>1, <3>2, <3>3
  <2>3. CASE bus
    <3>1. full_bus' = (Cardinality(slots_taken) = DMA_BUF_DEPTH /\ ~Answer(bus, sent))
      BY <1>1, <2>3 DEF BusEdge, fifo_full_spec
    <3>2. PICK v : v = bit(axi_mstr_valid)
      OBVIOUS
    <3>3. v \in {0, 1} /\ (v = 1 <=> axi_mstr_valid) /\ (v = 1 => t = 1) /\ (t = 1 /\ v = 0 => n = 0)
      BY <1>3, <2>1, <2>3, <3>2 DEF bit, taken
    <3>4. slots_taken = {i \in Slots : (i - rsp) % DMA_BUF_DEPTH < n + v}
      <4>1. ASSUME NEW i \in Slots
            PROVE  (fifo[i].valid \/ (axi_mstr_valid /\ i = wrp)) <=> place(i) < n + v
        <5>1. place(i) \in Nat /\ (fifo[i].valid <=> place(i) < n) /\ nth(rsp, place(i)) = i
          BY <1>1, Places
        <5>2. v = 1 => place(wrp) = n /\ nth(rsp, place(wrp)) = wrp
          BY <1>1, <1>3, <3>3, TakenIsFree, Typed, Places
        <5>3. v = 1 => (i = wrp <=> place(i) = n)
          BY <5>1, <5>2
        <5> DEFINE d == place(i)
        <5> HIDE DEF d
        <5>4. (d < n \/ (v = 1 /\ d = n)) <=> d < n + v
          BY <1>1, <3>3, <5>1 DEF d
        <5> QED
          BY <3>3, <5>1, <5>3, <5>4 DEF d
      <4> QED
        BY <4>1 DEF slots_taken, place
    <3>5. n + v \in 0..DMA_BUF_DEPTH
      BY <1>1, <1>2, <3>3
    <3>6. Cardinality(slots_taken) = n + v
      BY <1>1, <3>4, <3>5, CountSlots
    <3>7. ASSUME ~full_bus' PROVE n + v # DMA_BUF_DEPTH \/ a = 1
      BY <1>3, <3>1, <3>6, <3>7
    <3> QED
      BY <1>1, <1>2, <3>3, <3>5, <3>7
  <2> QED
    BY <1>1, <2>2, <2>3 DEF Clock
<1> QED
  BY <1>4, <1>5, <1>6 DEF QueueOf, nth, place

LEMMA InvInit == DmaInit => DmaInv
<1> SUFFICES ASSUME DmaInit PROVE DmaInv
  OBVIOUS
<1>1. DMA_BUF_DEPTH \in Nat /\ DMA_BUF_DEPTH >= 2 /\ 0 \in Slots /\ 0 \in 0..DMA_BUF_DEPTH
  BY Depth DEF Slots
<1>2. \A i \in Slots : fifo[i] = Empty
  BY DEF DmaInit
<1>3. DmaTypeOK
  <2>1. fifo \in [Slots -> EntrySet]
    BY EmptyIsEntry DEF DmaInit
  <2>2. {wrp, rdp, rsp} \subseteq Slots /\ rdp_q \in Slots \X Slots \X Slots
    BY <1>1 DEF DmaInit
  <2>3. dccm_reads \in Ids \X Ids \X Ids /\ iccm_reads \in Ids \X Ids
    BY <1>1 DEF DmaInit, Ids
  <2>4. /\ wrbuf \subseteq Memories /\ rdbuf \subseteq Memories
        /\ {wrbuf_data_vld, axi_mstr_priority, full_bus, bubble_bus} \subseteq BOOLEAN
        /\ dbg \in {"idle", "start", "wait"}
    BY DEF DmaInit
  <2> QED
    BY <2>1, <2>2, <2>3, <2>4 DEF DmaTypeOK
<1>4. Ring
  <2>1. \A i \in Slots : place(i) \in Nat /\ ~(place(i) < 0)
    BY <1>1, Place DEF DmaInit, place, Slots
  <2>2. (0 + 0) % DMA_BUF_DEPTH = 0
    BY <1>1, Wraps
  <2>3. QueueOf(0, 0)
    BY <1>1, <1>2, <2>1, <2>2, EmptyIsEntry DEF DmaInit, QueueOf, EmptyFields, turned
  <2> QED
    BY <1>1, <2>3 DEF Ring
<1>5. Entries
  BY <1>2, EmptyIsEntry DEF Entries, EntryOK, EmptyFields
<1>6. Reading
  BY DEF DmaInit, Reading, away
<1>7. DebugAlone
  BY <1>2, EmptyIsEntry DEF DebugAlone, EmptyFields
<1> QED
  BY <1>3, <1>4, <1>5, <1>6, <1>7 DEF DmaInv

LEMMA InvStep == DmaInv /\ [DmaNext]_dmaVars => DmaInv'
<1>1. ASSUME DmaInv, DmaNext PROVE DmaInv'
  <2>1. PICK bus, ready, sent, new : Clock(bus, ready, sent, new)
    BY <1>1, NextIsClock
  <2>2. PICK n \in 0..DMA_BUF_DEPTH : \E m \in 0..n : QueueOf(n, m)
    BY <1>1 DEF DmaInv, Ring
  <2>3. PICK m \in 0..n : QueueOf(n, m)
    BY <2>2
  <2>4. DmaTypeOK' /\ Entries' /\ Reading' /\ DebugAlone'
    BY <1>1, <2>1, <2>3, TypeStep, EntriesStep, ReadingStep, DebugStep
  <2>5. Ring'
    <3>1. PICK t, a, p : t = bit(taken(bus)) /\ a = bit(Answer(bus, sent)) /\ p = bit(turn(ready))
      OBVIOUS
    <3>2. n + t - a \in 0..DMA_BUF_DEPTH /\ m + p - a \in 0..n + t - a
      BY <1>1, <2>1, <2>3, <3>1, Lengths
    <3>3. QueueOf(n + t - a, m + p - a)'
      BY <1>1, <2>1, <2>3, <3>1, RingStep
    <3> QED
      BY <3>2, <3>3 DEF Ring
  <2> QED
    BY <2>4, <2>5 DEF DmaInv
<1>2. ASSUME DmaInv, UNCHANGED dmaVars PROVE DmaInv'
  BY <1>2 DEF dmaVars, DmaInv, DmaTypeOK, Ring, QueueOf, place, turned, Entries, Reading, away, DebugAlone
<1> QED
  BY <1>1, <1>2

(* In every behaviour the queue is in the slots from RspPtr on, and what is in them,
   in the memories and in the debug module belong together. *)
THEOREM QueueInTheRing == DmaSpec => []DmaInv
BY InvInit, InvStep, PTL DEF DmaSpec

-----------------------------------------------------------------------------
(* The controller is a queue.                                                *)

item(e) == [id |-> e.id, bad |-> e.error, done |-> e.rpend \/ e.done]
items(f, r, c) == [k \in 1..c |-> item(f[nth(r, k - 1)])]

(* The requests of a ring that starts at r. *)
queued(f, r) ==
  LET n == Cardinality({i \in Slots : f[i].valid})
      slot(k) == (r + k - 1) % DMA_BUF_DEPTH
  IN  [k \in 1..n |-> [id |-> f[slot(k)].id, bad |-> f[slot(k)].error,
                       done |-> f[slot(k)].rpend \/ f[slot(k)].done]]

LEMMA QueuedItems ==
  ASSUME NEW r \in Slots, NEW f, NEW c \in 0..DMA_BUF_DEPTH,
         \A i \in Slots : f[i].valid <=> (i - r) % DMA_BUF_DEPTH < c
  PROVE  queued(f, r) = items(f, r, c)
<1>1. {i \in Slots : f[i].valid} = {i \in Slots : (i - r) % DMA_BUF_DEPTH < c}
  OBVIOUS
<1>2. Cardinality({i \in Slots : f[i].valid}) = c
  BY <1>1, CountSlots
<1>3. DMA_BUF_DEPTH \in Nat /\ c \in Nat /\ r \in Int
  BY Depth DEF Slots
<1>4. \A k \in 1..c : r + k - 1 = r + (k - 1)
  BY <1>3
<1>5. \A k \in 1..c : (r + k - 1) % DMA_BUF_DEPTH = nth(r, k - 1)
  BY <1>4 DEF nth
<1> DEFINE slot(k) == (r + k - 1) % DMA_BUF_DEPTH
<1>6. queued(f, r) = [k \in 1..c |-> [id |-> f[slot(k)].id, bad |-> f[slot(k)].error,
                                     done |-> f[slot(k)].rpend \/ f[slot(k)].done]]
  BY <1>2 DEF queued
<1>7. \A k \in 1..c : slot(k) = nth(r, k - 1)
  BY <1>5
<1> HIDE DEF slot
<1> QED
  BY <1>6, <1>7 DEF items, item

(* An item and the sequence of them. *)
LEMMA ItemsOf ==
  ASSUME NEW r \in Slots, NEW f, NEW c \in 0..DMA_BUF_DEPTH,
         \A k \in 1..c : item(f[nth(r, k - 1)]) \in Queue!Request
  PROVE  /\ items(f, r, c) \in Seq(Queue!Request) /\ Len(items(f, r, c)) = c
         /\ DOMAIN items(f, r, c) = 1..c
         /\ \A k \in 1..c : items(f, r, c)[k] = item(f[nth(r, k - 1)])
<1>1. c \in Nat
  BY Depth
<1> DEFINE s == items(f, r, c)
<1>2. s = [k \in 1..c |-> item(f[nth(r, k - 1)])]
  BY DEF items
<1>3. s \in [1..c -> Queue!Request]
  BY <1>2
<1>4. s \in Seq(Queue!Request)
  BY <1>1, <1>3
<1>5. Len(s) = c /\ DOMAIN s = 1..c
  BY <1>1, <1>3, <1>4, LenProperties
<1> QED
  BY <1>2, <1>4, <1>5

LEMMA ItemsTyped ==
  ASSUME DmaTypeOK, Entries, NEW n \in 0..DMA_BUF_DEPTH, NEW m \in 0..n, QueueOf(n, m)
  PROVE  \A k \in 1..n : /\ nth(rsp, k - 1) \in Slots /\ fifo[nth(rsp, k - 1)].valid
                         /\ place(nth(rsp, k - 1)) = k - 1
                         /\ item(fifo[nth(rsp, k - 1)]) \in Queue!Request
<1> SUFFICES ASSUME NEW k \in 1..n
             PROVE  /\ nth(rsp, k - 1) \in Slots /\ fifo[nth(rsp, k - 1)].valid
                    /\ place(nth(rsp, k - 1)) = k - 1
                    /\ item(fifo[nth(rsp, k - 1)]) \in Queue!Request
  OBVIOUS
<1>1. DMA_BUF_DEPTH \in Nat /\ n \in Nat /\ n <= DMA_BUF_DEPTH /\ rsp \in Slots
  BY Depth, Typed
<1>2. k - 1 \in 0..DMA_BUF_DEPTH /\ k - 1 # DMA_BUF_DEPTH /\ k - 1 < n
  BY <1>1
<1>3. PICK i \in Slots : i = nth(rsp, k - 1)
  BY <1>1, <1>2, Nth
<1>4. place(i) = k - 1
  BY <1>1, <1>2, <1>3, Nth DEF place
<1>5. fifo[i].valid
  BY <1>1, <1>2, <1>4, Places
<1>6. PICK e \in EntrySet : e = fifo[i]
  BY Typed
<1>7. e.id \in DmaIds /\ e.error \in BOOLEAN
  BY <1>5, <1>6 DEF Entries, EntryOK, EntrySet
<1>8. item(e) \in Queue!Request
  BY <1>7 DEF item, Queue!Request
<1> QED
  BY <1>3, <1>4, <1>5, <1>6, <1>8

(* The first leaves a sequence, another comes in at its end. *)
Moved(R, n, a, t, s, r, q, u) ==
  /\ u \in Seq(R) /\ Len(u) = n - a /\ \A j \in 1..n - a : u[j] = s[j + a]
  /\ q = IF t = 1 THEN Append(u, r) ELSE u

LEMMA QueueMoves ==
  ASSUME NEW R, NEW n \in Nat, NEW a \in {0, 1}, NEW t \in {0, 1}, a <= n,
         NEW s \in Seq(R), Len(s) = n, NEW r, t = 1 => r \in R,
         NEW q \in Seq(R), Len(q) = n + t - a,
         \A k \in 1..n : k > a => q[k - a] = s[k],
         t = 1 => q[n - a + 1] = r,
         NEW u, u = IF a = 1 THEN Tail(s) ELSE s
  PROVE  Moved(R, n, a, t, s, r, q, u)
<1> SUFFICES /\ u \in Seq(R) /\ Len(u) = n - a /\ \A j \in 1..n - a : u[j] = s[j + a]
             /\ q = IF t = 1 THEN Append(u, r) ELSE u
  BY Zenon DEF Moved
<1>1. u \in Seq(R) /\ Len(u) = n - a /\ \A j \in 1..n - a : u[j] = s[j + a]
  <2>1. CASE a = 0
    BY <2>1
  <2>2. CASE a = 1
    <3>1. s # << >>
      BY <2>2
    <3>2. Tail(s) \in Seq(R) /\ Len(Tail(s)) = n - 1 /\ \A j \in 1..n - 1 : Tail(s)[j] = s[j + 1]
      BY <3>1, HeadTailProperties
    <3> QED
      BY <2>2, <3>2
  <2> QED
    BY <2>1, <2>2
<1>2. \A j \in 1..n - a : q[j] = u[j]
  <2> TAKE j \in 1..n - a
  <2>1. j + a \in 1..n /\ j + a > a /\ (j + a) - a = j
    OBVIOUS
  <2> QED
    BY <1>1, <2>1
<1>3. CASE t = 0
  <2>1. Len(q) = Len(u) /\ Len(q) = n - a
    BY <1>1, <1>3
  <2>2. \A j \in 1..Len(q) : q[j] = u[j]
    BY <1>2, <2>1
  <2>3. q = u
    BY <1>1, <2>1, <2>2, SeqEqual
  <2> QED
    BY <1>3, <2>3
<1>4. CASE t = 1
  <2>1. /\ Append(u, r) \in Seq(R) /\ Len(Append(u, r)) = Len(u) + 1
        /\ \A j \in 1..Len(u) : Append(u, r)[j] = u[j]
        /\ Append(u, r)[Len(u) + 1] = r
    BY <1>1, <1>4, AppendProperties
  <2> DEFINE v == Append(u, r)
  <2>2. v \in Seq(R) /\ Len(v) = n - a + 1 /\ (\A j \in 1..n - a : v[j] = u[j]) /\ v[n - a + 1] = r
    BY <1>1, <2>1
  <2> HIDE DEF v
  <2>3. Len(q) = n - a + 1
    BY <1>4
  <2>4. \A j \in 1..Len(q) : q[j] = v[j]
    <3> TAKE j \in 1..Len(q)
    <3>1. CASE j = n - a + 1
      BY <1>4, <2>2, <3>1
    <3>2. CASE j # n - a + 1
      <4>1. j \in 1..n - a
        BY <2>3, <3>2
      <4> QED
        BY <1>2, <2>2, <4>1
    <3> QED
      BY <3>1, <3>2
  <2>5. q = v
    BY <2>2, <2>3, <2>4, SeqEqual
  <2> QED
    BY <1>4, <2>5 DEF v
<1> QED
  BY <1>1, <1>3, <1>4

(* What a clock does to the items of the queue. *)
LEMMA ItemStep ==
  ASSUME DmaInv, NEW n \in 0..DMA_BUF_DEPTH, NEW m \in 0..n, QueueOf(n, m),
         NEW bus, NEW ready, NEW sent, NEW new, Clock(bus, ready, sent, new),
         NEW t, t = bit(taken(bus)), NEW a, a = bit(Answer(bus, sent)), NEW p, p = bit(turn(ready))
  PROVE  /\ \A k \in 1..n : k > a =>
              LET e == fifo[nth(rsp, k - 1)]
              IN  item(fifo'[nth(rsp', k - a - 1)]) =
                    [id |-> e.id, bad |-> e.error, done |-> turned(e) \/ (p = 1 /\ k = m + 1)]
         /\ t = 1 => fifo'[nth(rsp', n - a)] = comes(bus, new)
<1>1. /\ DMA_BUF_DEPTH \in Nat /\ n \in Nat /\ m \in Nat /\ n <= DMA_BUF_DEPTH /\ m <= n
      /\ DmaTypeOK /\ Entries /\ rsp \in Slots /\ wrp \in Slots /\ rdp \in Slots
  BY Depth, Typed DEF DmaInv
<1>2. /\ {t, a, p} \subseteq {0, 1} /\ n + t <= DMA_BUF_DEPTH /\ a <= n
  BY Lengths
<1>3. /\ t = 1 <=> taken(bus)
      /\ a = 1 <=> Answer(bus, sent)
      /\ p = 1 <=> turn(ready)
  BY DEF bit
<1>4. \A k \in 0..DMA_BUF_DEPTH : k >= a => nth(rsp', k - a) = nth(rsp, k)
  <2>1. CASE a = 1
    <3>1. rsp' = After(rsp)
      BY <1>3, <2>1 DEF Clock, QueueEdge
    <3>2. \A k \in 0..DMA_BUF_DEPTH : k > 0 => nth(After(rsp), k - 1) = nth(rsp, k)
      BY <1>1, Nth
    <3> QED
      BY <2>1, <3>1, <3>2
  <2>2. CASE a = 0
    <3>1. rsp' = rsp
      BY <1>3, <2>2 DEF Clock, QueueEdge
    <3>2. \A k \in 0..DMA_BUF_DEPTH : k - a = k
      BY <1>1, <2>2
    <3> QED
      BY <3>1, <3>2
  <2> QED
    BY <1>2, <2>1, <2>2
<1>5. ASSUME NEW k \in 1..n, k > a
      PROVE  LET e == fifo[nth(rsp, k - 1)]
             IN  item(fifo'[nth(rsp', k - a - 1)]) =
                   [id |-> e.id, bad |-> e.error, done |-> turned(e) \/ (p = 1 /\ k = m + 1)]
  <2>1. PICK i \in Slots : i = nth(rsp, k - 1) /\ fifo[i].valid /\ place(i) = k - 1
    BY <1>1, ItemsTyped
  <2>2. nth(rsp', k - a - 1) = i
    <3>1. k - 1 \in 0..DMA_BUF_DEPTH /\ k - 1 >= a /\ (k - 1) - a = k - a - 1
      BY <1>1, <1>2, <1>5
    <3> QED
      BY <1>4, <2>1, <3>1
  <2>3. ~(i = rsp /\ a = 1)
    <3>1. place(rsp) = 0
      BY <1>1, Places
    <3>2. a = 1 => k - 1 > 0
      BY <1>1, <1>5
    <3> QED
      BY <2>1, <3>1, <3>2
  <2>4. Kept(fifo'[i], i, ready)
    BY <1>3, <2>1, <2>3, SlotStep
  <2>5. p = 1 => (i = rdp <=> k = m + 1)
    <3>1. p = 1 => place(rdp) = m
      BY <1>3, TurnIsFirst
    <3>2. nth(rsp, place(i)) = i /\ nth(rsp, place(rdp)) = rdp
      BY <1>1, <2>1, Places
    <3>3. k - 1 = m <=> k = m + 1
      BY <1>1
    <3> QED
      BY <2>1, <3>1, <3>2, <3>3
  <2>6. turned(fifo'[i]) <=> turned(fifo[i]) \/ (p = 1 /\ k = m + 1)
    BY <1>3, <2>4, <2>5, TurnedStep
  <2>7. fifo'[i].id = fifo[i].id /\ fifo'[i].error = fifo[i].error
    BY <2>4 DEF Kept
  <2>8. turned(fifo'[i]) = (turned(fifo[i]) \/ (p = 1 /\ k = m + 1))
    BY <2>6 DEF turned
  <2>9. item(fifo'[i]) = [id |-> fifo'[i].id, bad |-> fifo'[i].error, done |-> turned(fifo'[i])]
    BY DEF item, turned
  <2> QED
    BY <2>1, <2>2, <2>7, <2>8, <2>9
<1>6. ASSUME t = 1 PROVE fifo'[nth(rsp', n - a)] = comes(bus, new)
  <2>1. n < DMA_BUF_DEPTH /\ place(wrp) = n
    BY <1>3, <1>6, TakenIsFree
  <2>2. nth(rsp', n - a) = nth(rsp, n)
    BY <1>1, <1>2, <1>4
  <2>3. nth(rsp, n) = wrp
    BY <1>1, <2>1, Places
  <2> QED
    BY <1>1, <1>3, <1>6, <2>2, <2>3, SlotStep
<1> QED
  BY <1>5, <1>6

(* A clock is a step of the queue. *)
LEMMA QueueStep ==
  ASSUME DmaInv, DmaInv', DmaNext
  PROVE  Queue!Next
<1>1. PICK bus, ready, sent, new : Clock(bus, ready, sent, new)
  BY NextIsClock
<1>2. PICK n \in 0..DMA_BUF_DEPTH : \E m \in 0..n : QueueOf(n, m)
  BY DEF DmaInv, Ring
<1>3. PICK m \in 0..n : QueueOf(n, m)
  BY <1>2
<1>4. PICK t, a, p : t = bit(taken(bus)) /\ a = bit(Answer(bus, sent)) /\ p = bit(turn(ready))
  OBVIOUS
<1>5. /\ {t, a, p} \subseteq {0, 1}
      /\ n + t - a \in 0..DMA_BUF_DEPTH /\ m + p - a \in 0..n + t - a
      /\ n + t <= DMA_BUF_DEPTH /\ m + p <= n /\ a <= m + p /\ a <= n
  BY <1>1, <1>3, <1>4, Lengths
<1>6. /\ DMA_BUF_DEPTH \in Nat /\ n \in Nat /\ m \in Nat /\ n <= DMA_BUF_DEPTH /\ m <= n
      /\ DmaTypeOK /\ Entries /\ rsp \in Slots /\ rdp \in Slots /\ wrp \in Slots
  BY <1>3, Depth, Typed DEF DmaInv
<1>7. /\ t = 1 <=> taken(bus)
      /\ a = 1 <=> Answer(bus, sent)
      /\ p = 1 <=> turn(ready)
  BY <1>4 DEF bit
<1>8. PICK n1 : n1 = n + t - a
  OBVIOUS
<1>9. PICK m1 : m1 = m + p - a
  OBVIOUS
<1>10. n1 \in 0..DMA_BUF_DEPTH /\ m1 \in 0..n1 /\ QueueOf(n1, m1)'
  BY <1>1, <1>3, <1>4, <1>5, <1>8, <1>9, RingStep
<1> DEFINE R == Queue!Request
(* The queue before the clock, ... *)
<1>11. PICK q : q = Queued
  OBVIOUS
<1>12. /\ q \in Seq(R) /\ Len(q) = n /\ DOMAIN q = 1..n
       /\ \A k \in 1..n : q[k] = item(fifo[nth(rsp, k - 1)])
  <2>1. \A i \in Slots : fifo[i].valid <=> (i - rsp) % DMA_BUF_DEPTH < n
    BY <1>3 DEF QueueOf, place
  <2>2. Queued = queued(fifo, rsp)
    BY DEF Queued, queued
  <2>3. q = items(fifo, rsp, n)
    BY <1>6, <1>11, <2>1, <2>2, QueuedItems
  <2>4. \A k \in 1..n : item(fifo[nth(rsp, k - 1)]) \in R
    BY <1>3, <1>6, ItemsTyped
  <2> QED
    BY <1>6, <2>3, <2>4, ItemsOf
(* ... and after it. *)
<1>13. PICK q1 : q1 = Queued'
  OBVIOUS
<1>14. /\ q1 \in Seq(R) /\ Len(q1) = n1
       /\ \A k \in 1..n1 : q1[k] = item(fifo'[nth(rsp', k - 1)])
  <2>1. \A i \in Slots : fifo'[i].valid <=> (i - rsp') % DMA_BUF_DEPTH < n1
    BY <1>10 DEF QueueOf, place
  <2>2. Queued' = queued(fifo', rsp')
    BY DEF Queued, queued
  <2>3. rsp' \in Slots
    BY DEF DmaInv, DmaTypeOK
  <2>4. q1 = items(fifo', rsp', n1)
    BY <1>10, <1>13, <2>1, <2>2, <2>3, QueuedItems
  <2>5. \A k \in 1..n1 : item(fifo'[nth(rsp', k - 1)]) \in R
    <3> SUFFICES ASSUME NEW k \in 1..n1 PROVE item(fifo'[nth(rsp', k - 1)]) \in R
      OBVIOUS
    <3>1. k - 1 \in 0..DMA_BUF_DEPTH /\ k - 1 # DMA_BUF_DEPTH /\ k - 1 < n1
      BY <1>6, <1>10
    <3>2. PICK i \in Slots : i = nth(rsp', k - 1) /\ (i - rsp') % DMA_BUF_DEPTH = k - 1
      BY <2>3, <3>1, Nth
    <3>3. fifo'[i].valid
      BY <2>1, <3>1, <3>2
    <3>4. PICK e \in EntrySet : e = fifo'[i]
      BY DEF DmaInv, DmaTypeOK
    <3>5. e.id \in DmaIds /\ e.error \in BOOLEAN
      BY <3>3, <3>4 DEF DmaInv, Entries, EntryOK, EntrySet
    <3> QED
      BY <3>2, <3>4, <3>5 DEF item, Queue!Request
  <2> QED
    BY <1>10, <2>3, <2>4, <2>5, ItemsOf
(* In between, a request may have had its turn. *)
<1>15. PICK s : s = IF p = 1 THEN [q EXCEPT ![m + 1].done = TRUE] ELSE q
  OBVIOUS
<1>16. /\ s \in Seq(R) /\ Len(s) = n /\ DOMAIN s = 1..n
       /\ \A k \in 1..n : LET e == fifo[nth(rsp, k - 1)]
                          IN  s[k] = [id |-> e.id, bad |-> e.error,
                                      done |-> turned(e) \/ (p = 1 /\ k = m + 1)]
  <2>1. \A k \in 1..n : q[k] \in R /\
          LET e == fifo[nth(rsp, k - 1)] IN q[k] = [id |-> e.id, bad |-> e.error, done |-> turned(e)]
    BY <1>12, ElementOfSeq DEF item, turned
  <2>2. CASE p = 0
    <3>1. s = q
      BY <1>15, <2>2
    <3>2. \A k \in 1..n : LET e == fifo[nth(rsp, k - 1)]
                          IN  turned(e) = (turned(e) \/ (p = 1 /\ k = m + 1))
      BY <2>2 DEF turned
    <3> QED
      BY <1>12, <2>1, <3>1, <3>2
  <2>3. CASE p = 1
    <3>1. m + 1 \in 1..n
      BY <1>5, <1>6, <2>3
    <3>2. PICK y \in R : y = q[m + 1]
      BY <2>1, <3>1
    <3>3. PICK x : x = [y EXCEPT !.done = TRUE]
      OBVIOUS
    <3>4. x \in R /\ x = [id |-> y.id, bad |-> y.bad, done |-> TRUE]
      BY <3>3 DEF Queue!Request
    <3>5. s = [q EXCEPT ![m + 1] = x]
      BY <1>15, <2>3, <3>2, <3>3
    <3>6. s \in Seq(R) /\ Len(s) = n /\ \A k \in 1..n : s[k] = IF k = m + 1 THEN x ELSE q[k]
      BY <1>12, <3>1, <3>4, <3>5, ExceptSeq
    <3>7. DOMAIN s = 1..n
      BY <3>6, LenProperties
    <3>8. ASSUME NEW k \in 1..n
          PROVE  LET e == fifo[nth(rsp, k - 1)]
                 IN  s[k] = [id |-> e.id, bad |-> e.error, done |-> turned(e) \/ (p = 1 /\ k = m + 1)]
      <4>1. PICK e : e = fifo[nth(rsp, k - 1)]
        OBVIOUS
      <4>2. q[k] = [id |-> e.id, bad |-> e.error, done |-> turned(e)]
        BY <2>1, <4>1
      <4>3. CASE k = m + 1
        <5>0. y.id = e.id /\ y.bad = e.error
          BY <3>2, <4>2, <4>3
        <5>1. s[k] = x
          BY <3>6, <4>3
        <5>3. s[k] = [id |-> e.id, bad |-> e.error, done |-> TRUE]
          BY <3>4, <5>0, <5>1
        <5>2. (turned(e) \/ (p = 1 /\ k = m + 1)) = TRUE
          BY <2>3, <4>3
        <5> QED
          BY <4>1, <5>2, <5>3
      <4>4. CASE k # m + 1
        <5>1. turned(e) = (turned(e) \/ (p = 1 /\ k = m + 1))
          BY <4>4 DEF turned
        <5> QED
          BY <3>6, <4>1, <4>2, <4>4, <5>1
      <4> QED
        BY <4>3, <4>4
    <3> QED
      BY <3>6, <3>7, <3>8
  <2> QED
    BY <1>5, <2>2, <2>3
<1>17. PICK r : r = [id |-> NewId, bad |-> comes(bus, new).error, done |-> FALSE]
  OBVIOUS
<1>18. ASSUME t = 1 PROVE r \in R /\ item(comes(bus, new)) = r
  <2>1. PICK e : e = comes(bus, new)
    OBVIOUS
  <2>2. Fresh(e)
    BY <1>1, <1>6, <1>7, <1>18, <2>1, ComesFresh
  <2>3. e.id = NewId /\ e.error \in BOOLEAN /\ (e.rpend \/ e.done) = FALSE
    BY <2>2 DEF Fresh, EntrySet
  <2>4. item(e) = r
    BY <1>17, <2>1, <2>3 DEF item
  <2>5. r \in R
    BY <1>17, <2>1, <2>3, NewIdIsFree DEF Queue!Request
  <2> QED
    BY <2>1, <2>4, <2>5
<1>19. PICK u : u = IF a = 1 THEN Tail(s) ELSE s
  OBVIOUS
<1>20. /\ u \in Seq(R) /\ Len(u) = n - a /\ \A j \in 1..n - a : u[j] = s[j + a]
       /\ q1 = IF t = 1 THEN Append(u, r) ELSE u
  <2>0. /\ \A k \in 1..n : k > a =>
             LET e == fifo[nth(rsp, k - 1)]
             IN  item(fifo'[nth(rsp', k - a - 1)]) =
                   [id |-> e.id, bad |-> e.error, done |-> turned(e) \/ (p = 1 /\ k = m + 1)]
        /\ t = 1 => fifo'[nth(rsp', n - a)] = comes(bus, new)
    BY <1>1, <1>3, <1>4, ItemStep
  <2>1. \A k \in 1..n : k > a => q1[k - a] = s[k]
    <3> SUFFICES ASSUME NEW k \in 1..n, k > a PROVE q1[k - a] = s[k]
      OBVIOUS
    <3>1. k - a \in 1..n1
      BY <1>5, <1>6, <1>8
    <3>2. q1[k - a] = item(fifo'[nth(rsp', k - a - 1)])
      BY <1>14, <3>1
    <3>3. LET e == fifo[nth(rsp, k - 1)]
          IN  item(fifo'[nth(rsp', k - a - 1)]) =
                [id |-> e.id, bad |-> e.error, done |-> turned(e) \/ (p = 1 /\ k = m + 1)]
      BY <2>0
    <3> QED
      BY <1>16, <3>2, <3>3
  <2>2. t = 1 => q1[n - a + 1] = r
    <3>1. t = 1 => n - a + 1 \in 1..n1 /\ (n - a + 1) - 1 = n - a
      BY <1>5, <1>6, <1>8
    <3> QED
      BY <1>14, <1>18, <2>0, <3>1
  <2> HIDE DEF R
  <2>3. Len(q1) = n + t - a /\ (t = 1 => r \in R)
    BY <1>8, <1>14, <1>18 DEF R
  <2>4. a \in {0, 1} /\ t \in {0, 1} /\ a <= n
    BY <1>5
  <2>5. n \in Nat /\ s \in Seq(R) /\ Len(s) = n /\ q1 \in Seq(R)
    BY <1>6, <1>14, <1>16
  <2>6. Moved(R, n, a, t, s, r, q1, u)
    BY <1>19, <2>1, <2>2, <2>3, <2>4, <2>5, QueueMoves
  <2> QED
    BY <2>6, Zenon DEF Moved
<1>21. IF p = 1 THEN m + 1 \in Queue!Turn(q) /\ dma_accessed' = IF q[m + 1].bad THEN {} ELSE {q[m + 1].id}
                 ELSE dma_accessed' = {}
  <2>1. dma_accessed' = IF dma_req(ready) THEN {fifo[rdp].id} ELSE {}
    BY <1>1 DEF Clock, Observed
  <2>2. CASE p # 1
    BY <1>7, <2>1, <2>2 DEF turn
  <2>3. CASE p = 1
    <3>1. m + 1 \in 1..n /\ place(rdp) = m
      BY <1>3, <1>5, <1>6, <1>7, <2>3, TurnIsFirst
    <3>2. nth(rsp, (m + 1) - 1) = rdp
      <4>1. nth(rsp, place(rdp)) = rdp
        BY <1>3, <1>6, Places
      <4>2. (m + 1) - 1 = m
        BY <1>6
      <4> QED
        BY <3>1, <4>1, <4>2
    <3>3. q[m + 1].id = fifo[rdp].id /\ q[m + 1].bad = fifo[rdp].error
      BY <1>12, <3>1, <3>2 DEF item
    <3>4. dma_req(ready) <=> ~fifo[rdp].error
      BY <1>7, <2>3 DEF turn, dma_req, dma_mem_req
    <3>5. \A k \in 1..n : q[k].done <=> k < m + 1
      <4> SUFFICES ASSUME NEW k \in 1..n PROVE q[k].done <=> k < m + 1
        OBVIOUS
      <4>1. PICK i : i = nth(rsp, k - 1)
        OBVIOUS
      <4>2. i \in Slots /\ place(i) = k - 1
        BY <1>3, <1>6, <4>1, ItemsTyped
      <4>3. q[k] = item(fifo[i])
        BY <1>12, <4>1
      <4>4. q[k].done = turned(fifo[i])
        BY <4>3 DEF item, turned
      <4>5. k - 1 < m <=> k < m + 1
        BY <1>6
      <4> QED
        BY <1>3, <1>6, <4>2, <4>4, <4>5, Places
    <3>6. Queue!Waiting(q) = {k \in 1..n : ~(k < m + 1)}
      BY <1>12, <3>5 DEF Queue!Waiting
    <3>7. m + 1 \in Queue!Turn(q)
      BY <1>6, <3>1, <3>6 DEF Queue!Turn
    <3> QED
      BY <2>1, <2>3, <3>3, <3>4, <3>7
  <2> QED
    BY <2>2, <2>3
<1>22. IF a = 1 THEN /\ s # <<>> /\ s[1].done
                     /\ dma_answered' = {[id |-> s[1].id, data |-> IF s[1].bad THEN 0 ELSE s[1].id]}
                ELSE dma_answered' = {}
  <2>1. CASE a # 1
    BY <1>1, <1>7, <2>1 DEF Clock, Observed
  <2>2. CASE a = 1
    <3>1. n > 0 /\ 1 \in 1..n /\ s # <<>>
      BY <1>5, <1>6, <1>16, <2>2
    <3>2. nth(rsp, 1 - 1) = rsp
      <4>1. place(rsp) = 0 /\ nth(rsp, place(rsp)) = rsp
        BY <1>3, <1>6, Places
      <4> QED
        BY <4>1
    <3>3. PICK e : e = fifo[rsp]
      OBVIOUS
    <3>4. s[1] = [id |-> e.id, bad |-> e.error, done |-> turned(e) \/ (p = 1 /\ 1 = m + 1)]
      BY <1>16, <3>1, <3>2, <3>3
    <3>5. s[1].done
      <4>1. m > 0 => turned(e)
        <5>1. place(rsp) = 0 /\ (turned(fifo[rsp]) <=> place(rsp) < m)
          BY <1>3, <1>6, Places
        <5> QED
          BY <1>6, <3>3, <5>1
      <4>2. m > 0 \/ (p = 1 /\ 1 = m + 1)
        BY <1>5, <1>6, <2>2
      <4>3. PICK b : b = (turned(e) \/ (p = 1 /\ 1 = m + 1))
        OBVIOUS
      <4>4. b = TRUE
        BY <4>1, <4>2, <4>3
      <4>5. s[1] = [id |-> e.id, bad |-> e.error, done |-> b]
        BY <3>4, <4>3
      <4> QED
        BY <4>4, <4>5
    <3>6. dma_answered' = {[id |-> e.id, data |-> IF e.error THEN 0 ELSE IF e.write THEN e.id ELSE e.data]}
      BY <1>1, <1>7, <2>2, <3>3 DEF Clock, Observed
    <3>7. ~e.write /\ ~e.error => e.data = e.id
      BY <1>1, <1>3, <1>7, <2>2, <3>3, AnswerIsDue
    <3>8. s[1].id = e.id /\ s[1].bad = e.error
      BY <3>4
    <3>9. (IF e.error THEN 0 ELSE IF e.write THEN e.id ELSE e.data) = IF s[1].bad THEN 0 ELSE s[1].id
      BY <3>7, <3>8
    <3> QED
      BY <2>2, <3>1, <3>5, <3>6, <3>8, <3>9
  <2> QED
    BY <2>1, <2>2
<1>23. q1 = u \/ (t = 1 /\ r \in R /\ ~r.done /\ (\A i \in DOMAIN u : u[i].id # r.id)
                  /\ Len(u) < DMA_BUF_DEPTH /\ q1 = Append(u, r))
  <2> SUFFICES ASSUME t = 1 PROVE ~r.done /\ (\A i \in DOMAIN u : u[i].id # r.id) /\ Len(u) < DMA_BUF_DEPTH
    BY <1>18, <1>20
  <2>1. ~r.done /\ r.id = NewId
    BY <1>17
  <2>2. Len(u) < DMA_BUF_DEPTH
    BY <1>5, <1>6, <1>20
  <2>3. DOMAIN u = 1..n - a
    BY <1>20, LenProperties
  <2>4. ASSUME NEW i \in 1..n - a PROVE u[i].id # r.id
    <3>1. PICK k \in 1..n : k = i + a
      BY <1>5, <1>6
    <3>2. PICK l : l = nth(rsp, k - 1)
      OBVIOUS
    <3>3. l \in Slots /\ fifo[l].valid
      BY <1>3, <1>6, <3>2, ItemsTyped
    <3>4. u[i].id = fifo[l].id
      BY <1>16, <1>20, <3>1, <3>2
    <3> QED
      BY <2>1, <3>3, <3>4, NewIdIsFree
  <2> QED
    BY <2>1, <2>2, <2>3, <2>4
<1> HIDE DEF R
<1>24. q1 = u \/ Queue!Takes(u)
  BY <1>13, <1>23 DEF Queue!Takes, R
<1>25. IF a = 1 THEN u = Tail(s) /\ Queue!Answers(s, u) ELSE u = s /\ dma_answered' = {}
  BY <1>19, <1>22 DEF Queue!Answers
<1>26. IF p = 1 THEN /\ m + 1 \in Queue!Turn(q) /\ m + 1 # 0 /\ s = [q EXCEPT ![m + 1].done = TRUE]
                     /\ Queue!Performs(m + 1, s)
                ELSE s = q /\ dma_accessed' = {}
  BY <1>6, <1>11, <1>15, <1>21 DEF Queue!Performs
<1>27. PICK i \in {0} \cup Queue!Turn(q) :
         /\ s = IF i = 0 THEN q ELSE [q EXCEPT ![i].done = TRUE]
         /\ IF i = 0 THEN dma_accessed' = {} ELSE Queue!Performs(i, s)
  <2>1. CASE p = 1
    BY <1>26, <2>1
  <2>2. CASE p # 1
    BY <1>26, <2>2
  <2> QED
    BY <2>1, <2>2
<1>28. \/ dma_answered' = {} /\ (Queued' = s \/ Queue!Takes(s))
       \/ Queue!Answers(s, Tail(s)) /\ (Queued' = Tail(s) \/ Queue!Takes(Tail(s)))
  <2>1. CASE a = 1
    BY <1>13, <1>24, <1>25, <2>1
  <2>2. CASE a # 1
    BY <1>13, <1>24, <1>25, <2>2
  <2> QED
    BY <2>1, <2>2
<1> QED
  BY <1>11, <1>27, <1>28 DEF Queue!Next

(* The controller implements its queue: every request is performed once, in the order
   in which it was taken, or not at all if it had an error, and is answered in that
   order with what its own access returned. *)
THEOREM ImplementsItsQueue == DmaSpec => DmaImplementsQueue
<1>1. DmaInit => Queue!Init
  <2> SUFFICES ASSUME DmaInit PROVE Queue!Init
    OBVIOUS
  <2>1. 0 \in Slots /\ 0 \in 0..DMA_BUF_DEPTH /\ rsp = 0
    BY Depth DEF DmaInit, Slots
  <2>2. \A i \in Slots : fifo[i].valid <=> (i - rsp) % DMA_BUF_DEPTH < 0
    <3>1. \A i \in Slots : fifo[i].valid = FALSE
      BY EmptyIsEntry DEF DmaInit, EmptyFields
    <3>2. \A i \in Slots : (i - rsp) % DMA_BUF_DEPTH \in 0..DMA_BUF_DEPTH - 1
      BY <2>1, Place DEF Slots
    <3> QED
      BY <3>1, <3>2, Depth
  <2>3. Queued = items(fifo, rsp, 0)
    <3>1. Queued = queued(fifo, rsp)
      BY DEF Queued, queued
    <3> QED
      BY <2>1, <2>2, <3>1, QueuedItems
  <2>4. Queued = <<>>
    <3>1. \A k \in 1..0 : item(fifo[nth(rsp, k - 1)]) \in Queue!Request
      OBVIOUS
    <3>2. PICK q \in Seq(Queue!Request) : q = Queued /\ Len(q) = 0
      BY <2>1, <2>3, <3>1, ItemsOf
    <3> QED
      BY <3>2
  <2> QED
    BY <2>4 DEF DmaInit, Queue!Init
<1>2. DmaInv /\ DmaInv' /\ [DmaNext]_dmaVars => [Queue!Next]_(Queue!vars)
  <2>1. ASSUME UNCHANGED dmaVars PROVE UNCHANGED Queue!vars
    BY <2>1 DEF dmaVars, Queue!vars, Queued
  <2> QED
    BY <2>1, QueueStep
<1> QED
  BY <1>1, <1>2, QueueInTheRing, PTL DEF DmaSpec, DmaImplementsQueue, Queue!Spec

============================================================================
