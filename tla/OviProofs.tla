------------------------------ MODULE OviProofs ------------------------------
(***************************************************************************)
(* Lemmas about the OVI bridge and the VPU behind it, whatever core the    *)
(* bridge is in: the arithmetic of its wires, its types, and the chunk a    *)
(* load puts together.  OviTopProofs uses them for the harness and          *)
(* SwervOviProofs for the SweRV core.                                      *)
(***************************************************************************)
EXTENDS Ovi, Vpu, TLAPS

-----------------------------------------------------------------------------
(* Arithmetic.                                                               *)

LEMMA DivNat == ASSUME NEW n \in Nat, NEW d \in Nat \ {0} PROVE n \div d \in Nat
  OBVIOUS

LEMMA ModRange == ASSUME NEW n \in Int, NEW d \in Nat \ {0} PROVE n % d \in 0..d - 1
  OBVIOUS

LEMMA DivEuclid ==
  ASSUME NEW n \in Int, NEW k \in Nat \ {0}
  PROVE  n = k * (n \div k) + (n % k) /\ n % k \in 0..k - 1 /\ n \div k \in Int
  OBVIOUS

LEMMA DivUnique ==
  ASSUME NEW k \in Nat \ {0}, NEW a \in Int, NEW r \in 0..k - 1
  PROVE  (a * k + r) \div k = a
<1> DEFINE n == a * k + r
           b == n \div k
           s == n % k
<1>1. n \in Int
  OBVIOUS
<1>2. n = k * b + s /\ s \in 0..k - 1 /\ b \in Int
  BY <1>1, DivEuclid
<1>3. ASSUME NEW c \in Int, NEW d \in Int, c >= d + 1 PROVE c * k >= d * k + k
  <2>1. PICK e \in Nat : c = d + 1 + e
    <3>1. c - d - 1 \in Nat /\ c = d + 1 + (c - d - 1)
      BY <1>3
    <3> QED
      BY <3>1
  <2>2. c * k = d * k + k + e * k /\ e * k >= 0
    BY <2>1
  <2>3. c * k \in Int /\ d * k \in Int /\ e * k \in Int
    OBVIOUS
  <2> QED
    BY <2>2, <2>3
<1>4. a * k \in Int /\ b * k \in Int /\ k * b = b * k
  BY <1>2
<1>5. a * k + r = b * k + s
  BY <1>2, <1>4
<1> HIDE DEF n, b, s
<1>6. ~(a >= b + 1)
  BY <1>2, <1>3, <1>4, <1>5
<1>7. ~(b >= a + 1)
  BY <1>2, <1>3, <1>4, <1>5
<1>8. a = b
  BY <1>2, <1>6, <1>7
<1> QED
  BY <1>8 DEF b, n

LEMMA DivSum ==
  ASSUME NEW k \in Nat \ {0}, NEW a \in Int, NEW b \in Int
  PROVE  (a * k + b) \div k = a + b \div k
<1>1. b = k * (b \div k) + (b % k) /\ b % k \in 0..k - 1 /\ b \div k \in Int
  BY DivEuclid
<1> DEFINE q == b \div k
           r == b % k
<1> HIDE DEF q, r
<1>2. b = k * q + r /\ r \in 0..k - 1 /\ q \in Int
  BY <1>1 DEF q, r
<1>3. a * k + b = (a + q) * k + r
  BY <1>2
<1>4. ((a + q) * k + r) \div k = a + q
  BY <1>2, DivUnique
<1> QED
  BY <1>3, <1>4 DEF q

LEMMA DivStep ==
  ASSUME NEW k \in Nat \ {0}, NEW n \in Nat
  PROVE  /\ (n + 1) % k = 0 => (n + 1) \div k = n \div k + 1
         /\ (n + 1) % k # 0 => (n + 1) \div k = n \div k
         /\ n % k = k - 1 <=> (n + 1) % k = 0
  OBVIOUS

LEMMA DivBelow ==
  ASSUME NEW k \in Nat \ {0}, NEW a \in Nat, NEW b \in Nat, a < b * k
  PROVE  a \div k \in 0..b - 1
<1> DEFINE q == a \div k
           r == a % k
<1>1. a = k * q + r /\ r \in 0..k - 1 /\ q \in Nat
  <2>1. q \in Nat
    BY DivNat
  <2>2. a \in Int
    OBVIOUS
  <2> QED
    BY <2>1, <2>2, DivEuclid
<1> HIDE DEF q, r
<1>2. ASSUME b <= q PROVE FALSE
  <2>1. PICK e \in Nat : q = b + e
    <3>1. q - b \in Nat /\ q = b + (q - b)
      BY <1>1, <1>2
    <3> QED
      BY <3>1
  <2>2. k * q = b * k + e * k /\ e * k >= 0
    BY <2>1
  <2>3. k * q \in Int /\ b * k \in Int /\ e * k \in Int
    BY <1>1, <2>1
  <2> QED
    BY <1>1, <2>2, <2>3
<1>3. q \in 0..b - 1
  BY <1>1, <1>2
<1> QED
  BY <1>3 DEF q

LEMMA LessByFactor ==
  ASSUME NEW k \in Nat \ {0}, NEW a \in Nat, NEW b \in Nat, a < b
  PROVE  a * k < b * k
<1>1. PICK e \in Nat : b = a + 1 + e
  <2>1. b - a - 1 \in Nat /\ b = a + 1 + (b - a - 1)
    OBVIOUS
  <2> QED
    BY <2>1
<1>2. b * k = a * k + k + e * k /\ e * k >= 0
  BY <1>1
<1>3. a * k \in Int /\ b * k \in Int /\ e * k \in Int
  OBVIOUS
<1> QED
  BY <1>2, <1>3

LEMMA TimesAssoc ==
  ASSUME NEW a \in Nat, NEW b \in Nat, NEW c \in Nat
  PROVE  a * (b * c) = (a * b) * c + 0
<1>1. a * b \in Nat
  OBVIOUS
<1>2. (a * b) * c \in Nat
  BY <1>1
<1>3. a * (b * c) = (a * b) * c
  OBVIOUS
<1> QED
  BY <1>2, <1>3

-----------------------------------------------------------------------------
(* The wires.                                                                *)

(* An element has a width of 8 to 64 bits. *)
LEMMA InstrBits ==
  ASSUME NEW s \in Sews PROVE instrbits(s) \in {8, 16, 32, 64}
  BY DEF Sews, instrbits

(* A chunk holds at least one element. *)
LEMMA ChunkElementsPositive ==
  ASSUME NEW s \in Sews PROVE ChunkElements(s) \in Nat \ {0}
<1> DEFINE bits == SubPackets * PacketBits
<1>1. bits \in Nat /\ bits >= 64
  BY OviAssumption
<1>2. \A b \in Nat : b >= 64 =>
        /\ b \div 8 \in Nat \ {0} /\ b \div 16 \in Nat \ {0}
        /\ b \div 32 \in Nat \ {0} /\ b \div 64 \in Nat \ {0}
  OBVIOUS
<1> HIDE DEF bits
<1>3. bits \div instrbits(s) \in Nat \ {0}
  BY <1>1, <1>2, InstrBits
<1> QED
  BY <1>3 DEF ChunkElements, bits

LEMMA PacketsOfNat ==
  ASSUME NEW i \in Instructions PROVE PacketsOf(i) \in Nat
<1>1. i.vl \in Nat /\ i.sew \in Sews
  BY DEF Instructions
<1>2. instrbits(i.sew) \in Nat
  BY <1>1, InstrBits
<1>3. i.vl * instrbits(i.sew) \in Nat
  BY <1>1, <1>2
<1>4. (i.vl * instrbits(i.sew)) % 65536 \in Nat
  BY <1>3
<1> QED
  BY <1>4, DivNat, OviAssumption DEF PacketsOf

(* The tag of the last instruction is the scoreboard id before the next one. *)
LEMMA TagOfLast ==
  ASSUME NEW c \in 0..SbIds - 1
  PROVE  (((c + 1) % SbIds) - 1) % SbIds = c
<1> DEFINE n == SbIds
<1>1. n \in Nat /\ n > 0 /\ c \in 0..n - 1
  BY OviAssumption
<1> HIDE DEF n
<1>2. ASSUME NEW a \in 0..n - 1 PROVE a % n = a
  BY <1>1
<1>3. (c + 1) % n = IF c + 1 = n THEN 0 ELSE c + 1
  <2>1. CASE c + 1 = n
    BY <1>1, <2>1
  <2>2. CASE c + 1 # n
    <3>1. c + 1 \in 0..n - 1
      BY <1>1, <2>2
    <3> QED
      BY <1>2, <2>2, <3>1
  <2> QED
    BY <2>1, <2>2
<1>4. (-1) % n = n - 1
  BY <1>1
<1>5. (((c + 1) % n) - 1) % n = c
  <2>1. CASE c + 1 = n
    BY <1>1, <1>3, <1>4, <2>1
  <2>2. CASE c + 1 # n
    <3>1. ((c + 1) % n) - 1 = c
      BY <1>1, <1>3, <2>2
    <3> QED
      BY <1>1, <1>2, <3>1
  <2> QED
    BY <2>1, <2>2
<1> QED
  BY <1>5 DEF n

-----------------------------------------------------------------------------
(* Types.                                                                    *)

LEMMA CreditsType ==
  ASSUME OviTypeOK, NEW issued \in BOOLEAN, NEW returned \in BOOLEAN,
         issued => issue_credits > 0, Credits(issued, returned)
  PROVE  issue_credits' \in 0..15
BY DEF OviTypeOK, Credits

LEMMA NoPulsesType ==
  ASSUME NoPulses
  PROVE  /\ send_load_petition' \in BOOLEAN /\ send_store_petition' \in BOOLEAN
         /\ vpu_send_store_credit' \in BOOLEAN
         /\ sync_end' \in BOOLEAN /\ buffer_load_ready' \in BOOLEAN
BY DEF NoPulses

LEMMA CountPetitionType ==
  ASSUME OviTypeOK, NEW on_bus \in BOOLEAN, CountPetition(on_bus)
  PROVE  addr_offset' \in Nat /\ sent_packets' \in Nat
<1>1. instrbits(instr.sew) \div 8 \in Nat
  BY InstrBits DEF Instructions, OviTypeOK
<1> QED
  BY <1>1 DEF CountPetition, OviTypeOK

LEMMA OviTypeStep ==
  ASSUME OviTypeOK, NEW core, NEW resp, NEW vpu, OviEdge(core, resp, vpu),
         core.issue \in Instructions, vpu.credit \in BOOLEAN
  PROVE  OviTypeOK'
<1>1. CASE Idle(core.valid, vpu.credit)
  <2>1. issue_credits' \in 0..15
    BY <1>1, CreditsType DEF Idle
  <2>2. UNCHANGED <<curr_state, sbid_counter, instr, counters, buffers>>
    BY <1>1 DEF Idle
  <2> QED
    BY <1>1, <2>1, <2>2, NoPulsesType DEF Idle, OviTypeOK, counters, buffers
<1>2. CASE Issue(core.valid, core.issue, vpu.credit)
  <2>1. issue_credits' \in 0..15
    BY <1>2, CreditsType DEF Issue, VPU_ISSUE
  <2>2. n_packets' \in Nat /\ sbid_counter' \in 0..SbIds - 1
    BY <1>2, PacketsOfNat, ModRange, OviAssumption DEF Issue, next_sb_id, OviTypeOK
  <2>3. /\ curr_state' \in OviStates /\ instr' \in Instructions
        /\ sent_packets' = 0 /\ load_packets' = 0 /\ addr_offset' = 0
        /\ UNCHANGED buffers
    BY <1>2 DEF Issue, OviStates
  <2> QED
    BY <1>2, <2>1, <2>2, <2>3, NoPulsesType DEF Issue, OviTypeOK, buffers
<1>3. CASE Answer(vpu.completed, vpu.sync_start, vpu.credit)
  <2>1. issue_credits' \in 0..15
    BY <1>3, CreditsType DEF Answer
  <2>2. curr_state' \in OviStates /\ buffer_store_index' \in 0..63
    BY <1>3 DEF Answer, StartMemory, memory_state, OviTypeOK, OviStates
  <2>3. UNCHANGED <<sbid_counter, instr, counters, el_id, el_count, BUFFER_LOAD, BUFFER_STORE>>
    BY <1>3 DEF Answer
  <2> QED
    BY <1>3, <2>1, <2>2, <2>3, NoPulsesType DEF Answer, OviTypeOK, counters
<1>4. CASE ReceiveData(resp.ready, vpu.store_valid, vpu.store_data, vpu.credit)
  <2>1. issue_credits' \in 0..15
    BY <1>4, CreditsType DEF ReceiveData
  <2>2. addr_offset' \in Nat /\ sent_packets' \in Nat
    BY <1>4, CountPetitionType DEF ReceiveData, OviTypeOK
  <2>3. /\ send_store_petition' \in BOOLEAN /\ send_load_petition' \in BOOLEAN
        /\ vpu_send_store_credit' \in BOOLEAN
        /\ sync_end' \in BOOLEAN /\ buffer_load_ready' \in BOOLEAN
    BY <1>4 DEF ReceiveData
  <2>4. DOMAIN BUFFER_STORE' = 0..StoreDepth - 1
    BY <1>4 DEF ReceiveData, OviTypeOK
  <2>7. buffer_store_index' \in 0..63
    <3>1. buffer_store_index' \in {buffer_store_index, (buffer_store_index + 1) % 64}
      BY <1>4 DEF ReceiveData
    <3> QED
      BY <3>1 DEF OviTypeOK
  <2>6. curr_state' \in OviStates
    BY <1>4 DEF ReceiveData, OviTypeOK, OviStates
  <2>5. UNCHANGED <<sbid_counter, instr, n_packets, load_packets, el_id, el_count, BUFFER_LOAD>>
    BY <1>4 DEF ReceiveData
  <2> QED
    BY <2>1, <2>2, <2>3, <2>4, <2>5, <2>6, <2>7 DEF OviTypeOK
<1>5. CASE SendData(resp.ready, resp.valid, resp.data, vpu.credit)
  <2>1. issue_credits' \in 0..15
    BY <1>5, CreditsType DEF SendData
  <2>2. addr_offset' \in Nat /\ sent_packets' \in Nat
    BY <1>5, CountPetitionType DEF SendData, OviTypeOK
  <2>3. /\ send_store_petition' \in BOOLEAN /\ send_load_petition' \in BOOLEAN
        /\ vpu_send_store_credit' \in BOOLEAN
        /\ sync_end' \in BOOLEAN /\ buffer_load_ready' \in BOOLEAN
    BY <1>5 DEF SendData
  <2>4. ChunkElements(instr.sew) \in Nat \ {0}
    BY ChunkElementsPositive DEF Instructions, OviTypeOK
  <2>5. load_chunk \in Nat /\ extra_elements \in Nat
    <3>1. load_packets \in Nat /\ instr.vl \in Nat /\ SubPackets \in Nat \ {0}
      BY OviAssumption DEF OviTypeOK, Instructions
    <3>2. load_packets \div SubPackets \in Nat
      BY <3>1, DivNat
    <3>3. instr.vl % ChunkElements(instr.sew) \in Nat
      BY <2>4, <3>1
    <3> QED
      BY <3>2, <3>3 DEF load_chunk, extra_elements
  <2>6. el_id' \in Nat /\ el_count' \in Nat
    <3>1. \/ UNCHANGED <<el_id, el_count>>
          \/ /\ el_id' = load_chunk * ChunkElements(instr.sew)
             /\ el_count' \in {extra_elements, ChunkElements(instr.sew)}
      BY <1>5 DEF SendData
    <3> QED
      BY <2>4, <2>5, <3>1 DEF OviTypeOK
  <2>7. /\ DOMAIN BUFFER_LOAD' = 0..SubPackets - 1
        /\ load_packets' \in Nat
        /\ curr_state' \in OviStates
    BY <1>5 DEF SendData, OviTypeOK, OviStates
  <2>8. UNCHANGED <<sbid_counter, instr, n_packets, buffer_store_index, BUFFER_STORE>>
    BY <1>5 DEF SendData
  <2> QED
    BY <2>1, <2>2, <2>3, <2>6, <2>7, <2>8 DEF OviTypeOK
<1> QED
  BY <1>1, <1>2, <1>3, <1>4, <1>5 DEF OviEdge

LEMMA VpuTypeStep ==
  ASSUME VpuTypeOK, NEW issue_valid, NEW issue, NEW sb, NEW per, NEW store_credit, NEW ended,
         VpuEdge(issue_valid, issue, sb, per, store_credit, ended)
  PROVE  VpuTypeOK'
<1>1. ASSUME NEW a, GiveCredit(a) PROVE vpu_owed' \in Nat /\ vpu_credit' \in BOOLEAN
  <2>1. vpu_credit' \in BOOLEAN /\ (vpu_owed = 0 => ~vpu_credit')
    BY <1>1 DEF GiveCredit
  <2>2. CASE vpu_credit'
    BY <1>1, <2>1, <2>2 DEF GiveCredit, VpuTypeOK
  <2>3. CASE ~vpu_credit'
    BY <1>1, <2>1, <2>3 DEF GiveCredit, VpuTypeOK
  <2> QED
    BY <2>1, <2>2, <2>3
<1>2. GiveCredit(TRUE) \/ GiveCredit(FALSE)
  BY DEF VpuEdge, VpuAccept, VpuIdle, VpuWait, VpuComplete, VpuStartMemory, VpuMemory
<1>3. /\ vpu_completed' \in BOOLEAN
      /\ vpu_sync_start' \in BOOLEAN
      /\ vpu_store_valid' \in BOOLEAN
  BY DEF VpuEdge, VpuAccept, VpuIdle, VpuWait, VpuComplete, VpuStartMemory, VpuMemory,
         Silent
<1>4. vpu_state' \in {"IDLE", "BUSY", "MEMORY", "DRAIN"}
  BY DEF VpuEdge, VpuAccept, VpuIdle, VpuWait, VpuComplete, VpuStartMemory, VpuMemory,
         VpuTypeOK
<1>5. vpu_timer' \in Nat
  <2>1. \/ vpu_timer' \in VpuLatencies
        \/ vpu_timer' \in {vpu_timer, 0}
        \/ vpu_timer > 0 /\ vpu_timer' = vpu_timer - 1
    BY DEF VpuEdge, VpuAccept, VpuIdle, VpuWait, VpuComplete, VpuStartMemory, VpuMemory
  <2>2. vpu_timer \in Nat
    BY DEF VpuTypeOK
  <2>3. vpu_timer > 0 => vpu_timer - 1 \in Nat
    BY <2>2
  <2>4. vpu_timer' \in VpuLatencies => vpu_timer' \in Nat
    BY VpuAssumption
  <2> QED
    BY <2>1, <2>2, <2>3, <2>4
<1>6. vpu_chunks' \in Nat
  <2>1. vpu_chunks' \in {0, vpu_chunks, vpu_chunks + 1}
    BY DEF VpuEdge, VpuAccept, VpuIdle, VpuWait, VpuComplete, VpuStartMemory, VpuMemory
  <2> QED
    BY <2>1 DEF VpuTypeOK
<1>7. vpu_store_credits' \in Int
  <2>1. \/ vpu_store_credits' = vpu_store_credits
        \/ VpuMemory(issue_valid, per, store_credit, ended)
    BY DEF VpuEdge, VpuAccept, VpuIdle, VpuWait, VpuComplete, VpuStartMemory
  <2>2. CASE VpuMemory(issue_valid, per, store_credit, ended)
    <3>1. \E a, b \in {0, 1} : vpu_store_credits' = vpu_store_credits + a - b
      BY <2>2 DEF VpuMemory
    <3> QED
      BY <3>1 DEF VpuTypeOK
  <2> QED
    BY <2>1, <2>2 DEF VpuTypeOK
<1> QED
  BY <1>1, <1>2, <1>3, <1>4, <1>5, <1>6, <1>7 DEF VpuTypeOK

-----------------------------------------------------------------------------
(* The chunk of a load.  filling is the chunk that is being put together, or is
   on the VPU bus; w holds the words of the load, in the order of its packets.   *)

per_chunk == ChunkElements(instr.sew)
filling ==
  IF buffer_load_ready THEN (load_packets - 1) \div SubPackets ELSE load_packets \div SubPackets
loading == vpu_state = "MEMORY" /\ instr.kind = "load" /\ ~vpu_sync_start

ChunkCounts ==
  /\ load_packets <= n_packets /\ (sync_end <=> load_packets = n_packets)
  /\ sync_end => buffer_load_ready
  /\ buffer_load_ready =>
       /\ load_packets > 0
       /\ el_id = filling * per_chunk
       /\ el_count = IF sync_end THEN extra_elements ELSE per_chunk
       /\ ~sync_end => load_packets % SubPackets = 0
ChunkHolds(w) ==
  \A s \in 0..SubPackets - 1 : s < load_packets - filling * SubPackets =>
    BUFFER_LOAD[s] = w[filling * SubPackets + s]

(* A chunk is whole elements of every width. *)
WholeElements == (SubPackets * PacketBits) % 64 = 0

(* The bits of the vector fit the 16 bits of the shift that counts its packets. *)
FitsShift(i) == i.vl * instrbits(i.sew) < 65536

LEMMA LoadWidths ==
  ASSUME OviTypeOK
  PROVE  /\ per_chunk \in Nat \ {0} /\ extra_elements \in 0..per_chunk - 1
         /\ SubPackets \in Nat \ {0} /\ load_packets \in Nat /\ n_packets \in Nat
<1>1. instr.vl \in Nat /\ instr.sew \in Sews /\ load_packets \in Nat /\ n_packets \in Nat
  BY DEF OviTypeOK, Instructions
<1>2. per_chunk \in Nat \ {0}
  BY <1>1, ChunkElementsPositive DEF per_chunk
<1>3. extra_elements \in 0..per_chunk - 1
  <2>1. instr.vl % per_chunk \in 0..per_chunk - 1
    BY <1>1, <1>2
  <2> QED
    BY <2>1 DEF extra_elements, per_chunk
<1> QED
  BY <1>1, <1>2, <1>3, OviAssumption

(* Nothing of the load is there yet. *)
LEMMA ChunkIsEmpty ==
  ASSUME load_packets' = 0, n_packets' \in Nat \ {0}, ~buffer_load_ready', ~sync_end'
  PROVE  ChunkCounts' /\ filling' = 0 /\ \A w : ChunkHolds(w)'
<1>1. SubPackets \in Nat \ {0}
  BY OviAssumption
<1>2. filling' = 0
  BY <1>1 DEF filling
<1>3. ASSUME NEW w PROVE ChunkHolds(w)'
  <2>1. ~(\E s \in 0..SubPackets - 1 : s < load_packets' - filling' * SubPackets)
    BY <1>1, <1>2
  <2> QED
    BY <2>1 DEF ChunkHolds
<1>4. ChunkCounts'
  BY <1>1 DEF ChunkCounts
<1> QED
  BY <1>2, <1>3, <1>4

(* The number of a packet, by its chunk and its place in it. *)
LEMMA PlaceInChunk ==
  ASSUME OviTypeOK
  PROVE  /\ load_packets = SubPackets * load_chunk + load_chunk_offset
         /\ load_chunk \in Nat /\ load_chunk_offset \in 0..SubPackets - 1
         /\ SubPackets * load_chunk \in Nat /\ load_chunk * SubPackets = SubPackets * load_chunk
<1> DEFINE f == load_packets \div SubPackets
           r == load_packets % SubPackets
<1>1. SubPackets \in Nat \ {0} /\ load_packets \in Nat
  BY LoadWidths
<1>2. load_packets = SubPackets * f + r /\ r \in 0..SubPackets - 1
  BY <1>1, DivEuclid
<1>3. f \in Nat
  BY <1>1, DivNat
<1> HIDE DEF f, r
<1>4. SubPackets * f \in Nat /\ f * SubPackets = SubPackets * f
  BY <1>1, <1>3
<1> QED
  BY <1>2, <1>3, <1>4 DEF f, r, load_chunk, load_chunk_offset

(* Which chunk is filled next. *)
LEMMA ChunkOfNext ==
  ASSUME OviTypeOK, ChunkCounts, ~sync_end
  PROVE  /\ ~buffer_load_ready => filling = load_chunk
         /\ buffer_load_ready => /\ load_chunk = filling + 1 /\ filling \in Nat
                                 /\ load_chunk_offset = 0
<1>1. SubPackets \in Nat \ {0} /\ load_packets \in Nat
  BY LoadWidths
<1>2. ASSUME buffer_load_ready
      PROVE  load_chunk = filling + 1 /\ filling \in Nat /\ load_chunk_offset = 0
  <2>1. load_packets > 0 /\ load_packets % SubPackets = 0
    BY <1>2 DEF ChunkCounts
  <2>2. load_packets - 1 \in Nat /\ (load_packets - 1) + 1 = load_packets
    BY <1>1, <2>1
  <2>3. load_packets \div SubPackets = (load_packets - 1) \div SubPackets + 1
    <3>1. PICK n \in Nat : n = load_packets - 1 /\ n + 1 = load_packets
      BY <2>2
    <3>2. (n + 1) % SubPackets = 0
      BY <2>1, <3>1
    <3>3. (n + 1) \div SubPackets = n \div SubPackets + 1
      BY <1>1, <3>2, DivStep
    <3> QED
      BY <3>1, <3>3
  <2>4. (load_packets - 1) \div SubPackets \in Nat
    BY <1>1, <2>2, DivNat
  <2> QED
    BY <1>2, <2>1, <2>3, <2>4 DEF filling, load_chunk, load_chunk_offset
<1> QED
  BY <1>2 DEF filling, load_chunk

(* In SEND_DATA an answer is put in its place of the chunk, and a chunk that is full,
   or the last one, goes to the VPU. *)
LEMMA ChunkSends ==
  ASSUME OviTypeOK, ChunkCounts, ~sync_end, NEW ready, NEW valid, NEW data, NEW credit,
         SendData(ready, valid, data, credit)
  PROVE  ChunkCounts' /\ filling' = load_chunk
<1> DEFINE full == valid /\ last_load_chunk_offset
           last == valid /\ last_load_packet
           f == load_chunk
           r == load_chunk_offset
<1>1. /\ per_chunk \in Nat \ {0} /\ extra_elements \in 0..per_chunk - 1
      /\ SubPackets \in Nat \ {0} /\ load_packets \in Nat /\ n_packets \in Nat
  BY LoadWidths
<1>2. load_packets <= n_packets /\ load_packets # n_packets
  BY DEF ChunkCounts
<1>3. /\ buffer_load_ready' = full /\ sync_end' = last
      /\ full => /\ el_id' = f * per_chunk
                 /\ el_count' = IF last THEN extra_elements ELSE per_chunk
      /\ load_packets' = IF valid THEN load_packets + 1 ELSE load_packets
      /\ UNCHANGED <<instr, n_packets>>
  BY DEF SendData, per_chunk
<1>4. per_chunk' = per_chunk /\ extra_elements' = extra_elements
  BY <1>3 DEF per_chunk, extra_elements
<1>5. /\ r = SubPackets - 1 <=> (load_packets + 1) % SubPackets = 0
      /\ (load_packets + 1) % SubPackets # 0 => (load_packets + 1) \div SubPackets = f
      /\ f = load_packets \div SubPackets
  BY <1>1, DivStep DEF load_chunk, load_chunk_offset
<1>6. /\ full <=> valid /\ (load_packets + 1 = n_packets \/ r = SubPackets - 1)
      /\ last <=> valid /\ load_packets + 1 = n_packets
  BY DEF last_load_chunk_offset, last_load_packet
<1> HIDE DEF full, last, f, r
<1>7. filling' = f
  <2>1. CASE full
    <3>1. load_packets' - 1 = load_packets
      BY <1>1, <1>3, <1>6, <2>1
    <3> QED
      BY <1>3, <1>5, <2>1, <3>1 DEF filling
  <2>2. CASE valid /\ ~full
    BY <1>3, <1>5, <1>6, <2>2 DEF filling
  <2>3. CASE ~valid
    BY <1>3, <1>5, <1>6, <2>3 DEF filling
  <2> QED
    BY <2>1, <2>2, <2>3
<1>8. /\ load_packets' <= n_packets' /\ (sync_end' <=> load_packets' = n_packets')
      /\ sync_end' => buffer_load_ready'
  <2>1. CASE valid
    BY <1>1, <1>2, <1>3, <1>6, <2>1
  <2>2. CASE ~valid
    BY <1>1, <1>2, <1>3, <1>6, <2>2
  <2> QED
    BY <2>1, <2>2
<1>9. ASSUME full
      PROVE  /\ load_packets' > 0 /\ el_id' = filling' * per_chunk'
             /\ el_count' = IF sync_end' THEN extra_elements' ELSE per_chunk'
             /\ ~sync_end' => load_packets' % SubPackets = 0
  <2>1. valid /\ load_packets' = load_packets + 1
    BY <1>3, <1>6, <1>9
  <2>2. ~last => load_packets' % SubPackets = 0
    BY <1>5, <1>6, <1>9, <2>1
  <2>3. load_packets' > 0
    BY <1>1, <2>1
  <2> QED
    BY <1>3, <1>4, <1>7, <1>9, <2>2, <2>3
<1> QED
  BY <1>3, <1>7, <1>8, <1>9 DEF ChunkCounts, f

LEMMA WordsStored ==
  ASSUME OviTypeOK, ChunkCounts, ~sync_end, NEW ready, NEW valid, NEW data, NEW credit,
         SendData(ready, valid, data, credit),
         NEW w, ChunkHolds(w), valid => data = w[load_packets]
  PROVE  ChunkHolds(w)'
<1> DEFINE f == load_chunk
           r == load_chunk_offset
<1>1. /\ load_packets = SubPackets * f + r /\ f \in Nat /\ r \in 0..SubPackets - 1
      /\ SubPackets * f \in Nat /\ f * SubPackets = SubPackets * f
      /\ SubPackets \in Nat \ {0} /\ load_packets \in Nat
  BY PlaceInChunk, LoadWidths
<1>2. /\ filling' = f /\ (~buffer_load_ready => filling = f)
      /\ buffer_load_ready => r = 0
  BY ChunkSends, ChunkOfNext
<1>3. IF valid
      THEN BUFFER_LOAD' = [BUFFER_LOAD EXCEPT ![r] = data] /\ load_packets' = load_packets + 1
      ELSE UNCHANGED <<BUFFER_LOAD, load_packets>>
  BY DEF SendData
<1>4. DOMAIN BUFFER_LOAD = 0..SubPackets - 1
  BY DEF OviTypeOK
<1> HIDE DEF f, r
<1>5. ASSUME NEW s \in 0..SubPackets - 1, s < load_packets' - f * SubPackets
      PROVE  BUFFER_LOAD'[s] = w[f * SubPackets + s]
  <2>1. s < r => BUFFER_LOAD[s] = w[f * SubPackets + s]
    <3>1. CASE buffer_load_ready
      BY <1>2, <3>1
    <3>2. CASE ~buffer_load_ready
      BY <1>1, <1>2, <3>2 DEF ChunkHolds
    <3> QED
      BY <3>1, <3>2
  <2>2. CASE valid
    <3>1. s < r \/ s = r
      BY <1>1, <1>3, <1>5, <2>2
    <3>2. f * SubPackets + r = load_packets
      BY <1>1
    <3> QED
      BY <1>1, <1>3, <1>4, <2>1, <2>2, <3>1, <3>2
  <2>3. CASE ~valid
    <3>1. s < r
      BY <1>1, <1>3, <1>5, <2>3
    <3> QED
      BY <1>3, <2>1, <2>3, <3>1
  <2> QED
    BY <2>2, <2>3
<1> QED
  BY <1>2, <1>5 DEF ChunkHolds

LEMMA ChunkBits ==
  ASSUME WholeElements, NEW e \in Sews
  PROVE  ChunkElements(e) * instrbits(e) = SubPackets * PacketBits
<1> DEFINE m == SubPackets * PacketBits
<1>1. m \in Nat /\ m % 64 = 0
  BY OviAssumption DEF WholeElements
<1>2. instrbits(e) \in {8, 16, 32, 64}
  BY InstrBits
<1>3. ChunkElements(e) = m \div instrbits(e)
  BY DEF ChunkElements
<1> HIDE DEF m
<1>4. (m \div 8) * 8 = m /\ (m \div 16) * 16 = m /\ (m \div 32) * 32 = m /\ (m \div 64) * 64 = m
  BY <1>1
<1>5. ChunkElements(e) * instrbits(e) = m
  BY <1>2, <1>3, <1>4
<1> QED
  BY <1>5 DEF m

(* The packets of the vector in progress: those of its whole chunks, and those the
   elements behind them fill. *)
LEMMA PacketsInChunks ==
  ASSUME WholeElements, OviTypeOK, n_packets = PacketsOf(instr),
         FitsShift(instr)
  PROVE  \E d \in Nat : n_packets = d * SubPackets + (extra_elements * instrbits(instr.sew)) \div PacketBits
<1> DEFINE b == instrbits(instr.sew)
           d == instr.vl \div per_chunk
           x == extra_elements
           v == instr.vl
<1>1. instr \in Instructions /\ v \in Nat /\ instr.sew \in Sews
  BY DEF OviTypeOK, Instructions
<1>2. b \in {8, 16, 32, 64} /\ per_chunk * b = SubPackets * PacketBits
  BY <1>1, InstrBits, ChunkBits DEF per_chunk
<1>3. /\ per_chunk \in Nat \ {0} /\ x \in 0..per_chunk - 1
      /\ SubPackets \in Nat \ {0} /\ PacketBits \in Nat \ {0}
  BY LoadWidths, OviAssumption
<1>4. n_packets = ((v * b) % 65536) \div PacketBits /\ v * b < 65536
  BY DEF PacketsOf, FitsShift
<1>5. x = v % per_chunk
  BY DEF extra_elements, per_chunk
<1>6. d \in Nat
  BY <1>1, <1>3, DivNat
<1>7. v = per_chunk * d + x
  <2>1. v \in Int
    BY <1>1
  <2>2. v = per_chunk * (v \div per_chunk) + (v % per_chunk)
    BY <1>3, <2>1, DivEuclid, Zenon
  <2> QED
    BY <1>5, <2>2
<1> HIDE DEF b, d, x, v
<1>8. v * b \in Nat /\ x * b \in Int
  BY <1>1, <1>2, <1>3
<1>9. n_packets = (v * b) \div PacketBits
  BY <1>4, <1>8
<1>10. v * b = (d * SubPackets) * PacketBits + x * b
  <2>1. v * b = d * (per_chunk * b) + x * b
    BY <1>1, <1>2, <1>3, <1>6, <1>7
  <2>2. d * (SubPackets * PacketBits) = (d * SubPackets) * PacketBits
    BY <1>3, <1>6
  <2> QED
    BY <1>2, <2>1, <2>2
<1>11. d * SubPackets \in Int
  BY <1>3, <1>6
<1>12. n_packets = d * SubPackets + (x * b) \div PacketBits
  BY <1>3, <1>8, <1>9, <1>10, <1>11, DivSum
<1> QED
  BY <1>6, <1>12 DEF b, x

(* The words of a chunk on the VPU bus are those of the elements it is announced
   with. *)
LEMMA ChunkIsOwn ==
  ASSUME WholeElements, OviTypeOK, n_packets = PacketsOf(instr),
         FitsShift(instr),
         ChunkCounts, buffer_load_ready, NEW w, ChunkHolds(w)
  PROVE  LET first == (el_id * instrbits(instr.sew)) \div PacketBits
             count == (el_count * instrbits(instr.sew)) \div PacketBits
         IN  \A s \in 0..count - 1 : BUFFER_LOAD[s] = w[first + s]
<1> DEFINE b == instrbits(instr.sew)
           first == (el_id * b) \div PacketBits
           count == (el_count * b) \div PacketBits
<1>1. instr.sew \in Sews
  BY DEF OviTypeOK, Instructions
<1>2. b \in {8, 16, 32, 64} /\ per_chunk * b = SubPackets * PacketBits
  BY <1>1, InstrBits, ChunkBits DEF per_chunk
<1>3. /\ per_chunk \in Nat \ {0} /\ extra_elements \in 0..per_chunk - 1
      /\ SubPackets \in Nat \ {0} /\ PacketBits \in Nat \ {0} /\ load_packets \in Nat
  BY LoadWidths, OviAssumption
<1>4. /\ load_packets > 0 /\ el_id = filling * per_chunk
      /\ el_count = IF sync_end THEN extra_elements ELSE per_chunk
      /\ ~sync_end => load_packets % SubPackets = 0
      /\ sync_end => load_packets = n_packets
      /\ \A s \in 0..SubPackets - 1 : s < load_packets - filling * SubPackets =>
           BUFFER_LOAD[s] = w[filling * SubPackets + s]
  BY DEF ChunkCounts, ChunkHolds
<1>5. filling = (load_packets - 1) \div SubPackets /\ filling \in Nat
  <2>1. filling = (load_packets - 1) \div SubPackets
    BY DEF filling
  <2> QED
    BY <1>3, <1>4, <2>1, DivNat
<1> HIDE DEF b
<1>6. first = filling * SubPackets
  <2>1. el_id * b = filling * (per_chunk * b)
    BY <1>2, <1>3, <1>4, <1>5
  <2>2. filling * (SubPackets * PacketBits) = (filling * SubPackets) * PacketBits + 0
    BY <1>3, <1>5, TimesAssoc
  <2>3. filling * SubPackets \in Int /\ 0 \in 0..PacketBits - 1
    BY <1>3, <1>5
  <2>4. ((filling * SubPackets) * PacketBits + 0) \div PacketBits = filling * SubPackets
    BY <1>3, <2>3, DivUnique
  <2> QED
    BY <1>2, <2>1, <2>2, <2>4
<1>7. \A s \in 0..count - 1 : s \in 0..SubPackets - 1 /\ s < load_packets - filling * SubPackets
  <2>1. CASE ~sync_end
    <3>1. count = SubPackets
      <4>1. SubPackets \in Int /\ 0 \in 0..PacketBits - 1 /\ SubPackets * PacketBits \in Int
        BY <1>3
      <4>2. (SubPackets * PacketBits + 0) \div PacketBits = SubPackets
        BY <1>3, <4>1, DivUnique
      <4>3. el_count * b = SubPackets * PacketBits + 0
        BY <1>2, <1>4, <2>1, <4>1
      <4> QED
        BY <4>2, <4>3
    <3>2. load_packets = filling * SubPackets + SubPackets
      <4>1. load_packets - 1 \in Nat /\ (load_packets - 1) + 1 = load_packets
        BY <1>3, <1>4
      <4>2. load_packets \div SubPackets = filling + 1
        BY <1>3, <1>4, <1>5, <2>1, <4>1, DivStep
      <4>3. load_packets = SubPackets * (load_packets \div SubPackets) + (load_packets % SubPackets)
        BY <1>3, DivEuclid
      <4> QED
        BY <1>3, <1>4, <1>5, <2>1, <4>2, <4>3
    <3>3. filling * SubPackets \in Int
      BY <1>3, <1>5
    <3> QED
      BY <1>3, <3>1, <3>2, <3>3
  <2>2. CASE sync_end
    <3> DEFINE e == (extra_elements * b) \div PacketBits
    <3>1. count = e
      BY <1>4, <2>2
    <3>2. e \in 0..SubPackets - 1
      <4>1. extra_elements * b < per_chunk * b
        BY <1>2, <1>3, LessByFactor
      <4>2. extra_elements * b \in Nat /\ extra_elements * b < SubPackets * PacketBits
        BY <1>2, <1>3, <4>1
      <4> QED
        BY <1>3, <4>2, DivBelow
    <3>3. PICK d \in Nat : n_packets = d * SubPackets + e
      BY PacketsInChunks DEF b
    <3> HIDE DEF e
    <3>4. e > 0 => filling = d
      <4> SUFFICES ASSUME e > 0 PROVE filling = d
        OBVIOUS
      <4>1. e - 1 \in 0..SubPackets - 1 /\ d \in Int /\ d * SubPackets \in Int
        BY <1>3, <3>2
      <4>2. (d * SubPackets + (e - 1)) \div SubPackets = d
        BY <1>3, <4>1, DivUnique
      <4>3. load_packets - 1 = d * SubPackets + (e - 1)
        BY <1>4, <2>2, <3>2, <3>3, <4>1
      <4> QED
        BY <1>5, <4>2, <4>3
    <3>5. load_packets = d * SubPackets + e /\ d * SubPackets \in Int
      BY <1>3, <1>4, <2>2, <3>3
    <3> HIDE DEF count
    <3>6. ASSUME NEW s \in 0..count - 1
          PROVE  s \in 0..SubPackets - 1 /\ s < load_packets - filling * SubPackets
      <4>1. e > 0 /\ s < e /\ s \in 0..SubPackets - 1
        BY <1>3, <3>1, <3>2, <3>6
      <4>2. load_packets - filling * SubPackets = e
        BY <3>2, <3>4, <3>5, <4>1
      <4> QED
        BY <4>1, <4>2
    <3> QED
      BY <3>6
  <2> QED
    BY <2>1, <2>2
<1> HIDE DEF first, count
<1>8. \A s \in 0..count - 1 : BUFFER_LOAD[s] = w[first + s]
  BY <1>4, <1>6, <1>7
<1> QED
  BY <1>8 DEF first, count, b
=============================================================================
