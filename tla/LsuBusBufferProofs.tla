------------------------ MODULE LsuBusBufferProofs ------------------------
(***************************************************************************)
(* Theorems about the bus buffer, for every number of entries, width of a  *)
(* word, set of accesses and setting of the bus: an entry has one owner and*)
(* a request finds one; the ages of the entries that wait are sound; every *)
(* answer finds the entries it is for; the accesses to devices go out in   *)
(* program order, one at a time; the tag of every non-blocking load comes  *)
(* back, once.  Each adds its conjuncts to one inductive invariant: OwnersInv,*)
(* BufferInv, AnswersInv, OrderInv, TagsInv.  From BufferInv, only its own *)
(* answer thaws a load that froze the pipe.  From AnswersInv, by ViewInv,  *)
(* every load returns what program order gives it, and memory is what the  *)
(* committed stores made it.                                               *)
(***************************************************************************)
EXTENDS LsuBusBuffer, FiniteSetTheorems, TLAPS

-----------------------------------------------------------------------------
(* The inductive invariant.                                                  *)

(* A request is one of the accesses; the same for one with its entries chosen. *)
IsAccess(p) ==
  \E a \in Accesses : p.op = a.op /\ p.addr = a.addr /\ p.size = a.size /\ p.sideeffect = a.sideeffect
HasEntries(p) == IsAccess(p) /\ p.ptr0 \in Entries /\ p.ptr1 \in Entries

Stage(p) == PacketOK(p) /\ {"valid", "busreq", "nb"} \subseteq DOMAIN p
Requests ==
  /\ \A p \in {dc1, dc2, dc3, dc4, dc5} : Stage(p)
  /\ dc1.valid => IsAccess(dc1)
  /\ dc2.valid => IsAccess(dc2)
  /\ dc3.busreq => IsAccess(dc3)
  /\ dc4.busreq => HasEntries(dc4)
  /\ dc5.busreq => HasEntries(dc5)

(* What is in the input buffer with side effects is where a device is. *)
Device(w) == \E a \in Accesses : a.sideeffect /\ word(a.addr) = w
InputBuffer ==
  ibuf.valid => /\ ibuf.tag \in Entries
                /\ ibuf.req.sideeffect => Device(ibuf.req.word)

Taken == {i \in Entries : buf[i].state # "IDLE"}
Tagged == IF ibuf.valid THEN {ibuf.tag} ELSE {}

(* OneOwner, and a request in dc5 that needs two entries has two. *)
Owners ==
  /\ ptrs(dc4) \cap ptrs(dc5) = {}
  /\ (ptrs(dc4) \cup ptrs(dc5)) \cap Taken = {}
  /\ Tagged \cap (ptrs(dc4) \cup ptrs(dc5) \cup Taken) = {}
  /\ dc4.busreq /\ ldst_dual(dc4) => dc4.ptr0 # dc4.ptr1
  /\ dc5.busreq /\ ldst_dual(dc5) => dc5.ptr0 # dc5.ptr1

(* Decode stops in time: everything that asks for an entry can have one. *)
Room == buf_numvld_any <= DEPTH

OwnersInv == Requests /\ InputBuffer /\ Owners /\ Room

-----------------------------------------------------------------------------
(* A clock edge, with the inputs Next gives it. *)

ClockEdge(clk_en, packet, flush_lower, kill, branch, hold, ready, reads, writes, error) ==
  /\ {clk_en, flush_lower, kill, hold, error} \subseteq BOOLEAN
  /\ packet \in Issuable(flush_lower, lsu_freeze_dc3(flush_lower))
  /\ kill => flush_lower
  /\ branch \in {"none", "i0", "i1"}
  /\ hold => dc2.valid /\ dc2.op = "load" /\ ~flush_lower /\ flush_e3 = "none"
  /\ ready \subseteq (IF ~clk_en \/ ~obuf.valid THEN {} ELSE IF obuf.write THEN {"aw", "w"} ELSE {"ar"})
  /\ reads \in (IF clk_en THEN AtMostOne({t \in bus : ~t.write}) ELSE {{}})
  /\ writes \in (IF clk_en THEN AtMostOne({t \in bus : t.write}) ELSE {{}})
  /\ Edge(clk_en, packet, flush_lower, kill, branch, hold, ready, reads, writes, error)

LEMMA NextIsEdge ==
  ASSUME Next
  PROVE  \E clk_en, packet, flush_lower, kill, branch, hold, ready, reads, writes, error :
           ClockEdge(clk_en, packet, flush_lower, kill, branch, hold, ready, reads, writes, error)
<1>1. \A b : OnlyIf(b) \subseteq BOOLEAN /\ (~b => OnlyIf(b) = {FALSE})
  BY DEF OnlyIf
<1>2. PICK clk_en \in {TRUE, ~BusClockDivided}, flush_lower \in OnlyIf(Flushes) :
    \E packet \in Issuable(flush_lower, lsu_freeze_dc3(flush_lower)),
       kill \in OnlyIf(flush_lower),
       branch \in (IF Flushes /\ ~flush_lower /\ ~ld_freeze_dc3 /\ (dc1.valid \/ dc2.valid)
                   THEN {"none", "i0", "i1"} ELSE {"none"}),
       hold \in OnlyIf(dc2.valid /\ dc2.op = "load" /\ ~flush_lower /\ flush_e3 = "none"),
       ready \in (IF ~clk_en \/ ~obuf.valid THEN {{}}
                  ELSE IF obuf.write THEN SUBSET {"aw", "w"} ELSE SUBSET {"ar"}),
       reads \in (IF clk_en THEN AtMostOne({t \in bus : ~t.write}) ELSE {{}}),
       writes \in (IF clk_en THEN AtMostOne({t \in bus : t.write}) ELSE {{}}) :
      \E error \in OnlyIf(BusErrors /\ reads \cup writes # {}) :
        Edge(clk_en, packet, flush_lower, kill, branch, hold, ready, reads, writes, error)
  BY DEF Next
<1>3. PICK packet \in Issuable(flush_lower, lsu_freeze_dc3(flush_lower)),
       kill \in OnlyIf(flush_lower),
       branch \in (IF Flushes /\ ~flush_lower /\ ~ld_freeze_dc3 /\ (dc1.valid \/ dc2.valid)
                   THEN {"none", "i0", "i1"} ELSE {"none"}),
       hold \in OnlyIf(dc2.valid /\ dc2.op = "load" /\ ~flush_lower /\ flush_e3 = "none"),
       ready \in (IF ~clk_en \/ ~obuf.valid THEN {{}}
                  ELSE IF obuf.write THEN SUBSET {"aw", "w"} ELSE SUBSET {"ar"}),
       reads \in (IF clk_en THEN AtMostOne({t \in bus : ~t.write}) ELSE {{}}),
       writes \in (IF clk_en THEN AtMostOne({t \in bus : t.write}) ELSE {{}}) :
      \E error \in OnlyIf(BusErrors /\ reads \cup writes # {}) :
        Edge(clk_en, packet, flush_lower, kill, branch, hold, ready, reads, writes, error)
  BY <1>2
<1>4. PICK error \in OnlyIf(BusErrors /\ reads \cup writes # {}) :
        Edge(clk_en, packet, flush_lower, kill, branch, hold, ready, reads, writes, error)
  BY <1>3
<1>5. clk_en \in BOOLEAN /\ branch \in {"none", "i0", "i1"}
  OBVIOUS
<1>6. {flush_lower, kill, hold, error} \subseteq BOOLEAN
  BY <1>1
<1>7. kill => flush_lower
  BY <1>1
<1>8. hold => dc2.valid /\ dc2.op = "load" /\ ~flush_lower /\ flush_e3 = "none"
  BY <1>1
<1>9. ready \subseteq (IF ~clk_en \/ ~obuf.valid THEN {} ELSE IF obuf.write THEN {"aw", "w"} ELSE {"ar"})
  OBVIOUS
<1>10. ClockEdge(clk_en, packet, flush_lower, kill, branch, hold, ready, reads, writes, error)
  BY <1>4, <1>5, <1>6, <1>7, <1>8, <1>9 DEF ClockEdge
<1> QED
  BY <1>10

-----------------------------------------------------------------------------
(* Numbers of entries.                                                       *)

LEMMA EntriesCount ==
  /\ DEPTH \in Nat /\ DEPTH >= 2 /\ DEPTH <= 8
  /\ IsFiniteSet(Entries) /\ Cardinality(Entries) = DEPTH
<1>1. DEPTH \in Nat /\ DEPTH >= 2 /\ DEPTH <= 8
  BY BusBufferAssumption
<1>2. IsFiniteSet(0..DEPTH - 1)
      /\ Cardinality(0..DEPTH - 1) = IF 0 > DEPTH - 1 THEN 0 ELSE DEPTH - 1 - 0 + 1
  BY <1>1, FS_Interval
<1> QED
  BY <1>1, <1>2 DEF Entries

LEMMA SomeEntries ==
  ASSUME NEW S, S \subseteq Entries
  PROVE  IsFiniteSet(S) /\ Cardinality(S) \in Nat /\ Cardinality(S) <= DEPTH
  BY EntriesCount, FS_Subset, FS_CardinalityType

LEMMA NotEmpty ==
  ASSUME NEW S, Cardinality(S) # 0
  PROVE  S # {}
<1>1. CASE S = {}
  BY <1>1, FS_EmptySet
<1> QED
  BY <1>1

LEMMA AtMostTwo ==
  ASSUME NEW x, NEW y
  PROVE  /\ IsFiniteSet({x}) /\ Cardinality({x}) = 1
         /\ IsFiniteSet({x, y}) /\ Cardinality({x, y}) \in 1..2
<1>1. IsFiniteSet({x}) /\ Cardinality({x}) = 1
  BY FS_Singleton
<1>2. IsFiniteSet({x} \cup {y}) /\ Cardinality({x} \cup {y}) = IF y \in {x} THEN 1 ELSE 1 + 1
  BY <1>1, FS_AddElement
<1>3. {x} \cup {y} = {x, y}
  OBVIOUS
<1> QED
  BY <1>1, <1>2, <1>3

(* The first of a set of entries is one of them. *)
LEMMA MinOfEntries ==
  ASSUME NEW S, S \subseteq Entries, S # {}
  PROVE  Min(S) \in S /\ \A x \in S : Min(S) <= x
<1>1. \E x \in S : \A y \in S : x <= y
  <2>1. S \subseteq 0..7
    BY EntriesCount DEF Entries
  <2>2. CASE 0 \in S
    BY <2>1, <2>2
  <2>3. CASE 0 \notin S /\ 1 \in S
    BY <2>1, <2>3
  <2>4. CASE S \cap 0..1 = {} /\ 2 \in S
    BY <2>1, <2>4
  <2>5. CASE S \cap 0..2 = {} /\ 3 \in S
    BY <2>1, <2>5
  <2>6. CASE S \cap 0..3 = {} /\ 4 \in S
    BY <2>1, <2>6
  <2>7. CASE S \cap 0..4 = {} /\ 5 \in S
    BY <2>1, <2>7
  <2>8. CASE S \cap 0..5 = {} /\ 6 \in S
    BY <2>1, <2>8
  <2>9. CASE S \cap 0..6 = {}
    <3>1. PICK x \in S : TRUE
      OBVIOUS
    <3>2. \A y \in S : y = 7
      BY <2>1, <2>9
    <3> QED
      BY <3>1, <3>2
  <2> QED
    BY <2>1, <2>2, <2>3, <2>4, <2>5, <2>6, <2>7, <2>8, <2>9
<1> QED
  BY <1>1 DEF Min

LEMMA FirstOf ==
  ASSUME NEW S, S \subseteq Entries
  PROVE  first_of(S) \in Entries /\ (S # {} => first_of(S) \in S)
<1>1. DEPTH - 1 \in Entries
  BY EntriesCount DEF Entries
<1> QED
  BY <1>1, MinOfEntries DEF first_of

(* What a request asks for, and what is reserved for it. *)
LEMMA Asked ==
  ASSUME NEW p, NEW b
  PROVE  asks(p, b) \in 0..2
  BY DEF asks

LEMMA Reserved ==
  ASSUME NEW p
  PROVE  IsFiniteSet(ptrs(p)) /\ Cardinality(ptrs(p)) \in Nat /\ Cardinality(ptrs(p)) <= asks(p, p.busreq)
<1>1. CASE ~p.busreq
  BY <1>1, FS_EmptySet DEF ptrs, asks
<1>2. CASE p.busreq /\ ~ldst_dual(p)
  <2>1. ptrs(p) = {p.ptr0} /\ asks(p, p.busreq) = 1
    BY <1>2 DEF ptrs, asks
  <2>2. IsFiniteSet(ptrs(p)) /\ Cardinality(ptrs(p)) = 1
    BY <2>1, AtMostTwo, Zenon
  <2> QED
    BY <2>1, <2>2
<1>3. CASE p.busreq /\ ldst_dual(p)
  <2>1. ptrs(p) = {p.ptr0, p.ptr1} /\ asks(p, p.busreq) = 2
    BY <1>3 DEF ptrs, asks
  <2>2. IsFiniteSet(ptrs(p)) /\ Cardinality(ptrs(p)) \in 1..2
    BY <2>1, AtMostTwo, Zenon
  <2> QED
    BY <2>1, <2>2
<1> QED
  BY <1>1, <1>2, <1>3

LEMMA TaggedOne ==
  IsFiniteSet(Tagged) /\ Cardinality(Tagged) = IF ibuf.valid THEN 1 ELSE 0
  BY FS_EmptySet, FS_Singleton DEF Tagged

-----------------------------------------------------------------------------
(* The entries chosen in dc3 are free. *)

LEMMA WrPtrsAreFree ==
  ASSUME OwnersInv
  PROVE  /\ WrPtr0_dc3 \in Entries /\ WrPtr1_dc3 \in Entries
         /\ dc3.busreq => WrPtr0_dc3 \in free_entries
         /\ dc3.busreq /\ ldst_dual(dc3) =>
              WrPtr1_dc3 \in free_entries /\ WrPtr1_dc3 # WrPtr0_dc3
<1>1. free_entries \subseteq Entries
  BY DEF free_entries
<1>2. WrPtr0_dc3 \in Entries /\ WrPtr1_dc3 \in Entries
  BY <1>1, FirstOf DEF WrPtr0_dc3, WrPtr1_dc3
<1>3. IsFiniteSet(reserved) /\ Cardinality(reserved) \in Nat
      /\ Cardinality(reserved) <= Cardinality(Tagged) + asks(dc4, dc4.busreq) + asks(dc5, dc5.busreq)
  <2>1. /\ IsFiniteSet(Tagged \cup ptrs(dc4))
        /\ Cardinality(Tagged \cup ptrs(dc4))
             = Cardinality(Tagged) + Cardinality(ptrs(dc4)) - Cardinality(Tagged \cap ptrs(dc4))
    BY TaggedOne, Reserved, FS_Union
  <2>2. /\ IsFiniteSet((Tagged \cup ptrs(dc4)) \cup ptrs(dc5))
        /\ Cardinality((Tagged \cup ptrs(dc4)) \cup ptrs(dc5))
             = Cardinality(Tagged \cup ptrs(dc4)) + Cardinality(ptrs(dc5))
               - Cardinality((Tagged \cup ptrs(dc4)) \cap ptrs(dc5))
    BY <2>1, Reserved, FS_Union
  <2>3. /\ Cardinality(Tagged \cap ptrs(dc4)) \in Nat
        /\ Cardinality((Tagged \cup ptrs(dc4)) \cap ptrs(dc5)) \in Nat
    BY <2>1, TaggedOne, FS_Intersection, FS_CardinalityType
  <2>4. (Tagged \cup ptrs(dc4)) \cup ptrs(dc5) = reserved
    BY DEF Tagged, reserved
  <2>5. /\ Cardinality(Tagged) \in Nat
        /\ Cardinality(ptrs(dc4)) \in Nat /\ Cardinality(ptrs(dc4)) <= asks(dc4, dc4.busreq)
        /\ Cardinality(ptrs(dc5)) \in Nat /\ Cardinality(ptrs(dc5)) <= asks(dc5, dc5.busreq)
        /\ asks(dc4, dc4.busreq) \in Nat /\ asks(dc5, dc5.busreq) \in Nat
    BY TaggedOne, Reserved, Asked
  <2>6. /\ IsFiniteSet(reserved)
        /\ Cardinality(reserved) = Cardinality((Tagged \cup ptrs(dc4)) \cup ptrs(dc5))
    BY <2>2, <2>4, Zenon
  <2>7. Cardinality(reserved) \in Nat
    BY <2>6, FS_CardinalityType
  <2> QED
    BY <2>1, <2>2, <2>3, <2>5, <2>6, <2>7
<1>4. /\ IsFiniteSet(Taken) /\ Cardinality(Taken) \in Nat
      /\ IsFiniteSet(Entries \ Taken)
      /\ Cardinality(Entries \ Taken) = DEPTH - Cardinality(Taken)
  <2>1. Taken \subseteq Entries /\ Entries \cap Taken = Taken
    BY DEF Taken
  <2> QED
    <3>1. IsFiniteSet(Taken) /\ Cardinality(Taken) \in Nat
      BY <2>1, SomeEntries
    <3>2. IsFiniteSet(Entries) /\ Cardinality(Entries) = DEPTH
      BY EntriesCount
    <3>3. /\ IsFiniteSet(Entries \ Taken)
          /\ Cardinality(Entries \ Taken) = Cardinality(Entries) - Cardinality(Entries \cap Taken)
      BY <3>2, FS_Difference, Zenon
    <3> QED
      BY <2>1, <3>1, <3>2, <3>3
<1>5. /\ IsFiniteSet(free_entries) /\ Cardinality(free_entries) \in Nat
      /\ Cardinality(free_entries) >= DEPTH - Cardinality(Taken) - Cardinality(reserved)
  <2>1. free_entries = (Entries \ Taken) \ reserved
    BY DEF free_entries, Taken
  <2>2. /\ IsFiniteSet((Entries \ Taken) \ reserved)
        /\ Cardinality((Entries \ Taken) \ reserved)
             = Cardinality(Entries \ Taken) - Cardinality((Entries \ Taken) \cap reserved)
    BY <1>4, FS_Difference
  <2>3. /\ Cardinality((Entries \ Taken) \cap reserved) \in Nat
        /\ Cardinality((Entries \ Taken) \cap reserved) <= Cardinality(reserved)
    BY <1>3, FS_Intersection, FS_CardinalityType
  <2>4. Cardinality(free_entries) \in Nat
    BY <2>1, <2>2, FS_CardinalityType
  <2> QED
    BY <1>3, <1>4, <2>1, <2>2, <2>3, <2>4, EntriesCount
<1>6. Cardinality(free_entries) >= asks(dc3, dc3.busreq)
  <2>1. buf_numvld_any <= DEPTH
    BY DEF OwnersInv, Room
  <2>2. /\ asks(dc1, dc1.valid) \in Nat /\ asks(dc2, dc2.valid) \in Nat
        /\ asks(dc3, dc3.busreq) \in Nat /\ asks(dc4, dc4.busreq) \in Nat
        /\ asks(dc5, dc5.busreq) \in Nat
    BY Asked
  <2> QED
    BY <1>3, <1>4, <1>5, <2>1, <2>2, EntriesCount, TaggedOne DEF buf_numvld_any, Taken
<1>7. dc3.busreq => Cardinality(free_entries) >= IF ldst_dual(dc3) THEN 2 ELSE 1
  BY <1>6 DEF asks
<1>8. dc3.busreq => WrPtr0_dc3 \in free_entries
  <2> SUFFICES ASSUME dc3.busreq PROVE WrPtr0_dc3 \in free_entries
    OBVIOUS
  <2>1. Cardinality(free_entries) # 0
    BY <1>5, <1>7
  <2>2. free_entries # {}
    BY <2>1, NotEmpty
  <2> QED
    BY <1>1, <2>2, FirstOf DEF WrPtr0_dc3
<1>9. ASSUME dc3.busreq, ldst_dual(dc3)
      PROVE  WrPtr1_dc3 \in free_entries /\ WrPtr1_dc3 # WrPtr0_dc3
  <2>1. /\ IsFiniteSet(free_entries \ {WrPtr0_dc3})
        /\ Cardinality(free_entries \ {WrPtr0_dc3}) = Cardinality(free_entries) - 1
    BY <1>5, <1>8, <1>9, FS_RemoveElement
  <2>2. Cardinality(free_entries \ {WrPtr0_dc3}) # 0
    BY <1>5, <1>7, <1>9, <2>1
  <2>3. free_entries \ {WrPtr0_dc3} # {}
    BY <2>2, NotEmpty
  <2>4. first_of(free_entries \ {WrPtr0_dc3}) \in free_entries \ {WrPtr0_dc3}
    BY <1>1, <2>3, FirstOf
  <2> QED
    BY <1>9, <2>4 DEF WrPtr1_dc3
<1> QED
  BY <1>2, <1>8, <1>9

-----------------------------------------------------------------------------
(* Who gets an entry at an edge.                                             *)

Allotted(up, kill, freeze) ==
  {i \in Entries : buf[i].state = "IDLE" /\ New(i, up, kill, freeze) # {}}

(* A store that joins the input buffer does not find it draining. *)
LEMMA MergedStays ==
  ASSUME OwnersInv, NEW up, NEW kill, NEW freeze, merges(kill)
  PROVE  ~ibuf_drain_vld(up, kill, freeze)
<1>1. /\ dc5.busreq /\ ibuf.valid /\ ibuf.req.write /\ ~CoalescingDisable
      /\ lo(dc5) = ibuf.req.word /\ ~dc5.sideeffect
  BY DEF merges, ibuf_merge_en
<1>2. PICK b \in Accesses : dc5.addr = b.addr /\ dc5.sideeffect = b.sideeffect
  BY <1>1 DEF OwnersInv, Requests, HasEntries, IsAccess
<1>3. \A a \in Accesses : word(a.addr) = word(b.addr) => a.sideeffect = b.sideeffect
  BY BusBufferAssumption
<1>4. ~ibuf.req.sideeffect
  BY <1>1, <1>2, <1>3 DEF OwnersInv, InputBuffer, Device, lo
<1>5. ~ibuf_byp(up) /\ ~ibuf_force_drain(up)
  BY <1>1 DEF ibuf_byp, ibuf_force_drain, only_dc2
<1> QED
  BY <1>1, <1>4, <1>5 DEF ibuf_drain_vld

LEMMA InputBufferStep ==
  ASSUME OwnersInv, NEW up, NEW kill, NEW freeze, IbufEdge(up, kill, freeze)
  PROVE  InputBuffer' /\ Tagged' \subseteq Tagged \cup ptrs(dc5)
<1>1. CASE ibuf_wr_en(up, kill, freeze) /\ merges(kill)
  <2>1. /\ ibuf'.valid /\ ibuf'.tag = ibuf.tag /\ ~ibuf'.req.sideeffect /\ ibuf.valid
    BY <1>1 DEF IbufEdge, Joined, LoHalf, Half, merges, ibuf_merge_en
  <2> QED
    BY <2>1 DEF InputBuffer, Tagged, OwnersInv
<1>2. CASE ibuf_wr_en(up, kill, freeze) /\ ~merges(kill) /\ ldst_dual(dc5)
  <2>1. /\ ibuf'.valid /\ ibuf'.tag = dc5.ptr1 /\ ibuf'.req.sideeffect = dc5.sideeffect
        /\ dc5.busreq
    BY <1>2 DEF IbufEdge, HiHalf, Half, ibuf_wr_en, accepted
  <2>2. ~dc5.sideeffect /\ dc5.ptr1 \in Entries
    BY <1>2, <2>1, BusBufferAssumption DEF OwnersInv, Requests, HasEntries, IsAccess, ldst_dual, lo, hi
  <2> QED
    BY <1>2, <2>1, <2>2 DEF InputBuffer, Tagged, ptrs
<1>3. CASE ibuf_wr_en(up, kill, freeze) /\ ~merges(kill) /\ ~ldst_dual(dc5)
  <2>1. /\ ibuf'.valid /\ ibuf'.tag = dc5.ptr0 /\ ibuf'.req.sideeffect = dc5.sideeffect
        /\ ibuf'.req.word = lo(dc5) /\ dc5.busreq
    BY <1>3 DEF IbufEdge, LoHalf, Half, ibuf_wr_en, accepted
  <2>2. (dc5.sideeffect => Device(lo(dc5))) /\ dc5.ptr0 \in Entries
    BY <2>1 DEF OwnersInv, Requests, HasEntries, IsAccess, Device, lo
  <2> QED
    BY <1>3, <2>1, <2>2 DEF InputBuffer, Tagged, ptrs
<1>4. CASE ~ibuf_wr_en(up, kill, freeze)
  <2>1. CASE ibuf_drain_vld(up, kill, freeze)
    BY <1>4, <2>1 DEF IbufEdge, Nothing, InputBuffer, Tagged
  <2>2. CASE ~ibuf_drain_vld(up, kill, freeze) /\ ibuf.valid /\ ibuf.timer < TIMER_MAX
    BY <1>4, <2>2 DEF IbufEdge, InputBuffer, Tagged, OwnersInv
  <2>3. CASE ~ibuf_drain_vld(up, kill, freeze) /\ ~(ibuf.valid /\ ibuf.timer < TIMER_MAX)
    BY <1>4, <2>3 DEF IbufEdge, InputBuffer, Tagged, OwnersInv
  <2> QED
    BY <2>1, <2>2, <2>3
<1> QED
  BY <1>1, <1>2, <1>3, <1>4

(* An entry is given to the input buffer or to the request it was reserved for. *)
LEMMA AllottedIsReserved ==
  ASSUME OwnersInv, NEW up, NEW kill, NEW freeze, IbufEdge(up, kill, freeze)
  PROVE  /\ Allotted(up, kill, freeze) \subseteq Tagged \cup ptrs(dc5)
         /\ Allotted(up, kill, freeze) \cap Tagged' = {}
<1> SUFFICES ASSUME NEW i \in Entries, New(i, up, kill, freeze) # {}
             PROVE  i \in Tagged \cup ptrs(dc5) /\ i \notin Tagged'
  BY DEF Allotted
<1> DEFINE drains == ibuf_drain_vld(up, kill, freeze)
<1>1. \/ drains /\ i = ibuf.tag
      \/ hi_direct(up, kill, freeze) /\ i = dc5.ptr1
      \/ lo_direct(up, kill, freeze) /\ i = dc5.ptr0
  BY DEF New
<1>2. Tagged \cap ptrs(dc5) = {}
  BY DEF OwnersInv, Owners
<1>3. CASE drains /\ i = ibuf.tag
  <2>1. ibuf.valid /\ i \in Tagged
    BY <1>3 DEF ibuf_drain_vld, Tagged
  <2>2. ~merges(kill)
    BY <1>3, MergedStays
  <2>3. ibuf'.valid => ibuf_wr_en(up, kill, freeze) /\ ibuf'.tag \in ptrs(dc5)
    BY <1>3, <2>2 DEF IbufEdge, Nothing, ptrs, ibuf_wr_en, accepted
  <2> QED
    BY <1>2, <2>1, <2>3 DEF Tagged
<1>4. CASE hi_direct(up, kill, freeze) /\ i = dc5.ptr1
  <2>1. /\ i \in ptrs(dc5) /\ ~ibuf.valid /\ ~ibuf_wr_en(up, kill, freeze)
    BY <1>4 DEF hi_direct, accepted, ibuf_byp, ibuf_wr_en, ptrs
  <2>2. ~ibuf'.valid
    BY <2>1 DEF IbufEdge, Nothing, ibuf_drain_vld
  <2> QED
    BY <2>1, <2>2 DEF Tagged
<1>5. CASE lo_direct(up, kill, freeze) /\ i = dc5.ptr0
  <2>1. /\ i \in ptrs(dc5) /\ dc5.busreq /\ ~ibuf_merge_en(kill) /\ accepted(kill, freeze)
        /\ ibuf_byp(up) \/ ldst_dual(dc5)
    BY <1>5 DEF lo_direct, accepted, ptrs
  <2>2. CASE ibuf_byp(up)
    <3>1. ~ibuf.valid /\ ~ibuf_wr_en(up, kill, freeze)
      BY <2>2 DEF ibuf_byp, ibuf_wr_en
    <3>2. ~ibuf'.valid
      BY <3>1 DEF IbufEdge, Nothing, ibuf_drain_vld
    <3> QED
      BY <2>1, <3>2 DEF Tagged
  <2>3. CASE ~ibuf_byp(up) /\ ldst_dual(dc5)
    <3>1. ibuf_wr_en(up, kill, freeze) /\ ~merges(kill)
      BY <2>1, <2>3 DEF ibuf_wr_en, merges
    <3>2. ibuf'.valid /\ ibuf'.tag = dc5.ptr1
      BY <2>3, <3>1 DEF IbufEdge
    <3>3. dc5.ptr1 # dc5.ptr0
      BY <2>1, <2>3 DEF OwnersInv, Owners
    <3> QED
      BY <1>5, <2>1, <3>2, <3>3 DEF Tagged
  <2> QED
    BY <2>1, <2>2, <2>3
<1> QED
  BY <1>1, <1>3, <1>4, <1>5

LEMMA TakenStep ==
  ASSUME NEW clk_en, NEW up, NEW kill, NEW freeze, BufEdge(clk_en, up, kill, freeze)
  PROVE  Taken' \subseteq Taken \cup Allotted(up, kill, freeze)
<1> SUFFICES ASSUME NEW i \in Entries, buf[i].state = "IDLE", New(i, up, kill, freeze) = {}
             PROVE  buf'[i].state = "IDLE"
  BY DEF Taken, Allotted
<1>1. buf'[i] = NoEntry
  BY DEF BufEdge
<1> QED
  BY <1>1 DEF NoEntry

-----------------------------------------------------------------------------
(* The pipe.                                                                 *)

LEMMA IssuedPackets ==
  ASSUME NEW lower, NEW freeze, NEW packet \in Issuable(lower, freeze)
  PROVE  /\ Stage(packet) /\ (packet.valid => IsAccess(packet))
         /\ packet.valid => ~lower /\ flush_e3 = "none" /\ ~freeze /\ ~lsu_bus_buffer_full_any
<1>1. CASE packet = NoPacket
  BY <1>1 DEF NoPacket, Stage, PacketOK
<1>2. CASE packet # NoPacket
  <2>1. /\ ~(lower \/ flush_e3 # "none" \/ freeze \/ lsu_bus_buffer_full_any \/ issued >= MaxOps)
        /\ packet \in {Packet(a) : a \in Accesses}
    BY <1>2 DEF Issuable
  <2>2. PICK a \in Accesses : packet = Packet(a)
    BY <2>1
  <2> QED
    BY <2>1, <2>2 DEF Packet, Stage, PacketOK, IsAccess
<1> QED
  BY <1>1, <1>2

LEMMA RequestsStep ==
  ASSUME OwnersInv,
         NEW packet, Stage(packet), packet.valid => IsAccess(packet),
         NEW lower, NEW up, NEW flush_dc3, NEW kill, NEW hold, NEW freeze,
         PipeEdge(packet, lower, up, flush_dc3, kill, hold, freeze)
  PROVE  Requests'
<1>1. Requests
  BY DEF OwnersInv
<1>2. Stage(NoPacket) /\ ~NoPacket.valid /\ ~NoPacket.busreq
  BY DEF NoPacket, Stage, PacketOK
<1>3. Stage(dc1') /\ (dc1'.valid => IsAccess(dc1'))
  BY <1>1, <1>2 DEF PipeEdge, Requests
<1>4. Stage(dc2') /\ (dc2'.valid => IsAccess(dc2'))
  BY <1>1, <1>2 DEF PipeEdge, Requests
<1>5. Stage(dc3') /\ (dc3'.busreq => IsAccess(dc3'))
  <2>1. CASE freeze
    <3>1. dc3' = [dc3 EXCEPT !.busreq = FALSE]
      BY <2>1 DEF PipeEdge
    <3> QED
      BY <1>1, <3>1 DEF Requests, Stage, PacketOK
  <2>2. CASE ~freeze /\ (~dc2.valid \/ up)
    BY <1>2, <2>2 DEF PipeEdge, InDc3
  <2>3. CASE ~freeze /\ dc2.valid /\ ~up
    <3>1. ld_full_hit_dc2(up) \in BOOLEAN
      BY DEF ld_full_hit_dc2
    <3>2. dc3' = InDc3(dc2, up, hold)
      BY <2>3 DEF PipeEdge
    <3>3. Stage(dc3')
      BY <2>3, <3>1, <3>2 DEF InDc3, Stage, PacketOK
    <3>4. /\ dc3'.op = dc2.op /\ dc3'.addr = dc2.addr /\ dc3'.size = dc2.size
          /\ dc3'.sideeffect = dc2.sideeffect
      BY <2>3, <3>2 DEF InDc3
    <3>5. IsAccess(dc2)
      BY <1>1, <2>3 DEF Requests
    <3> QED
      BY <3>3, <3>4, <3>5 DEF IsAccess
  <2> QED
    BY <2>1, <2>2, <2>3
<1>6. Stage(dc4') /\ (dc4'.busreq => HasEntries(dc4'))
  <2>1. CASE ~dc3.busreq \/ lower
    BY <1>2, <2>1 DEF PipeEdge, InDc4
  <2>2. CASE dc3.busreq /\ ~lower
    <3>1. WrPtr0_dc3 \in Entries /\ WrPtr1_dc3 \in Entries
      BY WrPtrsAreFree
    <3>2. lsu_nonblock_load_valid_dc3(flush_dc3, freeze) \in BOOLEAN
      BY DEF lsu_nonblock_load_valid_dc3
    <3> QED
      BY <1>1, <2>2, <3>1, <3>2 DEF PipeEdge, InDc4, Requests, IsAccess, HasEntries, Stage, PacketOK
  <2> QED
    BY <2>1, <2>2
<1>7. Stage(dc5') /\ (dc5'.busreq => HasEntries(dc5'))
  <2>1. CASE dc4.busreq /\ ~kill
    BY <1>1, <2>1 DEF PipeEdge, InDc5, Requests, IsAccess, HasEntries, Stage, PacketOK
  <2>2. CASE ~(dc4.busreq /\ ~kill)
    BY <2>2 DEF PipeEdge, InDc5, NoPacket, Stage, PacketOK
  <2> QED
    BY <2>1, <2>2
<1> QED
  BY <1>3, <1>4, <1>5, <1>6, <1>7 DEF Requests

LEMMA ReservedStep ==
  ASSUME OwnersInv,
         NEW packet, NEW lower, NEW up, NEW flush_dc3, NEW kill, NEW hold, NEW freeze,
         PipeEdge(packet, lower, up, flush_dc3, kill, hold, freeze)
  PROVE  /\ ptrs(dc4') \subseteq free_entries
         /\ dc4'.busreq /\ ldst_dual(dc4') => dc4'.ptr0 # dc4'.ptr1
         /\ ptrs(dc5') \subseteq ptrs(dc4)
         /\ dc5'.busreq /\ ldst_dual(dc5') => dc5'.ptr0 # dc5'.ptr1
         /\ asks(dc4', dc4'.busreq) <= asks(dc3, dc3.busreq)
         /\ asks(dc5', dc5'.busreq) <= asks(dc4, dc4.busreq)
<1>1. Stage(dc4)
  BY DEF OwnersInv, Requests
<1>2. /\ ptrs(dc4') \subseteq free_entries
      /\ dc4'.busreq /\ ldst_dual(dc4') => dc4'.ptr0 # dc4'.ptr1
      /\ asks(dc4', dc4'.busreq) <= asks(dc3, dc3.busreq)
  <2>1. CASE ~dc3.busreq \/ lower
    <3>1. ~dc4'.busreq
      BY <2>1 DEF PipeEdge, InDc4, NoPacket
    <3>2. ptrs(dc4') = {} /\ asks(dc4', dc4'.busreq) = 0
      BY <3>1 DEF ptrs, asks
    <3> QED
      BY <3>1, <3>2, Asked
  <2>2. CASE dc3.busreq /\ ~lower
    <3>1. /\ dc4'.busreq /\ dc4'.addr = dc3.addr /\ dc4'.size = dc3.size
          /\ dc4'.ptr0 = WrPtr0_dc3 /\ dc4'.ptr1 = WrPtr1_dc3
      BY <2>2 DEF PipeEdge, InDc4
    <3>2. ldst_dual(dc4') = ldst_dual(dc3)
      BY <3>1 DEF ldst_dual, lo, hi
    <3> QED
      BY <2>2, <3>1, <3>2, WrPtrsAreFree DEF ptrs, asks
  <2> QED
    BY <2>1, <2>2
<1>3. /\ ptrs(dc5') \subseteq ptrs(dc4)
      /\ dc5'.busreq /\ ldst_dual(dc5') => dc5'.ptr0 # dc5'.ptr1
      /\ asks(dc5', dc5'.busreq) <= asks(dc4, dc4.busreq)
  <2>1. CASE ~(dc4.busreq /\ ~kill)
    <3>1. ~dc5'.busreq
      BY <2>1 DEF PipeEdge, InDc5, NoPacket
    <3>2. ptrs(dc5') = {} /\ asks(dc5', dc5'.busreq) = 0
      BY <3>1 DEF ptrs, asks
    <3> QED
      BY <3>1, <3>2, Asked
  <2>2. CASE dc4.busreq /\ ~kill
    <3>1. /\ dc5'.busreq /\ dc5'.addr = dc4.addr /\ dc5'.size = dc4.size
          /\ dc5'.ptr0 = dc4.ptr0 /\ dc5'.ptr1 = dc4.ptr1
      BY <1>1, <2>2 DEF PipeEdge, InDc5, Stage, PacketOK
    <3>2. ldst_dual(dc5') = ldst_dual(dc4)
      BY <3>1 DEF ldst_dual, lo, hi
    <3> QED
      BY <2>2, <3>1, <3>2 DEF ptrs, asks, OwnersInv, Owners
  <2> QED
    BY <2>1, <2>2
<1> QED
  BY <1>2, <1>3

(* What is behind dc4 asks for no more than before, but for a new packet. *)
LEMMA AskedStep ==
  ASSUME OwnersInv,
         NEW packet, NEW lower, NEW up, NEW flush_dc3, NEW kill, NEW hold, NEW freeze,
         freeze => ~packet.valid,
         PipeEdge(packet, lower, up, flush_dc3, kill, hold, freeze)
  PROVE  asks(dc1', dc1'.valid) + asks(dc2', dc2'.valid) + asks(dc3', dc3'.busreq)
           <= asks(packet, packet.valid) + asks(dc1, dc1.valid) + asks(dc2, dc2.valid)
<1>1. CASE freeze
  <2>1. Stage(dc3)
    BY DEF OwnersInv, Requests
  <2>2. dc1' = dc1 /\ dc2' = dc2 /\ ~dc3'.busreq
    BY <1>1, <2>1 DEF PipeEdge, Stage, PacketOK
  <2>3. asks(dc3', dc3'.busreq) = 0 /\ asks(packet, packet.valid) = 0
    BY <1>1, <2>2 DEF asks
  <2>4. asks(dc1', dc1'.valid) = asks(dc1, dc1.valid) /\ asks(dc2', dc2'.valid) = asks(dc2, dc2.valid)
    BY <2>2
  <2> QED
    BY <2>3, <2>4, Asked
<1>2. CASE ~freeze
  <2>1. ~NoPacket.valid /\ ~NoPacket.busreq /\ \A p : asks(p, FALSE) = 0
    BY DEF NoPacket, asks
  <2>2. dc1' = packet \/ ~dc1'.valid
    BY <1>2, <2>1 DEF PipeEdge
  <2>3. dc2' = dc1 \/ ~dc2'.valid
    BY <1>2, <2>1 DEF PipeEdge
  <2>4. asks(dc1', dc1'.valid) <= asks(packet, packet.valid)
    BY <2>2, Asked DEF asks
  <2>5. asks(dc2', dc2'.valid) <= asks(dc1, dc1.valid)
    BY <2>3, Asked DEF asks
  <2>6. asks(dc3', dc3'.busreq) <= asks(dc2, dc2.valid)
    <3>1. CASE ~dc2.valid \/ up
      <4>1. ~dc3'.busreq
        BY <1>2, <2>1, <3>1 DEF PipeEdge, InDc3
      <4> QED
        BY <4>1, Asked DEF asks
    <3>2. CASE dc2.valid /\ ~up
      <4>1. dc3'.addr = dc2.addr /\ dc3'.size = dc2.size
        BY <1>2, <3>2 DEF PipeEdge, InDc3
      <4> QED
        BY <3>2, <4>1 DEF asks, ldst_dual, lo, hi
    <3> QED
      BY <3>1, <3>2
  <2> QED
    BY <2>4, <2>5, <2>6, Asked
<1> QED
  BY <1>1, <1>2

-----------------------------------------------------------------------------
(* The invariant is inductive.                                               *)

LEMMA OwnersInit == Init => OwnersInv
<1> SUFFICES ASSUME Init PROVE OwnersInv
  OBVIOUS
<1>1. /\ ~NoPacket.valid /\ ~NoPacket.busreq /\ Stage(NoPacket) /\ ~Nothing.valid
  BY DEF NoPacket, Stage, PacketOK, Nothing
<1>2. Requests /\ InputBuffer
  BY <1>1 DEF Init, Requests, InputBuffer
<1>3. Taken = {} /\ Tagged = {} /\ ptrs(dc4) = {} /\ ptrs(dc5) = {}
  BY <1>1 DEF Init, Taken, Tagged, ptrs, NoEntry
<1>4. Owners
  BY <1>1, <1>3 DEF Init, Owners
<1>5. Cardinality(Taken) = 0
  BY <1>3, FS_EmptySet, Zenon
<1>6. buf_numvld_any = 0
  BY <1>1, <1>5 DEF Init, buf_numvld_any, asks, Taken
<1> QED
  BY <1>2, <1>4, <1>6, EntriesCount DEF OwnersInv, Room

(* What decode counts bounds what is taken after the edge. *)
LEMMA RoomStep ==
  ASSUME OwnersInv, NEW clk_en, NEW packet, NEW lower, NEW up, NEW flush_dc3, NEW kill,
         NEW hold, NEW freeze,
         packet.valid => ~freeze /\ ~lsu_bus_buffer_full_any,
         PipeEdge(packet, lower, up, flush_dc3, kill, hold, freeze),
         IbufEdge(up, kill, freeze), BufEdge(clk_en, up, kill, freeze)
  PROVE  Room'
<1>1. /\ Taken' \cap Tagged' = {}
      /\ Taken' \cup Tagged' \subseteq Taken \cup Tagged \cup ptrs(dc5)
  BY TakenStep, AllottedIsReserved, InputBufferStep DEF OwnersInv, Owners
<1>2. /\ IsFiniteSet(Taken) /\ IsFiniteSet(Taken') /\ Cardinality(Taken) \in Nat
      /\ Cardinality(Taken') \in Nat
  BY SomeEntries DEF Taken
<1>3. /\ IsFiniteSet(Tagged) /\ Cardinality(Tagged) = IF ibuf.valid THEN 1 ELSE 0
      /\ IsFiniteSet(Tagged') /\ Cardinality(Tagged') = IF ibuf'.valid THEN 1 ELSE 0
  BY TaggedOne, FS_EmptySet, FS_Singleton DEF Tagged
<1>4. Cardinality(Taken' \cup Tagged') = Cardinality(Taken') + Cardinality(Tagged')
  <2>1. Cardinality(Taken' \cup Tagged')
          = Cardinality(Taken') + Cardinality(Tagged') - Cardinality(Taken' \cap Tagged')
    BY <1>2, <1>3, FS_Union
  <2>2. Cardinality(Taken' \cap Tagged') = 0
    BY <1>1, FS_EmptySet, Zenon
  <2> QED
    BY <1>2, <1>3, <2>1, <2>2
<1>5. /\ IsFiniteSet((Taken \cup Tagged) \cup ptrs(dc5))
      /\ Cardinality((Taken \cup Tagged) \cup ptrs(dc5))
           <= Cardinality(Taken) + Cardinality(Tagged) + Cardinality(ptrs(dc5))
  <2>1. /\ IsFiniteSet(Taken \cup Tagged)
        /\ Cardinality(Taken \cup Tagged)
             = Cardinality(Taken) + Cardinality(Tagged) - Cardinality(Taken \cap Tagged)
    BY <1>2, <1>3, FS_Union
  <2>2. /\ IsFiniteSet((Taken \cup Tagged) \cup ptrs(dc5))
        /\ Cardinality((Taken \cup Tagged) \cup ptrs(dc5))
             = Cardinality(Taken \cup Tagged) + Cardinality(ptrs(dc5))
               - Cardinality((Taken \cup Tagged) \cap ptrs(dc5))
    BY <2>1, Reserved, FS_Union
  <2>3. /\ Cardinality(Taken \cap Tagged) \in Nat
        /\ Cardinality((Taken \cup Tagged) \cap ptrs(dc5)) \in Nat
    BY <1>2, <2>1, FS_Intersection, FS_CardinalityType
  <2> QED
    BY <1>2, <1>3, <2>1, <2>2, <2>3, Reserved
<1>6. Cardinality(Taken' \cup Tagged') <= Cardinality((Taken \cup Tagged) \cup ptrs(dc5))
  BY <1>1, <1>5, FS_Subset
<1>7. /\ Cardinality(ptrs(dc5)) \in Nat
      /\ Cardinality(ptrs(dc5)) <= asks(dc5, dc5.busreq)
  BY Reserved
<1>8. Cardinality(Taken') + Cardinality(Tagged')
        <= Cardinality(Taken) + Cardinality(Tagged) + asks(dc5, dc5.busreq)
  <2>1. /\ Cardinality(Tagged) \in Nat /\ Cardinality(Tagged') \in Nat
        /\ Cardinality((Taken \cup Tagged) \cup ptrs(dc5)) \in Nat
        /\ asks(dc5, dc5.busreq) \in Nat
    BY <1>3, <1>5, FS_CardinalityType, Asked
  <2> QED
    BY <1>2, <1>4, <1>5, <1>6, <1>7, <2>1
<1>9. /\ asks(dc1', dc1'.valid) + asks(dc2', dc2'.valid) + asks(dc3', dc3'.busreq)
           <= asks(packet, packet.valid) + asks(dc1, dc1.valid) + asks(dc2, dc2.valid)
      /\ asks(dc4', dc4'.busreq) <= asks(dc3, dc3.busreq)
      /\ asks(dc5', dc5'.busreq) <= asks(dc4, dc4.busreq)
  BY AskedStep, ReservedStep
<1>10. \A p : asks(p, p.valid) \in 0..2 /\ asks(p, p.busreq) \in 0..2
  BY Asked
<1>11. /\ buf_numvld_any \in Nat
       /\ buf_numvld_any' <= buf_numvld_any + asks(packet, packet.valid)
  <2>1. buf_numvld_any
          = asks(dc1, dc1.valid) + asks(dc2, dc2.valid) + asks(dc3, dc3.busreq)
            + asks(dc4, dc4.busreq) + asks(dc5, dc5.busreq)
            + Cardinality(Taken) + Cardinality(Tagged)
    BY <1>2, <1>3, <1>10 DEF buf_numvld_any, Taken
  <2>2. buf_numvld_any'
          = asks(dc1', dc1'.valid) + asks(dc2', dc2'.valid) + asks(dc3', dc3'.busreq)
            + asks(dc4', dc4'.busreq) + asks(dc5', dc5'.busreq)
            + Cardinality(Taken') + Cardinality(Tagged')
    BY <1>2, <1>3, <1>10 DEF buf_numvld_any, Taken
  <2>3. Cardinality(Tagged) \in Nat /\ Cardinality(Tagged') \in Nat
    BY <1>3
  <2> QED
    BY <1>2, <1>8, <1>9, <1>10, <2>1, <2>2, <2>3
<1>12. buf_numvld_any' \in Nat
  BY <1>2, <1>10 DEF buf_numvld_any, Taken
<1>13. buf_numvld_any <= DEPTH
  BY DEF OwnersInv, Room
<1>14. CASE packet.valid
  <2>1. buf_numvld_any < DEPTH - 1
    BY <1>11, <1>14, EntriesCount DEF lsu_bus_buffer_full_any
  <2> QED
    BY <1>10, <1>11, <1>12, <2>1, EntriesCount DEF Room
<1>15. CASE ~packet.valid
  <2>1. asks(packet, packet.valid) = 0
    BY <1>15 DEF asks
  <2> QED
    BY <1>11, <1>12, <1>13, <2>1, EntriesCount DEF Room
<1> QED
  BY <1>14, <1>15

LEMMA OwnersStep == OwnersInv /\ [Next]_vars => OwnersInv'
<1> SUFFICES ASSUME OwnersInv, [Next]_vars PROVE OwnersInv'
  OBVIOUS
<1>1. CASE Next
  <2>1. PICK clk_en, packet, lower, kill, branch, hold, ready, reads, writes, error :
          ClockEdge(clk_en, packet, lower, kill, branch, hold, ready, reads, writes, error)
    BY <1>1, NextIsEdge
  <2> DEFINE freeze == lsu_freeze_dc3(lower)
             up == lower \/ flush_e3 # "none"
             flush_dc3 == lower \/ flush_e3 = "i0"
  <2>2. /\ PipeEdge(packet, lower, up, flush_dc3, kill, hold, freeze)
        /\ IbufEdge(up, kill, freeze) /\ BufEdge(clk_en, up, kill, freeze)
        /\ packet \in Issuable(lower, freeze)
    BY <2>1 DEF ClockEdge, Edge
  <2> HIDE DEF freeze, up, flush_dc3
  <2>3. /\ Stage(packet) /\ (packet.valid => IsAccess(packet))
        /\ packet.valid => ~freeze /\ ~lsu_bus_buffer_full_any
    BY <2>2, IssuedPackets
  <2>4. Requests'
    BY <2>2, <2>3, RequestsStep
  <2>5. InputBuffer'
    BY <2>2, InputBufferStep
  <2>6. Owners'
    <3>1. /\ ptrs(dc4') \subseteq free_entries
          /\ dc4'.busreq /\ ldst_dual(dc4') => dc4'.ptr0 # dc4'.ptr1
          /\ ptrs(dc5') \subseteq ptrs(dc4)
          /\ dc5'.busreq /\ ldst_dual(dc5') => dc5'.ptr0 # dc5'.ptr1
      BY <2>2, ReservedStep
    <3>2. /\ Taken' \subseteq Taken \cup Allotted(up, kill, freeze)
          /\ Allotted(up, kill, freeze) \subseteq Tagged \cup ptrs(dc5)
          /\ Allotted(up, kill, freeze) \cap Tagged' = {}
          /\ Tagged' \subseteq Tagged \cup ptrs(dc5)
      BY <2>2, TakenStep, AllottedIsReserved, InputBufferStep
    <3>3. free_entries \cap (Taken \cup Tagged \cup ptrs(dc4) \cup ptrs(dc5)) = {}
      BY DEF free_entries, Taken, reserved, Tagged
    <3>4. /\ ptrs(dc4) \cap ptrs(dc5) = {} /\ (ptrs(dc4) \cup ptrs(dc5)) \cap Taken = {}
          /\ Tagged \cap (ptrs(dc4) \cup ptrs(dc5) \cup Taken) = {}
      BY DEF OwnersInv, Owners
    <3>5. /\ ptrs(dc4') \cap ptrs(dc5') = {}
          /\ (ptrs(dc4') \cup ptrs(dc5')) \cap Taken' = {}
          /\ Tagged' \cap (ptrs(dc4') \cup ptrs(dc5') \cup Taken') = {}
      BY <3>1, <3>2, <3>3, <3>4
    <3> QED
      BY <3>1, <3>5 DEF Owners, ptrs, ldst_dual, lo, hi
  <2>7. Room'
    BY <2>2, <2>3, RoomStep
  <2> QED
    BY <2>4, <2>5, <2>6, <2>7 DEF OwnersInv
<1>2. CASE UNCHANGED vars
  <2>1. Requests'
    BY <1>2 DEF OwnersInv, Requests, vars
  <2>2. InputBuffer'
    BY <1>2 DEF OwnersInv, InputBuffer, vars
  <2>3. Owners'
    BY <1>2 DEF OwnersInv, Owners, vars, Taken, Tagged, ptrs, ldst_dual, lo, hi
  <2>4. Room'
    BY <1>2 DEF OwnersInv, Room, buf_numvld_any, asks, ldst_dual, lo, hi, vars
  <2> QED
    BY <2>1, <2>2, <2>3, <2>4 DEF OwnersInv
<1> QED
  BY <1>1, <1>2

LEMMA OwnersInvariant == Spec => []OwnersInv
<1>1. Init => OwnersInv
  BY OwnersInit
<1>2. OwnersInv /\ [Next]_vars => OwnersInv'
  BY OwnersStep
<1> QED
  BY <1>1, <1>2, PTL DEF Spec

(* An entry of the bus buffer has one owner, whatever is accepted, merged, drained,
   flushed or answered: entries are chosen in dc3, two clocks before they are
   written, and nobody else gets them in between. *)
THEOREM EntriesHaveOneOwner == Spec => []OneOwner
<1>1. OwnersInv => OneOwner
  BY DEF OwnersInv, Owners, OneOwner, Taken, Tagged
<1> QED
  BY <1>1, OwnersInvariant, PTL

(* Decode stops early enough: with the accesses still in the pipe, the entries
   that are taken are never more than there are. *)
THEOREM BusBufferNeverFull == Spec => [](buf_numvld_any <= DEPTH)
<1>1. OwnersInv => buf_numvld_any <= DEPTH
  BY DEF OwnersInv, Room
<1> QED
  BY <1>1, OwnersInvariant, PTL

-----------------------------------------------------------------------------
(* The numbers of the accesses grow from dc5 to dc1.                         *)

Ids(p, here) == IF here THEN {p.id} ELSE {}
Ids1 == Ids(dc1, dc1.valid)
Ids2 == Ids(dc2, dc2.valid)
Ids3 == Ids(dc3, dc3.busreq)
Ids4 == Ids(dc4, dc4.busreq)
Ids5 == Ids(dc5, dc5.busreq)

ProgramOrder ==
  /\ issued \in 0..MaxOps
  /\ Ids1 \cup Ids2 \cup Ids3 \cup Ids4 \cup Ids5 \subseteq 1..issued
  /\ \A m \in Ids5, n \in Ids4 \cup Ids3 \cup Ids2 \cup Ids1 : m < n
  /\ \A m \in Ids4, n \in Ids3 \cup Ids2 \cup Ids1 : m < n
  /\ \A m \in Ids3, n \in Ids2 \cup Ids1 : m < n
  /\ \A m \in Ids2, n \in Ids1 : m < n

LEMMA PipeMoves ==
  ASSUME Requests,
         NEW packet, NEW lower, NEW up, NEW flush_dc3, NEW kill, NEW hold, NEW freeze,
         freeze => ~packet.valid,
         PipeEdge(packet, lower, up, flush_dc3, kill, hold, freeze)
  PROVE  /\ Ids5' \subseteq Ids4
         /\ Ids4' \subseteq Ids3
         /\ Ids3' \subseteq Ids2
         /\ freeze => Ids1' = Ids1 /\ Ids2' = Ids2 /\ Ids3' = {}
         /\ ~freeze => Ids1' \subseteq Ids(packet, packet.valid) /\ Ids2' \subseteq Ids1
<1>1. /\ Stage(dc3) /\ Stage(dc4)
  BY DEF Requests
<1>2. ~NoPacket.valid /\ ~NoPacket.busreq
  BY DEF NoPacket
<1>3. Ids5' \subseteq Ids4
  <2>1. CASE dc4.busreq /\ ~kill
    BY <1>1, <2>1 DEF PipeEdge, InDc5, Stage, PacketOK, Ids5, Ids4, Ids
  <2>2. CASE ~(dc4.busreq /\ ~kill)
    <3>1. ~dc5'.busreq
      BY <1>2, <2>2 DEF PipeEdge, InDc5
    <3> QED
      BY <3>1 DEF Ids5, Ids
  <2> QED
    BY <2>1, <2>2
<1>4. Ids4' \subseteq Ids3
  <2>1. CASE dc3.busreq /\ ~lower
    BY <2>1 DEF PipeEdge, InDc4, Ids4, Ids3, Ids
  <2>2. CASE ~(dc3.busreq /\ ~lower)
    <3>1. ~dc4'.busreq
      BY <1>2, <2>2 DEF PipeEdge, InDc4
    <3> QED
      BY <3>1 DEF Ids4, Ids
  <2> QED
    BY <2>1, <2>2
<1>5. CASE freeze
  <2>1. dc1' = dc1 /\ dc2' = dc2 /\ ~dc3'.busreq
    BY <1>1, <1>5 DEF PipeEdge, Stage, PacketOK
  <2>2. Ids1' = Ids1 /\ Ids2' = Ids2 /\ Ids3' = {}
    BY <2>1 DEF Ids1, Ids2, Ids3, Ids
  <2> QED
    BY <1>3, <1>4, <1>5, <2>2
<1>6. CASE ~freeze
  <2>1. Ids1' \subseteq Ids(packet, packet.valid)
    BY <1>2, <1>6 DEF PipeEdge, Ids1, Ids
  <2>2. Ids2' \subseteq Ids1
    BY <1>2, <1>6 DEF PipeEdge, Ids1, Ids2, Ids
  <2>3. Ids3' \subseteq Ids2
    <3>1. CASE dc2.valid /\ ~up
      BY <1>6, <3>1 DEF PipeEdge, InDc3, Ids2, Ids3, Ids
    <3>2. CASE ~(dc2.valid /\ ~up)
      <4>1. ~dc3'.busreq
        BY <1>2, <1>6, <3>2 DEF PipeEdge, InDc3
      <4> QED
        BY <4>1 DEF Ids3, Ids
    <3> QED
      BY <3>1, <3>2
  <2> QED
    BY <1>3, <1>4, <1>6, <2>1, <2>2, <2>3
<1> QED
  BY <1>5, <1>6

LEMMA IssuedIds ==
  ASSUME NEW lower, NEW freeze, NEW packet \in Issuable(lower, freeze)
  PROVE  /\ packet.valid \in BOOLEAN
         /\ packet.valid => packet.id = issued + 1 /\ ~(issued >= MaxOps)
<1>1. CASE packet = NoPacket
  BY <1>1 DEF NoPacket
<1>2. CASE packet # NoPacket
  <2>1. ~(issued >= MaxOps) /\ packet \in {Packet(a) : a \in Accesses}
    BY <1>2 DEF Issuable
  <2>2. PICK a \in Accesses : packet = Packet(a)
    BY <2>1
  <2> QED
    BY <2>1, <2>2 DEF Packet
<1> QED
  BY <1>1, <1>2

LEMMA OrderStep ==
  ASSUME ProgramOrder, Requests,
         NEW packet, NEW lower, NEW up, NEW flush_dc3, NEW kill, NEW hold, NEW freeze,
         packet \in Issuable(lower, freeze), packet.valid => ~freeze,
         PipeEdge(packet, lower, up, flush_dc3, kill, hold, freeze),
         History(flush_dc3, freeze, kill, packet)
  PROVE  ProgramOrder'
<1>1. /\ packet.valid \in BOOLEAN
      /\ packet.valid => packet.id = issued + 1 /\ ~(issued >= MaxOps)
  BY IssuedIds
<1>2. issued' = IF packet.valid THEN issued + 1 ELSE issued
  BY DEF History
<1>3. issued \in Nat /\ MaxOps \in Nat /\ issued' \in 0..MaxOps /\ issued' \in Nat /\ issued <= issued'
  BY <1>1, <1>2, BusBufferAssumption DEF ProgramOrder
<1>4. \A n \in Ids(packet, packet.valid) : n = issued + 1 /\ issued' = issued + 1
  BY <1>1, <1>2 DEF Ids
<1>5. /\ Ids1 \subseteq 1..issued /\ Ids2 \subseteq 1..issued /\ Ids3 \subseteq 1..issued
      /\ Ids4 \subseteq 1..issued /\ Ids5 \subseteq 1..issued
  BY DEF ProgramOrder
<1>6. /\ Ids5' \subseteq Ids4 /\ Ids4' \subseteq Ids3 /\ Ids3' \subseteq Ids2
      /\ freeze => Ids1' = Ids1 /\ Ids2' = Ids2 /\ Ids3' = {}
      /\ ~freeze => Ids1' \subseteq Ids(packet, packet.valid) /\ Ids2' \subseteq Ids1
  BY PipeMoves
<1>7. Ids1' \cup Ids2' \cup Ids3' \cup Ids4' \cup Ids5' \subseteq 1..issued'
  <2>1. 1..issued \subseteq 1..issued' /\ Ids(packet, packet.valid) \subseteq 1..issued'
    BY <1>3, <1>4
  <2>2. CASE freeze
    BY <1>5, <1>6, <2>1, <2>2
  <2>3. CASE ~freeze
    BY <1>5, <1>6, <2>1, <2>3
  <2> QED
    BY <2>2, <2>3
<1>8. /\ \A m \in Ids5', n \in Ids4' \cup Ids3' \cup Ids2' \cup Ids1' : m < n
      /\ \A m \in Ids4', n \in Ids3' \cup Ids2' \cup Ids1' : m < n
      /\ \A m \in Ids3', n \in Ids2' \cup Ids1' : m < n
      /\ \A m \in Ids2', n \in Ids1' : m < n
  <2>1. /\ \A m \in Ids4, n \in Ids3 \cup Ids2 \cup Ids1 : m < n
        /\ \A m \in Ids3, n \in Ids2 \cup Ids1 : m < n
        /\ \A m \in Ids2, n \in Ids1 : m < n
    BY DEF ProgramOrder
  <2>2. CASE freeze
    BY <1>6, <2>1, <2>2
  <2>3. CASE ~freeze
    <3>1. \A m \in 1..issued, n \in Ids(packet, packet.valid) : m < n
      BY <1>3, <1>4
    <3> QED
      BY <1>5, <1>6, <2>1, <2>3, <3>1
  <2> QED
    BY <1>6, <2>2, <2>3
<1> QED
  BY <1>3, <1>7, <1>8 DEF ProgramOrder, Ids1, Ids2, Ids3, Ids4, Ids5

-----------------------------------------------------------------------------
(* The types.  A request in a buffer has all its fields; what it writes are the
   numbers of accesses.                                                      *)

Fields == {"write", "word", "byteen", "data", "expect", "dual", "samedw", "dualhi", "dualtag",
           "nomerge", "nb", "id", "sideeffect"}
IsRequest(r) ==
  /\ Fields \subseteq DOMAIN r
  /\ r.write \in BOOLEAN /\ r.dual \in BOOLEAN /\ r.samedw \in BOOLEAN /\ r.dualhi \in BOOLEAN
  /\ r.nomerge \in BOOLEAN /\ r.nb \in BOOLEAN /\ r.sideeffect \in BOOLEAN
  /\ r.dualtag \in Entries /\ r.id \in Nat
  /\ r.nb => ~r.write
  /\ r.dual => ~r.sideeffect
  /\ r.dualhi => r.dual
Numbers(f) == \A b \in DOMAIN f : f[b] \in Nat

NonBlocking ==
  /\ dc4.nb => dc4.busreq /\ dc4.valid /\ dc4.op = "load"
  /\ dc5.nb /\ dc5.busreq => dc5.op = "load"

BufShape ==
  \A i \in Entries :
    /\ buf[i].state \in States
    /\ buf[i].state # "IDLE" => {"state", "error", "req"} \subseteq DOMAIN buf[i] /\ IsRequest(req(i))
    /\ pending(i) => Numbers(req(i).data)

IbufShape ==
  /\ ibuf.valid \in BOOLEAN
  /\ ibuf.valid => /\ {"valid", "timer", "tag", "req"} \subseteq DOMAIN ibuf
                   /\ ibuf.timer \in 0..TIMER_MAX
                   /\ IsRequest(ibuf.req) /\ Numbers(ibuf.req.data)

Shapes == NonBlocking /\ BufShape /\ IbufShape
Base == OwnersInv /\ ProgramOrder /\ Shapes

LEMMA HalfIsRequest ==
  ASSUME Base, dc5.busreq,
         NEW w, NEW other \in Entries, NEW high \in BOOLEAN, NEW nomerge \in BOOLEAN,
         high => ldst_dual(dc5)
  PROVE  IsRequest(Half(w, other, high, nomerge)) /\ Numbers(Half(w, other, high, nomerge).data)
<1> DEFINE r == Half(w, other, high, nomerge)
<1>1. dc5.id \in Nat
  <2>1. issued \in Nat /\ Ids5 \subseteq 1..issued
    BY BusBufferAssumption DEF Base, ProgramOrder
  <2>2. dc5.id \in Ids5
    BY Zenon DEF Ids5, Ids
  <2>3. dc5.id \in 1..issued
    BY <2>1, <2>2
  <2> QED
    BY <2>1, <2>3
<1>2. PICK a \in Accesses : dc5.op = a.op /\ dc5.addr = a.addr /\ dc5.size = a.size /\ dc5.sideeffect = a.sideeffect
  BY DEF Base, OwnersInv, Requests, HasEntries, IsAccess
<1>3. /\ dc5.op \in {"load", "store"} /\ dc5.sideeffect \in BOOLEAN
      /\ dc5.sideeffect => ~ldst_dual(dc5)
  BY <1>2, BusBufferAssumption DEF ldst_dual, lo, hi
<1>4. dc5.nb \in BOOLEAN /\ (dc5.nb => dc5.op = "load")
  BY DEF Base, OwnersInv, Requests, Stage, PacketOK, Shapes, NonBlocking
<1>5. ldst_dual(dc5) \in BOOLEAN /\ ldst_samedw(dc5) \in BOOLEAN
  BY DEF ldst_dual, ldst_samedw
<1>6. /\ Fields \subseteq DOMAIN r
      /\ r.write = (dc5.op = "store") /\ r.dual = ldst_dual(dc5) /\ r.samedw = ldst_samedw(dc5)
      /\ r.dualhi = high /\ r.nomerge = nomerge /\ r.nb = dc5.nb /\ r.sideeffect = dc5.sideeffect
      /\ r.dualtag = other /\ r.id = dc5.id /\ r.data = StoreBytes(dc5, w)
  BY DEF Half, Fields
<1>7. Numbers(r.data)
  BY <1>1, <1>6 DEF Numbers, StoreBytes
<1> HIDE DEF r
<1>8. IsRequest(r)
  BY <1>1, <1>3, <1>4, <1>5, <1>6 DEF IsRequest
<1> QED
  BY <1>7, <1>8 DEF r

LEMMA HalvesAreRequests ==
  ASSUME Base, dc5.busreq, NEW up
  PROVE  /\ IsRequest(LoHalf(up)) /\ Numbers(LoHalf(up).data)
         /\ ldst_dual(dc5) => IsRequest(HiHalf(up)) /\ Numbers(HiHalf(up).data)
<1>1. dc5.ptr0 \in Entries /\ dc5.ptr1 \in Entries
  BY DEF Base, OwnersInv, Requests, HasEntries
<1>2. no_dword_merge_dc5(up) \in BOOLEAN
  BY DEF no_dword_merge_dc5
<1> QED
  BY <1>1, <1>2, HalfIsRequest DEF LoHalf, HiHalf

LEMMA DrainedIsRequest ==
  ASSUME Base, ibuf.valid, NEW up, NEW kill
  PROVE  /\ IsRequest(DrainedIbuf(up, kill)) /\ Numbers(DrainedIbuf(up, kill).data)
         /\ \A f \in Fields \ {"byteen", "data", "nomerge"} : DrainedIbuf(up, kill)[f] = ibuf.req[f]
<1> DEFINE out == IF ibuf_merge_en(kill) /\ ldst_dual(dc5) THEN StoreBytes(dc5, lo(dc5)) ELSE NoBytes
           r == DrainedIbuf(up, kill)
<1>1. IsRequest(ibuf.req) /\ Numbers(ibuf.req.data)
  BY DEF Base, Shapes, IbufShape
<1>2. Numbers(out)
  <2>1. CASE ibuf_merge_en(kill) /\ ldst_dual(dc5)
    <3>1. dc5.busreq
      BY <2>1 DEF ibuf_merge_en
    <3>2. Numbers(LoHalf(up).data) /\ LoHalf(up).data = StoreBytes(dc5, lo(dc5))
      BY <3>1, HalvesAreRequests DEF LoHalf, Half
    <3> QED
      BY <2>1, <3>2
  <2>2. CASE ~(ibuf_merge_en(kill) /\ ldst_dual(dc5))
    BY <2>2 DEF NoBytes, Numbers
  <2> QED
    BY <2>1, <2>2
<1>3. r = [ibuf.req EXCEPT !.byteen = @ \cup DOMAIN out, !.data = Onto(out, @),
                           !.nomerge = @ \/ ibuf_force_drain(up)]
  BY DEF DrainedIbuf
<1>4. Numbers(Onto(out, ibuf.req.data))
  BY <1>1, <1>2 DEF Numbers, Onto
<1> HIDE DEF out, r
<1>5. /\ DOMAIN r = DOMAIN ibuf.req /\ r.data = Onto(out, ibuf.req.data)
      /\ r.nomerge = (ibuf.req.nomerge \/ ibuf_force_drain(up))
  BY <1>1, <1>3 DEF IsRequest, Fields
<1>6. \A f \in Fields \ {"byteen", "data", "nomerge"} : r[f] = ibuf.req[f]
  BY <1>1, <1>3 DEF IsRequest
<1>7. /\ r.write = ibuf.req.write /\ r.dual = ibuf.req.dual /\ r.samedw = ibuf.req.samedw
      /\ r.dualhi = ibuf.req.dualhi /\ r.nb = ibuf.req.nb /\ r.sideeffect = ibuf.req.sideeffect
      /\ r.dualtag = ibuf.req.dualtag /\ r.id = ibuf.req.id
  BY <1>6 DEF Fields
<1>8. IsRequest(r)
  BY <1>1, <1>5, <1>7 DEF IsRequest
<1> QED
  BY <1>4, <1>5, <1>6, <1>8 DEF r

LEMMA JoinedIsRequest ==
  ASSUME Base, NEW up, NEW kill, merges(kill)
  PROVE  /\ IsRequest(Joined(LoHalf(up))) /\ Numbers(Joined(LoHalf(up)).data)
         /\ \A f \in Fields \ {"byteen", "data"} : Joined(LoHalf(up))[f] = LoHalf(up)[f]
<1> DEFINE h == LoHalf(up)
           r == Joined(h)
<1>1. dc5.busreq /\ ibuf.valid
  BY DEF merges, ibuf_merge_en
<1>2. IsRequest(h) /\ Numbers(h.data) /\ Numbers(ibuf.req.data)
  BY <1>1, HalvesAreRequests DEF Base, Shapes, IbufShape
<1> HIDE DEF h
<1>3. r = [h EXCEPT !.byteen = @ \cup ibuf.req.byteen, !.data = Onto(@, ibuf.req.data)]
  BY DEF Joined
<1>4. Numbers(Onto(h.data, ibuf.req.data))
  BY <1>2 DEF Numbers, Onto
<1> HIDE DEF r
<1>5. DOMAIN r = DOMAIN h /\ r.data = Onto(h.data, ibuf.req.data)
  BY <1>2, <1>3 DEF IsRequest, Fields
<1>6. \A f \in Fields \ {"byteen", "data"} : r[f] = h[f]
  BY <1>2, <1>3 DEF IsRequest
<1>7. /\ r.write = h.write /\ r.dual = h.dual /\ r.samedw = h.samedw /\ r.dualhi = h.dualhi
      /\ r.nb = h.nb /\ r.sideeffect = h.sideeffect /\ r.nomerge = h.nomerge
      /\ r.dualtag = h.dualtag /\ r.id = h.id
  BY <1>6 DEF Fields
<1>8. IsRequest(r)
  BY <1>2, <1>5, <1>7 DEF IsRequest
<1> QED
  BY <1>4, <1>5, <1>6, <1>8 DEF r, h

LEMMA NewRequests ==
  ASSUME Base, NEW up, NEW kill, NEW freeze, NEW i, NEW r \in New(i, up, kill, freeze)
  PROVE  IsRequest(r) /\ Numbers(r.data)
<1>1. CASE ibuf_drain_vld(up, kill, freeze) /\ i = ibuf.tag
  <2>1. ibuf.valid /\ r = DrainedIbuf(up, kill)
    BY <1>1 DEF New, ibuf_drain_vld
  <2> QED
    BY <2>1, DrainedIsRequest
<1>2. CASE ~(ibuf_drain_vld(up, kill, freeze) /\ i = ibuf.tag) /\ hi_direct(up, kill, freeze) /\ i = dc5.ptr1
  <2>1. r = HiHalf(up) /\ dc5.busreq /\ ldst_dual(dc5)
    BY <1>2 DEF New, hi_direct, accepted
  <2> QED
    BY <2>1, HalvesAreRequests
<1>3. CASE /\ ~(ibuf_drain_vld(up, kill, freeze) /\ i = ibuf.tag)
           /\ ~(hi_direct(up, kill, freeze) /\ i = dc5.ptr1)
  <2>1. r = LoHalf(up) /\ dc5.busreq
    BY <1>3 DEF New, lo_direct, accepted
  <2> QED
    BY <2>1, HalvesAreRequests
<1> QED
  BY <1>1, <1>2, <1>3

(* What an edge does to an entry. *)
LEMMA EntryStep ==
  ASSUME BufShape, NEW clk_en, NEW up, NEW kill, NEW freeze, BufEdge(clk_en, up, kill, freeze),
         NEW i \in Entries
  PROVE  /\ buf[i].state = "IDLE" /\ New(i, up, kill, freeze) = {} => buf'[i] = NoEntry
         /\ buf[i].state = "IDLE" /\ New(i, up, kill, freeze) # {} =>
              /\ buf'[i].state = IF clk_en THEN "CMD" ELSE "WAIT"
              /\ {"state", "error", "req"} \subseteq DOMAIN buf'[i]
              /\ buf'[i].req \in New(i, up, kill, freeze)
         /\ buf[i].state = "WAIT" =>
              /\ buf'[i].state = IF clk_en THEN "CMD" ELSE "WAIT"
              /\ DOMAIN buf'[i] = DOMAIN buf[i] /\ buf'[i].req = buf[i].req
         /\ buf[i].state = "CMD" =>
              /\ buf'[i].state = IF clk_en /\ buf_cmd_state_bus_en(i) THEN "RESP" ELSE "CMD"
              /\ DOMAIN buf'[i] = DOMAIN buf[i] /\ buf'[i].req = buf[i].req
         /\ buf[i].state = "RESP" =>
              buf'[i] = IF clk_en /\ (rsp_read_for(i) \/ rsp_write_for(i)) THEN Answered(i) ELSE buf[i]
         /\ buf[i].state = "DONE" => buf'[i] = IF buf_rst(i) THEN NoEntry ELSE buf[i]
<1>1. buf[i].state \in States
  BY DEF BufShape
<1>2. buf[i].state # "IDLE" => {"state", "error", "req"} \subseteq DOMAIN buf[i]
  BY DEF BufShape
<1>3. CASE buf[i].state = "IDLE"
  <2>1. CASE New(i, up, kill, freeze) = {}
    BY <1>3, <2>1 DEF BufEdge
  <2>2. CASE New(i, up, kill, freeze) # {}
    <3>1. buf'[i] = [state |-> IF clk_en THEN "CMD" ELSE "WAIT", error |-> FALSE,
                     req |-> CHOOSE r \in New(i, up, kill, freeze) : TRUE]
      BY <1>3, <2>2 DEF BufEdge
    <3>2. (CHOOSE r \in New(i, up, kill, freeze) : TRUE) \in New(i, up, kill, freeze)
      BY <2>2
    <3> QED
      BY <1>3, <2>2, <3>1, <3>2
  <2> QED
    BY <2>1, <2>2
<1>4. CASE buf[i].state = "WAIT"
  BY <1>2, <1>4 DEF BufEdge
<1>5. CASE buf[i].state = "CMD"
  BY <1>2, <1>5 DEF BufEdge
<1>6. CASE buf[i].state = "RESP"
  BY <1>2, <1>6 DEF BufEdge
<1>7. CASE buf[i].state = "DONE"
  BY <1>2, <1>7 DEF BufEdge
<1> QED
  BY <1>1, <1>3, <1>4, <1>5, <1>6, <1>7 DEF States

LEMMA AnsweredIsRequest ==
  ASSUME NEW i, buf[i].state = "RESP", IsRequest(req(i))
  PROVE  /\ Answered(i).state \in {"IDLE", "DONE"}
         /\ Answered(i).state = "IDLE" => Answered(i) = NoEntry
         /\ Answered(i).state = "DONE" =>
              /\ {"state", "error", "req"} \subseteq DOMAIN Answered(i)
              /\ IsRequest(Answered(i).req)
              /\ \A f \in Fields \ {"data"} : Answered(i).req[f] = req(i)[f]
<1>1. CASE req(i).write /\ ~(bus_rsp_write.valid /\ bus_rsp_write.error)
  BY <1>1 DEF Answered, NoEntry
<1>2. CASE ~(req(i).write /\ ~(bus_rsp_write.valid /\ bus_rsp_write.error))
  <2> DEFINE r == IF ~req(i).write /\ bus_rsp_read.valid
                  THEN [req(i) EXCEPT !.data = bus_rsp_read.data[req(i).word % 2]] ELSE req(i)
  <2>1. Answered(i) = [state |-> "DONE", error |-> rsp_error(i), req |-> r]
    BY <1>2 DEF Answered
  <2>2. DOMAIN r = DOMAIN req(i) /\ \A f \in Fields \ {"data"} : r[f] = req(i)[f]
    BY DEF IsRequest
  <2> HIDE DEF r
  <2>3. IsRequest(r)
    <3>1. /\ r.write = req(i).write /\ r.dual = req(i).dual /\ r.samedw = req(i).samedw
          /\ r.dualhi = req(i).dualhi /\ r.nb = req(i).nb /\ r.sideeffect = req(i).sideeffect
          /\ r.dualtag = req(i).dualtag /\ r.id = req(i).id /\ r.nomerge = req(i).nomerge
      BY <2>2 DEF Fields
    <3> QED
      BY <2>2, <3>1 DEF IsRequest
  <2> QED
    BY <2>1, <2>2, <2>3
<1> QED
  BY <1>1, <1>2

LEMMA BufShapeStep ==
  ASSUME Base, NEW clk_en, NEW up, NEW kill, NEW freeze, BufEdge(clk_en, up, kill, freeze)
  PROVE  BufShape'
<1>1. BufShape
  BY DEF Base, Shapes
<1> SUFFICES ASSUME NEW i \in Entries
             PROVE  /\ buf'[i].state \in States
                    /\ buf'[i].state # "IDLE" =>
                         {"state", "error", "req"} \subseteq DOMAIN buf'[i] /\ IsRequest(buf'[i].req)
                    /\ buf'[i].state \in {"WAIT", "CMD"} => Numbers(buf'[i].req.data)
  BY Zenon DEF BufShape, req, pending
<1>2. NoEntry.state = "IDLE"
  BY DEF NoEntry
<1>3. /\ buf[i].state \in States
      /\ buf[i].state # "IDLE" => {"state", "error", "req"} \subseteq DOMAIN buf[i] /\ IsRequest(buf[i].req)
      /\ buf[i].state \in {"WAIT", "CMD"} => Numbers(buf[i].req.data)
  BY <1>1 DEF BufShape, req, pending
<1>4. CASE buf[i].state = "IDLE"
  <2>1. CASE New(i, up, kill, freeze) = {}
    BY <1>1, <1>2, <1>4, <2>1, EntryStep DEF States
  <2>2. CASE New(i, up, kill, freeze) # {}
    <3>1. /\ buf'[i].state = IF clk_en THEN "CMD" ELSE "WAIT"
          /\ {"state", "error", "req"} \subseteq DOMAIN buf'[i]
          /\ buf'[i].req \in New(i, up, kill, freeze)
      BY <1>1, <1>4, <2>2, EntryStep
    <3>2. IsRequest(buf'[i].req) /\ Numbers(buf'[i].req.data)
      BY <3>1, NewRequests
    <3> QED
      BY <3>1, <3>2 DEF States
  <2> QED
    BY <2>1, <2>2
<1>5. CASE buf[i].state \in {"WAIT", "CMD"}
  <2>1. /\ buf'[i].state \in {"WAIT", "CMD", "RESP"} /\ DOMAIN buf'[i] = DOMAIN buf[i]
        /\ buf'[i].req = buf[i].req
    BY <1>1, <1>5, EntryStep
  <2> QED
    BY <1>3, <1>5, <2>1 DEF States
<1>6. CASE buf[i].state = "RESP"
  <2>1. buf'[i] = Answered(i) \/ buf'[i] = buf[i]
    BY <1>1, <1>6, EntryStep
  <2>2. CASE buf'[i] = buf[i]
    BY <1>3, <2>2, Zenon
  <2>3. CASE buf'[i] = Answered(i)
    <3>1. IsRequest(req(i))
      BY <1>3, <1>6 DEF req
    <3> QED
      BY <1>2, <1>6, <2>3, <3>1, AnsweredIsRequest DEF States
  <2> QED
    BY <2>1, <2>2, <2>3
<1>7. CASE buf[i].state = "DONE"
  <2>1. buf'[i] = NoEntry \/ buf'[i] = buf[i]
    BY <1>1, <1>7, EntryStep
  <2> QED
    BY <1>2, <1>3, <2>1 DEF States
<1> QED
  BY <1>3, <1>4, <1>5, <1>6, <1>7 DEF States

LEMMA IbufShapeStep ==
  ASSUME Base, NEW up, NEW kill, NEW freeze, IbufEdge(up, kill, freeze)
  PROVE  IbufShape'
<1>1. IbufShape /\ TIMER_MAX \in Nat
  BY BusBufferAssumption DEF Base, Shapes
<1>2. CASE ibuf_wr_en(up, kill, freeze)
  <2> DEFINE r == IF merges(kill) THEN Joined(LoHalf(up))
                  ELSE IF ldst_dual(dc5) THEN HiHalf(up) ELSE LoHalf(up)
             t == IF merges(kill) THEN ibuf.tag ELSE IF ldst_dual(dc5) THEN dc5.ptr1 ELSE dc5.ptr0
  <2>1. ibuf' = [valid |-> TRUE, timer |-> 0, tag |-> t, req |-> r]
    BY <1>2 DEF IbufEdge
  <2>2. dc5.busreq
    BY <1>2 DEF ibuf_wr_en, accepted
  <2>3. IsRequest(r) /\ Numbers(r.data)
    BY <2>2, JoinedIsRequest, HalvesAreRequests
  <2> HIDE DEF r, t
  <2>4. 0 \in 0..TIMER_MAX
    BY <1>1
  <2> QED
    BY <2>1, <2>3, <2>4 DEF IbufShape
<1>3. CASE ~ibuf_wr_en(up, kill, freeze) /\ ibuf_drain_vld(up, kill, freeze)
  BY <1>3 DEF IbufEdge, Nothing, IbufShape
<1>4. CASE /\ ~ibuf_wr_en(up, kill, freeze) /\ ~ibuf_drain_vld(up, kill, freeze)
           /\ ibuf.valid /\ ibuf.timer < TIMER_MAX
  <2>1. ibuf' = [ibuf EXCEPT !.timer = @ + 1]
    BY <1>4 DEF IbufEdge
  <2>2. ibuf.timer + 1 \in 0..TIMER_MAX
    BY <1>1, <1>4 DEF IbufShape
  <2>3. /\ ibuf'.timer = ibuf.timer + 1 /\ DOMAIN ibuf' = DOMAIN ibuf
        /\ ibuf'.valid = ibuf.valid /\ ibuf'.req = ibuf.req
    BY <1>1, <1>4, <2>1 DEF IbufShape
  <2> QED
    BY <1>1, <1>4, <2>2, <2>3 DEF IbufShape
<1>5. CASE /\ ~ibuf_wr_en(up, kill, freeze) /\ ~ibuf_drain_vld(up, kill, freeze)
           /\ ~(ibuf.valid /\ ibuf.timer < TIMER_MAX)
  BY <1>1, <1>5 DEF IbufEdge, IbufShape
<1> QED
  BY <1>2, <1>3, <1>4, <1>5

LEMMA NonBlockingStep ==
  ASSUME Base, NEW packet, NEW lower, NEW up, NEW flush_dc3, NEW kill, NEW hold, NEW freeze,
         PipeEdge(packet, lower, up, flush_dc3, kill, hold, freeze)
  PROVE  NonBlocking'
<1>1. NonBlocking /\ Stage(dc4)
  BY DEF Base, Shapes, OwnersInv, Requests
<1>2. ~NoPacket.busreq /\ ~NoPacket.nb
  BY DEF NoPacket
<1>3. dc4'.nb => dc4'.busreq /\ dc4'.valid /\ dc4'.op = "load"
  BY <1>2 DEF PipeEdge, InDc4, lsu_nonblock_load_valid_dc3
<1>4. dc5'.nb /\ dc5'.busreq => dc5'.op = "load"
  BY <1>1, <1>2 DEF PipeEdge, InDc5, NonBlocking, Stage, PacketOK
<1> QED
  BY <1>3, <1>4 DEF NonBlocking

-----------------------------------------------------------------------------
(* Ages: an entry that waits is younger than those that were there when it came,
   until they are in the output buffer; of two that wait one is the older.     *)

Ages ==
  /\ \A i \in Entries : \A j \in buf_age[i] : j \in Entries \ {i} /\ pending(j)
  /\ \A i \in Entries : ~pending(i) => buf_age[i] = {}
  /\ \A i \in Entries : buf_cmd_state_bus_en(i) => age(i) = {}
  /\ \A i, j \in Entries :
       /\ i # j /\ pending(i) /\ pending(j) /\ ~buf_cmd_state_bus_en(i) /\ ~buf_cmd_state_bus_en(j)
       => i \in buf_age[j] \/ j \in buf_age[i]
  /\ \A i, j \in Entries : ~(i \in buf_age[j] /\ j \in buf_age[i])

(* "These should be one-hot" follows. *)
LEMMA FirstCommand ==
  ASSUME Ages, NEW i \in CmdPtr0Dec, NEW j \in CmdPtr0Dec
  PROVE  i = j
  BY DEF Ages, CmdPtr0Dec, in_cmd, pending, age

LEMMA SecondCommand ==
  ASSUME Ages, NEW i \in CmdPtr1Dec, NEW j \in CmdPtr1Dec
  PROVE  i = j
<1> SUFFICES ASSUME i # j PROVE FALSE
  OBVIOUS
<1>1. i \in age(j) \/ j \in age(i)
  BY DEF Ages, CmdPtr1Dec, in_cmd, pending, age
<1> QED
  BY <1>1 DEF CmdPtr1Dec

LEMMA FirstForwarded ==
  ASSUME Ages, NEW c, NEW i \in hitvecfn(c), NEW j \in hitvecfn(c)
  PROVE  i = j
<1> SUFFICES ASSUME i # j PROVE FALSE
  OBVIOUS
<1>1. i \in Entries /\ j \in Entries /\ i \in hitvec(c) /\ j \in hitvec(c)
  BY DEF hitvecfn, hitvec
<1>2. buf[i].state # "IDLE" /\ buf[j].state # "IDLE"
  BY <1>1 DEF hitvec, pending
<1>3. i \in age(j) /\ j \in age(i)
  BY <1>1, <1>2 DEF hitvecfn, buf_age_younger
<1> QED
  BY <1>1, <1>3 DEF Ages, age

LEMMA Cmd0 ==
  ASSUME Ages, CmdPtr0Dec # {}
  PROVE  CmdPtr0 \in Entries /\ CmdPtr0Dec = {CmdPtr0} /\ in_cmd(CmdPtr0) /\ age(CmdPtr0) = {}
<1>1. CmdPtr0Dec \subseteq Entries
  BY DEF CmdPtr0Dec
<1>2. CmdPtr0 \in CmdPtr0Dec
  BY <1>1, MinOfEntries DEF CmdPtr0
<1> QED
  BY <1>1, <1>2, FirstCommand DEF CmdPtr0Dec

LEMMA Cmd1 ==
  ASSUME Ages, CmdPtr1Dec # {}
  PROVE  /\ CmdPtr1 \in Entries /\ CmdPtr1Dec = {CmdPtr1} /\ in_cmd(CmdPtr1)
         /\ CmdPtr1 \notin CmdPtr0Dec /\ age(CmdPtr1) \subseteq CmdPtr0Dec
<1>1. CmdPtr1Dec \subseteq Entries
  BY DEF CmdPtr1Dec
<1>2. CmdPtr1 \in CmdPtr1Dec
  BY <1>1, MinOfEntries DEF CmdPtr1
<1>3. \A j \in CmdPtr1Dec : j = CmdPtr1
  BY <1>2, SecondCommand
<1> QED
  BY <1>1, <1>2, <1>3 DEF CmdPtr1Dec

-----------------------------------------------------------------------------
(* What leaves dc5 and the input buffer, and its age.                        *)

LEMMA Dc5Ptrs ==
  ASSUME OwnersInv, dc5.busreq
  PROVE  /\ dc5.ptr0 \in Entries /\ dc5.ptr1 \in Entries
         /\ dc5.ptr0 \notin Taken /\ dc5.ptr0 \notin Tagged
         /\ ldst_dual(dc5) => /\ dc5.ptr1 \notin Taken /\ dc5.ptr1 \notin Tagged
                              /\ dc5.ptr0 # dc5.ptr1
  BY DEF OwnersInv, Requests, HasEntries, Owners, ptrs

(* Three ways to be given an entry. *)
LEMMA NewEntry ==
  ASSUME OwnersInv, NEW up, NEW kill, NEW freeze, NEW i \in Entries,
         New(i, up, kill, freeze) # {}
  PROVE  /\ buf[i].state = "IDLE"
         /\ \/ /\ i = ibuf.tag /\ ibuf_drain_vld(up, kill, freeze) /\ i \in Tagged
               /\ New(i, up, kill, freeze) = {DrainedIbuf(up, kill)}
            \/ /\ i = dc5.ptr1 /\ hi_direct(up, kill, freeze)
               /\ New(i, up, kill, freeze) = {HiHalf(up)}
            \/ /\ i = dc5.ptr0 /\ lo_direct(up, kill, freeze)
               /\ New(i, up, kill, freeze) = {LoHalf(up)}
<1>1. CASE ibuf_drain_vld(up, kill, freeze) /\ i = ibuf.tag
  <2>1. i \in Tagged /\ i \notin Taken
    BY <1>1 DEF Tagged, ibuf_drain_vld, OwnersInv, Owners
  <2> QED
    BY <1>1, <2>1 DEF New, Taken
<1>2. CASE ~(ibuf_drain_vld(up, kill, freeze) /\ i = ibuf.tag) /\ hi_direct(up, kill, freeze) /\ i = dc5.ptr1
  <2>1. i \notin Taken
    BY <1>2, Dc5Ptrs DEF hi_direct, accepted
  <2> QED
    BY <1>2, <2>1 DEF New, Taken
<1>3. CASE /\ ~(ibuf_drain_vld(up, kill, freeze) /\ i = ibuf.tag)
           /\ ~(hi_direct(up, kill, freeze) /\ i = dc5.ptr1)
  <2>1. lo_direct(up, kill, freeze) /\ i = dc5.ptr0 /\ New(i, up, kill, freeze) = {LoHalf(up)}
    BY <1>3 DEF New
  <2>2. i \notin Taken
    BY <2>1, Dc5Ptrs DEF lo_direct, accepted
  <2> QED
    BY <2>1, <2>2 DEF Taken
<1> QED
  BY <1>1, <1>2, <1>3

LEMMA DrainedHasEntry ==
  ASSUME NEW up, NEW kill, NEW freeze, ibuf_drain_vld(up, kill, freeze)
  PROVE  New(ibuf.tag, up, kill, freeze) # {}
  BY DEF New

(* What is older than what comes: what waits, and what comes before it. *)
LEMMA OlderComes ==
  ASSUME OwnersInv, NEW up, NEW kill, NEW freeze, NEW i \in Entries,
         New(i, up, kill, freeze) # {}, NEW j \in older(i, up, kill, freeze)
  PROVE  /\ j \in Entries /\ j # i
         /\ \/ j \in Taken /\ pending(j) /\ ~buf_cmd_state_bus_en(j)
            \/ /\ New(j, up, kill, freeze) # {}
               /\ \/ j = ibuf.tag /\ ibuf_drain_vld(up, kill, freeze) /\ i = dc5.ptr0 /\ dc5.busreq
                  \/ /\ j = dc5.ptr0 /\ hi_direct(up, kill, freeze) /\ i = dc5.ptr1
<1>1. buf[i].state = "IDLE"
  BY NewEntry
<1>2. CASE j \in Entries /\ (buf[j].state = "WAIT" \/ in_cmd(j))
  BY <1>1, <1>2 DEF Taken, pending, in_cmd, buf_cmd_state_bus_en
<1>3. CASE /\ ibuf_drain_vld(up, kill, freeze) /\ dc5.busreq
           /\ i = dc5.ptr0 /\ j = ibuf.tag
  <2>1. j \in Tagged /\ j \in Entries
    BY <1>3 DEF ibuf_drain_vld, Tagged, OwnersInv, InputBuffer
  <2>2. i # j
    BY <1>3, <2>1, Dc5Ptrs
  <2> QED
    BY <1>3, <2>1, <2>2, DrainedHasEntry
<1>4. CASE ibuf_byp(up) /\ ldst_dual(dc5) /\ i = dc5.ptr1 /\ j = dc5.ptr0
  <2>1. dc5.busreq /\ ~ibuf.valid
    BY <1>4 DEF ibuf_byp
  <2>2. j \in Entries /\ j # i
    BY <1>4, <2>1, Dc5Ptrs
  <2>3. ~ibuf_drain_vld(up, kill, freeze) /\ ~ibuf_merge_en(kill)
    BY <2>1 DEF ibuf_drain_vld, ibuf_merge_en
  <2>4. hi_direct(up, kill, freeze)
    BY <1>4, <2>2, <2>3, NewEntry
  <2>5. lo_direct(up, kill, freeze)
    BY <1>4, <2>3, <2>4 DEF lo_direct, hi_direct
  <2>6. New(j, up, kill, freeze) # {}
    BY <1>4, <2>3, <2>5 DEF New
  <2> QED
    BY <1>4, <2>2, <2>4, <2>6
<1> QED
  BY <1>2, <1>3, <1>4 DEF older

-----------------------------------------------------------------------------
(* Which entries wait after the edge, and which are in the output buffer.    *)

LEMMA WaitingStep ==
  ASSUME BufShape, NEW clk_en \in BOOLEAN, NEW up, NEW kill, NEW freeze, BufEdge(clk_en, up, kill, freeze),
         NEW i \in Entries
  PROVE  /\ pending(i) /\ ~buf_cmd_state_bus_en(i) => pending(i)'
         /\ pending(i) /\ buf_cmd_state_bus_en(i) =>
              buf'[i].state = IF clk_en THEN "RESP" ELSE "CMD"
         /\ pending(i)' =>
              \/ buf[i].state = "IDLE" /\ New(i, up, kill, freeze) # {}
              \/ pending(i) /\ (clk_en => ~buf_cmd_state_bus_en(i))
         /\ buf[i].state = "IDLE" /\ New(i, up, kill, freeze) # {} => pending(i)'
         /\ ~clk_en => (buf'[i].state = "CMD") = (buf[i].state = "CMD")
<1>1. buf[i].state \in States
  BY DEF BufShape
<1>2. NoEntry.state = "IDLE"
  BY DEF NoEntry
<1>3. CASE buf[i].state = "IDLE"
  BY <1>2, <1>3, EntryStep DEF pending
<1>4. CASE buf[i].state = "WAIT"
  BY <1>4, EntryStep DEF pending, buf_cmd_state_bus_en
<1>5. CASE buf[i].state = "CMD"
  BY <1>5, EntryStep DEF pending
<1>6. CASE buf[i].state = "RESP"
  <2>1. buf'[i] = Answered(i) \/ buf'[i] = buf[i]
    BY <1>6, EntryStep
  <2>2. buf'[i].state \in {"RESP", "IDLE", "DONE"}
    BY <1>2, <1>6, <2>1 DEF Answered
  <2> QED
    BY <1>6, <2>2 DEF pending
<1>7. CASE buf[i].state = "DONE"
  <2>1. buf'[i] = NoEntry \/ buf'[i] = buf[i]
    BY <1>7, EntryStep
  <2> QED
    BY <1>2, <1>7, <2>1 DEF pending
<1> QED
  BY <1>1, <1>3, <1>4, <1>5, <1>6, <1>7 DEF States

(* What goes to the output buffer: a store from dc5 past everything, or the first
   command, with its other half if it is a load in one bus word. *)
LEMMA NextCommandOf ==
  ASSUME NEW up, NEW kill, NEW ready, obuf_wr_en(up, kill, ready)
  PROVE  \/ /\ ibuf_buf_byp(up) /\ NextCommand(up) = Command(LoHalf(up), dc5.ptr0)
         \/ /\ CmdPtr0Dec # {} /\ ~obuf_merge_en /\ NextCommand(up) = Command(req(CmdPtr0), CmdPtr0)
         \/ /\ CmdPtr0Dec # {} /\ CmdPtr1Dec # {} /\ obuf_merge_en
            /\ NextCommand(up) = [Command(req(CmdPtr0), CmdPtr0) EXCEPT !.tag1 = CmdPtr1, !.merge = TRUE]
<1>1. ibuf_buf_byp(up) \/ CmdPtr0Dec # {}
  BY DEF obuf_wr_en
<1>2. obuf_merge_en => CmdPtr1Dec # {}
  BY DEF obuf_merge_en
<1> QED
  BY <1>1, <1>2 DEF NextCommand

(* The store that passes everything finds nothing that waits. *)
LEMMA Bypass ==
  ASSUME Base, NEW up, ibuf_buf_byp(up)
  PROVE  /\ dc5.busreq /\ dc5.op = "store" /\ ~ldst_dual(dc5) /\ ~ibuf.valid
         /\ \A i \in Entries : buf[i].state # "WAIT" /\ ~in_cmd(i)
<1>1. Cardinality({i \in Entries : buf[i].state = "WAIT" \/ in_cmd(i)}) = 0
  BY DEF ibuf_buf_byp, buf_numvld_pend_any
<1>2. IsFiniteSet({i \in Entries : buf[i].state = "WAIT" \/ in_cmd(i)})
  BY SomeEntries
<1>3. {i \in Entries : buf[i].state = "WAIT" \/ in_cmd(i)} = {}
  BY <1>1, <1>2, FS_EmptySet, Zenon
<1> QED
  BY <1>3 DEF ibuf_buf_byp, ibuf_byp

LEMMA BypassEntry ==
  ASSUME Base, NEW up, NEW kill, NEW freeze, ibuf_buf_byp(up), lsu_commit_dc5(kill)
  PROVE  /\ dc5.ptr0 \in Entries /\ buf[dc5.ptr0].state = "IDLE"
         /\ New(dc5.ptr0, up, kill, freeze) = {LoHalf(up)}
         /\ \A i \in Entries : New(i, up, kill, freeze) # {} => i = dc5.ptr0
<1>1. /\ dc5.busreq /\ ~ldst_dual(dc5) /\ ~ibuf.valid /\ ibuf_byp(up)
  BY Bypass DEF ibuf_buf_byp
<1>2. dc5.ptr0 \in Entries /\ dc5.ptr0 \notin Taken
  BY <1>1, Dc5Ptrs DEF Base
<1>3. /\ ~ibuf_drain_vld(up, kill, freeze) /\ ~hi_direct(up, kill, freeze)
      /\ lo_direct(up, kill, freeze)
  BY <1>1 DEF ibuf_drain_vld, hi_direct, lo_direct, accepted, ibuf_merge_en
<1> QED
  BY <1>2, <1>3 DEF New, Taken

LEMMA LeavesStep ==
  ASSUME Base, Ages, NEW clk_en \in BOOLEAN, NEW up, NEW kill, NEW freeze, NEW ready,
         BufEdge(clk_en, up, kill, freeze), ObufEdge(clk_en, up, kill, ready),
         NEW i \in Entries
  PROVE  /\ ~clk_en => (buf_cmd_state_bus_en(i)' <=> buf_cmd_state_bus_en(i))
         /\ clk_en /\ buf_cmd_state_bus_en(i)' =>
              /\ obuf_wr_en(up, kill, ready)
              /\ \/ ibuf_buf_byp(up) /\ lsu_commit_dc5(kill) /\ i = dc5.ptr0
                 \/ CmdPtr0Dec # {} /\ i = CmdPtr0
                 \/ /\ CmdPtr0Dec # {} /\ obuf_merge_en /\ CmdPtr1Dec # {} /\ i = CmdPtr1
                    /\ \A c \in CmdPtr0Dec : buf_cmd_state_bus_en(c)'
<1>1. BufShape
  BY DEF Base, Shapes
<1>2. ASSUME ~clk_en PROVE buf_cmd_state_bus_en(i)' <=> buf_cmd_state_bus_en(i)
  <2>1. obuf' = obuf /\ obuf_wr_enQ' = obuf_wr_enQ
    BY <1>2 DEF ObufEdge
  <2>2. (buf'[i].state = "CMD") = (buf[i].state = "CMD")
    BY <1>1, <1>2, WaitingStep
  <2> QED
    BY <2>1, <2>2 DEF buf_cmd_state_bus_en
<1>3. ASSUME clk_en, buf_cmd_state_bus_en(i)'
      PROVE  /\ obuf_wr_en(up, kill, ready)
             /\ \/ ibuf_buf_byp(up) /\ lsu_commit_dc5(kill) /\ i = dc5.ptr0
                \/ CmdPtr0Dec # {} /\ i = CmdPtr0
                \/ /\ CmdPtr0Dec # {} /\ obuf_merge_en /\ CmdPtr1Dec # {} /\ i = CmdPtr1
                   /\ \A c \in CmdPtr0Dec : buf_cmd_state_bus_en(c)'
  <2>1. obuf_wr_enQ' = obuf_wr_en(up, kill, ready) /\ obuf_wr_enQ'
    BY <1>3 DEF ObufEdge, buf_cmd_state_bus_en
  <2>2. obuf' = NextCommand(up)
    BY <1>3, <2>1 DEF ObufEdge
  <2>3. i = obuf'.tag0 \/ (obuf'.merge /\ i = obuf'.tag1)
    BY <1>3 DEF buf_cmd_state_bus_en
  <2>4. CASE ibuf_buf_byp(up) /\ NextCommand(up) = Command(LoHalf(up), dc5.ptr0)
    <3>1. obuf'.tag0 = dc5.ptr0 /\ ~obuf'.merge
      BY <2>2, <2>4 DEF Command
    <3>2. CmdPtr0Dec = {}
      BY <2>4, Bypass DEF CmdPtr0Dec
    <3> QED
      BY <2>1, <2>3, <2>4, <3>1, <3>2 DEF obuf_wr_en
  <2>5. CASE CmdPtr0Dec # {} /\ ~obuf_merge_en /\ NextCommand(up) = Command(req(CmdPtr0), CmdPtr0)
    BY <2>1, <2>2, <2>3, <2>5 DEF Command
  <2>6. CASE /\ CmdPtr0Dec # {} /\ CmdPtr1Dec # {} /\ obuf_merge_en
             /\ NextCommand(up) = [Command(req(CmdPtr0), CmdPtr0) EXCEPT !.tag1 = CmdPtr1, !.merge = TRUE]
    <3>1. obuf'.tag0 = CmdPtr0 /\ obuf'.tag1 = CmdPtr1 /\ obuf'.valid
      BY <2>2, <2>6 DEF Command
    <3>2. buf'[CmdPtr0].state = "CMD"
      <4>1. CmdPtr0 \in Entries /\ in_cmd(CmdPtr0)
        BY <2>6, Cmd0
      <4> QED
        BY <1>1, <4>1, EntryStep DEF in_cmd
    <3>3. \A c \in CmdPtr0Dec : buf_cmd_state_bus_en(c)'
      <4>1. \A c \in CmdPtr0Dec : c = CmdPtr0
        BY <2>6, Cmd0
      <4> QED
        BY <2>1, <3>1, <3>2, <4>1 DEF buf_cmd_state_bus_en
    <3> QED
      BY <2>1, <2>3, <2>6, <3>1, <3>3
  <2> QED
    BY <2>1, <2>4, <2>5, <2>6, NextCommandOf
<1> QED
  BY <1>2, <1>3

LEMMA AgesStep ==
  ASSUME Base, Ages, NEW clk_en \in BOOLEAN, NEW up, NEW kill, NEW freeze, NEW ready,
         BufEdge(clk_en, up, kill, freeze), AgeEdge(up, kill, freeze),
         ObufEdge(clk_en, up, kill, ready)
  PROVE  Ages'
<1> DEFINE En(i) == buf_cmd_state_bus_en(i)
           new(i) == New(i, up, kill, freeze) # {}
           old(i) == older(i, up, kill, freeze)
<1>1. OwnersInv /\ BufShape
  BY DEF Base, Shapes
<1>2. \A i \in Entries : new(i) =>
        /\ buf[i].state = "IDLE" /\ ~pending(i) /\ buf_age[i] = {} /\ age(i) = {} /\ pending(i)'
        /\ buf_age'[i] = old(i)
  <2> SUFFICES ASSUME NEW i \in Entries, new(i)
               PROVE  /\ buf[i].state = "IDLE" /\ ~pending(i) /\ buf_age[i] = {} /\ age(i) = {} /\ pending(i)'
                      /\ buf_age'[i] = old(i)
    OBVIOUS
  <2>1. buf[i].state = "IDLE"
    BY <1>1, NewEntry
  <2>2. ~pending(i) /\ buf_age[i] = {} /\ age(i) = {}
    BY <2>1 DEF pending, Ages, age
  <2>3. pending(i)'
    BY <1>1, <2>1, WaitingStep
  <2>4. buf_age'[i] = old(i)
    BY <2>1, <2>2 DEF AgeEdge
  <2> QED
    BY <2>1, <2>2, <2>3, <2>4
<1>3. \A i \in Entries : ~new(i) => buf_age'[i] = age(i)
  BY DEF AgeEdge
<1>4. \A i \in Entries : \A j \in age(i) : j \in buf_age[i] /\ ~En(j) /\ j \in Entries /\ j # i /\ pending(j)
  BY DEF age, Ages
<1>5. \A i \in Entries : new(i) => \A j \in old(i) :
        /\ j \in Entries /\ j # i
        /\ \/ pending(j) /\ ~En(j)
           \/ /\ new(j)
              /\ \/ j = ibuf.tag /\ ibuf_drain_vld(up, kill, freeze) /\ i = dc5.ptr0 /\ dc5.busreq
                 \/ j = dc5.ptr0 /\ hi_direct(up, kill, freeze) /\ i = dc5.ptr1
  BY <1>1, OlderComes
<1>6. \A i \in Entries :
        /\ pending(i) /\ ~En(i) => pending(i)'
        /\ pending(i)' => new(i) \/ (pending(i) /\ (clk_en => ~En(i)))
        /\ ~clk_en => (En(i)' <=> En(i))
  <2> SUFFICES ASSUME NEW i \in Entries
               PROVE  /\ pending(i) /\ ~En(i) => pending(i)'
                      /\ pending(i)' => new(i) \/ (pending(i) /\ (clk_en => ~En(i)))
                      /\ ~clk_en => (En(i)' <=> En(i))
    OBVIOUS
  <2>1. /\ pending(i) /\ ~En(i) => pending(i)'
        /\ pending(i)' => new(i) \/ (pending(i) /\ (clk_en => ~En(i)))
    BY <1>1, WaitingStep
  <2>2. ~clk_en => (En(i)' <=> En(i))
    BY LeavesStep
  <2> QED
    BY <2>1, <2>2
<1> HIDE DEF new, old
<1>7. \A i \in Entries : \A j \in buf_age'[i] : j \in Entries \ {i} /\ pending(j)'
  <2> SUFFICES ASSUME NEW i \in Entries, NEW j \in buf_age'[i]
               PROVE  j \in Entries \ {i} /\ pending(j)'
    OBVIOUS
  <2>1. CASE new(i)
    BY <1>2, <1>5, <1>6, <2>1
  <2>2. CASE ~new(i)
    BY <1>3, <1>4, <1>6, <2>2
  <2> QED
    BY <2>1, <2>2
<1>8. ASSUME NEW i \in Entries, ~pending(i)'
      PROVE  buf_age'[i] = {}
  <2>1. ~new(i)
    BY <1>2, <1>8
  <2>2. CASE pending(i)
    <3>1. En(i)
      BY <1>6, <1>8, <2>2
    <3> QED
      BY <1>3, <2>1, <3>1 DEF Ages
  <2>3. CASE ~pending(i)
    BY <1>3, <2>1, <2>3 DEF Ages, age
  <2> QED
    BY <2>2, <2>3
<1>9. ASSUME NEW i \in Entries, En(i)'
      PROVE  age(i)' = {}
  <2> SUFFICES ASSUME NEW j \in buf_age'[i]
               PROVE  En(j)'
    BY DEF age
  <2>1. CASE ~clk_en
    <3>1. En(i) /\ pending(i)
      BY <1>6, <1>9, <2>1 DEF buf_cmd_state_bus_en, pending
    <3>2. ~new(i) /\ age(i) = {}
      BY <1>2, <3>1 DEF Ages
    <3> QED
      BY <1>3, <3>2
  <2>2. CASE clk_en /\ ibuf_buf_byp(up) /\ lsu_commit_dc5(kill) /\ i = dc5.ptr0
    <3>1. new(i) /\ \A k \in Entries : new(k) => k = dc5.ptr0
      BY <2>2, BypassEntry DEF new
    <3>2. \A k \in Entries : buf[k].state # "WAIT" /\ ~in_cmd(k)
      BY <2>2, Bypass
    <3>3. j \in old(i)
      BY <1>2, <3>1
    <3>4. j \in Entries /\ j # i /\ ((pending(j) /\ ~En(j)) \/ new(j))
      BY <1>5, <3>1, <3>3
    <3>5. ~(pending(j) /\ ~En(j))
      BY <3>2, <3>4 DEF pending, in_cmd
    <3> QED
      BY <2>2, <3>1, <3>4, <3>5
  <2>3. CASE CmdPtr0Dec # {} /\ i = CmdPtr0
    <3>1. age(i) = {} /\ pending(i)
      BY <2>3, Cmd0 DEF in_cmd, pending
    <3> QED
      BY <1>2, <1>3, <3>1
  <2>4. CASE /\ CmdPtr0Dec # {} /\ CmdPtr1Dec # {} /\ i = CmdPtr1
             /\ \A c \in CmdPtr0Dec : buf_cmd_state_bus_en(c)'
    <3>1. age(i) \subseteq CmdPtr0Dec /\ pending(i)
      BY <2>4, Cmd1 DEF in_cmd, pending
    <3>2. j \in CmdPtr0Dec
      BY <1>2, <1>3, <3>1
    <3> QED
      BY <2>4, <3>2
  <2> QED
    BY <1>9, <2>1, <2>2, <2>3, <2>4, LeavesStep
<1>10. ASSUME NEW i \in Entries, NEW j \in Entries, i # j, pending(i)', pending(j)', ~En(i)', ~En(j)'
       PROVE  i \in buf_age'[j] \/ j \in buf_age'[i]
  <2>1. \A k \in {i, j} : ~new(k) => pending(k) /\ ~En(k)
    BY <1>6, <1>10
  <2>2. CASE ~new(i) /\ ~new(j)
    <3>1. i \in buf_age[j] \/ j \in buf_age[i]
      BY <1>10, <2>1, <2>2 DEF Ages
    <3> QED
      BY <1>3, <2>1, <2>2, <3>1 DEF age
  <2>3. ASSUME NEW k \in {i, j}, NEW l \in {i, j}, new(k), ~new(l)
        PROVE  l \in buf_age'[k]
    <3>1. buf[l].state = "WAIT" \/ in_cmd(l)
      BY <2>1, <2>3 DEF pending, in_cmd
    <3>2. l \in old(k)
      BY <3>1 DEF old, older
    <3> QED
      BY <1>2, <2>3, <3>2
  <2>4. CASE new(i) /\ new(j)
    <3> DEFINE Way(k) == \/ k = ibuf.tag /\ ibuf_drain_vld(up, kill, freeze)
                         \/ k = dc5.ptr1 /\ hi_direct(up, kill, freeze)
                         \/ k = dc5.ptr0 /\ lo_direct(up, kill, freeze)
    <3>1. Way(i) /\ Way(j)
      BY <1>1, <2>4, NewEntry DEF new
    <3>2. hi_direct(up, kill, freeze) => ~ibuf_drain_vld(up, kill, freeze) /\ ibuf_byp(up) /\ ldst_dual(dc5)
      BY DEF hi_direct, ibuf_byp, ibuf_drain_vld
    <3>3. lo_direct(up, kill, freeze) => dc5.busreq /\ (ibuf_byp(up) \/ ldst_dual(dc5))
      BY DEF lo_direct, accepted
    <3>4. ASSUME NEW k \in Entries, NEW l \in Entries,
                 k = ibuf.tag, ibuf_drain_vld(up, kill, freeze), l = dc5.ptr0, lo_direct(up, kill, freeze)
          PROVE  k \in old(l)
      BY <3>3, <3>4 DEF old, older
    <3>5. ASSUME NEW k \in Entries, NEW l \in Entries,
                 k = dc5.ptr0, l = dc5.ptr1, hi_direct(up, kill, freeze)
          PROVE  k \in old(l)
      BY <3>2, <3>5 DEF old, older
    <3>6. i \in old(j) \/ j \in old(i)
      BY <1>10, <3>1, <3>2, <3>4, <3>5
    <3> QED
      BY <1>2, <2>4, <3>6
  <2> QED
    BY <2>2, <2>3, <2>4
<1>11. ASSUME NEW i \in Entries, NEW j \in Entries, i \in buf_age'[j], j \in buf_age'[i]
       PROVE  FALSE
  <2>1. CASE ~new(i) /\ ~new(j)
    BY <1>3, <1>4, <1>11, <2>1 DEF Ages
  <2>2. ASSUME NEW k \in {i, j}, NEW l \in {i, j}, new(k), ~new(l), k \in buf_age'[l]
        PROVE  FALSE
    BY <1>2, <1>3, <1>4, <2>2
  <2>3. CASE new(i) /\ new(j)
    <3>1. i \in old(j) /\ j \in old(i)
      BY <1>2, <1>11, <2>3
    <3>2. ~pending(i) /\ ~pending(j)
      BY <1>2, <2>3
    <3>3. /\ \/ i = ibuf.tag /\ ibuf_drain_vld(up, kill, freeze) /\ j = dc5.ptr0 /\ dc5.busreq
             \/ i = dc5.ptr0 /\ hi_direct(up, kill, freeze) /\ j = dc5.ptr1
          /\ \/ j = ibuf.tag /\ ibuf_drain_vld(up, kill, freeze) /\ i = dc5.ptr0 /\ dc5.busreq
             \/ j = dc5.ptr0 /\ hi_direct(up, kill, freeze) /\ i = dc5.ptr1
          /\ i # j
      BY <1>5, <2>3, <3>1, <3>2
    <3>4. hi_direct(up, kill, freeze) => ~ibuf_drain_vld(up, kill, freeze)
      BY DEF hi_direct, ibuf_byp, ibuf_drain_vld
    <3> QED
      BY <3>3, <3>4
  <2> QED
    BY <1>11, <2>1, <2>2, <2>3
<1> QED
  BY <1>7, <1>8, <1>9, <1>10, <1>11 DEF Ages

-----------------------------------------------------------------------------
(* The output buffer, the slave and the freeze.                              *)

OutFields == {"valid", "write", "sideeffect", "dword", "data", "tag0", "tag1", "merge",
              "cmd_done", "data_done"}
OutputBuffer ==
  /\ obuf.valid \in BOOLEAN /\ obuf_wr_enQ \in BOOLEAN /\ obuf_wr_timer \in 0..TIMER_MAX
  /\ obuf.valid => /\ DOMAIN obuf = OutFields
                   /\ obuf.tag0 \in Entries /\ obuf.tag1 \in Entries
                   /\ obuf.write \in BOOLEAN /\ obuf.sideeffect \in BOOLEAN /\ obuf.merge \in BOOLEAN
                   /\ obuf.cmd_done \in BOOLEAN /\ obuf.data_done \in BOOLEAN
                   /\ Numbers(obuf.data)
Memories == [Words -> [Byte -> Nat]]
Slave ==
  /\ memory \in Memories /\ program \in Memories
  /\ \A t \in bus : Numbers(t.data)
Freeze == ld_freeze_dc3 \in BOOLEAN /\ FreezePtr \in Entries /\ flush_e3 \in {"none", "i0", "i1"}

BufferInv == Base /\ Ages /\ OutputBuffer /\ Slave /\ Freeze

(* The output buffer holds a request, with its entry and that of its other half. *)
Holds(o, r, tag0, tag1, merge) ==
  /\ DOMAIN o = OutFields /\ o.valid = TRUE /\ o.tag0 = tag0 /\ o.tag1 = tag1 /\ o.merge = merge
  /\ o.write = r.write /\ o.sideeffect = r.sideeffect /\ o.dword = dword(r.word)
  /\ o.cmd_done = FALSE /\ o.data_done = FALSE /\ Numbers(o.data)

LEMMA CommandHolds ==
  ASSUME NEW r, IsRequest(r), Numbers(r.data), NEW tag
  PROVE  Holds(Command(r, tag), r, tag, tag, FALSE)
<1>1. \A d \in {r.word} \X DOMAIN r.data : r.data[d[2]] \in Nat
  BY DEF Numbers
<1>2. Numbers([d \in {r.word} \X DOMAIN r.data |-> r.data[d[2]]])
  BY <1>1 DEF Numbers
<1>3. Command(r, tag).data = [d \in {r.word} \X DOMAIN r.data |-> r.data[d[2]]]
  BY DEF Command
<1> QED
  BY <1>2, <1>3 DEF Command, OutFields, Holds

LEMMA ObufTakes ==
  ASSUME Base, Ages, NEW up, NEW kill, NEW ready, ObufEdge(TRUE, up, kill, ready),
         obuf_wr_en(up, kill, ready)
  PROVE  \/ /\ ibuf_buf_byp(up) /\ lsu_commit_dc5(kill) /\ dc5.ptr0 \in Entries
            /\ IsRequest(LoHalf(up)) /\ Holds(obuf', LoHalf(up), dc5.ptr0, dc5.ptr0, FALSE)
         \/ /\ ~ibuf_buf_byp(up) /\ CmdPtr0Dec # {} /\ ~obuf_merge_en
            /\ CmdPtr0 \in Entries /\ IsRequest(req(CmdPtr0))
            /\ Holds(obuf', req(CmdPtr0), CmdPtr0, CmdPtr0, FALSE)
         \/ /\ ~ibuf_buf_byp(up) /\ CmdPtr0Dec # {} /\ CmdPtr1Dec # {} /\ obuf_merge_en
            /\ CmdPtr0 \in Entries /\ IsRequest(req(CmdPtr0)) /\ CmdPtr1 \in Entries
            /\ Holds(obuf', req(CmdPtr0), CmdPtr0, CmdPtr1, TRUE)
<1>1. obuf' = NextCommand(up)
  BY DEF ObufEdge
<1>2. CASE ibuf_buf_byp(up)
  <2>1. CmdPtr0Dec = {}
    BY <1>2, Bypass DEF CmdPtr0Dec
  <2>2. lsu_commit_dc5(kill)
    BY <2>1 DEF obuf_wr_en
  <2>3. dc5.ptr0 \in Entries
    BY <1>2, <2>2, BypassEntry
  <2>4. IsRequest(LoHalf(up)) /\ Numbers(LoHalf(up).data)
    BY <1>2, Bypass, HalvesAreRequests
  <2>5. obuf' = Command(LoHalf(up), dc5.ptr0)
    BY <1>1, <1>2 DEF NextCommand
  <2>6. Holds(obuf', LoHalf(up), dc5.ptr0, dc5.ptr0, FALSE)
    BY <2>4, <2>5, CommandHolds
  <2> QED
    BY <1>2, <2>2, <2>3, <2>4, <2>6
<1>3. CASE ~ibuf_buf_byp(up)
  <2>1. CmdPtr0Dec # {} /\ (obuf_merge_en => CmdPtr1Dec # {})
    BY <1>3 DEF obuf_wr_en, obuf_merge_en
  <2>2. CmdPtr0 \in Entries /\ buf[CmdPtr0].state = "CMD"
    BY <2>1, Cmd0 DEF in_cmd
  <2>3. IsRequest(req(CmdPtr0)) /\ Numbers(req(CmdPtr0).data)
    BY <2>2 DEF Base, Shapes, BufShape, pending
  <2> DEFINE c == Command(req(CmdPtr0), CmdPtr0)
  <2>4. Holds(c, req(CmdPtr0), CmdPtr0, CmdPtr0, FALSE)
    BY <2>3, CommandHolds
  <2>5. obuf' = IF obuf_merge_en THEN [c EXCEPT !.tag1 = CmdPtr1, !.merge = TRUE] ELSE c
    BY <1>1, <1>3 DEF NextCommand
  <2> HIDE DEF c
  <2>6. CASE ~obuf_merge_en
    BY <1>3, <2>1, <2>2, <2>3, <2>4, <2>5, <2>6
  <2>7. CASE obuf_merge_en
    <3>1. CmdPtr1 \in Entries
      BY <2>1, <2>7, Cmd1
    <3>2. obuf' = [c EXCEPT !.tag1 = CmdPtr1, !.merge = TRUE]
      BY <2>5, <2>7
    <3>3. Holds(obuf', req(CmdPtr0), CmdPtr0, CmdPtr1, TRUE)
      BY <2>4, <3>2 DEF Holds, OutFields
    <3> QED
      BY <1>3, <2>1, <2>2, <2>3, <2>7, <3>1, <3>3
  <2> QED
    BY <2>6, <2>7
<1> QED
  BY <1>2, <1>3

(* Otherwise it is empty, or holds what it held. *)
LEMMA ObufKeeps ==
  ASSUME OutputBuffer, NEW clk_en, NEW up, NEW kill, NEW ready, ObufEdge(clk_en, up, kill, ready),
         clk_en => ~obuf_wr_en(up, kill, ready)
  PROVE  /\ ~clk_en => obuf' = obuf /\ obuf_wr_enQ' = obuf_wr_enQ
         /\ clk_en => ~obuf_wr_enQ'
         /\ clk_en /\ bus_cmd_sent(ready) => obuf'.valid = FALSE
         /\ ~(clk_en /\ bus_cmd_sent(ready)) => obuf'.valid = obuf.valid
         /\ obuf'.valid =>
              /\ obuf.valid /\ DOMAIN obuf' = OutFields
              /\ \A f \in OutFields \ {"cmd_done", "data_done"} : obuf'[f] = obuf[f]
              /\ obuf'.cmd_done \in BOOLEAN /\ obuf'.data_done \in BOOLEAN
<1>1. CASE ~clk_en
  BY <1>1 DEF ObufEdge, OutputBuffer
<1>2. CASE clk_en /\ bus_cmd_sent(ready)
  BY <1>2 DEF ObufEdge, Nothing, OutputBuffer
<1>3. CASE clk_en /\ ~bus_cmd_sent(ready) /\ obuf.valid /\ obuf.write
  <2>1. obuf' = [obuf EXCEPT !.cmd_done = wcmd_done(ready), !.data_done = wdata_done(ready)]
    BY <1>3 DEF ObufEdge
  <2>2. DOMAIN obuf = OutFields /\ obuf.cmd_done \in BOOLEAN /\ obuf.data_done \in BOOLEAN
    BY <1>3 DEF OutputBuffer
  <2>3. wcmd_done(ready) \in BOOLEAN /\ wdata_done(ready) \in BOOLEAN
    BY <2>2 DEF wcmd_done, wdata_done
  <2>4. ~obuf_wr_enQ'
    BY <1>3 DEF ObufEdge
  <2>5. /\ DOMAIN obuf' = OutFields /\ obuf'.valid = obuf.valid
        /\ obuf'.cmd_done \in BOOLEAN /\ obuf'.data_done \in BOOLEAN
    BY <2>1, <2>2, <2>3 DEF OutFields
  <2>6. \A f \in OutFields \ {"cmd_done", "data_done"} : obuf'[f] = obuf[f]
    BY <2>1, <2>2
  <2> QED
    BY <1>3, <2>4, <2>5, <2>6
<1>4. CASE clk_en /\ ~bus_cmd_sent(ready) /\ ~(obuf.valid /\ obuf.write)
  BY <1>4 DEF ObufEdge, OutputBuffer
<1> QED
  BY <1>1, <1>2, <1>3, <1>4

LEMMA OutputBufferStep ==
  ASSUME Base, Ages, OutputBuffer, NEW clk_en \in BOOLEAN, NEW up, NEW kill, NEW ready,
         ObufEdge(clk_en, up, kill, ready)
  PROVE  OutputBuffer'
<1>1. obuf_wr_timer' \in 0..TIMER_MAX
  BY BusBufferAssumption DEF OutputBuffer, ObufEdge, obuf_wr_timer_in
<1>2. obuf_wr_enQ' \in BOOLEAN
  BY DEF OutputBuffer, ObufEdge, obuf_wr_en
<1>3. CASE clk_en /\ obuf_wr_en(up, kill, ready)
  <2>1. ObufEdge(TRUE, up, kill, ready)
    BY <1>3
  <2>2. ASSUME NEW r, NEW t0 \in Entries, NEW t1 \in Entries, NEW m \in BOOLEAN,
               IsRequest(r), Holds(obuf', r, t0, t1, m)
        PROVE  OutputBuffer'
    BY <1>1, <1>2, <2>2 DEF OutputBuffer, Holds, IsRequest
  <2> QED
    BY <1>3, <2>1, <2>2, ObufTakes
<1>4. CASE ~(clk_en /\ obuf_wr_en(up, kill, ready))
  <2>1. obuf'.valid \in BOOLEAN
    <3>1. obuf.valid \in BOOLEAN
      BY DEF OutputBuffer
    <3>2. obuf'.valid = FALSE \/ obuf'.valid = obuf.valid
      BY <1>4, ObufKeeps
    <3> QED
      BY <3>1, <3>2
  <2>2. ASSUME obuf'.valid
        PROVE  /\ obuf.valid /\ DOMAIN obuf' = OutFields
               /\ \A f \in OutFields \ {"cmd_done", "data_done"} : obuf'[f] = obuf[f]
               /\ obuf'.cmd_done \in BOOLEAN /\ obuf'.data_done \in BOOLEAN
    BY <1>4, <2>2, ObufKeeps
  <2>3. ASSUME obuf'.valid
        PROVE  /\ obuf'.tag0 = obuf.tag0 /\ obuf'.tag1 = obuf.tag1 /\ obuf'.write = obuf.write
               /\ obuf'.sideeffect = obuf.sideeffect /\ obuf'.merge = obuf.merge /\ obuf'.data = obuf.data
    BY <2>2, <2>3 DEF OutFields
  <2> QED
    BY <1>1, <1>2, <2>1, <2>2, <2>3 DEF OutputBuffer
<1> QED
  BY <1>3, <1>4

LEMMA SlaveStep ==
  ASSUME Base, OutputBuffer, Slave,
         NEW clk_en \in BOOLEAN, NEW ready, NEW error, NEW flush_dc3, NEW freeze, NEW kill, NEW packet,
         NEW reads, NEW writes \in (IF clk_en THEN AtMostOne({t \in bus : t.write}) ELSE {{}}),
         BusEdge(clk_en, ready, reads, writes, error), History(flush_dc3, freeze, kill, packet)
  PROVE  Slave'
<1>1. memory \in Memories /\ program \in Memories /\ \A t \in bus : Numbers(t.data)
  BY DEF Slave
<1>2. writes \subseteq bus
  BY DEF AtMostOne
<1>3. memory' \in Memories
  <2>1. CASE memory' = memory
    BY <1>1, <2>1
  <2>2. CASE memory' # memory
    <3>1. PICK t \in writes : memory' = Written(t)
      BY <2>2 DEF BusEdge
    <3>2. Numbers(t.data)
      BY <1>1, <1>2
    <3>3. \A w \in Words, b \in Byte : memory[w][b] \in Nat
      BY <1>1 DEF Memories
    <3>4. \A w \in Words, b \in Byte :
            (IF <<w, b>> \in DOMAIN t.data THEN t.data[<<w, b>>] ELSE memory[w][b]) \in Nat
      BY <3>2, <3>3 DEF Numbers
    <3> QED
      BY <3>1, <3>4 DEF Written, Memories
  <2> QED
    BY <2>1, <2>2
<1>4. program' \in Memories
  <2>1. CASE program' = program
    BY <1>1, <2>1
  <2>2. CASE program' # program
    <3>1. /\ dc5.busreq
          /\ program' = [w \in Words |-> [b \in Byte |->
                            IF <<w, b>> \in cells(dc5) THEN dc5.id ELSE program[w][b]]]
      BY <2>2 DEF History
    <3>2. dc5.id \in Nat
      <4>1. IsRequest(LoHalf(FALSE)) /\ LoHalf(FALSE).id = dc5.id
        BY <3>1, HalvesAreRequests DEF LoHalf, Half
      <4> QED
        BY <4>1 DEF IsRequest
    <3>3. \A w \in Words, b \in Byte : program[w][b] \in Nat
      BY <1>1 DEF Memories
    <3>4. \A w \in Words, b \in Byte :
            (IF <<w, b>> \in cells(dc5) THEN dc5.id ELSE program[w][b]) \in Nat
      BY <3>2, <3>3
    <3> QED
      BY <3>1, <3>4 DEF Memories
  <2> QED
    BY <2>1, <2>2
<1>5. \A t \in bus' : Numbers(t.data)
  <2>1. bus' \subseteq bus \cup Accepted(ready)
    BY DEF BusEdge
  <2>2. \A t \in Accepted(ready) : t.data = obuf.data /\ obuf.valid
    BY DEF Accepted, bus_cmd_sent
  <2> QED
    BY <1>1, <2>1, <2>2 DEF OutputBuffer
<1> QED
  BY <1>3, <1>4, <1>5 DEF Slave

LEMMA FreezeStep ==
  ASSUME OwnersInv, Freeze, NEW hold, NEW branch \in {"none", "i0", "i1"}, NEW lower, NEW up,
         NEW flush_dc3, NEW freeze, FreezeEdge(hold, branch, lower, up, flush_dc3, freeze)
  PROVE  Freeze'
<1>1. ld_freeze_dc3' \in BOOLEAN
  BY DEF FreezeEdge
<1>2. FreezePtr' \in Entries
  BY WrPtrsAreFree DEF FreezeEdge, Freeze
<1>3. flush_e3' \in {"none", "i0", "i1"}
  BY DEF FreezeEdge, Freeze
<1> QED
  BY <1>1, <1>2, <1>3 DEF Freeze

-----------------------------------------------------------------------------
(* The invariant of the buffer is inductive.                                 *)

LEMMA BufferInit == Init => BufferInv
<1> SUFFICES ASSUME Init PROVE BufferInv
  OBVIOUS
<1>1. /\ NoPacket.valid = FALSE /\ NoPacket.busreq = FALSE /\ NoPacket.nb = FALSE
      /\ Nothing.valid = FALSE /\ NoEntry.state = "IDLE"
  BY DEF NoPacket, Nothing, NoEntry
<1>2. OwnersInv
  BY OwnersInit
<1>3. ProgramOrder
  <2>1. Ids1 = {} /\ Ids2 = {} /\ Ids3 = {} /\ Ids4 = {} /\ Ids5 = {}
    BY <1>1 DEF Init, Ids1, Ids2, Ids3, Ids4, Ids5, Ids
  <2>2. issued \in 0..MaxOps
    BY BusBufferAssumption DEF Init
  <2> QED
    BY <2>1, <2>2 DEF ProgramOrder
<1>4. \A i \in Entries : buf[i].state = "IDLE" /\ buf_age[i] = {}
  BY <1>1 DEF Init
<1>5. Shapes
  <2>1. NonBlocking
    BY DEF Init, NoPacket, NonBlocking
  <2>2. BufShape
    BY <1>4 DEF BufShape, pending, States
  <2>3. IbufShape
    BY DEF Init, Nothing, IbufShape
  <2> QED
    BY <2>1, <2>2, <2>3 DEF Shapes
<1>6. Ages
  BY <1>4 DEF Ages, pending, buf_cmd_state_bus_en, age
<1>7. OutputBuffer
  <2>1. 0 \in 0..TIMER_MAX
    BY BusBufferAssumption
  <2> QED
    BY <2>1 DEF Init, Nothing, OutputBuffer
<1>8. Slave
  <2>1. [w \in Words |-> [b \in Byte |-> 0]] \in Memories
    BY DEF Memories
  <2>2. memory = [w \in Words |-> [b \in Byte |-> 0]] /\ program = memory /\ bus = {}
    BY DEF Init
  <2>3. memory \in Memories /\ program \in Memories
    BY <2>1, <2>2, Zenon
  <2> QED
    BY <2>2, <2>3 DEF Slave
<1>9. Freeze
  <2>1. ld_freeze_dc3 = FALSE /\ FreezePtr = 0 /\ flush_e3 = "none"
    BY DEF Init
  <2>2. 0 \in Entries
    BY EntriesCount DEF Entries
  <2> QED
    BY <2>1, <2>2 DEF Freeze
<1> QED
  BY <1>2, <1>3, <1>5, <1>6, <1>7, <1>8, <1>9 DEF BufferInv, Base

LEMMA BufferEdge ==
  ASSUME BufferInv, NEW clk_en, NEW packet, NEW lower, NEW kill, NEW branch, NEW hold, NEW ready,
         NEW reads, NEW writes, NEW error,
         ClockEdge(clk_en, packet, lower, kill, branch, hold, ready, reads, writes, error),
         OwnersInv'
  PROVE  BufferInv'
<1> DEFINE freeze == lsu_freeze_dc3(lower)
           up == lower \/ flush_e3 # "none"
           flush_dc3 == lower \/ flush_e3 = "i0"
<1>1. /\ PipeEdge(packet, lower, up, flush_dc3, kill, hold, freeze)
      /\ FreezeEdge(hold, branch, lower, up, flush_dc3, freeze)
      /\ IbufEdge(up, kill, freeze) /\ BufEdge(clk_en, up, kill, freeze)
      /\ AgeEdge(up, kill, freeze) /\ ObufEdge(clk_en, up, kill, ready)
      /\ BusEdge(clk_en, ready, reads, writes, error)
      /\ History(flush_dc3, freeze, kill, packet)
      /\ packet \in Issuable(lower, freeze)
  BY DEF ClockEdge, Edge
<1>2. /\ clk_en \in BOOLEAN /\ branch \in {"none", "i0", "i1"}
      /\ writes \in (IF clk_en THEN AtMostOne({t \in bus : t.write}) ELSE {{}})
  BY DEF ClockEdge
<1> HIDE DEF freeze, up, flush_dc3
<1>3. Base /\ Ages /\ OutputBuffer /\ Slave /\ Freeze /\ OwnersInv /\ Requests /\ ProgramOrder
  BY DEF BufferInv, Base, OwnersInv
<1>4. OwnersInv'
  OBVIOUS
<1>5. packet.valid => ~freeze
  BY <1>1, IssuedPackets
<1>6. ProgramOrder'
  BY <1>1, <1>3, <1>5, OrderStep
<1>7. Shapes'
  BY <1>1, <1>3, NonBlockingStep, BufShapeStep, IbufShapeStep DEF Shapes
<1>8. Ages'
  BY <1>1, <1>2, <1>3, AgesStep
<1>9. OutputBuffer'
  BY <1>1, <1>2, <1>3, OutputBufferStep
<1>10. Slave'
  BY <1>1, <1>2, <1>3, SlaveStep
<1>11. Freeze'
  BY <1>1, <1>2, <1>3, FreezeStep
<1> QED
  BY <1>4, <1>6, <1>7, <1>8, <1>9, <1>10, <1>11 DEF BufferInv, Base

LEMMA BufferStep == BufferInv /\ [Next]_vars => BufferInv'
<1> SUFFICES ASSUME BufferInv, [Next]_vars PROVE BufferInv'
  OBVIOUS
<1>1. OwnersInv'
  BY OwnersStep DEF BufferInv, Base
<1>2. CASE Next
  <2>1. PICK clk_en, packet, lower, kill, branch, hold, ready, reads, writes, error :
          ClockEdge(clk_en, packet, lower, kill, branch, hold, ready, reads, writes, error)
    BY <1>2, NextIsEdge
  <2> QED
    BY <1>1, <2>1, BufferEdge
<1>3. CASE UNCHANGED vars
  <2>1. ProgramOrder'
    BY <1>3 DEF BufferInv, Base, ProgramOrder, Ids1, Ids2, Ids3, Ids4, Ids5, Ids, vars
  <2>2. Shapes'
    BY <1>3 DEF BufferInv, Base, Shapes, NonBlocking, BufShape, IbufShape, pending, req, vars
  <2>3. Ages'
    BY <1>3 DEF BufferInv, Ages, pending, buf_cmd_state_bus_en, age, vars
  <2>4. OutputBuffer' /\ Slave' /\ Freeze'
    BY <1>3 DEF BufferInv, OutputBuffer, Slave, Freeze, vars
  <2> QED
    BY <1>1, <2>1, <2>2, <2>3, <2>4 DEF BufferInv, Base
<1> QED
  BY <1>2, <1>3

LEMMA BufferInvariant == Spec => []BufferInv
<1>1. Init => BufferInv
  BY BufferInit
<1>2. BufferInv /\ [Next]_vars => BufferInv'
  BY BufferStep
<1> QED
  BY <1>1, <1>2, PTL DEF Spec

LEMMA AtMostOneOf ==
  ASSUME NEW S, \A i, j \in S : i = j
  PROVE  Cardinality(S) <= 1
<1>1. CASE S = {}
  BY <1>1, FS_EmptySet
<1>2. CASE S # {}
  <2>1. PICK x \in S : TRUE
    BY <1>2
  <2>2. S = {x}
    BY <2>1
  <2>3. Cardinality(S) = 1
    BY <2>2, FS_Singleton, Zenon
  <2> QED
    BY <2>3
<1> QED
  BY <1>1, <1>2

LEMMA OneHotFollows == ASSUME BufferInv PROVE OneHot
<1>2. Ages
  BY DEF BufferInv
<1>3. Cardinality(CmdPtr0Dec) <= 1
  <2>1. CmdPtr0Dec \subseteq Entries
    BY DEF CmdPtr0Dec
  <2> QED
    BY <1>2, <2>1, FirstCommand, AtMostOneOf
<1>4. Cardinality(CmdPtr1Dec) <= 1
  <2>1. CmdPtr1Dec \subseteq Entries
    BY DEF CmdPtr1Dec
  <2> QED
    BY <1>2, <2>1, SecondCommand, AtMostOneOf
<1>5. ASSUME NEW c PROVE Cardinality(hitvecfn(c)) <= 1
  <2>1. hitvecfn(c) \subseteq Entries
    BY DEF hitvecfn, hitvec
  <2> QED
    BY <1>2, <2>1, FirstForwarded, AtMostOneOf
<1> QED
  BY <1>3, <1>4, <1>5 DEF OneHot

(* The entries and their ages are sound: besides having one owner, of the entries
   that wait exactly one is the next to send and at most one the next but one, and
   a byte is forwarded to a load from one entry only, the youngest that has it. *)
THEOREM EntriesAreSound == Spec => []EntriesSound
<1>1. ASSUME BufferInv PROVE TypeOK
  <2>1. /\ \A p \in {dc1, dc2, dc3, dc4, dc5} : PacketOK(p)
        /\ ibuf.valid => ibuf.tag \in Entries /\ ibuf.timer \in 0..TIMER_MAX
        /\ issued \in 0..MaxOps
    BY <1>1 DEF BufferInv, Base, OwnersInv, Requests, Stage, InputBuffer, Shapes, IbufShape, ProgramOrder
  <2>2. \A i \in Entries : buf[i].state \in States /\ buf_age[i] \subseteq Entries
    BY <1>1 DEF BufferInv, Base, Shapes, BufShape, Ages
  <2>3. /\ obuf.valid => obuf.tag0 \in Entries /\ obuf.tag1 \in Entries
        /\ obuf_wr_timer \in 0..TIMER_MAX
        /\ ld_freeze_dc3 \in BOOLEAN /\ FreezePtr \in Entries /\ flush_e3 \in {"none", "i0", "i1"}
    BY <1>1 DEF BufferInv, OutputBuffer, Freeze
  <2>4. memory \in [Words -> [Byte -> Nat]] /\ program \in [Words -> [Byte -> Nat]]
    BY <1>1 DEF BufferInv, Slave, Memories
  <2> QED
    BY <2>1, <2>2, <2>3, <2>4 DEF TypeOK
<1>2. BufferInv => OneOwner
  BY DEF BufferInv, Base, OwnersInv, Owners, OneOwner, Taken, Tagged
<1>3. BufferInv => EntriesSound
  BY <1>1, <1>2, OneHotFollows DEF EntriesSound
<1> QED
  BY <1>3, BufferInvariant, PTL

-----------------------------------------------------------------------------
(* The answers.  The halves of a load know each other; those in one bus word are
   sent and answered together, with one transaction, that of the low half.     *)

busy(i) == buf[i].state # "IDLE"
half(r) == r.dual /\ ~r.write
Twin(r, i, s) ==
  half(s) /\ s.dualtag = i /\ s.dualhi # r.dualhi /\ s.id = r.id /\ s.samedw = r.samedw /\ s.nb = r.nb

(* The high half may still be in the input buffer: then something else waits before
   the low half, and nothing behind it. *)
Halves ==
  /\ \A i \in Entries : busy(i) /\ half(req(i)) =>
       LET d == req(i).dualtag IN
       /\ d # i
       /\ \/ busy(d) /\ Twin(req(i), i, req(d))
          \/ ~busy(d) /\ ~req(i).dualhi /\ ibuf.valid /\ ibuf.tag = d /\ Twin(req(i), i, ibuf.req)
  /\ ibuf.valid /\ half(ibuf.req) =>
       LET d == ibuf.req.dualtag IN
       /\ ibuf.req.dualhi /\ pending(d) /\ age(d) # {}
       /\ Twin(ibuf.req, ibuf.tag, req(d))
       /\ \A j \in Entries \ {d} : pending(j) /\ ~buf_cmd_state_bus_en(j) => j \in age(d)

low_half(i) == busy(i) /\ same_dword_load(i) /\ ~req(i).dualhi
Together ==
  \A i \in Entries : low_half(i) =>
    LET d == req(i).dualtag IN
    /\ ~req(i).nomerge
    /\ pending(d) /\ pending(i) /\ ~buf_cmd_state_bus_en(i) => age(d) = age(i) \cup {i}
    /\ buf[d].state = "WAIT" =>
         \/ buf[i].state = "WAIT"
         \/ buf[i].state = "CMD" /\ ~buf_cmd_state_bus_en(i) /\ age(i) # {}
    /\ buf[d].state = "CMD" =>
         buf[i].state = "CMD" /\ (buf_cmd_state_bus_en(d) <=> buf_cmd_state_bus_en(i))
    /\ buf[i].state \in {"RESP", "DONE"} => buf[d].state = buf[i].state
    /\ buf[d].state \in {"RESP", "DONE"} => buf[d].state = buf[i].state

(* The output buffer has what its entry asks for, and the bus does not have it yet. *)
OnTheWay(tag) ==
  \/ \E u \in bus : u.tag = tag
  \/ bus_rsp_read.valid /\ bus_rsp_read.tag = tag
  \/ bus_rsp_write.valid /\ bus_rsp_write.tag = tag
Sent ==
  /\ obuf_wr_enQ => obuf.valid
  /\ obuf.valid =>
       LET t == obuf.tag0 IN
       /\ buf[t].state = IF obuf_wr_enQ THEN "CMD" ELSE "RESP"
       /\ req(t).write = obuf.write /\ dword(req(t).word) = obuf.dword
       /\ req(t).sideeffect = obuf.sideeffect
       /\ obuf.merge = same_dword_load(t)
       /\ obuf.tag1 = IF obuf.merge THEN req(t).dualtag ELSE t
       /\ same_dword_load(t) => ~req(t).dualhi
       /\ ~OnTheWay(t)

(* A transaction is that of an entry, and of one half if it is for two. *)
Awaits(tag, write) ==
  /\ tag \in Entries /\ buf[tag].state = "RESP" /\ req(tag).write = write
  /\ same_dword_load(tag) => ~req(tag).dualhi
OnBus ==
  /\ \A t \in bus : /\ t.write \in BOOLEAN /\ Awaits(t.tag, t.write)
                    /\ dword(req(t.tag).word) = t.dword
  /\ \A t, u \in bus : t.tag = u.tag => t = u
  /\ bus_rsp_read.valid => Awaits(bus_rsp_read.tag, FALSE) /\ \A t \in bus : t.tag # bus_rsp_read.tag
  /\ bus_rsp_write.valid => Awaits(bus_rsp_write.tag, TRUE) /\ \A t \in bus : t.tag # bus_rsp_write.tag

AnswersInv == BufferInv /\ Halves /\ Together /\ Sent /\ OnBus

-----------------------------------------------------------------------------
(* The moves of an entry.                                                    *)

(* Two requests of the same access, for the same bytes of it. *)
Same(r, s) ==
  /\ r.write = s.write /\ r.word = s.word /\ r.dual = s.dual /\ r.samedw = s.samedw
  /\ r.dualhi = s.dualhi /\ r.dualtag = s.dualtag /\ r.nb = s.nb /\ r.id = s.id
  /\ r.sideeffect = s.sideeffect

(* All that happens to the buffers at an edge. *)
BufferEdges(clk_en, up, kill, freeze, ready, reads, writes, error) ==
  /\ clk_en \in BOOLEAN
  /\ reads \in (IF clk_en THEN AtMostOne({t \in bus : ~t.write}) ELSE {{}})
  /\ writes \in (IF clk_en THEN AtMostOne({t \in bus : t.write}) ELSE {{}})
  /\ IbufEdge(up, kill, freeze) /\ BufEdge(clk_en, up, kill, freeze) /\ AgeEdge(up, kill, freeze)
  /\ ObufEdge(clk_en, up, kill, ready) /\ BusEdge(clk_en, ready, reads, writes, error)

LEMMA Moves ==
  ASSUME BufShape, NEW clk_en \in BOOLEAN, NEW up, NEW kill, NEW freeze, BufEdge(clk_en, up, kill, freeze),
         NEW i \in Entries
  PROVE  /\ buf'[i].state = "WAIT" =>
              ~clk_en /\ (buf[i].state = "WAIT" \/ (buf[i].state = "IDLE" /\ New(i, up, kill, freeze) # {}))
         /\ buf'[i].state = "CMD" =>
              \/ buf[i].state = "IDLE" /\ New(i, up, kill, freeze) # {} /\ clk_en
              \/ buf[i].state = "WAIT" /\ clk_en
              \/ buf[i].state = "CMD" /\ ~(clk_en /\ buf_cmd_state_bus_en(i))
         /\ buf'[i].state = "RESP" =>
              \/ buf[i].state = "CMD" /\ clk_en /\ buf_cmd_state_bus_en(i)
              \/ buf[i].state = "RESP" /\ ~(clk_en /\ (rsp_read_for(i) \/ rsp_write_for(i)))
         /\ buf'[i].state = "DONE" =>
              \/ buf[i].state = "RESP" /\ clk_en /\ (rsp_read_for(i) \/ rsp_write_for(i))
              \/ buf[i].state = "DONE" /\ ~buf_rst(i)
         /\ buf'[i].state = "IDLE" =>
              \/ buf[i].state = "IDLE" /\ New(i, up, kill, freeze) = {}
              \/ buf[i].state = "RESP" /\ req(i).write
              \/ buf[i].state = "DONE" /\ buf_rst(i)
         /\ buf'[i].state \in States
<1>1. buf[i].state \in States
  BY DEF BufShape
<1>2. NoEntry.state = "IDLE"
  BY DEF NoEntry
<1>3. CASE buf[i].state = "IDLE"
  BY <1>2, <1>3, EntryStep DEF States
<1>4. CASE buf[i].state = "WAIT"
  BY <1>4, EntryStep DEF States
<1>5. CASE buf[i].state = "CMD"
  BY <1>5, EntryStep DEF States
<1>6. CASE buf[i].state = "RESP"
  <2>1. buf'[i] = IF clk_en /\ (rsp_read_for(i) \/ rsp_write_for(i)) THEN Answered(i) ELSE buf[i]
    BY <1>6, EntryStep
  <2>2. Answered(i).state \in {"IDLE", "DONE"} /\ (Answered(i).state = "IDLE" => req(i).write)
    BY DEF Answered, NoEntry
  <2>3. CASE clk_en /\ (rsp_read_for(i) \/ rsp_write_for(i))
    <3>1. buf'[i].state \in {"IDLE", "DONE"} /\ (buf'[i].state = "IDLE" => req(i).write)
      BY <2>1, <2>2, <2>3
    <3> QED
      BY <1>6, <2>3, <3>1 DEF States
  <2>4. CASE ~(clk_en /\ (rsp_read_for(i) \/ rsp_write_for(i)))
    <3>1. buf'[i].state = "RESP"
      BY <1>6, <2>1, <2>4
    <3> QED
      BY <1>6, <2>4, <3>1 DEF States
  <2> QED
    BY <2>3, <2>4
<1>7. CASE buf[i].state = "DONE"
  <2>1. buf'[i] = IF buf_rst(i) THEN NoEntry ELSE buf[i]
    BY <1>7, EntryStep
  <2>2. CASE buf_rst(i)
    BY <1>2, <1>7, <2>1, <2>2 DEF States
  <2>3. CASE ~buf_rst(i)
    BY <1>7, <2>1, <2>3 DEF States
  <2> QED
    BY <2>2, <2>3
<1> QED
  BY <1>1, <1>3, <1>4, <1>5, <1>6, <1>7 DEF States

LEMMA EntryKeeps ==
  ASSUME BufShape, NEW clk_en \in BOOLEAN, NEW up, NEW kill, NEW freeze, BufEdge(clk_en, up, kill, freeze),
         NEW i \in Entries, busy(i), busy(i)'
  PROVE  Same(req(i)', req(i)) /\ req(i)'.nomerge = req(i).nomerge
<1>1. buf[i].state \in States /\ buf[i].state # "IDLE" /\ buf'[i].state # "IDLE" /\ IsRequest(req(i))
  BY DEF BufShape, busy
<1>2. CASE buf[i].state \in {"WAIT", "CMD"}
  <2>1. buf'[i].req = buf[i].req
    BY <1>2, EntryStep
  <2> QED
    BY <2>1 DEF Same, req
<1>3. CASE buf[i].state = "RESP"
  <2>1. buf'[i] = Answered(i) \/ buf'[i] = buf[i]
    BY <1>3, EntryStep
  <2>2. CASE buf'[i] = buf[i]
    BY <2>2 DEF Same, req
  <2>3. CASE buf'[i] = Answered(i)
    <3>1. Answered(i).state = "DONE"
      BY <1>1, <1>3, <2>3, AnsweredIsRequest
    <3>2. \A f \in Fields \ {"data"} : Answered(i).req[f] = req(i)[f]
      BY <1>1, <1>3, <3>1, AnsweredIsRequest
    <3> QED
      BY <2>3, <3>2 DEF Same, req, Fields
  <2> QED
    BY <2>1, <2>2, <2>3
<1>4. CASE buf[i].state = "DONE"
  <2>1. buf'[i] = NoEntry \/ buf'[i] = buf[i]
    BY <1>4, EntryStep
  <2>2. buf'[i] = buf[i]
    BY <1>1, <2>1 DEF NoEntry
  <2> QED
    BY <2>2 DEF Same, req
<1> QED
  BY <1>1, <1>2, <1>3, <1>4 DEF States

(* What an entry gets, and where its other half then is. *)
LEMMA Arrives ==
  ASSUME Base, NEW clk_en \in BOOLEAN, NEW up, NEW kill, NEW freeze, BufEdge(clk_en, up, kill, freeze),
         NEW i \in Entries, New(i, up, kill, freeze) # {}
  PROVE  /\ buf[i].state = "IDLE" /\ buf'[i].state = IF clk_en THEN "CMD" ELSE "WAIT"
         /\ \/ /\ i = ibuf.tag /\ ibuf.valid /\ ibuf_drain_vld(up, kill, freeze) /\ Same(req(i)', ibuf.req)
            \/ i = dc5.ptr1 /\ hi_direct(up, kill, freeze) /\ req(i)' = HiHalf(up)
            \/ i = dc5.ptr0 /\ lo_direct(up, kill, freeze) /\ req(i)' = LoHalf(up)
<1>1. BufShape /\ OwnersInv
  BY DEF Base, Shapes
<1>2. /\ buf[i].state = "IDLE" /\ buf'[i].state = IF clk_en THEN "CMD" ELSE "WAIT"
      /\ req(i)' \in New(i, up, kill, freeze)
  BY <1>1, NewEntry, EntryStep DEF req
<1>3. CASE i = ibuf.tag /\ ibuf_drain_vld(up, kill, freeze) /\ New(i, up, kill, freeze) = {DrainedIbuf(up, kill)}
  <2>1. ibuf.valid /\ req(i)' = DrainedIbuf(up, kill)
    BY <1>2, <1>3 DEF ibuf_drain_vld
  <2>2. \A f \in Fields \ {"byteen", "data", "nomerge"} : DrainedIbuf(up, kill)[f] = ibuf.req[f]
    BY <2>1, DrainedIsRequest
  <2>3. Same(DrainedIbuf(up, kill), ibuf.req)
    BY <2>2 DEF Same, Fields
  <2> QED
    BY <1>2, <1>3, <2>1, <2>3, Zenon
<1>4. CASE i = dc5.ptr1 /\ hi_direct(up, kill, freeze) /\ New(i, up, kill, freeze) = {HiHalf(up)}
  BY <1>2, <1>4
<1>5. CASE i = dc5.ptr0 /\ lo_direct(up, kill, freeze) /\ New(i, up, kill, freeze) = {LoHalf(up)}
  BY <1>2, <1>5
<1> QED
  BY <1>1, <1>3, <1>4, <1>5, NewEntry

LEMMA DualHalves ==
  ASSUME dc5.busreq, ldst_dual(dc5), NEW up
  PROVE  /\ Twin(LoHalf(up), dc5.ptr0, HiHalf(up)) <=> dc5.op # "store"
         /\ Twin(HiHalf(up), dc5.ptr1, LoHalf(up)) <=> dc5.op # "store"
         /\ half(LoHalf(up)) <=> dc5.op # "store"
         /\ half(HiHalf(up)) <=> dc5.op # "store"
         /\ LoHalf(up).dualtag = dc5.ptr1 /\ ~LoHalf(up).dualhi /\ ~LoHalf(up).nomerge
         /\ HiHalf(up).dualtag = dc5.ptr0 /\ HiHalf(up).dualhi
         /\ LoHalf(up).samedw = HiHalf(up).samedw
<1>1. ~no_dword_merge_dc5(up)
  BY DEF no_dword_merge_dc5
<1> QED
  BY <1>1 DEF LoHalf, HiHalf, Half, Twin, half

LEMMA SingleIsNoHalf ==
  ASSUME ~ldst_dual(dc5), NEW up
  PROVE  ~half(LoHalf(up))
  BY DEF LoHalf, Half, half

(* A load never stays in the input buffer, and its high half follows the low one. *)
LEMMA LoadsDrain ==
  ASSUME ibuf.valid, ~ibuf.req.write, NEW up, NEW kill, NEW freeze
  PROVE  ibuf_drain_vld(up, kill, freeze) /\ ~ibuf_merge_en(kill)
  BY DEF ibuf_drain_vld, ibuf_merge_en

LEMMA HalfEntersIbuf ==
  ASSUME Base, NEW up, NEW kill, NEW freeze, IbufEdge(up, kill, freeze), ibuf'.valid, half(ibuf'.req)
  PROVE  /\ dc5.busreq /\ ldst_dual(dc5) /\ dc5.op # "store" /\ ibuf'.tag = dc5.ptr1
         /\ ibuf'.req = HiHalf(up) /\ ibuf.valid /\ ibuf_drain_vld(up, kill, freeze)
         /\ ~ibuf_byp(up) /\ lo_direct(up, kill, freeze)
         /\ New(dc5.ptr0, up, kill, freeze) = {LoHalf(up)}
<1>1. CASE ~ibuf_wr_en(up, kill, freeze)
  <2>1. ~ibuf_drain_vld(up, kill, freeze) /\ ibuf.valid /\ ibuf'.req = ibuf.req
    <3>1. CASE ibuf_drain_vld(up, kill, freeze)
      BY <1>1, <3>1 DEF IbufEdge, Nothing
    <3>2. CASE ~ibuf_drain_vld(up, kill, freeze) /\ ibuf.valid /\ ibuf.timer < TIMER_MAX
      BY <1>1, <3>2 DEF IbufEdge
    <3>3. CASE ~ibuf_drain_vld(up, kill, freeze) /\ ~(ibuf.valid /\ ibuf.timer < TIMER_MAX)
      BY <1>1, <3>3 DEF IbufEdge
    <3> QED
      BY <3>1, <3>2, <3>3
  <2> QED
    BY <2>1, LoadsDrain DEF half
<1>2. CASE ibuf_wr_en(up, kill, freeze)
  <2>1. dc5.busreq /\ accepted(kill, freeze) /\ ~ibuf_byp(up)
    BY <1>2 DEF ibuf_wr_en, accepted
  <2>2. ~merges(kill)
    <3> SUFFICES ASSUME merges(kill) PROVE FALSE
      OBVIOUS
    <3>1. dc5.op = "store" /\ ibuf'.req = Joined(LoHalf(up))
      BY <1>2 DEF IbufEdge, merges, ibuf_merge_en
    <3>2. Joined(LoHalf(up)).write = LoHalf(up).write
      BY JoinedIsRequest DEF Fields
    <3> QED
      BY <3>1, <3>2 DEF half, LoHalf, Half
  <2>3. ldst_dual(dc5) /\ ibuf'.req = HiHalf(up) /\ ibuf'.tag = dc5.ptr1
    BY <1>2, <2>2, SingleIsNoHalf DEF IbufEdge
  <2>4. dc5.op # "store"
    BY <2>1, <2>3, DualHalves
  <2>5. dc5.op = "load"
    BY <2>1, <2>4, BusBufferAssumption DEF Base, OwnersInv, Requests, HasEntries, IsAccess
  <2>6. ibuf.valid /\ ibuf_drain_vld(up, kill, freeze)
    BY <1>2, <2>1, <2>2, <2>5 DEF ibuf_byp, ibuf_drain_vld
  <2>7. lo_direct(up, kill, freeze)
    BY <2>1, <2>3, <2>5 DEF lo_direct, ibuf_merge_en
  <2>8. New(dc5.ptr0, up, kill, freeze) = {LoHalf(up)}
    <3>1. dc5.ptr0 # ibuf.tag
      BY <2>1, <2>6, Dc5Ptrs DEF Base, Tagged
    <3>2. ~hi_direct(up, kill, freeze)
      BY <2>1 DEF hi_direct
    <3> QED
      BY <2>7, <3>1, <3>2 DEF New
  <2> QED
    BY <2>1, <2>3, <2>4, <2>6, <2>7, <2>8
<1> QED
  BY <1>1, <1>2

LEMMA TwinOfBusy ==
  ASSUME Halves, NEW i \in Entries, NEW d, busy(i), half(req(i)), d = req(i).dualtag, busy(d)
  PROVE  Twin(req(i), i, req(d)) /\ d # i
  BY DEF Halves

(* Both halves leave at once: each waits for the other to be done. *)
LEMMA TwinsLeaveTogether ==
  ASSUME Halves, NEW i \in Entries, NEW d \in Entries, busy(i), half(req(i)), d = req(i).dualtag,
         busy(d)
  PROVE  buf_rst(i) <=> buf_rst(d)
<1>1. half(req(i)) /\ half(req(d)) /\ req(i).dualtag = d /\ req(d).dualtag = i
  BY TwinOfBusy DEF Twin
<1> QED
  BY <1>1 DEF buf_rst, half

LEMMA HalfStaysBusy ==
  ASSUME Base, Halves, NEW clk_en \in BOOLEAN, NEW up, NEW kill, NEW freeze,
         BufEdge(clk_en, up, kill, freeze),
         NEW i \in Entries, busy(i), half(req(i)), NEW d \in Entries, d = req(i).dualtag, busy(d),
         busy(i)'
  PROVE  busy(d)'
<1> SUFFICES ASSUME buf'[d].state = "IDLE" PROVE FALSE
  BY DEF busy
<1>1. BufShape
  BY DEF Base, Shapes
<1>2. half(req(d)) /\ buf[d].state # "IDLE"
  BY TwinOfBusy DEF Twin, busy
<1>3. buf[d].state = "DONE" /\ buf_rst(d)
  BY <1>1, <1>2, Moves DEF half
<1>4. buf_rst(i) /\ buf[i].state = "DONE"
  BY <1>3, TwinsLeaveTogether DEF buf_rst
<1>5. buf'[i] = NoEntry
  BY <1>1, <1>4, EntryStep
<1> QED
  BY <1>5 DEF NoEntry, busy

LEMMA SameTwins ==
  ASSUME NEW r, NEW s, NEW r1, NEW s1, NEW i, Same(r1, r), Same(s1, s)
  PROVE  /\ Twin(r, i, s) => Twin(r1, i, s1)
         /\ half(r1) <=> half(r)
  BY DEF Same, Twin, half

(* The high half in the input buffer gets its entry at the next edge. *)
LEMMA HighHalfDrains ==
  ASSUME Base, Halves, NEW clk_en \in BOOLEAN, NEW up, NEW kill, NEW freeze,
         BufEdge(clk_en, up, kill, freeze), ibuf.valid, half(ibuf.req)
  PROVE  /\ ibuf.tag \in Entries /\ ibuf_drain_vld(up, kill, freeze)
         /\ New(ibuf.tag, up, kill, freeze) # {}
         /\ \A d \in Entries : d = ibuf.tag =>
              /\ buf[d].state = "IDLE" /\ buf'[d].state = IF clk_en THEN "CMD" ELSE "WAIT"
              /\ Same(req(d)', ibuf.req)
<1>1. ibuf_drain_vld(up, kill, freeze) /\ ibuf.tag \in Entries
  BY LoadsDrain DEF half, Base, OwnersInv, InputBuffer
<1>2. New(ibuf.tag, up, kill, freeze) # {}
  BY <1>1, DrainedHasEntry
<1>3. dc5.busreq => ibuf.tag # dc5.ptr0
  BY Dc5Ptrs DEF Base, Tagged
<1>4. ~hi_direct(up, kill, freeze) /\ (lo_direct(up, kill, freeze) => dc5.busreq)
  BY DEF hi_direct, ibuf_byp, lo_direct, accepted
<1> QED
  BY <1>1, <1>2, <1>3, <1>4, Arrives

LEMMA HalvesStep ==
  ASSUME Base, Ages, Halves, OwnersInv',
         NEW clk_en, NEW up, NEW kill, NEW freeze, NEW ready, NEW reads, NEW writes, NEW error,
         BufferEdges(clk_en, up, kill, freeze, ready, reads, writes, error)
  PROVE  Halves'
<1>1. /\ clk_en \in BOOLEAN /\ IbufEdge(up, kill, freeze) /\ BufEdge(clk_en, up, kill, freeze)
      /\ AgeEdge(up, kill, freeze) /\ ObufEdge(clk_en, up, kill, ready)
  BY DEF BufferEdges
<1>2. BufShape /\ OwnersInv
  BY DEF Base, Shapes
<1>3. ASSUME NEW i \in Entries, busy(i)', half(req(i)'), NEW d, d = req(i)'.dualtag
      PROVE  /\ d # i
             /\ \/ busy(d)' /\ Twin(req(i)', i, req(d)')
                \/ ~busy(d)' /\ ~req(i)'.dualhi /\ ibuf'.valid /\ ibuf'.tag = d /\ Twin(req(i)', i, ibuf'.req)
  <2>1. CASE busy(i)
    <3>1. Same(req(i)', req(i))
      BY <1>1, <1>2, <1>3, <2>1, EntryKeeps
    <3>2. half(req(i)) /\ d = req(i).dualtag /\ d \in Entries /\ IsRequest(req(i))
      BY <1>2, <1>3, <2>1, <3>1 DEF Same, half, BufShape, busy, IsRequest
    <3>3. CASE busy(d)
      <4>1. Twin(req(i), i, req(d)) /\ d # i
        BY <2>1, <3>2, <3>3, TwinOfBusy
      <4>2. busy(d)'
        BY <1>1, <1>3, <2>1, <3>2, <3>3, HalfStaysBusy
      <4>3. Same(req(d)', req(d))
        BY <1>1, <1>2, <3>2, <3>3, <4>2, EntryKeeps
      <4> QED
        BY <3>1, <4>1, <4>2, <4>3, SameTwins
    <3>4. CASE ~busy(d)
      <4>1. d # i /\ ibuf.valid /\ ibuf.tag = d /\ Twin(req(i), i, ibuf.req)
        BY <2>1, <3>2, <3>4 DEF Halves
      <4>2. buf'[d].state \in {"CMD", "WAIT"} /\ Same(req(d)', ibuf.req)
        BY <1>1, <3>2, <4>1, HighHalfDrains DEF Twin
      <4> QED
        BY <3>1, <4>1, <4>2, SameTwins DEF busy
    <3> QED
      BY <3>3, <3>4
  <2>2. CASE ~busy(i)
    <3>1. New(i, up, kill, freeze) # {}
      BY <1>1, <1>2, <1>3, <2>2, EntryStep DEF busy, NoEntry
    <3>2. CASE i = ibuf.tag /\ ibuf.valid /\ Same(req(i)', ibuf.req)
      <4>1. half(ibuf.req) /\ d = ibuf.req.dualtag
        BY <1>3, <3>2 DEF Same, half
      <4>2. pending(d) /\ Twin(ibuf.req, i, req(d)) /\ d \in Entries
        BY <3>2, <4>1 DEF Halves, Base, Shapes, IbufShape, IsRequest
      <4>3. buf[d].state \in {"WAIT", "CMD"} /\ d # i /\ busy(d)
        BY <2>2, <4>2 DEF pending, busy
      <4>4. buf'[d].state \in {"WAIT", "CMD", "RESP"} /\ busy(d)'
        BY <1>1, <1>2, <4>2, <4>3, EntryStep DEF busy
      <4>5. Same(req(d)', req(d))
        BY <1>1, <1>2, <4>2, <4>3, <4>4, EntryKeeps
      <4> QED
        BY <3>2, <4>2, <4>3, <4>4, <4>5, SameTwins
    <3>3. CASE i = dc5.ptr1 /\ hi_direct(up, kill, freeze) /\ req(i)' = HiHalf(up)
      <4>1. dc5.busreq /\ ldst_dual(dc5) /\ ibuf_byp(up) /\ ~ibuf.valid
        BY <3>3 DEF hi_direct, accepted, ibuf_byp
      <4>2. dc5.op # "store" /\ d = dc5.ptr0 /\ Twin(HiHalf(up), dc5.ptr1, LoHalf(up))
        BY <1>3, <3>3, <4>1, DualHalves
      <4>3. d \in Entries /\ d # i
        BY <1>2, <3>3, <4>1, <4>2, Dc5Ptrs
      <4>4. New(d, up, kill, freeze) = {LoHalf(up)}
        BY <3>3, <4>1, <4>2, <4>3 DEF New, hi_direct, lo_direct, ibuf_drain_vld, ibuf_merge_en
      <4>5. buf'[d].state \in {"CMD", "WAIT"} /\ req(d)' = LoHalf(up)
        BY <1>1, <1>2, <4>3, <4>4, NewEntry, EntryStep DEF req
      <4> QED
        BY <3>3, <4>2, <4>3, <4>5 DEF busy
    <3>4. CASE i = dc5.ptr0 /\ lo_direct(up, kill, freeze) /\ req(i)' = LoHalf(up)
      <4>1. dc5.busreq /\ ldst_dual(dc5) /\ accepted(kill, freeze) /\ ~ibuf_merge_en(kill)
        BY <1>3, <3>4, SingleIsNoHalf DEF lo_direct, accepted
      <4>2. /\ dc5.op # "store" /\ d = dc5.ptr1 /\ Twin(LoHalf(up), dc5.ptr0, HiHalf(up))
            /\ ~LoHalf(up).dualhi
        BY <1>3, <3>4, <4>1, DualHalves
      <4>3. d \in Entries /\ d # i /\ d \notin Taken /\ d \notin Tagged
        BY <1>2, <3>4, <4>1, <4>2, Dc5Ptrs
      <4>4. CASE ibuf_byp(up)
        <5>1. hi_direct(up, kill, freeze) /\ ~ibuf_drain_vld(up, kill, freeze)
          BY <4>1, <4>4 DEF hi_direct, ibuf_byp, ibuf_drain_vld
        <5>2. New(d, up, kill, freeze) = {HiHalf(up)}
          BY <4>2, <5>1 DEF New
        <5>3. buf'[d].state \in {"CMD", "WAIT"} /\ req(d)' = HiHalf(up)
          BY <1>1, <1>2, <4>3, <5>2, NewEntry, EntryStep DEF req
        <5> QED
          BY <3>4, <4>2, <4>3, <5>3 DEF busy
      <4>5. CASE ~ibuf_byp(up)
        <5>1. ibuf_wr_en(up, kill, freeze) /\ ~merges(kill)
          BY <4>1, <4>5 DEF ibuf_wr_en, merges
        <5>2. ibuf'.valid /\ ibuf'.tag = d /\ ibuf'.req = HiHalf(up)
          BY <1>1, <4>1, <4>2, <5>1 DEF IbufEdge
        <5>3. ~busy(d)'
          BY <4>3, <5>2 DEF OwnersInv, Owners, Tagged, Taken, busy
        <5> QED
          BY <3>4, <4>2, <4>3, <5>2, <5>3
      <4> QED
        BY <4>4, <4>5
    <3> QED
      BY <1>1, <3>1, <3>2, <3>3, <3>4, Arrives
  <2> QED
    BY <2>1, <2>2
<1>4. ASSUME ibuf'.valid, half(ibuf'.req), NEW d, d = ibuf'.req.dualtag
      PROVE  /\ ibuf'.req.dualhi /\ pending(d)' /\ age(d)' # {}
             /\ Twin(ibuf'.req, ibuf'.tag, req(d)')
             /\ \A j \in Entries \ {d} : pending(j)' /\ ~buf_cmd_state_bus_en(j)' => j \in age(d)'
  <2>1. /\ dc5.busreq /\ ldst_dual(dc5) /\ dc5.op # "store" /\ ibuf'.tag = dc5.ptr1
        /\ ibuf'.req = HiHalf(up) /\ ibuf.valid /\ ibuf_drain_vld(up, kill, freeze)
        /\ ~ibuf_byp(up) /\ New(dc5.ptr0, up, kill, freeze) = {LoHalf(up)}
    BY <1>1, <1>4, HalfEntersIbuf
  <2>2. d = dc5.ptr0 /\ HiHalf(up).dualhi /\ Twin(HiHalf(up), dc5.ptr1, LoHalf(up)) /\ d \in Entries
    BY <1>2, <1>4, <2>1, DualHalves, Dc5Ptrs
  <2>3. buf[d].state = "IDLE" /\ buf'[d].state \in {"CMD", "WAIT"} /\ req(d)' = LoHalf(up) /\ pending(d)'
    BY <1>1, <1>2, <2>1, <2>2, NewEntry, EntryStep DEF req, pending
  <2>4. buf_age'[d] = older(d, up, kill, freeze)
    <3>1. buf_age'[d] = age(d) \cup older(d, up, kill, freeze)
      <4>1. New(d, up, kill, freeze) # {}
        BY <2>1, <2>2
      <4> QED
        BY <1>1, <2>2, <2>3, <4>1 DEF AgeEdge
    <3>2. age(d) = {}
      BY <2>2, <2>3 DEF Ages, age, pending
    <3> QED
      BY <3>1, <3>2
  <2>5. ibuf.tag \in older(d, up, kill, freeze)
    BY <2>1, <2>2 DEF older
  <2>6. ASSUME NEW j \in Entries, buf[j].state = "IDLE" PROVE ~buf_cmd_state_bus_en(j)'
    <3>1. CASE ~clk_en
      BY <1>1, <2>6, <3>1, LeavesStep DEF buf_cmd_state_bus_en
    <3>2. CASE clk_en
      <4>1. CmdPtr0Dec # {} => j # CmdPtr0
        BY <2>6, Cmd0 DEF in_cmd
      <4>2. CmdPtr1Dec # {} => j # CmdPtr1
        BY <2>6, Cmd1 DEF in_cmd
      <4>3. ~ibuf_buf_byp(up)
        BY <2>1 DEF ibuf_buf_byp
      <4> QED
        BY <1>1, <3>2, <4>1, <4>2, <4>3, LeavesStep
    <3> QED
      BY <1>1, <3>1, <3>2
  <2>7. ibuf.tag \in age(d)'
    <3>1. ibuf.tag \in Entries /\ buf[ibuf.tag].state = "IDLE"
      BY <1>2, <2>1 DEF OwnersInv, Owners, InputBuffer, Tagged, Taken
    <3>2. \A j \in Entries : j = ibuf.tag => ~buf_cmd_state_bus_en(j)'
      BY <2>6, <3>1
    <3>3. \A j \in buf_age'[d] : j \in Entries /\ j = ibuf.tag => j \in age(d)'
      BY <3>2 DEF age
    <3> QED
      BY <2>4, <2>5, <3>1, <3>3
  <2>8. ASSUME NEW j \in Entries \ {d}, pending(j)', ~buf_cmd_state_bus_en(j)'
        PROVE  j \in age(d)'
    <3>1. j \in older(d, up, kill, freeze)
      <4>1. CASE buf[j].state = "IDLE" /\ New(j, up, kill, freeze) # {}
        <5>1. ~hi_direct(up, kill, freeze)
          BY <2>1 DEF hi_direct
        <5>2. j = ibuf.tag
          BY <1>1, <2>2, <4>1, <5>1, Arrives
        <5> QED
          BY <2>5, <5>2
      <4>2. CASE pending(j) /\ (clk_en => ~buf_cmd_state_bus_en(j))
        <5>1. ~buf_cmd_state_bus_en(j)
          BY <1>1, <2>8, <4>2, LeavesStep
        <5> QED
          BY <4>2, <5>1 DEF older, pending, in_cmd
      <4> QED
        BY <1>1, <1>2, <2>8, <4>1, <4>2, WaitingStep
    <3> QED
      BY <2>4, <2>8, <3>1 DEF age
  <2>9. Twin(ibuf'.req, ibuf'.tag, req(d)')
    BY <2>1, <2>2, <2>3
  <2> QED
    BY <2>1, <2>2, <2>3, <2>7, <2>8, <2>9
<1> QED
  BY <1>3, <1>4 DEF Halves

-----------------------------------------------------------------------------
(* The two halves of a load in one bus word.                                 *)

LEMMA LowHalf ==
  ASSUME Base, Halves, NEW i \in Entries, low_half(i), NEW d, d = req(i).dualtag
  PROVE  /\ half(req(i)) /\ d \in Entries /\ d # i
         /\ busy(d) => /\ same_dword_load(d) /\ req(d).dualhi /\ req(d).dualtag = i
                       /\ half(req(d)) /\ ~low_half(d)
         /\ ~busy(d) => /\ ibuf.valid /\ ibuf.tag = d /\ half(ibuf.req) /\ ibuf.req.dualtag = i
                        /\ pending(i) /\ age(i) # {} /\ ibuf.req.samedw
                        /\ \A j \in Entries \ {i} : pending(j) /\ ~buf_cmd_state_bus_en(j) => j \in age(i)
<1>1. half(req(i)) /\ busy(i) /\ req(i).samedw /\ ~req(i).dualhi
  BY DEF low_half, same_dword_load, half
<1>2. IsRequest(req(i)) /\ d \in Entries
  BY <1>1 DEF Base, Shapes, BufShape, busy, IsRequest
<1>3. d # i
  BY <1>1 DEF Halves
<1>4. ASSUME busy(d)
      PROVE  same_dword_load(d) /\ req(d).dualhi /\ req(d).dualtag = i /\ half(req(d)) /\ ~low_half(d)
  <2>1. Twin(req(i), i, req(d)) /\ IsRequest(req(d))
    BY <1>1, <1>2, <1>4, TwinOfBusy DEF Base, Shapes, BufShape, busy
  <2> QED
    BY <1>1, <1>2, <2>1 DEF Twin, half, same_dword_load, low_half, IsRequest
<1>5. ASSUME ~busy(d)
      PROVE  /\ ibuf.valid /\ ibuf.tag = d /\ half(ibuf.req) /\ ibuf.req.dualtag = i
             /\ pending(i) /\ age(i) # {} /\ ibuf.req.samedw
             /\ \A j \in Entries \ {i} : pending(j) /\ ~buf_cmd_state_bus_en(j) => j \in age(i)
  <2>1. ibuf.valid /\ ibuf.tag = d /\ Twin(req(i), i, ibuf.req)
    BY <1>1, <1>2, <1>5 DEF Halves
  <2>2. half(ibuf.req) /\ ibuf.req.dualtag = i /\ ibuf.req.samedw
    BY <1>1, <2>1 DEF Twin
  <2> QED
    BY <2>1, <2>2 DEF Halves
<1> QED
  BY <1>1, <1>2, <1>3, <1>4, <1>5

(* A high half is never the first command: its low half goes before it, or with it. *)
LEMMA HighHalf ==
  ASSUME Base, Halves, NEW d \in Entries, busy(d), same_dword_load(d), req(d).dualhi
  PROVE  /\ req(d).dualtag \in Entries /\ low_half(req(d).dualtag)
         /\ req(req(d).dualtag).dualtag = d
<1>1. half(req(d)) /\ req(d).samedw /\ IsRequest(req(d))
  BY DEF same_dword_load, half, Base, Shapes, BufShape, busy
<1>2. busy(req(d).dualtag) /\ Twin(req(d), d, req(req(d).dualtag)) /\ req(d).dualtag \in Entries
  BY <1>1 DEF Halves, IsRequest
<1>3. IsRequest(req(req(d).dualtag))
  BY <1>2 DEF Base, Shapes, BufShape, busy
<1> QED
  BY <1>1, <1>2, <1>3 DEF Twin, half, same_dword_load, low_half, IsRequest

LEMMA FirstIsLow ==
  ASSUME Base, Ages, Halves, Together, CmdPtr0Dec # {}, same_dword_load(CmdPtr0)
  PROVE  /\ low_half(CmdPtr0) /\ obuf_merge_en
         /\ CmdPtr1Dec # {} /\ CmdPtr1 = req(CmdPtr0).dualtag
         /\ req(CmdPtr1).dualhi /\ req(CmdPtr1).dualtag = CmdPtr0
<1> DEFINE k == CmdPtr0
<1>1. k \in Entries /\ in_cmd(k) /\ age(k) = {} /\ CmdPtr0Dec = {k} /\ busy(k)
  BY Cmd0 DEF busy, in_cmd
<1>2. IsRequest(req(k))
  BY <1>1 DEF Base, Shapes, BufShape, busy
<1> HIDE DEF k
<1>3. ~req(k).dualhi
  <2> SUFFICES ASSUME req(k).dualhi PROVE FALSE
    OBVIOUS
  <2>1. same_dword_load(k)
    BY DEF k
  <2>2. /\ req(k).dualtag \in Entries /\ low_half(req(k).dualtag) /\ req(req(k).dualtag).dualtag = k
    BY <1>1, <2>1, HighHalf
  <2>3. buf[req(k).dualtag].state = "CMD" /\ ~buf_cmd_state_bus_en(req(k).dualtag)
    BY <1>1, <2>2 DEF Together, in_cmd
  <2>4. req(k).dualtag \in age(k)
    BY <1>1, <2>2, <2>3 DEF Together, in_cmd, pending
  <2> QED
    BY <1>1, <2>4
<1>4. low_half(k)
  BY <1>1, <1>3 DEF low_half, k
<1> DEFINE d == req(k).dualtag
<1>5. /\ d \in Entries /\ d # k /\ busy(d) /\ same_dword_load(d) /\ req(d).dualhi /\ req(d).dualtag = k
  BY <1>1, <1>4, LowHalf
<1>6. buf[d].state = "CMD" /\ ~buf_cmd_state_bus_en(d)
  <2>1. buf[d].state \in States
    BY <1>5 DEF Base, Shapes, BufShape
  <2>2. buf[d].state # "WAIT"
    BY <1>1, <1>4 DEF Together, in_cmd
  <2>3. buf[d].state \notin {"RESP", "DONE"}
    BY <1>1, <1>4 DEF Together, in_cmd
  <2>4. buf[d].state = "CMD"
    BY <1>5, <2>1, <2>2, <2>3 DEF States, busy
  <2> QED
    BY <1>1, <1>4, <2>4 DEF Together, in_cmd
<1>7. age(d) = {k}
  BY <1>1, <1>4, <1>5, <1>6 DEF Together, pending, in_cmd
<1>8. d \in CmdPtr1Dec
  BY <1>1, <1>5, <1>6, <1>7 DEF CmdPtr1Dec, in_cmd
<1>9. CmdPtr1Dec # {} /\ CmdPtr1 = d
  BY <1>8, Cmd1
<1>10. obuf_merge_en
  BY <1>2, <1>3, <1>4, <1>9 DEF obuf_merge_en, k, IsRequest, same_dword_load, low_half
<1> QED
  BY <1>4, <1>5, <1>9, <1>10 DEF k

LEMMA PairSent ==
  ASSUME Base, Ages, Halves, Together, NEW up, NEW kill, NEW freeze, NEW ready,
         BufEdge(TRUE, up, kill, freeze), ObufEdge(TRUE, up, kill, ready),
         NEW i \in Entries, low_half(i), NEW d \in Entries, d = req(i).dualtag, busy(d)
  PROVE  /\ buf_cmd_state_bus_en(i)' <=> buf_cmd_state_bus_en(d)'
         /\ buf_cmd_state_bus_en(i)' => in_cmd(i) /\ age(i) = {}
<1>1. busy(i) /\ same_dword_load(i) /\ ~req(i).dualhi /\ BufShape
  BY DEF low_half, Base, Shapes
<1>2. same_dword_load(d) /\ req(d).dualhi /\ req(d).dualtag = i
  BY LowHalf
<1>3. ASSUME NEW j \in {i, d}, ibuf_buf_byp(up), lsu_commit_dc5(kill), j = dc5.ptr0
      PROVE  FALSE
  BY <1>1, <1>3, BypassEntry DEF busy
<1>4. CmdPtr0Dec # {} => CmdPtr0 # d
  BY <1>2, FirstIsLow DEF low_half
<1>5. ASSUME CmdPtr0Dec # {}, obuf_merge_en
      PROVE  CmdPtr1 # i /\ (CmdPtr1 = d => CmdPtr0 = i)
  <2>1. same_dword_load(CmdPtr0)
    BY <1>5 DEF obuf_merge_en
  <2> QED
    BY <1>1, <1>2, <1>5, <2>1, FirstIsLow
<1>6. ASSUME buf_cmd_state_bus_en(i)'
      PROVE  buf_cmd_state_bus_en(d)' /\ in_cmd(i) /\ age(i) = {}
  <2>1. obuf_wr_en(up, kill, ready) /\ CmdPtr0Dec # {} /\ i = CmdPtr0
    BY <1>3, <1>5, <1>6, LeavesStep
  <2>2. obuf_merge_en /\ CmdPtr1Dec # {} /\ CmdPtr1 = d
    BY <1>1, <2>1, FirstIsLow
  <2>3. obuf_wr_enQ'
    BY <1>6 DEF buf_cmd_state_bus_en
  <2>4. in_cmd(i) /\ age(i) = {} /\ in_cmd(d)
    BY <2>1, <2>2, Cmd0, Cmd1
  <2>5. ~ibuf_buf_byp(up)
    BY <2>4, Bypass
  <2>6. obuf'.tag1 = d /\ obuf'.merge = TRUE /\ obuf'.valid = TRUE
    BY <2>1, <2>2, <2>5, ObufTakes DEF Holds
  <2>7. buf'[d].state = "CMD"
    BY <1>1, <2>4, EntryStep DEF in_cmd
  <2> QED
    BY <2>3, <2>4, <2>6, <2>7 DEF buf_cmd_state_bus_en
<1>7. ASSUME buf_cmd_state_bus_en(d)'
      PROVE  buf_cmd_state_bus_en(i)'
  <2>1. CmdPtr0Dec # {} /\ obuf_merge_en /\ d = CmdPtr1 /\ \A c \in CmdPtr0Dec : buf_cmd_state_bus_en(c)'
    BY <1>3, <1>4, <1>7, LeavesStep
  <2>2. i \in CmdPtr0Dec
    BY <1>5, <2>1, Cmd0
  <2> QED
    BY <2>1, <2>2
<1> QED
  BY <1>6, <1>7

LEMMA PairAnswered ==
  ASSUME Base, Halves, OnBus, NEW i \in Entries, low_half(i), NEW d \in Entries, d = req(i).dualtag, busy(d)
  PROVE  (rsp_read_for(i) \/ rsp_write_for(i)) <=> (rsp_read_for(d) \/ rsp_write_for(d))
<1>1. same_dword_load(i) /\ ~req(i).dualhi /\ ~req(i).write
  BY DEF low_half, same_dword_load
<1>2. same_dword_load(d) /\ req(d).dualhi /\ req(d).dualtag = i /\ ~req(d).write
  BY LowHalf DEF same_dword_load
<1>3. ~rsp_write_for(i) /\ ~rsp_write_for(d)
  BY <1>1, <1>2 DEF rsp_write_for, OnBus, Awaits
<1>4. bus_rsp_read.valid => bus_rsp_read.tag # d
  BY <1>2 DEF OnBus, Awaits
<1> QED
  BY <1>1, <1>2, <1>3, <1>4 DEF rsp_read_for

LEMMA TogetherStep ==
  ASSUME Base, Ages, Halves, Together, OnBus, OwnersInv', Base', Halves',
         NEW clk_en, NEW up, NEW kill, NEW freeze, NEW ready, NEW reads, NEW writes, NEW error,
         BufferEdges(clk_en, up, kill, freeze, ready, reads, writes, error)
  PROVE  Together'
<1>1. /\ clk_en \in BOOLEAN /\ IbufEdge(up, kill, freeze) /\ BufEdge(clk_en, up, kill, freeze)
      /\ AgeEdge(up, kill, freeze) /\ ObufEdge(clk_en, up, kill, ready)
  BY DEF BufferEdges
<1>2. BufShape /\ OwnersInv
  BY DEF Base, Shapes
<1> DEFINE En(j) == buf_cmd_state_bus_en(j)
<1>3. \A j \in Entries :
        /\ ~clk_en => (En(j)' <=> En(j))
        /\ En(j)' /\ clk_en => in_cmd(j) \/ (ibuf_buf_byp(up) /\ lsu_commit_dc5(kill) /\ j = dc5.ptr0)
  <2> SUFFICES ASSUME NEW j \in Entries
               PROVE  /\ ~clk_en => (En(j)' <=> En(j))
                      /\ En(j)' /\ clk_en => in_cmd(j) \/ (ibuf_buf_byp(up) /\ lsu_commit_dc5(kill) /\ j = dc5.ptr0)
    OBVIOUS
  <2>1. CmdPtr0Dec # {} => in_cmd(CmdPtr0)
    BY Cmd0
  <2>2. CmdPtr1Dec # {} => in_cmd(CmdPtr1)
    BY Cmd1
  <2> QED
    BY <1>1, <2>1, <2>2, LeavesStep
<1> SUFFICES ASSUME NEW i \in Entries, low_half(i)', NEW d, d = req(i)'.dualtag
             PROVE  /\ ~req(i)'.nomerge
                    /\ pending(d)' /\ pending(i)' /\ ~En(i)' => age(d)' = age(i)' \cup {i}
                    /\ buf'[d].state = "WAIT" =>
                         \/ buf'[i].state = "WAIT"
                         \/ buf'[i].state = "CMD" /\ ~En(i)' /\ age(i)' # {}
                    /\ buf'[d].state = "CMD" => buf'[i].state = "CMD" /\ (En(d)' <=> En(i)')
                    /\ buf'[i].state \in {"RESP", "DONE"} => buf'[d].state = buf'[i].state
                    /\ buf'[d].state \in {"RESP", "DONE"} => buf'[d].state = buf'[i].state
  BY DEF Together
<1>4. /\ half(req(i)') /\ busy(i)' /\ req(i)'.samedw /\ ~req(i)'.dualhi /\ d \in Entries /\ d # i
  <2>1. half(req(i)') /\ busy(i)' /\ req(i)'.samedw /\ ~req(i)'.dualhi
    BY DEF low_half, same_dword_load, half
  <2>2. IsRequest(req(i)')
    BY <2>1 DEF Base, Shapes, BufShape, busy
  <2>3. d # i
    BY <2>1 DEF Halves
  <2> QED
    BY <2>1, <2>2, <2>3 DEF IsRequest
<1>5. \A j \in Entries : buf'[j].state \in States
  BY <1>1, <1>2, Moves
<1>6. CASE ~busy(i)
  <2>1. New(i, up, kill, freeze) # {}
    BY <1>1, <1>2, <1>4, <1>6, EntryStep DEF busy, NoEntry
  <2>2. ~(i = ibuf.tag /\ ibuf.valid /\ Same(req(i)', ibuf.req))
    BY <1>4 DEF Same, half, Halves
  <2>3. ~(i = dc5.ptr1 /\ hi_direct(up, kill, freeze) /\ req(i)' = HiHalf(up))
    BY <1>4 DEF HiHalf, Half
  <2>4. /\ i = dc5.ptr0 /\ lo_direct(up, kill, freeze) /\ req(i)' = LoHalf(up)
        /\ buf'[i].state = IF clk_en THEN "CMD" ELSE "WAIT"
    BY <1>1, <2>1, <2>2, <2>3, Arrives
  <2>5. dc5.busreq /\ ldst_dual(dc5)
    BY <1>4, <2>4, SingleIsNoHalf DEF lo_direct, accepted
  <2>6. ~req(i)'.nomerge /\ d = dc5.ptr1
    BY <2>4, <2>5, DualHalves
  <2>7. d \notin Taken /\ d \notin Tagged /\ ~ibuf_buf_byp(up)
    BY <1>2, <2>5, <2>6, Dc5Ptrs DEF ibuf_buf_byp
  <2>8. buf[d].state = "IDLE" /\ buf[i].state = "IDLE"
    BY <1>4, <1>6, <2>7 DEF Taken, busy
  <2>9. ~En(i)' /\ ~En(d)'
    BY <1>3, <1>4, <2>7, <2>8 DEF in_cmd, buf_cmd_state_bus_en
  <2>10. CASE New(d, up, kill, freeze) # {}
    <3>1. /\ hi_direct(up, kill, freeze) /\ buf'[d].state = IF clk_en THEN "CMD" ELSE "WAIT"
      BY <1>1, <1>4, <2>4, <2>6, <2>7, <2>10, Arrives DEF Tagged
    <3>2. ibuf_byp(up) /\ ~ibuf.valid
      BY <3>1 DEF hi_direct, ibuf_byp
    <3>3. older(d, up, kill, freeze) = older(i, up, kill, freeze) \cup {i}
      BY <1>4, <2>4, <2>5, <2>6, <3>2 DEF older, ibuf_drain_vld
    <3>4. age(i) = {} /\ age(d) = {}
      BY <1>4, <2>8 DEF Ages, age, pending
    <3>5. buf_age'[d] = buf_age'[i] \cup {i}
      BY <1>1, <1>4, <2>1, <2>8, <2>10, <3>3, <3>4 DEF AgeEdge
    <3>6. age(d)' = age(i)' \cup {i}
      BY <2>9, <3>5 DEF age
    <3> QED
      BY <2>4, <2>6, <2>9, <3>1, <3>6
  <2>11. CASE New(d, up, kill, freeze) = {}
    <3>1. buf'[d].state = "IDLE"
      BY <1>1, <1>2, <1>4, <2>8, <2>11, EntryStep DEF NoEntry
    <3> QED
      BY <2>4, <2>6, <3>1 DEF pending
  <2> QED
    BY <2>10, <2>11
<1>7. CASE busy(i)
  <2>1. Same(req(i)', req(i)) /\ req(i)'.nomerge = req(i).nomerge
    BY <1>1, <1>2, <1>4, <1>7, EntryKeeps
  <2>2. low_half(i) /\ d = req(i).dualtag /\ IsRequest(req(i))
    BY <1>2, <1>4, <1>7, <2>1 DEF Same, half, low_half, same_dword_load, BufShape, busy
  <2>3. ~req(i)'.nomerge
    BY <2>1, <2>2 DEF Together
  <2>4. ~(i = dc5.ptr0 /\ ibuf_buf_byp(up) /\ lsu_commit_dc5(kill))
    BY <1>7, BypassEntry DEF busy
  <2>5. buf[i].state # "IDLE" /\ buf[i].state \in States
    BY <1>2, <1>7 DEF busy, BufShape
  <2>6. buf_age'[i] = age(i)
    BY <1>1, <2>5 DEF AgeEdge
  <2>7. CASE ~busy(d)
    <3>1. /\ ibuf.valid /\ ibuf.tag = d /\ half(ibuf.req) /\ pending(i) /\ age(i) # {}
          /\ \A j \in Entries \ {i} : pending(j) /\ ~buf_cmd_state_bus_en(j) => j \in age(i)
      BY <2>2, <2>7, LowHalf
    <3>2. /\ ibuf_drain_vld(up, kill, freeze) /\ New(d, up, kill, freeze) # {}
          /\ buf[d].state = "IDLE" /\ buf'[d].state = IF clk_en THEN "CMD" ELSE "WAIT"
      BY <1>1, <1>4, <3>1, HighHalfDrains
    <3>3. ~En(i)
      BY <3>1 DEF Ages
    <3>4. ~En(i)'
      <4>1. CASE ~clk_en
        BY <1>3, <3>3, <4>1
      <4>2. CASE clk_en
        <5>1. CmdPtr0Dec # {} => CmdPtr0 # i
          BY <3>1, Cmd0
        <5>2. obuf_merge_en => CmdPtr1 # i
          BY <2>2, FirstIsLow DEF obuf_merge_en, low_half
        <5> QED
          BY <1>1, <2>4, <4>2, <5>1, <5>2, LeavesStep
      <4> QED
        BY <1>1, <4>1, <4>2
    <3>5. ~ibuf_buf_byp(up)
      BY <3>1 DEF ibuf_buf_byp, ibuf_byp
    <3>6. ~En(d)'
      BY <1>3, <1>4, <3>2, <3>5 DEF in_cmd, buf_cmd_state_bus_en
    <3>7. buf'[i].state = IF clk_en THEN "CMD" ELSE buf[i].state
      BY <1>1, <1>2, <3>1, <3>3, EntryStep DEF pending
    <3>8. older(d, up, kill, freeze) = age(i) \cup {i}
      <4>1. ~(dc5.busreq /\ d = dc5.ptr0)
        BY <1>2, <3>1, Dc5Ptrs DEF Tagged
      <4>2. ~ibuf_byp(up)
        BY <3>1 DEF ibuf_byp
      <4>3. older(d, up, kill, freeze) = {j \in Entries : buf[j].state = "WAIT" \/ in_cmd(j)}
        BY <4>1, <4>2 DEF older
      <4>4. \A j \in Entries : (buf[j].state = "WAIT" \/ in_cmd(j)) <=> (pending(j) /\ ~En(j))
        BY DEF pending, in_cmd, buf_cmd_state_bus_en
      <4>5. \A j \in age(i) : j \in Entries /\ pending(j) /\ ~En(j)
        BY DEF age, Ages
      <4>6. age(i) \cup {i} \subseteq Entries
        BY <4>5
      <4>7. \A j \in Entries : (pending(j) /\ ~En(j)) <=> j \in age(i) \cup {i}
        BY <3>1, <3>3, <4>5
      <4>8. \A j \in Entries : (buf[j].state = "WAIT" \/ in_cmd(j)) <=> j \in age(i) \cup {i}
        BY <4>4, <4>7
      <4>9. {j \in Entries : buf[j].state = "WAIT" \/ in_cmd(j)} = age(i) \cup {i}
        BY <4>6, <4>8, Zenon
      <4> QED
        BY <4>3, <4>9
    <3>9. buf_age'[d] = age(i) \cup {i}
      <4>1. age(d) = {}
        BY <1>4, <3>2 DEF Ages, age, pending
      <4> QED
        BY <1>1, <1>4, <3>2, <3>8, <4>1 DEF AgeEdge
    <3>10. age(d)' = age(i)' \cup {i}
      BY <2>6, <3>4, <3>9 DEF age
    <3>11. ~clk_en => age(i)' # {}
      BY <1>3, <2>6, <3>1 DEF age, Ages
    <3>12. buf[i].state \in {"WAIT", "CMD"}
      BY <3>1 DEF pending
    <3> QED
      BY <2>3, <3>2, <3>4, <3>6, <3>7, <3>10, <3>11, <3>12
  <2>8. CASE busy(d)
    <3>1. busy(d)' /\ buf[d].state \in States /\ buf[d].state # "IDLE"
      BY <1>1, <1>2, <1>4, <1>7, <2>2, <2>8, HalfStaysBusy, LowHalf DEF busy, BufShape
    <3>2. buf_age'[d] = age(d)
      BY <1>1, <1>4, <3>1 DEF AgeEdge
    <3>3. /\ pending(d) /\ pending(i) /\ ~En(i) => age(d) = age(i) \cup {i}
          /\ buf[d].state = "WAIT" =>
               \/ buf[i].state = "WAIT"
               \/ buf[i].state = "CMD" /\ ~En(i) /\ age(i) # {}
          /\ buf[d].state = "CMD" => buf[i].state = "CMD" /\ (En(d) <=> En(i))
          /\ buf[i].state \in {"RESP", "DONE"} => buf[d].state = buf[i].state
          /\ buf[d].state \in {"RESP", "DONE"} => buf[d].state = buf[i].state
      BY <2>2 DEF Together
    <3>4. clk_en => (En(i)' <=> En(d)') /\ (En(i)' => in_cmd(i) /\ age(i) = {})
      BY <1>1, <1>4, <2>2, <2>8, PairSent
    <3>5. pending(i)' => pending(i) /\ (clk_en => ~En(i))
      BY <1>1, <1>2, <1>7, WaitingStep DEF busy
    <3>6. pending(d)' => pending(d) /\ (clk_en => ~En(d))
      BY <1>1, <1>2, <1>4, <2>8, WaitingStep DEF busy
    <3>7. pending(d)' /\ pending(i)' /\ ~En(i)' => age(d)' = age(i)' \cup {i}
      BY <1>1, <1>3, <2>6, <3>2, <3>3, <3>5, <3>6 DEF age
    <3>8. buf'[d].state = "WAIT" =>
            \/ buf'[i].state = "WAIT"
            \/ buf'[i].state = "CMD" /\ ~En(i)' /\ age(i)' # {}
      <4> SUFFICES ASSUME buf'[d].state = "WAIT"
                   PROVE  \/ buf'[i].state = "WAIT"
                          \/ buf'[i].state = "CMD" /\ ~En(i)' /\ age(i)' # {}
        OBVIOUS
      <4>1. ~clk_en /\ buf[d].state = "WAIT"
        BY <1>1, <1>2, <1>4, <3>1, Moves
      <4>2. CASE buf[i].state = "WAIT"
        BY <1>1, <1>2, <4>1, <4>2, EntryStep
      <4>3. CASE buf[i].state = "CMD" /\ ~En(i) /\ age(i) # {}
        <5>1. buf'[i].state = "CMD"
          BY <1>1, <1>2, <4>1, <4>3, EntryStep
        <5>2. ~En(i)' /\ age(i)' # {}
          BY <1>3, <2>6, <4>1, <4>3 DEF age, Ages
        <5> QED
          BY <5>1, <5>2
      <4> QED
        BY <3>3, <4>1, <4>2, <4>3
    <3>9. buf'[d].state = "CMD" => buf'[i].state = "CMD" /\ (En(d)' <=> En(i)')
      <4> SUFFICES ASSUME buf'[d].state = "CMD"
                   PROVE  buf'[i].state = "CMD" /\ (En(d)' <=> En(i)')
        OBVIOUS
      <4>1. (buf[d].state = "WAIT" /\ clk_en) \/ (buf[d].state = "CMD" /\ ~(clk_en /\ En(d)))
        BY <1>1, <1>2, <1>4, <3>1, Moves
      <4>2. (buf[i].state = "WAIT" /\ clk_en) \/ (buf[i].state = "CMD" /\ ~(clk_en /\ En(i)))
        BY <3>3, <4>1
      <4>3. buf'[i].state = "CMD"
        BY <1>1, <1>2, <4>2, EntryStep
      <4>4. CASE clk_en
        BY <3>4, <4>3, <4>4
      <4>5. CASE ~clk_en
        BY <1>3, <1>4, <3>3, <4>1, <4>3, <4>5
      <4> QED
        BY <1>1, <4>4, <4>5
    <3>10. (rsp_read_for(i) \/ rsp_write_for(i)) <=> (rsp_read_for(d) \/ rsp_write_for(d))
      BY <1>4, <2>2, <2>8, PairAnswered
    <3>11. buf_rst(i) <=> buf_rst(d)
      BY <1>4, <1>7, <2>2, <2>8, TwinsLeaveTogether, LowHalf
    <3>12. buf'[i].state \in {"RESP", "DONE"} => buf'[d].state = buf'[i].state
      <4>1. ASSUME buf'[i].state = "RESP" PROVE buf'[d].state = "RESP"
        <5>1. CASE buf[i].state = "CMD" /\ clk_en /\ En(i)
          <6>1. buf[d].state = "CMD" /\ En(d)
            BY <3>1, <3>3, <5>1 DEF States
          <6>2. buf'[d].state = IF clk_en /\ buf_cmd_state_bus_en(d) THEN "RESP" ELSE "CMD"
            BY <1>1, <1>2, <1>4, <6>1, EntryStep
          <6> QED
            BY <5>1, <6>1, <6>2
        <5>2. CASE buf[i].state = "RESP" /\ ~(clk_en /\ (rsp_read_for(i) \/ rsp_write_for(i)))
          <6>1. buf'[d] = buf[d] /\ buf[d].state = "RESP"
            BY <1>1, <1>2, <1>4, <3>3, <3>10, <5>2, EntryStep
          <6> QED
            BY <6>1
        <5> QED
          BY <1>1, <1>2, <4>1, <5>1, <5>2, Moves
      <4>2. ASSUME buf'[i].state = "DONE" PROVE buf'[d].state = "DONE"
        <5>1. CASE buf[i].state = "RESP" /\ clk_en /\ (rsp_read_for(i) \/ rsp_write_for(i))
          <6>1. buf[d].state = "RESP"
            BY <3>3, <5>1
          <6>2. buf'[d] = IF clk_en /\ (rsp_read_for(d) \/ rsp_write_for(d)) THEN Answered(d) ELSE buf[d]
            BY <1>1, <1>2, <1>4, <6>1, EntryStep
          <6>4. clk_en /\ (rsp_read_for(d) \/ rsp_write_for(d))
            BY <3>10, <5>1
          <6>3. ~req(d).write
            BY <1>4, <2>2, <2>8, LowHalf DEF half
          <6> QED
            BY <6>2, <6>3, <6>4 DEF Answered
        <5>2. CASE buf[i].state = "DONE" /\ ~buf_rst(i)
          <6>1. buf'[d] = buf[d] /\ buf[d].state = "DONE"
            BY <1>1, <1>2, <1>4, <3>3, <3>11, <5>2, EntryStep
          <6> QED
            BY <6>1
        <5> QED
          BY <1>1, <1>2, <4>2, <5>1, <5>2, Moves
      <4> QED
        BY <4>1, <4>2
    <3>13. buf'[d].state \in {"RESP", "DONE"} => buf'[d].state = buf'[i].state
      <4>1. ASSUME buf'[d].state = "RESP" PROVE buf'[i].state = "RESP"
        <5>1. CASE buf[d].state = "CMD" /\ clk_en /\ En(d)
          BY <1>1, <1>2, <3>3, <5>1, EntryStep
        <5>2. CASE buf[d].state = "RESP" /\ ~(clk_en /\ (rsp_read_for(d) \/ rsp_write_for(d)))
          <6>1. buf'[i] = buf[i] /\ buf[i].state = "RESP"
            BY <1>1, <1>2, <3>3, <3>10, <5>2, EntryStep
          <6> QED
            BY <6>1
        <5> QED
          BY <1>1, <1>2, <1>4, <4>1, <5>1, <5>2, Moves
      <4>2. ASSUME buf'[d].state = "DONE" PROVE buf'[i].state = "DONE"
        <5>1. CASE buf[d].state = "RESP" /\ clk_en /\ (rsp_read_for(d) \/ rsp_write_for(d))
          <6>1. buf[i].state = "RESP"
            BY <3>3, <5>1
          <6>2. buf'[i] = IF clk_en /\ (rsp_read_for(i) \/ rsp_write_for(i)) THEN Answered(i) ELSE buf[i]
            BY <1>1, <1>2, <6>1, EntryStep
          <6>3. clk_en /\ (rsp_read_for(i) \/ rsp_write_for(i))
            BY <3>10, <5>1
          <6>4. ~req(i).write
            BY <2>2 DEF low_half, same_dword_load
          <6> QED
            BY <6>2, <6>3, <6>4 DEF Answered
        <5>2. CASE buf[d].state = "DONE" /\ ~buf_rst(d)
          <6>1. buf'[i] = buf[i] /\ buf[i].state = "DONE"
            BY <1>1, <1>2, <3>3, <3>11, <5>2, EntryStep
          <6> QED
            BY <6>1
        <5> QED
          BY <1>1, <1>2, <1>4, <4>2, <5>1, <5>2, Moves
      <4> QED
        BY <4>1, <4>2
    <3> QED
      BY <2>3, <3>7, <3>8, <3>9, <3>12, <3>13
  <2> QED
    BY <2>7, <2>8
<1> QED
  BY <1>6, <1>7

-----------------------------------------------------------------------------
(* Transactions and their answers.                                           *)

(* What is on the bus after the edge was there, or is in the output buffer. *)
LEMMA BusMoves ==
  ASSUME NEW clk_en, NEW up, NEW kill, NEW freeze, NEW ready, NEW reads, NEW writes, NEW error,
         BufferEdges(clk_en, up, kill, freeze, ready, reads, writes, error)
  PROVE  /\ ~clk_en => bus' = bus /\ bus_rsp_read' = bus_rsp_read /\ bus_rsp_write' = bus_rsp_write
         /\ clk_en => bus' = (bus \ (reads \cup writes)) \cup Accepted(ready)
         /\ clk_en /\ bus_rsp_read'.valid =>
              \E t \in bus : t \in reads /\ ~t.write /\ bus_rsp_read'.tag = t.tag
         /\ clk_en /\ bus_rsp_write'.valid =>
              \E t \in bus : t \in writes /\ t.write /\ bus_rsp_write'.tag = t.tag
<1>1. BusEdge(clk_en, ready, reads, writes, error)
  BY DEF BufferEdges
<1>2. clk_en => /\ \A t \in reads : t \in bus /\ ~t.write
                /\ \A t \in writes : t \in bus /\ t.write
  BY DEF BufferEdges, AtMostOne
<1>3. ~clk_en => bus' = bus /\ bus_rsp_read' = bus_rsp_read /\ bus_rsp_write' = bus_rsp_write
  BY <1>1 DEF BusEdge
<1>4. clk_en => bus' = (bus \ (reads \cup writes)) \cup Accepted(ready)
  BY <1>1 DEF BusEdge
<1>5. ASSUME clk_en, bus_rsp_read'.valid
      PROVE  \E t \in bus : t \in reads /\ ~t.write /\ bus_rsp_read'.tag = t.tag
  <2>1. reads # {}
    BY <1>1, <1>5 DEF BusEdge, Nothing
  <2>2. PICK t \in reads : bus_rsp_read' = [valid |-> TRUE, tag |-> t.tag, error |-> error,
                                            data |-> [n \in 0..1 |-> memory[2 * t.dword + n]]]
    BY <1>1, <1>5, <2>1 DEF BusEdge
  <2> QED
    BY <1>2, <1>5, <2>2
<1>6. ASSUME clk_en, bus_rsp_write'.valid
      PROVE  \E t \in bus : t \in writes /\ t.write /\ bus_rsp_write'.tag = t.tag
  <2>1. writes # {}
    BY <1>1, <1>6 DEF BusEdge, Nothing
  <2>2. PICK t \in writes : bus_rsp_write' = [valid |-> TRUE, tag |-> t.tag, error |-> error]
    BY <1>1, <1>6, <2>1 DEF BusEdge
  <2> QED
    BY <1>2, <1>6, <2>2
<1> QED
  BY <1>3, <1>4, <1>5, <1>6

(* What goes out is what the output buffer holds. *)
LEMMA AcceptedIsObuf ==
  ASSUME NEW ready, NEW t \in Accepted(ready)
  PROVE  /\ obuf.valid /\ bus_cmd_sent(ready) /\ t.tag = obuf.tag0 /\ t.write = obuf.write
         /\ t.dword = obuf.dword
         /\ \A u \in Accepted(ready) : u = t
  BY DEF Accepted, bus_cmd_sent

(* An entry waits on until it is answered. *)
LEMMA WaitsOn ==
  ASSUME Base, NEW clk_en \in BOOLEAN, NEW up, NEW kill, NEW freeze, BufEdge(clk_en, up, kill, freeze),
         NEW i, NEW write, Awaits(i, write),
         clk_en => /\ bus_rsp_read.valid => bus_rsp_read.tag # i
                   /\ bus_rsp_write.valid => bus_rsp_write.tag # i
  PROVE  i \in Entries /\ buf'[i] = buf[i] /\ req(i)' = req(i) /\ Awaits(i, write)'
<1>1. i \in Entries /\ buf[i].state = "RESP" /\ BufShape
  BY DEF Awaits, Base, Shapes
<1>2. clk_en => ~rsp_read_for(i) /\ ~rsp_write_for(i)
  BY DEF rsp_read_for, rsp_write_for, Awaits
<1>3. buf'[i] = IF clk_en /\ (rsp_read_for(i) \/ rsp_write_for(i)) THEN Answered(i) ELSE buf[i]
  BY <1>1, EntryStep
<1>4. buf'[i] = buf[i]
  BY <1>2, <1>3
<1>5. req(i)' = req(i)
  BY <1>4 DEF req
<1>6. same_dword_load(i)' <=> same_dword_load(i)
  BY <1>5 DEF same_dword_load
<1> QED
  BY <1>1, <1>4, <1>5, <1>6 DEF Awaits

(* The entry of the output buffer waits for the answer from the next bus clock on. *)
LEMMA SentAwaits ==
  ASSUME Base, OutputBuffer, Sent, NEW up, NEW kill, NEW freeze, BufEdge(TRUE, up, kill, freeze),
         obuf.valid, NEW i, i = obuf.tag0, NEW w, w = obuf.write
  PROVE  Awaits(i, w)' /\ req(i)' = req(i)
<1>1. /\ i \in Entries /\ buf[i].state = IF obuf_wr_enQ THEN "CMD" ELSE "RESP"
      /\ req(i).write = w /\ (same_dword_load(i) => ~req(i).dualhi)
      /\ ~OnTheWay(i) /\ BufShape
  BY DEF Sent, OutputBuffer, Base, Shapes
<1>2. CASE obuf_wr_enQ
  <2>1. buf_cmd_state_bus_en(i)
    BY <1>1, <1>2 DEF buf_cmd_state_bus_en
  <2>2. buf'[i].state = "RESP" /\ buf'[i].req = buf[i].req
    BY <1>1, <1>2, <2>1, EntryStep
  <2>3. req(i)' = req(i)
    BY <2>2 DEF req
  <2> QED
    BY <1>1, <2>2, <2>3 DEF Awaits, same_dword_load
<1>3. CASE ~obuf_wr_enQ
  <2>1. Awaits(i, w)
    BY <1>1, <1>3 DEF Awaits
  <2>2. /\ bus_rsp_read.valid => bus_rsp_read.tag # i
        /\ bus_rsp_write.valid => bus_rsp_write.tag # i
    BY <1>1 DEF OnTheWay
  <2> QED
    BY <1>1, <2>1, <2>2, WaitsOn
<1> QED
  BY <1>2, <1>3

(* A command that was not in the output buffer is not on the bus either. *)
LEMMA NotOnTheWay ==
  ASSUME OutputBuffer, Sent, OnBus, NEW up, NEW kill, NEW freeze, NEW ready, NEW reads, NEW writes, NEW error,
         BufferEdges(TRUE, up, kill, freeze, ready, reads, writes, error),
         NEW i \in Entries, buf[i].state = "IDLE" \/ in_cmd(i)
  PROVE  ~OnTheWay(i)'
<1>1. ~OnTheWay(i)
  BY DEF OnTheWay, OnBus, Awaits, in_cmd
<1>2. obuf.valid => obuf.tag0 # i
  BY DEF Sent, in_cmd, buf_cmd_state_bus_en
<1>3. \A u \in bus' : u.tag # i
  <2>1. bus' = (bus \ (reads \cup writes)) \cup Accepted(ready)
    BY DEF BufferEdges, BusEdge
  <2>2. \A u \in bus : u.tag # i
    BY <1>1 DEF OnTheWay
  <2>3. \A u \in Accepted(ready) : u.tag # i
    BY <1>2, AcceptedIsObuf
  <2> QED
    BY <2>1, <2>2, <2>3
<1>4. (bus_rsp_read'.valid => bus_rsp_read'.tag # i) /\ (bus_rsp_write'.valid => bus_rsp_write'.tag # i)
  BY <1>1, BusMoves DEF OnTheWay
<1> QED
  BY <1>3, <1>4 DEF OnTheWay

(* A command enters the output buffer with its entry, and with that of its other half
   if it is for both. *)
LEMMA SentTaken ==
  ASSUME Base, Ages, Halves, Together, OutputBuffer, Sent, OnBus, OutputBuffer',
         NEW up, NEW kill, NEW freeze, NEW ready, NEW reads, NEW writes, NEW error,
         BufferEdges(TRUE, up, kill, freeze, ready, reads, writes, error),
         obuf_wr_en(up, kill, ready)
  PROVE  Sent'
<1>1. /\ BufEdge(TRUE, up, kill, freeze) /\ ObufEdge(TRUE, up, kill, ready) /\ BufShape
  BY DEF BufferEdges, Base, Shapes
<1>2. obuf_wr_enQ' = TRUE
  BY <1>1 DEF ObufEdge, OutputBuffer
<1>3. ASSUME NEW k \in Entries, NEW r, NEW t1, NEW m \in BOOLEAN, Holds(obuf', r, k, t1, m),
             buf[k].state = "IDLE" \/ in_cmd(k),
             buf'[k].state = "CMD", buf'[k].req = r, m <=> (r.dual /\ r.samedw /\ ~r.write),
             t1 = IF m THEN r.dualtag ELSE k, m => ~r.dualhi
      PROVE  Sent'
  <2>1. obuf'.valid = TRUE /\ obuf'.tag0 = k /\ obuf'.tag1 = t1 /\ obuf'.merge = m
        /\ obuf'.write = r.write /\ obuf'.dword = dword(r.word) /\ obuf'.sideeffect = r.sideeffect
    BY <1>3 DEF Holds
  <2>2. req(k)' = r
    BY <1>3 DEF req
  <2>3. same_dword_load(k)' <=> m
    BY <1>3, <2>2 DEF same_dword_load
  <2>4. ~OnTheWay(k)'
    BY <1>3, NotOnTheWay
  <2>5. ASSUME NEW j, j = k
        PROVE  /\ buf'[j].state = "CMD" /\ req(j)'.write = obuf'.write /\ dword(req(j)'.word) = obuf'.dword
               /\ req(j)'.sideeffect = obuf'.sideeffect /\ obuf'.merge = same_dword_load(j)'
               /\ obuf'.tag1 = IF obuf'.merge THEN req(j)'.dualtag ELSE j
               /\ same_dword_load(j)' => ~req(j)'.dualhi
               /\ ~OnTheWay(j)'
    <3>1. same_dword_load(k)' \in BOOLEAN
      BY DEF same_dword_load
    <3> QED
      BY <1>3, <2>1, <2>2, <2>3, <2>4, <2>5, <3>1
  <2> QED
    BY <1>2, <2>1, <2>5 DEF Sent
<1>4. CASE /\ ibuf_buf_byp(up) /\ lsu_commit_dc5(kill) /\ dc5.ptr0 \in Entries
           /\ IsRequest(LoHalf(up)) /\ Holds(obuf', LoHalf(up), dc5.ptr0, dc5.ptr0, FALSE)
  <2>1. buf[dc5.ptr0].state = "IDLE" /\ New(dc5.ptr0, up, kill, freeze) = {LoHalf(up)}
    BY <1>4, BypassEntry
  <2>2. buf'[dc5.ptr0].state = "CMD" /\ buf'[dc5.ptr0].req = LoHalf(up)
    <3>1. New(dc5.ptr0, up, kill, freeze) # {}
      BY <2>1
    <3>2. PICK i \in Entries : i = dc5.ptr0
      BY <1>4
    <3>3. buf'[i].state = "CMD" /\ buf'[i].req \in New(i, up, kill, freeze)
      <4>1. buf[i].state = "IDLE" /\ New(i, up, kill, freeze) # {}
        BY <2>1, <3>1, <3>2
      <4> QED
        BY <1>1, <4>1, EntryStep
    <3> QED
      BY <2>1, <3>2, <3>3
  <2>3. LoHalf(up).write
    BY <1>4, Bypass DEF LoHalf, Half
  <2> QED
    BY <1>3, <1>4, <2>1, <2>2, <2>3
<1> DEFINE k == CmdPtr0
<1>5. ASSUME CmdPtr0Dec # {}
      PROVE  /\ k \in Entries /\ in_cmd(k) /\ buf'[k].state = "CMD" /\ buf'[k].req = req(k)
  <2>1. k \in Entries /\ in_cmd(k)
    BY <1>5, Cmd0
  <2> HIDE DEF k
  <2> QED
    BY <1>1, <2>1, EntryStep DEF in_cmd, req
<1>6. CASE /\ ~ibuf_buf_byp(up) /\ CmdPtr0Dec # {} /\ ~obuf_merge_en
           /\ CmdPtr0 \in Entries /\ IsRequest(req(CmdPtr0))
           /\ Holds(obuf', req(CmdPtr0), CmdPtr0, CmdPtr0, FALSE)
  <2>1. ~same_dword_load(k)
    BY <1>6, FirstIsLow
  <2>2. ~(req(k).dual /\ req(k).samedw /\ ~req(k).write)
    BY <2>1 DEF same_dword_load
  <2>3. Holds(obuf', req(k), k, k, FALSE)
    BY <1>6
  <2>4. k \in Entries /\ in_cmd(k) /\ buf'[k].state = "CMD" /\ buf'[k].req = req(k)
    BY <1>5, <1>6
  <2> HIDE DEF k
  <2> QED
    BY <1>3, <2>2, <2>3, <2>4
<1>7. CASE /\ ~ibuf_buf_byp(up) /\ CmdPtr0Dec # {} /\ CmdPtr1Dec # {} /\ obuf_merge_en
           /\ CmdPtr0 \in Entries /\ IsRequest(req(CmdPtr0)) /\ CmdPtr1 \in Entries
           /\ Holds(obuf', req(CmdPtr0), CmdPtr0, CmdPtr1, TRUE)
  <2>1. same_dword_load(k) /\ ~req(k).dualhi
    BY <1>7 DEF obuf_merge_en
  <2>2. req(k).dual /\ req(k).samedw /\ ~req(k).write
    BY <2>1 DEF same_dword_load
  <2>3. CmdPtr1 = req(k).dualtag
    BY <1>7, <2>1, FirstIsLow
  <2>4. Holds(obuf', req(k), k, req(k).dualtag, TRUE)
    BY <1>7, <2>3
  <2>5. k \in Entries /\ in_cmd(k) /\ buf'[k].state = "CMD" /\ buf'[k].req = req(k)
    BY <1>5, <1>7
  <2> HIDE DEF k
  <2> QED
    BY <1>3, <2>1, <2>2, <2>4, <2>5
<1> QED
  BY <1>1, <1>4, <1>6, <1>7, ObufTakes

LEMMA SentStep ==
  ASSUME Base, Ages, Halves, Together, OutputBuffer, Sent, OnBus, OutputBuffer',
         NEW clk_en, NEW up, NEW kill, NEW freeze, NEW ready, NEW reads, NEW writes, NEW error,
         BufferEdges(clk_en, up, kill, freeze, ready, reads, writes, error)
  PROVE  Sent'
<1>1. /\ clk_en \in BOOLEAN /\ BufEdge(clk_en, up, kill, freeze) /\ ObufEdge(clk_en, up, kill, ready)
      /\ BufShape
  BY DEF BufferEdges, Base, Shapes
<1>2. CASE clk_en /\ obuf_wr_en(up, kill, ready)
  <2>1. BufferEdges(TRUE, up, kill, freeze, ready, reads, writes, error)
    BY <1>1, <1>2
  <2> QED
    BY <1>2, <2>1, SentTaken
<1>3. CASE ~(clk_en /\ obuf_wr_en(up, kill, ready))
  <2>1. obuf_wr_enQ' => obuf'.valid
    BY <1>1, <1>3, ObufKeeps DEF Sent
  <2> SUFFICES ASSUME obuf'.valid, NEW t, t = obuf'.tag0
               PROVE  /\ buf'[t].state = IF obuf_wr_enQ' THEN "CMD" ELSE "RESP"
                      /\ req(t)'.write = obuf'.write /\ dword(req(t)'.word) = obuf'.dword
                      /\ req(t)'.sideeffect = obuf'.sideeffect
                      /\ (obuf'.merge = same_dword_load(t)')
                      /\ obuf'.tag1 = IF obuf'.merge THEN req(t)'.dualtag ELSE t
                      /\ same_dword_load(t)' => ~req(t)'.dualhi
                      /\ ~OnTheWay(t)'
    BY <2>1 DEF Sent
  <2>2. /\ obuf.valid /\ \A f \in OutFields \ {"cmd_done", "data_done"} : obuf'[f] = obuf[f]
        /\ ~(clk_en /\ bus_cmd_sent(ready))
    <3>1. obuf.valid /\ \A f \in OutFields \ {"cmd_done", "data_done"} : obuf'[f] = obuf[f]
      BY <1>1, <1>3, ObufKeeps
    <3>2. clk_en /\ bus_cmd_sent(ready) => obuf'.valid = FALSE
      BY <1>1, <1>3, ObufKeeps
    <3> QED
      BY <3>1, <3>2
  <2>3. /\ t = obuf.tag0 /\ obuf'.tag1 = obuf.tag1 /\ obuf'.write = obuf.write /\ obuf'.dword = obuf.dword
        /\ obuf'.merge = obuf.merge /\ obuf'.sideeffect = obuf.sideeffect
    BY <2>2 DEF OutFields
  <2>4. /\ t \in Entries /\ buf[t].state = IF obuf_wr_enQ THEN "CMD" ELSE "RESP"
        /\ req(t).write = obuf.write /\ dword(req(t).word) = obuf.dword
        /\ req(t).sideeffect = obuf.sideeffect
        /\ obuf.merge = same_dword_load(t)
        /\ obuf.tag1 = IF obuf.merge THEN req(t).dualtag ELSE t
        /\ same_dword_load(t) => ~req(t).dualhi
        /\ ~OnTheWay(t)
    BY <2>2, <2>3 DEF Sent, OutputBuffer
  <2>5. /\ buf'[t].state = IF obuf_wr_enQ' THEN "CMD" ELSE "RESP"
        /\ req(t)' = req(t)
    <3>1. CASE clk_en
      <4>1. BufEdge(TRUE, up, kill, freeze) /\ ~obuf_wr_enQ'
        BY <1>1, <1>3, <3>1, ObufKeeps
      <4>2. ASSUME NEW w, w = obuf.write PROVE Awaits(t, w)' /\ req(t)' = req(t)
        BY <2>2, <2>3, <4>1, <4>2, SentAwaits
      <4> QED
        BY <4>1, <4>2 DEF Awaits
    <3>2. CASE ~clk_en
      <4>1. obuf_wr_enQ' = obuf_wr_enQ
        BY <1>1, <3>2 DEF ObufEdge
      <4>2. buf'[t].state = buf[t].state /\ buf'[t].req = buf[t].req
        <5>1. CASE buf[t].state = "CMD"
          BY <1>1, <2>4, <3>2, <5>1, EntryStep
        <5>2. CASE buf[t].state = "RESP"
          <6>1. buf'[t] = buf[t]
            BY <1>1, <2>4, <3>2, <5>2, EntryStep
          <6> QED
            BY <6>1
        <5> QED
          BY <2>4, <5>1, <5>2
      <4> QED
        BY <2>4, <4>1, <4>2 DEF req
    <3> QED
      BY <1>1, <3>1, <3>2
  <2>6. same_dword_load(t)' = same_dword_load(t)
    BY <2>5 DEF same_dword_load
  <2>7. ~OnTheWay(t)'
    <3>1. bus' \subseteq bus
      <4>1. CASE clk_en
        <5>1. Accepted(ready) = {}
          BY <2>2, <4>1 DEF Accepted
        <5>2. bus' = (bus \ (reads \cup writes)) \cup Accepted(ready)
          BY <4>1 DEF BufferEdges, BusEdge
        <5> QED
          BY <5>1, <5>2
      <4>2. CASE ~clk_en
        BY <4>2, BusMoves
      <4> QED
        BY <1>1, <4>1, <4>2
    <3>2. \A u \in bus' : u.tag # t
      BY <2>4, <3>1 DEF OnTheWay
    <3>3. (bus_rsp_read'.valid => bus_rsp_read'.tag # t) /\ (bus_rsp_write'.valid => bus_rsp_write'.tag # t)
      <4>1. CASE clk_en
        <5>1. \A u \in bus : u.tag # t
          BY <2>4 DEF OnTheWay
        <5>2. ASSUME bus_rsp_read'.valid PROVE bus_rsp_read'.tag # t
          <6>1. PICK u \in bus : u \in reads /\ ~u.write /\ bus_rsp_read'.tag = u.tag
            BY <4>1, <5>2, BusMoves
          <6> QED
            BY <5>1, <6>1
        <5>3. ASSUME bus_rsp_write'.valid PROVE bus_rsp_write'.tag # t
          <6>1. PICK u \in bus : u \in writes /\ u.write /\ bus_rsp_write'.tag = u.tag
            BY <4>1, <5>3, BusMoves
          <6> QED
            BY <5>1, <6>1
        <5> QED
          BY <5>2, <5>3
      <4>2. CASE ~clk_en
        <5>1. bus_rsp_read' = bus_rsp_read /\ bus_rsp_write' = bus_rsp_write
          BY <4>2, BusMoves
        <5> QED
          BY <2>4, <5>1 DEF OnTheWay
      <4> QED
        BY <1>1, <4>1, <4>2
    <3> QED
      BY <3>2, <3>3 DEF OnTheWay
  <2> QED
    BY <2>3, <2>4, <2>5, <2>6, <2>7
<1> QED
  BY <1>1, <1>2, <1>3

LEMMA OnBusStep ==
  ASSUME Base, OutputBuffer, Sent, OnBus,
         NEW clk_en, NEW up, NEW kill, NEW freeze, NEW ready, NEW reads, NEW writes, NEW error,
         BufferEdges(clk_en, up, kill, freeze, ready, reads, writes, error)
  PROVE  OnBus'
<1>1. clk_en \in BOOLEAN /\ BufEdge(clk_en, up, kill, freeze)
  BY DEF BufferEdges
<1>2. ASSUME NEW t \in bus
      PROVE  /\ t.write \in BOOLEAN /\ Awaits(t.tag, t.write)' /\ dword(req(t.tag)'.word) = t.dword
  <2>1. /\ t.write \in BOOLEAN /\ Awaits(t.tag, t.write) /\ dword(req(t.tag).word) = t.dword
        /\ bus_rsp_read.valid => bus_rsp_read.tag # t.tag
        /\ bus_rsp_write.valid => bus_rsp_write.tag # t.tag
    BY DEF OnBus
  <2>2. req(t.tag)' = req(t.tag) /\ Awaits(t.tag, t.write)'
    BY <1>1, <2>1, WaitsOn
  <2> QED
    BY <2>1, <2>2
<1>3. CASE ~clk_en
  <2>1. bus' = bus /\ bus_rsp_read' = bus_rsp_read /\ bus_rsp_write' = bus_rsp_write
    BY <1>3, BusMoves
  <2>2. \A t \in bus' : /\ t.write \in BOOLEAN /\ Awaits(t.tag, t.write)'
                        /\ dword(req(t.tag)'.word) = t.dword
    BY <1>2, <2>1
  <2>3. \A t, u \in bus' : t.tag = u.tag => t = u
    BY <2>1 DEF OnBus
  <2>4. ASSUME bus_rsp_read'.valid, NEW i, i = bus_rsp_read'.tag
        PROVE  Awaits(i, FALSE)' /\ \A t \in bus' : t.tag # i
    <3>1. Awaits(i, FALSE) /\ \A t \in bus' : t.tag # i
      BY <2>1, <2>4 DEF OnBus
    <3> QED
      BY <1>1, <1>3, <3>1, WaitsOn
  <2>5. ASSUME bus_rsp_write'.valid, NEW i, i = bus_rsp_write'.tag
        PROVE  Awaits(i, TRUE)' /\ \A t \in bus' : t.tag # i
    <3>1. Awaits(i, TRUE) /\ \A t \in bus' : t.tag # i
      BY <2>1, <2>5 DEF OnBus
    <3> QED
      BY <1>1, <1>3, <3>1, WaitsOn
  <2> QED
    BY <2>2, <2>3, <2>4, <2>5 DEF OnBus
<1>4. CASE clk_en
  <2>1. bus' = (bus \ (reads \cup writes)) \cup Accepted(ready)
    BY <1>4 DEF BufferEdges, BusEdge
  <2>2. BufEdge(TRUE, up, kill, freeze)
    BY <1>1, <1>4
  <2>3. ASSUME NEW t \in Accepted(ready)
        PROVE  /\ t.write \in BOOLEAN /\ Awaits(t.tag, t.write)' /\ dword(req(t.tag)'.word) = t.dword
               /\ \A u \in bus : u.tag # t.tag
               /\ \A u \in Accepted(ready) : u = t
    <3>1. /\ obuf.valid /\ t.tag = obuf.tag0 /\ t.write = obuf.write /\ t.dword = obuf.dword
          /\ \A u \in Accepted(ready) : u = t
      BY <2>3, AcceptedIsObuf
    <3>2. dword(req(t.tag).word) = t.dword /\ ~OnTheWay(t.tag) /\ t.write \in BOOLEAN
      BY <3>1 DEF Sent, OutputBuffer
    <3>3. Awaits(t.tag, t.write)' /\ req(t.tag)' = req(t.tag)
      BY <2>2, <3>1, SentAwaits
    <3> QED
      BY <3>1, <3>2, <3>3 DEF OnTheWay
  <2>4. \A t \in bus' : /\ t.write \in BOOLEAN /\ Awaits(t.tag, t.write)'
                        /\ dword(req(t.tag)'.word) = t.dword
    BY <1>2, <2>1, <2>3
  <2>5. \A t, u \in bus : t.tag = u.tag => t = u
    BY DEF OnBus
  <2>6. \A t, u \in bus' : t.tag = u.tag => t = u
    BY <2>1, <2>3, <2>5
  <2>7. ASSUME NEW t \in bus, t \in reads \cup writes
        PROVE  \A u \in bus' : u.tag # t.tag
    BY <2>1, <2>3, <2>5, <2>7
  <2>8. ASSUME bus_rsp_read'.valid, NEW i, i = bus_rsp_read'.tag
        PROVE  Awaits(i, FALSE)' /\ \A t \in bus' : t.tag # i
    <3>1. PICK t \in bus : t \in reads /\ ~t.write /\ i = t.tag
      BY <1>4, <2>8, BusMoves
    <3>2. t.write = FALSE
      BY <1>2, <3>1
    <3> QED
      BY <1>2, <2>7, <3>1, <3>2
  <2>9. ASSUME bus_rsp_write'.valid, NEW i, i = bus_rsp_write'.tag
        PROVE  Awaits(i, TRUE)' /\ \A t \in bus' : t.tag # i
    <3>1. PICK t \in bus : t \in writes /\ t.write /\ i = t.tag
      BY <1>4, <2>9, BusMoves
    <3>2. t.write = TRUE
      BY <1>2, <3>1
    <3> QED
      BY <1>2, <2>7, <3>1, <3>2
  <2> QED
    BY <2>4, <2>6, <2>8, <2>9 DEF OnBus
<1> QED
  BY <1>1, <1>3, <1>4

-----------------------------------------------------------------------------
(* The invariant of the answers is inductive.                                *)

LEMMA AnswersInit == Init => AnswersInv
<1> SUFFICES ASSUME Init PROVE AnswersInv
  OBVIOUS
<1>1. BufferInv
  BY BufferInit
<1>2. /\ buf = [i \in Entries |-> NoEntry] /\ ibuf = Nothing /\ obuf = Nothing /\ obuf_wr_enQ = FALSE
      /\ bus = {} /\ bus_rsp_read = Nothing /\ bus_rsp_write = Nothing
  BY DEF Init
<1>3. /\ \A i \in Entries : ~busy(i)
      /\ ~ibuf.valid /\ ~obuf.valid /\ ~bus_rsp_read.valid /\ ~bus_rsp_write.valid
  BY <1>2 DEF busy, NoEntry, Nothing
<1>4. Halves /\ Together
  BY <1>3 DEF Halves, Together, low_half
<1>5. Sent /\ OnBus
  BY <1>2, <1>3 DEF Sent, OnBus
<1> QED
  BY <1>1, <1>4, <1>5 DEF AnswersInv

LEMMA AnswersStep == AnswersInv /\ [Next]_vars => AnswersInv'
<1> SUFFICES ASSUME AnswersInv, [Next]_vars PROVE AnswersInv'
  OBVIOUS
<1>1. /\ BufferInv /\ Base /\ Ages /\ OutputBuffer /\ Halves /\ Together /\ Sent /\ OnBus
  BY DEF AnswersInv, BufferInv
<1>2. BufferInv'
  BY <1>1, BufferStep
<1>3. Base' /\ OwnersInv' /\ OutputBuffer'
  BY <1>2 DEF BufferInv, Base
<1>4. CASE Next
  <2>1. PICK clk_en, packet, lower, kill, branch, hold, ready, reads, writes, error :
          ClockEdge(clk_en, packet, lower, kill, branch, hold, ready, reads, writes, error)
    BY <1>4, NextIsEdge
  <2> DEFINE freeze == lsu_freeze_dc3(lower)
             up == lower \/ flush_e3 # "none"
  <2>2. BufferEdges(clk_en, up, kill, freeze, ready, reads, writes, error)
    BY <2>1 DEF ClockEdge, Edge, BufferEdges
  <2> HIDE DEF freeze, up
  <2>3. Halves'
    BY <1>1, <1>3, <2>2, HalvesStep
  <2>4. Together'
    BY <1>1, <1>3, <2>2, <2>3, TogetherStep
  <2>5. Sent'
    BY <1>1, <1>3, <2>2, SentStep
  <2>6. OnBus'
    BY <1>1, <2>2, OnBusStep
  <2> QED
    BY <1>2, <2>3, <2>4, <2>5, <2>6 DEF AnswersInv
<1>5. CASE UNCHANGED vars
  <2>1. Halves'
    <3>1. /\ buf' = buf /\ ibuf' = ibuf
          /\ \A i : /\ busy(i)' <=> busy(i)
                    /\ pending(i)' <=> pending(i)
                    /\ buf_cmd_state_bus_en(i)' <=> buf_cmd_state_bus_en(i)
          /\ \A i : req(i)' = req(i) /\ age(i)' = age(i)
      BY <1>5 DEF busy, pending, age, buf_cmd_state_bus_en, req, vars
    <3>2. ASSUME NEW i \in Entries, busy(i), half(req(i)), NEW d, d = req(i).dualtag
          PROVE  /\ d # i
                 /\ \/ busy(d)' /\ Twin(req(i), i, req(d))'
                    \/ /\ ~busy(d)' /\ ~req(i)'.dualhi /\ ibuf'.valid /\ ibuf'.tag = d
                       /\ Twin(req(i), i, ibuf.req)'
      BY <1>1, <3>1, <3>2 DEF Halves, Twin, half
    <3>3. ASSUME ibuf.valid, half(ibuf.req), NEW d, d = ibuf.req.dualtag
          PROVE  /\ ibuf'.req.dualhi /\ pending(d)' /\ age(d)' # {}
                 /\ Twin(ibuf.req, ibuf.tag, req(d))'
                 /\ \A j \in Entries \ {d} : pending(j)' /\ ~buf_cmd_state_bus_en(j)' => j \in age(d)'
      BY <1>1, <3>1, <3>3 DEF Halves, Twin, half
    <3> QED
      BY <3>1, <3>2, <3>3 DEF Halves, half
  <2>2. Together'
    BY <1>1, <1>5 DEF Together, low_half, same_dword_load, busy, pending, age, buf_cmd_state_bus_en, req, vars
  <2>3. Sent'
    BY <1>1, <1>5 DEF Sent, OnTheWay, same_dword_load, req, vars
  <2>4. OnBus'
    BY <1>1, <1>5 DEF OnBus, Awaits, same_dword_load, req, vars
  <2> QED
    BY <1>2, <2>1, <2>2, <2>3, <2>4 DEF AnswersInv
<1> QED
  BY <1>4, <1>5

LEMMA AnswersInvariant == Spec => []AnswersInv
<1>1. Init => AnswersInv
  BY AnswersInit
<1>2. AnswersInv /\ [Next]_vars => AnswersInv'
  BY AnswersStep
<1> QED
  BY <1>1, <1>2, PTL DEF Spec

(* Every transaction on the bus, and every answer on its way back, is that of one
   entry in RESP, of its kind and for its bus word, and no entry has two: an answer
   is never taken by another entry, nor missed, whatever the order they come in. *)
THEOREM AnswersFindTheirOwners == Spec => []AnswersHaveOwners
<1>1. AnswersInv => AnswersHaveOwners
  BY DEF AnswersInv, OnBus, Awaits, AnswersHaveOwners
<1> QED
  BY <1>1, AnswersInvariant, PTL

-----------------------------------------------------------------------------
(* The order of devices.  What is in the buffers is older than what is in the pipe,
   and what waits is older than what came after it; of two halves none is first, but
   a device has no halves.                                                     *)

InPipe == Ids1 \cup Ids2 \cup Ids3 \cup Ids4 \cup Ids5
Before(r, s) == r.id <= s.id /\ (r.sideeffect /\ s.sideeffect => r.id < s.id)
Devices(i, j) == busy(i) /\ busy(j) /\ req(i).sideeffect /\ req(j).sideeffect

Buffered ==
  /\ \A i \in Entries : busy(i) => req(i).id \in 1..issued /\ \A n \in InPipe : req(i).id < n
  /\ ibuf.valid => /\ ibuf.req.id \in 1..issued /\ \A n \in InPipe : ibuf.req.id < n
                   /\ \A i \in Entries : busy(i) => Before(req(i), ibuf.req)
  /\ \A j \in Entries : \A i \in buf_age[j] : Before(req(i), req(j))

InOrder ==
  \A i, j \in Entries : Devices(i, j) =>
    /\ buf[i].state = "RESP" /\ pending(j) => req(i).id < req(j).id
    /\ buf_cmd_state_bus_en(i) /\ pending(j) /\ ~buf_cmd_state_bus_en(j) => req(i).id < req(j).id
    /\ PostedDisable /\ buf[i].state = "RESP" =>
         ~buf_cmd_state_bus_en(j) /\ (buf[j].state = "RESP" => i = j)

OrderInv == AnswersInv /\ Buffered /\ InOrder

LEMMA Followers ==
  ASSUME ProgramOrder, Requests,
         NEW packet, NEW lower, NEW up, NEW flush_dc3, NEW kill, NEW hold, NEW freeze,
         packet \in Issuable(lower, freeze), packet.valid => ~freeze,
         PipeEdge(packet, lower, up, flush_dc3, kill, hold, freeze),
         History(flush_dc3, freeze, kill, packet)
  PROVE  /\ issued \in Nat /\ issued' \in Nat /\ issued <= issued'
         /\ \A n \in InPipe' : n \in Nat /\ (n \in InPipe \/ n > issued) /\ \A m \in Ids5 : m < n
<1>1. /\ packet.valid \in BOOLEAN
      /\ packet.valid => packet.id = issued + 1 /\ ~(issued >= MaxOps)
  BY IssuedIds
<1>2. issued' = IF packet.valid THEN issued + 1 ELSE issued
  BY DEF History
<1>3. issued \in Nat /\ issued' \in Nat /\ issued <= issued'
  BY <1>1, <1>2, BusBufferAssumption DEF ProgramOrder
<1>4. \A n \in Ids(packet, packet.valid) : n = issued + 1
  BY <1>1 DEF Ids
<1>5. /\ Ids5' \subseteq Ids4 /\ Ids4' \subseteq Ids3 /\ Ids3' \subseteq Ids2
      /\ freeze => Ids1' = Ids1 /\ Ids2' = Ids2 /\ Ids3' = {}
      /\ ~freeze => Ids1' \subseteq Ids(packet, packet.valid) /\ Ids2' \subseteq Ids1
  BY PipeMoves
<1>6. InPipe' \subseteq (Ids1 \cup Ids2 \cup Ids3 \cup Ids4) \cup Ids(packet, packet.valid)
  <2>1. CASE freeze
    BY <1>5, <2>1 DEF InPipe
  <2>2. CASE ~freeze
    BY <1>5, <2>2 DEF InPipe
  <2> QED
    BY <2>1, <2>2
<1>7. InPipe \subseteq 1..issued /\ Ids5 \subseteq 1..issued
  BY DEF ProgramOrder, InPipe
<1>8. \A m \in Ids5, n \in Ids1 \cup Ids2 \cup Ids3 \cup Ids4 : m < n
  BY DEF ProgramOrder
<1>9. ASSUME NEW n \in InPipe'
      PROVE  n \in Nat /\ (n \in InPipe \/ n > issued) /\ \A m \in Ids5 : m < n
  <2>1. CASE n \in Ids1 \cup Ids2 \cup Ids3 \cup Ids4
    <3>1. n \in InPipe
      BY <2>1 DEF InPipe
    <3>2. n \in Nat
      BY <1>3, <1>7, <3>1
    <3> QED
      BY <1>8, <2>1, <3>1, <3>2
  <2>2. CASE n \in Ids(packet, packet.valid)
    <3>1. n = issued + 1
      BY <1>4, <2>2
    <3> QED
      BY <1>3, <1>7, <3>1
  <2> QED
    BY <1>6, <2>1, <2>2
<1> QED
  BY <1>3, <1>9

(* An arrival has the number of what was in the input buffer or in dc5. *)
LEMMA ArrivalId ==
  ASSUME Base, NEW clk_en \in BOOLEAN, NEW up, NEW kill, NEW freeze, BufEdge(clk_en, up, kill, freeze),
         NEW i \in Entries, New(i, up, kill, freeze) # {}
  PROVE  /\ ~busy(i)
         /\ \/ /\ ibuf.valid /\ ibuf_drain_vld(up, kill, freeze) /\ i = ibuf.tag
               /\ req(i)'.id = ibuf.req.id /\ req(i)'.sideeffect = ibuf.req.sideeffect
            \/ /\ dc5.busreq /\ accepted(kill, freeze) /\ i \notin Tagged
               /\ ibuf_byp(up) \/ ldst_dual(dc5)
               /\ req(i)'.id = dc5.id /\ req(i)'.sideeffect = dc5.sideeffect
<1>1. OwnersInv
  BY DEF Base
<1>2. ~busy(i)
  BY Arrives DEF busy
<1>3. CASE i = ibuf.tag /\ ibuf.valid /\ ibuf_drain_vld(up, kill, freeze) /\ Same(req(i)', ibuf.req)
  BY <1>2, <1>3 DEF Same
<1>4. CASE i = dc5.ptr1 /\ hi_direct(up, kill, freeze) /\ req(i)' = HiHalf(up)
  <2>1. dc5.busreq /\ ldst_dual(dc5) /\ accepted(kill, freeze)
    BY <1>4 DEF hi_direct, accepted
  <2>2. i \notin Tagged
    BY <1>1, <1>4, <2>1, Dc5Ptrs
  <2>3. HiHalf(up).id = dc5.id /\ HiHalf(up).sideeffect = dc5.sideeffect
    BY DEF HiHalf, Half
  <2> QED
    BY <1>2, <1>4, <2>1, <2>2, <2>3
<1>5. CASE i = dc5.ptr0 /\ lo_direct(up, kill, freeze) /\ req(i)' = LoHalf(up)
  <2>1. dc5.busreq /\ (ibuf_byp(up) \/ ldst_dual(dc5)) /\ accepted(kill, freeze)
    BY <1>5 DEF lo_direct, accepted
  <2>2. i \notin Tagged
    BY <1>1, <1>5, <2>1, Dc5Ptrs
  <2>3. LoHalf(up).id = dc5.id /\ LoHalf(up).sideeffect = dc5.sideeffect
    BY DEF LoHalf, Half
  <2> QED
    BY <1>2, <1>5, <2>1, <2>2, <2>3
<1> QED
  BY <1>3, <1>4, <1>5, Arrives

(* What is in dc5 comes after what is in the buffers; a device has no halves. *)
LEMMA Dc5Last ==
  ASSUME Base, Buffered, dc5.busreq
  PROVE  /\ dc5.id \in 1..issued /\ dc5.id \in Ids5 /\ issued \in Nat
         /\ \A i \in Entries : busy(i) => req(i).id < dc5.id
         /\ ibuf.valid => ibuf.req.id < dc5.id
         /\ dc5.sideeffect \in BOOLEAN /\ (ldst_dual(dc5) => dc5.sideeffect = FALSE)
<1>1. dc5.id \in Ids5 /\ Ids5 \subseteq InPipe /\ Ids5 \subseteq 1..issued /\ issued \in Nat
  BY BusBufferAssumption DEF Ids5, Ids, InPipe, Base, ProgramOrder
<1>2. IsRequest(LoHalf(FALSE)) /\ LoHalf(FALSE).sideeffect = dc5.sideeffect /\ LoHalf(FALSE).dual = ldst_dual(dc5)
  BY HalvesAreRequests DEF LoHalf, Half
<1>3. dc5.sideeffect \in BOOLEAN /\ (ldst_dual(dc5) => dc5.sideeffect = FALSE)
  BY <1>2 DEF IsRequest
<1> QED
  BY <1>1, <1>3 DEF Buffered

(* It comes after everything that is there. *)
LEMMA ArrivesAfter ==
  ASSUME Base, Buffered, NEW clk_en \in BOOLEAN, NEW up, NEW kill, NEW freeze,
         BufEdge(clk_en, up, kill, freeze), NEW i \in Entries, New(i, up, kill, freeze) # {}
  PROVE  /\ req(i)'.id \in 1..issued
         /\ \A n \in Nat : (n \in InPipe \/ n > issued) /\ (\A m \in Ids5 : m < n) => req(i)'.id < n
         /\ \A j \in Entries : busy(j) => Before(req(j), req(i)')
<1>1. CASE /\ ibuf.valid /\ req(i)'.id = ibuf.req.id /\ req(i)'.sideeffect = ibuf.req.sideeffect
  <2>1. issued \in Nat
    BY BusBufferAssumption DEF Base, ProgramOrder
  <2>2. ibuf.req.id \in 1..issued /\ \A n \in InPipe : ibuf.req.id < n
    BY <1>1 DEF Buffered
  <2>3. \A n \in Nat : n \in InPipe \/ n > issued => ibuf.req.id < n
    BY <2>1, <2>2
  <2>4. \A j \in Entries : busy(j) => Before(req(j), ibuf.req)
    BY <1>1 DEF Buffered
  <2>5. \A j \in Entries : busy(j) => Before(req(j), req(i)')
    BY <1>1, <2>4 DEF Before
  <2> QED
    BY <1>1, <2>2, <2>3, <2>5
<1>2. CASE /\ dc5.busreq /\ req(i)'.id = dc5.id /\ req(i)'.sideeffect = dc5.sideeffect
  <2>1. ASSUME NEW j \in Entries, busy(j) PROVE Before(req(j), req(i)')
    <3>1. req(j).id < dc5.id
      BY <1>2, <2>1, Dc5Last
    <3>2. req(j).id \in 1..issued /\ dc5.id \in 1..issued /\ issued \in Nat
      BY <1>2, <2>1, Dc5Last DEF Buffered
    <3>3. req(j).id < req(i)'.id /\ req(j).id <= req(i)'.id
      BY <1>2, <3>1, <3>2
    <3> QED
      BY <3>3 DEF Before
  <2>2. dc5.id \in 1..issued /\ dc5.id \in Ids5
    BY <1>2, Dc5Last
  <2> QED
    BY <1>2, <2>1, <2>2
<1> QED
  BY <1>1, <1>2, ArrivalId

LEMMA KeepsId ==
  ASSUME BufShape, NEW clk_en \in BOOLEAN, NEW up, NEW kill, NEW freeze, BufEdge(clk_en, up, kill, freeze),
         NEW i \in Entries, busy(i), busy(i)'
  PROVE  req(i)'.id = req(i).id /\ req(i)'.sideeffect = req(i).sideeffect
  BY EntryKeeps DEF Same

(* An entry that is taken after the edge was, or has just arrived. *)
LEMMA WasOrArrives ==
  ASSUME BufShape, NEW clk_en \in BOOLEAN, NEW up, NEW kill, NEW freeze, BufEdge(clk_en, up, kill, freeze),
         NEW i \in Entries, busy(i)'
  PROVE  busy(i) \/ New(i, up, kill, freeze) # {}
<1>1. NoEntry.state = "IDLE"
  BY DEF NoEntry
<1> QED
  BY <1>1, EntryStep DEF busy

LEMMA BufferedStep ==
  ASSUME Base, Ages, Buffered, Ages',
         NEW clk_en \in BOOLEAN, NEW packet, NEW lower, NEW up, NEW flush_dc3, NEW kill, NEW hold, NEW freeze,
         packet \in Issuable(lower, freeze), packet.valid => ~freeze,
         PipeEdge(packet, lower, up, flush_dc3, kill, hold, freeze),
         History(flush_dc3, freeze, kill, packet), BufEdge(clk_en, up, kill, freeze),
         IbufEdge(up, kill, freeze), AgeEdge(up, kill, freeze)
  PROVE  Buffered'
<1>1. /\ OwnersInv /\ BufShape /\ ProgramOrder /\ Requests
  BY DEF Base, Shapes, OwnersInv
<1>2. /\ issued \in Nat /\ issued' \in Nat /\ issued <= issued'
      /\ \A n \in InPipe' : n \in Nat /\ (n \in InPipe \/ n > issued) /\ \A m \in Ids5 : m < n
  BY <1>1, Followers
<1>3. 1..issued \subseteq 1..issued'
  BY <1>2
<1>4. ASSUME NEW i \in Entries, busy(i)'
      PROVE  req(i)'.id \in 1..issued' /\ \A n \in InPipe' : req(i)'.id < n
  <2>1. CASE busy(i)
    <3>1. req(i)'.id = req(i).id
      BY <1>1, <1>4, <2>1, KeepsId
    <3>2. req(i).id \in 1..issued /\ \A n \in InPipe : req(i).id < n
      BY <2>1 DEF Buffered
    <3> QED
      BY <1>2, <1>3, <3>1, <3>2
  <2>2. CASE New(i, up, kill, freeze) # {}
    <3>1. req(i)'.id \in 1..issued
          /\ \A n \in Nat : (n \in InPipe \/ n > issued) /\ (\A m \in Ids5 : m < n) => req(i)'.id < n
      BY <2>2, ArrivesAfter
    <3> QED
      BY <1>2, <1>3, <3>1
  <2> QED
    BY <1>1, <1>4, <2>1, <2>2, WasOrArrives
<1>5. ASSUME ibuf'.valid
      PROVE  /\ ibuf'.req.id \in 1..issued' /\ \A n \in InPipe' : ibuf'.req.id < n
             /\ \A i \in Entries : busy(i)' => Before(req(i)', ibuf'.req)
  <2>1. CASE ~ibuf_wr_en(up, kill, freeze)
    <3>1. ~ibuf_drain_vld(up, kill, freeze) /\ ibuf.valid /\ ibuf'.req = ibuf.req
      <4>1. CASE ibuf_drain_vld(up, kill, freeze)
        BY <1>5, <2>1, <4>1 DEF IbufEdge, Nothing
      <4>2. CASE ~ibuf_drain_vld(up, kill, freeze) /\ ibuf.valid /\ ibuf.timer < TIMER_MAX
        BY <2>1, <4>2 DEF IbufEdge
      <4>3. CASE ~ibuf_drain_vld(up, kill, freeze) /\ ~(ibuf.valid /\ ibuf.timer < TIMER_MAX)
        BY <1>5, <2>1, <4>3 DEF IbufEdge
      <4> QED
        BY <4>1, <4>2, <4>3
    <3>2. /\ ibuf.req.id \in 1..issued /\ \A n \in InPipe : ibuf.req.id < n
          /\ \A i \in Entries : busy(i) => Before(req(i), ibuf.req)
      BY <3>1 DEF Buffered
    <3>3. \A n \in InPipe' : ibuf.req.id < n
      BY <1>2, <3>2
    <3>4. ASSUME NEW i \in Entries, New(i, up, kill, freeze) # {} PROVE FALSE
      <4>1. accepted(kill, freeze) /\ (ibuf_byp(up) \/ ldst_dual(dc5))
        BY <3>1, <3>4, ArrivalId
      <4>2. ~ibuf_byp(up)
        BY <3>1 DEF ibuf_byp
      <4> QED
        BY <2>1, <4>1, <4>2 DEF ibuf_wr_en
    <3>5. ASSUME NEW i \in Entries, busy(i)' PROVE Before(req(i)', ibuf.req)
      <4>1. busy(i)
        BY <1>1, <3>4, <3>5, WasOrArrives
      <4>2. req(i)'.id = req(i).id /\ req(i)'.sideeffect = req(i).sideeffect
        BY <1>1, <3>5, <4>1, KeepsId
      <4> QED
        BY <3>2, <4>1, <4>2 DEF Before
    <3> QED
      BY <1>3, <3>1, <3>2, <3>3, <3>5
  <2>2. CASE ibuf_wr_en(up, kill, freeze)
    <3>1. dc5.busreq /\ ~ibuf_byp(up)
      BY <2>2 DEF ibuf_wr_en, accepted
    <3>2. ibuf'.req.id = dc5.id /\ ibuf'.req.sideeffect = dc5.sideeffect
      <4>1. LoHalf(up).id = dc5.id /\ LoHalf(up).sideeffect = dc5.sideeffect
        BY DEF LoHalf, Half
      <4>2. HiHalf(up).id = dc5.id /\ HiHalf(up).sideeffect = dc5.sideeffect
        BY DEF HiHalf, Half
      <4>3. CASE merges(kill)
        <5>1. Joined(LoHalf(up)).id = LoHalf(up).id /\ Joined(LoHalf(up)).sideeffect = LoHalf(up).sideeffect
          BY <4>3, JoinedIsRequest DEF Fields
        <5>2. ibuf'.req = Joined(LoHalf(up))
          BY <2>2, <4>3 DEF IbufEdge
        <5> QED
          BY <4>1, <5>1, <5>2
      <4>4. CASE ~merges(kill)
        <5>1. ibuf'.req = IF ldst_dual(dc5) THEN HiHalf(up) ELSE LoHalf(up)
          BY <2>2, <4>4 DEF IbufEdge
        <5> QED
          BY <4>1, <4>2, <5>1
      <4> QED
        BY <4>3, <4>4
    <3>3. /\ dc5.id \in 1..issued /\ dc5.id \in Ids5
          /\ \A i \in Entries : busy(i) => req(i).id < dc5.id
          /\ ibuf.valid => ibuf.req.id < dc5.id
          /\ ldst_dual(dc5) => dc5.sideeffect = FALSE
      BY <3>1, Dc5Last
    <3>4. ASSUME NEW i \in Entries, busy(i)' PROVE Before(req(i)', ibuf'.req)
      <4>1. req(i)'.id < dc5.id \/ (req(i)'.id = dc5.id /\ dc5.sideeffect = FALSE)
        <5>1. CASE busy(i)
          BY <1>1, <3>3, <3>4, <5>1, KeepsId
        <5>2. CASE New(i, up, kill, freeze) # {}
          BY <3>1, <3>3, <5>2, ArrivalId
        <5> QED
          BY <1>1, <3>4, <5>1, <5>2, WasOrArrives
      <4>2. req(i)'.id \in Nat /\ dc5.id \in Nat
        BY <1>2, <1>4, <3>3, <3>4
      <4> QED
        BY <3>2, <4>1, <4>2 DEF Before
    <3> QED
      BY <1>2, <1>3, <3>2, <3>3, <3>4
  <2> QED
    BY <2>1, <2>2
<1>6. ASSUME NEW j \in Entries, NEW i \in buf_age'[j]
      PROVE  Before(req(i)', req(j)')
  <2>1. i \in Entries /\ pending(i)' /\ pending(j)' /\ busy(i)' /\ busy(j)'
    <3>1. i \in Entries /\ pending(i)' /\ pending(j)'
      BY <1>6 DEF Ages
    <3> QED
      BY <3>1 DEF pending, busy
  <2>2. CASE i \in age(j)
    <3>1. i \in buf_age[j] /\ pending(i) /\ pending(j)
      BY <2>1, <2>2 DEF Ages, age
    <3>2. busy(i) /\ busy(j)
      BY <3>1 DEF pending, busy
    <3>3. /\ req(i)'.id = req(i).id /\ req(i)'.sideeffect = req(i).sideeffect
          /\ req(j)'.id = req(j).id /\ req(j)'.sideeffect = req(j).sideeffect
      BY <1>1, <2>1, <3>2, KeepsId
    <3> QED
      BY <3>1, <3>3 DEF Buffered, Before
  <2>3. CASE New(j, up, kill, freeze) # {} /\ i \in older(j, up, kill, freeze)
    <3>1. CASE i \in Taken
      <4>1. busy(i)
        BY <3>1 DEF Taken, busy
      <4>2. req(i)'.id = req(i).id /\ req(i)'.sideeffect = req(i).sideeffect
        BY <1>1, <2>1, <4>1, KeepsId
      <4>3. Before(req(i), req(j)')
        BY <2>1, <2>3, <4>1, ArrivesAfter
      <4> QED
        BY <4>2, <4>3 DEF Before
    <3>2. CASE /\ New(i, up, kill, freeze) # {}
               /\ i = ibuf.tag /\ ibuf_drain_vld(up, kill, freeze) /\ j = dc5.ptr0 /\ dc5.busreq
      <4>1. ibuf.valid /\ i \in Tagged /\ j \notin Tagged
        BY <1>1, <3>2, Dc5Ptrs DEF ibuf_drain_vld, Tagged
      <4>2. req(i)'.id = ibuf.req.id
        BY <2>1, <3>2, <4>1, ArrivalId
      <4>3. req(j)'.id = dc5.id
        BY <2>3, <4>1, ArrivalId DEF Tagged
      <4>4. ibuf.req.id < dc5.id
        BY <3>2, <4>1, Dc5Last
      <4>5. ibuf.req.id \in 1..issued /\ dc5.id \in 1..issued
        BY <3>2, <4>1, Dc5Last DEF Buffered
      <4>6. ibuf.req.id <= dc5.id /\ ~(dc5.id <= ibuf.req.id)
        BY <1>2, <4>4, <4>5
      <4> QED
        BY <4>2, <4>3, <4>4, <4>6 DEF Before
    <3>3. CASE /\ New(i, up, kill, freeze) # {}
               /\ i = dc5.ptr0 /\ hi_direct(up, kill, freeze) /\ j = dc5.ptr1
      <4>1. ~ibuf.valid /\ ldst_dual(dc5) /\ dc5.busreq
        BY <3>3 DEF hi_direct, ibuf_byp
      <4>2. /\ req(i)'.id = dc5.id /\ req(i)'.sideeffect = dc5.sideeffect
            /\ req(j)'.id = dc5.id /\ req(j)'.sideeffect = dc5.sideeffect
        BY <2>1, <2>3, <3>3, <4>1, ArrivalId
      <4>3. dc5.sideeffect = FALSE /\ dc5.id \in 1..issued
        BY <4>1, Dc5Last
      <4>4. dc5.id <= dc5.id
        BY <1>2, <4>3
      <4> QED
        BY <4>2, <4>3, <4>4 DEF Before
    <3> QED
      BY <1>1, <2>3, <3>1, <3>2, <3>3, OlderComes
  <2> QED
    BY <1>6, <2>2, <2>3 DEF AgeEdge
<1> QED
  BY <1>4, <1>5, <1>6 DEF Buffered

(* A command to a device in the output buffer is the one it holds. *)
LEMMA DeviceIsSent ==
  ASSUME Base, Halves, OutputBuffer, Sent, NEW i \in Entries, buf_cmd_state_bus_en(i), req(i).sideeffect
  PROVE  obuf.valid /\ obuf.sideeffect /\ i = obuf.tag0
<1>1. obuf.valid /\ obuf_wr_enQ /\ buf[i].state = "CMD"
  BY DEF buf_cmd_state_bus_en
<1>2. i = obuf.tag0
  <2> SUFFICES ASSUME i # obuf.tag0 PROVE FALSE
    OBVIOUS
  <2> DEFINE k == obuf.tag0
  <2>1. obuf.merge /\ i = obuf.tag1
    BY DEF buf_cmd_state_bus_en
  <2>2. k \in Entries /\ same_dword_load(k) /\ i = req(k).dualtag /\ buf[k].state = "CMD" /\ ~req(k).dualhi
    BY <1>1, <2>1 DEF Sent, OutputBuffer
  <2>3. low_half(k) /\ busy(i)
    BY <1>1, <2>2 DEF low_half, busy
  <2> HIDE DEF k
  <2>4. half(req(i))
    BY <2>2, <2>3, LowHalf
  <2>5. IsRequest(req(i))
    BY <2>3 DEF busy, Base, Shapes, BufShape
  <2> QED
    BY <2>4, <2>5 DEF half, IsRequest
<1> QED
  BY <1>1, <1>2 DEF Sent

LEMMA InOrderStep ==
  ASSUME Base, Ages, Halves, Together, OutputBuffer, Sent, Buffered, InOrder,
         NEW clk_en, NEW up, NEW kill, NEW freeze, NEW ready, NEW reads, NEW writes, NEW error,
         BufferEdges(clk_en, up, kill, freeze, ready, reads, writes, error)
  PROVE  InOrder'
<1>1. /\ clk_en \in BOOLEAN /\ BufEdge(clk_en, up, kill, freeze) /\ ObufEdge(clk_en, up, kill, ready)
      /\ BufShape
  BY DEF BufferEdges, Base, Shapes
<1> DEFINE En(j) == buf_cmd_state_bus_en(j)
<1> SUFFICES ASSUME NEW i \in Entries, NEW j \in Entries, Devices(i, j)'
             PROVE  /\ buf'[i].state = "RESP" /\ pending(j)' => req(i)'.id < req(j)'.id
                    /\ En(i)' /\ pending(j)' /\ ~En(j)' => req(i)'.id < req(j)'.id
                    /\ PostedDisable /\ buf'[i].state = "RESP" =>
                         ~En(j)' /\ (buf'[j].state = "RESP" => i = j)
  BY DEF InOrder
<1>2. busy(i)' /\ busy(j)' /\ req(i)'.sideeffect /\ req(j)'.sideeffect
  BY DEF Devices
<1>3. /\ busy(i) => req(i)'.id = req(i).id /\ req(i)'.sideeffect = req(i).sideeffect
      /\ busy(j) => req(j)'.id = req(j).id /\ req(j)'.sideeffect = req(j).sideeffect
  BY <1>1, <1>2, KeepsId
<1>4. busy(i) /\ busy(j) => Devices(i, j)
  BY <1>2, <1>3 DEF Devices
<1>5. busy(i) /\ New(j, up, kill, freeze) # {} => req(i)'.id < req(j)'.id
  BY <1>1, <1>2, <1>3, ArrivesAfter DEF Base, Before
<1>6. /\ pending(j)' => \/ New(j, up, kill, freeze) # {}
                        \/ pending(j) /\ busy(j) /\ (clk_en => ~En(j))
      /\ buf'[i].state = "RESP" => busy(i) /\ ((En(i) /\ clk_en) \/ buf[i].state = "RESP")
      /\ buf'[j].state = "RESP" => busy(j) /\ ((En(j) /\ clk_en) \/ buf[j].state = "RESP")
  BY <1>1, WaitingStep, Moves DEF busy, pending
<1>7. ASSUME buf'[i].state = "RESP", pending(j)' PROVE req(i)'.id < req(j)'.id
  <2>1. CASE pending(j) /\ busy(j) /\ (clk_en => ~En(j))
    <3>1. req(i).id < req(j).id
      BY <1>4, <1>6, <1>7, <2>1 DEF InOrder
    <3> QED
      BY <1>3, <1>6, <1>7, <2>1, <3>1
  <2> QED
    BY <1>5, <1>6, <1>7, <2>1
<1>8. ASSUME En(i)', pending(j)', ~En(j)' PROVE req(i)'.id < req(j)'.id
  <2>1. CASE ~clk_en
    <3>1. En(i) /\ ~En(j) /\ busy(i)
      BY <1>1, <1>8, <2>1, LeavesStep DEF busy, buf_cmd_state_bus_en
    <3>2. CASE pending(j) /\ busy(j)
      <4>1. req(i).id < req(j).id
        BY <1>4, <3>1, <3>2 DEF InOrder
      <4> QED
        BY <1>3, <3>1, <3>2, <4>1
    <3> QED
      BY <1>5, <1>6, <1>8, <3>1, <3>2
  <2>2. CASE clk_en /\ ibuf_buf_byp(up) /\ lsu_commit_dc5(kill) /\ i = dc5.ptr0
    <3>1. ~(pending(j) /\ ~En(j))
      BY <2>2, Bypass DEF pending, in_cmd
    <3>2. New(j, up, kill, freeze) # {}
      BY <1>6, <1>8, <2>2, <3>1
    <3>3. j = i
      BY <2>2, <3>2, BypassEntry
    <3> QED
      BY <1>8, <3>3
  <2>3. CASE clk_en /\ CmdPtr0Dec # {} /\ i = CmdPtr0
    <3>1. in_cmd(i) /\ age(i) = {}
      BY <2>3, Cmd0
    <3>2. busy(i) /\ pending(i) /\ ~En(i)
      BY <3>1 DEF in_cmd, busy, pending
    <3>3. CASE pending(j) /\ busy(j) /\ ~En(j)
      <4>1. i # j
        BY <1>8
      <4>2. j \notin buf_age[i]
        BY <3>1, <3>3 DEF age
      <4>3. i \in buf_age[j]
        BY <3>2, <3>3, <4>1, <4>2 DEF Ages
      <4>4. Before(req(i), req(j))
        BY <4>3 DEF Buffered
      <4> QED
        BY <1>2, <1>3, <3>2, <3>3, <4>4 DEF Before
    <3> QED
      BY <1>5, <1>6, <1>8, <2>3, <3>2, <3>3
  <2>4. CASE clk_en /\ CmdPtr0Dec # {} /\ obuf_merge_en /\ CmdPtr1Dec # {} /\ i = CmdPtr1
    <3> DEFINE k == CmdPtr0
    <3>1. same_dword_load(k) /\ k \in Entries
      BY <2>4, Cmd0 DEF obuf_merge_en
    <3>2. low_half(k) /\ i = req(k).dualtag
      BY <2>4, <3>1, FirstIsLow
    <3>3. busy(i)
      BY <2>4, Cmd1 DEF in_cmd, busy
    <3> HIDE DEF k
    <3>4. half(req(i))
      BY <3>1, <3>2, <3>3, LowHalf
    <3>5. IsRequest(req(i))
      BY <1>1, <3>3 DEF busy, BufShape
    <3> QED
      BY <1>2, <1>3, <3>3, <3>4, <3>5 DEF half, IsRequest
  <2> QED
    BY <1>1, <1>8, <2>1, <2>2, <2>3, <2>4, LeavesStep
<1>9. ASSUME PostedDisable, buf'[i].state = "RESP" PROVE ~En(j)'
  <2> SUFFICES ASSUME En(j)' PROVE FALSE
    OBVIOUS
  <2>1. busy(i) /\ req(i).sideeffect
    BY <1>2, <1>3, <1>6, <1>9
  <2>2. CASE ~clk_en
    <3>1. En(j) /\ buf[i].state = "RESP"
      BY <1>1, <1>6, <1>9, <2>2, LeavesStep
    <3>2. busy(j)
      BY <3>1 DEF busy, buf_cmd_state_bus_en
    <3> QED
      BY <1>4, <1>9, <2>1, <3>1, <3>2 DEF InOrder
  <2>3. CASE clk_en
    <3>1. obuf_wr_en(up, kill, ready)
      BY <1>1, <2>3, LeavesStep
    <3>2. ~bus_sideeffect_pend
      BY <3>1 DEF obuf_wr_en
    <3>3. ~(obuf.valid /\ obuf.sideeffect) /\ buf[i].state # "RESP"
      BY <1>9, <2>1, <3>2 DEF bus_sideeffect_pend
    <3>4. En(i)
      BY <1>6, <1>9, <3>3
    <3> QED
      BY <2>1, <3>3, <3>4, DeviceIsSent
  <2> QED
    BY <1>1, <2>2, <2>3
<1>10. ASSUME PostedDisable, buf'[i].state = "RESP", buf'[j].state = "RESP" PROVE i = j
  <2>1. Devices(i, j) /\ Devices(j, i) /\ req(i).sideeffect /\ req(j).sideeffect
    BY <1>2, <1>3, <1>6, <1>10 DEF Devices
  <2>2. CASE buf[i].state = "RESP" /\ buf[j].state = "RESP"
    BY <1>10, <2>1, <2>2 DEF InOrder
  <2>3. CASE buf[i].state = "RESP" /\ En(j)
    BY <1>10, <2>1, <2>3 DEF InOrder
  <2>4. CASE En(i) /\ buf[j].state = "RESP"
    BY <1>10, <2>1, <2>4 DEF InOrder
  <2>5. CASE En(i) /\ En(j)
    BY <2>1, <2>5, DeviceIsSent
  <2> QED
    BY <1>6, <1>10, <2>2, <2>3, <2>4, <2>5
<1> QED
  BY <1>7, <1>8, <1>9, <1>10

LEMMA OrderInit == Init => OrderInv
<1> SUFFICES ASSUME Init PROVE OrderInv
  OBVIOUS
<1>1. AnswersInv
  BY AnswersInit
<1>2. /\ buf = [i \in Entries |-> NoEntry] /\ buf_age = [i \in Entries |-> {}] /\ ibuf = Nothing
  BY DEF Init
<1>3. ~ibuf.valid /\ \A i \in Entries : ~busy(i) /\ buf_age[i] = {}
  BY <1>2 DEF busy, NoEntry, Nothing
<1> QED
  BY <1>1, <1>3 DEF OrderInv, Buffered, InOrder, Devices

LEMMA OrderInvStep == OrderInv /\ [Next]_vars => OrderInv'
<1> SUFFICES ASSUME OrderInv, [Next]_vars PROVE OrderInv'
  OBVIOUS
<1>1. /\ AnswersInv /\ Base /\ Ages /\ OutputBuffer /\ Halves /\ Together /\ Sent /\ Buffered /\ InOrder
  BY DEF OrderInv, AnswersInv, BufferInv
<1>2. AnswersInv'
  BY <1>1, AnswersStep
<1>3. Ages'
  BY <1>2 DEF AnswersInv, BufferInv
<1>4. CASE Next
  <2>1. PICK clk_en, packet, lower, kill, branch, hold, ready, reads, writes, error :
          ClockEdge(clk_en, packet, lower, kill, branch, hold, ready, reads, writes, error)
    BY <1>4, NextIsEdge
  <2> DEFINE freeze == lsu_freeze_dc3(lower)
             up == lower \/ flush_e3 # "none"
             flush_dc3 == lower \/ flush_e3 = "i0"
  <2>2. BufferEdges(clk_en, up, kill, freeze, ready, reads, writes, error)
    BY <2>1 DEF ClockEdge, Edge, BufferEdges
  <2>3. /\ PipeEdge(packet, lower, up, flush_dc3, kill, hold, freeze)
        /\ IbufEdge(up, kill, freeze) /\ BufEdge(clk_en, up, kill, freeze) /\ AgeEdge(up, kill, freeze)
        /\ History(flush_dc3, freeze, kill, packet)
        /\ packet \in Issuable(lower, freeze) /\ clk_en \in BOOLEAN
    BY <2>1 DEF ClockEdge, Edge
  <2> HIDE DEF freeze, up, flush_dc3
  <2>4. packet.valid => ~freeze
    BY <2>3, IssuedPackets
  <2>5. Buffered'
    BY <1>1, <1>3, <2>3, <2>4, BufferedStep
  <2>6. InOrder'
    BY <1>1, <2>2, InOrderStep
  <2> QED
    BY <1>2, <2>5, <2>6 DEF OrderInv
<1>5. CASE UNCHANGED vars
  <2>1. Buffered'
    BY <1>1, <1>5 DEF Buffered, Before, busy, InPipe, Ids1, Ids2, Ids3, Ids4, Ids5, Ids, req, vars
  <2>2. InOrder'
    BY <1>1, <1>5 DEF InOrder, Devices, busy, pending, buf_cmd_state_bus_en, req, vars
  <2> QED
    BY <1>2, <2>1, <2>2 DEF OrderInv
<1> QED
  BY <1>4, <1>5

(* Accesses with side effects are sent in program order, past everything that may
   overtake another: the input buffer, the ages and the free answers of the bus; and
   one at a time when they may not be posted.                                  *)
THEOREM DevicesAreInOrder == Spec => []DevicesInOrder
<1>1. ASSUME OrderInv PROVE DevicesInOrder
  <2> DEFINE sent == {i \in Entries : buf[i].state = "RESP" /\ req(i).sideeffect}
             waiting == {req(i).id : i \in {j \in Entries : pending(j) /\ req(j).sideeffect}}
                        \cup (IF ibuf.valid /\ ibuf.req.sideeffect THEN {ibuf.req.id} ELSE {})
  <2>1. Buffered /\ InOrder
    BY <1>1 DEF OrderInv
  <2>2. ASSUME NEW i \in sent, NEW n \in waiting PROVE req(i).id < n
    <3>1. i \in Entries /\ buf[i].state = "RESP" /\ busy(i) /\ req(i).sideeffect
      BY <2>2 DEF busy
    <3>2. CASE n \in {req(j).id : j \in {k \in Entries : pending(k) /\ req(k).sideeffect}}
      <4>1. PICK j \in Entries : pending(j) /\ req(j).sideeffect /\ n = req(j).id
        BY <3>2
      <4>2. Devices(i, j)
        BY <3>1, <4>1 DEF Devices, busy, pending
      <4> QED
        BY <2>1, <3>1, <4>1, <4>2 DEF InOrder
    <3>3. CASE ibuf.valid /\ ibuf.req.sideeffect /\ n = ibuf.req.id
      BY <2>1, <3>1, <3>3 DEF Buffered, Before
    <3> QED
      BY <2>2, <3>2, <3>3
  <2>3. ASSUME PostedDisable PROVE Cardinality(sent) <= 1
    <3>1. \A i, j \in sent : i = j
      <4> SUFFICES ASSUME NEW i \in sent, NEW j \in sent PROVE i = j
        OBVIOUS
      <4>1. Devices(i, j)
        BY DEF Devices, busy
      <4> QED
        BY <2>1, <2>3, <4>1 DEF InOrder
    <3>2. sent \subseteq Entries
      OBVIOUS
    <3> HIDE DEF sent
    <3> QED
      BY <3>1, <3>2, AtMostOneOf
  <2> QED
    BY <2>2, <2>3 DEF DevicesInOrder
<1>2. Init => OrderInv
  BY OrderInit
<1>3. OrderInv /\ [Next]_vars => OrderInv'
  BY OrderInvStep
<1> QED
  BY <1>1, <1>2, <1>3, PTL DEF Spec

-----------------------------------------------------------------------------
(* The tags of non-blocking loads.  Decode waits for those in the pipe and for the
   low half of those in the buffers.                                           *)

Low(r) == r.nb /\ (~r.dual \/ ~r.dualhi)
Held ==
  (IF dc4.nb THEN {dc4.ptr0} ELSE {}) \cup (IF dc5.nb THEN {dc5.ptr0} ELSE {})
  \cup {i \in Tagged : Low(ibuf.req)} \cup {i \in Entries : busy(i) /\ Low(req(i))}

(* The tag in dc5 is nobody else's, even if its request was flushed; then there is
   nothing behind it, and nothing holds the pipe.                               *)
TagTaken ==
  dc5.nb => /\ dc5.ptr0 \in Entries /\ ~busy(dc5.ptr0)
            /\ dc5.ptr0 \notin ptrs(dc4) /\ dc5.ptr0 \notin Tagged
            /\ ~dc5.busreq => ~dc5.valid /\ ~dc4.busreq /\ ~dc3.busreq
            /\ ~dc5.valid => ~ld_freeze_dc3

(* Two loads of one access are its halves. *)
Halved(r, s, j) == ~r.write /\ ~s.write /\ r.id = s.id => r.dual /\ r.dualtag = j
Alone ==
  /\ \A i, j \in Entries : busy(i) /\ busy(j) /\ i # j => Halved(req(i), req(j), j)
  /\ ibuf.valid =>
       \A j \in Entries : busy(j) => Halved(ibuf.req, req(j), j) /\ Halved(req(j), ibuf.req, ibuf.tag)

(* An entry leaves as soon as all of its access is done. *)
complete(i) ==
  buf[i].state = "DONE" /\ (req(i).write \/ ~req(i).dual \/ buf[req(i).dualtag].state = "DONE")
JustDone ==
  /\ \A i \in Entries : complete(i) => lsu_bus_clk_en_q
  /\ \A i, j \in Entries : complete(i) /\ complete(j) /\ ~req(i).write /\ ~req(j).write =>
       req(i).id = req(j).id

TagsInv == OrderInv /\ TagTaken /\ Alone /\ JustDone /\ outstanding = Held

LEMMA IbufNext ==
  ASSUME NEW up, NEW kill, NEW freeze, IbufEdge(up, kill, freeze), ibuf'.valid
  PROVE  \/ /\ ~ibuf_wr_en(up, kill, freeze) /\ ~ibuf_drain_vld(up, kill, freeze) /\ ibuf.valid
            /\ ibuf'.req = ibuf.req /\ ibuf'.tag = ibuf.tag
         \/ /\ ibuf_wr_en(up, kill, freeze) /\ merges(kill)
            /\ ibuf'.req = Joined(LoHalf(up)) /\ ibuf'.tag = ibuf.tag
         \/ /\ ibuf_wr_en(up, kill, freeze) /\ ~merges(kill) /\ ldst_dual(dc5)
            /\ ibuf'.req = HiHalf(up) /\ ibuf'.tag = dc5.ptr1
         \/ /\ ibuf_wr_en(up, kill, freeze) /\ ~merges(kill) /\ ~ldst_dual(dc5)
            /\ ibuf'.req = LoHalf(up) /\ ibuf'.tag = dc5.ptr0
<1>1. CASE ibuf_wr_en(up, kill, freeze)
  BY <1>1 DEF IbufEdge
<1>2. CASE ~ibuf_wr_en(up, kill, freeze)
  <2>1. CASE ibuf_drain_vld(up, kill, freeze)
    BY <1>2, <2>1 DEF IbufEdge, Nothing
  <2>2. CASE ~ibuf_drain_vld(up, kill, freeze) /\ ibuf.valid /\ ibuf.timer < TIMER_MAX
    BY <1>2, <2>2 DEF IbufEdge
  <2>3. CASE ~ibuf_drain_vld(up, kill, freeze) /\ ~(ibuf.valid /\ ibuf.timer < TIMER_MAX)
    BY <1>2, <2>3 DEF IbufEdge
  <2> QED
    BY <1>2, <2>1, <2>2, <2>3
<1> QED
  BY <1>1, <1>2

(* A tag moves down the pipe, whether its request is flushed or not. *)
LEMMA TagsMove ==
  ASSUME Base, NEW packet, NEW lower, NEW up, NEW flush_dc3, NEW kill, NEW hold, NEW freeze,
         PipeEdge(packet, lower, up, flush_dc3, kill, hold, freeze),
         kill => lower, lower => up /\ flush_dc3 /\ ~freeze
  PROVE  /\ dc4'.nb <=> lsu_nonblock_load_valid_dc3(flush_dc3, freeze)
         /\ dc4'.nb => dc4'.ptr0 = WrPtr0_dc3
         /\ dc5'.nb <=> dc4.nb
         /\ dc5'.nb => dc5'.ptr0 = dc4.ptr0 /\ dc4.busreq
         /\ dc5'.nb /\ ~dc5'.busreq => ~dc5'.valid /\ ~dc4'.busreq /\ ~dc3'.busreq
         /\ dc5'.nb /\ ~dc5'.valid => lower
<1>1. /\ NonBlocking /\ Stage(dc3) /\ Stage(dc4)
  BY DEF Base, Shapes, OwnersInv, Requests
<1>2. ~NoPacket.busreq /\ ~NoPacket.nb /\ ~NoPacket.valid
  BY DEF NoPacket
<1>3. /\ dc4'.nb <=> lsu_nonblock_load_valid_dc3(flush_dc3, freeze)
      /\ dc4'.nb => dc4'.ptr0 = WrPtr0_dc3
      /\ lower => ~dc4'.busreq
  <2>1. dc4' = InDc4(flush_dc3, lower, freeze)
    BY DEF PipeEdge
  <2>2. lsu_nonblock_load_valid_dc3(flush_dc3, freeze) \in BOOLEAN
    BY DEF lsu_nonblock_load_valid_dc3
  <2>3. lsu_nonblock_load_valid_dc3(flush_dc3, freeze) => dc3.busreq /\ ~lower
    BY DEF lsu_nonblock_load_valid_dc3
  <2> QED
    BY <1>2, <2>1, <2>2, <2>3 DEF InDc4
<1>4. CASE dc4.busreq /\ ~kill
  <2>1. dc5' = [dc4 EXCEPT !.valid = @ /\ ~lower]
    BY <1>4 DEF PipeEdge, InDc5
  <2>2. dc5'.nb = dc4.nb /\ dc5'.ptr0 = dc4.ptr0 /\ dc5'.busreq = dc4.busreq
    BY <2>1
  <2>3. dc5'.valid = (dc4.valid /\ ~lower)
    BY <1>1, <2>1 DEF Stage
  <2> QED
    BY <1>1, <1>3, <1>4, <2>2, <2>3 DEF NonBlocking
<1>5. CASE ~(dc4.busreq /\ ~kill) /\ dc4.nb
  <2>1. dc5' = [valid |-> FALSE, busreq |-> FALSE, nb |-> TRUE, ptr0 |-> dc4.ptr0]
    BY <1>5 DEF PipeEdge, InDc5
  <2>2. lower /\ dc4.busreq
    BY <1>1, <1>5 DEF NonBlocking
  <2>3. dc3' = NoPacket
    BY <2>2 DEF PipeEdge, InDc3
  <2> QED
    BY <1>2, <1>3, <1>5, <2>1, <2>2, <2>3
<1>6. CASE ~(dc4.busreq /\ ~kill) /\ ~dc4.nb
  BY <1>2, <1>3, <1>6 DEF PipeEdge, InDc5
<1> QED
  BY <1>4, <1>5, <1>6

LEMMA TagTakenStep ==
  ASSUME Base, OwnersInv', NEW clk_en \in BOOLEAN, NEW packet, NEW lower, NEW up, NEW flush_dc3, NEW kill,
         NEW hold, NEW branch, NEW freeze,
         PipeEdge(packet, lower, up, flush_dc3, kill, hold, freeze),
         FreezeEdge(hold, branch, lower, up, flush_dc3, freeze),
         IbufEdge(up, kill, freeze), BufEdge(clk_en, up, kill, freeze),
         kill => lower, lower => up /\ flush_dc3 /\ ~freeze
  PROVE  TagTaken'
<1> SUFFICES ASSUME dc5'.nb, NEW p, p = dc5'.ptr0
             PROVE  /\ p \in Entries /\ ~busy(p)' /\ p \notin ptrs(dc4)' /\ p \notin Tagged'
                    /\ ~dc5'.busreq => ~dc5'.valid /\ ~dc4'.busreq /\ ~dc3'.busreq
                    /\ ~dc5'.valid => ~ld_freeze_dc3'
  BY DEF TagTaken
<1>1. OwnersInv /\ BufShape
  BY DEF Base, Shapes
<1>2. /\ p = dc4.ptr0 /\ dc4.busreq
      /\ ~dc5'.busreq => ~dc5'.valid /\ ~dc4'.busreq /\ ~dc3'.busreq
      /\ ~dc5'.valid => lower
  BY TagsMove
<1>3. p \in Entries /\ p \notin Taken /\ p \notin Tagged /\ p \notin ptrs(dc5)
  BY <1>1, <1>2 DEF OwnersInv, Requests, HasEntries, Owners, ptrs
<1>4. New(p, up, kill, freeze) = {}
  <2> SUFFICES ASSUME New(p, up, kill, freeze) # {} PROVE FALSE
    OBVIOUS
  <2>1. CASE p = dc5.ptr1 /\ hi_direct(up, kill, freeze)
    BY <1>3, <2>1 DEF hi_direct, accepted, ptrs
  <2>2. CASE p = dc5.ptr0 /\ lo_direct(up, kill, freeze)
    BY <1>3, <2>2 DEF lo_direct, accepted, ptrs
  <2> QED
    BY <1>1, <1>3, <2>1, <2>2, NewEntry
<1>5. ~busy(p)'
  <2>1. buf'[p] = NoEntry
    BY <1>1, <1>3, <1>4, EntryStep DEF Taken
  <2> QED
    BY <2>1 DEF busy, NoEntry
<1>6. p \notin Tagged'
  <2> SUFFICES ASSUME ibuf'.valid, ibuf'.tag = p PROVE FALSE
    BY DEF Tagged
  <2>1. ibuf'.tag = ibuf.tag => ~ibuf.valid
    BY <1>3 DEF Tagged
  <2>2. ibuf_wr_en(up, kill, freeze) => dc5.busreq
    BY DEF ibuf_wr_en, accepted
  <2>3. merges(kill) => ibuf.valid
    BY DEF merges, ibuf_merge_en
  <2> QED
    BY <1>3, <2>1, <2>2, <2>3, IbufNext DEF ptrs
<1>7. p \notin ptrs(dc4)'
  <2>1. CASE dc5'.busreq
    <3>1. p \in ptrs(dc5)'
      BY <2>1 DEF ptrs
    <3> QED
      BY <3>1 DEF OwnersInv, Owners
  <2>2. CASE ~dc5'.busreq
    BY <1>2, <2>2 DEF ptrs
  <2> QED
    BY <2>1, <2>2
<1>8. lower => ~ld_freeze_dc3'
  BY DEF FreezeEdge
<1> QED
  BY <1>2, <1>3, <1>5, <1>6, <1>7, <1>8

(* Where what is in an entry after the edge was before it. *)
LEMMA Origins ==
  ASSUME Base, NEW clk_en \in BOOLEAN, NEW up, NEW kill, NEW freeze, BufEdge(clk_en, up, kill, freeze),
         NEW i \in Entries, busy(i)'
  PROVE  \/ busy(i) /\ Same(req(i)', req(i))
         \/ /\ i = ibuf.tag /\ ibuf.valid /\ ibuf_drain_vld(up, kill, freeze) /\ Same(req(i)', ibuf.req)
         \/ i = dc5.ptr1 /\ hi_direct(up, kill, freeze) /\ dc5.busreq /\ req(i)' = HiHalf(up)
         \/ i = dc5.ptr0 /\ lo_direct(up, kill, freeze) /\ dc5.busreq /\ req(i)' = LoHalf(up)
<1>1. BufShape
  BY DEF Base, Shapes
<1>2. hi_direct(up, kill, freeze) \/ lo_direct(up, kill, freeze) => dc5.busreq
  BY DEF hi_direct, lo_direct, accepted
<1>3. CASE busy(i)
  BY <1>1, <1>3, EntryKeeps
<1>4. CASE New(i, up, kill, freeze) # {}
  BY <1>2, <1>4, Arrives
<1> QED
  BY <1>1, <1>3, <1>4, WasOrArrives

LEMMA SameHalved ==
  ASSUME NEW r, NEW s, NEW r1, NEW s1, NEW j, Same(r1, r), Same(s1, s), Halved(r, s, j)
  PROVE  Halved(r1, s1, j)
  BY DEF Same, Halved

LEMMA AloneStep ==
  ASSUME Base, Buffered, Alone, NEW clk_en \in BOOLEAN, NEW up, NEW kill, NEW freeze,
         BufEdge(clk_en, up, kill, freeze), IbufEdge(up, kill, freeze)
  PROVE  Alone'
<1> DEFINE Kept(i) == busy(i) /\ Same(req(i)', req(i))
           Drained(i) == /\ i = ibuf.tag /\ ibuf.valid /\ ibuf_drain_vld(up, kill, freeze)
                         /\ Same(req(i)', ibuf.req)
           High(i) == i = dc5.ptr1 /\ hi_direct(up, kill, freeze) /\ dc5.busreq /\ req(i)' = HiHalf(up)
           LowOne(i) == i = dc5.ptr0 /\ lo_direct(up, kill, freeze) /\ dc5.busreq /\ req(i)' = LoHalf(up)
<1>1. \A i \in Entries : busy(i)' => Kept(i) \/ Drained(i) \/ High(i) \/ LowOne(i)
  BY Origins
<1>2. /\ LoHalf(up).id = dc5.id /\ HiHalf(up).id = dc5.id
      /\ LoHalf(up).dual = ldst_dual(dc5) /\ HiHalf(up).dual = ldst_dual(dc5)
      /\ LoHalf(up).dualtag = dc5.ptr1 /\ HiHalf(up).dualtag = dc5.ptr0
      /\ LoHalf(up).write = (dc5.op = "store")
  BY DEF LoHalf, HiHalf, Half
<1>3. ASSUME NEW i \in Entries, dc5.busreq, Kept(i) \/ Drained(i)
      PROVE  req(i)'.id # dc5.id
  <2>1. /\ dc5.id \in 1..issued /\ issued \in Nat
        /\ \A j \in Entries : busy(j) => req(j).id < dc5.id
        /\ ibuf.valid => ibuf.req.id < dc5.id
    BY <1>3, Dc5Last
  <2>2. CASE Kept(i)
    <3>1. req(i)'.id = req(i).id /\ req(i).id < dc5.id /\ req(i).id \in 1..issued
      BY <2>1, <2>2 DEF Same, Buffered
    <3> QED
      BY <2>1, <3>1
  <2>3. CASE Drained(i)
    <3>1. req(i)'.id = ibuf.req.id /\ ibuf.req.id < dc5.id /\ ibuf.req.id \in 1..issued
      BY <2>1, <2>3 DEF Same, Buffered
    <3> QED
      BY <2>1, <3>1
  <2> QED
    BY <1>3, <2>2, <2>3
<1>4. hi_direct(up, kill, freeze) => ldst_dual(dc5) /\ ibuf_byp(up)
  BY DEF hi_direct
<1>5. ASSUME NEW i \in Entries, NEW j \in Entries, busy(i)', busy(j)', i # j
      PROVE  Halved(req(i)', req(j)', j)
  <2>1. CASE (Kept(i) \/ Drained(i)) /\ (Kept(j) \/ Drained(j))
    <3>1. CASE Kept(i) /\ Kept(j)
      <4>1. Halved(req(i), req(j), j)
        BY <1>5, <3>1 DEF Alone
      <4> QED
        BY <3>1, <4>1, SameHalved
    <3>2. CASE Kept(i) /\ Drained(j)
      <4>1. Halved(req(i), ibuf.req, j)
        BY <3>2 DEF Alone
      <4> QED
        BY <3>2, <4>1, SameHalved
    <3>3. CASE Drained(i) /\ Kept(j)
      <4>1. Halved(ibuf.req, req(j), j)
        BY <3>3 DEF Alone
      <4> QED
        BY <3>3, <4>1, SameHalved
    <3> QED
      BY <1>5, <2>1, <3>1, <3>2, <3>3
  <2>2. CASE (Kept(i) \/ Drained(i)) /\ (High(j) \/ LowOne(j))
    BY <1>2, <1>3, <2>2 DEF Halved
  <2>3. CASE (High(i) \/ LowOne(i)) /\ (Kept(j) \/ Drained(j))
    BY <1>2, <1>3, <2>3 DEF Halved
  <2>4. CASE High(i) /\ LowOne(j)
    BY <1>2, <1>4, <2>4 DEF Halved
  <2>5. CASE LowOne(i) /\ High(j)
    BY <1>2, <1>4, <2>5 DEF Halved
  <2> QED
    BY <1>1, <1>5, <2>1, <2>2, <2>3, <2>4, <2>5
<1>6. ASSUME ibuf'.valid, NEW j \in Entries, busy(j)', NEW r, r = ibuf'.req, NEW t, t = ibuf'.tag
      PROVE  Halved(r, req(j)', j) /\ Halved(req(j)', r, t)
  <2>1. CASE ~ibuf_wr_en(up, kill, freeze) /\ ~ibuf_drain_vld(up, kill, freeze) /\ ibuf.valid
             /\ r = ibuf.req /\ t = ibuf.tag
    <3>1. ~High(j) /\ ~Drained(j)
      BY <1>4, <2>1 DEF ibuf_byp
    <3>2. ~LowOne(j)
      BY <2>1 DEF lo_direct, ibuf_wr_en, ibuf_byp
    <3>3. Kept(j)
      BY <1>1, <1>6, <3>1, <3>2
    <3>4. Halved(ibuf.req, req(j), j) /\ Halved(req(j), ibuf.req, ibuf.tag)
      BY <2>1, <3>3 DEF Alone
    <3>5. Same(ibuf.req, ibuf.req)
      BY DEF Same
    <3> QED
      BY <2>1, <3>3, <3>4, <3>5, SameHalved
  <2>2. CASE merges(kill) /\ r = Joined(LoHalf(up))
    <3>1. r.write = LoHalf(up).write /\ dc5.op = "store"
      BY <2>2, JoinedIsRequest DEF merges, ibuf_merge_en, Fields
    <3> QED
      BY <1>2, <3>1 DEF Halved
  <2>3. CASE ibuf_wr_en(up, kill, freeze) /\ ~merges(kill) /\ ldst_dual(dc5) /\ r = HiHalf(up) /\ t = dc5.ptr1
    <3>1. dc5.busreq /\ ~High(j)
      BY <1>4, <2>3 DEF ibuf_wr_en, accepted
    <3>2. CASE Kept(j) \/ Drained(j)
      BY <1>2, <1>3, <2>3, <3>1, <3>2 DEF Halved
    <3>3. CASE LowOne(j)
      BY <1>2, <2>3, <3>3 DEF Halved
    <3> QED
      BY <1>1, <1>6, <3>1, <3>2, <3>3
  <2>4. CASE ibuf_wr_en(up, kill, freeze) /\ ~ldst_dual(dc5) /\ r = LoHalf(up) /\ t = dc5.ptr0
    <3>1. dc5.busreq /\ ~High(j)
      BY <1>4, <2>4 DEF ibuf_wr_en, accepted
    <3>2. ~LowOne(j)
      BY <2>4 DEF lo_direct, ibuf_wr_en
    <3>3. Kept(j) \/ Drained(j)
      BY <1>1, <1>6, <3>1, <3>2
    <3> QED
      BY <1>2, <1>3, <2>4, <3>1, <3>3 DEF Halved
  <2> QED
    BY <1>6, <2>1, <2>2, <2>3, <2>4, IbufNext
<1> QED
  BY <1>5, <1>6 DEF Alone

(* The answer an entry takes is its own, or that of the half it went out with. *)
LEMMA TakesItsAnswer ==
  ASSUME Base, Halves, OnBus, NEW i \in Entries, buf[i].state = "RESP", ~req(i).write,
         rsp_read_for(i) \/ rsp_write_for(i), NEW t, t = bus_rsp_read.tag
  PROVE  /\ bus_rsp_read.valid /\ buf[t].state = "RESP" /\ req(t).id = req(i).id
         /\ t = i \/ (half(req(i)) /\ t = req(i).dualtag)
<1>1. ~rsp_write_for(i)
  BY DEF rsp_write_for, OnBus, Awaits
<1>2. bus_rsp_read.valid /\ (t = i \/ (same_dword_load(i) /\ req(i).dualhi /\ t = req(i).dualtag))
  BY <1>1 DEF rsp_read_for
<1>3. buf[t].state = "RESP"
  BY <1>2 DEF OnBus, Awaits
<1>4. CASE same_dword_load(i) /\ req(i).dualhi /\ t = req(i).dualtag
  <2>1. half(req(i)) /\ busy(i) /\ busy(t)
    BY <1>3, <1>4 DEF same_dword_load, half, busy
  <2>2. Twin(req(i), i, req(t))
    BY <1>4, <2>1, TwinOfBusy
  <2> QED
    BY <1>2, <1>3, <1>4, <2>1, <2>2 DEF Twin
<1> QED
  BY <1>2, <1>3, <1>4

LEMMA JustAnswered ==
  ASSUME Base, Halves, OnBus, JustDone, NEW clk_en \in BOOLEAN, NEW up, NEW kill, NEW freeze,
         BufEdge(clk_en, up, kill, freeze), NEW i \in Entries, complete(i)'
  PROVE  clk_en /\ (~req(i)'.write => req(i)'.id = req(bus_rsp_read.tag).id)
<1>1. BufShape
  BY DEF Base, Shapes
<1>2. /\ buf'[i].state = "DONE"
      /\ req(i)'.write \/ ~req(i)'.dual \/ buf'[req(i)'.dualtag].state = "DONE"
  BY DEF complete
<1>3. \/ buf[i].state = "RESP" /\ clk_en /\ (rsp_read_for(i) \/ rsp_write_for(i))
      \/ buf[i].state = "DONE" /\ ~buf_rst(i)
  BY <1>1, <1>2, Moves
<1>4. busy(i) /\ busy(i)' /\ Same(req(i)', req(i))
  <2>1. busy(i) /\ busy(i)'
    BY <1>2, <1>3 DEF busy
  <2> QED
    BY <1>1, <2>1, EntryKeeps
<1>5. CASE buf[i].state = "RESP" /\ clk_en /\ (rsp_read_for(i) \/ rsp_write_for(i))
  <2>1. ~req(i).write => req(bus_rsp_read.tag).id = req(i).id
    BY <1>5, TakesItsAnswer
  <2> QED
    BY <1>4, <1>5, <2>1 DEF Same
<1>6. CASE buf[i].state = "DONE" /\ ~buf_rst(i)
  <2> DEFINE d == req(i).dualtag
  <2>1. ~complete(i)
    BY <1>6 DEF JustDone, complete, buf_rst
  <2>2. ~req(i).write /\ req(i).dual /\ buf[d].state # "DONE" /\ buf'[d].state = "DONE"
    BY <1>2, <1>4, <1>6, <2>1 DEF complete, Same
  <2>3. half(req(i)) /\ d \in Entries
    BY <1>1, <1>4, <2>2 DEF half, BufShape, busy, IsRequest
  <2> HIDE DEF d
  <2>4. buf[d].state = "RESP" /\ clk_en /\ (rsp_read_for(d) \/ rsp_write_for(d))
    BY <1>1, <2>2, <2>3, Moves
  <2>5. busy(d)
    BY <2>4 DEF busy
  <2>6. Twin(req(i), i, req(d))
    BY <1>4, <2>3, <2>5, TwinOfBusy DEF d
  <2>7. /\ ~req(d).write /\ req(d).dualtag = i /\ req(d).id = req(i).id
    BY <2>6 DEF Twin, half
  <2>8. /\ bus_rsp_read.valid /\ buf[bus_rsp_read.tag].state = "RESP"
        /\ req(bus_rsp_read.tag).id = req(d).id
    BY <2>3, <2>4, <2>7, TakesItsAnswer
  <2> QED
    BY <1>4, <2>4, <2>7, <2>8 DEF Same
<1> QED
  BY <1>3, <1>5, <1>6

LEMMA JustDoneStep ==
  ASSUME Base, Halves, OnBus, JustDone, NEW clk_en \in BOOLEAN, NEW up, NEW kill, NEW freeze,
         BufEdge(clk_en, up, kill, freeze), lsu_bus_clk_en_q' = clk_en
  PROVE  JustDone'
<1>1. ASSUME NEW i \in Entries, complete(i)' PROVE lsu_bus_clk_en_q'
  BY <1>1, JustAnswered
<1>2. ASSUME NEW i \in Entries, NEW j \in Entries, complete(i)', complete(j)', ~req(i)'.write, ~req(j)'.write
      PROVE  req(i)'.id = req(j)'.id
  <2>1. req(i)'.id = req(bus_rsp_read.tag).id
    BY <1>2, JustAnswered
  <2>2. req(j)'.id = req(bus_rsp_read.tag).id
    BY <1>2, JustAnswered
  <2> QED
    BY <2>1, <2>2
<1> QED
  BY <1>1, <1>2 DEF JustDone

(* A load leaves its entry when its data goes back to decode. *)
LEMMA Released ==
  ASSUME Base, NEW clk_en \in BOOLEAN, NEW up, NEW kill, NEW freeze,
         BufEdge(clk_en, up, kill, freeze), NEW i \in Entries, busy(i), Low(req(i))
  PROVE  /\ busy(i)' <=> i \notin lsu_nonblock_load_data_tags
         /\ busy(i)' => Low(req(i)')
<1>1. BufShape /\ IsRequest(req(i)) /\ buf[i].state \in States
  BY DEF Base, Shapes, BufShape, busy
<1>2. ~req(i).write
  BY <1>1 DEF Low, IsRequest
<1>3. i \in lsu_nonblock_load_data_tags <=> buf[i].state = "DONE" /\ buf_rst(i)
  BY DEF lsu_nonblock_load_data_tags, Low
<1>4. CASE buf[i].state = "DONE" /\ buf_rst(i)
  <2>1. buf'[i] = NoEntry
    BY <1>1, <1>4, EntryStep
  <2> QED
    BY <1>3, <1>4, <2>1 DEF busy, NoEntry
<1>5. CASE ~(buf[i].state = "DONE" /\ buf_rst(i))
  <2>1. busy(i)'
    <3> SUFFICES ASSUME buf'[i].state = "IDLE" PROVE FALSE
      BY DEF busy
    <3> QED
      BY <1>1, <1>2, <1>5, Moves DEF busy
  <2>2. Same(req(i)', req(i))
    BY <1>1, <2>1, EntryKeeps
  <2> QED
    BY <1>3, <1>5, <2>1, <2>2 DEF Same, Low
<1> QED
  BY <1>4, <1>5

(* A load that decode is told of is taken just when it is committed. *)
LEMMA AcceptedIsCommitted ==
  ASSUME TagTaken, dc5.nb, NEW kill, NEW lower, NEW freeze, kill => lower,
         freeze => ld_freeze_dc3 /\ ~lower, accepted(kill, freeze)
  PROVE  lsu_commit_dc5(kill)
  BY DEF TagTaken, accepted, lsu_commit_dc5

LEMMA LowHalves ==
  ASSUME Base, NEW up
  PROVE  /\ Low(LoHalf(up)) <=> dc5.nb
         /\ ldst_dual(dc5) => ~Low(HiHalf(up))
<1>1. dc5.nb \in BOOLEAN
  BY DEF Base, OwnersInv, Requests, Stage, PacketOK
<1>2. LoHalf(up).nb = dc5.nb /\ LoHalf(up).dualhi = FALSE
  BY DEF LoHalf, Half
<1>3. HiHalf(up).dual = ldst_dual(dc5) /\ HiHalf(up).dualhi = TRUE
  BY DEF HiHalf, Half
<1> QED
  BY <1>1, <1>2, <1>3 DEF Low

LEMMA CommittedIsHeld ==
  ASSUME Base, TagTaken, dc5.nb, NEW clk_en \in BOOLEAN, NEW up, NEW kill, NEW freeze,
         BufEdge(clk_en, up, kill, freeze), IbufEdge(up, kill, freeze),
         lsu_commit_dc5(kill), NEW p, p = dc5.ptr0
  PROVE  \/ p \in Entries /\ busy(p)' /\ Low(req(p)')
         \/ p \in Tagged' /\ Low(ibuf'.req)
<1>1. OwnersInv /\ NonBlocking
  BY DEF Base, Shapes
<1>2. dc5.busreq /\ dc5.op = "load" /\ accepted(kill, freeze)
  BY <1>1 DEF TagTaken, lsu_commit_dc5, NonBlocking, accepted
<1>3. /\ p \in Entries /\ p \notin Tagged
      /\ ldst_dual(dc5) => p # dc5.ptr1
  BY <1>1, <1>2, Dc5Ptrs
<1>4. ~ibuf_merge_en(kill) /\ ~merges(kill)
  BY <1>2 DEF ibuf_merge_en, merges
<1>5. CASE ibuf_byp(up) \/ ldst_dual(dc5)
  <2>1. lo_direct(up, kill, freeze)
    BY <1>2, <1>4, <1>5 DEF lo_direct
  <2>2. New(p, up, kill, freeze) # {}
    BY <2>1 DEF New
  <2>3. hi_direct(up, kill, freeze) => ldst_dual(dc5)
    BY DEF hi_direct
  <2>4. buf'[p].state # "IDLE" /\ req(p)' = LoHalf(up)
    BY <1>3, <2>2, <2>3, Arrives DEF Tagged
  <2>5. Low(LoHalf(up))
    BY LowHalves
  <2> QED
    BY <1>3, <2>4, <2>5 DEF busy
<1>6. CASE ~ibuf_byp(up) /\ ~ldst_dual(dc5)
  <2>1. ibuf_wr_en(up, kill, freeze)
    BY <1>2, <1>6 DEF ibuf_wr_en
  <2>2. ibuf'.valid /\ ibuf'.tag = dc5.ptr0 /\ ibuf'.req = LoHalf(up)
    BY <1>4, <1>6, <2>1 DEF IbufEdge
  <2>3. Low(LoHalf(up))
    BY LowHalves
  <2> QED
    BY <2>2, <2>3 DEF Tagged
<1> QED
  BY <1>5, <1>6

(* A load that drains from the input buffer is then in its entry. *)
LEMMA DrainedIsHeld ==
  ASSUME Base, TagTaken, NEW clk_en \in BOOLEAN, NEW up, NEW kill, NEW freeze,
         BufEdge(clk_en, up, kill, freeze), ibuf.valid, Low(ibuf.req), NEW i, i = ibuf.tag
  PROVE  i \in Entries /\ ~busy(i) /\ (dc5.nb => i # dc5.ptr0) /\ busy(i)' /\ Low(req(i)')
<1>1. OwnersInv /\ IsRequest(ibuf.req)
  BY DEF Base, Shapes, IbufShape
<1>2. ~ibuf.req.write
  BY <1>1 DEF Low, IsRequest
<1>3. i \in Tagged /\ i \in Entries /\ i \notin Taken
  BY <1>1 DEF Tagged, OwnersInv, InputBuffer, Owners
<1>4. ibuf_drain_vld(up, kill, freeze)
  BY <1>2, LoadsDrain
<1>5. New(i, up, kill, freeze) # {} /\ i = ibuf.tag
  BY <1>4, DrainedHasEntry
<1>6. \/ dc5.busreq /\ i = dc5.ptr1 /\ ldst_dual(dc5)
      \/ dc5.busreq /\ i = dc5.ptr0
      \/ Same(req(i)', ibuf.req)
  BY <1>3, <1>5, Arrives DEF hi_direct, lo_direct, accepted
<1>7. Same(req(i)', ibuf.req)
  BY <1>1, <1>3, <1>6, Dc5Ptrs
<1>8. busy(i)'
  BY <1>3, <1>5, Arrives DEF busy
<1>9. Low(req(i)')
  BY <1>7 DEF Same, Low
<1>10. dc5.nb => i # dc5.ptr0
  BY <1>3 DEF TagTaken
<1> QED
  BY <1>3, <1>8, <1>9, <1>10 DEF Taken, busy

(* Nothing else becomes a tag that decode waits for. *)
LEMMA HeldCameFrom ==
  ASSUME Base, TagTaken, NEW clk_en \in BOOLEAN, NEW lower, NEW up, NEW kill, NEW freeze,
         BufEdge(clk_en, up, kill, freeze), IbufEdge(up, kill, freeze),
         kill => lower, freeze => ld_freeze_dc3 /\ ~lower, NEW i,
         \/ i \in Entries /\ busy(i)' /\ Low(req(i)')
         \/ i \in Tagged' /\ Low(ibuf'.req)
  PROVE  \/ i \in Entries /\ busy(i) /\ Low(req(i))
         \/ i \in Tagged /\ Low(ibuf.req)
         \/ dc5.nb /\ i = dc5.ptr0 /\ lsu_commit_dc5(kill)
<1>1. OwnersInv /\ IbufShape
  BY DEF Base, Shapes
<1>2. ASSUME i \in Entries, busy(i)', Low(req(i)')
      PROVE  \/ i \in Entries /\ busy(i) /\ Low(req(i))
             \/ i \in Tagged /\ Low(ibuf.req)
             \/ dc5.nb /\ i = dc5.ptr0 /\ lsu_commit_dc5(kill)
  <2>1. CASE busy(i) /\ Same(req(i)', req(i))
    BY <1>2, <2>1 DEF Same, Low
  <2>2. CASE i = ibuf.tag /\ ibuf.valid /\ Same(req(i)', ibuf.req)
    BY <1>2, <2>2 DEF Same, Low, Tagged
  <2>3. CASE i = dc5.ptr1 /\ hi_direct(up, kill, freeze) /\ req(i)' = HiHalf(up)
    BY <1>2, <2>3, LowHalves DEF hi_direct
  <2>4. CASE i = dc5.ptr0 /\ lo_direct(up, kill, freeze) /\ req(i)' = LoHalf(up)
    <3>1. dc5.nb /\ accepted(kill, freeze)
      BY <1>2, <2>4, LowHalves DEF lo_direct
    <3>2. lsu_commit_dc5(kill)
      BY <3>1, AcceptedIsCommitted
    <3> QED
      BY <2>4, <3>1, <3>2
  <2> QED
    BY <1>2, <2>1, <2>2, <2>3, <2>4, Origins
<1>3. ASSUME ibuf'.valid, i = ibuf'.tag, NEW r, r = ibuf'.req, Low(r)
      PROVE  dc5.nb /\ i = dc5.ptr0 /\ lsu_commit_dc5(kill)
  <2>1. CASE ~ibuf_drain_vld(up, kill, freeze) /\ ibuf.valid /\ r = ibuf.req
    BY <1>1, <1>3, <2>1, LoadsDrain DEF IbufShape, IsRequest, Low
  <2>2. CASE merges(kill) /\ r = Joined(LoHalf(up))
    <3>1. IsRequest(r) /\ r.write = LoHalf(up).write /\ dc5.op = "store"
      BY <2>2, JoinedIsRequest DEF merges, ibuf_merge_en, Fields
    <3>2. LoHalf(up).write = (dc5.op = "store")
      BY DEF LoHalf, Half
    <3> QED
      BY <1>3, <3>1, <3>2 DEF IsRequest, Low
  <2>3. CASE ldst_dual(dc5) /\ r = HiHalf(up)
    BY <1>3, <2>3, LowHalves
  <2>4. CASE ibuf_wr_en(up, kill, freeze) /\ r = LoHalf(up) /\ ibuf'.tag = dc5.ptr0
    <3>1. dc5.nb /\ accepted(kill, freeze)
      BY <1>3, <2>4, LowHalves DEF ibuf_wr_en
    <3>2. lsu_commit_dc5(kill)
      BY <3>1, AcceptedIsCommitted
    <3> QED
      BY <1>3, <2>4, <3>1, <3>2
  <2> QED
    BY <1>3, <2>1, <2>2, <2>3, <2>4, IbufNext
<1>4. i \in Tagged' => ibuf'.valid /\ i = ibuf'.tag
  BY DEF Tagged
<1> QED
  BY <1>2, <1>3, <1>4

LEMMA HeldStep ==
  ASSUME Base, TagTaken, outstanding = Held,
         NEW clk_en \in BOOLEAN, NEW packet, NEW lower, NEW up, NEW flush_dc3, NEW kill, NEW hold, NEW freeze,
         PipeEdge(packet, lower, up, flush_dc3, kill, hold, freeze),
         History(flush_dc3, freeze, kill, packet),
         IbufEdge(up, kill, freeze), BufEdge(clk_en, up, kill, freeze),
         kill => lower, lower => up /\ flush_dc3 /\ ~freeze, freeze => ld_freeze_dc3 /\ ~lower
  PROVE  outstanding' = Held'
<1> DEFINE InBuf == {i \in Entries : busy(i) /\ Low(req(i))}
           InIbuf == {i \in Tagged : Low(ibuf.req)}
           Sent4 == IF dc4.nb THEN {dc4.ptr0} ELSE {}
           Sent5 == IF dc5.nb THEN {dc5.ptr0} ELSE {}
           New3 == IF lsu_nonblock_load_valid_dc3(flush_dc3, freeze) THEN {WrPtr0_dc3} ELSE {}
           Data == lsu_nonblock_load_data_tags
           Inv == lsu_nonblock_load_inv_tags(kill)
           Buffers == {i \in Entries : busy(i)' /\ Low(req(i)')} \cup {i \in Tagged' : Low(ibuf'.req)}
<1>1. outstanding' = ((Sent4 \cup Sent5 \cup InIbuf \cup InBuf) \ (Data \cup Inv)) \cup New3
  BY DEF History, Held
<1>2. Held' = New3 \cup Sent4 \cup Buffers
  <2>1. /\ dc4'.nb <=> lsu_nonblock_load_valid_dc3(flush_dc3, freeze)
        /\ dc4'.nb => dc4'.ptr0 = WrPtr0_dc3
        /\ dc5'.nb <=> dc4.nb
        /\ dc5'.nb => dc5'.ptr0 = dc4.ptr0
    BY TagsMove
  <2>2. New3 = IF dc4'.nb THEN {dc4'.ptr0} ELSE {}
    BY <2>1
  <2>3. Sent4 = IF dc5'.nb THEN {dc5'.ptr0} ELSE {}
    BY <2>1
  <2>4. Held' = (IF dc4'.nb THEN {dc4'.ptr0} ELSE {}) \cup (IF dc5'.nb THEN {dc5'.ptr0} ELSE {}) \cup Buffers
    BY DEF Held
  <2> HIDE DEF New3, Sent4, Buffers
  <2> QED
    BY <2>2, <2>3, <2>4
<1>3. Data \subseteq {i \in Entries : busy(i)}
  BY DEF lsu_nonblock_load_data_tags, busy
<1>4. \A i \in Inv : dc5.nb /\ i = dc5.ptr0 /\ ~lsu_commit_dc5(kill)
  BY DEF lsu_nonblock_load_inv_tags
<1>5. Sent4 \cap (Data \cup Inv) = {}
  <2> SUFFICES ASSUME dc4.nb PROVE dc4.ptr0 \notin Data \cup Inv
    OBVIOUS
  <2>1. dc4.busreq /\ dc4.ptr0 \in ptrs(dc4)
    BY DEF Base, Shapes, NonBlocking, ptrs
  <2>2. dc4.ptr0 \notin Data
    BY <1>3, <2>1 DEF Base, OwnersInv, Owners, Taken, busy
  <2>3. dc4.ptr0 \notin Inv
    BY <1>4, <2>1 DEF TagTaken
  <2> QED
    BY <2>2, <2>3
<1>6. ASSUME NEW i \in InBuf PROVE i \notin Inv /\ (i \notin Data <=> i \in Buffers)
  <2>1. i \in Entries /\ busy(i) /\ Low(req(i)) /\ i \notin Tagged
    BY DEF Base, OwnersInv, Owners, Taken, busy
  <2>2. i \notin Inv
    BY <1>4, <2>1 DEF TagTaken
  <2>3. busy(i)' <=> i \notin Data
    BY <2>1, Released
  <2>4. busy(i)' => Low(req(i)')
    BY <2>1, Released
  <2>5. i \in Tagged' /\ Low(ibuf'.req) => busy(i)'
    <3> SUFFICES ASSUME i \in Tagged', Low(ibuf'.req), ~busy(i)' PROVE FALSE
      OBVIOUS
    <3>1. ibuf'.valid /\ i = ibuf'.tag
      BY DEF Tagged
    <3>2. dc5.busreq => i # dc5.ptr0 /\ (ldst_dual(dc5) => i # dc5.ptr1)
      BY <2>1, Dc5Ptrs DEF Base, Taken, busy
    <3>3. ibuf_wr_en(up, kill, freeze) => dc5.busreq
      BY DEF ibuf_wr_en, accepted
    <3>4. i = ibuf.tag => ~ibuf.valid
      BY <2>1 DEF Tagged
    <3>5. merges(kill) => ibuf.valid
      BY DEF merges, ibuf_merge_en
    <3> QED
      BY <3>1, <3>2, <3>3, <3>4, <3>5, IbufNext
  <2> QED
    BY <2>1, <2>2, <2>3, <2>4, <2>5
<1>7. ASSUME NEW i \in InIbuf PROVE i \in Buffers /\ i \notin Data \cup Inv
  <2>1. ibuf.valid /\ i = ibuf.tag /\ Low(ibuf.req)
    BY DEF Tagged
  <2>2. i \in Entries /\ ~busy(i) /\ (dc5.nb => i # dc5.ptr0) /\ busy(i)' /\ Low(req(i)')
    BY <2>1, DrainedIsHeld
  <2> QED
    BY <1>3, <1>4, <2>2
<1>8. ASSUME NEW i \in Sent5 \ Inv PROVE i \in Buffers
  <2>1. dc5.nb /\ i = dc5.ptr0 /\ lsu_commit_dc5(kill)
    BY DEF lsu_nonblock_load_inv_tags
  <2> QED
    BY <2>1, CommittedIsHeld
<1>9. ASSUME NEW i \in Buffers PROVE i \in InBuf \/ i \in InIbuf \/ (i \in Sent5 /\ i \notin Data \cup Inv)
  <2>1. \/ i \in Entries /\ busy(i)' /\ Low(req(i)')
        \/ i \in Tagged' /\ Low(ibuf'.req)
    OBVIOUS
  <2>2. \/ i \in Entries /\ busy(i) /\ Low(req(i))
        \/ i \in Tagged /\ Low(ibuf.req)
        \/ dc5.nb /\ i = dc5.ptr0 /\ lsu_commit_dc5(kill)
    BY <2>1, HeldCameFrom
  <2>3. dc5.nb /\ i = dc5.ptr0 /\ lsu_commit_dc5(kill) => i \notin Data /\ i \notin Inv
    BY <1>3, <1>4 DEF TagTaken
  <2> QED
    BY <2>2, <2>3
<1> HIDE DEF InBuf, InIbuf, Sent4, Sent5, New3, Data, Inv, Buffers
<1> QED
  BY <1>1, <1>2, <1>5, <1>6, <1>7, <1>8, <1>9

LEMMA TagsInit == Init => TagsInv
<1> SUFFICES ASSUME Init PROVE TagsInv
  OBVIOUS
<1>1. OrderInv
  BY OrderInit
<1>2. /\ buf = [i \in Entries |-> NoEntry] /\ ibuf = Nothing
      /\ dc4 = NoPacket /\ dc5 = NoPacket /\ outstanding = {}
  BY DEF Init
<1>3. /\ \A i \in Entries : buf[i].state = "IDLE" /\ ~busy(i)
      /\ ~ibuf.valid /\ ~dc4.nb /\ ~dc5.nb
  BY <1>2 DEF busy, NoEntry, Nothing, NoPacket
<1>4. TagTaken /\ Alone /\ JustDone
  BY <1>3 DEF TagTaken, Alone, JustDone, complete
<1>5. outstanding = Held
  BY <1>2, <1>3 DEF Held, Tagged
<1> QED
  BY <1>1, <1>4, <1>5 DEF TagsInv

LEMMA TagsInvStep == TagsInv /\ [Next]_vars => TagsInv'
<1> SUFFICES ASSUME TagsInv, [Next]_vars PROVE TagsInv'
  OBVIOUS
<1>1. /\ OrderInv /\ Base /\ Halves /\ OnBus /\ Buffered
      /\ TagTaken /\ Alone /\ JustDone /\ outstanding = Held
  BY DEF TagsInv, OrderInv, AnswersInv, BufferInv
<1>2. OrderInv' /\ OwnersInv'
  <2>1. OrderInv'
    BY <1>1, OrderInvStep
  <2> QED
    BY <2>1 DEF OrderInv, AnswersInv, BufferInv, Base
<1>3. CASE Next
  <2>1. PICK clk_en, packet, lower, kill, branch, hold, ready, reads, writes, error :
          ClockEdge(clk_en, packet, lower, kill, branch, hold, ready, reads, writes, error)
    BY <1>3, NextIsEdge
  <2> DEFINE freeze == lsu_freeze_dc3(lower)
             up == lower \/ flush_e3 # "none"
             flush_dc3 == lower \/ flush_e3 = "i0"
  <2>2. /\ kill => lower
        /\ lower => up /\ flush_dc3 /\ ~freeze
        /\ freeze => ld_freeze_dc3 /\ ~lower
    BY <2>1 DEF ClockEdge, lsu_freeze_dc3
  <2>3. /\ PipeEdge(packet, lower, up, flush_dc3, kill, hold, freeze)
        /\ FreezeEdge(hold, branch, lower, up, flush_dc3, freeze)
        /\ IbufEdge(up, kill, freeze) /\ BufEdge(clk_en, up, kill, freeze)
        /\ History(flush_dc3, freeze, kill, packet)
        /\ lsu_bus_clk_en_q' = clk_en /\ clk_en \in BOOLEAN
    BY <2>1 DEF ClockEdge, Edge
  <2> HIDE DEF freeze, up, flush_dc3
  <2>4. TagTaken'
    BY <1>1, <1>2, <2>2, <2>3, TagTakenStep
  <2>5. Alone'
    BY <1>1, <2>3, AloneStep
  <2>6. JustDone'
    BY <1>1, <2>3, JustDoneStep
  <2>7. outstanding' = Held'
    BY <1>1, <2>2, <2>3, HeldStep
  <2> QED
    BY <1>2, <2>4, <2>5, <2>6, <2>7 DEF TagsInv
<1>4. CASE UNCHANGED vars
  <2>1. /\ UNCHANGED <<buf, ibuf, dc3, dc4, dc5, ld_freeze_dc3, lsu_bus_clk_en_q, outstanding>>
    BY <1>4 DEF vars
  <2>2. TagTaken'
    BY <1>1, <2>1 DEF TagTaken, busy, ptrs, ldst_dual, lo, hi, Tagged
  <2>3. Alone' /\ JustDone'
    BY <1>1, <2>1 DEF Alone, JustDone, Halved, complete, busy, req
  <2>4. outstanding' = Held'
    BY <1>1, <2>1 DEF Held, Tagged, Low, busy, req
  <2> QED
    BY <1>2, <2>2, <2>3, <2>4 DEF TagsInv
<1> QED
  BY <1>3, <1>4

(* One data at most goes back: what is complete is one access, of which the low half
   brings the tag. *)
LEMMA OneDataAtOnce ==
  ASSUME TagsInv, NEW i \in lsu_nonblock_load_data_tags, NEW j \in lsu_nonblock_load_data_tags
  PROVE  i = j
<1> SUFFICES ASSUME i # j PROVE FALSE
  OBVIOUS
<1>1. Base /\ Halves /\ Alone /\ JustDone /\ BufShape
  BY DEF TagsInv, OrderInv, AnswersInv, BufferInv, Base, Shapes
<1>2. /\ i \in Entries /\ j \in Entries /\ busy(i) /\ busy(j)
      /\ complete(i) /\ complete(j) /\ Low(req(i)) /\ Low(req(j))
  BY DEF lsu_nonblock_load_data_tags, buf_rst, complete, busy, Low
<1>3. IsRequest(req(i)) /\ IsRequest(req(j))
  BY <1>1, <1>2 DEF BufShape, busy
<1>4. ~req(i).write /\ ~req(j).write
  BY <1>2, <1>3 DEF IsRequest, Low
<1>5. req(i).id = req(j).id
  BY <1>1, <1>2, <1>4 DEF JustDone
<1>6. Halved(req(i), req(j), j) /\ Halved(req(j), req(i), i)
  BY <1>1, <1>2 DEF Alone
<1>7. req(i).dual /\ req(j).dual /\ req(i).dualtag = j
  BY <1>4, <1>5, <1>6 DEF Halved
<1>8. Twin(req(i), i, req(j))
  BY <1>1, <1>2, <1>4, <1>7, TwinOfBusy DEF half
<1> QED
  BY <1>2, <1>3, <1>7, <1>8 DEF Twin, Low, IsRequest

(* Decode gets exactly one word of each non-blocking load: a tag that comes back, or
   is taken back in dc5, is one it waits for, one that is handed out is not, and two
   never come back at once.                                                    *)
THEOREM TagsAllComeBack == Spec => []TagsComeBack
<1>1. ASSUME TagsInv PROVE TagsComeBack
  <2>1. Base /\ TagTaken /\ outstanding = Held
    BY <1>1 DEF TagsInv, OrderInv, AnswersInv, BufferInv
  <2>2. lsu_nonblock_load_data_tags \subseteq {i \in Entries : busy(i) /\ Low(req(i))}
    BY DEF lsu_nonblock_load_data_tags, busy, Low
  <2>3. lsu_nonblock_load_data_tags \subseteq outstanding
    BY <2>1, <2>2 DEF Held
  <2>4. Cardinality(lsu_nonblock_load_data_tags) <= 1
    BY <1>1, OneDataAtOnce, AtMostOneOf
  <2>5. dc5.nb => dc5.ptr0 \in outstanding /\ dc5.ptr0 \notin lsu_nonblock_load_data_tags
    BY <2>1, <2>2 DEF Held, TagTaken
  <2>6. ASSUME NEW flush_dc3, NEW freeze, lsu_nonblock_load_valid_dc3(flush_dc3, freeze)
        PROVE  WrPtr0_dc3 \notin outstanding
    <3>1. dc3.busreq
      BY <2>6 DEF lsu_nonblock_load_valid_dc3
    <3>2. WrPtr0_dc3 \in Entries /\ ~busy(WrPtr0_dc3) /\ WrPtr0_dc3 \notin reserved
      BY <2>1, <3>1, WrPtrsAreFree DEF Base, free_entries, busy
    <3>3. WrPtr0_dc3 \notin Tagged /\ WrPtr0_dc3 \notin ptrs(dc4) /\ WrPtr0_dc3 \notin ptrs(dc5)
      BY <3>2 DEF reserved, Tagged
    <3>4. dc4.nb => dc4.ptr0 \in ptrs(dc4)
      BY <2>1 DEF Base, Shapes, NonBlocking, ptrs
    <3>5. dc5.nb => dc5.ptr0 \in ptrs(dc5)
      BY <2>1, <3>1 DEF TagTaken, ptrs
    <3> QED
      BY <2>1, <3>2, <3>3, <3>4, <3>5 DEF Held
  <2> QED
    BY <2>3, <2>4, <2>5, <2>6 DEF TagsComeBack
<1>2. Init => TagsInv
  BY TagsInit
<1>3. TagsInv /\ [Next]_vars => TagsInv'
  BY TagsInvStep
<1> QED
  BY <1>1, <1>2, <1>3, PTL DEF Spec

-----------------------------------------------------------------------------
(* The load that froze the pipe.                                             *)

(* Where its request is until it is answered: still in dc3, or on its way to the
   entry of FreezePtr, or there. *)
Frozen ==
  ld_freeze_dc3 =>
    /\ dc3.op = "load"
    /\ \/ dc3.busreq
       \/ dc4.busreq /\ dc4.op = "load" /\ dc4.ptr0 = FreezePtr /\ dc4.id = dc3.id
       \/ dc5.busreq /\ dc5.op = "load" /\ dc5.ptr0 = FreezePtr /\ dc5.id = dc3.id
       \/ ibuf.valid /\ ibuf.tag = FreezePtr /\ ~ibuf.req.write /\ ibuf.req.id = dc3.id
       \/ busy(FreezePtr) /\ ~req(FreezePtr).write /\ req(FreezePtr).id = dc3.id
FrozenInv == BufferInv /\ Frozen

(* The request of a load leaves dc5 for its entry or for the input buffer. *)
LEMMA LoadLeavesDc5 ==
  ASSUME Base, NEW clk_en \in BOOLEAN, NEW up, NEW kill, NEW freeze,
         IbufEdge(up, kill, freeze), BufEdge(clk_en, up, kill, freeze),
         accepted(kill, freeze), dc5.op = "load"
  PROVE  \A i \in Entries : i = dc5.ptr0 =>
           \/ ibuf'.valid /\ ibuf'.tag = i /\ ~ibuf'.req.write /\ ibuf'.req.id = dc5.id
           \/ busy(i)' /\ ~req(i)'.write /\ req(i)'.id = dc5.id
<1> SUFFICES ASSUME NEW i \in Entries
             PROVE  i = dc5.ptr0 =>
                      \/ ibuf'.valid /\ ibuf'.tag = i /\ ~ibuf'.req.write /\ ibuf'.req.id = dc5.id
                      \/ busy(i)' /\ ~req(i)'.write /\ req(i)'.id = dc5.id
  OBVIOUS
<1>1. dc5.busreq /\ ~ibuf_merge_en(kill) /\ ~merges(kill)
  BY DEF accepted, ibuf_merge_en, merges
<1>2. ~LoHalf(up).write /\ LoHalf(up).id = dc5.id
  BY DEF LoHalf, Half
<1>3. OwnersInv
  BY DEF Base
<1>4. CASE i = dc5.ptr0 /\ (ibuf_byp(up) \/ ldst_dual(dc5))
  <2>1. lo_direct(up, kill, freeze)
    BY <1>1, <1>4 DEF lo_direct
  <2>2. i \notin Tagged /\ (ldst_dual(dc5) => i # dc5.ptr1)
    BY <1>1, <1>3, <1>4, Dc5Ptrs
  <2>3. /\ ~(ibuf_drain_vld(up, kill, freeze) /\ i = ibuf.tag)
        /\ ~(hi_direct(up, kill, freeze) /\ i = dc5.ptr1)
    BY <2>2 DEF ibuf_drain_vld, Tagged, hi_direct
  <2>4. New(i, up, kill, freeze) # {}
    BY <1>4, <2>1, <2>3 DEF New
  <2>5. /\ buf'[i].state = IF clk_en THEN "CMD" ELSE "WAIT"
        /\ req(i)' = LoHalf(up)
    BY <2>3, <2>4, Arrives
  <2> QED
    BY <1>2, <2>5 DEF busy
<1>5. CASE i = dc5.ptr0 /\ ~ibuf_byp(up) /\ ~ldst_dual(dc5)
  <2>1. ibuf_wr_en(up, kill, freeze)
    BY <1>5 DEF ibuf_wr_en
  <2>2. ibuf' = [valid |-> TRUE, timer |-> 0, tag |-> i, req |-> LoHalf(up)]
    BY <1>1, <1>5, <2>1 DEF IbufEdge
  <2> QED
    BY <1>2, <2>2
<1> QED
  BY <1>4, <1>5

(* An entry with a load is freed when the answer is there and for both its halves. *)
LEMMA LoadLeavesWhenAnswered ==
  ASSUME BufShape, NEW clk_en \in BOOLEAN, NEW up, NEW kill, NEW freeze, BufEdge(clk_en, up, kill, freeze),
         NEW i \in Entries, busy(i), ~req(i).write, ~busy(i)'
  PROVE  buf_rst(i)
<1>1. buf[i].state \in States /\ buf[i].state # "IDLE" /\ buf'[i].state = "IDLE" /\ IsRequest(req(i))
  BY DEF BufShape, busy
<1>2. buf[i].state # "WAIT" /\ buf[i].state # "CMD"
  BY <1>1, EntryStep
<1>3. buf[i].state # "RESP"
  <2>1. Answered(i).state = "DONE"
    BY DEF Answered
  <2> QED
    BY <1>1, <2>1, EntryStep
<1>4. buf[i].state = "DONE"
  BY <1>1, <1>2, <1>3 DEF States
<1> QED
  BY <1>1, <1>4, EntryStep

LEMMA FrozenStep ==
  ASSUME BufferInv, Frozen, NEW clk_en \in BOOLEAN, NEW packet, NEW lower, NEW up, NEW flush_dc3, NEW kill,
         NEW branch, NEW hold, NEW freeze,
         kill => lower, lower => flush_dc3, freeze <=> ld_freeze_dc3 /\ ~lower,
         PipeEdge(packet, lower, up, flush_dc3, kill, hold, freeze),
         FreezeEdge(hold, branch, lower, up, flush_dc3, freeze),
         IbufEdge(up, kill, freeze), BufEdge(clk_en, up, kill, freeze)
  PROVE  Frozen'
<1> SUFFICES ASSUME ld_freeze_dc3' PROVE Frozen'
  BY DEF Frozen
<1>1. /\ Base /\ OwnersInv /\ BufShape /\ FreezePtr \in Entries
      /\ Stage(dc3) /\ Stage(dc4)
  BY DEF BufferInv, Base, Shapes, Freeze, OwnersInv, Requests
<1>2. /\ ld_freeze_dc3 \/ ld_freeze_en(hold, up, freeze)
      /\ ~flush_dc3 /\ ~load_answered /\ ~lower /\ ~kill
  BY DEF FreezeEdge
<1>3. CASE ~ld_freeze_dc3
  <2>1. dc2.valid /\ ~up /\ dc2.op = "load" /\ ~ld_full_hit_dc2(up) /\ ~freeze
    BY <1>2, <1>3 DEF ld_freeze_en, busreq_dc2
  <2>2. dc3' = InDc3(dc2, up, hold)
    BY <2>1 DEF PipeEdge
  <2>3. InDc3(dc2, up, hold).busreq /\ InDc3(dc2, up, hold).op = "load"
    BY <2>1, Zenon DEF InDc3
  <2> QED
    BY <2>2, <2>3 DEF Frozen
<1>4. CASE ld_freeze_dc3
  <2>1. freeze
    BY <1>2, <1>4
  <2>2. dc3' = [dc3 EXCEPT !.busreq = FALSE]
    BY <2>1 DEF PipeEdge
  <2>3. dc3'.op = "load" /\ dc3'.id = dc3.id
    BY <1>4, <2>2 DEF Frozen
  <2>4. CASE dc3.busreq
    <3>1. FreezePtr' = WrPtr0_dc3
      BY <1>4, <2>4 DEF FreezeEdge, FreezePtrEn, Frozen
    <3>2. dc4' = InDc4(flush_dc3, lower, freeze)
      BY DEF PipeEdge
    <3>3. dc4'.busreq /\ dc4'.op = dc3.op /\ dc4'.ptr0 = WrPtr0_dc3 /\ dc4'.id = dc3.id
      BY <1>2, <2>4, <3>2 DEF InDc4
    <3>4. dc4'.op = "load"
      BY <1>4, <3>3 DEF Frozen
    <3> QED
      BY <2>3, <3>1, <3>3, <3>4 DEF Frozen
  <2>5. CASE ~dc3.busreq
    <3> PICK i \in Entries : i = FreezePtr
      BY <1>1
    <3>1. FreezePtr = i /\ FreezePtr' = i /\ ~buf_rst(i)
      BY <1>2, <1>4, <2>5 DEF FreezeEdge, FreezePtrEn, load_answered
    <3>2. CASE dc4.busreq /\ dc4.op = "load" /\ dc4.ptr0 = i /\ dc4.id = dc3.id
      <4>1. dc5' = [dc4 EXCEPT !.valid = @ /\ ~lower]
        BY <1>2, <3>2 DEF PipeEdge, InDc5
      <4>2. dc5'.busreq /\ dc5'.op = "load" /\ dc5'.ptr0 = i /\ dc5'.id = dc3.id
        BY <1>1, <3>2, <4>1 DEF Stage
      <4> QED
        BY <2>3, <3>1, <4>2 DEF Frozen
    <3>3. CASE dc5.busreq /\ dc5.op = "load" /\ dc5.ptr0 = i /\ dc5.id = dc3.id
      <4>1. accepted(kill, freeze)
        BY <2>1, <3>3 DEF accepted
      <4>2. \/ ibuf'.valid /\ ibuf'.tag = i /\ ~ibuf'.req.write /\ ibuf'.req.id = dc3.id
            \/ busy(i)' /\ ~req(i)'.write /\ req(i)'.id = dc3.id
        BY <1>1, <3>1, <3>3, <4>1, LoadLeavesDc5
      <4> QED
        BY <2>3, <3>1, <3>3, <4>2 DEF Frozen, busy, req
    <3>4. CASE ibuf.valid /\ ibuf.tag = i /\ ~ibuf.req.write /\ ibuf.req.id = dc3.id
      <4>1. New(i, up, kill, freeze) # {}
        BY <3>4, LoadsDrain, DrainedHasEntry
      <4>2. New(i, up, kill, freeze) = {DrainedIbuf(up, kill)} /\ ibuf_drain_vld(up, kill, freeze)
        BY <3>4, LoadsDrain DEF New
      <4>3. i # dc5.ptr0 \/ ~lo_direct(up, kill, freeze)
        BY <1>1, <3>4, Dc5Ptrs DEF Tagged, lo_direct, accepted
      <4>4. i # dc5.ptr1 \/ ~hi_direct(up, kill, freeze)
        BY <1>1, <3>4, Dc5Ptrs DEF Tagged, hi_direct, accepted
      <4>5. /\ buf'[i].state = IF clk_en THEN "CMD" ELSE "WAIT"
            /\ Same(req(i)', ibuf.req)
        BY <1>1, <4>1, <4>3, <4>4, Arrives
      <4> QED
        BY <2>3, <3>1, <3>4, <4>5 DEF Frozen, busy, req, Same
    <3>5. CASE busy(i) /\ ~req(i).write /\ req(i).id = dc3.id
      <4>1. busy(i)'
        BY <1>1, <3>1, <3>5, LoadLeavesWhenAnswered
      <4>2. Same(req(i)', req(i))
        BY <1>1, <3>5, <4>1, EntryKeeps
      <4> QED
        BY <2>3, <3>1, <3>5, <4>1, <4>2 DEF Frozen, busy, req, Same
    <3> QED
      BY <1>4, <2>5, <3>1, <3>2, <3>3, <3>4, <3>5 DEF Frozen
  <2> QED
    BY <2>4, <2>5
<1> QED
  BY <1>3, <1>4

LEMMA FrozenInvStep == FrozenInv /\ [Next]_vars => FrozenInv'
<1> SUFFICES ASSUME FrozenInv, [Next]_vars PROVE FrozenInv'
  OBVIOUS
<1>1. BufferInv /\ Frozen
  BY DEF FrozenInv
<1>2. BufferInv'
  BY <1>1, BufferStep
<1>3. CASE Next
  <2>1. PICK clk_en, packet, lower, kill, branch, hold, ready, reads, writes, error :
          ClockEdge(clk_en, packet, lower, kill, branch, hold, ready, reads, writes, error)
    BY <1>3, NextIsEdge
  <2> DEFINE freeze == lsu_freeze_dc3(lower)
             up == lower \/ flush_e3 # "none"
             flush_dc3 == lower \/ flush_e3 = "i0"
  <2>2. /\ kill => lower
        /\ lower => flush_dc3
        /\ freeze <=> ld_freeze_dc3 /\ ~lower
    BY <2>1 DEF ClockEdge, lsu_freeze_dc3
  <2>3. /\ PipeEdge(packet, lower, up, flush_dc3, kill, hold, freeze)
        /\ FreezeEdge(hold, branch, lower, up, flush_dc3, freeze)
        /\ IbufEdge(up, kill, freeze) /\ BufEdge(clk_en, up, kill, freeze)
        /\ clk_en \in BOOLEAN
    BY <2>1 DEF ClockEdge, Edge
  <2> HIDE DEF freeze, up, flush_dc3
  <2>4. Frozen'
    BY <1>1, <2>2, <2>3, FrozenStep
  <2> QED
    BY <1>2, <2>4 DEF FrozenInv
<1>4. CASE UNCHANGED vars
  <2>1. UNCHANGED <<buf, ibuf, dc3, dc4, dc5, ld_freeze_dc3, FreezePtr>>
    BY <1>4 DEF vars
  <2>2. Frozen'
    BY <1>1, <2>1 DEF Frozen, busy, req
  <2> QED
    BY <1>2, <2>2 DEF FrozenInv
<1> QED
  BY <1>3, <1>4

(* When the answer is there, the request is in the entry of FreezePtr and nowhere
   else: an entry that is taken is not also waited for. *)
LEMMA AnswerIsOfTheFrozen ==
  ASSUME FrozenInv, load_answered
  PROVE  dc3.op = "load" /\ req(FreezePtr).id = dc3.id /\ ~req(FreezePtr).write
<1>1. /\ OwnersInv /\ FreezePtr \in Entries /\ Frozen
  BY DEF FrozenInv, BufferInv, Base, Freeze
<1>2. ld_freeze_dc3 /\ ~FreezePtrEn /\ buf[FreezePtr].state = "DONE"
  BY DEF load_answered, buf_rst
<1>3. dc3.op = "load" /\ ~dc3.busreq
  BY <1>1, <1>2 DEF Frozen, FreezePtrEn
<1>4. FreezePtr \in Taken
  BY <1>1, <1>2 DEF Taken
<1>5. /\ dc4.busreq => dc4.ptr0 # FreezePtr
      /\ dc5.busreq => dc5.ptr0 # FreezePtr
      /\ ibuf.valid => ibuf.tag # FreezePtr
  BY <1>1, <1>4 DEF OwnersInv, Owners, ptrs, Tagged
<1> QED
  BY <1>1, <1>2, <1>3, <1>5 DEF Frozen

(* The answer that thaws the pipe is the one to the load that froze it, however the
   entry of FreezePtr was used before. *)
THEOREM ThawedByItsOwnAnswer == Spec => NeverThawedByAnother
<1>1. Init => FrozenInv
  <2>1. Init => Frozen
    BY DEF Init, Frozen
  <2> QED
    BY <2>1, BufferInit DEF FrozenInv
<1>2. FrozenInv /\ [Next]_vars => FrozenInv'
  BY FrozenInvStep
<1>3. FrozenInv => FrozenLoadIsAnswered
  BY AnswerIsOfTheFrozen DEF FrozenLoadIsAnswered
<1> QED
  BY <1>1, <1>2, <1>3, PTL DEF Spec, NeverThawedByAnother

-----------------------------------------------------------------------------
(* The bytes.  An access is in one place at a time, and its place and age say whether
   it is ahead of another; two to one word are one ahead of the other.  The stores to
   a byte, from memory to the youngest, have rising numbers, the last of them what the
   program made of the byte, and a load expects the last of those ahead of it.      *)

(* Where an access is, from its arrival in the buffers until the memory has answered
   it: on the bus, in the output buffer, waiting in its entry, in the input buffer. *)
answered(i) == rsp_read_for(i) \/ rsp_write_for(i)
in_obuf(i) == obuf.valid /\ (obuf.tag0 = i \/ (obuf.merge /\ obuf.tag1 = i))
on_bus(i) == buf[i].state = "RESP" /\ ~in_obuf(i) /\ ~answered(i)
waits(i) == pending(i) /\ ~buf_cmd_state_bus_en(i)
in_ibuf(i) == ibuf.valid /\ ibuf.tag = i
Here(i) == on_bus(i) \/ in_obuf(i) \/ waits(i) \/ in_ibuf(i)
access(i) == IF in_ibuf(i) THEN ibuf.req ELSE req(i)

(* The order in which they reach the memory. *)
Ahead(i, j) ==
  \/ on_bus(i) /\ (in_obuf(j) \/ waits(j) \/ in_ibuf(j))
  \/ in_obuf(i) /\ (waits(j) \/ in_ibuf(j))
  \/ waits(i) /\ (in_ibuf(j) \/ (waits(j) /\ i \in age(j)))

(* The halves of a load are in two words, and in one bus word if they go together. *)
Apart(r, s) == r.word # s.word /\ (r.samedw => dword(r.word) = dword(s.word))
TwinWords ==
  /\ \A i, j \in Entries :
       busy(i) /\ busy(j) /\ half(req(i)) /\ req(i).dualtag = j => Apart(req(i), req(j))
  /\ ibuf.valid /\ half(ibuf.req) => Apart(ibuf.req, req(ibuf.req.dualtag))

(* A transaction that the slave has taken half of has none before it in its bus word. *)
HalfTaken ==
  obuf.valid /\ (obuf.cmd_done \/ obuf.data_done) => obuf.write /\ ~bus_addr_match_pending

(* Two accesses to one word are one ahead of the other. *)
OneAhead ==
  \A i, j \in Entries :
    i # j /\ Here(i) /\ Here(j) /\ access(i).word = access(j).word => Ahead(i, j) \/ Ahead(j, i)

-----------------------------------------------------------------------------

(* What is in the output buffer is in CMD or has just been sent, and in no other place. *)
LEMMA InObufState ==
  ASSUME AnswersInv, NEW i \in Entries, in_obuf(i)
  PROVE  /\ obuf.valid /\ busy(i) /\ buf[i].state = (IF obuf_wr_enQ THEN "CMD" ELSE "RESP")
         /\ obuf_wr_enQ => buf_cmd_state_bus_en(i)
         /\ req(i).write = obuf.write
         /\ ~answered(i) /\ ~waits(i) /\ ~in_ibuf(i)
         /\ obuf.write => i = obuf.tag0
         /\ i # obuf.tag0 => /\ low_half(obuf.tag0) /\ i = req(obuf.tag0).dualtag /\ same_dword_load(i)
                             /\ req(i).dualhi /\ req(i).dualtag = obuf.tag0 /\ obuf.tag0 \in Entries
<1>1. /\ BufShape /\ Base /\ Halves /\ Together /\ Sent /\ OutputBuffer /\ OnBus /\ Ages /\ OwnersInv
  BY DEF AnswersInv, BufferInv, Base, Shapes
<1> DEFINE k == obuf.tag0
<1>2. /\ obuf.valid /\ k \in Entries /\ buf[k].state = (IF obuf_wr_enQ THEN "CMD" ELSE "RESP")
      /\ req(k).write = obuf.write /\ obuf.merge = same_dword_load(k)
      /\ obuf.tag1 = (IF obuf.merge THEN req(k).dualtag ELSE k)
      /\ (same_dword_load(k) => ~req(k).dualhi) /\ ~OnTheWay(k) /\ obuf_wr_enQ \in BOOLEAN
  BY <1>1 DEF in_obuf, Sent, OutputBuffer
<1>3. obuf_wr_enQ => buf_cmd_state_bus_en(k)
  BY <1>2 DEF buf_cmd_state_bus_en
<1> HIDE DEF k
<1>4. busy(k)
  BY <1>2 DEF busy
<1>5. CASE i = k
  <2>1. ~answered(i)
    <3>1. bus_rsp_read.valid => bus_rsp_read.tag # i
      BY <1>2, <1>5 DEF OnTheWay
    <3>2. bus_rsp_write.valid => bus_rsp_write.tag # i
      BY <1>2, <1>5 DEF OnTheWay
    <3> QED
      BY <1>2, <1>5, <3>1, <3>2 DEF answered, rsp_read_for, rsp_write_for
  <2>2. ~in_ibuf(i)
    BY <1>1, <1>4, <1>5 DEF in_ibuf, OwnersInv, Owners, Tagged, Taken, busy
  <2>3. ~waits(i)
    BY <1>2, <1>3, <1>5 DEF waits, pending
  <2> QED
    BY <1>2, <1>3, <1>4, <1>5, <2>1, <2>2, <2>3 DEF k
<1>6. CASE i # k
  <2>1. obuf.merge /\ obuf.tag1 = i
    BY <1>6 DEF in_obuf, k
  <2>2. same_dword_load(k) /\ i = req(k).dualtag /\ low_half(k) /\ ~req(k).write
    BY <1>2, <1>4, <2>1 DEF low_half, same_dword_load
  <2>3. busy(i)
    <3> SUFFICES ASSUME ~busy(i) PROVE FALSE
      OBVIOUS
    <3>1. pending(k) /\ age(k) # {}
      BY <1>1, <1>2, <2>2, LowHalf
    <3>2. ~buf_cmd_state_bus_en(k)
      BY <1>1, <1>2, <3>1 DEF Ages
    <3> QED
      BY <1>2, <1>3, <3>1, <3>2 DEF pending
  <2>4. same_dword_load(i) /\ req(i).dualhi /\ req(i).dualtag = k /\ ~req(i).write
    BY <1>1, <1>2, <2>2, <2>3, LowHalf DEF same_dword_load
  <2>5. buf[i].state \in States /\ buf[i].state # "IDLE"
    BY <1>1, <2>3 DEF BufShape, busy
  <2>6. /\ buf[i].state = "WAIT" => \/ buf[k].state = "WAIT"
                                    \/ buf[k].state = "CMD" /\ ~buf_cmd_state_bus_en(k)
        /\ buf[i].state = "CMD" => buf[k].state = "CMD" /\ (buf_cmd_state_bus_en(i) <=> buf_cmd_state_bus_en(k))
        /\ buf[k].state \in {"RESP", "DONE"} => buf[i].state = buf[k].state
        /\ buf[i].state \in {"RESP", "DONE"} => buf[i].state = buf[k].state
    BY <1>1, <1>2, <2>2 DEF Together
  <2>7. buf[i].state = (IF obuf_wr_enQ THEN "CMD" ELSE "RESP") /\ (obuf_wr_enQ => buf_cmd_state_bus_en(i))
    BY <1>2, <1>3, <2>5, <2>6 DEF States
  <2>8. ~answered(i)
    <3>1. bus_rsp_read.valid => bus_rsp_read.tag # k /\ bus_rsp_read.tag # i
      BY <1>1, <1>2, <2>4 DEF OnTheWay, OnBus, Awaits
    <3>2. bus_rsp_write.valid => bus_rsp_write.tag # i
      BY <1>1, <2>4 DEF OnBus, Awaits
    <3> QED
      BY <2>4, <3>1, <3>2 DEF answered, rsp_read_for, rsp_write_for
  <2>9. ~in_ibuf(i)
    BY <1>1, <2>3 DEF in_ibuf, OwnersInv, Owners, Tagged, Taken, busy
  <2>10. ~waits(i)
    BY <2>7, <1>2 DEF waits, pending
  <2>11. req(i).write = obuf.write /\ obuf.write = FALSE
    <3>1. IsRequest(req(i)) /\ IsRequest(req(k))
      BY <1>1, <1>2, <1>4, <2>3 DEF BufShape, busy
    <3> QED
      BY <1>2, <2>2, <2>4, <3>1 DEF IsRequest
  <2> QED
    BY <1>2, <1>6, <2>2, <2>3, <2>4, <2>7, <2>8, <2>9, <2>10, <2>11 DEF k
<1> QED
  BY <1>5, <1>6

(* Both halves of a load that goes out in one transaction are in its bus word. *)
LEMMA InObufDword ==
  ASSUME AnswersInv, TwinWords, NEW i \in Entries, in_obuf(i)
  PROVE  dword(req(i).word) = obuf.dword
<1>1. obuf.valid /\ busy(i)
  BY InObufState
<1>2. dword(req(obuf.tag0).word) = obuf.dword
  BY <1>1 DEF AnswersInv, Sent
<1>3. CASE i # obuf.tag0
  <2>1. /\ low_half(obuf.tag0) /\ i = req(obuf.tag0).dualtag /\ obuf.tag0 \in Entries
    BY <1>3, InObufState
  <2>2. busy(obuf.tag0) /\ half(req(obuf.tag0)) /\ req(obuf.tag0).samedw
    BY <2>1 DEF low_half, same_dword_load, half
  <2> QED
    BY <1>1, <1>2, <2>1, <2>2 DEF TwinWords, Apart
<1> QED
  BY <1>2, <1>3

(* An access is in one place. *)
Places ==
  \A i \in Entries :
    /\ on_bus(i) => ~in_obuf(i) /\ ~waits(i) /\ ~in_ibuf(i) /\ buf[i].state = "RESP"
    /\ in_obuf(i) => ~waits(i) /\ ~in_ibuf(i) /\ ~answered(i) /\ busy(i)
    /\ waits(i) => ~in_ibuf(i)
    /\ Here(i) /\ ~in_ibuf(i) => busy(i)
    /\ in_ibuf(i) => ~busy(i)
LEMMA OnePlaceEach == AnswersInv => Places
<1> SUFFICES ASSUME AnswersInv, NEW i \in Entries
             PROVE  /\ on_bus(i) => ~in_obuf(i) /\ ~waits(i) /\ ~in_ibuf(i) /\ buf[i].state = "RESP"
                    /\ in_obuf(i) => ~waits(i) /\ ~in_ibuf(i) /\ ~answered(i) /\ busy(i)
                    /\ waits(i) => ~in_ibuf(i)
                    /\ Here(i) /\ ~in_ibuf(i) => busy(i)
                    /\ in_ibuf(i) => ~busy(i)
  BY DEF Places
<1>1. in_ibuf(i) => buf[i].state = "IDLE"
  BY DEF AnswersInv, BufferInv, Base, OwnersInv, Owners, Tagged, Taken, in_ibuf
<1>2. in_obuf(i) => ~waits(i) /\ ~in_ibuf(i) /\ busy(i) /\ ~answered(i)
  BY InObufState
<1>3. on_bus(i) => buf[i].state = "RESP" /\ ~in_obuf(i) /\ ~waits(i)
  BY DEF on_bus, waits, pending
<1> QED
  BY <1>1, <1>2, <1>3 DEF Here, waits, pending, busy

LEMMA OnePlace ==
  ASSUME AnswersInv, NEW i \in Entries
  PROVE  /\ on_bus(i) => ~in_obuf(i) /\ ~waits(i) /\ ~in_ibuf(i) /\ buf[i].state = "RESP"
         /\ in_obuf(i) => ~waits(i) /\ ~in_ibuf(i)
         /\ waits(i) => ~in_ibuf(i)
         /\ Here(i) /\ ~in_ibuf(i) => busy(i)
         /\ in_ibuf(i) => ~busy(i)
BY OnePlaceEach DEF Places

(* Of two accesses at most one is ahead of the other. *)
AheadSound == \A i, j \in Entries : Ahead(i, j) => ~Ahead(j, i) /\ i # j /\ Here(i) /\ Here(j)
LEMMA AheadAsym == AnswersInv => AheadSound
<1> SUFFICES ASSUME AnswersInv, NEW i \in Entries, NEW j \in Entries, Ahead(i, j)
             PROVE  ~Ahead(j, i) /\ i # j /\ Here(i) /\ Here(j)
  BY DEF AheadSound
<1>1. ~(i \in age(j) /\ j \in age(i)) /\ i \notin age(i)
  BY DEF AnswersInv, BufferInv, Ages, age
<1> QED
  BY <1>1, OnePlace DEF Ahead, Here

-----------------------------------------------------------------------------

(* What the output buffer sends, it may. *)
LEMMA SentIsFree ==
  ASSUME HalfTaken, OutputBuffer, NEW ready, bus_cmd_sent(ready)
  PROVE  obuf.valid /\ ~bus_addr_match_pending
<1>1. obuf.valid /\ DOMAIN obuf = OutFields /\ obuf.write \in BOOLEAN
      /\ obuf.cmd_done \in BOOLEAN /\ obuf.data_done \in BOOLEAN
  BY DEF bus_cmd_sent, OutputBuffer
<1>2. CASE lsu_axi_arvalid
  BY <1>2 DEF lsu_axi_arvalid
<1>3. CASE obuf.cmd_done \/ lsu_axi_awvalid
  BY <1>1, <1>3 DEF lsu_axi_awvalid, HalfTaken
<1> QED
  BY <1>1, <1>2, <1>3 DEF bus_cmd_sent, wcmd_done

(* No command overwrites one that was not sent. *)
LEMMA ReplacedIsSent ==
  ASSUME OutputBuffer, NEW up, NEW kill, NEW ready, obuf_wr_en(up, kill, ready), obuf.valid
  PROVE  bus_cmd_sent(ready)
  BY DEF obuf_wr_en, bus_cmd_ready, bus_cmd_sent, wcmd_done, wdata_done, lsu_axi_awvalid, lsu_axi_wvalid,
         lsu_axi_arvalid


(* A command that is not sent stays in the output buffer. *)
LEMMA ObufStays ==
  ASSUME OutputBuffer, NEW clk_en \in BOOLEAN, NEW up, NEW kill, NEW ready, ObufEdge(clk_en, up, kill, ready),
         obuf.valid, ~(clk_en /\ bus_cmd_sent(ready))
  PROVE  /\ obuf'.valid /\ obuf'.tag0 = obuf.tag0 /\ obuf'.tag1 = obuf.tag1 /\ obuf'.merge = obuf.merge
         /\ obuf'.write = obuf.write /\ obuf'.dword = obuf.dword /\ obuf'.data = obuf.data
         /\ clk_en => ~obuf_wr_en(up, kill, ready)
<1>1. clk_en => ~obuf_wr_en(up, kill, ready)
  BY ReplacedIsSent
<1>2. obuf'.valid
  BY <1>1, ObufKeeps
<1>3. \A f \in OutFields \ {"cmd_done", "data_done"} : obuf'[f] = obuf[f]
  BY <1>1, <1>2, ObufKeeps
<1> QED
  BY <1>1, <1>2, <1>3 DEF OutFields

(* What comes to the bus was in the output buffer. *)
LEMMA ToBus ==
  ASSUME AnswersInv,
         NEW clk_en, NEW up, NEW kill, NEW freeze, NEW ready, NEW reads, NEW writes, NEW error,
         BufferEdges(clk_en, up, kill, freeze, ready, reads, writes, error),
         NEW i \in Entries, on_bus(i)'
  PROVE  on_bus(i) \/ (in_obuf(i) /\ clk_en /\ bus_cmd_sent(ready))
<1>1. /\ clk_en \in BOOLEAN /\ BufEdge(clk_en, up, kill, freeze) /\ ObufEdge(clk_en, up, kill, ready)
      /\ BufShape /\ OutputBuffer
  BY DEF BufferEdges, AnswersInv, BufferInv, Base, Shapes
<1>2. buf'[i].state = "RESP" /\ ~in_obuf(i)' /\ ~answered(i)'
  BY DEF on_bus
<1>3. in_obuf(i) => clk_en /\ bus_cmd_sent(ready)
  BY <1>1, <1>2, ObufStays DEF in_obuf
<1>4. buf_cmd_state_bus_en(i) => in_obuf(i)
  BY DEF buf_cmd_state_bus_en, in_obuf
<1>5. CASE buf[i].state = "RESP" /\ ~(clk_en /\ answered(i)) /\ ~in_obuf(i)
  <2>1. ~clk_en => ~answered(i)
    <3>1. buf'[i] = buf[i]
      BY <1>1, <1>5, EntryStep DEF answered
    <3>2. ~clk_en => bus_rsp_read' = bus_rsp_read /\ bus_rsp_write' = bus_rsp_write
      BY BusMoves
    <3> QED
      BY <1>2, <3>1, <3>2 DEF answered, rsp_read_for, rsp_write_for, same_dword_load, req
  <2> QED
    BY <1>5, <2>1 DEF on_bus
<1> QED
  BY <1>1, <1>2, <1>3, <1>4, <1>5, Moves DEF answered

(* What comes to the output buffer waited and nothing waited before it, but its other
   half that goes with it. *)
Chosen(i, up, kill, ready) ==
  /\ obuf_wr_en(up, kill, ready) /\ in_cmd(i) /\ CmdPtr0Dec # {}
  /\ \/ i = CmdPtr0 /\ age(i) = {}
     \/ /\ low_half(CmdPtr0) /\ i = req(CmdPtr0).dualtag /\ CmdPtr0 \in Entries
        /\ age(i) \subseteq {CmdPtr0}
Passes(i, up, kill, ready) ==
  obuf_wr_en(up, kill, ready) /\ ibuf_buf_byp(up) /\ lsu_commit_dc5(kill) /\ i = dc5.ptr0
(* What comes to the output buffer was the next to send, the other half of it, or a store that passed. *)
LEMMA ToObuf ==
  ASSUME AnswersInv,
         NEW clk_en, NEW up, NEW kill, NEW freeze, NEW ready, NEW reads, NEW writes, NEW error,
         BufferEdges(clk_en, up, kill, freeze, ready, reads, writes, error),
         NEW i \in Entries, in_obuf(i)'
  PROVE  \/ in_obuf(i) /\ ~(clk_en /\ bus_cmd_sent(ready))
         \/ clk_en /\ (Chosen(i, up, kill, ready) \/ Passes(i, up, kill, ready))
<1>1. /\ clk_en \in BOOLEAN /\ BufEdge(clk_en, up, kill, freeze) /\ ObufEdge(clk_en, up, kill, ready)
      /\ Base /\ Ages /\ OutputBuffer /\ Halves /\ Together
  BY DEF BufferEdges, AnswersInv, BufferInv
<1>2. obuf'.valid /\ (obuf'.tag0 = i \/ (obuf'.merge /\ obuf'.tag1 = i))
  BY DEF in_obuf
<1>3. CASE clk_en /\ obuf_wr_en(up, kill, ready)
  <2>1. ObufEdge(TRUE, up, kill, ready)
    BY <1>1, <1>3
  <2>2. CASE ibuf_buf_byp(up) /\ lsu_commit_dc5(kill) /\ Holds(obuf', LoHalf(up), dc5.ptr0, dc5.ptr0, FALSE)
    BY <1>2, <1>3, <2>2 DEF Holds, Passes
  <2>3. CASE CmdPtr0Dec # {} /\ Holds(obuf', req(CmdPtr0), CmdPtr0, CmdPtr0, FALSE)
    <3>1. i = CmdPtr0
      BY <1>2, <2>3 DEF Holds
    <3> QED
      BY <1>1, <1>3, <2>3, <3>1, Cmd0 DEF Chosen
  <2>4. CASE CmdPtr0Dec # {} /\ CmdPtr1Dec # {} /\ obuf_merge_en /\ Holds(obuf', req(CmdPtr0), CmdPtr0, CmdPtr1, TRUE)
    <3>1. i = CmdPtr0 \/ i = CmdPtr1
      BY <1>2, <2>4 DEF Holds
    <3>2. same_dword_load(CmdPtr0)
      BY <2>4 DEF obuf_merge_en
    <3>3. low_half(CmdPtr0) /\ CmdPtr1 = req(CmdPtr0).dualtag
      BY <1>1, <2>4, <3>2, FirstIsLow
    <3> QED
      BY <1>1, <1>3, <2>4, <3>1, <3>3, Cmd0, Cmd1 DEF Chosen
  <2> QED
    BY <1>1, <1>3, <2>1, <2>2, <2>3, <2>4, ObufTakes
<1>4. CASE ~(clk_en /\ obuf_wr_en(up, kill, ready))
  <2>1. /\ obuf.valid /\ \A f \in OutFields \ {"cmd_done", "data_done"} : obuf'[f] = obuf[f]
        /\ ~(clk_en /\ bus_cmd_sent(ready))
    <3>1. obuf.valid /\ \A f \in OutFields \ {"cmd_done", "data_done"} : obuf'[f] = obuf[f]
      BY <1>1, <1>2, <1>4, ObufKeeps
    <3>2. clk_en /\ bus_cmd_sent(ready) => obuf'.valid = FALSE
      BY <1>1, <1>4, ObufKeeps
    <3> QED
      BY <1>2, <3>1, <3>2
  <2> QED
    BY <1>2, <2>1 DEF in_obuf, OutFields
<1> QED
  BY <1>3, <1>4

(* What waits has come or has waited, and waits on until it is in the output buffer. *)
LEMMA ToWait ==
  ASSUME AnswersInv,
         NEW clk_en, NEW up, NEW kill, NEW freeze, NEW ready, NEW reads, NEW writes, NEW error,
         BufferEdges(clk_en, up, kill, freeze, ready, reads, writes, error),
         NEW i \in Entries
  PROVE  /\ waits(i)' => waits(i) \/ New(i, up, kill, freeze) # {}
         /\ waits(i) \/ New(i, up, kill, freeze) # {} => waits(i)' \/ (clk_en /\ in_obuf(i)')
<1>1. /\ clk_en \in BOOLEAN /\ BufEdge(clk_en, up, kill, freeze) /\ ObufEdge(clk_en, up, kill, ready)
      /\ Base /\ Ages /\ BufShape /\ OwnersInv
  BY DEF BufferEdges, AnswersInv, BufferInv, Base, Shapes
<1>2. ~clk_en => (buf_cmd_state_bus_en(i)' <=> buf_cmd_state_bus_en(i))
  BY <1>1, LeavesStep
<1>3. buf_cmd_state_bus_en(i)' => in_obuf(i)'
  BY DEF buf_cmd_state_bus_en, in_obuf
<1>4. buf_cmd_state_bus_en(i) => pending(i)
  BY DEF buf_cmd_state_bus_en, pending
<1>5. New(i, up, kill, freeze) # {} => buf[i].state = "IDLE" /\ ~pending(i)
  BY <1>1, NewEntry DEF pending
<1> QED
  BY <1>1, <1>2, <1>3, <1>4, <1>5, WaitingStep DEF waits

-----------------------------------------------------------------------------

(* An answer that arrives is that of a transaction the entry had on the bus. *)
AnswersFor(t, i) ==
  t.tag = i \/ (same_dword_load(i) /\ req(i).dualhi /\ t.tag = req(i).dualtag)
AnswerIn(i, transactions) == \E t \in bus : t \in transactions /\ AnswersFor(t, i)
LEMMA AnswerComes ==
  ASSUME NEW clk_en, NEW up, NEW kill, NEW freeze, NEW ready, NEW reads, NEW writes, NEW error,
         BufferEdges(clk_en, up, kill, freeze, ready, reads, writes, error),
         NEW i \in Entries, req(i)' = req(i)
  PROVE  /\ answered(i)' => answered(i) \/ AnswerIn(i, reads \cup writes)
         /\ clk_en = FALSE => (answered(i)' <=> answered(i))
<1>1. /\ clk_en /\ bus_rsp_read'.valid =>
           \E t \in bus : t \in reads /\ ~t.write /\ bus_rsp_read'.tag = t.tag
      /\ clk_en /\ bus_rsp_write'.valid =>
           \E t \in bus : t \in writes /\ t.write /\ bus_rsp_write'.tag = t.tag
  BY BusMoves
<1>2. ~clk_en => bus_rsp_read' = bus_rsp_read /\ bus_rsp_write' = bus_rsp_write
  BY BusMoves
<1>3. same_dword_load(i)' <=> same_dword_load(i)
  BY DEF same_dword_load
<1>4. rsp_read_for(i)' <=> (bus_rsp_read'.valid /\ (bus_rsp_read'.tag = i
          \/ (same_dword_load(i) /\ req(i).dualhi /\ bus_rsp_read'.tag = req(i).dualtag)))
  BY <1>3 DEF rsp_read_for
<1>5. rsp_write_for(i)' <=> bus_rsp_write'.valid /\ bus_rsp_write'.tag = i
  BY DEF rsp_write_for
<1>6. ASSUME clk_en, answered(i)'
      PROVE  \E t \in bus : t \in reads \cup writes /\ AnswersFor(t, i)
  <2>1. CASE rsp_read_for(i)'
    BY <1>1, <1>4, <1>6, <2>1 DEF AnswersFor
  <2>2. CASE rsp_write_for(i)'
    BY <1>1, <1>5, <1>6, <2>2 DEF AnswersFor
  <2> QED
    BY <1>6, <2>1, <2>2 DEF answered
<1>7. ASSUME clk_en, answered(i)' PROVE AnswerIn(i, reads \cup writes)
  BY <1>6, <1>7 DEF AnswerIn
<1>8. ASSUME ~clk_en PROVE answered(i)' <=> answered(i)
  BY <1>2, <1>4, <1>5, <1>8 DEF answered, rsp_read_for, rsp_write_for
<1>9. clk_en \in BOOLEAN
  BY DEF BufferEdges
<1> QED
  BY <1>7, <1>8, <1>9

(* A transaction is that of an access on the bus. *)
LEMMA TransactionOnBus ==
  ASSUME AnswersInv, NEW t \in bus
  PROVE  /\ t.tag \in Entries /\ on_bus(t.tag) /\ req(t.tag).write = t.write
         /\ same_dword_load(t.tag) => ~req(t.tag).dualhi
<1>1. /\ t.tag \in Entries /\ buf[t.tag].state = "RESP" /\ req(t.tag).write = t.write
      /\ same_dword_load(t.tag) => ~req(t.tag).dualhi
  BY DEF AnswersInv, OnBus, Awaits
<1>2. ~answered(t.tag)
  <2>1. /\ bus_rsp_read.valid => t.tag # bus_rsp_read.tag
        /\ bus_rsp_write.valid => t.tag # bus_rsp_write.tag
    BY DEF AnswersInv, OnBus
  <2> QED
    BY <1>1, <2>1 DEF answered, rsp_read_for, rsp_write_for
<1>3. ~in_obuf(t.tag)
  <2> SUFFICES ASSUME in_obuf(t.tag) PROVE FALSE
    OBVIOUS
  <2>1. obuf.valid /\ ~OnTheWay(obuf.tag0)
    BY DEF in_obuf, AnswersInv, Sent
  <2>2. t.tag # obuf.tag0
    BY <2>1 DEF OnTheWay
  <2>3. same_dword_load(t.tag) /\ req(t.tag).dualhi
    BY <1>1, <2>2, InObufState
  <2> QED
    BY <1>1, <2>3
<1> QED
  BY <1>1, <1>2, <1>3 DEF on_bus

(* An access leaves the bus only when it is answered. *)
LEMMA FromBus ==
  ASSUME AnswersInv,
         NEW clk_en, NEW up, NEW kill, NEW freeze, NEW ready, NEW reads, NEW writes, NEW error,
         BufferEdges(clk_en, up, kill, freeze, ready, reads, writes, error),
         NEW i \in Entries, on_bus(i)
  PROVE  /\ buf'[i].state = "RESP" /\ req(i)' = req(i) /\ ~in_obuf(i)'
         /\ ~on_bus(i)' => clk_en /\ answered(i)'
<1>1. /\ clk_en \in BOOLEAN /\ BufEdge(clk_en, up, kill, freeze) /\ BufShape /\ Base
  BY DEF BufferEdges, AnswersInv, BufferInv, Base, Shapes
<1>2. buf[i].state = "RESP" /\ ~answered(i) /\ ~in_obuf(i)
  BY DEF on_bus
<1>3. buf'[i] = buf[i]
  BY <1>1, <1>2, EntryStep DEF answered
<1>4. req(i)' = req(i)
  BY <1>3 DEF req
<1>5. ~Chosen(i, up, kill, ready)
  BY <1>2 DEF Chosen, in_cmd
<1>6. ~Passes(i, up, kill, ready)
  <2> SUFFICES ASSUME Passes(i, up, kill, ready) PROVE FALSE
    OBVIOUS
  <2> QED
    BY <1>1, <1>2, BypassEntry DEF Passes
<1>7. ~in_obuf(i)'
  BY <1>2, <1>5, <1>6, ToObuf
<1>8. ~clk_en => ~answered(i)'
  <2>1. clk_en = FALSE => (answered(i)' <=> answered(i))
    BY <1>4, AnswerComes
  <2> QED
    BY <1>1, <1>2, <2>1
<1> QED
  BY <1>2, <1>3, <1>4, <1>7, <1>8 DEF on_bus

(* An access leaves the output buffer only for the bus. *)
LEMMA FromObuf ==
  ASSUME AnswersInv,
         NEW clk_en, NEW up, NEW kill, NEW freeze, NEW ready, NEW reads, NEW writes, NEW error,
         BufferEdges(clk_en, up, kill, freeze, ready, reads, writes, error),
         NEW i \in Entries, in_obuf(i)
  PROVE  /\ req(i)' = req(i)
         /\ clk_en /\ bus_cmd_sent(ready) => on_bus(i)'
         /\ ~(clk_en /\ bus_cmd_sent(ready)) => in_obuf(i)'
<1>1. /\ clk_en \in BOOLEAN /\ BufEdge(clk_en, up, kill, freeze) /\ BufShape /\ Base /\ OutputBuffer
      /\ ObufEdge(clk_en, up, kill, ready)
  BY DEF BufferEdges, AnswersInv, BufferInv, Base, Shapes
<1>2. /\ obuf.valid /\ busy(i) /\ buf[i].state = (IF obuf_wr_enQ THEN "CMD" ELSE "RESP") /\ ~answered(i)
      /\ obuf_wr_enQ => buf_cmd_state_bus_en(i)
  BY InObufState
<1>3. req(i)' = req(i)
  <2>1. CASE buf[i].state = "RESP"
    <3>1. buf'[i] = buf[i]
      BY <1>1, <1>2, <2>1, EntryStep DEF answered
    <3> QED
      BY <3>1 DEF req
  <2>2. CASE buf[i].state = "CMD"
    BY <1>1, <2>2, EntryStep DEF req
  <2> QED
    BY <1>2, <2>1, <2>2
<1>4. ASSUME ~(clk_en /\ bus_cmd_sent(ready)) PROVE in_obuf(i)'
  BY <1>1, <1>2, <1>4, ObufStays DEF in_obuf
<1>5. ASSUME clk_en, bus_cmd_sent(ready) PROVE on_bus(i)'
  <2>1. buf'[i].state = "RESP"
    <3>1. CASE buf[i].state = "RESP"
      <4>1. buf'[i] = buf[i]
        BY <1>1, <1>2, <3>1, EntryStep DEF answered
      <4> QED
        BY <3>1, <4>1
    <3>2. CASE buf[i].state = "CMD"
      <4>1. buf_cmd_state_bus_en(i)
        BY <1>2, <3>2
      <4> QED
        BY <1>1, <1>5, <3>2, <4>1, EntryStep
    <3> QED
      BY <1>2, <3>1, <3>2
  <2>2. ~Chosen(i, up, kill, ready)
    BY <1>2 DEF Chosen, in_cmd
  <2>3. ~Passes(i, up, kill, ready)
    <3> SUFFICES ASSUME Passes(i, up, kill, ready) PROVE FALSE
      OBVIOUS
    <3> QED
      BY <1>1, <1>2, BypassEntry DEF Passes, busy
  <2>4. ~in_obuf(i)'
    BY <1>5, <2>2, <2>3, ToObuf
  <2>5. ~answered(i)'
    <3> SUFFICES ASSUME answered(i)' PROVE FALSE
      OBVIOUS
    <3>1. PICK t \in bus : AnswersFor(t, i)
      BY <1>2, <1>3, <1>5, AnswerComes DEF AnswerIn
    <3>2. on_bus(t.tag) /\ (same_dword_load(t.tag) => ~req(t.tag).dualhi)
      BY TransactionOnBus
    <3>3. t.tag # i /\ same_dword_load(i) /\ req(i).dualhi /\ t.tag = req(i).dualtag
      BY <3>1, <3>2 DEF AnswersFor, on_bus
    <3>4. obuf.tag0 # t.tag
      BY <1>2, <3>2 DEF in_obuf, on_bus
    <3>5. i # obuf.tag0
      BY <1>2, <3>3 DEF AnswersInv, Sent
    <3> QED
      BY <3>3, <3>4, <3>5, InObufState
  <2> QED
    BY <2>1, <2>4, <2>5 DEF on_bus
<1> QED
  BY <1>3, <1>4, <1>5

-----------------------------------------------------------------------------

(* The request in dc5 comes to the entries it was given. *)
Fresh(i, kill, freeze) == accepted(kill, freeze) /\ i \in ptrs(dc5)

LEMMA FreshIsNew ==
  ASSUME AnswersInv, NEW kill, NEW freeze, NEW i \in Entries, Fresh(i, kill, freeze)
  PROVE  ~Here(i) /\ buf[i].state = "IDLE" /\ i \notin Tagged /\ dc5.busreq
<1>1. dc5.busreq /\ i \in ptrs(dc5) /\ OwnersInv
  BY DEF Fresh, accepted, AnswersInv, BufferInv, Base
<1>2. i \notin Taken /\ i \notin Tagged
  BY <1>1 DEF OwnersInv, Owners
<1>3. buf[i].state = "IDLE" /\ ~in_ibuf(i)
  BY <1>2 DEF Taken, in_ibuf, Tagged
<1>4. ~in_obuf(i)
  BY <1>3, InObufState DEF busy
<1> QED
  BY <1>1, <1>2, <1>3, <1>4 DEF Here, on_bus, waits, pending

(* The input buffer keeps its access or drains it, and takes one from dc5. *)
LEMMA IbufMoves ==
  ASSUME OwnersInv, NEW up, NEW kill, NEW freeze, IbufEdge(up, kill, freeze), NEW i \in Entries
  PROVE  /\ in_ibuf(i)' => \/ in_ibuf(i) /\ ~ibuf_drain_vld(up, kill, freeze)
                           \/ /\ ibuf_wr_en(up, kill, freeze) /\ ~merges(kill) /\ Fresh(i, kill, freeze)
                              /\ i = (IF ldst_dual(dc5) THEN dc5.ptr1 ELSE dc5.ptr0)
         /\ in_ibuf(i) => IF ibuf_drain_vld(up, kill, freeze) THEN New(i, up, kill, freeze) # {}
                                                              ELSE in_ibuf(i)'
<1>1. CASE ibuf_wr_en(up, kill, freeze) /\ merges(kill)
  <2>1. ~ibuf_drain_vld(up, kill, freeze) /\ ibuf.valid
    BY <1>1, MergedStays DEF merges, ibuf_merge_en
  <2>2. ibuf'.valid /\ ibuf'.tag = ibuf.tag
    BY <1>1 DEF IbufEdge
  <2> QED
    BY <2>1, <2>2 DEF in_ibuf
<1>2. CASE ibuf_wr_en(up, kill, freeze) /\ ~merges(kill)
  <2>1. ibuf'.valid /\ ibuf'.tag = (IF ldst_dual(dc5) THEN dc5.ptr1 ELSE dc5.ptr0)
    BY <1>2 DEF IbufEdge
  <2>2. accepted(kill, freeze) /\ dc5.busreq /\ (ibuf.valid => ibuf_drain_vld(up, kill, freeze))
    BY <1>2 DEF ibuf_wr_en, accepted, ibuf_drain_vld
  <2>3. ibuf'.tag \in ptrs(dc5)
    BY <2>1, <2>2 DEF ptrs
  <2> QED
    BY <1>2, <2>1, <2>2, <2>3, DrainedHasEntry DEF in_ibuf, Fresh
<1>3. CASE ~ibuf_wr_en(up, kill, freeze) /\ ibuf_drain_vld(up, kill, freeze)
  <2>1. ~ibuf'.valid
    BY <1>3 DEF IbufEdge, Nothing
  <2> QED
    BY <1>3, <2>1, DrainedHasEntry DEF in_ibuf
<1>4. CASE ~ibuf_wr_en(up, kill, freeze) /\ ~ibuf_drain_vld(up, kill, freeze)
  <2>1. CASE ibuf.valid /\ ibuf.timer < TIMER_MAX
    BY <1>4, <2>1 DEF IbufEdge, in_ibuf
  <2>2. CASE ~(ibuf.valid /\ ibuf.timer < TIMER_MAX)
    BY <1>4, <2>2 DEF IbufEdge, in_ibuf
  <2> QED
    BY <1>4, <2>1, <2>2
<1> QED
  BY <1>1, <1>2, <1>3, <1>4

(* An entry gets what drains or the request it was given to. *)
LEMMA NewIsFreshOrDrains ==
  ASSUME OwnersInv, NEW up, NEW kill, NEW freeze, NEW i \in Entries, New(i, up, kill, freeze) # {}
  PROVE  \/ in_ibuf(i) /\ ibuf_drain_vld(up, kill, freeze)
         \/ /\ Fresh(i, kill, freeze) /\ i = dc5.ptr0 /\ lo_direct(up, kill, freeze)
         \/ /\ Fresh(i, kill, freeze) /\ i = dc5.ptr1 /\ hi_direct(up, kill, freeze) /\ ldst_dual(dc5)
<1>1. CASE i = ibuf.tag /\ ibuf_drain_vld(up, kill, freeze)
  BY <1>1 DEF in_ibuf, ibuf_drain_vld
<1>2. CASE i = dc5.ptr1 /\ hi_direct(up, kill, freeze)
  BY <1>2 DEF Fresh, hi_direct, accepted, ptrs
<1>3. CASE i = dc5.ptr0 /\ lo_direct(up, kill, freeze)
  BY <1>3 DEF Fresh, lo_direct, accepted, ptrs
<1> QED
  BY <1>1, <1>2, <1>3, NewEntry

(* All that is in the buffers was there, or is fresh from dc5. *)
LEMMA HereOrFresh ==
  ASSUME AnswersInv,
         NEW clk_en, NEW up, NEW kill, NEW freeze, NEW ready, NEW reads, NEW writes, NEW error,
         BufferEdges(clk_en, up, kill, freeze, ready, reads, writes, error),
         NEW i \in Entries, Here(i)'
  PROVE  Here(i) \/ Fresh(i, kill, freeze)
<1>1. OwnersInv /\ IbufEdge(up, kill, freeze) /\ Base
  BY DEF BufferEdges, AnswersInv, BufferInv, Base
<1>2. CASE on_bus(i)'
  BY <1>2, ToBus DEF Here
<1>3. CASE in_obuf(i)'
  <2>1. Chosen(i, up, kill, ready) => waits(i)
    BY DEF Chosen, waits, in_cmd, pending
  <2>2. Passes(i, up, kill, ready) => Fresh(i, kill, freeze)
    <3> SUFFICES ASSUME Passes(i, up, kill, ready) PROVE Fresh(i, kill, freeze)
      OBVIOUS
    <3>1. dc5.busreq /\ lsu_commit_dc5(kill) /\ i = dc5.ptr0
      BY <1>1, Bypass DEF Passes
    <3> QED
      BY <3>1 DEF Fresh, accepted, ptrs
  <2> QED
    BY <1>3, <2>1, <2>2, ToObuf DEF Here
<1>4. CASE waits(i)'
  BY <1>1, <1>4, ToWait, NewIsFreshOrDrains DEF Here
<1>5. CASE in_ibuf(i)'
  BY <1>1, <1>5, IbufMoves DEF Here
<1> QED
  BY <1>2, <1>3, <1>4, <1>5 DEF Here

(* Only what is on the bus leaves, when it is answered. *)
LEMMA LeavesFromBus ==
  ASSUME AnswersInv,
         NEW clk_en, NEW up, NEW kill, NEW freeze, NEW ready, NEW reads, NEW writes, NEW error,
         BufferEdges(clk_en, up, kill, freeze, ready, reads, writes, error),
         NEW i \in Entries, Here(i), ~Here(i)'
  PROVE  on_bus(i) /\ clk_en /\ answered(i)' /\ req(i)' = req(i)
<1>1. OwnersInv /\ IbufEdge(up, kill, freeze)
  BY DEF BufferEdges, AnswersInv, BufferInv, Base
<1>2. CASE on_bus(i)
  BY <1>2, FromBus DEF Here
<1>3. ~in_obuf(i)
  BY FromObuf DEF Here
<1>4. ~waits(i)
  BY ToWait DEF Here
<1>5. ~in_ibuf(i)
  BY <1>1, IbufMoves, ToWait DEF Here
<1> QED
  BY <1>2, <1>3, <1>4, <1>5 DEF Here

-----------------------------------------------------------------------------

(* The places after a step, as a fact of its own. *)
LEMMA PlacesNext ==
  ASSUME AnswersInv'
  PROVE  Places'
BY OnePlaceEach, PTL

(* The order is kept. *)
LEMMA AheadKept ==
  ASSUME AnswersInv, AnswersInv', TwinWords, HalfTaken,
         NEW clk_en, NEW up, NEW kill, NEW freeze, NEW ready, NEW reads, NEW writes, NEW error,
         BufferEdges(clk_en, up, kill, freeze, ready, reads, writes, error),
         NEW i \in Entries, NEW j \in Entries, access(i).word = access(j).word,
         Ahead(i, j), Here(i)', Here(j)'
  PROVE  Ahead(i, j)'
<1>1. /\ OwnersInv /\ Base /\ Ages /\ OutputBuffer /\ IbufEdge(up, kill, freeze) /\ AgeEdge(up, kill, freeze)
      /\ ObufEdge(clk_en, up, kill, ready) /\ clk_en \in BOOLEAN
  BY DEF BufferEdges, AnswersInv, BufferInv, Base
<1>2. /\ on_bus(i)' => ~in_obuf(i)' /\ ~waits(i)' /\ ~in_ibuf(i)'
      /\ in_obuf(i)' => ~waits(i)' /\ ~in_ibuf(i)'
      /\ waits(i)' => ~in_ibuf(i)'
      /\ on_bus(j)' => ~in_obuf(j)' /\ ~waits(j)' /\ ~in_ibuf(j)'
      /\ in_obuf(j)' => ~waits(j)' /\ ~in_ibuf(j)'
      /\ waits(j)' => ~in_ibuf(j)'
      /\ Here(i)' /\ ~in_ibuf(i)' => busy(i)'
      /\ in_ibuf(i)' => ~busy(i)'
  BY PlacesNext DEF Places
<1>3. CASE on_bus(i) /\ (in_obuf(j) \/ waits(j) \/ in_ibuf(j))
  <2>1. on_bus(i)'
    <3>1. buf'[i].state = "RESP" /\ ~in_obuf(i)'
      BY <1>3, FromBus
    <3>2. ~waits(i)' /\ ~in_ibuf(i)'
      BY <1>2, <3>1 DEF waits, pending, busy
    <3> QED
      BY <3>1, <3>2 DEF Here
  <2>2. ~on_bus(j)'
    <3> SUFFICES ASSUME on_bus(j)' PROVE FALSE
      OBVIOUS
    <3>1. ~on_bus(j)
      BY <1>3, OnePlace
    <3>2. in_obuf(j) /\ bus_cmd_sent(ready)
      BY <3>1, ToBus
    <3>3. ~in_ibuf(i) /\ ~in_ibuf(j) /\ ~in_obuf(i) /\ buf[i].state = "RESP"
      BY <1>3, <3>2, OnePlace
    <3>4. req(i).word = req(j).word
      BY <3>3 DEF access
    <3>5. dword(req(i).word) = obuf.dword /\ obuf.valid
      BY <3>2, <3>4, InObufDword, InObufState
    <3>6. i # obuf.tag0 /\ ~(obuf.merge /\ i = obuf.tag1)
      BY <3>3, <3>5 DEF in_obuf
    <3>7. bus_addr_match_pending
      BY <3>3, <3>5, <3>6 DEF bus_addr_match_pending
    <3> QED
      BY <1>1, <3>2, <3>7, SentIsFree
  <2> QED
    BY <2>1, <2>2 DEF Here, Ahead
<1>4. CASE in_obuf(i) /\ (waits(j) \/ in_ibuf(j))
  <2>1. ~on_bus(j) /\ ~in_obuf(j)
    BY <1>4, OnePlace
  <2>2. ~on_bus(j)'
    BY <2>1, ToBus
  <2>3. CASE clk_en /\ bus_cmd_sent(ready)
    BY <1>4, <2>2, <2>3, FromObuf DEF Here, Ahead
  <2>4. CASE ~(clk_en /\ bus_cmd_sent(ready))
    <3>1. in_obuf(i)'
      BY <1>4, <2>4, FromObuf
    <3>2. clk_en => ~obuf_wr_en(up, kill, ready)
      BY <1>1, <1>4, <2>4, ObufStays DEF in_obuf
    <3>3. ~in_obuf(j)'
      BY <2>1, <3>2, ToObuf DEF Chosen, Passes
    <3> QED
      BY <2>2, <3>1, <3>3 DEF Here, Ahead
  <2> QED
    BY <2>3, <2>4
<1>5. CASE waits(i) /\ in_ibuf(j)
  <2>1. waits(i)' \/ in_obuf(i)'
    BY <1>5, ToWait
  <2>2. ~on_bus(j)' /\ ~on_bus(j) /\ ~in_obuf(j) /\ ~waits(j)
    BY <1>5, OnePlace, ToBus
  <2>3. ~in_obuf(j)'
    <3>1. ~Chosen(j, up, kill, ready)
      BY <2>2 DEF Chosen, waits, in_cmd, pending
    <3>2. ~Passes(j, up, kill, ready)
      BY <1>1, <1>5, Bypass DEF Passes, in_ibuf
    <3> QED
      BY <2>2, <3>1, <3>2, ToObuf
  <2>4. CASE in_ibuf(j)'
    BY <2>1, <2>4 DEF Ahead
  <2>5. CASE waits(j)' /\ in_obuf(i)'
    BY <2>5 DEF Ahead
  <2>6. CASE waits(j)' /\ waits(i)'
    <3>1. New(j, up, kill, freeze) # {} /\ buf[j].state = "IDLE"
      BY <1>1, <2>2, <2>6, ToWait, NewEntry
    <3>2. i \in older(j, up, kill, freeze)
      BY <1>5 DEF older, waits, pending, in_cmd
    <3>3. i \in buf_age'[j]
      BY <1>1, <3>1, <3>2 DEF AgeEdge
    <3>4. i \in age(j)'
      BY <2>6, <3>3 DEF age, waits
    <3> QED
      BY <2>6, <3>4 DEF Ahead
  <2> QED
    BY <2>1, <2>2, <2>3, <2>4, <2>5, <2>6 DEF Here
<1>6. CASE waits(i) /\ waits(j) /\ i \in age(j)
  <2>1. (waits(i)' \/ in_obuf(i)') /\ (waits(j)' \/ in_obuf(j)')
    BY <1>6, ToWait
  <2>2. ~in_obuf(j)'
    <3> SUFFICES ASSUME in_obuf(j)' PROVE FALSE
      OBVIOUS
    <3>1. Chosen(j, up, kill, ready) \/ Passes(j, up, kill, ready)
      BY <1>6, OnePlace, ToObuf
    <3>2. ~Passes(j, up, kill, ready)
      BY <1>1, <1>6, BypassEntry DEF Passes, waits, pending
    <3>3. low_half(i) /\ j = req(i).dualtag
      BY <1>6, <3>1, <3>2 DEF Chosen
    <3>4. half(req(i)) /\ busy(i) /\ busy(j) /\ ~in_ibuf(i) /\ ~in_ibuf(j)
      BY <1>6, <3>3, OnePlace DEF low_half, same_dword_load, half, waits, pending, busy
    <3>5. req(i).word # req(j).word
      BY <3>3, <3>4 DEF TwinWords, Apart
    <3> QED
      BY <3>4, <3>5 DEF access
  <2>3. i \in buf_age'[j]
    BY <1>1, <1>6 DEF AgeEdge
  <2>4. CASE waits(i)'
    <3>1. i \in age(j)'
      BY <2>3, <2>4 DEF age, waits
    <3> QED
      BY <2>1, <2>2, <2>4, <3>1 DEF Ahead
  <2>5. CASE in_obuf(i)'
    BY <2>1, <2>2, <2>5 DEF Ahead
  <2> QED
    BY <2>1, <2>4, <2>5
<1> QED
  BY <1>3, <1>4, <1>5, <1>6 DEF Ahead

(* What is fresh is behind all that is there. *)
LEMMA ArrivesBehind ==
  ASSUME AnswersInv, AnswersInv',
         NEW clk_en, NEW up, NEW kill, NEW freeze, NEW ready, NEW reads, NEW writes, NEW error,
         BufferEdges(clk_en, up, kill, freeze, ready, reads, writes, error),
         NEW i \in Entries, NEW j \in Entries, Here(j), Here(j)',
         Fresh(i, kill, freeze), Here(i)'
  PROVE  Ahead(j, i)'
<1>1. /\ OwnersInv /\ Base /\ Ages /\ OutputBuffer /\ IbufEdge(up, kill, freeze) /\ AgeEdge(up, kill, freeze)
      /\ ObufEdge(clk_en, up, kill, ready) /\ clk_en \in BOOLEAN
  BY DEF BufferEdges, AnswersInv, BufferInv, Base
<1>2. ~Here(i) /\ buf[i].state = "IDLE" /\ i \notin Tagged /\ i # j /\ dc5.busreq /\ accepted(kill, freeze)
  BY FreshIsNew DEF Fresh
<1>3. ~on_bus(i)' /\ ~Fresh(j, kill, freeze)
  BY <1>2, ToBus, FreshIsNew DEF Here
<1>4. CASE in_ibuf(i)'
  BY <1>2, <1>4 DEF Ahead, Here, in_ibuf
<1>5. CASE waits(i)'
  <2>1. New(i, up, kill, freeze) # {} /\ ~in_ibuf(i)
    BY <1>2, <1>5, ToWait DEF Here
  <2>2. (i = dc5.ptr0 /\ lo_direct(up, kill, freeze)) \/ (hi_direct(up, kill, freeze) /\ ldst_dual(dc5))
    BY <1>1, <2>1, NewIsFreshOrDrains
  <2>3. ~in_ibuf(j)'
    <3> SUFFICES ASSUME in_ibuf(j)' PROVE FALSE
      OBVIOUS
    <3>1. in_ibuf(j) /\ ~ibuf_drain_vld(up, kill, freeze)
      BY <1>1, <1>3, IbufMoves
    <3>2. ibuf.valid /\ ~hi_direct(up, kill, freeze)
      BY <3>1 DEF in_ibuf, hi_direct, ibuf_byp
    <3>3. ldst_dual(dc5) /\ ~ibuf_merge_en(kill) /\ ~ibuf_byp(up)
      BY <2>2, <3>2 DEF lo_direct, ibuf_byp
    <3>4. ibuf_wr_en(up, kill, freeze) /\ ~merges(kill)
      BY <1>2, <3>3 DEF ibuf_wr_en, merges
    <3> QED
      BY <3>1, <3>2, <3>4 DEF ibuf_drain_vld
  <2>4. CASE waits(j)'
    <3>1. waits(j) \/ (in_ibuf(j) /\ ibuf_drain_vld(up, kill, freeze))
      BY <1>1, <1>3, <2>4, ToWait, NewIsFreshOrDrains
    <3>3. j \in older(i, up, kill, freeze)
      <4>1. CASE waits(j)
        BY <4>1 DEF older, waits, pending, in_cmd
      <4>2. CASE in_ibuf(j) /\ ibuf_drain_vld(up, kill, freeze)
        <5>1. ~hi_direct(up, kill, freeze)
          BY <4>2 DEF in_ibuf, hi_direct, ibuf_byp
        <5>2. i = dc5.ptr0 /\ (ibuf_byp(up) \/ ldst_dual(dc5))
          BY <2>2, <5>1 DEF lo_direct
        <5> QED
          BY <1>2, <4>2, <5>2 DEF older, in_ibuf
      <4> QED
        BY <3>1, <4>1, <4>2
    <3>4. j \in buf_age'[i]
      BY <1>1, <1>2, <2>1, <3>3 DEF AgeEdge
    <3>5. j \in age(i)'
      BY <2>4, <3>4 DEF age, waits
    <3> QED
      BY <1>5, <2>4, <3>5 DEF Ahead
  <2> QED
    BY <1>5, <2>3, <2>4 DEF Ahead, Here
<1>6. CASE in_obuf(i)'
  <2>1. ~Chosen(i, up, kill, ready) /\ ~in_obuf(i)
    BY <1>2 DEF Chosen, in_cmd, Here
  <2>2. clk_en /\ Passes(i, up, kill, ready)
    BY <1>6, <2>1, ToObuf
  <2>3. ~waits(j) /\ ~in_ibuf(j)
    BY <1>1, <2>2, Bypass DEF Passes, waits, pending, in_cmd, in_ibuf
  <2>4. in_obuf(j) => on_bus(j)'
    <3>1. in_obuf(j) => bus_cmd_sent(ready)
      BY <1>1, <2>2, ReplacedIsSent DEF Passes, in_obuf
    <3> QED
      BY <2>2, <3>1, FromObuf
  <2>5. on_bus(j) => on_bus(j)'
    <3>1. on_bus(j) => buf'[j].state = "RESP" /\ ~in_obuf(j)'
      BY FromBus
    <3>2. on_bus(j) => ~waits(j)' /\ ~in_ibuf(j)'
      BY <3>1, PlacesNext DEF Places, waits, pending, busy
    <3> QED
      BY <3>1, <3>2 DEF Here
  <2> QED
    BY <1>6, <2>3, <2>4, <2>5 DEF Here, Ahead
<1> QED
  BY <1>3, <1>4, <1>5, <1>6 DEF Here

-----------------------------------------------------------------------------

(* An access that stays is what it was, but for the store that joins it. *)
LEMMA AccessKept ==
  ASSUME AnswersInv,
         NEW clk_en, NEW up, NEW kill, NEW freeze, NEW ready, NEW reads, NEW writes, NEW error,
         BufferEdges(clk_en, up, kill, freeze, ready, reads, writes, error),
         NEW i \in Entries, Here(i), Here(i)', Places'
  PROVE  \/ access(i)' = access(i) /\ ~(in_ibuf(i) /\ ibuf_merge_en(kill))
         \/ in_ibuf(i) /\ merges(kill) /\ access(i)' = Joined(LoHalf(up))
         \/ in_ibuf(i) /\ ~merges(kill) /\ access(i)' = DrainedIbuf(up, kill)
<1>1. /\ OwnersInv /\ BufShape /\ IbufEdge(up, kill, freeze) /\ BufEdge(clk_en, up, kill, freeze)
  BY DEF BufferEdges, AnswersInv, BufferInv, Base, Shapes
<1>2. CASE ~in_ibuf(i)
  <2>1. ~in_ibuf(i)'
    BY <1>1, <1>2, IbufMoves, FreshIsNew
  <2>2. CASE on_bus(i)
    BY <1>2, <2>1, <2>2, FromBus DEF access
  <2>3. CASE in_obuf(i)
    BY <1>2, <2>1, <2>3, FromObuf DEF access
  <2>4. CASE waits(i)
    <3>1. req(i)' = req(i)
      BY <1>1, <2>4, EntryStep DEF waits, pending, req
    <3> QED
      BY <1>2, <2>1, <3>1 DEF access
  <2> QED
    BY <1>2, <2>2, <2>3, <2>4 DEF Here
<1>3. CASE in_ibuf(i) /\ ibuf_drain_vld(up, kill, freeze)
  <2>1. New(i, up, kill, freeze) = {DrainedIbuf(up, kill)} /\ ~merges(kill) /\ buf[i].state = "IDLE"
    <3>1. i = ibuf.tag /\ ibuf.valid
      BY <1>3 DEF in_ibuf
    <3>2. ~merges(kill)
      BY <1>1, <1>3, MergedStays
    <3>3. buf[i].state = "IDLE"
      BY <1>3, OnePlace DEF busy
    <3> QED
      BY <1>3, <3>1, <3>2, <3>3 DEF New
  <2>2. buf'[i].req = DrainedIbuf(up, kill)
    BY <1>1, <2>1, EntryStep
  <2>3. ~in_ibuf(i)'
    <3>1. waits(i)' \/ in_obuf(i)'
      BY <2>1, ToWait
    <3> QED
      BY <3>1 DEF Places
  <2> QED
    BY <1>3, <2>1, <2>2, <2>3 DEF access, req
<1>4. CASE in_ibuf(i) /\ ~ibuf_drain_vld(up, kill, freeze)
  <2>1. in_ibuf(i)' /\ ibuf'.valid /\ access(i)' = ibuf'.req /\ access(i) = ibuf.req /\ ibuf.valid
    BY <1>1, <1>4, IbufMoves DEF in_ibuf, access
  <2>2. ~ibuf_wr_en(up, kill, freeze) => ~ibuf_merge_en(kill)
    BY <2>1 DEF ibuf_merge_en, ibuf_wr_en, accepted, ibuf_byp
  <2>3. ibuf_wr_en(up, kill, freeze) => merges(kill)
    BY <1>4, <2>1 DEF ibuf_drain_vld
  <2> QED
    BY <1>1, <1>4, <2>1, <2>2, <2>3, IbufNext
<1> QED
  BY <1>2, <1>3, <1>4

(* What comes from dc5 is one of its halves. *)
LEMMA FreshAccess ==
  ASSUME AnswersInv,
         NEW clk_en, NEW up, NEW kill, NEW freeze, NEW ready, NEW reads, NEW writes, NEW error,
         BufferEdges(clk_en, up, kill, freeze, ready, reads, writes, error),
         NEW i \in Entries, Fresh(i, kill, freeze), Here(i)', Places'
  PROVE  \/ i = dc5.ptr0 /\ access(i)' = LoHalf(up)
         \/ i = dc5.ptr1 /\ access(i)' = HiHalf(up) /\ ldst_dual(dc5) /\ dc5.ptr0 # dc5.ptr1
<1>1. /\ OwnersInv /\ BufShape /\ IbufEdge(up, kill, freeze) /\ BufEdge(clk_en, up, kill, freeze)
      /\ clk_en \in BOOLEAN /\ Base
  BY DEF BufferEdges, AnswersInv, BufferInv, Base, Shapes
<1>2. buf[i].state = "IDLE" /\ i \notin Tagged /\ dc5.busreq
  BY FreshIsNew
<1>3. ldst_dual(dc5) => dc5.ptr0 # dc5.ptr1
  BY <1>1, <1>2, Dc5Ptrs
<1>4. CASE in_ibuf(i)'
  <2>1. ibuf'.valid /\ ibuf'.tag = i /\ access(i)' = ibuf'.req
    BY <1>4 DEF in_ibuf, access
  <2>2. ~(ibuf.valid /\ ibuf'.tag = ibuf.tag)
    BY <1>2, <2>1 DEF Tagged
  <2>3. merges(kill) => ibuf.valid
    BY DEF merges, ibuf_merge_en
  <2> QED
    BY <1>1, <1>3, <2>1, <2>2, <2>3, IbufNext
<1>5. CASE ~in_ibuf(i)'
  <2>1. busy(i)' /\ access(i)' = req(i)'
    BY <1>5 DEF Places, access
  <2>2. ~busy(i) /\ ~(ibuf.valid /\ i = ibuf.tag)
    BY <1>2 DEF busy, Tagged
  <2>3. hi_direct(up, kill, freeze) => ldst_dual(dc5)
    BY DEF hi_direct
  <2> QED
    BY <1>1, <1>3, <2>1, <2>2, <2>3, Origins
<1> QED
  BY <1>4, <1>5

-----------------------------------------------------------------------------

(* No transaction with a half taken comes to stand behind one in its bus word. *)
LEMMA HalfTakenStep ==
  ASSUME AnswersInv, AnswersInv', TwinWords, TwinWords', HalfTaken,
         NEW clk_en, NEW up, NEW kill, NEW freeze, NEW ready, NEW reads, NEW writes, NEW error,
         BufferEdges(clk_en, up, kill, freeze, ready, reads, writes, error)
  PROVE  HalfTaken'
<1>1. /\ Base /\ Ages /\ OutputBuffer /\ BufShape /\ BufEdge(clk_en, up, kill, freeze)
      /\ ObufEdge(clk_en, up, kill, ready) /\ clk_en \in BOOLEAN /\ OutputBuffer'
  BY DEF BufferEdges, AnswersInv, BufferInv, Base, Shapes
<1> SUFFICES ASSUME obuf'.valid, obuf'.cmd_done \/ obuf'.data_done
             PROVE  obuf'.write /\ ~bus_addr_match_pending'
  BY DEF HalfTaken
<1>2. ~(clk_en /\ obuf_wr_en(up, kill, ready))
  <2> SUFFICES ASSUME clk_en /\ obuf_wr_en(up, kill, ready) PROVE FALSE
    OBVIOUS
  <2>1. ObufEdge(TRUE, up, kill, ready)
    BY <1>1
  <2>2. obuf'.cmd_done = FALSE /\ obuf'.data_done = FALSE
    BY <1>1, <2>1, ObufTakes DEF Holds
  <2> QED
    BY <2>2
<1>3. obuf.valid /\ ~(clk_en /\ bus_cmd_sent(ready))
  BY <1>1, <1>2, ObufKeeps
<1>4. /\ obuf'.tag0 = obuf.tag0 /\ obuf'.tag1 = obuf.tag1 /\ obuf'.merge = obuf.merge
      /\ obuf'.write = obuf.write /\ obuf'.dword = obuf.dword
  BY <1>1, <1>3, ObufStays
<1>5. obuf.write /\ ~bus_addr_match_pending
  <2>1. CASE obuf.cmd_done \/ obuf.data_done
    BY <1>3, <2>1 DEF HalfTaken
  <2>2. CASE ~obuf.cmd_done /\ ~obuf.data_done
    <3>1. clk_en /\ obuf.write
      BY <1>1, <1>2, <1>3, <2>2 DEF ObufEdge
    <3>2. obuf' = [obuf EXCEPT !.cmd_done = wcmd_done(ready), !.data_done = wdata_done(ready)]
      BY <1>1, <1>2, <1>3, <3>1 DEF ObufEdge
    <3>3. wcmd_done(ready) \/ wdata_done(ready)
      <4>1. DOMAIN obuf = OutFields
        BY <1>1, <1>3 DEF OutputBuffer
      <4> QED
        BY <3>2, <4>1 DEF OutFields
    <3>4. lsu_axi_awvalid \/ lsu_axi_wvalid
      BY <2>2, <3>3 DEF wcmd_done, wdata_done
    <3> QED
      BY <3>1, <3>4 DEF lsu_axi_awvalid, lsu_axi_wvalid
  <2> QED
    BY <2>1, <2>2
<1> SUFFICES ASSUME bus_addr_match_pending' PROVE FALSE
  BY <1>4, <1>5
<1>6. PICK i \in Entries : /\ buf'[i].state = "RESP" /\ dword(req(i)'.word) = obuf'.dword
                           /\ i # obuf'.tag0 /\ ~(obuf'.merge /\ i = obuf'.tag1)
  BY DEF bus_addr_match_pending
<1>7. ~in_obuf(i)
  BY <1>4, <1>6 DEF in_obuf
<1>8. buf[i].state = "RESP"
  <2>1. ~buf_cmd_state_bus_en(i)
    BY <1>7 DEF buf_cmd_state_bus_en, in_obuf
  <2> QED
    BY <1>1, <1>6, <2>1, Moves
<1>9. req(i)'.word = req(i).word
  <2>1. busy(i) /\ busy(i)'
    BY <1>6, <1>8 DEF busy
  <2> QED
    BY <1>1, <2>1, EntryKeeps DEF Same
<1> QED
  BY <1>3, <1>4, <1>5, <1>6, <1>8, <1>9 DEF bus_addr_match_pending

(* The halves of the request in dc5. *)
LEMMA HalvesApart ==
  ASSUME ldst_dual(dc5), NEW up
  PROVE  Apart(LoHalf(up), HiHalf(up)) /\ Apart(HiHalf(up), LoHalf(up))
BY DEF ldst_dual, ldst_samedw, LoHalf, HiHalf, Half, Apart

(* The words of an access do not change. *)
LEMMA SameApart ==
  ASSUME NEW r, NEW s, NEW r1, NEW s1, Same(r1, r), Same(s1, s), Apart(r, s)
  PROVE  Apart(r1, s1)
BY DEF Same, Apart

(* The halves of a load keep their words, in the entries and in the input buffer. *)
LEMMA TwinWordsStep ==
  ASSUME AnswersInv, TwinWords,
         NEW clk_en, NEW up, NEW kill, NEW freeze, NEW ready, NEW reads, NEW writes, NEW error,
         BufferEdges(clk_en, up, kill, freeze, ready, reads, writes, error)
  PROVE  TwinWords'
<1>1. /\ Base /\ Halves /\ BufShape /\ BufEdge(clk_en, up, kill, freeze) /\ OwnersInv
      /\ IbufEdge(up, kill, freeze) /\ clk_en \in BOOLEAN
  BY DEF BufferEdges, AnswersInv, BufferInv, Base, Shapes
<1>2. ASSUME NEW i \in Entries, NEW j \in Entries, busy(i)', busy(j)', half(req(i)'), req(i)'.dualtag = j
      PROVE  Apart(req(i)', req(j)')
  <2>1. dc5.busreq => /\ dc5.ptr0 \notin Taken /\ dc5.ptr0 \notin Tagged
                      /\ ldst_dual(dc5) => /\ dc5.ptr1 \notin Taken /\ dc5.ptr1 \notin Tagged
                                           /\ dc5.ptr0 # dc5.ptr1
    BY <1>1, Dc5Ptrs
  <2>2. CASE busy(i) /\ Same(req(i)', req(i))
    <3>1. half(req(i)) /\ req(i).dualtag = j
      BY <1>2, <2>2 DEF Same, half
    <3>2. CASE busy(j)
      <4>1. Apart(req(i), req(j)) /\ Same(req(j)', req(j))
        BY <1>1, <1>2, <2>2, <3>1, <3>2, EntryKeeps DEF TwinWords
      <4> QED
        BY <2>2, <4>1, SameApart
    <3>3. CASE ~busy(j)
      <4>1. ibuf.valid /\ ibuf.tag = j /\ Twin(req(i), i, ibuf.req)
        BY <1>1, <2>2, <3>1, <3>3 DEF Halves
      <4>2. half(ibuf.req) /\ ibuf.req.dualtag = i /\ ibuf.req.samedw = req(i).samedw
        BY <4>1 DEF Twin
      <4>3. Apart(req(i), ibuf.req)
        BY <4>1, <4>2 DEF TwinWords, Apart
      <4>4. Same(req(j)', ibuf.req)
        BY <1>1, <4>1, <4>2, HighHalfDrains
      <4> QED
        BY <2>2, <4>3, <4>4, SameApart
    <3> QED
      BY <3>2, <3>3
  <2>3. CASE /\ i = ibuf.tag /\ ibuf.valid /\ ibuf_drain_vld(up, kill, freeze) /\ Same(req(i)', ibuf.req)
    <3>1. half(ibuf.req) /\ ibuf.req.dualtag = j
      BY <1>2, <2>3 DEF Same, half
    <3>2. busy(j)
      BY <1>1, <2>3, <3>1 DEF Halves, pending, busy
    <3>3. Apart(ibuf.req, req(j)) /\ Same(req(j)', req(j))
      BY <1>1, <1>2, <2>3, <3>1, <3>2, EntryKeeps DEF TwinWords
    <3> QED
      BY <2>3, <3>3, SameApart
  <2>4. CASE i = dc5.ptr1 /\ hi_direct(up, kill, freeze) /\ dc5.busreq /\ req(i)' = HiHalf(up)
    <3>1. ldst_dual(dc5) /\ j = dc5.ptr0
      BY <1>2, <2>4, DualHalves DEF hi_direct
    <3>2. ~busy(j) /\ (j # ibuf.tag \/ ~ibuf.valid)
      BY <2>1, <2>4, <3>1 DEF Taken, Tagged, busy
    <3>3. req(j)' = LoHalf(up)
      BY <1>1, <1>2, <2>1, <2>4, <3>1, <3>2, Origins
    <3> QED
      BY <2>4, <3>1, <3>3, HalvesApart
  <2>5. CASE i = dc5.ptr0 /\ lo_direct(up, kill, freeze) /\ dc5.busreq /\ req(i)' = LoHalf(up)
    <3>1. ldst_dual(dc5)
      BY <1>2, <2>5, SingleIsNoHalf
    <3>2. j = dc5.ptr1
      BY <1>2, <2>5, <3>1, DualHalves
    <3>3. ~busy(j) /\ (j # ibuf.tag \/ ~ibuf.valid)
      BY <2>1, <2>5, <3>1, <3>2 DEF Taken, Tagged, busy
    <3>4. req(j)' = HiHalf(up)
      BY <1>1, <1>2, <2>1, <2>5, <3>1, <3>2, <3>3, Origins
    <3> QED
      BY <2>5, <3>1, <3>4, HalvesApart
  <2> QED
    BY <1>1, <1>2, <2>2, <2>3, <2>4, <2>5, Origins
<1>3. ASSUME ibuf'.valid, half(ibuf'.req), NEW d, d = ibuf'.req.dualtag
      PROVE  Apart(ibuf'.req, buf'[d].req)
  <2>1. /\ dc5.busreq /\ ldst_dual(dc5) /\ ibuf'.req = HiHalf(up)
        /\ New(dc5.ptr0, up, kill, freeze) = {LoHalf(up)}
    BY <1>1, <1>3, HalfEntersIbuf
  <2>2. d = dc5.ptr0 /\ d \in Entries
    BY <1>1, <1>3, <2>1, DualHalves, Dc5Ptrs
  <2>3. buf[d].state = "IDLE"
    BY <1>1, <2>1, <2>2, NewEntry
  <2>4. buf'[d].req = LoHalf(up)
    BY <1>1, <2>1, <2>2, <2>3, EntryStep
  <2> QED
    BY <2>1, <2>4, HalvesApart
<1>4. ibuf'.valid /\ half(ibuf'.req) => Apart(ibuf'.req, req(ibuf.req.dualtag)')
  BY <1>3 DEF req
<1> QED
  BY <1>2, <1>4 DEF TwinWords

(* Two accesses to a word are one ahead of the other: the one that comes is behind. *)
LEMMA OneAheadStep ==
  ASSUME AnswersInv, AnswersInv', TwinWords, HalfTaken, OneAhead,
         NEW clk_en, NEW up, NEW kill, NEW freeze, NEW ready, NEW reads, NEW writes, NEW error,
         BufferEdges(clk_en, up, kill, freeze, ready, reads, writes, error)
  PROVE  OneAhead'
<1>1. Places' /\ Base
  BY PlacesNext DEF AnswersInv, BufferInv
<1> SUFFICES ASSUME NEW i \in Entries, NEW j \in Entries, i # j, Here(i)', Here(j)',
                    access(i)'.word = access(j)'.word
             PROVE  Ahead(i, j)' \/ Ahead(j, i)'
  BY DEF OneAhead
<1>2. \A k \in {i, j} : Here(k) => access(k)'.word = access(k).word
  <2> SUFFICES ASSUME NEW k \in {i, j}, Here(k) PROVE access(k)'.word = access(k).word
    OBVIOUS
  <2>1. k \in Entries /\ Here(k)'
    OBVIOUS
  <2>2. CASE in_ibuf(k) /\ merges(kill) /\ access(k)' = Joined(LoHalf(up))
    <3>1. access(k)'.word = LoHalf(up).word
      BY <1>1, <2>2, JoinedIsRequest DEF Fields
    <3> QED
      BY <2>2, <3>1 DEF merges, ibuf_merge_en, access, LoHalf, Half
  <2>3. CASE in_ibuf(k) /\ access(k)' = DrainedIbuf(up, kill)
    <3>1. DrainedIbuf(up, kill).word = ibuf.req.word
      BY <1>1, <2>3, DrainedIsRequest DEF Fields, in_ibuf
    <3> QED
      BY <2>3, <3>1 DEF access
  <2> QED
    BY <1>1, <2>1, <2>2, <2>3, AccessKept
<1>3. CASE Here(i) /\ Here(j)
  <2>1. access(i).word = access(j).word
    BY <1>2, <1>3
  <2>2. Ahead(i, j) \/ Ahead(j, i)
    BY <1>3, <2>1 DEF OneAhead
  <2> QED
    BY <2>1, <2>2, AheadKept
<1>4. CASE Here(i) /\ Fresh(j, kill, freeze)
  BY <1>4, ArrivesBehind
<1>5. CASE Fresh(i, kill, freeze) /\ Here(j)
  BY <1>5, ArrivesBehind
<1>6. CASE Fresh(i, kill, freeze) /\ Fresh(j, kill, freeze)
  <2>1. access(i)'.word # access(j)'.word
    <3>1. /\ \/ i = dc5.ptr0 /\ access(i)' = LoHalf(up)
             \/ i = dc5.ptr1 /\ access(i)' = HiHalf(up) /\ ldst_dual(dc5)
          /\ \/ j = dc5.ptr0 /\ access(j)' = LoHalf(up)
             \/ j = dc5.ptr1 /\ access(j)' = HiHalf(up) /\ ldst_dual(dc5)
      BY <1>1, <1>6, FreshAccess
    <3>2. LoHalf(up).word = lo(dc5) /\ HiHalf(up).word = hi(dc5)
      BY DEF LoHalf, HiHalf, Half
    <3> QED
      BY <3>1, <3>2 DEF ldst_dual
  <2> QED
    BY <2>1
<1> QED
  BY <1>3, <1>4, <1>5, <1>6, HereOrFresh

(* The three together. *)
ViewOrder == TwinWords /\ HalfTaken /\ OneAhead
LEMMA ViewOrderStep ==
  ASSUME AnswersInv, AnswersInv', ViewOrder,
         NEW clk_en, NEW up, NEW kill, NEW freeze, NEW ready, NEW reads, NEW writes, NEW error,
         BufferEdges(clk_en, up, kill, freeze, ready, reads, writes, error)
  PROVE  ViewOrder'
<1>1. TwinWords'
  BY TwinWordsStep DEF ViewOrder
<1>2. HalfTaken'
  BY <1>1, HalfTakenStep DEF ViewOrder
<1>3. OneAhead'
  BY OneAheadStep DEF ViewOrder
<1> QED
  BY <1>1, <1>2, <1>3 DEF ViewOrder

-----------------------------------------------------------------------------

(* The bytes of the accesses: a store has a number for each, a load expects one. *)
Legal(r) ==
  /\ r.word \in Words /\ r.byteen \subseteq Byte
  /\ r.write => DOMAIN r.data = r.byteen /\ Numbers(r.data)
  /\ ~r.write => DOMAIN r.expect = r.byteen /\ Numbers(r.expect)
AllLegal == \A i \in Entries : Here(i) => Legal(access(i))

(* The request in dc5 is legal, and so are its halves. *)
LEMMA HalfLegal ==
  ASSUME BufferInv, dc5.busreq, NEW w \in {lo(dc5), hi(dc5)}, NEW other, NEW high, NEW nomerge
  PROVE  Legal(Half(w, other, high, nomerge))
<1>1. PICK a \in Accesses : dc5.op = a.op /\ dc5.addr = a.addr /\ dc5.size = a.size
  BY DEF BufferInv, Base, OwnersInv, Requests, HasEntries, IsAccess
<1>2. w \in Words /\ dc5.op \in {"load", "store"}
  BY <1>1, BusBufferAssumption DEF lo, hi
<1>3. byteen(dc5, w) \subseteq Byte
  BY DEF byteen
<1>4. dc5.id \in Nat
  BY DEF BufferInv, Base, ProgramOrder, Ids5, Ids
<1>5. \A b \in Byte : program[w][b] \in Nat
  BY <1>2 DEF BufferInv, Slave, Memories
<1> QED
  BY <1>2, <1>3, <1>4, <1>5 DEF Half, Legal, Numbers, StoreBytes, Expect

LEMMA HalvesLegal ==
  ASSUME BufferInv, dc5.busreq, NEW up
  PROVE  Legal(LoHalf(up)) /\ Legal(HiHalf(up))
BY HalfLegal DEF LoHalf, HiHalf

(* Putting the bytes of one store onto those of another. *)
LEMMA OntoBytes ==
  ASSUME NEW f, NEW g
  PROVE  /\ DOMAIN Onto(f, g) = DOMAIN f \cup DOMAIN g
         /\ \A b \in DOMAIN f \cup DOMAIN g : Onto(f, g)[b] = IF b \in DOMAIN f THEN f[b] ELSE g[b]
         /\ Numbers(f) /\ Numbers(g) => Numbers(Onto(f, g))
BY DEF Onto, Numbers

(* The store that joins adds its bytes. *)
LEMMA JoinedBytes ==
  ASSUME BufferInv, NEW up, NEW kill, ibuf_merge_en(kill), Legal(ibuf.req),
         NEW r, \/ merges(kill) /\ r = Joined(LoHalf(up))
                \/ ~merges(kill) /\ r = DrainedIbuf(up, kill)
  PROVE  /\ Legal(r) /\ r.write /\ ibuf.req.write /\ r.word = ibuf.req.word
         /\ DOMAIN r.data = DOMAIN ibuf.req.data \cup byteen(dc5, lo(dc5))
         /\ \A b \in DOMAIN r.data :
              r.data[b] = IF b \in byteen(dc5, lo(dc5)) THEN dc5.id ELSE ibuf.req.data[b]
<1>1. /\ dc5.busreq /\ dc5.op = "store" /\ ibuf.valid /\ ibuf.req.write = TRUE /\ lo(dc5) = ibuf.req.word
      /\ Fields \subseteq DOMAIN ibuf.req
  BY DEF ibuf_merge_en, BufferInv, Base, Shapes, IbufShape, IsRequest
<1> DEFINE bytes == byteen(dc5, lo(dc5))
           new == StoreBytes(dc5, lo(dc5))
           old == ibuf.req.data
<1>2. DOMAIN new = bytes /\ \A b \in bytes : new[b] = dc5.id
  BY <1>1 DEF StoreBytes
<1>3. Numbers(new) /\ bytes \subseteq Byte /\ Numbers(old) /\ DOMAIN old = ibuf.req.byteen
  <2>1. dc5.id \in Nat
    BY <1>1 DEF BufferInv, Base, ProgramOrder, Ids5, Ids
  <2> QED
    BY <1>1, <1>2, <2>1 DEF Numbers, byteen, Legal
<1>4. /\ r.data = Onto(new, old) /\ r.byteen = ibuf.req.byteen \cup bytes
      /\ r.word = ibuf.req.word /\ r.write = TRUE
  <2>1. CASE merges(kill) /\ r = Joined(LoHalf(up))
    BY <1>1, <2>1 DEF Joined, LoHalf, Half
  <2>2. CASE ~merges(kill) /\ r = DrainedIbuf(up, kill)
    <3>1. ldst_dual(dc5)
      BY <2>2 DEF merges
    <3>2. r = [ibuf.req EXCEPT !.byteen = @ \cup DOMAIN new, !.data = Onto(new, @),
                               !.nomerge = @ \/ ibuf_force_drain(up)]
      BY <2>2, <3>1 DEF DrainedIbuf
    <3> HIDE DEF new
    <3> QED
      BY <1>1, <1>2, <3>2 DEF Fields
  <2> QED
    BY <2>1, <2>2
<1> HIDE DEF new, old, bytes
<1>5. /\ DOMAIN r.data = DOMAIN new \cup DOMAIN old /\ Numbers(r.data)
      /\ \A b \in DOMAIN new \cup DOMAIN old : r.data[b] = IF b \in DOMAIN new THEN new[b] ELSE old[b]
  <2>1. /\ DOMAIN Onto(new, old) = DOMAIN new \cup DOMAIN old
        /\ \A b \in DOMAIN new \cup DOMAIN old :
             Onto(new, old)[b] = IF b \in DOMAIN new THEN new[b] ELSE old[b]
    BY DEF Onto
  <2>2. Numbers(Onto(new, old))
    BY <1>3, OntoBytes, Zenon
  <2> QED
    BY <1>4, <2>1, <2>2, Zenon
<1>6. Legal(r)
  <2>1. ibuf.req.word \in Words /\ ibuf.req.byteen \subseteq Byte
    BY DEF Legal
  <2> QED
    BY <1>2, <1>3, <1>4, <1>5, <2>1 DEF Legal
<1> QED
  BY <1>1, <1>2, <1>3, <1>4, <1>5, <1>6 DEF bytes, old

(* A request that drains with no store to join it has the bytes it had. *)
LEMMA DrainedBytes ==
  ASSUME BufferInv, ibuf.valid, NEW up, NEW kill, ~ibuf_merge_en(kill), NEW r, r = DrainedIbuf(up, kill),
         Legal(ibuf.req)
  PROVE  /\ r.write = ibuf.req.write /\ r.word = ibuf.req.word /\ r.byteen = ibuf.req.byteen
         /\ r.expect = ibuf.req.expect
         /\ DOMAIN r.data = DOMAIN ibuf.req.data
         /\ \A b \in DOMAIN r.data : r.data[b] = ibuf.req.data[b]
         /\ Legal(r)
<1>1. Fields \subseteq DOMAIN ibuf.req
  BY DEF BufferInv, Base, Shapes, IbufShape, IsRequest
<1>2. r = [ibuf.req EXCEPT !.byteen = @ \cup DOMAIN NoBytes, !.data = Onto(NoBytes, @),
                           !.nomerge = @ \/ ibuf_force_drain(up)]
  BY DEF DrainedIbuf
<1>3. DOMAIN NoBytes = {}
  BY DEF NoBytes
<1>4. /\ r.write = ibuf.req.write /\ r.word = ibuf.req.word /\ r.byteen = ibuf.req.byteen
      /\ r.expect = ibuf.req.expect /\ r.data = Onto(NoBytes, ibuf.req.data)
  BY <1>1, <1>2, <1>3 DEF Fields
<1>5. /\ DOMAIN r.data = DOMAIN ibuf.req.data
      /\ \A b \in DOMAIN r.data : r.data[b] = ibuf.req.data[b]
  <2>1. /\ DOMAIN Onto(NoBytes, ibuf.req.data) = DOMAIN NoBytes \cup DOMAIN ibuf.req.data
        /\ \A b \in DOMAIN NoBytes \cup DOMAIN ibuf.req.data :
             Onto(NoBytes, ibuf.req.data)[b] = IF b \in DOMAIN NoBytes THEN NoBytes[b] ELSE ibuf.req.data[b]
    BY DEF Onto
  <2> QED
    BY <1>3, <1>4, <2>1
<1> QED
  BY <1>4, <1>5 DEF Legal, Numbers

(* What an access that stays keeps. *)
LEMMA WriterKept ==
  ASSUME AnswersInv, AllLegal,
         NEW clk_en, NEW up, NEW kill, NEW freeze, NEW ready, NEW reads, NEW writes, NEW error,
         BufferEdges(clk_en, up, kill, freeze, ready, reads, writes, error),
         NEW i \in Entries, Here(i), Here(i)', Places'
  PROVE  /\ Legal(access(i)') /\ access(i)'.write = access(i).write /\ access(i)'.word = access(i).word
         /\ ~access(i).write => access(i)'.byteen = access(i).byteen /\ access(i)'.expect = access(i).expect
         /\ in_ibuf(i) /\ ibuf_merge_en(kill) =>
              /\ access(i).write = TRUE /\ access(i).word = lo(dc5)
              /\ DOMAIN access(i)'.data = DOMAIN access(i).data \cup byteen(dc5, lo(dc5))
              /\ \A b \in DOMAIN access(i)'.data :
                   access(i)'.data[b] = IF b \in byteen(dc5, lo(dc5)) THEN dc5.id ELSE access(i).data[b]
         /\ ~(in_ibuf(i) /\ ibuf_merge_en(kill)) =>
              /\ DOMAIN access(i)'.data = DOMAIN access(i).data
              /\ \A b \in DOMAIN access(i).data : access(i)'.data[b] = access(i).data[b]
<1>1. BufferInv /\ Legal(access(i))
  BY DEF AnswersInv, AllLegal
<1>2. CASE ~in_ibuf(i)
  BY <1>1, <1>2, AccessKept
<1>3. CASE in_ibuf(i)
  <2>1. access(i) = ibuf.req /\ ibuf.valid /\ Legal(ibuf.req)
    BY <1>1, <1>3 DEF access, in_ibuf
  <2>2. CASE ibuf_merge_en(kill)
    <3> DEFINE r == access(i)'
    <3>1. \/ merges(kill) /\ r = Joined(LoHalf(up))
          \/ ~merges(kill) /\ r = DrainedIbuf(up, kill)
      BY <1>3, <2>2, AccessKept
    <3> HIDE DEF r
    <3>2. /\ Legal(r) /\ r.write /\ ibuf.req.write /\ r.word = ibuf.req.word
          /\ DOMAIN r.data = DOMAIN ibuf.req.data \cup byteen(dc5, lo(dc5))
          /\ \A b \in DOMAIN r.data :
               r.data[b] = IF b \in byteen(dc5, lo(dc5)) THEN dc5.id ELSE ibuf.req.data[b]
      BY <1>1, <2>1, <2>2, <3>1, JoinedBytes
    <3>3. ibuf.req.word = lo(dc5) /\ ibuf.req.write = TRUE /\ r.write = TRUE
      <4>1. ibuf.req.write \in BOOLEAN
        BY <1>1, <2>1 DEF BufferInv, Base, Shapes, IbufShape, IsRequest
      <4>2. r.write \in BOOLEAN
        BY <1>1, <2>1, <3>1, JoinedIsRequest, DrainedIsRequest DEF BufferInv, IsRequest
      <4> QED
        BY <2>2, <3>2, <4>1, <4>2 DEF ibuf_merge_en
    <3> QED
      BY <1>3, <2>1, <2>2, <3>2, <3>3 DEF r
  <2>3. CASE ~ibuf_merge_en(kill)
    <3>1. ~merges(kill)
      BY <2>3 DEF merges
    <3>2. CASE access(i)' = access(i)
      BY <1>1, <2>3, <3>2
    <3>3. CASE access(i)' = DrainedIbuf(up, kill)
      <4> DEFINE r == access(i)'
      <4>1. r = DrainedIbuf(up, kill)
        BY <3>3
      <4> HIDE DEF r
      <4>2. /\ r.write = ibuf.req.write /\ r.word = ibuf.req.word /\ r.byteen = ibuf.req.byteen
            /\ r.expect = ibuf.req.expect /\ DOMAIN r.data = DOMAIN ibuf.req.data
            /\ \A b \in DOMAIN r.data : r.data[b] = ibuf.req.data[b]
            /\ Legal(r)
        BY <1>1, <2>1, <2>3, <4>1, DrainedBytes
      <4> QED
        BY <2>1, <2>3, <4>2 DEF r
    <3> QED
      BY <3>1, <3>2, <3>3, AccessKept
  <2> QED
    BY <2>2, <2>3
<1> QED
  BY <1>2, <1>3

(* Without a merge its bytes stay what they are. *)
BytesKept(r, s) ==
  /\ DOMAIN s.data = DOMAIN r.data
  /\ \A b \in DOMAIN r.data : s.data[b] = r.data[b]

LEMMA BytesHeld ==
  ASSUME AnswersInv, AllLegal,
         NEW clk_en, NEW up, NEW kill, NEW freeze, NEW ready, NEW reads, NEW writes, NEW error,
         BufferEdges(clk_en, up, kill, freeze, ready, reads, writes, error),
         NEW i \in Entries, Here(i), Here(i)', Places',
         ~(in_ibuf(i) /\ ibuf_merge_en(kill))
  PROVE  BytesKept(access(i), access(i)')
BY WriterKept DEF BytesKept

(* With one, those of the store in dc5 come to them. *)
BytesPut(r, s, bytes, v) ==
  /\ DOMAIN s.data = DOMAIN r.data \cup bytes
  /\ \A b \in DOMAIN s.data : s.data[b] = IF b \in bytes THEN v ELSE r.data[b]

LEMMA BytesJoined ==
  ASSUME AnswersInv, AllLegal,
         NEW clk_en, NEW up, NEW kill, NEW freeze, NEW ready, NEW reads, NEW writes, NEW error,
         BufferEdges(clk_en, up, kill, freeze, ready, reads, writes, error),
         NEW i \in Entries, Here(i), Here(i)', Places',
         in_ibuf(i), ibuf_merge_en(kill)
  PROVE  access(i).word = lo(dc5) /\ BytesPut(access(i), access(i)', byteen(dc5, lo(dc5)), dc5.id)
BY WriterKept DEF BytesPut

(* A legal access stays so, and what arrives is legal. *)
LEMMA AllLegalStep ==
  ASSUME AnswersInv, AnswersInv', AllLegal,
         NEW clk_en, NEW up, NEW kill, NEW freeze, NEW ready, NEW reads, NEW writes, NEW error,
         BufferEdges(clk_en, up, kill, freeze, ready, reads, writes, error)
  PROVE  AllLegal'
<1>1. Places' /\ BufferInv
  BY PlacesNext DEF AnswersInv
<1> SUFFICES ASSUME NEW i \in Entries, Here(i)' PROVE Legal(access(i)')
  BY DEF AllLegal, Legal, Numbers
<1>2. CASE Here(i)
  BY <1>1, <1>2, WriterKept
<1>3. CASE Fresh(i, kill, freeze)
  <2>1. dc5.busreq
    BY <1>3 DEF Fresh, accepted
  <2> QED
    BY <1>1, <1>3, <2>1, FreshAccess, HalvesLegal
<1> QED
  BY <1>2, <1>3, HereOrFresh

-----------------------------------------------------------------------------

(* A transaction carries the bytes of its entry. *)
DataOf(r) == [c \in {r.word} \X DOMAIN r.data |-> r.data[c[2]]]
Carried ==
  /\ \A t \in bus : t.write => t.data = DataOf(req(t.tag))
  /\ obuf.valid /\ obuf.write => obuf.data = DataOf(req(obuf.tag0))

LEMMA CommandData ==
  ASSUME NEW r, NEW tag
  PROVE  /\ Command(r, tag).data = DataOf(r) /\ Command(r, tag).tag0 = tag /\ Command(r, tag).write = r.write
         /\ DOMAIN Command(r, tag) = OutFields
BY DEF Command, DataOf, OutFields

(* A transaction carries the bytes of its entry from the output buffer to the bus. *)
LEMMA CarriedStep ==
  ASSUME AnswersInv, Carried,
         NEW clk_en, NEW up, NEW kill, NEW freeze, NEW ready, NEW reads, NEW writes, NEW error,
         BufferEdges(clk_en, up, kill, freeze, ready, reads, writes, error)
  PROVE  Carried'
<1>1. /\ Base /\ Ages /\ OutputBuffer /\ BufShape /\ BufEdge(clk_en, up, kill, freeze) /\ OnBus
      /\ ObufEdge(clk_en, up, kill, ready) /\ clk_en \in BOOLEAN
  BY DEF BufferEdges, AnswersInv, BufferInv, Base, Shapes
<1>2. ASSUME obuf'.valid, obuf'.write PROVE obuf'.data = DataOf(buf'[obuf'.tag0].req)
  <2>1. CASE ~(clk_en /\ obuf_wr_en(up, kill, ready))
    <3>1. obuf.valid /\ ~(clk_en /\ bus_cmd_sent(ready))
      BY <1>1, <1>2, <2>1, ObufKeeps
    <3>2. obuf'.tag0 = obuf.tag0 /\ obuf'.write = obuf.write /\ obuf'.data = obuf.data
      BY <1>1, <3>1, ObufStays
    <3>3. obuf.tag0 \in Entries /\ in_obuf(obuf.tag0)
      BY <1>1, <3>1 DEF OutputBuffer, in_obuf
    <3>4. buf'[obuf.tag0].req = req(obuf.tag0)
      BY <3>3, FromObuf DEF req
    <3> QED
      BY <1>2, <3>1, <3>2, <3>4 DEF Carried
  <2>2. CASE clk_en /\ obuf_wr_en(up, kill, ready)
    <3>1. obuf' = NextCommand(up)
      BY <2>2, <1>1 DEF ObufEdge
    <3>2. CASE ibuf_buf_byp(up) /\ NextCommand(up) = Command(LoHalf(up), dc5.ptr0)
      <4>1. lsu_commit_dc5(kill)
        <5>1. CmdPtr0Dec = {}
          BY <1>1, <3>2, Bypass DEF CmdPtr0Dec
        <5> QED
          BY <2>2, <5>1 DEF obuf_wr_en
      <4>2. /\ dc5.ptr0 \in Entries /\ buf[dc5.ptr0].state = "IDLE"
            /\ New(dc5.ptr0, up, kill, freeze) = {LoHalf(up)}
        BY <1>1, <3>2, <4>1, BypassEntry
      <4>3. buf'[dc5.ptr0].req = LoHalf(up)
        BY <1>1, <4>2, EntryStep
      <4> QED
        BY <3>1, <3>2, <4>3, CommandData
    <3>3. CASE CmdPtr0Dec # {} /\ NextCommand(up) = Command(req(CmdPtr0), CmdPtr0)
      <4>1. CmdPtr0 \in Entries /\ buf[CmdPtr0].state = "CMD"
        BY <1>1, <3>3, Cmd0 DEF in_cmd
      <4>2. buf'[CmdPtr0].req = req(CmdPtr0)
        BY <1>1, <4>1, EntryStep DEF req
      <4> QED
        BY <3>1, <3>3, <4>2, CommandData
    <3>4. CASE /\ CmdPtr0Dec # {} /\ obuf_merge_en
               /\ NextCommand(up) = [Command(req(CmdPtr0), CmdPtr0) EXCEPT !.tag1 = CmdPtr1, !.merge = TRUE]
      <4>1. obuf'.write = req(CmdPtr0).write
        BY <3>1, <3>4, CommandData DEF OutFields
      <4> QED
        BY <1>2, <3>4, <4>1 DEF obuf_merge_en, same_dword_load
    <3> QED
      BY <2>2, <3>2, <3>3, <3>4, NextCommandOf
  <2> QED
    BY <2>1, <2>2
<1>3. ASSUME NEW t \in bus', t.write PROVE t.data = DataOf(buf'[t.tag].req)
  <2>1. CASE t \in bus
    <3>1. t.tag \in Entries /\ on_bus(t.tag) /\ t.data = DataOf(req(t.tag))
      BY <1>3, <2>1, TransactionOnBus DEF Carried
    <3>2. buf'[t.tag].req = req(t.tag)
      BY <3>1, FromBus DEF req
    <3> QED
      BY <3>1, <3>2
  <2>2. CASE clk_en /\ t \in Accepted(ready)
    <3>1. obuf.valid /\ t.tag = obuf.tag0 /\ t.write = obuf.write /\ t.data = obuf.data
      <4>1. t \in {[tag |-> obuf.tag0, write |-> obuf.write, dword |-> obuf.dword, data |-> obuf.data]}
        BY <2>2, AcceptedIsObuf DEF Accepted
      <4> QED
        BY <2>2, <4>1, AcceptedIsObuf
    <3>2. t.tag \in Entries /\ in_obuf(t.tag)
      BY <1>1, <3>1 DEF OutputBuffer, in_obuf
    <3>3. buf'[t.tag].req = req(t.tag)
      BY <3>2, FromObuf DEF req
    <3> QED
      BY <1>3, <3>1, <3>3 DEF Carried
  <2> QED
    BY <1>1, <1>3, <2>1, <2>2, BusMoves
<1> QED
  BY <1>2, <1>3 DEF Carried, req

-----------------------------------------------------------------------------
(* The stores to a byte that the memory does not have yet, and what they write. *)
Cells == Words \X Byte
writer(i, c) == access(i).write /\ access(i).word = c[1] /\ c[2] \in DOMAIN access(i).data
Writers(c) == {i \in Entries : Here(i) /\ writer(i, c)}
Value(i, c) == access(i).data[c[2]]
Mem(c) == memory[c[1]][c[2]]

(* A store leaves for the memory. *)
LEMMA WriterLeaves ==
  ASSUME AnswersInv,
         NEW clk_en, NEW up, NEW kill, NEW freeze, NEW ready, NEW reads, NEW writes, NEW error,
         BufferEdges(clk_en, up, kill, freeze, ready, reads, writes, error),
         NEW j \in Entries, Here(j), access(j).write, ~Here(j)'
  PROVE  clk_en /\ on_bus(j) /\ \E t \in bus : t \in writes /\ t.write /\ t.tag = j
<1>1. on_bus(j) /\ clk_en /\ answered(j)' /\ req(j)' = req(j)
  BY LeavesFromBus
<1>2. access(j) = req(j)
  BY <1>1, OnePlace DEF access
<1>3. PICK t \in bus : t \in reads \cup writes /\ AnswersFor(t, j)
  BY <1>1, AnswerComes DEF on_bus, AnswerIn
<1>4. t.tag = j
  BY <1>2, <1>3 DEF AnswersFor, same_dword_load
<1>5. t.write
  BY <1>2, <1>4, TransactionOnBus
<1>6. t \in writes
  BY <1>1, <1>3, <1>5 DEF BufferEdges, AtMostOne
<1> QED
  BY <1>1, <1>4, <1>5, <1>6

(* The store the slave writes is one on the bus, which leaves the buffers with it. *)
LEMMA WriteAnswered ==
  ASSUME AnswersInv,
         NEW clk_en, NEW up, NEW kill, NEW freeze, NEW ready, NEW reads, NEW writes, NEW error,
         BufferEdges(clk_en, up, kill, freeze, ready, reads, writes, error), Places',
         NEW t \in bus, t \in writes
  PROVE  /\ t.tag \in Entries /\ on_bus(t.tag) /\ ~Here(t.tag)' /\ t.write /\ req(t.tag).write
         /\ writes = {t} /\ memory' = Written(t) /\ clk_en = TRUE
<1>1. writes = {t} /\ t.write /\ clk_en = TRUE
  BY DEF BufferEdges, AtMostOne
<1>2. t.tag \in Entries /\ on_bus(t.tag) /\ req(t.tag).write
  BY <1>1, TransactionOnBus
<1>3. memory' = Written(t) /\ bus_rsp_write'.valid /\ bus_rsp_write'.tag = t.tag
  <2>1. \E u \in writes : memory' = Written(u) /\ bus_rsp_write' = [valid |-> TRUE, tag |-> u.tag, error |-> error]
    BY <1>1 DEF BufferEdges, BusEdge
  <2> QED
    BY <1>1, <2>1
<1>4. answered(t.tag)'
  BY <1>3 DEF answered, rsp_write_for
<1>5. buf'[t.tag].state = "RESP" /\ ~in_obuf(t.tag)'
  BY <1>2, FromBus
<1>6. ~Here(t.tag)'
  BY <1>2, <1>4, <1>5 DEF Here, on_bus, Places, waits, pending, busy
<1> QED
  BY <1>1, <1>2, <1>3, <1>6

(* The memory takes the bytes of the store that leaves. *)
LEMMA MemoryMoves ==
  ASSUME AnswersInv, Carried,
         NEW clk_en, NEW up, NEW kill, NEW freeze, NEW ready, NEW reads, NEW writes, NEW error,
         BufferEdges(clk_en, up, kill, freeze, ready, reads, writes, error), Places',
         NEW c \in Cells
  PROVE  \/ Mem(c)' = Mem(c) /\ \A j \in Writers(c) : Here(j)'
         \/ \E j \in Writers(c) : /\ on_bus(j) /\ ~Here(j)' /\ Mem(c)' = Value(j, c)
                                  /\ \A k \in Writers(c) : k # j => Here(k)'
<1>1. c[1] \in Words /\ c[2] \in Byte /\ c = <<c[1], c[2]>>
  BY DEF Cells
<1>2. ASSUME NEW t \in bus, clk_en, t \in writes
      PROVE  \/ Mem(c)' = Mem(c) /\ c \notin DOMAIN t.data
             \/ t.tag \in Writers(c) /\ on_bus(t.tag) /\ ~Here(t.tag)' /\ Mem(c)' = Value(t.tag, c)
  <2>1. /\ t.tag \in Entries /\ on_bus(t.tag) /\ ~Here(t.tag)' /\ t.write /\ req(t.tag).write
        /\ memory' = Written(t)
    BY <1>2, WriteAnswered
  <2>2. memory'[c[1]][c[2]] = IF c \in DOMAIN t.data THEN t.data[c] ELSE memory[c[1]][c[2]]
    BY <1>1, <2>1 DEF Written
  <2>3. access(t.tag) = req(t.tag)
    BY <2>1, OnePlace DEF access
  <2>4. t.data = DataOf(req(t.tag))
    BY <2>1 DEF Carried
  <2>5. CASE c \in DOMAIN t.data
    <3>1. req(t.tag).word = c[1] /\ c[2] \in DOMAIN req(t.tag).data /\ t.data[c] = req(t.tag).data[c[2]]
      BY <2>4, <2>5 DEF DataOf
    <3> QED
      BY <2>1, <2>2, <2>3, <2>5, <3>1 DEF Writers, writer, Value, Mem, Here
  <2>6. CASE c \notin DOMAIN t.data
    BY <2>2, <2>6 DEF Mem
  <2> QED
    BY <2>5, <2>6
<1>3. ASSUME NEW j \in Writers(c), ~Here(j)'
      PROVE  clk_en /\ \E t \in bus : t \in writes /\ t.tag = j /\ c \in DOMAIN t.data
  <2>1. j \in Entries /\ Here(j) /\ writer(j, c)
    BY DEF Writers
  <2>2. clk_en /\ on_bus(j) /\ \E t \in bus : t \in writes /\ t.write /\ t.tag = j
    BY <1>3, <2>1, WriterLeaves DEF writer
  <2>3. PICK t \in bus : t \in writes /\ t.write /\ t.tag = j
    BY <2>2
  <2>4. access(j) = req(j)
    BY <2>1, <2>2, OnePlace DEF access
  <2>5. t.data = DataOf(req(j))
    BY <2>3 DEF Carried
  <2>6. c \in DOMAIN t.data
    BY <1>1, <2>1, <2>4, <2>5 DEF DataOf, writer
  <2> QED
    BY <2>2, <2>3, <2>6
<1>4. CASE ~clk_en \/ writes = {}
  <2>1. Mem(c)' = Mem(c)
    BY <1>4 DEF BufferEdges, BusEdge, Mem
  <2> QED
    BY <1>3, <1>4, <2>1
<1>5. CASE clk_en /\ writes # {}
  <2>1. PICK t \in bus : writes = {t}
    BY <1>5 DEF BufferEdges, AtMostOne
  <2>2. \A j \in Writers(c) : ~Here(j)' => j = t.tag /\ c \in DOMAIN t.data
    BY <1>3, <2>1
  <2> QED
    BY <1>2, <1>5, <2>1, <2>2
<1> QED
  BY <1>4, <1>5

-----------------------------------------------------------------------------

(* An edge of the pipe. *)
PipeEdges(packet, lower, up, flush_dc3, kill, branch, hold, freeze) ==
  /\ packet \in Issuable(lower, freeze) /\ (packet.valid => ~freeze)
  /\ lower \in BOOLEAN /\ kill \in BOOLEAN /\ hold \in BOOLEAN /\ (kill => lower)
  /\ up = (lower \/ flush_e3 # "none") /\ flush_dc3 = (lower \/ flush_e3 = "i0")
  /\ freeze = (ld_freeze_dc3 /\ ~lower)
  /\ PipeEdge(packet, lower, up, flush_dc3, kill, hold, freeze)
  /\ FreezeEdge(hold, branch, lower, up, flush_dc3, freeze)
  /\ History(flush_dc3, freeze, kill, packet)

(* A store in the pipe has its request with it, and was flushed if it has nothing
   else; a load that froze the pipe is in dc3, and got no bytes. *)
flushed(p) == p.busreq /\ ~p.valid /\ p.op = "store"
InStep ==
  /\ ld_freeze_dc3 => dc3.valid /\ dc3.op = "load" /\ fwd_dc3 = NoBytes
  /\ dc3.busreq => dc3.valid
  /\ dc3.valid /\ dc3.op = "store" => dc3.busreq
  /\ dc4.valid => dc4.busreq
  /\ dc5.valid => dc5.busreq
  /\ flushed(dc4) => ~ld_freeze_dc3 /\ ~dc2.valid
  /\ flushed(dc5) => ~ld_freeze_dc3

LEMMA InStepStep ==
  ASSUME BufferInv, InStep,
         NEW packet, NEW lower, NEW up, NEW flush_dc3, NEW kill, NEW branch, NEW hold, NEW freeze,
         PipeEdges(packet, lower, up, flush_dc3, kill, branch, hold, freeze)
  PROVE  InStep'
<1>1. /\ lower \in BOOLEAN /\ kill \in BOOLEAN /\ (kill => lower)
      /\ up = (lower \/ flush_e3 # "none") /\ flush_dc3 = (lower \/ flush_e3 = "i0")
      /\ freeze = (ld_freeze_dc3 /\ ~lower)
      /\ PipeEdge(packet, lower, up, flush_dc3, kill, hold, freeze)
      /\ FreezeEdge(hold, branch, lower, up, flush_dc3, freeze)
  BY DEF PipeEdges
<1>2. \A p \in {dc1, dc2, dc3, dc4, dc5} : Stage(p)
  BY DEF BufferInv, Base, OwnersInv, Requests
<1>3. /\ dc4' = InDc4(flush_dc3, lower, freeze) /\ dc5' = InDc5(lower, kill)
      /\ freeze => dc2' = dc2 /\ fwd_dc3' = fwd_dc3 /\ dc3' = [dc3 EXCEPT !.busreq = FALSE]
      /\ ~freeze => /\ dc2' = IF up THEN NoPacket ELSE dc1
                    /\ dc3' = InDc3(dc2, up, hold)
                    /\ fwd_dc3' = IF ld_full_hit_dc2(up) THEN [c \in cells(dc2) |-> fwd_byte(c)] ELSE NoBytes
  BY <1>1 DEF PipeEdge
<1>4. ld_freeze_dc3' => /\ ~flush_dc3 /\ (~up \/ ld_freeze_dc3)
                        /\ \/ ld_freeze_dc3 /\ freeze
                           \/ ~freeze /\ ~up /\ dc2.valid /\ dc2.op = "load" /\ ~ld_full_hit_dc2(up)
  BY <1>1 DEF FreezeEdge, ld_freeze_en, busreq_dc2
<1>5. ld_freeze_dc3' => ~flush_dc3 /\ ~lower
  BY <1>1 DEF FreezeEdge
<1>6. freeze => /\ dc3'.valid = dc3.valid /\ dc3'.op = dc3.op /\ dc3'.busreq = FALSE /\ dc3.op = "load" /\ dc3.valid
  <2> SUFFICES ASSUME freeze
               PROVE  /\ dc3'.valid = dc3.valid /\ dc3'.op = dc3.op /\ dc3'.busreq = FALSE
                      /\ dc3.op = "load" /\ dc3.valid
    OBVIOUS
  <2>1. ld_freeze_dc3
    BY <1>1
  <2>2. "busreq" \in DOMAIN dc3 /\ dc3' = [dc3 EXCEPT !.busreq = FALSE]
    BY <1>2, <1>3 DEF Stage
  <2>3. dc3'.valid = dc3.valid /\ dc3'.op = dc3.op /\ dc3'.busreq = FALSE
    BY <2>2
  <2> QED
    BY <2>1, <2>3 DEF InStep
<1>7. ~freeze => /\ dc3'.valid <=> dc2.valid /\ ~up
                 /\ dc3'.valid => dc3'.op = dc2.op /\ dc3'.busreq = ~ld_full_hit_dc2(up)
                 /\ ~dc3'.valid => ~dc3'.busreq
  BY <1>3 DEF InDc3, NoPacket
<1>8. ld_full_hit_dc2(up) => dc2.op = "load"
  BY DEF ld_full_hit_dc2
<1>9. (ld_freeze_dc3 => dc3.valid /\ dc3.op = "load" /\ fwd_dc3 = NoBytes)'
  BY <1>3, <1>4, <1>6, <1>7 DEF InStep
<1>10. (dc3.busreq => dc3.valid)' /\ (dc3.valid /\ dc3.op = "store" => dc3.busreq)'
  BY <1>6, <1>7, <1>8
<1>11. /\ dc4'.busreq <=> dc3.busreq /\ ~lower
       /\ dc4'.busreq => dc4'.op = dc3.op /\ dc4'.valid = (~flush_dc3 /\ ~freeze)
       /\ ~dc4'.busreq => ~dc4'.valid
  BY <1>3 DEF InDc4, NoPacket
<1>12. /\ dc5'.busreq <=> dc4.busreq /\ ~kill
       /\ dc5'.busreq => dc5'.op = dc4.op /\ dc5'.valid = (dc4.valid /\ ~lower)
       /\ ~dc5'.busreq => ~dc5'.valid
  <2>1. CASE dc4.busreq /\ ~kill
    <3>1. dc5' = [dc4 EXCEPT !.valid = @ /\ ~lower]
      BY <1>3, <2>1 DEF InDc5
    <3> QED
      BY <1>2, <2>1, <3>1 DEF Stage
  <2>2. CASE ~(dc4.busreq /\ ~kill)
    BY <1>3, <2>2 DEF InDc5, NoPacket
  <2> QED
    BY <2>1, <2>2
<1>13. (flushed(dc4) => ~ld_freeze_dc3 /\ ~dc2.valid)'
  <2> SUFFICES ASSUME flushed(dc4)' PROVE ~ld_freeze_dc3' /\ ~dc2'.valid
    OBVIOUS
  <2>1. dc3.busreq /\ ~lower /\ dc3.op = "store" /\ ~(~flush_dc3 /\ ~freeze)
    BY <1>11 DEF flushed
  <2>2. ~ld_freeze_dc3 /\ ~freeze
    BY <1>1, <2>1 DEF InStep
  <2>3. flush_dc3 /\ up
    BY <1>1, <2>1, <2>2
  <2> QED
    BY <1>3, <1>5, <2>2, <2>3 DEF NoPacket
<1>14. (flushed(dc5) => ~ld_freeze_dc3)'
  <2> SUFFICES ASSUME flushed(dc5)' PROVE ~ld_freeze_dc3'
    OBVIOUS
  <2>1. dc4.busreq /\ dc4.op = "store" /\ ~(dc4.valid /\ ~lower)
    BY <1>12 DEF flushed
  <2>2. CASE lower
    BY <1>5, <2>2
  <2>3. CASE ~dc4.valid
    BY <1>4, <2>1, <2>3 DEF InStep, flushed
  <2> QED
    BY <1>1, <2>1, <2>2, <2>3
<1> QED
  BY <1>9, <1>10, <1>11, <1>12, <1>13, <1>14 DEF InStep

(* What is committed is older than all that is in the pipe. *)
Recent ==
  \A c \in Cells : /\ program[c[1]][c[2]] \in Nat /\ program[c[1]][c[2]] <= issued
                   /\ \A n \in InPipe : program[c[1]][c[2]] < n

Committed(c, kill) == dc5.busreq /\ lsu_commit_dc5(kill) /\ dc5.op = "store" /\ c \in cells(dc5)
(* The program changes by the bytes of the store that is committed in dc5. *)
LEMMA ProgramMoves ==
  ASSUME NEW packet, NEW flush_dc3, NEW kill, NEW freeze,
         History(flush_dc3, freeze, kill, packet), BufferInv, NEW c \in Cells
  PROVE  program'[c[1]][c[2]] = IF Committed(c, kill) THEN dc5.id ELSE program[c[1]][c[2]]
<1>1. c[1] \in Words /\ c[2] \in Byte /\ c = <<c[1], c[2]>>
  BY DEF Cells
<1>2. CASE dc5.busreq /\ lsu_commit_dc5(kill) /\ dc5.op = "store"
  <2>1. program' = [w \in Words |-> [b \in Byte |-> IF <<w, b>> \in cells(dc5) THEN dc5.id ELSE program[w][b]]]
    BY <1>2 DEF History
  <2> QED
    BY <1>1, <1>2, <2>1 DEF Committed
<1>3. CASE ~(dc5.busreq /\ lsu_commit_dc5(kill) /\ dc5.op = "store")
  <2>1. program' = program
    BY <1>3 DEF History
  <2> QED
    BY <1>3, <2>1 DEF Committed
<1> QED
  BY <1>2, <1>3

(* What the program wrote stays older than what is in the pipe. *)
LEMMA RecentStep ==
  ASSUME BufferInv, Recent,
         NEW packet, NEW lower, NEW up, NEW flush_dc3, NEW kill, NEW branch, NEW hold, NEW freeze,
         PipeEdges(packet, lower, up, flush_dc3, kill, branch, hold, freeze)
  PROVE  Recent'
<1>1. /\ packet \in Issuable(lower, freeze) /\ (packet.valid => ~freeze)
      /\ PipeEdge(packet, lower, up, flush_dc3, kill, hold, freeze)
      /\ History(flush_dc3, freeze, kill, packet)
      /\ ProgramOrder /\ Requests
  BY DEF PipeEdges, BufferInv, Base, OwnersInv
<1>2. /\ issued \in Nat /\ issued' \in Nat /\ issued <= issued'
      /\ \A n \in InPipe' : n \in Nat /\ (n \in InPipe \/ n > issued) /\ \A m \in Ids5 : m < n
  BY <1>1, Followers
<1> SUFFICES ASSUME NEW c \in Cells
             PROVE  /\ program'[c[1]][c[2]] \in Nat /\ program'[c[1]][c[2]] <= issued'
                    /\ \A n \in InPipe' : program'[c[1]][c[2]] < n
  BY DEF Recent
<1>3. CASE Committed(c, kill)
  <2>1. dc5.id \in Ids5
    BY <1>3 DEF Committed, Ids5, Ids
  <2>2. dc5.id \in 1..issued
    BY <1>1, <2>1 DEF ProgramOrder
  <2>3. program'[c[1]][c[2]] = dc5.id
    BY <1>1, <1>3, ProgramMoves
  <2> QED
    BY <1>2, <2>1, <2>2, <2>3
<1>4. CASE ~Committed(c, kill)
  <2>1. program'[c[1]][c[2]] = program[c[1]][c[2]]
    BY <1>1, <1>4, ProgramMoves
  <2>2. /\ program[c[1]][c[2]] \in Nat /\ program[c[1]][c[2]] <= issued
        /\ \A n \in InPipe : program[c[1]][c[2]] < n
    BY DEF Recent
  <2> QED
    BY <1>2, <2>1, <2>2
<1> QED
  BY <1>3, <1>4

-----------------------------------------------------------------------------

(* A store that goes on from dc5 is committed. *)
LEMMA AcceptedStore ==
  ASSUME InStep, NEW lower \in BOOLEAN, NEW kill \in BOOLEAN, NEW freeze, kill => lower,
         freeze = (ld_freeze_dc3 /\ ~lower), accepted(kill, freeze), dc5.op = "store"
  PROVE  lsu_commit_dc5(kill)
<1> SUFFICES ASSUME ~lsu_commit_dc5(kill) PROVE FALSE
  OBVIOUS
<1>1. dc5.busreq /\ ld_freeze_dc3 /\ ~lower
  BY DEF accepted
<1>2. ~dc5.valid
  BY <1>1 DEF lsu_commit_dc5
<1> QED
  BY <1>1, <1>2 DEF InStep, flushed

(* The bytes of a store are in its two words. *)
LEMMA CellOfStore ==
  ASSUME NEW c \in Cells
  PROVE  /\ c \in cells(dc5) <=> \/ c[1] = lo(dc5) /\ c[2] \in byteen(dc5, lo(dc5))
                                 \/ c[1] = hi(dc5) /\ c[2] \in byteen(dc5, hi(dc5))
BY DEF Cells, cells

(* What the halves of the request in dc5 hold. *)
LEMMA HalfFields ==
  ASSUME NEW up
  PROVE  /\ LoHalf(up).write = (dc5.op = "store") /\ LoHalf(up).word = lo(dc5)
         /\ LoHalf(up).byteen = byteen(dc5, lo(dc5)) /\ LoHalf(up).data = StoreBytes(dc5, lo(dc5))
         /\ LoHalf(up).expect = Expect(dc5, lo(dc5))
         /\ HiHalf(up).write = (dc5.op = "store") /\ HiHalf(up).word = hi(dc5)
         /\ HiHalf(up).byteen = byteen(dc5, hi(dc5)) /\ HiHalf(up).data = StoreBytes(dc5, hi(dc5))
         /\ HiHalf(up).expect = Expect(dc5, hi(dc5))
BY DEF LoHalf, HiHalf, Half

(* The bytes of a fresh store are those of the store in dc5. *)
LEMMA FreshWriter ==
  ASSUME AnswersInv, InStep,
         NEW clk_en, NEW up, NEW kill \in BOOLEAN, NEW freeze, NEW ready, NEW reads, NEW writes, NEW error,
         BufferEdges(clk_en, up, kill, freeze, ready, reads, writes, error), Places',
         NEW lower \in BOOLEAN, kill => lower, freeze = (ld_freeze_dc3 /\ ~lower),
         NEW j \in Entries, Fresh(j, kill, freeze), Here(j)', NEW c \in Cells, writer(j, c)'
  PROVE  Committed(c, kill) /\ Value(j, c)' = dc5.id
<1>1. accepted(kill, freeze) /\ dc5.busreq
  BY DEF Fresh, accepted
<1>2. PICK w \in {lo(dc5), hi(dc5)} : /\ access(j)'.write = (dc5.op = "store") /\ access(j)'.word = w
                                     /\ access(j)'.data = StoreBytes(dc5, w)
  <2>1. CASE access(j)' = LoHalf(up)
    BY <2>1, HalfFields, Zenon
  <2>2. CASE access(j)' = HiHalf(up)
    BY <2>2, HalfFields, Zenon
  <2> QED
    BY <2>1, <2>2, FreshAccess
<1>3. access(j)'.write /\ access(j)'.word = c[1] /\ c[2] \in DOMAIN access(j)'.data
  BY DEF writer
<1>4. dc5.op = "store" /\ w = c[1] /\ c[2] \in DOMAIN StoreBytes(dc5, w) /\ access(j)'.data = StoreBytes(dc5, w)
  BY <1>2, <1>3
<1>5. c[2] \in byteen(dc5, w) /\ access(j)'.data[c[2]] = dc5.id
  BY <1>4 DEF StoreBytes
<1>6. lsu_commit_dc5(kill)
  BY <1>1, <1>4, AcceptedStore
<1>7. c \in cells(dc5)
  BY <1>4, <1>5, CellOfStore
<1> QED
  BY <1>1, <1>4, <1>5, <1>6, <1>7 DEF Committed, Value

(* What joins the input buffer is committed. *)
LEMMA JoinIsCommitted ==
  ASSUME NEW kill, ibuf_merge_en(kill), NEW c \in Cells, c[1] = lo(dc5), c[2] \in byteen(dc5, lo(dc5))
  PROVE  Committed(c, kill)
<1>1. c \in cells(dc5)
  BY CellOfStore
<1> QED
  BY <1>1 DEF Committed, ibuf_merge_en

(* The writers of a byte after a step: those that stay, and the committed store. *)
LEMMA WriterStays ==
  ASSUME AnswersInv, AllLegal,
         NEW clk_en, NEW up, NEW kill, NEW freeze, NEW ready, NEW reads, NEW writes, NEW error,
         BufferEdges(clk_en, up, kill, freeze, ready, reads, writes, error), Places',
         NEW c \in Cells, NEW j \in Writers(c), Here(j)'
  PROVE  /\ j \in Writers(c)'
         /\ \/ Value(j, c)' = Value(j, c)
            \/ Committed(c, kill) /\ Value(j, c)' = dc5.id /\ in_ibuf(j)
<1>1. j \in Entries /\ Here(j) /\ access(j).write /\ access(j).word = c[1] /\ c[2] \in DOMAIN access(j).data
  BY DEF Writers, writer
<1>2. access(j)'.write = access(j).write /\ access(j)'.word = access(j).word
  BY <1>1, WriterKept
<1>3. CASE in_ibuf(j) /\ ibuf_merge_en(kill)
  <2>1. /\ access(j).word = lo(dc5)
        /\ DOMAIN access(j)'.data = DOMAIN access(j).data \cup byteen(dc5, lo(dc5))
        /\ \A b \in DOMAIN access(j)'.data :
             access(j)'.data[b] = IF b \in byteen(dc5, lo(dc5)) THEN dc5.id ELSE access(j).data[b]
    BY <1>1, <1>3, WriterKept
  <2>2. j \in Writers(c)'
    BY <1>1, <1>2, <2>1 DEF Writers, writer
  <2>3. CASE c[2] \in byteen(dc5, lo(dc5))
    BY <1>1, <1>3, <2>1, <2>2, <2>3, JoinIsCommitted DEF Value
  <2>4. CASE c[2] \notin byteen(dc5, lo(dc5))
    BY <1>1, <2>1, <2>2, <2>4 DEF Value
  <2> QED
    BY <2>3, <2>4
<1>4. CASE ~(in_ibuf(j) /\ ibuf_merge_en(kill))
  <2>1. /\ DOMAIN access(j)'.data = DOMAIN access(j).data
        /\ \A b \in DOMAIN access(j).data : access(j)'.data[b] = access(j).data[b]
    BY <1>1, <1>4, WriterKept
  <2> QED
    BY <1>1, <1>2, <2>1 DEF Writers, writer, Value
<1> QED
  BY <1>3, <1>4

(* A writer of a byte was one, with the same value, or has it of the store in dc5. *)
LEMMA WriterWas ==
  ASSUME AnswersInv, AllLegal, InStep,
         NEW clk_en, NEW up, NEW kill \in BOOLEAN, NEW freeze, NEW ready, NEW reads, NEW writes, NEW error,
         BufferEdges(clk_en, up, kill, freeze, ready, reads, writes, error), Places',
         NEW lower \in BOOLEAN, kill => lower, freeze = (ld_freeze_dc3 /\ ~lower),
         NEW c \in Cells, NEW j \in Writers(c)'
  PROVE  \/ j \in Writers(c) /\ Value(j, c)' = Value(j, c)
         \/ /\ Committed(c, kill) /\ Value(j, c)' = dc5.id
            /\ Fresh(j, kill, freeze) \/ (in_ibuf(j) /\ access(j).word = c[1])
<1>1. j \in Entries /\ Here(j)' /\ writer(j, c)'
  BY DEF Writers
<1>2. CASE Fresh(j, kill, freeze)
  BY <1>1, <1>2, FreshWriter
<1>3. CASE Here(j)
  <2>1. access(j)'.write /\ access(j)'.word = c[1] /\ c[2] \in DOMAIN access(j)'.data
    BY <1>1 DEF writer
  <2>2. access(j).write /\ access(j).word = c[1]
    BY <1>1, <1>3, <2>1, WriterKept
  <2>3. CASE c[2] \in DOMAIN access(j).data
    <3>1. j \in Writers(c)
      BY <1>1, <1>3, <2>2, <2>3 DEF Writers, writer
    <3> QED
      BY <1>1, <2>2, <3>1, WriterStays
  <2>4. CASE c[2] \notin DOMAIN access(j).data
    <3>1. in_ibuf(j) /\ ibuf_merge_en(kill)
      <4> SUFFICES ASSUME ~(in_ibuf(j) /\ ibuf_merge_en(kill)) PROVE FALSE
        OBVIOUS
      <4>1. BytesKept(access(j), access(j)')
        BY <1>1, <1>3, BytesHeld
      <4>2. DOMAIN access(j)'.data = DOMAIN access(j).data
        BY <4>1 DEF BytesKept
      <4> QED
        BY <2>1, <2>4, <4>2
    <3>2. /\ access(j).word = lo(dc5)
          /\ DOMAIN access(j)'.data = DOMAIN access(j).data \cup byteen(dc5, lo(dc5))
          /\ \A b \in DOMAIN access(j)'.data :
               access(j)'.data[b] = IF b \in byteen(dc5, lo(dc5)) THEN dc5.id ELSE access(j).data[b]
      <4>1. /\ access(j).word = lo(dc5)
            /\ BytesPut(access(j), access(j)', byteen(dc5, lo(dc5)), dc5.id)
        BY <1>1, <1>3, <3>1, BytesJoined
      <4> QED
        BY <4>1, Zenon DEF BytesPut
    <3>3. c[1] = lo(dc5) /\ c[2] \in byteen(dc5, lo(dc5)) /\ Value(j, c)' = dc5.id
      BY <2>1, <2>2, <2>4, <3>2 DEF Value
    <3> QED
      BY <2>2, <3>1, <3>3, JoinIsCommitted
  <2> QED
    BY <2>3, <2>4
<1> QED
  BY <1>1, <1>2, <1>3, HereOrFresh

(* A committed store is in the buffers, whichever way it goes. *)
LEMMA FreshArrives ==
  ASSUME AnswersInv,
         NEW clk_en, NEW up, NEW kill, NEW freeze, NEW ready, NEW reads, NEW writes, NEW error,
         BufferEdges(clk_en, up, kill, freeze, ready, reads, writes, error), Places',
         accepted(kill, freeze)
  PROVE  /\ lo_direct(up, kill, freeze) => \E p \in Entries : Here(p)' /\ access(p)' = LoHalf(up)
         /\ hi_direct(up, kill, freeze) => \E p \in Entries : Here(p)' /\ access(p)' = HiHalf(up)
         /\ ibuf_wr_en(up, kill, freeze) /\ ~merges(kill) =>
              IF ldst_dual(dc5) THEN \E p \in Entries : Here(p)' /\ access(p)' = HiHalf(up)
                                ELSE \E p \in Entries : Here(p)' /\ access(p)' = LoHalf(up)
<1>1. /\ OwnersInv /\ BufShape /\ IbufEdge(up, kill, freeze) /\ BufEdge(clk_en, up, kill, freeze) /\ dc5.busreq
  BY DEF BufferEdges, AnswersInv, BufferInv, Base, Shapes, accepted
<1>2. /\ dc5.ptr0 \in Entries /\ dc5.ptr1 \in Entries
      /\ dc5.ptr0 \notin Taken /\ dc5.ptr0 \notin Tagged
      /\ ldst_dual(dc5) => /\ dc5.ptr1 \notin Taken /\ dc5.ptr1 \notin Tagged
                           /\ dc5.ptr0 # dc5.ptr1
  BY <1>1, Dc5Ptrs
<1>3. ASSUME NEW i \in Entries, buf[i].state = "IDLE", New(i, up, kill, freeze) # {}
      PROVE  Here(i)' /\ access(i)' \in New(i, up, kill, freeze)
  <2>1. waits(i)' \/ in_obuf(i)'
    BY <1>3, ToWait
  <2>2. ~in_ibuf(i)' /\ Here(i)'
    BY <2>1 DEF Places, Here
  <2>3. buf'[i].req \in New(i, up, kill, freeze)
    BY <1>1, <1>3, EntryStep DEF BufferEdges
  <2> QED
    BY <2>2, <2>3 DEF access, req
<1>4. ASSUME lo_direct(up, kill, freeze), NEW p \in Entries, p = dc5.ptr0
      PROVE  Here(p)' /\ access(p)' = LoHalf(up)
  <2>1. buf[p].state = "IDLE"
    BY <1>2, <1>4 DEF Taken
  <2>2. ~(ibuf_drain_vld(up, kill, freeze) /\ p = ibuf.tag)
    BY <1>2, <1>4 DEF Tagged, ibuf_drain_vld
  <2>3. ~(hi_direct(up, kill, freeze) /\ p = dc5.ptr1)
    BY <1>2, <1>4 DEF hi_direct
  <2>4. New(p, up, kill, freeze) = {LoHalf(up)}
    BY <1>4, <2>2, <2>3 DEF New
  <2>5. Here(p)' /\ access(p)' \in New(p, up, kill, freeze)
    BY <1>3, <2>1, <2>4
  <2> QED
    BY <2>4, <2>5
<1>5. ASSUME hi_direct(up, kill, freeze), NEW p \in Entries, p = dc5.ptr1
      PROVE  Here(p)' /\ access(p)' = HiHalf(up)
  <2>1. ldst_dual(dc5)
    BY <1>5 DEF hi_direct
  <2>2. buf[p].state = "IDLE"
    BY <1>2, <1>5, <2>1 DEF Taken
  <2>3. ~(ibuf_drain_vld(up, kill, freeze) /\ p = ibuf.tag)
    BY <1>2, <1>5, <2>1 DEF Tagged, ibuf_drain_vld
  <2>4. New(p, up, kill, freeze) = {HiHalf(up)}
    BY <1>5, <2>3 DEF New
  <2>5. Here(p)' /\ access(p)' \in New(p, up, kill, freeze)
    BY <1>3, <2>2, <2>4
  <2> QED
    BY <2>4, <2>5
<1>6. ASSUME ibuf_wr_en(up, kill, freeze), ~merges(kill)
      PROVE  IF ldst_dual(dc5) THEN \E p \in Entries : Here(p)' /\ access(p)' = HiHalf(up)
                               ELSE \E p \in Entries : Here(p)' /\ access(p)' = LoHalf(up)
  <2>1. /\ ibuf'.valid /\ ibuf'.tag = (IF ldst_dual(dc5) THEN dc5.ptr1 ELSE dc5.ptr0)
        /\ ibuf'.req = (IF ldst_dual(dc5) THEN HiHalf(up) ELSE LoHalf(up))
    BY <1>1, <1>6 DEF IbufEdge
  <2>2. PICK p \in Entries : p = (IF ldst_dual(dc5) THEN dc5.ptr1 ELSE dc5.ptr0)
    BY <1>2
  <2>3. in_ibuf(p)'
    BY <2>1, <2>2 DEF in_ibuf
  <2>4. Here(p)' /\ access(p)' = ibuf'.req
    BY <2>3 DEF Here, access
  <2> QED
    BY <2>1, <2>4
<1> QED
  BY <1>2, <1>4, <1>5, <1>6

(* A committed store is a writer of each of its bytes. *)
LEMMA StoreArrives ==
  ASSUME AnswersInv, AllLegal,
         NEW clk_en, NEW up, NEW kill, NEW freeze, NEW ready, NEW reads, NEW writes, NEW error,
         BufferEdges(clk_en, up, kill, freeze, ready, reads, writes, error), Places',
         NEW c \in Cells, Committed(c, kill)
  PROVE  \E j \in Writers(c)' : Value(j, c)' = dc5.id
<1>1. /\ dc5.busreq /\ lsu_commit_dc5(kill) /\ dc5.op = "store" /\ accepted(kill, freeze)
      /\ OwnersInv /\ IbufEdge(up, kill, freeze)
  BY DEF Committed, accepted, AnswersInv, BufferInv, Base, BufferEdges
<1>3. ASSUME NEW i \in Entries, NEW w, Here(i)', access(i)'.write = TRUE, access(i)'.word = w,
             access(i)'.data = StoreBytes(dc5, w), c[1] = w, c[2] \in byteen(dc5, w)
      PROVE  \E j \in Writers(c)' : Value(j, c)' = dc5.id
  <2>1. c[2] \in DOMAIN access(i)'.data /\ access(i)'.data[c[2]] = dc5.id
    BY <1>1, <1>3 DEF StoreBytes
  <2>2. i \in Writers(c)' /\ Value(i, c)' = dc5.id
    BY <1>3, <2>1 DEF Writers, writer, Value
  <2> QED
    BY <2>2
<1>4. /\ LoHalf(up).write = TRUE /\ LoHalf(up).word = lo(dc5) /\ LoHalf(up).data = StoreBytes(dc5, lo(dc5))
      /\ HiHalf(up).write = TRUE /\ HiHalf(up).word = hi(dc5) /\ HiHalf(up).data = StoreBytes(dc5, hi(dc5))
  BY <1>1, HalfFields
<1>5. \/ c[1] = lo(dc5) /\ c[2] \in byteen(dc5, lo(dc5))
      \/ c[1] = hi(dc5) /\ c[2] \in byteen(dc5, hi(dc5)) /\ ldst_dual(dc5)
  BY CellOfStore DEF Committed, ldst_dual
<1>6. CASE c[1] = lo(dc5) /\ c[2] \in byteen(dc5, lo(dc5)) /\ ibuf_merge_en(kill)
  <2>1. PICK i \in Entries : i = ibuf.tag
    BY <1>1, <1>6 DEF OwnersInv, InputBuffer, ibuf_merge_en
  <2>2. in_ibuf(i) /\ Here(i)
    BY <1>6, <2>1 DEF in_ibuf, ibuf_merge_en, Here
  <2>3. Here(i)'
    BY <2>2, LeavesFromBus, OnePlace
  <2>4. /\ access(i)'.write = access(i).write /\ access(i)'.word = access(i).word
        /\ access(i).write = TRUE /\ access(i).word = lo(dc5)
        /\ DOMAIN access(i)'.data = DOMAIN access(i).data \cup byteen(dc5, lo(dc5))
        /\ \A b \in DOMAIN access(i)'.data :
             access(i)'.data[b] = IF b \in byteen(dc5, lo(dc5)) THEN dc5.id ELSE access(i).data[b]
    <3>1. in_ibuf(i) /\ ibuf_merge_en(kill)
      BY <1>6, <2>2
    <3>2. access(i)'.write = access(i).write /\ access(i)'.word = access(i).word
      BY <2>2, <2>3, WriterKept
    <3> QED
      BY <2>2, <2>3, <3>1, <3>2, WriterKept
  <2>5. i \in Writers(c)' /\ Value(i, c)' = dc5.id
    BY <1>6, <2>3, <2>4 DEF Writers, writer, Value
  <2> QED
    BY <2>5
<1>7. CASE c[1] = lo(dc5) /\ c[2] \in byteen(dc5, lo(dc5)) /\ ~ibuf_merge_en(kill)
  <2>1. lo_direct(up, kill, freeze) \/ (ibuf_wr_en(up, kill, freeze) /\ ~merges(kill) /\ ~ldst_dual(dc5))
    BY <1>1, <1>7 DEF lo_direct, ibuf_wr_en, merges
  <2>2. PICK p \in Entries : Here(p)' /\ access(p)' = LoHalf(up)
    BY <1>1, <2>1, FreshArrives
  <2> QED
    BY <1>3, <1>4, <1>7, <2>2
<1>8. CASE c[1] = hi(dc5) /\ c[2] \in byteen(dc5, hi(dc5)) /\ ldst_dual(dc5)
  <2>1. hi_direct(up, kill, freeze) \/ (ibuf_wr_en(up, kill, freeze) /\ ~merges(kill))
    BY <1>1, <1>8 DEF hi_direct, ibuf_wr_en, merges
  <2>2. PICK p \in Entries : Here(p)' /\ access(p)' = HiHalf(up)
    BY <1>1, <1>8, <2>1, FreshArrives
  <2> QED
    BY <1>3, <1>4, <1>8, <2>2
<1> QED
  BY <1>5, <1>6, <1>7, <1>8

-----------------------------------------------------------------------------

Programmed(c) == program[c[1]][c[2]]
Sees(v, S, c) == (v = Mem(c) \/ \E j \in S : Value(j, c) = v) /\ \A j \in S : Value(j, c) <= v
Earlier(i, c) == {j \in Writers(c) : Ahead(j, i)}

MemoryBehind == \A c \in Cells : \A j \in Writers(c) : Mem(c) <= Value(j, c)
WritersSorted == \A c \in Cells : \A i, j \in Writers(c) : Ahead(i, j) => Value(i, c) <= Value(j, c)
ProgramSeen == \A c \in Cells : Sees(Programmed(c), Writers(c), c)
LoadsSee ==
  \A i \in Entries : Here(i) /\ ~access(i).write =>
    \A b \in access(i).byteen :
      Sees(access(i).expect[b], Earlier(i, <<access(i).word, b>>), <<access(i).word, b>>)

ViewBase == AnswersInv /\ ViewOrder /\ AllLegal /\ Carried /\ InStep /\ Recent
DataView == MemoryBehind /\ WritersSorted /\ ProgramSeen /\ LoadsSee

Edges(clk_en, packet, lower, up, flush_dc3, kill, branch, hold, freeze, ready, reads, writes, error) ==
  /\ BufferEdges(clk_en, up, kill, freeze, ready, reads, writes, error)
  /\ PipeEdges(packet, lower, up, flush_dc3, kill, branch, hold, freeze)

-----------------------------------------------------------------------------
(* The bytes on their way are numbers between what memory holds and what the program wrote. *)
LEMMA Bounds ==
  ASSUME ViewBase, MemoryBehind, ProgramSeen, NEW c \in Cells
  PROVE  /\ Mem(c) \in Nat /\ Programmed(c) \in Nat /\ Mem(c) <= Programmed(c)
         /\ \A j \in Writers(c) : /\ Value(j, c) \in Nat /\ Mem(c) <= Value(j, c)
                                  /\ Value(j, c) <= Programmed(c)
<1>1. memory \in Memories /\ program \in Memories
  BY DEF ViewBase, AnswersInv, BufferInv, Slave
<1>2. Mem(c) \in Nat /\ Programmed(c) \in Nat
  BY <1>1 DEF Memories, Cells, Mem, Programmed
<1>3. ASSUME NEW j \in Writers(c) PROVE Value(j, c) \in Nat
  <2>1. Here(j) /\ j \in Entries /\ access(j).write /\ c[2] \in DOMAIN access(j).data
    BY <1>3 DEF Writers, writer
  <2>2. Legal(access(j))
    BY <2>1 DEF ViewBase, AllLegal
  <2> QED
    BY <2>1, <2>2 DEF Legal, Numbers, Value
<1>4. \A j \in Writers(c) : Mem(c) <= Value(j, c) /\ Value(j, c) <= Programmed(c)
  BY DEF MemoryBehind, ProgramSeen, Sees
<1> QED
  BY <1>2, <1>3, <1>4 DEF ProgramSeen, Sees

(* A store that is committed is younger than all that the program wrote before. *)
LEMMA CommittedLast ==
  ASSUME ViewBase, NEW kill, NEW c \in Cells, Committed(c, kill)
  PROVE  dc5.id \in Nat /\ Programmed(c) < dc5.id
<1>1. dc5.busreq /\ ProgramOrder
  BY DEF Committed, ViewBase, AnswersInv, BufferInv, Base
<1>2. dc5.id \in InPipe /\ dc5.id \in 1..issued /\ issued \in Nat
  BY <1>1 DEF InPipe, Ids5, Ids, ProgramOrder
<1> QED
  BY <1>2 DEF ViewBase, Recent, Programmed

(* The youngest store to a byte is what the program made of it. *)
LEMMA YoungestWriter ==
  ASSUME ViewBase, DataView, NEW c \in Cells, NEW i \in Writers(c), \A j \in Writers(c) : j # i => Ahead(j, i)
  PROVE  Programmed(c) = Value(i, c)
<1>1. \A j \in Writers(c) : Value(j, c) \in Nat /\ Value(j, c) <= Value(i, c)
  BY Bounds DEF DataView, WritersSorted
<1>2. Programmed(c) \in Nat /\ Mem(c) \in Nat /\ Mem(c) <= Value(i, c) /\ Value(i, c) <= Programmed(c)
  BY Bounds DEF DataView
<1> QED
  BY <1>1, <1>2 DEF DataView, ProgramSeen, Sees

(* What leaves for the memory is before every other store to the byte. *)
LEMMA OnBusFirst ==
  ASSUME ViewBase, NEW i \in Entries, NEW j \in Entries, on_bus(i), Here(j), i # j, access(i).word = access(j).word
  PROVE  Ahead(i, j)
<1>1. Here(i)
  BY DEF Here
<1>2. Ahead(i, j) \/ Ahead(j, i)
  BY <1>1 DEF ViewBase, ViewOrder, OneAhead
<1>3. ~in_obuf(i) /\ ~waits(i) /\ ~in_ibuf(i)
  BY OnePlace DEF ViewBase
<1> QED
  BY <1>2, <1>3 DEF Ahead

(* What is in the input buffer is behind everything else. *)
LEMMA IbufLast ==
  ASSUME ViewBase, NEW i \in Entries, NEW j \in Entries, in_ibuf(i), Here(j), i # j
  PROVE  Ahead(j, i)
<1>1. ~in_ibuf(j)
  BY DEF in_ibuf
<1> QED
  BY <1>1 DEF Ahead, Here

(* Nothing is ahead of what is on the bus. *)
LEMMA NoneBeforeBus ==
  ASSUME ViewBase, NEW i \in Entries, on_bus(i), NEW c
  PROVE  Earlier(i, c) = {}
<1>1. ~in_obuf(i) /\ ~waits(i) /\ ~in_ibuf(i)
  BY OnePlace DEF ViewBase
<1> QED
  BY <1>1 DEF Earlier, Ahead

-----------------------------------------------------------------------------
(* The order is kept both ways. *)
LEMMA AheadWas ==
  ASSUME ViewBase, AnswersInv',
         NEW clk_en, NEW up, NEW kill, NEW freeze, NEW ready, NEW reads, NEW writes, NEW error,
         BufferEdges(clk_en, up, kill, freeze, ready, reads, writes, error),
         NEW i \in Entries, NEW j \in Entries, access(i).word = access(j).word,
         Here(i), Here(j), Ahead(i, j)'
  PROVE  Ahead(i, j)
<1>1. AheadSound'
  BY AheadAsym, PTL
<1>2. i # j /\ ~Ahead(j, i)' /\ Here(i)' /\ Here(j)'
  BY <1>1 DEF AheadSound
<1>3. Ahead(i, j) \/ Ahead(j, i)
  BY <1>2 DEF ViewBase, ViewOrder, OneAhead
<1>4. ASSUME Ahead(j, i) PROVE FALSE
  <2>1. Ahead(j, i)'
    BY <1>2, <1>4, AheadKept DEF ViewBase, ViewOrder
  <2> QED
    BY <1>2, <2>1
<1> QED
  BY <1>3, <1>4

(* A store that joins or arrives is the last one of its bytes. *)
LEMMA Latest ==
  ASSUME ViewBase, AnswersInv',
         NEW clk_en, NEW up, NEW kill, NEW freeze, NEW ready, NEW reads, NEW writes, NEW error,
         BufferEdges(clk_en, up, kill, freeze, ready, reads, writes, error),
         NEW i \in Entries, NEW j \in Entries, i # j, Here(j), Here(j)', Here(i)',
         Fresh(i, kill, freeze) \/ (in_ibuf(i) /\ access(i).word = access(j).word)
  PROVE  Ahead(j, i)' /\ ~Ahead(i, j)'
<1>1. AheadSound'
  BY AheadAsym, PTL
<1>2. CASE Fresh(i, kill, freeze)
  <2>1. Ahead(j, i)'
    BY <1>2, ArrivesBehind DEF ViewBase
  <2> QED
    BY <1>1, <2>1 DEF AheadSound
<1>3. CASE in_ibuf(i) /\ access(i).word = access(j).word
  <2>1. Ahead(j, i)
    BY <1>3, IbufLast
  <2>2. Ahead(j, i)'
    BY <1>3, <2>1, AheadKept DEF ViewBase, ViewOrder
  <2> QED
    BY <1>1, <2>2 DEF AheadSound
<1> QED
  BY <1>2, <1>3

-----------------------------------------------------------------------------

(* What a byte is read as by some of the stores before it stays so when one of
   them, the first, is written to memory. *)
LEMMA SeesKept ==
  ASSUME ViewBase, MemoryBehind, ProgramSeen, Places',
         NEW clk_en, NEW up, NEW kill, NEW freeze, NEW ready, NEW reads, NEW writes, NEW error,
         BufferEdges(clk_en, up, kill, freeze, ready, reads, writes, error),
         NEW c \in Cells, NEW S, S \subseteq Writers(c),
         \A k \in Writers(c) : ~Here(k)' => k \in S,
         NEW v, Sees(v, S, c)
  PROVE  v = Mem(c)' \/ \E j \in S : Here(j)' /\ Value(j, c) = v
<1>1. CASE Mem(c)' = Mem(c) /\ \A j \in Writers(c) : Here(j)'
  BY <1>1 DEF Sees
<1>2. ASSUME NEW k \in Writers(c), ~Here(k)', Mem(c)' = Value(k, c),
             \A j \in Writers(c) : j # k => Here(j)'
      PROVE  v = Mem(c)' \/ \E j \in S : Here(j)' /\ Value(j, c) = v
  <2>1. k \in S /\ Value(k, c) <= v
    BY <1>2 DEF Sees
  <2>2. CASE v = Mem(c)
    <3>1. Mem(c) <= Value(k, c) /\ Mem(c) \in Nat /\ Value(k, c) \in Nat
      BY Bounds
    <3> QED
      BY <1>2, <2>1, <2>2, <3>1
  <2>3. ASSUME NEW j \in S, Value(j, c) = v PROVE v = Mem(c)' \/ \E n \in S : Here(n)' /\ Value(n, c) = v
    <3>1. CASE j = k
      BY <1>2, <2>3, <3>1
    <3>2. CASE j # k
      BY <1>2, <2>3, <3>2
    <3> QED
      BY <3>1, <3>2
  <2> QED
    BY <2>2, <2>3 DEF Sees
<1>3. \/ Mem(c)' = Mem(c) /\ \A j \in Writers(c) : Here(j)'
      \/ \E j \in Writers(c) : /\ on_bus(j) /\ ~Here(j)' /\ Mem(c)' = Value(j, c)
                               /\ \A k \in Writers(c) : k # j => Here(k)'
  BY MemoryMoves DEF ViewBase
<1> QED
  BY <1>1, <1>2, <1>3

(* Memory gets no value younger than one on its way. *)
LEMMA MemoryBehindStep ==
  ASSUME ViewBase, AnswersInv', DataView,
         NEW clk_en, NEW packet, NEW lower, NEW up, NEW flush_dc3, NEW kill, NEW branch, NEW hold,
         NEW freeze, NEW ready, NEW reads, NEW writes, NEW error,
         Edges(clk_en, packet, lower, up, flush_dc3, kill, branch, hold, freeze, ready, reads, writes, error)
  PROVE  MemoryBehind'
<1> USE DEF Edges
<1>1. SUFFICES ASSUME NEW c \in Cells, NEW j \in Writers(c)' PROVE Mem(c)' <= Value(j, c)'
  BY DEF MemoryBehind, Cells
<1>2. /\ Places' /\ kill \in BOOLEAN /\ lower \in BOOLEAN /\ (kill => lower)
      /\ freeze = (ld_freeze_dc3 /\ ~lower) /\ j \in Entries /\ Here(j)'
  BY PlacesNext DEF PipeEdges, Writers
<1>3. /\ Mem(c) \in Nat /\ Programmed(c) \in Nat /\ Mem(c) <= Programmed(c)
      /\ \A k \in Writers(c) : /\ Value(k, c) \in Nat /\ Mem(c) <= Value(k, c)
                               /\ Value(k, c) <= Programmed(c)
  BY Bounds DEF DataView
<1>4. \/ Mem(c)' = Mem(c) /\ \A k \in Writers(c) : Here(k)'
      \/ \E k \in Writers(c) : /\ on_bus(k) /\ ~Here(k)' /\ Mem(c)' = Value(k, c)
                               /\ \A n \in Writers(c) : n # k => Here(n)'
  BY <1>2, MemoryMoves DEF ViewBase
<1>5. CASE j \in Writers(c) /\ Value(j, c)' = Value(j, c)
  <2>1. ASSUME NEW k \in Writers(c), on_bus(k), ~Here(k)', Mem(c)' = Value(k, c) PROVE Mem(c)' <= Value(j, c)'
    <3>1. /\ k \in Entries /\ k # j /\ Here(j) /\ access(k).word = c[1] /\ access(j).word = c[1]
      BY <1>2, <1>5, <2>1 DEF Writers, writer
    <3>2. Ahead(k, j)
      BY <1>2, <2>1, <3>1, OnBusFirst
    <3> QED
      BY <1>5, <2>1, <3>2 DEF DataView, WritersSorted
  <2> QED
    BY <1>3, <1>4, <1>5, <2>1
<1>6. CASE Committed(c, kill) /\ Value(j, c)' = dc5.id
  <2>1. dc5.id \in Nat /\ Programmed(c) < dc5.id
    BY <1>6, CommittedLast
  <2>2. Mem(c)' \in Nat /\ Mem(c)' <= Programmed(c)
    BY <1>3, <1>4
  <2> QED
    BY <1>3, <1>6, <2>1, <2>2
<1>7. (j \in Writers(c) /\ Value(j, c)' = Value(j, c)) \/ (Committed(c, kill) /\ Value(j, c)' = dc5.id)
  BY <1>2, WriterWas DEF ViewBase
<1> QED
  BY <1>5, <1>6, <1>7

(* Stores to a byte stay in the order of the program. *)
LEMMA WritersSortedStep ==
  ASSUME ViewBase, AnswersInv', DataView,
         NEW clk_en, NEW packet, NEW lower, NEW up, NEW flush_dc3, NEW kill, NEW branch, NEW hold,
         NEW freeze, NEW ready, NEW reads, NEW writes, NEW error,
         Edges(clk_en, packet, lower, up, flush_dc3, kill, branch, hold, freeze, ready, reads, writes, error)
  PROVE  WritersSorted'
<1> USE DEF Edges
<1>1. SUFFICES ASSUME NEW c \in Cells, NEW i \in Writers(c)', NEW j \in Writers(c)', Ahead(i, j)'
               PROVE  Value(i, c)' <= Value(j, c)'
  BY DEF WritersSorted, Cells
<1>2. /\ Places' /\ kill \in BOOLEAN /\ lower \in BOOLEAN /\ (kill => lower)
      /\ freeze = (ld_freeze_dc3 /\ ~lower) /\ i \in Entries /\ j \in Entries /\ Here(i)' /\ Here(j)'
  BY PlacesNext DEF PipeEdges, Writers
<1>3. /\ Programmed(c) \in Nat
      /\ \A k \in Writers(c) : Value(k, c) \in Nat /\ Value(k, c) <= Programmed(c)
  BY Bounds DEF DataView
<1>4. i # j
  <2>1. AheadSound'
    BY AheadAsym, PTL
  <2> QED
    BY <1>1, <1>2, <2>1 DEF AheadSound
<1>5. \/ i \in Writers(c) /\ Value(i, c)' = Value(i, c)
      \/ /\ Committed(c, kill) /\ Value(i, c)' = dc5.id
         /\ Fresh(i, kill, freeze) \/ (in_ibuf(i) /\ access(i).word = c[1])
  BY <1>2, WriterWas DEF ViewBase
<1>6. \/ j \in Writers(c) /\ Value(j, c)' = Value(j, c)
      \/ /\ Committed(c, kill) /\ Value(j, c)' = dc5.id
         /\ Fresh(j, kill, freeze) \/ (in_ibuf(j) /\ access(j).word = c[1])
  BY <1>2, WriterWas DEF ViewBase
<1>7. CASE Committed(c, kill) /\ Value(j, c)' = dc5.id
  <2>1. dc5.id \in Nat /\ Programmed(c) < dc5.id
    BY <1>7, CommittedLast
  <2> QED
    BY <1>3, <1>5, <1>7, <2>1
<1>8. CASE j \in Writers(c) /\ Value(j, c)' = Value(j, c)
  <2>1. Here(j) /\ access(j).word = c[1]
    BY <1>8 DEF Writers, writer
  <2>2. CASE i \in Writers(c) /\ Value(i, c)' = Value(i, c)
    <3>1. Here(i) /\ access(i).word = c[1]
      BY <2>2 DEF Writers, writer
    <3>2. Ahead(i, j)
      BY <1>1, <1>2, <2>1, <3>1, AheadWas
    <3> QED
      BY <1>8, <2>2, <3>2 DEF DataView, WritersSorted
  <2>3. CASE Fresh(i, kill, freeze) \/ (in_ibuf(i) /\ access(i).word = c[1])
    <3>1. ~Ahead(i, j)'
      BY <1>2, <1>4, <2>1, <2>3, Latest
    <3> QED
      BY <1>1, <3>1
  <2> QED
    BY <1>5, <2>2, <2>3
<1> QED
  BY <1>6, <1>7, <1>8

(* The youngest store to a byte, or memory when there is none, has what the program made of it. *)
LEMMA ProgramSeenStep ==
  ASSUME ViewBase, AnswersInv', DataView,
         NEW clk_en, NEW packet, NEW lower, NEW up, NEW flush_dc3, NEW kill, NEW branch, NEW hold,
         NEW freeze, NEW ready, NEW reads, NEW writes, NEW error,
         Edges(clk_en, packet, lower, up, flush_dc3, kill, branch, hold, freeze, ready, reads, writes, error)
  PROVE  ProgramSeen'
<1> USE DEF Edges
<1>1. SUFFICES ASSUME NEW c \in Cells PROVE Sees(Programmed(c), Writers(c), c)'
  BY DEF ProgramSeen, Cells
<1>2. /\ Places' /\ kill \in BOOLEAN /\ lower \in BOOLEAN /\ (kill => lower)
      /\ freeze = (ld_freeze_dc3 /\ ~lower)
      /\ History(flush_dc3, freeze, kill, packet) /\ BufferInv
  BY PlacesNext DEF PipeEdges, ViewBase, AnswersInv
<1>3. /\ Programmed(c) \in Nat
      /\ \A k \in Writers(c) : Value(k, c) \in Nat /\ Value(k, c) <= Programmed(c)
  BY Bounds DEF DataView
<1>4. Programmed(c)' = IF Committed(c, kill) THEN dc5.id ELSE Programmed(c)
  BY <1>2, ProgramMoves DEF Programmed
<1>5. \A j \in Writers(c)' : \/ j \in Writers(c) /\ Value(j, c)' = Value(j, c)
                             \/ Committed(c, kill) /\ Value(j, c)' = dc5.id
  <2> SUFFICES ASSUME NEW j \in Writers(c)'
               PROVE  \/ j \in Writers(c) /\ Value(j, c)' = Value(j, c)
                      \/ Committed(c, kill) /\ Value(j, c)' = dc5.id
    OBVIOUS
  <2> QED
    BY <1>2, WriterWas DEF ViewBase
<1>6. CASE Committed(c, kill)
  <2>1. dc5.id \in Nat /\ Programmed(c) < dc5.id
    BY <1>6, CommittedLast
  <2>2. \E j \in Writers(c)' : Value(j, c)' = dc5.id
    BY <1>2, <1>6, StoreArrives DEF ViewBase
  <2>3. \A j \in Writers(c)' : Value(j, c)' <= dc5.id
    BY <1>3, <1>5, <2>1
  <2> QED
    BY <1>4, <1>6, <2>2, <2>3 DEF Sees
<1>7. CASE ~Committed(c, kill)
  <2>1. Programmed(c)' = Programmed(c) /\ \A j \in Writers(c)' : Value(j, c)' <= Programmed(c)
    BY <1>3, <1>4, <1>5, <1>7
  <2>2. Programmed(c) = Mem(c)' \/ \E j \in Writers(c) : Here(j)' /\ Value(j, c) = Programmed(c)
    <3>1. Sees(Programmed(c), Writers(c), c)
      BY DEF DataView, ProgramSeen
    <3> HIDE DEF Sees, Programmed, Writers, Edges
    <3>2. BufferEdges(clk_en, up, kill, freeze, ready, reads, writes, error)
      BY DEF Edges
    <3> QED
      BY <1>2, <3>1, <3>2, SeesKept DEF DataView
  <2>3. ASSUME NEW j \in Writers(c), Here(j)', Value(j, c) = Programmed(c)
        PROVE  j \in Writers(c)' /\ Value(j, c)' = Programmed(c)
    BY <1>2, <1>7, <2>3, WriterStays DEF ViewBase
  <2> QED
    BY <2>1, <2>2, <2>3 DEF Sees
<1> QED
  BY <1>6, <1>7

-----------------------------------------------------------------------------

(* A load that stays expects the same of the stores before it. *)
LEMMA LoadStays ==
  ASSUME ViewBase, AnswersInv', DataView, Places',
         NEW clk_en, NEW packet, NEW lower \in BOOLEAN, NEW up, NEW kill \in BOOLEAN,
         NEW freeze, NEW ready, NEW reads, NEW writes, NEW error, kill => lower,
         freeze = (ld_freeze_dc3 /\ ~lower),
         BufferEdges(clk_en, up, kill, freeze, ready, reads, writes, error),
         NEW i \in Entries, Here(i), Here(i)', NEW c \in Cells, access(i).word = c[1],
         access(i)'.write = access(i).write, ~access(i).write,
         NEW v, Sees(v, Earlier(i, c), c)
  PROVE  Sees(v, Earlier(i, c), c)'
<1>1. AheadSound'
  BY AheadAsym, PTL
<1>2. Earlier(i, c) \subseteq Writers(c)
  BY DEF Earlier
<1>3. ASSUME NEW k \in Writers(c), ~Here(k)' PROVE k \in Earlier(i, c)
  <2>1. k \in Entries /\ Here(k) /\ access(k).word = c[1] /\ k # i
    BY <1>3 DEF Writers, writer
  <2>2. on_bus(k)
    BY <1>3, <2>1, LeavesFromBus DEF ViewBase
  <2>3. Ahead(k, i)
    BY <2>1, <2>2, OnBusFirst
  <2> QED
    BY <2>3 DEF Earlier
<1>4. v = Mem(c)' \/ \E j \in Earlier(i, c) : Here(j)' /\ Value(j, c) = v
  BY <1>2, <1>3, SeesKept DEF DataView
<1>5. ASSUME NEW j \in Earlier(i, c), Here(j)'
      PROVE  j \in Earlier(i, c)' /\ Value(j, c)' = Value(j, c)
  <2>1. j \in Writers(c) /\ Ahead(j, i) /\ j \in Entries /\ access(j).word = c[1]
    BY DEF Earlier, Writers, writer
  <2>2. ~in_ibuf(j)
    BY <2>1, OnePlace DEF Ahead, ViewBase
  <2>3. j \in Writers(c)' /\ Value(j, c)' = Value(j, c)
    BY <1>5, <2>1, <2>2, WriterStays DEF ViewBase
  <2>4. Ahead(j, i)'
    BY <1>5, <2>1, AheadKept DEF ViewBase, ViewOrder
  <2> QED
    BY <2>3, <2>4 DEF Earlier
<1>6. ASSUME NEW j \in Earlier(i, c)' PROVE Value(j, c)' <= v
  <2>1. j \in Writers(c)' /\ Ahead(j, i)'
    BY <1>6 DEF Earlier
  <2>2. j \in Entries /\ Here(j)' /\ j # i
    BY <1>1, <2>1 DEF Writers, AheadSound
  <2>3. \/ j \in Writers(c) /\ Value(j, c)' = Value(j, c)
        \/ Fresh(j, kill, freeze) \/ (in_ibuf(j) /\ access(j).word = c[1])
    BY <2>1, WriterWas DEF ViewBase
  <2>4. CASE j \in Writers(c) /\ Value(j, c)' = Value(j, c)
    <3>1. Here(j) /\ access(j).word = c[1]
      BY <2>4 DEF Writers, writer
    <3>2. Ahead(j, i)
      BY <2>1, <2>2, <3>1, AheadWas
    <3> QED
      BY <2>4, <3>2 DEF Earlier, Sees
  <2>5. CASE Fresh(j, kill, freeze) \/ (in_ibuf(j) /\ access(j).word = c[1])
    <3>1. ~Ahead(j, i)'
      BY <2>2, <2>5, Latest
    <3> QED
      BY <2>1, <3>1
  <2> QED
    BY <2>3, <2>4, <2>5
<1>7. v = Mem(c)' \/ \E j \in Earlier(i, c)' : Value(j, c)' = v
  BY <1>4, <1>5
<1> QED
  BY <1>6, <1>7 DEF Sees

(* A load that arrives expects what the program has, and all stores are before it. *)
LEMMA LoadArrives ==
  ASSUME ViewBase, AnswersInv', DataView, Places', ProgramSeen',
         NEW clk_en, NEW packet, NEW lower \in BOOLEAN, NEW up, NEW flush_dc3, NEW kill \in BOOLEAN,
         NEW freeze, NEW ready, NEW reads, NEW writes, NEW error, kill => lower,
         freeze = (ld_freeze_dc3 /\ ~lower), History(flush_dc3, freeze, kill, packet),
         BufferEdges(clk_en, up, kill, freeze, ready, reads, writes, error),
         NEW i \in Entries, Fresh(i, kill, freeze), Here(i)', NEW c \in Cells,
         ~access(i)'.write, access(i)'.word = c[1], c[2] \in access(i)'.byteen
  PROVE  Sees(access(i).expect[c[2]], Earlier(i, c), c)'
<1>1. /\ dc5.busreq /\ HasEntries(dc5) /\ BufferInv
  BY DEF ViewBase, AnswersInv, BufferInv, Base, OwnersInv, Requests, Fresh, accepted
<1>2. dc5.op \in {"load", "store"}
  BY <1>1, BusBufferAssumption DEF HasEntries, IsAccess
<1>3. PICK w \in {lo(dc5), hi(dc5)} :
         /\ access(i)'.write = (dc5.op = "store") /\ access(i)'.word = w
         /\ access(i)'.byteen = byteen(dc5, w) /\ access(i)'.expect = Expect(dc5, w)
  <2>1. CASE access(i)' = LoHalf(up)
    BY <2>1, HalfFields, Zenon
  <2>2. CASE access(i)' = HiHalf(up)
    BY <2>2, HalfFields, Zenon
  <2> QED
    BY <2>1, <2>2, FreshAccess DEF ViewBase
<1>4. dc5.op = "load" /\ w = c[1] /\ c[2] \in byteen(dc5, w)
  BY <1>2, <1>3
<1>5. access(i)'.expect[c[2]] = Programmed(c)
  BY <1>3, <1>4 DEF Expect, Programmed
<1>6. ~Committed(c, kill)
  BY <1>4 DEF Committed
<1>7. Programmed(c)' = Programmed(c)
  BY <1>1, <1>6, ProgramMoves DEF Programmed
<1>8. Sees(Programmed(c), Writers(c), c)'
  BY DEF ProgramSeen, Cells
<1>9. ASSUME NEW j \in Writers(c)' PROVE j \in Earlier(i, c)'
  <2>1. j \in Writers(c) /\ j \in Entries /\ Here(j)'
    BY <1>6, <1>9, WriterWas DEF ViewBase, Writers
  <2>2. Here(j)
    BY <2>1 DEF Writers
  <2>3. Ahead(j, i)'
    BY <2>1, <2>2, ArrivesBehind DEF ViewBase
  <2> QED
    BY <1>9, <2>3 DEF Earlier
<1>10. Earlier(i, c)' = Writers(c)'
  BY <1>9 DEF Earlier
<1>11. access(i).expect[c[2]]' = Programmed(c)'
  BY <1>5, <1>7
<1> QED
  BY <1>8, <1>10, <1>11, Zenon DEF Sees

(* Every load on its way will find what it expects. *)
LEMMA LoadsSeeStep ==
  ASSUME ViewBase, AnswersInv', DataView, ProgramSeen', AllLegal',
         NEW clk_en, NEW packet, NEW lower, NEW up, NEW flush_dc3, NEW kill, NEW branch, NEW hold,
         NEW freeze, NEW ready, NEW reads, NEW writes, NEW error,
         Edges(clk_en, packet, lower, up, flush_dc3, kill, branch, hold, freeze, ready, reads, writes, error)
  PROVE  LoadsSee'
<1> SUFFICES ASSUME NEW i \in Entries, Here(i)', ~access(i)'.write, NEW b \in access(i)'.byteen,
                    NEW w, w = access(i)'.word, NEW c, c = <<w, b>>
             PROVE  Sees(access(i).expect[b], Earlier(i, c), c)'
  BY DEF LoadsSee
<1>1. /\ Places' /\ kill \in BOOLEAN /\ lower \in BOOLEAN /\ (kill => lower)
      /\ freeze = (ld_freeze_dc3 /\ ~lower) /\ History(flush_dc3, freeze, kill, packet)
      /\ BufferEdges(clk_en, up, kill, freeze, ready, reads, writes, error)
  BY PlacesNext DEF Edges, PipeEdges
<1>2. Legal(access(i)')
  BY DEF AllLegal
<1>3. c \in Cells /\ c[1] = access(i)'.word /\ c[2] = b
  BY <1>2 DEF Legal, Cells
<1>4. CASE Fresh(i, kill, freeze)
  BY <1>1, <1>3, <1>4, LoadArrives
<1>5. CASE Here(i)
  <2>1. access(i)'.write = access(i).write /\ access(i)'.word = access(i).word
    BY <1>1, <1>5, WriterKept DEF ViewBase
  <2>2. ~access(i).write
    BY <2>1
  <2>3. access(i)'.byteen = access(i).byteen /\ access(i)'.expect = access(i).expect
    BY <1>1, <1>5, <2>2, WriterKept DEF ViewBase
  <2>4. PICK v : v = access(i).expect[b]
    OBVIOUS
  <2>5. Sees(v, Earlier(i, c), c)
    BY <1>3, <1>5, <2>1, <2>2, <2>3, <2>4 DEF DataView, LoadsSee
  <2>6. Sees(v, Earlier(i, c), c)'
    BY <1>1, <1>3, <1>5, <2>1, <2>2, <2>5, LoadStays
  <2>7. access(i).expect[b]' = v
    BY <2>3, <2>4
  <2> QED
    BY <2>6, <2>7 DEF Sees
<1> QED
  BY <1>1, <1>4, <1>5, HereOrFresh DEF ViewBase

-----------------------------------------------------------------------------

(* The bytes that come back for a load, and those it has. *)
ReadGood ==
  \A i \in Entries : buf[i].state = "RESP" /\ ~req(i).write /\ rsp_read_for(i) =>
    \A b \in req(i).byteen : bus_rsp_read.data[req(i).word % 2][b] = req(i).expect[b]
DoneGood ==
  \A i \in Entries : buf[i].state = "DONE" /\ ~req(i).write =>
    \A b \in req(i).byteen : req(i).data[b] = req(i).expect[b]

(* An entry that is answered in this edge was on the bus before it. *)
LEMMA AnsweredWasOnBus ==
  ASSUME AnswersInv, Places',
         NEW clk_en, NEW up, NEW kill, NEW freeze, NEW ready, NEW reads, NEW writes, NEW error,
         BufferEdges(clk_en, up, kill, freeze, ready, reads, writes, error), clk_en = TRUE,
         NEW i \in Entries, buf'[i].state = "RESP", answered(i)'
  PROVE  on_bus(i)
<1>1. BufShape /\ BufEdge(clk_en, up, kill, freeze) /\ clk_en \in BOOLEAN
  BY DEF AnswersInv, BufferInv, Base, Shapes, BufferEdges
<1>2. ~on_bus(i)' /\ ~in_obuf(i)'
  BY DEF Places, on_bus
<1>3. ~in_obuf(i)
  <2> SUFFICES ASSUME in_obuf(i) PROVE FALSE
    OBVIOUS
  <2> QED
    BY <1>2, FromObuf
<1>4. \/ buf[i].state = "CMD" /\ buf_cmd_state_bus_en(i)
      \/ buf[i].state = "RESP" /\ ~answered(i)
  BY <1>1, Moves DEF answered
<1>5. ~buf_cmd_state_bus_en(i)
  BY <1>3 DEF buf_cmd_state_bus_en, in_obuf
<1> QED
  BY <1>3, <1>4, <1>5 DEF on_bus

(* The transaction that answers a load carries the bus word of its access. *)
LEMMA AnswersItsWord ==
  ASSUME AnswersInv, TwinWords, NEW i \in Entries, on_bus(i), NEW t \in bus, AnswersFor(t, i), Legal(req(i))
  PROVE  /\ 2 * t.dword + (req(i).word % 2) = req(i).word /\ req(i).word % 2 \in 0..1
         /\ req(i).word \in Words
<1>1. /\ t.tag \in Entries /\ on_bus(t.tag) /\ dword(req(t.tag).word) = t.dword
      /\ Base /\ Halves /\ buf[i].state = "RESP" /\ buf[t.tag].state = "RESP"
  BY TransactionOnBus DEF AnswersInv, OnBus, on_bus, BufferInv
<1>2. dword(req(i).word) = t.dword
  <2>1. CASE t.tag = i
    BY <1>1, <2>1
  <2>2. CASE same_dword_load(i) /\ req(i).dualhi /\ t.tag = req(i).dualtag
    <3>1. busy(i) /\ busy(t.tag) /\ half(req(i)) /\ req(i).samedw
      BY <1>1, <2>2 DEF busy, half, same_dword_load
    <3>2. Apart(req(i), req(t.tag))
      BY <1>1, <2>2, <3>1 DEF TwinWords
    <3> QED
      BY <1>1, <3>1, <3>2 DEF Apart
  <2> QED
    BY <2>1, <2>2 DEF AnswersFor
<1>3. req(i).word \in Nat /\ req(i).word \in Words
  BY BusBufferAssumption DEF Legal
<1> QED
  BY <1>2, <1>3 DEF dword

(* The bytes that come back are those the load expects: nothing was ahead of it any more. *)
LEMMA ReadGoodStep ==
  ASSUME ViewBase, AnswersInv', DataView, ReadGood,
         NEW clk_en, NEW packet, NEW lower, NEW up, NEW flush_dc3, NEW kill, NEW branch, NEW hold,
         NEW freeze, NEW ready, NEW reads, NEW writes, NEW error,
         Edges(clk_en, packet, lower, up, flush_dc3, kill, branch, hold, freeze, ready, reads, writes, error)
  PROVE  ReadGood'
<1> SUFFICES ASSUME NEW i \in Entries, buf'[i].state = "RESP", ~req(i)'.write, rsp_read_for(i)',
                    NEW b \in req(i)'.byteen
             PROVE  bus_rsp_read'.data[req(i)'.word % 2][b] = req(i)'.expect[b]
  BY DEF ReadGood
<1>1. /\ Places' /\ BufferEdges(clk_en, up, kill, freeze, ready, reads, writes, error)
      /\ BufShape /\ BufEdge(clk_en, up, kill, freeze) /\ clk_en \in BOOLEAN
      /\ BusEdge(clk_en, ready, reads, writes, error)
  BY PlacesNext DEF Edges, BufferEdges, ViewBase, AnswersInv, BufferInv, Base, Shapes
<1>2. CASE clk_en = FALSE
  <2>1. buf[i].state = "RESP"
    BY <1>1, <1>2, Moves
  <2>2. buf'[i] = buf[i]
    BY <1>1, <1>2, <2>1, EntryStep
  <2>3. bus_rsp_read' = bus_rsp_read
    BY <1>1, <1>2 DEF BusEdge
  <2>4. req(i)' = req(i)
    BY <2>2 DEF req
  <2>5. rsp_read_for(i)
    BY <2>3, <2>4 DEF rsp_read_for, same_dword_load
  <2> QED
    BY <2>1, <2>3, <2>4, <2>5 DEF ReadGood
<1>3. CASE clk_en = TRUE
  <2>1. answered(i)'
    BY DEF answered
  <2>2. on_bus(i)
    BY <1>1, <1>3, <2>1, AnsweredWasOnBus DEF ViewBase
  <2>3. req(i)' = req(i)
    BY <1>1, <2>2, FromBus DEF ViewBase
  <2>4. /\ Here(i) /\ access(i) = req(i) /\ Legal(req(i))
    <3>1. Here(i) /\ ~in_ibuf(i)
      BY <2>2, OnePlace DEF Here, ViewBase
    <3> QED
      BY <3>1 DEF ViewBase, AllLegal, access
  <2>5. bus_rsp_read'.valid
    BY DEF rsp_read_for
  <2>6. PICK t \in reads : bus_rsp_read' = [valid |-> TRUE, tag |-> t.tag, error |-> error,
                                            data |-> [n \in 0..1 |-> memory[2 * t.dword + n]]]
    BY <1>1, <1>3, <2>5 DEF BusEdge, Nothing
  <2>7. t \in bus
    BY <1>1, <1>3 DEF BufferEdges, AtMostOne
  <2>8. AnswersFor(t, i)
    <3>1. bus_rsp_read'.tag = t.tag
      BY <2>6
    <3> QED
      BY <2>3, <3>1 DEF rsp_read_for, AnswersFor, same_dword_load
  <2>9. /\ 2 * t.dword + (req(i).word % 2) = req(i).word /\ req(i).word % 2 \in 0..1
        /\ req(i).word \in Words
    BY <2>2, <2>4, <2>7, <2>8, AnswersItsWord DEF ViewBase, ViewOrder
  <2>10. bus_rsp_read'.data[req(i).word % 2] = memory[req(i).word]
    BY <2>6, <2>9
  <2>11. PICK c : c = <<req(i).word, b>>
    OBVIOUS
  <2>12. b \in req(i).byteen /\ ~req(i).write
    BY <2>3
  <2>13. Sees(req(i).expect[b], Earlier(i, c), c)
    BY <2>4, <2>11, <2>12 DEF DataView, LoadsSee
  <2>14. Earlier(i, c) = {}
    BY <2>2, NoneBeforeBus
  <2>15. req(i).expect[b] = Mem(c)
    BY <2>13, <2>14 DEF Sees
  <2> QED
    BY <2>3, <2>10, <2>11, <2>15 DEF Mem
<1> QED
  BY <1>1, <1>2, <1>3

(* They are what its entry gets. *)
LEMMA DoneGoodStep ==
  ASSUME AnswersInv, ReadGood, DoneGood,
         NEW clk_en, NEW up, NEW kill, NEW freeze, NEW ready, NEW reads, NEW writes, NEW error,
         BufferEdges(clk_en, up, kill, freeze, ready, reads, writes, error)
  PROVE  DoneGood'
<1> SUFFICES ASSUME NEW i \in Entries, buf'[i].state = "DONE", ~req(i)'.write, NEW b \in req(i)'.byteen
             PROVE  req(i)'.data[b] = req(i)'.expect[b]
  BY DEF DoneGood
<1>1. /\ Base /\ Halves /\ OnBus
      /\ BufShape /\ BufEdge(clk_en, up, kill, freeze) /\ clk_en \in BOOLEAN
  BY DEF BufferEdges, AnswersInv, BufferInv, Base, Shapes
<1>2. CASE buf[i].state = "DONE" /\ ~buf_rst(i)
  <2>1. buf'[i] = buf[i]
    BY <1>1, <1>2, EntryStep
  <2>2. req(i)' = req(i)
    BY <2>1 DEF req
  <2> QED
    BY <1>2, <2>2 DEF DoneGood
<1>3. CASE buf[i].state = "RESP" /\ clk_en /\ (rsp_read_for(i) \/ rsp_write_for(i))
  <2>1. buf'[i] = Answered(i) /\ IsRequest(req(i))
    BY <1>1, <1>3, EntryStep DEF BufShape
  <2>2. Answered(i).state = "DONE" /\ req(i)' = Answered(i).req
    BY <2>1 DEF req
  <2>3. \A f \in Fields \ {"data"} : req(i)'[f] = req(i)[f]
    BY <1>3, <2>1, <2>2, AnsweredIsRequest
  <2>4. req(i)'.write = req(i).write /\ req(i)'.byteen = req(i).byteen /\ req(i)'.expect = req(i).expect
    BY <2>3 DEF Fields
  <2>5. ~req(i).write
    BY <2>4
  <2>6. bus_rsp_read.valid
    BY <1>1, <1>3, <2>5, TakesItsAnswer
  <2>7. rsp_read_for(i)
    <3> SUFFICES ASSUME rsp_write_for(i) PROVE FALSE
      BY <1>3
    <3> QED
      BY <1>1, <2>5 DEF rsp_write_for, OnBus, Awaits
  <2>8. Answered(i).req = [req(i) EXCEPT !.data = bus_rsp_read.data[req(i).word % 2]]
    BY <2>5, <2>6 DEF Answered
  <2>9. req(i)'.data = bus_rsp_read.data[req(i).word % 2]
    BY <2>1, <2>2, <2>8 DEF IsRequest, Fields
  <2> QED
    BY <1>3, <2>4, <2>5, <2>7, <2>9 DEF ReadGood
<1> QED
  BY <1>1, <1>2, <1>3, Moves

-----------------------------------------------------------------------------

(* A load that finds its byte in the input buffer, or in the entry no younger one
   with the byte stands beside, finds what the program has. *)
LEMMA IbufForwards ==
  ASSUME ViewBase, DataView, NEW c \in Cells, ibuf_hit(c)
  PROVE  ibuf.req.data[c[2]] = Programmed(c)
<1>1. PICK i \in Entries : i = ibuf.tag
  BY DEF ibuf_hit, ViewBase, AnswersInv, BufferInv, Base, OwnersInv, InputBuffer
<1>2. in_ibuf(i) /\ Here(i) /\ access(i) = ibuf.req
  BY <1>1 DEF ibuf_hit, in_ibuf, Here, access
<1>3. Legal(ibuf.req)
  BY <1>2 DEF ViewBase, AllLegal
<1>4. i \in Writers(c)
  BY <1>2, <1>3 DEF ibuf_hit, Writers, writer, Legal
<1>5. ASSUME NEW j \in Writers(c), j # i PROVE Ahead(j, i)
  BY <1>2, <1>5, IbufLast DEF Writers
<1>6. Programmed(c) = Value(i, c)
  BY <1>4, <1>5, YoungestWriter
<1> QED
  BY <1>2, <1>6 DEF Value

(* An entry in WAIT or CMD has an access on its way. *)
LEMMA PendingIsHere ==
  ASSUME ViewBase, NEW i \in Entries, pending(i)
  PROVE  Here(i) /\ access(i) = req(i) /\ ~in_ibuf(i) /\ Legal(req(i)) /\ (in_obuf(i) \/ waits(i))
<1>1. in_obuf(i) \/ waits(i)
  BY DEF waits, in_obuf, buf_cmd_state_bus_en
<1>2. Here(i) /\ ~in_ibuf(i)
  BY <1>1, OnePlace DEF Here, ViewBase
<1> QED
  BY <1>1, <1>2 DEF ViewBase, AllLegal, access

LEMMA EntryForwards ==
  ASSUME ViewBase, DataView, NEW c \in Cells, ~ibuf_hit(c), NEW i \in hitvecfn(c)
  PROVE  req(i).data[c[2]] = Programmed(c)
<1>1. /\ i \in Entries /\ i \in hitvec(c) /\ pending(i) /\ req(i).write /\ req(i).word = c[1]
      /\ c[2] \in req(i).byteen /\ hitvec(c) \cap buf_age_younger(i) = {}
  BY DEF hitvecfn, hitvec
<1>2. Here(i) /\ access(i) = req(i) /\ ~in_ibuf(i) /\ Legal(req(i)) /\ (in_obuf(i) \/ waits(i))
  BY <1>1, PendingIsHere
<1>3. i \in Writers(c)
  BY <1>1, <1>2 DEF Writers, writer, Legal
<1>4. ASSUME NEW j \in Writers(c), j # i PROVE Ahead(j, i)
  <2>1. j \in Entries /\ Here(j) /\ access(j).write /\ access(j).word = c[1] /\ c[2] \in DOMAIN access(j).data
    BY DEF Writers, writer
  <2>2. Legal(access(j))
    BY <2>1 DEF ViewBase, AllLegal
  <2>3. ~in_ibuf(j)
    BY <2>1, <2>2 DEF in_ibuf, access, ibuf_hit, Legal
  <2>4. CASE pending(j)
    <3>1. j \in hitvec(c)
      BY <2>1, <2>2, <2>3, <2>4 DEF hitvec, access, Legal
    <3>2. buf[j].state # "IDLE"
      BY <2>4 DEF pending
    <3>3. j \in age(i)
      BY <1>1, <1>4, <2>1, <3>1, <3>2 DEF buf_age_younger
    <3>4. ~buf_cmd_state_bus_en(j) /\ waits(j)
      BY <2>4, <3>3 DEF age, waits
    <3>5. ~buf_cmd_state_bus_en(i)
      BY <1>1, <3>3 DEF ViewBase, AnswersInv, BufferInv, Ages
    <3>6. waits(i)
      BY <1>1, <3>5 DEF waits
    <3> QED
      BY <3>3, <3>4, <3>6 DEF Ahead
  <2>5. CASE ~pending(j)
    <3>1. on_bus(j) \/ in_obuf(j)
      BY <2>1, <2>3, <2>5 DEF Here, waits
    <3>2. CASE on_bus(j)
      BY <1>2, <3>2 DEF Ahead
    <3>3. CASE in_obuf(j)
      <4>1. ~obuf_wr_enQ
        BY <2>1, <2>5, <3>3, InObufState DEF pending, ViewBase
      <4>2. waits(i)
        BY <1>1, <4>1 DEF waits, buf_cmd_state_bus_en
      <4> QED
        BY <3>3, <4>2 DEF Ahead
    <3> QED
      BY <3>1, <3>2, <3>3
  <2> QED
    BY <2>4, <2>5
<1>5. Programmed(c) = Value(i, c)
  BY <1>3, <1>4, YoungestWriter
<1> QED
  BY <1>2, <1>5 DEF Value

(* Without a store in the pipe, the buffers give what the program has. *)
LEMMA BufferForwards ==
  ASSUME ViewBase, DataView, NEW c \in Cells, ibuf_hit(c) \/ hitvecfn(c) # {}
  PROVE  Programmed(c) = IF ibuf_hit(c) THEN ibuf.req.data[c[2]]
                         ELSE req(CHOOSE i \in hitvecfn(c) : TRUE).data[c[2]]
<1>1. CASE ibuf_hit(c)
  BY <1>1, IbufForwards
<1>2. CASE ~ibuf_hit(c)
  <2>1. PICK i \in hitvecfn(c) : i = CHOOSE n \in hitvecfn(c) : TRUE
    BY <1>2
  <2> QED
    BY <1>2, <2>1, EntryForwards
<1> QED
  BY <1>1, <1>2

(* A load that gets all its bytes in dc2 gets those of the youngest store before it:
   in the pipe, the stores of which come along with it, or in the buffers. *)
LEMMA ForwardedRightStep ==
  ASSUME ViewBase, DataView, ForwardedRight,
         NEW packet, NEW lower, NEW up, NEW flush_dc3, NEW kill, NEW branch, NEW hold, NEW freeze,
         PipeEdges(packet, lower, up, flush_dc3, kill, branch, hold, freeze)
  PROVE  ForwardedRight'
<1>1. /\ lower \in BOOLEAN /\ kill \in BOOLEAN /\ (kill => lower)
      /\ up = (lower \/ flush_e3 # "none") /\ flush_dc3 = (lower \/ flush_e3 = "i0")
      /\ freeze = (ld_freeze_dc3 /\ ~lower)
      /\ PipeEdge(packet, lower, up, flush_dc3, kill, hold, freeze)
      /\ History(flush_dc3, freeze, kill, packet)
      /\ BufferInv /\ InStep
  BY DEF PipeEdges, ViewBase, AnswersInv
<1>2. CASE freeze
  <2>1. fwd_dc3' = NoBytes
    BY <1>1, <1>2 DEF PipeEdge, InStep
  <2> QED
    BY <2>1 DEF ForwardedRight, NoBytes
<1>3. CASE ~freeze /\ ~ld_full_hit_dc2(up)
  <2>1. fwd_dc3' = NoBytes
    BY <1>1, <1>3 DEF PipeEdge
  <2> QED
    BY <2>1 DEF ForwardedRight, NoBytes
<1>4. CASE ~freeze /\ ld_full_hit_dc2(up)
  <2>1. /\ fwd_dc3' = [c \in cells(dc2) |-> fwd_byte(c)]
        /\ dc4' = InDc4(flush_dc3, lower, freeze) /\ dc5' = InDc5(lower, kill)
    BY <1>1, <1>4 DEF PipeEdge
  <2>2. /\ dc2.valid /\ ~up /\ ~lower /\ ~kill /\ ~flush_dc3 /\ flush_e3 = "none"
        /\ \A c \in cells(dc2) : byte_hit(c)
    BY <1>1, <1>4 DEF ld_full_hit_dc2, busreq_dc2
  <2>3. IsAccess(dc2)
    BY <1>1, <2>2 DEF BufferInv, Base, OwnersInv, Requests
  <2> SUFFICES ASSUME NEW c \in cells(dc2)
               PROVE  fwd_byte(c) = IF pipe_hit(dc4', c) THEN dc4'.id
                                    ELSE IF pipe_hit(dc5', c) THEN dc5'.id ELSE program'[c[1]][c[2]]
    BY <2>1 DEF ForwardedRight, pipe_hit, cells, lo, hi, byteen
  <2>4. c \in Cells
    BY <2>3, BusBufferAssumption DEF cells, Cells, IsAccess, lo, hi, byteen
  <2>5. /\ pipe_hit(dc4', c) <=> pipe_hit(dc3, c)
        /\ pipe_hit(dc3, c) => dc4'.id = dc3.id
    <3>1. CASE dc3.busreq
      <4>1. /\ dc4'.valid = TRUE /\ dc4'.op = dc3.op /\ dc4'.addr = dc3.addr /\ dc4'.size = dc3.size
            /\ dc4'.id = dc3.id
        BY <1>4, <2>1, <2>2, <3>1 DEF InDc4
      <4>2. dc3.valid
        BY <1>1, <3>1 DEF InStep
      <4> QED
        BY <4>1, <4>2 DEF pipe_hit, cells, lo, hi, byteen
    <3>2. CASE ~dc3.busreq
      <4>1. dc4' = NoPacket
        BY <2>1, <3>2 DEF InDc4
      <4> QED
        BY <1>1, <3>2, <4>1 DEF pipe_hit, NoPacket, InStep
    <3> QED
      BY <3>1, <3>2
  <2>6. /\ pipe_hit(dc5', c) <=> pipe_hit(dc4, c)
        /\ pipe_hit(dc4, c) => dc5'.id = dc4.id
    <3>1. CASE dc4.busreq
      <4>1. dc5' = [dc4 EXCEPT !.valid = @ /\ ~lower]
        BY <2>1, <2>2, <3>1 DEF InDc5
      <4>2. Stage(dc4)
        BY <1>1 DEF BufferInv, Base, OwnersInv, Requests
      <4>3. /\ dc5'.valid = dc4.valid /\ dc5'.op = dc4.op /\ dc5'.addr = dc4.addr /\ dc5'.size = dc4.size
            /\ dc5'.id = dc4.id
        BY <2>2, <4>1, <4>2 DEF Stage, PacketOK
      <4> QED
        BY <4>3 DEF pipe_hit, cells, lo, hi, byteen
    <3>2. CASE ~dc4.busreq
      <4>1. dc5'.valid = FALSE
        BY <2>1, <3>2 DEF InDc5, NoPacket
      <4> QED
        BY <1>1, <3>2, <4>1 DEF pipe_hit, InStep
    <3> QED
      BY <3>1, <3>2
  <2>7. program'[c[1]][c[2]] = IF pipe_hit(dc5, c) THEN dc5.id ELSE Programmed(c)
    <3>1. Committed(c, kill) <=> pipe_hit(dc5, c)
      BY <1>1, <2>2 DEF Committed, pipe_hit, lsu_commit_dc5, InStep
    <3> QED
      BY <1>1, <2>4, <3>1, ProgramMoves DEF Programmed
  <2>8. CASE pipe_hit(dc3, c)
    BY <2>5, <2>8 DEF fwd_byte
  <2>9. CASE ~pipe_hit(dc3, c) /\ pipe_hit(dc4, c)
    BY <2>5, <2>6, <2>9 DEF fwd_byte
  <2>10. CASE ~pipe_hit(dc3, c) /\ ~pipe_hit(dc4, c) /\ pipe_hit(dc5, c)
    BY <2>5, <2>6, <2>7, <2>10 DEF fwd_byte
  <2>11. CASE ~pipe_hit(dc3, c) /\ ~pipe_hit(dc4, c) /\ ~pipe_hit(dc5, c)
    <3>1. ibuf_hit(c) \/ hitvecfn(c) # {}
      BY <2>2, <2>11 DEF byte_hit
    <3>2. Programmed(c) = IF ibuf_hit(c) THEN ibuf.req.data[c[2]]
                          ELSE req(CHOOSE i \in hitvecfn(c) : TRUE).data[c[2]]
      BY <2>4, <3>1, BufferForwards
    <3>3. fwd_byte(c) = IF ibuf_hit(c) THEN ibuf.req.data[c[2]]
                        ELSE req(CHOOSE i \in hitvecfn(c) : TRUE).data[c[2]]
      BY <2>11 DEF fwd_byte
    <3> QED
      BY <2>5, <2>6, <2>7, <2>11, <3>2, <3>3
  <2> QED
    BY <2>8, <2>9, <2>10, <2>11
<1> QED
  BY <1>1, <1>2, <1>3, <1>4

-----------------------------------------------------------------------------

ViewInv == ViewBase /\ DataView /\ ReadGood /\ DoneGood /\ ForwardedRight

(* The invariant. *)
LEMMA ViewInit == Init => ViewInv
<1> SUFFICES ASSUME Init PROVE ViewInv
  OBVIOUS
<1>1. AnswersInv
  BY AnswersInit
<1>2. /\ buf = [i \in Entries |-> NoEntry] /\ ibuf = Nothing /\ obuf = Nothing /\ obuf_wr_enQ = FALSE
      /\ bus = {} /\ bus_rsp_read = Nothing /\ bus_rsp_write = Nothing
      /\ memory = [w \in Words |-> [b \in Byte |-> 0]] /\ program = memory /\ issued = 0
      /\ dc1 = NoPacket /\ dc2 = NoPacket /\ dc3 = NoPacket /\ dc4 = NoPacket /\ dc5 = NoPacket
      /\ fwd_dc3 = NoBytes /\ ld_freeze_dc3 = FALSE
  BY DEF Init
<1>3. /\ \A i \in Entries : buf[i].state = "IDLE"
      /\ ~ibuf.valid /\ ~obuf.valid /\ ~bus_rsp_read.valid /\ ~bus_rsp_write.valid
  BY <1>2 DEF NoEntry, Nothing
<1>4. \A i \in Entries : ~Here(i) /\ ~busy(i)
  BY <1>3 DEF Here, on_bus, in_obuf, waits, pending, in_ibuf, busy
<1>5. \A c : Writers(c) = {}
  BY <1>4 DEF Writers
<1>6. ViewOrder /\ AllLegal
  BY <1>3, <1>4 DEF ViewOrder, TwinWords, HalfTaken, OneAhead, AllLegal
<1>7. Carried
  BY <1>2, <1>3 DEF Carried
<1>8. InStep
  BY <1>2 DEF InStep, flushed, NoPacket
<1>9. \A c \in Cells : program[c[1]][c[2]] = 0 /\ memory[c[1]][c[2]] = 0
  BY <1>2 DEF Cells
<1>10. Recent
  <2>1. InPipe = {}
    BY <1>2 DEF InPipe, Ids1, Ids2, Ids3, Ids4, Ids5, Ids, NoPacket
  <2> QED
    BY <1>2, <1>9, <2>1 DEF Recent
<1>11. MemoryBehind /\ WritersSorted /\ LoadsSee
  BY <1>4, <1>5 DEF MemoryBehind, WritersSorted, LoadsSee
<1>12. ProgramSeen
  BY <1>5, <1>9 DEF ProgramSeen, Sees, Programmed, Mem
<1>13. ReadGood /\ DoneGood
  BY <1>3 DEF ReadGood, DoneGood
<1>14. ForwardedRight
  BY <1>2 DEF ForwardedRight, NoBytes
<1> QED
  BY <1>1, <1>6, <1>7, <1>8, <1>10, <1>11, <1>12, <1>13, <1>14 DEF ViewInv, ViewBase, DataView

LEMMA ViewEdge ==
  ASSUME ViewInv, AnswersInv',
         NEW clk_en, NEW packet, NEW lower, NEW up, NEW flush_dc3, NEW kill, NEW branch, NEW hold,
         NEW freeze, NEW ready, NEW reads, NEW writes, NEW error,
         Edges(clk_en, packet, lower, up, flush_dc3, kill, branch, hold, freeze, ready, reads, writes, error)
  PROVE  ViewInv'
<1>1. /\ ViewBase /\ DataView /\ ReadGood /\ DoneGood /\ ForwardedRight
      /\ AnswersInv /\ BufferInv /\ ViewOrder /\ AllLegal /\ Carried /\ InStep /\ Recent
  BY DEF ViewInv, ViewBase, AnswersInv
<1>2. /\ BufferEdges(clk_en, up, kill, freeze, ready, reads, writes, error)
      /\ PipeEdges(packet, lower, up, flush_dc3, kill, branch, hold, freeze)
  BY DEF Edges
<1>3. ViewOrder'
  BY <1>1, <1>2, ViewOrderStep
<1>4. AllLegal'
  BY <1>1, <1>2, AllLegalStep
<1>5. Carried'
  BY <1>1, <1>2, CarriedStep
<1>6. InStep'
  BY <1>1, <1>2, InStepStep
<1>7. Recent'
  BY <1>1, <1>2, RecentStep
<1>8. MemoryBehind'
  BY <1>1, MemoryBehindStep
<1>9. WritersSorted'
  BY <1>1, WritersSortedStep
<1>10. ProgramSeen'
  BY <1>1, ProgramSeenStep
<1>11. LoadsSee'
  BY <1>1, <1>4, <1>10, LoadsSeeStep
<1>12. ReadGood'
  BY <1>1, ReadGoodStep
<1>13. DoneGood'
  BY <1>1, <1>2, DoneGoodStep
<1>14. ForwardedRight'
  BY <1>1, <1>2, ForwardedRightStep
<1> QED
  BY <1>3, <1>4, <1>5, <1>6, <1>7, <1>8, <1>9, <1>10, <1>11, <1>12, <1>13, <1>14
     DEF ViewInv, ViewBase, DataView

LEMMA ViewStutters ==
  ASSUME ViewInv, AnswersInv', UNCHANGED vars
  PROVE  ViewInv'
<1>1. /\ ViewBase /\ DataView /\ ReadGood /\ DoneGood /\ ForwardedRight
      /\ ViewOrder /\ AllLegal /\ Carried /\ InStep /\ Recent
  BY DEF ViewInv, ViewBase
<1>2. UNCHANGED <<dc1, dc2, dc3, dc4, dc5, fwd_dc3, ld_freeze_dc3, ibuf, buf, buf_age, obuf, obuf_wr_enQ,
                  bus_rsp_read, bus_rsp_write, bus, memory, program, issued>>
  BY DEF vars
<1>3. \A i : /\ on_bus(i)' <=> on_bus(i)
             /\ in_obuf(i)' <=> in_obuf(i)
             /\ waits(i)' <=> waits(i)
             /\ in_ibuf(i)' <=> in_ibuf(i)
  BY <1>2 DEF on_bus, in_obuf, waits, in_ibuf, pending, buf_cmd_state_bus_en, answered, rsp_read_for,
              rsp_write_for, same_dword_load, req
<1>4. \A i : /\ Here(i)' <=> Here(i)
             /\ access(i)' = access(i) /\ req(i)' = req(i) /\ age(i)' = age(i)
             /\ rsp_read_for(i)' <=> rsp_read_for(i)
             /\ busy(i)' <=> busy(i)
  BY <1>2, <1>3 DEF Here, access, req, age, buf_cmd_state_bus_en, rsp_read_for, same_dword_load, busy
<1>5. \A i, j : Ahead(i, j)' <=> Ahead(i, j)
  BY <1>3, <1>4 DEF Ahead
<1>6. \A c : /\ Writers(c)' = Writers(c) /\ Mem(c)' = Mem(c) /\ Programmed(c)' = Programmed(c)
             /\ \A i : Value(i, c)' = Value(i, c)
  BY <1>2, <1>4 DEF Writers, writer, Mem, Programmed, Value
<1>7. ViewOrder'
  <2>1. TwinWords'
    BY <1>1, <1>2, <1>4 DEF ViewOrder, TwinWords
  <2>2. HalfTaken'
    BY <1>1, <1>2, <1>4 DEF ViewOrder, HalfTaken, bus_addr_match_pending
  <2>3. OneAhead'
    BY <1>1, <1>4, <1>5 DEF ViewOrder, OneAhead
  <2> QED
    BY <2>1, <2>2, <2>3 DEF ViewOrder
<1>8. AllLegal'
  BY <1>1, <1>4 DEF AllLegal
<1>9. Carried'
  BY <1>1, <1>2, <1>4 DEF Carried
<1>10. InStep'
  BY <1>1, <1>2 DEF InStep, flushed
<1>11. Recent'
  BY <1>1, <1>2 DEF Recent, InPipe, Ids1, Ids2, Ids3, Ids4, Ids5, Ids
<1>12. MemoryBehind' /\ WritersSorted'
  BY <1>1, <1>5, <1>6 DEF DataView, MemoryBehind, WritersSorted
<1>13. \A c, v, S : Sees(v, S, c)' <=> Sees(v, S, c)
  BY <1>6 DEF Sees
<1>14. ProgramSeen'
  BY <1>1, <1>6 DEF DataView, ProgramSeen, Sees
<1>15. LoadsSee'
  <2>1. \A i, c : Earlier(i, c)' = Earlier(i, c)
    BY <1>5, <1>6 DEF Earlier
  <2> QED
    BY <1>1, <1>4, <1>6, <2>1 DEF DataView, LoadsSee, Sees
<1>16. ReadGood' /\ DoneGood'
  BY <1>1, <1>2, <1>4 DEF ReadGood, DoneGood
<1>17. ForwardedRight'
  BY <1>1, <1>2 DEF ForwardedRight, pipe_hit
<1> QED
  BY <1>7, <1>8, <1>9, <1>10, <1>11, <1>12, <1>14, <1>15, <1>16, <1>17 DEF ViewInv, ViewBase, DataView

LEMMA ViewInvStep == ViewInv /\ [Next]_vars => ViewInv'
<1> SUFFICES ASSUME ViewInv, [Next]_vars PROVE ViewInv'
  OBVIOUS
<1>1. AnswersInv'
  BY AnswersStep DEF ViewInv, ViewBase
<1>2. CASE Next
  <2>1. PICK clk_en, packet, lower, kill, branch, hold, ready, reads, writes, error :
          ClockEdge(clk_en, packet, lower, kill, branch, hold, ready, reads, writes, error)
    BY <1>2, NextIsEdge
  <2> DEFINE freeze == lsu_freeze_dc3(lower)
             up == lower \/ flush_e3 # "none"
             flush_dc3 == lower \/ flush_e3 = "i0"
  <2>2. BufferEdges(clk_en, up, kill, freeze, ready, reads, writes, error)
    BY <2>1 DEF ClockEdge, Edge, BufferEdges
  <2>3. /\ PipeEdge(packet, lower, up, flush_dc3, kill, hold, freeze)
        /\ FreezeEdge(hold, branch, lower, up, flush_dc3, freeze)
        /\ History(flush_dc3, freeze, kill, packet)
        /\ packet \in Issuable(lower, freeze)
        /\ lower \in BOOLEAN /\ kill \in BOOLEAN /\ hold \in BOOLEAN /\ (kill => lower)
    BY <2>1 DEF ClockEdge, Edge
  <2>4. packet.valid => ~freeze
    BY <2>3, IssuedPackets
  <2>5. freeze = (ld_freeze_dc3 /\ ~lower)
    BY DEF lsu_freeze_dc3
  <2>6. PipeEdges(packet, lower, up, flush_dc3, kill, branch, hold, freeze)
    BY <2>3, <2>4, <2>5 DEF PipeEdges
  <2> HIDE DEF freeze, up, flush_dc3
  <2>7. Edges(clk_en, packet, lower, up, flush_dc3, kill, branch, hold, freeze, ready, reads, writes, error)
    BY <2>2, <2>6 DEF Edges
  <2> QED
    BY <1>1, <2>7, ViewEdge
<1>3. CASE UNCHANGED vars
  BY <1>1, <1>3, ViewStutters
<1> QED
  BY <1>2, <1>3

LEMMA ViewInvariant == Spec => []ViewInv
<1>1. Init => ViewInv
  BY ViewInit
<1>2. ViewInv /\ [Next]_vars => ViewInv'
  BY ViewInvStep
<1> QED
  BY <1>1, <1>2, PTL DEF Spec

(* Every load returns the bytes that program order gives it: forwarded from the pipe,
   the input buffer and the entries, or read from the bus after the stores before it,
   in whatever order the bus takes and answers them. *)
THEOREM LoadsFollowProgramOrder == Spec => []LoadsSeeProgramOrder
<1>1. ViewInv => LoadsSeeProgramOrder
  BY DEF ViewInv, DoneGood, LoadsSeeProgramOrder
<1> QED
  BY <1>1, ViewInvariant, PTL

(* When the buffers are empty, memory is what the committed stores made it: none lost
   between dc5 and the bus, none written twice, none undone by an older one. *)
THEOREM MemoryIsTheProgram == Spec => []MemoryFollowsProgram
<1>1. ASSUME ViewInv PROVE MemoryFollowsProgram
  <2> SUFFICES ASSUME empty PROVE memory = program
    BY DEF MemoryFollowsProgram
  <2>1. \A i \in Entries : ~Here(i)
    BY DEF empty, Here, on_bus, in_obuf, waits, pending, in_ibuf
  <2>2. \A c : Writers(c) = {}
    BY <2>1 DEF Writers
  <2>3. \A c \in Cells : Programmed(c) = Mem(c)
    BY <1>1, <2>2 DEF ViewInv, DataView, ProgramSeen, Sees
  <2>4. \A w \in Words, b \in Byte : program[w][b] = memory[w][b]
    <3> SUFFICES ASSUME NEW w \in Words, NEW b \in Byte PROVE program[w][b] = memory[w][b]
      OBVIOUS
    <3>1. PICK c : c = <<w, b>>
      OBVIOUS
    <3> QED
      BY <2>3, <3>1 DEF Cells, Programmed, Mem
  <2>5. memory \in Memories /\ program \in Memories
    BY <1>1 DEF ViewInv, ViewBase, AnswersInv, BufferInv, Slave
  <2>6. \A w \in Words : memory[w] = program[w]
    BY <2>4, <2>5 DEF Memories
  <2> QED
    BY <2>5, <2>6 DEF Memories
<1> QED
  BY <1>1, ViewInvariant, PTL

=============================================================================
