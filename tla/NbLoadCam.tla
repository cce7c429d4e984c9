----------------------------- MODULE NbLoadCam -----------------------------
(***************************************************************************)
(* Non-blocking loads in the decode unit (dec_decode_ctl.sv): two lanes, i0 *)
(* and i1, from decode through e1..e4 to write-back, the CAM of loads whose *)
(* data is still on the bus, the stalls, the freeze a younger reader asks   *)
(* for, and the three write ports of the registers.                        *)
(*                                                                         *)
(* The bus buffer is what LsuBusBuffer makes of it: a tag for an external   *)
(* load in dc3, taken back in dc5 if the load does not commit, or answered  *)
(* once, in any order, after that.  Register values are not kept: fresh[r]  *)
(* says that r holds the result of its last committed writer.               *)
(***************************************************************************)
EXTENDS Integers, FiniteSets

CONSTANTS
  NBLOAD_SIZE,   \* entries of the CAM and tags of the bus buffer
  CamRegs,       \* registers, without x0
  CamInFlight    \* bound of the model: instructions in e1..wb

Tags == 0..NBLOAD_SIZE - 1
NoTag == -1

ASSUME NbLoadAssumption ==
  NBLOAD_SIZE \in Nat \ {0} /\ 0 \notin CamRegs /\ CamInFlight \in Nat

VARIABLES
  pe1, pe2, pe3, pe4, pwb,  \* dest packets of the stages: lanes 0 (i0) and 1 (i1)
  cam,                      \* entry -> [valid, wb, tag, rd]
  nb_dc4, nb_dc5,           \* tag of the non-blocking load in dc4, in dc5
  ext_dc3,                  \* the load in dc3 needs the bus: "no", "nb" or "block"
  frozen,                   \* ld_freeze_dc3
  depend_load_e2_e1,        \* a reader of the load of e1 was decoded a cycle ago
  same_cycle_e1, same_cycle_e2,   \* the load of e1 (e2) was decoded with its reader
  flush_final,              \* lanes: i0_flush_final_e3, i1_flush_final_e3
  bus_loads,                \* tag -> load in the bus buffer: "free", in the "pipe", or committed
  fresh,                    \* history: the register holds what its last writer wrote
  misread                   \* history: a decoded instruction got an older value

camVars == <<pe1, pe2, pe3, pe4, pwb, cam, nb_dc4, nb_dc5, ext_dc3, frozen,
             depend_load_e2_e1, same_cycle_e1, same_cycle_e2, flush_final, bus_loads, fresh,
             misread>>

Lane == {0, 1}
None == [op |-> "none", rd |-> 0]
Bubble == [l \in Lane |-> None]
NoLoad == [st |-> "free", rd |-> 0, live |-> FALSE]
NoCam == [valid |-> FALSE, wb |-> FALSE, tag |-> 0, rd |-> 0]
Instr == [op : {"alu", "load"}, rd : CamRegs \cup {0}]

CamInit ==
  /\ pe1 = Bubble /\ pe2 = Bubble /\ pe3 = Bubble /\ pe4 = Bubble /\ pwb = Bubble
  /\ cam = [i \in Tags |-> NoCam]
  /\ nb_dc4 = NoTag /\ nb_dc5 = NoTag
  /\ ext_dc3 = "no" /\ frozen = FALSE
  /\ depend_load_e2_e1 = FALSE /\ same_cycle_e1 = FALSE /\ same_cycle_e2 = FALSE
  /\ flush_final = {}
  /\ bus_loads = [t \in Tags |-> NoLoad]
  /\ fresh = [r \in CamRegs |-> TRUE]
  /\ misread = FALSE

-----------------------------------------------------------------------------
(* A cycle has these inputs: lower says which lanes of write-back a flush from
   the commit point kills ("none" is no flush, "keep" a flush that kills
   neither); upper a mispredicted branch in a lane of e2; dec what is decoded;
   ext what the load in e2 finds in dc3; tag the entry the bus buffer would
   give to the load in dc3; ans the load whose data arrives. *)

flush_lower_wb(lower) == lower # "none"
i0_kill(lower) == lower = "both"
i1_kill(lower) == lower \in {"i1", "both"}

freeze(lower) == frozen /\ ~flush_lower_wb(lower)
flush_final_e3 == flush_final # {}
i0_flush_final_e3 == 0 \in flush_final
flush_dc3(lower) == i0_flush_final_e3 \/ flush_lower_wb(lower)

v(p, l) == p[l].op # "none" /\ p[l].rd # 0
load_lane(p) == {l \in Lane : p[l].op = "load"}

nonblock_load_valid_dc3(lower) == ext_dc3 = "nb" /\ ~flush_dc3(lower)
nonblock_load_rd == IF pe3[0].op = "load" THEN pe3[0].rd ELSE pe3[1].rd

-----------------------------------------------------------------------------
(* Write-back. *)

nonblock_load_valid_wb == nb_dc5 # NoTag
load_kill_wen(l) == nonblock_load_valid_wb /\ pwb[l].op = "load"

same_dest_wb == v(pwb, 0) /\ v(pwb, 1) /\ pwb[0].rd = pwb[1].rd

(* Two writers of a register in one cycle: the younger one writes, unless it is
   killed or is a load whose data is not there yet. *)
i0_wen_wb(lower) ==
  /\ v(pwb, 0) /\ ~i0_kill(lower)
  /\ ~(same_dest_wb /\ ~i1_kill(lower) /\ ~load_kill_wen(1))
i1_wen_wb(lower) == v(pwb, 1) /\ ~i1_kill(lower)
wen_wb(l, lower) == IF l = 0 THEN i0_wen_wb(lower) ELSE i1_wen_wb(lower)

(* The ports of dec_gpr_ctl that write: the lanes, and the data of a load. *)
port_wen(l, lower) == wen_wb(l, lower) /\ ~load_kill_wen(l)

load_commits_dc5(lower) ==
  \E l \in load_lane(pwb) : ~(IF l = 0 THEN i0_kill(lower) ELSE i1_kill(lower))
lsu_nonblock_load_inv_dc5(lower) == nb_dc5 # NoTag /\ ~load_commits_dc5(lower)

-----------------------------------------------------------------------------
(* The CAM. *)

cam_free == {i \in Tags : ~cam[i].valid}
cam_wen(lower) ==     \* the first entry that is free
  IF nonblock_load_valid_dc3(lower)
  THEN {i \in cam_free : \A j \in cam_free : i <= j} ELSE {}

no_reset_same_dest(lower) == FALSE    \* faulty: an i1 writer leaves the i0 load in the CAM
cam_reset_same_dest_wb(lower) ==
  /\ same_dest_wb /\ pwb[0].op = "load" /\ nonblock_load_valid_wb
  /\ ~i0_kill(lower) /\ ~i1_kill(lower)

never_invalidated(lower) == cam_reset_same_dest_wb(lower)    \* faulty
cam_inv_reset(lower) == lsu_nonblock_load_inv_dc5(lower) \/ cam_reset_same_dest_wb(lower)

(* A younger writer of the register has come to write-back: the data of the
   load must not be written any more. *)
overwritten_any(i, lower) ==    \* faulty: an older writer does it too
  \E l \in Lane : wen_wb(l, lower) /\ pwb[l].rd = cam[i].rd
overwritten(i, lower) ==
  \E l \in Lane : wen_wb(l, lower) /\ pwb[l].rd = cam[i].rd /\ cam[i].wb

CamEntry(i, lower, tag, ans) ==
  LET hit == cam[i].valid /\ cam[i].tag = nb_dc5
      e == IF i \in cam_wen(lower)
           THEN [valid |-> TRUE, wb |-> FALSE, tag |-> tag, rd |-> nonblock_load_rd]
           ELSE IF \/ cam_inv_reset(lower) /\ hit
                   \/ cam[i].valid /\ cam[i].tag = ans
                   \/ overwritten(i, lower)
                THEN NoCam ELSE cam[i]
  IN  IF nonblock_load_valid_wb /\ hit /\ e.valid THEN [e EXCEPT !.wb = TRUE] ELSE e

nonblock_load_write(ans) == {i \in Tags : cam[i].valid /\ cam[i].tag = ans}
dec_nonblock_load_waddr(ans) ==
  IF nonblock_load_write(ans) = {} THEN 0 ELSE cam[CHOOSE i \in nonblock_load_write(ans) : TRUE].rd
never_cancelled(ans, lower) == FALSE    \* faulty: the data is written over a younger result
nonblock_load_cancel(ans, lower) ==
  \E l \in Lane : wen_wb(l, lower) /\ pwb[l].rd = dec_nonblock_load_waddr(ans)
dec_nonblock_load_wen(ans, lower) ==
  ans # NoTag /\ nonblock_load_write(ans) # {} /\ ~nonblock_load_cancel(ans, lower)

-----------------------------------------------------------------------------
(* Decode.  dec is a function from the lanes decoded to [op, rd, rs]. *)

no_boundary_stall(r, lower) == \E i \in Tags : cam[i].valid /\ cam[i].rd = r    \* faulty
nonblock_load_stall(r, lower) ==
  \/ \E i \in Tags : cam[i].valid /\ cam[i].rd = r
  \/ nonblock_load_valid_dc3(lower) /\ nonblock_load_rd = r

(* The youngest writer of r in the pipe: <<stage, lane>>, none if it is in the
   register file. *)
Stage == <<pe1, pe2, pe3, pe4, pwb>>
writer(r) ==
  LET m == {x \in (1..5) \X Lane : v(Stage[x[1]], x[2]) /\ Stage[x[1]][x[2]].rd = r}
  IN  {x \in m : \A y \in m : x[1] < y[1] \/ (x[1] = y[1] /\ x[2] >= y[2])}

depend_load(dec, stage) ==
  \E l \in DOMAIN dec : \E x \in writer(dec[l].rs) : x[1] = stage /\ Stage[stage][x[2]].op = "load"
depend_load_e1_d(dec) == depend_load(dec, 1)
depend_load_e2_d(dec) == depend_load(dec, 2)
depends_on_i0(dec) == DOMAIN dec = Lane /\ dec[0].rd # 0 /\ dec[1].rs = dec[0].rd
depend_load_same_cycle_d(dec) == depends_on_i0(dec) /\ dec[0].op = "load"

freeze_dc2_no_same_cycle(dec) == depend_load_e2_d(dec) \/ depend_load_e2_e1    \* faulty
dec_nonblock_load_freeze_dc2(dec) ==
  depend_load_e2_d(dec) \/ depend_load_e2_e1 \/ same_cycle_e2

(* What may be decoded: i1 only with i0; not two loads at once; no reader of a
   load that waits for the bus, and a reader of i0 in i1 only if it is an ALU
   instruction behind a load (i1_block_d; the other stalls only delay). *)
CanDecode(dec, lower) ==
  /\ DOMAIN dec \in {{}, {0}, Lane}
  /\ DOMAIN dec # {} => ~flush_lower_wb(lower) /\ ~flush_final_e3 /\ ~freeze(lower)
  /\ \A l \in DOMAIN dec : dec[l].rs # 0 => ~nonblock_load_stall(dec[l].rs, lower)
  /\ DOMAIN dec = Lane => ~(dec[0].op = "load" /\ dec[1].op = "load")
  /\ depends_on_i0(dec) => dec[0].op = "load" /\ dec[1].op = "alu"

(* Does what lane l reads come from the last writer before it?  Through the
   bypass from the pipe, unless that is a load that left dc3 without its data;
   a load in e1 or e2 is waited for, or ReaderLeftAlone catches it. *)
GetsLastWriter(dec, l) ==
  \/ dec[l].rs = 0
  \/ l = 1 /\ depends_on_i0(dec)
  \/ LET w == writer(dec[l].rs)
     IN  \/ w = {} /\ fresh[dec[l].rs]
         \/ \E x \in w : \/ x[1] <= 2
                         \/ Stage[x[1]][x[2]].op # "load"
                         \/ x[1] = 3 /\ ext_dc3 # "nb"
                         \/ x[1] = 4 /\ nb_dc4 = NoTag
                         \/ x[1] = 5 /\ nb_dc5 = NoTag

(* A load in dc2 that goes out without blocking has no reader behind it. *)
ReaderLeftAlone(dec, ext) ==
  /\ ext = "nb"
  /\ depend_load_e2_d(dec) \/ depend_load_e2_e1 \/ same_cycle_e2

-----------------------------------------------------------------------------
(* One clock edge, block by block. *)

Kept(p, lanes) == [l \in Lane |-> IF l \in lanes THEN p[l] ELSE None]

StagesEdge(dec, lower, upper) ==
  LET up == IF flush_final_e3 THEN {} ELSE Lane
      fz == freeze(lower)
      low == IF flush_lower_wb(lower) THEN {} ELSE Lane
  IN  /\ pe1' = IF fz THEN pe1
                ELSE [l \in Lane |-> IF l \in DOMAIN dec
                                     THEN [op |-> dec[l].op, rd |-> dec[l].rd] ELSE None]
      /\ pe2' = IF fz THEN pe2 ELSE Kept(pe1, up)
      /\ pe3' = IF fz THEN pe3 ELSE Kept(pe2, up \cap low)
      /\ pe4' = IF fz THEN Bubble
                ELSE Kept(pe3, (IF i0_flush_final_e3 THEN {0} ELSE Lane) \cap low)
      /\ pwb' = Kept(pe4, low)
      /\ flush_final' = IF fz THEN flush_final
                        ELSE IF flush_lower_wb(lower) THEN Lane ELSE upper
      /\ depend_load_e2_e1' = IF fz THEN depend_load_e2_e1 ELSE depend_load_e1_d(dec)
      /\ same_cycle_e1' = IF fz THEN same_cycle_e1 ELSE depend_load_same_cycle_d(dec)
      /\ same_cycle_e2' = IF fz THEN same_cycle_e2 ELSE same_cycle_e1

(* The load of dc2 in dc3: it has its data ("no"), goes out and does not wait, or
   freezes dc1 to dc3 (ld_freeze_en) until its data arrives. *)
LsuEdge(dec, lower, ext, tag, thaw) ==
  /\ IF freeze(lower) THEN ext_dc3' = ext_dc3 ELSE ext_dc3' = ext
  /\ frozen' = IF freeze(lower) THEN ~thaw ELSE ext = "block"
  /\ nb_dc4' = IF nonblock_load_valid_dc3(lower) THEN tag ELSE NoTag
  /\ nb_dc5' = nb_dc4

TagEdge(lower, tag, ans) ==
  bus_loads' =
    [t \in Tags |->
       IF nonblock_load_valid_dc3(lower) /\ t = tag THEN [NoLoad EXCEPT !.st = "pipe"]
       ELSE IF t = ans \/ (t = nb_dc5 /\ ~load_commits_dc5(lower)) THEN NoLoad
       ELSE IF t = nb_dc5
            THEN LET l == CHOOSE k \in load_lane(pwb) : TRUE
                 IN  [st |-> "out", rd |-> pwb[l].rd,
                      live |-> pwb[l].rd # 0 /\ ~(l = 0 /\ same_dest_wb /\ ~i1_kill(lower))]
       ELSE IF bus_loads[t].st = "out"
               /\ \E l \in Lane : pwb[l].rd = bus_loads[t].rd /\ v(pwb, l)
                                   /\ ~(IF l = 0 THEN i0_kill(lower) ELSE i1_kill(lower))
            THEN [bus_loads[t] EXCEPT !.live = FALSE]
       ELSE bus_loads[t]]

CamEdge(lower, tag, ans) == cam' = [i \in Tags |-> CamEntry(i, lower, tag, ans)]

(* The lanes that commit a result of r, and the ports that write r. *)
committed(r, lower) ==
  {l \in Lane : v(pwb, l) /\ pwb[l].rd = r /\ ~(IF l = 0 THEN i0_kill(lower) ELSE i1_kill(lower))}
ports(r, lower, ans) ==
  {l \in Lane : port_wen(l, lower) /\ pwb[l].rd = r}
  \cup {t \in {2} : dec_nonblock_load_wen(ans, lower) /\ dec_nonblock_load_waddr(ans) = r}

GprEdge(dec, lower, ext, ans) ==
  /\ fresh' = [r \in CamRegs |->
       LET c == committed(r, lower)
           p == ports(r, lower, ans)
       IN  CASE p = {} -> c = {} /\ fresh[r]
             [] p = {2} -> c = {} /\ bus_loads[ans].rd = r /\ bus_loads[ans].live
             [] p = {0} -> c = {0}
             [] p = {1} -> 1 \in c
             [] OTHER -> FALSE]
  /\ misread' = \/ misread
                \/ \E l \in DOMAIN dec : ~GetsLastWriter(dec, l)
                \/ ~freeze(lower) /\ ReaderLeftAlone(dec, ext)

-----------------------------------------------------------------------------
(* The inputs of a cycle. *)

in_flight == Cardinality({x \in (1..5) \X Lane : Stage[x[1]][x[2]].op # "none"})

(* The decoded lanes: any instruction that reads at most one register. *)
Decodable == [op : {"alu", "load"}, rd : CamRegs \cup {0}, rs : CamRegs \cup {0}]
Decodes == {[l \in {} |-> None]} \cup [{0} -> Decodable] \cup [Lane -> Decodable]

(* A tag is free when no load has it and it is not given back in this cycle. *)
free_tags == {t \in Tags : bus_loads[t].st = "free"}
answerable == {t \in Tags : bus_loads[t].st = "out"}

(* Decode sends no load while the bus buffer may be full. *)
room == Cardinality(free_tags) > Cardinality({s \in 1..3 : load_lane(Stage[s]) # {}})

CamEdges(dec, lower, upper, ext, tag, ans, thaw) ==
  /\ StagesEdge(dec, lower, upper)
  /\ LsuEdge(dec, lower, ext, tag, thaw)
  /\ TagEdge(lower, tag, ans)
  /\ CamEdge(lower, tag, ans)
  /\ GprEdge(dec, lower, ext, ans)

(* What the load of e2 may find in dc3: data of the DCCM or of the buffers, or the
   bus; a load with side effects may block without a reader (ld_freeze_en). *)
load_moves(lower) == ~freeze(lower) /\ load_lane(pe2) # {} /\ ~flush_final_e3 /\ ~flush_lower_wb(lower)
Ext(dec, lower) ==
  IF ~load_moves(lower) THEN {"no"}
  ELSE IF dec_nonblock_load_freeze_dc2(dec) THEN {"no", "block"} ELSE {"no", "nb", "block"}

CamNext ==
  \E lower \in {"none", "keep", "i1", "both"}, upper \in {{}} \cup {{l} : l \in Lane},
     ans \in {NoTag} \cup answerable, thaw \in BOOLEAN :
    /\ pwb = Bubble => lower \in {"none", "keep"}
    /\ \A l \in upper : pe2[l].op = "alu" /\ ~freeze(lower) /\ ~flush_final_e3
    /\ thaw => freeze(lower)
    /\ \E dec \in Decodes :
         /\ CanDecode(dec, lower)
         /\ in_flight + Cardinality(DOMAIN dec) <= CamInFlight
         /\ (\E l \in DOMAIN dec : dec[l].op = "load") => room
         /\ \E ext \in Ext(dec, lower) :
              IF nonblock_load_valid_dc3(lower)
              THEN \E tag \in free_tags : CamEdges(dec, lower, upper, ext, tag, ans, thaw)
              ELSE CamEdges(dec, lower, upper, ext, NoTag, ans, thaw)

CamSpec == CamInit /\ [][CamNext]_camVars

-----------------------------------------------------------------------------
(* Properties. *)

CamPacket == [op : {"none", "alu", "load"}, rd : CamRegs \cup {0}]

(* Every register of the lanes and of the CAM has its type. *)
CamTypeOK ==
  /\ {pe1, pe2, pe3, pe4, pwb} \subseteq [Lane -> CamPacket]
  /\ cam \in [Tags -> [valid : BOOLEAN, wb : BOOLEAN, tag : Tags, rd : CamRegs \cup {0}]]
  /\ {nb_dc4, nb_dc5} \subseteq Tags \cup {NoTag}
  /\ ext_dc3 \in {"no", "nb", "block"}
  /\ {frozen, depend_load_e2_e1, same_cycle_e1, same_cycle_e2, misread} \subseteq BOOLEAN
  /\ flush_final \subseteq Lane
  /\ bus_loads \in [Tags -> [st : {"free", "pipe", "out"}, rd : CamRegs \cup {0}, live : BOOLEAN]]
  /\ fresh \in [CamRegs -> BOOLEAN]

(* The assertions assert_dec_cam_nonblock_load_write_onehot and
   assert_dec_cam_data_reset_onehot: no two entries wait for the same tag, also
   when the load of a tag was killed and the tag given away again. *)
OneEntryPerTag ==
  \A i, j \in Tags : cam[i].valid /\ cam[j].valid /\ cam[i].tag = cam[j].tag => i = j

(* A register either holds the result of its last committed writer or has an
   entry of the CAM that waits for it, in whatever order the bus answers and
   whatever younger instruction, flush or kill comes between (the cancel and the
   resets of the CAM, the three write ports of dec_gpr_ctl). *)
RegistersSettle ==
  \A r \in CamRegs :
    fresh[r] \/ \E t \in Tags :
                  /\ bus_loads[t] = [st |-> "out", rd |-> r, live |-> TRUE]
                  /\ \E i \in Tags : cam[i].valid /\ cam[i].tag = t /\ cam[i].rd = r

(* No instruction is decoded with a value older than the one its program order
   gives it: the stalls, the bypass and the freeze of dc2 leave no cycle in which
   the data of a load is neither there nor waited for. *)
ReadersSeeProgramOrder == ~misread
=============================================================================
