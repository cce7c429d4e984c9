------------------------------- MODULE IfuMem -------------------------------
(***************************************************************************)
(* The control of the instruction cache (ifu_mem_ctl.sv): one miss at a     *)
(* time, its address in imb_ff, its line fetched in beats of half a fetch   *)
(* group, the group that was asked for first kept aside and handed to the   *)
(* fetch before the line is complete (bypass).  After a flush the line is   *)
(* fetched to its end and other lines may hit (HIT_U_MISS).                  *)
(*                                                                         *)
(* Data is its address: a beat the half group it holds, a group its number. *)
(* What the tags say (rd_hit) is left open but for the line on its way and   *)
(* uncacheable addresses, which are not in the cache.  The bus (cmd, the     *)
(* beats owed) is the core's environment and answers in any order, as the    *)
(* commands have different tags.  Not modelled: bus, parity and ECC errors,  *)
(* fence.i, DMA and debug accesses, a bus clock slower than the core's.      *)
(***************************************************************************)
EXTENDS IfuAddr

CONSTANTS
  Uncacheable, Iccm,    \* fetch groups outside the cache
  AnyOrder, BusWaits    \* the bus may answer in any order; may let a command wait

ASSUME MemAssumption ==
  /\ {AnyOrder, BusWaits} \subseteq BOOLEAN
  /\ {Uncacheable, Iccm} \subseteq SUBSET {Group(a) : a \in Addr}
  /\ Uncacheable \cap Iccm = {}

BEATS == 2 * LINE_GROUPS
Nothing == -1

VARIABLES
  miss_state,
  mem_f2_raw, mem_addr_f2,   \* ifc_fetch_req_f2_raw, ifu_fetch_addr_int_f2
  imb_ff,                    \* address of the miss; what f1 asked for, if there is none
  byp,                       \* the two halves of the bypass: a beat, or Nothing
  ic_crit_wd_rdy_ff, flush_final_f2, sel_mb_addr_ff, reset_tag,
  data_beat_count,
  ic_req, cmd_beat_count, rd_addr_count,    \* the command on the bus
  owed,                      \* external: beats the bus has yet to send
  filled,                    \* the line of the last miss, once the cache has all of it
  rbeat                      \* the beat that came a clock ago, or Nothing

memVars == <<miss_state, mem_f2_raw, mem_addr_f2, imb_ff, byp, ic_crit_wd_rdy_ff, flush_final_f2,
             sel_mb_addr_ff, reset_tag, data_beat_count, ic_req, cmd_beat_count,
             rd_addr_count, owed, filled, rbeat>>

MemInit ==
  /\ miss_state = "IDLE"
  /\ mem_f2_raw = FALSE /\ mem_addr_f2 = 0 /\ imb_ff = 0
  /\ byp = [h \in 0..1 |-> Nothing]
  /\ ic_crit_wd_rdy_ff = FALSE /\ flush_final_f2 = FALSE
  /\ sel_mb_addr_ff = FALSE /\ reset_tag = FALSE
  /\ data_beat_count = 0
  /\ ic_req = FALSE /\ cmd_beat_count = 0 /\ rd_addr_count = 0
  /\ owed = {} /\ filled = Nothing /\ rbeat = Nothing

-----------------------------------------------------------------------------
(* Addresses. *)

uncacheable_miss_ff == Group(imb_ff) \in Uncacheable    \* taken and held with imb_ff
ifc_iccm_access_f2 == Group(mem_addr_f2) \in Iccm

(* {imb_ff[5:4], half}: the tags of the beats of the missing group. *)
imb_half(h) == 2 * (Group(imb_ff) % LINE_GROUPS) + h
ifu_ic_req_addr_f2 == Line(imb_ff) * BEATS + rd_addr_count

-----------------------------------------------------------------------------
(* The fetch in f2. *)

miss_pending == miss_state # "IDLE"
lookup_ok == ~miss_pending \/ miss_state = "HIT_U_MISS"

mem_fetch_req_f2(flush) == mem_f2_raw /\ ~flush
fetch_req_icache_f2(flush) == mem_fetch_req_f2(flush) /\ ~ifc_iccm_access_f2

ic_byp_hit_f2(flush) == ic_crit_wd_rdy_ff /\ fetch_req_icache_f2(flush) /\ miss_pending
ic_act_hit_f2(flush, rd_hit) ==
  rd_hit /\ fetch_req_icache_f2(flush) /\ lookup_ok /\ ~sel_mb_addr_ff
ic_iccm_hit_f2(flush) == mem_fetch_req_f2(flush) /\ ifc_iccm_access_f2 /\ lookup_ok
ic_hit_f2(flush, rd_hit) ==
  ic_act_hit_f2(flush, rd_hit) \/ ic_byp_hit_f2(flush) \/ ic_iccm_hit_f2(flush)

ic_act_miss_f2(flush, rd_hit) == ~rd_hit /\ fetch_req_icache_f2(flush) /\ ~miss_pending
ic_miss_under_miss_f2(flush, rd_hit) ==
  ~rd_hit /\ fetch_req_icache_f2(flush) /\ miss_state = "HIT_U_MISS"

(* External: what the tags may say.  After a write of the cache they are read
   at the place of the missing line and compared with it: it is not there. *)
RdHits(flush) ==
  IF \/ ~fetch_req_icache_f2(flush) \/ ~lookup_ok \/ sel_mb_addr_ff
     \/ Group(mem_addr_f2) \in Uncacheable
     \/ miss_pending /\ ~uncacheable_miss_ff /\ Line(mem_addr_f2) = Line(imb_ff)
  THEN {FALSE}
  ELSE IF Line(mem_addr_f2) = filled THEN {TRUE} ELSE BOOLEAN

-----------------------------------------------------------------------------
(* A beat of the line. *)

ifu_wr_en_new == rbeat # Nothing /\ miss_pending
last_beat == data_beat_count = (IF uncacheable_miss_ff THEN 1 ELSE BEATS - 1)
line_done == ifu_wr_en_new /\ last_beat
ic_write_stall == ifu_wr_en_new /\ (miss_state = "CRIT_BYP_OK" => last_beat)
ifu_ic_mb_empty == IF miss_state = "HIT_U_MISS" THEN ~line_done ELSE ~miss_pending
sel_mb_addr == ifu_wr_en_new \/ (reset_tag /\ miss_state = "CRIT_BYP_OK")

write_byp(h) == ifu_wr_en_new /\ rbeat % BEATS = imb_half(h)
crit_wd_byp_ok_ff ==
  \/ miss_state = "CRIT_BYP_OK"
  \/ miss_state = "CRIT_WRD_RDY" /\ ~flush_final_f2
ic_crit_wd_complete == \E h \in 0..1 : write_byp(h) /\ byp[1 - h] # Nothing
ic_crit_wd_rdy_in(flush) ==
  /\ crit_wd_byp_ok_ff /\ ~flush
  /\ ic_crit_wd_complete \/ (ic_crit_wd_rdy_ff /\ ~fetch_req_icache_f2(flush))

(* The group a fetch that hits is given; the array was read a clock ago at
   the address that is in f2 now. *)
ic_data_f2 ==
  IF ~ic_crit_wd_rdy_ff THEN Group(mem_addr_f2)
  ELSE IF ~ifc_iccm_access_f2 /\ byp[0] # Nothing /\ byp[0] % 2 = 0 /\ byp[1] = byp[0] + 1
  THEN byp[0] \div 2
  ELSE Nothing

-----------------------------------------------------------------------------
(* The miss. *)

miss_nxtstate(flush, rd_hit) ==
  CASE miss_state = "IDLE" ->
         IF ic_act_miss_f2(flush, rd_hit) THEN "CRIT_BYP_OK" ELSE "IDLE"
    [] miss_state = "CRIT_BYP_OK" ->
         IF ~flush /\ ~line_done
         THEN IF ~ic_byp_hit_f2(flush) THEN "CRIT_BYP_OK"
              ELSE IF uncacheable_miss_ff THEN "IDLE" ELSE "MISS_WAIT"
         ELSE IF flush /\ ~line_done THEN "HIT_U_MISS"
         ELSE IF ~flush /\ uncacheable_miss_ff /\ ~ic_byp_hit_f2(flush) THEN "CRIT_WRD_RDY"
         ELSE "IDLE"
    [] miss_state = "CRIT_WRD_RDY" ->
         IF flush \/ flush_final_f2 \/ ic_byp_hit_f2(flush) THEN "IDLE" ELSE "CRIT_WRD_RDY"
    [] miss_state = "MISS_WAIT" ->
         IF line_done THEN "IDLE" ELSE IF flush THEN "HIT_U_MISS" ELSE "MISS_WAIT"
    [] miss_state = "HIT_U_MISS" ->
         IF line_done THEN "IDLE"
         ELSE IF ic_miss_under_miss_f2(flush, rd_hit) THEN "SCND_MISS" ELSE "HIT_U_MISS"
    [] miss_state = "SCND_MISS" -> IF line_done THEN "IDLE" ELSE "SCND_MISS"

hold_imb_until_done(flush, rd_hit) ==    \* faulty: a second miss takes the place of the first
  \/ miss_pending /\ ~line_done /\ ~ic_miss_under_miss_f2(flush, rd_hit)
  \/ ic_act_miss_f2(flush, rd_hit)
sel_hold_imb(flush, rd_hit) ==
  \/ miss_pending /\ ~line_done /\ ~(miss_state = "CRIT_WRD_RDY" /\ flush)
  \/ ic_act_miss_f2(flush, rd_hit)
  \/ miss_pending /\ miss_nxtstate(flush, rd_hit) = "CRIT_WRD_RDY"

fetch_f1_f2_c1_clken(f1_req_raw, flush) ==
  f1_req_raw \/ mem_fetch_req_f2(flush) \/ miss_pending \/ flush

(* External: the bus.  It was sent the beats from the missing group on. *)
Sent(b) == (b - 2 * Group(imb_ff)) % BEATS
Answers == IF AnyOrder THEN owed ELSE {b \in owed : \A c \in owed : Sent(b) <= Sent(c)}
Ready == IF ic_req /\ BusWaits THEN BOOLEAN ELSE {TRUE}

axi_cmd_sent(arready) == ic_req /\ arready /\ miss_pending

(* f1, addr_f1: the request of the fetch control; arready, beat: the bus. *)
MemClock(flush, rd_hit, f1_req_raw, f1, addr_f1, arready, beat) ==
  LET act_miss == ic_act_miss_f2(flush, rd_hit)
      clken == fetch_f1_f2_c1_clken(f1_req_raw, flush)
      sent == axi_cmd_sent(arready)
  IN
  /\ miss_state' = miss_nxtstate(flush, rd_hit)
  /\ mem_f2_raw' = (f1 /\ ~(miss_state = "CRIT_WRD_RDY" /\ flush_final_f2))
  /\ mem_addr_f2' = IF clken THEN addr_f1 ELSE mem_addr_f2
  /\ imb_ff' = IF clken /\ ~sel_hold_imb(flush, rd_hit) THEN addr_f1 ELSE imb_ff
  /\ byp' = [h \in 0..1 |-> IF write_byp(h) THEN rbeat ELSE IF act_miss THEN Nothing ELSE byp[h]]
  /\ ic_crit_wd_rdy_ff' = ic_crit_wd_rdy_in(flush)
  /\ flush_final_f2' = flush
  /\ sel_mb_addr_ff' = sel_mb_addr
  /\ reset_tag' = act_miss
  /\ data_beat_count' =
       IF act_miss \/ line_done THEN 0
       ELSE IF ifu_wr_en_new THEN data_beat_count + 1 ELSE data_beat_count
  /\ ic_req' = ((act_miss \/ ic_req) /\ ~(sent /\ cmd_beat_count = BEATS - 1))
  /\ cmd_beat_count' =
       IF act_miss THEN IF uncacheable_miss_ff THEN BEATS - 2 ELSE 0
       ELSE IF sent THEN (cmd_beat_count + 1) % BEATS ELSE cmd_beat_count
  /\ rd_addr_count' =
       IF ~miss_pending THEN imb_half(0)
       ELSE IF sent THEN (rd_addr_count + 1) % BEATS ELSE rd_addr_count
  /\ owed' = (owed \ {beat}) \cup (IF sent THEN {ifu_ic_req_addr_f2} ELSE {})
  /\ filled' = CASE act_miss -> Nothing    \* it may be the one that is replaced
                 [] line_done /\ ~uncacheable_miss_ff -> Line(imb_ff)
                 [] OTHER -> filled
  /\ rbeat' = beat
=============================================================================
