------------------------------- MODULE IfuIfc -------------------------------
(***************************************************************************)
(* Fetch control (ifu_ifc_ctl.sv): which address is looked up next.  A      *)
(* fetch is looked up in f1 and answered in f2, a clock later, when the      *)
(* next one is in f1 already.  It waits (WFM) while the cache fetches a      *)
(* missing line, is sent again when the line or its critical word is there,  *)
(* and keeps account of the three fetch buffers of the aligner without       *)
(* seeing them (fb_write_f1).                                               *)
(*                                                                         *)
(* The signals of the other parts come in a record w:                       *)
(*   flush, path, noredir   the pipe is flushed; to where; not at all       *)
(*   kill, target           ifu_bp_kill_next_f2: a taken branch in f2       *)
(*   consume                fetch buffers the aligner empties, 0 to 2       *)
(*   hit, crit_rdy, mb_empty, write_stall   of the instruction cache        *)
(***************************************************************************)
EXTENDS IfuAddr

VARIABLES
  ifc_state,              \* "IDLE", "FETCH" or "WFM"; STALL is never entered
  f1_raw, addr_f1_raw,    \* ifc_fetch_req_f1_raw, ifc_fetch_addr_f1_raw
  ifc_f2_raw, ifc_addr_f2,    \* ifc_fetch_req_f2_raw, ifc_fetch_addr_f2
  miss_addr, miss_a,      \* where to start again; there was a miss a clock ago
  fb_write_f1,            \* its bits, from 1; bit 4: the buffers are full
  ic_crit_wd_rdy_d1, fetch_crit_word_d1, fetch_crit_word_d2,
  dma_iccm_stall_any_f

ifcVars == <<ifc_state, f1_raw, addr_f1_raw, ifc_f2_raw, ifc_addr_f2, miss_addr, miss_a,
             fb_write_f1, ic_crit_wd_rdy_d1, fetch_crit_word_d1, fetch_crit_word_d2,
             dma_iccm_stall_any_f>>

(* The core halted in reset: nothing is fetched before the first redirection. *)
IfcInit ==
  /\ ifc_state = "IDLE"
  /\ f1_raw = FALSE /\ ifc_f2_raw = FALSE /\ miss_a = FALSE
  /\ addr_f1_raw = 0 /\ ifc_addr_f2 = 0 /\ miss_addr = 0
  /\ fb_write_f1 = {1}
  /\ ic_crit_wd_rdy_d1 = FALSE /\ fetch_crit_word_d1 = FALSE /\ fetch_crit_word_d2 = FALSE
  /\ dma_iccm_stall_any_f = FALSE

-----------------------------------------------------------------------------
(* Requests. *)

ifc_fetch_req_f2(w) == ifc_f2_raw /\ ~w.flush
miss_f2(w) == ifc_fetch_req_f2(w) /\ ~w.hit

fb_full_f1 == 4 \in fb_write_f1
ifc_fetch_req_f1(w) ==
  /\ f1_raw /\ ~w.kill
  /\ fb_full_f1 => w.consume > 0 \/ w.flush
  /\ ~dma_iccm_stall_any_f /\ ~w.write_stall /\ ~w.noredir
ifc_fetch_addr_f1(w) == IF w.flush THEN w.path ELSE addr_f1_raw

(* A request for the critical word that was held up is sent again. *)
crit_wd_rdy_once(w) == w.crit_rdy    \* faulty: it is not
ic_crit_wd_rdy_mod(w) == w.crit_rdy /\ ~(fetch_crit_word_d2 /\ ~ifc_fetch_req_f2(w))
fetch_crit_word(w) ==
  ic_crit_wd_rdy_mod(w) /\ ~ic_crit_wd_rdy_d1 /\ ~w.flush /\ ~w.write_stall

-----------------------------------------------------------------------------
(* States. *)

wfm == ifc_state = "WFM"
idle == ifc_state = "IDLE"

mb_empty_mod(w) ==
  (w.mb_empty \/ w.flush) /\ ~dma_iccm_stall_any_f /\ ~miss_f2(w) /\ ~miss_a

ifc_next_state(w) ==
  IF w.flush /\ w.noredir THEN "IDLE"
  ELSE CASE idle -> IF w.flush THEN "FETCH" ELSE "IDLE"
         [] wfm -> IF mb_empty_mod(w) THEN "FETCH" ELSE "WFM"
         [] OTHER -> IF miss_f2(w) THEN "WFM" ELSE "FETCH"

ifc_fetch_req_bf(w) == ifc_next_state(w) = "FETCH" \/ fetch_crit_word(w)

-----------------------------------------------------------------------------
(* Addresses. *)

miss_sel_flush(w) ==
  w.flush /\ \/ (wfm \/ idle) /\ ~fetch_crit_word_d1
             \/ dma_iccm_stall_any_f
             \/ w.write_stall

fetch_addr_next(w) == NextGroup(ifc_fetch_addr_f1(w))

fetch_addr_bf(w) ==
  IF miss_sel_flush(w) THEN w.path
  ELSE IF w.kill THEN w.target
  ELSE IF ifc_fetch_req_f1(w) THEN fetch_addr_next(w)
  ELSE IF ifc_fetch_req_f2(w) THEN ifc_fetch_addr_f1(w)
  ELSE miss_addr

(* f1 was held up behind the fetch in f2, which is not that of a critical word. *)
miss_f1_held(w) == ifc_fetch_req_f2(w) /\ ~ifc_fetch_req_f1(w) /\ ~fetch_crit_word_d2

missff_en(w) == w.flush \/ miss_f2(w) \/ w.kill \/ fetch_crit_word_d1 \/ miss_f1_held(w)
miss_addr_ns(w) ==
  IF miss_f2(w) THEN ifc_addr_f2
  ELSE IF ~w.flush /\ miss_f1_held(w) /\ ~w.kill THEN ifc_fetch_addr_f1(w)
  ELSE fetch_addr_bf(w)

-----------------------------------------------------------------------------
(* The account of the fetch buffers: right, the aligner emptied one or the
   fetch it was counted for missed; left, a fetch goes to f2. *)

Right(bits, k) == {b - k : b \in {c \in bits : c > k}}
Left(bits) == {b + 1 : b \in bits} \ {5}

no_mass_balance(w) ==    \* faulty: a fetch that missed stays counted
  \/ w.consume = 1 /\ ~ifc_fetch_req_f1(w) /\ ~miss_f2(w)
  \/ w.consume = 2 /\ ifc_fetch_req_f1(w) /\ ~miss_f2(w)
fb_right(w) ==
  \/ w.consume = 0 /\ miss_f2(w)
  \/ w.consume = 1 /\ ~ifc_fetch_req_f1(w) /\ ~miss_f2(w)
  \/ w.consume = 2 /\ ifc_fetch_req_f1(w) /\ ~miss_f2(w)
fb_right2(w) ==
  \/ w.consume = 1 /\ miss_f2(w)
  \/ w.consume = 2 /\ ~ifc_fetch_req_f1(w)
fb_right3(w) == w.consume = 2 /\ miss_f2(w)
fb_left(w) == ifc_fetch_req_f1(w) /\ w.consume = 0 /\ ~miss_f2(w)

fb_write_ns(w) ==
  IF w.flush THEN IF ifc_fetch_req_f1(w) THEN {2} ELSE {1}
  ELSE IF fb_left(w) THEN Left(fb_write_f1)
  ELSE IF fb_right(w) \/ fb_right2(w) \/ fb_right3(w)
       THEN UNION {IF fb_right(w) THEN Right(fb_write_f1, 1) ELSE {},
                   IF fb_right2(w) THEN Right(fb_write_f1, 2) ELSE {},
                   IF fb_right3(w) THEN Right(fb_write_f1, 3) ELSE {}}
       ELSE fb_write_f1

-----------------------------------------------------------------------------
(* stall: dma_iccm_stall_any. *)
IfcClock(w, stall) ==
  /\ ifc_state' = ifc_next_state(w)
  /\ f1_raw' = ifc_fetch_req_bf(w)
  /\ addr_f1_raw' = IF ifc_fetch_req_bf(w) THEN fetch_addr_bf(w) ELSE addr_f1_raw
  /\ ifc_f2_raw' = (ifc_fetch_req_f1(w) /\ ~miss_f2(w))
  /\ ifc_addr_f2' = IF ifc_fetch_req_f1(w) THEN ifc_fetch_addr_f1(w) ELSE ifc_addr_f2
  /\ miss_addr' = IF missff_en(w) THEN miss_addr_ns(w) ELSE miss_addr
  /\ miss_a' = miss_f2(w)
  /\ fb_write_f1' = fb_write_ns(w)
  /\ ic_crit_wd_rdy_d1' = ic_crit_wd_rdy_mod(w)
  /\ fetch_crit_word_d1' = fetch_crit_word(w)
  /\ fetch_crit_word_d2' = fetch_crit_word_d1
  /\ dma_iccm_stall_any_f' = stall
=============================================================================
