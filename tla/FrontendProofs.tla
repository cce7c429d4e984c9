--------------------------- MODULE FrontendProofs ---------------------------
(***************************************************************************)
(* Theorems about the front end, for every size of a group and of a line,   *)
(* every program and every behaviour of the tags, the predictor, decode,     *)
(* the DMA controller and the bus: fetch control, which does not see the      *)
(* buffers of the aligner, counts them right, and decode is given the         *)
(* parcels of the program, each once and in order (InstrStream).             *)
(***************************************************************************)
EXTENDS Frontend, FiniteSetTheorems, SequenceTheorems, TLAPS

MissStates == {"IDLE", "CRIT_BYP_OK", "CRIT_WRD_RDY", "MISS_WAIT", "HIT_U_MISS", "SCND_MISS"}

FrontTypeOK ==
  /\ ifc_state \in {"IDLE", "FETCH", "WFM"}
  /\ miss_state \in MissStates
  /\ {f1_raw, ifc_f2_raw, mem_f2_raw, ic_crit_wd_rdy_ff, ic_crit_wd_rdy_d1,
      flush_final_f2, sel_mb_addr_ff, dma_iccm_stall_any_f} \subseteq BOOLEAN
  /\ {addr_f1_raw, ifc_addr_f2, miss_addr, mem_addr_f2} \subseteq Addr

(* The two halves of the pipe agree on the fetch in f2.  While the critical word
   is waited for nothing is fetched but that word, so what the cache's control
   still has in f2 after a miss (LeftOver) cannot hit. *)
Bypassing == miss_state \in {"CRIT_BYP_OK", "CRIT_WRD_RDY"}

NoLateFlush == miss_state = "CRIT_WRD_RDY" => ~flush_final_f2
InBoth == ifc_f2_raw => mem_f2_raw
LeftOver ==
  mem_f2_raw /\ ~ifc_f2_raw =>
    miss_state \in {"CRIT_BYP_OK", "SCND_MISS", "MISS_WAIT"} /\ ~ic_crit_wd_rdy_ff
WaitsForWord == Bypassing => ifc_state = "WFM"
OnlyTheWord ==
  Bypassing => /\ f1_raw => ic_crit_wd_rdy_d1
               /\ ~(f1_raw /\ ifc_f2_raw)
NothingWhenIdle == ifc_state = "IDLE" => ~f1_raw /\ ~mem_f2_raw /\ ~ic_crit_wd_rdy_ff

FetchesAgree ==
  NoLateFlush /\ InBoth /\ LeftOver /\ WaitsForWord /\ OnlyTheWord /\ NothingWhenIdle

(* k buffers are taken, the first ones. *)
Filled(k) ==
  /\ {f0.n, f1.n, f2.n} \subseteq Nat
  /\ f0.n > 0 <=> k >= 1
  /\ f1.n > 0 <=> k >= 2
  /\ f2.n > 0 <=> k >= 3

(* Bits of the account that stand for o buffers. *)
Stands(bits, o) == bits \subseteq 1..4 /\ 1 + o \in bits /\ bits \subseteq {1 + o, 2 + o}

InF2 == IF ifc_f2_raw THEN 1 ELSE 0
Account == \E k \in 0..3 : Filled(k) /\ k + InF2 <= 3 /\ Stands(fb_write_f1, k + InF2)

FrontIInv == FrontTypeOK /\ FetchesAgree /\ Account

-----------------------------------------------------------------------------
(* Sizes. *)

LEMMA PlusAddr ==
  ASSUME NEW a \in Int, NEW k \in Int PROVE Plus(a, k) \in Addr
BY AddrAssumption DEF Plus, Addr

LEMMA NextGroupAddr ==
  ASSUME NEW a \in Addr PROVE NextGroup(a) \in Addr
<1>1. a \div PARCELS \in Int
  BY AddrAssumption DEF Addr
<1>2. (a \div PARCELS) * PARCELS \in Int
  BY <1>1, AddrAssumption
<1> QED
  BY <1>2, PlusAddr, AddrAssumption DEF NextGroup, Group

(* A fetch that hits delivers at least one parcel. *)
LEMMA Delivers ==
  ASSUME FrontTypeOK, NEW flush \in BOOLEAN, NEW branch \in Predictions(flush)
  PROVE  ic_fetch_val_f2(branch) \in Nat \ {0}
<1>1. Offset(mem_addr_f2) \in 0..PARCELS - 1
  BY AddrAssumption DEF FrontTypeOK, Addr, Offset
<1>2. PARCELS - Offset(mem_addr_f2) \in Nat \ {0}
  BY <1>1, AddrAssumption
<1>3. CASE branch = NoBranch
  BY <1>2, <1>3, AddrAssumption DEF ic_fetch_val_f2, Least
<1>4. CASE branch # NoBranch
  <2>1. branch \in Branches /\ branch.at >= ifc_addr_f2
    BY <1>4 DEF Predictions
  <2>2. branch.at \in Int /\ ifc_addr_f2 \in Int
    BY <2>1, FrontendAssumption DEF FrontTypeOK, Addr
  <2>3. branch.at - ifc_addr_f2 + 1 \in Nat \ {0}
    BY <2>1, <2>2
  <2> QED
    BY <1>2, <1>4, <2>3 DEF ic_fetch_val_f2, Least
<1> QED
  BY <1>3, <1>4

LEMMA FilledCounts ==
  ASSUME NEW k \in 0..3, Filled(k)
  PROVE  Cardinality({i \in 1..3 : <<f0, f1, f2>>[i].n > 0}) = k
<1> DEFINE taken == {i \in 1..3 : <<f0, f1, f2>>[i].n > 0}
<1>1. taken = 1..k
  BY DEF Filled
<1>2. Cardinality(1..k) = IF 1 > k THEN 0 ELSE k - 1 + 1
  BY FS_Interval
<1>3. Cardinality(1..k) = k
  BY <1>2
<1> HIDE DEF taken
<1>4. Cardinality(taken) = k
  BY <1>1, <1>3
<1> QED
  BY <1>4 DEF taken

-----------------------------------------------------------------------------
(* The aligner: buffers are taken from f0 on, and it empties as many as it says. *)

LEMMA ShiftedNat ==
  ASSUME NEW flush PROVE shifted(flush) \in Nat
BY DEF shifted, i0_len, i1_len

LEMMA ConsumeRange ==
  ASSUME NEW k \in 0..3, Filled(k), NEW flush
  PROVE  /\ ifu_fb_consume(flush) \in 0..2
         /\ ifu_fb_consume(flush) <= k
BY DEF Filled, ifu_fb_consume

(* What is left in f0 and f1 after the shift. *)
LEMMA ShiftedBuffers ==
  ASSUME NEW k \in 0..3, Filled(k), NEW flush
  PROVE  /\ sf0(flush).n \in Nat /\ sf1(flush).n \in Nat
         /\ sf0(flush).n > 0 => f0.n > 0
         /\ sf1(flush).n > 0 => f1.n > 0
         /\ sf0(flush).n > 0 /\ f1.n > 0 => sf1(flush).n > 0
<1>1. shifted(flush) \in Nat
  BY ShiftedNat
<1>2. f0.n \in Nat /\ f1.n \in Nat
  BY DEF Filled
<1>3. f1_shift(flush) \in Nat
  BY <1>1, <1>2 DEF f1_shift, Monus
<1>4. sf0(flush).n = IF f0.n > shifted(flush) THEN f0.n - shifted(flush) ELSE 0
  BY DEF sf0, shifted_buffer, EmptyBuffer
<1>5. sf1(flush).n = IF f1.n > f1_shift(flush) THEN f1.n - f1_shift(flush) ELSE 0
  BY DEF sf1, shifted_buffer, EmptyBuffer
<1>6. f0.n > shifted(flush) => f1_shift(flush) = 0
  BY <1>1, <1>2 DEF f1_shift, Monus
<1> QED
  BY <1>1, <1>2, <1>3, <1>4, <1>5, <1>6

LEMMA AlignerCounts ==
  ASSUME NEW k \in 0..3, Filled(k), NEW flush \in BOOLEAN, NEW got, got.n \in Nat,
         AlnClock(flush, got), got.n > 0 => k < 3,
         NEW j, j = IF flush THEN 0
                    ELSE k - ifu_fb_consume(flush) + (IF got.n > 0 THEN 1 ELSE 0)
  PROVE  j \in 0..3 /\ Filled(j)'
<1> DEFINE v0 == sf0(flush).n > 0
           v1 == sf1(flush).n > 0
           v2 == f2.n > 0
           c == ifu_fb_consume(flush)
<1>1. c \in 0..2 /\ c <= k
  BY ConsumeRange
<1>2. j \in 0..3
  BY <1>1
<1>3. /\ sf0(flush).n \in Nat /\ sf1(flush).n \in Nat /\ f2.n \in Nat
      /\ v0 => k >= 1
      /\ v1 => k >= 2
      /\ v2 <=> k = 3
      /\ v0 /\ k >= 2 => v1
  BY ShiftedBuffers DEF Filled
<1>4. ~flush => c = IF k = 0 \/ v0 THEN 0 ELSE IF k >= 2 /\ ~v1 THEN 2 ELSE 1
  <2>1. f0.n = 0 <=> k = 0
    BY DEF Filled
  <2>2. f1.n > 0 <=> k >= 2
    BY DEF Filled
  <2>3. sf1(flush).n = 0 <=> ~v1
    BY <1>3
  <2> QED
    BY <2>1, <2>2, <2>3 DEF ifu_fb_consume
<1>5. CASE flush
  BY <1>5 DEF AlnClock, Filled, EmptyBuffer
<1>6. CASE ~flush
  <2> DEFINE g == [n |-> got.n, pc |-> got.pc]
  <2>1. CASE ~v0 /\ ~v1 /\ ~v2
    <3>1. /\ f0' = IF got.n > 0 THEN g ELSE sf0(flush)
          /\ f1' = sf1(flush) /\ f2' = f2
      BY <1>6, <2>1 DEF AlnClock
    <3> QED
      BY <1>1, <1>3, <1>4, <1>6, <2>1, <3>1 DEF Filled
  <2>2. CASE ~v0 /\ ~v1 /\ v2
    <3>1. /\ f0' = f2 /\ f2' = EmptyBuffer
          /\ f1' = IF got.n > 0 THEN g ELSE sf1(flush)
      BY <1>6, <2>2 DEF AlnClock
    <3> QED
      BY <1>1, <1>3, <1>4, <1>6, <2>2, <3>1 DEF Filled, EmptyBuffer
  <2>3. CASE ~v0 /\ v1 /\ ~v2
    <3>1. /\ f0' = sf1(flush) /\ f2' = f2
          /\ f1' = IF got.n > 0 THEN g ELSE EmptyBuffer
      BY <1>6, <2>3 DEF AlnClock
    <3> QED
      BY <1>1, <1>3, <1>4, <1>6, <2>3, <3>1 DEF Filled, EmptyBuffer
  <2>4. CASE ~v0 /\ v1 /\ v2
    <3>1. /\ f0' = sf1(flush) /\ f1' = f2
          /\ f2' = IF got.n > 0 THEN g ELSE EmptyBuffer
      BY <1>6, <2>4 DEF AlnClock
    <3> QED
      BY <1>1, <1>3, <1>4, <1>6, <2>4, <3>1 DEF Filled, EmptyBuffer
  <2>5. CASE v0 /\ ~v1
    <3>1. ~v2
      BY <1>3, <2>5
    <3>2. /\ f0' = sf0(flush) /\ f2' = f2
          /\ f1' = IF got.n > 0 THEN g ELSE sf1(flush)
      BY <1>6, <2>5, <3>1 DEF AlnClock
    <3> QED
      BY <1>1, <1>3, <1>4, <1>6, <2>5, <3>1, <3>2 DEF Filled
  <2>6. CASE v0 /\ v1
    <3>1. /\ f0' = sf0(flush) /\ f1' = sf1(flush)
          /\ f2' = IF got.n > 0 /\ ~v2 THEN g ELSE f2
      BY <1>6, <2>6 DEF AlnClock
    <3> QED
      BY <1>1, <1>3, <1>4, <1>6, <2>6, <3>1 DEF Filled
  <2> QED
    BY <2>1, <2>2, <2>3, <2>4, <2>5, <2>6
<1> QED
  BY <1>2, <1>5, <1>6

-----------------------------------------------------------------------------
(* A clock edge of fetch control and of the cache's control, for signals w. *)

Signals(w, rd_hit) ==
  /\ {w.flush, w.noredir, w.kill, w.write_stall, w.mb_empty} \subseteq BOOLEAN
  /\ {w.path, w.target} \subseteq Addr
  /\ rd_hit \in RdHits(w.flush)
  /\ w.noredir => w.flush
  /\ w.consume = ifu_fb_consume(w.flush)
  /\ w.hit = ic_hit_f2(w.flush, rd_hit)
  /\ w.crit_rdy = ic_crit_wd_rdy_ff
  /\ w.mb_empty = ifu_ic_mb_empty
  /\ w.write_stall = ic_write_stall

Edge(w, rd_hit) ==
  /\ Signals(w, rd_hit)
  /\ \E stall \in BOOLEAN : IfcClock(w, stall)
  /\ \E arready, beat :
       MemClock(w.flush, rd_hit, f1_raw, ifc_fetch_req_f1(w), ifc_fetch_addr_f1(w), arready, beat)

(* What of an edge the account depends on. *)
LEMMA EdgeOf ==
  ASSUME NEW w, NEW rd_hit, Edge(w, rd_hit)
  PROVE  /\ Signals(w, rd_hit)
         /\ ifc_state' = ifc_next_state(w)
         /\ f1_raw' = ifc_fetch_req_bf(w)
         /\ ifc_f2_raw' = (ifc_fetch_req_f1(w) /\ ~miss_f2(w))
         /\ fb_write_f1' = fb_write_ns(w)
         /\ ic_crit_wd_rdy_d1' = ic_crit_wd_rdy_mod(w)
         /\ miss_state' = miss_nxtstate(w.flush, rd_hit)
         /\ mem_f2_raw' =
              (ifc_fetch_req_f1(w) /\ ~(miss_state = "CRIT_WRD_RDY" /\ flush_final_f2))
         /\ ic_crit_wd_rdy_ff' = ic_crit_wd_rdy_in(w.flush)
         /\ flush_final_f2' = w.flush
BY DEF Edge, IfcClock, MemClock

LEMMA TypeStep ==
  ASSUME FrontTypeOK, NEW w, NEW rd_hit, Edge(w, rd_hit)
  PROVE  FrontTypeOK'
<1> USE EdgeOf
<1>1. ifc_state' \in {"IDLE", "FETCH", "WFM"}
  BY DEF ifc_next_state, FrontTypeOK, idle, wfm
<1>2. miss_state' \in MissStates
  BY DEF miss_nxtstate, FrontTypeOK, MissStates
<1>3. {f1_raw', ifc_f2_raw', mem_f2_raw', ic_crit_wd_rdy_ff', ic_crit_wd_rdy_d1',
       flush_final_f2'} \subseteq BOOLEAN
  BY DEF ifc_fetch_req_bf, ic_crit_wd_rdy_in, ic_crit_wd_rdy_mod, Signals, fetch_crit_word,
         FrontTypeOK
<1>4. {sel_mb_addr_ff', dma_iccm_stall_any_f'} \subseteq BOOLEAN
  BY DEF Edge, IfcClock, MemClock, sel_mb_addr, ifu_wr_en_new
<1>5. ifc_fetch_addr_f1(w) \in Addr
  BY DEF ifc_fetch_addr_f1, Signals, FrontTypeOK
<1>6. fetch_addr_bf(w) \in Addr
  BY <1>5, NextGroupAddr DEF fetch_addr_bf, fetch_addr_next, Signals, FrontTypeOK
<1>7. miss_addr_ns(w) \in Addr
  BY <1>5, <1>6 DEF miss_addr_ns, FrontTypeOK
<1>8. {addr_f1_raw', ifc_addr_f2', miss_addr', mem_addr_f2'} \subseteq Addr
  BY <1>5, <1>6, <1>7 DEF Edge, IfcClock, MemClock, FrontTypeOK
<1> QED
  BY <1>1, <1>2, <1>3, <1>4, <1>8 DEF FrontTypeOK

-----------------------------------------------------------------------------
(* The two halves of the pipe agree. *)

(* A fetch that hits is one that fetch control has in f2. *)
LEMMA HitIsCounted ==
  ASSUME FrontTypeOK, LeftOver, NEW flush \in BOOLEAN, NEW rd_hit, ic_hit_f2(flush, rd_hit)
  PROVE  ifc_f2_raw /\ ~flush
BY DEF LeftOver, FrontTypeOK, ic_hit_f2, ic_act_hit_f2, ic_byp_hit_f2, ic_iccm_hit_f2, lookup_ok,
       miss_pending, fetch_req_icache_f2, mem_fetch_req_f2

(* A miss of the cache's control is one of fetch control. *)
LEMMA MissIsSeen ==
  ASSUME FrontTypeOK, LeftOver, NEW w, NEW rd_hit, Signals(w, rd_hit),
         ic_act_miss_f2(w.flush, rd_hit)
  PROVE  miss_f2(w)
<1>1. mem_f2_raw /\ ~w.flush /\ ~ifc_iccm_access_f2 /\ ~rd_hit /\ miss_state = "IDLE"
  BY DEF ic_act_miss_f2, fetch_req_icache_f2, mem_fetch_req_f2, miss_pending
<1>2. ifc_f2_raw
  BY <1>1 DEF LeftOver
<1>3. ~ic_hit_f2(w.flush, rd_hit)
  BY <1>1 DEF ic_hit_f2, ic_act_hit_f2, ic_byp_hit_f2, ic_iccm_hit_f2, miss_pending
<1> QED
  BY <1>1, <1>2, <1>3 DEF miss_f2, ifc_fetch_req_f2, Signals

(* How a fetch comes to wait for its critical word, and how long it does. *)
LEMMA BypassingFrom ==
  ASSUME FrontTypeOK, NEW w, NEW rd_hit, Edge(w, rd_hit), Bypassing'
  PROVE  /\ ~w.flush
         /\ \/ miss_state = "IDLE" /\ ic_act_miss_f2(w.flush, rd_hit)
            \/ Bypassing
<1>1. Signals(w, rd_hit) /\ miss_state' = miss_nxtstate(w.flush, rd_hit)
  BY EdgeOf
<1>2. miss_state \in MissStates
  BY DEF FrontTypeOK
<1>3. miss_nxtstate(w.flush, rd_hit) \in {"CRIT_BYP_OK", "CRIT_WRD_RDY"}
  BY <1>1 DEF Bypassing
<1>4. CASE miss_state = "IDLE"
  BY <1>1, <1>3, <1>4 DEF miss_nxtstate, ic_act_miss_f2, fetch_req_icache_f2, mem_fetch_req_f2
<1>5. CASE Bypassing
  BY <1>1, <1>3, <1>5 DEF miss_nxtstate, Bypassing
<1>6. CASE miss_state \in {"MISS_WAIT", "HIT_U_MISS", "SCND_MISS"}
  BY <1>3, <1>6 DEF miss_nxtstate
<1> QED
  BY <1>2, <1>4, <1>5, <1>6 DEF MissStates, Bypassing

LEMMA NoLateFlushStep ==
  ASSUME FrontTypeOK, NEW w, NEW rd_hit, Edge(w, rd_hit)
  PROVE  NoLateFlush'
BY EdgeOf, BypassingFrom DEF NoLateFlush, Bypassing

LEMMA InBothStep ==
  ASSUME NoLateFlush, NEW w, NEW rd_hit, Edge(w, rd_hit)
  PROVE  InBoth'
BY EdgeOf DEF NoLateFlush, InBoth

LEMMA LeftOverStep ==
  ASSUME FrontTypeOK, FetchesAgree, NEW w, NEW rd_hit, Edge(w, rd_hit)
  PROVE  LeftOver'
<1> SUFFICES ASSUME mem_f2_raw', ~ifc_f2_raw'
             PROVE  /\ miss_state' \in {"CRIT_BYP_OK", "SCND_MISS", "MISS_WAIT"}
                    /\ ~ic_crit_wd_rdy_ff'
  BY DEF LeftOver
<1>1. Signals(w, rd_hit)
  BY EdgeOf
<1>2. ifc_fetch_req_f1(w) /\ miss_f2(w)
  BY EdgeOf
<1>3. f1_raw /\ ~ic_write_stall /\ ifc_f2_raw /\ ~w.flush /\ ~w.hit
  BY <1>1, <1>2 DEF ifc_fetch_req_f1, miss_f2, ifc_fetch_req_f2, Signals
<1>4. mem_f2_raw /\ ~Bypassing
  BY <1>3 DEF FetchesAgree, InBoth, OnlyTheWord
<1>5. ~line_done
  BY <1>3, <1>4 DEF ic_write_stall, line_done, Bypassing
<1>6. ~ic_crit_wd_rdy_ff'
  BY <1>4, EdgeOf DEF ic_crit_wd_rdy_in, crit_wd_byp_ok_ff, Bypassing
<1>7. ~ic_hit_f2(w.flush, rd_hit)
  BY <1>1, <1>3 DEF Signals
<1>8. mem_fetch_req_f2(w.flush)
  BY <1>3, <1>4 DEF mem_fetch_req_f2
<1>9. lookup_ok => fetch_req_icache_f2(w.flush) /\ ~rd_hit
  <2> SUFFICES ASSUME lookup_ok PROVE fetch_req_icache_f2(w.flush) /\ ~rd_hit
    OBVIOUS
  <2>1. ~ifc_iccm_access_f2
    BY <1>7, <1>8 DEF ic_hit_f2, ic_iccm_hit_f2
  <2>2. fetch_req_icache_f2(w.flush)
    BY <1>8, <2>1 DEF fetch_req_icache_f2
  <2>3. CASE sel_mb_addr_ff
    BY <1>1, <2>2, <2>3 DEF Signals, RdHits
  <2>4. CASE ~sel_mb_addr_ff
    BY <1>7, <2>2, <2>4 DEF ic_hit_f2, ic_act_hit_f2
  <2> QED
    BY <2>2, <2>3, <2>4
<1>10. miss_state' = miss_nxtstate(w.flush, rd_hit)
  BY EdgeOf
<1>11. CASE miss_state = "IDLE"
  <2>1. ic_act_miss_f2(w.flush, rd_hit)
    BY <1>9, <1>11 DEF lookup_ok, miss_pending, ic_act_miss_f2
  <2> QED
    BY <1>6, <1>10, <1>11, <2>1 DEF miss_nxtstate
<1>12. CASE miss_state = "HIT_U_MISS"
  <2>1. ic_miss_under_miss_f2(w.flush, rd_hit)
    BY <1>9, <1>12 DEF lookup_ok, ic_miss_under_miss_f2
  <2> QED
    BY <1>5, <1>6, <1>10, <1>12, <2>1 DEF miss_nxtstate
<1>13. CASE miss_state \in {"MISS_WAIT", "SCND_MISS"}
  BY <1>3, <1>5, <1>6, <1>10, <1>13 DEF miss_nxtstate
<1> QED
  BY <1>4, <1>11, <1>12, <1>13 DEF FrontTypeOK, MissStates, Bypassing

LEMMA WaitsForWordStep ==
  ASSUME FrontTypeOK, FetchesAgree, NEW w, NEW rd_hit, Edge(w, rd_hit)
  PROVE  WaitsForWord'
<1> SUFFICES ASSUME Bypassing' PROVE ifc_state' = "WFM"
  BY DEF WaitsForWord
<1>1. Signals(w, rd_hit) /\ ifc_state' = ifc_next_state(w)
  BY EdgeOf
<1>2. ~w.flush
  BY BypassingFrom
<1>3. CASE miss_state = "IDLE" /\ ic_act_miss_f2(w.flush, rd_hit)
  <2>1. miss_f2(w)
    BY <1>1, <1>3, MissIsSeen DEF FetchesAgree
  <2>2. mem_f2_raw
    BY <1>3 DEF ic_act_miss_f2, fetch_req_icache_f2, mem_fetch_req_f2
  <2>3. ifc_state # "IDLE"
    BY <2>2 DEF FetchesAgree, NothingWhenIdle
  <2> QED
    BY <1>1, <1>2, <2>1, <2>3 DEF ifc_next_state, mb_empty_mod, wfm, idle
<1>4. CASE Bypassing
  <2>1. ifc_state = "WFM"
    BY <1>4 DEF FetchesAgree, WaitsForWord
  <2>2. ~ifu_ic_mb_empty
    BY <1>4 DEF Bypassing, ifu_ic_mb_empty, miss_pending
  <2>3. ~mb_empty_mod(w)
    BY <1>1, <1>2, <2>2 DEF mb_empty_mod, Signals
  <2> QED
    BY <1>1, <1>2, <2>1, <2>3 DEF ifc_next_state, wfm, idle
<1> QED
  BY <1>3, <1>4, BypassingFrom

LEMMA OnlyTheWordStep ==
  ASSUME FrontTypeOK, FetchesAgree, NEW w, NEW rd_hit, Edge(w, rd_hit)
  PROVE  OnlyTheWord'
<1> SUFFICES ASSUME Bypassing', f1_raw'
             PROVE  ic_crit_wd_rdy_d1' /\ ~ifc_f2_raw'
  BY DEF OnlyTheWord
<1>1. ifc_state' = "WFM"
  BY WaitsForWordStep DEF WaitsForWord
<1>2. fetch_crit_word(w)
  BY <1>1, EdgeOf DEF ifc_fetch_req_bf
<1>3. ic_crit_wd_rdy_mod(w) /\ ~ic_crit_wd_rdy_d1
  BY <1>2 DEF fetch_crit_word
<1>4. ic_crit_wd_rdy_d1'
  BY <1>3, EdgeOf
<1>5. CASE ic_act_miss_f2(w.flush, rd_hit)
  BY <1>4, <1>5, EdgeOf, MissIsSeen DEF FetchesAgree
<1>6. CASE Bypassing
  <2>1. ~f1_raw
    BY <1>3, <1>6 DEF FetchesAgree, OnlyTheWord
  <2> QED
    BY <1>4, <2>1, EdgeOf DEF ifc_fetch_req_f1
<1> QED
  BY <1>5, <1>6, BypassingFrom

LEMMA NothingWhenIdleStep ==
  ASSUME FrontTypeOK, FetchesAgree, NEW w, NEW rd_hit, Edge(w, rd_hit)
  PROVE  NothingWhenIdle'
<1> SUFFICES ASSUME ifc_state' = "IDLE"
             PROVE  ~f1_raw' /\ ~mem_f2_raw' /\ ~ic_crit_wd_rdy_ff'
  BY DEF NothingWhenIdle
<1>1. Signals(w, rd_hit) /\ ifc_next_state(w) = "IDLE"
  BY EdgeOf
<1>2. CASE w.flush /\ w.noredir
  <2>1. ~ifc_fetch_req_f1(w) /\ ~fetch_crit_word(w) /\ ~ic_crit_wd_rdy_in(w.flush)
    BY <1>2 DEF ifc_fetch_req_f1, fetch_crit_word, ic_crit_wd_rdy_in
  <2> QED
    BY <1>1, <2>1, EdgeOf DEF ifc_fetch_req_bf
<1>3. CASE ~(w.flush /\ w.noredir)
  <2>1. ifc_state = "IDLE"
    BY <1>1, <1>3 DEF ifc_next_state, idle, wfm
  <2>2. ~f1_raw /\ ~ic_crit_wd_rdy_ff /\ ~Bypassing
    BY <2>1 DEF FetchesAgree, NothingWhenIdle, WaitsForWord
  <2>3. ~ifc_fetch_req_f1(w) /\ ~fetch_crit_word(w) /\ ~ic_crit_wd_rdy_in(w.flush)
    BY <1>1, <2>2 DEF ifc_fetch_req_f1, fetch_crit_word, ic_crit_wd_rdy_mod, Signals,
                      ic_crit_wd_rdy_in, crit_wd_byp_ok_ff, Bypassing
  <2> QED
    BY <1>1, <2>3, EdgeOf DEF ifc_fetch_req_bf
<1> QED
  BY <1>2, <1>3

LEMMA AgreeStep ==
  ASSUME FrontTypeOK, FetchesAgree, NEW w, NEW rd_hit, Edge(w, rd_hit)
  PROVE  FetchesAgree'
BY NoLateFlushStep, InBothStep, LeftOverStep, WaitsForWordStep, OnlyTheWordStep,
   NothingWhenIdleStep DEF FetchesAgree

-----------------------------------------------------------------------------
(* The account. *)

LEMMA RightStands ==
  ASSUME NEW bits, NEW o \in 0..3, Stands(bits, o), NEW i \in 1..3, i <= o
  PROVE  Stands(Right(bits, i), o - i)
<1>1. bits \subseteq 1..4 /\ 1 + o \in bits /\ bits \subseteq {1 + o, 2 + o}
  BY DEF Stands
<1>2. \A b : b \in Right(bits, i) <=> \E e \in bits : e > i /\ b = e - i
  BY DEF Right
<1>3. 1 + (o - i) \in Right(bits, i)
  BY <1>1, <1>2
<1>4. \A b \in Right(bits, i) : b \in 1..4 /\ b \in {1 + (o - i), 2 + (o - i)}
  BY <1>1, <1>2
<1> QED
  BY <1>3, <1>4 DEF Stands

LEMMA LeftStands ==
  ASSUME NEW bits, NEW o \in 0..3, Stands(bits, o), 4 \notin bits
  PROVE  o + 1 \in 0..3 /\ Stands(Left(bits), o + 1)
<1>1. bits \subseteq 1..4 /\ 1 + o \in bits /\ bits \subseteq {1 + o, 2 + o}
  BY DEF Stands
<1>2. \A b : b \in Left(bits) <=> (\E e \in bits : b = e + 1) /\ b # 5
  BY DEF Left
<1>3. o + 1 \in 0..3
  BY <1>1
<1>4. 1 + (o + 1) \in Left(bits)
  BY <1>1, <1>2, <1>3
<1>5. \A b \in Left(bits) : b \in 1..4 /\ b \in {1 + (o + 1), 2 + (o + 1)}
  BY <1>1, <1>2
<1> QED
  BY <1>3, <1>4, <1>5 DEF Stands

(* The write logic keeps the account: R, a fetch goes to f2; m, the one in f2
   misses; c, buffers the aligner empties. *)
LEMMA WriteLogic ==
  ASSUME NEW w, w.flush = FALSE, NEW o \in 0..3, Stands(fb_write_f1, o),
         w.consume \in 0..2, miss_f2(w) \in BOOLEAN, ifc_fetch_req_f1(w) \in BOOLEAN,
         w.consume + (IF miss_f2(w) THEN 1 ELSE 0) <= o,
         NEW p, p = o - w.consume - (IF miss_f2(w) THEN 1 ELSE 0)
                      + (IF ifc_fetch_req_f1(w) /\ ~miss_f2(w) THEN 1 ELSE 0)
  PROVE  p \in 0..3 /\ Stands(fb_write_ns(w), p)
<1> DEFINE R == ifc_fetch_req_f1(w)
           m == miss_f2(w)
           c == w.consume
           ones == fb_right(w)
           twos == fb_right2(w)
           threes == fb_right3(w)
<1>1. CASE R /\ c = 0 /\ ~m
  <2>1. 4 \notin fb_write_f1
    BY <1>1 DEF ifc_fetch_req_f1, fb_full_f1
  <2>2. fb_write_ns(w) = Left(fb_write_f1)
    BY <1>1 DEF fb_write_ns, fb_left
  <2> QED
    BY <1>1, <2>1, <2>2, LeftStands
<1>2. CASE ~(R /\ c = 0 /\ ~m)
  <2>1. ~fb_left(w)
    BY <1>2 DEF fb_left
  <2>2. fb_write_ns(w) =
          IF ones \/ twos \/ threes
          THEN UNION {IF ones THEN Right(fb_write_f1, 1) ELSE {},
                      IF twos THEN Right(fb_write_f1, 2) ELSE {},
                      IF threes THEN Right(fb_write_f1, 3) ELSE {}}
          ELSE fb_write_f1
    BY <2>1 DEF fb_write_ns
  <2>3. CASE \/ ~m /\ c = 1 /\ R
             \/ ~m /\ c = 0 /\ ~R
             \/ ~m /\ c = 2 /\ ~R
    <3>1. ~ones /\ ~threes /\ (twos <=> c = 2)
      BY <2>3 DEF fb_right, fb_right2, fb_right3
    <3>2. CASE c = 2
      <4>1. p = o - 2
        BY <2>3, <3>2
      <4>2. fb_write_ns(w) = Right(fb_write_f1, 2)
        BY <2>2, <3>1, <3>2
      <4> QED
        BY <2>3, <3>2, <4>1, <4>2, RightStands
    <3>3. CASE c # 2
      <4>1. p = o
        BY <2>3, <3>3
      <4>2. fb_write_ns(w) = fb_write_f1
        BY <2>2, <3>1, <3>3
      <4> QED
        BY <4>1, <4>2
    <3> QED
      BY <3>2, <3>3
  <2>4. CASE \/ m /\ c = 0
             \/ ~m /\ c = 1 /\ ~R
             \/ ~m /\ c = 2 /\ R
    <3>1. ones /\ ~twos /\ ~threes
      <4>1. CASE m /\ c = 0
        BY <4>1 DEF fb_right, fb_right2, fb_right3
      <4>2. CASE ~m /\ c = 1 /\ ~R
        BY <4>2 DEF fb_right, fb_right2, fb_right3
      <4>3. CASE ~m /\ c = 2 /\ R
        BY <4>3 DEF fb_right, fb_right2, fb_right3
      <4> QED
        BY <2>4, <4>1, <4>2, <4>3
    <3>2. fb_write_ns(w) = Right(fb_write_f1, 1)
      BY <2>2, <3>1
    <3>3. p = o - 1 /\ 1 <= o
      BY <2>4
    <3> QED
      BY <3>2, <3>3, RightStands
  <2>5. CASE m /\ c = 1
    <3>1. ~ones /\ twos /\ ~threes
      BY <2>5 DEF fb_right, fb_right2, fb_right3
    <3>2. fb_write_ns(w) = Right(fb_write_f1, 2)
      BY <2>2, <3>1
    <3>3. p = o - 2 /\ 2 <= o
      BY <2>5
    <3> QED
      BY <3>2, <3>3, RightStands
  <2>6. CASE m /\ c = 2
    <3>1. ~ones /\ (twos <=> ~R) /\ threes
      BY <2>6 DEF fb_right, fb_right2, fb_right3
    <3>2. p = 0 /\ o = 3
      BY <2>6
    <3>3. Stands(Right(fb_write_f1, 3), 0) /\ Stands(Right(fb_write_f1, 2), 1)
      BY <3>2, RightStands
    <3>4. 2 + 1 \notin Right(fb_write_f1, 2)
      <4>1. fb_write_f1 \subseteq 1..4
        BY DEF Stands
      <4> QED
        BY <4>1 DEF Right
    <3>5. CASE R
      <4>1. fb_write_ns(w) = Right(fb_write_f1, 3)
        BY <2>2, <3>1, <3>5
      <4> QED
        BY <3>2, <3>3, <4>1
    <3>6. CASE ~R
      <4>1. fb_write_ns(w) = Right(fb_write_f1, 2) \cup Right(fb_write_f1, 3)
        BY <2>2, <3>1, <3>6
      <4> QED
        BY <3>2, <3>3, <3>4, <4>1 DEF Stands
    <3> QED
      BY <3>5, <3>6
  <2> QED
    BY <1>2, <2>3, <2>4, <2>5, <2>6
<1> QED
  BY <1>1, <1>2

(* A clock: what the aligner is given, got, is delivered by the fetch in f2. *)
LEMMA CountStep ==
  ASSUME FrontTypeOK, FetchesAgree, Account, NEW w, NEW rd_hit, Edge(w, rd_hit),
         NEW got, got.n \in Nat, got.n > 0 <=> ic_hit_f2(w.flush, rd_hit),
         AlnClock(w.flush, got)
  PROVE  Account'
<1> DEFINE R == ifc_fetch_req_f1(w)
           m == miss_f2(w)
           c == w.consume
<1>1. PICK k \in 0..3 : Filled(k) /\ k + InF2 <= 3 /\ Stands(fb_write_f1, k + InF2)
  BY DEF Account
<1>2. Signals(w, rd_hit) /\ w.flush \in BOOLEAN
  BY EdgeOf DEF Signals
<1>3. R \in BOOLEAN /\ m \in BOOLEAN
  BY DEF ifc_fetch_req_f1, miss_f2, ifc_fetch_req_f2, FrontTypeOK
<1>4. /\ ifc_f2_raw' = (R /\ ~m)
      /\ fb_write_f1' = fb_write_ns(w)
  BY EdgeOf
<1>5. c = ifu_fb_consume(w.flush) /\ c \in 0..2 /\ c <= k
  BY <1>1, <1>2, ConsumeRange DEF Signals
<1>6. got.n > 0 => ifc_f2_raw /\ ~w.flush
  BY <1>2, HitIsCounted DEF FetchesAgree
<1> DEFINE j == IF w.flush THEN 0 ELSE k - c + (IF got.n > 0 THEN 1 ELSE 0)
<1>7. got.n > 0 => k < 3
  BY <1>1, <1>6 DEF InF2
<1>8. j \in 0..3 /\ Filled(j)'
  BY <1>1, <1>2, <1>5, <1>7, AlignerCounts
<1>9. CASE w.flush
  <2>1. ~m /\ j = 0
    BY <1>9 DEF miss_f2, ifc_fetch_req_f2
  <2>2. InF2' = IF R THEN 1 ELSE 0
    BY <1>4, <2>1 DEF InF2
  <2>3. fb_write_f1' = IF R THEN {2} ELSE {1}
    BY <1>4, <1>9 DEF fb_write_ns
  <2>4. j + InF2' <= 3 /\ Stands(fb_write_f1', j + InF2')
    BY <1>3, <2>1, <2>2, <2>3 DEF Stands
  <2> HIDE DEF j
  <2> QED
    BY <1>8, <2>4 DEF Account, Stands
<1>10. CASE ~w.flush
  <2>1. m <=> ifc_f2_raw /\ ~(got.n > 0)
    BY <1>2, <1>10 DEF miss_f2, ifc_fetch_req_f2, Signals
  <2> DEFINE o == k + InF2
             p == o - c - (IF m THEN 1 ELSE 0) + (IF R /\ ~m THEN 1 ELSE 0)
  <2>2. o \in 0..3 /\ Stands(fb_write_f1, o)
    BY <1>1 DEF InF2
  <2>3. c + (IF m THEN 1 ELSE 0) <= o
    BY <1>5, <2>1 DEF InF2
  <2>4. p \in 0..3 /\ Stands(fb_write_ns(w), p)
    <3> HIDE DEF o
    <3> QED
      BY <1>2, <1>3, <1>5, <1>10, <2>2, <2>3, WriteLogic
  <2>5. j + InF2' = p
    <3>1. InF2' = IF R /\ ~m THEN 1 ELSE 0
      BY <1>4 DEF InF2
    <3>2. InF2 - (IF m THEN 1 ELSE 0) = IF got.n > 0 THEN 1 ELSE 0
      BY <1>6, <2>1 DEF InF2
    <3>3. j = k - c + (InF2 - (IF m THEN 1 ELSE 0))
      BY <1>10, <3>2
    <3> HIDE DEF j, c, m, R
    <3> QED
      BY <1>5, <3>1, <3>3 DEF InF2
  <2> HIDE DEF j, p
  <2> QED
    BY <1>4, <1>8, <2>4, <2>5 DEF Account, Stands
<1> QED
  BY <1>2, <1>9, <1>10

-----------------------------------------------------------------------------
(* The invariant. *)

LEMMA FrontInit == FrontendInit => FrontIInv
<1> SUFFICES ASSUME FrontendInit PROVE FrontIInv
  OBVIOUS
<1>1. 0 \in Addr
  BY AddrAssumption DEF Addr
<1>2. FrontTypeOK
  BY <1>1 DEF FrontendInit, IfcInit, MemInit, FrontTypeOK, MissStates
<1>3. FetchesAgree
  BY DEF FrontendInit, IfcInit, MemInit, FetchesAgree, NoLateFlush, InBoth, LeftOver,
         WaitsForWord, OnlyTheWord, NothingWhenIdle, Bypassing
<1>4. Filled(0) /\ InF2 = 0 /\ Stands(fb_write_f1, 0)
  BY DEF FrontendInit, IfcInit, AlnInit, Filled, EmptyBuffer, InF2, Stands
<1>5. Account
  BY <1>4 DEF Account
<1> QED
  BY <1>2, <1>3, <1>5 DEF FrontIInv

LEMMA ClockKeeps ==
  ASSUME FrontIInv, NEW flush \in BOOLEAN, NEW path \in Addr, NEW noredir \in BOOLEAN,
         noredir => flush, NEW d, Clock(flush, path, noredir, d)
  PROVE  FrontIInv'
<1>1. PICK rd_hit \in RdHits(flush), branch \in Predictions(flush) :
        LET hit == ic_hit_f2(flush, rd_hit)
            w == [flush |-> flush, path |-> path, noredir |-> noredir,
                  kill |-> branch # NoBranch, target |-> branch.to,
                  consume |-> ifu_fb_consume(flush), hit |-> hit,
                  crit_rdy |-> ic_crit_wd_rdy_ff, mb_empty |-> ifu_ic_mb_empty,
                  write_stall |-> ic_write_stall]
            got == [n |-> IF hit THEN ic_fetch_val_f2(branch) ELSE 0, pc |-> ifc_addr_f2,
                    group |-> ic_data_f2]
        IN  /\ AlnClock(flush, got)
            /\ \E stall \in BOOLEAN : IfcClock(w, stall)
            /\ \E arready \in Ready, beat \in {Nothing} \cup Answers :
                 MemClock(flush, rd_hit, f1_raw, ifc_fetch_req_f1(w), ifc_fetch_addr_f1(w),
                          arready, beat)
  BY DEF Clock
<1> DEFINE hit == ic_hit_f2(flush, rd_hit)
           w == [flush |-> flush, path |-> path, noredir |-> noredir,
                 kill |-> branch # NoBranch, target |-> branch.to,
                 consume |-> ifu_fb_consume(flush), hit |-> hit,
                 crit_rdy |-> ic_crit_wd_rdy_ff, mb_empty |-> ifu_ic_mb_empty,
                 write_stall |-> ic_write_stall]
           got == [n |-> IF hit THEN ic_fetch_val_f2(branch) ELSE 0, pc |-> ifc_addr_f2,
                   group |-> ic_data_f2]
<1>2. FrontTypeOK /\ FetchesAgree /\ Account
  BY DEF FrontIInv
<1>3. branch.to \in Addr
  <2>1. branch = NoBranch \/ branch \in Branches
    BY DEF Predictions
  <2> QED
    BY <2>1, FrontendAssumption, AddrAssumption DEF NoBranch, Addr
<1>4. got.n \in Nat /\ (got.n > 0 <=> hit)
  BY <1>2, Delivers
<1>5. Signals(w, rd_hit)
  <2>1. ifu_ic_mb_empty \in BOOLEAN /\ ic_write_stall \in BOOLEAN
    BY DEF ifu_ic_mb_empty, ic_write_stall, miss_pending
  <2> QED
    BY <1>3, <2>1 DEF Signals
<1>6. AlnClock(w.flush, got) /\ w.flush = flush
  BY <1>1
<1>7. Edge(w, rd_hit)
  <2>1. \E stall \in BOOLEAN : IfcClock(w, stall)
    BY <1>1
  <2>2. \E arready, beat :
          MemClock(w.flush, rd_hit, f1_raw, ifc_fetch_req_f1(w), ifc_fetch_addr_f1(w),
                   arready, beat)
    BY <1>1
  <2> HIDE DEF w
  <2> QED
    BY <1>5, <2>1, <2>2 DEF Edge
<1>8. FrontTypeOK' /\ FetchesAgree'
  <2> HIDE DEF w
  <2> QED
    BY <1>2, <1>7, TypeStep, AgreeStep
<1>9. Account'
  <2>1. got.n > 0 <=> ic_hit_f2(w.flush, rd_hit)
    BY <1>4, <1>6
  <2> HIDE DEF w, got
  <2> QED
    BY <1>2, <1>4, <1>6, <1>7, <2>1, CountStep
<1> QED
  BY <1>8, <1>9 DEF FrontIInv

LEMMA FrontStep == FrontIInv /\ [FrontendNext]_feVars => FrontIInv'
<1> SUFFICES ASSUME FrontIInv, [FrontendNext]_feVars PROVE FrontIInv'
  OBVIOUS
<1>1. CASE Run
  <2>1. PICK d \in Decodable : Clock(FALSE, 0, FALSE, d)
    BY <1>1 DEF Run
  <2>2. 0 \in Addr
    BY AddrAssumption DEF Addr
  <2> QED
    BY <2>1, <2>2, ClockKeeps
<1>2. CASE Redirect
  <2>1. PICK path \in FlushPaths : Clock(TRUE, path, FALSE, 0)
    BY <1>2 DEF Redirect
  <2> QED
    BY <2>1, ClockKeeps, FrontendAssumption
<1>3. CASE Halt
  <2>1. PICK path \in FlushPaths : Clock(TRUE, path, TRUE, 0)
    BY <1>3 DEF Halt
  <2> QED
    BY <2>1, ClockKeeps, FrontendAssumption
<1>4. CASE UNCHANGED feVars
  <2>1. FrontTypeOK'
    BY <1>4 DEF FrontIInv, FrontTypeOK, feVars, registers, ifcVars, memVars
  <2>2. FetchesAgree'
    BY <1>4 DEF FrontIInv, FetchesAgree, NoLateFlush, InBoth, LeftOver, WaitsForWord, OnlyTheWord,
                NothingWhenIdle, Bypassing, feVars, registers, ifcVars, memVars
  <2>3. Account'
    BY <1>4 DEF FrontIInv, Account, Filled, InF2, feVars, registers, ifcVars, alnVars
  <2> QED
    BY <2>1, <2>2, <2>3 DEF FrontIInv
<1> QED
  BY <1>1, <1>2, <1>3, <1>4 DEF FrontendNext

LEMMA AccountIsRight == FrontIInv => BuffersCounted /\ outstanding <= 3
<1> SUFFICES ASSUME FrontIInv PROVE BuffersCounted /\ outstanding <= 3
  OBVIOUS
<1>1. PICK k \in 0..3 : Filled(k) /\ k + InF2 <= 3 /\ Stands(fb_write_f1, k + InF2)
  BY DEF FrontIInv, Account
<1>2. outstanding = k + InF2
  BY <1>1, FilledCounts DEF outstanding, InF2
<1> QED
  BY <1>1, <1>2 DEF BuffersCounted, Stands

(* The two halves of the fetch pipe agree: a fetch fetch control has in f2 is in
   f2 of the cache's control too, one that is there alone has missed and cannot
   hit, and while a critical word is waited for only that word is fetched. *)
THEOREM FrontInvariant == FrontendSpec => []FrontIInv
<1>1. FrontendInit => FrontIInv
  BY FrontInit
<1>2. FrontIInv /\ [FrontendNext]_feVars => FrontIInv'
  BY FrontStep
<1> QED
  BY <1>1, <1>2, PTL DEF FrontendSpec

(* The write logic of fb_write_f1 is right but for a second bit: whatever hits,
   misses, is flushed or cut, it stands for the buffers that are taken and the
   fetch that is in f2. *)
THEOREM BuffersAreCounted == FrontendSpec => []BuffersCounted
<1>1. FrontIInv => BuffersCounted
  BY AccountIsRight
<1> QED
  BY <1>1, FrontInvariant, PTL

(* Fetch control never lets a fetch go for which the aligner, when it is answered,
   may have no buffer. *)
THEOREM BufferForEveryFetch == FrontendSpec => [](outstanding <= 3)
<1>1. FrontIInv => outstanding <= 3
  BY AccountIsRight
<1> QED
  BY <1>1, FrontInvariant, PTL

-----------------------------------------------------------------------------
(* What is fetched: the next group of the program, once. *)

(* The fetch in f2 is the next one of the program, and the one in f1 the next
   but one; what is held up, misses or waits is to start again at miss_addr. *)
InPlace ==
  /\ next \in Addr
  /\ ifc_f2_raw => ifc_addr_f2 = next /\ mem_addr_f2 = next
  /\ f1_raw => addr_f1_raw = IF ifc_f2_raw THEN NextGroup(next) ELSE next
StartsAgain ==
  /\ ~ifc_f2_raw /\ ifc_state # "IDLE" => miss_addr = next
  /\ ifc_f2_raw => IF fetch_crit_word_d2 THEN miss_addr = NextGroup(next) ELSE f1_raw

(* The fetch of a critical word: only it is in the pipe while fetch control waits,
   and the word, once it is there, stays until it is fetched. *)
WordIsFetched ==
  /\ ifc_state = "FETCH" => f1_raw
  /\ ifc_state = "WFM" /\ f1_raw => fetch_crit_word_d1
  /\ ifc_state = "WFM" /\ ifc_f2_raw => Bypassing
  /\ miss_a => ~f1_raw
  /\ fetch_crit_word_d1 => /\ f1_raw /\ ~ifc_f2_raw
                           /\ ic_crit_wd_rdy_d1 /\ ~fetch_crit_word_d2
                           /\ ic_crit_wd_rdy_ff \/ miss_state = "IDLE"
  /\ ic_crit_wd_rdy_ff /\ ifc_f2_raw => ic_crit_wd_rdy_d1
  /\ ic_crit_wd_rdy_ff /\ ~Bypassing => miss_state = "IDLE" /\ ~f1_raw /\ ~ifc_f2_raw

FetchRight == InPlace /\ StartsAgain /\ WordIsFetched

(* next goes on behind what is delivered, to the branch's target, or to the flush's. *)
Follows(w, rd_hit, branch) ==
  /\ branch \in Predictions(w.flush)
  /\ w.kill = (branch # NoBranch) /\ w.target = branch.to
  /\ next' = IF w.flush THEN w.path
             ELSE IF ~ic_hit_f2(w.flush, rd_hit) THEN next
             ELSE IF branch # NoBranch THEN branch.to ELSE Plus(next, ic_fetch_val_f2(branch))

-----------------------------------------------------------------------------
(* Arithmetic of addresses. *)

LEMMA DivEuclid ==
  ASSUME NEW n \in Int, NEW k \in Nat \ {0}
  PROVE  n = k * (n \div k) + (n % k) /\ n % k \in 0..k - 1 /\ n \div k \in Int
  OBVIOUS

LEMMA ToTheEnd ==
  ASSUME NEW a \in Addr
  PROVE  Plus(a, PARCELS - Offset(a)) = NextGroup(a)
<1>1. PARCELS \in Nat \ {0} /\ a \in Int
  BY AddrAssumption DEF Addr
<1> DEFINE g == a \div PARCELS
           r == a % PARCELS
<1>2. a = PARCELS * g + r /\ r \in 0..PARCELS - 1 /\ g \in Int
  BY <1>1, DivEuclid
<1> HIDE DEF g, r
<1>3. r \in Int
  BY <1>1, <1>2
<1>4. a + (PARCELS - r) = g * PARCELS + PARCELS
  BY <1>1, <1>2, <1>3
<1>5. Offset(a) = r /\ Group(a) = g
  BY DEF g, r, Offset, Group
<1> QED
  BY <1>4, <1>5 DEF Plus, NextGroup

LEMMA ToTheGroup ==
  ASSUME FrontTypeOK, mem_addr_f2 = next
  PROVE  Plus(next, ic_fetch_val_f2(NoBranch)) = NextGroup(next)
<1>1. next \in Addr
  BY DEF FrontTypeOK
<1>2. PARCELS \in Nat \ {0} /\ Offset(next) \in 0..PARCELS - 1
  BY <1>1, AddrAssumption DEF Offset, Addr
<1>3. ic_fetch_val_f2(NoBranch) = PARCELS - Offset(next)
  BY <1>2 DEF ic_fetch_val_f2, Least
<1> QED
  BY <1>1, <1>3, ToTheEnd

-----------------------------------------------------------------------------
(* A clock of fetch control. *)

LEMMA FetchEdgeOf ==
  ASSUME NEW w, NEW rd_hit, Edge(w, rd_hit)
  PROVE  /\ Signals(w, rd_hit)
         /\ ifc_state' = ifc_next_state(w)
         /\ f1_raw' = ifc_fetch_req_bf(w)
         /\ addr_f1_raw' = IF ifc_fetch_req_bf(w) THEN fetch_addr_bf(w) ELSE addr_f1_raw
         /\ ifc_f2_raw' = (ifc_fetch_req_f1(w) /\ ~miss_f2(w))
         /\ ifc_addr_f2' = IF ifc_fetch_req_f1(w) THEN ifc_fetch_addr_f1(w) ELSE ifc_addr_f2
         /\ miss_addr' = IF missff_en(w) THEN miss_addr_ns(w) ELSE miss_addr
         /\ miss_a' = miss_f2(w)
         /\ ic_crit_wd_rdy_d1' = ic_crit_wd_rdy_mod(w)
         /\ fetch_crit_word_d1' = fetch_crit_word(w)
         /\ fetch_crit_word_d2' = fetch_crit_word_d1
         /\ mem_addr_f2' = IF fetch_f1_f2_c1_clken(f1_raw, w.flush)
                           THEN ifc_fetch_addr_f1(w) ELSE mem_addr_f2
         /\ miss_state' = miss_nxtstate(w.flush, rd_hit)
         /\ ic_crit_wd_rdy_ff' = ic_crit_wd_rdy_in(w.flush)
BY DEF Edge, IfcClock, MemClock

(* A request goes from f1 to f2 only if it is there and nothing holds it up. *)
LEMMA Requested ==
  ASSUME NEW w, NEW rd_hit, Signals(w, rd_hit), ifc_fetch_req_f1(w)
  PROVE  f1_raw /\ ~w.kill /\ ~dma_iccm_stall_any_f /\ ~w.write_stall /\ ~w.noredir
BY DEF ifc_fetch_req_f1

(* A miss lets nothing be looked up in the next clock. *)
LEMMA MissStops ==
  ASSUME FrontTypeOK, FetchesAgree, WordIsFetched, NEW w, NEW rd_hit, Edge(w, rd_hit), miss_f2(w)
  PROVE  ~f1_raw' /\ ~ifc_f2_raw'
<1>1. ifc_f2_raw /\ ~w.flush
  BY DEF miss_f2, ifc_fetch_req_f2
<1>2. Signals(w, rd_hit)
  BY FetchEdgeOf
<1>3. ~fetch_crit_word(w)
  <2>1. ic_crit_wd_rdy_mod(w) => ic_crit_wd_rdy_d1
    BY <1>1, <1>2 DEF WordIsFetched, ic_crit_wd_rdy_mod, Signals
  <2> QED
    BY <2>1 DEF fetch_crit_word
<1>4. ifc_state # "IDLE"
  BY <1>1 DEF FetchesAgree, NothingWhenIdle, InBoth
<1>5. ifc_next_state(w) # "FETCH"
  BY <1>1, <1>4 DEF ifc_next_state, mb_empty_mod, FrontTypeOK, wfm, idle
<1> QED
  BY <1>3, <1>5, FetchEdgeOf DEF ifc_fetch_req_bf

(* Nothing hits, misses or is cut when there is no fetch in f2. *)
LEMMA NothingInF2 ==
  ASSUME FrontTypeOK, LeftOver, NEW w, NEW rd_hit, NEW branch, ~ifc_f2_raw \/ w.flush,
         Signals(w, rd_hit), Follows(w, rd_hit, branch)
  PROVE  ~ic_hit_f2(w.flush, rd_hit) /\ ~miss_f2(w) /\ ~w.kill
<1>1. w.flush \in BOOLEAN
  BY DEF Signals
<1>2. ~ic_hit_f2(w.flush, rd_hit)
  BY <1>1, HitIsCounted
<1>3. ~miss_f2(w) /\ branch = NoBranch
  BY DEF miss_f2, ifc_fetch_req_f2, Follows, Predictions
<1> QED
  BY <1>2, <1>3 DEF Follows

LEMMA NextIsAddr ==
  ASSUME InPlace, NEW w, NEW rd_hit, NEW branch, Signals(w, rd_hit), Follows(w, rd_hit, branch),
         FrontTypeOK
  PROVE  next' \in Addr
<1>1. next \in Addr /\ w.path \in Addr /\ w.target \in Addr
  BY DEF InPlace, Signals
<1>2. mem_addr_f2 = next => Plus(next, ic_fetch_val_f2(NoBranch)) \in Addr
  BY <1>1, ToTheGroup, NextGroupAddr
<1>3. CASE ic_hit_f2(w.flush, rd_hit) /\ branch = NoBranch
  <2>1. ic_fetch_val_f2(NoBranch) \in Int
    <3>1. Offset(mem_addr_f2) \in Int /\ PARCELS \in Nat
      BY AddrAssumption DEF FrontTypeOK, Addr, Offset
    <3> QED
      BY <3>1 DEF ic_fetch_val_f2, Least
  <2>2. Plus(next, ic_fetch_val_f2(NoBranch)) \in Addr
    BY <1>1, <2>1, PlusAddr DEF Addr
  <2> QED
    BY <1>1, <1>3, <2>2 DEF Follows
<1>4. CASE ~(ic_hit_f2(w.flush, rd_hit) /\ branch = NoBranch)
  BY <1>1, <1>4 DEF Follows
<1> QED
  BY <1>3, <1>4

(* A flush: the pipe starts again at its path. *)
LEMMA FlushStarts ==
  ASSUME FrontTypeOK, FetchesAgree, FetchRight, NEW w, NEW rd_hit, NEW branch,
         Edge(w, rd_hit), Follows(w, rd_hit, branch), w.flush
  PROVE  InPlace' /\ StartsAgain'
<1> DEFINE R == ifc_fetch_req_f1(w)
<1>1. Signals(w, rd_hit) /\ next' = w.path /\ next' \in Addr
  BY FetchEdgeOf, NextIsAddr DEF Follows, FetchRight
<1>2. ~miss_f2(w) /\ ~w.kill /\ ~ifc_fetch_req_f2(w) /\ ~miss_f1_held(w)
  BY <1>1, NothingInF2 DEF FetchesAgree, ifc_fetch_req_f2, miss_f1_held
<1>3. ifc_fetch_addr_f1(w) = next'
  BY <1>1 DEF ifc_fetch_addr_f1
<1>4. miss_addr' = fetch_addr_bf(w)
  BY <1>2, FetchEdgeOf DEF missff_en, miss_addr_ns
<1>5. CASE R
  <2>1. f1_raw /\ ~dma_iccm_stall_any_f /\ ~w.write_stall
    BY <1>1, <1>5, Requested
  <2>2. ~miss_sel_flush(w)
    BY <2>1 DEF miss_sel_flush, wfm, idle, FetchRight, WordIsFetched, FetchesAgree,
                NothingWhenIdle
  <2>3. fetch_addr_bf(w) = NextGroup(next')
    BY <1>2, <1>3, <1>5, <2>2 DEF fetch_addr_bf, fetch_addr_next
  <2>4. /\ ifc_f2_raw' /\ ifc_addr_f2' = next' /\ mem_addr_f2' = next'
        /\ f1_raw' => addr_f1_raw' = NextGroup(next')
    BY <1>2, <1>3, <1>5, <2>1, <2>3, FetchEdgeOf DEF fetch_f1_f2_c1_clken
  <2>5. ~fetch_crit_word_d1 => f1_raw'
    <3> SUFFICES ASSUME ~fetch_crit_word_d1 PROVE f1_raw'
      OBVIOUS
    <3>1. ifc_state = "FETCH"
      BY <2>1 DEF FetchRight, WordIsFetched, FetchesAgree, NothingWhenIdle, FrontTypeOK
    <3>2. ~w.noredir
      BY <1>1, <1>5, Requested
    <3>3. ifc_next_state(w) = "FETCH"
      BY <1>2, <3>1, <3>2 DEF ifc_next_state, wfm, idle
    <3> QED
      BY <3>3, FetchEdgeOf DEF ifc_fetch_req_bf
  <2> QED
    BY <1>1, <1>4, <2>3, <2>4, <2>5, FetchEdgeOf DEF InPlace, StartsAgain
<1>6. CASE ~R
  <2>1. ~ifc_f2_raw'
    BY <1>6, FetchEdgeOf
  <2>2. CASE miss_sel_flush(w)
    BY <1>1, <1>4, <2>1, <2>2, FetchEdgeOf DEF fetch_addr_bf, InPlace, StartsAgain
  <2>3. CASE ~miss_sel_flush(w)
    <3>1. ~dma_iccm_stall_any_f /\ ~w.write_stall
      BY <2>3 DEF miss_sel_flush
    <3>2. ~f1_raw => w.noredir
      BY <2>3 DEF miss_sel_flush, wfm, idle, FetchRight, WordIsFetched, FrontTypeOK
    <3>3. w.noredir
      BY <1>2, <1>6, <3>1, <3>2 DEF ifc_fetch_req_f1
    <3>4. ifc_next_state(w) = "IDLE" /\ ~fetch_crit_word(w)
      BY <3>3 DEF ifc_next_state, fetch_crit_word
    <3> QED
      BY <1>1, <2>1, <3>4, FetchEdgeOf DEF InPlace, StartsAgain, ifc_fetch_req_bf
  <2> QED
    BY <2>2, <2>3
<1> QED
  BY <1>5, <1>6

(* No fetch is in f2: what is in f1 goes there, or stays. *)
LEMMA EmptyStarts ==
  ASSUME FrontTypeOK, FetchesAgree, FetchRight, NEW w, NEW rd_hit, NEW branch,
         Edge(w, rd_hit), Follows(w, rd_hit, branch), ~w.flush, ~ifc_f2_raw
  PROVE  InPlace' /\ StartsAgain'
<1> DEFINE R == ifc_fetch_req_f1(w)
<1>1. Signals(w, rd_hit) /\ next' \in Addr
  BY FetchEdgeOf, NextIsAddr DEF FetchRight
<1>2. ~miss_f2(w) /\ ~w.kill /\ ~ifc_fetch_req_f2(w) /\ ~miss_f1_held(w) /\ next' = next
  BY <1>1, NothingInF2 DEF FetchesAgree, ifc_fetch_req_f2, miss_f1_held, Follows
<1>3. ~miss_sel_flush(w)
  BY DEF miss_sel_flush
<1>4. missff_en(w) <=> fetch_crit_word_d1
  BY <1>2 DEF missff_en
<1>5. missff_en(w) => miss_addr' = fetch_addr_bf(w)
  BY <1>2, FetchEdgeOf DEF miss_addr_ns
<1>6. CASE R
  <2>1. f1_raw
    BY <1>1, <1>6, Requested
  <2>2. ifc_fetch_addr_f1(w) = next
    BY <2>1 DEF ifc_fetch_addr_f1, FetchRight, InPlace
  <2>3. fetch_addr_bf(w) = NextGroup(next)
    BY <1>2, <1>3, <1>6, <2>2 DEF fetch_addr_bf, fetch_addr_next
  <2>4. /\ ifc_f2_raw' /\ ifc_addr_f2' = next' /\ mem_addr_f2' = next'
        /\ f1_raw' => addr_f1_raw' = NextGroup(next')
    BY <1>2, <1>6, <2>1, <2>2, <2>3, FetchEdgeOf DEF fetch_f1_f2_c1_clken
  <2>5. ~fetch_crit_word_d1 => f1_raw'
    <3> SUFFICES ASSUME ~fetch_crit_word_d1 PROVE f1_raw'
      OBVIOUS
    <3>1. ifc_state = "FETCH"
      BY <2>1 DEF FetchRight, WordIsFetched, FetchesAgree, NothingWhenIdle, FrontTypeOK
    <3>2. ifc_next_state(w) = "FETCH"
      BY <1>2, <3>1 DEF ifc_next_state, wfm, idle
    <3> QED
      BY <3>2, FetchEdgeOf DEF ifc_fetch_req_bf
  <2>6. /\ fetch_crit_word_d2' = fetch_crit_word_d1
        /\ fetch_crit_word_d1 => miss_addr' = NextGroup(next')
    BY <1>2, <1>4, <1>5, <2>3, FetchEdgeOf
  <2> QED
    BY <1>1, <2>4, <2>5, <2>6 DEF InPlace, StartsAgain
<1>7. CASE ~R
  <2>1. ~ifc_f2_raw' /\ fetch_addr_bf(w) = miss_addr
    BY <1>2, <1>3, <1>7, FetchEdgeOf DEF fetch_addr_bf
  <2>2. miss_addr' = miss_addr
    BY <1>5, <2>1, FetchEdgeOf
  <2>3. CASE ifc_state = "IDLE"
    <3>1. ifc_next_state(w) = "IDLE"
      BY <2>3 DEF ifc_next_state, idle, wfm
    <3>2. ~fetch_crit_word(w)
      BY <1>1, <2>3 DEF fetch_crit_word, ic_crit_wd_rdy_mod, Signals, FetchesAgree,
                        NothingWhenIdle
    <3> QED
      BY <1>1, <2>1, <3>1, <3>2, FetchEdgeOf DEF InPlace, StartsAgain, ifc_fetch_req_bf
  <2>4. CASE ifc_state # "IDLE"
    <3>1. miss_addr = next
      BY <2>4 DEF FetchRight, StartsAgain
    <3> QED
      BY <1>1, <1>2, <2>1, <2>2, <3>1, FetchEdgeOf DEF InPlace, StartsAgain
  <2> QED
    BY <2>3, <2>4
<1> QED
  BY <1>6, <1>7

(* The fetch in f2 is answered: what is in f1 follows it, unless it misses or a
   branch in it is taken. *)
LEMMA AnsweredStarts ==
  ASSUME FrontTypeOK, FetchesAgree, FetchRight, NEW w, NEW rd_hit, NEW branch,
         Edge(w, rd_hit), Follows(w, rd_hit, branch), ~w.flush, ifc_f2_raw
  PROVE  InPlace' /\ StartsAgain'
<1> DEFINE R == ifc_fetch_req_f1(w)
<1>1. Signals(w, rd_hit) /\ next' \in Addr
  BY FetchEdgeOf, NextIsAddr DEF FetchRight
<1>2. ifc_fetch_req_f2(w) /\ ~miss_sel_flush(w) /\ ~fetch_crit_word_d1
  BY DEF ifc_fetch_req_f2, miss_sel_flush, FetchRight, WordIsFetched
<1>3. ifc_addr_f2 = next /\ mem_addr_f2 = next
  BY DEF FetchRight, InPlace
<1>4. miss_f2(w) <=> ~ic_hit_f2(w.flush, rd_hit)
  BY <1>1, <1>2 DEF miss_f2, Signals
<1>5. CASE miss_f2(w)
  <2>1. ~f1_raw' /\ ~ifc_f2_raw'
    BY <1>5, MissStops DEF FetchRight
  <2>2. next' = next
    BY <1>4, <1>5 DEF Follows
  <2>3. miss_addr' = next'
    BY <1>3, <1>5, <2>2, FetchEdgeOf DEF missff_en, miss_addr_ns
  <2> QED
    BY <1>1, <2>1, <2>3 DEF InPlace, StartsAgain
<1>6. CASE ~miss_f2(w) /\ w.kill
  <2>1. ~R
    BY <1>6 DEF ifc_fetch_req_f1
  <2>2. next' = w.target
    BY <1>4, <1>6 DEF Follows
  <2>3. fetch_addr_bf(w) = next'
    BY <1>2, <1>6, <2>2 DEF fetch_addr_bf
  <2>4. miss_addr' = next'
    BY <1>6, <2>3, FetchEdgeOf DEF missff_en, miss_addr_ns
  <2> QED
    BY <1>1, <2>1, <2>3, <2>4, FetchEdgeOf DEF InPlace, StartsAgain
<1>7. CASE ~miss_f2(w) /\ ~w.kill
  <2>1. next' = NextGroup(next)
    <3>1. branch = NoBranch
      BY <1>7 DEF Follows
    <3> QED
      BY <1>3, <1>4, <1>7, <3>1, ToTheGroup DEF Follows
  <2>2. ifc_fetch_addr_f1(w) = addr_f1_raw
    BY DEF ifc_fetch_addr_f1
  <2>3. f1_raw => addr_f1_raw = next'
    BY <2>1 DEF FetchRight, InPlace
  <2>4. ifc_state = "FETCH" => ifc_next_state(w) = "FETCH"
    BY <1>7 DEF ifc_next_state, wfm, idle
  <2>5. CASE R
    <3>1. f1_raw
      BY <1>1, <2>5, Requested
    <3>2. fetch_addr_bf(w) = NextGroup(next')
      BY <1>2, <1>7, <2>2, <2>3, <2>5, <3>1 DEF fetch_addr_bf, fetch_addr_next
    <3>3. /\ ifc_f2_raw' /\ ifc_addr_f2' = next' /\ mem_addr_f2' = next'
          /\ f1_raw' => addr_f1_raw' = NextGroup(next')
      BY <1>7, <2>2, <2>3, <2>5, <3>1, <3>2, FetchEdgeOf DEF fetch_f1_f2_c1_clken
    <3>4. ifc_state = "FETCH"
      BY <1>2, <3>1 DEF FetchRight, WordIsFetched, FetchesAgree, NothingWhenIdle, FrontTypeOK
    <3>5. f1_raw'
      BY <2>4, <3>4, FetchEdgeOf DEF ifc_fetch_req_bf
    <3>6. ~fetch_crit_word_d2'
      BY <1>2, FetchEdgeOf
    <3> QED
      BY <1>1, <3>3, <3>5, <3>6 DEF InPlace, StartsAgain
  <2>6. CASE ~R
    <3>1. ~ifc_f2_raw' /\ fetch_addr_bf(w) = addr_f1_raw
      BY <1>2, <1>7, <2>2, <2>6, FetchEdgeOf DEF fetch_addr_bf
    <3>2. CASE fetch_crit_word_d2
      <4>1. miss_addr' = next'
        BY <1>2, <1>7, <2>1, <3>2, FetchEdgeOf
           DEF missff_en, miss_f1_held, FetchRight, StartsAgain
      <4>2. f1_raw' => f1_raw
        <5> SUFFICES ASSUME f1_raw', ~f1_raw PROVE FALSE
          OBVIOUS
        <5>1. ~fetch_crit_word(w)
          BY <1>1 DEF fetch_crit_word, ic_crit_wd_rdy_mod, Signals, FetchRight, WordIsFetched
        <5>2. ifc_next_state(w) = "FETCH"
          BY <5>1, FetchEdgeOf DEF ifc_fetch_req_bf
        <5>3. ifc_state = "WFM"
          BY DEF FetchRight, WordIsFetched, FetchesAgree, NothingWhenIdle, InBoth, FrontTypeOK
        <5>4. miss_state \in {"CRIT_BYP_OK", "CRIT_WRD_RDY"}
          BY <5>3 DEF FetchRight, WordIsFetched, Bypassing
        <5>5. ~ifu_ic_mb_empty
          BY <5>4 DEF ifu_ic_mb_empty, miss_pending
        <5> QED
          BY <1>1, <5>2, <5>3, <5>5 DEF ifc_next_state, mb_empty_mod, wfm, idle, Signals
      <4> QED
        BY <1>1, <2>3, <3>1, <4>1, <4>2, FetchEdgeOf DEF InPlace, StartsAgain
    <3>3. CASE ~fetch_crit_word_d2
      <4>1. addr_f1_raw = next'
        BY <2>3, <3>3 DEF FetchRight, StartsAgain
      <4>2. miss_addr' = next'
        BY <1>2, <1>7, <2>2, <2>6, <3>3, <4>1, FetchEdgeOf
           DEF missff_en, miss_f1_held, miss_addr_ns
      <4> QED
        BY <1>1, <3>1, <4>1, <4>2, FetchEdgeOf DEF InPlace, StartsAgain
    <3> QED
      BY <3>2, <3>3
  <2> QED
    BY <2>5, <2>6
<1> QED
  BY <1>5, <1>6, <1>7

(* A word that is there is not completed a second time. *)
WordOnce == ic_crit_wd_rdy_ff /\ Bypassing => ~ic_crit_wd_complete

(* While fetch control waits for the cache it goes on waiting, unless it is flushed. *)
LEMMA WaitGoesOn ==
  ASSUME FetchesAgree, NEW w, NEW rd_hit, Edge(w, rd_hit), Bypassing, ~w.flush
  PROVE  ifc_next_state(w) = "WFM"
<1>1. ifc_state = "WFM"
  BY DEF FetchesAgree, WaitsForWord
<1>2. ~ifu_ic_mb_empty
  BY DEF Bypassing, ifu_ic_mb_empty, miss_pending
<1>3. ~mb_empty_mod(w)
  BY <1>2, FetchEdgeOf DEF mb_empty_mod, Signals
<1> QED
  BY <1>1, <1>3 DEF ifc_next_state, wfm, idle

(* The request for the critical word: nothing else is in the pipe, and it goes on
   to be there. *)
LEMMA WordSentStep ==
  ASSUME FrontTypeOK, FetchesAgree, WordIsFetched, NEW w, NEW rd_hit, Edge(w, rd_hit),
         fetch_crit_word(w)
  PROVE  /\ f1_raw' /\ ~ifc_f2_raw'
         /\ ic_crit_wd_rdy_d1' /\ ~fetch_crit_word_d2'
         /\ ic_crit_wd_rdy_ff' \/ miss_state' = "IDLE"
<1>1. Signals(w, rd_hit)
  BY FetchEdgeOf
<1>2. /\ ic_crit_wd_rdy_mod(w) /\ ic_crit_wd_rdy_ff
      /\ ~ic_crit_wd_rdy_d1 /\ ~w.flush /\ ~ic_write_stall
  BY <1>1 DEF fetch_crit_word, ic_crit_wd_rdy_mod, Signals
<1>3. ~fetch_crit_word_d1 /\ ~ifc_f2_raw
  BY <1>2 DEF WordIsFetched
<1>4. ~mem_f2_raw
  BY <1>2, <1>3 DEF FetchesAgree, LeftOver
<1>5. ~f1_raw
  BY <1>2 DEF WordIsFetched, FetchesAgree, OnlyTheWord
<1>6. ic_crit_wd_rdy_ff' \/ miss_state' = "IDLE"
  <2>1. CASE Bypassing
    <3>1. crit_wd_byp_ok_ff
      BY <2>1 DEF Bypassing, crit_wd_byp_ok_ff, FetchesAgree, NoLateFlush
    <3>2. ~fetch_req_icache_f2(w.flush)
      BY <1>4 DEF fetch_req_icache_f2, mem_fetch_req_f2
    <3> QED
      BY <1>2, <3>1, <3>2, FetchEdgeOf DEF ic_crit_wd_rdy_in
  <2>2. CASE ~Bypassing
    <3>1. miss_state = "IDLE"
      BY <1>2, <2>2 DEF WordIsFetched
    <3>2. ~ic_act_miss_f2(w.flush, rd_hit)
      BY <1>4 DEF ic_act_miss_f2, fetch_req_icache_f2, mem_fetch_req_f2
    <3> QED
      BY <3>1, <3>2, FetchEdgeOf DEF miss_nxtstate
  <2> QED
    BY <2>1, <2>2
<1>7. ~ifc_fetch_req_f1(w)
  BY <1>5 DEF ifc_fetch_req_f1
<1> QED
  BY <1>2, <1>3, <1>6, <1>7, FetchEdgeOf DEF ifc_fetch_req_bf

(* The line is complete before its word was fetched: the cache has it now. *)
LEMMA LineComes ==
  ASSUME FrontTypeOK, FetchesAgree, WordIsFetched, WordOnce, NEW w, NEW rd_hit, Edge(w, rd_hit),
         ic_crit_wd_rdy_ff', ~Bypassing'
  PROVE  miss_state' = "IDLE" /\ ~f1_raw' /\ ~ifc_f2_raw'
<1>1. Signals(w, rd_hit) /\ w.flush \in BOOLEAN
  BY FetchEdgeOf DEF Signals
<1>2. ic_crit_wd_rdy_in(w.flush)
  BY FetchEdgeOf
<1>3. ~w.flush /\ Bypassing
  BY <1>2 DEF ic_crit_wd_rdy_in, crit_wd_byp_ok_ff, Bypassing
<1>4. ~ic_byp_hit_f2(w.flush)
  BY <1>2, <1>3 DEF ic_byp_hit_f2, ic_crit_wd_rdy_in, WordOnce
<1>5. miss_state # "CRIT_WRD_RDY"
  <2> SUFFICES ASSUME miss_state = "CRIT_WRD_RDY" PROVE FALSE
    OBVIOUS
  <2>1. ~flush_final_f2
    BY DEF FetchesAgree, NoLateFlush
  <2> QED
    BY <1>3, <1>4, <2>1, FetchEdgeOf DEF miss_nxtstate, Bypassing
<1>6. miss_state = "CRIT_BYP_OK"
  BY <1>3, <1>5 DEF Bypassing
<1>7. line_done
  BY <1>3, <1>4, <1>6, FetchEdgeOf DEF miss_nxtstate, Bypassing
<1>8. miss_state' = "IDLE"
  BY <1>3, <1>4, <1>6, <1>7, FetchEdgeOf DEF miss_nxtstate, Bypassing
<1>9. ic_write_stall
  BY <1>7 DEF line_done, ic_write_stall
<1>10. ~ifc_fetch_req_f1(w) /\ ~fetch_crit_word(w)
  BY <1>1, <1>9 DEF ifc_fetch_req_f1, fetch_crit_word, Signals
<1>11. ifc_next_state(w) # "FETCH"
  BY <1>3, WaitGoesOn
<1> QED
  BY <1>8, <1>10, <1>11, FetchEdgeOf DEF ifc_fetch_req_bf

(* Fetch control waits with a fetch in f2: it is the critical word's. *)
LEMMA WordInF2 ==
  ASSUME FrontTypeOK, FetchesAgree, WordIsFetched, NEW w, NEW rd_hit, Edge(w, rd_hit),
         ifc_state' = "WFM", ifc_f2_raw'
  PROVE  Bypassing'
<1>1. Signals(w, rd_hit) /\ w.flush \in BOOLEAN
  BY FetchEdgeOf DEF Signals
<1>2. ifc_fetch_req_f1(w) /\ ~miss_f2(w)
  BY FetchEdgeOf
<1>3. f1_raw /\ ~dma_iccm_stall_any_f /\ ~ic_write_stall
  BY <1>1, <1>2, Requested DEF Signals
<1>4. ~miss_a
  BY <1>3 DEF WordIsFetched
<1>5. ifc_next_state(w) = "WFM"
  BY FetchEdgeOf
<1>6. ifc_state = "WFM" /\ ~mb_empty_mod(w)
  BY <1>2, <1>5 DEF ifc_next_state, FrontTypeOK, wfm, idle
<1>7. ~w.flush /\ ~ifu_ic_mb_empty
  BY <1>1, <1>2, <1>3, <1>4, <1>6 DEF mb_empty_mod, Signals
<1>8. fetch_crit_word_d1 /\ ~ifc_f2_raw
  BY <1>3, <1>6 DEF WordIsFetched
<1>9. miss_state # "IDLE"
  BY <1>7 DEF ifu_ic_mb_empty, miss_pending
<1>10. ic_crit_wd_rdy_ff /\ Bypassing
  BY <1>8, <1>9 DEF WordIsFetched
<1>11. ~mem_f2_raw
  BY <1>8, <1>10 DEF FetchesAgree, LeftOver
<1>12. ~ic_byp_hit_f2(w.flush)
  BY <1>11 DEF ic_byp_hit_f2, fetch_req_icache_f2, mem_fetch_req_f2
<1>13. ~line_done
  BY <1>3 DEF line_done, ic_write_stall
<1>14. miss_state = "CRIT_WRD_RDY" => ~flush_final_f2
  BY DEF FetchesAgree, NoLateFlush
<1> QED
  BY <1>7, <1>10, <1>12, <1>13, <1>14, FetchEdgeOf DEF miss_nxtstate, Bypassing

LEMMA WordStep ==
  ASSUME FrontTypeOK, FetchesAgree, WordIsFetched, WordOnce, NEW w, NEW rd_hit, Edge(w, rd_hit)
  PROVE  WordIsFetched'
<1>1. ifc_state' = "FETCH" => f1_raw'
  BY FetchEdgeOf DEF ifc_fetch_req_bf
<1>2. ifc_state' = "WFM" /\ f1_raw' => fetch_crit_word_d1'
  BY FetchEdgeOf DEF ifc_fetch_req_bf
<1>3. ifc_state' = "WFM" /\ ifc_f2_raw' => Bypassing'
  BY WordInF2
<1>4. miss_a' => ~f1_raw'
  BY FetchEdgeOf, MissStops
<1>5. fetch_crit_word_d1' => /\ f1_raw' /\ ~ifc_f2_raw'
                             /\ ic_crit_wd_rdy_d1' /\ ~fetch_crit_word_d2'
                             /\ ic_crit_wd_rdy_ff' \/ miss_state' = "IDLE"
  BY FetchEdgeOf, WordSentStep
<1>6. ic_crit_wd_rdy_ff' /\ ifc_f2_raw' => ic_crit_wd_rdy_d1'
  <2> SUFFICES ASSUME ic_crit_wd_rdy_ff', ifc_f2_raw' PROVE ic_crit_wd_rdy_d1'
    OBVIOUS
  <2>1. Signals(w, rd_hit) /\ f1_raw
    BY FetchEdgeOf, Requested
  <2>2. Bypassing
    BY FetchEdgeOf DEF ic_crit_wd_rdy_in, crit_wd_byp_ok_ff, Bypassing
  <2>3. fetch_crit_word_d1
    BY <2>1, <2>2 DEF FetchesAgree, WaitsForWord, WordIsFetched
  <2>4. ic_crit_wd_rdy_ff /\ ~fetch_crit_word_d2
    BY <2>2, <2>3 DEF WordIsFetched, Bypassing
  <2> QED
    BY <2>1, <2>4, FetchEdgeOf DEF ic_crit_wd_rdy_mod, Signals
<1>7. ic_crit_wd_rdy_ff' /\ ~Bypassing' => miss_state' = "IDLE" /\ ~f1_raw' /\ ~ifc_f2_raw'
  BY LineComes
<1> QED
  BY <1>1, <1>2, <1>3, <1>4, <1>5, <1>6, <1>7 DEF WordIsFetched

LEMMA FetchStep ==
  ASSUME FrontTypeOK, FetchesAgree, FetchRight, WordOnce, NEW w, NEW rd_hit, NEW branch,
         Edge(w, rd_hit), Follows(w, rd_hit, branch)
  PROVE  FetchRight'
<1>1. InPlace' /\ StartsAgain'
  BY FlushStarts, EmptyStarts, AnsweredStarts
<1> QED
  BY <1>1, WordStep DEF FetchRight

-----------------------------------------------------------------------------
(* The line of a miss: beats that are owed, that came, and the two that are kept. *)

(* The beats of the missing line in the order the bus is asked for them, how many
   it was asked for, and which these are. *)
Beat(i) == Line(imb_ff) * BEATS + ((imb_half(0) + i) % BEATS)
firstCount == IF uncacheable_miss_ff THEN BEATS - 2 ELSE 0
asked == (IF ic_req THEN cmd_beat_count ELSE BEATS) - firstCount
Asked == {Beat(i) : i \in 0..asked - 1}

Arriving == miss_state \in {"CRIT_BYP_OK", "MISS_WAIT", "HIT_U_MISS", "SCND_MISS"}
Counted ==
  /\ ic_req => /\ cmd_beat_count \in firstCount..BEATS - 1
               /\ rd_addr_count = (imb_half(0) + asked) % BEATS
  /\ owed \subseteq Asked /\ rbeat \in Asked \cup {Nothing} /\ rbeat \notin owed
  /\ data_beat_count \in Nat /\ data_beat_count + 1 <= BEATS - firstCount
  /\ IsFiniteSet(owed)
  /\ Cardinality(owed) + (IF rbeat = Nothing THEN 0 ELSE 1) + data_beat_count = asked
HalvesCame ==
  miss_state = "CRIT_BYP_OK" =>
    \A h \in 0..1 : byp[h] # Nothing => byp[h] \in Asked /\ byp[h] \notin owed /\ byp[h] # rbeat
BusRight ==
  /\ Arriving => Counted /\ HalvesCame
  /\ ~Arriving => owed = {} /\ rbeat = Nothing /\ ~ic_req /\ data_beat_count = 0

(* The address of the miss is that of the fetch that waits for it, and the two
   halves that are kept aside are those of its group. *)
MissRight ==
  /\ imb_ff \in Addr
  /\ mem_f2_raw /\ ~miss_pending => imb_ff = mem_addr_f2
  /\ Bypassing => /\ imb_ff = next /\ Group(imb_ff) \notin Iccm
                  /\ \A h \in 0..1 : byp[h] \in {Nothing, 2 * Group(imb_ff) + h}
  /\ ic_crit_wd_rdy_ff => /\ Group(next) \notin Iccm
                          /\ \A h \in 0..1 : byp[h] = 2 * Group(next) + h

-----------------------------------------------------------------------------
(* Arithmetic of beats. *)

LEMMA DivIs ==
  ASSUME NEW k \in Nat \ {0}, NEW a \in Int, NEW r \in 0..k - 1
  PROVE  (a * k + r) \div k = a /\ (a * k + r) % k = r
<1> DEFINE n == a * k + r
           b == n \div k
           s == n % k
<1>1. n \in Int
  OBVIOUS
<1>2. n = k * b + s /\ s \in 0..k - 1 /\ b \in Int
  BY <1>1, DivEuclid
<1>3. ASSUME NEW c \in Int, NEW d \in Int, c >= d + 1 PROVE c * k >= d * k + k
  <2>1. PICK e \in Nat : c = d + 1 + e
    <3>1. c - d - 1 \in Nat /\ c = d + 1 + (c - d - 1)
      BY <1>3
    <3> QED
      BY <3>1
  <2>2. c * k = d * k + k + e * k /\ e * k >= 0
    BY <2>1
  <2>3. c * k \in Int /\ d * k \in Int /\ e * k \in Int
    OBVIOUS
  <2> QED
    BY <2>2, <2>3
<1>4. a * k \in Int /\ b * k \in Int /\ k * b = b * k
  BY <1>2
<1>5. a * k + r = b * k + s
  BY <1>2, <1>4
<1> HIDE DEF n, b, s
<1>6. ~(a >= b + 1)
  BY <1>2, <1>3, <1>4, <1>5
<1>7. ~(b >= a + 1)
  BY <1>2, <1>3, <1>4, <1>5
<1>8. a = b
  BY <1>2, <1>6, <1>7
<1>9. r = s
  BY <1>2, <1>4, <1>5, <1>8
<1> QED
  BY <1>8, <1>9 DEF b, n, s

LEMMA Wraps ==
  ASSUME NEW k \in Nat \ {0}, NEW a \in 0..2 * k - 1
  PROVE  a % k = IF a < k THEN a ELSE a - k
<1>1. CASE a < k
  <2>1. a = 0 * k + a /\ a \in 0..k - 1
    BY <1>1
  <2>2. (0 * k + a) % k = a
    BY <2>1, DivIs
  <2> QED
    BY <1>1, <2>1, <2>2
<1>2. CASE ~(a < k)
  <2>1. a = 1 * k + (a - k) /\ a - k \in 0..k - 1
    BY <1>2
  <2>2. (1 * k + (a - k)) % k = a - k
    BY <2>1, DivIs
  <2> QED
    BY <1>2, <2>1, <2>2
<1> QED
  BY <1>1, <1>2

LEMMA GroupNat ==
  ASSUME NEW a \in Addr
  PROVE  Group(a) \in Nat /\ Line(a) \in Nat /\ Group(a) % LINE_GROUPS \in 0..LINE_GROUPS - 1
         /\ Group(a) = LINE_GROUPS * Line(a) + (Group(a) % LINE_GROUPS)
<1>1. a \in Nat /\ PARCELS \in Nat \ {0} /\ LINE_GROUPS \in Nat \ {0}
  BY AddrAssumption DEF Addr
<1>2. Group(a) \in Nat
  BY <1>1 DEF Group
<1>3. Line(a) \in Nat
  BY <1>1, <1>2 DEF Line
<1> DEFINE g == Group(a)
<1> HIDE DEF g
<1>4. g \in Int
  BY <1>2 DEF g
<1>5. /\ g = LINE_GROUPS * (g \div LINE_GROUPS) + (g % LINE_GROUPS)
      /\ g % LINE_GROUPS \in 0..LINE_GROUPS - 1
  BY <1>1, <1>4, DivEuclid
<1> QED
  BY <1>2, <1>3, <1>5 DEF g, Line

LEMMA BeatsNat == BEATS \in Nat \ {0} /\ BEATS >= 2 /\ BEATS = 2 * LINE_GROUPS
BY AddrAssumption DEF BEATS

LEMMA HalfRange ==
  ASSUME imb_ff \in Addr, NEW h \in 0..1
  PROVE  imb_half(h) \in 0..BEATS - 1 /\ imb_half(h) = imb_half(0) + h
<1> DEFINE m == Group(imb_ff) % LINE_GROUPS
<1>1. m \in 0..LINE_GROUPS - 1
  BY GroupNat
<1>2. imb_half(h) = 2 * m + h /\ imb_half(0) = 2 * m + 0
  BY DEF imb_half
<1>3. LINE_GROUPS \in Nat
  BY AddrAssumption
<1> HIDE DEF m
<1> QED
  BY <1>1, <1>2, <1>3, BeatsNat

LEMMA BeatIs ==
  ASSUME imb_ff \in Addr, NEW i \in 0..BEATS - 1
  PROVE  /\ Beat(i) \in Nat
         /\ Beat(i) % BEATS = IF imb_half(0) + i < BEATS THEN imb_half(0) + i
                              ELSE imb_half(0) + i - BEATS
         /\ Beat(i) = Line(imb_ff) * BEATS + (Beat(i) % BEATS)
<1>1. BEATS \in Nat \ {0} /\ imb_half(0) \in 0..BEATS - 1 /\ Line(imb_ff) \in Nat
  BY BeatsNat, HalfRange, GroupNat
<1> DEFINE x == imb_half(0) + i
           y == x % BEATS
<1>2. x \in 0..2 * BEATS - 1
  BY <1>1
<1>3. y = (IF x < BEATS THEN x ELSE x - BEATS) /\ y \in 0..BEATS - 1
  <2>1. x % BEATS = IF x < BEATS THEN x ELSE x - BEATS
    <3> HIDE DEF x
    <3> QED
      BY <1>1, <1>2, Wraps
  <2> QED
    BY <1>1, <1>2, <2>1
<1>4. Beat(i) = Line(imb_ff) * BEATS + y
  BY DEF Beat
<1> HIDE DEF y
<1>5. (Line(imb_ff) * BEATS + y) % BEATS = y
  <2>1. Line(imb_ff) \in Int /\ y \in 0..BEATS - 1
    BY <1>1, <1>3
  <2> QED
    BY <1>1, <2>1, DivIs
<1>6. Line(imb_ff) * BEATS \in Nat
  BY <1>1
<1> QED
  BY <1>1, <1>3, <1>4, <1>5, <1>6

LEMMA BeatsDiffer ==
  ASSUME imb_ff \in Addr, NEW i \in 0..BEATS - 1, NEW j \in 0..BEATS - 1, Beat(i) = Beat(j)
  PROVE  i = j
<1>1. BEATS \in Nat \ {0} /\ imb_half(0) \in 0..BEATS - 1
  BY BeatsNat, HalfRange
<1> QED
  BY <1>1, BeatIs

(* A beat with the tag of a half of the missing group is that half. *)
LEMMA TagIsHalf ==
  ASSUME imb_ff \in Addr, NEW i \in 0..BEATS - 1, NEW h \in 0..1,
         Beat(i) % BEATS = imb_half(h)
  PROVE  Beat(i) = 2 * Group(imb_ff) + h
<1> DEFINE g == Group(imb_ff)
           l == Line(imb_ff)
           m == g % LINE_GROUPS
<1>1. g \in Nat /\ l \in Nat /\ m \in 0..LINE_GROUPS - 1 /\ g = LINE_GROUPS * l + m
  BY GroupNat
<1>2. Beat(i) = l * BEATS + imb_half(h)
  BY BeatIs
<1>3. imb_half(h) = 2 * m + h
  BY DEF imb_half
<1>4. BEATS = 2 * LINE_GROUPS /\ LINE_GROUPS \in Nat
  BY BeatsNat, AddrAssumption
<1> HIDE DEF g, l, m
<1>5. l * BEATS = 2 * (LINE_GROUPS * l) /\ LINE_GROUPS * l \in Nat
  BY <1>1, <1>4
<1>6. 2 * g + h = 2 * (LINE_GROUPS * l) + (2 * m + h)
  BY <1>1, <1>5
<1> QED
  BY <1>2, <1>3, <1>5, <1>6 DEF g

LEMMA HalfBeat ==
  ASSUME imb_ff \in Addr, NEW h \in 0..1
  PROVE  Beat(h) = 2 * Group(imb_ff) + h
<1>1. h \in 0..BEATS - 1 /\ imb_half(h) \in 0..BEATS - 1 /\ imb_half(h) = imb_half(0) + h
  BY HalfRange, BeatsNat
<1>2. Beat(h) % BEATS = imb_half(h)
  <2>1. imb_half(0) + h < BEATS
    BY <1>1, BeatsNat
  <2> QED
    BY <1>1, <2>1, BeatIs
<1> QED
  BY <1>1, <1>2, TagIsHalf

LEMMA CountRange ==
  ASSUME BusRight, Arriving
  PROVE  /\ firstCount \in Nat /\ firstCount \in {0, BEATS - 2}
         /\ asked \in 0..BEATS - firstCount /\ asked <= BEATS
<1>1. BEATS \in Nat \ {0} /\ BEATS >= 2
  BY BeatsNat
<1>2. firstCount \in {0, BEATS - 2}
  BY DEF firstCount
<1>3. ic_req => cmd_beat_count \in firstCount..BEATS - 1
  BY DEF BusRight, Counted
<1> HIDE DEF firstCount
<1> QED
  BY <1>1, <1>2, <1>3 DEF asked

LEMMA AskedBeat ==
  ASSUME BusRight, Arriving, imb_ff \in Addr, NEW b \in Asked
  PROVE  \E i \in 0..BEATS - 1 : i < asked /\ b = Beat(i) /\ b \in Nat
<1>1. PICK i \in 0..asked - 1 : b = Beat(i)
  BY DEF Asked
<1>2. i \in 0..BEATS - 1 /\ i < asked
  BY CountRange, BeatsNat
<1>3. Beat(i) \in Nat
  BY <1>2, BeatIs
<1> QED
  BY <1>1, <1>2, <1>3

(* A half that is kept is that half of the missing group. *)
LEMMA WritesHalf ==
  ASSUME BusRight, MissRight, NEW h \in 0..1, write_byp(h)
  PROVE  Arriving /\ rbeat = 2 * Group(imb_ff) + h
<1>1. rbeat # Nothing /\ rbeat % BEATS = imb_half(h)
  BY DEF write_byp, ifu_wr_en_new
<1>2. Arriving
  BY <1>1 DEF BusRight
<1>3. rbeat \in Asked /\ imb_ff \in Addr
  BY <1>1, <1>2 DEF BusRight, Counted, MissRight
<1>4. PICK i \in 0..BEATS - 1 : rbeat = Beat(i)
  BY <1>2, <1>3, AskedBeat
<1> QED
  BY <1>1, <1>2, <1>3, <1>4, TagIsHalf

LEMMA KeptHalves ==
  ASSUME MissRight, NEW h \in 0..1
  PROVE  ic_crit_wd_rdy_ff /\ Bypassing => byp[h] = 2 * Group(imb_ff) + h /\ byp[h] # Nothing
<1>1. imb_ff \in Addr
  BY DEF MissRight
<1>2. Group(imb_ff) \in Nat
  BY <1>1, GroupNat
<1> QED
  BY <1>2 DEF MissRight, Nothing

LEMMA CompletesOnce == BusRight /\ MissRight => WordOnce
<1> SUFFICES ASSUME BusRight, MissRight, ic_crit_wd_rdy_ff, Bypassing, ic_crit_wd_complete
             PROVE  FALSE
  BY DEF WordOnce
<1>1. PICK h \in 0..1 : write_byp(h)
  BY DEF ic_crit_wd_complete
<1>2. Arriving /\ rbeat = 2 * Group(imb_ff) + h
  BY <1>1, WritesHalf
<1>3. byp[h] = 2 * Group(imb_ff) + h /\ byp[h] # Nothing
  BY KeptHalves
<1>4. miss_state = "CRIT_BYP_OK"
  BY <1>2 DEF Arriving, Bypassing
<1> QED
  BY <1>2, <1>3, <1>4 DEF BusRight, HalvesCame

(* The two beats of an uncacheable miss are the halves of its group: when both are
   there its line is done. *)
LEMMA NotBothYet ==
  ASSUME BusRight, MissRight, miss_state = "CRIT_BYP_OK", uncacheable_miss_ff
  PROVE  ~ic_crit_wd_rdy_ff
<1> SUFFICES ASSUME ic_crit_wd_rdy_ff PROVE FALSE
  OBVIOUS
<1>1. Arriving /\ Bypassing /\ imb_ff \in Addr
  BY DEF Arriving, Bypassing, MissRight
<1>2. \A h \in 0..1 : byp[h] = Beat(h) /\ byp[h] # Nothing
  BY <1>1, KeptHalves, HalfBeat
<1>3. Counted /\ HalvesCame
  BY <1>1 DEF BusRight
<1>4. \A h \in 0..1 : Beat(h) \in Asked /\ Beat(h) \notin owed /\ Beat(h) # rbeat
  BY <1>2, <1>3 DEF HalvesCame
<1>5. asked \in 0..2
  <2>1. firstCount = BEATS - 2 /\ BEATS \in Nat
    BY BeatsNat DEF firstCount
  <2> QED
    BY <1>1, <2>1, CountRange
<1>6. \A b \in Asked : b \in {Beat(0), Beat(1)}
  BY <1>5 DEF Asked
<1>7. owed = {} /\ rbeat = Nothing
  BY <1>3, <1>4, <1>6 DEF Counted
<1>8. Cardinality(owed) = 0
  BY <1>7, FS_EmptySet
<1>9. asked = 2
  <2>1. PICK i \in 0..BEATS - 1 : i < asked /\ Beat(1) = Beat(i)
    BY <1>1, <1>4, AskedBeat
  <2>2. i = 1
    BY <1>1, <2>1, BeatsDiffer, BeatsNat
  <2> QED
    BY <1>5, <2>1, <2>2
<1>10. data_beat_count \in Nat /\ data_beat_count + 1 <= 2
  <2>1. BEATS - firstCount = 2
    BY BeatsNat DEF firstCount
  <2> QED
    BY <1>3, <2>1 DEF Counted
<1>11. Cardinality(owed) + 0 + data_beat_count = asked
  BY <1>3, <1>7 DEF Counted
<1> QED
  BY <1>8, <1>9, <1>10, <1>11

-----------------------------------------------------------------------------
(* A clock of the miss. *)

LEMMA MissEdgeOf ==
  ASSUME NEW w, NEW rd_hit, Edge(w, rd_hit)
  PROVE  /\ imb_ff' = IF fetch_f1_f2_c1_clken(f1_raw, w.flush) /\ ~sel_hold_imb(w.flush, rd_hit)
                      THEN ifc_fetch_addr_f1(w) ELSE imb_ff
         /\ \A h \in 0..1 : byp'[h] = IF write_byp(h) THEN rbeat
                                      ELSE IF ic_act_miss_f2(w.flush, rd_hit) THEN Nothing ELSE byp[h]
BY DEF Edge, MemClock

(* A miss that is under way keeps its address. *)
LEMMA MissHeld ==
  ASSUME FrontTypeOK, NEW w, NEW rd_hit, Edge(w, rd_hit), miss_state' # "IDLE"
  PROVE  imb_ff' = imb_ff
<1>1. miss_nxtstate(w.flush, rd_hit) # "IDLE"
  BY FetchEdgeOf
<1>2. sel_hold_imb(w.flush, rd_hit)
  <2>1. CASE miss_state = "IDLE"
    BY <1>1, <2>1 DEF miss_nxtstate, sel_hold_imb
  <2>2. CASE miss_state # "IDLE" /\ line_done
    BY <1>1, <2>2 DEF FrontTypeOK, MissStates, miss_nxtstate, sel_hold_imb, miss_pending
  <2>3. CASE miss_state # "IDLE" /\ ~line_done
    BY <1>1, <2>3 DEF FrontTypeOK, MissStates, miss_nxtstate, sel_hold_imb, miss_pending
  <2> QED
    BY <2>1, <2>2, <2>3
<1> QED
  BY <1>2, MissEdgeOf

(* Nothing hits while the word is waited for, but the word. *)
LEMMA OnlyBypass ==
  ASSUME NEW flush, NEW rd_hit, Bypassing, ic_hit_f2(flush, rd_hit)
  PROVE  ic_byp_hit_f2(flush)
BY DEF Bypassing, ic_hit_f2, ic_act_hit_f2, ic_iccm_hit_f2, lookup_ok, miss_pending

LEMMA MissLookedUp ==
  ASSUME FrontTypeOK, FetchesAgree, NEW w, NEW rd_hit, Edge(w, rd_hit),
         mem_f2_raw', miss_state' = "IDLE"
  PROVE  imb_ff' = mem_addr_f2'
<1>1. Signals(w, rd_hit) /\ w.flush \in BOOLEAN
  BY FetchEdgeOf DEF Signals
<1>2. f1_raw
  <2>1. ifc_fetch_req_f1(w)
    BY EdgeOf
  <2> QED
    BY <1>1, <2>1, Requested
<1>3. fetch_f1_f2_c1_clken(f1_raw, w.flush)
  BY <1>2 DEF fetch_f1_f2_c1_clken
<1>4. Bypassing => ~ic_byp_hit_f2(w.flush)
  BY <1>1, <1>2 DEF FetchesAgree, OnlyTheWord, LeftOver, ic_byp_hit_f2, fetch_req_icache_f2,
                    mem_fetch_req_f2
<1>5. miss_nxtstate(w.flush, rd_hit) = "IDLE"
  BY FetchEdgeOf
<1>6. ~sel_hold_imb(w.flush, rd_hit)
  <2>1. ~ic_act_miss_f2(w.flush, rd_hit)
    BY <1>5 DEF miss_nxtstate, ic_act_miss_f2, miss_pending
  <2>2. miss_pending => line_done \/ (miss_state = "CRIT_WRD_RDY" /\ w.flush)
    BY <1>1, <1>4, <1>5 DEF FrontTypeOK, MissStates, miss_nxtstate, miss_pending, Bypassing,
                            FetchesAgree, NoLateFlush
  <2> QED
    BY <1>5, <2>1, <2>2 DEF sel_hold_imb
<1> QED
  BY <1>3, <1>6, MissEdgeOf, FetchEdgeOf

(* What the fetch that waits for its word is: the next one. *)
LEMMA MissIsNext ==
  ASSUME FrontTypeOK, FetchesAgree, InPlace, MissRight, BusRight, NEW w, NEW rd_hit, NEW branch,
         Edge(w, rd_hit), Follows(w, rd_hit, branch), Bypassing'
  PROVE  /\ imb_ff' = next' /\ Group(imb_ff') \notin Iccm
         /\ \A h \in 0..1 : byp'[h] \in {Nothing, 2 * Group(imb_ff') + h}
<1>1. Signals(w, rd_hit) /\ ~w.flush
  BY FetchEdgeOf, BypassingFrom
<1>2. imb_ff' = imb_ff
  BY MissHeld DEF Bypassing
<1>3. CASE miss_state = "IDLE" /\ ic_act_miss_f2(w.flush, rd_hit)
  <2>1. mem_f2_raw /\ ~ifc_iccm_access_f2 /\ ~rd_hit /\ ~miss_pending
    BY <1>3 DEF ic_act_miss_f2, fetch_req_icache_f2, mem_fetch_req_f2
  <2>2. mem_addr_f2 = next /\ imb_ff = next
    BY <1>3, <2>1 DEF FetchesAgree, LeftOver, InPlace, MissRight
  <2>3. ~ic_hit_f2(w.flush, rd_hit)
    BY <2>1 DEF ic_hit_f2, ic_act_hit_f2, ic_byp_hit_f2, ic_iccm_hit_f2
  <2>4. next' = next
    BY <1>1, <2>3 DEF Follows
  <2>5. \A h \in 0..1 : byp'[h] = Nothing
    BY <1>3, <2>1, MissEdgeOf DEF write_byp, ifu_wr_en_new
  <2> QED
    BY <1>2, <2>1, <2>2, <2>4, <2>5 DEF ifc_iccm_access_f2
<1>4. CASE Bypassing
  <2>1. ~ic_byp_hit_f2(w.flush)
    BY <1>1, <1>4, FetchEdgeOf DEF Bypassing, miss_nxtstate
  <2>2. next' = next
    BY <1>1, <1>4, <2>1, OnlyBypass DEF Follows
  <2>3. ~ic_act_miss_f2(w.flush, rd_hit)
    BY <1>4 DEF ic_act_miss_f2, Bypassing, miss_pending
  <2>4. \A h \in 0..1 : byp'[h] \in {Nothing, 2 * Group(imb_ff) + h}
    BY <1>4, <2>3, MissEdgeOf, WritesHalf DEF MissRight
  <2> QED
    BY <1>2, <1>4, <2>2, <2>4 DEF MissRight
<1> QED
  BY <1>3, <1>4, BypassingFrom

(* The word that is there is that of the next fetch. *)
LEMMA WordIsNext ==
  ASSUME FrontTypeOK, MissRight, BusRight, NEW w, NEW rd_hit, NEW branch,
         Edge(w, rd_hit), Follows(w, rd_hit, branch), ic_crit_wd_rdy_ff'
  PROVE  /\ Group(next') \notin Iccm
         /\ \A h \in 0..1 : byp'[h] = 2 * Group(next') + h
<1>1. ic_crit_wd_rdy_in(w.flush)
  BY FetchEdgeOf
<1>2. ~w.flush /\ Bypassing
  BY <1>1 DEF ic_crit_wd_rdy_in, crit_wd_byp_ok_ff, Bypassing
<1>3. imb_ff = next /\ Group(next) \notin Iccm
  BY <1>2 DEF MissRight
<1>4. ~ic_act_miss_f2(w.flush, rd_hit)
  BY <1>2 DEF ic_act_miss_f2, Bypassing, miss_pending
<1>5. ~ic_byp_hit_f2(w.flush)
  BY <1>1, <1>2, CompletesOnce DEF ic_crit_wd_rdy_in, ic_byp_hit_f2, WordOnce
<1>6. next' = next
  BY <1>2, <1>5, OnlyBypass DEF Follows
<1>7. \A h \in 0..1 : byp'[h] = IF write_byp(h) THEN 2 * Group(next) + h ELSE byp[h]
  BY <1>3, <1>4, MissEdgeOf, WritesHalf
<1>8. \A h \in 0..1 : byp[h] \in {Nothing, 2 * Group(next) + h}
  BY <1>2, <1>3 DEF MissRight
<1>9. \A h \in 0..1 : write_byp(h) \/ byp[h] # Nothing
  <2>1. CASE ic_crit_wd_complete
    <3>1. PICK h \in 0..1 : write_byp(h) /\ byp[1 - h] # Nothing
      BY <2>1 DEF ic_crit_wd_complete
    <3> QED
      BY <3>1
  <2>2. CASE ~ic_crit_wd_complete
    <3>1. ic_crit_wd_rdy_ff
      BY <1>1, <2>2 DEF ic_crit_wd_rdy_in
    <3> QED
      BY <1>2, <3>1, KeptHalves
  <2> QED
    BY <2>1, <2>2
<1>10. \A h \in 0..1 : byp'[h] = 2 * Group(next) + h
  BY <1>7, <1>8, <1>9
<1> QED
  BY <1>3, <1>6, <1>10

LEMMA MissStep ==
  ASSUME FrontTypeOK, FetchesAgree, InPlace, MissRight, BusRight, NEW w, NEW rd_hit, NEW branch,
         Edge(w, rd_hit), Follows(w, rd_hit, branch)
  PROVE  MissRight'
<1>1. imb_ff' \in Addr
  <2>1. ifc_fetch_addr_f1(w) \in Addr
    BY FetchEdgeOf DEF ifc_fetch_addr_f1, Signals, FrontTypeOK
  <2> QED
    BY <2>1, MissEdgeOf DEF MissRight
<1>2. mem_f2_raw' /\ ~miss_pending' => imb_ff' = mem_addr_f2'
  BY MissLookedUp DEF miss_pending
<1>3. Bypassing' => /\ imb_ff' = next' /\ Group(imb_ff') \notin Iccm
                    /\ \A h \in 0..1 : byp'[h] \in {Nothing, 2 * Group(imb_ff') + h}
  BY MissIsNext
<1>4. ic_crit_wd_rdy_ff' => /\ Group(next') \notin Iccm
                            /\ \A h \in 0..1 : byp'[h] = 2 * Group(next') + h
  BY WordIsNext
<1> QED
  BY <1>1, <1>2, <1>3, <1>4 DEF MissRight, Group

(* The clock of the bus: beats that are owed come, and no others. *)
BusClock(w, rd_hit, arready, beat) ==
  /\ MemClock(w.flush, rd_hit, f1_raw, ifc_fetch_req_f1(w), ifc_fetch_addr_f1(w), arready, beat)
  /\ arready \in BOOLEAN /\ beat \in {Nothing} \cup owed

LEMMA BusEdgeOf ==
  ASSUME NEW w, NEW rd_hit, NEW arready, NEW beat, BusClock(w, rd_hit, arready, beat)
  PROVE  /\ beat \in {Nothing} \cup owed
         /\ data_beat_count' =
              IF ic_act_miss_f2(w.flush, rd_hit) \/ line_done THEN 0
              ELSE IF ifu_wr_en_new THEN data_beat_count + 1 ELSE data_beat_count
         /\ ic_req' = ((ic_act_miss_f2(w.flush, rd_hit) \/ ic_req)
                         /\ ~(axi_cmd_sent(arready) /\ cmd_beat_count = BEATS - 1))
         /\ cmd_beat_count' =
              IF ic_act_miss_f2(w.flush, rd_hit)
              THEN IF uncacheable_miss_ff THEN BEATS - 2 ELSE 0
              ELSE IF axi_cmd_sent(arready) THEN (cmd_beat_count + 1) % BEATS ELSE cmd_beat_count
         /\ rd_addr_count' =
              IF ~miss_pending THEN imb_half(0)
              ELSE IF axi_cmd_sent(arready) THEN (rd_addr_count + 1) % BEATS ELSE rd_addr_count
         /\ owed' = (owed \ {beat})
                      \cup (IF axi_cmd_sent(arready) THEN {ifu_ic_req_addr_f2} ELSE {})
         /\ rbeat' = beat
BY DEF BusClock, MemClock

(* A line that ends has all its beats. *)
LEMMA EndsComplete ==
  ASSUME BusRight, Arriving, line_done
  PROVE  owed = {} /\ ~ic_req
<1> DEFINE n == Cardinality(owed)
<1>1. Counted
  BY DEF BusRight
<1>2. rbeat # Nothing /\ data_beat_count = BEATS - firstCount - 1
  <2>1. rbeat # Nothing /\ last_beat
    BY DEF line_done, ifu_wr_en_new
  <2> QED
    BY <2>1, BeatsNat DEF last_beat, firstCount
<1>3. n \in Nat /\ (n = 0 => owed = {})
  BY <1>1, FS_CardinalityType, FS_EmptySet DEF Counted
<1>4. n + 1 + data_beat_count = asked
  BY <1>1, <1>2 DEF Counted
<1>5. firstCount \in Nat /\ BEATS \in Nat /\ asked \in 0..BEATS - firstCount
  BY CountRange, BeatsNat
<1> HIDE DEF n
<1>6. n = 0 /\ asked = BEATS - firstCount
  BY <1>2, <1>3, <1>4, <1>5
<1>7. ~ic_req
  <2>1. ic_req => cmd_beat_count \in firstCount..BEATS - 1 /\ asked = cmd_beat_count - firstCount
    BY <1>1 DEF Counted, asked
  <2> QED
    BY <1>5, <1>6, <2>1
<1> QED
  BY <1>3, <1>6, <1>7

(* Arriving ends with the line, and in no other way. *)
LEMMA ArrivingEnds ==
  ASSUME FrontTypeOK, MissRight, BusRight, NEW w, NEW rd_hit, Edge(w, rd_hit), Arriving
  PROVE  Arriving' <=> ~line_done
<1>1. Signals(w, rd_hit) /\ w.flush \in BOOLEAN
  BY FetchEdgeOf DEF Signals
<1>2. miss_state = "CRIT_BYP_OK" /\ uncacheable_miss_ff => ~ic_byp_hit_f2(w.flush)
  BY NotBothYet DEF ic_byp_hit_f2
<1>3. CASE miss_state = "CRIT_BYP_OK"
  BY <1>1, <1>2, <1>3, FetchEdgeOf DEF miss_nxtstate, Arriving
<1>4. CASE miss_state \in {"MISS_WAIT", "HIT_U_MISS", "SCND_MISS"}
  BY <1>1, <1>4, FetchEdgeOf DEF miss_nxtstate, Arriving
<1> QED
  BY <1>3, <1>4 DEF Arriving

LEMMA QuietStep ==
  ASSUME FrontTypeOK, MissRight, BusRight, NEW w, NEW rd_hit, NEW arready, NEW beat,
         Edge(w, rd_hit), BusClock(w, rd_hit, arready, beat), ~Arriving'
  PROVE  owed' = {} /\ rbeat' = Nothing /\ ~ic_req' /\ data_beat_count' = 0
<1>1. ~ic_act_miss_f2(w.flush, rd_hit)
  <2>1. miss_state = "IDLE" /\ ic_act_miss_f2(w.flush, rd_hit) => miss_state' = "CRIT_BYP_OK"
    BY FetchEdgeOf DEF miss_nxtstate
  <2> QED
    BY <2>1 DEF ic_act_miss_f2, miss_pending, Arriving
<1>2. owed = {} /\ ~ic_req
  BY EndsComplete, ArrivingEnds DEF BusRight
<1>3. data_beat_count' = 0
  BY <1>1, ArrivingEnds, BusEdgeOf DEF BusRight, ifu_wr_en_new
<1>4. ~axi_cmd_sent(arready)
  BY <1>2 DEF axi_cmd_sent
<1>5. beat = Nothing /\ rbeat' = beat
  BY <1>2, BusEdgeOf
<1>6. owed' = {}
  BY <1>2, <1>4, BusEdgeOf
<1>7. ~ic_req'
  BY <1>1, <1>2, BusEdgeOf
<1> QED
  BY <1>3, <1>5, <1>6, <1>7

(* A miss starts: nothing was asked for. *)
LEMMA ArrivalBegins ==
  ASSUME FrontTypeOK, MissRight, BusRight, NEW w, NEW rd_hit, NEW arready, NEW beat,
         Edge(w, rd_hit), BusClock(w, rd_hit, arready, beat), Arriving', ~Arriving
  PROVE  Counted' /\ HalvesCame'
<1>1. miss_state = "IDLE" /\ ic_act_miss_f2(w.flush, rd_hit)
  BY FetchEdgeOf DEF FrontTypeOK, MissStates, Arriving, miss_nxtstate
<1>2. imb_ff' = imb_ff
  BY MissHeld DEF Arriving
<1>3. owed = {} /\ rbeat = Nothing /\ ~axi_cmd_sent(arready) /\ ~miss_pending
  BY <1>1 DEF BusRight, axi_cmd_sent, miss_pending
<1>4. /\ owed' = {} /\ rbeat' = Nothing /\ ic_req' /\ data_beat_count' = 0
      /\ cmd_beat_count' = firstCount /\ rd_addr_count' = imb_half(0)
  <2>1. beat = Nothing /\ rbeat' = beat
    BY <1>3, BusEdgeOf
  <2>2. owed' = {}
    BY <1>3, BusEdgeOf
  <2>3. ic_req' /\ data_beat_count' = 0 /\ rd_addr_count' = imb_half(0)
    BY <1>1, <1>3, BusEdgeOf
  <2>4. cmd_beat_count' = firstCount
    BY <1>1, <1>3, BusEdgeOf DEF firstCount
  <2> QED
    BY <2>1, <2>2, <2>3, <2>4
<1>5. firstCount' = firstCount /\ imb_half(0)' = imb_half(0)
  BY <1>2 DEF firstCount, uncacheable_miss_ff, imb_half
<1>6. BEATS \in Nat \ {0} /\ BEATS >= 2 /\ firstCount \in {0, BEATS - 2}
  BY BeatsNat DEF firstCount
<1>7. imb_half(0) % BEATS = imb_half(0) /\ imb_half(0) \in 0..BEATS - 1
  <2>1. imb_half(0) \in 0..BEATS - 1
    BY HalfRange DEF MissRight
  <2>2. imb_half(0) \in 0..2 * BEATS - 1
    BY <1>6, <2>1
  <2> QED
    BY <1>6, <2>1, <2>2, Wraps
<1>8. asked' = 0
  BY <1>4, <1>5, <1>6 DEF asked
<1>9. rd_addr_count' = (imb_half(0)' + asked') % BEATS
  BY <1>4, <1>5, <1>7, <1>8
<1>10. Counted'
  <2>1. IsFiniteSet(owed') /\ Cardinality(owed') = 0
    BY <1>4, FS_EmptySet
  <2>2. cmd_beat_count' \in firstCount'..BEATS - 1 /\ 0 + 1 <= BEATS - firstCount'
    BY <1>4, <1>5, <1>6
  <2> QED
    BY <1>4, <1>8, <1>9, <2>1, <2>2 DEF Counted
<1>11. \A h \in 0..1 : byp'[h] = Nothing
  BY <1>1, <1>3, MissEdgeOf DEF write_byp, ifu_wr_en_new
<1> QED
  BY <1>10, <1>11 DEF HalvesCame

(* The beat the bus is asked for is the next one, which it was not asked for yet. *)
LEMMA NextBeat ==
  ASSUME MissRight, BusRight, Arriving, ic_req
  PROVE  /\ ifu_ic_req_addr_f2 = Beat(asked) /\ asked \in 0..BEATS - 1
         /\ ifu_ic_req_addr_f2 \notin Asked /\ ifu_ic_req_addr_f2 # Nothing
<1>1. imb_ff \in Addr /\ Counted
  BY DEF MissRight, BusRight
<1>2. asked \in 0..BEATS - 1
  <2>1. cmd_beat_count \in firstCount..BEATS - 1 /\ asked = cmd_beat_count - firstCount
    BY <1>1 DEF Counted, asked
  <2> QED
    BY <2>1, CountRange, BeatsNat
<1>3. ifu_ic_req_addr_f2 = Beat(asked)
  BY <1>1 DEF Counted, ifu_ic_req_addr_f2, Beat
<1>4. Beat(asked) \in Nat
  BY <1>1, <1>2, BeatIs
<1>5. Beat(asked) \notin Asked
  <2> SUFFICES ASSUME Beat(asked) \in Asked PROVE FALSE
    OBVIOUS
  <2>1. PICK i \in 0..BEATS - 1 : i < asked /\ Beat(asked) = Beat(i)
    BY <1>1, AskedBeat
  <2>2. asked = i
    BY <1>1, <1>2, <2>1, BeatsDiffer
  <2> QED
    BY <1>2, <2>1, <2>2
<1> QED
  BY <1>2, <1>3, <1>4, <1>5 DEF Nothing

(* A command is sent: one beat more was asked for. *)
LEMMA CommandMoves ==
  ASSUME FrontTypeOK, MissRight, BusRight, NEW w, NEW rd_hit, NEW arready, NEW beat,
         Edge(w, rd_hit), BusClock(w, rd_hit, arready, beat), Arriving, Arriving'
  PROVE  /\ \A i : Beat(i)' = Beat(i)
         /\ firstCount' = firstCount
         /\ asked' = asked + (IF axi_cmd_sent(arready) THEN 1 ELSE 0)
         /\ Asked' = Asked \cup (IF axi_cmd_sent(arready) THEN {ifu_ic_req_addr_f2} ELSE {})
         /\ ic_req' => /\ cmd_beat_count' \in firstCount..BEATS - 1
                       /\ rd_addr_count' = (imb_half(0)' + asked') % BEATS
<1> DEFINE sent == axi_cmd_sent(arready)
<1>1. imb_ff' = imb_ff /\ imb_ff \in Addr /\ Counted
  BY MissHeld DEF Arriving, MissRight, BusRight
<1>2. miss_pending /\ ~ic_act_miss_f2(w.flush, rd_hit)
  BY DEF Arriving, miss_pending, ic_act_miss_f2
<1>3. imb_half(0)' = imb_half(0) /\ firstCount' = firstCount
  BY <1>1 DEF imb_half, firstCount, uncacheable_miss_ff
<1>4. \A i : Beat(i)' = Beat(i)
  BY <1>1, <1>3 DEF Beat
<1>5. BEATS \in Nat \ {0} /\ firstCount \in Nat /\ asked \in 0..BEATS - firstCount
  BY CountRange, BeatsNat
<1>6. ic_req => cmd_beat_count \in firstCount..BEATS - 1 /\ asked = cmd_beat_count - firstCount
  BY <1>1 DEF Counted, asked
<1>7. /\ ic_req' = (ic_req /\ ~(sent /\ cmd_beat_count = BEATS - 1))
      /\ cmd_beat_count' = IF sent THEN (cmd_beat_count + 1) % BEATS ELSE cmd_beat_count
      /\ rd_addr_count' = IF sent THEN (rd_addr_count + 1) % BEATS ELSE rd_addr_count
  BY <1>2, BusEdgeOf
<1>8. sent => ic_req
  BY DEF axi_cmd_sent
<1>9. sent /\ ic_req' => cmd_beat_count' = cmd_beat_count + 1 /\ cmd_beat_count' \in firstCount..BEATS - 1
  <2> SUFFICES ASSUME sent, ic_req'
               PROVE  cmd_beat_count' = cmd_beat_count + 1 /\ cmd_beat_count' \in firstCount..BEATS - 1
    OBVIOUS
  <2>1. cmd_beat_count \in firstCount..BEATS - 1 /\ cmd_beat_count # BEATS - 1
    BY <1>6, <1>7, <1>8
  <2>2. cmd_beat_count + 1 \in 0..BEATS - 1 /\ cmd_beat_count + 1 \in 0..2 * BEATS - 1
    BY <1>5, <2>1
  <2>3. (cmd_beat_count + 1) % BEATS = cmd_beat_count + 1
    BY <1>5, <2>2, Wraps
  <2> QED
    BY <1>5, <1>7, <2>1, <2>2, <2>3
<1>10. asked' = asked + (IF sent THEN 1 ELSE 0)
  <2>1. asked' = (IF ic_req' THEN cmd_beat_count' ELSE BEATS) - firstCount
    BY <1>3 DEF asked
  <2>2. asked = (IF ic_req THEN cmd_beat_count ELSE BEATS) - firstCount
    BY DEF asked
  <2> HIDE DEF sent
  <2>3. CASE sent /\ ic_req'
    BY <1>5, <1>6, <1>8, <1>9, <2>1, <2>3
  <2>4. CASE sent /\ ~ic_req'
    <3>1. cmd_beat_count = BEATS - 1
      BY <1>7, <1>8, <2>4
    <3> QED
      BY <1>5, <1>6, <1>8, <2>1, <2>4, <3>1
  <2>5. CASE ~sent
    <3>1. (ic_req' <=> ic_req) /\ cmd_beat_count' = cmd_beat_count
      BY <1>7, <2>5
    <3>2. asked' = asked
      BY <2>1, <2>2, <3>1
    <3> QED
      BY <1>5, <2>5, <3>2
  <2> QED
    BY <2>3, <2>4, <2>5
<1>11. ic_req' => rd_addr_count' = (imb_half(0)' + asked') % BEATS
  <2> SUFFICES ASSUME ic_req' PROVE rd_addr_count' = (imb_half(0) + asked') % BEATS
    BY <1>3
  <2>1. ic_req /\ rd_addr_count = (imb_half(0) + asked) % BEATS
    BY <1>1, <1>7 DEF Counted
  <2> DEFINE x == imb_half(0) + asked
  <2>2. x \in Nat /\ x < 2 * BEATS - 1
    <3>1. imb_half(0) \in 0..BEATS - 1 /\ asked \in 0..BEATS - 1
      BY <1>1, <2>1, HalfRange, NextBeat
    <3> QED
      BY <1>5, <3>1
  <2>3. asked' = asked => (imb_half(0) + asked') % BEATS = x % BEATS
    OBVIOUS
  <2>4. imb_half(0) + (asked + 1) = x + 1
    <3>1. imb_half(0) \in Int
      BY <1>1, HalfRange
    <3> QED
      BY <1>5, <3>1
  <2> HIDE DEF x
  <2>5. x \in 0..2 * BEATS - 1 /\ x + 1 \in 0..2 * BEATS - 1
    BY <1>5, <2>2
  <2> DEFINE y == x % BEATS
  <2>6. y = (IF x < BEATS THEN x ELSE x - BEATS)
    BY <1>5, <2>5, Wraps
  <2> HIDE DEF y
  <2> DEFINE x1 == x + 1
             y1 == y + 1
  <2>7. x1 \in 0..2 * BEATS - 1 /\ y1 \in 0..2 * BEATS - 1 /\ x1 = x + 1 /\ y1 = y + 1
    BY <1>5, <2>5, <2>6
  <2> HIDE DEF x1, y1
  <2>8. /\ x1 % BEATS = IF x1 < BEATS THEN x1 ELSE x1 - BEATS
        /\ y1 % BEATS = IF y1 < BEATS THEN y1 ELSE y1 - BEATS
    BY <1>5, <2>7, Wraps
  <2>9. y \in Int /\ x \in Int
    BY <1>5, <2>5, <2>6
  <2>10. y1 % BEATS = x1 % BEATS
    <3>1. CASE x < BEATS
      <4>1. y1 = x1
        BY <2>6, <2>7, <3>1
      <4> QED
        BY <4>1
    <3>2. CASE ~(x < BEATS)
      <4>1. y1 < BEATS /\ ~(x1 < BEATS) /\ y1 = x1 - BEATS
        BY <1>5, <2>2, <2>5, <2>6, <2>7, <2>9, <3>2
      <4> QED
        BY <2>8, <4>1
    <3> QED
      BY <3>1, <3>2
  <2>11. rd_addr_count = y
    BY <2>1 DEF x, y
  <2>12. CASE sent
    <3>1. asked' = asked + 1
      BY <1>10, <2>12
    <3>2. rd_addr_count' = y1 % BEATS
      BY <1>7, <2>7, <2>11, <2>12
    <3>3. imb_half(0) + asked' = x1
      BY <2>4, <2>7, <3>1
    <3> QED
      BY <2>10, <3>2, <3>3
  <2>13. CASE ~sent
    <3>1. asked' = asked
      BY <1>5, <1>10, <2>13
    <3> QED
      BY <1>7, <2>3, <2>11, <2>13, <3>1 DEF y
  <2> QED
    BY <2>12, <2>13
<1>12. ic_req' => cmd_beat_count' \in firstCount..BEATS - 1
  BY <1>6, <1>7, <1>9
<1>13. Asked' = Asked \cup (IF sent THEN {ifu_ic_req_addr_f2} ELSE {})
  <2>1. Asked' = {Beat(i) : i \in 0..asked' - 1}
    BY <1>4 DEF Asked
  <2>2. CASE sent
    <3>1. asked' = asked + 1 /\ ifu_ic_req_addr_f2 = Beat(asked) /\ asked \in Nat
      BY <1>8, <1>10, <2>2, NextBeat
    <3>2. \A i : i \in 0..asked' - 1 <=> i \in 0..asked - 1 \/ i = asked
      BY <3>1
    <3> QED
      BY <2>1, <2>2, <3>1, <3>2 DEF Asked
  <2>3. CASE ~sent
    <3>1. asked' = asked
      BY <1>5, <1>10, <2>3
    <3> QED
      BY <2>1, <2>3, <3>1 DEF Asked
  <2> QED
    BY <2>2, <2>3
<1> QED
  BY <1>3, <1>4, <1>10, <1>11, <1>12, <1>13

(* Beats come: each is owed, then a clock in rbeat, then counted. *)
LEMMA ArrivalGoesOn ==
  ASSUME FrontTypeOK, MissRight, BusRight, NEW w, NEW rd_hit, NEW arready, NEW beat,
         Edge(w, rd_hit), BusClock(w, rd_hit, arready, beat), Arriving, Arriving'
  PROVE  Counted' /\ HalvesCame'
<1> DEFINE sent == axi_cmd_sent(arready)
           new == ifu_ic_req_addr_f2
<1>1. Counted /\ HalvesCame /\ imb_ff \in Addr
  BY DEF BusRight, MissRight
<1>2. miss_pending /\ ~ic_act_miss_f2(w.flush, rd_hit) /\ ~line_done
  BY ArrivingEnds DEF Arriving, miss_pending, ic_act_miss_f2
<1>3. /\ firstCount' = firstCount
      /\ asked' = asked + (IF sent THEN 1 ELSE 0)
      /\ Asked' = Asked \cup (IF sent THEN {new} ELSE {})
      /\ ic_req' => /\ cmd_beat_count' \in firstCount'..BEATS - 1
                    /\ rd_addr_count' = (imb_half(0)' + asked') % BEATS
  BY CommandMoves
<1>4. sent => new \notin Asked /\ new # Nothing
  BY NextBeat DEF axi_cmd_sent
<1>5. /\ beat \in {Nothing} \cup owed /\ rbeat' = beat
      /\ owed' = (owed \ {beat}) \cup (IF sent THEN {new} ELSE {})
  BY BusEdgeOf
<1>6. Nothing \notin Asked
  BY <1>1, AskedBeat DEF Nothing
<1>7. owed \subseteq Asked /\ rbeat \in Asked \cup {Nothing} /\ rbeat \notin owed
  BY <1>1 DEF Counted
<1>8. owed' \subseteq Asked' /\ rbeat' \in Asked' \cup {Nothing} /\ rbeat' \notin owed'
  BY <1>3, <1>4, <1>5, <1>6, <1>7
<1>9. data_beat_count' = data_beat_count + (IF rbeat = Nothing THEN 0 ELSE 1)
  <2>1. data_beat_count \in Nat
    BY <1>1 DEF Counted
  <2>2. data_beat_count' = IF rbeat # Nothing THEN data_beat_count + 1 ELSE data_beat_count
    BY <1>2, BusEdgeOf DEF ifu_wr_en_new
  <2> QED
    BY <2>1, <2>2
<1>10. data_beat_count' \in Nat /\ data_beat_count' + 1 <= BEATS - firstCount'
  <2>1. data_beat_count \in Nat /\ data_beat_count + 1 <= BEATS - firstCount
    BY <1>1 DEF Counted
  <2>2. rbeat # Nothing => data_beat_count # BEATS - firstCount - 1
    BY <1>2, BeatsNat DEF line_done, ifu_wr_en_new, last_beat, firstCount
  <2>3. firstCount \in Nat /\ BEATS \in Nat
    BY CountRange, BeatsNat
  <2> QED
    BY <1>3, <1>9, <2>1, <2>2, <2>3
<1>11. /\ IsFiniteSet(owed')
       /\ Cardinality(owed') = Cardinality(owed) - (IF beat = Nothing THEN 0 ELSE 1)
                                 + (IF sent THEN 1 ELSE 0)
  <2> DEFINE rest == owed \ {beat}
  <2>1. IsFiniteSet(owed) /\ Cardinality(owed) \in Nat
    BY <1>1, FS_CardinalityType DEF Counted
  <2>2. IsFiniteSet(rest)
        /\ Cardinality(rest) = Cardinality(owed) - (IF beat = Nothing THEN 0 ELSE 1)
    <3>1. /\ IsFiniteSet(rest)
          /\ Cardinality(rest) = IF beat \in owed THEN Cardinality(owed) - 1 ELSE Cardinality(owed)
      BY <2>1, FS_RemoveElement
    <3>2. beat \in owed <=> beat # Nothing
      BY <1>5, <1>6, <1>7
    <3> HIDE DEF rest
    <3> QED
      BY <2>1, <3>1, <3>2
  <2>3. Cardinality(rest) \in Int
    BY <2>2, FS_CardinalityType
  <2>4. sent => new \notin rest
    BY <1>4, <1>7
  <2>5. owed' = rest \cup (IF sent THEN {new} ELSE {})
    BY <1>5
  <2> HIDE DEF rest, new, sent
  <2>6. CASE sent
    <3>1. owed' = rest \cup {new}
      BY <2>5, <2>6
    <3>2. IsFiniteSet(owed') /\ Cardinality(owed') = Cardinality(rest) + 1
      BY <2>2, <2>4, <2>6, <3>1, FS_AddElement
    <3> QED
      BY <2>2, <2>6, <3>2
  <2>7. CASE ~sent
    <3>1. owed' = rest
      BY <2>5, <2>7
    <3> QED
      BY <2>2, <2>3, <2>7, <3>1
  <2> QED
    BY <2>6, <2>7
<1>12. Cardinality(owed') + (IF rbeat' = Nothing THEN 0 ELSE 1) + data_beat_count' = asked'
  <2>1. Cardinality(owed) + (IF rbeat = Nothing THEN 0 ELSE 1) + data_beat_count = asked
    BY <1>1 DEF Counted
  <2>2. Cardinality(owed) \in Nat /\ data_beat_count \in Nat
    BY <1>1, FS_CardinalityType DEF Counted
  <2> HIDE DEF sent
  <2> QED
    BY <1>3, <1>5, <1>9, <1>11, <2>1, <2>2
<1>13. Counted'
  BY <1>3, <1>8, <1>10, <1>11, <1>12 DEF Counted
<1>14. HalvesCame'
  <2> SUFFICES ASSUME miss_state' = "CRIT_BYP_OK", NEW h \in 0..1, byp'[h] # Nothing
               PROVE  byp'[h] \in Asked' /\ byp'[h] \notin owed' /\ byp'[h] # rbeat'
    BY DEF HalvesCame
  <2>1. miss_state = "CRIT_BYP_OK"
    BY FetchEdgeOf DEF Arriving, miss_nxtstate
  <2>2. byp'[h] = IF write_byp(h) THEN rbeat ELSE byp[h]
    BY <1>2, MissEdgeOf
  <2>3. byp'[h] \in Asked /\ byp'[h] \notin owed
    <3>1. write_byp(h) => rbeat \in Asked /\ rbeat \notin owed
      BY <1>7 DEF write_byp, ifu_wr_en_new
    <3>2. ~write_byp(h) => byp[h] \in Asked /\ byp[h] \notin owed
      BY <1>1, <2>1, <2>2 DEF HalvesCame
    <3> QED
      BY <2>2, <3>1, <3>2
  <2> QED
    BY <1>3, <1>4, <1>5, <1>6, <2>3
<1> QED
  BY <1>13, <1>14

LEMMA BusStep ==
  ASSUME FrontTypeOK, MissRight, BusRight, NEW w, NEW rd_hit, NEW arready, NEW beat,
         Edge(w, rd_hit), BusClock(w, rd_hit, arready, beat)
  PROVE  BusRight'
BY QuietStep, ArrivalBegins, ArrivalGoesOn DEF BusRight

-----------------------------------------------------------------------------
(* A clock: what the aligner is given, and that it is the program's. *)

(* The signals of a clock, and what the aligner is given in it. *)
Wires(flush, path, noredir, rd_hit, branch) ==
  [flush |-> flush, path |-> path, noredir |-> noredir,
   kill |-> branch # NoBranch, target |-> branch.to,
   consume |-> ifu_fb_consume(flush), hit |-> ic_hit_f2(flush, rd_hit),
   crit_rdy |-> ic_crit_wd_rdy_ff, mb_empty |-> ifu_ic_mb_empty,
   write_stall |-> ic_write_stall]
Answer(flush, rd_hit, branch) ==
  [n |-> IF ic_hit_f2(flush, rd_hit) THEN ic_fetch_val_f2(branch) ELSE 0,
   pc |-> ifc_addr_f2, group |-> ic_data_f2]

FetchInv == FrontIInv /\ FetchRight /\ MissRight /\ BusRight

(* What is delivered: parcels from next on, of its group, and where next goes. *)
Delivery(got) ==
  /\ got.n \in Nat
  /\ got.n > 0 => /\ got.pc = next /\ got.group = Group(next)
                  /\ got.n <= PARCELS - Offset(next)
GoesOn(got) ==
  \/ next' = Plus(next, got.n)
  \/ got.n > 0 /\ \E b \in Branches : b.at = Plus(next, got.n - 1) /\ next' = b.to

(* Parts of a clock. *)
LEMMA ClockIs ==
  ASSUME FetchInv, NEW flush \in BOOLEAN, NEW path \in Addr, NEW noredir \in BOOLEAN,
         noredir => flush, NEW d, Clock(flush, path, noredir, d)
  PROVE  \E rd_hit, branch, w, arready, beat :
           /\ w.flush = flush /\ w.path = path
           /\ Edge(w, rd_hit) /\ Follows(w, rd_hit, branch) /\ BusClock(w, rd_hit, arready, beat)
           /\ AlnClock(flush, Answer(flush, rd_hit, branch)) /\ IbClock(flush, d)
<1>1. PICK rd_hit \in RdHits(flush), branch \in Predictions(flush) :
        LET w == Wires(flush, path, noredir, rd_hit, branch)
            got == Answer(flush, rd_hit, branch)
        IN  /\ next' = IF flush THEN path
                       ELSE IF got.n = 0 THEN next
                       ELSE IF branch # NoBranch THEN branch.to ELSE Plus(next, got.n)
            /\ AlnClock(flush, got) /\ IbClock(flush, d)
            /\ \E stall \in BOOLEAN : IfcClock(w, stall)
            /\ \E arready \in Ready, beat \in {Nothing} \cup Answers :
                 MemClock(flush, rd_hit, f1_raw, ifc_fetch_req_f1(w), ifc_fetch_addr_f1(w),
                          arready, beat)
  BY DEF Clock, Wires, Answer
<1> DEFINE w == Wires(flush, path, noredir, rd_hit, branch)
           got == Answer(flush, rd_hit, branch)
<1>2. PICK arready \in Ready, beat \in {Nothing} \cup Answers :
        MemClock(flush, rd_hit, f1_raw, ifc_fetch_req_f1(w), ifc_fetch_addr_f1(w), arready, beat)
  BY <1>1
<1>3. FrontTypeOK /\ FetchesAgree
  BY DEF FetchInv, FrontIInv
<1>4. branch.to \in Addr
  <2>1. branch = NoBranch \/ branch \in Branches
    BY DEF Predictions
  <2> QED
    BY <2>1, FrontendAssumption, AddrAssumption DEF NoBranch, Addr
<1>5. Signals(w, rd_hit) /\ w.flush = flush /\ w.path = path
  <2>1. ifu_ic_mb_empty \in BOOLEAN /\ ic_write_stall \in BOOLEAN
    BY DEF ifu_ic_mb_empty, ic_write_stall, miss_pending
  <2> QED
    BY <1>4, <2>1 DEF Signals, Wires
<1>6. Edge(w, rd_hit)
  <2>1. \E stall \in BOOLEAN : IfcClock(w, stall)
    BY <1>1
  <2> HIDE DEF w
  <2> QED
    BY <1>2, <1>5, <2>1 DEF Edge
<1>7. BusClock(w, rd_hit, arready, beat)
  <2>1. arready \in BOOLEAN /\ beat \in {Nothing} \cup owed
    BY DEF Ready, Answers
  <2> HIDE DEF w
  <2> QED
    BY <1>2, <1>5, <2>1 DEF BusClock
<1>8. Follows(w, rd_hit, branch)
  <2>1. got.n = 0 <=> ~ic_hit_f2(flush, rd_hit)
    BY <1>3, Delivers DEF Answer
  <2>2. ic_hit_f2(flush, rd_hit) => got.n = ic_fetch_val_f2(branch)
    BY DEF Answer
  <2>3. w.kill = (branch # NoBranch) /\ w.target = branch.to
    BY DEF Wires
  <2> HIDE DEF w, got
  <2> QED
    BY <1>1, <1>5, <2>1, <2>2, <2>3 DEF Follows, w, got
<1>9. AlnClock(flush, Answer(flush, rd_hit, branch)) /\ IbClock(flush, d)
  BY <1>1
<1> QED
  BY <1>5, <1>6, <1>7, <1>8, <1>9

(* What a fetch that hits is given is its own group. *)
LEMMA OwnGroup ==
  ASSUME FrontTypeOK, FetchesAgree, FetchRight, MissRight, NEW flush \in BOOLEAN, NEW rd_hit,
         ic_hit_f2(flush, rd_hit)
  PROVE  /\ ifc_f2_raw /\ ~flush /\ ifc_addr_f2 = next /\ mem_addr_f2 = next
         /\ ic_data_f2 = Group(next)
<1>1. ifc_f2_raw /\ ~flush
  BY HitIsCounted DEF FetchesAgree
<1>2. ifc_addr_f2 = next /\ mem_addr_f2 = next /\ next \in Addr
  BY <1>1 DEF FetchRight, InPlace
<1>3. CASE ~ic_crit_wd_rdy_ff
  BY <1>1, <1>2, <1>3 DEF ic_data_f2
<1>4. CASE ic_crit_wd_rdy_ff
  <2> DEFINE g == Group(next)
  <2>1. g \in Nat
    BY <1>2, GroupNat
  <2>2. g \notin Iccm /\ byp[0] = 2 * g + 0 /\ byp[1] = 2 * g + 1
    BY <1>4 DEF MissRight
  <2>3. ~ifc_iccm_access_f2
    BY <1>2, <2>2 DEF ifc_iccm_access_f2
  <2> HIDE DEF g
  <2>4. 2 * g = g * 2 + 0 /\ 2 \in Nat \ {0} /\ 0 \in 0..2 - 1
    BY <2>1
  <2>5. (g * 2 + 0) \div 2 = g /\ (g * 2 + 0) % 2 = 0
    BY <2>1, <2>4, DivIs
  <2>6. byp[0] = g * 2 + 0 /\ byp[1] = byp[0] + 1 /\ byp[0] # Nothing
    BY <2>1, <2>2 DEF Nothing
  <2>7. byp[0] % 2 = 0 /\ byp[0] \div 2 = g
    BY <2>5, <2>6
  <2> QED
    BY <1>1, <1>2, <1>4, <2>3, <2>6, <2>7 DEF ic_data_f2, g
<1> QED
  BY <1>1, <1>2, <1>3, <1>4

(* The group and the offset are the address. *)
LEMMA AddrIs ==
  ASSUME NEW a \in Addr
  PROVE  /\ a = Group(a) * PARCELS + Offset(a)
         /\ Group(a) \in Nat /\ Offset(a) \in 0..PARCELS - 1
         /\ (Group(a) + 1) * PARCELS <= ADDRS
<1>1. PARCELS \in Nat \ {0} /\ LINE_GROUPS \in Nat \ {0} /\ ADDRS \in Nat \ {0} /\ a \in Nat /\ a < ADDRS
  BY AddrAssumption DEF Addr
<1> DEFINE g == a \div PARCELS
           r == a % PARCELS
<1>2. a = PARCELS * g + r /\ r \in 0..PARCELS - 1 /\ g \in Int
  BY <1>1, DivEuclid
<1>3. g \in Nat
  BY <1>1, GroupNat DEF Group
<1> DEFINE s == PARCELS * LINE_GROUPS
           m == ADDRS \div s
<1>4. s \in Nat \ {0}
  BY <1>1
<1>5. ADDRS % s = 0
  BY AddrAssumption
<1>6. ADDRS = s * m /\ m \in Int
  <2> HIDE DEF s
  <2>1. ADDRS = s * m + (ADDRS % s) /\ m \in Int
    BY <1>1, <1>4, DivEuclid
  <2> HIDE DEF m
  <2> QED
    BY <1>4, <1>5, <2>1
<1> DEFINE h == LINE_GROUPS * m
<1> HIDE DEF m
<1>7. h \in Int /\ s * m = h * PARCELS
  BY <1>1, <1>6
<1>8. ADDRS = h * PARCELS
  BY <1>6, <1>7
<1> HIDE DEF g, r, h, s
<1>9. g + 1 <= h
  <2> SUFFICES ASSUME g >= h PROVE FALSE
    BY <1>2, <1>7
  <2>1. PICK e \in Nat : g = h + e
    <3>1. g - h \in Nat /\ g = h + (g - h)
      BY <1>2, <1>7
    <3> QED
      BY <3>1
  <2>2. g * PARCELS = h * PARCELS + e * PARCELS /\ e * PARCELS >= 0
    BY <1>1, <1>7, <2>1
  <2>3. g * PARCELS \in Int /\ h * PARCELS \in Int /\ e * PARCELS \in Int /\ PARCELS * g = g * PARCELS
    BY <1>1, <1>2, <1>7, <2>1
  <2> QED
    BY <1>1, <1>2, <1>8, <2>2, <2>3
<1>10. (g + 1) * PARCELS <= h * PARCELS
  <2>1. PICK e \in Nat : h = (g + 1) + e
    <3>1. h - (g + 1) \in Nat /\ h = (g + 1) + (h - (g + 1))
      BY <1>2, <1>7, <1>9
    <3> QED
      BY <3>1
  <2>2. h * PARCELS = (g + 1) * PARCELS + e * PARCELS /\ e * PARCELS >= 0
    BY <1>1, <1>2, <2>1
  <2>3. (g + 1) * PARCELS \in Int /\ h * PARCELS \in Int /\ e * PARCELS \in Int
    BY <1>1, <1>2, <1>7, <2>1
  <2> QED
    BY <2>2, <2>3
<1>11. PARCELS * g = g * PARCELS
  BY <1>1, <1>2
<1> QED
  BY <1>2, <1>3, <1>8, <1>10, <1>11 DEF g, r, Group, Offset

(* Inside a group addresses do not wrap. *)
LEMMA PlusInGroup ==
  ASSUME NEW a \in Addr, NEW k \in Nat, Offset(a) + k <= PARCELS - 1
  PROVE  Plus(a, k) = a + k /\ a + k \in Addr /\ Group(a + k) = Group(a) /\ Offset(a + k) = Offset(a) + k
<1>1. PARCELS \in Nat \ {0} /\ ADDRS \in Nat \ {0}
  BY AddrAssumption
<1> DEFINE g == Group(a)
           r == Offset(a)
<1>2. a = g * PARCELS + r /\ g \in Nat /\ r \in 0..PARCELS - 1 /\ (g + 1) * PARCELS <= ADDRS
  BY AddrIs
<1> HIDE DEF g, r
<1>3. r + k \in 0..PARCELS - 1
  BY <1>1, <1>2 DEF r
<1>4. g * PARCELS \in Nat /\ (g + 1) * PARCELS = g * PARCELS + PARCELS
  BY <1>1, <1>2
<1>5. a + k = g * PARCELS + (r + k) /\ a + k \in 0..ADDRS - 1
  BY <1>1, <1>2, <1>3, <1>4
<1> DEFINE s == r + k
           b == a + k
<1>6. (g * PARCELS + s) \div PARCELS = g /\ (g * PARCELS + s) % PARCELS = s
  <2> HIDE DEF s
  <2>1. s \in 0..PARCELS - 1 /\ g \in Int
    BY <1>2, <1>3 DEF s
  <2> QED
    BY <1>1, <2>1, DivIs
<1>7. b % ADDRS = b
  <2>1. b = 0 * ADDRS + b /\ b \in 0..ADDRS - 1
    BY <1>1, <1>5
  <2> HIDE DEF b
  <2>2. (0 * ADDRS + b) % ADDRS = b
    BY <1>1, <2>1, DivIs
  <2> QED
    BY <2>1, <2>2
<1> QED
  BY <1>5, <1>6, <1>7 DEF Plus, Group, Offset, Addr, g, r

LEMMA DeliveryIs ==
  ASSUME FrontTypeOK, FetchesAgree, FetchRight, MissRight, NEW rd_hit,
         NEW branch, NEW w, Signals(w, rd_hit), Follows(w, rd_hit, branch)
  PROVE  LET got == Answer(w.flush, rd_hit, branch)
         IN  /\ Delivery(got)
             /\ w.flush => got.n = 0 /\ next' = w.path
             /\ ~w.flush => GoesOn(got)
<1> DEFINE got == Answer(w.flush, rd_hit, branch)
<1>1. w.flush \in BOOLEAN /\ branch \in Predictions(w.flush)
  BY DEF Signals, Follows
<1>2. CASE ~ic_hit_f2(w.flush, rd_hit)
  <2>1. got.n = 0
    BY <1>2 DEF Answer
  <2>2. ~w.flush => next' = next
    BY <1>2 DEF Follows
  <2>3. next \in Addr /\ ADDRS \in Nat \ {0}
    BY AddrAssumption DEF FetchRight, InPlace
  <2>4. Plus(next, 0) = next
    <3>1. Offset(next) + 0 <= PARCELS - 1
      BY <2>3, AddrIs, AddrAssumption
    <3> QED
      BY <2>3, <3>1, PlusInGroup DEF Addr
  <2> HIDE DEF got
  <2> QED
    BY <2>1, <2>2, <2>4 DEF Delivery, GoesOn, Follows, got
<1>3. CASE ic_hit_f2(w.flush, rd_hit)
  <2>1. /\ ifc_f2_raw /\ ~w.flush /\ ifc_addr_f2 = next /\ mem_addr_f2 = next
        /\ ic_data_f2 = Group(next)
    BY <1>1, <1>3, OwnGroup
  <2>2. next \in Addr
    BY DEF FetchRight, InPlace
  <2>3. got.n = ic_fetch_val_f2(branch) /\ got.pc = next /\ got.group = Group(next)
    BY <1>3, <2>1 DEF Answer
  <2>4. PARCELS \in Nat \ {0} /\ Offset(next) \in 0..PARCELS - 1
    BY <2>2, AddrIs, AddrAssumption
  <2>5. CASE branch = NoBranch
    <3>1. got.n = PARCELS - Offset(next)
      BY <2>1, <2>3, <2>4, <2>5 DEF ic_fetch_val_f2, Least
    <3>2. next' = Plus(next, got.n)
      BY <1>3, <2>1, <2>3, <2>5 DEF Follows
    <3> HIDE DEF got
    <3> QED
      BY <2>1, <2>3, <2>4, <3>1, <3>2 DEF Delivery, GoesOn, got
  <2>6. CASE branch # NoBranch
    <3>1. branch \in Branches /\ Group(branch.at) = Group(next) /\ branch.at >= next
      BY <1>1, <2>1, <2>6 DEF Predictions
    <3>2. branch.at \in Addr
      BY <3>1, FrontendAssumption
    <3> DEFINE k == branch.at - next
    <3>3. k \in Nat /\ Offset(next) + k = Offset(branch.at) /\ branch.at = next + k
      <4> DEFINE p == Group(next) * PARCELS
      <4>1. branch.at = p + Offset(branch.at)
        BY <3>1, <3>2, AddrIs
      <4>2. next = p + Offset(next) /\ Group(next) \in Nat
        BY <2>2, AddrIs
      <4>3. p \in Nat
        BY <2>4, <4>2
      <4>4. Offset(branch.at) \in 0..PARCELS - 1
        BY <3>2, AddrIs
      <4>5. branch.at \in Int /\ next \in Int
        BY <2>2, <3>2 DEF Addr
      <4> HIDE DEF p
      <4> QED
        BY <2>4, <3>1, <4>1, <4>2, <4>3, <4>4, <4>5
    <3>4. Offset(next) + k <= PARCELS - 1
      BY <2>4, <3>2, <3>3, AddrIs
    <3> HIDE DEF k
    <3>5. ic_fetch_val_f2(branch) = Least(PARCELS - Offset(next), k + 1)
      BY <2>1, <2>6 DEF ic_fetch_val_f2, k
    <3>6. got.n = k + 1 /\ got.n - 1 = k
      BY <2>3, <2>4, <3>3, <3>4, <3>5 DEF Least
    <3>7. Plus(next, k) = branch.at
      BY <2>2, <3>3, <3>4, PlusInGroup
    <3>8. next' = branch.to
      BY <1>3, <2>1, <2>6 DEF Follows
    <3> HIDE DEF got
    <3> QED
      BY <2>1, <2>3, <2>4, <3>1, <3>3, <3>4, <3>6, <3>7, <3>8 DEF Delivery, GoesOn, got
  <2> QED
    BY <2>5, <2>6
<1> QED
  BY <1>2, <1>3

-----------------------------------------------------------------------------
(* The ring of fetch buffers: each holds parcels of one group, in order. *)

(* The buffers in order, what the shift leaves in them, and where they are in the ring. *)
Buf(i) == IF i = 0 THEN f0 ELSE IF i = 1 THEN f1 ELSE f2
Rest(flush, i) == IF i = 0 THEN sf0(flush) ELSE IF i = 1 THEN sf1(flush) ELSE f2

Stored(f, place) ==
  f.n > 0 => /\ f.pc \in Addr /\ q[place] = Group(f.pc) /\ qoff[place] = Offset(f.pc)
             /\ Offset(f.pc) + f.n <= PARCELS
RingRight ==
  /\ rdptr \in 0..2
  /\ \A i \in 0..2 : Stored(Buf(i), After(rdptr, i))
  /\ \A k \in 0..3 : Filled(k) => wrptr = After(rdptr, k)

LEMMA AfterIs ==
  ASSUME NEW p \in 0..2
  PROVE  /\ \A i \in 0..3 : After(p, i) \in 0..2
         /\ After(p, 0) = p /\ After(p, 3) = p
         /\ \A i, j \in 0..2 : After(p, i) = After(p, j) => i = j
         /\ \A i, j \in 0..2 : After(After(p, i), j) = After(p, i + j)
         /\ \A i \in 0..2 : \E j \in 0..2 : i = After(p, j)
<1>1. \A i \in 0..4 : After(p, i) = IF p + i < 3 THEN p + i ELSE IF p + i < 6 THEN p + i - 3 ELSE 0
  BY DEF After
<1>2. \A i, j \in 0..2 : After(After(p, i), j) = After(p, i + j)
  BY DEF After
<1>3. \A i \in 0..2 : \E j \in 0..2 : i = After(p, j)
  <2> TAKE i \in 0..2
  <2>1. CASE i < p
    <3>1. i - p + 3 \in 0..2 /\ i = After(p, i - p + 3)
      BY <1>1, <2>1
    <3> QED
      BY <3>1
  <2>2. CASE ~(i < p)
    <3>1. i - p \in 0..2 /\ i = After(p, i - p)
      BY <1>1, <2>2
    <3> QED
      BY <3>1
  <2> QED
    BY <2>1, <2>2
<1>4. After(p, 0) = p /\ After(p, 3) = p
  BY <1>1
<1>5. \A i, j \in 0..2 : After(p, i) = After(p, j) => i = j
  BY <1>1
<1>6. \A i \in 0..3 : After(p, i) \in 0..2
  BY <1>1
<1> QED
  BY <1>2, <1>3, <1>4, <1>5, <1>6

LEMMA BufferCounts ==
  ASSUME NEW k \in 0..3, Filled(k), NEW flush \in BOOLEAN, ~flush,
         NEW used, used = ifu_fb_consume(flush)
  PROVE  /\ used \in 0..2 /\ used <= k
         /\ \A i \in 0..2 : Buf(i).n \in Nat /\ Rest(flush, i).n \in Nat
         /\ \A i \in 0..2 : Buf(i).n > 0 <=> i < k
         /\ \A i \in 0..2 : Rest(flush, i).n > 0 <=> used <= i /\ i < k
<1>1. used \in 0..2 /\ used <= k
  BY ConsumeRange
<1>2. /\ sf0(flush).n \in Nat /\ sf1(flush).n \in Nat
      /\ sf0(flush).n > 0 => f0.n > 0
      /\ sf1(flush).n > 0 => f1.n > 0
      /\ sf0(flush).n > 0 /\ f1.n > 0 => sf1(flush).n > 0
  BY ShiftedBuffers
<1>3. /\ f0.n \in Nat /\ f1.n \in Nat /\ f2.n \in Nat
      /\ f0.n > 0 <=> k >= 1
      /\ f1.n > 0 <=> k >= 2
      /\ f2.n > 0 <=> k >= 3
  BY DEF Filled
<1>4. used = IF f0.n = 0 \/ sf0(flush).n > 0 THEN 0
             ELSE IF f1.n > 0 /\ sf1(flush).n = 0 THEN 2 ELSE 1
  BY DEF ifu_fb_consume
<1>5. Rest(flush, 0) = sf0(flush) /\ Rest(flush, 1) = sf1(flush) /\ Rest(flush, 2) = f2
  BY DEF Rest
<1>6. Buf(0) = f0 /\ Buf(1) = f1 /\ Buf(2) = f2
  BY DEF Buf
<1> DEFINE a == f0.n
           b == f1.n
           e == f2.n
           x == Rest(flush, 0).n
           y == Rest(flush, 1).n
           z == Rest(flush, 2).n
<1>14. /\ {a, b, e, x, y, z} \subseteq Nat
       /\ x > 0 => a > 0
       /\ y > 0 => b > 0
       /\ x > 0 /\ b > 0 => y > 0
       /\ a > 0 <=> k >= 1
       /\ b > 0 <=> k >= 2
       /\ e > 0 <=> k >= 3
       /\ z = e
       /\ used = IF a = 0 \/ x > 0 THEN 0 ELSE IF b > 0 /\ y = 0 THEN 2 ELSE 1
  <2>1. /\ x = sf0(flush).n /\ y = sf1(flush).n /\ z = e
    BY <1>5
  <2> HIDE DEF x, y, z, a, b, e
  <2>2. {a, b, e, x, y, z} \subseteq Nat
    BY <1>2, <1>3, <2>1 DEF a, b, e
  <2>3. used = IF a = 0 \/ x > 0 THEN 0 ELSE IF b > 0 /\ y = 0 THEN 2 ELSE 1
    BY <1>4, <2>1 DEF a, b
  <2>4. /\ x > 0 => a > 0
        /\ y > 0 => b > 0
        /\ x > 0 /\ b > 0 => y > 0
    BY <1>2, <2>1 DEF a, b
  <2> QED
    BY <1>3, <2>1, <2>2, <2>3, <2>4 DEF a, b, e
<1> HIDE DEF a, b, e, x, y, z
<1>7. Rest(flush, 0).n > 0 <=> used <= 0 /\ 0 < k
  <2>1. x > 0 <=> used <= 0 /\ 0 < k
    BY <1>14
  <2> QED
    BY <2>1 DEF x
<1>8. Rest(flush, 1).n > 0 <=> used <= 1 /\ 1 < k
  <2>1. y > 0 <=> used <= 1 /\ 1 < k
    BY <1>14
  <2> QED
    BY <2>1 DEF y
<1>9. Rest(flush, 2).n > 0 <=> used <= 2 /\ 2 < k
  <2>1. z > 0 <=> used <= 2 /\ 2 < k
    BY <1>1, <1>14
  <2> QED
    BY <2>1 DEF z
<1>10. \A i \in 0..2 : i = 0 \/ i = 1 \/ i = 2
  OBVIOUS
<1>11. \A i \in 0..2 : Buf(i).n \in Nat /\ Rest(flush, i).n \in Nat
  BY <1>2, <1>3, <1>5, <1>6, <1>10
<1>12. \A i \in 0..2 : Buf(i).n > 0 <=> i < k
  BY <1>3, <1>6, <1>10
<1>13. \A i \in 0..2 : Rest(flush, i).n > 0 <=> used <= i /\ i < k
  BY <1>7, <1>8, <1>9, <1>10
<1> QED
  BY <1>1, <1>11, <1>12, <1>13

(* Buffers move up by as many as were emptied, and the fetch goes behind them. *)
LEMMA AlignerMoves ==
  ASSUME NEW k \in 0..3, Filled(k), NEW flush \in BOOLEAN, ~flush,
         NEW used, used = ifu_fb_consume(flush), NEW got, got.n \in Nat, AlnClock(flush, got),
         got.n > 0 => k < 3, NEW j \in 0..2
  PROVE  /\ j + used < k => Buf(j)' = Rest(flush, j + used)
         /\ j + used = k => Buf(j)'.n = got.n /\ (got.n > 0 => Buf(j)'.pc = got.pc)
         /\ j + used > k => Buf(j)'.n = 0
<1> DEFINE v0 == sf0(flush).n > 0
           v1 == sf1(flush).n > 0
           v2 == f2.n > 0
           g == [n |-> got.n, pc |-> got.pc]
<1>1. /\ used \in 0..2 /\ used <= k
      /\ \A i \in 0..2 : Rest(flush, i).n \in Nat
      /\ \A i \in 0..2 : Rest(flush, i).n > 0 <=> used <= i /\ i < k
  BY BufferCounts
<1>2. Rest(flush, 0) = sf0(flush) /\ Rest(flush, 1) = sf1(flush) /\ Rest(flush, 2) = f2
  BY DEF Rest
<1>3. /\ v0 <=> used = 0 /\ 0 < k
      /\ v1 <=> used <= 1 /\ 1 < k
      /\ v2 <=> k = 3
  BY <1>1, <1>2
<1>4. /\ sf0(flush).n \in Nat /\ sf1(flush).n \in Nat /\ f2.n \in Nat
      /\ ~v0 => sf0(flush).n = 0
      /\ ~v1 => sf1(flush).n = 0
      /\ ~v2 => f2.n = 0
  BY <1>1, <1>2
<1>5. Buf(0)' = f0' /\ Buf(1)' = f1' /\ Buf(2)' = f2'
  BY DEF Buf
<1>6. g.n = got.n /\ g.pc = got.pc /\ EmptyBuffer.n = 0
  BY DEF EmptyBuffer
<1>7. j = 0 \/ j = 1 \/ j = 2
  OBVIOUS
<1>8. CASE ~v0 /\ ~v1 /\ ~v2
  <2>1. f0' = (IF got.n > 0 THEN g ELSE sf0(flush)) /\ f1' = sf1(flush) /\ f2' = f2
    BY <1>8 DEF AlnClock
  <2> HIDE DEF g
  <2>2. used = k
    BY <1>1, <1>3, <1>8
  <2> QED
    BY <1>1, <1>4, <1>5, <1>6, <1>7, <1>8, <2>1, <2>2
<1>9. CASE ~v0 /\ ~v1 /\ v2
  <2>1. f0' = f2 /\ f2' = EmptyBuffer /\ f1' = IF got.n > 0 THEN g ELSE sf1(flush)
    BY <1>9 DEF AlnClock
  <2>2. used = 2 /\ k = 3
    BY <1>1, <1>3, <1>9
  <2> HIDE DEF g
  <2> QED
    BY <1>2, <1>4, <1>5, <1>6, <1>7, <1>9, <2>1, <2>2
<1>10. CASE ~v0 /\ v1 /\ ~v2
  <2>1. f0' = sf1(flush) /\ f2' = f2 /\ f1' = IF got.n > 0 THEN g ELSE EmptyBuffer
    BY <1>10 DEF AlnClock
  <2>2. used = 1 /\ k = 2
    BY <1>1, <1>3, <1>10
  <2> HIDE DEF g
  <2> QED
    BY <1>2, <1>4, <1>5, <1>6, <1>7, <1>10, <2>1, <2>2
<1>11. CASE ~v0 /\ v1 /\ v2
  <2>1. f0' = sf1(flush) /\ f1' = f2 /\ f2' = IF got.n > 0 THEN g ELSE EmptyBuffer
    BY <1>11 DEF AlnClock
  <2>2. used = 1 /\ k = 3
    BY <1>1, <1>3, <1>11
  <2> HIDE DEF g
  <2> QED
    BY <1>2, <1>4, <1>5, <1>6, <1>7, <1>11, <2>1, <2>2
<1>12. CASE v0 /\ ~v1
  <2>1. used = 0 /\ k = 1 /\ ~v2
    BY <1>1, <1>3, <1>12
  <2>2. f0' = sf0(flush) /\ f2' = f2 /\ f1' = IF got.n > 0 THEN g ELSE sf1(flush)
    BY <1>12, <2>1 DEF AlnClock
  <2> HIDE DEF g
  <2> QED
    BY <1>2, <1>4, <1>5, <1>6, <1>7, <1>12, <2>1, <2>2
<1>13. CASE v0 /\ v1
  <2>1. used = 0 /\ k >= 2
    BY <1>1, <1>3, <1>13
  <2>2. f0' = sf0(flush) /\ f1' = sf1(flush) /\ f2' = IF got.n > 0 /\ ~v2 THEN g ELSE f2
    BY <1>13 DEF AlnClock
  <2> HIDE DEF g
  <2> QED
    BY <1>2, <1>3, <1>4, <1>5, <1>6, <1>7, <1>13, <2>1, <2>2
<1> QED
  BY <1>8, <1>9, <1>10, <1>11, <1>12, <1>13

(* A parcel further on in a group. *)
LEMMA Within ==
  ASSUME NEW pc \in Addr, NEW n \in Nat, NEW s \in Nat, s < n, Offset(pc) + n <= PARCELS
  PROVE  /\ Plus(pc, s) \in Addr /\ Plus(pc, s) = pc + s
         /\ Group(Plus(pc, s)) = Group(pc)
         /\ Offset(Plus(pc, s)) = Offset(pc) + s
         /\ (Offset(pc) + s) % PARCELS = Offset(pc) + s
<1>1. Offset(pc) \in 0..PARCELS - 1 /\ PARCELS \in Nat \ {0}
  BY AddrIs, AddrAssumption
<1>2. Offset(pc) + s <= PARCELS - 1
  BY <1>1
<1>3. Plus(pc, s) = pc + s /\ pc + s \in Addr /\ Group(pc + s) = Group(pc)
      /\ Offset(pc + s) = Offset(pc) + s
  BY <1>2, PlusInGroup
<1>4. (Offset(pc) + s) % PARCELS = Offset(pc) + s
  <2> DEFINE r == Offset(pc) + s
  <2>1. r \in 0..2 * PARCELS - 1 /\ r < PARCELS
    BY <1>1, <1>2
  <2> HIDE DEF r
  <2>2. r % PARCELS = r
    BY <1>1, <2>1, Wraps
  <2> QED
    BY <2>2 DEF r
<1> QED
  BY <1>3, <1>4

(* What the shift leaves in a buffer is where its place and its offset say. *)
LEMMA RestStored ==
  ASSUME RingRight, NEW k \in 0..3, Filled(k), NEW flush \in BOOLEAN, ~flush,
         NEW used, used = ifu_fb_consume(flush), NEW i \in 0..2, used <= i, i < k
  PROVE  LET r == Rest(flush, i)
         IN  /\ r.n \in Nat \ {0} /\ r.pc \in Addr
             /\ q[After(rdptr, i)] = Group(r.pc)
             /\ qoff_eff(flush, After(rdptr, i)) = Offset(r.pc)
             /\ Offset(r.pc) + r.n <= PARCELS
<1> DEFINE r == Rest(flush, i)
           f == Buf(i)
           place == After(rdptr, i)
           s == shifted(flush)
           t == f1_shift(flush)
<1>1. r.n \in Nat /\ r.n > 0 /\ f.n \in Nat /\ f.n > 0
  BY BufferCounts
<1>2. f.pc \in Addr /\ q[place] = Group(f.pc) /\ qoff[place] = Offset(f.pc)
      /\ Offset(f.pc) + f.n <= PARCELS
  BY <1>1 DEF RingRight, Stored
<1>3. s \in Nat /\ f0.n \in Nat /\ f1.n \in Nat
  BY ShiftedNat DEF Filled
<1>4. t \in Nat
  BY <1>3 DEF f1_shift, Monus
<1>5. rdptr \in 0..2 /\ After(rdptr, 0) = rdptr
      /\ \A a, b \in 0..2 : After(rdptr, a) = After(rdptr, b) => a = b
  BY AfterIs DEF RingRight
<1>6. i = 0 \/ i = 1 \/ i = 2
  OBVIOUS
<1>7. CASE i = 0
  <2>1. f = f0 /\ r = shifted_buffer(f0, s) /\ place = rdptr /\ place # After(rdptr, 1)
    BY <1>5, <1>7 DEF Buf, Rest, sf0
  <2>2. f0.n > s
    BY <1>1, <2>1 DEF shifted_buffer, EmptyBuffer
  <2>3. r.n = f0.n - s /\ r.pc = Plus(f0.pc, s)
    BY <2>1, <2>2 DEF shifted_buffer
  <2>4. first_offset(flush) = s
    BY <1>3, <2>2 DEF first_offset, Least
  <2>9. qoff_eff(flush, place) = (qoff[place] + first_offset(flush)) % PARCELS
    BY <2>1 DEF qoff_eff
  <2>5. qoff_eff(flush, place) = (qoff[place] + s) % PARCELS
    BY <2>4, <2>9
  <2>6. /\ r.pc \in Addr /\ Group(r.pc) = Group(f.pc)
        /\ Offset(r.pc) = Offset(f.pc) + s
        /\ (Offset(f.pc) + s) % PARCELS = Offset(f.pc) + s
    <3> HIDE DEF s
    <3> QED
      BY <1>1, <1>2, <1>3, <2>1, <2>2, <2>3, Within
  <2>7. Offset(f.pc) \in Int /\ PARCELS \in Int
    BY <1>2, AddrIs, AddrAssumption
  <2>8. Offset(r.pc) + r.n <= PARCELS
    <3> HIDE DEF r, f, s
    <3> QED
      BY <1>1, <1>2, <1>3, <2>1, <2>3, <2>6, <2>7
  <2> QED
    BY <1>1, <1>2, <2>5, <2>6, <2>8
<1>8. CASE i = 1
  <2>1. f = f1 /\ r = shifted_buffer(f1, t) /\ place # rdptr /\ place = After(rdptr, 1)
    BY <1>5, <1>8 DEF Buf, Rest, sf1
  <2>2. f1.n > t
    BY <1>1, <2>1 DEF shifted_buffer, EmptyBuffer
  <2>3. r.n = f1.n - t /\ r.pc = Plus(f1.pc, t)
    BY <2>1, <2>2 DEF shifted_buffer
  <2>5. qoff_eff(flush, place) = (qoff[place] + t) % PARCELS
    BY <2>1 DEF qoff_eff
  <2>6. /\ r.pc \in Addr /\ Group(r.pc) = Group(f.pc)
        /\ Offset(r.pc) = Offset(f.pc) + t
        /\ (Offset(f.pc) + t) % PARCELS = Offset(f.pc) + t
    <3> HIDE DEF t
    <3> QED
      BY <1>1, <1>2, <1>4, <2>1, <2>2, <2>3, Within
  <2>7. Offset(f.pc) \in Int /\ PARCELS \in Int
    BY <1>2, AddrIs, AddrAssumption
  <2>8. Offset(r.pc) + r.n <= PARCELS
    <3> HIDE DEF r, f, t
    <3> QED
      BY <1>1, <1>2, <1>4, <2>1, <2>3, <2>6, <2>7
  <2> QED
    BY <1>1, <1>2, <2>5, <2>6, <2>8
<1>9. CASE i = 2
  <2>1. f = f2 /\ r = f2 /\ place # rdptr /\ place # After(rdptr, 1)
    BY <1>5, <1>9 DEF Buf, Rest
  <2>2. qoff_eff(flush, place) = qoff[place]
    BY <2>1 DEF qoff_eff
  <2> QED
    BY <1>1, <1>2, <2>1, <2>2
<1> QED
  BY <1>6, <1>7, <1>8, <1>9

(* The ring after a clock. *)
LEMMA RingMoves ==
  ASSUME RingRight, NEW k \in 0..3, Filled(k), NEW flush \in BOOLEAN, ~flush,
         NEW used, used = ifu_fb_consume(flush), NEW got, got.n \in Nat,
         AlnClock(flush, got), got.n > 0 => k < 3
  PROVE  /\ rdptr' = After(rdptr, used)
         /\ wrptr' = IF got.n > 0 THEN After(rdptr, k + 1) ELSE After(rdptr, k)
         /\ \A i \in 0..2 : used <= i /\ i < k =>
              /\ q'[After(rdptr, i)] = q[After(rdptr, i)]
              /\ qoff'[After(rdptr, i)] = qoff_eff(flush, After(rdptr, i))
         /\ got.n > 0 => /\ q'[After(rdptr, k)] = got.group
                         /\ qoff'[After(rdptr, k)] = Offset(got.pc)
<1> DEFINE written == IF got.n > 0 THEN {wrptr} ELSE {}
           dead == {After(rdptr, i) : i \in 0..used - 1} \ written
<1>1. /\ q' = [i \in 0..2 |-> IF i \in dead THEN NoGroup
                              ELSE IF i \in written THEN got.group ELSE q[i]]
      /\ qoff' = [i \in 0..2 |-> IF i \in dead THEN 0
                                 ELSE IF i \in written THEN Offset(got.pc)
                                 ELSE qoff_eff(flush, i)]
      /\ rdptr' = After(rdptr, used)
      /\ wrptr' = IF got.n > 0 THEN After(wrptr, 1) ELSE wrptr
  BY DEF AlnClock
<1>2. rdptr \in 0..2 /\ wrptr = After(rdptr, k)
  BY DEF RingRight
<1>3. /\ \A i \in 0..3 : After(rdptr, i) \in 0..2
      /\ \A i, j \in 0..2 : After(rdptr, i) = After(rdptr, j) => i = j
      /\ \A i, j \in 0..2 : After(After(rdptr, i), j) = After(rdptr, i + j)
  BY <1>2, AfterIs
<1>4. used \in 0..2 /\ used <= k
  BY BufferCounts
<1>5. ASSUME NEW i \in 0..2, used <= i, i < k
      PROVE  /\ q'[After(rdptr, i)] = q[After(rdptr, i)]
             /\ qoff'[After(rdptr, i)] = qoff_eff(flush, After(rdptr, i))
  <2>1. After(rdptr, i) \notin dead
    BY <1>3, <1>4, <1>5
  <2>2. After(rdptr, i) \notin written
    BY <1>2, <1>3, <1>5
  <2>3. After(rdptr, i) \in 0..2
    BY <1>3
  <2> HIDE DEF dead, written
  <2> QED
    BY <1>1, <2>1, <2>2, <2>3
<1>6. ASSUME got.n > 0
      PROVE  /\ q'[After(rdptr, k)] = got.group
             /\ qoff'[After(rdptr, k)] = Offset(got.pc)
             /\ After(wrptr, 1) = After(rdptr, k + 1)
  <2>1. k \in 0..2
    BY <1>6
  <2>2. After(rdptr, k) \in 0..2 /\ After(rdptr, k) \in written /\ After(rdptr, k) \notin dead
    BY <1>2, <1>3, <1>6
  <2>3. After(wrptr, 1) = After(rdptr, k + 1)
    BY <1>2, <1>3, <2>1
  <2> HIDE DEF dead, written
  <2> QED
    BY <1>1, <2>2, <2>3
<1> QED
  BY <1>1, <1>2, <1>5, <1>6

LEMMA RingStep ==
  ASSUME RingRight, NEW k \in 0..3, Filled(k), NEW flush \in BOOLEAN,
         NEW got, Delivery(got), next \in Addr, AlnClock(flush, got), got.n > 0 => k < 3
  PROVE  RingRight'
<1>1. CASE flush
  <2>1. f0'.n = 0 /\ f1'.n = 0 /\ f2'.n = 0 /\ rdptr' = 0 /\ wrptr' = 0
    BY <1>1 DEF AlnClock, EmptyBuffer
  <2>2. \A i \in 0..2 : Stored(Buf(i), After(rdptr, i))'
    BY <2>1 DEF Stored, Buf
  <2>3. ASSUME NEW j \in 0..3, Filled(j)' PROVE wrptr' = After(rdptr', j)
    <3>1. j = 0
      BY <2>1, <2>3 DEF Filled
    <3> QED
      BY <2>1, <3>1, AfterIs
  <2> QED
    BY <2>1, <2>2, <2>3 DEF RingRight
<1>2. CASE ~flush
  <2> DEFINE used == ifu_fb_consume(flush)
  <2>1. got.n \in Nat
    BY DEF Delivery
  <2>2. used \in 0..2 /\ used <= k
    BY <1>2, BufferCounts
  <2>3. /\ rdptr' = After(rdptr, used)
        /\ wrptr' = IF got.n > 0 THEN After(rdptr, k + 1) ELSE After(rdptr, k)
        /\ \A i \in 0..2 : used <= i /\ i < k =>
             /\ q'[After(rdptr, i)] = q[After(rdptr, i)]
             /\ qoff'[After(rdptr, i)] = qoff_eff(flush, After(rdptr, i))
        /\ got.n > 0 => /\ q'[After(rdptr, k)] = got.group
                        /\ qoff'[After(rdptr, k)] = Offset(got.pc)
    BY <1>2, <2>1, RingMoves
  <2>4. \A j \in 0..2 :
          /\ j + used < k => Buf(j)' = Rest(flush, j + used)
          /\ j + used = k => Buf(j)'.n = got.n /\ (got.n > 0 => Buf(j)'.pc = got.pc)
          /\ j + used > k => Buf(j)'.n = 0
    BY <1>2, <2>1, AlignerMoves
  <2>5. /\ rdptr \in 0..2
        /\ \A i \in 0..3 : After(rdptr, i) \in 0..2
        /\ \A i, j \in 0..2 : After(After(rdptr, i), j) = After(rdptr, i + j)
    BY AfterIs DEF RingRight
  <2>6. \A i \in 0..2 : used <= i /\ i < k =>
          /\ Rest(flush, i).n \in Nat \ {0} /\ Rest(flush, i).pc \in Addr
          /\ q[After(rdptr, i)] = Group(Rest(flush, i).pc)
          /\ qoff_eff(flush, After(rdptr, i)) = Offset(Rest(flush, i).pc)
          /\ Offset(Rest(flush, i).pc) + Rest(flush, i).n <= PARCELS
    BY <1>2, RestStored
  <2> HIDE DEF used
  <2>7. ASSUME NEW j \in 0..2 PROVE Stored(Buf(j), After(rdptr, j))'
    <3>1. After(rdptr', j) = After(rdptr, j + used)
      BY <2>2, <2>3, <2>5
    <3>2. CASE j + used < k
      <4>1. j + used \in 0..2 /\ used <= j + used
        BY <2>2, <3>2
      <4>2. Buf(j)' = Rest(flush, j + used)
        BY <2>4, <3>2
      <4>3. /\ q'[After(rdptr, j + used)] = Group(Rest(flush, j + used).pc)
            /\ qoff'[After(rdptr, j + used)] = Offset(Rest(flush, j + used).pc)
        BY <2>3, <2>6, <3>2, <4>1
      <4>4. /\ Rest(flush, j + used).pc \in Addr
            /\ Offset(Rest(flush, j + used).pc) + Rest(flush, j + used).n <= PARCELS
        BY <2>6, <3>2, <4>1
      <4> QED
        BY <3>1, <4>2, <4>3, <4>4 DEF Stored
    <3>3. CASE j + used = k
      <4>1. Buf(j)'.n = got.n /\ (got.n > 0 => Buf(j)'.pc = got.pc)
        BY <2>4, <3>3
      <4>2. got.n > 0 => /\ got.pc \in Addr /\ got.group = Group(got.pc)
                         /\ Offset(got.pc) + got.n <= PARCELS
        <5>1. Offset(next) \in Int /\ PARCELS \in Int
          BY AddrIs, AddrAssumption
        <5> QED
          BY <2>1, <5>1 DEF Delivery
      <4> QED
        BY <2>3, <3>1, <3>3, <4>1, <4>2 DEF Stored
    <3>4. CASE j + used > k
      <4>1. Buf(j)'.n = 0
        BY <2>4, <3>4
      <4> QED
        BY <4>1 DEF Stored
    <3> QED
      BY <2>2, <3>2, <3>3, <3>4
  <2>8. ASSUME NEW m \in 0..3, Filled(m)' PROVE wrptr' = After(rdptr', m)
    <3>1. PICK e \in 0..3 : e = k - used + (IF got.n > 0 THEN 1 ELSE 0)
      <4>1. k - used + (IF got.n > 0 THEN 1 ELSE 0) \in 0..3
        BY <2>2, <2>4, <1>2, <2>1
      <4> QED
        BY <4>1
    <3>5. Filled(e)'
      <4>1. e = IF flush THEN 0 ELSE k - ifu_fb_consume(flush) + (IF got.n > 0 THEN 1 ELSE 0)
        BY <1>2, <3>1 DEF used
      <4> QED
        BY <2>1, <4>1, AlignerCounts
    <3>2. m = e
      BY <2>8, <3>5 DEF Filled
    <3>3. After(After(rdptr, used), e) = After(rdptr, used + e)
      BY <2>2, <2>5, <3>1 DEF After
    <3>4. used + e = k + (IF got.n > 0 THEN 1 ELSE 0)
      BY <2>2, <3>1
    <3> QED
      BY <2>3, <3>2, <3>3, <3>4
  <2>9. rdptr' \in 0..2
    BY <2>2, <2>3, <2>5
  <2> QED
    BY <2>7, <2>8, <2>9 DEF RingRight
<1> QED
  BY <1>1, <1>2

-----------------------------------------------------------------------------
(* Parcels, and the instructions that are cut from them. *)

(* Parcels of the program from an address on. *)
Parcels(pc, n) == [j \in 1..n |-> Plus(pc, j - 1)]

LEMMA Listed ==
  ASSUME NEW S, NEW n \in Nat, NEW s \in [1..n -> S]
  PROVE  s \in Seq(S) /\ Len(s) = n
<1>1. s \in Seq(S)
  BY SeqDef
<1>2. Len(s) \in Nat /\ DOMAIN s = 1..Len(s)
  BY <1>1, LenProperties
<1>3. 1..Len(s) = 1..n
  BY <1>2
<1>4. Len(s) = n
  <2>1. CASE Len(s) < n
    BY <1>1, <1>2, <1>3, <2>1
  <2>2. CASE Len(s) > n
    BY <1>2, <1>3, <2>2
  <2> QED
    BY <1>2, <2>1, <2>2
<1> QED
  BY <1>1, <1>4

LEMMA ParcelsAre ==
  ASSUME NEW pc, NEW n \in Nat, n > 0 => pc \in Int
  PROVE  /\ Parcels(pc, n) \in Seq(Addr) /\ Len(Parcels(pc, n)) = n
         /\ \A j \in 1..n : Parcels(pc, n)[j] = Plus(pc, j - 1)
         /\ n = 0 => Parcels(pc, n) = <<>>
<1>1. \A j \in 1..n : Plus(pc, j - 1) \in Addr
  BY PlusAddr
<1>2. Parcels(pc, n) \in [1..n -> Addr]
  BY <1>1 DEF Parcels
<1>3. Parcels(pc, n) \in Seq(Addr) /\ Len(Parcels(pc, n)) = n
  BY <1>2, Listed
<1>4. n = 0 => Parcels(pc, n) = <<>>
  BY <1>3, EmptySeq
<1> QED
  BY <1>3, <1>4 DEF Parcels

LEMMA PlusPlus ==
  ASSUME NEW a \in Int, NEW s \in Int, NEW j \in Int
  PROVE  Plus(Plus(a, s), j) = Plus(a, s + j)
<1>1. ADDRS \in Nat \ {0}
  BY AddrAssumption
<1> DEFINE b == a + s
           d == b \div ADDRS
           r == b % ADDRS
<1>2. b = ADDRS * d + r /\ r \in 0..ADDRS - 1 /\ d \in Int
  BY <1>1, DivEuclid
<1> DEFINE c == r + j
           e == c \div ADDRS
           t == c % ADDRS
<1>3. c = ADDRS * e + t /\ t \in 0..ADDRS - 1 /\ e \in Int
  <2>1. c \in Int
    BY <1>2
  <2> HIDE DEF c
  <2> QED
    BY <1>1, <2>1, DivEuclid
<1>4. Plus(a, s) = r
  BY DEF Plus
<1>5. Plus(r, j) = t
  BY DEF Plus
<1> DEFINE x == a + (s + j)
<1>6. x = b + j /\ x \in Int
  OBVIOUS
<1> HIDE DEF b, r, d, c, e, t, x
<1>7. x = (d + e) * ADDRS + t /\ d + e \in Int
  <2>1. (d + e) * ADDRS = ADDRS * d + ADDRS * e
    BY <1>1, <1>2, <1>3
  <2>2. c = r + j
    BY DEF c
  <2>3. ADDRS * d \in Int /\ ADDRS * e \in Int /\ b \in Int
    BY <1>1, <1>2, <1>3
  <2> QED
    BY <1>1, <1>2, <1>3, <1>6, <2>1, <2>2, <2>3
<1> DEFINE de == d + e
<1>8. de \in Int /\ x = de * ADDRS + t
  BY <1>7
<1> HIDE DEF de
<1>9. (de * ADDRS + t) % ADDRS = t
  BY <1>1, <1>3, <1>8, DivIs
<1>10. x % ADDRS = t
  BY <1>8, <1>9
<1> QED
  BY <1>4, <1>5, <1>10 DEF Plus, x

LEMMA ParcelsSplit ==
  ASSUME NEW pc, NEW n \in Nat, n > 0 => pc \in Int, NEW s \in 0..n
  PROVE  Parcels(pc, n) = Parcels(pc, s) \o Parcels(Plus(pc, s), n - s)
<1> DEFINE x == Parcels(pc, s)
           y == Parcels(Plus(pc, s), n - s)
           z == Parcels(pc, n)
<1>1. /\ s \in Nat /\ n - s \in Nat
      /\ s > 0 => pc \in Int
      /\ n - s > 0 => Plus(pc, s) \in Int
  BY PlusAddr DEF Addr
<1>2. x \in Seq(Addr) /\ Len(x) = s /\ \A j \in 1..s : x[j] = Plus(pc, j - 1)
  BY <1>1, ParcelsAre
<1>3. y \in Seq(Addr) /\ Len(y) = n - s /\ \A j \in 1..n - s : y[j] = Plus(Plus(pc, s), j - 1)
  BY <1>1, ParcelsAre
<1>4. z \in Seq(Addr) /\ Len(z) = n /\ \A j \in 1..n : z[j] = Plus(pc, j - 1)
  BY ParcelsAre
<1> HIDE DEF x, y, z
<1>5. x \o y \in Seq(Addr) /\ Len(x \o y) = s + (n - s)
      /\ \A j \in 1..s + (n - s) : (x \o y)[j] = IF j <= s THEN x[j] ELSE y[j - s]
  BY <1>2, <1>3, ConcatProperties
<1>6. s + (n - s) = n
  BY <1>1
<1>7. ASSUME NEW j \in 1..n PROVE (x \o y)[j] = z[j]
  <2>1. CASE j <= s
    BY <1>1, <1>2, <1>4, <1>5, <1>6, <1>7, <2>1
  <2>2. CASE ~(j <= s)
    <3>1. j - s \in 1..n - s /\ (x \o y)[j] = y[j - s]
      BY <1>5, <1>6, <1>7, <2>2
    <3>2. y[j - s] = Plus(Plus(pc, s), j - s - 1)
      BY <1>3, <3>1
    <3>3. Plus(Plus(pc, s), j - s - 1) = Plus(pc, s + (j - s - 1))
      BY <1>7, PlusPlus
    <3>4. s + (j - s - 1) = j - 1
      OBVIOUS
    <3> QED
      BY <1>4, <3>1, <3>2, <3>3, <3>4
  <2> QED
    BY <2>1, <2>2
<1>8. z = x \o y
  BY <1>4, <1>5, <1>6, <1>7, SeqEqual
<1> QED
  BY <1>8 DEF x, y, z

-----------------------------------------------------------------------------
(* A parcel of a buffer is where its place and its offset say. *)
LEMMA ParcelIs ==
  ASSUME NEW f, NEW place, Stored(f, place), f.n \in Nat, NEW j \in Nat, j < f.n
  PROVE  /\ ParcelAt(place, qoff[place] + j) = Plus(f.pc, j)
         /\ Plus(f.pc, j) \in Addr
<1>1. f.pc \in Addr /\ q[place] = Group(f.pc) /\ qoff[place] = Offset(f.pc)
      /\ Offset(f.pc) + f.n <= PARCELS
  BY DEF Stored
<1>2. /\ f.pc = Group(f.pc) * PARCELS + Offset(f.pc)
      /\ Group(f.pc) \in Nat /\ Offset(f.pc) \in 0..PARCELS - 1 /\ PARCELS \in Nat \ {0}
  BY <1>1, AddrIs, AddrAssumption
<1>3. Plus(f.pc, j) = f.pc + j /\ Plus(f.pc, j) \in Addr
  BY <1>1, Within
<1>4. q[place] # NoGroup /\ ~(qoff[place] + j >= PARCELS)
  BY <1>1, <1>2 DEF NoGroup
<1>5. ParcelAt(place, qoff[place] + j) = Group(f.pc) * PARCELS + (Offset(f.pc) + j)
  BY <1>1, <1>4 DEF ParcelAt
<1> DEFINE p == Group(f.pc) * PARCELS
<1>6. p \in Nat
  BY <1>2
<1> HIDE DEF p
<1>7. f.pc + j = p + (Offset(f.pc) + j)
  BY <1>2, <1>6 DEF p
<1> QED
  BY <1>3, <1>5, <1>7 DEF p

LEMMA BufferIs ==
  ASSUME NEW f, NEW place, Stored(f, place), f.n \in Nat
  PROVE  BufferParcels(f, place) = Parcels(f.pc, f.n)
<1>1. ASSUME NEW j \in 1..f.n
      PROVE  Held(Plus(f.pc, j - 1), ParcelAt(place, qoff[place] + j - 1)) = Plus(f.pc, j - 1)
  <2>1. j - 1 \in Nat /\ j - 1 < f.n
    BY <1>1
  <2>2. ParcelAt(place, qoff[place] + (j - 1)) = Plus(f.pc, j - 1)
    BY <2>1, ParcelIs
  <2>3. qoff[place] + (j - 1) = qoff[place] + j - 1
    <3>1. f.pc \in Addr /\ qoff[place] = Offset(f.pc)
      BY <2>1 DEF Stored
    <3>2. qoff[place] \in Int
      BY <3>1, AddrIs
    <3> QED
      BY <3>2
  <2> QED
    BY <2>2, <2>3 DEF Held
<1> QED
  BY <1>1 DEF BufferParcels, Parcels

-----------------------------------------------------------------------------
(* The window. *)
Cut(n) == [j \in 1..n |-> alignpc(j - 1)]

LEMMA WindowIs ==
  ASSUME RingRight, NEW k \in 0..3, Filled(k), NEW i \in Nat, i < f0.n + f1.n
  PROVE  aligndata(i) = alignpc(i) /\ alignpc(i) \in Addr
<1>1. f0.n \in Nat /\ f1.n \in Nat
  BY DEF Filled
<1>2. rdptr \in 0..2 /\ After(rdptr, 0) = rdptr
  BY AfterIs DEF RingRight
<1>3. Stored(f0, rdptr) /\ Stored(f1, After(rdptr, 1))
  <2>1. Stored(Buf(0), After(rdptr, 0)) /\ Stored(Buf(1), After(rdptr, 1))
    BY DEF RingRight
  <2> QED
    BY <1>2, <2>1 DEF Buf
<1>4. CASE i < f0.n
  <2>1. ParcelAt(rdptr, qoff[rdptr] + i) = Plus(f0.pc, i) /\ Plus(f0.pc, i) \in Addr
    BY <1>1, <1>3, <1>4, ParcelIs
  <2> QED
    BY <1>4, <2>1 DEF aligndata, alignpc
<1>5. CASE ~(i < f0.n)
  <2> DEFINE j == i - f0.n
             place == After(rdptr, 1)
  <2>1. j \in Nat /\ j < f1.n
    BY <1>1, <1>5
  <2>2. ParcelAt(place, qoff[place] + j) = Plus(f1.pc, j) /\ Plus(f1.pc, j) \in Addr
    <3> HIDE DEF j, place
    <3> QED
      BY <1>1, <1>3, <2>1, ParcelIs DEF place
  <2>3. qoff[place] + j = qoff[place] + i - f0.n
    <3>1. f1.pc \in Addr /\ qoff[place] = Offset(f1.pc)
      BY <1>1, <1>3, <2>1 DEF Stored
    <3>2. qoff[place] \in Int
      BY <3>1, AddrIs
    <3> QED
      BY <1>1, <3>2
  <2> QED
    BY <1>5, <2>2, <2>3 DEF aligndata, alignpc
<1> QED
  BY <1>4, <1>5

(* An instruction: its length is what its first parcel says, which is at its pc. *)
InstrRight(i) ==
  /\ i.parcels \in Seq(Addr) /\ Len(i.parcels) = (IF i.parcels[1] \in Long THEN 2 ELSE 1)
  /\ i.pc = i.parcels[1]

LEMMA CutIs ==
  ASSUME RingRight, NEW k \in 0..3, Filled(k), NEW n \in Nat, n <= f0.n + f1.n
  PROVE  /\ Cut(n) \in Seq(Addr) /\ Len(Cut(n)) = n
         /\ \A j \in 1..n : Cut(n)[j] = alignpc(j - 1)
<1>1. f0.n \in Nat /\ f1.n \in Nat
  BY DEF Filled
<1>2. ASSUME NEW j \in 1..n PROVE alignpc(j - 1) \in Addr
  <2>1. j - 1 \in Nat /\ j - 1 < f0.n + f1.n
    BY <1>1, <1>2
  <2> QED
    BY <2>1, WindowIs
<1>3. Cut(n) \in [1..n -> Addr]
  BY <1>2 DEF Cut
<1> QED
  BY <1>3, Listed DEF Cut

(* What the aligner gives to decode is the window cut into instructions. *)
LEMMA Instructions ==
  ASSUME RingRight, NEW k \in 0..3, Filled(k), NEW flush \in BOOLEAN
  PROVE  /\ ifu_i0_valid(flush) =>
              /\ InstrRight(ifu_i0) /\ ifu_i0.parcels = Cut(i0_len)
              /\ i0_len <= f0.n + f1.n
         /\ ifu_i1_valid(flush) =>
              /\ InstrRight(ifu_i1) /\ ifu_i0.parcels \o ifu_i1.parcels = Cut(i0_len + i1_len)
              /\ i0_len + i1_len <= f0.n + f1.n
              /\ ifu_i0_valid(flush)
<1>1. f0.n \in Nat /\ f1.n \in Nat
  BY DEF Filled
<1>2. alignval \in Nat /\ alignval <= f0.n + f1.n
  BY <1>1 DEF alignval, Least, Window
<1>3. i0_len \in 1..2 /\ i1_len \in 1..2
  BY DEF i0_len, i1_len
<1>4. ifu_i1_valid(flush) => ifu_i0_valid(flush)
  BY <1>2, <1>3 DEF ifu_i0_valid, ifu_i1_valid
<1>5. ASSUME ifu_i0_valid(flush)
      PROVE  /\ InstrRight(ifu_i0) /\ ifu_i0.parcels = Cut(i0_len)
             /\ i0_len <= f0.n + f1.n
  <2>1. i0_len <= alignval
    BY <1>5 DEF ifu_i0_valid
  <2>2. i0_len <= f0.n + f1.n
    BY <1>1, <1>2, <1>3, <2>1
  <2>3. f0.n > 0
    BY <1>1, <1>3, <2>1 DEF alignval
  <2>4. \A j \in 1..i0_len : aligndata(j - 1) = alignpc(j - 1)
    <3> TAKE j \in 1..i0_len
    <3>1. j - 1 \in Nat /\ j - 1 < f0.n + f1.n
      BY <1>1, <1>3, <2>2
    <3> QED
      BY <3>1, WindowIs
  <2>5. ifu_i0.parcels = Cut(i0_len)
    BY <2>4 DEF ifu_i0, Cut
  <2>6. ifu_i0.parcels \in Seq(Addr) /\ Len(ifu_i0.parcels) = i0_len
        /\ ifu_i0.parcels[1] = alignpc(0)
    BY <1>3, <2>2, <2>5, CutIs
  <2>7. aligndata(0) = alignpc(0)
    BY <1>3, <2>4
  <2>8. alignpc(0) = f0.pc
    <3>1. alignpc(0) = Plus(f0.pc, 0)
      BY <2>3 DEF alignpc
    <3>2. f0.pc \in Addr /\ Offset(f0.pc) + f0.n <= PARCELS
      <4>1. Stored(Buf(0), After(rdptr, 0))
        BY DEF RingRight
      <4> QED
        BY <2>3, <4>1 DEF Stored, Buf
    <3>3. Plus(f0.pc, 0) = f0.pc + 0
      BY <1>1, <2>3, <3>2, Within
    <3> QED
      BY <3>1, <3>2, <3>3 DEF Addr
  <2>9. ifu_i0.pc = f0.pc
    BY DEF ifu_i0
  <2>10. i0_len = IF aligndata(0) \in Long THEN 2 ELSE 1
    BY DEF i0_len
  <2> QED
    BY <2>2, <2>5, <2>6, <2>7, <2>8, <2>9, <2>10 DEF InstrRight
<1>6. ASSUME ifu_i1_valid(flush)
      PROVE  /\ InstrRight(ifu_i1) /\ ifu_i0.parcels \o ifu_i1.parcels = Cut(i0_len + i1_len)
             /\ i0_len + i1_len <= f0.n + f1.n
  <2>1. i0_len + i1_len <= f0.n + f1.n
    BY <1>1, <1>2, <1>3, <1>6 DEF ifu_i1_valid
  <2> DEFINE a == i0_len
             b == i1_len
             y == ifu_i1.parcels
  <2>2. a \in 1..2 /\ b \in 1..2 /\ a + b \in Nat
    BY <1>3
  <2>3. ifu_i0.parcels = Cut(a)
    BY <1>4, <1>5, <1>6
  <2>4. b = (IF aligndata(a) \in Long THEN 2 ELSE 1) /\ ifu_i1.pc = alignpc(a)
        /\ y = [j \in 1..b |-> aligndata(a + j - 1)]
    BY DEF i1_len, ifu_i1
  <2> HIDE DEF a, b, y
  <2>5. \A j \in 1..b : aligndata(a + j - 1) = alignpc(a + j - 1) /\ alignpc(a + j - 1) \in Addr
    <3> TAKE j \in 1..b
    <3>1. a + j - 1 \in Nat /\ a + j - 1 < f0.n + f1.n
      BY <1>1, <2>1, <2>2 DEF a, b
    <3> QED
      BY <3>1, WindowIs
  <2>6. y \in [1..b -> Addr] /\ \A j \in 1..b : y[j] = alignpc(a + j - 1)
    BY <2>4, <2>5
  <2>7. y \in Seq(Addr) /\ Len(y) = b
    BY <2>2, <2>6, Listed
  <2>8. InstrRight(ifu_i1)
    <3>1. 1 \in 1..b /\ a + 1 - 1 = a
      BY <2>2
    <3>2. y[1] = alignpc(a) /\ aligndata(a) = alignpc(a)
      BY <2>5, <2>6, <3>1
    <3> QED
      BY <2>4, <2>7, <3>2 DEF InstrRight, y
  <2>9. Cut(a) \in Seq(Addr) /\ Len(Cut(a)) = a /\ \A j \in 1..a : Cut(a)[j] = alignpc(j - 1)
    BY <1>1, <2>1, <2>2, CutIs DEF a, b
  <2>10. /\ Cut(a + b) \in Seq(Addr) /\ Len(Cut(a + b)) = a + b
         /\ \A j \in 1..a + b : Cut(a + b)[j] = alignpc(j - 1)
    BY <1>1, <2>1, <2>2, CutIs DEF a, b
  <2>11. /\ Cut(a) \o y \in Seq(Addr) /\ Len(Cut(a) \o y) = a + b
         /\ \A j \in 1..a + b : (Cut(a) \o y)[j] = IF j <= a THEN Cut(a)[j] ELSE y[j - a]
    <3> DEFINE x == Cut(a)
    <3>1. x \in Seq(Addr) /\ Len(x) = a
      BY <2>9
    <3> HIDE DEF x
    <3>2. /\ x \o y \in Seq(Addr) /\ Len(x \o y) = a + b
          /\ \A j \in 1..a + b : (x \o y)[j] = IF j <= a THEN x[j] ELSE y[j - a]
      BY <2>7, <3>1, ConcatProperties
    <3> QED
      BY <3>2 DEF x
  <2>12. ASSUME NEW j \in 1..a + b PROVE (Cut(a) \o y)[j] = Cut(a + b)[j]
    <3>1. CASE j <= a
      BY <2>2, <2>9, <2>10, <2>11, <2>12, <3>1
    <3>2. CASE ~(j <= a)
      <4>1. j - a \in 1..b /\ a + (j - a) - 1 = j - 1
        BY <2>2, <2>12, <3>2
      <4> QED
        BY <2>6, <2>10, <2>11, <2>12, <3>2, <4>1
    <3> QED
      BY <3>1, <3>2
  <2>13. Cut(a) \o y = Cut(a + b)
    BY <2>10, <2>11, <2>12, SeqEqual
  <2> QED
    BY <2>1, <2>3, <2>8, <2>13 DEF a, b, y
<1> QED
  BY <1>4, <1>5, <1>6

(* Parcels of a buffer, what the shift leaves of them, and what leaves the window. *)
InBuf(i) == Parcels(Buf(i).pc, Buf(i).n)
InRest(flush, i) == Parcels(Rest(flush, i).pc, Rest(flush, i).n)
Issue(flush) ==
  IF ~i0_shift(flush) THEN <<>>
  ELSE IF i1_shift(flush) THEN ifu_i0.parcels \o ifu_i1.parcels ELSE ifu_i0.parcels

LEMMA IssueIs ==
  ASSUME RingRight, NEW k \in 0..3, Filled(k), NEW flush \in BOOLEAN
  PROVE  /\ shifted(flush) \in Nat /\ shifted(flush) <= f0.n + f1.n
         /\ Issue(flush) = Cut(shifted(flush))
<1>1. f0.n \in Nat /\ f1.n \in Nat /\ shifted(flush) \in Nat
  BY ShiftedNat DEF Filled
<1>2. CASE ~i0_shift(flush)
  <2>1. shifted(flush) = 0 /\ Issue(flush) = <<>>
    BY <1>2 DEF shifted, Issue
  <2>2. Cut(0) \in Seq(Addr) /\ Len(Cut(0)) = 0
    BY <1>1, CutIs
  <2>3. Cut(0) = <<>>
    BY <2>2, EmptySeq
  <2> QED
    BY <1>1, <2>1, <2>3
<1>3. CASE i0_shift(flush) /\ ~i1_shift(flush)
  <2>1. shifted(flush) = i0_len /\ Issue(flush) = ifu_i0.parcels
    BY <1>3 DEF shifted, Issue
  <2>2. ifu_i0_valid(flush)
    BY <1>3 DEF i0_shift
  <2> QED
    BY <1>1, <2>1, <2>2, Instructions
<1>4. CASE i0_shift(flush) /\ i1_shift(flush)
  <2>1. shifted(flush) = i0_len + i1_len /\ Issue(flush) = ifu_i0.parcels \o ifu_i1.parcels
    BY <1>4 DEF shifted, Issue
  <2>2. ifu_i1_valid(flush)
    BY <1>4 DEF i1_shift
  <2> QED
    BY <1>1, <2>1, <2>2, Instructions
<1> QED
  BY <1>2, <1>3, <1>4

LEMMA InBufIs ==
  ASSUME RingRight, NEW k \in 0..3, Filled(k), NEW i \in 0..2
  PROVE  /\ Buf(i).n \in Nat /\ (Buf(i).n > 0 => Buf(i).pc \in Addr /\ Buf(i).pc \in Int)
         /\ InBuf(i) \in Seq(Addr) /\ Len(InBuf(i)) = Buf(i).n
         /\ i >= k => InBuf(i) = <<>>
<1>1. Buf(i).n \in Nat /\ (Buf(i).n > 0 <=> i < k)
  BY BufferCounts
<1>2. Buf(i).n > 0 => Buf(i).pc \in Addr
  BY DEF RingRight, Stored
<1>3. Buf(i).n > 0 => Buf(i).pc \in Int
  BY <1>2 DEF Addr
<1>4. /\ InBuf(i) \in Seq(Addr) /\ Len(InBuf(i)) = Buf(i).n
      /\ Buf(i).n = 0 => InBuf(i) = <<>>
  BY <1>1, <1>3, ParcelsAre DEF InBuf
<1> QED
  BY <1>1, <1>2, <1>3, <1>4

LEMMA InRestIs ==
  ASSUME RingRight, NEW k \in 0..3, Filled(k), NEW flush \in BOOLEAN, ~flush, NEW i \in 0..2
  PROVE  /\ InRest(flush, i) \in Seq(Addr)
         /\ i >= k \/ i < ifu_fb_consume(flush) => InRest(flush, i) = <<>>
<1> DEFINE used == ifu_fb_consume(flush)
<1>1. Rest(flush, i).n \in Nat /\ (Rest(flush, i).n > 0 <=> used <= i /\ i < k)
  BY BufferCounts
<1>2. Rest(flush, i).n > 0 => Rest(flush, i).pc \in Int
  <2>1. Rest(flush, i).n > 0 => Rest(flush, i).pc \in Addr
    BY <1>1, RestStored
  <2> QED
    BY <2>1 DEF Addr
<1>3. used \in 0..2
  BY BufferCounts
<1>4. /\ InRest(flush, i) \in Seq(Addr)
      /\ Rest(flush, i).n = 0 => InRest(flush, i) = <<>>
  BY <1>1, <1>2, ParcelsAre DEF InRest
<1> QED
  BY <1>1, <1>3, <1>4

(* Concatenation of addresses, and its laws as those of an operation that is not looked
   into. *)
LEMMA Concats ==
  /\ <<>> \in Seq(Addr)
  /\ \A x \in Seq(Addr) : x \o <<>> = x /\ <<>> \o x = x
  /\ \A x, y \in Seq(Addr) : x \o y \in Seq(Addr)
  /\ \A x, y, z \in Seq(Addr) : (x \o y) \o z = x \o (y \o z)
<1>1. <<>> \in Seq(Addr)
  BY EmptySeq
<1>2. \A x \in Seq(Addr) : x \o <<>> = x /\ <<>> \o x = x
  BY ConcatEmptySeq, Zenon
<1>3. \A x, y \in Seq(Addr) : x \o y \in Seq(Addr)
  BY ConcatProperties, Zenon
<1>4. \A x, y, z \in Seq(Addr) : (x \o y) \o z = x \o (y \o z)
  <2> SUFFICES ASSUME NEW x \in Seq(Addr), NEW y \in Seq(Addr), NEW z \in Seq(Addr)
               PROVE  (x \o y) \o z = x \o (y \o z)
    OBVIOUS
  <2> QED
    BY ConcatAssociative
<1> QED
  BY <1>1, <1>2, <1>3, <1>4, Zenon

Cat(x, y) == x \o y
LEMMA CatLaws ==
  /\ <<>> \in Seq(Addr)
  /\ \A x \in Seq(Addr) : Cat(x, <<>>) = x /\ Cat(<<>>, x) = x
  /\ \A x, y \in Seq(Addr) : Cat(x, y) \in Seq(Addr)
  /\ \A x, y, z \in Seq(Addr) : Cat(Cat(x, y), z) = Cat(x, Cat(y, z))
BY Concats, Zenon DEF Cat

LEMMA Assoc ==
  ASSUME NEW x \in Seq(Addr), NEW y \in Seq(Addr), NEW z \in Seq(Addr)
  PROVE  x \o (y \o z) = (x \o y) \o z
<1>1. Cat(x, Cat(y, z)) = Cat(Cat(x, y), z)
  BY CatLaws
<1> QED
  BY <1>1, Zenon DEF Cat

(* The shift takes the instructions off the front of the first two buffers. *)
LEMMA ShiftTakes ==
  ASSUME RingRight, NEW k \in 0..3, Filled(k), NEW flush \in BOOLEAN, ~flush
  PROVE  /\ Issue(flush) \in Seq(Addr)
         /\ InBuf(0) \o InBuf(1) = Issue(flush) \o (InRest(flush, 0) \o InRest(flush, 1))
<1> DEFINE s == shifted(flush)
           t == f1_shift(flush)
           n == f0.n
           m == f1.n
<1>1. n \in Nat /\ m \in Nat /\ s \in Nat /\ s <= n + m
  BY IssueIs DEF Filled
<1>2. Issue(flush) = Cut(s) /\ Cut(s) \in Seq(Addr) /\ Len(Cut(s)) = s
      /\ \A j \in 1..s : Cut(s)[j] = alignpc(j - 1)
  BY <1>1, IssueIs, CutIs
<1>3. /\ Rest(flush, 0) = IF n > s THEN [n |-> n - s, pc |-> Plus(f0.pc, s)] ELSE EmptyBuffer
      /\ Rest(flush, 1) = IF m > t THEN [n |-> m - t, pc |-> Plus(f1.pc, t)] ELSE EmptyBuffer
  BY DEF Rest, sf0, sf1, shifted_buffer
<1>4. t = IF s < n THEN 0 ELSE s - n
  BY DEF f1_shift, Monus
<1>5. /\ InBuf(0) = Parcels(f0.pc, n) /\ InBuf(1) = Parcels(f1.pc, m)
      /\ InBuf(0) \in Seq(Addr) /\ InBuf(1) \in Seq(Addr)
      /\ n > 0 => f0.pc \in Addr
      /\ m > 0 => f1.pc \in Addr
  <2>1. Buf(0) = f0 /\ Buf(1) = f1
    BY DEF Buf
  <2>2. /\ InBuf(0) \in Seq(Addr) /\ InBuf(1) \in Seq(Addr)
        /\ Buf(0).n > 0 => Buf(0).pc \in Addr
        /\ Buf(1).n > 0 => Buf(1).pc \in Addr
    BY InBufIs
  <2> QED
    BY <2>1, <2>2 DEF InBuf
<1>6. n > 0 => f0.pc \in Int
  BY <1>5 DEF Addr
<1>7. m > 0 => f1.pc \in Int
  BY <1>5 DEF Addr
<1>8. InRest(flush, 0) \in Seq(Addr) /\ InRest(flush, 1) \in Seq(Addr)
  BY InRestIs
<1>9. \A j \in Nat : alignpc(j) = IF j < n THEN Plus(f0.pc, j) ELSE Plus(f1.pc, j - n)
  BY DEF alignpc
<1> DEFINE a == InRest(flush, 0)
           b == InRest(flush, 1)
           c == Cut(s)
           x == Parcels(f1.pc, t)
<1>10. t \in 0..m
  BY <1>1, <1>4
<1>11. Parcels(f1.pc, m) = x \o Parcels(Plus(f1.pc, t), m - t)
  <2> HIDE DEF m, t
  <2> QED
    BY <1>1, <1>7, <1>10, ParcelsSplit
<1>12. b = Parcels(Plus(f1.pc, t), m - t)
  <2>1. CASE m > t
    BY <1>3, <2>1 DEF InRest
  <2>2. CASE ~(m > t)
    <3>1. m - t = 0 /\ Rest(flush, 1) = EmptyBuffer /\ EmptyBuffer.n = 0
      BY <1>1, <1>3, <1>10, <2>2 DEF EmptyBuffer
    <3>2. b = Parcels(EmptyBuffer.pc, 0)
      BY <3>1 DEF InRest
    <3>3. Parcels(EmptyBuffer.pc, 0) = <<>> /\ Parcels(Plus(f1.pc, t), 0) = <<>>
      BY ParcelsAre
    <3> QED
      BY <3>1, <3>2, <3>3
  <2> QED
    BY <2>1, <2>2
<1>13. x \in Seq(Addr) /\ Len(x) = t /\ \A j \in 1..t : x[j] = Plus(f1.pc, j - 1)
  <2> HIDE DEF t, m
  <2>1. t \in Nat /\ (t > 0 => f1.pc \in Int)
    BY <1>1, <1>7, <1>10
  <2> QED
    BY <2>1, ParcelsAre
<1>14. CASE s < n
  <2>1. t = 0
    BY <1>4, <1>14
  <2>2. a = Parcels(Plus(f0.pc, s), n - s)
    BY <1>3, <1>14 DEF InRest
  <2>3. InBuf(0) = Parcels(f0.pc, s) \o a
    <3>1. s \in 0..n
      BY <1>1, <1>14
    <3> HIDE DEF s, n, a
    <3> QED
      BY <1>1, <1>5, <1>6, <2>2, <3>1, ParcelsSplit
  <2>4. Parcels(f0.pc, s) \in Seq(Addr) /\ Len(Parcels(f0.pc, s)) = s
        /\ \A j \in 1..s : Parcels(f0.pc, s)[j] = Plus(f0.pc, j - 1)
    <3> HIDE DEF s, n
    <3> QED
      BY <1>1, <1>6, <1>14, ParcelsAre
  <2>5. c = Parcels(f0.pc, s)
    <3> DEFINE y == Parcels(f0.pc, s)
    <3>1. ASSUME NEW j \in 1..s PROVE c[j] = y[j]
      <4>1. j - 1 \in Nat /\ j - 1 < n
        BY <1>1, <1>14, <3>1
      <4>2. alignpc(j - 1) = Plus(f0.pc, j - 1)
        BY <1>9, <4>1
      <4> QED
        BY <1>2, <2>4, <3>1, <4>2
    <3> HIDE DEF y, s, c
    <3>2. Len(c) = Len(y) /\ c \in Seq(Addr) /\ y \in Seq(Addr) /\ Len(c) = s
      BY <1>2, <2>4 DEF c, y
    <3> QED
      BY <3>1, <3>2, SeqEqual DEF y
  <2>6. b = InBuf(1)
    <3>1. x = <<>>
      BY <1>13, <2>1, EmptySeq
    <3>2. b \in Seq(Addr) /\ <<>> \o b = b
      BY <1>8, ConcatEmptySeq
    <3> QED
      BY <1>5, <1>11, <1>12, <3>1, <3>2
  <2> HIDE DEF a, b, c
  <2>7. a \in Seq(Addr) /\ b \in Seq(Addr) /\ c \in Seq(Addr)
    BY <1>2, <1>8 DEF a, b, c
  <2>8. (c \o a) \o b = c \o (a \o b)
    BY <2>7, Assoc, Zenon
  <2> QED
    BY <1>2, <2>3, <2>5, <2>6, <2>7, <2>8 DEF a, b, c
<1>15. CASE ~(s < n)
  <2>1. a = <<>>
    <3>1. Rest(flush, 0) = EmptyBuffer /\ EmptyBuffer.n = 0
      BY <1>1, <1>3, <1>15 DEF EmptyBuffer
    <3>2. a = Parcels(EmptyBuffer.pc, 0)
      BY <3>1 DEF InRest
    <3> QED
      BY <3>2, ParcelsAre
  <2> DEFINE y == Parcels(f0.pc, n)
  <2>2. y \in Seq(Addr) /\ Len(y) = n /\ \A j \in 1..n : y[j] = Plus(f0.pc, j - 1)
    <3> HIDE DEF n
    <3> QED
      BY <1>1, <1>6, ParcelsAre
  <2>3. c = y \o x
    <3> HIDE DEF y, x
    <3>1. /\ y \o x \in Seq(Addr) /\ Len(y \o x) = n + t
          /\ \A j \in 1..n + t : (y \o x)[j] = IF j <= n THEN y[j] ELSE x[j - n]
      <4> HIDE DEF n, t
      <4> QED
        BY <1>13, <2>2, ConcatProperties
    <3>2. n + t = s
      BY <1>1, <1>4, <1>15
    <3>3. ASSUME NEW j \in 1..s PROVE c[j] = (y \o x)[j]
      <4>1. j - 1 \in Nat /\ c[j] = alignpc(j - 1)
        BY <1>2, <3>3
      <4>2. CASE j <= n
        <5>1. alignpc(j - 1) = Plus(f0.pc, j - 1)
          BY <1>1, <1>9, <4>1, <4>2
        <5>2. y[j] = Plus(f0.pc, j - 1)
          BY <1>1, <2>2, <3>3, <4>2
        <5> QED
          BY <3>1, <3>2, <3>3, <4>1, <4>2, <5>1, <5>2
      <4>3. CASE ~(j <= n)
        <5>1. alignpc(j - 1) = Plus(f1.pc, j - 1 - n)
          BY <1>1, <1>9, <4>1, <4>3
        <5>2. j - n \in 1..t /\ j - n - 1 = j - 1 - n
          BY <1>1, <1>10, <3>2, <3>3, <4>3
        <5>3. x[j - n] = Plus(f1.pc, j - 1 - n)
          BY <1>13, <5>2
        <5> QED
          BY <3>1, <3>2, <3>3, <4>1, <4>3, <5>1, <5>3
      <4> QED
        BY <4>2, <4>3
    <3> HIDE DEF s, c
    <3>4. c \in Seq(Addr) /\ Len(c) = s
      BY <1>2 DEF c
    <3> QED
      BY <3>1, <3>2, <3>3, <3>4, SeqEqual
  <2> HIDE DEF a, b, c, x, y
  <2>4. b \in Seq(Addr) /\ <<>> \o b = b
    BY <1>8, ConcatEmptySeq DEF b
  <2>5. (y \o x) \o b = y \o (x \o b)
    <3>1. y \in Seq(Addr) /\ x \in Seq(Addr) /\ b \in Seq(Addr)
      BY <1>13, <2>2, <2>4
    <3> QED
      BY <3>1, Assoc, Zenon
  <2>6. InBuf(0) = y /\ InBuf(1) = x \o b
    BY <1>5, <1>11, <1>12 DEF y
  <2> QED
    BY <1>2, <2>1, <2>3, <2>4, <2>5, <2>6 DEF a, b, c
<1> QED
  BY <1>2, <1>14, <1>15

(* The buffers after a clock: what was left of them, and the fetch. *)
LEMMA BuffersFollow ==
  ASSUME RingRight, NEW k \in 0..3, Filled(k), NEW flush \in BOOLEAN, ~flush,
         NEW got, Delivery(got), next \in Addr, AlnClock(flush, got), got.n > 0 => k < 3
  PROVE  (InBuf(0)' \o InBuf(1)') \o InBuf(2)'
           = ((InRest(flush, 0) \o InRest(flush, 1)) \o InRest(flush, 2)) \o Parcels(next, got.n)
<1> DEFINE used == ifu_fb_consume(flush)
           S(i) == InRest(flush, i)
           T(i) == InBuf(i)'
           G == Parcels(next, got.n)
<1>1. got.n \in Nat /\ (got.n > 0 => got.pc = next)
  BY DEF Delivery
<1>2. used \in 0..2 /\ used <= k
  BY BufferCounts
<1>3. \A j \in 0..2 :
        /\ j + used < k => Buf(j)' = Rest(flush, j + used)
        /\ j + used = k => Buf(j)'.n = got.n /\ (got.n > 0 => Buf(j)'.pc = got.pc)
        /\ j + used > k => Buf(j)'.n = 0
  BY <1>1, AlignerMoves
<1>4. G \in Seq(Addr) /\ (got.n = 0 => G = <<>>)
  <2>1. next \in Int
    BY DEF Addr
  <2> QED
    BY <1>1, <2>1, ParcelsAre
<1>5. \A i \in 0..2 : S(i) \in Seq(Addr) /\ (i >= k \/ i < used => S(i) = <<>>)
  BY InRestIs
<1>6. ASSUME NEW j \in 0..2
      PROVE  /\ j + used < k => T(j) = S(j + used)
             /\ j + used = k => T(j) = G
             /\ j + used > k => T(j) = <<>>
  <2>1. T(j) = Parcels(Buf(j)'.pc, Buf(j)'.n)
    BY DEF InBuf
  <2>2. CASE j + used < k
    <3>1. Buf(j)' = Rest(flush, j + used)
      BY <1>2, <1>3, <2>2
    <3>2. S(j + used) = Parcels(Rest(flush, j + used).pc, Rest(flush, j + used).n)
      BY DEF InRest
    <3> HIDE DEF S, T, used
    <3> QED
      BY <1>2, <2>1, <2>2, <3>1, <3>2
  <2>3. CASE j + used = k
    <3>1. CASE got.n > 0
      BY <1>1, <1>3, <2>1, <2>3, <3>1
    <3>2. CASE got.n = 0
      BY <1>3, <1>4, <2>1, <2>3, <3>2, ParcelsAre
    <3> QED
      BY <1>1, <3>1, <3>2
  <2>4. CASE j + used > k
    <3>1. Buf(j)'.n = 0
      BY <1>2, <1>3, <2>4
    <3>2. T(j) = <<>>
      BY <2>1, <3>1, ParcelsAre
    <3> HIDE DEF S, T, used
    <3> QED
      BY <1>2, <2>4, <3>2
  <2> QED
    BY <1>2, <2>2, <2>3, <2>4
<1>7. k = 3 => G = <<>>
  BY <1>1, <1>4
<1>8. /\ \A x \in Seq(Addr) : x \o <<>> = x /\ <<>> \o x = x
      /\ \A x, y \in Seq(Addr) : x \o y \in Seq(Addr)
      /\ <<>> \in Seq(Addr)
  BY ConcatEmptySeq, ConcatProperties, EmptySeq
<1> HIDE DEF S, T, G, used
<1>9. S(0) \in Seq(Addr) /\ S(1) \in Seq(Addr) /\ S(2) \in Seq(Addr)
  BY <1>5
<1>10. S(0) \o S(1) \in Seq(Addr) /\ S(1) \o S(2) \in Seq(Addr)
  BY <1>8, <1>9
<1>20. S(0) \o G \in Seq(Addr) /\ S(1) \o G \in Seq(Addr)
  BY <1>4, <1>8, <1>9
<1>11. CASE k = 0
  <2>1. used = 0 /\ S(0) = <<>> /\ S(1) = <<>> /\ S(2) = <<>> /\ T(0) = G /\ T(1) = <<>> /\ T(2) = <<>>
    BY <1>2, <1>5, <1>6, <1>11
  <2>2. (T(0) \o T(1)) \o T(2) = ((S(0) \o S(1)) \o S(2)) \o G
    BY <1>4, <1>8, <2>1
  <2> QED
    BY <2>2 DEF S, T, G
<1>12. CASE k = 1 /\ used = 0
  <2>1. S(1) = <<>> /\ S(2) = <<>> /\ T(0) = S(0) /\ T(1) = G /\ T(2) = <<>>
    BY <1>5, <1>6, <1>12
  <2>3. (T(0) \o T(1)) \o T(2) = S(0) \o G
    BY <1>8, <1>20, <2>1
  <2>4. (S(0) \o S(1)) \o S(2) = S(0)
    BY <1>8, <1>9, <2>1
  <2>2. (T(0) \o T(1)) \o T(2) = ((S(0) \o S(1)) \o S(2)) \o G
    BY <2>3, <2>4
  <2> QED
    BY <2>2 DEF S, T, G
<1>13. CASE k = 1 /\ used = 1
  <2>1. S(0) = <<>> /\ S(1) = <<>> /\ S(2) = <<>> /\ T(0) = G /\ T(1) = <<>> /\ T(2) = <<>>
    BY <1>5, <1>6, <1>13
  <2>2. (T(0) \o T(1)) \o T(2) = ((S(0) \o S(1)) \o S(2)) \o G
    BY <1>4, <1>8, <2>1
  <2> QED
    BY <2>2 DEF S, T, G
<1>14. CASE k = 2 /\ used = 0
  <2>1. S(2) = <<>> /\ T(0) = S(0) /\ T(1) = S(1) /\ T(2) = G
    BY <1>5, <1>6, <1>14
  <2>2. (T(0) \o T(1)) \o T(2) = ((S(0) \o S(1)) \o S(2)) \o G
    BY <1>4, <1>8, <1>10, <2>1
  <2> QED
    BY <2>2 DEF S, T, G
<1>15. CASE k = 2 /\ used = 1
  <2>1. S(0) = <<>> /\ S(2) = <<>> /\ T(0) = S(1) /\ T(1) = G /\ T(2) = <<>>
    BY <1>5, <1>6, <1>15
  <2>3. (T(0) \o T(1)) \o T(2) = S(1) \o G
    BY <1>8, <1>20, <2>1
  <2>4. (S(0) \o S(1)) \o S(2) = S(1)
    BY <1>8, <1>9, <2>1
  <2>2. (T(0) \o T(1)) \o T(2) = ((S(0) \o S(1)) \o S(2)) \o G
    BY <2>3, <2>4
  <2> QED
    BY <2>2 DEF S, T, G
<1>16. CASE k = 2 /\ used = 2
  <2>1. S(0) = <<>> /\ S(1) = <<>> /\ S(2) = <<>> /\ T(0) = G /\ T(1) = <<>> /\ T(2) = <<>>
    BY <1>5, <1>6, <1>16
  <2>2. (T(0) \o T(1)) \o T(2) = ((S(0) \o S(1)) \o S(2)) \o G
    BY <1>4, <1>8, <2>1
  <2> QED
    BY <2>2 DEF S, T, G
<1>17. CASE k = 3 /\ used = 0
  <2>1. G = <<>> /\ T(0) = S(0) /\ T(1) = S(1) /\ T(2) = S(2)
    BY <1>6, <1>7, <1>17
  <2>2. (S(0) \o S(1)) \o S(2) \in Seq(Addr)
    BY <1>8, <1>9, <1>10
  <2>3. (T(0) \o T(1)) \o T(2) = ((S(0) \o S(1)) \o S(2)) \o G
    BY <1>8, <2>1, <2>2
  <2> QED
    BY <2>3 DEF S, T, G
<1>18. CASE k = 3 /\ used = 1
  <2>1. G = <<>> /\ S(0) = <<>> /\ T(0) = S(1) /\ T(1) = S(2) /\ T(2) = <<>>
    BY <1>5, <1>6, <1>7, <1>18
  <2>2. (T(0) \o T(1)) \o T(2) = ((S(0) \o S(1)) \o S(2)) \o G
    BY <1>8, <1>9, <1>10, <2>1
  <2> QED
    BY <2>2 DEF S, T, G
<1>19. CASE k = 3 /\ used = 2
  <2>1. G = <<>> /\ S(0) = <<>> /\ S(1) = <<>> /\ T(0) = S(2) /\ T(1) = <<>> /\ T(2) = <<>>
    BY <1>5, <1>6, <1>7, <1>19
  <2>2. (T(0) \o T(1)) \o T(2) = ((S(0) \o S(1)) \o S(2)) \o G
    BY <1>8, <1>9, <2>1
  <2> QED
    BY <2>2 DEF S, T, G
<1>21. \/ k = 0
       \/ k = 1 /\ used = 0
       \/ k = 1 /\ used = 1
       \/ k = 2 /\ used = 0
       \/ k = 2 /\ used = 1
       \/ k = 2 /\ used = 2
       \/ k = 3 /\ used = 0
       \/ k = 3 /\ used = 1
       \/ k = 3 /\ used = 2
  BY <1>2
<1> QED
  BY <1>21, <1>11, <1>12, <1>13, <1>14, <1>15, <1>16, <1>17, <1>18, <1>19

-----------------------------------------------------------------------------
(* The instruction buffer. *)

(* The first m places of the instruction buffer are taken, by right instructions. *)
Slots(m) == {j \in 0..3 : j < m}
IbRight(m) == ibval = Slots(m) /\ \A j \in 0..3 : j < m => InstrRight(ib[j])
NothingAfterFlush == ib_flush_final => Filled(0)

issued(flush) == IF ~i0_shift(flush) THEN 0 ELSE IF i1_shift(flush) THEN 2 ELSE 1

LEMMA SlotsShift ==
  ASSUME NEW m \in 0..4, NEW d \in 0..2, d <= m
  PROVE  ShiftDown(Slots(m), d) = Slots(m - d)
<1>1. ASSUME NEW i \in ShiftDown(Slots(m), d) PROVE i \in Slots(m - d)
  BY <1>1 DEF ShiftDown, Slots
<1>2. ASSUME NEW i \in Slots(m - d) PROVE i \in ShiftDown(Slots(m), d)
  <2>1. i \in 0..3 /\ i < m - d
    BY <1>2 DEF Slots
  <2>2. i + d \in Slots(m) /\ i + d >= d /\ i = (i + d) - d
    BY <2>1 DEF Slots
  <2> QED
    BY <2>2 DEF ShiftDown
<1> QED
  BY <1>1, <1>2

LEMMA SlotsWritten ==
  ASSUME NEW m \in 0..4
  PROVE  /\ write_i0(Slots(m)) = {j \in 0..3 : j = m}
         /\ write_i1(Slots(m)) = {j \in 1..3 : j = m + 1}
<1>1. ASSUME NEW j \in 0..3
      PROVE  j \notin Slots(m) /\ (j > 0 => j - 1 \in Slots(m)) <=> j = m
  BY DEF Slots
<1>2. ASSUME NEW j \in 1..3
      PROVE  j - 1 \notin Slots(m) /\ (j > 1 => j - 2 \in Slots(m)) <=> j = m + 1
  BY DEF Slots
<1> QED
  BY <1>1, <1>2 DEF write_i0, write_i1

LEMMA IssuedFits ==
  ASSUME RingRight, NEW k \in 0..3, Filled(k), NEW m \in 0..4, ibval = Slots(m),
         NEW flush \in BOOLEAN
  PROVE  /\ issued(flush) \in 0..2 /\ m + issued(flush) <= 4
         /\ issued(flush) >= 1 <=> i0_shift(flush)
         /\ issued(flush) = 2 <=> i1_shift(flush)
         /\ issued(flush) >= 1 => ifu_i0_valid(flush)
         /\ issued(flush) = 2 => ifu_i1_valid(flush)
         /\ flush => issued(flush) = 0
<1>1. i1_shift(flush) => i0_shift(flush)
  <2> SUFFICES ASSUME i1_shift(flush) PROVE i0_shift(flush)
    OBVIOUS
  <2>1. ifu_i1_valid(flush) /\ 2 \notin ibval
    BY DEF i1_shift
  <2>2. ifu_i0_valid(flush)
    BY <2>1, Instructions
  <2>3. 3 \notin ibval
    BY <2>1 DEF Slots
  <2> QED
    BY <2>2, <2>3 DEF i0_shift
<1>2. /\ i0_shift(flush) => ifu_i0_valid(flush) /\ m <= 3
      /\ i1_shift(flush) => ifu_i1_valid(flush) /\ m <= 2
  BY DEF i0_shift, i1_shift, Slots
<1>3. flush => ~i0_shift(flush)
  BY DEF i0_shift, ifu_i0_valid
<1> QED
  BY <1>1, <1>2, <1>3 DEF issued

(* The instruction buffer after a clock. *)
LEMMA IbMoves ==
  ASSUME RingRight, NEW k \in 0..3, Filled(k), NEW m \in 0..4, IbRight(m), ~ib_flush_final,
         NEW flush \in BOOLEAN, NEW d \in 0..2, d <= m, IbClock(flush, d),
         NEW e, e = issued(flush)
  PROVE  /\ m - d + e \in 0..4 /\ IbRight(m - d + e)'
         /\ \A j \in 0..3 :
              /\ j < m - d => ib'[j] = ib[j + d]
              /\ j = m - d /\ e >= 1 => ib'[j] = ifu_i0
              /\ j = m - d + 1 /\ e = 2 => ib'[j] = ifu_i1
<1> DEFINE i0 == IF ifu_i0_val(flush) THEN write_i0(ibval) ELSE {}
           i1 == IF ifu_i1_val(flush) THEN write_i1(ibval) ELSE {}
           w0 == IF ifu_i0_val(flush) THEN write_i0(shift_ibval(d)) ELSE {}
           w1 == IF ifu_i1_val(flush) THEN write_i1(shift_ibval(d)) ELSE {}
           ibval_in == ShiftDown(ibval \cup i0 \cup i1, d)
<1>1. /\ ibval' = ibval_in
      /\ ib' = [j \in 0..3 |-> IF j \notin ibval_in THEN NoInstr
                               ELSE IF j \in w0 THEN ifu_i0
                               ELSE IF j \in w1 THEN ifu_i1 ELSE ib[j + d]]
  BY DEF IbClock, IB_DEPTH
<1>2. /\ e \in 0..2 /\ m + e <= 4
      /\ e >= 1 <=> i0_shift(flush)
      /\ e = 2 <=> i1_shift(flush)
      /\ e >= 1 => ifu_i0_valid(flush)
      /\ e = 2 => ifu_i1_valid(flush)
  BY IssuedFits DEF IbRight
<1>3. (ifu_i0_val(flush) <=> e >= 1) /\ (ifu_i1_val(flush) <=> e = 2)
  BY <1>2 DEF ifu_i0_val, ifu_i1_val, i0_shift, i1_shift
<1>4. i0 = (IF e >= 1 THEN {j \in 0..3 : j = m} ELSE {})
      /\ i1 = (IF e = 2 THEN {j \in 1..3 : j = m + 1} ELSE {})
  BY <1>3, SlotsWritten DEF IbRight
<1>5. ibval \cup i0 \cup i1 = Slots(m + e)
  <2> HIDE DEF i0, i1
  <2> QED
    BY <1>2, <1>4 DEF IbRight, Slots
<1>6. ibval_in = Slots(m + e - d)
  <2>1. m + e \in 0..4 /\ d <= m + e
    BY <1>2
  <2> DEFINE x == m + e
             y == ibval \cup i0 \cup i1
  <2>2. x \in 0..4 /\ d <= x /\ y = Slots(x)
    BY <1>5, <2>1
  <2>4. ibval_in = ShiftDown(y, d)
    <3> HIDE DEF i0, i1
    <3> QED
      OBVIOUS
  <2>5. x - d = m + e - d
    BY <1>2
  <2> HIDE DEF x, y, ibval_in
  <2>3. ShiftDown(y, d) = Slots(x - d)
    BY <2>2, SlotsShift
  <2> QED
    BY <2>3, <2>4, <2>5
<1>7. shift_ibval(d) = Slots(m - d)
  BY SlotsShift DEF shift_ibval, IbRight
<1>8. w0 = (IF e >= 1 THEN {j \in 0..3 : j = m - d} ELSE {})
      /\ w1 = (IF e = 2 THEN {j \in 1..3 : j = m - d + 1} ELSE {})
  <2>1. m - d \in 0..4
    OBVIOUS
  <2> DEFINE x == m - d
  <2>2. write_i0(Slots(x)) = {j \in 0..3 : j = x} /\ write_i1(Slots(x)) = {j \in 1..3 : j = x + 1}
    <3> HIDE DEF x
    <3>1. x \in 0..4
      BY <2>1 DEF x
    <3> QED
      BY <3>1, SlotsWritten
  <2> QED
    BY <1>3, <1>7, <2>2
<1> HIDE DEF i0, i1, w0, w1, ibval_in
<1>9. m - d + e \in 0..4 /\ m + e - d = m - d + e
  BY <1>2
<1>10. ASSUME NEW j \in 0..3
       PROVE  /\ j < m - d => ib'[j] = ib[j + d]
              /\ j = m - d /\ e >= 1 => ib'[j] = ifu_i0
              /\ j = m - d + 1 /\ e = 2 => ib'[j] = ifu_i1
  <2>1. j \in ibval_in <=> j < m + e - d
    BY <1>6 DEF Slots
  <2>2. (j \in w0 <=> e >= 1 /\ j = m - d) /\ (j \in w1 <=> e = 2 /\ j = m - d + 1)
    BY <1>8
  <2>3. ib'[j] = IF j \notin ibval_in THEN NoInstr
                 ELSE IF j \in w0 THEN ifu_i0
                 ELSE IF j \in w1 THEN ifu_i1 ELSE ib[j + d]
    BY <1>1
  <2>4. CASE j < m - d
    BY <1>2, <2>1, <2>2, <2>3, <2>4
  <2>5. CASE j = m - d
    BY <1>2, <2>1, <2>2, <2>3, <2>5
  <2>6. CASE j > m - d
    BY <1>2, <2>1, <2>2, <2>3, <2>6
  <2> QED
    BY <2>4, <2>5, <2>6
<1>11. ASSUME NEW j \in 0..3, j < m - d + e PROVE InstrRight(ib[j])'
  <2>1. CASE j < m - d
    <3>1. j + d \in 0..3 /\ j + d < m
      BY <2>1
    <3>2. InstrRight(ib[j + d]) /\ ib'[j] = ib[j + d]
      BY <1>10, <2>1, <3>1 DEF IbRight
    <3> QED
      BY <3>2 DEF InstrRight
  <2>2. CASE j = m - d
    <3>1. e >= 1
      BY <1>2, <1>11, <2>2
    <3>2. InstrRight(ifu_i0) /\ ib'[j] = ifu_i0
      BY <1>2, <1>10, <2>2, <3>1, Instructions
    <3> QED
      BY <3>2 DEF InstrRight
  <2>3. CASE j > m - d
    <3>1. e = 2 /\ j = m - d + 1
      BY <1>2, <1>11, <2>3
    <3>2. InstrRight(ifu_i1) /\ ib'[j] = ifu_i1
      BY <1>2, <1>10, <3>1, Instructions
    <3> QED
      BY <3>2 DEF InstrRight
  <2> QED
    BY <2>1, <2>2, <2>3
<1>12. ibval' = Slots(m - d + e)
  BY <1>1, <1>6, <1>9
<1>13. IbRight(m - d + e)'
  BY <1>2, <1>11, <1>12 DEF IbRight, Slots
<1> QED
  BY <1>9, <1>10, <1>13

LEMMA IbEmpties ==
  ASSUME ib_flush_final, NEW flush \in BOOLEAN, NEW d, IbClock(flush, d)
  PROVE  IbRight(0)'
<1>1. ibval' = {}
  BY DEF IbClock
<1> QED
  BY <1>1 DEF IbRight, Slots

-----------------------------------------------------------------------------
(* Its parcels. *)
LEMMA InstrParcelsAre ==
  ASSUME NEW i, InstrRight(i)
  PROVE  InstrParcels(i) = i.parcels /\ Len(i.parcels) \in 1..2
<1>1. Len(i.parcels) \in 1..2 /\ i.parcels \in [1..Len(i.parcels) -> Addr]
  BY LenProperties DEF InstrRight
<1>2. \A j \in 1..Len(i.parcels) :
        (IF j = 1 THEN Held(i.pc, i.parcels[1]) ELSE i.parcels[j]) = i.parcels[j]
  BY DEF InstrRight, Held
<1>3. InstrParcels(i) = [j \in 1..Len(i.parcels) |-> i.parcels[j]]
  BY <1>2 DEF InstrParcels
<1> QED
  BY <1>1, <1>3

LEMMA IbParcelsAre ==
  ASSUME NEW m \in 0..4, IbRight(m), NEW j \in 0..3
  PROVE  /\ IbParcels(j) \in Seq(Addr)
         /\ j < m /\ ~ib_flush_final =>
              /\ IbParcels(j) = ib[j].parcels
              /\ Len(IbParcels(j)) = (IF IbParcels(j)[1] \in Long THEN 2 ELSE 1)
         /\ j >= m \/ ib_flush_final => IbParcels(j) = <<>>
<1>1. j \in ibval <=> j < m
  BY DEF IbRight, Slots
<1>2. <<>> \in Seq(Addr)
  BY EmptySeq
<1>3. CASE j < m /\ ~ib_flush_final
  <2>1. InstrRight(ib[j])
    BY <1>3 DEF IbRight
  <2>2. IbParcels(j) = ib[j].parcels
    BY <1>1, <1>3, <2>1, InstrParcelsAre DEF IbParcels
  <2> QED
    BY <1>3, <2>1, <2>2 DEF InstrRight
<1>4. CASE ~(j < m /\ ~ib_flush_final)
  BY <1>1, <1>2, <1>4 DEF IbParcels
<1> QED
  BY <1>3, <1>4

-----------------------------------------------------------------------------
(* What is held, in order, and how a clock changes it. *)

(* The parcels in the instruction buffer, in the fetch buffers, and what the shift
   leaves in these. *)
InIb == ((IbParcels(0) \o IbParcels(1)) \o IbParcels(2)) \o IbParcels(3)
InRing == (InBuf(0) \o InBuf(1)) \o InBuf(2)
LeftInRing(flush) == (InRest(flush, 0) \o InRest(flush, 1)) \o InRest(flush, 2)

(* Parcels of the d instructions decode takes. *)
Taken(d) ==
  IF d = 0 THEN <<>> ELSE IF d = 1 THEN IbParcels(0) ELSE IbParcels(0) \o IbParcels(1)

(* Some number of places, and of buffers, is taken. *)
IbOK == \E m \in 0..4 : IbRight(m)
AlnOK == RingRight /\ \E k \in 0..3 : Filled(k)

LEMMA JoinedTwo ==
  ASSUME NEW a \in Seq(Addr), NEW b \in Seq(Addr), NEW c \in Seq(Addr)
  PROVE  /\ ((a \o b) \o <<>>) \o <<>> = a \o b
         /\ ((a \o b) \o c) \o <<>> = (a \o b) \o c
         /\ a \o (b \o c) = (a \o b) \o c
         /\ (a \o b) \o c \in Seq(Addr)
<1>1. /\ Cat(Cat(Cat(a, b), <<>>), <<>>) = Cat(a, b)
      /\ Cat(Cat(Cat(a, b), c), <<>>) = Cat(Cat(a, b), c)
      /\ Cat(a, Cat(b, c)) = Cat(Cat(a, b), c)
      /\ Cat(Cat(a, b), c) \in Seq(Addr)
  BY CatLaws
<1> QED
  BY <1>1, Zenon DEF Cat

LEMMA JoinedFour ==
  ASSUME NEW a \in Seq(Addr), NEW b \in Seq(Addr), NEW c \in Seq(Addr), NEW g \in Seq(Addr)
  PROVE  ((a \o b) \o c) \o g \in Seq(Addr)
<1>1. Cat(Cat(Cat(a, b), c), g) \in Seq(Addr)
  BY CatLaws
<1> QED
  BY <1>1, Zenon DEF Cat

LEMMA Joined ==
  ASSUME NEW a \in Seq(Addr), NEW b \in Seq(Addr), NEW c \in Seq(Addr), NEW g \in Seq(Addr)
  PROVE  /\ ((a \o b) \o c) \o g \in Seq(Addr) /\ (a \o b) \o c \in Seq(Addr)
         /\ a \o b \in Seq(Addr)
         /\ ((<<>> \o <<>>) \o <<>>) \o <<>> = <<>>
         /\ ((a \o <<>>) \o <<>>) \o <<>> = a
         /\ ((a \o b) \o <<>>) \o <<>> = a \o b
         /\ ((a \o b) \o c) \o <<>> = (a \o b) \o c
         /\ a \o (b \o c) = (a \o b) \o c
         /\ (a \o b) \o (c \o g) = ((a \o b) \o c) \o g
         /\ a \o ((b \o c) \o g) = ((a \o b) \o c) \o g
<1>1. /\ Cat(a, b) \in Seq(Addr) /\ Cat(b, c) \in Seq(Addr)
      /\ Cat(Cat(<<>>, <<>>), <<>>) = <<>> /\ Cat(<<>>, <<>>) = <<>>
      /\ Cat(a, <<>>) = a
  BY CatLaws
<1>2. /\ Cat(Cat(a, b), Cat(c, g)) = Cat(Cat(Cat(a, b), c), g)
      /\ Cat(a, Cat(Cat(b, c), g)) = Cat(Cat(a, Cat(b, c)), g)
      /\ Cat(a, Cat(b, c)) = Cat(Cat(a, b), c)
  BY <1>1, CatLaws
<1>3. /\ ((<<>> \o <<>>) \o <<>>) \o <<>> = <<>>
      /\ ((a \o <<>>) \o <<>>) \o <<>> = a
  BY <1>1, Zenon DEF Cat
<1>4. /\ a \o b \in Seq(Addr)
      /\ (a \o b) \o (c \o g) = ((a \o b) \o c) \o g
      /\ a \o ((b \o c) \o g) = ((a \o b) \o c) \o g
  BY <1>1, <1>2, Zenon DEF Cat
<1>5. /\ ((a \o b) \o c) \o g \in Seq(Addr) /\ (a \o b) \o c \in Seq(Addr)
      /\ ((a \o b) \o <<>>) \o <<>> = a \o b
      /\ ((a \o b) \o c) \o <<>> = (a \o b) \o c
      /\ a \o (b \o c) = (a \o b) \o c
  <2>1. ((a \o b) \o c) \o g \in Seq(Addr)
    BY JoinedFour, Zenon
  <2>2. /\ ((a \o b) \o <<>>) \o <<>> = a \o b
        /\ ((a \o b) \o c) \o <<>> = (a \o b) \o c
        /\ a \o (b \o c) = (a \o b) \o c
        /\ (a \o b) \o c \in Seq(Addr)
    BY JoinedTwo, Zenon
  <2> QED
    BY <2>1, <2>2, Zenon
<1> QED
  BY <1>3, <1>4, <1>5, Zenon

LEMMA InIbIs ==
  ASSUME IbOK
  PROVE  /\ InIb \in Seq(Addr) /\ (\A j \in 0..3 : IbParcels(j) \in Seq(Addr))
         /\ ib_flush_final => InIb = <<>>
<1>1. PICK m \in 0..4 : IbRight(m)
  BY DEF IbOK
<1>2. \A j \in 0..3 : IbParcels(j) \in Seq(Addr) /\ (ib_flush_final => IbParcels(j) = <<>>)
  BY <1>1, IbParcelsAre
<1> DEFINE a == IbParcels(0)
           b == IbParcels(1)
           c == IbParcels(2)
           e == IbParcels(3)
<1>3. /\ a \in Seq(Addr) /\ b \in Seq(Addr) /\ c \in Seq(Addr) /\ e \in Seq(Addr)
      /\ ib_flush_final => a = <<>> /\ b = <<>> /\ c = <<>> /\ e = <<>>
  BY <1>2
<1> HIDE DEF a, b, c, e
<1>4. ((a \o b) \o c) \o e \in Seq(Addr) /\ (ib_flush_final => ((a \o b) \o c) \o e = <<>>)
  BY <1>3, Concats
<1> QED
  BY <1>2, <1>4 DEF InIb, a, b, c, e

LEMMA HeldIs ==
  ASSUME IbOK, AlnOK
  PROVE  /\ held = InIb \o InRing
         /\ InRing \in Seq(Addr) /\ held \in Seq(Addr)
<1>1. PICK k \in 0..3 : Filled(k)
  BY DEF AlnOK
<1>2. RingRight /\ rdptr \in 0..2
  BY DEF AlnOK, RingRight
<1>3. \A i \in 0..2 : Buf(i).n \in Nat /\ InBuf(i) \in Seq(Addr)
  BY <1>1, <1>2, InBufIs
<1>4. \A i \in 0..2 : BufferParcels(Buf(i), After(rdptr, i)) = InBuf(i)
  <2> TAKE i \in 0..2
  <2>1. Stored(Buf(i), After(rdptr, i))
    BY <1>2 DEF RingRight
  <2> QED
    BY <1>3, <2>1, BufferIs DEF InBuf
<1> DEFINE a == InBuf(0)
           b == InBuf(1)
           c == InBuf(2)
<1>5. /\ a \in Seq(Addr) /\ b \in Seq(Addr) /\ c \in Seq(Addr)
      /\ a = BufferParcels(f0, rdptr) /\ b = BufferParcels(f1, After(rdptr, 1))
      /\ c = BufferParcels(f2, After(rdptr, 2))
  <2>1. After(rdptr, 0) = rdptr
    BY <1>2, AfterIs
  <2>2. Buf(0) = f0 /\ Buf(1) = f1 /\ Buf(2) = f2
    BY DEF Buf
  <2> QED
    BY <1>3, <1>4, <2>1, <2>2
<1> HIDE DEF a, b, c
<1>6. held = ((InIb \o a) \o b) \o c
  BY <1>5 DEF held, InIb
<1>7. InRing = (a \o b) \o c
  BY DEF InRing, a, b, c
<1>8. InIb \in Seq(Addr)
  BY InIbIs
<1>9. ((InIb \o a) \o b) \o c = InIb \o ((a \o b) \o c) /\ (a \o b) \o c \in Seq(Addr)
  <2>1. PICK x : x = a \o b
    OBVIOUS
  <2>2. a \in Seq(Addr) /\ b \in Seq(Addr) /\ c \in Seq(Addr) /\ x \in Seq(Addr)
    BY <1>5, <2>1, Concats
  <2>3. InIb \o x = (InIb \o a) \o b
    <3>1. a \in Seq(Addr) /\ b \in Seq(Addr)
      BY <1>5
    <3>2. InIb \o (a \o b) = (InIb \o a) \o b
      BY <1>8, <3>1, Assoc, Zenon
    <3> QED
      BY <2>1, <3>2, Zenon
  <2>4. InIb \o (x \o c) = (InIb \o x) \o c
    <3>1. x \in Seq(Addr) /\ c \in Seq(Addr)
      BY <2>2
    <3> QED
      BY <1>8, <3>1, Assoc, Zenon
  <2>5. x \o c \in Seq(Addr)
    BY <2>2, Concats
  <2> QED
    BY <2>1, <2>3, <2>4, <2>5
<1> QED
  BY <1>6, <1>7, <1>8, <1>9, Concats

(* Decode takes from the front of the instruction buffer, the aligner adds at its end. *)
LEMMA IbFollows ==
  ASSUME RingRight, NEW k \in 0..3, Filled(k), NEW m \in 0..4, IbRight(m), ~ib_flush_final,
         NEW flush \in BOOLEAN, ~flush, NEW d \in 0..2, d <= m, IbClock(flush, d)
  PROVE  /\ InIb \o Issue(flush) = Taken(d) \o InIb'
         /\ Taken(d) \in Seq(Addr)
<1>1. PICK e \in 0..2 : e = issued(flush)
  BY DEF issued
<1>2. /\ m + e <= 4
      /\ e >= 1 <=> i0_shift(flush)
      /\ e = 2 <=> i1_shift(flush)
      /\ e >= 1 => ifu_i0_valid(flush)
      /\ e = 2 => ifu_i1_valid(flush)
  BY <1>1, IssuedFits DEF IbRight
<1>3. /\ m - d + e \in 0..4 /\ IbRight(m - d + e)'
      /\ \A j \in 0..3 :
           /\ j < m - d => ib'[j] = ib[j + d]
           /\ j = m - d /\ e >= 1 => ib'[j] = ifu_i0
           /\ j = m - d + 1 /\ e = 2 => ib'[j] = ifu_i1
  BY <1>1, IbMoves
<1>4. ~ib_flush_final'
  BY DEF IbClock
<1> DEFINE Q(j) == IF j < m THEN ib[j].parcels
                   ELSE IF j = m /\ e >= 1 THEN ifu_i0.parcels
                   ELSE IF j = m + 1 /\ e = 2 THEN ifu_i1.parcels ELSE <<>>
<1>5. ASSUME NEW j \in 0..5
      PROVE  Q(j) \in Seq(Addr) /\ (j >= m + e => Q(j) = <<>>)
  <2>1. CASE j < m
    <3>1. j \in 0..3
      BY <1>5, <2>1
    <3> QED
      BY <1>2, <2>1, <3>1 DEF IbRight, InstrRight
  <2>2. CASE j = m /\ e >= 1
    <3>1. Q(j) = ifu_i0.parcels /\ j < m + e
      BY <1>2, <2>2
    <3>2. InstrRight(ifu_i0)
      BY <1>2, <2>2, Instructions
    <3> QED
      BY <3>1, <3>2 DEF InstrRight
  <2>3. CASE j = m + 1 /\ e = 2
    <3>1. Q(j) = ifu_i1.parcels /\ j < m + e
      BY <1>2, <2>3
    <3>2. InstrRight(ifu_i1)
      BY <1>2, <2>3, Instructions
    <3> QED
      BY <3>1, <3>2 DEF InstrRight
  <2>4. CASE ~(j < m) /\ ~(j = m /\ e >= 1) /\ ~(j = m + 1 /\ e = 2)
    BY <2>4, EmptySeq
  <2> QED
    BY <2>1, <2>2, <2>3, <2>4
<1>6. \A j \in 0..3 : IbParcels(j) = IF j < m THEN Q(j) ELSE <<>>
  BY IbParcelsAre
<1>7. ASSUME NEW j \in 0..3 PROVE IbParcels(j)' = Q(j + d)
  <2> DEFINE n == m - d + e
  <2>1. n \in 0..4 /\ n = m - d + e
    BY <1>3
  <2>2. /\ j < n => IbParcels(j)' = ib'[j].parcels
        /\ j >= n => IbParcels(j)' = <<>>
    <3> HIDE DEF n
    <3>1. IbRight(n)'
      BY <1>3, <2>1
    <3>2. j \in ibval' <=> j < n
      BY <2>1, <3>1 DEF IbRight, Slots
    <3>3. CASE j < n
      <4>1. InstrRight(ib'[j])
        BY <3>1, <3>3 DEF IbRight, InstrRight
      <4>2. InstrParcels(ib'[j]) = ib'[j].parcels
        BY <4>1, InstrParcelsAre
      <4>3. IbParcels(j)' = InstrParcels(ib'[j])
        BY <1>4, <3>2, <3>3 DEF IbParcels, InstrParcels
      <4> QED
        BY <2>1, <3>3, <4>2, <4>3
    <3>4. CASE j >= n
      BY <2>1, <3>2, <3>4 DEF IbParcels
    <3> QED
      BY <2>1, <3>3, <3>4
  <2>3. CASE j < m - d
    <3>1. j < n /\ j + d < m
      BY <2>3
    <3>2. ib'[j] = ib[j + d]
      BY <1>3, <2>3
    <3> QED
      BY <2>2, <3>1, <3>2
  <2>4. CASE j = m - d /\ e >= 1
    <3>1. j < n /\ j + d = m
      BY <2>4
    <3>2. ib'[j] = ifu_i0
      BY <1>3, <2>4
    <3> QED
      BY <2>2, <2>4, <3>1, <3>2
  <2>5. CASE j = m - d + 1 /\ e = 2
    <3>1. j < n /\ j + d = m + 1
      BY <2>5
    <3>2. ib'[j] = ifu_i1
      BY <1>3, <2>5
    <3> QED
      BY <2>2, <2>5, <3>1, <3>2
  <2>6. CASE j >= n
    <3>1. j + d >= m + e /\ j + d \in 0..5
      BY <2>6
    <3>2. Q(j + d) = <<>>
      BY <1>5, <3>1
    <3> QED
      BY <2>2, <2>6, <3>2
  <2> QED
    BY <1>3, <2>3, <2>4, <2>5, <2>6
<1>8. Issue(flush) = Q(m) \o Q(m + 1)
  <2>1. CASE e = 0
    <3>1. Q(m) = <<>> /\ Q(m + 1) = <<>> /\ Issue(flush) = <<>>
      BY <1>2, <2>1 DEF Issue
    <3> HIDE DEF Q
    <3> QED
      BY <3>1, Concats
  <2>2. CASE e = 1
    <3>1. Q(m) = ifu_i0.parcels /\ Q(m + 1) = <<>> /\ Issue(flush) = ifu_i0.parcels
      BY <1>2, <2>2 DEF Issue
    <3>2. Q(m) \in Seq(Addr)
      BY <1>5
    <3> HIDE DEF Q
    <3> QED
      BY <3>1, <3>2, Concats
  <2>3. CASE e = 2
    <3>5. i0_shift(flush) /\ i1_shift(flush)
      BY <1>2, <2>3
    <3>1. Issue(flush) = ifu_i0.parcels \o ifu_i1.parcels
      BY <3>5 DEF Issue
    <3>2. Q(m) = ifu_i0.parcels
      BY <2>3
    <3>3. ~(m + 1 < m) /\ m + 1 # m
      OBVIOUS
    <3>4. Q(m + 1) = ifu_i1.parcels
      BY <2>3, <3>3
    <3> HIDE DEF Q
    <3> QED
      BY <3>1, <3>2, <3>4
  <2> HIDE DEF Q
  <2> QED
    BY <1>2, <2>1, <2>2, <2>3
<1> HIDE DEF Q
<1> DEFINE a == Q(0)
           b == Q(1)
           c == Q(2)
           g == Q(3)
<1>9. /\ a \in Seq(Addr) /\ b \in Seq(Addr) /\ c \in Seq(Addr) /\ g \in Seq(Addr)
      /\ Q(4) = <<>> /\ Q(5) = <<>>
  BY <1>2, <1>5
<1>10. /\ m <= 3 /\ e = 0 => g = <<>>
       /\ m + e <= 2 => c = <<>> /\ g = <<>>
       /\ m + e <= 3 => g = <<>>
  BY <1>5
<1>11. /\ IbParcels(0) = (IF 0 < m THEN a ELSE <<>>) /\ IbParcels(1) = (IF 1 < m THEN b ELSE <<>>)
       /\ IbParcels(2) = (IF 2 < m THEN c ELSE <<>>) /\ IbParcels(3) = (IF 3 < m THEN g ELSE <<>>)
  BY <1>6
<1>12. InIb' = ((Q(d) \o Q(1 + d)) \o Q(2 + d)) \o Q(3 + d)
  <2>1. /\ IbParcels(0)' = Q(0 + d) /\ IbParcels(1)' = Q(1 + d)
        /\ IbParcels(2)' = Q(2 + d) /\ IbParcels(3)' = Q(3 + d) /\ 0 + d = d
    BY <1>7
  <2> QED
    BY <2>1 DEF InIb
<1>16. /\ m = 0 => Q(m) = a /\ Q(m + 1) = b
       /\ m = 1 => Q(m) = b /\ Q(m + 1) = c
       /\ m = 2 => Q(m) = c /\ Q(m + 1) = g
       /\ m = 3 => Q(m) = g /\ Q(m + 1) = <<>>
       /\ m = 4 => Q(m) = <<>> /\ Q(m + 1) = <<>>
  <2>2. 0 + 1 = 1 /\ 1 + 1 = 2 /\ 2 + 1 = 3 /\ 3 + 1 = 4 /\ 4 + 1 = 5
    OBVIOUS
  <2> QED
    BY <1>9, <2>2
<1>17. /\ d = 0 => InIb' = ((a \o b) \o c) \o g
       /\ d = 1 => InIb' = ((b \o c) \o g) \o <<>>
       /\ d = 2 => InIb' = ((c \o g) \o <<>>) \o <<>>
  <2>1. 1 + 0 = 1 /\ 2 + 0 = 2 /\ 3 + 0 = 3
    OBVIOUS
  <2>2. 1 + 1 = 2 /\ 2 + 1 = 3 /\ 3 + 1 = 4
    OBVIOUS
  <2>3. 1 + 2 = 3 /\ 2 + 2 = 4 /\ 3 + 2 = 5
    OBVIOUS
  <2> QED
    BY <1>9, <1>12, <2>1, <2>2, <2>3
<1> HIDE DEF a, b, c, g
<1>18. a \in Seq(Addr) /\ b \in Seq(Addr) /\ c \in Seq(Addr) /\ g \in Seq(Addr)
  BY <1>9
<1>19. /\ (a \o b) \o (c \o g) = ((a \o b) \o c) \o g
       /\ a \o ((b \o c) \o g) = ((a \o b) \o c) \o g
  <2>1. PICK x : x = a \o b
    OBVIOUS
  <2>2. PICK y : y = b \o c
    OBVIOUS
  <2>3. x \in Seq(Addr) /\ y \in Seq(Addr)
    BY <1>18, <2>1, <2>2, Concats
  <2>7. x \in Seq(Addr) /\ c \in Seq(Addr) /\ g \in Seq(Addr)
    BY <1>18, <2>3
  <2>4. x \o (c \o g) = (x \o c) \o g
    BY <2>7, Assoc, Zenon
  <2>8. a \in Seq(Addr) /\ y \in Seq(Addr) /\ g \in Seq(Addr)
    BY <1>18, <2>3
  <2>5. a \o (y \o g) = (a \o y) \o g
    BY <2>8, Assoc, Zenon
  <2>9. a \in Seq(Addr) /\ b \in Seq(Addr) /\ c \in Seq(Addr)
    BY <1>18
  <2>10. a \o (b \o c) = (a \o b) \o c
    BY <2>9, Assoc, Zenon
  <2>6. a \o y = x \o c
    BY <2>1, <2>2, <2>10
  <2> QED
    BY <2>1, <2>2, <2>4, <2>5, <2>6
<1>14. InIb \o Issue(flush) = ((a \o b) \o c) \o g
  <2>1. CASE m = 0
    <3>1. Issue(flush) = a \o b /\ c = <<>> /\ g = <<>>
      BY <1>2, <1>8, <1>10, <1>16, <2>1
    <3>2. InIb = ((<<>> \o <<>>) \o <<>>) \o <<>>
      BY <1>11, <2>1 DEF InIb
    <3>3. InIb = <<>> /\ a \o b \in Seq(Addr) /\ ((a \o b) \o <<>>) \o <<>> = a \o b
      BY <1>9, <3>2, Joined
    <3>4. <<>> \o (a \o b) = a \o b
      BY <3>3, Concats
    <3> QED
      BY <3>1, <3>3, <3>4
  <2>2. CASE m = 1
    <3>5. Q(m) = b /\ Q(m + 1) = c
      BY <1>16, <2>2
    <3>6. g = <<>>
      BY <1>2, <1>10, <2>2
    <3>1. Issue(flush) = b \o c /\ g = <<>>
      BY <1>8, <3>5, <3>6
    <3>7. IbParcels(0) = a /\ IbParcels(1) = <<>> /\ IbParcels(2) = <<>> /\ IbParcels(3) = <<>>
      BY <1>11, <2>2
    <3>2. InIb = ((a \o <<>>) \o <<>>) \o <<>>
      BY <3>7 DEF InIb
    <3>3. InIb = a
      BY <1>9, <3>2, Joined
    <3>4. /\ a \o (b \o c) = (a \o b) \o c
          /\ ((a \o b) \o c) \o <<>> = (a \o b) \o c
      <4>1. /\ Cat(a, Cat(b, c)) = Cat(Cat(a, b), c)
            /\ Cat(Cat(Cat(a, b), c), <<>>) = Cat(Cat(a, b), c)
        BY <1>18, CatLaws
      <4> QED
        BY <4>1, Zenon DEF Cat
    <3> QED
      BY <3>1, <3>3, <3>4
  <2>3. CASE m = 2
    <3>1. Issue(flush) = c \o g
      BY <1>8, <1>16, <2>3
    <3>5. IbParcels(0) = a /\ IbParcels(1) = b /\ IbParcels(2) = <<>> /\ IbParcels(3) = <<>>
      BY <1>11, <2>3
    <3>2. InIb = ((a \o b) \o <<>>) \o <<>>
      BY <3>5, Zenon DEF InIb
    <3>3. InIb = a \o b
      <4>1. Cat(Cat(Cat(a, b), <<>>), <<>>) = Cat(a, b)
        BY <1>18, CatLaws
      <4> QED
        BY <3>2, <4>1, Zenon DEF Cat
    <3>4. (a \o b) \o (c \o g) = ((a \o b) \o c) \o g
      BY <1>19
    <3> QED
      BY <3>1, <3>3, <3>4, Zenon
  <2>4. CASE m = 3
    <3>1. Issue(flush) = g \o <<>>
      BY <1>8, <1>16, <2>4
    <3>2. InIb = ((a \o b) \o c) \o <<>>
      BY <1>11, <2>4 DEF InIb
    <3>3. InIb = (a \o b) \o c /\ g \o <<>> = g
      BY <1>9, <3>2, JoinedTwo, Concats
    <3> QED
      BY <3>1, <3>3
  <2>5. CASE m = 4
    <3>1. Issue(flush) = <<>> \o <<>>
      BY <1>8, <1>16, <2>5
    <3>2. InIb = ((a \o b) \o c) \o g
      BY <1>11, <2>5 DEF InIb
    <3>3. ((a \o b) \o c) \o g \in Seq(Addr) /\ <<>> \o <<>> = <<>>
      BY <1>9, JoinedFour, Concats
    <3>4. (((a \o b) \o c) \o g) \o <<>> = ((a \o b) \o c) \o g
      BY <3>3, Concats
    <3> QED
      BY <3>1, <3>2, <3>3, <3>4
  <2>6. m = 0 \/ m = 1 \/ m = 2 \/ m = 3 \/ m = 4
    OBVIOUS
  <2> QED
    BY <2>1, <2>2, <2>3, <2>4, <2>5, <2>6
<1>15. Taken(d) \o InIb' = ((a \o b) \o c) \o g /\ Taken(d) \in Seq(Addr)
  <2>1. CASE d = 0
    <3>1. Taken(d) = <<>>
      BY <2>1 DEF Taken
    <3>3. InIb' = ((a \o b) \o c) \o g
      BY <1>17, <2>1
    <3>4. ((a \o b) \o c) \o g \in Seq(Addr)
      BY <1>9, JoinedFour
    <3>5. <<>> \o (((a \o b) \o c) \o g) = ((a \o b) \o c) \o g
      BY <3>4, Concats
    <3> QED
      BY <3>1, <3>3, <3>5, Concats
  <2>2. CASE d = 1
    <3>1. Taken(d) = a
      BY <1>11, <2>2 DEF Taken
    <3>3. InIb' = ((b \o c) \o g) \o <<>>
      BY <1>17, <2>2
    <3>4. InIb' = (b \o c) \o g
      <4>1. Cat(Cat(Cat(b, c), g), <<>>) = Cat(Cat(b, c), g)
        BY <1>18, CatLaws
      <4> QED
        BY <3>3, <4>1, Zenon DEF Cat
    <3>5. a \o ((b \o c) \o g) = ((a \o b) \o c) \o g
      BY <1>19
    <3>6. a \in Seq(Addr)
      BY <1>18
    <3> QED
      BY <3>1, <3>4, <3>5, <3>6, Zenon
  <2>3. CASE d = 2
    <3>1. Taken(d) = a \o b
      BY <1>11, <2>3 DEF Taken
    <3>3. InIb' = ((c \o g) \o <<>>) \o <<>>
      BY <1>17, <2>3
    <3>4. InIb' = c \o g
      BY <1>9, <3>3, JoinedTwo
    <3>5. (a \o b) \o (c \o g) = ((a \o b) \o c) \o g
      BY <1>19
    <3>6. a \o b \in Seq(Addr)
      BY <1>9, Concats
    <3> QED
      BY <3>1, <3>4, <3>5, <3>6
  <2>4. d = 0 \/ d = 1 \/ d = 2
    OBVIOUS
  <2> QED
    BY <2>1, <2>2, <2>3, <2>4
<1> QED
  BY <1>14, <1>15

LEMMA HeldSplits == IbOK /\ AlnOK => held = InIb \o InRing
BY HeldIs

LEMMA HeldSplitsNext == (IbOK /\ AlnOK)' => (held = InIb \o InRing)'
BY HeldSplits, PTL

(* What decode takes leaves the front of the buffer, after a flush too. *)
LEMMA IbGoesOn ==
  ASSUME RingRight, NEW k \in 0..3, Filled(k), NEW m \in 0..4, IbRight(m), NothingAfterFlush,
         NEW flush \in BOOLEAN, ~flush, NEW d \in 0..2, d <= m, ib_flush_final => d = 0,
         IbClock(flush, d)
  PROVE  InIb \o Issue(flush) = Taken(d) \o InIb' /\ Taken(d) \in Seq(Addr)
<1>1. CASE ~ib_flush_final
  BY <1>1, IbFollows
<1>2. CASE ib_flush_final
  <2>1. Issue(flush) = <<>>
    <3>1. f0.n = 0 /\ f1.n = 0
      BY <1>2 DEF NothingAfterFlush, Filled
    <3>2. shifted(flush) \in Nat /\ shifted(flush) <= 0 /\ Issue(flush) = Cut(shifted(flush))
      BY <3>1, IssueIs
    <3>3. shifted(flush) = 0
      BY <3>2
    <3>4. Cut(0) \in Seq(Addr) /\ Len(Cut(0)) = 0
      BY <3>1, CutIs
    <3> QED
      BY <3>2, <3>3, <3>4, EmptySeq
  <2>2. InIb = <<>>
    BY <1>2, InIbIs DEF IbOK
  <2>3. InIb' = <<>>
    <3>1. ibval' = {}
      BY <1>2 DEF IbClock
    <3>2. IbParcels(0)' = <<>> /\ IbParcels(1)' = <<>> /\ IbParcels(2)' = <<>> /\ IbParcels(3)' = <<>>
      BY <3>1 DEF IbParcels
    <3>3. InIb' = ((<<>> \o <<>>) \o <<>>) \o <<>>
      BY <3>2 DEF InIb
    <3> QED
      BY <3>3, Concats
  <2>4. Taken(d) = <<>>
    BY <1>2 DEF Taken
  <2> QED
    BY <2>1, <2>2, <2>3, <2>4, Concats
<1> QED
  BY <1>1, <1>2

(* A clock without a flush: the parcels that are held lose those decode takes,
   and those that are delivered come behind them. *)
LEMMA HeldStep ==
  ASSUME RingRight, NEW k \in 0..3, Filled(k), NEW m \in 0..4, IbRight(m), NothingAfterFlush,
         NEW flush \in BOOLEAN, ~flush, NEW d \in 0..2, d <= m, ib_flush_final => d = 0,
         IbClock(flush, d), NEW got, Delivery(got), next \in Addr, AlnClock(flush, got),
         got.n > 0 => k < 3, (IbOK /\ AlnOK)', InIb' \in Seq(Addr)
  PROVE  \E rest \in Seq(Addr) : /\ held = Taken(d) \o rest
                                 /\ held' = rest \o Parcels(next, got.n)
<1>1. PICK i : i = InIb
  OBVIOUS
<1>2. PICK n : n = InIb'
  OBVIOUS
<1>3. PICK j : j = Issue(flush)
  OBVIOUS
<1>4. PICK u : u = InRest(flush, 0) \o InRest(flush, 1)
  OBVIOUS
<1>5. PICK z : z = InRest(flush, 2)
  OBVIOUS
<1>6. PICK t : t = Taken(d)
  OBVIOUS
<1>7. PICK g : g = Parcels(next, got.n)
  OBVIOUS
<1>8. IbOK /\ AlnOK
  BY DEF IbOK, AlnOK
<1>9. i \in Seq(Addr) /\ n \in Seq(Addr) /\ j \in Seq(Addr) /\ t \in Seq(Addr)
  <2>1. i \in Seq(Addr)
    BY <1>1, <1>8, InIbIs
  <2>2. t \in Seq(Addr)
    BY <1>6, IbGoesOn
  <2>3. j \in Seq(Addr)
    BY <1>3, ShiftTakes
  <2> QED
    BY <1>2, <2>1, <2>2, <2>3
<1>10. u \in Seq(Addr) /\ z \in Seq(Addr)
  <2>1. InRest(flush, 0) \in Seq(Addr) /\ InRest(flush, 1) \in Seq(Addr) /\ InRest(flush, 2) \in Seq(Addr)
    BY InRestIs
  <2> QED
    BY <1>4, <1>5, <2>1, Concats
<1>11. g \in Seq(Addr)
  <2>1. next \in Int /\ got.n \in Nat
    BY DEF Addr, Delivery
  <2> QED
    BY <1>7, <2>1, ParcelsAre
<1>12. i \o j = t \o n
  BY <1>1, <1>2, <1>3, <1>6, IbGoesOn
<1>13. held = i \o ((j \o u) \o z)
  <2>1. InBuf(0) \o InBuf(1) = j \o u
    BY <1>3, <1>4, ShiftTakes
  <2>2. InBuf(2) = z
    BY <1>5 DEF InBuf, InRest, Buf, Rest
  <2>3. held = InIb \o ((InBuf(0) \o InBuf(1)) \o InBuf(2))
    BY <1>8, HeldSplits DEF InRing
  <2> QED
    BY <1>1, <2>1, <2>2, <2>3
<1>14. held' = n \o ((u \o z) \o g)
  <2>1. (InBuf(0)' \o InBuf(1)') \o InBuf(2)' = (u \o z) \o g
    BY <1>4, <1>5, <1>7, BuffersFollow
  <2>2. held' = InIb' \o ((InBuf(0)' \o InBuf(1)') \o InBuf(2)')
    BY HeldSplitsNext DEF InRing
  <2> QED
    BY <1>2, <2>1, <2>2
<1> DEFINE rest == n \o (u \o z)
<1>15. rest \in Seq(Addr) /\ u \o z \in Seq(Addr)
  <2>1. u \o z \in Seq(Addr)
    BY <1>10, Concats
  <2> QED
    BY <1>9, <2>1, Concats
<1>16. held' = rest \o g
  <2>1. PICK v : v = u \o z
    OBVIOUS
  <2>3. n \in Seq(Addr) /\ v \in Seq(Addr) /\ g \in Seq(Addr)
    BY <1>9, <1>11, <1>15, <2>1
  <2>2. n \o (v \o g) = (n \o v) \o g
    <3>1. Cat(n, Cat(v, g)) = Cat(Cat(n, v), g)
      BY <2>3, CatLaws
    <3> QED
      BY <3>1, Zenon DEF Cat
  <2> QED
    BY <1>14, <2>1, <2>2
<1>17. held = t \o rest
  <2>1. Cat(i, j) = Cat(t, n)
    BY <1>12, Zenon DEF Cat
  <2>2. Cat(i, Cat(Cat(j, u), z)) = Cat(t, Cat(n, Cat(u, z)))
    <3>1. i \in Seq(Addr) /\ j \in Seq(Addr) /\ t \in Seq(Addr) /\ n \in Seq(Addr)
      BY <1>9
    <3>2. u \in Seq(Addr) /\ z \in Seq(Addr)
      BY <1>10
    <3> HIDE DEF rest
    <3>3. Cat(j, u) \in Seq(Addr) /\ Cat(u, z) \in Seq(Addr)
      BY <3>1, <3>2, CatLaws
    <3>4. Cat(i, Cat(Cat(j, u), z)) = Cat(Cat(i, j), Cat(u, z))
      BY <3>1, <3>2, <3>3, CatLaws
    <3>5. Cat(t, Cat(n, Cat(u, z))) = Cat(Cat(t, n), Cat(u, z))
      BY <3>1, <3>3, CatLaws
    <3> QED
      BY <2>1, <3>4, <3>5, Zenon
  <2> QED
    BY <1>13, <2>2, Zenon DEF Cat
<1> QED
  BY <1>6, <1>7, <1>15, <1>16, <1>17

(* x is what s has from fst to lst. *)
IsSlice(x, s, fst, lst) ==
  /\ x \in Seq(Addr) /\ Len(x) = IF fst <= lst THEN lst - fst + 1 ELSE 0
  /\ \A i \in 1..lst - fst + 1 : x[i] = s[fst + i - 1]

LEMMA Slice ==
  ASSUME NEW s \in Seq(Addr), NEW fst \in Int, NEW lst \in Int, 1 <= fst, lst <= Len(s)
  PROVE  IsSlice(SubSeq(s, fst, lst), s, fst, lst)
<1>1. ASSUME NEW i \in fst..lst PROVE s[i] \in Addr
  <2>1. i \in 1..Len(s)
    BY LenProperties
  <2> QED
    BY <2>1, ElementOfSeq
<1>2. SubSeq(s, fst, lst) \in Seq(Addr) /\ Len(SubSeq(s, fst, lst)) = IF fst <= lst THEN lst - fst + 1 ELSE 0
  BY <1>1, SubSeqProperties
<1>3. \A i \in 1..lst - fst + 1 : SubSeq(s, fst, lst)[i] = s[fst + i - 1]
  BY <1>1, SubSeqProperties
<1> QED
  BY <1>2, <1>3, Zenon DEF IsSlice

(* What is left of a sequence when its beginning is taken. *)
LEMMA TheRest ==
  ASSUME NEW t \in Seq(Addr), NEW rest \in Seq(Addr), NEW s, s = t \o rest
  PROVE  SubSeq(s, Len(t) + 1, Len(s)) = rest
<1>1. s \in Seq(Addr) /\ Len(s) = Len(t) + Len(rest) /\ Len(t) \in Nat /\ Len(rest) \in Nat
  BY ConcatProperties, LenProperties
<1>2. \A i \in 1..Len(s) : s[i] = IF i <= Len(t) THEN t[i] ELSE rest[i - Len(t)]
  BY <1>1, ConcatProperties
<1> DEFINE a == Len(t)
           b == Len(rest)
           x == SubSeq(s, a + 1, a + b)
<1>3. x \in Seq(Addr) /\ Len(x) = b /\ \A i \in 1..b : x[i] = s[a + i]
  <2>1. PICK fst, lst : fst = a + 1 /\ lst = a + b
    OBVIOUS
  <2>2. IsSlice(SubSeq(s, fst, lst), s, fst, lst)
    <3>1. fst \in Int /\ lst \in Int /\ 1 <= fst /\ lst <= Len(s)
      BY <1>1, <2>1
    <3>2. s \in Seq(Addr)
      BY <1>1
    <3> HIDE DEF x, a, b
    <3> QED
      BY <3>1, <3>2, Slice
  <2>3. IsSlice(x, s, fst, lst)
    BY <2>1, <2>2, Zenon
  <2> HIDE DEF x
  <2>4. x \in Seq(Addr)
    BY <2>3, Zenon DEF IsSlice
  <2>5. Len(x) = IF a + 1 <= a + b THEN (a + b) - (a + 1) + 1 ELSE 0
    BY <2>1, <2>3, Zenon DEF IsSlice
  <2>6. \A i \in 1..(a + b) - (a + 1) + 1 : x[i] = s[(a + 1) + i - 1]
    BY <2>1, <2>3, Zenon DEF IsSlice
  <2>7. (a + b) - (a + 1) + 1 = b
    BY <1>1
  <2> HIDE DEF x, a, b
  <2>8. a \in Nat /\ b \in Nat
    BY <1>1 DEF a, b
  <2>9. Len(x) = b
    BY <2>5, <2>7, <2>8
  <2>10. ASSUME NEW i \in 1..b PROVE x[i] = s[a + i]
    <3>1. (a + 1) + i - 1 = a + i
      BY <2>8
    <3> QED
      BY <2>6, <2>7, <3>1
  <2> QED
    BY <2>4, <2>9, <2>10
<1>4. ASSUME NEW i \in 1..b PROVE x[i] = rest[i]
  <2>1. a + i \in 1..Len(s) /\ ~(a + i <= a) /\ (a + i) - a = i
    BY <1>1
  <2>2. s[a + i] = rest[(a + i) - a]
    BY <1>2, <2>1
  <2> HIDE DEF x
  <2> QED
    BY <1>3, <2>1, <2>2
<1>5. x = rest
  <2> HIDE DEF x
  <2> QED
    BY <1>3, <1>4, SeqEqual
<1> QED
  BY <1>1, <1>5

(* Decode takes no instruction that is not there. *)
LEMMA DecodableIs ==
  ASSUME NEW m \in 0..4, IbRight(m), NEW d \in Decodable
  PROVE  d \in 0..2 /\ d <= m /\ (ib_flush_final => d = 0)
<1>1. Cardinality(ibval) = m
  <2>1. ibval = 0..m - 1
    BY DEF IbRight, Slots
  <2>2. Cardinality(0..m - 1) = m
    <3>1. Cardinality(0..m - 1) = IF 0 > m - 1 THEN 0 ELSE (m - 1) - 0 + 1
      BY FS_Interval
    <3> QED
      BY <3>1
  <2> QED
    BY <2>1, <2>2
<1>2. CASE ib_flush_final
  BY <1>2 DEF Decodable
<1>3. CASE ~ib_flush_final
  <2>1. d \in 0..Least(2, m)
    BY <1>1, <1>3 DEF Decodable
  <2>2. CASE 2 < m
    BY <1>3, <2>1, <2>2 DEF Least
  <2>3. CASE ~(2 < m)
    BY <1>3, <2>1, <2>3 DEF Least
  <2> QED
    BY <2>2, <2>3
<1> QED
  BY <1>2, <1>3

LEMMA Joins ==
  ASSUME NEW a \in Seq(Addr), NEW b \in Seq(Addr), NEW s, s = a \o b
  PROVE  /\ s \in Seq(Addr) /\ Len(s) = Len(a) + Len(b) /\ Len(a) \in Nat /\ Len(b) \in Nat
         /\ \A i \in 1..Len(a) : s[i] = a[i]
         /\ Len(b) > 0 => s[Len(a) + 1] = b[1]
<1>1. /\ s \in Seq(Addr) /\ Len(s) = Len(a) + Len(b)
      /\ \A i \in 1..Len(a) + Len(b) : s[i] = IF i <= Len(a) THEN a[i] ELSE b[i - Len(a)]
  BY ConcatProperties
<1> DEFINE n == Len(a)
           k == Len(b)
<1>2. n \in Nat /\ k \in Nat
  BY LenProperties
<1> HIDE DEF n, k
<1>3. \A i \in 1..n + k : s[i] = IF i <= n THEN a[i] ELSE b[i - n]
  BY <1>1 DEF n, k
<1>4. ASSUME NEW i \in 1..n PROVE s[i] = a[i]
  <2>1. i \in 1..n + k /\ i <= n
    BY <1>2
  <2> QED
    BY <1>3, <2>1
<1>5. k > 0 => s[n + 1] = b[1]
  <2>1. k > 0 => n + 1 \in 1..n + k /\ ~(n + 1 <= n) /\ (n + 1) - n = 1
    BY <1>2
  <2> QED
    BY <1>3, <2>1
<1> QED
  BY <1>1, <1>2, <1>4, <1>5 DEF n, k

(* What decode takes is the parcels of the first d instructions that are held. *)
LEMMA TakesInstructions ==
  ASSUME NEW m \in 0..4, IbRight(m), NEW d \in 0..2, d <= m, ib_flush_final => d = 0,
         NEW rest \in Seq(Addr), NEW s, s = Taken(d) \o rest
  PROVE  /\ Stream!Complete(s, d)
         /\ Stream!Decoded(s, d) = Len(Taken(d))
<1>1. Len(rest) \in Nat
  BY LenProperties
<1>2. CASE d = 0
  <2>1. Taken(d) = <<>>
    BY <1>2 DEF Taken
  <2>2. s = rest /\ Len(<<>>) = 0
    BY <2>1, Concats
  <2>3. Stream!Decoded(s, d) = 0
    BY <1>2 DEF Stream!Decoded
  <2> QED
    BY <1>1, <1>2, <2>1, <2>2, <2>3 DEF Stream!Complete
<1>3. CASE d = 1
  <2> DEFINE a == IbParcels(0)
  <2>1. a \in Seq(Addr) /\ Len(a) = (IF a[1] \in Long THEN 2 ELSE 1) /\ Taken(d) = a
    BY <1>3, IbParcelsAre DEF Taken
  <2> HIDE DEF a
  <2>2. Len(s) = Len(a) + Len(rest) /\ s[1] = a[1] /\ Len(a) \in 1..2
    <3>1. Len(a) \in 1..2
      BY <2>1
    <3>3. s = a \o rest
      BY <2>1
    <3>2. Len(s) = Len(a) + Len(rest) /\ \A i \in 1..Len(a) : s[i] = a[i]
      <4>1. a \in Seq(Addr)
        BY <2>1
      <4> QED
        BY <3>3, <4>1, Joins
    <3> QED
      BY <3>1, <3>2
  <2>3. Stream!LengthAt(s, 1) = Len(a)
    BY <2>1, <2>2 DEF Stream!LengthAt
  <2>4. Stream!Decoded(s, d) = Len(a)
    BY <1>3, <2>3 DEF Stream!Decoded
  <2> QED
    BY <1>1, <1>3, <2>1, <2>2, <2>4 DEF Stream!Complete
<1>4. CASE d = 2
  <2> DEFINE a == IbParcels(0)
             b == IbParcels(1)
  <2>1. /\ a \in Seq(Addr) /\ Len(a) = (IF a[1] \in Long THEN 2 ELSE 1)
        /\ b \in Seq(Addr) /\ Len(b) = (IF b[1] \in Long THEN 2 ELSE 1)
        /\ Taken(d) = a \o b
    <3>1. 0 < m /\ 1 < m /\ ~ib_flush_final
      BY <1>4
    <3>2. a \in Seq(Addr) /\ Len(a) = (IF a[1] \in Long THEN 2 ELSE 1)
      BY <3>1, IbParcelsAre
    <3>3. b \in Seq(Addr) /\ Len(b) = (IF b[1] \in Long THEN 2 ELSE 1)
      BY <3>1, IbParcelsAre
    <3>4. Taken(d) = a \o b
      BY <1>4 DEF Taken
    <3> QED
      BY <3>2, <3>3, <3>4
  <2> HIDE DEF a, b
  <2> DEFINE t == a \o b
             n == Len(a)
  <2>2. n \in 1..2 /\ Len(b) \in 1..2
    BY <2>1
  <2>3. t \in Seq(Addr) /\ Len(t) = n + Len(b) /\ t[1] = a[1] /\ t[n + 1] = b[1]
    <3>1. /\ t \in Seq(Addr) /\ Len(t) = n + Len(b)
          /\ \A i \in 1..n : t[i] = a[i]
          /\ Len(b) > 0 => t[n + 1] = b[1]
      <4>1. a \in Seq(Addr) /\ b \in Seq(Addr) /\ t = a \o b
        BY <2>1
      <4> HIDE DEF t
      <4> QED
        BY <4>1, Joins
    <3> HIDE DEF t, n
    <3> QED
      BY <2>2, <3>1
  <2>4. Len(s) = Len(t) + Len(rest) /\ s[1] = t[1] /\ s[1 + n] = t[n + 1]
    <3>1. s = t \o rest
      BY <2>1
    <3> HIDE DEF t
    <3>2. Len(s) = Len(t) + Len(rest) /\ \A i \in 1..Len(t) : s[i] = t[i]
      <4>1. t \in Seq(Addr)
        BY <2>3
      <4> QED
        BY <3>1, <4>1, Joins
    <3> HIDE DEF n
    <3>3. 1 \in 1..Len(t) /\ n + 1 \in 1..Len(t) /\ 1 + n = n + 1
      BY <2>2, <2>3
    <3> QED
      BY <3>2, <3>3
  <2> HIDE DEF t
  <2>5. Stream!LengthAt(s, 1) = n
    BY <2>1, <2>3, <2>4 DEF Stream!LengthAt
  <2>6. Stream!LengthAt(s, 1 + n) = Len(b)
    BY <2>1, <2>3, <2>4 DEF Stream!LengthAt
  <2>7. Stream!Decoded(s, d) = n + Len(b)
    <3> HIDE DEF n
    <3> QED
      BY <1>4, <2>5, <2>6 DEF Stream!Decoded
  <2>8. Taken(d) = t
    BY <2>1 DEF t
  <2> HIDE DEF n
  <2> QED
    BY <1>1, <1>4, <2>2, <2>3, <2>4, <2>5, <2>7, <2>8 DEF Stream!Complete
<1> QED
  BY <1>2, <1>3, <1>4

-----------------------------------------------------------------------------
(* The invariant of the stream, and the theorem. *)

(* All of it together. *)
StreamInv == FetchInv /\ RingRight /\ IbOK /\ NothingAfterFlush

LEMMA NothingHeld ==
  ASSUME ibval = {} \/ ib_flush_final, f0.n = 0, f1.n = 0, f2.n = 0
  PROVE  held = <<>>
<1>1. IbParcels(0) = <<>> /\ IbParcels(1) = <<>> /\ IbParcels(2) = <<>> /\ IbParcels(3) = <<>>
  BY DEF IbParcels
<1>2. \A f, place : f.n = 0 => BufferParcels(f, place) = <<>>
  BY DEF BufferParcels
<1>3. /\ BufferParcels(f0, rdptr) = <<>> /\ BufferParcels(f1, After(rdptr, 1)) = <<>>
      /\ BufferParcels(f2, After(rdptr, 2)) = <<>>
  BY <1>2
<1>4. <<>> \o <<>> = <<>>
  BY Concats
<1> QED
  BY <1>1, <1>3, <1>4 DEF held

LEMMA StreamBegins ==
  FrontendInit => StreamInv /\ held = <<>> /\ next \in FlushPaths /\ took = 0
<1> SUFFICES ASSUME FrontendInit
             PROVE  StreamInv /\ held = <<>> /\ next \in FlushPaths /\ took = 0
  OBVIOUS
<1>1. IfcInit /\ MemInit /\ AlnInit /\ IbInit /\ next \in FlushPaths /\ took = 0
  BY DEF FrontendInit
<1>2. FrontIInv
  BY FrontInit
<1>3. next \in Addr /\ 0 \in Addr
  BY <1>1, FrontendAssumption, AddrAssumption DEF Addr
<1>4. FetchRight
  BY <1>1, <1>3 DEF IfcInit, MemInit, FetchRight, InPlace, StartsAgain, WordIsFetched, Bypassing
<1>5. MissRight
  BY <1>1, <1>3 DEF MemInit, MissRight, Bypassing
<1>6. BusRight
  BY <1>1 DEF MemInit, BusRight, Arriving
<1>7. f0.n = 0 /\ f1.n = 0 /\ f2.n = 0 /\ rdptr = 0 /\ wrptr = 0
  BY <1>1 DEF AlnInit, EmptyBuffer
<1>8. RingRight
  <2>1. \A i \in 0..2 : Stored(Buf(i), After(rdptr, i))
    BY <1>7 DEF Stored, Buf
  <2>2. ASSUME NEW k \in 0..3, Filled(k) PROVE wrptr = After(rdptr, k)
    <3>1. k = 0
      BY <1>7, <2>2 DEF Filled
    <3> QED
      BY <1>7, <3>1 DEF After
  <2> QED
    BY <1>7, <2>1, <2>2 DEF RingRight
<1>9. ibval = {}
  BY <1>1 DEF IbInit
<1>10. IbOK
  <2>1. IbRight(0)
    BY <1>9 DEF IbRight, Slots
  <2> QED
    BY <2>1 DEF IbOK
<1>11. NothingAfterFlush
  BY <1>7 DEF NothingAfterFlush, Filled
<1>12. held = <<>>
  BY <1>7, <1>9, NothingHeld
<1> QED
  BY <1>1, <1>2, <1>4, <1>5, <1>6, <1>8, <1>10, <1>11, <1>12 DEF StreamInv, FetchInv

(* The buffers that are taken leave one for what is delivered. *)
LEMMA RoomForFetch ==
  ASSUME FetchInv, NEW flush \in BOOLEAN, NEW rd_hit, NEW branch, NEW got,
         got = Answer(flush, rd_hit, branch)
  PROVE  \E k \in 0..3 : Filled(k) /\ (got.n > 0 => k < 3)
<1>1. PICK k \in 0..3 : Filled(k) /\ k + InF2 <= 3
  BY DEF FetchInv, FrontIInv, Account
<1>2. got.n > 0 => ifc_f2_raw
  <2>1. got.n > 0 => ic_hit_f2(flush, rd_hit)
    BY DEF Answer
  <2> QED
    BY <2>1, HitIsCounted DEF FetchInv, FrontIInv, FetchesAgree
<1> QED
  BY <1>1, <1>2 DEF InF2

(* A clock keeps the invariant: what is fetched and what misses. *)
LEMMA FetchInvStep ==
  ASSUME FetchInv, NEW flush \in BOOLEAN, NEW path \in Addr, NEW noredir \in BOOLEAN,
         noredir => flush, NEW d, Clock(flush, path, noredir, d)
  PROVE  FetchInv'
<1>1. PICK rd_hit, branch, w, arready, beat :
        /\ w.flush = flush /\ w.path = path
        /\ Edge(w, rd_hit) /\ Follows(w, rd_hit, branch) /\ BusClock(w, rd_hit, arready, beat)
        /\ AlnClock(flush, Answer(flush, rd_hit, branch)) /\ IbClock(flush, d)
  BY ClockIs
<1>2. FrontTypeOK /\ FetchesAgree /\ FetchRight /\ MissRight /\ BusRight /\ InPlace
  BY DEF FetchInv, FrontIInv, FetchRight
<1>3. FrontIInv'
  BY ClockKeeps DEF FetchInv
<1>4. FetchRight'
  BY <1>1, <1>2, CompletesOnce, FetchStep
<1>5. MissRight'
  BY <1>1, <1>2, MissStep
<1>6. BusRight'
  BY <1>1, <1>2, BusStep
<1> QED
  BY <1>3, <1>4, <1>5, <1>6 DEF FetchInv

LEMMA NothingHeldNext ==
  (ibval = {} \/ ib_flush_final)' /\ (f0.n = 0)' /\ (f1.n = 0)' /\ (f2.n = 0)' => (held = <<>>)'
<1>1. (ibval = {} \/ ib_flush_final) /\ f0.n = 0 /\ f1.n = 0 /\ f2.n = 0 => held = <<>>
  BY NothingHeld
<1> QED
  BY <1>1, PTL

LEMMA InIbNext == IbOK' => (InIb \in Seq(Addr))'
<1>1. IbOK => InIb \in Seq(Addr)
  BY InIbIs
<1> QED
  BY <1>1, PTL

LEMMA Delivered ==
  ASSUME FrontTypeOK, FetchesAgree, FetchRight, MissRight, NEW rd_hit, NEW branch,
         NEW w, Signals(w, rd_hit), Follows(w, rd_hit, branch), NEW flush, w.flush = flush,
         NEW got, got = Answer(flush, rd_hit, branch)
  PROVE  Delivery(got) /\ (flush => next' = w.path) /\ (~flush => GoesOn(got))
BY DeliveryIs

LEMMA ZeroDecodable ==
  ASSUME IbOK
  PROVE  0 \in Decodable
<1>1. PICK m \in 0..4 : IbRight(m)
  BY DEF IbOK
<1>2. Cardinality(ibval) = m
  <2>1. ibval = 0..m - 1
    BY <1>1 DEF IbRight, Slots
  <2>2. Cardinality(0..m - 1) = IF 0 > m - 1 THEN 0 ELSE (m - 1) - 0 + 1
    BY FS_Interval
  <2> QED
    BY <2>1, <2>2
<1> QED
  BY <1>2 DEF Decodable, Least

(* A clock keeps the invariant. *)
LEMMA StreamInvStep ==
  ASSUME StreamInv, NEW flush \in BOOLEAN, NEW path \in Addr, NEW noredir \in BOOLEAN,
         noredir => flush, NEW d \in Decodable, Clock(flush, path, noredir, d)
  PROVE  StreamInv'
<1>1. FetchInv /\ RingRight /\ NothingAfterFlush /\ FrontTypeOK /\ FetchesAgree /\ FetchRight
      /\ MissRight /\ next \in Addr
  BY DEF StreamInv, FetchInv, FrontIInv, FetchRight, InPlace
<1>2. PICK rd_hit, branch, w, arready, beat :
        /\ w.flush = flush /\ w.path = path
        /\ Edge(w, rd_hit) /\ Follows(w, rd_hit, branch) /\ BusClock(w, rd_hit, arready, beat)
        /\ AlnClock(flush, Answer(flush, rd_hit, branch)) /\ IbClock(flush, d)
  BY <1>1, ClockIs
<1>3. PICK got : got = Answer(flush, rd_hit, branch)
  OBVIOUS
<1>4. Delivery(got)
  BY <1>1, <1>2, <1>3, FetchEdgeOf, Delivered
<1>5. PICK k \in 0..3 : Filled(k) /\ (got.n > 0 => k < 3)
  BY <1>1, <1>3, RoomForFetch
<1>6. AlnClock(flush, got) /\ IbClock(flush, d)
  BY <1>2, <1>3
<1>7. FetchInv'
  BY <1>1, FetchInvStep
<1>8. RingRight'
  BY <1>1, <1>4, <1>5, <1>6, RingStep
<1>9. IbOK'
  <2>1. PICK m \in 0..4 : IbRight(m)
    BY DEF StreamInv, IbOK
  <2>2. d \in 0..2 /\ d <= m
    BY <2>1, DecodableIs
  <2>3. CASE ib_flush_final
    <3>1. IbRight(0)'
      BY <1>6, <2>3, IbEmpties
    <3> QED
      BY <3>1 DEF IbOK
  <2>4. CASE ~ib_flush_final
    <3>1. PICK e : e = issued(flush)
      OBVIOUS
    <3>2. PICK n : n = m - d + e
      OBVIOUS
    <3>3. m - d + e \in 0..4 /\ IbRight(m - d + e)'
      BY <1>1, <1>5, <1>6, <2>1, <2>2, <2>4, <3>1, IbMoves
    <3>4. n \in 0..4 /\ IbRight(n)'
      BY <3>2, <3>3
    <3> QED
      BY <3>4 DEF IbOK
  <2> QED
    BY <2>3, <2>4
<1>10. NothingAfterFlush'
  <2>1. ib_flush_final' = flush
    BY <1>6 DEF IbClock
  <2>2. flush => Filled(0)'
    BY <1>6 DEF AlnClock, EmptyBuffer, Filled
  <2> QED
    BY <2>1, <2>2 DEF NothingAfterFlush
<1> QED
  BY <1>7, <1>8, <1>9, <1>10 DEF StreamInv

(* A clock of the front end is a step of the stream. *)
LEMMA StreamStep ==
  ASSUME StreamInv, NEW flush \in BOOLEAN, NEW path \in Addr, NEW noredir \in BOOLEAN,
         noredir => flush, NEW d \in Decodable, flush => d = 0, Clock(flush, path, noredir, d)
  PROVE  /\ flush => Stream!Redirect(path)
         /\ ~flush => \E e \in 0..2, n \in 0..PARCELS : Stream!Advance(e, n)
<1>0. took' = d
  BY DEF Clock
<1>1. FetchInv /\ RingRight /\ NothingAfterFlush /\ FrontTypeOK /\ FetchesAgree /\ FetchRight
      /\ MissRight /\ next \in Addr
  BY DEF StreamInv, FetchInv, FrontIInv, FetchRight, InPlace
<1>2. PICK rd_hit, branch, w, arready, beat :
        /\ w.flush = flush /\ w.path = path
        /\ Edge(w, rd_hit) /\ Follows(w, rd_hit, branch) /\ BusClock(w, rd_hit, arready, beat)
        /\ AlnClock(flush, Answer(flush, rd_hit, branch)) /\ IbClock(flush, d)
  BY <1>1, ClockIs
<1>3. PICK got : got = Answer(flush, rd_hit, branch)
  OBVIOUS
<1>4. Delivery(got) /\ (flush => next' = path) /\ (~flush => GoesOn(got))
  BY <1>1, <1>2, <1>3, FetchEdgeOf, Delivered
<1>5. PICK k \in 0..3 : Filled(k) /\ (got.n > 0 => k < 3)
  BY <1>1, <1>3, RoomForFetch
<1>6. AlnClock(flush, got) /\ IbClock(flush, d)
  BY <1>2, <1>3
<1>7. PICK m \in 0..4 : IbRight(m)
  BY DEF StreamInv, IbOK
<1>8. d \in 0..2 /\ d <= m /\ (ib_flush_final => d = 0)
  BY <1>7, DecodableIs
<1>9. CASE flush
  <2>1. ib_flush_final' = TRUE
    BY <1>6, <1>9 DEF IbClock
  <2>2. f0'.n = 0 /\ f1'.n = 0 /\ f2'.n = 0
    BY <1>6, <1>9 DEF AlnClock, EmptyBuffer
  <2>3. held' = <<>>
    BY <2>1, <2>2, NothingHeldNext
  <2> QED
    BY <1>4, <1>9, <1>0, <2>3 DEF Stream!Redirect
<1>10. CASE ~flush
  <2>1. StreamInv'
    BY StreamInvStep
  <2>2. (IbOK /\ AlnOK)'
    BY <2>1 DEF StreamInv, FetchInv, FrontIInv, Account, AlnOK
  <2>3. InIb' \in Seq(Addr)
    BY <2>2, InIbNext
  <2>4. PICK rest \in Seq(Addr) : held = Taken(d) \o rest /\ held' = rest \o Parcels(next, got.n)
    BY <1>1, <1>4, <1>5, <1>6, <1>7, <1>8, <1>10, <2>2, <2>3, HeldStep
  <2>5. Stream!Complete(held, d) /\ Stream!Decoded(held, d) = Len(Taken(d))
    BY <1>7, <1>8, <2>4, TakesInstructions
  <2>6. Taken(d) \in Seq(Addr)
    BY <1>1, <1>5, <1>6, <1>7, <1>8, <1>10, IbGoesOn
  <2>7. SubSeq(held, Stream!Decoded(held, d) + 1, Len(held)) = rest
    BY <2>4, <2>5, <2>6, TheRest
  <2>8. got.n \in 0..PARCELS
    <3>1. Offset(next) \in 0..PARCELS - 1 /\ PARCELS \in Nat \ {0}
      BY <1>1, AddrIs, AddrAssumption
    <3> QED
      BY <1>4, <3>1 DEF Delivery
  <2>9. \A a, i : Stream!Plus(a, i) = Plus(a, i)
    BY DEF Stream!Plus, Plus
  <2>11. Parcels(next, got.n) = [i \in 1..got.n |-> Stream!Plus(next, i - 1)]
    BY <2>9 DEF Parcels
  <2>12. \/ next' = Stream!Plus(next, got.n)
         \/ got.n > 0 /\ \E b \in Branches : b.at = Stream!Plus(next, got.n - 1) /\ next' = b.to
    <3>1. Stream!Plus(next, got.n) = Plus(next, got.n)
      BY <2>9
    <3>2. Stream!Plus(next, got.n - 1) = Plus(next, got.n - 1)
      BY <2>9
    <3> QED
      BY <1>4, <1>10, <3>1, <3>2 DEF GoesOn
  <2>10. Stream!Advance(d, got.n)
    BY <1>0, <2>4, <2>5, <2>7, <2>11, <2>12 DEF Stream!Advance
  <2> QED
    BY <1>8, <1>10, <2>8, <2>10
<1> QED
  BY <1>9, <1>10

LEMMA RunStreams ==
  ASSUME StreamInv, Run
  PROVE  StreamInv' /\ Stream!StreamNext
<1>1. PICK d \in Decodable : Clock(FALSE, 0, FALSE, d)
  BY DEF Run
<1>2. PICK no \in BOOLEAN : no = FALSE
  OBVIOUS
<1>3. Clock(no, 0, no, d) /\ ~no
  BY <1>1, <1>2
<1>4. 0 \in Addr
  BY AddrAssumption DEF Addr
<1>5. StreamInv'
  BY <1>3, <1>4, StreamInvStep
<1>6. \E e \in 0..2, n \in 0..PARCELS : Stream!Advance(e, n)
  BY <1>3, <1>4, StreamStep
<1> QED
  BY <1>5, <1>6 DEF Stream!StreamNext

LEMMA FlushStreams ==
  ASSUME StreamInv, NEW path \in FlushPaths, NEW noredir \in BOOLEAN, Clock(TRUE, path, noredir, 0)
  PROVE  StreamInv' /\ Stream!StreamNext
<1>1. PICK yes \in BOOLEAN : yes = TRUE
  OBVIOUS
<1>2. Clock(yes, path, noredir, 0) /\ yes
  BY <1>1
<1>3. path \in Addr
  BY FrontendAssumption
<1>4. 0 \in Decodable
  BY ZeroDecodable DEF StreamInv
<1>5. StreamInv'
  BY <1>2, <1>3, <1>4, StreamInvStep
<1>6. Stream!Redirect(path)
  BY <1>2, <1>3, <1>4, StreamStep
<1> QED
  BY <1>5, <1>6 DEF Stream!StreamNext

LEMMA StillStreams ==
  ASSUME StreamInv, UNCHANGED feVars
  PROVE  StreamInv' /\ UNCHANGED <<held, next, took>>
<1>1. UNCHANGED <<ifcVars, memVars, alnVars, ibVars, next, took>>
  BY DEF feVars, registers
<1>2. UNCHANGED <<f0, f1, f2, q, qoff, rdptr, wrptr, ibval, ib, ib_flush_final, next, took>>
  BY <1>1 DEF alnVars, ibVars
<1>3. UNCHANGED <<ifc_state, f1_raw, addr_f1_raw, ifc_f2_raw, ifc_addr_f2, miss_addr, miss_a,
                  ic_crit_wd_rdy_d1, fetch_crit_word_d1, fetch_crit_word_d2>>
  BY <1>1 DEF ifcVars
<1>4. UNCHANGED <<miss_state, mem_f2_raw, mem_addr_f2, imb_ff, byp, ic_crit_wd_rdy_ff,
                  data_beat_count, ic_req, cmd_beat_count, rd_addr_count, owed, rbeat>>
  BY <1>1 DEF memVars
<1>5. FrontIInv'
  BY FrontStep DEF StreamInv, FetchInv
<1>6. FetchRight'
  BY <1>2, <1>3, <1>4 DEF StreamInv, FetchInv, FetchRight, InPlace, StartsAgain, WordIsFetched, Bypassing
<1>7. MissRight'
  BY <1>2, <1>3, <1>4 DEF StreamInv, FetchInv, MissRight, Bypassing, miss_pending
<1>8. BusRight'
  <2>1. /\ firstCount' = firstCount
        /\ \A i : Beat(i)' = Beat(i)
    BY <1>4 DEF firstCount, Beat, uncacheable_miss_ff, imb_half
  <2>2. asked' = asked
    BY <1>4, <2>1 DEF asked
  <2>3. Asked' = Asked
    BY <2>1, <2>2 DEF Asked
  <2>4. rd_addr_count = (imb_half(0) + asked) % BEATS => rd_addr_count' = (imb_half(0)' + asked') % BEATS
    BY <1>4, <2>2 DEF imb_half
  <2> QED
    BY <1>4, <2>1, <2>2, <2>3, <2>4 DEF StreamInv, FetchInv, BusRight, Arriving, Counted, HalvesCame
<1>9. RingRight'
  BY <1>2 DEF StreamInv, RingRight, Stored, Buf, Filled
<1>10. IbOK'
  BY <1>2 DEF StreamInv, IbOK, IbRight, InstrRight
<1>11. NothingAfterFlush'
  BY <1>2 DEF StreamInv, NothingAfterFlush, Filled
<1>12. held' = held
  BY <1>2 DEF held, IbParcels, InstrParcels, BufferParcels, Held, ParcelAt
<1> QED
  BY <1>2, <1>5, <1>6, <1>7, <1>8, <1>9, <1>10, <1>11, <1>12 DEF StreamInv, FetchInv

LEMMA StreamNextStep ==
  StreamInv /\ [FrontendNext]_feVars => StreamInv' /\ [Stream!StreamNext]_(Stream!streamVars)
<1> SUFFICES ASSUME StreamInv, [FrontendNext]_feVars
             PROVE  StreamInv' /\ [Stream!StreamNext]_(Stream!streamVars)
  OBVIOUS
<1>1. CASE Run
  BY <1>1, RunStreams
<1>2. CASE Redirect
  <2>1. PICK path \in FlushPaths : Clock(TRUE, path, FALSE, 0)
    BY <1>2 DEF Redirect
  <2> QED
    BY <2>1, FlushStreams
<1>3. CASE Halt
  <2>1. PICK path \in FlushPaths : Clock(TRUE, path, TRUE, 0)
    BY <1>3 DEF Halt
  <2> QED
    BY <2>1, FlushStreams
<1>4. CASE UNCHANGED feVars
  BY <1>4, StillStreams DEF Stream!streamVars
<1> QED
  BY <1>1, <1>2, <1>3, <1>4 DEF FrontendNext

(* In every state: the fetch in f2 is the next of the program and is answered with
   its own group (the halves kept of a line are those of the miss, the miss that of
   the fetch), each fetch buffer holds parcels of one group from its pc on, the
   instructions in the buffer are cut at their own length and stand at their pc,
   and nothing survives a flush. *)
THEOREM StreamInvariant == FrontendSpec => []StreamInv
<1>1. FrontendInit => StreamInv
  BY StreamBegins
<1>2. StreamInv /\ [FrontendNext]_feVars => StreamInv'
  BY StreamNextStep
<1> QED
  BY <1>1, <1>2, PTL DEF FrontendSpec

(* Whatever misses, flushes, bypassed words, held up retries and turns come
   together, decode is given the parcels of the program from the last flush on:
   none skipped, none twice, none of another line, none cut in the wrong place,
   and each with its own pc (ifu_ifc_ctl, ifu_mem_ctl, ifu_aln_ctl, dec_ib_ctl). *)
THEOREM StreamImplemented == FrontendSpec => ImplementsStream
<1>1. FrontendInit => Stream!StreamInit
  BY StreamBegins DEF Stream!StreamInit
<1>2. StreamInv /\ [FrontendNext]_feVars => [Stream!StreamNext]_(Stream!streamVars)
  BY StreamNextStep
<1> QED
  BY <1>1, <1>2, StreamInvariant, PTL DEF FrontendSpec, ImplementsStream, Stream!StreamSpec
=============================================================================
