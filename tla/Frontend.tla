------------------------------ MODULE Frontend ------------------------------
(***************************************************************************)
(* The front end of SweRV: fetch control (IfuIfc), the instruction cache's   *)
(* control (IfuMem), the aligner and the instruction buffer (IfuAln), as      *)
(* ifu.sv and dec.sv wire them.  A step is one clock edge.  The branch        *)
(* predictor, decode, the flushes and the DMA controller's stall are inputs.  *)
(***************************************************************************)
EXTENDS IfuIfc, IfuMem, IfuAln, Sequences, FiniteSets

CONSTANTS
  Branches,      \* [at, to]: branches the predictor knows, by their last parcel
  FlushPaths     \* where the pipe is redirected to

ASSUME FrontendAssumption ==
  FlushPaths \subseteq Addr /\ Branches \subseteq [at : Addr, to : Addr]

VARIABLES
  next,    \* history: where the program goes on after what was delivered
  took,    \* history: instructions decode took at the last clock
  clk      \* history: tells a clock that changes nothing else from no step at all

registers == <<ifcVars, memVars, alnVars, ibVars, next>>
feVars == <<registers, took, clk>>

(* A fetch that hits is delivered from its address to the end of its group
   or to the branch that is predicted taken. *)
NoBranch == [at |-> -1, to |-> 0]
Predictions(flush) ==
  {NoBranch} \cup
  IF ifc_f2_raw /\ ~flush
  THEN {b \in Branches : Group(b.at) = Group(ifc_addr_f2) /\ b.at >= ifc_addr_f2}
  ELSE {}

ic_fetch_val_f2(branch) ==
  Least(PARCELS - Offset(mem_addr_f2),
        IF branch = NoBranch THEN PARCELS ELSE branch.at - ifc_addr_f2 + 1)

(***************************************************************************)
(* A clock: path, noredir, of a flush; d, instructions decode takes.  The    *)
(* tags, the predictor, the DMA controller (stall: it wants the ICCM) and     *)
(* the bus say what they like.                                              *)
(***************************************************************************)
Clock(flush, path, noredir, d) ==
  \E rd_hit \in RdHits(flush), branch \in Predictions(flush) :
    LET hit == ic_hit_f2(flush, rd_hit)
        w == [flush |-> flush, path |-> path, noredir |-> noredir,
              kill |-> branch # NoBranch, target |-> branch.to,
              consume |-> ifu_fb_consume(flush), hit |-> hit,
              crit_rdy |-> ic_crit_wd_rdy_ff, mb_empty |-> ifu_ic_mb_empty,
              write_stall |-> ic_write_stall]
        got == [n |-> IF hit THEN ic_fetch_val_f2(branch) ELSE 0, pc |-> ifc_addr_f2,
                group |-> ic_data_f2]
        f1_req == ifc_fetch_req_f1(w)
        f1_addr == ifc_fetch_addr_f1(w)
    IN
    /\ next' = IF flush THEN path
               ELSE IF got.n = 0 THEN next
               ELSE IF branch # NoBranch THEN branch.to ELSE Plus(next, got.n)
    /\ AlnClock(flush, got)
    /\ IbClock(flush, d)
    /\ took' = d
    /\ \E stall \in BOOLEAN : IfcClock(w, stall)
    /\ \E arready \in Ready, beat \in {Nothing} \cup Answers :
         MemClock(flush, rd_hit, f1_raw, f1_req, f1_addr, arready, beat)
    /\ clk' = (UNCHANGED registers /\ ~clk)

(* dec_i0_decode_d, dec_i1_decode_d: none in the clock after a flush. *)
Decodable == IF ib_flush_final THEN {0} ELSE 0..Least(2, Cardinality(ibval))

Run == \E d \in Decodable : Clock(FALSE, 0, FALSE, d)
(* A flush of the upper pipe lets decode go on for this clock: whatever it
   takes is of the wrong path, as is what is left. *)
Redirect == \E path \in FlushPaths : Clock(TRUE, path, FALSE, 0)
Halt == \E path \in FlushPaths : Clock(TRUE, path, TRUE, 0)

FrontendInit == IfcInit /\ MemInit /\ AlnInit /\ IbInit /\ next \in FlushPaths
                /\ took = 0 /\ clk = FALSE

FrontendNext == Run \/ Redirect \/ Halt

FrontendSpec == FrontendInit /\ [][FrontendNext]_feVars

(***************************************************************************)
(* The clock and the bus go on, and the DMA controller leaves the ICCM       *)
(* alone one day: a stall of every third clock could hold up each retry.      *)
(* Nothing is asked of decode, the tags or the predictor.                    *)
(***************************************************************************)
FrontendLive ==
  /\ FrontendSpec
  /\ []<><<TRUE>>_feVars
  /\ []<><<ic_req => cmd_beat_count' # cmd_beat_count>>_feVars
  /\ []<>(owed = {} \/ rbeat # Nothing)
  /\ <>[]~dma_iccm_stall_any_f

-----------------------------------------------------------------------------
(* The parcels the front end holds, as decode will see them. *)

Held(pc, parcel) == IF pc = parcel THEN parcel ELSE Garbage

InstrParcels(i) ==
  [k \in 1..Len(i.parcels) |-> IF k = 1 THEN Held(i.pc, i.parcels[1]) ELSE i.parcels[k]]
BufferParcels(f, place) ==
  [k \in 1..f.n |-> Held(Plus(f.pc, k - 1), ParcelAt(place, qoff[place] + k - 1))]
IbParcels(k) == IF k \in ibval /\ ~ib_flush_final THEN InstrParcels(ib[k]) ELSE <<>>

held ==
  IbParcels(0) \o IbParcels(1) \o IbParcels(2) \o IbParcels(3)
    \o BufferParcels(f0, rdptr) \o BufferParcels(f1, After(rdptr, 1))
    \o BufferParcels(f2, After(rdptr, 2))

-----------------------------------------------------------------------------
(* Properties. *)

Stream == INSTANCE InstrStream WITH stream <- held

(* Whatever misses, flushes, bypassed words, held up retries and turns come
   together, decode is given the parcels of the program from the last flush on:
   none skipped, none twice, none of another line, none cut in the wrong place,
   and each with its own pc; what decode does not take stays. *)
ImplementsStream == Stream!StreamSpec

(* Fetch buffers that are taken, and the one a fetch in f2 may take. *)
outstanding ==
  Cardinality({i \in 1..3 : <<f0, f1, f2>>[i].n > 0}) + (IF ifc_f2_raw THEN 1 ELSE 0)

(* "model fb write logic to mass balance the fetch buffers" (ifu_ifc_ctl.sv:196):
   fetch control does not see the buffers of the aligner, and must count them
   right from what they consume and what misses.  It does, but for a second bit
   one above the right one, which stays until the next flush: a miss in the clock
   that empties two buffers sets fb_right2 and fb_right3. *)
BuffersCounted ==
  1 + outstanding \in fb_write_f1 /\ fb_write_f1 \subseteq {1 + outstanding, 2 + outstanding}

(* A core that fetches is given instructions, or is flushed: no retry is lost
   between a miss, its critical word, the end of the line and the stalls for
   writes of the cache and for the DMA ("If crit word fetch is blocked, try
   again", ifu_ifc_ctl.sv:117). *)
FetchGoesOn == ifc_state # "IDLE" ~> f0.n > 0 \/ ib_flush_final \/ ifc_state = "IDLE"
=============================================================================
