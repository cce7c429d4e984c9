------------------------------- MODULE IfuAln -------------------------------
(***************************************************************************)
(* The aligner (ifu_aln_ctl.sv): three fetch buffers f0, f1, f2 in the      *)
(* order of the program, of which the first four parcels are cut into at     *)
(* most two instructions, and the instruction buffer of decode               *)
(* (dec_ib_ctl.sv) that takes them.                                         *)
(*                                                                         *)
(* The valid parcels and the pc of a buffer move from f2 to f0; its data     *)
(* stays where it was written, in a ring q with a read and a write pointer,   *)
(* and an offset per place says which parcel of it is next.                  *)
(***************************************************************************)
EXTENDS IfuAddr

IB_DEPTH == 4    \* DEC_INSTBUF_DEPTH of the default configuration
Window == 4      \* parcels the aligner looks at
NoGroup == -1
Garbage == -1    \* a parcel that is none of the program

VARIABLES
  f0, f1, f2,         \* [n, pc]: valid parcels and the address of the first
  q, qoff,            \* place of the ring -> fetch group, offset of its next parcel
  rdptr, wrptr,
  ibval, ib,          \* valid bits and instructions of the instruction buffer
  ib_flush_final      \* flush_final: the pipe was flushed a clock ago

alnVars == <<f0, f1, f2, q, qoff, rdptr, wrptr>>
ibVars == <<ibval, ib, ib_flush_final>>

EmptyBuffer == [n |-> 0, pc |-> 0]
NoInstr == [pc |-> 0, parcels |-> <<>>]

AlnInit ==
  /\ f0 = EmptyBuffer /\ f1 = EmptyBuffer /\ f2 = EmptyBuffer
  /\ q = [i \in 0..2 |-> NoGroup] /\ qoff = [i \in 0..2 |-> 0]
  /\ rdptr = 0 /\ wrptr = 0

IbInit ==
  /\ ibval = {} /\ ib = [k \in 0..IB_DEPTH - 1 |-> NoInstr]
  /\ ib_flush_final = FALSE

Monus(a, b) == IF a < b THEN 0 ELSE a - b
After(p, k) == (p + k) % 3

-----------------------------------------------------------------------------
(* The window: parcel i of aligndata, its pc, and how many are valid. *)

ParcelAt(place, k) ==
  IF q[place] = NoGroup \/ k >= PARCELS THEN Garbage ELSE q[place] * PARCELS + k

aligndata(i) ==
  IF i < f0.n THEN ParcelAt(rdptr, qoff[rdptr] + i)
  ELSE ParcelAt(After(rdptr, 1), qoff[After(rdptr, 1)] + i - f0.n)
alignpc(i) == IF i < f0.n THEN Plus(f0.pc, i) ELSE Plus(f1.pc, i - f0.n)
alignval == IF f0.n = 0 THEN 0 ELSE Least(Window, f0.n + f1.n)

i0_len == IF aligndata(0) \in Long THEN 2 ELSE 1
i1_len == IF aligndata(i0_len) \in Long THEN 2 ELSE 1

ifu_i0_valid(flush) == ~flush /\ i0_len <= alignval
ifu_i1_valid(flush) == ~flush /\ i0_len + i1_len <= alignval

ifu_i0 == [pc |-> f0.pc, parcels |-> [k \in 1..i0_len |-> aligndata(k - 1)]]
ifu_i1 == [pc |-> alignpc(i0_len), parcels |-> [k \in 1..i1_len |-> aligndata(i0_len + k - 1)]]

i0_shift(flush) == ifu_i0_valid(flush) /\ 3 \notin ibval
i1_shift(flush) == ifu_i1_valid(flush) /\ 2 \notin ibval

(* Parcels that leave the window, of f0 and of f1. *)
shifted(flush) ==
  IF ~i0_shift(flush) THEN 0 ELSE IF i1_shift(flush) THEN i0_len + i1_len ELSE i0_len
f1_shift(flush) == Monus(shifted(flush), f0.n)

shifted_buffer(f, k) ==
  IF f.n > k THEN [n |-> f.n - k, pc |-> Plus(f.pc, k)] ELSE EmptyBuffer
sf0(flush) == shifted_buffer(f0, shifted(flush))
sf1(flush) == shifted_buffer(f1, f1_shift(flush))

ifu_fb_consume(flush) ==
  IF flush \/ f0.n = 0 \/ sf0(flush).n > 0 THEN 0
  ELSE IF f1.n > 0 /\ sf1(flush).n = 0 THEN 2 ELSE 1

-----------------------------------------------------------------------------
(* The offsets of the buffers that were read; the one of f0 stays when it had
   two parcels and more than that left (f0_shift_4B needs shift_6B & shift_8B),
   when nobody will look at it again. *)

first_offset(flush) ==
  IF f0.n = 2 /\ shifted(flush) > 2 THEN 0 ELSE Least(shifted(flush), f0.n)
qoff_eff(flush, place) ==
  CASE place = rdptr -> (qoff[place] + first_offset(flush)) % PARCELS
    [] place = After(rdptr, 1) -> (qoff[place] + f1_shift(flush)) % PARCELS
    [] OTHER -> qoff[place]

(* got: the fetch that is answered, [n, pc, group], n = 0 if there is none. *)
AlnClock(flush, got) ==
  LET ifvalid == got.n > 0
      fetched == [n |-> got.n, pc |-> got.pc]
      v0 == sf0(flush).n > 0
      v1 == sf1(flush).n > 0
      v2 == f2.n > 0
      shift_f1_f0 == ~v0 /\ v1
      shift_f2_f0 == ~v0 /\ ~v1 /\ v2
      shift_f2_f1 == ~v0 /\ v1 /\ v2
      fetch_to_f0 == ifvalid /\ ~v0 /\ ~v1 /\ ~v2
      fetch_to_f1 == ifvalid /\ \/ ~v0 /\ ~v1 /\ v2
                                \/ ~v0 /\ v1 /\ ~v2
                                \/ v0 /\ ~v1 /\ ~v2
      fetch_to_f2 == ifvalid /\ v1 /\ (v0 # v2)
      written == IF ifvalid THEN {wrptr} ELSE {}
      (* Places nobody looks at before they are written: the code keeps them. *)
      dead == IF flush THEN 0..2
              ELSE {After(rdptr, k) : k \in 0..ifu_fb_consume(flush) - 1} \ written
  IN
  /\ f0' = IF flush THEN EmptyBuffer
           ELSE CASE fetch_to_f0 -> fetched
                  [] shift_f2_f0 -> f2
                  [] shift_f1_f0 -> sf1(flush)
                  [] OTHER -> sf0(flush)
  /\ f1' = IF flush THEN EmptyBuffer
           ELSE IF fetch_to_f1 THEN fetched
           ELSE IF shift_f2_f1 THEN f2
           ELSE IF shift_f1_f0 THEN EmptyBuffer ELSE sf1(flush)
  /\ f2' = IF flush THEN EmptyBuffer
           ELSE IF fetch_to_f2 THEN fetched
           ELSE IF shift_f2_f1 \/ shift_f2_f0 THEN EmptyBuffer ELSE f2
  /\ q' = [i \in 0..2 |-> IF i \in dead THEN NoGroup
                          ELSE IF i \in written THEN got.group ELSE q[i]]
  /\ qoff' = [i \in 0..2 |-> IF i \in dead THEN 0
                             ELSE IF i \in written THEN Offset(got.pc)
                             ELSE qoff_eff(flush, i)]
  /\ rdptr' = IF flush THEN 0 ELSE After(rdptr, ifu_fb_consume(flush))
  /\ wrptr' = IF flush THEN 0 ELSE IF ifvalid THEN After(wrptr, 1) ELSE wrptr

-----------------------------------------------------------------------------
(* The instruction buffer.  The new valid bits are set where the instructions
   would go if decode took none, and shifted (ibval_in); the instructions are
   written where they belong after the shift (write_i0_ib0 to write_i0_ib3). *)

ifu_i0_val(flush) == ifu_i0_valid(flush) /\ 3 \notin ibval /\ ~ib_flush_final
ifu_i1_val(flush) == ifu_i1_valid(flush) /\ 2 \notin ibval /\ ~ib_flush_final

(* The places i0 and i1 go to, given the valid bits. *)
write_i0(bits) == {k \in 0..3 : k \notin bits /\ (k > 0 => k - 1 \in bits)}
write_i1(bits) == {k \in 1..3 : k - 1 \notin bits /\ (k > 1 => k - 2 \in bits)}

ShiftDown(bits, d) == {k - d : k \in {j \in bits : j >= d}}

shift_ibval(d) == ShiftDown(ibval, d)

(* d: instructions decode takes. *)
IbClock(flush, d) ==
  LET i0 == IF ifu_i0_val(flush) THEN write_i0(ibval) ELSE {}
      i1 == IF ifu_i1_val(flush) THEN write_i1(ibval) ELSE {}
      w0 == IF ifu_i0_val(flush) THEN write_i0(shift_ibval(d)) ELSE {}
      w1 == IF ifu_i1_val(flush) THEN write_i1(shift_ibval(d)) ELSE {}
      ibval_in == IF ib_flush_final THEN {} ELSE ShiftDown(ibval \cup i0 \cup i1, d)
  IN
  /\ ibval' = ibval_in
  /\ ib' = [k \in 0..IB_DEPTH - 1 |->
              IF k \notin ibval_in THEN NoInstr    \* dead: the code keeps what was there
              ELSE IF k \in w0 THEN ifu_i0
              ELSE IF k \in w1 THEN ifu_i1 ELSE ib[k + d]]
  /\ ib_flush_final' = flush
=============================================================================
