------------------------------ MODULE MCOviTop ------------------------------
(* Constants of the model-checking runs of OviTop. *)
EXTENDS OviTop, TLC

(* Every program of two instructions and one of three; those of
   memfiles/arith.mem and memarith.mem, by the kinds of their instructions; and
   the longest with which the 4 bits of the counter hold, given the 4 credits
   of the code. *)
MCPrograms ==
  [0..1 -> Kinds]
    \cup {0 :> "store" @@ 1 :> "load" @@ 2 :> "store",
          [i \in 0..6 |-> "arith"],
          0 :> "load" @@ 1 :> "arith" @@ 2 :> "arith" @@ 3 :> "arith" @@ 4 :> "store",
          [i \in 0..12 |-> "arith"]}

(* Programs for one short vector. *)
MCShortPrograms == [0..0 -> {"load", "store"}]

(* One <<vl, sew>> per element width, with one to six packets; with four
   packets a chunk none of them ends on a chunk boundary. *)
MCWidths == {<<1, 2>>, <<5, 2>>, <<12, 0>>, <<6, 1>>, <<3, 3>>}

(* 32-bit elements that fill their last chunk. *)
MCFullChunks == {<<4, 2>>}

(* Eight bytes: two packets. *)
MCBytes == {<<8, 0>>}

(* One byte: less than a packet. *)
MCSubPacket == {<<1, 0>>}
=============================================================================
