----------------------------- MODULE MCSwervOvi -----------------------------
(* Constants of the model-checking runs of SwervOvi. *)
EXTENDS SwervOvi

(* A load of a chunk and a half, a store of the same, and an instruction without
   memory that writes a scalar register. *)
MCVectors == {[kind |-> k, vl |-> 3, sew |-> 2, wb |-> FALSE] : k \in {"load", "store"}}
             \cup {[kind |-> "arith", vl |-> 3, sew |-> 2, wb |-> TRUE]}
=============================================================================
