----------------------------- MODULE MCFrontend -----------------------------
(* Constants of the model-checking run of Frontend: groups of two parcels and
   lines of two groups; the first line is cached, the second is not, the third
   is in the ICCM.  Instructions of two parcels begin at the end of a group of
   each line, and a branch goes from the first line into the second. *)
EXTENDS Frontend

MCLong == {1, 5, 9}
MCUncacheable == {2, 3}
MCIccm == {4, 5}
MCBranches == {[at |-> 2, to |-> 5]}
MCFlushPaths == {1}
=============================================================================
