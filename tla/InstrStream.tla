----------------------------- MODULE InstrStream -----------------------------
(***************************************************************************)
(* What the front end of SweRV promises to decode: the parcels of the       *)
(* program, each once and in order, from the last redirection on, with      *)
(* the turns the branch predictor chose and no others.  A parcel is its     *)
(* address; it is half an instruction or a compressed one.                  *)
(***************************************************************************)
EXTENDS IfuAddr, Sequences

CONSTANTS
  Branches,      \* [at, to]: branches the predictor knows, by their last parcel
  FlushPaths     \* where the pipe is redirected to

VARIABLES
  stream,   \* parcels fetched and not decoded, oldest first
  next,     \* the parcel to fetch next
  took      \* instructions decode took at the last clock

streamVars == <<stream, next, took>>

(* Parcels of the first d instructions of s. *)
LengthAt(s, k) == IF s[k] \in Long THEN 2 ELSE 1
Decoded(s, d) ==
  CASE d = 0 -> 0
    [] d = 1 -> LengthAt(s, 1)
    [] d = 2 -> LengthAt(s, 1) + LengthAt(s, 1 + LengthAt(s, 1))
Complete(s, d) ==
  /\ d > 0 => Len(s) > 0
  /\ d = 2 => Len(s) > LengthAt(s, 1)
  /\ Decoded(s, d) <= Len(s)

StreamInit == stream = <<>> /\ next \in FlushPaths /\ took = 0

(* A clock: decode takes d instructions, which leave, those and no others;
   n parcels of one group arrive. *)
Advance(d, n) ==
  /\ took' = d
  /\ \/ next' = Plus(next, n)
     \/ n > 0 /\ \E b \in Branches : b.at = Plus(next, n - 1) /\ next' = b.to
  /\ LET s == stream
     IN  /\ Complete(s, d)
         /\ stream' = SubSeq(s, Decoded(s, d) + 1, Len(s))
                         \o [k \in 1..n |-> Plus(next, k - 1)]

Redirect(a) == stream' = <<>> /\ next' = a /\ took' = 0

StreamNext ==
  \/ \E d \in 0..2, n \in 0..PARCELS : Advance(d, n)
  \/ \E a \in FlushPaths : Redirect(a)

StreamSpec == StreamInit /\ [][StreamNext]_streamVars
=============================================================================
