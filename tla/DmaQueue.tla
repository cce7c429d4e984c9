------------------------------ MODULE DmaQueue ------------------------------
(***************************************************************************)
(* What the DMA controller promises: requests are performed one at a time   *)
(* in the order in which they were taken, each once, those with an error    *)
(* not at all, and are answered in that order, each with what its own       *)
(* access returned.                                                        *)
(***************************************************************************)
EXTENDS Sequences, Integers

CONSTANTS Ids, Capacity

VARIABLES
  requests,   \* the requests taken and not answered, oldest first
  accessed,   \* the request performed in the last clock: {} or {id}
  answered    \* the answer of the last clock: {} or {[id, data]}

vars == <<requests, accessed, answered>>

Request == [id : Ids, bad : BOOLEAN, done : BOOLEAN]

Init == requests = <<>> /\ accessed = {} /\ answered = {}

Waiting(s) == {i \in DOMAIN s : ~s[i].done}
Turn(s) == {i \in Waiting(s) : \A j \in Waiting(s) : i <= j}

(* In one clock the first waiting request has its turn or not, ... *)
Performs(i, s) ==
  /\ s = [requests EXCEPT ![i].done = TRUE]
  /\ accessed' = IF requests[i].bad THEN {} ELSE {requests[i].id}

(* ... the oldest one is answered or not, if its turn has been, ... *)
Answers(s, t) ==
  /\ s # <<>> /\ s[1].done
  /\ answered' = {[id |-> s[1].id, data |-> IF s[1].bad THEN 0 ELSE s[1].id]}
  /\ t = Tail(s)

(* ... and a new one is taken or not. *)
Takes(t) ==
  \E r \in Request : /\ ~r.done /\ \A i \in DOMAIN t : t[i].id # r.id
                     /\ Len(t) < Capacity
                     /\ requests' = Append(t, r)

Next ==
  \E i \in {0} \cup Turn(requests) :
    LET s == IF i = 0 THEN requests ELSE [requests EXCEPT ![i].done = TRUE]
    IN  /\ IF i = 0 THEN accessed' = {} ELSE Performs(i, s)
        /\ \/ answered' = {} /\ (requests' = s \/ Takes(s))
           \/ Answers(s, Tail(s)) /\ (requests' = Tail(s) \/ Takes(Tail(s)))

Spec == Init /\ [][Next]_vars
=============================================================================
