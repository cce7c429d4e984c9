---------------------------- MODULE MCLsuBusBuffer ----------------------------
(* Small instances of LsuBusBuffer: two bytes to a word, two words to a bus word. *)
EXTENDS LsuBusBuffer

Access(op, addr, size) == [op |-> op, addr |-> addr, size |-> size, sideeffect |-> FALSE]
Strict(op, addr) == [op |-> op, addr |-> addr, size |-> 1, sideeffect |-> TRUE]

FourWords == 0..3

(* Half a word and a word across two words of one bus word, a load of both; and a
   device in the other one. *)
Mixed == {Access("store", 1, 1), Access("store", 1, 2), Access("load", 1, 2),
          Strict("store", 4), Strict("load", 6)}
(* Stores and loads across bus words. *)
TwoBusWords == {Access("store", 3, 2), Access("store", 4, 1), Access("load", 3, 2)}
(* A store and loads that take two entries, with one transaction or with two. *)
DualLoads == {Access("store", 1, 1), Access("load", 1, 2), Access("load", 3, 2)}
=============================================================================
