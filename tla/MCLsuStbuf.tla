----------------------------- MODULE MCLsuStbuf -----------------------------
(* Constants of the model-checking runs of LsuStbuf: words of two bytes. *)
EXTENDS LsuStbuf

Access(op, region, addr, size) == [op |-> op, region |-> region, addr |-> addr, size |-> size]

(* The core and the DMA on the same words, whose reads may need a repair: bytes,
   words and accesses of two words, with a PIC register at the same offset and
   an external load that may freeze the pipe behind them. *)
MCCore == {Access("store", "dccm", 2, 1), Access("store", "dccm", 1, 2),
           Access("load", "dccm", 1, 2), Access("load", "ext", 8, 2),
           Access("store", "pic", 2, 2)}
MCDma == {Access("store", "dccm", 3, 1), Access("store", "dccm", 0, 4)}
MCWatched == {<<"dccm", 2>>}
=============================================================================
