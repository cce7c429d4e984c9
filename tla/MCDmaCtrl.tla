----------------------------- MODULE MCDmaCtrl -----------------------------
(* The memories of the requests in the run of DmaCtrl: writes and reads of the
   bus, of which the ICCM answers a clock before the DCCM; a debug module that
   writes the ICCM and reads an address no memory has. *)
EXTENDS DmaCtrl

MCBoth == {"dccm", "iccm"}
MCDccm == {"dccm"}
MCIccm == {"iccm"}
MCBad == {"none"}
=============================================================================
