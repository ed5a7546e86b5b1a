--------------------------- MODULE ControlTransfer ---------------------------
(***************************************************************************)
(* What a USB device promises about control transfers, seen from the host: *)
(* a request is either taken or refused, once; only a request that was     *)
(* taken completes, only one that was refused ends in a stall, and the     *)
(* host may give up at any time.                                           *)
(***************************************************************************)
VARIABLE phase

Init == phase = "idle"

Ask      == phase = "idle" /\ phase' = "asked"
Take     == phase = "asked" /\ phase' = "taken"
Refuse   == phase = "asked" /\ phase' = "refused"
Complete == phase = "taken" /\ phase' = "idle"
Stall    == phase = "refused" /\ phase' = "idle"
GiveUp   == phase # "idle" /\ phase' = "idle"

Next == Ask \/ Take \/ Refuse \/ Complete \/ Stall \/ GiveUp

Spec == Init /\ [][Next]_phase
=============================================================================
