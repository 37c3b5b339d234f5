-------------------------------- MODULE MCOta --------------------------------
(* Instances of Ota for TLC: two slots of two sectors, the image flashed   *)
(* over USB, which fills one of them, and a new one, which fills both.     *)
EXTENDS Ota, TLC

CONSTANTS ota_0, ota_1, old, new

MCSlots == {ota_0, ota_1}
MCImages == {old, new}
MCSize == [i \in MCImages |-> IF i = old THEN 1 ELSE 2]
MCUnknown == 9
MCTotals == {0, 1, 2, 3, MCUnknown}
MCChunks == {1, 2}
=============================================================================
