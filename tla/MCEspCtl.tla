------------------------------- MODULE MCEspCtl -------------------------------
(* Instances of EspCtl for TLC: the good file takes two chunks, the last of *)
(* them short; the other spells no image.                                   *)
EXTENDS EspCtl, TLC

CONSTANTS ota_0, ota_1, old, new

MCSlots == {ota_0, ota_1}
MCImages == {old, new}
MCSize == [i \in MCImages |-> 3]
MCFiles == {[img |-> new, size |-> 3], [img |-> None, size |-> 2], [img |-> None, size |-> 4]}
===============================================================================
