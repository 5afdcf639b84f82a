----------------------------- MODULE StateFile -----------------------------
(***************************************************************************)
(* What the rest of the store takes the state file for (disk in Store): a  *)
(* register that holds nothing, or one whole snapshot, and that a save     *)
(* replaces in one step by a later one.  Snapshots are numbered in the     *)
(* order of the saves that wrote them.  A save that another save or a full *)
(* disk has disturbed leaves the register damaged until the next one that  *)
(* nothing disturbs.                                                       *)
(***************************************************************************)
EXTENDS Integers

CONSTANTS
    Absent,         \* no file, or the empty file of the first start
    Damaged,        \* the file is anything
    MayDamage       \* saves may be disturbed

VARIABLE file

Init == file = Absent

replace ==
    /\ file' \in Nat
    /\ file \in Nat => file' > file

damage ==
    /\ MayDamage
    /\ file' = Damaged

Next == replace \/ damage

Spec == Init /\ [][Next]_file
=============================================================================
