----------------------------- MODULE MCWorkspace -----------------------------
(***************************************************************************)
(* Instances of Workspace for TLC: a large guarded plan of three axes with *)
(* a compact variant, a middle one of four axes and a small one whose host *)
(* staging is larger.                                                      *)
(***************************************************************************)
EXTENDS Workspace, TLC

Size(fourD, guarded, scratch, device, compact, host, input, spectrum) ==
    [fourD |-> fourD, guarded |-> guarded, scratch |-> scratch, device |-> device, compact |-> compact,
     host |-> host, input |-> input, spectrum |-> spectrum]

Mixed ==
    {Size(FALSE, TRUE, 1, 4, 2, 0, 0, 2),
     Size(TRUE, FALSE, 1, 3, 3, 1, 2, 1),
     Size(TRUE, FALSE, 0, 1, 1, 2, 1, 1)}

\* Plans differ in their names only.
PlanSymmetry == Permutations(Plans)
=============================================================================
