---------------------------- MODULE PhaseBarrier ----------------------------
(***************************************************************************)
(* What a parse of a resfile promises about its workers, with no slots, no *)
(* joins and no signals: an image has at most one worker, and a phase ends *)
(* only when no worker is left.                                            *)
(***************************************************************************)
EXTENDS Naturals

CONSTANTS Image, Phase

VARIABLES
    phase,    \* the phase that runs, 0 when none does
    active    \* the images that have a worker

vars == <<phase, active>>

Init == phase = 0 /\ active = {}

Enter(p) ==
    /\ active = {}
    /\ phase' = p
    /\ UNCHANGED active

Start(b) ==
    /\ phase # 0
    /\ b \notin active
    /\ active' = active \cup {b}
    /\ UNCHANGED phase

Finish(b) ==
    /\ active' = active \ {b}
    /\ UNCHANGED phase

Next ==
    \/ \E p \in Phase \cup {0} : Enter(p)
    \/ \E b \in Image : Start(b) \/ Finish(b)

Spec == Init /\ [][Next]_vars

=============================================================================
