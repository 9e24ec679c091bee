--------------------------- MODULE MCResfileCache ---------------------------
(* Instances of ResfileCache for TLC.                                      *)
EXTENDS ResfileCache, TLC

CONSTANTS t1, t2, t3, kernel, module1

(* Two images of the kernel's resfile and one of a module's. *)
MCRfOf3 == <<kernel, kernel, module1>>
MCRfOf2 == <<kernel, module1>>

(* Images of different sizes: evicting one does not always make room. *)
MCSize3 == <<1, 2, 1>>
MCSize2 == <<1, 1>>
MCSizeEqual == <<1, 1, 1>>

Symmetry == Permutations(Thread)

=============================================================================
