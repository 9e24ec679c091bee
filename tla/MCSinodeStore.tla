--------------------------- MODULE MCSinodeStore ----------------------------
(* Instances of SinodeStore for TLC: what the images may declare.          *)
EXTENDS SinodeStore, FiniteSets

D(kind, name, loc, weak, body) ==
    [kind |-> kind, name |-> name, loc |-> loc, weak |-> weak, body |-> body,
     file |-> 0]

(* Image 7 is made from the assembly file of image 5.  Loc 3 is a line of  *)
(* a header.                                                               *)
MCSrcfile == <<1, 2, 3, 4, 5, 6, 5>>
Header == 8
Placed(u, d) == [d EXCEPT !.file = IF d.loc = 3 THEN Header ELSE MCSrcfile[u]]

Lists(S) == {<<d>> : d \in S} \cup
            {<<d, e>> : d \in S, e \in S}
Distinct(s) == \A i, j \in DOMAIN s : i # j =>
    <<s[i].kind, s[i].name, s[i].loc>> # <<s[j].kind, s[j].name, s[j].loc>>
(* Three images declare something, the last of them one thing.             *)
ProgramsOf(u, S, v, T, w, R) ==
    {[i \in Image |-> CASE i = u -> [n \in DOMAIN p |-> Placed(u, p[n])]
                        [] i = v -> [n \in DOMAIN q |-> Placed(v, q[n])]
                        [] i = w -> <<Placed(w, r)>>
                        [] OTHER -> <<>>] :
        p \in {l \in Lists(S) : Distinct(l)},
        q \in {l \in Lists(T) : Distinct(l)}, r \in R}

(* Functions, weak or not, a weak alias, which has no cfg, and variables.  *)
LinkDecls ==
    {D("func", 1, 0, w, TRUE) : w \in BOOLEAN}
    \cup {D("func", 1, 0, TRUE, FALSE), D("func", 2, 0, FALSE, TRUE)}
    \cup {D("var", 1, 0, w, FALSE) : w \in BOOLEAN}

(* What a kernel image, an assembly file and a module declare in common. *)
ModuleDecls ==
    {D("func", n, 0, FALSE, TRUE) : n \in {1, 2}}
    \cup {D("extern", 2, 0, FALSE, FALSE), D("svar", 1, 3, FALSE, FALSE),
            D("sfunc", 1, 3, FALSE, TRUE)}
AsmDecls ==
    {D("func", n, 0, FALSE, TRUE) : n \in {1, 2}}
    \cup {D("sfunc", 1, 4, FALSE, TRUE), D("svar", 1, 4, FALSE, TRUE)}

(* Images 1 to 5 are of the kernel, the last one in assembly, image 6 is a *)
(* module's.  Either three images of the kernel are linked, or one of it   *)
(* with the assembly file and the module, or with the assembly file twice. *)
MCImage == 1..7
MCRfOf == <<2, 2, 2, 2, 2, 1, 2>>
LinkPrograms ==
    ProgramsOf(1, LinkDecls, 2, LinkDecls, 3,
               {D("func", 1, 0, FALSE, TRUE), D("func", 1, 0, TRUE, FALSE),
                D("var", 1, 0, FALSE, FALSE)})
ModulePrograms ==
    ProgramsOf(4, ModuleDecls, 5, AsmDecls, 6,
               {D("func", 1, 0, FALSE, TRUE), D("svar", 1, 3, FALSE, FALSE)})
TwiceDecls == {D("func", 1, 0, FALSE, TRUE), D("svar", 1, 4, FALSE, TRUE)}
TwicePrograms ==
    ProgramsOf(5, TwiceDecls, 4, ModuleDecls, 7, {D("func", 1, 0, FALSE, TRUE)})
AllPrograms == LinkPrograms \cup ModulePrograms \cup TwicePrograms

(* The same function, weak or not, in two resfiles. *)
WeakDecls == {D("func", 1, 0, w, TRUE) : w \in BOOLEAN}
WeakPrograms == ProgramsOf(1, WeakDecls, 2, WeakDecls, 6, WeakDecls)

(* The programs of the first instance satisfy what the theorems assume,    *)
(* those of the second one do not.                                         *)
ASSUME Alike ==
    /\ NamesAlike(AllPrograms) /\ AsmStrong(AllPrograms)
    /\ ~ NamesAlike(WeakPrograms)

=============================================================================
