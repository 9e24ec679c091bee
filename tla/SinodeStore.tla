---------------------------- MODULE SinodeStore -----------------------------
(***************************************************************************)
(* The sinodes of the functions and variables of all images, and STEP2     *)
(* ("get base"), which links the declarations of the images to them.       *)
(*                                                                         *)
(* Each worker goes through the declarations of its image (do_get_base of  *)
(* gcc/c.cc, getbase of gcc/asm.cc), one at a time under getbase_lock: it  *)
(* looks the name up, and inserts a new sinode, drops the declaration, or  *)
(* lets it replace the one the sinode stands for.  The source files have   *)
(* sinodes too; an assembly image looks its own up and inserts it without  *)
(* the lock.                                                               *)
(*                                                                         *)
(* An index is a red-black tree.  Its in-order sequence is kept here, not  *)
(* its shape: what a walk may reach is what it reaches in some tree over   *)
(* that sequence.  While the sequence is sorted that is one outcome.       *)
(***************************************************************************)
EXTENDS Integers, Sequences, SequencesExt

CONSTANTS
    Image,      \* the sibufs
    RfOf,       \* RfOf[u]: the address of the resfile of image u
    Builtin,    \* the address of the built-in resfile, 0 when there is none
    Asm,        \* the images of data format SI_TYPE_DF_ASM
    Srcfile,    \* Srcfile[u]: the source file of image u
    Programs,   \* the declarations the images may hold, one is chosen
    MayForce,   \* bound: the images STEP2 is forced on again
    MaxForced   \* bound: forced runs of STEP2 on images that had it

NoBuiltin == 0
GlobalKind == {"func", "var"}                \* TYPE_FUNC_GLOBAL, ..VAR_GLOBAL
StaticKind == {"sfunc", "svar"}              \* TYPE_FUNC_STATIC, ..VAR_STATIC
Kind == GlobalKind \cup StaticKind           \* TYPE_TYPE is kept like "svar"

(* A declaration of an image: what the name is compared by (strcmp, then   *)
(* addresses and line numbers), its source file, its weak flag, and        *)
(* whether it has a cfg.                                                   *)
Declaration ==
    [kind : Kind \cup {"extern"}, name : Nat, loc : Nat, weak : BOOLEAN,
     body : BOOLEAN, file : Nat]

(* What a symbol of an assembly image is declared in is the image's file.  *)
(* No declaration of a gimple image lies in an assembly file.              *)
ASSUME StoreAssumption ==
    /\ RfOf \in [Image -> Nat \ {NoBuiltin}]
    /\ Builtin \in Nat
    /\ Asm \subseteq Image
    /\ Srcfile \in [Image -> Nat]
    /\ Programs \subseteq [Image -> Seq(Declaration)]
    /\ \A p \in Programs, u \in Image : \A i \in DOMAIN p[u] :
          IF u \in Asm THEN p[u][i].file = Srcfile[u]
                       ELSE \A v \in Asm : p[u][i].file # Srcfile[v]
    /\ MayForce \subseteq Image
    /\ MaxForced \in Nat

VARIABLES
    decls,     \* the declarations of each image
    pos,       \* pos[u]: the declaration the worker of u is at
    unit,      \* unit[u]: how far an assembly image is with its file
    files,     \* the source files that have a sinode
    node,      \* the sinodes made so far
    bySpec,    \* bySpec[k]: the index by name, as sequence of sinodes
    byId,      \* byId[k]: the sinodes in the index by id
    dropped,   \* the declarations whose is_dropped is set
    replaced,  \* the declarations whose is_replaced is set
    aborted,   \* what BUG() stopped the program for, "" when it did not
    forced     \* forced runs so far

fileVars == <<unit, files>>
vars == <<decls, pos, fileVars, node, bySpec, byId, dropped, replaced, aborted,
          forced>>

Decl(d) == decls[d[1]][d[2]]
Rf(d) == RfOf[d[1]]
IsAsm(d) == d[1] \in Asm
IsFunc(d) == Decl(d).kind \in {"func", "sfunc"}

(* A sinode is made for a declaration, def.  Its data, datalen, buf, obj   *)
(* and loc_* are those of def; weak_flag is kept apart, since a            *)
(* replacement exchanges everything but that.                              *)
Sinode == [def : Image \X (Nat \ {0}), weak : {0, -1}]

TypeOK ==
    /\ DOMAIN decls = Image
    /\ \A u \in Image : pos[u] \in 1..(Len(decls[u]) + 1)
    /\ unit \in [Image -> {"new", "missed", "in", "known"}]
    /\ files \subseteq Nat
    /\ node \in Seq(Sinode)
    /\ \A k \in Kind : /\ Range(bySpec[k]) \subseteq DOMAIN node
                       /\ byId[k] \subseteq DOMAIN node
    /\ dropped \cup replaced \subseteq Image \X (Nat \ {0})
    /\ aborted \in {"", "file", "name"}
    /\ forced \in 0..MaxForced

Init ==
    /\ decls \in Programs
    /\ pos = [u \in Image |-> 1]
    /\ unit = [u \in Image |-> IF u \in Asm THEN "new" ELSE "in"]
    /\ files = {}
    /\ node = << >>
    /\ bySpec = [k \in Kind |-> << >>]
    /\ byId = [k \in Kind |-> {}]
    /\ dropped = {} /\ replaced = {}
    /\ aborted = ""
    /\ forced = 0

-----------------------------------------------------------------------------
(* The indexes                                                             *)

Def(k, p) == node[bySpec[k][p]].def

(* What the index of d's kind is ordered by. *)
Key(d) == <<Decl(d).name, IF Decl(d).kind \in GlobalKind
                          THEN Rf(d) ELSE Decl(d).loc>>

Less(a, b) == a[1] < b[1] \/ (a[1] = b[1] /\ a[2] < b[2])

(* The positions a walk for key may stop at, and those after which it may  *)
(* fall off the tree.                                                      *)
Hits(k, key) == {p \in DOMAIN bySpec[k] : Key(Def(k, p)) = key}

(* Faulty: a walk that does not compare.                                   *)
GapsAnywhere(k, key) == 0..Len(bySpec[k])

Gaps(k, key) ==
    {g \in 0..Len(bySpec[k]) :
        /\ g > 0 => Less(Key(Def(k, g)), key)
        /\ g < Len(bySpec[k]) => Less(key, Key(Def(k, g + 1)))}

Nothing == 0
Walk(k, key) == Hits(k, key) \cup {Nothing : g \in Gaps(k, key)}

(* A global name is looked up in its own resfile, then in the built-in one. *)
Search(d) ==
    LET k == Decl(d).kind
        own == Walk(k, Key(d))
    IN IF k \in GlobalKind /\ Builtin \notin {NoBuiltin, Rf(d)}
       THEN (own \ {Nothing}) \cup
            UNION {Walk(k, <<Decl(d).name, Builtin>>) : r \in own \cap {Nothing}}
       ELSE own

-----------------------------------------------------------------------------
(* Conflicts                                                               *)

(* weak_flag of the tree, and what remains of it in a signed bit-field of  *)
(* width 1.                                                                *)
Vis(d) == IF Decl(d).weak THEN 1 ELSE 0
Stored(d) == IF Decl(d).weak THEN -1 ELSE 0

(* A variable always has a node, a function has one when its cfg is known. *)
HasData(d) == ~ IsFunc(d) \/ IsAsm(d) \/ Decl(d).body

(* Faulty: the weaker declaration wins.                                    *)
WeakReplaces(n, d) ==
    IF IsAsm(d) \/ IsAsm(n.def)
    THEN Vis(d) < n.weak
    ELSE Vis(n.def) < Vis(d)

(* TREE_NAME_CONFLICT_REPLACE: the new declaration takes the sinode over.  *)
Replaces(n, d) ==
    IF IsAsm(d) \/ IsAsm(n.def)
    THEN Vis(d) < n.weak
    ELSE \/ Vis(n.def) > Vis(d)
         \/ IsFunc(d) /\ ~ Decl(n.def).body /\ Decl(d).body

(* The static that is found is the declaration itself, seen before.        *)
Known(n, d) ==
    /\ ~ IsAsm(d)
    /\ \/ Decl(d).kind = "svar"
       \/ Decl(d).kind = "sfunc" /\ HasData(n.def)

-----------------------------------------------------------------------------
(* One declaration, under getbase_lock                                     *)

Here(u) == <<u, pos[u]>>
Finished(u) == pos[u] = Len(decls[u]) + 1

(* A parse goes through one resfile. *)
Runs(u) ==
    /\ aborted = ""
    /\ ~ Finished(u)
    /\ \A v \in {w \in Image : RfOf[w] # RfOf[u]} :
          Finished(v) \/ (pos[v] = 1 /\ unit[v] \in {"new", "in"})

Turn(u) == Runs(u) /\ unit[u] = "in"

Advance(u) == pos' = [pos EXCEPT ![u] = @ + 1]

(* is_dropped and is_replaced are cleared first, then drop and mark set.   *)
SetFlags(u, drop, mark) ==
    IF u \in Asm
    THEN UNCHANGED <<dropped, replaced>>
    ELSE /\ dropped' = (dropped \ {Here(u)}) \cup drop
         /\ replaced' = (replaced \ {Here(u)}) \cup mark

(* An external declaration is of no interest. *)
GetExtern(u) ==
    /\ Turn(u)
    /\ Decl(Here(u)).kind = "extern"
    /\ SetFlags(u, {Here(u)}, {})
    /\ Advance(u)
    /\ UNCHANGED <<decls, fileVars, node, bySpec, byId, aborted, forced>>

(* The index of the source files, by their names.                          *)
sinode_search_file(f) == f \in files
sinode_insert_file(f) ==
    IF f \in files THEN aborted' = "file" /\ UNCHANGED files
                   ELSE files' = files \cup {f} /\ UNCHANGED aborted

(* Faulty: the file of a declaration is inserted unseen.                   *)
SeesNoFile(u) == sinode_insert_file(Decl(Here(u)).file)

(* The sinode of the file of a declaration is found or made.  That of an   *)
(* assembly image is there.                                                *)
NeedsFile(u) ==
    LET f == Decl(Here(u)).file
    IN IF sinode_search_file(f) THEN UNCHANGED <<files, aborted>>
                                ELSE sinode_insert_file(f)

(* u is at a declaration of kind k and finds a sinode at position f.       *)
Finds(u, k, f) ==
    /\ Turn(u)
    /\ Decl(Here(u)).kind = k
    /\ f # Nothing
    /\ f \in Search(Here(u))

GetKnown(u, k, f) ==
    /\ Finds(u, k, f)
    /\ Known(node[bySpec[k][f]], Here(u))
    /\ SetFlags(u, {}, {})
    /\ NeedsFile(u) /\ Advance(u)
    /\ UNCHANGED <<decls, unit, node, bySpec, byId, forced>>

(* Faulty: the declaration is left out but not marked.                     *)
GetDroppedUnmarked(u, k, f) ==
    /\ Finds(u, k, f)
    /\ ~ Known(node[bySpec[k][f]], Here(u))
    /\ ~ Replaces(node[bySpec[k][f]], Here(u))
    /\ SetFlags(u, {}, {})
    /\ NeedsFile(u) /\ Advance(u)
    /\ UNCHANGED <<decls, unit, node, bySpec, byId, forced>>

GetDropped(u, k, f) ==
    /\ Finds(u, k, f)
    /\ ~ Known(node[bySpec[k][f]], Here(u))
    /\ ~ Replaces(node[bySpec[k][f]], Here(u))
    /\ SetFlags(u, {Here(u)}, {})
    /\ NeedsFile(u) /\ Advance(u)
    /\ UNCHANGED <<decls, unit, node, bySpec, byId, forced>>

(* _sinode_insert_name_resfile with SINODE_INSERT_BH_REPLACE compares      *)
(* names only: it stops at any sinode of that name.  The new sinode, which *)
(* gets an id but enters no index, and that one exchange what they stand   *)
(* for.  Of two sinodes the first one made is the root of the tree.        *)
Namesakes(k, d) ==
    LET same == {p \in DOMAIN bySpec[k] : Decl(Def(k, p)).name = Decl(d).name}
    IN {p \in same : \/ Len(bySpec[k]) > 2
                     \/ \A q \in same : bySpec[k][p] <= bySpec[k][q]}

(* "BUG_ON(sn->datalen != data->datalen)", or a static variable, for which *)
(* the behavior is ignored and the insertion fails.                        *)
CannotReplace(k, d, e) ==
    \/ k = "svar"
    \/ k \in GlobalKind /\ HasData(d) # HasData(e)

Exchange(k, d, p) ==
    node' = Append([node EXCEPT ![bySpec[k][p]].def = d],
                   [def |-> Def(k, p), weak |-> Stored(d)])

Conflicting(u, k, f) ==
    /\ Finds(u, k, f)
    /\ ~ Known(node[bySpec[k][f]], Here(u))
    /\ Replaces(node[bySpec[k][f]], Here(u))

(* Only a declaration of a gimple image has an obj to mark. *)
Marked(k, f) == IF IsAsm(Def(k, f)) THEN {} ELSE {Def(k, f)}

(* Faulty: the mark is set on the declaration that takes over.             *)
GetReplaceMarksNew(u, k, f) ==
    /\ Conflicting(u, k, f)
    /\ \E p \in Namesakes(k, Here(u)) :
          /\ ~ CannotReplace(k, Here(u), Def(k, p))
          /\ Exchange(k, Here(u), p)
    /\ SetFlags(u, {}, {Here(u)})
    /\ NeedsFile(u) /\ Advance(u)
    /\ UNCHANGED <<decls, unit, bySpec, byId, forced>>

(* Faulty: the new sinode is entered by its id, as any other.              *)
GetReplaceById(u, k, f) ==
    /\ Conflicting(u, k, f)
    /\ \E p \in Namesakes(k, Here(u)) :
          /\ ~ CannotReplace(k, Here(u), Def(k, p))
          /\ Exchange(k, Here(u), p)
    /\ byId' = [byId EXCEPT ![k] = @ \cup {Len(node) + 1}]
    /\ SetFlags(u, {}, Marked(k, f))
    /\ NeedsFile(u) /\ Advance(u)
    /\ UNCHANGED <<decls, unit, bySpec, forced>>

GetReplace(u, k, f) ==
    /\ Conflicting(u, k, f)
    /\ \E p \in Namesakes(k, Here(u)) :
          /\ ~ CannotReplace(k, Here(u), Def(k, p))
          /\ Exchange(k, Here(u), p)
    /\ SetFlags(u, {}, Marked(k, f))
    /\ NeedsFile(u) /\ Advance(u)
    /\ UNCHANGED <<decls, unit, bySpec, byId, forced>>

Abort(u, k, f) ==
    /\ Conflicting(u, k, f)
    /\ \E p \in Namesakes(k, Here(u)) : CannotReplace(k, Here(u), Def(k, p))
    /\ aborted' = "name"
    /\ UNCHANGED <<decls, pos, fileVars, node, bySpec, byId, dropped, replaced, forced>>

(* Nothing is found: a new sinode, the n-th, enters both indexes, at the   *)
(* place where the search left the tree.                                   *)
sinode_insert_by_id(k, n) == byId' = [byId EXCEPT ![k] = @ \cup {n}]

EnterBySpec(k, key, n) ==
    \E g \in Gaps(k, key) :
        bySpec' = [bySpec EXCEPT ![k] = InsertAt(@, g + 1, n)]

sinode_new(d) == node' = Append(node, [def |-> d, weak |-> Stored(d)])

GetNew(u, k) ==
    /\ Turn(u)
    /\ Decl(Here(u)).kind = k
    /\ Nothing \in Search(Here(u))
    /\ sinode_new(Here(u))
    /\ sinode_insert_by_id(k, Len(node) + 1)
    /\ EnterBySpec(k, Key(Here(u)), Len(node) + 1)
    /\ SetFlags(u, {}, {})
    /\ NeedsFile(u) /\ Advance(u)
    /\ UNCHANGED <<decls, unit, forced>>

-----------------------------------------------------------------------------
(* The file of an assembly image, looked up and inserted without           *)
(* getbase_lock                                                            *)

Reaches(u, to) == unit' = [unit EXCEPT ![u] = to]

(* An image whose file is known is left out: "Same srcfile".               *)
FindFile(u) ==
    /\ Runs(u) /\ unit[u] = "new"
    /\ IF sinode_search_file(Srcfile[u])
       THEN Reaches(u, "known") /\ pos' = [pos EXCEPT ![u] = Len(decls[u]) + 1]
       ELSE Reaches(u, "missed") /\ UNCHANGED pos
    /\ UNCHANGED <<decls, files, node, bySpec, byId, dropped, replaced, aborted,
                   forced>>

(* BUG_ON(sinode_insert): another worker may have inserted it meanwhile.   *)
InsertFile(u) ==
    /\ Runs(u) /\ unit[u] = "missed"
    /\ sinode_insert_file(Srcfile[u])
    /\ IF sinode_search_file(Srcfile[u]) THEN UNCHANGED unit ELSE Reaches(u, "in")
    /\ UNCHANGED <<decls, pos, node, bySpec, byId, dropped, replaced, forced>>

(* Faulty: the walk over the declarations starts one too early.            *)
ForceFromZero(u) ==
    /\ aborted = ""
    /\ forced < MaxForced
    /\ u \in MayForce
    /\ decls[u] # << >> /\ Finished(u)
    /\ forced' = forced + 1
    /\ pos' = [pos EXCEPT ![u] = 0]
    /\ UNCHANGED <<decls, fileVars, node, bySpec, byId, dropped, replaced, aborted>>

(* "one_sibuf (srcpath) 2 1", or "parse" of step 1 and then of step 2      *)
(* again.  (For an asm image getbase finds its own file and returns.)      *)
ForceAgain(u) ==
    /\ aborted = ""
    /\ forced < MaxForced
    /\ u \in MayForce \ Asm
    /\ decls[u] # << >> /\ Finished(u)
    /\ forced' = forced + 1
    /\ pos' = [pos EXCEPT ![u] = 1]
    /\ UNCHANGED <<decls, fileVars, node, bySpec, byId, dropped, replaced, aborted>>

GetBase(u) ==
    \/ GetExtern(u)
    \/ FindFile(u) \/ InsertFile(u)
    \/ \E k \in Kind :
          \/ GetNew(u, k)
          \/ \E f \in DOMAIN bySpec[k] :
                \/ GetKnown(u, k, f) \/ GetDropped(u, k, f)
                \/ GetReplace(u, k, f) \/ Abort(u, k, f)

Next == \E u \in Image : GetBase(u) \/ ForceAgain(u)

Spec == Init /\ [][Next]_vars

-----------------------------------------------------------------------------
(* What the programs declare under one kind and name is alike where the    *)
(* index keeps it apart: in two resfiles, or statics at two lines.  The    *)
(* index stays sorted only then, see Namesakes.                            *)
NamesAlike(programs) ==
    \A p \in programs, u, v \in Image :
        \A i \in DOMAIN p[u], j \in DOMAIN p[v] :
            LET d == p[u][i]
                e == p[v][j]
            IN /\ d.kind \in Kind
               /\ d.kind = e.kind /\ d.name = e.name
               /\ IF d.kind \in GlobalKind THEN RfOf[u] # RfOf[v]
                                           ELSE d.loc # e.loc
               => /\ d.weak = e.weak
                  /\ d.kind \in {"func", "sfunc"} => d.body = e.body

(* No assembly file of the programs declares a weak symbol.                *)
AsmStrong(programs) ==
    \A p \in programs, u \in Asm : \A i \in DOMAIN p[u] : ~ p[u][i].weak

Linked == {u \in Image : unit[u] # "known"}
Seen == UNION {{<<u, i>> : i \in 1..(pos[u] - 1)} : u \in Linked}
SeenGlobal == {d \in Seen : ~ IsAsm(d) /\ Decl(d).kind \in GlobalKind}

Live == UNION {{Def(k, p) : p \in DOMAIN bySpec[k]} : k \in Kind}

(* A declaration that was linked is found again by the later phases:       *)
(* get_func_sinode and get_var_sinode do not meet BUG_ON(!sn).             *)
Resolves ==
    \A d \in Seen : Decl(d).kind # "extern" => Nothing \notin Search(d)

(* STEP2 stops in two cases only.  A declaration cannot replace another    *)
(* one when just one of them has data, or when it is a static variable.    *)
(* Two workers insert one file only when the images were made from one     *)
(* assembly file, each having looked before the other one inserted it.     *)
OnlyTheseStops ==
    /\ aborted = "file" => \E u, v \in Asm :
          /\ u # v /\ Srcfile[u] = Srcfile[v]
          /\ unit[u] = "missed" /\ unit[v] \in {"missed", "in"}
    /\ aborted = "name" =>
          \E u, v \in Image : \E i \in DOMAIN decls[u], j \in DOMAIN decls[v] :
              /\ decls[u][i].kind = decls[v][j].kind
              /\ decls[u][i].name = decls[v][j].name
              /\ CannotReplace(decls[u][i].kind, <<u, i>>, <<v, j>>)

(* What a sinode stands for is not left out by the phases 3 to 6, unless   *)
(* STEP2 was forced on an image that had it: then it drops what it finds.  *)
LiveIsAnalysed == (forced = 0) => Live \cap (dropped \cup replaced) = {}

(* A global declaration that no sinode stands for is left out by them.     *)
NothingLost == SeenGlobal \subseteq Live \cup dropped \cup replaced

(* The walk by id (sinode_match) meets the sinodes that can be found by    *)
(* name, and no sinode that has been exchanged away.                       *)
IdsMatch == \A k \in Kind : byId[k] = Range(bySpec[k])

(* In whatever order the workers come, the strongest of the declarations   *)
(* of a name is the one its sinode stands for.                             *)
StrongestWins ==
    \A d \in SeenGlobal : \A f \in Search(d) \ {Nothing} :
        Vis(Def(Decl(d).kind, f)) <= Vis(d)

=============================================================================
