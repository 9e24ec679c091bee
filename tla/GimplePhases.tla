---------------------------- MODULE GimplePhases -----------------------------
(***************************************************************************)
(* STEP3 to STEP6 for the images of a resfile, each step with one worker   *)
(* per image and a barrier behind it (parse_resfile), then mark_entry.     *)
(*                                                                         *)
(* Programs are what STEP2 leaves: the types the images declare, and the   *)
(* functions, variables and SSA names that their code is about.            *)
(***************************************************************************)
EXTENDS TypeDetail, CallGraph

CONSTANTS
    Programs    \* [types, exprs, fns, vars, names, kernel]

ASSUME ProgramAssumption ==
    /\ SsaNameDepth \in Nat \ {0} /\ Asm \subseteq Image
    /\ \A p \in Programs : /\ TypesSound(p.types)
                            /\ CallsSound(p.fns, p.vars, p.names)
                            /\ p.kernel \in BOOLEAN

VARIABLES
    phase,      \* the step: 3 to 6, 7 for mark_entry, 8 when that is over
    exprs,      \* exprs[u]: the operands that stand for a field
    found       \* found[u]: the fields they were found to stand for

vars == <<phase, exprs, found, progVars, detailVars, callVars, markVars>>

Init ==
    /\ phase = 3
    /\ \E p \in Programs :
          /\ types = p.types /\ exprs = p.exprs
          /\ fns = p.fns /\ vars_ = p.vars /\ names = p.names
          /\ kernel = p.kernel
    /\ found = [u \in Image |-> <<>>]
    /\ InitDetail /\ InitCalls /\ InitMarks

Resolved == UNION {{<<u, i>> : i \in DOMAIN found[u]} : u \in Image}

(* A search has used a NULL pointer, which stops the program.              *)
Faulted == \E p \in Resolved : found[p[1]][p[2]] = Fault

(* One operand that do_tree comes to. *)
MarkField(u) ==
    /\ phase = 4 /\ ~ Faulted
    /\ Len(found[u]) < Len(exprs[u])
    /\ \E e \in {exprs[u][Len(found[u]) + 1]}, T \in {TypeNodes} :
          found' = [found EXCEPT ![u] = Append(@, FieldUsed(T, u, e))]
    /\ UNCHANGED <<phase, exprs, progVars, detailVars, callVars, markVars>>

Step3(u) ==
    /\ phase = 3
    /\ DetailStep(u)
    /\ UNCHANGED <<phase, exprs, found, progVars, callVars, markVars>>

Step456(u) ==
    /\ phase \in 4..6 /\ ~ Faulted
    /\ CallStep(u)
    /\ UNCHANGED <<phase, exprs, found, progVars, detailVars, markVars>>

Worker(u) == Step3(u) \/ MarkField(u) \/ Step456(u)

StepDone ==
    /\ AllDetailed /\ CallsDone
    /\ phase = 4 => \A u \in Image : Len(found[u]) = Len(exprs[u])

(* All workers of a step are waited for before the next step has any. *)
NextStep ==
    /\ phase \in 3..6 /\ StepDone /\ bug = "" /\ ~ Faulted
    /\ phase' = phase + 1
    /\ todo' = [u \in Image |-> IF u \in Asm THEN parse(u, phase')
                                           ELSE c_parse(u, phase')]
    /\ UNCHANGED <<exprs, found, progVars, detailVars, listVars, callees,
                   callers, trail, bug, markVars>>

MarkEntry ==
    /\ phase = 7
    /\ NextEntry \/ mark_subcall_entry
    /\ UNCHANGED <<phase, exprs, found, progVars, detailVars, todo, listVars,
                   trail, bug>>

MarksOver ==
    /\ phase = 7 /\ MarksDone
    /\ phase' = 8
    /\ UNCHANGED <<exprs, found, progVars, detailVars, callVars, markVars>>

Main == NextStep \/ MarkEntry \/ MarksOver

Next == Main \/ \E u \in Image : Worker(u)

(* The threads run: nothing in a step waits for anything but a lock that   *)
(* is held for one action.                                                 *)
Fairness == WF_vars(Main) /\ \A u \in Image : WF_vars(Worker(u))

Spec == Init /\ [][Next]_vars
FairSpec == Spec /\ Fairness

-----------------------------------------------------------------------------
TypeOK ==
    /\ phase \in 3..8
    /\ \A u \in Image :
          /\ at[u] \in 1..(Len(Objects(u)) + 1)
          /\ Len(trail[u]) < SsaNameDepth
    /\ isSet \subseteq Nodes /\ variant \subseteq isSet
    /\ \A f \in Func :
          /\ depth[f] \in 0..CallDepthMax
          /\ Range(callers[f]) \subseteq Func
          /\ \A i \in DOMAIN callees[f] :
                callees[f][i].kind = "func" => callees[f][i].id \in Func
    /\ bug \in {"", "name", "depth", "null"}

-----------------------------------------------------------------------------
(* Fields                                                                  *)

(* A type that was filled in twice has each field twice, and what a search *)
(* finds in it is anybody's guess.                                         *)
NoRace == \A n \in Nodes : entered[n] <= 1

ComponentFound(T, u, e, field) ==
    LET n == NodeOf(<<u, Stripped(u, e.type)>>)
    IN n # None => IF Twins(T, n, e.field) = {} THEN field = <<n, e.field>>
                   ELSE field = <<n, Min(Twins(T, n, e.field))>>

(* The innermost field that holds the bit, if there is one.                *)
BitFound(T, u, e, field) ==
    LET n == NodeOf(<<u, e.type>>)
        bit == IF e.via = "mem" THEN e.off * BitsPerUnit
               ELSE IF e.then = "and" THEN e.off + FirstBit(e.mask) ELSE e.off
        h == Holder(T, n, bit)
        r == Enclosing(T, n, bit)
    IN (/\ n # None /\ T[n].code = "record"
        /\ e.via = "bits" => e.then # "other") =>
          /\ field = Fault <=> Unguarded(T, n, bit)
          /\ h # None => field =
                IF h[2] \in Starts(T, r, bit)
                   \/ T[T[h[1]].children[h[2]].type].code \in Whole
                THEN h ELSE None

(* An expression of any image that names a field has marked that field of  *)
(* the type's node, though the node's children may have been entered from  *)
(* another image's trees, whose declarations are other objects.  Anonymous *)
(* fields of a macro's record that start at one place, or are of one type, *)
(* are the exception: the first of them is taken for all, which a FIXME of *)
(* is_same_field doubts.  An offset and a mask lead to the field whose     *)
(* bits they read, through records in records; inside a field of a kind    *)
(* that __check_field does not know (a boolean, a real or complex number)  *)
(* they lead to none; and the search uses NULL when the bit is before the  *)
(* first field or behind one whose type is not known, and only then.       *)
FieldsFound ==
    /\ \A p \in Resolved :
          LET field == found[p[1]][p[2]]
          IN field \notin {None, Fault} => field[2] \in DOMAIN children[field[1]]
    /\ phase >= 4 /\ NoRace => \A p \in Resolved, T \in {TypeNodes} :
          LET e == exprs[p[1]][p[2]]
              field == found[p[1]][p[2]]
          IN IF e.via = "component" THEN ComponentFound(T, p[1], e, field)
             ELSE BitFound(T, p[1], e, field)

-----------------------------------------------------------------------------
(* Code paths                                                              *)

Filled(kind) == {d \in Decls : phase > 3 /\ Decl(d).kind = kind /\ Decl(d).body}

BranchesRight(g, path) ==
    \A n \in DOMAIN g.blocks :
        LET e == g.blocks[n].succs
        IN IF g.blocks[n].cond
           THEN \A i \in DOMAIN e :
                  e[i] \in Range(g.blocks[path[n][g.flag[e[i]]]].preds)
           ELSE \A i \in DOMAIN e : e[i] \in Range(g.blocks[path[n][i]].preds)

(* A condition's true path goes where gcc's true edge does, in whatever    *)
(* order the block has its edges, and no edge is lost.  In assembly code   *)
(* whose paths all begin behind a jump, and that does not end with one, a  *)
(* path ends with the jump that cond_head names and goes on where that one *)
(* goes, and nothing is written behind the last path.  But for two kinds   *)
(* of jumps nothing is said of the true path: those that go back to where  *)
(* the function begins, and short ones back if their byte is read without  *)
(* its sign.                                                               *)
PathsRight ==
    /\ \A d \in Filled("func") : BranchesRight(Decl(d).cfg, paths[d])
    /\ \A d \in Filled("asm") : JumpsDelimit(Decl(d).cfg) =>
          /\ ~ WritesPast(Decl(d).cfg)
          /\ \A k \in DOMAIN paths[d] : PathRight(Decl(d).cfg, paths[d], k)

(* "for asm, this is the first insn addr", says si_core.h of cp, and of    *)
(* cond_head, "for asm, this point to the Jxx insn": a path's cond_head is *)
(* an instruction of the path.                                             *)
CondHeadInPath ==
    \A d \in Filled("asm") : \A k \in DOMAIN paths[d] :
        LET end == IF k = Len(paths[d]) THEN Size(Decl(d).cfg) ELSE paths[d][k + 1].cp
        IN paths[d][k].cond \in {-1} \cup paths[d][k].cp..(end - 1)

-----------------------------------------------------------------------------
(* Calls                                                                   *)

(* The functions whose code makes f store into v.                          *)
Stores(v, g) ==
    \E f \in Func : /\ HasBody(f) /\ fns[f].home \notin Asm /\ f # g
                    /\ \E k \in DOMAIN fns[f].stmts :
                         /\ Stmt(f, k).op = "assign"
                         /\ Stmt(f, k).to = v /\ Stmt(f, k).fn = g

(* What the program can have stored in v: its initial values, when it is   *)
(* some image's or used by some function, and the functions whose address  *)
(* is assigned.                                                            *)
Stored(v) ==
    IF vars_[v].class = "extern" THEN {}
    ELSE {vars_[v].init[i].id : i \in {j \in DOMAIN vars_[v].init :
                                         vars_[v].init[j].kind = "func"}}
         \cup {g \in Func : HasBody(g) /\ fns[g].home \notin Asm /\ Stores(v, g)}

(* The names that a name may take its value from.                          *)
FedBy(n) ==
    IF names[n].def # "phi" THEN {}
    ELSE {op.id : op \in {x \in Range(names[n].args) : x.kind = "name"}}
JoinsClosed(S) == \A n \in S : FedBy(n) \subseteq S
From(n) == {m \in DOMAIN names : \A S \in SUBSET (DOMAIN names) :
                                    n \in S /\ JoinsClosed(S) => m \in S}

CallsBy(s) ==
    LET V(vs) == UNION {{<<"func", g>> : g \in Stored(v)} :
                           v \in {w \in vs : vars_[w].class # "parm"}}
        N == From(s.id)
    IN CASE s.via \in {"tree", "internal"} -> {<<s.via, s.id>>}
         [] s.via = "fn" -> {<<"func", s.id>>}
         [] s.via = "var" -> V({s.id})
         [] s.via = "name" ->
              V({names[n].var : n \in N} \ {0})
              \cup V({names[n].args[1] : n \in {m \in N : names[m].def = "var"}})
              \cup {<<"func", names[n].args[1]>> :
                       n \in {m \in N : names[m].def = "fn"}}
         [] OTHER -> {}

(* Assembly code calls a function of its file by address, any other by     *)
(* name, and one from another section of its file in a way that is not     *)
(* followed: the relocation does not name it.                              *)
AsmCallsBy(s) ==
    IF s.via = "fn" \/ (s.via = "rel" /\ fns[s.id].global)
    THEN {<<"func", s.id>>} ELSE {}

Recorded(f, k) ==
    {<<callees[f][i].kind, callees[f][i].id>> :
        i \in {j \in DOMAIN callees[f] : k \in Range(callees[f][j].stmts)}}

(* When STEP6 is over each call is recorded for the function it names, or  *)
(* for those that any image stores in the variable or the field, or in     *)
(* what feeds the name, that it goes through, and no other: what another   *)
(* image's worker found out too late for STEP5's trace is not lost.  Not   *)
(* so a call through a parameter, which is recorded for nothing, whatever  *)
(* STEP5 has entered among its values: "The PARM_DECL/VAR_DECL are traced  *)
(* later" (c.cc:8211) is true of the variables alone.  And the functions   *)
(* whose address a join takes itself, without a name, are missed.          *)
CallsComplete ==
    phase > 6 => \A f \in Func : HasBody(f) =>
        \A k \in Range(CallsOf(f)) :
            Recorded(f, k) = IF fns[f].home \in Asm THEN AsmCallsBy(Stmt(f, k))
                             ELSE CallsBy(Stmt(f, k))

(* The lists hold nothing twice, whichever way a call was found.           *)
NoDoubles(f) ==
    /\ IsInjective(callers[f])
    /\ IsInjective([i \in DOMAIN callees[f] |->
                      <<callees[f][i].kind, callees[f][i].id>>])
    /\ \A i \in DOMAIN callees[f] : IsInjective(callees[f][i].stmts)

(* An alias stands for a function that may be an alias itself.  A call in  *)
(* assembly code is of the function that is named.                         *)
AliasClosed(S) ==
    \A g \in S : ~ HasBody(g) /\ fns[g].alias # 0 => fns[g].alias \in S
StandsFor(g, h) == \A S \in SUBSET Func : g \in S /\ AliasClosed(S) => h \in S
Reaches(f, g, h) == IF fns[f].home \in Asm THEN g = h ELSE StandsFor(g, h)

(* A function with a body knows exactly the functions that call it, under  *)
(* its own name or under an alias, and each of them once.                  *)
CallersMatch ==
    /\ \A f \in Func : NoDoubles(f)
    /\ phase > 6 => \A h \in Func : HasBody(h) =>
        Range(callers[h]) =
            {f \in Func : \E i \in DOMAIN callees[f] :
                /\ callees[f][i].kind = "func"
                /\ Reaches(f, callees[f][i].id, h)}

(* A name with no variable feeds a join that has one.                      *)
AnonymousBelow ==
    \E n \in DOMAIN names :
        /\ names[n].def = "phi" /\ names[n].var # 0
        /\ \E m \in FedBy(n) : names[m].var = 0

(* Two things stop the program.  A call_ssaname that leaves by the label   *)
(* out does not pop its name, so the one that called it meets its BUG_ON:  *)
(* this takes an anonymous name below a join.  And the target of an alias, *)
(* which is looked for among the global functions, is used unchecked.      *)
(* Joins that feed each other do not fill the trail: that takes as many    *)
(* names as it has room for.                                               *)
OnlyTheseBugs ==
    /\ bug = "name" => AnonymousBelow
    /\ bug = "null" => \E g \in Func : /\ ~ HasBody(g) /\ fns[g].alias # 0
                                       /\ ~ fns[fns[g].alias].global
    /\ bug = "depth" => Len(names) >= SsaNameDepth - 1

(* Every step ends, unless one of these stops it, or a search for a field. *)
Terminates == <>(phase = 8 \/ bug \in {"name", "null"} \/ Faulted)

=============================================================================
