----------------------------- MODULE CallGraph ------------------------------
(***************************************************************************)
(* STEP4 to STEP6: where functions and variables are used, what may be     *)
(* stored in a variable, and which function calls which (do_phase4,        *)
(* do_phase5 and do_phase6 of gcc/c.cc, getindcfg1 of gcc/asm.cc, the      *)
(* lists of sinode.c and si_helper.h).                                     *)
(*                                                                         *)
(* A worker's pending work is a stack of tasks, one per call or loop turn  *)
(* of the code; a section under a node's lock is one action.               *)
(***************************************************************************)
EXTENDS Images, EntryMarks

CONSTANTS
    Asm,            \* the images of data format SI_TYPE_DF_ASM
    SsaNameDepth    \* SSANAME_DEPTH

VARIABLES
    vars_,      \* the variables, parameters too: [class, home, of, init]
    names,      \* the SSA names: [def, args, var]; a join has for args what
                \* it takes: [kind, id], a name, a function or a number
    todo,       \* todo[u]: the tasks of u's worker
    known,      \* known[f]: local_vars and global_vars of f
    fnUsed,     \* fnUsed[f]: used_at: statements <<function, number>>
    varUsed,    \* varUsed[v]: used_at of a variable
    possible,   \* possible[v]: possible_values: [kind, id]
    trail,      \* trail[u]: ssaname_node
    bug         \* what stopped the program, "" when nothing did

progVars == <<fns, vars_, names, kernel>>
listVars == <<known, fnUsed, varUsed, possible>>
callVars == <<todo, listVars, callees, callers, trail, bug>>

Stmt(f, k) == fns[f].stmts[k]
FuncsOf(u) == InOrder(Len(fns), {f \in Func : fns[f].home = u /\ HasBody(f)})
VarsOf(u) == InOrder(Len(vars_), {v \in DOMAIN vars_ : vars_[v].home = u})

(* The functions, variables and names that code can be about: what refers  *)
(* to one of them refers to one there is.                                  *)
StmtSound(s, F, V, N) ==
    CASE s.op = "call" -> /\ s.via \in {"fn", "rel"} => s.id \in F
                          /\ s.via = "var" => s.id \in V
                          /\ s.via = "name" => s.id \in N
      [] s.op = "assign" -> s.to \in V \cup {0} /\ s.fn \in F
      [] s.op = "read" -> s.to \in V \cup {0}
      [] s.op = "use" -> s.fn \in F
      [] OTHER -> FALSE

NameSound(n, F, V, N) ==
    /\ IsList(n.args) /\ n.var \in V \cup {0}
    /\ CASE n.def = "phi" -> \A i \in DOMAIN n.args :
               /\ n.args[i].kind = "name" => n.args[i].id \in N
               /\ n.args[i].kind = "fn" => n.args[i].id \in F
         [] n.def = "var" -> n.args[1] \in V
         [] n.def = "fn" -> n.args[1] \in F
         [] OTHER -> TRUE

CodeRefersTo(F, V, N) ==
    /\ \A f \in DOMAIN F :
          /\ F[f].home \in Image /\ F[f].alias \in DOMAIN F \cup {0}
          /\ {F[f].global, F[f].body, F[f].sys} \subseteq BOOLEAN
          /\ IsList(F[f].stmts)
          /\ \A k \in DOMAIN F[f].stmts :
                StmtSound(F[f].stmts[k], DOMAIN F, DOMAIN V, DOMAIN N)
    /\ \A v \in DOMAIN V :
          /\ V[v].home \in Image
          /\ V[v].class \in {"local", "global", "field", "extern", "parm"}
          /\ IsList(V[v].init)
          /\ V[v].class = "parm" => V[v].init = <<>>
          /\ \A i \in DOMAIN V[v].init :
                V[v].init[i].kind = "func" => V[v].init[i].id \in DOMAIN F
    /\ \A n \in DOMAIN N : NameSound(N[n], DOMAIN F, DOMAIN V, DOMAIN N)

CallsSound(F, V, N) ==
    IsList(F) /\ IsList(V) /\ IsList(N) /\ CodeRefersTo(F, V, N)

Add(s, x) == IF Contains(s, x) THEN s ELSE Append(s, x)

InitCalls ==
    /\ todo = [u \in Image |-> <<>>]
    /\ known = [f \in Func |-> {}]
    /\ fnUsed = [f \in Func |-> <<>>]
    /\ varUsed = [v \in DOMAIN vars_ |-> {}]
    /\ possible = [v \in DOMAIN vars_ |-> <<>>]
    /\ callees = [f \in Func |-> <<>>]
    /\ callers = [f \in Func |-> <<>>]
    /\ trail = [u \in Image |-> <<>>]
    /\ bug = ""

Busy(u, do) == bug = "" /\ todo[u] # <<>> /\ Head(todo[u]).do = do
Task(u) == Head(todo[u])
Then(u, tasks) == todo' = [todo EXCEPT ![u] = tasks \o Tail(@)]

-----------------------------------------------------------------------------
(* STEP4: uses and initial values                                          *)

(* Values of a list are told apart by their value alone.                   *)
AddPossible(v, value) ==
    possible' = [possible EXCEPT ![v] =
        IF \E i \in DOMAIN @ : @[i].id = value.id THEN @ ELSE Append(@, value)]

(* What a statement's operands make do_tree mark. *)
VarsIn(s) ==
    IF s.op \in {"assign", "read"} THEN IF s.to = 0 THEN <<>> ELSE <<s.to>>
    ELSE IF s.op = "call" /\ s.via = "var" THEN <<s.id>>
    ELSE IF s.op = "call" /\ s.via = "name" /\ names[s.id].var # 0
    THEN <<names[s.id].var>> ELSE <<>>
FuncsIn(s) == IF s.op \in {"assign", "use"} THEN <<s.fn>>
              ELSE IF s.op = "call" /\ s.via = "fn" THEN <<s.id>> ELSE <<>>

MarksOf(f, k) ==
    [i \in DOMAIN VarsIn(Stmt(f, k)) |->
        [do |-> "var", f |-> f, k |-> k, v |-> VarsIn(Stmt(f, k))[i]]] \o
    [i \in DOMAIN FuncsIn(Stmt(f, k)) |->
        [do |-> "fn", f |-> f, k |-> k, g |-> FuncsIn(Stmt(f, k))[i]]]

InitsOf(v) == [i \in DOMAIN vars_[v].init |->
                 [do |-> "init", v |-> v, value |-> vars_[v].init[i]]]

do_phase4(u) ==
    FlattenSeq([i \in DOMAIN VarsOf(u) |-> InitsOf(VarsOf(u)[i])]) \o
    FlattenSeq([i \in DOMAIN FuncsOf(u) |->
        FlattenSeq([k \in DOMAIN fns[FuncsOf(u)[i]].stmts |->
                      MarksOf(FuncsOf(u)[i], k)])])

do_init_value(u) ==
    /\ Busy(u, "init")
    /\ AddPossible(Task(u).v, Task(u).value)
    /\ Then(u, <<>>)
    /\ UNCHANGED <<known, fnUsed, varUsed, callees, callers, trail, bug>>

(* A variable of the function is entered into local_vars and its own       *)
(* initial values are listed, another one into global_vars; a field and a  *)
(* parameter are in neither.  An extern variable that is not known is only *)
(* noted.                                                                  *)
do_var_decl_phase4(u) ==
    /\ Busy(u, "var")
    /\ LET t == Task(u)
           class == vars_[t.v].class
       IN /\ known' = IF class \in {"local", "global"}
                      THEN [known EXCEPT ![t.f] = @ \cup {t.v}] ELSE known
          /\ varUsed' = IF class = "extern" THEN varUsed
                        ELSE [varUsed EXCEPT ![t.v] = @ \cup {<<t.f, t.k>>}]
          /\ Then(u, IF class = "local" THEN InitsOf(t.v) ELSE <<>>)
    /\ UNCHANGED <<fnUsed, possible, callees, callers, trail, bug>>

do_function_decl(u) ==
    /\ Busy(u, "fn")
    /\ LET t == Task(u)
       IN fnUsed' = IF t.g # t.f /\ HasBody(t.g)
                    THEN [fnUsed EXCEPT ![t.g] = Add(@, <<t.f, t.k>>)]
                    ELSE fnUsed
    /\ Then(u, <<>>)
    /\ UNCHANGED <<known, varUsed, possible, callees, callers, trail, bug>>

-----------------------------------------------------------------------------
(* STEP5 and STEP6: values and calls                                       *)

CallsOf(f) ==
    InOrder(Len(fns[f].stmts), {k \in DOMAIN fns[f].stmts : Stmt(f, k).op = "call"})

(* do_phase5_func: the uses of the function, then its statements.          *)
do_phase5(u) ==
    FlattenSeq([i \in DOMAIN FuncsOf(u) |->
        LET f == FuncsOf(u)[i]
        IN <<[do |-> "uses", f |-> f, i |-> 1]>> \o
           [j \in DOMAIN CallsOf(f) |->
               [do |-> "call", f |-> f, k |-> CallsOf(f)[j]]]])

(* Faulty: the indirect calls are not traced again.                        *)
NoPhase6(u) == <<>>

do_phase6(u) == do_phase5(u)

(* indcfg1_match_cb: the call instructions of each function. *)
getindcfg1(u) ==
    FlattenSeq([i \in DOMAIN FuncsOf(u) |->
        LET f == FuncsOf(u)[i]
        IN [j \in DOMAIN CallsOf(f) |->
               [do |-> "asm call", f |-> f, k |-> CallsOf(f)[j]]]])

(* Both are still to be written. *)
phase4(u) == <<>>
getindcfg2(u) == <<>>

(* What a worker has to do in a step. *)
c_parse(u, step) ==
    CASE step = 4 -> do_phase4(u)
      [] step = 5 -> do_phase5(u)
      [] step = 6 -> do_phase6(u)
      [] OTHER -> <<>>
parse(u, step) ==
    CASE step = 4 -> phase4(u)
      [] step = 5 -> getindcfg1(u)
      [] step = 6 -> getindcfg2(u)
      [] OTHER -> <<>>

(* The variable f can get at, 0 when it is not known.                      *)
get_target_var_node(f, v) ==
    IF v # 0 /\ (vars_[v].class = "field" \/ v \in known[f]) THEN v ELSE 0

(* What f stores into: a parameter is looked for among f's own.            *)
__func_assigned(f, v) ==
    IF v # 0 /\ vars_[v].class = "parm" THEN v ELSE get_target_var_node(f, v)

(* One use of a function: its address may be stored in a variable.         *)
__do_func_used_at(u) ==
    /\ Busy(u, "uses")
    /\ LET t == Task(u)
       IN IF t.i \notin DOMAIN fnUsed[t.f]
          THEN Then(u, <<>>) /\ UNCHANGED possible
          ELSE LET use == fnUsed[t.f][t.i]
                   s == Stmt(use[1], use[2])
                   v == IF s.op = "assign"
                        THEN __func_assigned(use[1], s.to) ELSE 0
               IN /\ IF v = 0 THEN UNCHANGED possible
                     ELSE AddPossible(v, [kind |-> "func", id |-> t.f])
                  /\ Then(u, <<[t EXCEPT !.i = @ + 1]>>)
    /\ UNCHANGED <<known, fnUsed, varUsed, callees, callers, trail, bug>>

Callee(t, kind, id, missing) ==
    [do |-> "callee", f |-> t.f, k |-> t.k, kind |-> kind, id |-> id,
     missing |-> missing]
Caller(t, g, alias) == [do |-> "caller", f |-> t.f, g |-> g, alias |-> alias]

(* Nothing is done for a call through a parameter (call_parm_decl), which  *)
(* f has among neither its variables nor its fields.                       *)
Values(t, v) ==
    IF get_target_var_node(t.f, v) = 0 THEN <<>>
    ELSE <<[do |-> "values", f |-> t.f, k |-> t.k, v |-> v, i |-> 1]>>
Name(t, n, inner) ==
    [do |-> "name", f |-> t.f, k |-> t.k, n |-> n, inner |-> inner]

(* call_func_decl takes a function that is known to have a body.           *)
call_func_decl(t, g) == <<Callee(t, "func", g, FALSE), Caller(t, g, TRUE)>>

__trace_call_gs(u) ==
    /\ Busy(u, "call")
    /\ LET t == Task(u)
           s == Stmt(t.f, t.k)
       IN /\ Then(u, CASE s.via = "fn" -> call_func_decl(t, s.id)
                       [] s.via \in {"tree", "internal"} ->
                            <<Callee(t, s.via, s.id, TRUE)>>
                       [] s.via = "var" -> Values(t, s.id)
                       [] s.via = "name" -> <<Name(t, s.id, FALSE)>>
                       [] OTHER -> <<>>)
          /\ trail' = IF s.via = "name" THEN [trail EXCEPT ![u] = <<>>] ELSE trail
    /\ UNCHANGED <<listVars, callees, callers, bug>>

(* The function of an assembly image that begins at an address, or the     *)
(* global function a relocation names; 0 when there is none.               *)
addr2sinode(s) ==
    IF (s.via = "fn" /\ fns[s.id].home \in Asm) \/ (s.via = "rel" /\ fns[s.id].global)
    THEN s.id ELSE 0

indcfg1_do_call(u) ==
    /\ Busy(u, "asm call")
    /\ LET t == Task(u)
           g == addr2sinode(Stmt(t.f, t.k))
       IN Then(u, IF g = 0 THEN <<>>
                  ELSE <<Callee(t, "func", g, ~ HasBody(g)), Caller(t, g, FALSE)>>)
    /\ UNCHANGED <<listVars, callees, callers, trail, bug>>

callf_list_find(list, kind, id) ==
    SelectInSeq(list, LAMBDA c : c.kind = kind /\ c.id = id)

__add_call(u) ==
    /\ Busy(u, "callee")
    /\ LET t == Task(u)
           list == callees[t.f]
           i == callf_list_find(list, t.kind, t.id)
       IN callees' = [callees EXCEPT ![t.f] =
              IF i # 0 THEN [list EXCEPT ![i].stmts = Add(@, t.k)]
              ELSE Append(list, [kind |-> t.kind, id |-> t.id,
                                 missing |-> t.missing, stmts |-> <<t.k>>])]
    /\ Then(u, <<>>)
    /\ UNCHANGED <<listVars, callers, trail, bug>>

(* Faulty: a function without a body has no callers.                       *)
NoAlias(g) == 0

(* The function an alias stands for.  It is looked for among the global    *)
(* ones.                                                                   *)
AliasOf(g) == fns[g].alias

(* callee_alias_add_caller calls back with what it finds, be it NULL.      *)
add_caller(u) ==
    /\ Busy(u, "caller")
    /\ LET t == Task(u)
           a == AliasOf(t.g)
       IN IF HasBody(t.g)
          THEN /\ callers' = [callers EXCEPT ![t.g] = Add(@, t.f)]
               /\ Then(u, <<>>) /\ UNCHANGED bug
          ELSE /\ bug' = IF t.alias /\ a # 0 /\ ~ fns[a].global
                         THEN "null" ELSE bug
               /\ Then(u, IF t.alias /\ a # 0 THEN <<[t EXCEPT !.g = a]>> ELSE <<>>)
               /\ UNCHANGED callers
    /\ UNCHANGED <<listVars, callees, trail>>

(* One turn of the loop over the values, which takes no lock: others may   *)
(* append to them meanwhile.                                               *)
add_possible_callee(u) ==
    /\ Busy(u, "values")
    /\ LET t == Task(u)
       IN Then(u, IF t.i \notin DOMAIN possible[t.v] THEN <<>>
                  ELSE LET p == possible[t.v][t.i]
                       IN (IF p.kind # "func" THEN <<>>
                           ELSE <<Callee(t, "func", p.id, ~ HasBody(p.id)),
                                  Caller(t, p.id, TRUE)>>)
                          \o <<[t EXCEPT !.i = @ + 1]>>)
    /\ UNCHANGED <<listVars, callees, callers, trail, bug>>

-----------------------------------------------------------------------------
(* SSA names                                                               *)

(* Nothing is done for a number, and for the address of a function, which  *)
(* the code misses.                                                        *)
call_ssaname_gphi_op(t, op) ==
    IF op.kind = "name" THEN <<Name(t, op.id, TRUE)>> ELSE <<>>

(* What defines the name: a join, a variable, a field, the address of a    *)
(* function.                                                               *)
Definition(t) ==
    LET d == names[t.n]
    IN CASE d.def = "phi" ->
              FlattenSeq([i \in DOMAIN d.args |-> call_ssaname_gphi_op(t, d.args[i])])
         [] d.def = "var" -> Values(t, d.args[1])
         [] d.def = "fn" -> call_func_decl(t, d.args[1])
         [] OTHER -> <<>>

(* Faulty: names met before are followed again.                            *)
NeverMet(u, n) == FALSE

ssaname_node_check(u, n) == Contains(trail[u], n)

(* call_ssaname.  A name reached through a join is put on the trail, one   *)
(* that is on it is not followed.                                          *)
call_ssaname(u) ==
    /\ Busy(u, "name")
    /\ LET t == Task(u)
       IN IF t.inner /\ Len(trail[u]) >= SsaNameDepth - 1
          THEN bug' = "depth" /\ UNCHANGED <<todo, trail>>
          ELSE /\ UNCHANGED bug
               /\ IF t.inner /\ ssaname_node_check(u, t.n)
                  THEN Then(u, <<>>) /\ UNCHANGED trail
                  ELSE /\ trail' = IF t.inner THEN [trail EXCEPT ![u] = Append(@, t.n)]
                                   ELSE trail
                       /\ Then(u, Definition(t) \o <<[t EXCEPT !.do = "var of"]>>)
    /\ UNCHANGED <<listVars, callees, callers>>

(* ssa_var: an anonymous name leaves by the label out, past the pop.       *)
LeaveName(u) ==
    /\ Busy(u, "var of")
    /\ LET t == Task(u)
           v == names[t.n].var
       IN Then(u, IF v = 0 THEN <<>>
                  ELSE Values(t, v) \o <<[t EXCEPT !.do = "pop"]>>)
    /\ UNCHANGED <<listVars, callees, callers, trail, bug>>

ssaname_node_pop(u) ==
    /\ Busy(u, "pop")
    /\ LET t == Task(u)
       IN IF ~ t.inner THEN Then(u, <<>>) /\ UNCHANGED <<trail, bug>>
          ELSE IF Last(trail[u]) # t.n THEN bug' = "name" /\ UNCHANGED <<todo, trail>>
          ELSE /\ trail' = [trail EXCEPT ![u] = Front(@)]
               /\ Then(u, <<>>) /\ UNCHANGED bug
    /\ UNCHANGED <<listVars, callees, callers>>

CallStep(u) ==
    \/ do_init_value(u) \/ do_var_decl_phase4(u) \/ do_function_decl(u)
    \/ __do_func_used_at(u) \/ __trace_call_gs(u) \/ add_possible_callee(u)
    \/ indcfg1_do_call(u) \/ __add_call(u) \/ add_caller(u)
    \/ call_ssaname(u) \/ LeaveName(u) \/ ssaname_node_pop(u)

CallsDone == \A u \in Image : todo[u] = <<>>

=============================================================================
