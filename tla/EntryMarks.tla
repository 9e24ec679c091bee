----------------------------- MODULE EntryMarks -----------------------------
(***************************************************************************)
(* mark_entry (mark-entry.c): how far each function is from an entry of    *)
(* the program.  It walks depth first through the callees; the calls of    *)
(* mark_subcall_entry that are still to be made are kept in `visits'.      *)
(***************************************************************************)
EXTENDS Integers, Sequences, SequencesExt, Lists

CONSTANTS
    CallDepthMax    \* CALL_DEPTH_MAX

ASSUME DepthAssumption == CallDepthMax \in Nat \ {0}

VARIABLES
    fns,        \* the functions: [home, global, body, sys, alias, stmts]
    kernel,     \* src_is_linux_kernel()
    callees,    \* callees[f]: what f calls: [kind, id, missing, stmts]
    callers,    \* callers[f]: the functions that call f
    depth,      \* depth[f]: call_depth, 0 when it is not set
    root,       \* the function the loop over the entries is at
    visits      \* the calls to make: [fn, level]

markVars == <<depth, root, visits>>

Func == DOMAIN fns
HasBody(f) == fns[f].body

(* Callees that are known functions, with data. *)
Into(f) ==
    LET list == callees[f]
        at == InOrder(Len(list), {i \in DOMAIN list :
                  list[i].kind = "func" /\ HasBody(list[i].id)})
    IN [i \in DOMAIN at |-> list[at[i]]]

(* mark_linux_kern_entry and mark_unknown_entry. *)
IsEntry(f) ==
    /\ fns[f].global /\ HasBody(f)
    /\ IF kernel THEN fns[f].sys ELSE callers[f] = <<>>

InitMarks ==
    /\ depth = [f \in Func |-> 0]
    /\ root = 1
    /\ visits = <<>>

NextEntry ==
    /\ visits = <<>> /\ root \in Func
    /\ visits' = IF IsEntry(root) THEN <<[fn |-> root, level |-> 1]>> ELSE <<>>
    /\ root' = root + 1
    /\ UNCHANGED <<depth, callees, callers>>

(* Faulty: a function is marked by the first path to it.                   *)
Marked(f, level) == depth[f] # 0

NoNearer(f, level) == depth[f] # 0 /\ depth[f] <= level

(* Faulty: one level too many is marked.                                   *)
TooDeepByOne(level) == level > CallDepthMax + 1

TooDeep(level) == level > CallDepthMax

mark_subcall_entry ==
    /\ visits # <<>>
    /\ LET v == Head(visits)
       IN IF NoNearer(v.fn, v.level) \/ TooDeep(v.level)
          THEN visits' = Tail(visits) /\ UNCHANGED depth
          ELSE /\ depth' = [depth EXCEPT ![v.fn] = v.level]
               /\ visits' = [i \in DOMAIN Into(v.fn) |->
                               [fn |-> Into(v.fn)[i].id, level |-> v.level + 1]]
                            \o Tail(visits)
    /\ UNCHANGED <<root, callees, callers>>

MarksDone == visits = <<>> /\ root \notin Func

(* Level[n]: the functions a path of at most n calls from outside enters.  *)
Level[n \in Nat] ==
    IF n = 0 THEN {}
    ELSE {f \in Func : IsEntry(f)} \cup
         {g \in Func : \E f \in Level[n - 1] :
             \E i \in DOMAIN Into(f) : Into(f)[i].id = g}

(* call_depth ends as the distance from the nearest entry, for functions   *)
(* that are not too far away, whatever cycles and shortcuts there are.     *)
DepthIsDistance ==
    MarksDone => \A f \in Func :
        IF f \in Level[CallDepthMax]
        THEN f \in Level[depth[f]] /\ f \notin Level[depth[f] - 1]
        ELSE depth[f] = 0

=============================================================================
