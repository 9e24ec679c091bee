----------------------------- MODULE NodeImage -------------------------------
(***************************************************************************)
(* The image of a compilation, from the compiler's memory to the analyser. *)
(*                                                                         *)
(* The gcc plugin walks the records reachable from the symbol table and    *)
(* saves each of them once, in the order it meets them, with the compiler  *)
(* addresses still in their fields (collect/gcc/c.cc).  A source location  *)
(* is not a pointer: its expansion is saved as one more object, right      *)
(* where the walk stands.  STEP1 (analysis/gcc/c.cc, MODE_ADJUST) walks    *)
(* the saved records again, in place, and replaces every address by that   *)
(* of the saved record; the object of a location is found by its place in  *)
(* the sequence alone, so the two walks must take the same way.            *)
(*                                                                         *)
(* The compiler's memory is not fixed at the start: what a field leads to  *)
(* is chosen when the collecting walk gets there, so every graph of        *)
(* records within the bounds is met, cycles and shared records included.   *)
(* A record is named by the place its copy has in the image.               *)
(***************************************************************************)
EXTENDS Integers, Sequences, FiniteSets

CONSTANTS
    Collects, Adjusts,          \* the walk of each record, in either program
    CollectOf(_, _), AdjustOf(_, _),  \* the record a target of a code is
    Pointees(_),    \* the kinds of record a field's target may be
    Fresh,          \* bound: the codes of trees and gimples below the root
    Roots,          \* <<target, kind>>: where the walk starts
    Bounds          \* of the walk from each kind of root:
                    \*   objs: MAX_OBJS_PER_FILE
                    \*   records: records in the image, locations not counted
                    \*   shared: fields that lead to a record already saved
                    \*   globals: global variables of the compiler
                    \*   crashes: crashes in STEP1

None == "none"      \* the entry of a global variable saved before

(* Where a field may lead: to a location, or to records of some kinds.     *)
Targets(walks) ==
    {"tree"} \cup {r[1] : r \in Roots} \cup
    UNION {{walks[rec][j][2] : j \in DOMAIN walks[rec]} : rec \in DOMAIN walks}
Pointers == Targets(Collects) \ {"location"}

(* A walk visits fields, named by their paths; a location is a record of   *)
(* its own that no field points to.                                        *)
ASSUME NodeAssumption ==
    /\ "location" \in DOMAIN Collects
    /\ \A rec \in DOMAIN Collects : Collects[rec] \in Seq(Seq(STRING) \X STRING)
    /\ \A rec \in DOMAIN Adjusts : Adjusts[rec] \in Seq(Seq(STRING) \X STRING)
    /\ \A t \in Pointers : \A kind \in Pointees(t) :
          /\ kind \notin {"location", None}
          /\ CollectOf(t, kind) \in DOMAIN Collects
    /\ \A r \in Roots :
          /\ r[1] # "location" /\ r[2] \in Pointees(r[1])
          /\ Bounds[r[2]].objs \in Nat /\ Bounds[r[2]].crashes \in Nat

VARIABLES
    phase,     \* "collect", "load", "adjust", "done", "bug", "overrun"
    objs,      \* the object table: kind, fake address, is it a global variable
    heap,      \* heap[i]: the compiler's record i, what its fields lead to
    image,     \* image[i]: its copy: address and whether it is a real one
    stack,     \* the calls under way: record, object, field to visit next
    shared, globals, crashes,     \* bounded counters
    obj_idx,   \* the object checked last
    adjusted,  \* the objects whose is_adjusted is set
    gvar,      \* the next object do_gcc_global_var_adjust looks at
    gptr       \* the real_addr of the global variables saved before

collectVars == <<objs, heap, shared, globals>>
adjustVars == <<image, obj_idx, adjusted, gvar, gptr>>
vars == <<phase, stack, crashes, collectVars, adjustVars>>

Null == 0
Call(rec, at) == [rec |-> rec, at |-> at, next |-> 1]
Object(kind, fake, isGlobal) == [kind |-> kind, fake |-> fake, gvar |-> isGlobal]
Records == {i \in DOMAIN objs : objs[i].kind \notin {"location", None}}
ObjCnt == Len(objs)
Bound == Bounds[objs[1].kind]
Top == Head(stack)
Resume(j) == <<[Top EXCEPT !.next = j]>> \o Tail(stack)

(* A record with one field set.                                            *)
With(fields, path, value) ==
    [p \in DOMAIN fields \cup {path} |-> IF p = path THEN value ELSE fields[p]]

(* The kinds a record that is met for the first time may have.             *)
NewKinds(target) ==
    IF target \in {"tree", "gimple"} THEN Pointees(target) \cap Fresh
    ELSE Pointees(target)

Init ==
    /\ \E r \in Roots :
          /\ objs = <<Object(r[2], 1, FALSE)>>
          /\ stack = <<Call(CollectOf(r[1], r[2]), 1)>>
    /\ phase = "collect"
    /\ heap = << <<>> >>
    /\ shared = 0 /\ globals = 0 /\ crashes = 0
    /\ image = <<>> /\ gptr = <<>>
    /\ obj_idx = 0 /\ adjusted = {} /\ gvar = 1

(***************************************************************************)
(* The collecting walk                                                     *)
(***************************************************************************)
(* insert_obj does not look at the size of the table: is_obj_checked does, *)
(* before most of its calls.  Past the end anything may follow.            *)
InsertOnly(kind, fake, isGlobal) ==      \* mutant: nothing is written
    /\ objs' = Append(objs, Object(kind, fake, isGlobal))
    /\ phase' = IF ObjCnt = Bound.objs THEN "overrun" ELSE phase
    /\ UNCHANGED heap
Insert(kind, fake, isGlobal) ==
    /\ objs' = Append(objs, Object(kind, fake, isGlobal))
    /\ heap' = Append(heap, <<>>)
    /\ phase' = IF ObjCnt = Bound.objs THEN "overrun" ELSE phase

SetField(i, path, j) == [heap EXCEPT ![i] = With(@, path, j)]

(* The item visited next: the calls on the fields before it return at once *)
(* because they are NULL.  A location is never skipped.                    *)
Reached ==
    LET walk == Collects[Top.rec] IN
    {j \in Top.next..Len(walk) :
        \A k \in Top.next..(j - 1) : walk[k][2] # "location"}
AllNull == \A j \in Reached : Collects[Top.rec][j][2] # "location"

(* do_location: the expansion is inserted under an address of its own.     *)
CollectLocation ==
    /\ phase = "collect" /\ stack # <<>>
    /\ \E j \in Reached :
          LET item == Collects[Top.rec][j] IN
          /\ item[2] = "location"
          /\ objs' = Append(objs, Object("location", ObjCnt + 1, FALSE))
          /\ heap' = Append(SetField(Top.at, item[1], ObjCnt + 1), <<>>)
          /\ stack' = <<Call("location", ObjCnt + 1)>> \o Resume(j + 1)
          /\ phase' = IF ObjCnt = Bound.objs THEN "overrun" ELSE phase
    /\ UNCHANGED <<shared, globals, crashes, adjustVars>>

(* A pointer to a record that is not checked yet: it is written, and its   *)
(* own fields come before the rest of this record.                         *)
CollectNew ==
    /\ phase = "collect" /\ stack # <<>> /\ ObjCnt < Bound.objs
    /\ Cardinality(Records) < Bound.records
    /\ \E j \in Reached :
          LET item == Collects[Top.rec][j] IN
          /\ item[2] # "location"
          /\ \E kind \in NewKinds(item[2]) :
                /\ objs' = Append(objs, Object(kind, ObjCnt + 1, FALSE))
                /\ heap' = Append(SetField(Top.at, item[1], ObjCnt + 1), <<>>)
                /\ stack' = <<Call(CollectOf(item[2], kind), ObjCnt + 1)>>
                            \o Resume(j + 1)
    /\ UNCHANGED <<phase, shared, globals, crashes, adjustVars>>

(* A pointer to a record that is checked: there is nothing to save.        *)
CollectChecked ==
    /\ phase = "collect" /\ stack # <<>> /\ ObjCnt < Bound.objs
    /\ shared < Bound.shared
    /\ \E j \in Reached, i \in Records :
          LET item == Collects[Top.rec][j] IN
          /\ item[2] # "location"
          /\ objs[i].kind \in Pointees(item[2])
          /\ heap' = SetField(Top.at, item[1], i)
          /\ stack' = Resume(j + 1)
    /\ shared' = shared + 1
    /\ UNCHANGED <<phase, objs, globals, crashes, adjustVars>>

(* is_obj_checked stops the compiler when the table is full.               *)
CollectFull ==
    /\ phase = "collect" /\ stack # <<>> /\ ObjCnt >= Bound.objs
    /\ \E j \in Reached : Collects[Top.rec][j][2] # "location"
    /\ phase' = "bug"
    /\ UNCHANGED <<stack, crashes, collectVars, adjustVars>>

(* The remaining fields are NULL.                                          *)
CollectReturn ==
    /\ phase = "collect" /\ stack # <<>>
    /\ AllNull
    /\ stack' = Tail(stack)
    /\ UNCHANGED <<phase, crashes, collectVars, adjustVars>>

(* do_global_tree: NULL, a tree saved before (its entry has no size), or a *)
(* tree to save now, whose own entry is marked.                            *)
CollectGlobal ==
    /\ phase = "collect" /\ stack = <<>> /\ globals < Bound.globals
    /\ \/ /\ Insert(None, Null, TRUE)
          /\ UNCHANGED stack
       \/ /\ ObjCnt < Bound.objs
          /\ \E i \in Records : /\ objs[i].kind \in Pointees("tree")
                                /\ Insert(None, i, TRUE)
          /\ UNCHANGED stack
       \/ /\ ObjCnt < Bound.objs /\ Cardinality(Records) < Bound.records
          /\ \E kind \in NewKinds("tree") :
                /\ Insert(kind, ObjCnt + 1, TRUE)
                /\ stack' = <<Call(CollectOf("tree", kind), ObjCnt + 1)>>
    /\ globals' = globals + 1
    /\ UNCHANGED <<shared, crashes, adjustVars>>

(* nodes_flush: the records are written with the addresses they hold.      *)
NodesFlush ==
    /\ phase = "collect" /\ stack = <<>>
    /\ phase' = "load"
    /\ image' = [i \in DOMAIN objs |->
                    [p \in DOMAIN heap[i] |-> [to |-> heap[i][p], real |-> FALSE]]]
    /\ UNCHANGED <<stack, crashes, collectVars, obj_idx, adjusted, gvar, gptr>>

(***************************************************************************)
(* The adjusting walk (STEP1)                                              *)
(***************************************************************************)
(* get_real_addr: the object saved under an address; none has address 0.   *)
(* The entry of a global saved before has no real_addr while it is looked  *)
(* for, so its own address finds the object it is about.                   *)
ObjectAt(addr) == {i \in DOMAIN objs : objs[i].fake = addr /\ objs[i].kind # None}

IsAdjustedNever(i) == FALSE     \* mutant: do_next is always set
IsAdjusted(i) == i \in adjusted

(* is_obj_checked of an object that is not adjusted, then its own walk.    *)
Enter(i, rec, calls) ==
    /\ obj_idx' = i
    /\ adjusted' = adjusted \cup {i}
    /\ stack' = <<Call(rec, i)>> \o calls

(* c_parse: every is_adjusted is reset, whatever an earlier run did.       *)
StartAdjust ==
    /\ phase = "load"
    /\ phase' = "adjust"
    /\ \E r \in Roots :
          /\ r[2] = objs[1].kind
          /\ obj_idx' = 1 /\ adjusted' = {1}
          /\ stack' = <<Call(AdjustOf(r[1], r[2]), 1)>>
    /\ gvar' = 1
    /\ gptr' = [i \in DOMAIN objs |-> Null]
    /\ UNCHANGED <<crashes, collectVars, image>>

Put(i, path, value, isReal) ==
    [image EXCEPT ![i] = With(@, path, [to |-> value, real |-> isReal])]

(* A field that is not NULL, or a location: do_xxx has something to do.    *)
Stops(item, copy) == item[2] = "location" \/ item[1] \in DOMAIN copy
NextStop ==
    LET walk == Adjusts[Top.rec]
        copy == image[Top.at] IN
    {j \in Top.next..Len(walk) :
        /\ Stops(walk[j], copy)
        /\ \A k \in Top.next..(j - 1) : ~Stops(walk[k], copy)}

(* do_real_addr: an address that leads to no object is set to NULL, and so *)
(* is a real one, which a crash of an earlier run left in the image.       *)
AdjustPointer ==
    /\ phase = "adjust" /\ stack # <<>>
    /\ \E j \in NextStop :
          LET item  == Adjusts[Top.rec][j]
              field == image[Top.at][item[1]] IN
          /\ item[2] # "location"
          /\ \/ /\ field.real \/ ObjectAt(field.to) = {}
                /\ image' = [image EXCEPT ![Top.at] =
                                [p \in DOMAIN @ \ {item[1]} |-> @[p]]]
                /\ stack' = Resume(j + 1)
                /\ UNCHANGED <<obj_idx, adjusted>>
             \/ /\ ~field.real
                /\ \E i \in ObjectAt(field.to) :
                      /\ image' = Put(Top.at, item[1], i, TRUE)
                      /\ IF IsAdjusted(i)
                         THEN /\ stack' = Resume(j + 1)
                              /\ UNCHANGED <<obj_idx, adjusted>>
                         ELSE Enter(i, AdjustOf(item[2], objs[i].kind),
                                    Resume(j + 1))
    /\ UNCHANGED <<phase, crashes, collectVars, gvar, gptr>>

(* my_expand_location: the object after the one checked last that is not   *)
(* adjusted has to be the location.                                        *)
NextFree ==
    CHOOSE k \in obj_idx..(ObjCnt + 1) :
        k \notin adjusted /\ \A m \in obj_idx..(k - 1) : m \in adjusted

AdjustLocation ==
    /\ phase = "adjust" /\ stack # <<>>
    /\ \E j \in NextStop, k \in {NextFree} :
          /\ Adjusts[Top.rec][j][2] = "location"
          /\ \/ /\ k > ObjCnt \/ objs[k].kind # "location"
                /\ phase' = "bug"
                /\ UNCHANGED <<image, stack, obj_idx, adjusted>>
             \/ /\ k <= ObjCnt /\ objs[k].kind = "location"
                /\ image' = Put(Top.at, Adjusts[Top.rec][j][1], k, TRUE)
                /\ Enter(k, "location", Resume(j + 1))
                /\ UNCHANGED phase
    /\ UNCHANGED <<crashes, collectVars, gvar, gptr>>

(* The remaining fields are NULL.                                          *)
AdjustReturn ==
    /\ phase = "adjust" /\ stack # <<>>
    /\ NextStop = {}
    /\ stack' = Tail(stack)
    /\ UNCHANGED <<phase, crashes, collectVars, adjustVars>>

(* do_gcc_global_var_adjust, once the walk from the first object is over.  *)
AdjustGlobal ==
    /\ phase = "adjust" /\ stack = <<>> /\ gvar <= ObjCnt
    /\ gvar' = gvar + 1
    /\ \/ /\ ~objs[gvar].gvar
          /\ UNCHANGED <<phase, stack, obj_idx, adjusted, gptr>>
       \/ /\ objs[gvar].gvar /\ objs[gvar].fake = Null
          /\ adjusted' = adjusted \cup {gvar}
          /\ UNCHANGED <<phase, stack, obj_idx, gptr>>
       \/ /\ objs[gvar].gvar /\ objs[gvar].fake # Null
          /\ objs[gvar].kind = None
          /\ IF ObjectAt(objs[gvar].fake) = {}
             THEN phase' = "bug" /\ UNCHANGED <<adjusted, gptr>>
             ELSE /\ \E i \in ObjectAt(objs[gvar].fake) :
                        gptr' = [gptr EXCEPT ![gvar] = i]
                  /\ adjusted' = adjusted \cup {gvar}
                  /\ UNCHANGED phase
          /\ UNCHANGED <<stack, obj_idx>>
       \/ /\ objs[gvar].gvar /\ objs[gvar].kind # None
          /\ IF gvar \in adjusted
             THEN phase' = "bug" /\ UNCHANGED <<stack, obj_idx, adjusted>>
             ELSE /\ Enter(gvar, AdjustOf("tree", objs[gvar].kind), <<>>)
                  /\ UNCHANGED phase
          /\ UNCHANGED gptr
    /\ UNCHANGED <<crashes, collectVars, image>>

(* BUG_ON(obj_adjusted != obj_cnt).                                        *)
AdjustFinish ==
    /\ phase = "adjust" /\ stack = <<>> /\ gvar > ObjCnt
    /\ phase' = IF adjusted = DOMAIN objs THEN "done" ELSE "bug"
    /\ UNCHANGED <<stack, crashes, collectVars, adjustVars>>

(* STEP1 works on the pages of the resfile itself.  The process may end    *)
(* before the src buffer says that the image is adjusted: it is adjusted   *)
(* again, with what the first run left in it.                              *)
Crash ==
    /\ phase \in {"adjust", "done"} /\ crashes < Bound.crashes
    /\ crashes' = crashes + 1
    /\ phase' = "load"
    /\ stack' = <<>>
    /\ UNCHANGED <<collectVars, adjustVars>>

Walk ==
    \/ CollectLocation \/ CollectNew \/ CollectChecked \/ CollectFull
    \/ CollectReturn \/ CollectGlobal \/ NodesFlush
    \/ StartAdjust \/ AdjustPointer \/ AdjustLocation \/ AdjustReturn
    \/ AdjustGlobal \/ AdjustFinish
(* The program stops in one of these and nowhere else (no deadlock).       *)
Stopped == phase \in {"done", "bug", "overrun"} /\ UNCHANGED vars
Next == Walk \/ Crash \/ Stopped
Spec == Init /\ [][Next]_vars

(***************************************************************************)
(* Properties                                                              *)
(***************************************************************************)
(* The object table and the copies agree in their domains, and every       *)
(* counter stays in its range (the arrays of collect and c_parse).         *)
TypeOK ==
    /\ phase \in {"collect", "load", "adjust", "done", "bug", "overrun"}
    /\ DOMAIN heap = DOMAIN objs
    /\ image = <<>> \/ DOMAIN image = DOMAIN objs
    /\ adjusted \subseteq DOMAIN objs
    /\ obj_idx \in 0..ObjCnt /\ gvar \in 1..(ObjCnt + 1)
    /\ \A c \in 1..Len(stack) : stack[c].at \in DOMAIN objs
    /\ crashes \in 0..Bound.crashes

(* What STEP1 leaves is what the compiler had: every field of every copy   *)
(* leads to the copy of what the compiler's field led to, and is NULL      *)
(* where that was NULL; a location has the place its own walk saved.       *)
Faithful ==
    (phase = "done" /\ crashes = 0) =>
        \A i \in DOMAIN objs :
            /\ DOMAIN image[i] = DOMAIN heap[i]
            /\ \A p \in DOMAIN heap[i] :
                  image[i][p] = [to |-> heap[i][p], real |-> TRUE]
            /\ (objs[i].kind = None) => gptr[i] = objs[i].fake

(* Neither walk stops the program (BUG) for what a compilation contains:   *)
(* only a table that is full does, while it is collected.                  *)
NeverBug ==
    (phase = "bug" /\ crashes = 0) => ObjCnt >= Bound.objs /\ image = <<>>

(* No address of the compiler is left when STEP1 says it is done, even if  *)
(* an earlier run of STEP1 was cut short: what it cannot resolve is NULL.  *)
NoStale ==
    (phase = "done") =>
        \A i \in DOMAIN image : \A p \in DOMAIN image[i] : image[i][p].real

(* No object is walked by two calls at a time, whatever cycles its fields  *)
(* make: the depth of the recursion is bounded by the number of objects.   *)
NoReentry ==
    \A c, d \in 1..Len(stack) : c # d => stack[c].at # stack[d].at

(* The two programs agree on the records: a record of a kind is walked     *)
(* alike by both, field by field and in the same order, whatever led to    *)
(* it, and a walk visits no field twice.  Nothing but the care of those    *)
(* who change one of the two files (a thousand fields each) keeps it so.   *)
WalksAgree ==
    /\ Adjusts = Collects
    /\ \A t, u \in Pointers : \A kind \in Pointees(t) \cap Pointees(u) :
          AdjustOf(t, kind) = CollectOf(u, kind)
    /\ \A rec \in DOMAIN Collects : \A i, j \in DOMAIN Collects[rec] :
          Collects[rec][i][1] = Collects[rec][j][1] => i = j

(* An image that STEP1 starts on was made by walks that its own agree with.*)
MadeAlike == (phase = "load") => WalksAgree

(* While a first STEP1 walks, the objects it has adjusted are those the    *)
(* collecting walk saved up to then: no place is left behind for a later   *)
(* location to be taken for (the FIXME of my_expand_location).             *)
InStep ==
    (phase = "adjust" /\ crashes = 0) =>
        \E n \in DOMAIN objs : adjusted = 1..n
=============================================================================
