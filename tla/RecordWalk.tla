----------------------------- MODULE RecordWalk ------------------------------
(***************************************************************************)
(* How a walk over the compiler's records is written down.  A do_xxx()     *)
(* function visits the fields of struct xxx in a fixed order.  Its walk is *)
(* the sequence of those fields, each with what it leads to: another       *)
(* record, a tree or a gimple (dispatched by their code), a string or      *)
(* array of bytes, or a source location.  A struct embedded in another one *)
(* is walked in place (the call with flag 0).                              *)
(***************************************************************************)
EXTENDS Integers, Sequences, SequencesExt, TLC

Width == 2      \* bound: the elements of an array that are told apart

P(f, target) == << <<f, target>> >>                   \* a pointer
T(fs) == [i \in DOMAIN fs |-> <<fs[i], "tree">>]
G(fs) == [i \in DOMAIN fs |-> <<fs[i], "gimple">>]
L(fs) == [i \in DOMAIN fs |-> <<fs[i], "location">>]
B(f) == P(f, "bytes")
In(rec) == << <<rec, "in", rec>> >>                   \* an embedded struct
Each(f, target) == [i \in 1..Width |-> <<f \o ToString(i), target>>]
EachIn(f, rec) == [i \in 1..Width |-> <<f \o ToString(i), "in", rec>>]
Leaf == <<>>                                          \* no field is visited
Same(recs, walk) == [r \in recs |-> walk]             \* records alike

(* The walk of each record of table t with the embedded structs opened: a  *)
(* sequence of <<path, target>>, the path naming the structs on the way.   *)
Under(name, walk) ==
    [i \in DOMAIN walk |-> << <<name>> \o walk[i][1], walk[i][2]>>]

Opened(t) ==
    LET Walk[r \in DOMAIN t] ==
            FoldLeft(LAMBDA walk, item :
                        walk \o (IF Len(item) = 2
                                 THEN << << <<item[1]>>, item[2]>> >>
                                 ELSE Under(item[1], Walk[item[3]])),
                     <<>>, t[r])
    IN  [r \in DOMAIN t |-> Walk[r]]
=============================================================================
