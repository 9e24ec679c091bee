----------------------------- MODULE TypeDetail -----------------------------
(***************************************************************************)
(* STEP3 ("get detail"): the workers fill in the type nodes, then the      *)
(* types of variables and functions and the functions' code paths          *)
(* (do_get_detail of gcc/c.cc and what it calls).                          *)
(*                                                                         *)
(* A type that has a name and a location has one node for all images, any  *)
(* other type one per image.  A node is given by the tree it was made for, *)
(* <<image, number>>: the tree of the image that owns it.  is_set is read  *)
(* and written with no lock, and set before what the type is made of is    *)
(* looked at, which is what ends the recursion.                            *)
(***************************************************************************)
EXTENDS Images, Lists, FieldSearch, CodePaths

VARIABLES
    types,      \* what the images declare: [tree, owner, decl]
    stack,      \* stack[u]: the calls of __get_type_detail u's worker is in
    at,         \* at[u]: the object it is at, in the order of Objects(u)
    isSet,      \* the nodes with is_set (detailed, for declarations)
    entered,    \* entered[n]: how often a worker went on to fill in n
    children,   \* children[n]: fields, values, arguments
    nxt,        \* nxt[n]: the type pointed to, of elements, returned
    variant,    \* the nodes with is_variant
    paths       \* paths[d]: the code paths of a function

detailVars == <<types, stack, at, isSet, entered, children, nxt, variant, paths>>

-----------------------------------------------------------------------------
(* Trees and their nodes                                                   *)

Tree(x) == types.tree[x[1]][x[2]]
Trees == UNION {{<<u, t>> : t \in DOMAIN types.tree[u]} : u \in Image}

(* get_type_xnode.  "named" types have a name, or one made of their        *)
(* fields, and a location.  A variant stands for its canonical type.       *)
NodeOf(x) ==
    LET y == <<x[1], IF Tree(x).canon = 0 THEN x[2] ELSE Tree(x).canon>>
    IN CASE Tree(y).status = "named" -> <<types.owner[y[2]], y[2]>>
         [] Tree(y).status = "unnamed" -> y
         [] OTHER -> None

(* Declarations are numbered after the trees of their image; their var_node *)
(* or func_node is taken for a node of the same shape.                     *)
IsDecl(x) == x[2] > Len(types.tree[x[1]])
Decl(x) == types.decl[x[1]][x[2] - Len(types.tree[x[1]])]
Decls == UNION {{<<u, Len(types.tree[u]) + i>> : i \in DOMAIN types.decl[u]} :
                  u \in Image}
Nodes == {x \in Trees : NodeOf(x) = x} \cup Decls
NodeAt(x) == IF IsDecl(x) THEN x ELSE NodeOf(x)

(* The types t that images can declare: a type is made of types of its     *)
(* image, a canonical type has none itself, and the image that owns a      *)
(* named type has a tree of it.                                            *)
TreeSound(t, u, k) ==
    LET r == t.tree[u][k]
        own == t.owner[k]
    IN /\ IsList(r.fields) /\ r.status \in {"named", "unnamed", "undefined"}
       /\ r.canon # 0 => r.canon \in DOMAIN t.tree[u] /\ t.tree[u][r.canon].canon = 0
       /\ r.canon = 0 /\ r.status = "named" =>
             /\ own \in Image /\ k \in DOMAIN t.tree[own]
             /\ t.tree[own][k].canon = 0 /\ t.tree[own][k].status = "named"
       /\ r.code \in {"pointer", "reference", "vector", "array", "complex", "function"}
             => r.elem \in DOMAIN t.tree[u]
       /\ r.code \in Aggregate \cup {"function"} =>
             \A i \in DOMAIN r.fields : r.fields[i].type \in DOMAIN t.tree[u]

DeclSound(t, u, d) ==
    /\ d.kind \in {"var", "func", "asm"} /\ d.body \in BOOLEAN /\ IsList(d.args)
    /\ d.kind # "asm" => d.type \in DOMAIN t.tree[u]
    /\ d.kind # "asm" => \A i \in DOMAIN d.args : d.args[i].type \in DOMAIN t.tree[u]
    /\ d.kind = "func" /\ d.body => CfgSound(d.cfg)
    /\ d.kind = "asm" /\ d.body => CodeSound(d.cfg)

TypesSound(t) ==
    \A u \in Image :
        /\ IsList(t.tree[u]) /\ \A k \in DOMAIN t.tree[u] : TreeSound(t, u, k)
        /\ IsList(t.decl[u]) /\ \A k \in DOMAIN t.decl[u] : DeclSound(t, u, t.decl[u][k])

Part(type, role) == [type |-> type, role |-> role]
Each(s, role) == [i \in DOMAIN s |-> Part(s[i].type, role)]

(* What is looked at below a type, in order, and what becomes of it.       *)
Parts(x) ==
    IF IsDecl(x)
    THEN IF Decl(x).kind = "asm" THEN <<>>
         ELSE <<Part(Decl(x).type, "next")>> \o Each(Decl(x).args, "child")
    ELSE LET r == Tree(x) IN
         CASE r.code \in {"pointer", "reference", "vector", "array"} ->
                <<Part(r.elem, "next")>>
           [] r.code = "complex" -> <<Part(r.elem, "none")>>
           [] r.code \in Aggregate -> Each(r.fields, "child")
           [] r.code = "enum" -> Each(r.fields, "value")
           [] r.code = "function" ->
                <<Part(r.elem, "none")>> \o Each(r.fields, "none") \o
                (IF r.va THEN <<Part(0, "value")>> ELSE <<>>)
           [] OTHER -> <<>>

(* do_get_detail's two passes: types, then variables and functions.  What  *)
(* is dropped, because it is undefined, has a canonical type or lost       *)
(* against another image's, is passed over.                                *)
ObjectsOf(u) ==
    LET n == Len(types.tree[u]) + Len(types.decl[u])
    IN InOrder(n, {k \in 1..n : IsDecl(<<u, k>>) \/ NodeOf(<<u, k>>) = <<u, k>>})

(* Faulty: the last object is not come to.                                 *)
AllButLast(u) ==
    IF ObjectsOf(u) = <<>> THEN <<>> ELSE Front(ObjectsOf(u))

Objects(u) == ObjectsOf(u)

-----------------------------------------------------------------------------
(* A worker's steps                                                        *)

InitDetail ==
    /\ stack = [u \in Image |-> <<>>]
    /\ at = [u \in Image |-> 1]
    /\ isSet = {}
    /\ entered = [n \in Nodes |-> 0]
    /\ children = [n \in Nodes |-> <<>>]
    /\ nxt = [n \in Nodes |-> None]
    /\ variant = {}
    /\ paths = [d \in Decls |-> <<>>]

Frame(x, pc) == [tree |-> x, pc |-> pc, i |-> 1]
Top(u) == stack[u][1]
Goto(u, f) == stack' = [stack EXCEPT ![u][1] = f]

NextObject(u) ==
    /\ stack[u] = <<>> /\ at[u] \in DOMAIN Objects(u)
    /\ LET x == <<u, Objects(u)[at[u]]>>
       IN IF x \in isSet \/ (IsDecl(x) /\ ~ Decl(x).body)
          THEN at' = [at EXCEPT ![u] = @ + 1] /\ UNCHANGED stack
          ELSE stack' = [stack EXCEPT ![u] = <<Frame(x, "look")>>]
               /\ UNCHANGED at
    /\ UNCHANGED <<types, isSet, entered, children, nxt, variant, paths>>

(* The call at the top returns node n to the one below: *next and *base    *)
(* are written, a field's var_list is appended to the children.            *)
Return(u, n) ==
    IF Len(stack[u]) = 1
    THEN /\ stack' = [stack EXCEPT ![u] = <<>>]
         /\ at' = [at EXCEPT ![u] = @ + 1]
         /\ UNCHANGED <<children, nxt>>
    ELSE LET f == stack[u][2]
             part == Parts(f.tree)[f.i]
             to == NodeAt(f.tree)
         IN /\ stack' = [stack EXCEPT ![u] =
                  <<[f EXCEPT !.i = @ + 1]>> \o SubSeq(@, 3, Len(@))]
            /\ nxt' = IF part.role = "next" THEN [nxt EXCEPT ![to] = n] ELSE nxt
            /\ children' = IF part.role = "child"
                           THEN [children EXCEPT ![to] =
                                   Append(@, [of |-> f.tree, i |-> f.i, type |-> n])]
                           ELSE children
            /\ UNCHANGED at

(* Faulty: is_set is not looked at.                                        *)
NeverSet(n) == n = None

(* Nothing is done for a type that is not known here, or known already.    *)
Done(n) == n = None \/ n \in isSet

(* find_type_node and the check of is_set. *)
Look(u) ==
    /\ stack[u] # <<>> /\ Top(u).pc = "look"
    /\ LET x == Top(u).tree
           n == NodeAt(x)
       IN IF Done(n)
          THEN Return(u, n)
          ELSE Goto(u, Frame(x, "set")) /\ UNCHANGED <<at, children, nxt>>
    /\ UNCHANGED <<types, isSet, entered, variant, paths>>

Set(u) ==
    /\ stack[u] # <<>> /\ Top(u).pc = "set"
    /\ LET x == Top(u).tree
           n == NodeAt(x)
       IN /\ isSet' = isSet \cup {n}
          /\ entered' = [entered EXCEPT ![n] = @ + 1]
          /\ Goto(u, Frame(x, "parts"))
    /\ UNCHANGED <<types, at, children, nxt, variant, paths>>

(* The last field of a structure is an array, so its size may vary.        *)
EndsInArray(f) ==
    /\ ~ IsDecl(f.tree) /\ Tree(f.tree).code \in Aggregate
    /\ f.i = Len(Parts(f.tree))
    /\ Tree(<<f.tree[1], Parts(f.tree)[f.i].type>>).code = "array"

(* The next part: a call for its type, or an entry of its own.             *)
NextPart(u) ==
    /\ stack[u] # <<>> /\ Top(u).pc = "parts"
    /\ Top(u).i \in DOMAIN Parts(Top(u).tree)
    /\ LET f == Top(u)
           part == Parts(f.tree)[f.i]
           n == NodeAt(f.tree)
       IN IF part.role = "value"
          THEN /\ children' = [children EXCEPT ![n] =
                     Append(@, [of |-> f.tree, i |-> f.i, type |-> None])]
               /\ Goto(u, [f EXCEPT !.i = @ + 1])
               /\ UNCHANGED variant
          ELSE /\ stack' = [stack EXCEPT ![u] =
                     <<Frame(<<u, part.type>>, "look")>> \o @]
               /\ variant' = IF EndsInArray(f) THEN variant \cup {n} ELSE variant
               /\ UNCHANGED children
    /\ UNCHANGED <<types, at, isSet, entered, nxt, paths>>

Paths(d) == IF Decl(d).kind = "func" THEN get_function_detail(Decl(d).cfg)
            ELSE IF Decl(d).kind = "asm" THEN get_func_detail(Decl(d).cfg)
            ELSE <<>>

EndParts(u) ==
    /\ stack[u] # <<>> /\ Top(u).pc = "parts"
    /\ Top(u).i \notin DOMAIN Parts(Top(u).tree)
    /\ LET x == Top(u).tree
       IN IF IsDecl(x)
          THEN /\ paths' = [paths EXCEPT ![x] = Paths(x)]
               /\ Return(u, x)
          ELSE Return(u, NodeOf(x)) /\ UNCHANGED paths
    /\ UNCHANGED <<types, isSet, entered, variant>>

DetailStep(u) == NextObject(u) \/ Look(u) \/ Set(u) \/ NextPart(u) \/ EndParts(u)
DetailDone(u) == stack[u] = <<>> /\ at[u] \notin DOMAIN Objects(u)

-----------------------------------------------------------------------------
(* STEP4: fields that are used                                             *)

(* The type nodes as the searches see them.                                *)
ChildOf(c) ==
    LET f == Tree(c.of).fields[c.i]
    IN [loc |-> f.loc, name |-> f.name, off |-> f.off, idx |-> c.i,
        ctx |-> NodeOf(c.of), type |-> c.type]

TypeNodes ==
    [n \in Nodes \ Decls |->
        [code |-> Tree(n).code, size |-> Tree(n).size, next |-> nxt[n],
         children |-> IF Tree(n).code \in Aggregate
                      THEN [i \in DOMAIN children[n] |-> ChildOf(children[n][i])]
                      ELSE <<>>]]

(* The lowest bit of a mask, which an expression reads a bit-field with.   *)
FirstBit(mask) == CHOOSE i \in 0..63 :
    (mask \div 2^i) % 2 = 1 /\ \A j \in 0..(i - 1) : (mask \div 2^j) % 2 = 0

(* A pointer's target, or the type itself. *)
Stripped(u, t) ==
    IF Tree(<<u, t>>).code = "pointer" THEN Tree(<<u, t>>).elem ELSE t

(* The operand names a field of its type. *)
get_component_ref_vnl(T, u, e) ==
    LET t == Stripped(u, e.type)
        type == NodeOf(<<u, Tree(<<u, t>>).fields[e.field].type>>)
    IN get_target_field0(T, NodeOf(<<u, e.type>>),
                         ChildOf([of |-> <<u, t>>, i |-> e.field, type |-> type]))

(* It gives an offset in bytes from a pointer.                             *)
__4_mark_mem_ref(T, u, e) ==
    LET t == Stripped(u, e.type)
    IN IF Tree(<<u, t>>).code \in Aggregate
       THEN get_target_field1(T, NodeOf(<<u, t>>), e.off * BitsPerUnit)
       ELSE None

(* It gives a place in bits, in what is not a mere number.                 *)
BitFieldBase(T, u, e) ==
    LET tn == NodeOf(<<u, e.type>>)
    IN IF tn # None /\ T[tn].code = "int" THEN None ELSE tn

(* The statement behind it tells more: it copies the value, takes some     *)
(* bits of it, or does what is not understood.                             *)
__4_mark_bit_field_ref(T, u, e) ==
    LET tn == BitFieldBase(T, u, e)
    IN CASE e.then = "copy" -> get_target_field1(T, tn, e.off)
         [] e.then = "and" -> get_target_field1(T, tn, e.off + FirstBit(e.mask))
         [] OTHER -> None

(* The field an operand stands for, which is entered into the used_at of   *)
(* the field and of its type.  What an operand is based on is an operand   *)
(* of its own, which comes first.                                          *)
FieldUsed(T, u, e) ==
    CASE e.via = "component" -> get_component_ref_vnl(T, u, e)
      [] e.via = "mem" -> __4_mark_mem_ref(T, u, e)
      [] e.via = "bits" -> __4_mark_bit_field_ref(T, u, e)

-----------------------------------------------------------------------------
(* Properties                                                              *)

AllDetailed == \A u \in Image : DetailDone(u)

(* The entry a part makes among the children, the entries of the first m   *)
(* parts, and a node of which these have been come to.                     *)
RowOf(x, i) ==
    [of |-> x, i |-> i,
     type |-> IF Parts(x)[i].role = "value" THEN None
              ELSE NodeOf(<<x[1], Parts(x)[i].type>>)]
Listed(x) == {i \in DOMAIN Parts(x) : Parts(x)[i].role \in {"child", "value"}}
Rows(x, m) == LET r == InOrder(m, Listed(x)) IN [k \in DOMAIN r |-> RowOf(x, r[k])]

Built(x, n, m) ==
    /\ children[n] = Rows(x, m)
    /\ \A i \in DOMAIN Parts(x) :
          i <= m /\ Parts(x)[i].role = "next" => nxt[n] = NodeOf(<<x[1], Parts(x)[i].type>>)

(* The node is what one image's tree says of it, field for field.          *)
SaysOf(x, n) == Built(x, n, Len(Parts(x)))

TreesOf(n) == IF IsDecl(n) THEN {n} ELSE {x \in Trees : NodeOf(x) = n}

(* When STEP3 is over every type is filled in, and one that a single       *)
(* worker filled in is whole, in order and without repetition, however     *)
(* the workers met on the types that refer to it.  Only types that images  *)
(* share are ever filled in twice: the race do_get_detail asks about.      *)
TypesWhole ==
    AllDetailed => \A n \in Nodes :
        /\ entered[n] = 0 => IsDecl(n) /\ ~ Decl(n).body
        /\ entered[n] = 1 => \E x \in TreesOf(n) : SaysOf(x, n)
        /\ entered[n] > 1 => \E x, y \in TreesOf(n) : x[1] # y[1]

(* A type that contains itself, through whatever types, is not entered     *)
(* again by the worker that fills it in: __get_type_detail returns.        *)
NeverInItself ==
    \A u \in Image : \A i, j \in DOMAIN stack[u] :
        LET f == stack[u][i]
            g == stack[u][j]
        IN (i < j /\ f.pc # "look" /\ g.pc # "look" /\ ~ IsDecl(g.tree)) =>
              NodeOf(f.tree) # NodeOf(g.tree)

=============================================================================
