---------------------------- MODULE FieldSearch -----------------------------
(***************************************************************************)
(* How steps 4 to 6 find the field an expression stands for: by its        *)
(* FIELD_DECL (get_target_field0), which may be another image's copy of    *)
(* the declaration, or by an offset in bits (get_target_field1).           *)
(*                                                                         *)
(* T maps a type node to [code, size in bytes, next, children]; a child is *)
(* [loc, name, ctx, idx, off, type]: its location, its name (0: none), the *)
(* type node of its context and its number there, its offset in bits and   *)
(* its type node.  A search answers with <<type node, number of a child>>. *)
(***************************************************************************)
EXTENDS Integers, Sequences, SequencesExt

None == <<>>                 \* NULL: no node, no field
Fault == <<"NULL">>          \* the search uses a NULL pointer: a fault
BitsPerUnit == 8
Aggregate == {"record", "union"}

(* Children of one location come out of one macro.                         *)
is_type_from_expand_macro(T, tn) ==
    \E i \in DOMAIN T[tn].children \ {1} :
        T[tn].children[i].loc = T[tn].children[i - 1].loc

(* Two anonymous fields: of one type, and at one place of it, or of equal  *)
(* types.  A name that there is is never empty.                            *)
SameAnonymous(f, g) ==
    \/ f.ctx = g.ctx /\ (f.idx = g.idx \/ f.off = g.off)
    \/ f.type = g.type

(* Faulty: locations are compared whether or not a macro made the fields.  *)
SameLocation(f, g, macro) == f.loc = g.loc

is_same_field(f, g, macro) ==
    IF ~ macro THEN f.loc = g.loc
    ELSE IF f.name = 0 /\ g.name = 0 THEN SameAnonymous(f, g)
    ELSE f.name = g.name

Pointee(T, tn) ==
    LET To[n \in DOMAIN T \cup {None}] ==
            IF n # None /\ T[n].code = "pointer" THEN To[T[n].next] ELSE n
    IN To[tn]

(* The children first, then what those of them hold that are aggregates.   *)
get_target_field0(T, tree, f) ==
    LET In[n \in DOMAIN T \cup {None}] ==
            LET tn == Pointee(T, n) IN
            IF tn = None \/ T[tn].code \notin Aggregate THEN None
            ELSE LET macro == is_type_from_expand_macro(T, tn)
                     ch == T[tn].children
                     i == SelectInSeq(ch, LAMBDA c : is_same_field(c, f, macro))
                     Inner(c) == IF c.type \notin {None, tn}
                                    /\ T[c.type].code \in Aggregate
                                 THEN In[c.type] ELSE None
                     j == SelectInSeq(ch, LAMBDA c : Inner(c) # None)
                 IN IF i # 0 THEN <<tn, i>>
                    ELSE IF j # 0 THEN Inner(ch[j]) ELSE None
    IN In[tree]

-----------------------------------------------------------------------------
(* By offset                                                               *)

(* What becomes of the child an offset lies in: it is the answer, it is    *)
(* searched in turn, or nothing is.                                        *)
__check_field(T, c) ==
    CASE T[c.type].code \in {"int", "pointer", "array", "enum", "union"} -> 0
      [] T[c.type].code = "record" -> 1
      [] OTHER -> -1

(* The first child that starts at the offset is the answer; the first one  *)
(* that starts after it leaves it to the child before, of which it is not  *)
(* asked whether there is one and whether its type is known.  When none    *)
(* starts there or after, it may lie in the last one.                      *)
calculate_field_offset(T, tree, target) ==
    LET At[tn \in DOMAIN T, base \in Nat] ==
            LET ch == T[tn].children
                n == Len(ch)
                i == SelectInSeq(ch, LAMBDA c : c.off + base >= target)
                In(k) == CASE __check_field(T, ch[k]) = 1 ->
                                At[ch[k].type, base + ch[k].off]
                           [] __check_field(T, ch[k]) = 0 -> <<tn, k>>
                           [] OTHER -> None
                Covers(c) ==
                    /\ c.off + base < target /\ c.type # None
                    /\ c.off + base + T[c.type].size * BitsPerUnit > target
            IN IF i # 0 /\ ch[i].off + base = target THEN <<tn, i>>
               ELSE IF i # 0 /\ base < target
               THEN IF i = 1 \/ ch[i - 1].type = None THEN Fault ELSE In(i - 1)
               ELSE IF n # 0 /\ Covers(ch[n]) THEN In(n) ELSE None
    IN At[tree, 0]

get_target_field1(T, tn, target) ==
    IF tn = None THEN None ELSE calculate_field_offset(T, tn, target)

-----------------------------------------------------------------------------
(* What the searches are for                                               *)

(* The bits of a child, given in the outermost record.                     *)
Bits(T, c, base) ==
    IF c.type = None THEN {}
    ELSE (base + c.off)..(base + c.off + T[c.type].size * BitsPerUnit - 1)

Starts(T, r, bit) == {k \in DOMAIN T[r[1]].children :
                        r[2] + T[r[1]].children[k].off = bit}
Holding(T, r, bit) == {k \in DOMAIN T[r[1]].children :
                         bit \in Bits(T, T[r[1]].children[k], r[2])}

(* The innermost record around a bit that a child of it starts at, or that *)
(* is in no record in turn, and where that record begins.                  *)
Enclosing(T, tree, bit) ==
    LET Of[tn \in DOMAIN T, base \in Nat] ==
            LET r == <<tn, base>>
                ch == T[tn].children
                In == {k \in Holding(T, r, bit) : T[ch[k].type].code = "record"}
            IN IF Starts(T, r, bit) # {} \/ In = {} THEN r
               ELSE LET k == CHOOSE x \in In : TRUE
                    IN Of[ch[k].type, base + ch[k].off]
    IN Of[tree, 0]

(* The innermost child that holds a bit, unless one starts there.          *)
Holder(T, tree, bit) ==
    LET r == Enclosing(T, tree, bit)
        S == IF Starts(T, r, bit) # {} THEN Starts(T, r, bit) ELSE Holding(T, r, bit)
    IN IF S = {} THEN None ELSE <<r[1], Min(S)>>

(* Types of which a field can be the answer for a bit inside of it.        *)
Whole == {"int", "pointer", "array", "enum", "union"}

(* A bit before the first child of the record around it, though not the    *)
(* record's own first bit, or behind a child whose type is not known.      *)
Unguarded(T, tree, bit) ==
    LET r == Enclosing(T, tree, bit)
        ch == T[r[1]].children
        before == {k \in DOMAIN ch : r[2] + ch[k].off < bit}
    IN /\ Starts(T, r, bit) = {} /\ bit > r[2]
       /\ \E k \in DOMAIN ch : r[2] + ch[k].off > bit
       /\ before = {} \/ ch[Max(before)].type = None

(* A field that nothing but its number tells from the one before: neither  *)
(* has a name, a macro made both, and they start at one place, or are of   *)
(* one type.                                                               *)
Twins(T, tn, i) ==
    {j \in DOMAIN T[tn].children :
        LET f == T[tn].children[i]
            g == T[tn].children[j]
        IN /\ j < i /\ is_type_from_expand_macro(T, tn) /\ f.name = 0 /\ g.name = 0
           /\ f.off = g.off \/ f.type = g.type}

=============================================================================
