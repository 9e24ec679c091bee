--------------------------- MODULE MCGimplePhases ---------------------------
(* Instances of GimplePhases for TLC: two images of C and one of assembly. *)
EXTENDS GimplePhases

CONSTANTS ua, ub, us

Per(x, y, z) == [u \in Image |-> CASE u = ua -> x [] u = ub -> y [] u = us -> z]
Nothing == Per(<<>>, <<>>, <<>>)
NoTypes == [tree |-> Nothing, owner |-> <<>>, decl |-> Nothing]
Blank == [types |-> NoTypes, exprs |-> Nothing, fns |-> <<>>, vars |-> <<>>,
          names |-> <<>>, kernel |-> FALSE]

-----------------------------------------------------------------------------
(* Types                                                                   *)

Field(type, off, name, loc) == [type |-> type, off |-> off, name |-> name, loc |-> loc]
Type(code, size, status, elem, fields) ==
    [code |-> code, size |-> size, status |-> status, canon |-> 0,
     elem |-> elem, fields |-> fields, va |-> FALSE]
Ptr(t) == Type("pointer", 8, "unnamed", t, <<>>)
Integer == Type("int", 4, "unnamed", 0, <<>>)
Undefined(t) == [t EXCEPT !.status = "undefined"]

Typed(t1, t2, owner, d1, d2, e1, e2) ==
    [Blank EXCEPT !.types = [tree |-> Per(t1, t2, <<>>), owner |-> owner,
                             decl |-> Per(d1, d2, <<>>)],
                  !.exprs = Per(e1, e2, <<>>)]

(* Two structures that refer to each other; one image may know but one.    *)
Mutual == <<Type("record", 16, "named", 0, <<Field(2, 0, 1, 1), Field(5, 64, 2, 2)>>),
            Ptr(3),
            Type("record", 8, "named", 0, <<Field(4, 0, 3, 3)>>),
            Ptr(1),
            Type("array", 4, "unnamed", 6, <<>>), Integer>>
Used == [via |-> "component", type |-> 3, field |-> 1]
Var(t) == [kind |-> "var", type |-> t, args |-> <<>>, body |-> TRUE, cfg |-> <<>>]
MutualPrograms ==
    {Typed(Mutual, [Mutual EXCEPT ![i] = IF undef THEN Undefined(@) ELSE @],
           [<<o1, ua, o3, ua, ua, ua>> EXCEPT ![i] = IF undef THEN ua ELSE @], <<>>, <<Var(2)>>,
           <<[Used EXCEPT !.type = 4, !.field = 2]>>, IF undef THEN <<>> ELSE <<Used>>) :
        i \in {1, 3}, undef \in BOOLEAN, o1 \in {ua, ub}, o3 \in {ua, ub}}

(* A function type with its variable arguments, an enumeration, a complex  *)
(* number, a variant of a structure.                                       *)
Kinds == <<[Type("function", 0, "unnamed", 3, <<Field(2, 0, 0, 0)>>) EXCEPT !.va = TRUE],
           Type("enum", 4, "named", 0, <<Field(0, 0, 1, 1), Field(0, 0, 2, 2)>>),
           Type("complex", 8, "unnamed", 5, <<>>),
           [Type("record", 4, "named", 0, <<Field(5, 0, 1, 4)>>) EXCEPT !.canon = 6],
           Integer,
           Type("record", 4, "named", 0, <<Field(5, 0, 1, 4)>>)>>
Kept(n) == [kind |-> "func", type |-> 3, args |-> <<Field(n, 0, 0, 0), Field(4, 0, 0, 0)>>,
            body |-> TRUE, cfg |-> [blocks |-> <<>>, edges |-> 0, flag |-> <<>>]]
KindPrograms ==
    {Typed(Kinds, Kinds, <<ua, o, ua, ua, ua, o>>, <<Kept(1)>>, <<[Kept(2) EXCEPT !.body = (o = ub)]>>,
           <<>>, <<>>) : o \in {ua, ub}}

(* Fields a macro makes have one location; some have no name.  A record is *)
(* nested in another one, which one image knows from the other.           *)
Pair(loc) == <<Field(2, 0, 1, loc), Field(2, 32, 2, loc), Field(3, 64, 0, loc)>>
Nested == <<Type("record", 12, "named", 0, Pair(1)), Integer,
            Type("union", 4, "unnamed", 0, <<Field(2, 0, 5, 9)>>),
            Type("record", 32, "named", 0,
                 <<Field(2, 0, 1, 5), Field(1, 64, 2, 6), Field(2, 160, 3, 7),
                   Field(5, 192, 4, 8)>>),
            Type("record", 8, "named", 0, <<Field(2, 0, 6, 3), Field(2, 32, 7, 4)>>)>>
Component(t, i) == [via |-> "component", type |-> t, field |-> i]
Mem(t, o) == [via |-> "mem", type |-> t, off |-> o]
BitField(t, o, then, m) ==
    [via |-> "bits", type |-> t, off |-> o, then |-> then, mask |-> m]
Components == <<<<1, 1>>, <<1, 2>>, <<1, 3>>, <<4, 2>>, <<4, 3>>, <<5, 2>>, <<6, 2>>>>
MemOffsets == <<0, 6, 8, 12, 14, 18, 24, 28, 30>>
Masks == <<1, 2^8, 2^16 + 2^9, 2^30>>
BitOffsets == <<65, 96, 127, 128, 140, 168, 230>>
Operands ==
    [i \in DOMAIN Components |-> Component(Components[i][1], Components[i][2])]
    \o [i \in DOMAIN MemOffsets |-> Mem(4, MemOffsets[i])]
    \o [i \in DOMAIN Masks |-> BitField(4, 64, "and", Masks[i])]
    \o [i \in DOMAIN BitOffsets |-> BitField(4, BitOffsets[i], "copy", 0)]
    \o <<BitField(4, 64, "other", 0), BitField(2, 0, "copy", 0)>>
FieldPrograms ==
    {Typed(SubSeq(Nested, 1, 3), Append(Nested, Ptr(4)), <<o, ua, ua, ub, ub, ub>>,
           <<>>, <<>>, <<>>, Operands) : o \in {ua, ub}}

(* Twins: anonymous members of one macro's union, or of one type.  Records *)
(* that do not begin with a field, or have fields of other kinds and one   *)
(* of no known type; one of them in another record.                        *)
Boolean == Type("boolean", 1, "unnamed", 0, <<>>)
RealNumber == Type("real", 8, "unnamed", 0, <<>>)
Gaps == <<Type("union", 8, "named", 0,
               <<Field(3, 0, 0, 1), Field(4, 0, 0, 1), Field(2, 0, 1, 1)>>),
          Integer,
          Type("record", 8, "named", 0, <<Field(2, 0, 5, 2), Field(2, 32, 6, 3)>>),
          Type("record", 4, "named", 0, <<Field(2, 0, 7, 4)>>),
          Type("record", 40, "named", 0,
               <<Field(2, 32, 1, 5), Field(6, 64, 2, 6), Field(7, 128, 3, 7),
                 Field(8, 200, 4, 8), Field(2, 224, 5, 9), Field(6, 256, 6, 10)>>),
          Boolean, RealNumber, Undefined(Type("record", 0, "named", 0, <<>>)),
          Type("record", 64, "named", 0, <<Field(2, 0, 1, 11), Field(5, 64, 2, 12)>>),
          Type("record", 24, "named", 0,
               <<Field(3, 0, 0, 13), Field(3, 64, 0, 13), Field(1, 128, 0, 13)>>)>>
GapOperands ==
    {Component(t, i) : t \in {1, 10}, i \in 1..3}
    \cup {Component(5, i) : i \in 1..6}
    \cup {Mem(t, o) : t \in {5, 9}, o \in 0..41}
GapPrograms ==
    {Typed(Gaps, <<>>, [i \in DOMAIN Gaps |-> ua], <<>>, <<>>, <<e>>, <<>>) :
        e \in GapOperands}

-----------------------------------------------------------------------------
(* Code                                                                    *)

Function(g) == [kind |-> "func", type |-> 1, args |-> <<>>, body |-> TRUE, cfg |-> g]
Code(c) == [kind |-> "asm", type |-> 0, args |-> <<>>, body |-> TRUE, cfg |-> c]
Block(p, q, c) == [preds |-> p, succs |-> q, cond |-> c]

(* A condition whose edges come in either order, a loop or a join behind.  *)
Graphs ==
    {[blocks |-> <<Block(<<>>, <<1>>, FALSE), Block(<<1>> \o back, c, TRUE),
                   Block(<<2>>, <<4>>, FALSE), Block(<<3>> \o fwd, <<>>, FALSE)>>,
      edges |-> 4, flag |-> f] :
        back \in {<<4>>, <<>>}, fwd \in {<<4>>, <<>>},
        c \in {<<2, 3>>, <<3, 2>>},
        f \in {<<"fall", "true", "false", "fall">>, <<"fall", "false", "true", "fall">>}}
GraphPrograms ==
    {[Blank EXCEPT !.types = [tree |-> Per(<<Integer>>, <<>>, <<>>), owner |-> <<ua>>,
                              decl |-> Per(<<Function(g)>>, <<>>, <<>>)]] :
        g \in {x \in Graphs : CfgSound(x)}}

(* Short jumps, whose byte is read with or without its sign; near jumps    *)
(* with either length of operand.  Jumps go back and on, to themselves and *)
(* out of the function, and to where it begins.                            *)
Plain(n) == [len |-> n, jump |-> FALSE, opcs |-> 1, nbytes |-> 1, disp |-> 0, byte |-> 0]
Short(d, b) == [len |-> 2, jump |-> TRUE, opcs |-> 1, nbytes |-> 1, disp |-> d, byte |-> b]
Near(l, n, d) ==
    [len |-> l, jump |-> TRUE, opcs |-> 2, nbytes |-> n, disp |-> d, byte |-> d % 256]
Shorts == {Short(d, d) : d \in {-4, -2, 0, 2}}
Insns == {Plain(2), Short(-2, 254)} \cup Shorts
Longs == {Short(-6, -6), Short(4, 4), Short(-4, 252), Near(5, 2, -5), Near(5, 2, 2)}
         \cup {Near(6, 4, d) : d \in {-8, -6, 2}}
Listings == [1..1 -> Insns \cup Longs] \cup [1..2 -> Insns \cup Longs]
            \cup [1..3 -> Insns]
            \cup {<<Plain(2), Near(6, 4, d), c, Plain(3)>> : d \in {-8, -6, 0, 2},
                                                            c \in Insns}
CodePrograms ==
    {[Blank EXCEPT !.types = [tree |-> Nothing, owner |-> <<>>,
                              decl |-> Per(<<>>, <<>>, <<Code(c)>>)]] : c \in Listings}

-----------------------------------------------------------------------------
(* Calls                                                                   *)

Fn(home, global, body, alias, stmts) ==
    [home |-> home, global |-> global, body |-> body, sys |-> FALSE, alias |-> alias,
     stmts |-> stmts]
Variable(class, home, init) == [class |-> class, home |-> home, of |-> 0, init |-> init]
SsaName(def, args, v) == [def |-> def, args |-> args, var |-> v]
Call(via, id) == [op |-> "call", via |-> via, id |-> id]
Assign(v, f) == [op |-> "assign", to |-> v, fn |-> f]
Read(v) == [op |-> "read", to |-> v]
FuncValue(f) == [kind |-> "func", id |-> f]

Calling(fs, vs, ns, k) ==
    [Blank EXCEPT !.fns = fs, !.vars = vs, !.names = ns, !.kernel = k]

(* One image calls through a variable that it or another image assigns to. *)
Pointers ==
    {Calling(<<Fn(ua, TRUE, TRUE, 0, <<c, Call("var", 1)>>),
               Fn(ub, g, TRUE, 0, <<Assign(1, 3), w>>),
               Fn(h, TRUE, body, 0, <<>>)>>,
             <<Variable(class, ua, init)>>, <<>>, FALSE) :
        c \in {Call("var", 1), Call("fn", 3), Call("internal", 3)},
        w \in {Assign(1, 1), Call("fn", 1)},
        g \in {TRUE}, h \in {ua, ub, us}, body \in BOOLEAN,
        class \in {"global", "field", "extern"},
        init \in {<<>>, <<FuncValue(3), [kind |-> "int", id |-> 0]>>}}

(* Aliases, and assembly code that calls and is called.                    *)
Aliases ==
    {Calling(<<Fn(ua, TRUE, TRUE, 0, <<Call("fn", 2), c>>), Fn(ub, TRUE, FALSE, 3, <<>>),
               Fn(ub, g, TRUE, 0, <<Call("fn", t)>>),
               Fn(us, TRUE, TRUE, 0, <<i, Call("mem", 0)>>), Fn(us, FALSE, TRUE, 0, <<>>)>>,
             <<>>, <<>>, FALSE) :
        c \in {Call("fn", 3), Call("fn", 1), Call("fn", 4)}, t \in {1, 3, 4},
        i \in {Call("rel", 1), Call("rel", 2), Call("rel", 5), Call("fn", 5)},
        g \in BOOLEAN}

(* An alias of an alias.                                                   *)
AliasChains ==
    {Calling(<<Fn(ua, TRUE, TRUE, 0, <<Call("fn", 2), Call("fn", 3)>>),
               Fn(ub, TRUE, FALSE, 3, <<>>), Fn(ub, TRUE, FALSE, 4, <<>>),
               Fn(ub, TRUE, TRUE, 0, <<Call("fn", t)>>),
               Fn(us, TRUE, TRUE, 0, <<Call("rel", t)>>)>>, <<>>, <<>>, FALSE) :
        t \in 1..4}

(* Names that joins feed, in a circle too, and what joins take besides.    *)
JoinOf(ns) == [i \in DOMAIN ns |-> [kind |-> "name", id |-> ns[i]]]
Address(f) == [kind |-> "fn", id |-> f]
Zero == [kind |-> "int", id |-> 0]
JoinProgram(a, v1, v2, v3, d) ==
    Calling(<<Fn(ua, TRUE, TRUE, 0, <<Read(1), Assign(1, 3), Call("name", 1)>>),
              Fn(ub, TRUE, TRUE, 0, <<Assign(2, 3)>>),
              Fn(ub, TRUE, TRUE, 0, <<>>)>>,
            <<Variable("local", ua, <<FuncValue(2)>>), Variable("global", ub, <<>>),
              Variable("parm", ua, <<>>)>>,
            <<SsaName("phi", JoinOf(<<2, 3>>) \o a, v1), SsaName("phi", JoinOf(<<1, 3>>), v2),
              SsaName(d[1], d[2], v3)>>,
            FALSE)
Joins ==
    {JoinProgram(<<>>, v1, v2, v3, d) :
        v1 \in {0, 1}, v2 \in {0, 1}, v3 \in {0, 1},
        d \in {<<"var", <<1>> >>, <<"fn", <<2>> >>, <<"phi", JoinOf(<<1, 2>>)>>,
               <<"nop", <<>> >>}}
    \cup
    {JoinProgram(<<Address(f), Zero>>, v1, 3, 3, d) :
        f \in {2, 3}, v1 \in {0, 1, 3}, d \in {<<"var", <<1>> >>, <<"nop", <<>> >>}}

(* A function that stores into its parameter and calls through it, or      *)
(* through a name of it; another one passes a function.                    *)
Use(f) == [op |-> "use", fn |-> f]
Parameters ==
    {Calling(<<Fn(ua, TRUE, TRUE, 0, <<s, c>>), Fn(ub, TRUE, TRUE, 0, <<Call("fn", 1), Use(3)>>),
               Fn(h, TRUE, TRUE, 0, <<>>)>>,
             <<Variable("parm", ua, <<>>)>>, <<SsaName("nop", <<>>, 1)>>, FALSE) :
        s \in {Assign(1, 3), Assign(1, 2), Read(1)},
        c \in {Call("var", 1), Call("name", 1)}, h \in {ua, ub}}

(* Who is how far from an entry: chains, cycles, shortcuts.                *)
Chains ==
    {Calling([f \in 1..4 |->
                [Fn(ua, TRUE, TRUE, 0, [i \in DOMAIN c[f] |-> Call("fn", c[f][i])])
                    EXCEPT !.sys = (f = 2)]], <<>>, <<>>, k) :
        k \in BOOLEAN,
        c \in {<<x, y, z, w>> : x \in {<<2, 4>>, <<2>>, <<4, 3>>, <<3, 4, 2>>},
                 y \in {<<3>>, <<3, 4>>}, z \in {<<4>>, <<2>>, <<2, 4>>},
                 w \in {<<3>>, <<>>, <<2>>}}}

AllPrograms == MutualPrograms \cup KindPrograms \cup FieldPrograms \cup GraphPrograms
               \cup CodePrograms \cup Pointers \cup Aliases \cup AliasChains
               \cup Joins \cup Chains \cup GapPrograms \cup Parameters
=============================================================================
