----------------------------- MODULE CodePaths ------------------------------
(***************************************************************************)
(* The code paths of a function: one per basic block of gcc's control flow *)
(* graph (get_function_detail of gcc/c.cc), or one per stretch of          *)
(* instructions up to a conditional jump (get_func_detail of gcc/asm.cc).  *)
(* A path is [cond, next]: what it ends with, and where it goes; next[1]   *)
(* of the code is "true" here, next[0] is "false".                         *)
(***************************************************************************)
EXTENDS Integers, Sequences, SequencesExt, FiniteSets, FiniteSetsExt, Lists

NoPath == 0

-----------------------------------------------------------------------------
(* gcc: g is [blocks, edges, flag]: each block [preds, succs, cond] in the *)
(* order of next_bb, edges are 1..g.edges, flag[e] says when e is taken.   *)

(* The edges the first walk enters into its table: the succs are looked up *)
(* in the whole table and never found missing.                             *)
EdgesSeen(g) == UNION {Range(g.blocks[b].preds) : b \in DOMAIN g.blocks}

Dests(g, e) == {b \in DOMAIN g.blocks : e \in Range(g.blocks[b].preds)}

(* The assertions on the graph, all of them, and what gcc makes of a       *)
(* condition: two edges.                                                   *)
CfgSound(g) ==
    /\ IsList(g.blocks)
    /\ Cardinality(EdgesSeen(g)) = g.edges
    /\ \A b \in DOMAIN g.blocks :
          /\ IsList(g.blocks[b].preds) /\ IsList(g.blocks[b].succs)
          /\ g.blocks[b].cond => Len(g.blocks[b].succs) = 2
          /\ \A e \in Range(g.blocks[b].succs) : Cardinality(Dests(g, e)) = 1
          /\ g.blocks[b].cond =>
                \/ <<g.flag[g.blocks[b].succs[1]],
                     g.flag[g.blocks[b].succs[2]]>> = <<"true", "false">>
                \/ <<g.flag[g.blocks[b].succs[1]],
                     g.flag[g.blocks[b].succs[2]]>> = <<"false", "true">>

Res(g, e) == CHOOSE b \in Dests(g, e) : TRUE

(* Faulty: the first edge is taken to be the true one.                     *)
FirstIsTrue(g, b) ==
    LET s == g.blocks[b].succs
    IN IF g.blocks[b].cond
       THEN [true |-> Res(g, s[1]), false |-> Res(g, s[2])]
       ELSE [i \in DOMAIN s |-> Res(g, s[i])]

NextPaths(g, b) ==
    LET s == g.blocks[b].succs
    IN IF g.blocks[b].cond
       THEN IF g.flag[s[1]] = "true"
            THEN [true |-> Res(g, s[1]), false |-> Res(g, s[2])]
            ELSE [true |-> Res(g, s[2]), false |-> Res(g, s[1])]
       ELSE [i \in DOMAIN s |-> Res(g, s[i])]

get_function_detail(g) == [b \in DOMAIN g.blocks |-> NextPaths(g, b)]

-----------------------------------------------------------------------------
(* Assembly: code is a sequence of [len, jump, opcs, nbytes, disp, byte].  *)
(* A conditional jump has one or two bytes of opcode (opcs), and goes disp *)
(* bytes on from the next instruction, as nbytes bytes of operand say; of  *)
(* the first of these the decoder's type insn_byte_t makes byte.  That     *)
(* type is the decoder's, which is not here: it may or may not be signed.  *)
(* Every address is an offset from the function's start.                   *)

Start(code, i) ==
    LET To[k \in 1..i] == IF k = 1 THEN 0 ELSE To[k - 1] + code[k - 1].len
    IN To[i]
Size(code) == Start(code, Len(code) + 1)
Inside(code, a) == a \in 1..(Size(code) - 1)

(* The short forms of a jump have a byte of operand, the near ones two or  *)
(* four.                                                                   *)
OperandSound(c) ==
    /\ c.opcs = 1 <=> c.nbytes = 1
    /\ c.nbytes = 1 => c.disp \in -128..127 /\ c.byte \in {c.disp, c.disp % 256}
    /\ c.nbytes = 2 => c.disp \in -(2^15)..(2^15 - 1)

(* Instructions have a length.                                             *)
CodeSound(code) ==
    /\ code \in Seq([len : Nat \ {0}, jump : BOOLEAN, opcs : {1, 2},
                     nbytes : {1, 2, 4}, disp : Int, byte : Int])
    /\ \A i \in DOMAIN code : code[i].jump => OperandSound(code[i])

(* Faulty: the near forms are not told from the short ones.                *)
FirstByteOnly(code, i) ==
    [next |-> Start(code, i + 1), jmp |-> Start(code, i + 1) + code[i].byte]

(* The addresses a conditional jump may leave for.  The short forms' byte  *)
(* is widened to an s32 as it is, the others' are read as a short or an    *)
(* int.                                                                    *)
calc_addr_jmp(code, i) ==
    LET c == code[i]
        offset == CASE c.opcs = 1 \/ c.nbytes = 1 -> c.byte
                    [] c.opcs = 2 /\ c.nbytes \in {2, 4} -> c.disp
                    [] OTHER -> 0
    IN [next |-> Start(code, i + 1), jmp |-> Start(code, i + 1) + offset]

Jumps(code) == InOrder(Len(code), {i \in DOMAIN code : code[i].jump})

(* The bitmap of the first pass, as a sequence: where paths begin.         *)
Entries(code) ==
    LET Of(i) == {calc_addr_jmp(code, i).next, calc_addr_jmp(code, i).jmp}
        inside == {a \in UNION {Of(i) : i \in Range(Jumps(code))} :
                      Inside(code, a)}
    IN <<0>> \o InOrder(Size(code), inside)

(* The second pass takes the k-th jump to end the k-th path, and whatever  *)
(* comes last to end the path after those.  Path 0 is none.                *)
get_func_detail(code) ==
    LET e == Entries(code)
        j == Jumps(code)
        n == Len(j)
        Path(a) == IF \E k \in DOMAIN e : e[k] = a
                   THEN CHOOSE k \in DOMAIN e : e[k] = a ELSE NoPath
        At(i) == calc_addr_jmp(code, i)
    IN [k \in DOMAIN e |->
          [cp |-> e[k],
           cond |-> IF k <= n THEN Start(code, j[k])
                    ELSE IF k = n + 1 THEN Start(code, Len(code)) ELSE -1,
           false |-> IF k <= n /\ Inside(code, At(j[k]).next)
                     THEN k + 1 ELSE NoPath,
           true |-> IF k <= n /\ Inside(code, At(j[k]).jmp)
                    THEN Path(At(j[k]).jmp) ELSE NoPath]]

(* cps[entries], which the last assignment reaches when the function ends  *)
(* with a jump, is not there.                                              *)
WritesPast(code) == Len(Jumps(code)) >= Len(Entries(code))

-----------------------------------------------------------------------------
(* What a path of the code should say                                      *)

(* The last instruction that starts in path k.                             *)
LastOf(code, e, k) ==
    LET end == IF k = Len(e) THEN Size(code) ELSE e[k + 1]
    IN CHOOSE i \in DOMAIN code :
          /\ Start(code, i) \in e[k]..(end - 1)
          /\ Start(code, i + 1) >= end

(* Where a jump goes.                                                      *)
Target(code, i) == Start(code, i + 1) + code[i].disp

(* It is read for what it is: not so for a short jump back whose byte is   *)
(* read without its sign.                                                  *)
ReadRight(code, i) == calc_addr_jmp(code, i).jmp = Target(code, i)

(* cond_head is the instruction the path ends with, and when that is a     *)
(* jump, the false path begins behind it and the true path where it jumps  *)
(* to: if it is read right, and not back to where the function begins.     *)
PathRight(code, cps, k) ==
    LET e == [n \in DOMAIN cps |-> cps[n].cp]
        i == LastOf(code, e, k)
        Begins(p, a) == IF Inside(code, a) THEN p \in DOMAIN e /\ e[p] = a
                        ELSE p = NoPath
    IN /\ cps[k].cond = Start(code, i)
       /\ code[i].jump => /\ Begins(cps[k].false, Start(code, i + 1))
                          /\ ReadRight(code, i) /\ Target(code, i) # 0 =>
                                Begins(cps[k].true, Target(code, i))

(* Every path but the first begins behind a jump, and the last path does   *)
(* not end with one.                                                       *)
JumpsDelimit(code) ==
    /\ \A k \in 2..Len(Entries(code)) :
          \E i \in Range(Jumps(code)) : Start(code, i + 1) = Entries(code)[k]
    /\ code # <<>> /\ ~ code[Len(code)].jump

=============================================================================
