---------------------------- MODULE NodeAgreeProofs ---------------------------
(***************************************************************************)
(* Theorems about NodeImage for every set of records that the plugin and   *)
(* STEP1 walk in the same way (WalksAgree).                                *)
(***************************************************************************)
EXTENDS NodeImageProofs

(***************************************************************************)
(* The two walks in step.  Both visit the records in the same order.  To   *)
(* compare them, cnt[i][k] is the number of objects when the plugin came   *)
(* to field k of record i, and nx[i] the field it visits next there (one   *)
(* past the last when it is done).  Neither is kept by the code: that the  *)
(* two exist is the invariant.                                             *)
(***************************************************************************)
RecordOf(kind) ==
    IF kind = "location" THEN kind
    ELSE CollectOf(CHOOSE t \in Pointers : kind \in Pointees(t), kind)
WalkOf(kind) == IF kind = None THEN <<>> ELSE Collects[RecordOf(kind)]
Size(i) == Len(WalkOf(objs[i].kind))
PathAt(i, k) == WalkOf(objs[i].kind)[k][1]
TargetAt(i, k) == WalkOf(objs[i].kind)[k][2]
IsSet(i, k) == PathAt(i, k) \in DOMAIN heap[i]
LeadsTo(i, k) == heap[i][PathAt(i, k)]
OnStack == {stack[c].at : c \in 1..Len(stack)}
Tops == {t \in DOMAIN objs : t = 1 \/ objs[t].gvar}
End(cnt, i) == cnt[i][Size(i) + 1]

(* The objects: an address is that of the record, a global saved before    *)
(* has that of the record it is about.                                     *)
Labels ==
    /\ ~objs[1].gvar
    /\ \A i \in DOMAIN objs :
          /\ objs[i].kind # None => objs[i].fake = i
          /\ objs[i].kind = None =>
                objs[i].gvar /\ objs[i].fake \in {Null} \cup Records
          /\ objs[i].gvar => objs[i].kind \in {None} \cup Pointees("tree")

(* What the plugin has visited is set or NULL, the rest is not set.        *)
Counted(cnt, nx) ==
    /\ cnt \in [DOMAIN objs -> [Nat -> Nat]]
    /\ nx \in [DOMAIN objs -> Nat \ {0}]
    /\ \A i \in DOMAIN objs :
          /\ nx[i] <= Size(i) + 1 /\ cnt[i][1] = i
          /\ \A p \in DOMAIN heap[i] : \E k \in 1..(nx[i] - 1) : p = PathAt(i, k)
          /\ \A k \in 1..(nx[i] - 1) : TargetAt(i, k) = "location" => IsSet(i, k)

(* A field leads to an object that was there, or to the next one, whose    *)
(* own walk came before the next field.                                    *)
OldField(cnt, i, k) ==
    /\ LeadsTo(i, k) \in DOMAIN objs /\ LeadsTo(i, k) <= cnt[i][k]
    /\ TargetAt(i, k) # "location"
    /\ objs[LeadsTo(i, k)].kind \in Pointees(TargetAt(i, k))
    /\ cnt[i][k + 1] = cnt[i][k]
NewField(cnt, i, k) ==
    /\ LeadsTo(i, k) \in DOMAIN objs /\ LeadsTo(i, k) = cnt[i][k] + 1
    /\ ~objs[LeadsTo(i, k)].gvar
    /\ objs[LeadsTo(i, k)].kind \in
          IF TargetAt(i, k) = "location" THEN {"location"}
          ELSE Pointees(TargetAt(i, k))
    /\ cnt[i][k + 1] = End(cnt, LeadsTo(i, k))
Ordered(cnt, nx) ==
    \A i \in DOMAIN objs : \A k \in 1..(nx[i] - 1) :
        IsSet(i, k) => OldField(cnt, i, k) \/ NewField(cnt, i, k)

(* Nothing is saved between two fields when those from one to the other    *)
(* are NULL.                                                               *)
Runs(cnt) ==
    \A i \in DOMAIN objs : \A a, b \in 1..(Size(i) + 1) :
        a <= b /\ (\A k \in a..(b - 1) : ~IsSet(i, k)) => cnt[i][a] = cnt[i][b]

(* The first object and the global variables follow one another, each      *)
(* with what is reached from it first.                                     *)
InRow(cnt) ==
    \A t \in Tops :
        /\ \A s \in Tops : s > t => s > End(cnt, t)
        /\ t <= End(cnt, t)
        /\ End(cnt, t) = ObjCnt \/ End(cnt, t) + 1 \in Tops

Shape(cnt, nx) ==
    Labels /\ Counted(cnt, nx) /\ Ordered(cnt, nx) /\ Runs(cnt) /\ InRow(cnt)

(* The calls of a walk: each is on the field that led to the one above.    *)
Calls(cnt, nx) ==
    /\ \A c \in 1..Len(stack) :
          /\ objs[stack[c].at].kind # None
          /\ stack[c].rec = RecordOf(objs[stack[c].at].kind)
          /\ stack[c].next = nx[stack[c].at]
    /\ \A c \in 2..Len(stack) :
          /\ stack[c].next > 1 /\ IsSet(stack[c].at, stack[c].next - 1)
          /\ LeadsTo(stack[c].at, stack[c].next - 1) = stack[c - 1].at
          /\ stack[c - 1].at = cnt[stack[c].at][stack[c].next - 1] + 1

(* The plugin: a record that is not on the stack is done, and what is to   *)
(* come on the stack counts from now.                                      *)
Collecting(cnt, nx) ==
    /\ Calls(cnt, nx)
    /\ \A i \in DOMAIN objs : i \notin OnStack => nx[i] = Size(i) + 1
    /\ \A i \in OnStack : \A k \in Nat : k >= nx[i] => cnt[i][k] = ObjCnt
    /\ \A i \in DOMAIN objs : \A k \in 1..(nx[i] - 1) :
          IsSet(i, k) /\ LeadsTo(i, k) = cnt[i][k] + 1 /\ LeadsTo(i, k) \in OnStack =>
             \E c \in 2..Len(stack) : /\ stack[c].at = i /\ stack[c].next = k + 1
                                      /\ stack[c - 1].at = LeadsTo(i, k)
    /\ stack # <<>> => /\ stack[Len(stack)].at \in Tops
                       /\ \A t \in Tops : t <= stack[Len(stack)].at

Collected == [i \in DOMAIN objs |-> Size(i) + 1]
CopyOf(i) == [p \in DOMAIN heap[i] |-> [to |-> heap[i][p], real |-> FALSE]]

(* STEP1: the next field of record i is mx[i], n objects are adjusted.     *)
Copies(mx, n) ==
    /\ mx \in [DOMAIN objs -> Nat \ {0}]
    /\ \A i \in DOMAIN objs :
          /\ mx[i] <= Size(i) + 1
          /\ i > n => mx[i] = 1
          /\ i <= n /\ i \notin OnStack => mx[i] = Size(i) + 1
          /\ DOMAIN image[i] = DOMAIN heap[i]
          /\ \A k \in 1..Size(i) : IsSet(i, k) =>
                image[i][PathAt(i, k)] = [to |-> LeadsTo(i, k), real |-> k < mx[i]]

(* It works on what is reached from t, and the globals before t are done.  *)
Place(cnt, n) ==
    \E t \in Tops :
        /\ IF stack = <<>> THEN n = End(cnt, t) ELSE t = stack[Len(stack)].at
        /\ gvar <= n + 1 /\ (t = 1 \/ t < gvar)
        /\ \A s \in Tops : s > t => s >= gvar

Entries ==
    /\ DOMAIN gptr = DOMAIN objs
    /\ \A i \in DOMAIN objs :
          i < gvar /\ objs[i].kind = None => gptr[i] = objs[i].fake
    /\ \A i \in DOMAIN objs : i >= gvar => gptr[i] = Null

Adjusting(cnt, mx, n) ==
    /\ n \in DOMAIN objs /\ adjusted = 1..n /\ obj_idx \in adjusted
    /\ Copies(mx, n) /\ Calls(cnt, mx) /\ Place(cnt, n) /\ Entries
    /\ stack # <<>> => n = cnt[stack[1].at][stack[1].next]

AgreeInv ==
    /\ phase = "collect" => \E cnt, nx : Shape(cnt, nx) /\ Collecting(cnt, nx)
    /\ phase = "load" /\ crashes = 0 =>
          /\ \E cnt : Shape(cnt, Collected)
          /\ \A i \in DOMAIN objs : image[i] = CopyOf(i)
    /\ phase = "adjust" /\ crashes = 0 =>
          \E cnt, mx, n : Shape(cnt, Collected) /\ Adjusting(cnt, mx, n)
    /\ Faithful /\ NeverBug


LEMMA WalkFacts ==
    ASSUME NEW kind \in Kinds
    PROVE  /\ Len(WalkOf(kind)) \in Nat
           /\ kind # None => /\ RecordOf(kind) \in DOMAIN Collects
                             /\ WalkOf(kind) = Collects[RecordOf(kind)]
           /\ \A k \in 1..Len(WalkOf(kind)) :
                 /\ WalkOf(kind)[k][1] \in Path
                 /\ WalkOf(kind)[k][2] # "location" => WalkOf(kind)[k][2] \in Pointers
<1>1. CASE kind = None
  <2>1. WalkOf(kind) = <<>> /\ Len(<<>>) = 0
    BY <1>1 DEF WalkOf
  <2> QED
    BY <1>1, <2>1
<1>2. CASE kind # None
  <2>1. RecordOf(kind) \in DOMAIN Collects
    <3>1. CASE kind = "location"
      BY <3>1, NodeAssumption DEF RecordOf
    <3>2. CASE kind # "location"
      <4>1. \E t \in Pointers : kind \in Pointees(t)
        BY <1>2, <3>2 DEF Kinds
      <4>2. PICK t \in Pointers : kind \in Pointees(t) /\ RecordOf(kind) = CollectOf(t, kind)
        BY <3>2, <4>1 DEF RecordOf
      <4> QED
        BY <4>2, NodeAssumption
    <3> QED
      BY <3>1, <3>2
  <2>2. WalkOf(kind) = Collects[RecordOf(kind)]
    BY <1>2 DEF WalkOf
  <2>3. /\ Len(WalkOf(kind)) \in Nat
        /\ \A k \in 1..Len(WalkOf(kind)) : k \in DOMAIN Collects[RecordOf(kind)]
    <3>1. Collects[RecordOf(kind)] \in Seq(Path \X STRING)
      BY <2>1, NodeAssumption DEF Path
    <3> QED
      BY <2>2, <3>1
  <2> QED
    BY <2>1, <2>2, <2>3, ItemFacts
<1> QED
  BY <1>1, <1>2

LEMMA RecordFacts ==
    ASSUME WalksAgree, NEW t \in Pointers, NEW kind \in Pointees(t)
    PROVE  /\ CollectOf(t, kind) = RecordOf(kind)
           /\ AdjustOf(t, kind) = RecordOf(kind)
           /\ kind \in Kinds \ {"location", None}
<1>1. kind \in Kinds \ {"location", None}
  BY NodeAssumption DEF Kinds
<1>2. PICK u \in Pointers : kind \in Pointees(u) /\ RecordOf(kind) = CollectOf(u, kind)
  BY <1>1 DEF RecordOf
<1>3. /\ AdjustOf(t, kind) = CollectOf(t, kind)
      /\ AdjustOf(t, kind) = CollectOf(u, kind)
  BY <1>2 DEF WalksAgree
<1> QED
  BY <1>1, <1>2, <1>3

LEMMA SizeFacts ==
    ASSUME Typed, NEW i \in DOMAIN objs
    PROVE  /\ Size(i) \in Nat /\ i \in Nat \ {0} /\ objs[i].kind \in Kinds
           /\ \A k \in 1..Size(i) :
                 /\ PathAt(i, k) \in Path
                 /\ TargetAt(i, k) # "location" => TargetAt(i, k) \in Pointers
<1>1. objs[i] \in ObjectType /\ i \in Nat \ {0}
  BY TableFacts
<1>2. objs[i].kind \in Kinds
  BY <1>1 DEF ObjectType
<1> QED
  BY <1>1, <1>2, WalkFacts DEF Size, PathAt, TargetAt

(* A walk visits no field twice.                                           *)
LEMMA PathFacts ==
    ASSUME WalksAgree, Typed, NEW i \in DOMAIN objs,
           NEW k \in 1..Size(i), NEW m \in 1..Size(i), PathAt(i, k) = PathAt(i, m)
    PROVE  k = m
<1>1. objs[i].kind \in Kinds /\ objs[i].kind # None
  <2>1. objs[i].kind = None => Len(WalkOf(objs[i].kind)) = 0
    BY DEF WalkOf
  <2> QED
    BY <2>1, SizeFacts DEF Size
<1>2. /\ RecordOf(objs[i].kind) \in DOMAIN Collects
      /\ WalkOf(objs[i].kind) = Collects[RecordOf(objs[i].kind)]
  BY <1>1, WalkFacts
<1>3. k \in DOMAIN WalkOf(objs[i].kind) /\ m \in DOMAIN WalkOf(objs[i].kind)
  <2>1. Collects[RecordOf(objs[i].kind)] \in Seq(Path \X STRING)
    BY <1>2, NodeAssumption DEF Path
  <2> QED
    BY <1>2, <2>1 DEF Size
<1> QED
  BY <1>2, <1>3 DEF WalksAgree, PathAt


(***************************************************************************)
(* The stack as a set                                                      *)
(***************************************************************************)
LEMMA EnterSet ==
    ASSUME Typed, stack # <<>>, NEW rec, NEW at, NEW j, Entered(rec, at, j)
    PROVE  OnStack' = OnStack \cup {at}
<1>1. Len(stack) \in Nat \ {0} /\ Len(stack') = Len(stack) + 1
  BY TopFacts DEF Entered
<1>2. \A c \in 1..Len(stack) :
         c + 1 \in 1..Len(stack') /\ stack'[c + 1].at = stack[c].at
  <2> TAKE c \in 1..Len(stack)
  <2>1. CASE c = 1
    BY <1>1, <2>1 DEF Entered
  <2>2. CASE c # 1
    <3>1. c + 1 \in 3..Len(stack') /\ (c + 1) - 1 = c
      BY <1>1, <2>2
    <3> QED
      BY <1>1, <3>1 DEF Entered
  <2> QED
    BY <2>1, <2>2
<1>3. ASSUME NEW c \in 1..Len(stack'), c # 1
      PROVE  c - 1 \in 1..Len(stack) /\ stack'[c].at = stack[c - 1].at
  <2>1. c - 1 \in 1..Len(stack) /\ (c - 1) + 1 = c
    BY <1>1, <1>3
  <2> QED
    BY <1>2, <2>1
<1>4. stack'[1].at = at /\ 1 \in 1..Len(stack')
  BY <1>1 DEF Entered
<1> QED
  BY <1>2, <1>3, <1>4 DEF OnStack

LEMMA ResumeSet ==
    ASSUME Typed, stack # <<>>, NEW j, Resumed(j)
    PROVE  OnStack' = OnStack
<1>1. \A c \in 1..Len(stack') : c \in 1..Len(stack) /\ stack'[c].at = stack[c].at
  BY ResumeOnce
<1>2. Len(stack') = Len(stack)
  BY DEF Resumed
<1> QED
  BY <1>1, <1>2 DEF OnStack

LEMMA ReturnSet ==
    ASSUME Typed, stack # <<>>, Returned
    PROVE  OnStack' = OnStack \ {Top.at}
<1>1. /\ Len(stack) \in Nat \ {0} /\ Len(stack') = Len(stack) - 1
      /\ Top = stack[1] /\ 1 \in 1..Len(stack)
  BY TopFacts DEF Returned
<1>2. \A c \in 1..Len(stack') : c + 1 \in 1..Len(stack) /\ stack'[c] = stack[c + 1]
  BY ReturnOnce
<1>3. \A c, d \in 1..Len(stack) : c # d => stack[c].at # stack[d].at
  BY DEF Typed, NoReentry
<1>4. ASSUME NEW c \in 1..Len(stack')
      PROVE  stack'[c].at \in OnStack \ {Top.at}
  <2>1. c + 1 \in 1..Len(stack) /\ c + 1 # 1 /\ stack'[c] = stack[c + 1]
    BY <1>1, <1>2
  <2>2. stack[c + 1].at # stack[1].at
    BY <1>1, <1>3, <2>1
  <2> QED
    BY <1>1, <2>1, <2>2 DEF OnStack
<1>5. ASSUME NEW c \in 1..Len(stack), stack[c].at # Top.at
      PROVE  stack[c].at \in OnStack'
  <2>1. c - 1 \in 1..Len(stack') /\ (c - 1) + 1 = c
    BY <1>1, <1>5
  <2>2. stack'[c - 1] = stack[c]
    BY <1>2, <2>1
  <2> QED
    BY <2>1, <2>2 DEF OnStack
<1> QED
  BY <1>4, <1>5 DEF OnStack

LEMMA StartSet ==
    ASSUME NEW rec, NEW at, Started(rec, at)
    PROVE  OnStack' = {at}
<1>1. 1..Len(stack') = {1} /\ stack'[1].at = at
  BY DEF Started
<1> QED
  BY <1>1 DEF OnStack

LEMMA EmptySet ==
    ASSUME stack = <<>>
    PROVE  OnStack = {}
<1>1. Len(stack) = 0
  OBVIOUS
<1> QED
  BY <1>1 DEF OnStack

(* The call on top.                                                        *)
LEMMA TopWalk ==
    ASSUME Typed, stack # <<>>, NEW cnt, NEW nx, Calls(cnt, nx)
    PROVE  /\ Top.at \in DOMAIN objs /\ Top.at \in OnStack
           /\ objs[Top.at].kind # None /\ objs[Top.at].kind \in Kinds
           /\ Top.rec = RecordOf(objs[Top.at].kind) /\ Top.rec \in DOMAIN Collects
           /\ Collects[Top.rec] = WalkOf(objs[Top.at].kind)
           /\ Top.next = nx[Top.at]
           /\ Len(Collects[Top.rec]) = Size(Top.at)
           /\ \A k : /\ Collects[Top.rec][k][1] = PathAt(Top.at, k)
                     /\ Collects[Top.rec][k][2] = TargetAt(Top.at, k)
<1>1. Top = stack[1] /\ 1 \in 1..Len(stack) /\ Top.at \in DOMAIN objs
  BY TopFacts
<1>2. /\ objs[Top.at].kind # None /\ Top.rec = RecordOf(objs[Top.at].kind)
      /\ Top.next = nx[Top.at]
  BY <1>1 DEF Calls
<1>3. objs[Top.at].kind \in Kinds
  BY <1>1, SizeFacts
<1>4. Top.rec \in DOMAIN Collects /\ Collects[Top.rec] = WalkOf(objs[Top.at].kind)
  BY <1>2, <1>3, WalkFacts
<1> QED
  BY <1>1, <1>2, <1>3, <1>4 DEF OnStack, Size, PathAt, TargetAt

(* The plugin at field j of the record on top.                             *)
LEMMA ReachWalk ==
    ASSUME WalkInv, phase = "collect", stack # <<>>, NEW j \in Reached,
           NEW cnt, NEW nx, Calls(cnt, nx)
    PROVE  /\ j \in 1..Size(Top.at) /\ j >= nx[Top.at]
           /\ Collects[Top.rec][j][1] = PathAt(Top.at, j)
           /\ Collects[Top.rec][j][2] = TargetAt(Top.at, j)
           /\ \A k \in nx[Top.at]..(j - 1) : TargetAt(Top.at, k) # "location"
<1>1. Typed
  BY DEF WalkInv
<1>2. /\ Top.next = nx[Top.at] /\ Len(Collects[Top.rec]) = Size(Top.at)
      /\ \A k : /\ Collects[Top.rec][k][1] = PathAt(Top.at, k)
                /\ Collects[Top.rec][k][2] = TargetAt(Top.at, k)
  BY <1>1, TopWalk
<1>3. /\ j \in Top.next..Len(Collects[Top.rec])
      /\ \A k \in Top.next..(j - 1) : Collects[Top.rec][k][2] # "location"
  BY DEF Reached
<1>4. Top.next \in Nat \ {0} /\ Size(Top.at) \in Nat
  BY <1>1, TopFacts, SizeFacts
<1> QED
  BY <1>2, <1>3, <1>4

(* Objects keep their walks.                                               *)
LEMMA OldRows ==
    ASSUME NEW i \in DOMAIN objs, objs'[i] = objs[i]
    PROVE  /\ Size(i)' = Size(i)
           /\ \A k : PathAt(i, k)' = PathAt(i, k) /\ TargetAt(i, k)' = TargetAt(i, k)
           /\ heap'[i] = heap[i] =>
                 \A k : IsSet(i, k)' = IsSet(i, k) /\ LeadsTo(i, k)' = LeadsTo(i, k)
  BY DEF Size, PathAt, TargetAt, IsSet, LeadsTo


(***************************************************************************)
(* The plugin saves an object: it came to field j of the records of X (the *)
(* one on top, or none for a global variable).                             *)
(***************************************************************************)
NextCounts(y, cnt, n2) ==
    [i \in 1..y |->
        [k \in Nat |-> IF i = y \/ (i \in OnStack /\ k >= n2[i])
                       THEN y ELSE cnt[i][k]]]
NextFields(y, nx, X, j) ==
    [i \in 1..y |-> IF i = y THEN 1 ELSE IF i \in X THEN j + 1 ELSE nx[i]]

GrowRows(y, o) ==           \* y: the place of the new object
    /\ ObjCnt \in Nat \ {0} /\ y = ObjCnt + 1 /\ DOMAIN objs = 1..ObjCnt
    /\ DOMAIN objs' = 1..y /\ ObjCnt' = y /\ objs'[y] = o
    /\ \A i \in DOMAIN objs :
          /\ i \in Nat /\ i < y
          /\ objs'[i] = objs[i] /\ Size(i)' = Size(i) /\ Size(i) \in Nat
          /\ \A k : PathAt(i, k)' = PathAt(i, k) /\ TargetAt(i, k)' = TargetAt(i, k)
    /\ Size(y)' \in Nat

GrowFields(y, X, j) ==
    /\ \A i \in DOMAIN objs : \A k \in 1..Size(i) :
          /\ IsSet(i, k)' <=> IsSet(i, k) \/ (i \in X /\ k = j)
          /\ IsSet(i, k) => LeadsTo(i, k)' = LeadsTo(i, k)
    /\ \A i \in X : LeadsTo(i, j)' = y
    /\ \A i \in DOMAIN objs : \A p \in DOMAIN heap'[i] :
          p \in DOMAIN heap[i] \/ (i \in X /\ p = PathAt(i, j))
    /\ DOMAIN heap'[y] = {}

GrowCounts(y, cnt, nx, X, j, c2, n2) ==
    /\ c2 \in [1..y -> [Nat -> Nat]] /\ n2 \in [1..y -> Nat \ {0}]
    /\ n2[y] = 1
    /\ \A i \in DOMAIN objs : n2[i] = IF i \in X THEN j + 1 ELSE nx[i]
    /\ \A k \in Nat : c2[y][k] = y
    /\ \A i \in OnStack : \A k \in Nat : k >= n2[i] => c2[i][k] = y
    /\ \A i \in DOMAIN objs : \A k \in Nat :
          i \notin OnStack \/ k < n2[i] => c2[i][k] = cnt[i][k]

GrowPlace(y, cnt, nx, X, j, o) ==
    /\ X \subseteq OnStack /\ OnStack \subseteq DOMAIN objs
    /\ \A i \in X : /\ nx[i] <= j /\ j \in 1..Size(i)
                    /\ \A k \in nx[i]..Size(i) : ~IsSet(i, k)
                    /\ \A k \in nx[i]..(j - 1) : TargetAt(i, k) # "location"
                    /\ ~o.gvar
                    /\ o.kind \in IF TargetAt(i, j) = "location" THEN {"location"}
                                  ELSE Pointees(TargetAt(i, j))
    /\ \A i \in OnStack : \A k \in Nat : k >= nx[i] => cnt[i][k] = y - 1
    /\ \A i \in OnStack \ X : /\ nx[i] > 1 /\ IsSet(i, nx[i] - 1)
                              /\ LeadsTo(i, nx[i] - 1) = cnt[i][nx[i] - 1] + 1
                              /\ LeadsTo(i, nx[i] - 1) \in OnStack
    /\ \A i \in DOMAIN objs : \A k \in 1..(nx[i] - 1) :
          IsSet(i, k) /\ LeadsTo(i, k) = cnt[i][k] + 1 /\ LeadsTo(i, k) \in OnStack =>
             i \in OnStack \ X /\ nx[i] = k + 1

GrowStep(y, cnt, nx, X, j, o, c2, n2) ==
    /\ GrowRows(y, o) /\ GrowFields(y, X, j) /\ GrowCounts(y, cnt, nx, X, j, c2, n2)
    /\ GrowPlace(y, cnt, nx, X, j, o)

LEMMA CountsGrow ==
    ASSUME Typed, NEW cnt, NEW nx, Counted(cnt, nx), NEW X \in SUBSET DOMAIN objs,
           NEW j \in Nat, OnStack \subseteq DOMAIN objs, NEW y, y = ObjCnt + 1,
           NEW n2, n2 = NextFields(y, nx, X, j), NEW c2, c2 = NextCounts(y, cnt, n2)
    PROVE  GrowCounts(y, cnt, nx, X, j, c2, n2)
<1>1. y \in Nat \ {0} /\ \A i \in DOMAIN objs : i \in 1..y /\ i # y
  BY TableFacts
<1>c. /\ cnt \in [DOMAIN objs -> [Nat -> Nat]] /\ nx \in [DOMAIN objs -> Nat \ {0}]
      /\ \A i \in 1..y : i # y => i \in DOMAIN objs
  <2>1. \A i \in 1..y : i # y => i \in DOMAIN objs
    BY TableFacts
  <2> QED
    BY <2>1, Zenon DEF Counted
<1>2. /\ n2 \in [1..y -> Nat \ {0}] /\ n2[y] = 1
      /\ \A i \in DOMAIN objs : n2[i] = IF i \in X THEN j + 1 ELSE nx[i]
  BY <1>1, <1>c DEF NextFields
<1> DEFINE Late(i, k) == i = y \/ (i \in OnStack /\ k >= n2[i])
           Row(i) == [k \in Nat |-> IF Late(i, k) THEN y ELSE cnt[i][k]]
<1>a. ASSUME NEW i \in 1..y
      PROVE  Row(i) \in [Nat -> Nat]
  <2>2. CASE i = y
    <3>1. \A k : Late(i, k)
      BY <2>2
    <3> HIDE DEF Late
    <3> QED
      BY <1>1, <3>1
  <2>3. CASE i # y
    <3>1. cnt[i] \in [Nat -> Nat]
      BY <1>c, <2>3
    <3> HIDE DEF Late
    <3> QED
      BY <1>1, <3>1
  <2> QED
    BY <2>2, <2>3
<1>b. c2 = [i \in 1..y |-> Row(i)]
  BY DEF NextCounts
<1>3. c2 \in [1..y -> [Nat -> Nat]]
  <2>1. DOMAIN c2 = 1..y /\ c2 = [i \in DOMAIN c2 |-> c2[i]]
    BY <1>b
  <2>2. \A i \in 1..y : c2[i] = Row(i)
    <3> HIDE DEF Row
    <3> QED
      BY <1>b, Zenon
  <2>3. \A i \in 1..y : c2[i] \in [Nat -> Nat]
    <3> HIDE DEF Row
    <3> QED
      BY <1>a, <2>2, Zenon
  <2> HIDE DEF Row
  <2> QED
    BY <2>1, <2>3
<1>4. \A i \in 1..y : \A k \in Nat :
         c2[i][k] = IF Late(i, k) THEN y ELSE cnt[i][k]
  <2>1. \A i \in 1..y : c2[i] = Row(i)
    <3> HIDE DEF Row
    <3> QED
      BY <1>b, Zenon
  <2> TAKE i \in 1..y
  <2> TAKE k \in Nat
  <2>2. Row(i)[k] = IF Late(i, k) THEN y ELSE cnt[i][k]
    <3> HIDE DEF Late
    <3> QED
      BY Zenon
  <2> HIDE DEF Late, Row
  <2> QED
    BY <2>1, <2>2
<1>6. \A k \in Nat : c2[y][k] = y
  <2>1. y \in 1..y /\ \A k : Late(y, k)
    BY <1>1
  <2> HIDE DEF Late
  <2> QED
    BY <1>4, <2>1
<1>7. \A i \in OnStack : \A k \in Nat : k >= n2[i] => c2[i][k] = y
  BY <1>1, <1>4
<1>8. ASSUME NEW i \in DOMAIN objs, NEW k \in Nat, i \notin OnStack \/ k < n2[i]
      PROVE  c2[i][k] = cnt[i][k]
  <2>1. n2[i] \in Nat /\ i \in 1..y /\ i # y
    BY <1>1, <1>2
  <2> QED
    BY <1>4, <1>8, <2>1
<1> QED
  BY <1>2, <1>3, <1>6, <1>7, <1>8 DEF GrowCounts

LEMMA RowsGrow ==
    ASSUME WalkInv, NEW y, y = ObjCnt + 1, NEW o, NEW h, Grown(o, h)
    PROVE  GrowRows(y, o)
<1>1. /\ ObjCnt \in Nat \ {0} /\ DOMAIN objs = 1..ObjCnt
      /\ DOMAIN objs' = 1..y /\ ObjCnt' = y /\ objs'[y] = o
      /\ \A i \in DOMAIN objs : objs'[i] = objs[i] /\ i \in Nat /\ i < y
  BY TableFacts DEF WalkInv, Grown, ObjCnt
<1>2. \A i \in DOMAIN objs :
         /\ Size(i)' = Size(i) /\ Size(i) \in Nat
         /\ \A k : PathAt(i, k)' = PathAt(i, k) /\ TargetAt(i, k)' = TargetAt(i, k)
  BY <1>1, OldRows, SizeFacts DEF WalkInv
<1>3. Size(y)' \in Nat
  <2>1. o \in ObjectType
    BY <1>1 DEF Grown
  <2>2. o.kind \in Kinds
    BY <2>1 DEF ObjectType
  <2>3. Size(y)' = Len(WalkOf(o.kind))
    BY <1>1 DEF Size
  <2> QED
    BY <2>2, <2>3, WalkFacts
<1> QED
  BY <1>1, <1>2, <1>3 DEF GrowRows

(* What the counts are then.                                               *)
LEMMA GrowNext ==
    ASSUME NEW y, NEW cnt, NEW nx, NEW X, NEW j, NEW o, NEW c2, NEW n2,
           Counted(cnt, nx), GrowStep(y, cnt, nx, X, j, o, c2, n2),
           NEW i \in DOMAIN objs
    PROVE  /\ nx[i] \in Nat \ {0} /\ n2[i] \in Nat \ {0} /\ Size(i) \in Nat
           /\ nx[i] <= n2[i] /\ n2[i] <= Size(i) + 1
           /\ i \in X => j \in Nat /\ n2[i] = j + 1 /\ i \in OnStack
           /\ i \notin X => n2[i] = nx[i]
           /\ i \in 1..y /\ i # y /\ y \in Nat
<1>1. /\ nx[i] \in Nat \ {0} /\ nx[i] <= Size(i) + 1
  BY DEF Counted
<1>2. /\ i \in 1..y /\ i # y /\ y \in Nat /\ Size(i) \in Nat
  BY DEF GrowStep, GrowRows
<1>3. n2[i] \in Nat \ {0} /\ n2[i] = IF i \in X THEN j + 1 ELSE nx[i]
  BY <1>2 DEF GrowStep, GrowCounts
<1>4. i \in X => j \in 1..Size(i) /\ nx[i] <= j /\ i \in OnStack
  BY DEF GrowStep, GrowPlace
<1> QED
  BY <1>1, <1>2, <1>3, <1>4

LEMMA GrowEnds ==
    ASSUME NEW y, NEW cnt, NEW nx, NEW X, NEW j, NEW o, NEW c2, NEW n2,
           Counted(cnt, nx), GrowStep(y, cnt, nx, X, j, o, c2, n2)
    PROVE  /\ End(c2, y)' = y
           /\ \A i \in DOMAIN objs :
                 /\ i \in OnStack => End(c2, i)' = y /\ End(cnt, i) = y - 1
                 /\ i \notin OnStack => End(c2, i)' = End(cnt, i)
<1>1. End(c2, y)' = y
  <2>1. Size(y)' + 1 \in Nat
    BY DEF GrowStep, GrowRows
  <2>2. \A k \in Nat : c2[y][k] = y
    BY DEF GrowStep, GrowCounts
  <2> QED
    BY <2>1, <2>2 DEF End
<1>2. ASSUME NEW i \in DOMAIN objs
      PROVE  /\ i \in OnStack => End(c2, i)' = y /\ End(cnt, i) = y - 1
             /\ i \notin OnStack => End(c2, i)' = End(cnt, i)
  <2>1. Size(i) + 1 \in Nat /\ n2[i] <= Size(i) + 1 /\ nx[i] <= Size(i) + 1
    BY GrowNext
  <2>2. Size(i)' = Size(i)
    BY DEF GrowStep, GrowRows
  <2>3. End(c2, i)' = c2[i][Size(i) + 1] /\ End(cnt, i) = cnt[i][Size(i) + 1]
    BY <2>2 DEF End
  <2>4. i \in OnStack => c2[i][Size(i) + 1] = y /\ cnt[i][Size(i) + 1] = y - 1
    BY <2>1 DEF GrowStep, GrowCounts, GrowPlace
  <2>5. i \notin OnStack => c2[i][Size(i) + 1] = cnt[i][Size(i) + 1]
    BY <2>1 DEF GrowStep, GrowCounts
  <2> QED
    BY <2>3, <2>4, <2>5
<1> QED
  BY <1>1, <1>2

(* The fields that were set before keep their counts, those of the calls   *)
(* under way count the new object after them.                              *)
LEMMA GrowOld ==
    ASSUME NEW y, NEW cnt, NEW nx, NEW X, NEW j, NEW o, NEW c2, NEW n2,
           Counted(cnt, nx), GrowStep(y, cnt, nx, X, j, o, c2, n2),
           NEW i \in DOMAIN objs, NEW k \in 1..(nx[i] - 1)
    PROVE  /\ k \in 1..Size(i) /\ k \in Nat /\ k + 1 \in Nat
           /\ c2[i][k] = cnt[i][k]
           /\ \/ c2[i][k + 1] = cnt[i][k + 1] /\ ~(i \in OnStack \ X /\ k + 1 = nx[i])
              \/ i \in OnStack \ X /\ k + 1 = nx[i] /\ c2[i][k + 1] = y
<1>1. /\ nx[i] \in Nat \ {0} /\ n2[i] \in Nat \ {0} /\ Size(i) \in Nat
      /\ nx[i] <= n2[i] /\ n2[i] <= Size(i) + 1
      /\ i \in X => n2[i] = j + 1 /\ j \in Nat /\ i \in OnStack
      /\ i \notin X => n2[i] = nx[i]
  BY GrowNext
<1>2. \A m \in Nat : /\ i \notin OnStack \/ m < n2[i] => c2[i][m] = cnt[i][m]
                     /\ i \in OnStack /\ m >= n2[i] => c2[i][m] = y
  BY DEF GrowStep, GrowCounts
<1>3. k \in Nat /\ k + 1 \in Nat /\ k < nx[i] /\ k + 1 <= nx[i]
  BY <1>1
<1>4. i \in X => nx[i] <= j
  BY DEF GrowStep, GrowPlace
<1>5. c2[i][k] = cnt[i][k]
  BY <1>1, <1>2, <1>3
<1>6. CASE i \in OnStack \ X /\ k + 1 = nx[i]
  BY <1>1, <1>2, <1>3, <1>5, <1>6
<1>7. CASE ~(i \in OnStack \ X /\ k + 1 = nx[i])
  <2>1. i \notin OnStack \/ k + 1 < n2[i]
    BY <1>1, <1>3, <1>4, <1>7
  <2> QED
    BY <1>1, <1>2, <1>3, <1>5, <1>7, <2>1
<1> QED
  BY <1>6, <1>7

LEMMA GrowCounted ==
    ASSUME NEW y, NEW cnt, NEW nx, NEW X, NEW j, NEW o, NEW c2, NEW n2,
           Counted(cnt, nx), GrowStep(y, cnt, nx, X, j, o, c2, n2)
    PROVE  Counted(c2, n2)'
<1>1. /\ DOMAIN objs' = 1..y /\ y \in Nat
      /\ \A i \in 1..y : i = y \/ i \in DOMAIN objs
      /\ Size(y)' \in Nat
      /\ \A i \in DOMAIN objs :
            /\ Size(i)' = Size(i)
            /\ \A k : PathAt(i, k)' = PathAt(i, k) /\ TargetAt(i, k)' = TargetAt(i, k)
  BY DEF GrowStep, GrowRows
<1>2. /\ c2 \in [DOMAIN objs' -> [Nat -> Nat]]
      /\ n2 \in [DOMAIN objs' -> Nat \ {0}]
      /\ n2[y] = 1 /\ \A k \in Nat : c2[y][k] = y
  BY <1>1 DEF GrowStep, GrowCounts
<1>3. DOMAIN heap'[y] = {}
  BY DEF GrowStep, GrowFields
<1>4. ASSUME NEW i \in DOMAIN objs'
      PROVE  /\ n2[i] <= Size(i)' + 1 /\ c2[i][1] = i
             /\ \A p \in DOMAIN heap'[i] : \E k \in 1..(n2[i] - 1) : p = PathAt(i, k)'
             /\ \A k \in 1..(n2[i] - 1) : TargetAt(i, k)' = "location" => IsSet(i, k)'
  <2>1. CASE i = y
    <3>1. n2[i] = 1 /\ \A k \in 1..(n2[i] - 1) : FALSE
      BY <1>2, <2>1
    <3>2. 1 <= Size(i)' + 1 /\ c2[i][1] = i
      BY <1>1, <1>2, <2>1
    <3>3. \A p \in DOMAIN heap'[i] : FALSE
      BY <1>3, <2>1
    <3> QED
      BY <3>1, <3>2, <3>3
  <2>2. CASE i \in DOMAIN objs
    <3>1. /\ nx[i] \in Nat \ {0} /\ n2[i] \in Nat \ {0} /\ Size(i) \in Nat
          /\ nx[i] <= n2[i] /\ n2[i] <= Size(i) + 1
          /\ i \in X => n2[i] = j + 1 /\ j \in Nat
          /\ i \notin X => n2[i] = nx[i]
      BY <2>2, GrowNext
    <3>2. /\ cnt[i][1] = i
          /\ \A p \in DOMAIN heap[i] : \E k \in 1..(nx[i] - 1) : p = PathAt(i, k)
          /\ \A k \in 1..(nx[i] - 1) : TargetAt(i, k) = "location" => IsSet(i, k)
      BY <2>2 DEF Counted
    <3>3. i \in OnStack /\ i \notin X => nx[i] > 1
      BY DEF GrowStep, GrowPlace
    <3>4. /\ \A k \in 1..Size(i) : IsSet(i, k)' <=> IsSet(i, k) \/ (i \in X /\ k = j)
          /\ \A p \in DOMAIN heap'[i] :
                p \in DOMAIN heap[i] \/ (i \in X /\ p = PathAt(i, j))
      BY <2>2 DEF GrowStep, GrowFields
    <3>5. i \in X => /\ nx[i] <= j /\ j \in 1..Size(i)
                     /\ \A k \in nx[i]..(j - 1) : TargetAt(i, k) # "location"
      BY DEF GrowStep, GrowPlace
    <3>6. c2[i][1] = i
      <4>1. i \notin OnStack \/ 1 < n2[i]
        BY <3>1, <3>3, <3>5
      <4>2. c2[i][1] = cnt[i][1]
        BY <2>2, <4>1 DEF GrowStep, GrowCounts
      <4> QED
        BY <3>2, <4>2
    <3>7. ASSUME NEW p \in DOMAIN heap'[i]
          PROVE  \E k \in 1..(n2[i] - 1) : p = PathAt(i, k)'
      <4>1. CASE p \in DOMAIN heap[i]
        <5>1. PICK k \in 1..(nx[i] - 1) : p = PathAt(i, k)
          BY <3>2, <4>1
        <5>2. k \in 1..(n2[i] - 1)
          BY <3>1, <5>1
        <5> QED
          BY <1>1, <2>2, <5>1, <5>2
      <4>2. CASE i \in X /\ p = PathAt(i, j)
        <5>1. j \in 1..(n2[i] - 1)
          BY <3>1, <3>5, <4>2
        <5> QED
          BY <1>1, <2>2, <4>2, <5>1
      <4> QED
        BY <3>4, <4>1, <4>2
    <3>8. ASSUME NEW k \in 1..(n2[i] - 1), TargetAt(i, k)' = "location"
          PROVE  IsSet(i, k)'
      <4>1. TargetAt(i, k) = "location" /\ k \in 1..Size(i)
        BY <1>1, <2>2, <3>1, <3>8
      <4>2. k \in 1..(nx[i] - 1) \/ (i \in X /\ k \in nx[i]..(j - 1)) \/ (i \in X /\ k = j)
        BY <3>1, <3>5
      <4> QED
        BY <3>2, <3>4, <3>5, <4>1, <4>2
    <3> QED
      BY <1>1, <2>2, <3>1, <3>6, <3>7, <3>8
  <2> QED
    BY <1>1, <2>1, <2>2
<1> QED
  BY <1>2, <1>4 DEF Counted

LEMMA GrowOrdered ==
    ASSUME NEW y, NEW cnt, NEW nx, NEW X, NEW j, NEW o, NEW c2, NEW n2,
           Counted(cnt, nx), Ordered(cnt, nx), GrowStep(y, cnt, nx, X, j, o, c2, n2)
    PROVE  Ordered(c2, n2)'
<1>1. /\ DOMAIN objs' = 1..y /\ y \in Nat \ {0} /\ objs'[y] = o
      /\ \A i \in 1..y : i = y \/ i \in DOMAIN objs
      /\ \A i \in DOMAIN objs :
            /\ objs'[i] = objs[i] /\ i \in 1..y
            /\ \A k : PathAt(i, k)' = PathAt(i, k) /\ TargetAt(i, k)' = TargetAt(i, k)
  BY DEF GrowStep, GrowRows
<1>2. n2[y] = 1
  BY DEF GrowStep, GrowCounts
<1>3. ASSUME NEW i \in DOMAIN objs', NEW k \in 1..(n2[i] - 1), IsSet(i, k)'
      PROVE  OldField(c2, i, k)' \/ NewField(c2, i, k)'
  <2>1. i \in DOMAIN objs
    <3>1. CASE i = y
      BY <1>2, <1>3, <3>1
    <3> QED
      BY <1>1, <3>1
  <2>2. /\ nx[i] \in Nat \ {0} /\ n2[i] \in Nat \ {0} /\ Size(i) \in Nat
        /\ nx[i] <= n2[i] /\ n2[i] <= Size(i) + 1
        /\ i \in X => n2[i] = j + 1 /\ j \in Nat /\ i \in OnStack
        /\ i \notin X => n2[i] = nx[i]
    BY <2>1, GrowNext
  <2>3. \A m \in 1..Size(i) : /\ IsSet(i, m)' <=> IsSet(i, m) \/ (i \in X /\ m = j)
                              /\ IsSet(i, m) => LeadsTo(i, m)' = LeadsTo(i, m)
    BY <2>1 DEF GrowStep, GrowFields
  <2>4. /\ PathAt(i, k)' = PathAt(i, k) /\ TargetAt(i, k)' = TargetAt(i, k)
        /\ k \in 1..Size(i)
    BY <1>1, <2>1, <2>2
  <2>5. CASE i \in X /\ k = j
    <3>1. /\ nx[i] <= j /\ ~o.gvar /\ i \in OnStack
          /\ o.kind \in IF TargetAt(i, j) = "location" THEN {"location"}
                        ELSE Pointees(TargetAt(i, j))
      BY <2>2, <2>5 DEF GrowStep, GrowPlace
    <3>2. LeadsTo(i, k)' = y
      BY <2>5 DEF GrowStep, GrowFields
    <3>3. c2[i][k] = cnt[i][k] /\ c2[i][k + 1] = y
      <4>1. k \in Nat /\ k + 1 \in Nat /\ k < n2[i] /\ k + 1 >= n2[i]
        BY <2>2, <2>5
      <4>2. \A m \in Nat : /\ m < n2[i] => c2[i][m] = cnt[i][m]
                           /\ m >= n2[i] => c2[i][m] = y
        BY <2>1, <3>1 DEF GrowStep, GrowCounts
      <4> QED
        BY <4>1, <4>2
    <3>4. cnt[i][k] = y - 1
      BY <2>2, <2>5, <3>1 DEF GrowStep, GrowPlace
    <3>5. End(c2, y)' = y
      BY GrowEnds
    <3>6. /\ y \in DOMAIN objs' /\ y = c2[i][k] + 1 /\ ~objs'[y].gvar
          /\ objs'[y].kind \in IF TargetAt(i, k)' = "location" THEN {"location"}
                               ELSE Pointees(TargetAt(i, k)')
          /\ c2[i][k + 1] = End(c2, y)'
      BY <1>1, <2>4, <2>5, <3>1, <3>3, <3>4, <3>5
    <3> QED
      BY <3>2, <3>6 DEF NewField
  <2>6. CASE IsSet(i, k) /\ ~(i \in X /\ k = j)
    <3>1. k \in 1..(nx[i] - 1)
      <4>1. CASE i \in X
        <5>1. \A m \in nx[i]..Size(i) : ~IsSet(i, m)
          BY <4>1 DEF GrowStep, GrowPlace
        <5> QED
          BY <2>2, <2>4, <2>6, <5>1
      <4> QED
        BY <2>2, <4>1
    <3>0. PICK z : z = LeadsTo(i, k)
      OBVIOUS
    <3>2. LeadsTo(i, k) = z /\ LeadsTo(i, k)' = z
      BY <2>3, <2>4, <2>6, <3>0
    <3>3. /\ c2[i][k] = cnt[i][k]
          /\ \/ c2[i][k + 1] = cnt[i][k + 1] /\ ~(i \in OnStack \ X /\ k + 1 = nx[i])
             \/ i \in OnStack \ X /\ k + 1 = nx[i] /\ c2[i][k + 1] = y
      BY <2>1, <3>1, GrowOld
    <3>4. i \in OnStack \ X /\ k + 1 = nx[i] => z = cnt[i][k] + 1 /\ z \in OnStack
      <4>1. k = nx[i] - 1 <=> k + 1 = nx[i]
        BY <2>2, <3>1
      <4> QED
        BY <3>2, <4>1 DEF GrowStep, GrowPlace
    <3>5. cnt[i][k] \in Nat
      BY <2>1, <3>1 DEF Counted
    <3>6. CASE OldField(cnt, i, k)
      <4>1. /\ z \in DOMAIN objs /\ z <= cnt[i][k]
            /\ TargetAt(i, k) # "location"
            /\ objs[z].kind \in Pointees(TargetAt(i, k))
            /\ cnt[i][k + 1] = cnt[i][k]
        BY <3>2, <3>6 DEF OldField
      <4>2. ~(i \in OnStack \ X /\ k + 1 = nx[i])
        BY <3>4, <3>5, <4>1
      <4>3. /\ z \in DOMAIN objs' /\ z <= c2[i][k]
            /\ TargetAt(i, k)' # "location"
            /\ objs'[z].kind \in Pointees(TargetAt(i, k)')
            /\ c2[i][k + 1] = c2[i][k]
        BY <1>1, <2>4, <3>3, <4>1, <4>2
      <4> QED
        BY <3>2, <4>3 DEF OldField
    <3>7. CASE NewField(cnt, i, k)
      <4>1. /\ z \in DOMAIN objs /\ z = cnt[i][k] + 1 /\ ~objs[z].gvar
            /\ objs[z].kind \in IF TargetAt(i, k) = "location" THEN {"location"}
                                ELSE Pointees(TargetAt(i, k))
            /\ cnt[i][k + 1] = End(cnt, z)
        BY <3>2, <3>7 DEF NewField
      <4>2. c2[i][k + 1] = End(c2, z)'
        <5>1. /\ z \in OnStack => End(c2, z)' = y
              /\ z \notin OnStack => End(c2, z)' = End(cnt, z)
          BY <4>1, GrowEnds
        <5>2. CASE z \in OnStack
          <6>1. i \in OnStack \ X /\ nx[i] = k + 1
            BY <2>1, <2>6, <3>1, <3>2, <4>1, <5>2 DEF GrowStep, GrowPlace
          <6> QED
            BY <3>3, <5>1, <5>2, <6>1
        <5>3. CASE z \notin OnStack
          BY <3>3, <3>4, <4>1, <5>1, <5>3
        <5> QED
          BY <5>2, <5>3
      <4>3. /\ z \in DOMAIN objs' /\ z = c2[i][k] + 1 /\ ~objs'[z].gvar
            /\ objs'[z].kind \in IF TargetAt(i, k)' = "location" THEN {"location"}
                                 ELSE Pointees(TargetAt(i, k)')
        BY <1>1, <2>4, <3>3, <4>1
      <4> QED
        BY <3>2, <4>2, <4>3 DEF NewField
    <3> QED
      BY <2>1, <2>6, <3>1, <3>6, <3>7 DEF Ordered
  <2> QED
    BY <1>3, <2>3, <2>4, <2>5, <2>6
<1> QED
  BY <1>3 DEF Ordered

LEMMA GrowRuns ==
    ASSUME NEW y, NEW cnt, NEW nx, NEW X, NEW j, NEW o, NEW c2, NEW n2,
           Counted(cnt, nx), Runs(cnt), GrowStep(y, cnt, nx, X, j, o, c2, n2)
    PROVE  Runs(c2)'
<1>1. /\ DOMAIN objs' = 1..y /\ y \in Nat \ {0}
      /\ \A i \in 1..y : i = y \/ i \in DOMAIN objs
      /\ Size(y)' \in Nat /\ \A i \in DOMAIN objs : Size(i)' = Size(i)
  BY DEF GrowStep, GrowRows
<1>2. ASSUME NEW i \in DOMAIN objs',
             NEW a \in 1..(Size(i)' + 1), NEW b \in 1..(Size(i)' + 1), a <= b,
             \A k \in a..(b - 1) : ~IsSet(i, k)'
      PROVE  c2[i][a] = c2[i][b]
  <2>1. CASE i = y
    <3>1. a \in Nat /\ b \in Nat
      BY <1>1, <2>1
    <3> QED
      BY <2>1, <3>1 DEF GrowStep, GrowCounts
  <2>2. CASE i \in DOMAIN objs
    <3>1. /\ nx[i] \in Nat \ {0} /\ n2[i] \in Nat \ {0} /\ Size(i) \in Nat
          /\ nx[i] <= n2[i] /\ n2[i] <= Size(i) + 1
          /\ i \in X => n2[i] = j + 1 /\ j \in Nat
          /\ i \notin X => n2[i] = nx[i]
      BY <2>2, GrowNext
    <3>2. /\ a \in 1..(Size(i) + 1) /\ b \in 1..(Size(i) + 1)
          /\ a \in Nat /\ b \in Nat
      BY <1>1, <2>2, <3>1
    <3>3. \A k \in 1..Size(i) : IsSet(i, k)' <=> IsSet(i, k) \/ (i \in X /\ k = j)
      BY <2>2 DEF GrowStep, GrowFields
    <3>4. \A k \in a..(b - 1) : k \in 1..Size(i) /\ ~IsSet(i, k) /\ ~(i \in X /\ k = j)
      BY <1>2, <3>1, <3>2, <3>3
    <3>5. cnt[i][a] = cnt[i][b]
      BY <1>2, <2>2, <3>2, <3>4 DEF Runs
    <3>6. \A k \in Nat : /\ i \notin OnStack \/ k < n2[i] => c2[i][k] = cnt[i][k]
                         /\ i \in OnStack /\ k >= n2[i] => c2[i][k] = y
      BY <2>2 DEF GrowStep, GrowCounts
    <3>7. CASE i \notin OnStack
      BY <3>2, <3>5, <3>6, <3>7
    <3>8. CASE i \in OnStack /\ (b < n2[i] \/ a >= n2[i])
      BY <1>2, <3>1, <3>2, <3>5, <3>6, <3>8
    <3>9. CASE i \in OnStack /\ a < n2[i] /\ b >= n2[i]
      <4>1. n2[i] - 1 \in a..(b - 1)
        BY <3>1, <3>2, <3>9
      <4>2. i \notin X
        BY <3>1, <3>4, <4>1
      <4>3. IsSet(i, n2[i] - 1)
        BY <3>1, <3>9, <4>2 DEF GrowStep, GrowPlace
      <4> QED
        BY <3>4, <4>1, <4>3
    <3> QED
      BY <3>1, <3>2, <3>7, <3>8, <3>9
  <2> QED
    BY <1>1, <2>1, <2>2
<1> QED
  BY <1>2 DEF Runs

LEMMA GrowLabels ==
    ASSUME Labels, NEW y, NEW o, GrowRows(y, o),
           o.kind # None => o.fake = y,
           o.kind = None => o.gvar /\ o.fake \in {Null} \cup Records,
           o.gvar => o.kind \in {None} \cup Pointees("tree")
    PROVE  Labels' /\ Tops' = Tops \cup (IF o.gvar THEN {y} ELSE {})
<1>1. /\ DOMAIN objs' = 1..y /\ objs'[y] = o /\ ObjCnt \in Nat \ {0}
      /\ y = ObjCnt + 1 /\ DOMAIN objs = 1..ObjCnt
      /\ \A i \in DOMAIN objs : objs'[i] = objs[i]
  BY DEF GrowRows
<1>2. /\ \A i \in DOMAIN objs' : i = y \/ i \in DOMAIN objs
      /\ \A i \in DOMAIN objs : i \in DOMAIN objs' /\ i # y
      /\ y \in DOMAIN objs' /\ 1 \in DOMAIN objs /\ 1 # y
  BY <1>1
<1>3. Records \subseteq Records'
  BY <1>1, <1>2 DEF Records
<1>4. ~objs'[1].gvar
  BY <1>1, <1>2 DEF Labels
<1>5. ASSUME NEW i \in DOMAIN objs'
      PROVE  /\ objs'[i].kind # None => objs'[i].fake = i
             /\ objs'[i].kind = None =>
                   objs'[i].gvar /\ objs'[i].fake \in {Null} \cup Records'
             /\ objs'[i].gvar => objs'[i].kind \in {None} \cup Pointees("tree")
  BY <1>1, <1>2, <1>3 DEF Labels
<1>6. Labels'
  BY <1>4, <1>5 DEF Labels
<1>7. Tops' = Tops \cup (IF o.gvar THEN {y} ELSE {})
  BY <1>1, <1>2 DEF Tops
<1> QED
  BY <1>6, <1>7

LEMMA NextFacts ==
    ASSUME Typed, NEW cnt, NEW nx, Counted(cnt, nx), NEW i \in DOMAIN objs
    PROVE  /\ Size(i) \in Nat /\ nx[i] \in Nat \ {0} /\ nx[i] <= Size(i) + 1
           /\ \A k \in Nat : cnt[i][k] \in Nat
<1>1. Size(i) \in Nat
  BY SizeFacts
<1>2. /\ cnt \in [DOMAIN objs -> [Nat -> Nat]] /\ nx \in [DOMAIN objs -> Nat \ {0}]
      /\ nx[i] <= Size(i) + 1
  BY Zenon DEF Counted
<1> QED
  BY <1>1, <1>2

(* The fields the plugin has still to visit are not set.                   *)
LEMMA LaterUnset ==
    ASSUME WalksAgree, Typed, NEW cnt, NEW nx, Counted(cnt, nx),
           NEW i \in DOMAIN objs, NEW k \in nx[i]..Size(i)
    PROVE  k \in 1..Size(i) /\ ~IsSet(i, k)
<1>1. nx[i] \in Nat \ {0} /\ nx[i] <= Size(i) + 1 /\ Size(i) \in Nat
  BY SizeFacts DEF Counted
<1>2. \A p \in DOMAIN heap[i] : \E m \in 1..(nx[i] - 1) : p = PathAt(i, m)
  BY DEF Counted
<1>3. k \in 1..Size(i)
  BY <1>1
<1>4. ASSUME IsSet(i, k) PROVE FALSE
  <2>1. PICK m \in 1..(nx[i] - 1) : PathAt(i, k) = PathAt(i, m)
    BY <1>2, <1>4 DEF IsSet
  <2>2. m \in 1..Size(i)
    BY <1>1, <2>1
  <2>3. k = m
    BY <1>3, <2>1, <2>2, PathFacts
  <2> QED
    BY <1>1, <2>1, <2>3
<1> QED
  BY <1>3, <1>4

(* A field of the record on top is set, and no other.                      *)
LEMMA SetAt ==
    ASSUME WalksAgree, Typed, NEW i \in DOMAIN objs, NEW j \in 1..Size(i),
           ~IsSet(i, j), NEW v, objs'[i] = objs[i],
           heap'[i] = With(heap[i], PathAt(i, j), v)
    PROVE  /\ \A k \in 1..Size(i) :
                 /\ IsSet(i, k)' <=> IsSet(i, k) \/ k = j
                 /\ IsSet(i, k) => LeadsTo(i, k)' = LeadsTo(i, k)
           /\ LeadsTo(i, j)' = v
           /\ \A p \in DOMAIN heap'[i] : p \in DOMAIN heap[i] \/ p = PathAt(i, j)
<1>1. \A k : PathAt(i, k)' = PathAt(i, k)
  BY OldRows
<1>2. DOMAIN heap'[i] = DOMAIN heap[i] \cup {PathAt(i, j)}
  BY DEF With
<1>3. \A p \in DOMAIN heap'[i] : heap'[i][p] = IF p = PathAt(i, j) THEN v ELSE heap[i][p]
  BY <1>2 DEF With
<1>4. ASSUME NEW k \in 1..Size(i)
      PROVE  /\ IsSet(i, k)' <=> IsSet(i, k) \/ k = j
             /\ IsSet(i, k) => LeadsTo(i, k)' = LeadsTo(i, k)
  <2>1. PathAt(i, k) = PathAt(i, j) <=> k = j
    BY PathFacts
  <2>2. IsSet(i, k)' <=> IsSet(i, k) \/ k = j
    BY <1>1, <1>2, <2>1 DEF IsSet
  <2>3. IsSet(i, k) => LeadsTo(i, k)' = LeadsTo(i, k)
    BY <1>1, <1>2, <1>3, <2>1 DEF IsSet, LeadsTo
  <2> QED
    BY <2>2, <2>3
<1>5. LeadsTo(i, j)' = v
  BY <1>1, <1>2, <1>3 DEF LeadsTo
<1> QED
  BY <1>2, <1>4, <1>5

(* A call that is not the one on top is on the field that led to the call  *)
(* above it.                                                               *)
LEMMA BelowTop ==
    ASSUME Typed, stack # <<>>, NEW cnt, NEW nx, Calls(cnt, nx),
           NEW i \in OnStack \ {Top.at}
    PROVE  \E c \in 2..Len(stack) :
              /\ stack[c].at = i /\ stack[c].next = nx[i] /\ c - 1 \in 1..Len(stack)
              /\ nx[i] > 1 /\ IsSet(i, nx[i] - 1)
              /\ LeadsTo(i, nx[i] - 1) = stack[c - 1].at
              /\ LeadsTo(i, nx[i] - 1) = cnt[i][nx[i] - 1] + 1
              /\ LeadsTo(i, nx[i] - 1) \in OnStack
<1>1. PICK c \in 1..Len(stack) : stack[c].at = i
  BY DEF OnStack
<1>2. c \in 2..Len(stack) /\ c - 1 \in 1..Len(stack)
  BY <1>1, TopFacts
<1>3. /\ stack[c].next = nx[i]
      /\ stack[c].next > 1 /\ IsSet(stack[c].at, stack[c].next - 1)
      /\ LeadsTo(stack[c].at, stack[c].next - 1) = stack[c - 1].at
      /\ stack[c - 1].at = cnt[stack[c].at][stack[c].next - 1] + 1
  BY <1>1, <1>2 DEF Calls
<1>4. stack[c - 1].at \in OnStack
  BY <1>2 DEF OnStack
<1> QED
  BY <1>1, <1>2, <1>3, <1>4

LEMMA OnTable == ASSUME Typed PROVE OnStack \subseteq DOMAIN objs
  BY AtFacts DEF OnStack

LEMMA SavePlace ==
    ASSUME WalksAgree, WalkInv, phase = "collect", stack # <<>>, NEW j \in Reached,
           NEW cnt, NEW nx, Counted(cnt, nx), Collecting(cnt, nx),
           NEW y, y = ObjCnt + 1, NEW o, ~o.gvar,
           o.kind \in IF TargetAt(Top.at, j) = "location" THEN {"location"}
                      ELSE Pointees(TargetAt(Top.at, j))
    PROVE  GrowPlace(y, cnt, nx, {Top.at}, j, o)
<1>1. Typed /\ Calls(cnt, nx) /\ ObjCnt \in Nat /\ y - 1 = ObjCnt
  BY TableFacts DEF WalkInv, Collecting
<1>2. Top.at \in OnStack /\ Top.at \in DOMAIN objs /\ OnStack \subseteq DOMAIN objs
  BY <1>1, TopWalk, OnTable
<1>3. /\ j \in 1..Size(Top.at) /\ nx[Top.at] <= j
      /\ \A k \in nx[Top.at]..(j - 1) : TargetAt(Top.at, k) # "location"
  <2>1. /\ j \in 1..Size(Top.at) /\ j >= nx[Top.at]
        /\ \A k \in nx[Top.at]..(j - 1) : TargetAt(Top.at, k) # "location"
    BY <1>1, ReachWalk
  <2>2. nx[Top.at] \in Nat /\ Size(Top.at) \in Nat
    BY <1>1, <1>2, SizeFacts DEF Counted
  <2> QED
    BY <2>1, <2>2
<1>4. \A k \in nx[Top.at]..Size(Top.at) : ~IsSet(Top.at, k)
  BY <1>1, <1>2, LaterUnset
<1>5. \A i \in OnStack : \A k \in Nat : k >= nx[i] => cnt[i][k] = y - 1
  BY <1>1 DEF Collecting
<1>6. \A i \in OnStack \ {Top.at} :
         /\ nx[i] > 1 /\ IsSet(i, nx[i] - 1)
         /\ LeadsTo(i, nx[i] - 1) = cnt[i][nx[i] - 1] + 1
         /\ LeadsTo(i, nx[i] - 1) \in OnStack
  BY <1>1, BelowTop
<1>7. ASSUME NEW i \in DOMAIN objs, NEW k \in 1..(nx[i] - 1), IsSet(i, k),
             LeadsTo(i, k) = cnt[i][k] + 1, LeadsTo(i, k) \in OnStack
      PROVE  i \in OnStack \ {Top.at} /\ nx[i] = k + 1
  <2>1. PICK c \in 2..Len(stack) : stack[c].at = i /\ stack[c].next = k + 1
    BY <1>7 DEF Collecting
  <2>2. c \in 1..Len(stack) /\ 1 \in 1..Len(stack) /\ c # 1 /\ Top = stack[1]
    BY <1>1, <2>1, TopFacts
  <2>3. stack[c].at # stack[1].at
    BY <1>1, <2>2 DEF Typed, NoReentry
  <2>4. stack[c].next = nx[stack[c].at]
    BY <1>1, <2>2 DEF Calls
  <2> QED
    BY <2>1, <2>2, <2>3, <2>4 DEF OnStack
<1> QED
  BY <1>2, <1>3, <1>4, <1>5, <1>6, <1>7 DEF GrowPlace

LEMMA SaveGrows ==
    ASSUME WalksAgree, WalkInv, phase = "collect", stack # <<>>, NEW j \in Reached,
           NEW cnt, NEW nx, Counted(cnt, nx), Collecting(cnt, nx),
           NEW x, x = Top.at, NEW y, y = ObjCnt + 1, NEW o \in ObjectType, ~o.gvar,
           o.kind \in IF TargetAt(x, j) = "location" THEN {"location"}
                      ELSE Pointees(TargetAt(x, j)),
           NEW rec, Saved(j, o, rec),
           NEW n2, n2 = NextFields(y, nx, {x}, j),
           NEW c2, c2 = NextCounts(y, cnt, n2)
    PROVE  GrowStep(y, cnt, nx, {x}, j, o, c2, n2) /\ Entered(rec, y, j + 1)
<1>1. /\ Typed /\ ObjCnt \in Nat /\ x \in DOMAIN objs /\ DOMAIN heap = DOMAIN objs
      /\ OnStack \subseteq DOMAIN objs
  BY TableFacts, TopFacts, OnTable DEF WalkInv
<1>2. /\ Collects[Top.rec][j][1] = PathAt(x, j)
      /\ j \in 1..Size(x) /\ j >= nx[x] /\ Size(x) \in Nat
  BY <1>1, ReachWalk, SizeFacts DEF Collecting
<1>3. PICK h : h = SetField(x, PathAt(x, j), y)
  OBVIOUS
<1>4. Grown(o, h) /\ Entered(rec, y, j + 1)
  BY <1>2, <1>3, SavedFacts
<1>5. /\ h[x] = With(heap[x], PathAt(x, j), y)
      /\ \A k \in DOMAIN objs \ {x} : h[k] = heap[k]
  <2>1. PathAt(x, j) \in Path /\ y \in Nat
    BY <1>1, <1>2, SizeFacts
  <2> QED
    BY <1>1, <1>3, <2>1, FieldFacts
<1>6. /\ \A i \in DOMAIN objs : objs'[i] = objs[i] /\ heap'[i] = h[i]
      /\ heap'[y] = <<>>
  BY <1>4 DEF Grown
<1>7. ~IsSet(x, j)
  <2>1. j \in nx[x]..Size(x)
    BY <1>1, <1>2 DEF Counted
  <2> QED
    BY <1>1, <2>1, LaterUnset
<1>8. /\ \A k \in 1..Size(x) :
            /\ IsSet(x, k)' <=> IsSet(x, k) \/ k = j
            /\ IsSet(x, k) => LeadsTo(x, k)' = LeadsTo(x, k)
      /\ LeadsTo(x, j)' = y
      /\ \A p \in DOMAIN heap'[x] : p \in DOMAIN heap[x] \/ p = PathAt(x, j)
  BY <1>1, <1>2, <1>5, <1>6, <1>7, SetAt
<1>9. ASSUME NEW i \in DOMAIN objs, i # x
      PROVE  /\ \A k : IsSet(i, k)' = IsSet(i, k) /\ LeadsTo(i, k)' = LeadsTo(i, k)
             /\ heap'[i] = heap[i]
  <2>1. heap'[i] = heap[i] /\ objs'[i] = objs[i]
    BY <1>5, <1>6, <1>9
  <2> QED
    BY <2>1, OldRows
<1>10. GrowFields(y, {x}, j)
  BY <1>6, <1>8, <1>9 DEF GrowFields
<1>11. GrowRows(y, o)
  BY <1>4, RowsGrow
<1>12. GrowCounts(y, cnt, nx, {x}, j, c2, n2)
  <2>1. {x} \in SUBSET DOMAIN objs /\ j \in Nat
    BY <1>1, <1>2
  <2>2. PICK X : X = {x}
    OBVIOUS
  <2> QED
    BY <1>1, <2>1, <2>2, CountsGrow
<1>13. GrowPlace(y, cnt, nx, {x}, j, o)
  BY SavePlace
<1> QED
  BY <1>4, <1>10, <1>11, <1>12, <1>13 DEF GrowStep

(* Only the last of them has a call: the others end before it starts.      *)
LEMMA BottomLast ==
    ASSUME Typed, stack # <<>>, NEW cnt, NEW nx, Counted(cnt, nx), InRow(cnt),
           Collecting(cnt, nx), NEW b, b = stack[Len(stack)].at
    PROVE  /\ b \in Tops /\ b \in OnStack /\ b \in DOMAIN objs
           /\ \A t \in Tops : t <= b
           /\ \A t \in Tops : t # b => t \notin OnStack /\ End(cnt, t) + 1 \in Tops
<1>1. /\ Len(stack) \in Nat \ {0} /\ Len(stack) \in 1..Len(stack)
      /\ ObjCnt \in Nat /\ DOMAIN objs = 1..ObjCnt
  BY TopFacts, TableFacts
<1>2. b \in Tops /\ b \in OnStack /\ b \in DOMAIN objs /\ \A t \in Tops : t <= b
  BY <1>1 DEF Collecting, OnStack, Tops
<1>3. \A i \in OnStack : i \in DOMAIN objs => End(cnt, i) = ObjCnt
  <2> TAKE i \in OnStack
  <2> HAVE i \in DOMAIN objs
  <2>1. Size(i) + 1 \in Nat /\ Size(i) + 1 >= nx[i]
    <3>1. Size(i) \in Nat
      BY SizeFacts
    <3>2. nx[i] \in Nat /\ nx[i] <= Size(i) + 1
      BY DEF Counted
    <3> QED
      BY <3>1, <3>2
  <2> QED
    BY <2>1 DEF Collecting, End
<1>4. ASSUME NEW t \in Tops, t # b
      PROVE  t \notin OnStack /\ End(cnt, t) + 1 \in Tops
  <2>1. t \in DOMAIN objs /\ b > t
    BY <1>1, <1>2, <1>4 DEF Tops
  <2>2. b > End(cnt, t) /\ (End(cnt, t) = ObjCnt \/ End(cnt, t) + 1 \in Tops)
    BY <1>2, <2>1 DEF InRow
  <2>3. End(cnt, t) # ObjCnt
    BY <1>1, <1>2, <2>2
  <2> QED
    BY <1>3, <2>1, <2>2, <2>3
<1> QED
  BY <1>2, <1>4

LEMMA SaveRow ==
    ASSUME Typed, stack # <<>>, NEW cnt, NEW nx, Counted(cnt, nx), InRow(cnt),
           Collecting(cnt, nx), NEW y, NEW X, NEW j, NEW o, NEW c2, NEW n2,
           GrowStep(y, cnt, nx, X, j, o, c2, n2), Tops' = Tops
    PROVE  InRow(c2)'
<1>1. PICK b : b = stack[Len(stack)].at
  OBVIOUS
<1>2. /\ b \in Tops /\ b \in OnStack /\ b \in DOMAIN objs
      /\ \A t \in Tops : t <= b
      /\ \A t \in Tops : t # b => t \notin OnStack /\ End(cnt, t) + 1 \in Tops
  BY <1>1, BottomLast
<1>3. /\ ObjCnt' = y /\ y \in Nat /\ \A i \in DOMAIN objs : i \in Nat /\ i < y
  BY DEF GrowStep, GrowRows
<1>4. \A t \in Tops : t \in DOMAIN objs
  BY DEF Tops
<1>5. ASSUME NEW t \in Tops
      PROVE  /\ \A s \in Tops : s > t => s > End(c2, t)'
             /\ t <= End(c2, t)'
             /\ End(c2, t)' = y \/ End(c2, t)' + 1 \in Tops
  <2>1. CASE t = b
    <3>1. End(c2, t)' = y
      BY <1>2, <2>1, GrowEnds
    <3>2. t <= y /\ \A s \in Tops : ~(s > t)
      BY <1>2, <1>3, <1>4, <2>1
    <3> QED
      BY <3>1, <3>2
  <2>2. CASE t # b
    <3>1. End(c2, t)' = End(cnt, t) /\ End(cnt, t) + 1 \in Tops
      BY <1>2, <1>4, <2>2, GrowEnds
    <3> QED
      BY <3>1 DEF InRow
  <2> QED
    BY <2>1, <2>2
<1> QED
  BY <1>3, <1>5 DEF InRow

LEMMA SaveCalls ==
    ASSUME Typed, stack # <<>>, NEW cnt, NEW nx, Counted(cnt, nx),
           Collecting(cnt, nx), NEW x, x = Top.at,
           NEW y, NEW j, NEW o, NEW c2, NEW n2, NEW rec,
           GrowStep(y, cnt, nx, {x}, j, o, c2, n2), Entered(rec, y, j + 1),
           o.kind # None, rec = RecordOf(o.kind)
    PROVE  Calls(c2, n2)'
<1>1. /\ Len(stack) \in Nat \ {0} /\ Len(stack') = Len(stack) + 1
      /\ x = stack[1].at /\ x \in DOMAIN objs /\ x \in OnStack
  BY TopFacts, TopWalk DEF Entered, Collecting
<1>2. /\ stack'[1].rec = rec /\ stack'[1].at = y /\ stack'[1].next = 1
      /\ stack'[2].rec = stack[1].rec /\ stack'[2].at = x
      /\ stack'[2].next = j + 1
      /\ \A c \in 3..Len(stack') : stack'[c] = stack[c - 1]
  BY <1>1 DEF Entered
<1>3. /\ objs'[y] = o /\ \A i \in DOMAIN objs : objs'[i] = objs[i]
      /\ n2[y] = 1 /\ \A i \in DOMAIN objs : n2[i] = IF i = x THEN j + 1 ELSE nx[i]
      /\ y \in Nat
  BY DEF GrowStep, GrowRows, GrowCounts
<1>4. \A c \in 1..Len(stack) :
         /\ stack[c].at \in DOMAIN objs
         /\ objs[stack[c].at].kind # None
         /\ stack[c].rec = RecordOf(objs[stack[c].at].kind)
         /\ stack[c].next = nx[stack[c].at]
  BY AtFacts DEF Collecting, Calls
<1>5. \A c \in 2..Len(stack) : stack[c].at # x
  BY <1>1 DEF Typed, NoReentry
<1>6. ASSUME NEW c \in 1..Len(stack')
      PROVE  /\ objs'[stack'[c].at].kind # None
             /\ stack'[c].rec = RecordOf(objs'[stack'[c].at].kind)
             /\ stack'[c].next = n2[stack'[c].at]
  <2>1. CASE c = 1
    BY <1>2, <1>3, <2>1
  <2>2. CASE c = 2
    <3>1. 1 \in 1..Len(stack)
      BY <1>1
    <3> QED
      BY <1>1, <1>2, <1>3, <1>4, <2>2, <3>1
  <2>3. CASE c > 2
    <3>1. c \in 3..Len(stack') /\ c - 1 \in 1..Len(stack) /\ c - 1 \in 2..Len(stack)
      BY <1>1, <2>3
    <3> QED
      BY <1>2, <1>3, <1>4, <1>5, <3>1
  <2> QED
    BY <1>1, <2>1, <2>2, <2>3
<1>7. ASSUME NEW c \in 2..Len(stack')
      PROVE  /\ stack'[c].next > 1 /\ IsSet(stack[c].at, stack[c].next - 1)'
             /\ LeadsTo(stack[c].at, stack[c].next - 1)' = stack'[c - 1].at
             /\ stack'[c - 1].at = c2[stack'[c].at][stack'[c].next - 1] + 1
  <2>1. CASE c = 2
    <3>1. j \in Nat \ {0} /\ nx[x] <= j /\ j \in 1..Size(x) /\ nx[x] \in Nat
      <4>1. Size(x) \in Nat
        BY <1>1, SizeFacts
      <4>2. nx[x] \in Nat
        BY <1>1 DEF Counted
      <4>3. nx[x] <= j /\ j \in 1..Size(x)
        BY DEF GrowStep, GrowPlace
      <4> QED
        BY <4>1, <4>2, <4>3
    <3>2. stack'[c].at = x /\ stack'[c].next = j + 1 /\ stack'[c - 1].at = y
          /\ stack'[c].next - 1 = j
      BY <1>2, <2>1, <3>1
    <3>3. IsSet(x, j)' /\ LeadsTo(x, j)' = y
      BY <1>1, <3>1 DEF GrowStep, GrowFields
    <3>4. cnt[x][j] = y - 1
      BY <1>1, <3>1 DEF GrowStep, GrowPlace
    <3>5. c2[x][j] = cnt[x][j]
      <4>1. j \in Nat /\ j < n2[x]
        BY <1>1, <1>3, <3>1
      <4> QED
        BY <1>1, <4>1 DEF GrowStep, GrowCounts
    <3>6. stack'[c].next > 1 /\ y = c2[x][j] + 1
      BY <1>3, <3>1, <3>2, <3>4, <3>5
    <3> QED
      BY <3>2, <3>3, <3>6 DEF IsSet, LeadsTo, PathAt
  <2>2. CASE c > 2
    <3>1. /\ c \in 3..Len(stack') /\ c - 1 \in 1..Len(stack) /\ c - 1 \in 2..Len(stack)
      BY <1>1, <2>2
    <3>2. PICK i, k : i = stack[c - 1].at /\ k = stack[c - 1].next - 1
      OBVIOUS
    <3>3. /\ i \in DOMAIN objs /\ i # x /\ k = nx[i] - 1 /\ nx[i] > 1 /\ IsSet(i, k)
          /\ nx[i] \in Nat
          /\ LeadsTo(i, k) = stack[(c - 1) - 1].at
          /\ LeadsTo(i, k) = cnt[i][k] + 1
      <4>1. /\ stack[c - 1].next > 1 /\ IsSet(i, k)
            /\ LeadsTo(i, k) = stack[(c - 1) - 1].at
            /\ LeadsTo(i, k) = cnt[i][k] + 1
        BY <3>1, <3>2 DEF Collecting, Calls
      <4>2. i \in DOMAIN objs /\ i # x /\ stack[c - 1].next = nx[i] /\ nx[i] \in Nat
        BY <1>4, <1>5, <3>1, <3>2 DEF Counted
      <4> QED
        BY <3>2, <4>1, <4>2
    <3>4. k \in 1..(nx[i] - 1) /\ k \in Nat
      BY <3>3
    <3>5. k \in 1..Size(i) /\ c2[i][k] = cnt[i][k]
      BY <3>3, <3>4, GrowOld
    <3>6. IsSet(i, k)' /\ LeadsTo(i, k)' = LeadsTo(i, k)
      BY <3>3, <3>5 DEF GrowStep, GrowFields
    <3>7. stack'[c] = stack[c - 1] /\ stack'[c - 1].at = stack[(c - 1) - 1].at
      <4>1. stack'[c] = stack[c - 1]
        BY <1>2, <3>1
      <4>2. CASE c = 3
        BY <1>1, <1>2, <4>1, <4>2
      <4>3. CASE c # 3
        <5>1. c - 1 \in 3..Len(stack')
          BY <1>1, <2>2, <4>3
        <5> QED
          BY <1>2, <4>1, <5>1
      <4> QED
        BY <4>2, <4>3
    <3>8. /\ stack'[c].at = i /\ stack'[c].next = nx[i] /\ stack'[c].next - 1 = k
          /\ stack'[c - 1].at = LeadsTo(i, k)
      BY <1>4, <3>1, <3>2, <3>3, <3>7
    <3> QED
      BY <3>3, <3>5, <3>6, <3>8 DEF IsSet, LeadsTo, PathAt
  <2> QED
    BY <1>1, <2>1, <2>2
<1> QED
  BY <1>6, <1>7 DEF Calls

LEMMA SaveOn ==
    ASSUME Typed, stack # <<>>, NEW cnt, NEW nx, Counted(cnt, nx),
           Collecting(cnt, nx), NEW x, x = Top.at,
           NEW y, NEW j, NEW o, NEW c2, NEW n2, NEW rec,
           GrowStep(y, cnt, nx, {x}, j, o, c2, n2), Entered(rec, y, j + 1),
           o.kind # None, rec = RecordOf(o.kind), Ordered(cnt, nx),
           Tops' = Tops
    PROVE  Collecting(c2, n2)'
<1>1. /\ Len(stack) \in Nat \ {0} /\ Len(stack') = Len(stack) + 1
      /\ x = stack[1].at /\ x \in DOMAIN objs /\ x \in OnStack
      /\ OnStack \subseteq DOMAIN objs
  BY TopFacts, TopWalk, OnTable DEF Entered, Collecting
<1>2. /\ stack'[1].at = y /\ stack'[2].at = x /\ stack'[2].next = j + 1
      /\ \A c \in 3..Len(stack') : stack'[c] = stack[c - 1]
  BY <1>1 DEF Entered
<1>3. OnStack' = OnStack \cup {y}
  BY EnterSet
<1>4. /\ DOMAIN objs' = 1..y /\ ObjCnt' = y /\ y \in Nat
      /\ \A i \in 1..y : i = y \/ i \in DOMAIN objs
      /\ \A i \in DOMAIN objs : i # y /\ Size(i)' = Size(i) /\ i \in Nat /\ i < y
  BY DEF GrowStep, GrowRows
<1>5. /\ n2[y] = 1 /\ \A i \in DOMAIN objs : n2[i] = IF i = x THEN j + 1 ELSE nx[i]
      /\ \A k \in Nat : c2[y][k] = y
      /\ \A i \in OnStack : \A k \in Nat : k >= n2[i] => c2[i][k] = y
  BY DEF GrowStep, GrowCounts
<1>6. \A i \in DOMAIN objs' : i \notin OnStack' => n2[i] = Size(i)' + 1
  BY <1>1, <1>3, <1>4, <1>5 DEF Collecting
<1>7. \A i \in OnStack' : \A k \in Nat : k >= n2[i] => c2[i][k] = ObjCnt'
  BY <1>3, <1>4, <1>5
<1>8. ASSUME NEW i \in DOMAIN objs', NEW k \in 1..(n2[i] - 1), IsSet(i, k)',
             LeadsTo(i, k)' = c2[i][k] + 1, LeadsTo(i, k)' \in OnStack'
      PROVE  \E c \in 2..Len(stack') : /\ stack'[c].at = i /\ stack'[c].next = k + 1
                                       /\ stack'[c - 1].at = LeadsTo(i, k)'
  <2>1. i \in DOMAIN objs
    <3>1. CASE i = y
      BY <1>5, <1>8, <3>1
    <3> QED
      BY <1>4, <3>1
  <2>2. CASE i = x /\ k = j
    <3>1. LeadsTo(i, k)' = y
      BY <2>2 DEF GrowStep, GrowFields
    <3>2. 2 \in 2..Len(stack') /\ 2 - 1 = 1
      BY <1>1
    <3> QED
      BY <1>2, <2>2, <3>1, <3>2
  <2>3. CASE ~(i = x /\ k = j)
    <3>1. /\ nx[i] \in Nat \ {0} /\ Size(i) \in Nat /\ n2[i] \in Nat \ {0}
          /\ n2[i] <= Size(i) + 1
          /\ i = x => n2[i] = j + 1 /\ j \in Nat
          /\ i # x => n2[i] = nx[i]
      BY <2>1, GrowNext
    <3>2. k \in 1..Size(i)
      BY <3>1
    <3>3. IsSet(i, k) /\ LeadsTo(i, k)' = LeadsTo(i, k)
      BY <1>8, <2>1, <2>3, <3>2 DEF GrowStep, GrowFields
    <3>4. k \in 1..(nx[i] - 1)
      <4>1. CASE i = x
        <5>1. \A m \in nx[i]..Size(i) : ~IsSet(i, m)
          BY <4>1 DEF GrowStep, GrowPlace
        <5> QED
          BY <3>1, <3>2, <3>3, <5>1
      <4> QED
        BY <3>1, <4>1
    <3>5. LeadsTo(i, k) \in DOMAIN objs
      BY <2>1, <3>3, <3>4 DEF Ordered, OldField, NewField
    <3>6. c2[i][k] = cnt[i][k]
      BY <2>1, <3>4, GrowOld
    <3>7. LeadsTo(i, k) \in OnStack /\ LeadsTo(i, k) = cnt[i][k] + 1
      BY <1>3, <1>4, <1>8, <3>3, <3>5, <3>6
    <3>8. PICK c \in 2..Len(stack) : /\ stack[c].at = i /\ stack[c].next = k + 1
                                     /\ stack[c - 1].at = LeadsTo(i, k)
      BY <2>1, <3>3, <3>4, <3>7 DEF Collecting
    <3>9. /\ c + 1 \in 2..Len(stack') /\ stack'[c + 1] = stack[c]
          /\ stack'[(c + 1) - 1].at = stack[c - 1].at
      <4>1. c + 1 \in 3..Len(stack') /\ (c + 1) - 1 = c /\ c + 1 \in 2..Len(stack')
        BY <1>1
      <4>2. CASE c = 2
        BY <1>1, <1>2, <4>1, <4>2
      <4>3. CASE c # 2
        <5>1. c \in 3..Len(stack')
          BY <1>1, <4>3
        <5> QED
          BY <1>2, <4>1, <5>1
      <4> QED
        BY <4>2, <4>3
    <3> QED
      BY <3>3, <3>8, <3>9
  <2> QED
    BY <2>2, <2>3
<1>9. /\ stack'[Len(stack')].at \in Tops
      /\ \A t \in Tops : t <= stack'[Len(stack')].at
  <2>1. stack'[Len(stack')].at = stack[Len(stack)].at
    <3>1. CASE Len(stack) = 1
      BY <1>1, <1>2, <3>1
    <3>2. CASE Len(stack) # 1
      <4>1. Len(stack') \in 3..Len(stack') /\ Len(stack') - 1 = Len(stack)
        <5>1. PICK m, n : m = Len(stack) /\ n = Len(stack')
          OBVIOUS
        <5>2. m \in Nat \ {0} /\ n = m + 1 /\ m # 1
          BY <1>1, <3>2, <5>1
        <5>3. n \in 3..n /\ n - 1 = m
          BY <5>2
        <5> QED
          BY <5>1, <5>3
      <4> QED
        BY <1>2, <4>1
    <3> QED
      BY <3>1, <3>2
  <2> QED
    BY <2>1 DEF Collecting
<1>10. Calls(c2, n2)'
  BY SaveCalls
<1> QED
  BY <1>6, <1>7, <1>8, <1>9, <1>10 DEF Collecting

LEMMA SaveAgrees ==
    ASSUME WalksAgree, WalkInv, phase = "collect", stack # <<>>, NEW j \in Reached,
           NEW cnt, NEW nx, Shape(cnt, nx), Collecting(cnt, nx),
           NEW o \in ObjectType, ~o.gvar, o.fake = ObjCnt + 1, o.kind # None,
           o.kind \in IF TargetAt(Top.at, j) = "location" THEN {"location"}
                      ELSE Pointees(TargetAt(Top.at, j)),
           Saved(j, o, RecordOf(o.kind))
    PROVE  \E c2, n2 : Shape(c2, n2)' /\ Collecting(c2, n2)'
<1>1. PICK x, y, rec : x = Top.at /\ y = ObjCnt + 1 /\ rec = RecordOf(o.kind)
  OBVIOUS
<1>2. PICK n2 : n2 = NextFields(y, nx, {x}, j)
  OBVIOUS
<1>3. PICK c2 : c2 = NextCounts(y, cnt, n2)
  OBVIOUS
<1>4. Labels /\ Counted(cnt, nx) /\ Ordered(cnt, nx) /\ Runs(cnt) /\ InRow(cnt)
  BY DEF Shape
<1>5. GrowStep(y, cnt, nx, {x}, j, o, c2, n2) /\ Entered(rec, y, j + 1)
  BY <1>1, <1>2, <1>3, <1>4, SaveGrows
<1>6. Labels' /\ Tops' = Tops
  BY <1>1, <1>4, <1>5, GrowLabels DEF GrowStep
<1>7. Counted(c2, n2)' /\ Ordered(c2, n2)' /\ Runs(c2)'
  BY <1>4, <1>5, GrowCounted, GrowOrdered, GrowRuns
<1>8. Typed
  BY DEF WalkInv
<1>9. InRow(c2)'
  BY <1>4, <1>5, <1>6, <1>8, SaveRow
<1>10. Collecting(c2, n2)'
  BY <1>1, <1>4, <1>5, <1>6, <1>8, SaveOn
<1> QED
  BY <1>6, <1>7, <1>9, <1>10 DEF Shape

LEMMA LocationAgrees ==
    ASSUME WalksAgree, WalkInv, CollectLocation,
           NEW cnt, NEW nx, Shape(cnt, nx), Collecting(cnt, nx)
    PROVE  \E c2, n2 : Shape(c2, n2)' /\ Collecting(c2, n2)'
<1>1. PICK o : o = Object("location", ObjCnt + 1, FALSE)
  OBVIOUS
<1>2. /\ phase = "collect" /\ stack # <<>> /\ o \in ObjectType
      /\ o.kind = "location" /\ o.fake = ObjCnt + 1 /\ ~o.gvar
  BY <1>1, LocationSaves DEF Object
<1>3. PICK j \in Reached : /\ Collects[Top.rec][j][2] = "location"
                           /\ Saved(j, o, "location")
  BY <1>1, LocationSaves
<1>4. TargetAt(Top.at, j) = "location"
  BY <1>2, <1>3, ReachWalk DEF Collecting
<1>5. RecordOf(o.kind) = "location" /\ o.kind # None
  BY <1>2 DEF RecordOf, None
<1> QED
  BY <1>2, <1>3, <1>4, <1>5, SaveAgrees

LEMMA NewAgrees ==
    ASSUME WalksAgree, WalkInv, CollectNew,
           NEW cnt, NEW nx, Shape(cnt, nx), Collecting(cnt, nx)
    PROVE  \E c2, n2 : Shape(c2, n2)' /\ Collecting(c2, n2)'
<1>1. phase = "collect" /\ stack # <<>>
  BY NewSaves
<1>2. PICK j \in Reached :
         /\ Collects[Top.rec][j][2] \in Pointers
         /\ \E kind \in Pointees(Collects[Top.rec][j][2]) :
            \E rec \in DOMAIN Collects :
               /\ kind \notin {"location", None}
               /\ rec = CollectOf(Collects[Top.rec][j][2], kind)
               /\ Object(kind, ObjCnt + 1, FALSE) \in ObjectType
               /\ Saved(j, Object(kind, ObjCnt + 1, FALSE), rec)
  BY NewSaves
<1>3. PICK t : t = Collects[Top.rec][j][2]
  OBVIOUS
<1>4. PICK kind \in Pointees(t) :
         /\ kind \notin {"location", None}
         /\ Object(kind, ObjCnt + 1, FALSE) \in ObjectType
         /\ Saved(j, Object(kind, ObjCnt + 1, FALSE), CollectOf(t, kind))
  BY <1>2, <1>3
<1>5. t \in Pointers /\ t = TargetAt(Top.at, j) /\ t # "location"
  <2>1. t = TargetAt(Top.at, j)
    BY <1>1, <1>3, ReachWalk DEF Collecting
  <2> QED
    BY <1>2, <1>3, <2>1 DEF Pointers
<1>6. CollectOf(t, kind) = RecordOf(kind)
  BY <1>5, RecordFacts
<1>7. PICK o : o = Object(kind, ObjCnt + 1, FALSE)
  OBVIOUS
<1>8. /\ o \in ObjectType /\ o.kind = kind /\ o.fake = ObjCnt + 1 /\ ~o.gvar
      /\ Saved(j, o, RecordOf(o.kind))
  BY <1>4, <1>6, <1>7 DEF Object
<1> QED
  BY <1>1, <1>4, <1>5, <1>8, SaveAgrees

(* do_global_tree: another entry after those there are, with no call under *)
(* way.                                                                    *)
LEMMA GlobalGrows ==
    ASSUME WalkInv, stack = <<>>, NEW cnt, NEW nx, Counted(cnt, nx),
           Collecting(cnt, nx), NEW y, y = ObjCnt + 1, NEW o, Grown(o, heap),
           NEW n2, n2 = NextFields(y, nx, {}, 0),
           NEW c2, c2 = NextCounts(y, cnt, n2)
    PROVE  GrowStep(y, cnt, nx, {}, 0, o, c2, n2)
<1>1. OnStack = {} /\ Typed
  BY EmptySet DEF WalkInv
<1>2. GrowRows(y, o)
  BY RowsGrow
<1>3. GrowCounts(y, cnt, nx, {}, 0, c2, n2)
  <2>1. PICK X, j : X = {} /\ j = 0
    OBVIOUS
  <2>2. X \in SUBSET DOMAIN objs /\ j \in Nat
    BY <2>1
  <2> QED
    BY <1>1, <2>1, <2>2, CountsGrow
<1>4. GrowPlace(y, cnt, nx, {}, 0, o)
  BY <1>1 DEF GrowPlace
<1>5. GrowFields(y, {}, 0)
  <2>1. \A i \in DOMAIN objs : objs'[i] = objs[i] /\ heap'[i] = heap[i]
    BY DEF Grown
  <2>2. DOMAIN heap'[y] = {}
    BY DEF Grown
  <2>3. \A i \in DOMAIN objs : \A k :
           IsSet(i, k)' = IsSet(i, k) /\ LeadsTo(i, k)' = LeadsTo(i, k)
    BY <2>1, OldRows
  <2> QED
    BY <2>1, <2>2, <2>3 DEF GrowFields
<1> QED
  BY <1>2, <1>3, <1>4, <1>5 DEF GrowStep

LEMMA GlobalRow ==
    ASSUME WalkInv, stack = <<>>, NEW cnt, NEW nx, Counted(cnt, nx), InRow(cnt),
           NEW y, NEW o, NEW c2, NEW n2,
           GrowStep(y, cnt, nx, {}, 0, o, c2, n2), Tops' = Tops \cup {y}
    PROVE  InRow(c2)'
<1>1. OnStack = {}
  BY EmptySet
<1>2. /\ ObjCnt' = y /\ y \in Nat /\ y - 1 = ObjCnt /\ y = ObjCnt + 1
      /\ \A i \in DOMAIN objs : i \in Nat /\ i < y
      /\ \A t \in Tops : t \in DOMAIN objs
  BY DEF GrowStep, GrowRows, Tops
<1>3. /\ End(c2, y)' = y
      /\ \A t \in Tops : End(c2, t)' = End(cnt, t)
  BY <1>1, <1>2, GrowEnds
<1>4. \A t \in Tops : /\ End(cnt, t) = ObjCnt \/ End(cnt, t) + 1 \in Tops
                      /\ t <= End(cnt, t)
                      /\ \A s \in Tops : s > t => s > End(cnt, t)
  BY DEF InRow
<1>5. \A t \in Tops : End(cnt, t) \in Nat
  <2> TAKE t \in Tops
  <2>1. cnt[t] \in [Nat -> Nat] /\ Size(t) + 1 \in Nat
    <3>1. t \in DOMAIN objs
      BY <1>2
    <3>2. Size(t) \in Nat
      BY <3>1, SizeFacts DEF WalkInv
    <3>3. cnt \in [DOMAIN objs -> [Nat -> Nat]]
      BY Zenon DEF Counted
    <3> QED
      BY <3>1, <3>2, <3>3
  <2> QED
    BY <2>1 DEF End
<1>6. ASSUME NEW t \in Tops
      PROVE  /\ y > End(cnt, t)
             /\ End(cnt, t) = y \/ End(cnt, t) + 1 \in Tops \cup {y}
             /\ ~(t > y)
  BY <1>2, <1>4, <1>5
<1>7. ASSUME NEW t \in Tops'
      PROVE  /\ \A s \in Tops' : s > t => s > End(c2, t)'
             /\ t <= End(c2, t)'
             /\ End(c2, t)' = ObjCnt' \/ End(c2, t)' + 1 \in Tops'
  <2>1. CASE t = y
    <3>1. \A s \in Tops' : ~(s > y)
      BY <1>2, <1>6
    <3> QED
      BY <1>2, <1>3, <2>1, <3>1
  <2>2. CASE t \in Tops
    <3>1. End(c2, t)' = End(cnt, t)
      BY <1>3, <2>2
    <3>2. PICK e : e = End(cnt, t)
      OBVIOUS
    <3>3. /\ t <= e /\ e + 1 \in Tops'
          /\ \A s \in Tops : s > t => s > e
          /\ y > e
      BY <1>2, <1>4, <1>6, <2>2, <3>2
    <3> QED
      BY <3>1, <3>2, <3>3
  <2> QED
    BY <2>1, <2>2
<1> QED
  BY <1>7 DEF InRow

LEMMA GlobalAgrees ==
    ASSUME WalksAgree, WalkInv, CollectGlobal,
           NEW cnt, NEW nx, Shape(cnt, nx), Collecting(cnt, nx)
    PROVE  \E c2, n2 : Shape(c2, n2)' /\ Collecting(c2, n2)'
<1>1. PICK y : y = ObjCnt + 1
  OBVIOUS
<1>2. PICK n2 : n2 = NextFields(y, nx, {}, 0)
  OBVIOUS
<1>3. PICK c2 : c2 = NextCounts(y, cnt, n2)
  OBVIOUS
<1>4. /\ Labels /\ Counted(cnt, nx) /\ Ordered(cnt, nx) /\ Runs(cnt) /\ InRow(cnt)
      /\ Typed /\ phase = "collect" /\ stack = <<>> /\ OnStack = {}
  BY GlobalSaves, EmptySet DEF Shape, WalkInv
<1>5. ASSUME NEW o, Grown(o, heap), o.gvar,
             o.kind # None => o.fake = y,
             o.kind = None => o.fake \in {Null} \cup Records,
             o.kind \in {None} \cup Pointees("tree")
      PROVE  /\ Shape(c2, n2)' /\ GrowStep(y, cnt, nx, {}, 0, o, c2, n2)
             /\ Tops' = Tops \cup {y}
  <2>1. GrowStep(y, cnt, nx, {}, 0, o, c2, n2)
    BY <1>1, <1>2, <1>3, <1>4, <1>5, GlobalGrows
  <2>2. Labels' /\ Tops' = Tops \cup {y}
    BY <1>4, <1>5, <2>1, GrowLabels DEF GrowStep
  <2>3. Counted(c2, n2)' /\ Ordered(c2, n2)' /\ Runs(c2)'
    <3>1. PICK X, j : X = {} /\ j = 0
      OBVIOUS
    <3>2. GrowStep(y, cnt, nx, X, j, o, c2, n2)
      BY <2>1, <3>1
    <3> QED
      BY <1>4, <3>2, GrowCounted, GrowOrdered, GrowRuns
  <2>4. InRow(c2)'
    BY <1>4, <2>1, <2>2, GlobalRow
  <2> QED
    BY <2>1, <2>2, <2>3, <2>4 DEF Shape
<1>6. ASSUME NEW o, GrowStep(y, cnt, nx, {}, 0, o, c2, n2)
      PROVE  /\ DOMAIN objs' = 1..y /\ ObjCnt' = y /\ y \in Nat /\ objs'[y] = o
             /\ \A i \in DOMAIN objs' : i = y \/ i \in DOMAIN objs
             /\ \A i \in DOMAIN objs : /\ i # y /\ i < y /\ n2[i] = Size(i)' + 1
             /\ n2[y] = 1 /\ \A k \in Nat : c2[y][k] = y
             /\ \A i \in DOMAIN objs : \A k \in 1..(n2[i] - 1) :
                   IsSet(i, k)' => LeadsTo(i, k)' \in DOMAIN objs
  <2>1. /\ DOMAIN objs' = 1..y /\ ObjCnt' = y /\ y \in Nat /\ objs'[y] = o
        /\ \A i \in DOMAIN objs' : i = y \/ i \in DOMAIN objs
        /\ \A i \in DOMAIN objs :
              i # y /\ i < y /\ Size(i)' = Size(i) /\ Size(i) \in Nat
    BY <1>6 DEF GrowStep, GrowRows
  <2>2. /\ n2[y] = 1 /\ \A k \in Nat : c2[y][k] = y
        /\ \A i \in DOMAIN objs : n2[i] = nx[i]
    BY <1>6 DEF GrowStep, GrowCounts
  <2>3. \A i \in DOMAIN objs : nx[i] = Size(i) + 1
    BY <1>4 DEF Collecting
  <2>4. ASSUME NEW i \in DOMAIN objs, NEW k \in 1..(n2[i] - 1), IsSet(i, k)'
        PROVE  LeadsTo(i, k)' \in DOMAIN objs
    <3>1. k \in 1..Size(i) /\ k \in 1..(nx[i] - 1)
      BY <2>1, <2>2, <2>3
    <3>2. IsSet(i, k) /\ LeadsTo(i, k)' = LeadsTo(i, k)
      BY <1>6, <2>4, <3>1 DEF GrowStep, GrowFields
    <3> QED
      BY <1>4, <3>1, <3>2 DEF Ordered, OldField, NewField
  <2> QED
    BY <2>1, <2>2, <2>3, <2>4
<1>7. CASE /\ UNCHANGED stack
           /\ \E fake \in Records \cup {Null} :
                 /\ Object(None, fake, TRUE) \in ObjectType
                 /\ Grown(Object(None, fake, TRUE), heap)
  <2>1. PICK fake \in Records \cup {Null} : Grown(Object(None, fake, TRUE), heap)
    BY <1>7
  <2>2. PICK o : o = Object(None, fake, TRUE)
    OBVIOUS
  <2>3. o.kind = None /\ o.fake = fake /\ o.gvar /\ Grown(o, heap)
    BY <2>1, <2>2 DEF Object
  <2>4. Shape(c2, n2)' /\ GrowStep(y, cnt, nx, {}, 0, o, c2, n2)
    BY <1>5, <2>3
  <2>5. stack' = <<>> /\ OnStack' = {} /\ Len(stack') = 0
    BY <1>4, <1>7 DEF OnStack
  <2>6. Size(y)' = 0
    <3>1. WalkOf(None) = <<>> /\ Len(<<>>) = 0
      BY DEF WalkOf
    <3>2. objs'[y].kind = None
      BY <1>6, <2>3, <2>4
    <3> QED
      BY <3>1, <3>2 DEF Size
  <2>7. \A i \in DOMAIN objs' : n2[i] = Size(i)' + 1
    BY <1>6, <2>4, <2>6
  <2>8. Calls(c2, n2)'
    BY <2>5 DEF Calls
  <2>9. Collecting(c2, n2)'
    BY <2>5, <2>7, <2>8 DEF Collecting
  <2> QED
    BY <2>4, <2>9
<1>8. CASE \E kind \in Pointees("tree") : \E rec \in DOMAIN Collects :
              /\ rec = CollectOf("tree", kind)
              /\ kind \notin {"location", None}
              /\ Object(kind, ObjCnt + 1, TRUE) \in ObjectType
              /\ Grown(Object(kind, ObjCnt + 1, TRUE), heap)
              /\ Started(rec, ObjCnt + 1)
  <2>1. PICK kind \in Pointees("tree") :
              /\ kind \notin {"location", None}
              /\ Grown(Object(kind, y, TRUE), heap)
              /\ Started(CollectOf("tree", kind), y)
    BY <1>1, <1>8
  <2>2. PICK o, rec : o = Object(kind, y, TRUE) /\ rec = CollectOf("tree", kind)
    OBVIOUS
  <2>3. /\ o.kind = kind /\ o.fake = y /\ o.gvar /\ Grown(o, heap)
        /\ Started(rec, y) /\ rec = RecordOf(kind)
    BY <2>1, <2>2, TreeIsPointer, RecordFacts DEF Object
  <2>4. /\ Shape(c2, n2)' /\ GrowStep(y, cnt, nx, {}, 0, o, c2, n2)
        /\ Tops' = Tops \cup {y}
    BY <1>5, <2>1, <2>3
  <2>5. /\ OnStack' = {y} /\ Len(stack') = 1 /\ stack'[1].rec = rec
        /\ stack'[1].at = y /\ stack'[1].next = 1 /\ stack' # <<>>
    <3>1. Len(<<>>) = 0
      OBVIOUS
    <3>2. OnStack' = {y}
      BY <2>3, StartSet
    <3>3. /\ Len(stack') = 1 /\ stack'[1].rec = rec
          /\ stack'[1].at = y /\ stack'[1].next = 1
      BY <2>3, Zenon DEF Started
    <3>4. stack' # <<>>
      <4>1. ASSUME stack' = <<>> PROVE FALSE
        <5>1. Len(stack') = 0
          BY <3>1, <4>1
        <5> QED
          BY <3>3, <5>1
      <4> QED
        BY <4>1
    <3> QED
      BY <3>2, <3>3, <3>4
  <2>6. Calls(c2, n2)'
    <3>1. /\ \A c \in 1..Len(stack') : c = 1
          /\ \A c \in 2..Len(stack') : FALSE
      BY <2>5
    <3>2. objs'[y].kind = kind /\ n2[y] = 1
      BY <1>6, <2>3, <2>4
    <3> QED
      BY <2>1, <2>3, <2>5, <3>1, <3>2 DEF Calls
  <2>7. \A i \in DOMAIN objs' : i \notin OnStack' => n2[i] = Size(i)' + 1
    BY <1>6, <2>4, <2>5
  <2>8. \A i \in OnStack' : \A k \in Nat : k >= n2[i] => c2[i][k] = ObjCnt'
    BY <1>6, <2>4, <2>5
  <2>9. ASSUME NEW i \in DOMAIN objs', NEW k \in 1..(n2[i] - 1), IsSet(i, k)'
        PROVE  LeadsTo(i, k)' \notin OnStack'
    <3>1. CASE i = y
      BY <1>6, <2>4, <2>9, <3>1
    <3>2. CASE i \in DOMAIN objs
      BY <1>6, <2>4, <2>5, <2>9, <3>2
    <3> QED
      BY <1>6, <2>4, <3>1, <3>2
  <2>10. stack'[Len(stack')].at \in Tops' /\ \A t \in Tops' : t <= stack'[Len(stack')].at
    <3>1. \A t \in Tops : t <= y
      BY <1>1, <1>6, <2>4, TableFacts, <1>4 DEF Tops
    <3> QED
      BY <1>6, <2>4, <2>5, <3>1
  <2>11. Collecting(c2, n2)'
    BY <2>6, <2>7, <2>8, <2>9, <2>10 DEF Collecting
  <2> QED
    BY <2>4, <2>11
<1> QED
  BY <1>7, <1>8, GlobalSaves

(***************************************************************************)
(* The plugin goes on in the record on top, or is done with it: nothing is *)
(* saved, and the counts are those of before.                              *)
(***************************************************************************)
LEMMA SameRows ==
    ASSUME Typed, objs' = objs
    PROVE  /\ ObjCnt' = ObjCnt /\ Tops' = Tops
           /\ \A i : Size(i)' = Size(i)
           /\ \A i, k : PathAt(i, k)' = PathAt(i, k) /\ TargetAt(i, k)' = TargetAt(i, k)
           /\ \A c, i : End(c, i)' = End(c, i)
  BY DEF ObjCnt, Tops, Size, PathAt, TargetAt, End

LEMMA SameLabels ==
    ASSUME Labels, objs' = objs PROVE Labels'
  BY DEF Labels, Records

LEMMA SameRow ==
    ASSUME Typed, objs' = objs, NEW cnt, InRow(cnt) PROVE InRow(cnt)'
  BY SameRows DEF InRow

(* n2: the fields visited next.  Only those of x have changed, and the new *)
(* ones lead to records that were saved before.                            *)
Progress(cnt, nx, x, n2) ==
    /\ x \in OnStack /\ x \in DOMAIN objs
    /\ n2 \in [DOMAIN objs -> Nat \ {0}]
    /\ \A i \in DOMAIN objs : i # x => n2[i] = nx[i] /\ heap'[i] = heap[i]
    /\ nx[x] <= n2[x] /\ n2[x] <= Size(x) + 1
    /\ \A k \in 1..Size(x) :
          /\ IsSet(x, k) => IsSet(x, k)' /\ LeadsTo(x, k)' = LeadsTo(x, k)
          /\ IsSet(x, k)' /\ ~IsSet(x, k) => k \in nx[x]..(n2[x] - 1)
    /\ \A k \in nx[x]..(n2[x] - 1) :
          /\ TargetAt(x, k) # "location"
          /\ IsSet(x, k)' => LeadsTo(x, k)' \in DOMAIN objs
                             /\ objs[LeadsTo(x, k)'].kind \in Pointees(TargetAt(x, k))
    /\ \A p \in DOMAIN heap'[x] : \E k \in 1..(n2[x] - 1) : p = PathAt(x, k)

LEMMA ProgressCounted ==
    ASSUME Typed, objs' = objs, NEW cnt, NEW nx, Counted(cnt, nx),
           NEW x, NEW n2, Progress(cnt, nx, x, n2)
    PROVE  Counted(cnt, n2)'
<1>1. /\ cnt \in [DOMAIN objs' -> [Nat -> Nat]]
      /\ n2 \in [DOMAIN objs' -> Nat \ {0}]
  BY Zenon DEF Counted, Progress
<1>2. /\ \A i : Size(i)' = Size(i)
      /\ \A i, k : PathAt(i, k)' = PathAt(i, k) /\ TargetAt(i, k)' = TargetAt(i, k)
  BY SameRows
<1>3. ASSUME NEW i \in DOMAIN objs'
      PROVE  /\ n2[i] <= Size(i)' + 1 /\ cnt[i][1] = i
             /\ \A p \in DOMAIN heap'[i] : \E k \in 1..(n2[i] - 1) : p = PathAt(i, k)'
             /\ \A k \in 1..(n2[i] - 1) : TargetAt(i, k)' = "location" => IsSet(i, k)'
  <2>1. /\ i \in DOMAIN objs /\ nx[i] \in Nat \ {0} /\ n2[i] \in Nat \ {0}
        /\ Size(i) \in Nat
    BY SizeFacts DEF Counted, Progress
  <2>2. /\ nx[i] <= Size(i) + 1 /\ cnt[i][1] = i
        /\ \A p \in DOMAIN heap[i] : \E k \in 1..(nx[i] - 1) : p = PathAt(i, k)
        /\ \A k \in 1..(nx[i] - 1) : TargetAt(i, k) = "location" => IsSet(i, k)
    BY <2>1 DEF Counted
  <2>3. CASE i # x
    <3>1. n2[i] = nx[i] /\ heap'[i] = heap[i]
      BY <2>1, <2>3 DEF Progress
    <3>2. \A k : IsSet(i, k)' = IsSet(i, k)
      BY <2>1, <3>1, OldRows
    <3> QED
      BY <1>2, <2>2, <3>1, <3>2
  <2>4. CASE i = x
    <3>1. ASSUME NEW k \in 1..(n2[i] - 1), TargetAt(i, k) = "location"
          PROVE  IsSet(i, k)'
      <4>1. n2[i] <= Size(i) + 1 /\ k \notin nx[i]..(n2[i] - 1)
        BY <2>4, <3>1 DEF Progress
      <4>2. k \in 1..(nx[i] - 1) /\ k \in 1..Size(i)
        BY <2>1, <4>1
      <4> QED
        BY <2>2, <2>4, <3>1, <4>2 DEF Progress
    <3> QED
      BY <1>2, <2>2, <2>4, <3>1 DEF Progress
  <2> QED
    BY <2>3, <2>4
<1> QED
  BY <1>1, <1>3 DEF Counted

LEMMA ProgressOrdered ==
    ASSUME Typed, objs' = objs, NEW cnt, NEW nx, Counted(cnt, nx), Ordered(cnt, nx),
           Collecting(cnt, nx), NEW x, NEW n2, Progress(cnt, nx, x, n2)
    PROVE  Ordered(cnt, n2)'
<1>1. /\ \A i : Size(i)' = Size(i)
      /\ \A i, k : PathAt(i, k)' = PathAt(i, k) /\ TargetAt(i, k)' = TargetAt(i, k)
      /\ \A c, i : End(c, i)' = End(c, i)
  BY SameRows
<1>2. ASSUME NEW i \in DOMAIN objs, NEW k \in 1..(n2[i] - 1), IsSet(i, k)'
      PROVE  OldField(cnt, i, k)' \/ NewField(cnt, i, k)'
  <2>1. /\ nx[i] \in Nat \ {0} /\ n2[i] \in Nat \ {0} /\ Size(i) \in Nat
    BY SizeFacts DEF Counted, Progress
  <2>2. ASSUME k \in 1..(nx[i] - 1), IsSet(i, k), LeadsTo(i, k)' = LeadsTo(i, k)
        PROVE  OldField(cnt, i, k)' \/ NewField(cnt, i, k)'
    <3>1. OldField(cnt, i, k) \/ NewField(cnt, i, k)
      BY <2>2 DEF Ordered
    <3> QED
      BY <1>1, <2>2, <3>1 DEF OldField, NewField
  <2>3. CASE i # x
    <3>1. n2[i] = nx[i] /\ heap'[i] = heap[i]
      BY <2>3 DEF Progress
    <3>2. IsSet(i, k)' = IsSet(i, k) /\ LeadsTo(i, k)' = LeadsTo(i, k)
      BY <3>1, OldRows
    <3> QED
      BY <1>2, <2>2, <3>1, <3>2
  <2>4. CASE i = x /\ k < nx[i]
    <3>1. k \in 1..(nx[i] - 1) /\ k \in 1..Size(i) /\ k \notin nx[i]..(n2[i] - 1)
      BY <2>1, <2>4 DEF Counted
    <3>2. IsSet(i, k) /\ LeadsTo(i, k)' = LeadsTo(i, k)
      BY <1>2, <2>4, <3>1 DEF Progress
    <3> QED
      BY <2>2, <3>1, <3>2
  <2>5. CASE i = x /\ k >= nx[i]
    <3>1. k \in nx[x]..(n2[x] - 1)
      BY <2>1, <2>5
    <3>2. PICK z : z = LeadsTo(i, k)'
      OBVIOUS
    <3>3. /\ TargetAt(i, k) # "location" /\ z \in DOMAIN objs
          /\ objs[z].kind \in Pointees(TargetAt(i, k))
      BY <1>2, <2>5, <3>1, <3>2 DEF Progress
    <3>4. cnt[i][k] = ObjCnt /\ cnt[i][k + 1] = ObjCnt
      <4>1. k \in Nat /\ k + 1 \in Nat /\ k + 1 >= nx[i] /\ i \in OnStack
        BY <2>1, <2>5 DEF Progress
      <4> QED
        BY <2>5, <4>1 DEF Collecting
    <3>5. z <= ObjCnt
      BY <3>3, TableFacts
    <3> QED
      BY <1>1, <3>2, <3>3, <3>4, <3>5 DEF OldField
  <2> QED
    BY <2>1, <2>3, <2>4, <2>5
<1> QED
  BY <1>2 DEF Ordered

LEMMA ProgressRuns ==
    ASSUME Typed, objs' = objs, NEW cnt, Runs(cnt), NEW nx,
           NEW x, NEW n2, Progress(cnt, nx, x, n2)
    PROVE  Runs(cnt)'
<1>1. \A i : Size(i)' = Size(i)
  BY SameRows
<1>2. ASSUME NEW i \in DOMAIN objs, NEW k \in 1..Size(i), IsSet(i, k)
      PROVE  IsSet(i, k)'
  <2>1. CASE i # x
    <3>1. heap'[i] = heap[i]
      BY <2>1 DEF Progress
    <3> QED
      BY <1>2, <3>1, OldRows
  <2>2. CASE i = x
    BY <1>2, <2>2 DEF Progress
  <2> QED
    BY <2>1, <2>2
<1>3. ASSUME NEW i \in DOMAIN objs,
             NEW a \in 1..(Size(i) + 1), NEW b \in 1..(Size(i) + 1), a <= b,
             \A k \in a..(b - 1) : ~IsSet(i, k)'
      PROVE  cnt[i][a] = cnt[i][b]
  <2>1. Size(i) \in Nat
    BY SizeFacts
  <2>2. \A k \in a..(b - 1) : k \in 1..Size(i)
    BY <2>1
  <2>3. \A k \in a..(b - 1) : ~IsSet(i, k)
    BY <1>2, <1>3, <2>2
  <2> QED
    BY <1>3, <2>3 DEF Runs
<1> QED
  BY <1>1, <1>3 DEF Runs

LEMMA CheckedProgress ==
    ASSUME WalksAgree, WalkInv, CollectChecked, NEW cnt, NEW nx,
           Counted(cnt, nx), Collecting(cnt, nx), NEW x, x = Top.at
    PROVE  /\ objs' = objs /\ stack # <<>>
           /\ \E j : /\ j \in Nat /\ Resumed(j + 1)
                     /\ Progress(cnt, nx, x, [nx EXCEPT ![x] = j + 1])
<1>1. /\ Typed /\ phase = "collect" /\ stack # <<>> /\ objs' = objs
      /\ x \in DOMAIN objs /\ x \in OnStack /\ DOMAIN heap = DOMAIN objs
      /\ Calls(cnt, nx)
  BY TopFacts, TopWalk, TableFacts DEF WalkInv, CollectChecked, Collecting
<1>2. PICK j \in Reached, v \in Records :
         /\ Collects[Top.rec][j][2] # "location"
         /\ objs[v].kind \in Pointees(Collects[Top.rec][j][2])
         /\ heap' = SetField(x, Collects[Top.rec][j][1], v)
         /\ stack' = Resume(j + 1)
  BY DEF CollectChecked
<1>3. /\ j \in 1..Size(x) /\ j >= nx[x]
      /\ Collects[Top.rec][j][1] = PathAt(x, j)
      /\ Collects[Top.rec][j][2] = TargetAt(x, j)
      /\ \A k \in nx[x]..(j - 1) : TargetAt(x, k) # "location"
  BY <1>1, ReachWalk
<1>4. Size(x) \in Nat /\ nx[x] \in Nat \ {0} /\ j \in Nat
  BY <1>1, <1>3, NextFacts
<1>5. Resumed(j + 1)
  BY <1>1, <1>2, <1>4, ResumeStack
<1>6. PICK n2 : n2 = [nx EXCEPT ![x] = j + 1]
  OBVIOUS
<1>7. /\ n2 \in [DOMAIN objs -> Nat \ {0}] /\ n2[x] = j + 1
      /\ \A i \in DOMAIN objs : i # x => n2[i] = nx[i]
  <2>1. nx \in [DOMAIN objs -> Nat \ {0}]
    BY Zenon DEF Counted
  <2>2. j + 1 \in Nat \ {0}
    BY <1>4
  <2> QED
    BY <1>1, <1>6, <2>1, <2>2
<1>8. v \in DOMAIN objs /\ v \in Nat /\ PathAt(x, j) \in Path
  BY <1>1, <1>3, TableFacts, SizeFacts DEF Records
<1>9. /\ heap'[x] = With(heap[x], PathAt(x, j), v)
      /\ \A i \in DOMAIN objs : i # x => heap'[i] = heap[i]
  BY <1>1, <1>2, <1>3, <1>8, FieldFacts
<1>10. ~IsSet(x, j)
  <2>1. j \in nx[x]..Size(x)
    BY <1>3, <1>4
  <2> QED
    BY <1>1, <2>1, LaterUnset
<1>11. /\ \A k \in 1..Size(x) :
            /\ IsSet(x, k)' <=> IsSet(x, k) \/ k = j
            /\ IsSet(x, k) => LeadsTo(x, k)' = LeadsTo(x, k)
       /\ LeadsTo(x, j)' = v
       /\ \A p \in DOMAIN heap'[x] : p \in DOMAIN heap[x] \/ p = PathAt(x, j)
  BY <1>1, <1>3, <1>9, <1>10, SetAt
<1>12. ASSUME NEW k \in nx[x]..(n2[x] - 1)
       PROVE  /\ TargetAt(x, k) # "location"
              /\ IsSet(x, k)' => LeadsTo(x, k)' \in DOMAIN objs
                                 /\ objs[LeadsTo(x, k)'].kind \in Pointees(TargetAt(x, k))
  <2>1. k \in nx[x]..Size(x) /\ k \in 1..Size(x) /\ (k = j \/ k \in nx[x]..(j - 1))
    BY <1>3, <1>4, <1>7
  <2>2. ~IsSet(x, k)
    BY <1>1, <2>1, LaterUnset
  <2>3. CASE k = j
    BY <1>2, <1>3, <1>8, <1>11, <2>3
  <2>4. CASE k # j
    BY <1>3, <1>11, <2>1, <2>2, <2>4
  <2> QED
    BY <2>3, <2>4
<1>13. ASSUME NEW p \in DOMAIN heap'[x] PROVE \E k \in 1..(n2[x] - 1) : p = PathAt(x, k)
  <2>1. CASE p \in DOMAIN heap[x]
    <3>1. PICK k \in 1..(nx[x] - 1) : p = PathAt(x, k)
      BY <1>1, <2>1 DEF Counted
    <3>2. k \in 1..(n2[x] - 1)
      BY <1>3, <1>4, <1>7
    <3> QED
      BY <3>1, <3>2
  <2>2. CASE p = PathAt(x, j)
    <3>1. j \in 1..(n2[x] - 1)
      BY <1>3, <1>4, <1>7
    <3> QED
      BY <2>2, <3>1
  <2> QED
    BY <1>11, <2>1, <2>2
<1>14. \A k \in 1..Size(x) :
          IsSet(x, k)' /\ ~IsSet(x, k) => k \in nx[x]..(n2[x] - 1)
  BY <1>3, <1>4, <1>7, <1>11
<1>15. nx[x] <= n2[x] /\ n2[x] <= Size(x) + 1
  BY <1>3, <1>4, <1>7
<1>16. Progress(cnt, nx, x, n2)
  BY <1>1, <1>7, <1>9, <1>11, <1>12, <1>13, <1>14, <1>15, Zenon DEF Progress
<1> QED
  BY <1>1, <1>4, <1>5, <1>6, <1>16

LEMMA ReturnProgress ==
    ASSUME WalksAgree, WalkInv, CollectReturn, NEW cnt, NEW nx,
           Counted(cnt, nx), Collecting(cnt, nx), NEW x, x = Top.at
    PROVE  /\ objs' = objs /\ stack # <<>> /\ Returned
           /\ Progress(cnt, nx, x, [nx EXCEPT ![x] = Size(x) + 1])
<1>1. /\ Typed /\ phase = "collect" /\ stack # <<>> /\ objs' = objs /\ heap' = heap
      /\ x \in DOMAIN objs /\ x \in OnStack /\ AllNull
      /\ Calls(cnt, nx)
  BY TopFacts, TopWalk DEF WalkInv, CollectReturn, Collecting, collectVars
<1>2. Returned
  BY <1>1, ReturnStack DEF CollectReturn
<1>3. Size(x) \in Nat /\ nx[x] \in Nat \ {0} /\ nx[x] <= Size(x) + 1
  BY <1>1, NextFacts
<1>4. /\ Top.next = nx[x] /\ Len(Collects[Top.rec]) = Size(x)
      /\ \A k : Collects[Top.rec][k][2] = TargetAt(x, k)
  BY <1>1, TopWalk
<1>5. ASSUME NEW k \in nx[x]..Size(x) PROVE TargetAt(x, k) # "location"
  <2> SUFFICES ASSUME TargetAt(x, k) = "location" PROVE FALSE
    OBVIOUS
  <2> DEFINE T == {m \in nx[x]..Size(x) : TargetAt(x, m) = "location"}
  <2>1. T \subseteq Nat /\ T # {}
    BY <1>3
  <2>2. PICK m \in T : \A n \in T : m <= n
    <3> HIDE DEF T
    <3> QED
      BY <2>1, LeastOf
  <2>3. \A n \in nx[x]..(m - 1) : TargetAt(x, n) # "location"
    <3> TAKE n \in nx[x]..(m - 1)
    <3>1. n \in nx[x]..Size(x) /\ ~(m <= n)
      BY <1>3, <2>2
    <3> QED
      BY <2>2, <3>1
  <2>4. m \in Reached
    BY <1>4, <2>2, <2>3 DEF Reached
  <2> QED
    BY <1>1, <1>4, <2>2, <2>4 DEF AllNull
<1>6. PICK n2 : n2 = [nx EXCEPT ![x] = Size(x) + 1]
  OBVIOUS
<1>7. /\ n2 \in [DOMAIN objs -> Nat \ {0}] /\ n2[x] = Size(x) + 1
      /\ \A i \in DOMAIN objs : i # x => n2[i] = nx[i]
  <2>1. nx \in [DOMAIN objs -> Nat \ {0}]
    BY Zenon DEF Counted
  <2>2. Size(x) + 1 \in Nat \ {0}
    BY <1>3
  <2> QED
    BY <1>1, <1>6, <2>1, <2>2
<1>8. \A k : IsSet(x, k)' = IsSet(x, k) /\ LeadsTo(x, k)' = LeadsTo(x, k)
  BY <1>1, OldRows
<1>9. \A k \in nx[x]..(n2[x] - 1) : TargetAt(x, k) # "location" /\ ~IsSet(x, k)
  <2>1. n2[x] - 1 = Size(x)
    BY <1>3, <1>7
  <2> QED
    BY <1>1, <1>5, <2>1, LaterUnset
<1>10. \A p \in DOMAIN heap'[x] : \E k \in 1..(n2[x] - 1) : p = PathAt(x, k)
  <2>1. 1..(nx[x] - 1) \subseteq 1..(n2[x] - 1)
    BY <1>3, <1>7
  <2>2. \A p \in DOMAIN heap[x] : \E k \in 1..(nx[x] - 1) : p = PathAt(x, k)
    BY <1>1 DEF Counted
  <2> QED
    BY <1>1, <2>1, <2>2
<1>11. nx[x] <= n2[x] /\ n2[x] <= Size(x) + 1
  BY <1>3, <1>7
<1>12. Progress(cnt, nx, x, n2)
  BY <1>1, <1>7, <1>8, <1>9, <1>10, <1>11, Zenon DEF Progress
<1> QED
  BY <1>1, <1>2, <1>6, <1>12

(* A link between two calls stays when the fields of the lower one do.     *)
LEMMA ProgressLinks ==
    ASSUME Typed, objs' = objs, NEW cnt, NEW nx, Counted(cnt, nx),
           NEW x, NEW n2, Progress(cnt, nx, x, n2),
           NEW i \in DOMAIN objs, NEW k \in 1..(nx[i] - 1), IsSet(i, k)
    PROVE  IsSet(i, k)' /\ LeadsTo(i, k)' = LeadsTo(i, k)
<1>1. k \in 1..Size(i)
  BY NextFacts
<1>2. CASE i = x
  BY <1>1, <1>2 DEF Progress
<1>3. CASE i # x
  <2>1. heap'[i] = heap[i]
    BY <1>3 DEF Progress
  <2> QED
    BY <2>1, OldRows
<1> QED
  BY <1>2, <1>3

(* A field that leads to the next object and is on the stack was set       *)
(* before.                                                                 *)
LEMMA ProgressOld ==
    ASSUME Typed, objs' = objs, NEW cnt, NEW nx, Counted(cnt, nx),
           Collecting(cnt, nx), NEW x, NEW n2, Progress(cnt, nx, x, n2),
           NEW i \in DOMAIN objs, NEW k \in 1..(n2[i] - 1), IsSet(i, k)',
           LeadsTo(i, k)' = cnt[i][k] + 1
    PROVE  /\ k \in 1..(nx[i] - 1) /\ IsSet(i, k) /\ LeadsTo(i, k)' = LeadsTo(i, k)
<1>1. /\ nx[i] \in Nat \ {0} /\ n2[i] \in Nat \ {0} /\ Size(i) \in Nat
  BY NextFacts DEF Progress
<1>2. CASE i # x
  <2>1. n2[i] = nx[i] /\ heap'[i] = heap[i]
    BY <1>2 DEF Progress
  <2> QED
    BY <2>1, OldRows
<1>3. CASE i = x /\ k < nx[i]
  <2>1. k \in 1..(nx[i] - 1) /\ k \in 1..Size(i) /\ k \notin nx[i]..(n2[i] - 1)
    BY <1>1, <1>3, NextFacts
  <2> QED
    BY <1>3, <2>1 DEF Progress
<1>4. CASE i = x /\ k >= nx[i]
  <2>1. k \in nx[x]..(n2[x] - 1) /\ k \in Nat
    BY <1>1, <1>4
  <2>2. LeadsTo(i, k)' \in DOMAIN objs
    BY <1>4, <2>1 DEF Progress
  <2>3. cnt[i][k] = ObjCnt
    BY <1>4, <2>1 DEF Collecting, Progress
  <2>4. \A z \in DOMAIN objs : z # ObjCnt + 1
    BY TableFacts
  <2> QED
    BY <2>2, <2>3, <2>4
<1> QED
  BY <1>1, <1>2, <1>3, <1>4

LEMMA CheckedOn ==
    ASSUME Typed, stack # <<>>, objs' = objs, NEW cnt, NEW nx, Counted(cnt, nx),
           Collecting(cnt, nx), NEW x, x = Top.at, NEW j \in Nat, Resumed(j + 1),
           NEW n2, n2 = [nx EXCEPT ![x] = j + 1], Progress(cnt, nx, x, n2)
    PROVE  Collecting(cnt, n2)'
<1>1. /\ Len(stack) \in Nat \ {0} /\ Len(stack') = Len(stack) /\ x = stack[1].at
      /\ stack'[1].rec = stack[1].rec /\ stack'[1].at = x
      /\ stack'[1].next = j + 1 /\ OnStack' = OnStack
      /\ \A c \in 2..Len(stack) : stack'[c] = stack[c]
      /\ \A c \in 1..Len(stack) : stack'[c].at = stack[c].at
  BY TopFacts, ResumeOnce, ResumeSet DEF Resumed
<1>2. /\ nx[x] <= n2[x] /\ x \in DOMAIN objs
      /\ \A i \in DOMAIN objs : i # x => n2[i] = nx[i]
      /\ \A i \in DOMAIN objs : n2[i] \in Nat
      /\ x \in OnStack
  BY DEF Progress
<1>3. n2[x] = j + 1
  <2>1. nx \in [DOMAIN objs -> Nat \ {0}]
    BY Zenon DEF Counted
  <2> QED
    BY <1>2, <2>1
<1>4. ObjCnt' = ObjCnt /\ Tops' = Tops /\ \A i : Size(i)' = Size(i)
  BY SameRows
<1>5. \A c \in 2..Len(stack) : stack[c].at # x /\ stack[c].at \in DOMAIN objs
  <2>1. \A c \in 2..Len(stack) : c \in 1..Len(stack) /\ 1 \in 1..Len(stack) /\ c # 1
    BY <1>1
  <2> QED
    BY <1>1, <2>1 DEF Typed, NoReentry
<1>6. \A c \in 1..Len(stack) :
         /\ objs[stack[c].at].kind # None
         /\ stack[c].rec = RecordOf(objs[stack[c].at].kind)
         /\ stack[c].next = nx[stack[c].at]
  BY DEF Collecting, Calls
<1>7. ASSUME NEW c \in 1..Len(stack')
      PROVE  /\ objs'[stack'[c].at].kind # None
             /\ stack'[c].rec = RecordOf(objs'[stack'[c].at].kind)
             /\ stack'[c].next = n2[stack'[c].at]
  <2>1. CASE c = 1
    <3>1. 1 \in 1..Len(stack)
      BY <1>1
    <3> QED
      BY <1>1, <1>3, <1>6, <2>1, <3>1
  <2>2. CASE c # 1
    <3>1. c \in 2..Len(stack) /\ c \in 1..Len(stack)
      BY <1>1, <2>2
    <3> QED
      BY <1>1, <1>2, <1>5, <1>6, <3>1
  <2> QED
    BY <2>1, <2>2
<1>8. ASSUME NEW c \in 2..Len(stack')
      PROVE  /\ stack'[c].next > 1 /\ IsSet(stack[c].at, stack[c].next - 1)'
             /\ LeadsTo(stack[c].at, stack[c].next - 1)' = stack'[c - 1].at
             /\ stack'[c - 1].at = cnt[stack'[c].at][stack'[c].next - 1] + 1
  <2>1. c \in 2..Len(stack) /\ c \in 1..Len(stack) /\ c - 1 \in 1..Len(stack)
    BY <1>1
  <2>2. PICK i, k : i = stack[c].at /\ k = stack[c].next - 1
    OBVIOUS
  <2>3. /\ stack[c].next > 1 /\ IsSet(i, k) /\ LeadsTo(i, k) = stack[c - 1].at
        /\ stack[c - 1].at = cnt[i][k] + 1
    BY <2>1, <2>2 DEF Collecting, Calls
  <2>4. i \in DOMAIN objs /\ k \in 1..(nx[i] - 1)
    <3>1. i \in DOMAIN objs /\ stack[c].next = nx[i]
      BY <1>5, <1>6, <2>1, <2>2
    <3>2. nx[i] \in Nat
      BY <3>1, NextFacts
    <3> QED
      BY <2>2, <2>3, <3>1, <3>2
  <2>5. IsSet(i, k)' /\ LeadsTo(i, k)' = LeadsTo(i, k)
    BY <2>3, <2>4, ProgressLinks
  <2>6. stack'[c] = stack[c] /\ stack'[c - 1].at = stack[c - 1].at
    BY <1>1, <2>1
  <2> QED
    BY <2>2, <2>3, <2>5, <2>6 DEF IsSet, LeadsTo, PathAt
<1>9. Calls(cnt, n2)'
  BY <1>7, <1>8 DEF Calls
<1>10. \A i \in DOMAIN objs : i \notin OnStack => n2[i] = Size(i) + 1
  BY <1>2 DEF Collecting
<1>11. ASSUME NEW i \in OnStack, NEW k \in Nat, k >= n2[i] PROVE cnt[i][k] = ObjCnt
  <2>1. i \in DOMAIN objs
    BY OnTable
  <2>2. nx[i] \in Nat /\ n2[i] \in Nat /\ nx[i] <= n2[i]
    BY <1>2, <2>1, NextFacts
  <2>3. k >= nx[i]
    BY <1>11, <2>2
  <2> QED
    BY <2>3 DEF Collecting
<1>12. ASSUME NEW i \in DOMAIN objs, NEW k \in 1..(n2[i] - 1), IsSet(i, k)',
              LeadsTo(i, k)' = cnt[i][k] + 1, LeadsTo(i, k)' \in OnStack
       PROVE  \E c \in 2..Len(stack') : /\ stack'[c].at = i /\ stack'[c].next = k + 1
                                        /\ stack'[c - 1].at = LeadsTo(i, k)'
  <2>1. k \in 1..(nx[i] - 1) /\ IsSet(i, k) /\ LeadsTo(i, k)' = LeadsTo(i, k)
    BY <1>12, ProgressOld
  <2>2. PICK c \in 2..Len(stack) : /\ stack[c].at = i /\ stack[c].next = k + 1
                                   /\ stack[c - 1].at = LeadsTo(i, k)
    BY <1>12, <2>1 DEF Collecting
  <2>3. c \in 2..Len(stack') /\ stack'[c] = stack[c] /\ stack'[c - 1].at = stack[c - 1].at
    <3>1. c - 1 \in 1..Len(stack)
      BY <1>1
    <3> QED
      BY <1>1, <3>1
  <2> QED
    BY <2>1, <2>2, <2>3
<1>13. /\ stack'[Len(stack')].at \in Tops
       /\ \A t \in Tops : t <= stack'[Len(stack')].at
  <2>1. Len(stack) \in 1..Len(stack)
    BY <1>1
  <2>2. stack'[Len(stack')].at = stack[Len(stack)].at
    BY <1>1, <2>1
  <2> QED
    BY <2>2 DEF Collecting
<1> QED
  BY <1>1, <1>4, <1>9, <1>10, <1>11, <1>12, <1>13 DEF Collecting

LEMMA ReturnOn ==
    ASSUME Typed, stack # <<>>, objs' = objs, NEW cnt, NEW nx, Counted(cnt, nx),
           Collecting(cnt, nx), NEW x, x = Top.at, Returned,
           NEW n2, n2 = [nx EXCEPT ![x] = Size(x) + 1], Progress(cnt, nx, x, n2)
    PROVE  Collecting(cnt, n2)'
<1>1. /\ Len(stack) \in Nat \ {0} /\ Len(stack') = Len(stack) - 1 /\ x = stack[1].at
      /\ OnStack' = OnStack \ {x}
      /\ \A c \in 1..Len(stack') : c + 1 \in 1..Len(stack) /\ stack'[c] = stack[c + 1]
  BY TopFacts, ReturnOnce, ReturnSet DEF Returned
<1>2. /\ nx[x] <= n2[x] /\ x \in DOMAIN objs
      /\ \A i \in DOMAIN objs : i # x => n2[i] = nx[i]
  BY DEF Progress
<1>3. n2[x] = Size(x) + 1
  <2>1. nx \in [DOMAIN objs -> Nat \ {0}]
    BY Zenon DEF Counted
  <2> QED
    BY <1>2, <2>1
<1>4. ObjCnt' = ObjCnt /\ Tops' = Tops /\ \A i : Size(i)' = Size(i)
  BY SameRows
<1>5. \A c \in 2..Len(stack) : stack[c].at # x /\ stack[c].at \in DOMAIN objs
  <2>1. \A c \in 2..Len(stack) : c \in 1..Len(stack) /\ 1 \in 1..Len(stack) /\ c # 1
    BY <1>1
  <2> QED
    BY <1>1, <2>1 DEF Typed, NoReentry
<1>6. \A c \in 1..Len(stack) :
         /\ objs[stack[c].at].kind # None
         /\ stack[c].rec = RecordOf(objs[stack[c].at].kind)
         /\ stack[c].next = nx[stack[c].at]
  BY DEF Collecting, Calls
<1>7. ASSUME NEW c \in 1..Len(stack')
      PROVE  /\ objs'[stack'[c].at].kind # None
             /\ stack'[c].rec = RecordOf(objs'[stack'[c].at].kind)
             /\ stack'[c].next = n2[stack'[c].at]
  <2>1. c + 1 \in 2..Len(stack) /\ c + 1 \in 1..Len(stack) /\ stack'[c] = stack[c + 1]
    BY <1>1
  <2> QED
    BY <1>2, <1>5, <1>6, <2>1
<1>8. ASSUME NEW c \in 2..Len(stack')
      PROVE  /\ stack'[c].next > 1 /\ IsSet(stack[c].at, stack[c].next - 1)'
             /\ LeadsTo(stack[c].at, stack[c].next - 1)' = stack'[c - 1].at
             /\ stack'[c - 1].at = cnt[stack'[c].at][stack'[c].next - 1] + 1
  <2>1. c + 1 \in 2..Len(stack) /\ c + 1 \in 1..Len(stack) /\ c \in 1..Len(stack')
        /\ c - 1 \in 1..Len(stack') /\ (c - 1) + 1 = c /\ (c + 1) - 1 = c
    BY <1>1
  <2>2. PICK i, k : i = stack[c + 1].at /\ k = stack[c + 1].next - 1
    OBVIOUS
  <2>3. /\ stack[c + 1].next > 1 /\ IsSet(i, k) /\ LeadsTo(i, k) = stack[c].at
        /\ stack[c].at = cnt[i][k] + 1
    BY <2>1, <2>2 DEF Collecting, Calls
  <2>4. i \in DOMAIN objs /\ k \in 1..(nx[i] - 1)
    <3>1. i \in DOMAIN objs /\ stack[c + 1].next = nx[i]
      BY <1>5, <1>6, <2>1, <2>2
    <3>2. nx[i] \in Nat
      BY <3>1, NextFacts
    <3> QED
      BY <2>2, <2>3, <3>1, <3>2
  <2>5. IsSet(i, k)' /\ LeadsTo(i, k)' = LeadsTo(i, k)
    BY <2>3, <2>4, ProgressLinks
  <2>6. stack'[c] = stack[c + 1] /\ stack'[c - 1] = stack[c]
    BY <1>1, <2>1
  <2> QED
    BY <2>2, <2>3, <2>5, <2>6 DEF IsSet, LeadsTo, PathAt
<1>9. Calls(cnt, n2)'
  BY <1>7, <1>8 DEF Calls
<1>10. \A i \in DOMAIN objs : i \notin OnStack' => n2[i] = Size(i) + 1
  BY <1>1, <1>2, <1>3 DEF Collecting
<1>11. ASSUME NEW i \in OnStack', NEW k \in Nat, k >= n2[i] PROVE cnt[i][k] = ObjCnt
  <2>1. i \in DOMAIN objs /\ i # x /\ i \in OnStack
    BY <1>1, OnTable
  <2> QED
    BY <1>2, <1>11, <2>1 DEF Collecting
<1>12. ASSUME NEW i \in DOMAIN objs, NEW k \in 1..(n2[i] - 1), IsSet(i, k)',
              LeadsTo(i, k)' = cnt[i][k] + 1, LeadsTo(i, k)' \in OnStack'
       PROVE  \E c \in 2..Len(stack') : /\ stack'[c].at = i /\ stack'[c].next = k + 1
                                        /\ stack'[c - 1].at = LeadsTo(i, k)'
  <2>1. k \in 1..(nx[i] - 1) /\ IsSet(i, k) /\ LeadsTo(i, k)' = LeadsTo(i, k)
    BY <1>12, ProgressOld
  <2>2. LeadsTo(i, k) \in OnStack /\ LeadsTo(i, k) # x
    BY <1>1, <1>12, <2>1
  <2>3. PICK c \in 2..Len(stack) : /\ stack[c].at = i /\ stack[c].next = k + 1
                                   /\ stack[c - 1].at = LeadsTo(i, k)
    BY <1>12, <2>1, <2>2 DEF Collecting
  <2>4. c # 2
    BY <1>1, <2>2, <2>3
  <2>5. /\ c - 1 \in 2..Len(stack') /\ c - 1 \in 1..Len(stack') /\ (c - 1) + 1 = c
        /\ (c - 1) - 1 \in 1..Len(stack') /\ ((c - 1) - 1) + 1 = c - 1
    BY <1>1, <2>4
  <2>6. stack'[c - 1] = stack[c] /\ stack'[(c - 1) - 1] = stack[c - 1]
    BY <1>1, <2>5
  <2> QED
    BY <2>1, <2>3, <2>5, <2>6
<1>13. ASSUME stack' # <<>>
       PROVE  /\ stack'[Len(stack')].at \in Tops
              /\ \A t \in Tops : t <= stack'[Len(stack')].at
  <2>1. Len(stack') # 0
    <3>1. IsStack(stack')
      BY DEF Returned
    <3> QED
      BY <1>13, <3>1, StackFacts
  <2>2. Len(stack') \in 1..Len(stack') /\ Len(stack') + 1 = Len(stack)
    BY <1>1, <2>1
  <2>3. stack'[Len(stack')].at = stack[Len(stack)].at
    BY <1>1, <2>2
  <2> QED
    BY <2>3 DEF Collecting
<1> QED
  BY <1>1, <1>4, <1>9, <1>10, <1>11, <1>12, <1>13 DEF Collecting

LEMMA GoesOnAgrees ==
    ASSUME WalksAgree, WalkInv, CollectChecked \/ CollectReturn,
           NEW cnt, NEW nx, Shape(cnt, nx), Collecting(cnt, nx)
    PROVE  \E n2 : Shape(cnt, n2)' /\ Collecting(cnt, n2)'
<1>1. /\ Labels /\ Counted(cnt, nx) /\ Ordered(cnt, nx) /\ Runs(cnt) /\ InRow(cnt)
      /\ Typed
  BY DEF Shape, WalkInv
<1>2. PICK x : x = Top.at
  OBVIOUS
<1>3. ASSUME objs' = objs, NEW n2, Progress(cnt, nx, x, n2)
      PROVE  Shape(cnt, n2)'
  BY <1>1, <1>3, SameLabels, ProgressCounted, ProgressOrdered, ProgressRuns, SameRow
     DEF Shape
<1>4. CASE CollectChecked
  <2>1. PICK j : /\ objs' = objs /\ stack # <<>> /\ j \in Nat /\ Resumed(j + 1)
                 /\ Progress(cnt, nx, x, [nx EXCEPT ![x] = j + 1])
    BY <1>1, <1>2, <1>4, CheckedProgress
  <2>2. PICK n2 : n2 = [nx EXCEPT ![x] = j + 1]
    OBVIOUS
  <2>3. Progress(cnt, nx, x, n2)
    BY <2>1, <2>2
  <2>4. Shape(cnt, n2)'
    BY <1>3, <2>1, <2>3
  <2>5. Collecting(cnt, n2)'
    BY <1>1, <1>2, <2>1, <2>2, <2>3, CheckedOn
  <2> QED
    BY <2>4, <2>5
<1>5. CASE CollectReturn
  <2>1. PICK n2 : n2 = [nx EXCEPT ![x] = Size(x) + 1]
    OBVIOUS
  <2>2. objs' = objs /\ stack # <<>> /\ Returned /\ Progress(cnt, nx, x, n2)
    BY <1>1, <1>2, <1>5, <2>1, ReturnProgress
  <2>3. Shape(cnt, n2)'
    BY <1>3, <2>2
  <2>4. Collecting(cnt, n2)'
    BY <1>1, <1>2, <2>1, <2>2, ReturnOn
  <2> QED
    BY <2>3, <2>4
<1> QED
  BY <1>4, <1>5

(***************************************************************************)
(* STEP1 moves its calls; the records stay as the plugin left them.        *)
(***************************************************************************)
(* The calls of STEP1 when x, on top, has come to field j.                 *)
IntoField(cnt, mx, x, j, z, rec, m2) ==
    /\ Calls(cnt, mx) /\ j \in Nat \ {0} /\ z \in DOMAIN objs
    /\ Entered(rec, z, j + 1)
    /\ \A i \in DOMAIN objs : i # x => m2[i] = mx[i]
    /\ m2[x] = j + 1 /\ m2[z] = 1
    /\ objs[z].kind # None /\ rec = RecordOf(objs[z].kind)
    /\ IsSet(x, j) /\ LeadsTo(x, j) = z /\ z = cnt[x][j] + 1

LEMMA EnterCalls ==
    ASSUME Typed, stack # <<>>, UNCHANGED <<objs, heap>>, NEW x, x = Top.at,
           NEW cnt, NEW mx, NEW j, NEW z, NEW rec, NEW m2,
           IntoField(cnt, mx, x, j, z, rec, m2)
    PROVE  /\ Calls(cnt, m2)' /\ OnStack' = OnStack \cup {z} /\ stack' # <<>>
           /\ stack'[1].at = z /\ stack'[1].next = 1
           /\ stack'[Len(stack')].at = stack[Len(stack)].at
<1>0. /\ Calls(cnt, mx) /\ j \in Nat \ {0} /\ z \in DOMAIN objs
      /\ Entered(rec, z, j + 1)
      /\ \A i \in DOMAIN objs : i # x => m2[i] = mx[i]
      /\ m2[x] = j + 1 /\ m2[z] = 1
      /\ objs[z].kind # None /\ rec = RecordOf(objs[z].kind)
      /\ IsSet(x, j) /\ LeadsTo(x, j) = z /\ z = cnt[x][j] + 1
  BY DEF IntoField
<1>1. /\ Len(stack) \in Nat \ {0} /\ Len(stack') = Len(stack) + 1
      /\ x = stack[1].at /\ OnStack' = OnStack \cup {z}
  BY <1>0, TopFacts, EnterSet DEF Entered
<1>2. /\ stack'[1].rec = rec /\ stack'[1].at = z /\ stack'[1].next = 1
      /\ stack'[2].rec = stack[1].rec /\ stack'[2].at = x
      /\ stack'[2].next = j + 1
      /\ \A c \in 3..Len(stack') : stack'[c] = stack[c - 1]
  BY <1>0, <1>1 DEF Entered
<1>3. \A c \in 1..Len(stack) :
         /\ stack[c].at \in DOMAIN objs
         /\ objs[stack[c].at].kind # None
         /\ stack[c].rec = RecordOf(objs[stack[c].at].kind)
         /\ stack[c].next = mx[stack[c].at]
  BY <1>0, AtFacts DEF Calls
<1>4. \A c \in 2..Len(stack) : stack[c].at # x
  <2>1. \A c \in 2..Len(stack) : c \in 1..Len(stack) /\ 1 \in 1..Len(stack) /\ c # 1
    BY <1>1
  <2> QED
    BY <1>1, <2>1 DEF Typed, NoReentry
<1>5. ASSUME NEW c \in 1..Len(stack')
      PROVE  /\ objs'[stack'[c].at].kind # None
             /\ stack'[c].rec = RecordOf(objs'[stack'[c].at].kind)
             /\ stack'[c].next = m2[stack'[c].at]
  <2>1. CASE c = 1
    BY <1>0, <1>2, <2>1
  <2>2. CASE c = 2
    <3>1. 1 \in 1..Len(stack)
      BY <1>1
    <3> QED
      BY <1>0, <1>1, <1>2, <1>3, <2>2, <3>1
  <2>3. CASE c > 2
    <3>1. c \in 3..Len(stack') /\ c - 1 \in 1..Len(stack) /\ c - 1 \in 2..Len(stack)
      BY <1>1, <2>3
    <3> QED
      BY <1>0, <1>2, <1>3, <1>4, <3>1
  <2> QED
    BY <1>1, <2>1, <2>2, <2>3
<1>6. \A i, k : IsSet(i, k)' = IsSet(i, k) /\ LeadsTo(i, k)' = LeadsTo(i, k)
  BY DEF IsSet, LeadsTo, PathAt
<1>7. ASSUME NEW c \in 2..Len(stack')
      PROVE  /\ stack'[c].next > 1 /\ IsSet(stack[c].at, stack[c].next - 1)'
             /\ LeadsTo(stack[c].at, stack[c].next - 1)' = stack'[c - 1].at
             /\ stack'[c - 1].at = cnt[stack'[c].at][stack'[c].next - 1] + 1
  <2>1. CASE c = 2
    <3>1. stack'[c].at = x /\ stack'[c].next = j + 1 /\ stack'[c - 1].at = z
          /\ stack'[c].next - 1 = j /\ stack'[c].next > 1
      BY <1>0, <1>2, <2>1
    <3>2. IsSet(x, j)' /\ LeadsTo(x, j)' = z
      BY <1>0, <1>6
    <3> QED
      BY <1>0, <3>1, <3>2 DEF IsSet, LeadsTo, PathAt
  <2>2. CASE c > 2
    <3>1. /\ c \in 3..Len(stack') /\ c - 1 \in 1..Len(stack) /\ c - 1 \in 2..Len(stack)
      BY <1>1, <2>2
    <3>2. PICK i, k : i = stack[c - 1].at /\ k = stack[c - 1].next - 1
      OBVIOUS
    <3>3. /\ stack[c - 1].next > 1 /\ IsSet(i, k)
          /\ LeadsTo(i, k) = stack[(c - 1) - 1].at
          /\ stack[(c - 1) - 1].at = cnt[i][k] + 1
      BY <1>0, <3>1, <3>2 DEF Calls
    <3>4. IsSet(i, k)' /\ LeadsTo(i, k)' = LeadsTo(i, k)
      BY <1>6, <3>3
    <3>5. stack'[c] = stack[c - 1] /\ stack'[c - 1].at = stack[(c - 1) - 1].at
      <4>1. stack'[c] = stack[c - 1]
        BY <1>2, <3>1
      <4>2. CASE c = 3
        BY <1>1, <1>2, <4>1, <4>2
      <4>3. CASE c # 3
        <5>1. c - 1 \in 3..Len(stack')
          BY <1>1, <2>2, <4>3
        <5> QED
          BY <1>2, <4>1, <5>1
      <4> QED
        BY <4>2, <4>3
    <3> QED
      BY <3>2, <3>3, <3>4, <3>5 DEF IsSet, LeadsTo, PathAt
  <2> QED
    BY <1>1, <2>1, <2>2
<1>8. Calls(cnt, m2)'
  BY <1>5, <1>7 DEF Calls
<1>9. stack'[Len(stack')].at = stack[Len(stack)].at
  <2>1. PICK m, n : m = Len(stack) /\ n = Len(stack')
    OBVIOUS
  <2>2. m \in Nat \ {0} /\ n = m + 1
    BY <1>1, <2>1
  <2>3. CASE m = 1
    BY <1>1, <1>2, <2>1, <2>2, <2>3
  <2>4. CASE m # 1
    <3>1. n \in 3..n /\ n - 1 = m
      BY <2>2, <2>4
    <3> QED
      BY <1>2, <2>1, <3>1
  <2> QED
    BY <2>3, <2>4
<1>10. stack' # <<>>
  <2>1. IsStack(stack') /\ Len(stack') # 0
    BY <1>0, <1>1 DEF Entered
  <2> QED
    BY <2>1, StackFacts
<1> QED
  BY <1>1, <1>2, <1>8, <1>9, <1>10

LEMMA ResumeCalls ==
    ASSUME Typed, stack # <<>>, UNCHANGED <<objs, heap>>, NEW cnt, NEW mx,
           Calls(cnt, mx), NEW x, x = Top.at, NEW j \in Nat, Resumed(j + 1), NEW m2,
           \A i \in DOMAIN objs : i # x => m2[i] = mx[i], m2[x] = j + 1
    PROVE  /\ Calls(cnt, m2)' /\ OnStack' = OnStack /\ stack' # <<>>
           /\ stack'[1].at = x /\ stack'[1].next = j + 1
           /\ stack'[Len(stack')].at = stack[Len(stack)].at
<1>1. /\ Len(stack) \in Nat \ {0} /\ Len(stack') = Len(stack) /\ x = stack[1].at
      /\ stack'[1].rec = stack[1].rec /\ stack'[1].at = x
      /\ stack'[1].next = j + 1 /\ OnStack' = OnStack
      /\ \A c \in 2..Len(stack) : stack'[c] = stack[c]
      /\ \A c \in 1..Len(stack) : stack'[c].at = stack[c].at
  BY TopFacts, ResumeOnce, ResumeSet DEF Resumed
<1>2. \A c \in 2..Len(stack) : stack[c].at # x /\ stack[c].at \in DOMAIN objs
  <2>1. \A c \in 2..Len(stack) : c \in 1..Len(stack) /\ 1 \in 1..Len(stack) /\ c # 1
    BY <1>1
  <2> QED
    BY <1>1, <2>1 DEF Typed, NoReentry
<1>3. \A c \in 1..Len(stack) :
         /\ objs[stack[c].at].kind # None
         /\ stack[c].rec = RecordOf(objs[stack[c].at].kind)
         /\ stack[c].next = mx[stack[c].at]
  BY DEF Calls
<1>4. ASSUME NEW c \in 1..Len(stack')
      PROVE  /\ objs'[stack'[c].at].kind # None
             /\ stack'[c].rec = RecordOf(objs'[stack'[c].at].kind)
             /\ stack'[c].next = m2[stack'[c].at]
  <2>1. CASE c = 1
    <3>1. 1 \in 1..Len(stack)
      BY <1>1
    <3> QED
      BY <1>1, <1>3, <2>1, <3>1
  <2>2. CASE c # 1
    <3>1. c \in 2..Len(stack) /\ c \in 1..Len(stack)
      BY <1>1, <2>2
    <3> QED
      BY <1>1, <1>2, <1>3, <3>1
  <2> QED
    BY <2>1, <2>2
<1>5. ASSUME NEW c \in 2..Len(stack')
      PROVE  /\ stack'[c].next > 1 /\ IsSet(stack[c].at, stack[c].next - 1)'
             /\ LeadsTo(stack[c].at, stack[c].next - 1)' = stack'[c - 1].at
             /\ stack'[c - 1].at = cnt[stack'[c].at][stack'[c].next - 1] + 1
  <2>1. c \in 2..Len(stack) /\ c - 1 \in 1..Len(stack)
    BY <1>1
  <2>2. PICK i, k : i = stack[c].at /\ k = stack[c].next - 1
    OBVIOUS
  <2>3. /\ stack[c].next > 1 /\ IsSet(i, k) /\ LeadsTo(i, k) = stack[c - 1].at
        /\ stack[c - 1].at = cnt[i][k] + 1
    BY <2>1, <2>2 DEF Calls
  <2>4. stack'[c] = stack[c] /\ stack'[c - 1].at = stack[c - 1].at
    BY <1>1, <2>1
  <2> QED
    BY <2>2, <2>3, <2>4 DEF IsSet, LeadsTo, PathAt
<1>6. Calls(cnt, m2)'
  BY <1>4, <1>5 DEF Calls
<1>7. stack'[Len(stack')].at = stack[Len(stack)].at
  <2>1. Len(stack) \in 1..Len(stack)
    BY <1>1
  <2> QED
    BY <1>1, <2>1
<1>8. stack' # <<>>
  <2>1. IsStack(stack') /\ Len(stack') # 0
    BY <1>1 DEF Resumed
  <2> QED
    BY <2>1, StackFacts
<1> QED
  BY <1>1, <1>6, <1>7, <1>8

LEMMA ReturnCalls ==
    ASSUME Typed, stack # <<>>, UNCHANGED <<objs, heap>>, NEW cnt, NEW mx,
           Calls(cnt, mx), NEW x, x = Top.at, Returned, NEW m2,
           \A i \in DOMAIN objs : i # x => m2[i] = mx[i]
    PROVE  /\ Calls(cnt, m2)' /\ OnStack' = OnStack \ {x}
           /\ stack' = <<>> => x = stack[Len(stack)].at
           /\ stack' # <<>> => /\ 2 \in 2..Len(stack) /\ stack'[1] = stack[2]
                               /\ stack'[Len(stack')].at = stack[Len(stack)].at
<1>1. /\ Len(stack) \in Nat \ {0} /\ Len(stack') = Len(stack) - 1 /\ x = stack[1].at
      /\ OnStack' = OnStack \ {x}
      /\ \A c \in 1..Len(stack') : c + 1 \in 1..Len(stack) /\ stack'[c] = stack[c + 1]
  BY TopFacts, ReturnOnce, ReturnSet DEF Returned
<1>2. \A c \in 2..Len(stack) : stack[c].at # x /\ stack[c].at \in DOMAIN objs
  <2>1. \A c \in 2..Len(stack) : c \in 1..Len(stack) /\ 1 \in 1..Len(stack) /\ c # 1
    BY <1>1
  <2> QED
    BY <1>1, <2>1 DEF Typed, NoReentry
<1>3. \A c \in 1..Len(stack) :
         /\ objs[stack[c].at].kind # None
         /\ stack[c].rec = RecordOf(objs[stack[c].at].kind)
         /\ stack[c].next = mx[stack[c].at]
  BY DEF Calls
<1>4. ASSUME NEW c \in 1..Len(stack')
      PROVE  /\ objs'[stack'[c].at].kind # None
             /\ stack'[c].rec = RecordOf(objs'[stack'[c].at].kind)
             /\ stack'[c].next = m2[stack'[c].at]
  <2>1. c + 1 \in 2..Len(stack) /\ c + 1 \in 1..Len(stack) /\ stack'[c] = stack[c + 1]
    BY <1>1
  <2> QED
    BY <1>2, <1>3, <2>1
<1>5. ASSUME NEW c \in 2..Len(stack')
      PROVE  /\ stack'[c].next > 1 /\ IsSet(stack[c].at, stack[c].next - 1)'
             /\ LeadsTo(stack[c].at, stack[c].next - 1)' = stack'[c - 1].at
             /\ stack'[c - 1].at = cnt[stack'[c].at][stack'[c].next - 1] + 1
  <2>1. c + 1 \in 2..Len(stack) /\ c \in 1..Len(stack')
        /\ c - 1 \in 1..Len(stack') /\ (c - 1) + 1 = c /\ (c + 1) - 1 = c
    BY <1>1
  <2>2. PICK i, k : i = stack[c + 1].at /\ k = stack[c + 1].next - 1
    OBVIOUS
  <2>3. /\ stack[c + 1].next > 1 /\ IsSet(i, k) /\ LeadsTo(i, k) = stack[c].at
        /\ stack[c].at = cnt[i][k] + 1
    BY <2>1, <2>2 DEF Calls
  <2>4. stack'[c] = stack[c + 1] /\ stack'[c - 1] = stack[c]
    BY <1>1, <2>1
  <2> QED
    BY <2>2, <2>3, <2>4 DEF IsSet, LeadsTo, PathAt
<1>6. Calls(cnt, m2)'
  BY <1>4, <1>5 DEF Calls
<1>7. IsStack(stack')
  BY DEF Returned
<1>8. stack' = <<>> => x = stack[Len(stack)].at
  <2> HAVE stack' = <<>>
  <2>1. PICK m : m = Len(stack)
    OBVIOUS
  <2>2. Len(stack') = 0
    BY <1>7, StackFacts
  <2>3. m \in Nat /\ m - 1 = 0
    BY <1>1, <2>1, <2>2
  <2>4. m = 1
    BY <2>3
  <2> QED
    BY <1>1, <2>1, <2>4
<1>9. ASSUME stack' # <<>>
      PROVE  /\ 2 \in 2..Len(stack) /\ stack'[1] = stack[2]
             /\ stack'[Len(stack')].at = stack[Len(stack)].at
  <2>1. Len(stack') # 0
    BY <1>7, <1>9, StackFacts
  <2>2. /\ Len(stack') \in 1..Len(stack') /\ Len(stack') + 1 = Len(stack)
        /\ 1 \in 1..Len(stack') /\ 2 \in 2..Len(stack)
    BY <1>1, <2>1
  <2> QED
    BY <1>1, <2>2
<1> QED
  BY <1>1, <1>6, <1>8, <1>9


(***************************************************************************)
(* STEP1 where the two walks agree                                         *)
(***************************************************************************)
(* The object table does not change any more.                              *)
LEMMA SameFields ==
    ASSUME Typed, UNCHANGED <<objs, heap>>
    PROVE  /\ \A i, k : IsSet(i, k)' = IsSet(i, k) /\ LeadsTo(i, k)' = LeadsTo(i, k)
           /\ Collected' = Collected
<1>1. /\ \A i : Size(i)' = Size(i)
      /\ \A i, k : PathAt(i, k)' = PathAt(i, k)
  BY SameRows
<1>2. Collected' = Collected
  BY <1>1 DEF Collected
<1> QED
  BY <1>1, <1>2 DEF IsSet, LeadsTo

LEMMA SameShape ==
    ASSUME Typed, UNCHANGED <<objs, heap>>, NEW cnt, NEW nx, Shape(cnt, nx)
    PROVE  Shape(cnt, nx)'
<1>1. /\ \A i : Size(i)' = Size(i)
      /\ \A i, k : PathAt(i, k)' = PathAt(i, k) /\ TargetAt(i, k)' = TargetAt(i, k)
      /\ \A c, i : End(c, i)' = End(c, i)
      /\ \A i, k : IsSet(i, k)' = IsSet(i, k) /\ LeadsTo(i, k)' = LeadsTo(i, k)
  BY SameRows, SameFields
<1>2. Labels' /\ InRow(cnt)'
  BY SameLabels, SameRow DEF Shape
<1>3. Counted(cnt, nx)'
  BY <1>1 DEF Shape, Counted
<1>4. Ordered(cnt, nx)'
  <2>1. \A i, k : /\ OldField(cnt, i, k)' <=> OldField(cnt, i, k)
                  /\ NewField(cnt, i, k)' <=> NewField(cnt, i, k)
    <3> TAKE i, k
    <3>1. PICK z : z = LeadsTo(i, k)
      OBVIOUS
    <3>2. LeadsTo(i, k)' = z /\ TargetAt(i, k)' = TargetAt(i, k)
          /\ End(cnt, z)' = End(cnt, z)
      BY <1>1, <3>1
    <3> QED
      BY <3>1, <3>2 DEF OldField, NewField
  <2> QED
    BY <1>1, <2>1 DEF Shape, Ordered
<1>5. Runs(cnt)'
  BY <1>1 DEF Shape, Runs
<1> QED
  BY <1>2, <1>3, <1>4, <1>5 DEF Shape

(* The field where STEP1 stops is the next one the plugin found set.       *)
LEMMA StopFacts ==
    ASSUME WalksAgree, WalkInv, phase = "adjust", stack # <<>>, NEW cnt, NEW mx, NEW n,
           Counted(cnt, Collected), Copies(mx, n), Calls(cnt, mx), NEW x, x = Top.at
    PROVE  /\ \A j \in NextStop :
                 /\ j \in 1..Size(x) /\ j >= mx[x] /\ IsSet(x, j)
                 /\ \A k \in mx[x]..(j - 1) : ~IsSet(x, k)
                 /\ Item(j)[1] = PathAt(x, j) /\ Item(j)[2] = TargetAt(x, j)
                 /\ Field(j) = [to |-> LeadsTo(x, j), real |-> FALSE]
           /\ NextStop = {} => \A k \in mx[x]..Size(x) : ~IsSet(x, k)
<1>1. Typed /\ x \in DOMAIN objs
  BY TopFacts DEF WalkInv
<1>2. /\ Adjusts = Collects /\ Top.next = mx[x]
      /\ Len(Adjusts[Top.rec]) = Size(x)
      /\ \A k : /\ Adjusts[Top.rec][k][1] = PathAt(x, k)
                /\ Adjusts[Top.rec][k][2] = TargetAt(x, k)
  BY <1>1, TopWalk DEF WalksAgree
<1>3. /\ mx[x] \in Nat \ {0} /\ Size(x) \in Nat
      /\ DOMAIN image[x] = DOMAIN heap[x]
  BY <1>1, SizeFacts DEF Copies
<1>4. \A k \in 1..Size(x) : TargetAt(x, k) = "location" => IsSet(x, k)
  <2>1. Collected[x] = Size(x) + 1
    BY <1>1 DEF Collected
  <2>2. \A k \in 1..(Collected[x] - 1) : TargetAt(x, k) = "location" => IsSet(x, k)
    BY <1>1, Zenon DEF Counted
  <2>3. 1..(Collected[x] - 1) = 1..Size(x)
    BY <1>3, <2>1
  <2> QED
    BY <2>2, <2>3
<1>5. \A k \in 1..Size(x) :
         Stops(Adjusts[Top.rec][k], image[Top.at]) <=> IsSet(x, k)
  BY <1>2, <1>3, <1>4 DEF Stops, IsSet
<1>6. \A j : j \in NextStop <=>
         /\ j \in mx[x]..Size(x) /\ IsSet(x, j)
         /\ \A k \in mx[x]..(j - 1) : ~IsSet(x, k)
  <2> TAKE j
  <2>1. CASE j \in mx[x]..Size(x)
    <3>1. j \in 1..Size(x) /\ \A k \in mx[x]..(j - 1) : k \in 1..Size(x)
      BY <1>3, <2>1
    <3> QED
      BY <1>2, <1>5, <2>1, <3>1 DEF NextStop
  <2>2. CASE j \notin mx[x]..Size(x)
    BY <1>2, <2>2 DEF NextStop
  <2> QED
    BY <2>1, <2>2
<1>7. ASSUME NEW j \in NextStop
      PROVE  /\ j \in 1..Size(x) /\ j >= mx[x] /\ IsSet(x, j)
             /\ \A k \in mx[x]..(j - 1) : ~IsSet(x, k)
             /\ Item(j)[1] = PathAt(x, j) /\ Item(j)[2] = TargetAt(x, j)
             /\ Field(j) = [to |-> LeadsTo(x, j), real |-> FALSE]
  <2>1. /\ j \in 1..Size(x) /\ j >= mx[x] /\ IsSet(x, j)
        /\ \A k \in mx[x]..(j - 1) : ~IsSet(x, k)
    BY <1>3, <1>6
  <2>2. Item(j)[1] = PathAt(x, j) /\ Item(j)[2] = TargetAt(x, j)
    BY <1>2 DEF Item
  <2>3. image[x][PathAt(x, j)] = [to |-> LeadsTo(x, j), real |-> j < mx[x]]
    BY <1>1, <2>1 DEF Copies
  <2>4. (j < mx[x]) = FALSE
    BY <1>3, <2>1
  <2> QED
    BY <2>1, <2>2, <2>3, <2>4 DEF Field
<1>8. ASSUME NextStop = {}, NEW m \in mx[x]..Size(x), IsSet(x, m)
      PROVE  FALSE
  <2> DEFINE T == {k \in mx[x]..Size(x) : IsSet(x, k)}
  <2>1. T \subseteq Nat /\ T # {}
    BY <1>3, <1>8
  <2>2. PICK j \in T : \A k \in T : j <= k
    <3> HIDE DEF T
    <3> QED
      BY <2>1, LeastOf
  <2>3. \A k \in mx[x]..(j - 1) : ~IsSet(x, k)
    BY <1>3, <2>2
  <2> QED
    BY <1>6, <1>8, <2>2, <2>3
<1> QED
  BY <1>7, <1>8


(* STEP1 puts the address of the copy into field j of x, which is the next *)
(* one that is set.                                                        *)
LEMMA ResolvedCopies ==
    ASSUME WalksAgree, Typed, UNCHANGED <<objs, heap>>, NEW mx, NEW n, Copies(mx, n),
           NEW x \in OnStack, x \in DOMAIN objs, NEW j \in 1..Size(x), j >= mx[x],
           \A k \in mx[x]..(j - 1) : ~IsSet(x, k), IsSet(x, j),
           n \in DOMAIN objs, x <= n, DOMAIN image = DOMAIN objs,
           image' = Put(x, PathAt(x, j), LeadsTo(x, j), TRUE),
           OnStack \subseteq OnStack',
           NEW n2, n2 = n \/ (n2 = n + 1 /\ n2 \in OnStack'),
           NEW m2, m2 = [mx EXCEPT ![x] = j + 1]
    PROVE  Copies(m2, n2)'
<1>1. /\ mx \in [DOMAIN objs -> Nat \ {0}] /\ j + 1 \in Nat \ {0}
      /\ n \in Nat
  <2>1. j \in Nat /\ n \in Nat
    BY SizeFacts
  <2> QED
    BY <2>1 DEF Copies
<1>2. /\ m2 \in [DOMAIN objs -> Nat \ {0}] /\ m2[x] = j + 1
      /\ \A i \in DOMAIN objs : i # x => m2[i] = mx[i]
  BY <1>1
<1>3. /\ \A i : Size(i)' = Size(i)
      /\ \A i, k : PathAt(i, k)' = PathAt(i, k)
      /\ \A i, k : IsSet(i, k)' = IsSet(i, k) /\ LeadsTo(i, k)' = LeadsTo(i, k)
  BY SameRows, SameFields
<1>4. PICK p, v : p = PathAt(x, j) /\ v = [to |-> LeadsTo(x, j), real |-> TRUE]
  OBVIOUS
<1>5. /\ \A i \in DOMAIN objs : i # x => image'[i] = image[i]
      /\ image'[x] = With(image[x], p, v)
  BY <1>4 DEF Put
<1>6. DOMAIN image[x] = DOMAIN heap[x] /\ p \in DOMAIN heap[x]
  BY <1>4 DEF Copies, IsSet
<1>7. /\ DOMAIN image'[x] = DOMAIN heap[x]
      /\ \A q \in DOMAIN heap[x] : image'[x][q] = IF q = p THEN v ELSE image[x][q]
  BY <1>5, <1>6 DEF With
<1>8. ASSUME NEW k \in 1..Size(x), IsSet(x, k)
      PROVE  image'[x][PathAt(x, k)] = [to |-> LeadsTo(x, k), real |-> k < j + 1]
  <2>1. /\ k \in Nat /\ j \in Nat /\ Size(x) \in Nat /\ mx[x] \in Nat
        /\ PathAt(x, k) \in DOMAIN heap[x]
    BY <1>1, <1>8, SizeFacts DEF IsSet
  <2>2. CASE k = j
    <3>1. (k < j + 1) = TRUE
      BY <2>1, <2>2
    <3> QED
      BY <1>4, <1>7, <2>1, <2>2, <3>1
  <2>3. CASE k # j
    <3>1. PathAt(x, k) # p
      BY <1>4, <2>3, PathFacts
    <3>2. image[x][PathAt(x, k)] = [to |-> LeadsTo(x, k), real |-> k < mx[x]]
      BY <1>8 DEF Copies
    <3>3. ~ (k \in mx[x]..(j - 1))
      BY <1>8
    <3>4. (k < j + 1) = (k < mx[x])
      BY <2>1, <2>3, <3>3
    <3> QED
      BY <1>7, <2>1, <3>1, <3>2, <3>4
  <2> QED
    BY <2>2, <2>3
<1>9. ASSUME NEW i \in DOMAIN objs
      PROVE  /\ m2[i] <= Size(i) + 1
             /\ i > n2 => m2[i] = 1
             /\ i <= n2 /\ i \notin OnStack' => m2[i] = Size(i) + 1
             /\ DOMAIN image'[i] = DOMAIN heap[i]
             /\ \A k \in 1..Size(i) : IsSet(i, k) =>
                   image'[i][PathAt(i, k)] = [to |-> LeadsTo(i, k), real |-> k < m2[i]]
  <2>1. i \in Nat /\ x \in Nat
    BY SizeFacts
  <2>2. CASE i = x
    <3>1. j + 1 <= Size(x) + 1
      BY SizeFacts
    <3>2. ~ (x > n2)
      BY <1>1, <2>1
    <3> QED
      BY <1>2, <1>7, <1>8, <2>2, <3>1, <3>2
  <2>3. CASE i # x
    <3>1. /\ mx[i] <= Size(i) + 1 /\ DOMAIN image[i] = DOMAIN heap[i]
          /\ i > n => mx[i] = 1
          /\ i <= n /\ i \notin OnStack => mx[i] = Size(i) + 1
          /\ \A k \in 1..Size(i) : IsSet(i, k) =>
                image[i][PathAt(i, k)] = [to |-> LeadsTo(i, k), real |-> k < mx[i]]
      BY DEF Copies
    <3>2. i > n2 => i > n
      BY <1>1, <2>1
    <3>3. i <= n2 /\ i \notin OnStack' => i <= n /\ i \notin OnStack
      BY <1>1, <2>1
    <3> QED
      BY <1>2, <1>5, <2>3, <3>1, <3>2, <3>3
  <2> QED
    BY <2>2, <2>3
<1> QED
  BY <1>2, <1>3, <1>9 DEF Copies

(* STEP1 leaves the fields alone.                                          *)
LEMMA SameCopies ==
    ASSUME Typed, UNCHANGED <<objs, heap, image>>, NEW mx, NEW n, Copies(mx, n),
           n \in DOMAIN objs, OnStack = {},
           NEW n2, \/ n2 = n
                   \/ /\ n2 = n + 1 /\ n2 \in DOMAIN objs
                      /\ n2 \in OnStack' \/ Size(n2) = 0
    PROVE  Copies(mx, n2)'
<1>1. /\ \A i : Size(i)' = Size(i)
      /\ \A i, k : PathAt(i, k)' = PathAt(i, k)
      /\ \A i, k : IsSet(i, k)' = IsSet(i, k) /\ LeadsTo(i, k)' = LeadsTo(i, k)
  BY SameRows, SameFields
<1>2. ASSUME NEW i \in DOMAIN objs
      PROVE  /\ mx[i] <= Size(i) + 1
             /\ i > n2 => mx[i] = 1
             /\ i <= n2 /\ i \notin OnStack' => mx[i] = Size(i) + 1
             /\ DOMAIN image[i] = DOMAIN heap[i]
             /\ \A k \in 1..Size(i) : IsSet(i, k) =>
                   image[i][PathAt(i, k)] = [to |-> LeadsTo(i, k), real |-> k < mx[i]]
  <2>1. i \in Nat /\ n \in Nat
    BY SizeFacts
  <2>2. /\ mx[i] <= Size(i) + 1 /\ DOMAIN image[i] = DOMAIN heap[i]
        /\ i > n => mx[i] = 1
        /\ i <= n => mx[i] = Size(i) + 1
        /\ \A k \in 1..Size(i) : IsSet(i, k) =>
              image[i][PathAt(i, k)] = [to |-> LeadsTo(i, k), real |-> k < mx[i]]
    BY Zenon DEF Copies
  <2>3. i > n2 => i > n
    BY <2>1
  <2>4. i <= n2 /\ i \notin OnStack' => mx[i] = Size(i) + 1
    BY <2>1, <2>2
  <2> QED
    BY <2>2, <2>3, <2>4
<1>3. mx \in [DOMAIN objs -> Nat \ {0}]
  BY DEF Copies
<1> QED
  BY <1>1, <1>2, <1>3 DEF Copies

(* The walk of x is over: its other fields are NULL.                       *)
LEMMA ReturnedCopies ==
    ASSUME Typed, UNCHANGED <<objs, heap, image>>, NEW mx, NEW n, Copies(mx, n),
           NEW x \in DOMAIN objs, x <= n, n \in DOMAIN objs,
           \A k \in mx[x]..Size(x) : ~IsSet(x, k),
           OnStack' = OnStack \ {x}, NEW m2, m2 = [mx EXCEPT ![x] = Size(x) + 1]
    PROVE  Copies(m2, n)'
<1>1. /\ \A i : Size(i)' = Size(i)
      /\ \A i, k : PathAt(i, k)' = PathAt(i, k)
      /\ \A i, k : IsSet(i, k)' = IsSet(i, k) /\ LeadsTo(i, k)' = LeadsTo(i, k)
  BY SameRows, SameFields
<1>2. mx \in [DOMAIN objs -> Nat \ {0}] /\ Size(x) \in Nat
  BY SizeFacts DEF Copies
<1>3. /\ m2 \in [DOMAIN objs -> Nat \ {0}] /\ m2[x] = Size(x) + 1
      /\ \A i \in DOMAIN objs : i # x => m2[i] = mx[i]
  BY <1>2
<1>4. ASSUME NEW i \in DOMAIN objs
      PROVE  /\ m2[i] <= Size(i) + 1
             /\ i > n => m2[i] = 1
             /\ i <= n /\ i \notin OnStack' => m2[i] = Size(i) + 1
             /\ DOMAIN image[i] = DOMAIN heap[i]
             /\ \A k \in 1..Size(i) : IsSet(i, k) =>
                   image[i][PathAt(i, k)] = [to |-> LeadsTo(i, k), real |-> k < m2[i]]
  <2>1. /\ mx[i] <= Size(i) + 1 /\ DOMAIN image[i] = DOMAIN heap[i]
        /\ i > n => mx[i] = 1
        /\ i <= n /\ i \notin OnStack => mx[i] = Size(i) + 1
        /\ \A k \in 1..Size(i) : IsSet(i, k) =>
              image[i][PathAt(i, k)] = [to |-> LeadsTo(i, k), real |-> k < mx[i]]
    BY DEF Copies
  <2>2. CASE i = x
    <3>1. ~ (x > n) /\ Size(x) + 1 <= Size(x) + 1
      <4>1. x \in Nat /\ n \in Nat
        BY SizeFacts
      <4> QED
        BY <1>2, <4>1
    <3>2. ASSUME NEW k \in 1..Size(x), IsSet(x, k)
          PROVE  (k < mx[x]) = (k < Size(x) + 1)
      <4>1. ~ (k \in mx[x]..Size(x))
        BY <3>2
      <4> QED
        BY <1>2, <4>1
    <3> QED
      BY <1>3, <2>1, <2>2, <3>1, <3>2
  <2>3. CASE i # x
    BY <1>3, <2>1, <2>3
  <2> QED
    BY <2>2, <2>3
<1> QED
  BY <1>1, <1>3, <1>4 DEF Copies


(* j is the next field of x that is set.                                   *)
NextSet(mx, x, j) ==
    /\ j \in 1..Size(x) /\ j >= mx[x] /\ IsSet(x, j)
    /\ \A k \in mx[x]..(j - 1) : ~IsSet(x, k)

LEMMA TopAdjusted ==
    ASSUME WalkInv, phase = "adjust", stack # <<>>, NEW cnt, NEW mx, NEW n,
           Adjusting(cnt, mx, n), NEW x, x = Top.at
    PROVE  /\ x \in DOMAIN objs /\ x \in OnStack /\ n \in DOMAIN objs /\ x <= n
           /\ n \in Nat /\ x \in Nat \ {0} /\ mx[x] \in Nat \ {0}
           /\ mx \in [DOMAIN objs -> Nat \ {0}]
           /\ adjusted = 1..n /\ n = cnt[x][mx[x]]
           /\ DOMAIN image = DOMAIN objs
<1>1. /\ Typed /\ Len(stack) \in Nat \ {0} /\ 1 \in 1..Len(stack) /\ x = stack[1].at
      /\ x \in DOMAIN objs /\ DOMAIN image = DOMAIN objs
      /\ \A c \in 1..Len(stack) : stack[c].at \in adjusted
  BY TopFacts DEF WalkInv, Marks
<1>2. /\ n \in DOMAIN objs /\ adjusted = 1..n /\ n = cnt[stack[1].at][stack[1].next]
      /\ stack[1].next = mx[stack[1].at] /\ mx \in [DOMAIN objs -> Nat \ {0}]
  BY <1>1 DEF Adjusting, Calls, Copies
<1>3. n \in Nat /\ x \in Nat \ {0} /\ x \in 1..n
  BY <1>1, <1>2, SizeFacts
<1> QED
  BY <1>1, <1>2, <1>3 DEF OnStack

(* Nothing was saved between two fields that are set one after the other.  *)
LEMMA StopCount ==
    ASSUME WalkInv, phase = "adjust", stack # <<>>, NEW cnt, NEW mx, NEW n,
           Shape(cnt, Collected), Adjusting(cnt, mx, n), NEW x, x = Top.at, NEW j,
           NextSet(mx, x, j)
    PROVE  /\ cnt[x][j] = n
           /\ OldField(cnt, x, j) \/ NewField(cnt, x, j)
<1>1. /\ x \in DOMAIN objs /\ mx[x] \in Nat \ {0} /\ n = cnt[x][mx[x]]
      /\ Size(x) \in Nat
  BY TopAdjusted, SizeFacts DEF WalkInv
<1>2. j \in 1..Size(x) /\ j >= mx[x] /\ IsSet(x, j)
      /\ \A k \in mx[x]..(j - 1) : ~IsSet(x, k)
  BY DEF NextSet
<1>3. mx[x] \in 1..(Size(x) + 1) /\ j \in 1..(Size(x) + 1) /\ mx[x] <= j
  BY <1>1, <1>2
<1>4. cnt[x][j] = n
  BY <1>1, <1>2, <1>3, Zenon DEF Shape, Runs
<1>5. Collected[x] - 1 = Size(x)
  BY <1>1 DEF Collected
<1>6. j \in 1..(Collected[x] - 1)
  BY <1>2, <1>5
<1>7. OldField(cnt, x, j) \/ NewField(cnt, x, j)
  BY <1>1, <1>2, <1>6 DEF Shape, Ordered
<1> QED
  BY <1>4, <1>7

(* The walk stays below the same object.                                   *)
LEMMA SamePlace ==
    ASSUME Typed, UNCHANGED <<objs, gvar>>, NEW cnt, NEW n, Place(cnt, n),
           stack # <<>>, stack' # <<>>, n \in Nat,
           stack'[Len(stack')].at = stack[Len(stack)].at, NEW n2 \in Nat, n2 >= n
    PROVE  Place(cnt, n2)'
<1>1. gvar \in Nat
  BY DEF Typed
<1>2. PICK t \in Tops : /\ t = stack[Len(stack)].at
                        /\ gvar <= n + 1 /\ (t = 1 \/ t < gvar)
                        /\ \A s \in Tops : s > t => s >= gvar
  BY DEF Place
<1>3. gvar <= n2 + 1
  BY <1>1, <1>2
<1>4. Tops' = Tops /\ gvar' = gvar
  BY SameRows
<1> QED
  BY <1>2, <1>3, <1>4 DEF Place

LEMMA EnterAdjusts ==
    ASSUME WalksAgree, WalkInv, phase = "adjust", stack # <<>>,
           UNCHANGED <<objs, heap>>, UNCHANGED <<gvar, gptr>>, NEW cnt, NEW mx, NEW n,
           Shape(cnt, Collected), Adjusting(cnt, mx, n), NEW x, x = Top.at, NEW j,
           NextSet(mx, x, j), NEW z \in DOMAIN objs, z = LeadsTo(x, j), z = n + 1,
           objs[z].kind # None, Enters(z, RecordOf(objs[z].kind), j + 1),
           image' = Put(x, PathAt(x, j), z, TRUE)
    PROVE  \E m2, n2 : Adjusting(cnt, m2, n2)'
<1>1. /\ x \in DOMAIN objs /\ x \in OnStack /\ n \in DOMAIN objs /\ x <= n /\ n \in Nat
      /\ x \in Nat /\ mx \in [DOMAIN objs -> Nat \ {0}] /\ adjusted = 1..n
      /\ DOMAIN image = DOMAIN objs /\ Typed
  BY TopAdjusted DEF WalkInv
<1>2. /\ j \in 1..Size(x) /\ j >= mx[x] /\ IsSet(x, j) /\ j \in Nat \ {0}
      /\ \A k \in mx[x]..(j - 1) : ~IsSet(x, k)
  BY <1>1, SizeFacts DEF NextSet
<1>3. /\ Copies(mx, n) /\ Calls(cnt, mx) /\ Place(cnt, n) /\ Entries
  BY DEF Adjusting
<1>4. cnt[x][j] = n /\ cnt[z][1] = z /\ z = cnt[x][j] + 1
  <2>1. cnt[x][j] = n
    BY StopCount
  <2>2. cnt[z][1] = z
    BY Zenon DEF Shape, Counted
  <2> QED
    BY <2>1, <2>2
<1>5. mx[z] = 1 /\ z # x
  BY <1>1, <1>3 DEF Copies
<1>6. PICK m2 : m2 = [mx EXCEPT ![x] = j + 1]
  OBVIOUS
<1>7. m2[x] = j + 1 /\ \A i \in DOMAIN objs : i # x => m2[i] = mx[i]
  BY <1>1, <1>6
<1>8. PICK rec : /\ rec = RecordOf(objs[z].kind) /\ Entered(rec, z, j + 1)
                 /\ obj_idx' = z /\ adjusted' = adjusted \cup {z}
  BY DEF Enters
<1>9. /\ Calls(cnt, m2)' /\ OnStack' = OnStack \cup {z} /\ stack' # <<>>
      /\ stack'[1].at = z /\ stack'[1].next = 1
      /\ stack'[Len(stack')].at = stack[Len(stack)].at
  <2>1. m2[z] = 1
    BY <1>5, <1>7
  <2>2. IntoField(cnt, mx, x, j, z, rec, m2)
    BY <1>2, <1>3, <1>4, <1>7, <1>8, <2>1 DEF IntoField
  <2> QED
    BY <1>1, <2>2, EnterCalls
<1>10. Copies(m2, n + 1)'
  BY <1>1, <1>2, <1>3, <1>6, <1>9, ResolvedCopies
<1>11. Place(cnt, n + 1)'
  BY <1>1, <1>3, <1>9, SamePlace
<1>12. Entries'
  BY <1>3 DEF Entries
<1>13. /\ n + 1 \in DOMAIN objs' /\ adjusted' = 1..(n + 1) /\ obj_idx' \in adjusted'
       /\ n + 1 = cnt[stack'[1].at][stack'[1].next]
  BY <1>1, <1>4, <1>8, <1>9
<1> QED
  BY <1>9, <1>10, <1>11, <1>12, <1>13 DEF Adjusting

LEMMA GoOnAdjusts ==
    ASSUME WalksAgree, WalkInv, phase = "adjust", stack # <<>>,
           UNCHANGED <<objs, heap>>, UNCHANGED <<gvar, gptr>>, NEW cnt, NEW mx, NEW n,
           Shape(cnt, Collected), Adjusting(cnt, mx, n), NEW x, x = Top.at, NEW j,
           NextSet(mx, x, j), OldField(cnt, x, j), GoesOn(j + 1),
           image' = Put(x, PathAt(x, j), LeadsTo(x, j), TRUE)
    PROVE  \E m2, n2 : Adjusting(cnt, m2, n2)'
<1>1. /\ x \in DOMAIN objs /\ x \in OnStack /\ n \in DOMAIN objs /\ x <= n /\ n \in Nat
      /\ x \in Nat /\ mx \in [DOMAIN objs -> Nat \ {0}] /\ adjusted = 1..n
      /\ DOMAIN image = DOMAIN objs /\ Typed
  BY TopAdjusted DEF WalkInv
<1>2. /\ j \in 1..Size(x) /\ j >= mx[x] /\ IsSet(x, j) /\ j \in Nat \ {0}
      /\ \A k \in mx[x]..(j - 1) : ~IsSet(x, k)
  BY <1>1, SizeFacts DEF NextSet
<1>3. /\ Copies(mx, n) /\ Calls(cnt, mx) /\ Place(cnt, n) /\ Entries
      /\ obj_idx \in adjusted
  BY DEF Adjusting
<1>4. cnt[x][j + 1] = n
  BY StopCount DEF OldField
<1>5. PICK m2 : m2 = [mx EXCEPT ![x] = j + 1]
  OBVIOUS
<1>6. m2[x] = j + 1 /\ \A i \in DOMAIN objs : i # x => m2[i] = mx[i]
  BY <1>1, <1>5
<1>7. Resumed(j + 1) /\ obj_idx' = obj_idx /\ adjusted' = adjusted
  BY DEF GoesOn
<1>8. /\ Calls(cnt, m2)' /\ OnStack' = OnStack /\ stack' # <<>>
      /\ stack'[1].at = x /\ stack'[1].next = j + 1
      /\ stack'[Len(stack')].at = stack[Len(stack)].at
  BY <1>1, <1>2, <1>3, <1>6, <1>7, ResumeCalls
<1>9. Copies(m2, n)'
  <2>1. OnStack \subseteq OnStack'
    BY <1>8
  <2> QED
    BY <1>1, <1>2, <1>3, <1>5, <2>1, ResolvedCopies
<1>10. Place(cnt, n)'
  BY <1>1, <1>3, <1>8, SamePlace
<1>11. Entries'
  BY <1>3 DEF Entries
<1>12. /\ n \in DOMAIN objs' /\ adjusted' = 1..n /\ obj_idx' \in adjusted'
       /\ n = cnt[stack'[1].at][stack'[1].next]
  BY <1>1, <1>3, <1>4, <1>7, <1>8
<1> QED
  BY <1>8, <1>9, <1>10, <1>11, <1>12 DEF Adjusting

LEMMA PointerAdjusts ==
    ASSUME WalksAgree, WalkInv, AdjustPointer, NEW cnt, NEW mx, NEW n,
           Shape(cnt, Collected), Adjusting(cnt, mx, n)
    PROVE  phase' = "adjust" /\ \E m2, n2 : Adjusting(cnt, m2, n2)'
<1>1. /\ phase = "adjust" /\ phase' = "adjust" /\ stack # <<>>
      /\ UNCHANGED <<objs, heap>> /\ UNCHANGED <<gvar, gptr>> /\ Typed
  BY PointerMoves DEF collectVars, WalkInv
<1>2. PICK x : x = Top.at
  OBVIOUS
<1>3. PICK j \in NextStop :
         /\ Item(j)[2] # "location"
         /\ \/ /\ Field(j).real \/ ObjectAt(Field(j).to) = {}
               /\ Cleared(j) /\ GoesOn(j + 1)
            \/ /\ ~Field(j).real
               /\ \E i \in ObjectAt(Field(j).to) :
                     /\ Resolved(j, i)
                     /\ \/ i \in adjusted /\ GoesOn(j + 1)
                        \/ /\ i \notin adjusted
                           /\ Enters(i, AdjustOf(Item(j)[2], objs[i].kind), j + 1)
  BY PointerMoves
<1>4. Counted(cnt, Collected) /\ Labels /\ Copies(mx, n) /\ Calls(cnt, mx)
  BY DEF Shape, Adjusting
<1>5. /\ j \in 1..Size(x) /\ j >= mx[x] /\ IsSet(x, j)
      /\ \A k \in mx[x]..(j - 1) : ~IsSet(x, k)
      /\ Item(j)[1] = PathAt(x, j) /\ Item(j)[2] = TargetAt(x, j)
      /\ Field(j) = [to |-> LeadsTo(x, j), real |-> FALSE]
  BY <1>1, <1>2, <1>4, StopFacts
<1>6. NextSet(mx, x, j)
  BY <1>5 DEF NextSet
<1>7. PICK z : z = LeadsTo(x, j)
  OBVIOUS
<1>8. /\ x \in DOMAIN objs /\ adjusted = 1..n /\ n \in Nat
      /\ cnt[x][j] = n /\ (OldField(cnt, x, j) \/ NewField(cnt, x, j))
  BY <1>1, <1>2, <1>6, StopCount, TopAdjusted
<1>9. /\ z \in DOMAIN objs /\ z \in Nat \ {0}
      /\ objs[z].kind \in Pointees(TargetAt(x, j)) /\ TargetAt(x, j) \in Pointers
  <2>1. z \in DOMAIN objs /\ objs[z].kind \in Pointees(TargetAt(x, j))
    BY <1>3, <1>5, <1>7, <1>8 DEF OldField, NewField
  <2> QED
    BY <1>1, <1>3, <1>5, <1>8, <2>1, SizeFacts
<1>10. objs[z].kind # None /\ AdjustOf(TargetAt(x, j), objs[z].kind) = RecordOf(objs[z].kind)
  BY <1>9, RecordFacts
<1>11. ObjectAt(z) = {z}
  BY <1>4, <1>9, <1>10 DEF ObjectAt, Labels
<1>12. /\ Resolved(j, z)
       /\ \/ z \in adjusted /\ GoesOn(j + 1)
          \/ z \notin adjusted /\ Enters(z, RecordOf(objs[z].kind), j + 1)
  BY <1>3, <1>5, <1>7, <1>10, <1>11
<1>13. image' = Put(x, PathAt(x, j), z, TRUE)
  BY <1>2, <1>5, <1>12 DEF Resolved
<1>14. CASE z \in adjusted
  <2>1. OldField(cnt, x, j)
    BY <1>7, <1>8, <1>14 DEF NewField
  <2> QED
    BY <1>1, <1>2, <1>6, <1>7, <1>12, <1>13, <1>14, <2>1, GoOnAdjusts
<1>15. CASE z \notin adjusted
  <2>1. z = n + 1
    BY <1>7, <1>8, <1>9, <1>15 DEF OldField, NewField
  <2> QED
    BY <1>1, <1>2, <1>6, <1>7, <1>9, <1>10, <1>12, <1>13, <1>15, <2>1, EnterAdjusts
<1> QED
  BY <1>1, <1>14, <1>15


(* The next object that is not adjusted is the expansion saved last when   *)
(* the plugin came to this location.                                       *)
LEMMA LocationAdjusts ==
    ASSUME WalksAgree, WalkInv, AdjustLocation, NEW cnt, NEW mx, NEW n,
           Shape(cnt, Collected), Adjusting(cnt, mx, n)
    PROVE  phase' = "adjust" /\ \E m2, n2 : Adjusting(cnt, m2, n2)'
<1>1. /\ phase = "adjust" /\ stack # <<>> /\ Typed
      /\ UNCHANGED <<objs, heap>> /\ UNCHANGED <<gvar, gptr>>
  BY LocationMoves DEF collectVars, WalkInv
<1>2. PICK x, y : x = Top.at /\ y = NextFree
  OBVIOUS
<1>3. PICK j \in NextStop :
         /\ Item(j)[2] = "location"
         /\ \/ /\ y > ObjCnt \/ objs[y].kind # "location"
               /\ phase' = "bug"
            \/ /\ y \in DOMAIN objs /\ objs[y].kind = "location"
               /\ phase' = "adjust" /\ Resolved(j, y)
               /\ Enters(y, "location", j + 1)
  BY <1>2, LocationMoves
<1>4. /\ Counted(cnt, Collected) /\ Copies(mx, n) /\ Calls(cnt, mx)
      /\ obj_idx \in adjusted
  BY DEF Shape, Adjusting
<1>5. /\ j \in 1..Size(x) /\ j >= mx[x] /\ IsSet(x, j)
      /\ \A k \in mx[x]..(j - 1) : ~IsSet(x, k)
      /\ Item(j)[1] = PathAt(x, j) /\ Item(j)[2] = TargetAt(x, j)
  BY <1>1, <1>2, <1>4, StopFacts
<1>6. NextSet(mx, x, j)
  BY <1>5 DEF NextSet
<1>7. PICK z : z = LeadsTo(x, j)
  OBVIOUS
<1>8. /\ n \in DOMAIN objs /\ adjusted = 1..n /\ n \in Nat
      /\ cnt[x][j] = n /\ (OldField(cnt, x, j) \/ NewField(cnt, x, j))
  BY <1>1, <1>2, <1>6, StopCount, TopAdjusted
<1>9. z \in DOMAIN objs /\ z = n + 1 /\ objs[z].kind = "location"
  BY <1>3, <1>5, <1>7, <1>8 DEF OldField, NewField
<1>10. y = z
  <2>1. /\ y \in obj_idx..(ObjCnt + 1) /\ y \notin adjusted
        /\ \A m \in obj_idx..(y - 1) : m \in adjusted
    BY <1>1, <1>2, FreeFacts
  <2>2. obj_idx \in 1..n
    BY <1>4, <1>8
  <2>3. y \in Nat /\ ~ (y \in 1..n) /\ y >= obj_idx
    BY <1>8, <2>1, <2>2
  <2>4. ~ (n + 1 \in obj_idx..(y - 1))
    BY <1>8, <2>1
  <2> QED
    BY <1>8, <1>9, <2>2, <2>3, <2>4
<1>11. z <= ObjCnt
  BY <1>1, <1>9, TableFacts
<1>12. phase' = "adjust" /\ Resolved(j, z) /\ Enters(z, "location", j + 1)
  <2>1. ~ (z > ObjCnt)
    <3>1. ObjCnt \in Nat /\ z \in Nat
      BY <1>1, <1>8, <1>9, TableFacts
    <3> QED
      BY <1>11, <3>1
  <2> QED
    BY <1>3, <1>9, <1>10, <2>1
<1>13. image' = Put(x, PathAt(x, j), z, TRUE)
  BY <1>2, <1>5, <1>12 DEF Resolved
<1>14. RecordOf(objs[z].kind) = "location" /\ objs[z].kind # None
  BY <1>9 DEF RecordOf, None
<1> QED
  BY <1>1, <1>2, <1>6, <1>7, <1>9, <1>12, <1>13, <1>14, EnterAdjusts

(* A call ends when its last field is done: the caller is at the field     *)
(* that follows, with the objects the plugin had there.                    *)
LEMMA ReturnAdjusts ==
    ASSUME WalksAgree, WalkInv, AdjustReturn, NEW cnt, NEW mx, NEW n,
           Shape(cnt, Collected), Adjusting(cnt, mx, n)
    PROVE  phase' = "adjust" /\ \E m2, n2 : Adjusting(cnt, m2, n2)'
<1>1. /\ phase = "adjust" /\ phase' = "adjust" /\ stack # <<>> /\ NextStop = {}
      /\ UNCHANGED <<objs, heap>> /\ UNCHANGED <<gvar, gptr>>
      /\ UNCHANGED <<obj_idx, adjusted, image>> /\ Typed
  BY DEF AdjustReturn, collectVars, adjustVars, WalkInv
<1>2. Returned
  BY <1>1, ReturnStack DEF AdjustReturn
<1>3. PICK x : x = Top.at
  OBVIOUS
<1>4. /\ x \in DOMAIN objs /\ n \in DOMAIN objs /\ x <= n /\ n \in Nat
      /\ mx[x] \in Nat \ {0} /\ mx \in [DOMAIN objs -> Nat \ {0}]
      /\ adjusted = 1..n /\ n = cnt[x][mx[x]] /\ x \in Nat \ {0}
  BY <1>1, <1>3, TopAdjusted
<1>5. /\ Counted(cnt, Collected) /\ Copies(mx, n) /\ Calls(cnt, mx)
      /\ obj_idx \in adjusted /\ Place(cnt, n) /\ Entries
  BY DEF Shape, Adjusting
<1>6. \A k \in mx[x]..Size(x) : ~IsSet(x, k)
  BY <1>1, <1>3, <1>5, StopFacts
<1>7. Size(x) \in Nat /\ mx[x] <= Size(x) + 1
  BY <1>1, <1>4, <1>5, SizeFacts DEF Copies
<1>8. n = End(cnt, x)
  <2>1. /\ mx[x] \in 1..(Size(x) + 1) /\ Size(x) + 1 \in 1..(Size(x) + 1)
        /\ (Size(x) + 1) - 1 = Size(x)
    BY <1>4, <1>7
  <2>2. \A a, b \in 1..(Size(x) + 1) :
           a <= b /\ (\A k \in a..(b - 1) : ~IsSet(x, k)) => cnt[x][a] = cnt[x][b]
    BY <1>4 DEF Shape, Runs
  <2> QED
    BY <1>4, <1>6, <1>7, <2>1, <2>2 DEF End
<1>9. PICK m2 : m2 = [mx EXCEPT ![x] = Size(x) + 1]
  OBVIOUS
<1>10. \A i \in DOMAIN objs : i # x => m2[i] = mx[i]
  BY <1>4, <1>9
<1>11. /\ Calls(cnt, m2)' /\ OnStack' = OnStack \ {x}
       /\ stack' = <<>> => x = stack[Len(stack)].at
       /\ stack' # <<>> => /\ 2 \in 2..Len(stack) /\ stack'[1] = stack[2]
                           /\ stack'[Len(stack')].at = stack[Len(stack)].at
  BY <1>1, <1>2, <1>3, <1>5, <1>10, ReturnCalls
<1>12. Copies(m2, n)'
  BY <1>1, <1>4, <1>5, <1>6, <1>9, <1>11, ReturnedCopies
<1>13. Place(cnt, n)'
  <2>1. CASE stack' # <<>>
    <3>1. n >= n /\ UNCHANGED <<objs, gvar>>
      BY <1>1, <1>4
    <3> QED
      BY <1>1, <1>4, <1>5, <1>11, <2>1, <3>1, SamePlace
  <2>2. CASE stack' = <<>>
    <3>1. PICK t \in Tops : /\ t = stack[Len(stack)].at
                            /\ gvar <= n + 1 /\ (t = 1 \/ t < gvar)
                            /\ \A s \in Tops : s > t => s >= gvar
      BY <1>1, <1>5 DEF Place
    <3>2. n = End(cnt, t)' /\ Tops' = Tops /\ gvar' = gvar
      BY <1>1, <1>8, <1>11, <2>2, <3>1, SameRows
    <3> QED
      BY <2>2, <3>1, <3>2 DEF Place
  <2> QED
    BY <2>1, <2>2
<1>14. Entries'
  BY <1>1, <1>5 DEF Entries
<1>15. ASSUME stack' # <<>> PROVE n = cnt[stack'[1].at][stack'[1].next]
  <2>1. PICK p, k : p = stack[2].at /\ k = stack[2].next - 1
    OBVIOUS
  <2>2. /\ stack'[1].at = p /\ stack'[1].next = stack[2].next
        /\ 2 \in 2..Len(stack) /\ 2 \in 1..Len(stack) /\ 2 - 1 = 1
    BY <1>11, <1>15, <2>1
  <2>3. stack[1].at = x
    BY <1>1, <1>3, TopFacts
  <2>4. /\ stack[2].next > 1 /\ IsSet(p, k) /\ LeadsTo(p, k) = x
        /\ x = cnt[p][k] + 1 /\ stack[2].next = mx[p]
    BY <1>5, <2>1, <2>2, <2>3 DEF Calls
  <2>5. p \in DOMAIN objs
    BY <1>1, <2>1, <2>2, AtFacts
  <2>6. /\ Size(p) \in Nat /\ mx[p] \in Nat \ {0} /\ mx[p] <= Size(p) + 1
        /\ Collected[p] = Size(p) + 1
    BY <1>1, <1>5, <2>5, SizeFacts DEF Copies, Collected
  <2>7. k \in 1..Size(p) /\ k + 1 = stack[2].next /\ k \in 1..(Collected[p] - 1)
        /\ k \in Nat
    BY <2>1, <2>4, <2>6
  <2>8. cnt[p][k] \in Nat
    BY <1>1, <1>5, <2>5, <2>7, NextFacts
  <2>9. ~ (x <= cnt[p][k])
    BY <2>4, <2>8
  <2>10. OldField(cnt, p, k) \/ NewField(cnt, p, k)
    BY <2>4, <2>5, <2>7 DEF Shape, Ordered
  <2>11. cnt[p][k + 1] = End(cnt, x)
    BY <2>4, <2>9, <2>10 DEF OldField, NewField
  <2> QED
    BY <1>8, <2>2, <2>7, <2>11
<1>16. n \in DOMAIN objs' /\ adjusted' = 1..n /\ obj_idx' \in adjusted'
  BY <1>1, <1>4, <1>5
<1>17. Adjusting(cnt, m2, n)'
  BY <1>11, <1>12, <1>13, <1>14, <1>15, <1>16 DEF Adjusting
<1> QED
  BY <1>1, <1>17


(* A walk that starts has one call.                                        *)
LEMMA StartCalls ==
    ASSUME NEW rec, NEW i, NEW cnt, NEW mx, Started(rec, i), objs' = objs,
           objs[i].kind # None, rec = RecordOf(objs[i].kind), mx[i] = 1
    PROVE  /\ Calls(cnt, mx)' /\ OnStack' = {i} /\ stack' # <<>>
           /\ stack'[1].at = i /\ stack'[1].next = 1
           /\ stack'[Len(stack')].at = i
<1>1. /\ Len(stack') = 1 /\ stack'[1].rec = rec /\ stack'[1].at = i
      /\ stack'[1].next = 1 /\ IsStack(stack')
  BY DEF Started
<1>2. /\ \A c \in 1..Len(stack') : c = 1
      /\ \A c \in 2..Len(stack') : FALSE
  BY <1>1
<1>3. Calls(cnt, mx)'
  BY <1>1, <1>2 DEF Calls
<1>4. stack' # <<>>
  <2>1. IsStack(stack') /\ Len(stack') # 0
    BY <1>1
  <2> QED
    BY <2>1, StackFacts
<1>5. OnStack' = {i}
  BY StartSet
<1> QED
  BY <1>1, <1>3, <1>4, <1>5

LEMMA NoCalls ==
    ASSUME NEW cnt, NEW mx, stack' = <<>>
    PROVE  Calls(cnt, mx)' /\ OnStack' = {}
<1>1. Len(stack') = 0
  OBVIOUS
<1>2. \A c : c \notin 1..Len(stack') /\ c \notin 2..Len(stack')
  BY <1>1
<1> QED
  BY <1>2 DEF Calls, OnStack

(* STEP1 starts at the first object.                                       *)
LEMMA StartAdjusts ==
    ASSUME WalksAgree, WalkInv, StartAdjust, NEW cnt, Shape(cnt, Collected),
           \A i \in DOMAIN objs : image[i] = CopyOf(i)
    PROVE  phase' = "adjust" /\ \E mx, n : Adjusting(cnt, mx, n)'
<1>1. /\ Typed /\ phase' = "adjust" /\ UNCHANGED <<objs, heap>> /\ image' = image
      /\ gvar' = 1 /\ obj_idx' = 1 /\ adjusted' = {1}
      /\ gptr' = [i \in DOMAIN objs |-> Null]
      /\ 1 \in DOMAIN objs
  BY TableFacts DEF StartAdjust, WalkInv, collectVars
<1>2. PICK r \in Roots : /\ r[2] = objs[1].kind
                         /\ stack' = <<Call(AdjustOf(r[1], r[2]), 1)>>
  BY DEF StartAdjust
<1>3. /\ objs[1].kind # None /\ AdjustOf(r[1], r[2]) = RecordOf(objs[1].kind)
  BY <1>2, RootFacts, RecordFacts
<1>4. PICK rec : rec = RecordOf(objs[1].kind) /\ stack' = <<Call(rec, 1)>>
  BY <1>2, <1>3
<1>5. Started(rec, 1)
  BY <1>4, StartStack
<1>6. PICK mx : mx = [i \in DOMAIN objs |-> 1]
  OBVIOUS
<1>7. mx \in [DOMAIN objs -> Nat \ {0}] /\ \A i \in DOMAIN objs : mx[i] = 1
  BY <1>6
<1>8. /\ Calls(cnt, mx)' /\ OnStack' = {1} /\ stack' # <<>>
      /\ stack'[1].at = 1 /\ stack'[1].next = 1 /\ stack'[Len(stack')].at = 1
  BY <1>1, <1>3, <1>4, <1>5, <1>7, StartCalls
<1>9. /\ \A i : Size(i)' = Size(i)
      /\ \A i, k : PathAt(i, k)' = PathAt(i, k)
      /\ \A i, k : IsSet(i, k)' = IsSet(i, k) /\ LeadsTo(i, k)' = LeadsTo(i, k)
      /\ Tops' = Tops
  BY <1>1, SameRows, SameFields
<1>10. ASSUME NEW i \in DOMAIN objs
       PROVE  /\ mx[i] <= Size(i) + 1 /\ mx[i] = 1
              /\ i <= 1 => i = 1
              /\ DOMAIN image[i] = DOMAIN heap[i]
              /\ \A k \in 1..Size(i) : IsSet(i, k) =>
                    image[i][PathAt(i, k)] = [to |-> LeadsTo(i, k), real |-> k < mx[i]]
  <2>1. Size(i) \in Nat /\ i \in Nat \ {0} /\ mx[i] = 1
    BY <1>1, <1>7, SizeFacts
  <2>2. /\ DOMAIN image[i] = DOMAIN heap[i]
        /\ \A p \in DOMAIN heap[i] : image[i][p] = [to |-> heap[i][p], real |-> FALSE]
    BY DEF CopyOf
  <2>3. ASSUME NEW k \in 1..Size(i), IsSet(i, k)
        PROVE  image[i][PathAt(i, k)] = [to |-> LeadsTo(i, k), real |-> k < mx[i]]
    <3>1. (k < mx[i]) = FALSE
      BY <2>1
    <3> QED
      BY <2>2, <2>3, <3>1 DEF IsSet, LeadsTo
  <2> QED
    BY <2>1, <2>2, <2>3
<1>11. Copies(mx, 1)'
  BY <1>1, <1>7, <1>8, <1>9, <1>10 DEF Copies
<1>12. Place(cnt, 1)'
  <2>1. 1 \in Tops' /\ \A s \in Tops' : s \in Nat \ {0}
    BY <1>1, <1>9, SizeFacts DEF Tops
  <2>2. gvar' <= 1 + 1 /\ \A s \in Tops' : s > 1 => s >= gvar'
    BY <1>1, <2>1
  <2> QED
    BY <1>8, <2>1, <2>2 DEF Place
<1>13. Entries'
  <2>1. \A i \in DOMAIN objs : ~ (i < 1)
    BY <1>1, SizeFacts
  <2> QED
    BY <1>1, <2>1 DEF Entries
<1>14. cnt[1][1] = 1
  BY <1>1, Zenon DEF Shape, Counted
<1>15. 1 \in DOMAIN objs' /\ adjusted' = 1..1 /\ obj_idx' \in adjusted'
  BY <1>1
<1>16. 1 = cnt[stack'[1].at][stack'[1].next]
  BY <1>8, <1>14
<1>17. Adjusting(cnt, mx, 1)'
  BY <1>8, <1>11, <1>12, <1>13, <1>15, <1>16 DEF Adjusting
<1> QED
  BY <1>1, <1>17

(* The walk below t is over, and gvar is the next object to look at: it is *)
(* a global variable only if the plugin came to it then.                   *)
LEMMA NextGlobal ==
    ASSUME WalkInv, NEW cnt, NEW n, InRow(cnt), Labels, Place(cnt, n), stack = <<>>,
           n \in DOMAIN objs, NEW g, g = gvar, g \in DOMAIN objs
    PROVE  /\ \E t \in Tops : /\ n = End(cnt, t) /\ (t = 1 \/ t < g)
                              /\ \A s \in Tops : s > t => s >= g
           /\ g <= n + 1 /\ (objs[g].gvar <=> g = n + 1)
<1>1. /\ Typed /\ DOMAIN objs = 1..ObjCnt /\ ObjCnt \in Nat /\ n \in Nat
      /\ g \in Nat \ {0}
  BY TableFacts DEF WalkInv
<1>2. PICK t \in Tops : /\ n = End(cnt, t) /\ g <= n + 1 /\ (t = 1 \/ t < g)
                        /\ \A s \in Tops : s > t => s >= g
  BY DEF Place
<1>3. /\ \A s \in Tops : s > t => s > n
      /\ n = ObjCnt \/ n + 1 \in Tops
  BY <1>2 DEF InRow
<1>4. t \in Nat \ {0}
  BY <1>1, <1>2 DEF Tops
<1>5. ASSUME objs[g].gvar PROVE g = n + 1
  <2>1. g \in Tops /\ g # 1
    BY <1>5 DEF Tops, Labels
  <2>2. g > t
    BY <1>1, <1>2, <1>4, <2>1
  <2> QED
    BY <1>1, <1>2, <1>3, <2>1, <2>2
<1>6. ASSUME g = n + 1 PROVE objs[g].gvar
  <2>1. g # 1 /\ n # ObjCnt
    BY <1>1, <1>6
  <2> QED
    BY <1>3, <1>6, <2>1 DEF Tops
<1> QED
  BY <1>2, <1>5, <1>6


LEMMA GlobalAdjusts ==
    ASSUME WalksAgree, WalkInv, AdjustGlobal, NEW cnt, NEW mx, NEW n,
           Shape(cnt, Collected), Adjusting(cnt, mx, n)
    PROVE  phase' = "adjust" /\ \E n2 : Adjusting(cnt, mx, n2)'
<1>1. /\ Typed /\ phase = "adjust" /\ stack = <<>> /\ gvar \in DOMAIN objs
      /\ gvar' = gvar + 1 /\ UNCHANGED <<objs, heap>> /\ image' = image
      /\ OnStack = {} /\ DOMAIN image = DOMAIN objs
  BY GlobalMoves, EmptySet DEF collectVars, WalkInv, Marks
<1>2. /\ Labels /\ InRow(cnt) /\ Copies(mx, n) /\ Place(cnt, n) /\ Entries
      /\ n \in DOMAIN objs /\ adjusted = 1..n /\ obj_idx \in adjusted
  BY DEF Shape, Adjusting
<1>3. PICK g : g = gvar
  OBVIOUS
<1>4. PICK t \in Tops : /\ n = End(cnt, t) /\ (t = 1 \/ t < g)
                        /\ \A s \in Tops : s > t => s >= g
  BY <1>1, <1>2, <1>3, NextGlobal
<1>5. g <= n + 1 /\ (objs[g].gvar <=> g = n + 1)
  BY <1>1, <1>2, <1>3, NextGlobal
<1>6. /\ n \in Nat \ {0} /\ g \in Nat \ {0} /\ Tops' = Tops
      /\ \A s \in Tops : s \in DOMAIN objs /\ s \in Nat \ {0}
      /\ \A c, i : End(c, i)' = End(c, i)
      /\ g \in DOMAIN objs /\ gvar' = g + 1
      /\ \A i \in DOMAIN objs : i \in Nat
  BY <1>1, <1>2, <1>3, SizeFacts, SameRows DEF Tops
<1>7. /\ ~objs[1].gvar
      /\ objs[g].kind # None => objs[g].fake = g
      /\ objs[g].kind = None => objs[g].gvar /\ objs[g].fake \in {Null} \cup Records
      /\ objs[g].gvar => objs[g].kind \in {None} \cup Pointees("tree")
  BY <1>2, <1>6 DEF Labels
<1>8. /\ DOMAIN gptr = DOMAIN objs
      /\ \A i \in DOMAIN objs : i < g /\ objs[i].kind = None => gptr[i] = objs[i].fake
      /\ \A i \in DOMAIN objs : i >= g => gptr[i] = Null
  BY <1>2, <1>3 DEF Entries
<1>9. CASE ~objs[g].gvar       \* not a global variable
  <2>1. UNCHANGED <<phase, stack, obj_idx, adjusted, gptr>>
    BY <1>3, <1>9, GlobalMoves
  <2>2. Calls(cnt, mx)' /\ OnStack' = {} /\ stack' = <<>>
    BY <1>1, <2>1, NoCalls
  <2>3. Copies(mx, n)'
    BY <1>1, <1>2, SameCopies
  <2>4. Place(cnt, n)'
    <3>1. /\ g + 1 <= n + 1 /\ (t = 1 \/ t < g + 1)
          /\ \A s \in Tops : s > t => s >= g + 1
      <4>1. g # n + 1 /\ t \in Nat \ {0}
        BY <1>5, <1>6, <1>9
      <4>2. ASSUME NEW s \in Tops, s > t PROVE s >= g + 1
        <5>1. s # g
          BY <1>6, <1>9, <4>1, <4>2 DEF Tops
        <5> QED
          BY <1>4, <1>6, <4>2, <5>1
      <4> QED
        BY <1>4, <1>5, <1>6, <4>1, <4>2
    <3> QED
      BY <1>4, <1>6, <2>2, <3>1 DEF Place
  <2>5. Entries'
    <3>1. ASSUME NEW i \in DOMAIN objs, i < g + 1, objs[i].kind = None
          PROVE  gptr[i] = objs[i].fake
      <4>1. i # g
        BY <1>7, <1>9, <3>1
      <4> QED
        BY <1>6, <1>8, <3>1, <4>1
    <3>2. \A i \in DOMAIN objs : i >= g + 1 => gptr[i] = Null
      BY <1>6, <1>8
    <3> QED
      BY <1>1, <1>6, <1>8, <2>1, <3>1, <3>2 DEF Entries
  <2>6. Adjusting(cnt, mx, n)'
    BY <1>1, <1>2, <2>1, <2>2, <2>3, <2>4, <2>5 DEF Adjusting
  <2> QED
    BY <1>1, <2>1, <2>6
<1>10. ASSUME objs[g].gvar
       PROVE  /\ g = n + 1 /\ g \notin adjusted /\ adjusted \cup {g} = 1..g
              /\ \A s \in Tops : s > g => s >= g + 1
              /\ g \in Tops
  BY <1>2, <1>5, <1>6, <1>10 DEF Tops
<1>11. CASE objs[g].gvar /\ objs[g].kind = None     \* saved before
  <2>1. /\ adjusted' = adjusted \cup {g} /\ UNCHANGED <<phase, stack, obj_idx>>
        /\ DOMAIN gptr' = DOMAIN gptr /\ gptr'[g] = objs[g].fake
        /\ \A i \in DOMAIN objs : i # g => gptr'[i] = gptr[i]
    <3>1. CASE objs[g].fake = Null
      <4>1. /\ adjusted' = adjusted \cup {g} /\ UNCHANGED <<phase, stack, obj_idx, gptr>>
        BY <1>3, <1>11, <3>1, GlobalMoves
      <4> QED
        BY <1>6, <1>8, <3>1, <4>1
    <3>2. CASE objs[g].fake # Null
      <4>1. PICK f : f = objs[g].fake
        OBVIOUS
      <4>2. f \in Records
        BY <1>7, <1>11, <3>2, <4>1
      <4>3. ObjectAt(f) = {f}
        BY <1>2, <4>2 DEF ObjectAt, Records, Labels
      <4>4. /\ adjusted' = adjusted \cup {g} /\ UNCHANGED <<phase, stack, obj_idx>>
            /\ \E i \in ObjectAt(f) : gptr' = [gptr EXCEPT ![g] = i]
        BY <1>3, <1>11, <3>2, <4>1, <4>3, GlobalMoves
      <4> QED
        BY <1>6, <1>8, <4>1, <4>3, <4>4
    <3> QED
      BY <3>1, <3>2
  <2>2. Calls(cnt, mx)' /\ OnStack' = {} /\ stack' = <<>>
    BY <1>1, <2>1, NoCalls
  <2>3. Size(g) = 0
    <3>1. WalkOf(objs[g].kind) = <<>>
      BY <1>11 DEF WalkOf
    <3> QED
      BY <3>1 DEF Size
  <2>4. Copies(mx, g)'
    BY <1>1, <1>2, <1>6, <1>10, <1>11, <2>3, SameCopies
  <2>5. g = End(cnt, g)
    <3>1. cnt[g][1] = g
      BY <1>6, Zenon DEF Shape, Counted
    <3> QED
      BY <2>3, <3>1 DEF End
  <2>6. Place(cnt, g)'
    BY <1>6, <1>10, <1>11, <2>2, <2>5 DEF Place
  <2>7. Entries'
    <3>1. ASSUME NEW i \in DOMAIN objs, i < g + 1, objs[i].kind = None
          PROVE  gptr'[i] = objs[i].fake
      BY <1>6, <1>8, <2>1, <3>1
    <3>2. \A i \in DOMAIN objs : i >= g + 1 => gptr'[i] = Null
      BY <1>6, <1>8, <2>1
    <3> QED
      BY <1>1, <1>6, <1>8, <2>1, <3>1, <3>2 DEF Entries
  <2>8. g \in DOMAIN objs' /\ adjusted' = 1..g /\ obj_idx' \in adjusted'
    BY <1>1, <1>2, <1>6, <1>10, <1>11, <2>1
  <2>9. Adjusting(cnt, mx, g)'
    BY <2>2, <2>4, <2>6, <2>7, <2>8 DEF Adjusting
  <2> QED
    BY <1>1, <2>1, <2>9
<1>12. CASE objs[g].gvar /\ objs[g].kind # None     \* saved now
  <2>1. objs[g].fake # Null
    BY <1>6, <1>7, <1>12 DEF Null
  <2>2. UNCHANGED <<phase, gptr>> /\ Starts(g, AdjustOf("tree", objs[g].kind))
    BY <1>3, <1>10, <1>12, <2>1, GlobalMoves
  <2>3. AdjustOf("tree", objs[g].kind) = RecordOf(objs[g].kind)
    BY <1>7, <1>12, TreeIsPointer, RecordFacts
  <2>4. PICK rec : /\ rec = RecordOf(objs[g].kind) /\ Started(rec, g)
                   /\ obj_idx' = g /\ adjusted' = adjusted \cup {g}
    BY <2>2, <2>3 DEF Starts
  <2>5. mx[g] = 1
    BY <1>2, <1>6, <1>10, <1>12 DEF Copies
  <2>6. /\ Calls(cnt, mx)' /\ OnStack' = {g} /\ stack' # <<>>
        /\ stack'[1].at = g /\ stack'[1].next = 1 /\ stack'[Len(stack')].at = g
    BY <1>1, <1>12, <2>4, <2>5, StartCalls
  <2>7. Copies(mx, g)'
    BY <1>1, <1>2, <1>6, <1>10, <1>12, <2>6, SameCopies
  <2>8. Place(cnt, g)'
    BY <1>6, <1>10, <1>12, <2>6 DEF Place
  <2>9. Entries'
    <3>1. ASSUME NEW i \in DOMAIN objs, i < g + 1, objs[i].kind = None
          PROVE  gptr'[i] = objs[i].fake
      <4>1. i # g
        BY <1>12, <3>1
      <4> QED
        BY <1>6, <1>8, <2>2, <3>1, <4>1
    <3>2. \A i \in DOMAIN objs : i >= g + 1 => gptr'[i] = Null
      BY <1>6, <1>8, <2>2
    <3> QED
      BY <1>1, <1>6, <1>8, <2>2, <3>1, <3>2 DEF Entries
  <2>10. /\ g \in DOMAIN objs' /\ adjusted' = 1..g /\ obj_idx' \in adjusted'
         /\ g = cnt[stack'[1].at][stack'[1].next]
    <3>1. cnt[g][1] = g
      BY <1>6, Zenon DEF Shape, Counted
    <3> QED
      BY <1>1, <1>6, <1>10, <1>12, <2>4, <2>6, <3>1
  <2>11. Adjusting(cnt, mx, g)'
    BY <2>6, <2>7, <2>8, <2>9, <2>10 DEF Adjusting
  <2> QED
    BY <1>1, <2>2, <2>11
<1> QED
  BY <1>9, <1>11, <1>12


(* Every object is adjusted in the end, and every field of its copy.       *)
LEMMA FinishFaithful ==
    ASSUME WalkInv, AdjustFinish, NEW cnt, NEW mx, NEW n,
           Shape(cnt, Collected), Adjusting(cnt, mx, n)
    PROVE  phase' = "done" /\ Faithful'
<1>1. /\ Typed /\ stack = <<>> /\ gvar > ObjCnt /\ OnStack = {}
      /\ UNCHANGED <<objs, heap>> /\ UNCHANGED <<image, gptr>>
      /\ phase' = IF adjusted = DOMAIN objs THEN "done" ELSE "bug"
  BY EmptySet DEF WalkInv, AdjustFinish, collectVars, adjustVars
<1>2. /\ n \in DOMAIN objs /\ adjusted = 1..n /\ Copies(mx, n) /\ Entries
      /\ gvar <= n + 1
  BY DEF Adjusting, Place
<1>3. ObjCnt \in Nat /\ DOMAIN objs = 1..ObjCnt /\ gvar \in Nat
  BY <1>1, TableFacts DEF Typed
<1>4. n = ObjCnt /\ adjusted = DOMAIN objs
  BY <1>1, <1>2, <1>3
<1>5. ASSUME NEW i \in DOMAIN objs
      PROVE  /\ DOMAIN image[i] = DOMAIN heap[i]
             /\ \A p \in DOMAIN heap[i] :
                   image[i][p] = [to |-> heap[i][p], real |-> TRUE]
             /\ objs[i].kind = None => gptr[i] = objs[i].fake
  <2>1. i <= n /\ i < gvar
    BY <1>1, <1>3, <1>4
  <2>2. Size(i) \in Nat /\ Collected[i] - 1 = Size(i)
    BY <1>1, SizeFacts DEF Collected
  <2>3. /\ mx[i] = Size(i) + 1 /\ DOMAIN image[i] = DOMAIN heap[i]
        /\ \A k \in 1..Size(i) : IsSet(i, k) =>
              image[i][PathAt(i, k)] = [to |-> LeadsTo(i, k), real |-> k < mx[i]]
    BY <1>1, <1>2, <2>1 DEF Copies
  <2>4. ASSUME NEW p \in DOMAIN heap[i]
        PROVE  image[i][p] = [to |-> heap[i][p], real |-> TRUE]
    <3>1. \E k \in 1..(Collected[i] - 1) : p = PathAt(i, k)
      BY Zenon DEF Shape, Counted
    <3>2. PICK k \in 1..Size(i) : p = PathAt(i, k)
      BY <2>2, <3>1
    <3>3. (k < mx[i]) = TRUE
      BY <2>2, <2>3
    <3> QED
      BY <2>3, <3>2, <3>3 DEF IsSet, LeadsTo
  <2>5. objs[i].kind = None => gptr[i] = objs[i].fake
    BY <1>2, <2>1 DEF Entries
  <2> QED
    BY <2>3, <2>4, <2>5
<1>6. Faithful'
  BY <1>1, <1>5 DEF Faithful
<1> QED
  BY <1>1, <1>4, <1>6

(* The plugin has done with every record when it writes them.              *)
LEMMA FlushShape ==
    ASSUME WalkInv, NodesFlush, NEW cnt, NEW nx, Shape(cnt, nx), Collecting(cnt, nx)
    PROVE  /\ phase' = "load" /\ Shape(cnt, Collected)'
           /\ \A i \in DOMAIN objs' : image'[i] = CopyOf(i)'
<1>1. /\ Typed /\ stack = <<>> /\ phase' = "load" /\ OnStack = {}
      /\ UNCHANGED <<objs, heap>>
      /\ image' = [i \in DOMAIN objs |-> CopyOf(i)]
  BY EmptySet DEF WalkInv, NodesFlush, collectVars, CopyOf
<1>2. nx = Collected
  <2>1. nx \in [DOMAIN objs -> Nat \ {0}]
    BY Zenon DEF Shape, Counted
  <2>2. \A i \in DOMAIN objs : nx[i] = Size(i) + 1
    BY <1>1 DEF Collecting
  <2>3. Collected \in [DOMAIN objs -> Nat \ {0}]
    BY <1>1, SizeFacts DEF Collected
  <2>4. \A i \in DOMAIN objs : Collected[i] = Size(i) + 1
    BY DEF Collected
  <2> QED
    BY <2>1, <2>2, <2>3, <2>4
<1>3. Shape(cnt, Collected)
  BY <1>2
<1>4. PICK full : full = Collected
  OBVIOUS
<1>5. Shape(cnt, full)' /\ Collected' = full
  BY <1>1, <1>3, <1>4, SameShape, SameFields
<1>6. Shape(cnt, Collected)'
  BY <1>5
<1>7. \A i : CopyOf(i)' = CopyOf(i)
  BY <1>1 DEF CopyOf
<1> QED
  BY <1>1, <1>6, <1>7

(* The plugin starts with one record, and none of its fields.              *)
LEMMA InitCollects ==
    ASSUME WalksAgree, Init
    PROVE  \E cnt, nx : Shape(cnt, nx) /\ Collecting(cnt, nx)
<1>1. WalkInv /\ Typed
  BY WalkInit DEF WalkInv
<1>2. PICK r \in Roots : /\ objs = <<Object(r[2], 1, FALSE)>>
                         /\ stack = <<Call(CollectOf(r[1], r[2]), 1)>>
  BY DEF Init
<1>3. /\ r[2] \in Kinds \ {"location", None} /\ r[2] \notin {None, "location"}
      /\ CollectOf(r[1], r[2]) = RecordOf(r[2])
  BY RootFacts, RecordFacts
<1>4. PICK kind, rec : kind = r[2] /\ rec = CollectOf(r[1], r[2])
  OBVIOUS
<1>5. /\ ObjCnt = 1 /\ DOMAIN objs = {1}
      /\ objs[1].kind = kind /\ objs[1].fake = 1 /\ objs[1].gvar = FALSE
  <2>1. PICK o : o = Object(kind, 1, FALSE)
    OBVIOUS
  <2>2. objs = <<o>>
    BY <1>2, <1>4, <2>1
  <2>3. Len(objs) = 1 /\ DOMAIN objs = {1} /\ objs[1] = o
    BY <2>2
  <2> QED
    BY <2>1, <2>3 DEF Object, ObjCnt
<1>6. /\ Len(stack) = 1 /\ stack[1].at = 1 /\ stack[1].rec = rec /\ stack[1].next = 1
  <2>1. stack = <<Call(rec, 1)>>
    BY <1>2, <1>4
  <2>2. Len(stack) = 1 /\ stack[1] = Call(rec, 1)
    BY <2>1, OneCall
  <2> QED
    BY <2>2 DEF Call
<1>7. DOMAIN heap[1] = {} /\ OnStack = {1} /\ Tops = {1}
  <2>1. DOMAIN heap[1] = {}
    BY DEF Init
  <2>2. 1..Len(stack) = {1}
    BY <1>6
  <2> QED
    BY <1>5, <1>6, <2>1, <2>2 DEF OnStack, Tops
<1>8. Size(1) \in Nat
  BY <1>1, <1>5, SizeFacts
<1>9. PICK cnt : cnt = [i \in {1} |-> [k \in Nat |-> 1]]
  OBVIOUS
<1>10. PICK nx : nx = [i \in {1} |-> 1]
  OBVIOUS
<1>11. /\ cnt \in [DOMAIN objs -> [Nat -> Nat]] /\ nx \in [DOMAIN objs -> Nat \ {0}]
       /\ nx[1] = 1 /\ \A k \in Nat : cnt[1][k] = 1
  <2>1. PICK f : f = [k \in Nat |-> 1]
    OBVIOUS
  <2>2. f \in [Nat -> Nat] /\ \A k \in Nat : f[k] = 1
    BY <2>1
  <2>3. cnt = [i \in {1} |-> f]
    BY <1>9, <2>1
  <2> QED
    BY <1>5, <1>10, <2>2, <2>3
<1>12. ~ IsSet(1, 0) /\ \A k : ~IsSet(1, k)
  BY <1>7 DEF IsSet
<1>13. Labels
  BY <1>3, <1>4, <1>5 DEF Labels
<1>14. Counted(cnt, nx)
  <2>1. \A k \in 1..(nx[1] - 1) : FALSE
    BY <1>11
  <2> QED
    BY <1>5, <1>7, <1>8, <1>11, <2>1 DEF Counted
<1>15. Ordered(cnt, nx)
  BY <1>5, <1>12 DEF Ordered
<1>16. Runs(cnt)
  <2>1. \A a, b \in 1..(Size(1) + 1) : cnt[1][a] = cnt[1][b]
    BY <1>8, <1>11
  <2> QED
    BY <1>5, <2>1 DEF Runs
<1>17. InRow(cnt)
  <2>1. End(cnt, 1) = 1
    BY <1>8, <1>11 DEF End
  <2> QED
    BY <1>5, <1>7, <2>1 DEF InRow
<1>18. \A c \in 1..Len(stack) : c = 1
  BY <1>6
<1>19. \A c \in 2..Len(stack) : FALSE
  BY <1>6
<1>20. Calls(cnt, nx)
  BY <1>3, <1>4, <1>5, <1>6, <1>11, <1>18, <1>19 DEF Calls
<1>21. Collecting(cnt, nx)
  <2>1. \A k \in Nat : cnt[1][k] = ObjCnt
    BY <1>5, <1>11
  <2>2. stack[Len(stack)].at = 1
    BY <1>6
  <2> QED
    BY <1>5, <1>7, <1>12, <1>20, <2>1, <2>2 DEF Collecting
<1> QED
  BY <1>13, <1>14, <1>15, <1>16, <1>17, <1>21 DEF Shape


(***************************************************************************)
(* The two walks are in step, and what follows                             *)
(***************************************************************************)
LEMMA AgreeInit == ASSUME WalksAgree, Init PROVE AgreeInv
<1>1. phase = "collect"
  BY DEF Init
<1>2. \E cnt, nx : Shape(cnt, nx) /\ Collecting(cnt, nx)
  BY InitCollects
<1> QED
  BY <1>1, <1>2 DEF AgreeInv, Faithful, NeverBug

LEMMA CollectKeeps ==
    ASSUME WalksAgree, WalkInv, AgreeInv,
           \/ CollectLocation \/ CollectNew \/ CollectGlobal
           \/ CollectChecked \/ CollectReturn
    PROVE  AgreeInv'
<1>1. phase = "collect" /\ phase' \in {"collect", "overrun"}
  BY DEF CollectLocation, CollectNew, CollectGlobal, CollectChecked, CollectReturn,
         Insert
<1>2. PICK cnt, nx : Shape(cnt, nx) /\ Collecting(cnt, nx)
  BY <1>1 DEF AgreeInv
<1>3. \E c2, n2 : Shape(c2, n2)' /\ Collecting(c2, n2)'
  <2>1. CASE CollectLocation
    BY <1>2, <2>1, LocationAgrees
  <2>2. CASE CollectNew
    BY <1>2, <2>2, NewAgrees
  <2>3. CASE CollectGlobal
    BY <1>2, <2>3, GlobalAgrees
  <2>4. CASE CollectChecked \/ CollectReturn
    BY <1>2, <2>4, GoesOnAgrees
  <2> QED
    BY <2>1, <2>2, <2>3, <2>4
<1> QED
  BY <1>1, <1>3 DEF AgreeInv, Faithful, NeverBug

LEMMA SameCollected ==
    ASSUME Typed, UNCHANGED <<objs, heap>>, NEW cnt, Shape(cnt, Collected)
    PROVE  Shape(cnt, Collected)'
<1>1. PICK full : full = Collected
  OBVIOUS
<1>2. Shape(cnt, full)
  BY <1>1
<1>3. Shape(cnt, full)' /\ Collected' = full
  BY <1>1, <1>2, SameShape, SameFields
<1> QED
  BY <1>3

LEMMA AdjustKeeps ==
    ASSUME WalksAgree, WalkInv, AgreeInv,
           \/ StartAdjust \/ AdjustPointer \/ AdjustLocation \/ AdjustReturn
           \/ AdjustGlobal \/ AdjustFinish
    PROVE  AgreeInv'
<1>1. Typed /\ UNCHANGED <<objs, heap>> /\ crashes' = crashes
  BY DEF StartAdjust, AdjustPointer, AdjustLocation, AdjustReturn, AdjustGlobal,
         AdjustFinish, collectVars, WalkInv
<1>2. CASE StartAdjust /\ crashes = 0
  <2>1. phase = "load"
    BY <1>2 DEF StartAdjust
  <2>2. PICK cnt : Shape(cnt, Collected)
    BY <1>2, <2>1 DEF AgreeInv
  <2>3. \A i \in DOMAIN objs : image[i] = CopyOf(i)
    BY <1>2, <2>1 DEF AgreeInv
  <2>4. phase' = "adjust" /\ \E mx, n : Adjusting(cnt, mx, n)'
    BY <1>2, <2>2, <2>3, StartAdjusts
  <2>5. Shape(cnt, Collected)'
    BY <1>1, <2>2, SameCollected
  <2> QED
    BY <2>4, <2>5 DEF AgreeInv, Faithful, NeverBug
<1>3. CASE /\ AdjustPointer \/ AdjustLocation \/ AdjustReturn \/ AdjustGlobal
           /\ crashes = 0
  <2>1. phase = "adjust"
    BY <1>3 DEF AdjustPointer, AdjustLocation, AdjustReturn, AdjustGlobal
  <2>2. PICK cnt, mx, n : Shape(cnt, Collected) /\ Adjusting(cnt, mx, n)
    BY <1>3, <2>1 DEF AgreeInv
  <2>3. phase' = "adjust" /\ \E m2, n2 : Adjusting(cnt, m2, n2)'
    <3>1. CASE AdjustPointer
      BY <2>2, <3>1, PointerAdjusts
    <3>2. CASE AdjustLocation
      BY <2>2, <3>2, LocationAdjusts
    <3>3. CASE AdjustReturn
      BY <2>2, <3>3, ReturnAdjusts
    <3>4. CASE AdjustGlobal
      BY <2>2, <3>4, GlobalAdjusts
    <3> QED
      BY <1>3, <3>1, <3>2, <3>3, <3>4
  <2>4. Shape(cnt, Collected)'
    BY <1>1, <2>2, SameCollected
  <2> QED
    BY <2>3, <2>4 DEF AgreeInv, Faithful, NeverBug
<1>4. CASE AdjustFinish /\ crashes = 0
  <2>1. phase = "adjust"
    BY <1>4 DEF AdjustFinish
  <2>2. PICK cnt, mx, n : Shape(cnt, Collected) /\ Adjusting(cnt, mx, n)
    BY <1>4, <2>1 DEF AgreeInv
  <2>3. phase' = "done" /\ Faithful'
    BY <1>4, <2>2, FinishFaithful
  <2> QED
    BY <2>3 DEF AgreeInv, NeverBug
<1>5. CASE crashes # 0
  <2>1. phase' # "collect"
    BY DEF StartAdjust, AdjustPointer, AdjustLocation, AdjustReturn, AdjustGlobal,
           AdjustFinish
  <2> QED
    BY <1>1, <1>5, <2>1 DEF AgreeInv, Faithful, NeverBug
<1> QED
  BY <1>2, <1>3, <1>4, <1>5

LEMMA EndKeeps ==
    ASSUME WalksAgree, WalkInv, AgreeInv, NodesFlush \/ CollectFull \/ Crash
    PROVE  AgreeInv'
<1>1. CASE NodesFlush
  <2>1. phase = "collect"
    BY <1>1 DEF NodesFlush
  <2>2. PICK cnt, nx : Shape(cnt, nx) /\ Collecting(cnt, nx)
    BY <2>1 DEF AgreeInv
  <2>3. /\ phase' = "load" /\ Shape(cnt, Collected)'
        /\ \A i \in DOMAIN objs' : image'[i] = CopyOf(i)'
    BY <1>1, <2>2, FlushShape
  <2> QED
    BY <2>3 DEF AgreeInv, Faithful, NeverBug
<1>2. CASE CollectFull
  <2>1. /\ phase' = "bug" /\ ObjCnt >= Bound.objs /\ image = <<>>
        /\ objs' = objs /\ image' = image
    BY <1>2 DEF CollectFull, WalkInv, Marks, collectVars, adjustVars
  <2>2. NeverBug'
    BY <2>1 DEF NeverBug, ObjCnt, Bound
  <2> QED
    BY <2>1, <2>2 DEF AgreeInv, Faithful
<1>3. CASE Crash
  <2>1. crashes' = crashes + 1 /\ phase' = "load" /\ crashes \in Nat
    BY <1>3 DEF Crash, WalkInv, Typed
  <2>2. crashes' # 0
    BY <2>1
  <2> QED
    BY <2>1, <2>2 DEF AgreeInv, Faithful, NeverBug
<1> QED
  BY <1>1, <1>2, <1>3

LEMMA StutterKeeps ==
    ASSUME WalkInv, AgreeInv, UNCHANGED vars
    PROVE  AgreeInv'
<1>1. /\ Typed /\ UNCHANGED <<objs, heap>> /\ UNCHANGED <<phase, stack, crashes>>
      /\ UNCHANGED <<image, obj_idx, adjusted, gvar, gptr>>
  BY DEF WalkInv, vars, collectVars, adjustVars
<1>2. /\ \A i : Size(i)' = Size(i)
      /\ \A i, k : PathAt(i, k)' = PathAt(i, k)
      /\ \A i, k : IsSet(i, k)' = IsSet(i, k) /\ LeadsTo(i, k)' = LeadsTo(i, k)
      /\ Tops' = Tops /\ ObjCnt' = ObjCnt /\ OnStack' = OnStack
      /\ \A c, i : End(c, i)' = End(c, i)
  BY <1>1, SameRows, SameFields DEF OnStack
<1>3. ASSUME NEW cnt, NEW nx, Calls(cnt, nx) PROVE Calls(cnt, nx)'
  <2>1. \A c, k : /\ IsSet(stack[c].at, k)' = IsSet(stack[c].at, k)
                  /\ LeadsTo(stack[c].at, k)' = LeadsTo(stack[c].at, k)
    BY <1>1 DEF IsSet, LeadsTo, PathAt
  <2> QED
    BY <1>1, <1>3, <2>1 DEF Calls, IsSet, LeadsTo, PathAt
<1>4. ASSUME NEW cnt, NEW nx, Collecting(cnt, nx) PROVE Collecting(cnt, nx)'
  BY <1>1, <1>2, <1>3, <1>4 DEF Collecting
<1>5. ASSUME NEW cnt, NEW mx, NEW n, Adjusting(cnt, mx, n)
      PROVE  Adjusting(cnt, mx, n)'
  <2>1. Copies(mx, n) /\ Calls(cnt, mx) /\ Place(cnt, n) /\ Entries
    BY <1>5 DEF Adjusting
  <2>2. Copies(mx, n)'
    BY <1>1, <1>2, <2>1 DEF Copies
  <2>3. Place(cnt, n)' /\ Entries'
    BY <1>1, <1>2, <2>1 DEF Place, Entries
  <2> QED
    BY <1>1, <1>3, <1>5, <2>1, <2>2, <2>3 DEF Adjusting
<1>6. CASE phase = "collect"
  <2>1. PICK cnt, nx : Shape(cnt, nx) /\ Collecting(cnt, nx)
    BY <1>6 DEF AgreeInv
  <2>2. Shape(cnt, nx)' /\ Collecting(cnt, nx)'
    BY <1>1, <1>4, <2>1, SameShape
  <2> QED
    BY <1>1, <1>6, <2>2 DEF AgreeInv, Faithful, NeverBug
<1>7. CASE phase = "load"
  <2>1. \A i : CopyOf(i)' = CopyOf(i)
    BY <1>1 DEF CopyOf
  <2>2. ASSUME crashes = 0
        PROVE  /\ \E cnt : Shape(cnt, Collected)'
               /\ \A i \in DOMAIN objs' : image'[i] = CopyOf(i)'
    BY <1>1, <1>7, <2>1, <2>2, SameCollected DEF AgreeInv
  <2> QED
    BY <1>1, <1>7, <2>2 DEF AgreeInv, Faithful, NeverBug
<1>8. CASE phase = "adjust"
  <2>1. ASSUME crashes = 0
        PROVE  \E cnt, mx, n : Shape(cnt, Collected)' /\ Adjusting(cnt, mx, n)'
    <3>1. PICK cnt, mx, n : Shape(cnt, Collected) /\ Adjusting(cnt, mx, n)
      BY <1>8, <2>1 DEF AgreeInv
    <3> QED
      BY <1>1, <1>5, <3>1, SameCollected
  <2> QED
    BY <1>1, <1>8, <2>1 DEF AgreeInv, Faithful, NeverBug
<1>9. CASE phase \notin {"collect", "load", "adjust"}
  <2>1. Faithful' /\ NeverBug'
    BY <1>1 DEF AgreeInv, Faithful, NeverBug, ObjCnt, Bound
  <2> QED
    BY <1>1, <1>9, <2>1 DEF AgreeInv
<1> QED
  BY <1>6, <1>7, <1>8, <1>9

LEMMA AgreeStep == ASSUME WalksAgree, WalkInv, AgreeInv, [Next]_vars PROVE AgreeInv'
<1>1. CASE \/ CollectLocation \/ CollectNew \/ CollectGlobal
           \/ CollectChecked \/ CollectReturn
  BY <1>1, CollectKeeps
<1>2. CASE \/ StartAdjust \/ AdjustPointer \/ AdjustLocation \/ AdjustReturn
           \/ AdjustGlobal \/ AdjustFinish
  BY <1>2, AdjustKeeps
<1>3. CASE NodesFlush \/ CollectFull \/ Crash
  BY <1>3, EndKeeps
<1>4. CASE UNCHANGED vars
  BY <1>4, StutterKeeps
<1> QED
  BY <1>1, <1>2, <1>3, <1>4 DEF Next, Walk, Stopped

LEMMA AgreeAlways == WalksAgree /\ Spec => []AgreeInv
<1>1. ASSUME WalksAgree PROVE Spec => []AgreeInv
  <2>1. Init => AgreeInv
    BY <1>1, AgreeInit
  <2>2. WalkInv /\ AgreeInv /\ [Next]_vars => AgreeInv'
    BY <1>1, AgreeStep
  <2> QED
    BY <2>1, <2>2, WalkInit, WalkStep, PTL DEF Spec
<1> QED
  BY <1>1

(* A first STEP1 has always adjusted the objects the plugin had saved when *)
(* it came to the same field: the location it looks for is the next one.   *)
THEOREM NodeImageInStep == WalksAgree /\ Spec => []InStep
<1>1. AgreeInv => InStep
  BY DEF AgreeInv, Adjusting, InStep
<1> QED
  BY <1>1, AgreeAlways, PTL

(* Neither walk stops the program: every location STEP1 expands is there,  *)
(* no global variable is adjusted before its turn or leads to nothing, and *)
(* STEP1 reaches every object.  Only a full object table stops the plugin. *)
THEOREM NodeImageNeverBug == WalksAgree /\ Spec => []NeverBug
<1>1. AgreeInv => NeverBug
  BY DEF AgreeInv
<1> QED
  BY <1>1, AgreeAlways, PTL

(* STEP1 rebuilds what the plugin had: every field of every copy leads to  *)
(* the copy of what the compiler's field led to, a location to its own     *)
(* expansion, and a global variable saved before to its first copy.        *)
THEOREM NodeImageFaithful == WalksAgree /\ Spec => []Faithful
<1>1. AgreeInv => Faithful
  BY DEF AgreeInv
<1> QED
  BY <1>1, AgreeAlways, PTL


(***************************************************************************)
(* STEP1 after a crash.  The two walks are not in step any more: a field   *)
(* the first run has resolved is NULL now, and a location may be given to  *)
(* another one.  But no address of the compiler is left.                   *)
(***************************************************************************)
Linked == \E cnt : Shape(cnt, Collected)
Clean(i) == \A p \in DOMAIN image[i] : image[i][p].real = TRUE
CleanTo(i, m) ==      \* of the fields before the one visited next
    \A k \in 1..(m - 1) :
        PathAt(i, k) \in DOMAIN image[i] => image[i][PathAt(i, k)].real = TRUE

(* A field that is neither NULL nor resolved has the compiler's address.   *)
Held ==
    \A i \in DOMAIN objs :
        /\ DOMAIN image[i] \subseteq DOMAIN heap[i]
        /\ \A p \in DOMAIN image[i] :
              \/ image[i][p].real = TRUE
              \/ image[i][p] = [to |-> heap[i][p], real |-> FALSE]

Walked ==
    /\ \A c \in 1..Len(stack) :
          /\ objs[stack[c].at].kind # None
          /\ stack[c].rec = RecordOf(objs[stack[c].at].kind)
          /\ \A i, m : i = stack[c].at /\ m = stack[c].next => CleanTo(i, m)
    /\ \A i \in adjusted : i \notin OnStack => Clean(i)

CleanInv ==
    /\ phase \in {"load", "adjust", "done"} => Linked /\ Held
    /\ phase = "adjust" => Walked
    /\ phase = "done" => \A i \in DOMAIN objs : Clean(i)

LEMMA LinkedFacts ==
    ASSUME Typed, Linked, NEW i \in DOMAIN objs
    PROVE  /\ \A p \in DOMAIN heap[i] : \E k \in 1..Size(i) : p = PathAt(i, k)
           /\ \A k \in 1..Size(i) :
                 /\ TargetAt(i, k) = "location" => IsSet(i, k)
                 /\ IsSet(i, k) /\ TargetAt(i, k) # "location" =>
                       /\ LeadsTo(i, k) \in DOMAIN objs
                       /\ objs[LeadsTo(i, k)].kind \in Pointees(TargetAt(i, k))
           /\ Labels
<1>1. PICK cnt : Shape(cnt, Collected)
  BY DEF Linked
<1>2. Collected[i] - 1 = Size(i)
  BY SizeFacts DEF Collected
<1>3. PICK m : m = Collected[i] - 1
  OBVIOUS
<1>4. /\ \A p \in DOMAIN heap[i] : \E k \in 1..m : p = PathAt(i, k)
      /\ \A k \in 1..m : TargetAt(i, k) = "location" => IsSet(i, k)
  BY <1>1, <1>3, Zenon DEF Shape, Counted
<1>5. \A k \in 1..m : IsSet(i, k) => OldField(cnt, i, k) \/ NewField(cnt, i, k)
  BY <1>1, <1>3, Zenon DEF Shape, Ordered
<1>6. m = Size(i)
  BY <1>2, <1>3
<1>7. Labels
  BY <1>1 DEF Shape
<1>8. ASSUME NEW k \in 1..Size(i), IsSet(i, k), TargetAt(i, k) # "location"
      PROVE  /\ LeadsTo(i, k) \in DOMAIN objs
             /\ objs[LeadsTo(i, k)].kind \in Pointees(TargetAt(i, k))
  BY <1>5, <1>6, <1>8 DEF OldField, NewField
<1> QED
  BY <1>4, <1>6, <1>7, <1>8

LEMMA SameLinked == ASSUME Typed, UNCHANGED <<objs, heap>>, Linked PROVE Linked'
  BY SameCollected DEF Linked

(* The field STEP1 comes to, whatever is in the image.                     *)
LEMMA StopsNext ==
    ASSUME WalksAgree, WalkInv, phase = "adjust", stack # <<>>, Walked,
           NEW x, x = Top.at, NEW m, m = Top.next
    PROVE  /\ x \in DOMAIN objs /\ Size(x) \in Nat /\ m \in Nat \ {0}
           /\ CleanTo(x, m)
           /\ \A j \in NextStop :
                 /\ j \in 1..Size(x) /\ j >= m /\ j \in Nat
                 /\ \A k \in m..(j - 1) : PathAt(x, k) \notin DOMAIN image[x]
                 /\ Item(j)[1] = PathAt(x, j) /\ Item(j)[2] = TargetAt(x, j)
                 /\ TargetAt(x, j) = "location" \/ PathAt(x, j) \in DOMAIN image[x]
           /\ NextStop = {} =>
                 \A k \in m..Size(x) : PathAt(x, k) \notin DOMAIN image[x]
<1>1. /\ Typed /\ x \in DOMAIN objs /\ m \in Nat \ {0} /\ Top = stack[1]
      /\ 1 \in 1..Len(stack)
  BY TopFacts DEF WalkInv
<1>2. /\ objs[x].kind # None /\ Top.rec = RecordOf(objs[x].kind) /\ CleanTo(x, m)
  BY <1>1 DEF Walked
<1>3. Size(x) \in Nat /\ objs[x].kind \in Kinds
  BY <1>1, SizeFacts
<1>4. /\ Adjusts[Top.rec] = WalkOf(objs[x].kind) /\ Len(Adjusts[Top.rec]) = Size(x)
      /\ \A k : /\ Adjusts[Top.rec][k][1] = PathAt(x, k)
                /\ Adjusts[Top.rec][k][2] = TargetAt(x, k)
  BY <1>2, <1>3, WalkFacts DEF WalksAgree, Size, PathAt, TargetAt
<1>5. \A k : Stops(Adjusts[Top.rec][k], image[Top.at]) <=>
                TargetAt(x, k) = "location" \/ PathAt(x, k) \in DOMAIN image[x]
  BY <1>4 DEF Stops
<1>6. \A j : j \in NextStop <=>
         /\ j \in m..Size(x)
         /\ TargetAt(x, j) = "location" \/ PathAt(x, j) \in DOMAIN image[x]
         /\ \A k \in m..(j - 1) : ~ (\/ TargetAt(x, k) = "location"
                                     \/ PathAt(x, k) \in DOMAIN image[x])
  BY <1>4, <1>5 DEF NextStop
<1>7. ASSUME NEW j \in NextStop
      PROVE  /\ j \in 1..Size(x) /\ j >= m /\ j \in Nat
             /\ \A k \in m..(j - 1) : PathAt(x, k) \notin DOMAIN image[x]
             /\ Item(j)[1] = PathAt(x, j) /\ Item(j)[2] = TargetAt(x, j)
             /\ TargetAt(x, j) = "location" \/ PathAt(x, j) \in DOMAIN image[x]
  BY <1>1, <1>3, <1>4, <1>6 DEF Item
<1>8. ASSUME NextStop = {}, NEW e \in m..Size(x), PathAt(x, e) \in DOMAIN image[x]
      PROVE  FALSE
  <2> DEFINE T == {k \in m..Size(x) : \/ TargetAt(x, k) = "location"
                                      \/ PathAt(x, k) \in DOMAIN image[x]}
  <2>1. T \subseteq Nat /\ T # {}
    BY <1>1, <1>3, <1>8
  <2>2. PICK j \in T : \A k \in T : j <= k
    <3> HIDE DEF T
    <3> QED
      BY <2>1, LeastOf
  <2>3. \A k \in m..(j - 1) : ~ (\/ TargetAt(x, k) = "location"
                                 \/ PathAt(x, k) \in DOMAIN image[x])
    BY <1>1, <1>3, <2>2
  <2> QED
    BY <1>6, <1>8, <2>2, <2>3
<1> QED
  BY <1>1, <1>2, <1>3, <1>7, <1>8

(* Field j of x is resolved, or NULL; nothing else changes.                *)
Settled(x, j) ==
    /\ \A i \in DOMAIN objs : i # x => image'[i] = image[i]
    /\ \A q \in DOMAIN image'[x] :
          \/ q = PathAt(x, j) /\ image'[x][q].real = TRUE
          \/ q # PathAt(x, j) /\ q \in DOMAIN image[x] /\ image'[x][q] = image[x][q]

LEMMA SettledClean ==
    ASSUME WalkInv, UNCHANGED <<objs, heap>>, Held, NEW x \in DOMAIN objs,
           NEW m \in Nat \ {0}, CleanTo(x, m), NEW j \in 1..Size(x), j >= m,
           \A k \in m..(j - 1) : PathAt(x, k) \notin DOMAIN image[x],
           IsSet(x, j), Settled(x, j)
    PROVE  Held' /\ CleanTo(x, j + 1)'
<1>1. \A i, k : PathAt(i, k)' = PathAt(i, k)
  BY SameRows DEF WalkInv
<1>2. PathAt(x, j) \in DOMAIN heap[x] /\ j \in Nat
  BY SizeFacts DEF IsSet, WalkInv
<1>3. Held'
  BY <1>2 DEF Held, Settled
<1>4. ASSUME NEW k \in 1..((j + 1) - 1), PathAt(x, k) \in DOMAIN image'[x]
      PROVE  image'[x][PathAt(x, k)].real = TRUE
  <2>1. CASE PathAt(x, k) = PathAt(x, j)
    BY <1>4, <2>1 DEF Settled
  <2>2. CASE PathAt(x, k) # PathAt(x, j)
    <3>1. /\ PathAt(x, k) \in DOMAIN image[x]
          /\ image'[x][PathAt(x, k)] = image[x][PathAt(x, k)]
      BY <1>4, <2>2 DEF Settled
    <3>2. k # j /\ k \in Nat
      BY <2>2
    <3>3. k \in 1..(m - 1)
      BY <1>2, <1>4, <3>1, <3>2
    <3> QED
      BY <3>1, <3>3 DEF CleanTo
  <2> QED
    BY <2>1, <2>2
<1>5. CleanTo(x, j + 1)'
  BY <1>1, <1>4 DEF CleanTo
<1> QED
  BY <1>3, <1>5

(* The calls below the one on top are not on x.                            *)
LEMMA BelowClean ==
    ASSUME WalkInv, stack # <<>>, Walked, UNCHANGED <<objs, heap>>, NEW x, x = Top.at,
           \A i \in DOMAIN objs : i # x => image'[i] = image[i]
    PROVE  \A c \in 2..Len(stack) :
              /\ stack[c].at # x /\ objs'[stack[c].at].kind # None
              /\ stack[c].rec = RecordOf(objs'[stack[c].at].kind)
              /\ \A i, m : i = stack[c].at /\ m = stack[c].next => CleanTo(i, m)'
<1>1. /\ x = stack[1].at /\ Len(stack) \in Nat \ {0} /\ Typed
  BY TopFacts DEF WalkInv
<1> TAKE c \in 2..Len(stack)
<1>2. c \in 1..Len(stack) /\ 1 \in 1..Len(stack) /\ c # 1
  BY <1>1
<1>3. stack[c].at # x /\ stack[c].at \in DOMAIN objs
  BY <1>1, <1>2, AtFacts DEF Typed, NoReentry
<1>4. /\ objs'[stack[c].at].kind # None
      /\ stack[c].rec = RecordOf(objs'[stack[c].at].kind)
  BY <1>2 DEF Walked
<1>5. ASSUME NEW i, NEW m, i = stack[c].at, m = stack[c].next
      PROVE  CleanTo(i, m)'
  <2>1. CleanTo(i, m) /\ image'[i] = image[i]
    BY <1>2, <1>3, <1>5 DEF Walked
  <2>2. \A k : PathAt(i, k)' = PathAt(i, k)
    BY <1>1, SameRows
  <2> QED
    BY <2>1, <2>2 DEF CleanTo
<1> QED
  BY <1>3, <1>4, <1>5

(* The walk goes on after field j, which is clean now.                     *)
LEMMA GoOnWalked ==
    ASSUME WalkInv, stack # <<>>, Walked, UNCHANGED <<objs, heap>>, NEW x, x = Top.at,
           \A i \in DOMAIN objs : i # x => image'[i] = image[i],
           NEW j, j \in Nat, CleanTo(x, j + 1)', GoesOn(j + 1)
    PROVE  Walked'
<1>1. /\ x = stack[1].at /\ x \in OnStack /\ Len(stack) \in Nat \ {0}
      /\ 1 \in 1..Len(stack) /\ Typed /\ adjusted \subseteq DOMAIN objs
  BY TopFacts DEF WalkInv, OnStack, Typed
<1>2. /\ Len(stack') = Len(stack) /\ adjusted' = adjusted
      /\ stack'[1].rec = stack[1].rec /\ stack'[1].at = x /\ stack'[1].next = j + 1
      /\ \A c \in 2..Len(stack) : stack'[c] = stack[c]
  BY <1>1 DEF GoesOn, Resumed
<1>3. OnStack' = OnStack
  BY <1>1, ResumeSet DEF GoesOn
<1>4. ASSUME NEW c \in 1..Len(stack')
      PROVE  /\ objs'[stack'[c].at].kind # None
             /\ stack'[c].rec = RecordOf(objs'[stack'[c].at].kind)
             /\ \A i, m : i = stack'[c].at /\ m = stack'[c].next => CleanTo(i, m)'
  <2>1. CASE c = 1
    BY <1>1, <1>2, <2>1 DEF Walked
  <2>2. CASE c # 1
    <3>1. c \in 2..Len(stack)
      BY <1>1, <1>2, <2>2
    <3> QED
      BY <1>2, <3>1, BelowClean
  <2> QED
    BY <2>1, <2>2
<1>5. \A i \in adjusted' : i \notin OnStack' => Clean(i)'
  BY <1>1, <1>2, <1>3 DEF Walked, Clean
<1> QED
  BY <1>4, <1>5 DEF Walked

(* The walk enters the record z that field j leads to.                     *)
LEMMA EnterWalked ==
    ASSUME WalkInv, phase = "adjust", stack # <<>>, Walked, UNCHANGED <<objs, heap>>,
           NEW x, x = Top.at, \A i \in DOMAIN objs : i # x => image'[i] = image[i],
           NEW j, j \in Nat, CleanTo(x, j + 1)', NEW z \in DOMAIN objs,
           objs[z].kind # None, Enters(z, RecordOf(objs[z].kind), j + 1)
    PROVE  Walked'
<1>1. /\ x = stack[1].at /\ x \in OnStack /\ Len(stack) \in Nat \ {0}
      /\ 1 \in 1..Len(stack) /\ Typed /\ adjusted \subseteq DOMAIN objs
  BY TopFacts DEF WalkInv, OnStack, Typed
<1>2. PICK rec : /\ rec = RecordOf(objs[z].kind) /\ Entered(rec, z, j + 1)
                 /\ adjusted' = adjusted \cup {z}
  BY DEF Enters
<1>3. /\ Len(stack') = Len(stack) + 1
      /\ stack'[1].rec = rec /\ stack'[1].at = z /\ stack'[1].next = 1
      /\ stack'[2].rec = stack[1].rec /\ stack'[2].at = x /\ stack'[2].next = j + 1
      /\ \A c \in 3..Len(stack') : stack'[c] = stack[c - 1]
  BY <1>1, <1>2 DEF Entered
<1>4. OnStack' = OnStack \cup {z}
  BY <1>1, <1>2, EnterSet
<1>5. ASSUME NEW c \in 1..Len(stack')
      PROVE  /\ objs'[stack'[c].at].kind # None
             /\ stack'[c].rec = RecordOf(objs'[stack'[c].at].kind)
             /\ \A i, m : i = stack'[c].at /\ m = stack'[c].next => CleanTo(i, m)'
  <2>1. CASE c = 1
    <3>1. CleanTo(z, 1)'
      BY DEF CleanTo
    <3> QED
      BY <1>2, <1>3, <2>1, <3>1
  <2>2. CASE c = 2
    BY <1>1, <1>3, <2>2 DEF Walked
  <2>3. CASE c > 2
    <3>1. c \in 3..Len(stack') /\ c - 1 \in 2..Len(stack)
      BY <1>1, <1>3, <2>3
    <3> QED
      BY <1>3, <3>1, BelowClean
  <2> QED
    BY <1>1, <1>3, <2>1, <2>2, <2>3
<1>6. \A i \in adjusted' : i \notin OnStack' => Clean(i)'
  BY <1>1, <1>2, <1>4 DEF Walked, Clean
<1> QED
  BY <1>5, <1>6 DEF Walked

LEMMA PointerClean ==
    ASSUME WalksAgree, WalkInv, AdjustPointer, Linked, Held, Walked
    PROVE  Linked' /\ Held' /\ Walked'
<1>1. /\ phase = "adjust" /\ stack # <<>> /\ Typed /\ UNCHANGED <<objs, heap>>
      /\ DOMAIN image = DOMAIN objs
  BY PointerMoves DEF collectVars, WalkInv, Marks
<1>2. PICK x, m : x = Top.at /\ m = Top.next
  OBVIOUS
<1>3. PICK j \in NextStop :
         /\ Item(j)[2] # "location"
         /\ \/ /\ Field(j).real \/ ObjectAt(Field(j).to) = {}
               /\ Cleared(j) /\ GoesOn(j + 1)
            \/ /\ ~Field(j).real
               /\ \E i \in ObjectAt(Field(j).to) :
                     /\ Resolved(j, i)
                     /\ \/ i \in adjusted /\ GoesOn(j + 1)
                        \/ /\ i \notin adjusted
                           /\ Enters(i, AdjustOf(Item(j)[2], objs[i].kind), j + 1)
  BY PointerMoves
<1>4. /\ x \in DOMAIN objs /\ m \in Nat \ {0} /\ CleanTo(x, m)
      /\ j \in 1..Size(x) /\ j >= m /\ j \in Nat
      /\ \A k \in m..(j - 1) : PathAt(x, k) \notin DOMAIN image[x]
      /\ Item(j)[1] = PathAt(x, j) /\ Item(j)[2] = TargetAt(x, j)
      /\ PathAt(x, j) \in DOMAIN image[x]
  BY <1>1, <1>2, <1>3, StopsNext
<1>5. PICK p : p = PathAt(x, j)
  OBVIOUS
<1>6. /\ DOMAIN image[x] \subseteq DOMAIN heap[x] /\ p \in DOMAIN image[x]
      /\ Field(j) = image[x][p] /\ IsSet(x, j)
      /\ image[x][p].real = TRUE \/ image[x][p] = [to |-> LeadsTo(x, j), real |-> FALSE]
  BY <1>2, <1>4, <1>5 DEF Held, Field, IsSet, LeadsTo
<1>7. ASSUME Settled(x, j)
      PROVE  /\ Held' /\ CleanTo(x, j + 1)'
             /\ \A i \in DOMAIN objs : i # x => image'[i] = image[i]
  <2>1. Held' /\ CleanTo(x, j + 1)'
    BY <1>1, <1>4, <1>6, <1>7, SettledClean
  <2> QED
    BY <1>7, <2>1 DEF Settled
<1>8. Linked'
  BY <1>1, SameLinked
<1>9. CASE Cleared(j) /\ GoesOn(j + 1)
  <2>1. /\ \A i \in DOMAIN objs : i # x => image'[i] = image[i]
        /\ image'[x] = [q \in DOMAIN image[x] \ {p} |-> image[x][q]]
    BY <1>1, <1>2, <1>4, <1>5, <1>9 DEF Cleared
  <2>2. Settled(x, j)
    BY <1>5, <2>1 DEF Settled
  <2>3. Held' /\ Walked'
    BY <1>1, <1>2, <1>4, <1>7, <1>9, <2>2, GoOnWalked
  <2> QED
    BY <1>8, <2>3
<1>10. ASSUME NEW i \in ObjectAt(Field(j).to), ~Field(j).real, Resolved(j, i),
              \/ i \in adjusted /\ GoesOn(j + 1)
              \/ /\ i \notin adjusted
                 /\ Enters(i, AdjustOf(Item(j)[2], objs[i].kind), j + 1)
       PROVE  Held' /\ Walked'
  <2>1. PICK v : v = [to |-> i, real |-> TRUE]
    OBVIOUS
  <2>2. /\ \A y \in DOMAIN objs : y # x => image'[y] = image[y]
        /\ image'[x] = With(image[x], p, v) /\ v.real = TRUE
    BY <1>1, <1>2, <1>4, <1>5, <1>10, <2>1 DEF Resolved, Put
  <2>3. Settled(x, j)
    BY <1>5, <2>2 DEF Settled, With
  <2>4. PICK z : z = LeadsTo(x, j)
    OBVIOUS
  <2>5. /\ z \in DOMAIN objs /\ objs[z].kind \in Pointees(TargetAt(x, j)) /\ Labels
    BY <1>1, <1>3, <1>4, <1>6, <2>4, LinkedFacts
  <2>6. TargetAt(x, j) \in Pointers
    BY <1>1, <1>3, <1>4, SizeFacts
  <2>7. /\ objs[z].kind # None
        /\ AdjustOf(TargetAt(x, j), objs[z].kind) = RecordOf(objs[z].kind)
    BY <2>5, <2>6, RecordFacts
  <2>8. Field(j).to = z
    BY <1>6, <1>10, <2>4
  <2>9. i = z
    <3>1. i \in DOMAIN objs /\ objs[i].fake = z /\ objs[i].kind # None
      BY <2>8, ObjectAtFacts
    <3> QED
      BY <2>5, <3>1 DEF Labels
  <2>10. GoesOn(j + 1) \/ Enters(z, RecordOf(objs[z].kind), j + 1)
    BY <1>4, <1>10, <2>7, <2>9
  <2>11. CASE GoesOn(j + 1)
    BY <1>1, <1>2, <1>4, <1>7, <2>3, <2>11, GoOnWalked
  <2>12. CASE Enters(z, RecordOf(objs[z].kind), j + 1)
    BY <1>1, <1>2, <1>4, <1>7, <2>3, <2>5, <2>7, <2>12, EnterWalked
  <2> QED
    BY <2>10, <2>11, <2>12
<1> QED
  BY <1>3, <1>8, <1>9, <1>10

LEMMA LocationClean ==
    ASSUME WalksAgree, WalkInv, AdjustLocation, Linked, Held, Walked, phase' # "bug"
    PROVE  Linked' /\ Held' /\ Walked'
<1>1. /\ phase = "adjust" /\ stack # <<>> /\ Typed /\ UNCHANGED <<objs, heap>>
      /\ DOMAIN image = DOMAIN objs
  BY LocationMoves DEF collectVars, WalkInv, Marks
<1>2. PICK x, m, y : x = Top.at /\ m = Top.next /\ y = NextFree
  OBVIOUS
<1>3. PICK j \in NextStop :
         /\ Item(j)[2] = "location" /\ y \in DOMAIN objs
         /\ objs[y].kind = "location" /\ Resolved(j, y) /\ Enters(y, "location", j + 1)
  BY <1>2, LocationMoves
<1>4. /\ x \in DOMAIN objs /\ m \in Nat \ {0} /\ CleanTo(x, m)
      /\ j \in 1..Size(x) /\ j >= m /\ j \in Nat
      /\ \A k \in m..(j - 1) : PathAt(x, k) \notin DOMAIN image[x]
      /\ Item(j)[1] = PathAt(x, j) /\ Item(j)[2] = TargetAt(x, j)
  BY <1>1, <1>2, <1>3, StopsNext
<1>5. PICK p, v : p = PathAt(x, j) /\ v = [to |-> y, real |-> TRUE]
  OBVIOUS
<1>6. IsSet(x, j)
  BY <1>1, <1>3, <1>4, LinkedFacts
<1>7. /\ \A i \in DOMAIN objs : i # x => image'[i] = image[i]
      /\ image'[x] = With(image[x], p, v) /\ v.real = TRUE
  BY <1>1, <1>2, <1>3, <1>4, <1>5 DEF Resolved, Put
<1>8. Settled(x, j)
  BY <1>5, <1>7 DEF Settled, With
<1>9. Held' /\ CleanTo(x, j + 1)'
  BY <1>1, <1>4, <1>6, <1>8, SettledClean
<1>10. objs[y].kind # None /\ RecordOf(objs[y].kind) = "location"
  BY <1>3 DEF RecordOf, None
<1>11. Walked'
  BY <1>1, <1>2, <1>3, <1>4, <1>7, <1>9, <1>10, EnterWalked
<1> QED
  BY <1>1, <1>9, <1>11, SameLinked

(* A call that ends has visited every field of its record.                 *)
LEMMA ReturnClean ==
    ASSUME WalksAgree, WalkInv, AdjustReturn, Linked, Held, Walked
    PROVE  Linked' /\ Held' /\ Walked'
<1>1. /\ phase = "adjust" /\ stack # <<>> /\ NextStop = {} /\ Typed
      /\ UNCHANGED <<objs, heap>> /\ UNCHANGED <<adjusted, image>>
      /\ adjusted \subseteq DOMAIN objs
  BY DEF AdjustReturn, collectVars, adjustVars, WalkInv, Typed
<1>2. Returned
  BY <1>1, ReturnStack DEF AdjustReturn
<1>3. PICK x, m : x = Top.at /\ m = Top.next
  OBVIOUS
<1>4. /\ x \in DOMAIN objs /\ m \in Nat \ {0} /\ CleanTo(x, m) /\ Size(x) \in Nat
      /\ \A k \in m..Size(x) : PathAt(x, k) \notin DOMAIN image[x]
  BY <1>1, <1>3, StopsNext
<1>5. ASSUME NEW p \in DOMAIN image[x] PROVE image[x][p].real = TRUE
  <2>1. p \in DOMAIN heap[x]
    BY <1>4 DEF Held
  <2>2. PICK k \in 1..Size(x) : p = PathAt(x, k)
    BY <1>1, <1>4, <2>1, LinkedFacts
  <2>3. k \in 1..(m - 1)
    BY <1>4, <1>5, <2>2
  <2> QED
    BY <1>4, <2>2, <2>3 DEF CleanTo
<1>6. OnStack' = OnStack \ {x}
  BY <1>1, <1>2, <1>3, ReturnSet
<1>7. \A i \in adjusted' : i \notin OnStack' => Clean(i)'
  BY <1>1, <1>5, <1>6 DEF Walked, Clean
<1>8. \A c \in 1..Len(stack') : c + 1 \in 1..Len(stack) /\ stack'[c] = stack[c + 1]
  BY <1>1, <1>2, ReturnOnce
<1>9. \A i, k : CleanTo(i, k)' <=> CleanTo(i, k)
  BY <1>1, SameRows DEF CleanTo
<1>10. ASSUME NEW c \in 1..Len(stack')
       PROVE  /\ objs'[stack'[c].at].kind # None
              /\ stack'[c].rec = RecordOf(objs'[stack'[c].at].kind)
              /\ \A i, k : i = stack'[c].at /\ k = stack'[c].next => CleanTo(i, k)'
  BY <1>1, <1>8, <1>9 DEF Walked
<1>11. Held'
  BY <1>1 DEF Held
<1> QED
  BY <1>1, <1>7, <1>10, <1>11, SameLinked DEF Walked

(* A walk that starts.                                                     *)
LEMMA StartWalked ==
    ASSUME Typed, UNCHANGED <<objs, heap>>, image' = image, NEW z \in DOMAIN objs,
           objs[z].kind # None, Started(RecordOf(objs[z].kind), z),
           \A i \in adjusted' : i = z \/ Clean(i)
    PROVE  Walked'
<1>1. PICK rec : rec = RecordOf(objs[z].kind) /\ Started(rec, z)
  OBVIOUS
<1>2. /\ Len(stack') = 1 /\ stack'[1].rec = rec /\ stack'[1].at = z
      /\ stack'[1].next = 1 /\ OnStack' = {z}
  BY <1>1, StartSet DEF Started
<1>3. CleanTo(z, 1)'
  BY DEF CleanTo
<1>4. ASSUME NEW c \in 1..Len(stack')
      PROVE  /\ objs'[stack'[c].at].kind # None
             /\ stack'[c].rec = RecordOf(objs'[stack'[c].at].kind)
             /\ \A i, m : i = stack'[c].at /\ m = stack'[c].next => CleanTo(i, m)'
  <2>1. c = 1
    BY <1>2
  <2> QED
    BY <1>1, <1>2, <1>3, <2>1
<1>5. \A i \in adjusted' : i \notin OnStack' => Clean(i)'
  BY <1>2 DEF Clean
<1> QED
  BY <1>4, <1>5 DEF Walked

LEMMA StartClean ==
    ASSUME WalksAgree, WalkInv, StartAdjust, Linked, Held
    PROVE  Linked' /\ Held' /\ Walked'
<1>1. /\ Typed /\ UNCHANGED <<objs, heap>> /\ image' = image /\ adjusted' = {1}
      /\ 1 \in DOMAIN objs
  BY TableFacts DEF StartAdjust, WalkInv, collectVars
<1>2. PICK r \in Roots : /\ r[2] = objs[1].kind
                         /\ stack' = <<Call(AdjustOf(r[1], r[2]), 1)>>
  BY DEF StartAdjust
<1>3. /\ objs[1].kind # None /\ AdjustOf(r[1], r[2]) = RecordOf(objs[1].kind)
  BY <1>2, RootFacts, RecordFacts
<1>4. Started(RecordOf(objs[1].kind), 1)
  BY <1>2, <1>3, StartStack
<1>5. Walked'
  BY <1>1, <1>3, <1>4, StartWalked
<1>6. Held'
  BY <1>1 DEF Held
<1> QED
  BY <1>1, <1>5, <1>6, SameLinked

(* The entry of a global variable saved before has no field.               *)
LEMMA GlobalClean ==
    ASSUME WalksAgree, WalkInv, AdjustGlobal, Linked, Held, Walked, phase' # "bug"
    PROVE  Linked' /\ Held' /\ Walked'
<1>1. /\ Typed /\ stack = <<>> /\ gvar \in DOMAIN objs /\ phase = "adjust"
      /\ UNCHANGED <<objs, heap>> /\ image' = image /\ OnStack = {}
  BY GlobalMoves, EmptySet DEF collectVars, WalkInv
<1>2. PICK g : g = gvar
  OBVIOUS
<1>3. Labels /\ g \in DOMAIN objs
  BY <1>1, <1>2, LinkedFacts
<1>4. g # 0 /\ \A i \in adjusted : Clean(i)
  BY <1>1, <1>3, SizeFacts DEF Walked
<1>5. \/ UNCHANGED <<stack, adjusted>>
      \/ /\ objs[g].kind = None /\ stack' = stack /\ adjusted' = adjusted \cup {g}
      \/ /\ objs[g].gvar /\ objs[g].kind # None
         /\ Starts(g, AdjustOf("tree", objs[g].kind))
  <2>1. objs[g].fake = Null => objs[g].kind = None
    BY <1>3, <1>4 DEF Labels, Null
  <2> QED
    BY <1>2, <2>1, GlobalMoves
<1>6. Held' /\ Linked'
  <2>1. Held'
    BY <1>1 DEF Held
  <2> QED
    BY <1>1, <2>1, SameLinked
<1>7. ASSUME stack' = stack, \A i \in adjusted' : Clean(i) PROVE Walked'
  <2>1. \A c : c \notin 1..Len(stack')
    BY <1>1, <1>7
  <2> QED
    BY <1>1, <1>7, <2>1 DEF Walked, Clean
<1>8. CASE UNCHANGED <<stack, adjusted>>
  BY <1>4, <1>6, <1>7, <1>8
<1>9. CASE objs[g].kind = None /\ stack' = stack /\ adjusted' = adjusted \cup {g}
  <2>1. Size(g) = 0
    <3>1. WalkOf(objs[g].kind) = <<>>
      BY <1>9 DEF WalkOf
    <3> QED
      BY <3>1 DEF Size
  <2>2. DOMAIN heap[g] = {}
    BY <1>1, <1>3, <2>1, LinkedFacts
  <2>3. Clean(g)
    BY <1>3, <2>2 DEF Held, Clean
  <2> QED
    BY <1>4, <1>6, <1>7, <1>9, <2>3
<1>10. CASE /\ objs[g].gvar /\ objs[g].kind # None
            /\ Starts(g, AdjustOf("tree", objs[g].kind))
  <2>1. AdjustOf("tree", objs[g].kind) = RecordOf(objs[g].kind)
    BY <1>3, <1>10, TreeIsPointer, RecordFacts DEF Labels
  <2>2. Started(RecordOf(objs[g].kind), g) /\ adjusted' = adjusted \cup {g}
    BY <1>10, <2>1 DEF Starts
  <2>3. Walked'
    BY <1>1, <1>3, <1>4, <1>10, <2>2, StartWalked
  <2> QED
    BY <1>6, <2>3
<1> QED
  BY <1>5, <1>8, <1>9, <1>10

(* STEP1 is done when every object is adjusted, and then all are clean.    *)
LEMMA FinishClean ==
    ASSUME WalkInv, AdjustFinish, Linked, Held, Walked, phase' # "bug"
    PROVE  Linked' /\ Held' /\ \A i \in DOMAIN objs' : Clean(i)'
<1>1. /\ Typed /\ stack = <<>> /\ OnStack = {} /\ adjusted = DOMAIN objs
      /\ UNCHANGED <<objs, heap>> /\ image' = image
  BY EmptySet DEF WalkInv, AdjustFinish, collectVars, adjustVars
<1>2. Held'
  BY <1>1 DEF Held
<1> QED
  BY <1>1, <1>2, SameLinked DEF Walked, Clean

(* The plugin writes every field with the address it holds.                *)
LEMMA FlushClean ==
    ASSUME WalkInv, AgreeInv, NodesFlush PROVE phase' = "load" /\ Linked' /\ Held'
<1>1. phase = "collect" /\ UNCHANGED <<objs, heap>>
  BY DEF NodesFlush, collectVars
<1>2. PICK cnt, nx : Shape(cnt, nx) /\ Collecting(cnt, nx)
  BY <1>1 DEF AgreeInv
<1>3. /\ phase' = "load" /\ Shape(cnt, Collected)'
      /\ \A i \in DOMAIN objs' : image'[i] = CopyOf(i)'
  BY <1>2, FlushShape
<1>4. Held'
  BY <1>3 DEF Held, CopyOf
<1> QED
  BY <1>3, <1>4 DEF Linked

LEMMA CleanStep ==
    ASSUME WalksAgree, WalkInv, AgreeInv, CleanInv, [Next]_vars PROVE CleanInv'
<1>1. CASE \/ CollectLocation \/ CollectNew \/ CollectGlobal
           \/ CollectChecked \/ CollectReturn \/ CollectFull
  <2>1. phase' \in {"collect", "overrun", "bug"}
    BY <1>1 DEF CollectLocation, CollectNew, CollectGlobal, CollectChecked,
                CollectReturn, CollectFull, Insert
  <2> QED
    BY <2>1 DEF CleanInv
<1>2. CASE NodesFlush
  BY <1>2, FlushClean DEF CleanInv
<1>3. CASE StartAdjust
  <2>1. phase = "load" /\ phase' = "adjust"
    BY <1>3 DEF StartAdjust
  <2> QED
    BY <1>3, <2>1, StartClean DEF CleanInv
<1>4. CASE AdjustPointer \/ AdjustLocation \/ AdjustReturn \/ AdjustGlobal
  <2>1. phase = "adjust" /\ phase' \in {"adjust", "bug"}
    BY <1>4 DEF AdjustPointer, AdjustLocation, AdjustReturn, AdjustGlobal
  <2>2. Linked /\ Held /\ Walked
    BY <2>1 DEF CleanInv
  <2>3. phase' # "bug" => Linked' /\ Held' /\ Walked'
    BY <1>4, <2>2, PointerClean, LocationClean, ReturnClean, GlobalClean
  <2> QED
    BY <2>1, <2>3 DEF CleanInv
<1>5. CASE AdjustFinish
  <2>1. phase = "adjust" /\ phase' \in {"done", "bug"}
    BY <1>5 DEF AdjustFinish
  <2>2. Linked /\ Held /\ Walked
    BY <2>1 DEF CleanInv
  <2> QED
    BY <1>5, <2>1, <2>2, FinishClean DEF CleanInv
<1>6. CASE Crash
  <2>1. /\ phase \in {"adjust", "done"} /\ phase' = "load" /\ Typed
        /\ UNCHANGED <<objs, heap>> /\ image' = image
    BY <1>6 DEF Crash, collectVars, adjustVars, WalkInv
  <2>2. Linked /\ Held
    BY <2>1 DEF CleanInv
  <2>3. Held'
    BY <2>1, <2>2 DEF Held
  <2> QED
    BY <2>1, <2>2, <2>3, SameLinked DEF CleanInv
<1>7. CASE UNCHANGED vars
  <2>1. /\ Typed /\ UNCHANGED <<objs, heap>> /\ UNCHANGED <<phase, stack>>
        /\ UNCHANGED <<image, adjusted>>
    BY <1>7 DEF vars, collectVars, adjustVars, WalkInv
  <2>2. \A i, k : PathAt(i, k)' = PathAt(i, k)
    BY <2>1, SameRows
  <2>3. /\ \A i, m : CleanTo(i, m)' <=> CleanTo(i, m)
        /\ \A i : Clean(i)' <=> Clean(i)
    BY <2>1, <2>2 DEF CleanTo, Clean
  <2>4. /\ Linked => Linked'
        /\ Held => Held'
        /\ Walked => Walked'
    <3>1. Linked => Linked'
      BY <2>1, SameLinked
    <3>2. Held => Held'
      BY <2>1 DEF Held
    <3>3. Walked => Walked'
      BY <2>1, <2>3 DEF Walked, OnStack
    <3> QED
      BY <3>1, <3>2, <3>3
  <2> QED
    BY <2>1, <2>3, <2>4 DEF CleanInv
<1> QED
  BY <1>1, <1>2, <1>3, <1>4, <1>5, <1>6, <1>7 DEF Next, Walk, Stopped

(* When STEP1 says it is done no field of any copy holds an address of the *)
(* compiler, whatever earlier runs of STEP1 were cut short, anywhere.      *)
THEOREM NodeImageNoStale == WalksAgree /\ Spec => []NoStale
<1>1. WalkInv /\ CleanInv => NoStale
  BY DEF WalkInv, Marks, CleanInv, Clean, NoStale
<1>2. Init => CleanInv
  BY DEF Init, CleanInv
<1>3. ASSUME WalksAgree PROVE Spec => []NoStale
  <2>1. WalkInv /\ AgreeInv /\ CleanInv /\ [Next]_vars => CleanInv'
    BY <1>3, CleanStep
  <2>2. Spec => []AgreeInv
    BY <1>3, AgreeAlways
  <2> QED
    BY <1>1, <1>2, <2>1, <2>2, WalkInit, WalkStep, PTL DEF Spec
<1> QED
  BY <1>3

===============================================================================
