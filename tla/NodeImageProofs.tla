---------------------------- MODULE NodeImageProofs ---------------------------
(***************************************************************************)
(* Theorems about NodeImage that hold for every set of records, whatever   *)
(* the two programs' walks are: the types, and that no record is entered   *)
(* twice.  NodeAgreeProofs goes on with programs whose walks agree.        *)
(***************************************************************************)
EXTENDS NodeImage, SequenceTheorems, WellFoundedInduction, TLAPS

(***************************************************************************)
(* Data                                                                    *)
(***************************************************************************)
Path == Seq(STRING)
Fields == UNION {[D -> Nat] : D \in SUBSET Path}
Kinds == {"location", None} \cup UNION {Pointees(t) : t \in Pointers}
ObjectType == [kind : Kinds, fake : Nat, gvar : BOOLEAN]
CallType(S) == [rec : S, at : Nat, next : Nat \ {0}]

LEMMA PushFacts ==
    ASSUME NEW S, NEW s \in Seq(S), NEW e \in S
    PROVE  /\ <<e>> \o s \in Seq(S)
           /\ Len(<<e>> \o s) = Len(s) + 1
           /\ (<<e>> \o s)[1] = e
           /\ \A c \in 2..(Len(s) + 1) : (<<e>> \o s)[c] = s[c - 1]
<1>1. <<e>> \in Seq(S) /\ Len(<<e>>) = 1 /\ <<e>>[1] = e
  OBVIOUS
<1>2. /\ Len(s) \in Nat /\ <<e>> \o s \in Seq(S)
      /\ Len(<<e>> \o s) = Len(s) + 1
  BY <1>1
<1>3. (<<e>> \o s)[1] = e
  BY <1>1, <1>2
<1>4. ASSUME NEW c \in 2..(Len(s) + 1) PROVE (<<e>> \o s)[c] = s[c - 1]
  BY <1>1, <1>2
<1> QED
  BY <1>2, <1>3, <1>4

LEMMA TailFacts ==
    ASSUME NEW S, NEW s \in Seq(S), s # <<>>
    PROVE  /\ Len(s) \in Nat \ {0} /\ Head(s) = s[1] /\ Head(s) \in S
           /\ Tail(s) \in Seq(S) /\ Len(Tail(s)) = Len(s) - 1
           /\ \A c \in 1..(Len(s) - 1) : Tail(s)[c] = s[c + 1]
  OBVIOUS

LEMMA ObjectFacts ==
    ASSUME NEW kind \in Kinds, NEW fake \in Nat, NEW g \in BOOLEAN
    PROVE  /\ Object(kind, fake, g) \in ObjectType
           /\ Object(kind, fake, g).kind = kind
           /\ Object(kind, fake, g).fake = fake
           /\ Object(kind, fake, g).gvar = g
  BY DEF Object, ObjectType

(* A field is set.                                                         *)
LEMMA SetFacts ==
    ASSUME NEW f \in Fields, NEW p \in Path, NEW v \in Nat
    PROVE  With(f, p, v) \in Fields
<1>1. PICK D \in SUBSET Path : f \in [D -> Nat]
  BY DEF Fields
<1>2. With(f, p, v) \in [D \cup {p} -> Nat]
  BY <1>1 DEF With
<1> QED
  BY <1>1, <1>2 DEF Fields


(* A stack of calls.                                                       *)
IsStack(s) == \E S : s \in Seq(CallType(S))

LEMMA StackFacts ==
    ASSUME NEW s, IsStack(s)
    PROVE  /\ Len(s) \in Nat
           /\ s = <<>> <=> Len(s) = 0
           /\ \A c \in 1..Len(s) : s[c].at \in Nat /\ s[c].next \in Nat \ {0}
           /\ s # <<>> => Head(s) = s[1]
<1>1. PICK S : s \in Seq(CallType(S))
  BY DEF IsStack
<1>2. \A c \in 1..Len(s) : s[c] \in CallType(S)
  BY <1>1
<1>3. \A c \in 1..Len(s) : s[c].at \in Nat /\ s[c].next \in Nat \ {0}
  BY <1>2 DEF CallType
<1> QED
  BY <1>1, <1>3

Called(rec, at, s, t) ==
    /\ IsStack(t) /\ Len(t) = Len(s) + 1
    /\ t[1].rec = rec /\ t[1].at = at /\ t[1].next = 1
    /\ \A c \in 2..Len(t) : t[c] = s[c - 1]

LEMMA CallFacts ==
    ASSUME NEW s, IsStack(s), NEW rec, NEW at \in Nat,
           NEW t, t = <<Call(rec, at)>> \o s
    PROVE  Called(rec, at, s, t)
<1>1. PICK S : s \in Seq(CallType(S))
  BY DEF IsStack
<1>2. CallType(S) \subseteq CallType(S \cup {rec})
  BY DEF CallType
<1>3. s \in Seq(CallType(S \cup {rec}))
  BY <1>1, <1>2, SeqMonotonic
<1> DEFINE e == Call(rec, at)
<1>4. /\ e \in CallType(S \cup {rec})
      /\ e.rec = rec /\ e.at = at /\ e.next = 1
  BY DEF Call, CallType
<1>5. t = <<e>> \o s
  OBVIOUS
<1> HIDE DEF e
<1>6. /\ t \in Seq(CallType(S \cup {rec})) /\ Len(t) = Len(s) + 1 /\ t[1] = e
      /\ \A c \in 2..(Len(s) + 1) : t[c] = s[c - 1]
  BY <1>3, <1>4, <1>5, PushFacts
<1> QED
  BY <1>4, <1>6 DEF IsStack, Called

LEMMA OneCall ==
    ASSUME NEW rec, NEW at \in Nat
    PROVE  /\ IsStack(<<Call(rec, at)>>) /\ Len(<<Call(rec, at)>>) = 1
           /\ <<Call(rec, at)>>[1] = Call(rec, at)
<1>1. Call(rec, at) \in CallType({rec})
  BY DEF Call, CallType
<1> DEFINE e == Call(rec, at)
<1>2. e \in CallType({rec})
  BY <1>1
<1> HIDE DEF e
<1>3. <<e>> \in Seq(CallType({rec})) /\ Len(<<e>>) = 1 /\ <<e>>[1] = e
  BY <1>2
<1> QED
  BY <1>3 DEF IsStack, e

LEMMA ReturnFacts ==
    ASSUME NEW s, IsStack(s), s # <<>>
    PROVE  /\ IsStack(Tail(s)) /\ Len(Tail(s)) = Len(s) - 1
           /\ \A c \in 1..(Len(s) - 1) : Tail(s)[c] = s[c + 1]
<1>1. PICK S : s \in Seq(CallType(S))
  BY DEF IsStack
<1>2. /\ Tail(s) \in Seq(CallType(S)) /\ Len(Tail(s)) = Len(s) - 1
      /\ \A c \in 1..(Len(s) - 1) : Tail(s)[c] = s[c + 1]
  BY <1>1, TailFacts
<1> QED
  BY <1>2 DEF IsStack

LEMMA ResumeFacts ==
    ASSUME IsStack(stack), stack # <<>>, NEW j \in Nat \ {0}
    PROVE  /\ IsStack(Resume(j)) /\ Len(Resume(j)) = Len(stack)
           /\ Resume(j) # <<>>
           /\ Resume(j)[1].rec = stack[1].rec /\ Resume(j)[1].at = stack[1].at
           /\ Resume(j)[1].next = j
           /\ \A c \in 2..Len(stack) : Resume(j)[c] = stack[c]
<1>1. PICK S : stack \in Seq(CallType(S))
  BY DEF IsStack
<1> DEFINE e == [Top EXCEPT !.next = j]
           s == <<e>> \o Tail(stack)
<1>2. /\ Len(stack) \in Nat \ {0} /\ Top = stack[1] /\ Top \in CallType(S)
      /\ Tail(stack) \in Seq(CallType(S)) /\ Len(Tail(stack)) = Len(stack) - 1
      /\ \A c \in 1..(Len(stack) - 1) : Tail(stack)[c] = stack[c + 1]
  BY <1>1, TailFacts DEF Top
<1>3. /\ e \in CallType(S) /\ e.rec = Top.rec /\ e.at = Top.at /\ e.next = j
  BY <1>2 DEF CallType
<1>4. /\ s \in Seq(CallType(S)) /\ Len(s) = Len(Tail(stack)) + 1 /\ s[1] = e
      /\ \A c \in 2..(Len(Tail(stack)) + 1) : s[c] = Tail(stack)[c - 1]
  <2> HIDE DEF e
  <2> QED
    BY <1>2, <1>3, PushFacts
<1>5. ASSUME NEW c \in 2..Len(stack) PROVE s[c] = stack[c]
  <2>1. c \in 2..(Len(Tail(stack)) + 1) /\ c - 1 \in 1..(Len(stack) - 1)
        /\ (c - 1) + 1 = c
    BY <1>2
  <2> HIDE DEF s
  <2> QED
    BY <1>2, <1>4, <2>1
<1>6. Resume(j) = s
  BY DEF Resume
<1>7. IsStack(s)
  BY <1>4 DEF IsStack
<1>8. Len(s) = Len(stack) /\ s # <<>>
  BY <1>2, <1>4
<1> HIDE DEF s, e
<1> QED
  BY <1>2, <1>3, <1>4, <1>5, <1>6, <1>7, <1>8


(* What a walk of the plugin visits.                                       *)
LEMMA ItemFacts ==
    ASSUME NEW rec \in DOMAIN Collects, NEW j \in DOMAIN Collects[rec]
    PROVE  /\ Collects[rec] \in Seq(Path \X STRING)
           /\ Len(Collects[rec]) \in Nat
           /\ DOMAIN Collects[rec] = 1..Len(Collects[rec])
           /\ Collects[rec][j][1] \in Path /\ Collects[rec][j][2] \in STRING
           /\ Collects[rec][j][2] # "location" => Collects[rec][j][2] \in Pointers
<1>1. Collects[rec] \in Seq(Path \X STRING)
  BY NodeAssumption DEF Path
<1>2. /\ Len(Collects[rec]) \in Nat
      /\ DOMAIN Collects[rec] = 1..Len(Collects[rec])
      /\ Collects[rec][j] \in Path \X STRING
  BY <1>1
<1>3. Collects[rec][j][2] \in Targets(Collects)
  BY DEF Targets
<1> QED
  BY <1>1, <1>2, <1>3 DEF Pointers

LEMMA TreeIsPointer == "tree" \in Pointers
  BY DEF Pointers, Targets

LEMMA KindFacts ==
    ASSUME NEW t \in Pointers, NEW kind \in NewKinds(t)
    PROVE  /\ kind \in Pointees(t)
           /\ kind \in Kinds \ {"location", None}
           /\ CollectOf(t, kind) \in DOMAIN Collects
<1>1. kind \in Pointees(t)
  BY DEF NewKinds
<1> QED
  BY <1>1, NodeAssumption DEF Kinds

LEMMA RootFacts ==
    ASSUME NEW r \in Roots
    PROVE  /\ r[1] \in Pointers /\ r[2] \in Pointees(r[1])
           /\ r[2] \in Kinds \ {"location", None}
           /\ CollectOf(r[1], r[2]) \in DOMAIN Collects
           /\ Bounds[r[2]].objs \in Nat /\ Bounds[r[2]].crashes \in Nat
<1>1. r[1] \in Targets(Collects)
  BY DEF Targets
<1>2. r[1] \in Pointers /\ r[2] \in Pointees(r[1])
  BY <1>1, NodeAssumption DEF Pointers
<1> QED
  BY <1>2, NodeAssumption DEF Kinds

(***************************************************************************)
(* Types, and no call on a record that has one                             *)
(***************************************************************************)
Typed ==
    /\ phase \in {"collect", "load", "adjust", "done", "bug", "overrun"}
    /\ objs \in Seq(ObjectType) /\ objs # <<>>
    /\ \E r \in Roots : objs[1].kind = r[2]
    /\ heap \in Seq(Fields) /\ Len(heap) = Len(objs)
    /\ image = <<>> \/ DOMAIN image = DOMAIN objs
    /\ adjusted \subseteq DOMAIN objs
    /\ obj_idx \in 0..ObjCnt /\ gvar \in 1..(ObjCnt + 1)
    /\ crashes \in 0..Bound.crashes
    /\ IsStack(stack)
    /\ \A c \in 1..Len(stack) : stack[c].at \in DOMAIN objs
    /\ NoReentry

(* The plugin has no image yet and walks what it knows; STEP1 walks what   *)
(* it has marked.                                                          *)
Marks ==
    /\ phase = "collect" =>
          /\ image = <<>> /\ crashes = 0
          /\ \A c \in 1..Len(stack) : stack[c].rec \in DOMAIN Collects
    /\ phase = "adjust" =>
          /\ obj_idx # 0
          /\ \A c \in 1..Len(stack) : stack[c].at \in adjusted
    /\ phase \in {"load", "adjust", "done"} => DOMAIN image = DOMAIN objs

WalkInv == Typed /\ Marks

LEMMA WalkInit == Init => WalkInv
<1> SUFFICES ASSUME Init PROVE WalkInv
  OBVIOUS
<1>1. PICK r \in Roots : /\ objs = <<Object(r[2], 1, FALSE)>>
                         /\ stack = <<Call(CollectOf(r[1], r[2]), 1)>>
  BY DEF Init
<1>2. r[2] \in Kinds /\ CollectOf(r[1], r[2]) \in DOMAIN Collects
      /\ Bounds[r[2]].crashes \in Nat
  BY RootFacts
<1>3. Object(r[2], 1, FALSE) \in ObjectType /\ Object(r[2], 1, FALSE).kind = r[2]
  BY <1>2 DEF Object, ObjectType
<1>4. /\ objs \in Seq(ObjectType) /\ Len(objs) = 1 /\ DOMAIN objs = {1}
      /\ objs # <<>> /\ objs[1].kind = r[2]
  <2> DEFINE o == Object(r[2], 1, FALSE)
  <2>1. o \in ObjectType /\ o.kind = r[2] /\ objs = <<o>>
    BY <1>1, <1>3
  <2> HIDE DEF o
  <2>2. objs \in Seq(ObjectType) /\ Len(objs) = 1 /\ objs[1] = o
    BY <2>1
  <2> QED
    BY <2>1, <2>2
<1>5. <<>> \in Fields
  <2>1. <<>> \in [{} -> Nat]
    OBVIOUS
  <2> QED
    BY <2>1 DEF Fields
<1>6. heap \in Seq(Fields) /\ Len(heap) = 1
  BY <1>5 DEF Init
<1>7. /\ IsStack(stack) /\ Len(stack) = 1
      /\ stack[1] = Call(CollectOf(r[1], r[2]), 1)
  <2> DEFINE rec == CollectOf(r[1], r[2])
  <2>1. stack = <<Call(rec, 1)>>
    BY <1>1
  <2> HIDE DEF rec
  <2>2. IsStack(stack) /\ Len(stack) = 1 /\ stack[1] = Call(rec, 1)
    BY <2>1, OneCall
  <2> QED
    BY <2>2 DEF rec
<1>8. /\ \A c \in 1..Len(stack) : c = 1
      /\ stack[1].at = 1 /\ stack[1].rec = CollectOf(r[1], r[2])
  BY <1>7 DEF Call
<1>9. Bound.crashes \in Nat
  BY <1>2, <1>4 DEF Bound
<1>10. NoReentry
  BY <1>8 DEF NoReentry
<1>11. /\ phase = "collect" /\ image = <<>> /\ obj_idx = 0 /\ adjusted = {}
       /\ gvar = 1 /\ crashes = 0
  BY DEF Init
<1>12. Typed
  BY <1>4, <1>6, <1>7, <1>8, <1>9, <1>10, <1>11 DEF Typed, ObjCnt
<1>13. Marks
  BY <1>2, <1>8, <1>11 DEF Marks
<1> QED
  BY <1>12, <1>13 DEF WalkInv


(***************************************************************************)
(* What a step does to the stack                                           *)
(***************************************************************************)
Entered(rec, at, j) ==      \* a call, and the one under it goes on at j
    /\ IsStack(stack') /\ Len(stack') = Len(stack) + 1
    /\ stack'[1].rec = rec /\ stack'[1].at = at /\ stack'[1].next = 1
    /\ stack'[2].rec = stack[1].rec /\ stack'[2].at = stack[1].at
    /\ stack'[2].next = j
    /\ \A c \in 3..Len(stack') : stack'[c] = stack[c - 1]

Resumed(j) ==               \* the same call goes on at j
    /\ IsStack(stack') /\ Len(stack') = Len(stack)
    /\ stack'[1].rec = stack[1].rec /\ stack'[1].at = stack[1].at
    /\ stack'[1].next = j
    /\ \A c \in 2..Len(stack) : stack'[c] = stack[c]

Returned ==                 \* a call ends
    /\ IsStack(stack') /\ Len(stack') = Len(stack) - 1
    /\ \A c \in 1..Len(stack') : stack'[c] = stack[c + 1]

Started(rec, at) ==         \* the only call
    /\ IsStack(stack') /\ Len(stack') = 1
    /\ stack'[1].rec = rec /\ stack'[1].at = at /\ stack'[1].next = 1

LEMMA TopFacts ==
    ASSUME Typed, stack # <<>>
    PROVE  /\ Len(stack) \in Nat \ {0} /\ 1 \in 1..Len(stack)
           /\ Top = stack[1] /\ Top.at \in DOMAIN objs
           /\ Top.next \in Nat \ {0}
<1>1. IsStack(stack) /\ \A c \in 1..Len(stack) : stack[c].at \in DOMAIN objs
  BY DEF Typed
<1>2. /\ Len(stack) \in Nat \ {0} /\ Top = stack[1]
      /\ \A c \in 1..Len(stack) : stack[c].next \in Nat \ {0}
  BY <1>1, StackFacts DEF Top
<1> QED
  BY <1>1, <1>2

LEMMA EnterStack ==
    ASSUME Typed, stack # <<>>, NEW rec, NEW at \in Nat, NEW j \in Nat \ {0},
           stack' = <<Call(rec, at)>> \o Resume(j)
    PROVE  Entered(rec, at, j)
<1>1. IsStack(stack) /\ Len(stack) \in Nat \ {0}
  BY TopFacts DEF Typed
<1>2. PICK r : r = Resume(j)
  OBVIOUS
<1>3. /\ IsStack(r) /\ Len(r) = Len(stack)
      /\ r[1].rec = stack[1].rec /\ r[1].at = stack[1].at /\ r[1].next = j
      /\ \A c \in 2..Len(stack) : r[c] = stack[c]
  BY <1>1, <1>2, ResumeFacts
<1>4. stack' = <<Call(rec, at)>> \o r
  BY <1>2
<1>5. /\ IsStack(stack') /\ Len(stack') = Len(r) + 1
      /\ stack'[1].rec = rec /\ stack'[1].at = at /\ stack'[1].next = 1
      /\ \A c \in 2..Len(stack') : stack'[c] = r[c - 1]
  <2>1. Called(rec, at, r, stack')
    BY <1>3, <1>4, CallFacts
  <2> QED
    BY <2>1, Zenon DEF Called
<1>6. stack'[2] = r[1]
  BY <1>1, <1>3, <1>5
<1>7. ASSUME NEW c \in 3..Len(stack') PROVE stack'[c] = stack[c - 1]
  BY <1>1, <1>3, <1>5
<1> QED
  BY <1>3, <1>5, <1>6, <1>7 DEF Entered

LEMMA ResumeStack ==
    ASSUME Typed, stack # <<>>, NEW j \in Nat \ {0}, stack' = Resume(j)
    PROVE  Resumed(j)
  BY ResumeFacts DEF Typed, Resumed

LEMMA ReturnStack ==
    ASSUME Typed, stack # <<>>, stack' = Tail(stack)
    PROVE  Returned
<1>1. IsStack(stack) /\ Len(stack) \in Nat \ {0}
  BY TopFacts DEF Typed
<1> QED
  BY <1>1, ReturnFacts DEF Returned

LEMMA StartStack ==
    ASSUME NEW rec, NEW at \in Nat, stack' = <<Call(rec, at)>>
    PROVE  Started(rec, at)
  BY OneCall DEF Started, Call

(* No call is on a record of another one.                                  *)
LEMMA EnterOnce ==
    ASSUME Typed, stack # <<>>, NEW rec, NEW at, NEW j, Entered(rec, at, j),
           \A c \in 1..Len(stack) : stack[c].at # at
    PROVE  /\ NoReentry'
           /\ \A c \in 1..Len(stack') :
                 \/ c = 1 /\ stack'[c].at = at /\ stack'[c].rec = rec
                 \/ /\ c - 1 \in 1..Len(stack) /\ stack'[c].at = stack[c - 1].at
                    /\ stack'[c].rec = stack[c - 1].rec
<1>1. Len(stack) \in Nat \ {0} /\ Len(stack') = Len(stack) + 1
  BY TopFacts DEF Entered
<1>2. ASSUME NEW c \in 1..Len(stack')
      PROVE  \/ c = 1 /\ stack'[c].at = at /\ stack'[c].rec = rec
             \/ /\ c - 1 \in 1..Len(stack) /\ stack'[c].at = stack[c - 1].at
                /\ stack'[c].rec = stack[c - 1].rec
  <2>1. CASE c = 1
    BY <2>1 DEF Entered
  <2>2. CASE c = 2
    BY <1>1, <2>2 DEF Entered
  <2>3. CASE c > 2
    BY <1>1, <2>3 DEF Entered
  <2> QED
    BY <1>1, <2>1, <2>2, <2>3
<1>3. ASSUME NEW c \in 1..Len(stack'), NEW d \in 1..Len(stack'), c # d
      PROVE  stack'[c].at # stack'[d].at
  <2>1. \A e, f \in 1..Len(stack) : e # f => stack[e].at # stack[f].at
    BY DEF Typed, NoReentry
  <2>2. CASE c = 1
    BY <1>1, <1>2, <1>3, <2>2
  <2>3. CASE d = 1
    BY <1>1, <1>2, <1>3, <2>3
  <2>4. CASE c # 1 /\ d # 1
    <3>1. c - 1 # d - 1
      BY <1>1, <1>3
    <3> QED
      BY <1>2, <2>1, <2>4, <3>1
  <2> QED
    BY <2>2, <2>3, <2>4
<1> QED
  BY <1>2, <1>3 DEF NoReentry

LEMMA ResumeOnce ==
    ASSUME Typed, stack # <<>>, NEW j, Resumed(j)
    PROVE  /\ NoReentry'
           /\ \A c \in 1..Len(stack') :
                 /\ c \in 1..Len(stack) /\ stack'[c].at = stack[c].at
                 /\ stack'[c].rec = stack[c].rec
<1>1. Len(stack) \in Nat \ {0} /\ Len(stack') = Len(stack)
  BY TopFacts DEF Resumed
<1>2. ASSUME NEW c \in 1..Len(stack')
      PROVE  /\ c \in 1..Len(stack) /\ stack'[c].at = stack[c].at
             /\ stack'[c].rec = stack[c].rec
  <2>1. c = 1 \/ c \in 2..Len(stack)
    BY <1>1
  <2> QED
    BY <1>1, <2>1 DEF Resumed
<1> QED
  BY <1>2 DEF Typed, NoReentry

LEMMA ReturnOnce ==
    ASSUME Typed, stack # <<>>, Returned
    PROVE  /\ NoReentry'
           /\ \A c \in 1..Len(stack') :
                 c + 1 \in 1..Len(stack) /\ stack'[c] = stack[c + 1]
<1>1. Len(stack) \in Nat \ {0} /\ Len(stack') = Len(stack) - 1
  BY TopFacts DEF Returned
<1>2. \A c \in 1..Len(stack') : c + 1 \in 1..Len(stack) /\ stack'[c] = stack[c + 1]
  BY <1>1 DEF Returned
<1>3. ASSUME NEW c \in 1..Len(stack'), NEW d \in 1..Len(stack'), c # d
      PROVE  stack'[c].at # stack'[d].at
  <2>1. \A e, f \in 1..Len(stack) : e # f => stack[e].at # stack[f].at
    BY DEF Typed, NoReentry
  <2>2. c + 1 # d + 1
    BY <1>1, <1>3
  <2> QED
    BY <1>2, <2>1, <2>2
<1> QED
  BY <1>2, <1>3 DEF NoReentry

LEMMA StartOnce ==
    ASSUME NEW rec, NEW at, Started(rec, at)
    PROVE  /\ NoReentry'
           /\ \A c \in 1..Len(stack') : stack'[c].at = at /\ stack'[c].rec = rec
<1>1. \A c \in 1..Len(stack') : c = 1
  BY DEF Started
<1> QED
  BY <1>1 DEF Started, NoReentry


(***************************************************************************)
(* What a step of the plugin does to the object table                      *)
(***************************************************************************)
Grown(o, h) ==              \* one more object; h: the records before it
    /\ objs' \in Seq(ObjectType) /\ Len(objs') = ObjCnt + 1
    /\ DOMAIN objs = 1..ObjCnt /\ DOMAIN objs' = 1..(ObjCnt + 1)
    /\ objs'[ObjCnt + 1] = o /\ \A i \in DOMAIN objs : objs'[i] = objs[i]
    /\ heap' \in Seq(Fields) /\ Len(heap') = ObjCnt + 1
    /\ heap'[ObjCnt + 1] = <<>> /\ \A i \in DOMAIN objs : heap'[i] = h[i]
    /\ Bound' = Bound

LEMMA TableFacts ==
    ASSUME Typed
    PROVE  /\ ObjCnt \in Nat \ {0} /\ DOMAIN objs = 1..ObjCnt /\ 1 \in DOMAIN objs
           /\ DOMAIN heap = DOMAIN objs
           /\ \A i \in DOMAIN objs : objs[i] \in ObjectType /\ heap[i] \in Fields
           /\ Bound.crashes \in Nat /\ Bound.objs \in Nat
           /\ objs[1].kind \notin {"location", None}
<1>1. /\ objs \in Seq(ObjectType) /\ objs # <<>>
      /\ heap \in Seq(Fields) /\ Len(heap) = Len(objs)
  BY DEF Typed
<1>2. /\ ObjCnt \in Nat \ {0} /\ DOMAIN objs = 1..ObjCnt
      /\ DOMAIN heap = DOMAIN objs
      /\ \A i \in DOMAIN objs : objs[i] \in ObjectType /\ heap[i] \in Fields
  BY <1>1 DEF ObjCnt
<1>3. PICK r \in Roots : objs[1].kind = r[2]
  BY DEF Typed
<1> QED
  BY <1>2, <1>3, RootFacts DEF Bound

LEMMA GrowFacts ==
    ASSUME Typed, NEW o \in ObjectType, NEW h \in Seq(Fields),
           Len(h) = Len(heap),
           objs' = Append(objs, o), heap' = Append(h, <<>>)
    PROVE  Grown(o, h)
<1>1. /\ objs \in Seq(ObjectType) /\ Len(h) = ObjCnt /\ ObjCnt = Len(objs)
      /\ ObjCnt \in Nat \ {0}
  BY TableFacts DEF Typed, ObjCnt
<1>2. <<>> \in Fields
  <2>1. <<>> \in [{} -> Nat]
    OBVIOUS
  <2> QED
    BY <2>1 DEF Fields
<1>3. /\ objs' \in Seq(ObjectType) /\ Len(objs') = ObjCnt + 1
      /\ DOMAIN objs = 1..ObjCnt /\ DOMAIN objs' = 1..(ObjCnt + 1)
      /\ objs'[ObjCnt + 1] = o /\ \A i \in DOMAIN objs : objs'[i] = objs[i]
  BY <1>1
<1>4. /\ heap' \in Seq(Fields) /\ Len(heap') = ObjCnt + 1
      /\ heap'[ObjCnt + 1] = <<>> /\ \A i \in 1..ObjCnt : heap'[i] = h[i]
  BY <1>1, <1>2
<1>5. objs'[1] = objs[1]
  BY <1>1, <1>3
<1> QED
  BY <1>3, <1>4, <1>5 DEF Grown, Bound

LEMMA FieldFacts ==
    ASSUME Typed, NEW i \in DOMAIN objs, NEW p \in Path, NEW v \in Nat
    PROVE  /\ SetField(i, p, v) \in Seq(Fields)
           /\ Len(SetField(i, p, v)) = Len(heap)
           /\ DOMAIN SetField(i, p, v) = DOMAIN heap
           /\ SetField(i, p, v)[i] = With(heap[i], p, v)
           /\ \A k \in DOMAIN heap \ {i} : SetField(i, p, v)[k] = heap[k]
<1>1. heap \in Seq(Fields) /\ i \in 1..Len(heap) /\ heap[i] \in Fields
  BY TableFacts DEF Typed, ObjCnt
<1>2. With(heap[i], p, v) \in Fields
  BY <1>1, SetFacts
<1> QED
  BY <1>1, <1>2 DEF SetField

(* A step of the plugin that saves an object.                              *)
LEMMA GrowTyped ==
    ASSUME WalkInv, phase = "collect", NEW o, NEW h, Grown(o, h),
           phase' \in {"collect", "overrun"}, UNCHANGED <<crashes, adjustVars>>,
           IsStack(stack'), NoReentry',
           \A c \in 1..Len(stack') :
              stack'[c].at \in DOMAIN objs' /\ stack'[c].rec \in DOMAIN Collects
    PROVE  WalkInv'
<1>1. Typed /\ Marks /\ ObjCnt \in Nat \ {0} /\ 1 \in DOMAIN objs
  BY TableFacts DEF WalkInv
<1>2. /\ objs' \in Seq(ObjectType) /\ objs' # <<>> /\ ObjCnt' = ObjCnt + 1
      /\ heap' \in Seq(Fields) /\ Len(heap') = Len(objs')
  BY <1>1 DEF Grown, ObjCnt
<1>3. /\ DOMAIN objs = 1..ObjCnt /\ DOMAIN objs' = 1..(ObjCnt + 1)
      /\ objs'[1] = objs[1] /\ Bound' = Bound
  BY <1>1 DEF Grown
<1>4. /\ image' = <<>> /\ adjusted' \subseteq DOMAIN objs'
      /\ obj_idx' \in 0..ObjCnt' /\ gvar' \in 1..(ObjCnt' + 1)
  BY <1>1, <1>2, <1>3 DEF Typed, Marks, adjustVars
<1>5. crashes' \in 0..Bound'.crashes /\ crashes' = 0
  BY <1>1, <1>3 DEF Typed, Marks
<1>6. \E r \in Roots : objs'[1].kind = r[2]
  BY <1>1, <1>3 DEF Typed
<1>7. Typed'
  BY <1>2, <1>4, <1>5, <1>6 DEF Typed
<1>8. Marks'
  BY <1>4, <1>5 DEF Marks
<1> QED
  BY <1>7, <1>8 DEF WalkInv


(* The field where the plugin stops.                                       *)
LEMMA ReachedFacts ==
    ASSUME WalkInv, phase = "collect", stack # <<>>, NEW j \in Reached
    PROVE  /\ Top.rec \in DOMAIN Collects /\ j \in DOMAIN Collects[Top.rec]
           /\ j \in Nat \ {0} /\ j + 1 \in Nat \ {0} /\ j >= Top.next
           /\ Collects[Top.rec][j][1] \in Path
           /\ Collects[Top.rec][j][2] # "location" =>
                 Collects[Top.rec][j][2] \in Pointers
<1>1. Top.rec \in DOMAIN Collects /\ Top.next \in Nat \ {0}
  BY TopFacts DEF WalkInv, Marks
<1>2. Collects[Top.rec] \in Seq(Path \X STRING)
  BY <1>1, NodeAssumption DEF Path
<1>3. j \in Top.next..Len(Collects[Top.rec])
  BY DEF Reached
<1>4. j \in DOMAIN Collects[Top.rec] /\ j \in Nat \ {0} /\ j >= Top.next
  BY <1>1, <1>2, <1>3
<1> QED
  BY <1>1, <1>4, ItemFacts

(* A field that leads to a record that is saved, and walked, now.          *)
Saved(j, o, rec) ==
    /\ objs' = Append(objs, o)
    /\ heap' = Append(SetField(Top.at, Collects[Top.rec][j][1], ObjCnt + 1), <<>>)
    /\ stack' = <<Call(rec, ObjCnt + 1)>> \o Resume(j + 1)
    /\ phase' \in {"collect", "overrun"}
    /\ UNCHANGED <<crashes, adjustVars>>

LEMMA SavedFacts ==
    ASSUME WalkInv, phase = "collect", stack # <<>>, NEW j \in Reached,
           NEW o \in ObjectType, NEW rec, Saved(j, o, rec)
    PROVE  /\ Grown(o, SetField(Top.at, Collects[Top.rec][j][1], ObjCnt + 1))
           /\ Entered(rec, ObjCnt + 1, j + 1)
<1>1. Typed /\ ObjCnt + 1 \in Nat
  BY TableFacts DEF WalkInv
<1>2. PICK h : h = SetField(Top.at, Collects[Top.rec][j][1], ObjCnt + 1)
  OBVIOUS
<1>3. h \in Seq(Fields) /\ Len(h) = Len(heap)
  BY <1>1, <1>2, TopFacts, ReachedFacts, FieldFacts
<1>4. objs' = Append(objs, o) /\ heap' = Append(h, <<>>)
  BY <1>2 DEF Saved
<1>5. Grown(o, h)
  BY <1>1, <1>3, <1>4, GrowFacts
<1>6. j + 1 \in Nat \ {0}
  BY ReachedFacts
<1>7. Entered(rec, ObjCnt + 1, j + 1)
  BY <1>1, <1>6, EnterStack DEF Saved
<1> QED
  BY <1>2, <1>5, <1>7

LEMMA AtFacts ==
    ASSUME Typed, NEW c \in 1..Len(stack)
    PROVE  stack[c].at \in DOMAIN objs /\ stack[c].at # ObjCnt + 1
<1>1. stack[c].at \in DOMAIN objs
  BY DEF Typed
<1> QED
  BY <1>1, TableFacts

LEMMA SavedTyped ==
    ASSUME WalkInv, phase = "collect", stack # <<>>, NEW j \in Reached,
           NEW o \in ObjectType, NEW rec \in DOMAIN Collects, Saved(j, o, rec)
    PROVE  WalkInv'
<1>1. Typed
  BY DEF WalkInv
<1>2. PICK h : Grown(o, h)
  BY SavedFacts
<1>3. Entered(rec, ObjCnt + 1, j + 1)
  BY SavedFacts
<1>4. /\ NoReentry'
      /\ \A c \in 1..Len(stack') :
            \/ c = 1 /\ stack'[c].at = ObjCnt + 1 /\ stack'[c].rec = rec
            \/ /\ c - 1 \in 1..Len(stack) /\ stack'[c].at = stack[c - 1].at
               /\ stack'[c].rec = stack[c - 1].rec
  <2>1. \A c \in 1..Len(stack) : stack[c].at # ObjCnt + 1
    BY <1>1, AtFacts
  <2> QED
    BY <1>1, <1>3, <2>1, EnterOnce
<1>5. /\ ObjCnt + 1 \in DOMAIN objs' /\ DOMAIN objs \subseteq DOMAIN objs'
  BY <1>1, <1>2, TableFacts DEF Grown
<1>6. ASSUME NEW c \in 1..Len(stack')
      PROVE  stack'[c].at \in DOMAIN objs' /\ stack'[c].rec \in DOMAIN Collects
  <2>1. CASE stack'[c].at = ObjCnt + 1 /\ stack'[c].rec = rec
    BY <1>5, <2>1
  <2>2. CASE /\ c - 1 \in 1..Len(stack) /\ stack'[c].at = stack[c - 1].at
             /\ stack'[c].rec = stack[c - 1].rec
    <3>1. stack[c - 1].at \in DOMAIN objs /\ stack[c - 1].rec \in DOMAIN Collects
      BY <1>1, <2>2, AtFacts DEF WalkInv, Marks
    <3> QED
      BY <1>5, <2>2, <3>1
  <2> QED
    BY <1>4, <2>1, <2>2
<1>7. /\ phase' \in {"collect", "overrun"} /\ UNCHANGED <<crashes, adjustVars>>
      /\ IsStack(stack')
  BY <1>3 DEF Saved, Entered
<1> QED
  BY <1>2, <1>4, <1>6, <1>7, GrowTyped

LEMMA LocationSaves ==
    ASSUME WalkInv, CollectLocation
    PROVE  /\ phase = "collect" /\ stack # <<>>
           /\ Object("location", ObjCnt + 1, FALSE) \in ObjectType
           /\ \E j \in Reached :
                 /\ Collects[Top.rec][j][2] = "location"
                 /\ Saved(j, Object("location", ObjCnt + 1, FALSE), "location")
<1>1. ObjCnt + 1 \in Nat
  BY TableFacts DEF WalkInv
<1>2. Object("location", ObjCnt + 1, FALSE) \in ObjectType
  <2>1. "location" \in Kinds
    BY DEF Kinds
  <2> QED
    BY <1>1, <2>1, ObjectFacts
<1>3. phase' \in {"collect", "overrun"}
  BY DEF CollectLocation
<1> QED
  BY <1>2, <1>3 DEF CollectLocation, Saved

LEMMA NewSaves ==
    ASSUME WalkInv, CollectNew
    PROVE  /\ phase = "collect" /\ stack # <<>> /\ phase' = "collect"
           /\ \E j \in Reached :
                 /\ Collects[Top.rec][j][2] \in Pointers
                 /\ \E kind \in Pointees(Collects[Top.rec][j][2]) :
                    \E rec \in DOMAIN Collects :
                       /\ kind \notin {"location", None}
                       /\ rec = CollectOf(Collects[Top.rec][j][2], kind)
                       /\ Object(kind, ObjCnt + 1, FALSE) \in ObjectType
                       /\ Saved(j, Object(kind, ObjCnt + 1, FALSE), rec)
<1>1. phase = "collect" /\ stack # <<>> /\ phase' = "collect"
  BY DEF CollectNew
<1>2. PICK j \in Reached : Collects[Top.rec][j][2] # "location" /\
      \E kind \in NewKinds(Collects[Top.rec][j][2]) :
         Saved(j, Object(kind, ObjCnt + 1, FALSE),
               CollectOf(Collects[Top.rec][j][2], kind))
  BY DEF CollectNew, Saved
<1>3. PICK kind \in NewKinds(Collects[Top.rec][j][2]) :
         Saved(j, Object(kind, ObjCnt + 1, FALSE),
               CollectOf(Collects[Top.rec][j][2], kind))
  BY <1>2
<1>4. Collects[Top.rec][j][2] \in Pointers
  BY <1>1, <1>2, ReachedFacts
<1>5. /\ kind \in Pointees(Collects[Top.rec][j][2])
      /\ kind \in Kinds \ {"location", None}
      /\ CollectOf(Collects[Top.rec][j][2], kind) \in DOMAIN Collects
  BY <1>4, KindFacts
<1>6. Object(kind, ObjCnt + 1, FALSE) \in ObjectType
  <2>1. ObjCnt + 1 \in Nat
    BY TableFacts DEF WalkInv
  <2> QED
    BY <1>5, <2>1, ObjectFacts
<1> QED
  BY <1>1, <1>3, <1>4, <1>5, <1>6, Zenon

LEMMA SaveTyped ==
    ASSUME WalkInv, CollectLocation \/ CollectNew PROVE WalkInv'
<1>1. CASE CollectLocation
  <2>1. "location" \in DOMAIN Collects
    BY NodeAssumption
  <2> QED
    BY <1>1, <2>1, LocationSaves, SavedTyped
<1>2. CASE CollectNew
  BY <1>2, NewSaves, SavedTyped
<1> QED
  BY <1>1, <1>2


(* A step that saves no object.                                            *)
LEMMA SameTyped ==
    ASSUME Typed, objs' = objs, heap' \in Seq(Fields), Len(heap') = Len(heap),
           phase' \in {"collect", "load", "adjust", "done", "bug", "overrun"},
           image' = <<>> \/ DOMAIN image' = DOMAIN objs,
           adjusted' \subseteq DOMAIN objs,
           obj_idx' \in 0..ObjCnt, gvar' \in 1..(ObjCnt + 1),
           crashes' \in 0..Bound.crashes,
           IsStack(stack'), NoReentry',
           \A c \in 1..Len(stack') : stack'[c].at \in DOMAIN objs
    PROVE  Typed'
<1>1. ObjCnt' = ObjCnt /\ Bound' = Bound
  BY DEF ObjCnt, Bound
<1> QED
  BY <1>1 DEF Typed

LEMMA CheckedTyped == ASSUME WalkInv, CollectChecked PROVE WalkInv'
<1>1. Typed /\ Marks /\ phase = "collect" /\ stack # <<>> /\ phase' = phase
      /\ objs' = objs /\ UNCHANGED <<crashes, adjustVars>>
  BY DEF WalkInv, CollectChecked
<1>2. PICK j \in Reached, i \in Records :
         /\ heap' = SetField(Top.at, Collects[Top.rec][j][1], i)
         /\ stack' = Resume(j + 1)
  BY DEF CollectChecked
<1>3. i \in Nat /\ j + 1 \in Nat \ {0} /\ Collects[Top.rec][j][1] \in Path
  BY <1>1, TableFacts, ReachedFacts DEF Records
<1>4. heap' \in Seq(Fields) /\ Len(heap') = Len(heap)
  BY <1>1, <1>2, <1>3, TopFacts, FieldFacts
<1>5. Resumed(j + 1)
  BY <1>1, <1>2, <1>3, ResumeStack
<1>6. /\ NoReentry'
      /\ \A c \in 1..Len(stack') :
            /\ c \in 1..Len(stack) /\ stack'[c].at = stack[c].at
            /\ stack'[c].rec = stack[c].rec
  BY <1>1, <1>5, ResumeOnce
<1>7. \A c \in 1..Len(stack') :
         stack'[c].at \in DOMAIN objs /\ stack'[c].rec \in DOMAIN Collects
  BY <1>1, <1>6 DEF Typed, Marks
<1>8. /\ image' = image /\ adjusted' = adjusted /\ obj_idx' = obj_idx
      /\ gvar' = gvar /\ crashes' = crashes
  BY <1>1 DEF adjustVars
<1>9. Typed'
  <2>1. /\ phase \in {"collect", "load", "adjust", "done", "bug", "overrun"}
        /\ image = <<>> \/ DOMAIN image = DOMAIN objs
        /\ adjusted \subseteq DOMAIN objs
        /\ obj_idx \in 0..ObjCnt /\ gvar \in 1..(ObjCnt + 1)
        /\ crashes \in 0..Bound.crashes
    BY <1>1 DEF Typed
  <2>2. IsStack(stack')
    BY <1>5 DEF Resumed
  <2> QED
    BY <1>1, <1>4, <1>6, <1>7, <1>8, <2>1, <2>2, SameTyped
<1>10. Marks'
  BY <1>1, <1>7, <1>8 DEF Marks
<1> QED
  BY <1>9, <1>10 DEF WalkInv

(* A step that only ends a walk or a phase.                                *)
LEMMA QuietTyped ==
    ASSUME Typed, UNCHANGED <<objs, heap, adjusted, obj_idx, gvar>>,
           phase' \in {"collect", "load", "adjust", "done", "bug", "overrun"},
           image' = <<>> \/ DOMAIN image' = DOMAIN objs,
           crashes' \in 0..Bound.crashes,
           \/ stack' = stack \/ stack' = <<>>
           \/ stack # <<>> /\ stack' = Tail(stack)
    PROVE  /\ Typed'
           /\ \A c \in 1..Len(stack') : \E d \in 1..Len(stack) : stack'[c] = stack[d]
<1>1. /\ heap \in Seq(Fields) /\ adjusted \subseteq DOMAIN objs
      /\ obj_idx \in 0..ObjCnt /\ gvar \in 1..(ObjCnt + 1)
      /\ IsStack(stack) /\ NoReentry
      /\ \A c \in 1..Len(stack) : stack[c].at \in DOMAIN objs
  BY DEF Typed
<1>2. /\ IsStack(stack') /\ NoReentry'
      /\ \A c \in 1..Len(stack') : \E d \in 1..Len(stack) : stack'[c] = stack[d]
  <2>1. CASE stack' = stack
    BY <1>1, <2>1 DEF NoReentry
  <2>2. CASE stack' = <<>>
    <3>1. IsStack(<<>>)
      BY DEF IsStack
    <3>2. \A c \in 1..Len(stack') : FALSE
      BY <2>2
    <3> QED
      BY <2>2, <3>1, <3>2 DEF NoReentry
  <2>3. CASE stack # <<>> /\ stack' = Tail(stack)
    <3>1. Returned
      BY <2>3, ReturnStack
    <3> QED
      BY <2>3, <3>1, ReturnOnce DEF Returned
  <2> QED
    BY <2>1, <2>2, <2>3
<1>3. \A c \in 1..Len(stack') : stack'[c].at \in DOMAIN objs
  BY <1>1, <1>2
<1>4. Typed'
  BY <1>1, <1>2, <1>3, SameTyped
<1> QED
  BY <1>2, <1>4

LEMMA EndTyped ==
    ASSUME WalkInv,
           \/ CollectFull \/ CollectReturn \/ NodesFlush \/ AdjustReturn
           \/ AdjustFinish \/ Crash \/ UNCHANGED vars
    PROVE  WalkInv'
<1>1. Typed /\ Marks
  BY DEF WalkInv
<1>2. /\ phase \in {"collect", "load", "adjust", "done", "bug", "overrun"}
      /\ image = <<>> \/ DOMAIN image = DOMAIN objs
      /\ crashes \in 0..Bound.crashes /\ Bound.crashes \in Nat
  BY <1>1, TableFacts DEF Typed
<1>3. CASE CollectFull \/ CollectReturn
  <2>1. /\ UNCHANGED <<objs, heap, adjusted, obj_idx, gvar, image, crashes>>
        /\ phase = "collect" /\ phase' \in {"collect", "bug"}
        /\ \/ stack' = stack
           \/ stack # <<>> /\ stack' = Tail(stack)
    BY <1>3 DEF CollectFull, CollectReturn, collectVars, adjustVars
  <2>2. /\ Typed'
        /\ \A c \in 1..Len(stack') : \E d \in 1..Len(stack) : stack'[c] = stack[d]
    BY <1>1, <1>2, <2>1, QuietTyped
  <2> QED
    BY <1>1, <2>1, <2>2 DEF WalkInv, Marks
<1>4. CASE NodesFlush
  <2>1. /\ UNCHANGED <<objs, heap, adjusted, obj_idx, gvar, crashes, stack>>
        /\ phase' = "load" /\ DOMAIN image' = DOMAIN objs
    BY <1>4 DEF NodesFlush, collectVars
  <2>2. Typed'
    BY <1>1, <1>2, <2>1, QuietTyped
  <2> QED
    BY <2>1, <2>2 DEF WalkInv, Marks
<1>5. CASE AdjustReturn \/ AdjustFinish
  <2>1. /\ UNCHANGED <<objs, heap, adjusted, obj_idx, gvar, image, crashes>>
        /\ phase = "adjust" /\ phase' \in {"adjust", "done", "bug"}
        /\ \/ stack' = stack
           \/ stack # <<>> /\ stack' = Tail(stack)
    BY <1>5 DEF AdjustReturn, AdjustFinish, collectVars, adjustVars
  <2>2. /\ Typed'
        /\ \A c \in 1..Len(stack') : \E d \in 1..Len(stack) : stack'[c] = stack[d]
    BY <1>1, <1>2, <2>1, QuietTyped
  <2> QED
    BY <1>1, <2>1, <2>2 DEF WalkInv, Marks
<1>6. CASE Crash
  <2>1. /\ UNCHANGED <<objs, heap, adjusted, obj_idx, gvar, image>>
        /\ phase \in {"adjust", "done"} /\ phase' = "load" /\ stack' = <<>>
        /\ crashes < Bound.crashes /\ crashes' = crashes + 1
    BY <1>6 DEF Crash, collectVars, adjustVars
  <2>2. crashes' \in 0..Bound.crashes
    BY <1>2, <2>1
  <2>3. Typed'
    BY <1>1, <1>2, <2>1, <2>2, QuietTyped
  <2> QED
    BY <1>1, <2>1, <2>3 DEF WalkInv, Marks
<1>7. CASE UNCHANGED vars
  <2>1. /\ UNCHANGED <<objs, heap, adjusted, obj_idx, gvar, image, crashes>>
        /\ phase' = phase /\ stack' = stack
    BY <1>7 DEF vars, collectVars, adjustVars
  <2>2. Typed'
    BY <1>1, <1>2, <2>1, QuietTyped
  <2> QED
    BY <1>1, <2>1, <2>2 DEF WalkInv, Marks
<1> QED
  BY <1>3, <1>4, <1>5, <1>6, <1>7


LEMMA LeastOf ==
    ASSUME NEW T, T \subseteq Nat, T # {}
    PROVE  \E x \in T : \A y \in T : x <= y
<1>1. PICK R : /\ IsWellFoundedOn(R, Nat)
               /\ \A x, y \in Nat : y < x => <<y, x>> \in R
  <2>1. \A x, y \in Nat : y < x => <<y, x>> \in OpToRel(<, Nat)
    BY DEF OpToRel
  <2> QED
    BY <2>1, NatLessThanWellFounded
<1>2. PICK x \in T : \A y \in T : ~ (<<y, x>> \in R)
  BY <1>1, WFMin
<1>3. ASSUME NEW y \in T PROVE x <= y
  <2>1. x \in Nat /\ y \in Nat
    OBVIOUS
  <2>2. ~ (y < x)
    BY <1>1, <1>2, <2>1, Zenon
  <2> QED
    BY <2>1, <2>2
<1> QED
  BY <1>3

(* my_expand_location ends: there is a place that is not adjusted.         *)
LEMMA FreeFacts ==
    ASSUME Typed
    PROVE  /\ NextFree \in obj_idx..(ObjCnt + 1) /\ NextFree \notin adjusted
           /\ \A m \in obj_idx..(NextFree - 1) : m \in adjusted
<1>1. /\ ObjCnt \in Nat \ {0} /\ obj_idx \in 0..ObjCnt
      /\ adjusted \subseteq 1..ObjCnt
  BY TableFacts DEF Typed
<1> DEFINE T == {k \in obj_idx..(ObjCnt + 1) : k \notin adjusted}
<1>2. T \subseteq Nat /\ ObjCnt + 1 \in T
  BY <1>1
<1>3. PICK k \in T : \A y \in T : k <= y
  <2> HIDE DEF T
  <2> QED
    BY <1>2, LeastOf
<1>4. ASSUME NEW m \in obj_idx..(k - 1) PROVE m \in adjusted
  <2>1. m \in obj_idx..(ObjCnt + 1) /\ ~ k <= m
    BY <1>1, <1>3
  <2> QED
    BY <1>3, <2>1
<1>5. \E n \in obj_idx..(ObjCnt + 1) :
         n \notin adjusted /\ \A m \in obj_idx..(n - 1) : m \in adjusted
  BY <1>3, <1>4
<1> QED
  BY <1>5 DEF NextFree


LEMMA GlobalSaves ==
    ASSUME WalkInv, CollectGlobal
    PROVE  /\ phase = "collect" /\ stack = <<>>
           /\ phase' \in {"collect", "overrun"} /\ UNCHANGED <<crashes, adjustVars>>
           /\ \/ /\ UNCHANGED stack
                 /\ \E fake \in Records \cup {Null} :
                       /\ Object(None, fake, TRUE) \in ObjectType
                       /\ Grown(Object(None, fake, TRUE), heap)
              \/ \E kind \in Pointees("tree") : \E rec \in DOMAIN Collects :
                    /\ rec = CollectOf("tree", kind)
                    /\ kind \notin {"location", None}
                    /\ Object(kind, ObjCnt + 1, TRUE) \in ObjectType
                    /\ Grown(Object(kind, ObjCnt + 1, TRUE), heap)
                    /\ Started(rec, ObjCnt + 1)
<1>1. Typed /\ ObjCnt + 1 \in Nat /\ heap \in Seq(Fields)
  BY TableFacts DEF WalkInv, Typed
<1>2. /\ phase = "collect" /\ stack = <<>>
      /\ phase' \in {"collect", "overrun"} /\ UNCHANGED <<crashes, adjustVars>>
  BY DEF CollectGlobal, Insert
<1>3. ASSUME NEW o \in ObjectType, objs' = Append(objs, o), heap' = Append(heap, <<>>)
      PROVE  Grown(o, heap)
  BY <1>1, <1>3, GrowFacts
<1>4. CASE Insert(None, Null, TRUE) /\ UNCHANGED stack
  <2>1. None \in Kinds /\ Null \in Nat
    BY DEF Kinds, Null
  <2>2. Object(None, Null, TRUE) \in ObjectType
    BY <2>1, ObjectFacts
  <2>3. Grown(Object(None, Null, TRUE), heap)
    BY <1>3, <1>4, <2>2 DEF Insert
  <2> QED
    BY <1>2, <1>4, <2>2, <2>3
<1>5. CASE (\E i \in Records : Insert(None, i, TRUE)) /\ UNCHANGED stack
  <2>1. PICK i \in Records : Insert(None, i, TRUE)
    BY <1>5
  <2>2. None \in Kinds /\ i \in Nat
    BY <1>1, TableFacts DEF Kinds, Records
  <2>3. Object(None, i, TRUE) \in ObjectType
    BY <2>2, ObjectFacts
  <2>4. Grown(Object(None, i, TRUE), heap)
    BY <1>3, <2>1, <2>3 DEF Insert
  <2> QED
    BY <1>2, <1>5, <2>3, <2>4
<1>6. CASE \E kind \in NewKinds("tree") :
              /\ Insert(kind, ObjCnt + 1, TRUE)
              /\ stack' = <<Call(CollectOf("tree", kind), ObjCnt + 1)>>
  <2>1. PICK kind \in NewKinds("tree") :
              /\ Insert(kind, ObjCnt + 1, TRUE)
              /\ stack' = <<Call(CollectOf("tree", kind), ObjCnt + 1)>>
    BY <1>6
  <2>2. /\ kind \in Pointees("tree") /\ kind \in Kinds \ {"location", None}
        /\ CollectOf("tree", kind) \in DOMAIN Collects
    BY TreeIsPointer, KindFacts
  <2>3. Object(kind, ObjCnt + 1, TRUE) \in ObjectType
    BY <1>1, <2>2, ObjectFacts
  <2>4. Grown(Object(kind, ObjCnt + 1, TRUE), heap)
    BY <1>3, <2>1, <2>3 DEF Insert
  <2>5. Started(CollectOf("tree", kind), ObjCnt + 1)
    BY <1>1, <2>1, StartStack
  <2> QED
    BY <1>2, <2>2, <2>3, <2>4, <2>5, Zenon
<1> QED
  BY <1>4, <1>5, <1>6 DEF CollectGlobal

LEMMA GlobalTyped == ASSUME WalkInv, CollectGlobal PROVE WalkInv'
<1>1. Typed /\ phase = "collect"
  BY GlobalSaves DEF WalkInv
<1>2. CASE UNCHANGED stack /\ \E o : Grown(o, heap)
  <2>1. stack' = <<>> /\ Len(stack') = 0 /\ IsStack(stack') /\ NoReentry'
    BY <1>1, <1>2, GlobalSaves DEF Typed, NoReentry
  <2>2. \A c \in 1..Len(stack') :
           stack'[c].at \in DOMAIN objs' /\ stack'[c].rec \in DOMAIN Collects
    BY <2>1
  <2> QED
    BY <1>1, <1>2, <2>1, <2>2, GlobalSaves, GrowTyped
<1>3. CASE \E o : \E rec \in DOMAIN Collects :
              Grown(o, heap) /\ Started(rec, ObjCnt + 1)
  <2>1. PICK o : \E rec \in DOMAIN Collects :
              Grown(o, heap) /\ Started(rec, ObjCnt + 1)
    BY <1>3
  <2>2. PICK rec \in DOMAIN Collects :
              Grown(o, heap) /\ Started(rec, ObjCnt + 1)
    BY <2>1
  <2>3. /\ NoReentry' /\ IsStack(stack')
        /\ \A c \in 1..Len(stack') :
              stack'[c].at = ObjCnt + 1 /\ stack'[c].rec = rec
    BY <2>2, StartOnce DEF Started
  <2>4. ObjCnt + 1 \in DOMAIN objs'
    BY <1>1, <2>2, TableFacts DEF Grown
  <2> QED
    BY <1>1, <2>2, <2>3, <2>4, GlobalSaves, GrowTyped
<1> QED
  BY <1>2, <1>3, GlobalSaves


(***************************************************************************)
(* Steps of STEP1                                                          *)
(***************************************************************************)
LEMMA ObjectAtFacts ==
    ASSUME NEW addr, NEW i \in ObjectAt(addr)
    PROVE  i \in DOMAIN objs /\ objs[i].fake = addr /\ objs[i].kind # None
  BY DEF ObjectAt

LEMMA NextStopFacts ==
    ASSUME Typed, stack # <<>>, NEW j \in NextStop
    PROVE  j \in Nat \ {0} /\ j + 1 \in Nat \ {0} /\ j >= Top.next
<1>1. Top.next \in Nat \ {0}
  BY TopFacts
<1>2. j \in Top.next..Len(Adjusts[Top.rec])
  BY DEF NextStop
<1> QED
  BY <1>1, <1>2

(* The walk goes on, or enters an object that is not adjusted.             *)
GoesOn(j) == /\ Resumed(j)
             /\ UNCHANGED <<obj_idx, adjusted>>
Enters(i, rec, j) == /\ Entered(rec, i, j)
                     /\ obj_idx' = i /\ adjusted' = adjusted \cup {i}
Starts(i, rec) == /\ Started(rec, i)
                  /\ obj_idx' = i /\ adjusted' = adjusted \cup {i}

LEMMA MoveTyped ==
    ASSUME WalkInv, phase = "adjust", phase' = "adjust",
           UNCHANGED <<crashes, collectVars>>, DOMAIN image' = DOMAIN image,
           gvar' \in 1..(ObjCnt + 1),
           \/ stack # <<>> /\ \E j : GoesOn(j)
           \/ stack # <<>> /\ \E i \in DOMAIN objs : \E rec, j :
                 i \notin adjusted /\ Enters(i, rec, j)
           \/ \E i \in DOMAIN objs : \E rec : Starts(i, rec)
           \/ UNCHANGED <<stack, obj_idx>> /\ adjusted' = adjusted
           \/ /\ UNCHANGED <<stack, obj_idx>>
              /\ \E i \in DOMAIN objs : adjusted' = adjusted \cup {i}
    PROVE  WalkInv'
<1>1. /\ Typed /\ adjusted \subseteq DOMAIN objs /\ obj_idx \in 0..ObjCnt
      /\ obj_idx # 0 /\ crashes \in 0..Bound.crashes
      /\ heap \in Seq(Fields) /\ IsStack(stack) /\ NoReentry
      /\ DOMAIN image = DOMAIN objs
      /\ \A c \in 1..Len(stack) : stack[c].at \in DOMAIN objs /\ stack[c].at \in adjusted
      /\ DOMAIN objs = 1..ObjCnt
  BY TableFacts DEF WalkInv, Typed, Marks
<1>2. objs' = objs /\ heap' = heap /\ crashes' = crashes
  BY DEF collectVars
<1>3. /\ IsStack(stack') /\ NoReentry' /\ adjusted' \subseteq DOMAIN objs
      /\ obj_idx' \in 1..ObjCnt
      /\ \A c \in 1..Len(stack') : stack'[c].at \in adjusted'
  <2>1. CASE stack # <<>> /\ \E j : GoesOn(j)
    <3>1. PICK j : GoesOn(j)
      BY <2>1
    <3>2. NoReentry' /\ \A c \in 1..Len(stack') :
              c \in 1..Len(stack) /\ stack'[c].at = stack[c].at
      BY <1>1, <2>1, <3>1, ResumeOnce DEF GoesOn
    <3> QED
      BY <1>1, <3>1, <3>2 DEF GoesOn, Resumed
  <2>2. CASE stack # <<>> /\ \E i \in DOMAIN objs : \E rec, j :
                i \notin adjusted /\ Enters(i, rec, j)
    <3>1. PICK i \in DOMAIN objs : \E rec, j : i \notin adjusted /\ Enters(i, rec, j)
      BY <2>2
    <3>2. PICK rec, j : Enters(i, rec, j)
      BY <3>1
    <3>3. \A c \in 1..Len(stack) : stack[c].at # i
      BY <1>1, <3>1
    <3>4. NoReentry' /\ \A c \in 1..Len(stack') :
              \/ stack'[c].at = i
              \/ c - 1 \in 1..Len(stack) /\ stack'[c].at = stack[c - 1].at
      BY <1>1, <2>2, <3>2, <3>3, EnterOnce DEF Enters
    <3> QED
      BY <1>1, <3>1, <3>2, <3>4 DEF Enters, Entered
  <2>3. CASE \E i \in DOMAIN objs : \E rec : Starts(i, rec)
    <3>1. PICK i \in DOMAIN objs : \E rec : Starts(i, rec)
      BY <2>3
    <3>2. NoReentry' /\ \A c \in 1..Len(stack') : stack'[c].at = i
      BY <3>1, StartOnce DEF Starts
    <3> QED
      BY <1>1, <3>1, <3>2 DEF Starts, Started
  <2>4. CASE UNCHANGED <<stack, obj_idx>> /\ adjusted' = adjusted
    BY <1>1, <2>4 DEF NoReentry
  <2>5. CASE /\ UNCHANGED <<stack, obj_idx>>
             /\ \E i \in DOMAIN objs : adjusted' = adjusted \cup {i}
    BY <1>1, <2>5 DEF NoReentry
  <2> QED
    BY <2>1, <2>2, <2>3, <2>4, <2>5
<1>4. \A c \in 1..Len(stack') : stack'[c].at \in DOMAIN objs
  BY <1>3
<1>5. obj_idx' \in 0..ObjCnt /\ obj_idx' # 0
  BY <1>1, <1>3
<1>6. Typed'
  BY <1>1, <1>2, <1>3, <1>4, <1>5, SameTyped
<1>7. Marks'
  BY <1>1, <1>2, <1>3, <1>5 DEF Marks
<1> QED
  BY <1>6, <1>7 DEF WalkInv


(* The field where STEP1 stops, and what it leads to.                      *)
Item(j) == Adjusts[Top.rec][j]
Field(j) == image[Top.at][Item(j)[1]]
Cleared(j) == image' = [image EXCEPT ![Top.at] =
                           [p \in DOMAIN @ \ {Item(j)[1]} |-> @[p]]]
Resolved(j, i) == image' = Put(Top.at, Item(j)[1], i, TRUE)

LEMMA EnterMoves ==
    ASSUME Typed, stack # <<>>, NEW i \in DOMAIN objs, NEW rec,
           NEW j \in Nat \ {0}, Enter(i, rec, Resume(j))
    PROVE  Enters(i, rec, j)
<1>1. i \in Nat
  BY TableFacts
<1>2. stack' = <<Call(rec, i)>> \o Resume(j)
  BY DEF Enter
<1>3. Entered(rec, i, j)
  BY <1>1, <1>2, EnterStack
<1> QED
  BY <1>3 DEF Enter, Enters

LEMMA PointerMoves ==
    ASSUME WalkInv, AdjustPointer
    PROVE  /\ phase = "adjust" /\ phase' = "adjust" /\ stack # <<>>
           /\ UNCHANGED <<crashes, collectVars, gvar, gptr>>
           /\ \E j \in NextStop :
                 /\ Item(j)[2] # "location"
                 /\ \/ /\ Field(j).real \/ ObjectAt(Field(j).to) = {}
                       /\ Cleared(j) /\ GoesOn(j + 1)
                    \/ /\ ~Field(j).real
                       /\ \E i \in ObjectAt(Field(j).to) :
                             /\ Resolved(j, i)
                             /\ \/ i \in adjusted /\ GoesOn(j + 1)
                                \/ /\ i \notin adjusted
                                   /\ Enters(i, AdjustOf(Item(j)[2], objs[i].kind), j + 1)
<1>1. Typed /\ phase = "adjust" /\ phase' = "adjust" /\ stack # <<>>
      /\ UNCHANGED <<crashes, collectVars, gvar, gptr>>
  BY DEF AdjustPointer, WalkInv
<1>2. PICK j \in NextStop :
         /\ Item(j)[2] # "location"
         /\ \/ /\ Field(j).real \/ ObjectAt(Field(j).to) = {}
               /\ Cleared(j) /\ stack' = Resume(j + 1)
               /\ UNCHANGED <<obj_idx, adjusted>>
            \/ /\ ~Field(j).real
               /\ \E i \in ObjectAt(Field(j).to) :
                     /\ Resolved(j, i)
                     /\ IF IsAdjusted(i)
                        THEN /\ stack' = Resume(j + 1)
                             /\ UNCHANGED <<obj_idx, adjusted>>
                        ELSE Enter(i, AdjustOf(Item(j)[2], objs[i].kind), Resume(j + 1))
  BY Zenon DEF AdjustPointer, Item, Field, Cleared, Resolved
<1>3. j + 1 \in Nat \ {0}
  BY <1>1, NextStopFacts
<1>4. ASSUME stack' = Resume(j + 1), UNCHANGED <<obj_idx, adjusted>>
      PROVE  GoesOn(j + 1)
  BY <1>1, <1>3, <1>4, ResumeStack DEF GoesOn
<1>5. CASE /\ Field(j).real \/ ObjectAt(Field(j).to) = {}
           /\ Cleared(j) /\ stack' = Resume(j + 1)
           /\ UNCHANGED <<obj_idx, adjusted>>
  BY <1>1, <1>2, <1>4, <1>5, Zenon
<1>6. CASE /\ ~Field(j).real
           /\ \E i \in ObjectAt(Field(j).to) :
                 /\ Resolved(j, i)
                 /\ IF IsAdjusted(i)
                    THEN /\ stack' = Resume(j + 1)
                         /\ UNCHANGED <<obj_idx, adjusted>>
                    ELSE Enter(i, AdjustOf(Item(j)[2], objs[i].kind), Resume(j + 1))
  <2>1. PICK i \in ObjectAt(Field(j).to) :
                 /\ Resolved(j, i)
                 /\ IF IsAdjusted(i)
                    THEN /\ stack' = Resume(j + 1)
                         /\ UNCHANGED <<obj_idx, adjusted>>
                    ELSE Enter(i, AdjustOf(Item(j)[2], objs[i].kind), Resume(j + 1))
    BY <1>6
  <2>2. CASE i \in adjusted
    <3>1. GoesOn(j + 1)
      BY <1>4, <2>1, <2>2 DEF IsAdjusted
    <3> QED
      BY <1>1, <1>2, <1>6, <2>1, <2>2, <3>1, Zenon
  <2>3. CASE i \notin adjusted
    <3>1. Enter(i, AdjustOf(Item(j)[2], objs[i].kind), Resume(j + 1))
      BY <2>1, <2>3 DEF IsAdjusted
    <3>2. Enters(i, AdjustOf(Item(j)[2], objs[i].kind), j + 1)
      BY <1>1, <1>3, <3>1, ObjectAtFacts, EnterMoves
    <3> QED
      BY <1>1, <1>2, <1>6, <2>1, <2>3, <3>2, Zenon
  <2> QED
    BY <2>2, <2>3
<1> QED
  BY <1>2, <1>5, <1>6

LEMMA LocationMoves ==
    ASSUME WalkInv, AdjustLocation
    PROVE  /\ phase = "adjust" /\ stack # <<>>
           /\ UNCHANGED <<crashes, collectVars, gvar, gptr>>
           /\ \E j \in NextStop :
                 /\ Item(j)[2] = "location"
                 /\ \/ /\ NextFree > ObjCnt \/ objs[NextFree].kind # "location"
                       /\ phase' = "bug"
                       /\ UNCHANGED <<image, stack, obj_idx, adjusted>>
                    \/ /\ NextFree \in DOMAIN objs /\ NextFree \notin adjusted
                       /\ objs[NextFree].kind = "location"
                       /\ phase' = "adjust" /\ Resolved(j, NextFree)
                       /\ Enters(NextFree, "location", j + 1)
<1>1. Typed /\ phase = "adjust" /\ stack # <<>>
      /\ UNCHANGED <<crashes, collectVars, gvar, gptr>>
      /\ obj_idx \in 0..ObjCnt /\ obj_idx # 0
  BY DEF AdjustLocation, WalkInv, Typed, Marks
<1>2. PICK j \in NextStop :
         /\ Item(j)[2] = "location"
         /\ \/ /\ NextFree > ObjCnt \/ objs[NextFree].kind # "location"
               /\ phase' = "bug"
               /\ UNCHANGED <<image, stack, obj_idx, adjusted>>
            \/ /\ NextFree <= ObjCnt /\ objs[NextFree].kind = "location"
               /\ Resolved(j, NextFree)
               /\ Enter(NextFree, "location", Resume(j + 1))
               /\ UNCHANGED phase
  BY DEF AdjustLocation, Item, Resolved
<1>3. j + 1 \in Nat \ {0}
  BY <1>1, NextStopFacts
<1>4. CASE NextFree <= ObjCnt /\ Enter(NextFree, "location", Resume(j + 1))
  <2>1. NextFree \in DOMAIN objs /\ NextFree \notin adjusted
    BY <1>1, <1>4, FreeFacts, TableFacts
  <2>2. Enters(NextFree, "location", j + 1)
    BY <1>1, <1>3, <1>4, <2>1, EnterMoves
  <2> QED
    BY <1>1, <1>2, <2>1, <2>2
<1> QED
  BY <1>1, <1>2, <1>4

LEMMA GlobalMoves ==
    ASSUME WalkInv, AdjustGlobal
    PROVE  /\ phase = "adjust" /\ stack = <<>> /\ gvar \in DOMAIN objs
           /\ gvar' = gvar + 1 /\ UNCHANGED <<crashes, collectVars, image>>
           /\ \/ /\ ~objs[gvar].gvar
                 /\ UNCHANGED <<phase, stack, obj_idx, adjusted, gptr>>
              \/ /\ objs[gvar].gvar /\ objs[gvar].fake = Null
                 /\ adjusted' = adjusted \cup {gvar}
                 /\ UNCHANGED <<phase, stack, obj_idx, gptr>>
              \/ /\ objs[gvar].gvar /\ objs[gvar].fake # Null
                 /\ objs[gvar].kind = None
                 /\ ObjectAt(objs[gvar].fake) = {} /\ phase' = "bug"
                 /\ UNCHANGED <<stack, obj_idx, adjusted, gptr>>
              \/ /\ objs[gvar].gvar /\ objs[gvar].fake # Null
                 /\ objs[gvar].kind = None
                 /\ \E i \in ObjectAt(objs[gvar].fake) :
                       gptr' = [gptr EXCEPT ![gvar] = i]
                 /\ adjusted' = adjusted \cup {gvar}
                 /\ UNCHANGED <<phase, stack, obj_idx>>
              \/ /\ objs[gvar].gvar /\ objs[gvar].kind # None
                 /\ gvar \in adjusted /\ phase' = "bug"
                 /\ UNCHANGED <<stack, obj_idx, adjusted, gptr>>
              \/ /\ objs[gvar].gvar /\ objs[gvar].kind # None
                 /\ gvar \notin adjusted /\ UNCHANGED <<phase, gptr>>
                 /\ Starts(gvar, AdjustOf("tree", objs[gvar].kind))
<1>1. /\ Typed /\ gvar \in DOMAIN objs
  <2>1. gvar \in 1..(ObjCnt + 1) /\ gvar <= ObjCnt /\ Typed
    BY DEF AdjustGlobal, WalkInv, Typed
  <2> QED
    BY <2>1, TableFacts
<1>2. ASSUME Enter(gvar, AdjustOf("tree", objs[gvar].kind), <<>>)
      PROVE  Starts(gvar, AdjustOf("tree", objs[gvar].kind))
  <2>1. PICK rec : rec = AdjustOf("tree", objs[gvar].kind)
    OBVIOUS
  <2>2. IsStack(<<>>) /\ Len(<<>>) = 0 /\ gvar \in Nat
    BY <1>1, TableFacts DEF IsStack
  <2>3. stack' = <<Call(rec, gvar)>> \o <<>>
    BY <1>2, <2>1 DEF Enter
  <2>4. Called(rec, gvar, <<>>, stack')
    BY <2>2, <2>3, CallFacts
  <2>5. Started(rec, gvar)
    BY <2>2, <2>4 DEF Called, Started
  <2> QED
    BY <1>2, <2>1, <2>5 DEF Enter, Starts
<1> QED
  BY <1>1, <1>2 DEF AdjustGlobal


LEMMA BugTyped ==
    ASSUME WalkInv, phase' = "bug", gvar' \in 1..(ObjCnt + 1),
           UNCHANGED <<crashes, collectVars, image, stack, obj_idx, adjusted>>
    PROVE  WalkInv'
<1>1. /\ Typed /\ heap \in Seq(Fields)
      /\ image = <<>> \/ DOMAIN image = DOMAIN objs
      /\ adjusted \subseteq DOMAIN objs /\ obj_idx \in 0..ObjCnt
      /\ crashes \in 0..Bound.crashes
      /\ IsStack(stack) /\ NoReentry
      /\ \A c \in 1..Len(stack) : stack[c].at \in DOMAIN objs
  BY DEF WalkInv, Typed
<1>2. objs' = objs /\ heap' = heap /\ crashes' = crashes /\ NoReentry'
  BY <1>1 DEF collectVars, NoReentry
<1>3. Typed'
  BY <1>1, <1>2, SameTyped
<1> QED
  BY <1>3 DEF WalkInv, Marks

LEMMA StartTyped == ASSUME WalkInv, StartAdjust PROVE WalkInv'
<1>1. /\ Typed /\ phase = "load" /\ phase' = "adjust"
      /\ UNCHANGED <<crashes, collectVars, image>>
      /\ gvar' = 1 /\ obj_idx' = 1 /\ adjusted' = {1}
      /\ DOMAIN image = DOMAIN objs
      /\ heap \in Seq(Fields) /\ crashes \in 0..Bound.crashes
      /\ ObjCnt \in Nat \ {0} /\ 1 \in DOMAIN objs
  BY TableFacts DEF StartAdjust, WalkInv, Typed, Marks
<1>2. PICK rec : stack' = <<Call(rec, 1)>>
  BY DEF StartAdjust
<1>3. Started(rec, 1)
  BY <1>2, StartStack
<1>4. /\ NoReentry' /\ IsStack(stack')
      /\ \A c \in 1..Len(stack') : stack'[c].at = 1
  BY <1>3, StartOnce DEF Started
<1>5. /\ adjusted' \subseteq DOMAIN objs /\ obj_idx' \in 0..ObjCnt
      /\ gvar' \in 1..(ObjCnt + 1) /\ objs' = objs /\ heap' = heap
      /\ crashes' = crashes /\ image' = image
  BY <1>1 DEF collectVars
<1>6. Typed'
  BY <1>1, <1>4, <1>5, SameTyped
<1>7. Marks'
  BY <1>1, <1>4, <1>5 DEF Marks
<1> QED
  BY <1>6, <1>7 DEF WalkInv

LEMMA AdjustTyped ==
    ASSUME WalkInv, AdjustPointer \/ AdjustLocation \/ AdjustGlobal PROVE WalkInv'
<1>1. /\ Typed /\ gvar \in 1..(ObjCnt + 1)
      /\ ObjCnt \in Nat \ {0} /\ DOMAIN objs = 1..ObjCnt
  BY TableFacts DEF WalkInv, Typed
<1>2. CASE AdjustPointer
  <2>1. /\ phase = "adjust" /\ phase' = "adjust" /\ stack # <<>>
        /\ UNCHANGED <<crashes, collectVars, gvar>>
    BY <1>2, PointerMoves
  <2>2. PICK j \in NextStop :
           \/ Cleared(j) /\ GoesOn(j + 1)
           \/ \E i \in ObjectAt(Field(j).to) :
                 /\ Resolved(j, i)
                 /\ \/ GoesOn(j + 1)
                    \/ /\ i \notin adjusted
                       /\ Enters(i, AdjustOf(Item(j)[2], objs[i].kind), j + 1)
    BY <1>2, PointerMoves
  <2>3. DOMAIN image' = DOMAIN image
    BY <2>2 DEF Cleared, Resolved, Put
  <2>4. CASE GoesOn(j + 1)
    BY <1>1, <2>1, <2>3, <2>4, MoveTyped
  <2>5. CASE \E i \in ObjectAt(Field(j).to) :
                /\ i \notin adjusted
                /\ Enters(i, AdjustOf(Item(j)[2], objs[i].kind), j + 1)
    <3>1. \E i \in DOMAIN objs : \E rec, k : i \notin adjusted /\ Enters(i, rec, k)
      BY <2>5, ObjectAtFacts
    <3> QED
      BY <1>1, <2>1, <2>3, <3>1, MoveTyped
  <2> QED
    BY <2>2, <2>4, <2>5
<1>3. CASE AdjustLocation
  <2>1. /\ phase = "adjust" /\ stack # <<>>
        /\ UNCHANGED <<crashes, collectVars, gvar>>
    BY <1>3, LocationMoves
  <2>2. PICK j \in NextStop :
           \/ /\ phase' = "bug"
              /\ UNCHANGED <<image, stack, obj_idx, adjusted>>
           \/ /\ NextFree \in DOMAIN objs /\ NextFree \notin adjusted
              /\ phase' = "adjust" /\ Resolved(j, NextFree)
              /\ Enters(NextFree, "location", j + 1)
    BY <1>3, LocationMoves
  <2>3. CASE /\ phase' = "bug"
             /\ UNCHANGED <<image, stack, obj_idx, adjusted>>
    BY <1>1, <2>1, <2>3, BugTyped
  <2>4. CASE /\ NextFree \in DOMAIN objs /\ NextFree \notin adjusted
             /\ phase' = "adjust" /\ Resolved(j, NextFree)
             /\ Enters(NextFree, "location", j + 1)
    <3>1. DOMAIN image' = DOMAIN image
      BY <2>4 DEF Resolved, Put
    <3>2. \E i \in DOMAIN objs : \E rec, k : i \notin adjusted /\ Enters(i, rec, k)
      BY <2>4
    <3> QED
      BY <1>1, <2>1, <2>4, <3>1, <3>2, MoveTyped
  <2> QED
    BY <2>2, <2>3, <2>4
<1>4. CASE AdjustGlobal
  <2>1. /\ phase = "adjust" /\ stack = <<>> /\ gvar \in DOMAIN objs
        /\ gvar' \in 1..(ObjCnt + 1) /\ UNCHANGED <<crashes, collectVars, image>>
    BY <1>1, <1>4, GlobalMoves
  <2>2. \/ phase' = "bug" /\ UNCHANGED <<stack, obj_idx, adjusted>>
        \/ phase' = phase /\ UNCHANGED <<stack, obj_idx, adjusted>>
        \/ /\ phase' = phase /\ UNCHANGED <<stack, obj_idx>>
           /\ adjusted' = adjusted \cup {gvar}
        \/ phase' = phase /\ \E rec : Starts(gvar, rec)
    BY <1>4, GlobalMoves
  <2>3. CASE phase' = "bug" /\ UNCHANGED <<stack, obj_idx, adjusted>>
    BY <2>1, <2>3, BugTyped
  <2>4. CASE phase' = phase /\ UNCHANGED <<stack, obj_idx, adjusted>>
    BY <2>1, <2>4, MoveTyped
  <2>5. CASE /\ phase' = phase /\ UNCHANGED <<stack, obj_idx>>
             /\ adjusted' = adjusted \cup {gvar}
    BY <2>1, <2>5, MoveTyped
  <2>6. CASE phase' = phase /\ \E rec : Starts(gvar, rec)
    BY <2>1, <2>6, MoveTyped
  <2> QED
    BY <2>2, <2>3, <2>4, <2>5, <2>6
<1> QED
  BY <1>2, <1>3, <1>4

LEMMA WalkStep == ASSUME WalkInv, [Next]_vars PROVE WalkInv'
  BY SaveTyped, CheckedTyped, GlobalTyped, EndTyped, StartTyped, AdjustTyped
     DEF Next, Walk, Stopped

(* The object table, the copies and every counter stay in their ranges     *)
(* (the arrays of collect and c_parse).                                    *)
THEOREM NodeImageTypes == Spec => []TypeOK
<1>1. WalkInv => TypeOK
  <2> SUFFICES ASSUME WalkInv PROVE TypeOK
    OBVIOUS
  <2>1. DOMAIN heap = DOMAIN objs
    BY TableFacts DEF WalkInv
  <2> QED
    BY <2>1 DEF WalkInv, Typed, TypeOK
<1> QED
  BY <1>1, WalkInit, WalkStep, PTL DEF Spec

(* No record is walked by two calls at a time, in either program, whatever *)
(* cycles the records make and whatever an earlier STEP1 left.             *)
THEOREM NodeImageNoReentry == Spec => []NoReentry
<1>1. WalkInv => NoReentry
  BY DEF WalkInv, Typed
<1> QED
  BY <1>1, WalkInit, WalkStep, PTL DEF Spec

===============================================================================
