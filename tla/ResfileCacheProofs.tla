------------------------- MODULE ResfileCacheProofs -------------------------
(***************************************************************************)
(* Proofs about ResfileCache, for every number of threads and images,      *)
(* every size, limit and nesting.                                          *)
(***************************************************************************)
EXTENDS ResfileCache, SequenceTheorems, FiniteSetTheorems, TLAPS

(***************************************************************************)
(* Facts about frame stacks                                                *)
(***************************************************************************)

(* Pushing a frame keeps the frames below it.                              *)
LEMMA Push ==
    ASSUME NEW s \in Seq(Frame), NEW f \in Frame
    PROVE  /\ Append(s, f) \in Seq(Frame)
           /\ Len(Append(s, f)) = Len(s) + 1
           /\ DOMAIN Append(s, f) = 1..(Len(s) + 1)
           /\ DOMAIN s = 1..Len(s)
           /\ \A i \in DOMAIN s : Append(s, f)[i] = s[i]
           /\ Append(s, f)[Len(s) + 1] = f
  OBVIOUS

(* Popping the top frame keeps the frames below it.                        *)
LEMMA Pop ==
    ASSUME NEW s \in Seq(Frame), s # << >>
    PROVE  /\ SubSeq(s, 1, Len(s) - 1) \in Seq(Frame)
           /\ DOMAIN s = 1..Len(s)
           /\ Len(s) \in DOMAIN s
           /\ s[Len(s)] \in Frame
           /\ DOMAIN SubSeq(s, 1, Len(s) - 1) = 1..(Len(s) - 1)
           /\ \A i \in 1..(Len(s) - 1) : SubSeq(s, 1, Len(s) - 1)[i] = s[i]
  <1>1. Len(s) \in Nat /\ DOMAIN s = 1..Len(s) /\ Len(s) # 0
    OBVIOUS
  <1>2. SubSeq(s, 1, Len(s) - 1) \in Seq(Frame)
    BY <1>1
  <1>3. Len(SubSeq(s, 1, Len(s) - 1)) = Len(s) - 1
    BY <1>1
  <1>. QED
    BY <1>1, <1>2, <1>3

(***************************************************************************)
(* Type correctness                                                        *)
(***************************************************************************)

(* Outside the client code a thread has a target.                          *)
TargetInv == \A t \in Thread : pc[t] # "run" => target[t] \in Sibuf

(* resfile_load hands a result to a caller or to the handler.              *)
LEMMA ReturnType ==
    ASSUME TypeOK, TargetInv, NEW t \in Thread, NEW how \in Results,
           pc[t] # "run", Return(t, how)
    PROVE  /\ pc' \in [Thread -> Labels]
           /\ frames' \in [Thread -> Seq(Frame)]
           /\ target' \in [Thread -> Sibuf \cup {NoBuf}]
           /\ TargetInv'
  <1>1. [buf |-> target[t], how |-> how] \in Frame
    BY DEF Frame, TargetInv
  <1>2. Append(frames[t], [buf |-> target[t], how |-> how]) \in Seq(Frame)
    BY <1>1, Push DEF TypeOK
  <1>. QED
    BY <1>2 DEF Return, Goto, TypeOK, TargetInv, Labels

Typed == TypeOK /\ TargetInv

LEMMA BeginType ==
    ASSUME Typed, NEW t \in Thread, NEW b \in Sibuf, NEW fault \in BOOLEAN,
           Begin(t, b, fault)
    PROVE  Typed'
  BY CacheAssumption DEF CacheAssumption, Typed, TypeOK, TargetInv, Begin,
     Goto, Labels, lockVars, memVars

LEMMA LoadErrorType ==
    ASSUME Typed, NEW t \in Thread, LoadError(t)
    PROVE  Typed'
  <1>1. pc[t] # "run" /\ Return(t, "error") /\ "error" \in Results
    BY DEF LoadError, Results
  <1>. QED
    BY <1>1, ReturnType DEF LoadError, Typed, TypeOK, lockVars, memVars

(* What AddUser does to the variables it touches.                          *)
LEMMA AddUserType ==
    ASSUME Typed, NEW t \in Thread, pc[t] # "run", AddUser(t, target[t])
    PROVE  /\ users' \in [Sibuf -> SUBSET Thread]
           /\ pc' \in [Thread -> Labels]
           /\ frames' \in [Thread -> Seq(Frame)]
           /\ target' \in [Thread -> Sibuf \cup {NoBuf}]
           /\ TargetInv'
  <1>. DEFINE how == IF t \in users[target[t]] THEN "held" ELSE "first"
  <1>1. Return(t, how) /\ how \in Results
    BY DEF AddUser, Results
  <1>2. users' = [users EXCEPT ![target[t]] = @ \cup {t}]
    BY DEF AddUser
  <1>. HIDE DEF how
  <1>3. users' \in [Sibuf -> SUBSET Thread]
    BY <1>2 DEF Typed, TypeOK
  <1>. QED
    BY <1>1, <1>3, ReturnType DEF Typed

LEMMA LoadHitType ==
    ASSUME Typed, NEW t \in Thread, LoadHit(t)
    PROVE  Typed'
  <1>1. pc[t] # "run" /\ AddUser(t, target[t])
    BY DEF LoadHit
  <1>2. fdOpen' \in [Resfile -> BOOLEAN]
    BY DEF LoadHit, Opened, Typed, TypeOK
  <1>. QED
    BY <1>1, <1>2, AddUserType DEF LoadHit, Typed, TypeOK, memVars

LEMMA MapType ==
    ASSUME Typed, NEW t \in Thread, Map(t)
    PROVE  Typed'
  <1>1. pc[t] # "run" /\ AddUser(t, target[t])
    BY DEF Map
  <1>2. target[t] \in Sibuf
    BY <1>1 DEF Typed, TargetInv
  <1>3. /\ mapped' \subseteq Sibuf
        /\ needUnload' \subseteq Sibuf
        /\ usage' \in Int
        /\ gcLock' \in Thread \cup {NoThread}
    BY <1>2, CacheAssumption DEF Map, CacheAssumption, Typed, TypeOK
  <1>. QED
    BY <1>1, <1>3, AddUserType DEF Map, Typed, TypeOK

LEMMA LockStepType ==
    ASSUME Typed, NEW t \in Thread,
           LoadMiss(t) \/ NoRoom(t) \/ GcStart(t) \/ GcEnd(t) \/ Again(t)
    PROVE  Typed'
  <1>. USE CacheAssumption
       DEF CacheAssumption, Typed, TypeOK, TargetInv, Goto, Labels, lockVars,
           memVars, callVars
  <1>1. CASE LoadMiss(t)  BY <1>1 DEF LoadMiss, Opened
  <1>2. CASE NoRoom(t)    BY <1>2 DEF NoRoom
  <1>3. CASE GcStart(t)   BY <1>3 DEF GcStart
  <1>4. CASE GcEnd(t)     BY <1>4 DEF GcEnd
  <1>5. CASE Again(t)     BY <1>5 DEF Again
  <1>. QED
    BY <1>1, <1>2, <1>3, <1>4, <1>5

LEMMA GcScanType ==
    ASSUME Typed, NEW t \in Thread, GcScan(t)
    PROVE  Typed'
  <1>1. scan[t] \in Sibuf
    BY DEF GcScan, Typed, TypeOK, Sibuf
  <1>2. /\ mapped' \subseteq Sibuf
        /\ needUnload' \subseteq Sibuf
        /\ usage' \in Int
    BY <1>1, CacheAssumption
       DEF GcScan, Unload, CacheAssumption, Typed, TypeOK, memVars
  <1>3. scan' \in [Thread -> 1..(NSibuf + 1)]
    BY <1>1, CacheAssumption DEF GcScan, CacheAssumption, Typed, TypeOK, Sibuf
  <1>. QED
    BY <1>2, <1>3 DEF GcScan, Typed, TypeOK, TargetInv, lockVars

LEMMA HandlerType ==
    ASSUME Typed, NEW t \in Thread, HandlerDrop(t) \/ Retry(t)
    PROVE  Typed'
  <1>. USE DEF Typed, TypeOK, TargetInv, Goto, Labels, lockVars, memVars,
               callVars
  <1>1. CASE HandlerDrop(t)  BY <1>1 DEF HandlerDrop, DelUser
  <1>2. CASE Retry(t)        BY <1>2 DEF Retry
  <1>. QED
    BY <1>1, <1>2

LEMMA DropType ==
    ASSUME Typed, NEW t \in Thread, Drop(t)
    PROVE  Typed'
  <1>. DEFINE rest == SubSeq(frames[t], 1, Len(frames[t]) - 1)
  <1>1. rest \in Seq(Frame)
    BY Pop DEF Drop, Typed, TypeOK
  <1>2. frames' \in [Thread -> Seq(Frame)]
    <2>1. frames \in [Thread -> Seq(Frame)]
      BY DEF Typed, TypeOK
    <2>2. frames' = [frames EXCEPT ![t] = rest]
      BY DEF Drop
    <2>. HIDE DEF rest
    <2>. QED
      BY <1>1, <2>1, <2>2
  <1>3. users' \in [Sibuf -> SUBSET Thread]
    <2>1. \/ UNCHANGED users
          \/ \E b : users' = [users EXCEPT ![b] = @ \ {t}]
      BY DEF Drop, DelUser
    <2>2. users \in [Sibuf -> SUBSET Thread]
      BY DEF Typed, TypeOK
    <2>. QED
      BY <2>1, <2>2
  <1>4. UNCHANGED <<lockVars, memVars, pc, callVars, calls>>
    BY DEF Drop
  <1>. QED
    BY <1>2, <1>3, <1>4
       DEF Typed, TypeOK, TargetInv, lockVars, memVars, callVars

LEMMA StatusType ==
    ASSUME Typed, NEW t \in Thread,
           (\E b \in Sibuf : StatusLoad(t, b)) \/ StatusStore(t)
    PROVE  Typed'
  <1>. USE CacheAssumption
       DEF CacheAssumption, Typed, TypeOK, TargetInv, Goto, Labels, lockVars,
           memVars
  <1>1. ASSUME NEW b \in Sibuf, StatusLoad(t, b)
        PROVE  Typed'
    BY <1>1 DEF StatusLoad
  <1>2. CASE StatusStore(t)
    BY <1>2 DEF StatusStore
  <1>. QED
    BY <1>1, <1>2

LEMMA UnloadAllType ==
    ASSUME Typed, UnloadAll
    PROVE  Typed'
  BY CacheAssumption DEF CacheAssumption, UnloadAll, Typed, TypeOK, TargetInv,
     lockVars, callVars

LEMMA TypedStep == Typed /\ [Next]_vars => Typed'
  <1>1. ASSUME Typed, NEW t \in Thread, Inside(t)
        PROVE  Typed'
    BY <1>1, LoadErrorType, LoadHitType, MapType, LockStepType, GcScanType,
       HandlerType, StatusType DEF Inside
  <1>2. ASSUME Typed, NEW t \in Thread, NEW b \in Sibuf,
               Hold(t, b) \/ Touch(t, b)
        PROVE  Typed'
    BY <1>2, BeginType DEF Hold, Touch
  <1>3. ASSUME Typed, UNCHANGED vars
        PROVE  Typed'
    BY <1>3 DEF vars, Typed, TypeOK, TargetInv, lockVars, memVars, callVars
  <1>. QED
    BY <1>1, <1>2, <1>3, DropType, StatusType, UnloadAllType DEF Next

LEMMA TypedInit == Init => Typed
  BY CacheAssumption DEF CacheAssumption, Init, Typed, TypeOK, TargetInv,
     Labels, Sibuf, NoBuf

(* Every variable keeps its type, and a call always has its argument.      *)
THEOREM CacheTypeCorrect == Spec => []TypeOK
  <1>1. Init => Typed
    BY TypedInit
  <1>2. Typed => TypeOK
    BY DEF Typed
  <1>. QED
    BY <1>1, <1>2, TypedStep, PTL DEF Spec

(***************************************************************************)
(* Frame stacks: which images they keep                                    *)
(***************************************************************************)

(* The images acquired by the frames of a stack, and by those of them that *)
(* will drop.                                                              *)
Held(s) == {s[i].buf : i \in {j \in DOMAIN s : s[j].how # "error"}}
Firsts(s) == {s[i].buf : i \in {j \in DOMAIN s : s[j].how = "first"}}

(* An image has one frame that will drop it, below all its other frames.   *)
WellNested(s) ==
    /\ \A i, j \in DOMAIN s :
          (s[i].how = "first" /\ s[j].how = "first" /\ s[i].buf = s[j].buf)
             => i = j
    /\ \A j \in DOMAIN s :
          s[j].how = "held" =>
             \E i \in DOMAIN s :
                i < j /\ s[i].how = "first" /\ s[i].buf = s[j].buf

(* The outermost frames alone tell what a stack holds.                     *)
LEMMA HeldFirst ==
    ASSUME NEW s \in Seq(Frame), WellNested(s)
    PROVE  Held(s) = Firsts(s)
  <1>1. \A i \in DOMAIN s : s[i].how \in Results
    <2>1. \A i \in DOMAIN s : s[i] \in Frame
      OBVIOUS
    <2>. QED
      BY <2>1 DEF Frame
  <1>2. Firsts(s) \subseteq Held(s)
    BY DEF Firsts, Held
  <1>3. ASSUME NEW b \in Held(s)
        PROVE  b \in Firsts(s)
    <2>1. PICK j \in DOMAIN s : s[j].how # "error" /\ s[j].buf = b
      BY DEF Held
    <2>2. CASE s[j].how = "first"
      BY <2>1, <2>2 DEF Firsts
    <2>3. CASE s[j].how = "held"
      BY <2>1, <2>3 DEF Firsts, WellNested
    <2>. QED
      BY <1>1, <2>1, <2>2, <2>3 DEF Results
  <1>. QED
    BY <1>2, <1>3

(* A frame pushed with the result sibuf_add_user computes.                 *)
LEMMA PushNested ==
    ASSUME NEW s \in Seq(Frame), WellNested(s), NEW f \in Frame,
           f.how = "first" => f.buf \notin Firsts(s),
           f.how = "held" => f.buf \in Firsts(s)
    PROVE  /\ WellNested(Append(s, f))
           /\ Firsts(Append(s, f)) =
                 IF f.how = "first" THEN Firsts(s) \cup {f.buf} ELSE Firsts(s)
  <1>. DEFINE r == Append(s, f)
              n == Len(s) + 1
  <1>1. /\ Len(s) \in Nat
        /\ DOMAIN r = 1..n
        /\ DOMAIN s = 1..Len(s)
        /\ \A i \in DOMAIN s : r[i] = s[i]
        /\ r[n] = f
    BY Push
  <1>. HIDE DEF r
  <1>2. DOMAIN r = DOMAIN s \cup {n} /\ n \notin DOMAIN s
    BY <1>1
  <1>3. ASSUME NEW i \in DOMAIN r, NEW j \in DOMAIN r,
               r[i].how = "first", r[j].how = "first", r[i].buf = r[j].buf
        PROVE  i = j
    <2>1. CASE i \in DOMAIN s /\ j \in DOMAIN s
      BY <1>1, <1>3, <2>1 DEF WellNested
    <2>2. CASE i = n /\ j \in DOMAIN s
      BY <1>1, <1>3, <2>2 DEF Firsts
    <2>3. CASE i \in DOMAIN s /\ j = n
      BY <1>1, <1>3, <2>3 DEF Firsts
    <2>. QED
      BY <1>2, <2>1, <2>2, <2>3
  <1>4. ASSUME NEW j \in DOMAIN r, r[j].how = "held"
        PROVE  \E i \in DOMAIN r :
                  i < j /\ r[i].how = "first" /\ r[i].buf = r[j].buf
    <2>1. CASE j \in DOMAIN s
      <3>1. PICK i \in DOMAIN s :
               i < j /\ s[i].how = "first" /\ s[i].buf = s[j].buf
        BY <1>1, <1>4, <2>1 DEF WellNested
      <3>. QED
        BY <1>1, <1>2, <2>1, <3>1
    <2>2. CASE j = n
      <3>1. PICK i \in DOMAIN s : s[i].how = "first" /\ s[i].buf = f.buf
        BY <1>1, <1>4, <2>2 DEF Firsts
      <3>2. i < n
        BY <1>1
      <3>. QED
        BY <1>1, <1>2, <2>2, <3>1, <3>2
    <2>. QED
      BY <1>2, <2>1, <2>2
  <1>5. Firsts(r) = IF f.how = "first" THEN Firsts(s) \cup {f.buf}
                                       ELSE Firsts(s)
    BY <1>1, <1>2 DEF Firsts
  <1>6. WellNested(r)
    BY <1>3, <1>4 DEF WellNested
  <1>. QED
    BY <1>5, <1>6 DEF r

(* Dropping an outermost hold gives the image up; any other drop does not. *)
LEMMA PopNested ==
    ASSUME NEW s \in Seq(Frame), WellNested(s), s # << >>,
           NEW top, top = s[Len(s)]
    PROVE  /\ WellNested(SubSeq(s, 1, Len(s) - 1))
           /\ Firsts(SubSeq(s, 1, Len(s) - 1)) =
                 IF top.how = "first" THEN Firsts(s) \ {top.buf}
                                      ELSE Firsts(s)
           /\ top.how = "first" => top.buf \in Firsts(s)
  <1>. DEFINE r == SubSeq(s, 1, Len(s) - 1)
              n == Len(s)
  <1>1. /\ n \in Nat
        /\ DOMAIN s = 1..n
        /\ n \in DOMAIN s
        /\ DOMAIN r = 1..(n - 1)
        /\ \A i \in 1..(n - 1) : r[i] = s[i]
    BY Pop
  <1>. HIDE DEF r, n
  <1>2. /\ DOMAIN s = DOMAIN r \cup {n}
        /\ n \notin DOMAIN r
        /\ \A i \in DOMAIN r : i \in DOMAIN s /\ r[i] = s[i]
        /\ \A i \in DOMAIN s : i < n => i \in DOMAIN r
    BY <1>1
  <1>3. \A i, j \in DOMAIN r :
           (r[i].how = "first" /\ r[j].how = "first" /\ r[i].buf = r[j].buf)
              => i = j
    BY <1>2 DEF WellNested
  <1>4. ASSUME NEW j \in DOMAIN r, r[j].how = "held"
        PROVE  \E i \in DOMAIN r :
                  i < j /\ r[i].how = "first" /\ r[i].buf = r[j].buf
    <2>1. PICK i \in DOMAIN s :
             i < j /\ s[i].how = "first" /\ s[i].buf = s[j].buf
      BY <1>2, <1>4 DEF WellNested
    <2>2. i \in DOMAIN r
      BY <1>1, <2>1
    <2>. QED
      BY <1>2, <2>1, <2>2
  <1>5. WellNested(r)
    BY <1>3, <1>4 DEF WellNested
  <1>6. top = s[n]
    BY DEF n
  <1>7. Firsts(r) = IF top.how = "first" THEN Firsts(s) \ {top.buf}
                                         ELSE Firsts(s)
    <2>1. CASE top.how = "first"
      <3>1. \A i \in DOMAIN r : s[i].how = "first" => s[i].buf # top.buf
        BY <1>1, <1>2, <1>6, <2>1 DEF WellNested
      <3>. QED
        BY <1>2, <1>6, <2>1, <3>1 DEF Firsts
    <2>2. CASE top.how # "first"
      BY <1>2, <1>6, <2>2 DEF Firsts
    <2>. QED
      BY <2>1, <2>2
  <1>8. top.how = "first" => top.buf \in Firsts(s)
    BY <1>1, <1>6 DEF Firsts
  <1>. QED
    BY <1>5, <1>7, <1>8 DEF r

(***************************************************************************)
(* The user lists                                                          *)
(***************************************************************************)

(* The lists name t for the images its frames will drop, and for the one   *)
(* the SIGSEGV handler is about to drop, which is none of those.           *)
UserOK(t) ==
    /\ WellNested(frames[t])
    /\ \A b \in Sibuf :
          t \in users[b] <=> \/ b \in Firsts(frames[t])
                             \/ pc[t] = "ehdrop" /\ b = target[t]
    /\ pc[t] = "ehdrop" => target[t] \notin Firsts(frames[t])

UserInv == \A t \in Thread : UserOK(t)

(* A step of t changes nothing of the other threads' holds.                *)
LEMMA OthersKeep ==
    ASSUME UserInv, NEW t \in Thread, UserOK(t)',
           \A u \in Thread \ {t} :
              /\ frames'[u] = frames[u]
              /\ pc'[u] = pc[u]
              /\ target'[u] = target[u]
              /\ \A b \in Sibuf : u \in users'[b] <=> u \in users[b]
    PROVE  UserInv'
  BY DEF UserInv, UserOK

(* A step outside the user code that leaves frames and users alone.        *)
LEMMA NeutralStep ==
    ASSUME UserInv, NEW t \in Thread,
           UNCHANGED <<users, frames>>,
           pc[t] # "ehdrop", pc'[t] # "ehdrop",
           \A u \in Thread \ {t} : pc'[u] = pc[u] /\ target'[u] = target[u]
    PROVE  UserInv'
  BY DEF UserInv, UserOK

(* A hold ends: the thread becomes a user unless the load failed.          *)
LEMMA ReturnStep ==
    ASSUME Typed, UserInv, NEW t \in Thread, NEW how \in Results,
           pc[t] \notin {"run", "ehdrop"},
           Return(t, how),
           users' = IF how = "error" THEN users
                    ELSE [users EXCEPT ![target[t]] = @ \cup {t}],
           how = "first" => t \notin users[target[t]],
           how = "held" => t \in users[target[t]]
    PROVE  UserInv'
  <1>. DEFINE b == target[t]
              f == [buf |-> b, how |-> how]
  <1>1. b \in Sibuf /\ f \in Frame /\ frames[t] \in Seq(Frame)
    BY DEF Typed, TypeOK, TargetInv, Frame
  <1>2. UserOK(t)
    BY DEF UserInv
  <1>3. /\ how = "first" => b \notin Firsts(frames[t])
        /\ how = "held" => b \in Firsts(frames[t])
    BY <1>1, <1>2 DEF UserOK
  <1>4. \A c \in Sibuf :
           t \in users'[c] <=> t \in users[c] \/ (c = b /\ how # "error")
    BY <1>1 DEF Typed, TypeOK
  <1>5. \A u \in Thread \ {t} : \A c \in Sibuf :
           u \in users'[c] <=> u \in users[c]
    BY <1>1 DEF Typed, TypeOK
  <1>6. CASE inFault[t]
    <2>1. /\ UNCHANGED <<frames, target>>
          /\ pc' = [pc EXCEPT ![t] = IF how = "first" THEN "ehdrop"
                                     ELSE "retry"]
      BY <1>6 DEF Return, Goto
    <2>2. pc'[t] = IF how = "first" THEN "ehdrop" ELSE "retry"
      BY <2>1 DEF Typed, TypeOK
    <2>3. UserOK(t)'
      BY <1>2, <1>3, <1>4, <2>1, <2>2 DEF UserOK, Results
    <2>. QED
      BY <1>5, <2>1, <2>3, OthersKeep DEF Typed, TypeOK
  <1>7. CASE ~ inFault[t]
    <2>1. /\ pc' = [pc EXCEPT ![t] = "run"]
          /\ frames' = [frames EXCEPT ![t] = Append(@, f)]
          /\ target' = [target EXCEPT ![t] = NoBuf]
      BY <1>7 DEF Return, Goto
    <2>2. pc'[t] = "run" /\ frames'[t] = Append(frames[t], f)
      BY <2>1 DEF Typed, TypeOK
    <2>3. /\ WellNested(frames'[t])
          /\ Firsts(frames'[t]) =
                IF how = "first" THEN Firsts(frames[t]) \cup {b}
                                 ELSE Firsts(frames[t])
      <3>1. WellNested(frames[t])
        BY <1>2 DEF UserOK
      <3>2. f.buf = b /\ f.how = how
        OBVIOUS
      <3>. HIDE DEF f, b
      <3>3. /\ WellNested(Append(frames[t], f))
            /\ Firsts(Append(frames[t], f)) =
                  IF how = "first" THEN Firsts(frames[t]) \cup {b}
                                   ELSE Firsts(frames[t])
        BY <1>1, <1>3, <3>1, <3>2, PushNested
      <3>. QED
        BY <2>2, <3>3
    <2>4. UserOK(t)'
      BY <1>2, <1>3, <1>4, <2>2, <2>3 DEF UserOK, Results
    <2>. QED
      BY <1>5, <2>1, <2>4, OthersKeep DEF Typed, TypeOK
  <1>. QED
    BY <1>6, <1>7

LEMMA LoadErrorUser ==
    ASSUME Typed, UserInv, NEW t \in Thread, LoadError(t)
    PROVE  UserInv'
  BY ReturnStep DEF LoadError, Results

LEMMA AddUserUser ==
    ASSUME Typed, UserInv, NEW t \in Thread, pc[t] \notin {"run", "ehdrop"},
           AddUser(t, target[t])
    PROVE  UserInv'
  <1>1. CASE t \in users[target[t]]
    BY <1>1, ReturnStep DEF AddUser, Results
  <1>2. CASE t \notin users[target[t]]
    BY <1>2, ReturnStep DEF AddUser, Results
  <1>. QED
    BY <1>1, <1>2

LEMMA LoadUser ==
    ASSUME Typed, UserInv, NEW t \in Thread, LoadHit(t) \/ Map(t)
    PROVE  UserInv'
  <1>1. CASE LoadHit(t)  BY <1>1, AddUserUser DEF LoadHit
  <1>2. CASE Map(t)      BY <1>2, AddUserUser DEF Map
  <1>. QED
    BY <1>1, <1>2

LEMMA BeginUser ==
    ASSUME Typed, UserInv, NEW t \in Thread, NEW b \in Sibuf, NEW fault,
           Begin(t, b, fault)
    PROVE  UserInv'
  BY NeutralStep DEF Begin, Goto, Typed, TypeOK

LEMMA LockStepUser ==
    ASSUME Typed, UserInv, NEW t \in Thread,
           LoadMiss(t) \/ NoRoom(t) \/ GcStart(t) \/ GcScan(t) \/ GcEnd(t)
           \/ Again(t)
    PROVE  UserInv'
  <1>. USE NeutralStep DEF Goto, Typed, TypeOK, callVars
  <1>1. CASE LoadMiss(t)  BY <1>1 DEF LoadMiss
  <1>2. CASE NoRoom(t)    BY <1>2 DEF NoRoom
  <1>3. CASE GcStart(t)   BY <1>3 DEF GcStart
  <1>4. CASE GcScan(t)    BY <1>4 DEF GcScan
  <1>5. CASE GcEnd(t)     BY <1>5 DEF GcEnd
  <1>6. CASE Again(t)     BY <1>6 DEF Again
  <1>. QED
    BY <1>1, <1>2, <1>3, <1>4, <1>5, <1>6

LEMMA HandlerDropUser ==
    ASSUME Typed, UserInv, NEW t \in Thread, HandlerDrop(t)
    PROVE  UserInv'
  <1>1. /\ pc[t] = "ehdrop" /\ pc'[t] = "retry"
        /\ target[t] \in Sibuf
        /\ UNCHANGED <<frames, target>>
        /\ \A u \in Thread \ {t} : pc'[u] = pc[u]
        /\ \A c \in Sibuf : \A u \in Thread :
              u \in users'[c] <=> u \in users[c] /\ ~(u = t /\ c = target[t])
    BY DEF HandlerDrop, DelUser, Goto, Typed, TypeOK, TargetInv, callVars
  <1>2. UserOK(t)'
    BY <1>1 DEF UserInv, UserOK
  <1>. QED
    BY <1>1, <1>2, OthersKeep

LEMMA QuietStepUser ==
    ASSUME Typed, UserInv, NEW t \in Thread,
           Retry(t) \/ (\E b \in Sibuf : StatusLoad(t, b)) \/ StatusStore(t)
    PROVE  UserInv'
  <1>. USE NeutralStep DEF Goto, Typed, TypeOK
  <1>1. CASE Retry(t)        BY <1>1 DEF Retry
  <1>2. ASSUME NEW b \in Sibuf, StatusLoad(t, b)
        PROVE  UserInv'
    BY <1>2 DEF StatusLoad
  <1>3. CASE StatusStore(t)  BY <1>3 DEF StatusStore
  <1>. QED
    BY <1>1, <1>2, <1>3

LEMMA DropUser ==
    ASSUME Typed, UserInv, NEW t \in Thread, Drop(t)
    PROVE  UserInv'
  <1>. DEFINE s == frames[t]
              top == s[Len(s)]
  <1>1. /\ pc[t] = "run" /\ s # << >>
        /\ s \in Seq(Frame) /\ WellNested(s)
        /\ UNCHANGED <<pc, target>>
        /\ frames' = [frames EXCEPT ![t] = SubSeq(s, 1, Len(s) - 1)]
        /\ users' = IF top.how = "first"
                    THEN [users EXCEPT ![top.buf] = @ \ {t}]
                    ELSE users
    BY DEF Drop, DelUser, Typed, TypeOK, UserInv, UserOK, callVars
  <1>2. top \in Frame /\ top.buf \in Sibuf
    BY <1>1, Pop DEF Frame
  <1>3. frames'[t] = SubSeq(s, 1, Len(s) - 1)
    BY <1>1 DEF Typed, TypeOK
  <1>4. /\ WellNested(frames'[t])
        /\ Firsts(frames'[t]) = IF top.how = "first"
                                THEN Firsts(s) \ {top.buf} ELSE Firsts(s)
    BY <1>1, <1>3, PopNested
  <1>5. \A c \in Sibuf : \A u \in Thread :
           u \in users'[c] <=>
              u \in users[c] /\ ~(u = t /\ c = top.buf /\ top.how = "first")
    BY <1>1, <1>2 DEF Typed, TypeOK
  <1>6. UserOK(t)
    BY DEF UserInv
  <1>. HIDE DEF top
  <1>7. UserOK(t)'
    BY <1>1, <1>4, <1>5, <1>6 DEF UserOK
  <1>. QED
    BY <1>1, <1>5, <1>7, OthersKeep DEF Typed, TypeOK

(* When every thread is quiet, nobody is a user.                           *)
LEMMA QuietNoUsers ==
    ASSUME Typed, UserInv, \A t \in Thread : Quiet(t)
    PROVE  \A b \in Sibuf : users[b] = {}
  <1>1. \A t \in Thread : \A b \in Sibuf : t \notin users[b]
    BY DEF UserInv, UserOK, Quiet, Firsts
  <1>. QED
    BY <1>1 DEF Typed, TypeOK

LEMMA UnloadAllUser ==
    ASSUME Typed, UserInv, UnloadAll
    PROVE  UserInv'
  <1>1. \A b \in Sibuf : users'[b] = users[b]
    BY QuietNoUsers DEF UnloadAll
  <1>. QED
    BY <1>1 DEF UnloadAll, UserInv, UserOK, callVars

LEMMA UserInvStep == Typed /\ UserInv /\ [Next]_vars => UserInv'
  <1>1. ASSUME Typed, UserInv, NEW t \in Thread, Inside(t)
        PROVE  UserInv'
    BY <1>1, LoadErrorUser, LoadUser, LockStepUser, HandlerDropUser,
       QuietStepUser DEF Inside
  <1>2. ASSUME Typed, UserInv, NEW t \in Thread, NEW b \in Sibuf,
               Hold(t, b) \/ Touch(t, b)
        PROVE  UserInv'
    BY <1>2, BeginUser DEF Hold, Touch
  <1>3. ASSUME UserInv, UNCHANGED vars
        PROVE  UserInv'
    BY <1>3 DEF vars, UserInv, UserOK, callVars
  <1>. QED
    BY <1>1, <1>2, <1>3, DropUser, QuietStepUser, UnloadAllUser DEF Next

LEMMA UserInvInit == Init => UserInv
  BY DEF Init, UserInv, UserOK, WellNested, Firsts

(* sibuf.users is exact in every reachable state, with or without the      *)
(* race on the status byte.                                                *)
THEOREM CacheUsersExact == Spec => []UsersAreHolders
  <1>1. Typed /\ UserInv => UsersAreHolders
    <2>1. SUFFICES ASSUME Typed, UserInv, NEW b \in Sibuf, NEW t \in Thread
                   PROVE  t \in users[b] <=> MustDrop(t, b)
      BY <2>1 DEF UsersAreHolders, Typed, TypeOK
    <2>2. b \in Firsts(frames[t]) <=>
             \E i \in DOMAIN frames[t] :
                frames[t][i] = [buf |-> b, how |-> "first"]
      <3>1. \A i \in DOMAIN frames[t] : frames[t][i] \in Frame
        BY <2>1 DEF Typed, TypeOK
      <3>. QED
        BY <3>1 DEF Firsts, Frame
    <2>. QED
      BY <2>1, <2>2 DEF UserInv, UserOK, MustDrop
  <1>2. Init => Typed
    BY TypedInit
  <1>. QED
    BY <1>1, <1>2, UserInvInit, TypedStep, UserInvStep, PTL DEF Spec

(***************************************************************************)
(* What a step does to the pages                                           *)
(***************************************************************************)

(* Only a collection and resfile_unload_all unmap.                         *)
LEMMA MappedGrows ==
    ASSUME Typed, NEW t \in Thread,
           \/ Inside(t) /\ ~ GcScan(t)
           \/ Drop(t)
           \/ \E b \in Sibuf : Hold(t, b) \/ Touch(t, b) \/ StatusLoad(t, b)
    PROVE  mapped \subseteq mapped'
  <1>. USE DEF memVars
  <1>1. CASE Drop(t)  BY <1>1 DEF Drop
  <1>2. ASSUME NEW b \in Sibuf, Hold(t, b) \/ Touch(t, b) \/ StatusLoad(t, b)
        PROVE  mapped \subseteq mapped'
    BY <1>2 DEF Hold, Touch, StatusLoad, Begin
  <1>3. CASE LoadError(t) \/ LoadHit(t) \/ LoadMiss(t)
    BY <1>3 DEF LoadError, LoadHit, LoadMiss
  <1>4. CASE NoRoom(t) \/ Map(t)
    BY <1>4 DEF NoRoom, Map
  <1>5. CASE GcStart(t) \/ GcEnd(t) \/ Again(t)
    BY <1>5 DEF GcStart, GcEnd, Again
  <1>6. CASE HandlerDrop(t) \/ Retry(t) \/ StatusStore(t)
    BY <1>6 DEF HandlerDrop, Retry, StatusStore
  <1>. QED
    BY <1>1, <1>2, <1>3, <1>4, <1>5, <1>6 DEF Inside

LEMMA UnmapStep ==
    ASSUME Typed, UserInv, [Next]_vars
    PROVE  \A b \in mapped \ mapped' : users[b] = {}
  <1>1. ASSUME NEW t \in Thread, GcScan(t)
        PROVE  \A b \in mapped \ mapped' : users[b] = {}
    BY <1>1 DEF GcScan, Collectable, Unload, memVars
  <1>2. CASE UnloadAll
    BY <1>2, QuietNoUsers DEF UnloadAll, Typed, TypeOK
  <1>3. CASE UNCHANGED vars
    BY <1>3 DEF vars, memVars
  <1>. QED
    BY <1>1, <1>2, <1>3, MappedGrows DEF Next, Inside

(* An image is only unmapped while nobody is its user, with or without the *)
(* race on the status byte.                                                *)
THEOREM CacheUnmapsOnlyUnused == Spec => UnmapsOnlyUnused
  <1>1. Typed /\ UserInv /\ [Next]_vars
           => [\A b \in mapped \ mapped' : users[b] = {}]_vars
    BY UnmapStep
  <1>. QED
    BY <1>1, TypedInit, UserInvInit, TypedStep, UserInvStep, PTL
       DEF Spec, UnmapsOnlyUnused

(***************************************************************************)
(* Held images are mapped, when the status store is atomic                 *)
(***************************************************************************)

(* need_unload is exact, and nobody is between the halves of a store.      *)
LoadedInv ==
    /\ needUnload = mapped
    /\ \A t \in Thread : pc[t] # "store"

LEMMA LoadedStep ==
    ASSUME ~ SplitStore, Typed, LoadedInv, [Next]_vars
    PROVE  LoadedInv'
  <1>. USE DEF LoadedInv, Goto, memVars, callVars, Typed, TypeOK
  <1>1. ASSUME NEW t \in Thread, NEW how, Return(t, how)
        PROVE  \A u \in Thread : pc'[u] # "store"
    BY <1>1 DEF Return
  <1>2. ASSUME NEW t \in Thread, LoadError(t)
        PROVE  LoadedInv'
    BY <1>1, <1>2 DEF LoadError
  <1>3. ASSUME NEW t \in Thread, LoadHit(t)
        PROVE  LoadedInv'
    BY <1>1, <1>3 DEF LoadHit, AddUser
  <1>4. ASSUME NEW t \in Thread, Map(t)
        PROVE  LoadedInv'
    BY <1>1, <1>4 DEF Map, AddUser
  <1>5. ASSUME NEW t \in Thread,
               LoadMiss(t) \/ NoRoom(t) \/ GcStart(t) \/ GcEnd(t) \/ Again(t)
        PROVE  LoadedInv'
    <2>1. CASE LoadMiss(t)  BY <2>1 DEF LoadMiss
    <2>2. CASE NoRoom(t)    BY <2>2 DEF NoRoom
    <2>3. CASE GcStart(t)   BY <2>3 DEF GcStart
    <2>4. CASE GcEnd(t)     BY <2>4 DEF GcEnd
    <2>5. CASE Again(t)     BY <2>5 DEF Again
    <2>. QED
      BY <1>5, <2>1, <2>2, <2>3, <2>4, <2>5
  <1>6. ASSUME NEW t \in Thread, GcScan(t)
        PROVE  LoadedInv'
    BY <1>6 DEF GcScan, Unload
  <1>7. ASSUME NEW t \in Thread, HandlerDrop(t) \/ Retry(t)
        PROVE  LoadedInv'
    <2>1. CASE HandlerDrop(t)  BY <2>1 DEF HandlerDrop
    <2>2. CASE Retry(t)        BY <2>2 DEF Retry
    <2>. QED
      BY <1>7, <2>1, <2>2
  <1>8. ASSUME NEW t \in Thread, StatusStore(t)
        PROVE  LoadedInv'
    BY <1>8 DEF StatusStore
  <1>9. ASSUME NEW t \in Thread, Drop(t)
        PROVE  LoadedInv'
    BY <1>9 DEF Drop
  <1>10. ASSUME NEW t \in Thread, NEW b \in Sibuf, Hold(t, b) \/ Touch(t, b)
         PROVE  LoadedInv'
    BY <1>10 DEF Hold, Touch, Begin
  <1>11. ASSUME NEW t \in Thread, NEW b \in Sibuf, StatusLoad(t, b)
         PROVE  LoadedInv'
    BY <1>11 DEF StatusLoad
  <1>12. CASE UnloadAll
    BY <1>12 DEF UnloadAll
  <1>13. CASE UNCHANGED vars
    BY <1>13 DEF vars
  <1>. QED
    BY <1>2, <1>3, <1>4, <1>5, <1>6, <1>7, <1>8, <1>9, <1>10, <1>11, <1>12,
       <1>13 DEF Next, Inside

(* An image that has a user is mapped.                                     *)
UsedIsMapped == \A b \in Sibuf : users[b] # {} => b \in mapped

(* A step that adds a user does so to an image that it leaves mapped.      *)
LEMMA NewUserMapped ==
    ASSUME Typed, LoadedInv, [Next]_vars, NEW b \in Sibuf, NEW t \in Thread,
           t \in users'[b], t \notin users[b]
    PROVE  b \in mapped'
  <1>. USE DEF Typed, TypeOK, TargetInv, memVars, callVars, LoadedInv
  <1>1. ASSUME NEW u \in Thread, LoadHit(u)
        PROVE  b \in mapped'
    BY <1>1 DEF LoadHit, AddUser
  <1>2. ASSUME NEW u \in Thread, Map(u)
        PROVE  b \in mapped'
    BY <1>2 DEF Map, AddUser
  <1>3. ASSUME NEW u \in Thread, NEW c \in Sibuf
        PROVE  DelUser(u, c) => users'[b] \subseteq users[b]
    BY DEF DelUser
  <1>4. ASSUME NEW u \in Thread, HandlerDrop(u)
        PROVE  FALSE
    BY <1>3, <1>4 DEF HandlerDrop
  <1>5. ASSUME NEW u \in Thread, Drop(u)
        PROVE  FALSE
    <2>1. frames[u][Len(frames[u])] \in Frame
      BY <1>5, Pop DEF Drop
    <2>. QED
      BY <1>3, <1>5, <2>1 DEF Drop, Frame
  <1>6. ASSUME NEW u \in Thread,
               \/ LoadError(u) \/ LoadMiss(u) \/ NoRoom(u) \/ GcStart(u)
               \/ GcScan(u) \/ GcEnd(u) \/ Again(u) \/ Retry(u)
               \/ StatusStore(u)
        PROVE  FALSE
    BY <1>6 DEF LoadError, LoadMiss, NoRoom, GcStart, GcScan, GcEnd, Again,
                Retry, StatusStore
  <1>7. ASSUME NEW u \in Thread, NEW c \in Sibuf,
               Hold(u, c) \/ Touch(u, c) \/ StatusLoad(u, c)
        PROVE  FALSE
    BY <1>7 DEF Hold, Touch, Begin, StatusLoad
  <1>8. CASE UnloadAll
    BY <1>8 DEF UnloadAll
  <1>9. CASE UNCHANGED vars
    BY <1>9 DEF vars
  <1>. QED
    BY <1>1, <1>2, <1>4, <1>5, <1>6, <1>7, <1>8, <1>9 DEF Next, Inside

LEMMA UsedIsMappedStep ==
    ASSUME Typed, UserInv, LoadedInv, UsedIsMapped, [Next]_vars
    PROVE  UsedIsMapped'
  <1>1. SUFFICES ASSUME NEW b \in Sibuf, users'[b] # {}
                 PROVE  b \in mapped'
    BY DEF UsedIsMapped
  <1>2. PICK t \in Thread : t \in users'[b]
    BY <1>1, TypedStep DEF Typed, TypeOK
  <1>3. CASE t \in users[b]
    BY <1>3, UnmapStep DEF UsedIsMapped
  <1>4. CASE t \notin users[b]
    BY <1>2, <1>4, NewUserMapped
  <1>. QED
    BY <1>3, <1>4

(* The invariant of the cache with an atomic status store.                 *)
CacheInv == Typed /\ UserInv /\ LoadedInv /\ UsedIsMapped

LEMMA CacheInvariant == ~ SplitStore /\ Spec => []CacheInv
  <1>1. Init => CacheInv
    BY TypedInit, UserInvInit DEF Init, CacheInv, LoadedInv, UsedIsMapped
  <1>2. ~ SplitStore /\ CacheInv /\ [Next]_vars => CacheInv'
    BY TypedStep, UserInvStep, LoadedStep, UsedIsMappedStep DEF CacheInv
  <1>3. CASE SplitStore
    BY <1>3
  <1>4. CASE ~ SplitStore
    <2>1. CacheInv /\ [Next]_vars => CacheInv'
      BY <1>2, <1>4
    <2>. QED
      BY <1>1, <2>1, PTL DEF Spec
  <1>. QED
    BY <1>3, <1>4

(* While a caller's successful hold is not undone, the image is mapped.    *)
THEOREM CacheHeldIsMapped == ~ SplitStore /\ Spec => []HeldIsMapped
  <1>1. CacheInv => HeldIsMapped
    <2>1. SUFFICES ASSUME CacheInv, NEW t \in Thread,
                          NEW i \in DOMAIN frames[t],
                          frames[t][i].how # "error"
                   PROVE  frames[t][i].buf \in mapped
      BY DEF HeldIsMapped
    <2>2. frames[t] \in Seq(Frame) /\ WellNested(frames[t])
      BY <2>1 DEF CacheInv, Typed, TypeOK, UserInv, UserOK
    <2>3. frames[t][i].buf \in Firsts(frames[t])
      BY <2>1, <2>2, HeldFirst DEF Held
    <2>4. frames[t][i] \in Frame
      BY <2>1, <2>2
    <2>. QED
      BY <2>1, <2>3, <2>4
         DEF CacheInv, UserInv, UserOK, UsedIsMapped, Frame
  <1>. QED
    BY <1>1, CacheInvariant, PTL

(***************************************************************************)
(* The limit holds for the pages, when the status store is atomic          *)
(***************************************************************************)

Pages(S) == UNION {PagesOf(b) : b \in S}

LEMMA PagesOfFinite ==
    ASSUME NEW b \in Sibuf
    PROVE  IsFiniteSet(PagesOf(b)) /\ Cardinality(PagesOf(b)) = Size[b]
  <1>1. Size[b] \in Nat \ {0}
    BY CacheAssumption DEF CacheAssumption
  <1>2. IsFiniteSet({b}) /\ Cardinality({b}) = 1
    BY FS_Singleton
  <1>3. IsFiniteSet(1..Size[b]) /\ Cardinality(1..Size[b]) = Size[b]
    BY <1>1, FS_Interval
  <1>4. /\ IsFiniteSet({b} \X (1..Size[b]))
        /\ Cardinality({b} \X (1..Size[b])) = 1 * Size[b]
    BY <1>2, <1>3, FS_Product
  <1>. QED
    BY <1>1, <1>4 DEF PagesOf

LEMMA PagesFinite ==
    ASSUME NEW S \in SUBSET Sibuf
    PROVE  IsFiniteSet(Pages(S)) /\ Cardinality(Pages(S)) \in Nat
  <1>. DEFINE R == {PagesOf(b) : b \in S}
              f == [b \in S |-> PagesOf(b)]
  <1>1. IsFiniteSet(S)
    <2>1. NSibuf \in Int /\ 1 \in Int
      BY CacheAssumption DEF CacheAssumption
    <2>2. IsFiniteSet(1..NSibuf)
      BY <2>1, FS_Interval
    <2>. QED
      BY <2>2, FS_Subset DEF Sibuf
  <1>2. f \in Surjection(S, R)
    BY DEF Surjection
  <1>3. \A T \in R : IsFiniteSet(T)
    BY PagesOfFinite
  <1>. HIDE DEF R, f
  <1>4. IsFiniteSet(R)
    BY <1>1, <1>2, FS_Surjection
  <1>5. IsFiniteSet(UNION R)
    BY <1>3, <1>4, FS_UNION
  <1>6. Pages(S) = UNION R
    BY DEF Pages, R
  <1>. QED
    BY <1>5, <1>6, FS_CardinalityType

(* Images share no page: one more or one less counts its size.             *)
LEMMA PagesAdd ==
    ASSUME NEW S \in SUBSET Sibuf, NEW b \in Sibuf \ S
    PROVE  Cardinality(Pages(S \cup {b})) = Cardinality(Pages(S)) + Size[b]
  <1>1. Pages(S \cup {b}) = Pages(S) \cup PagesOf(b)
    BY DEF Pages
  <1>2. Pages(S) \cap PagesOf(b) = {}
    BY DEF Pages, PagesOf
  <1>3. Cardinality({}) = 0 /\ Size[b] \in Nat
    BY FS_EmptySet, CacheAssumption DEF CacheAssumption
  <1>4. Cardinality(Pages(S) \cup PagesOf(b)) =
           Cardinality(Pages(S)) + Cardinality(PagesOf(b))
              - Cardinality(Pages(S) \cap PagesOf(b))
    BY PagesFinite, PagesOfFinite, FS_Union
  <1>5. Cardinality(Pages(S)) \in Nat /\ Cardinality(PagesOf(b)) = Size[b]
    BY PagesFinite, PagesOfFinite
  <1>6. Cardinality(Pages(S) \cap PagesOf(b)) = 0
    BY <1>2, <1>3
  <1>7. PICK n \in Nat, m \in Nat :
           n = Cardinality(Pages(S)) /\ m = Size[b]
    BY <1>3, <1>5
  <1>8. Cardinality(Pages(S) \cup PagesOf(b)) = n + m - 0
    BY <1>4, <1>5, <1>6, <1>7, Zenon
  <1>9. n + m - 0 = n + m
    OBVIOUS
  <1>10. Cardinality(Pages(S) \cup PagesOf(b)) = n + m
    BY <1>8, <1>9, Zenon
  <1>. QED
    BY <1>1, <1>7, <1>10, Zenon

LEMMA FootprintFacts ==
    ASSUME NEW S \in SUBSET Sibuf, NEW b \in Sibuf
    PROVE  /\ Footprint(S) \in Nat /\ Footprint({}) = 0
           /\ Size[b] \in Nat
           /\ Footprint(S \cup {b}) <= Footprint(S) + Size[b]
           /\ b \in S => Footprint(S \ {b}) = Footprint(S) - Size[b]
  <1>1. \A T : Footprint(T) = Cardinality(Pages(T))
    BY DEF Footprint, Pages
  <1>2. Footprint(S) \in Nat /\ Size[b] \in Nat
    BY <1>1, PagesFinite, CacheAssumption DEF CacheAssumption
  <1>3. Footprint({}) = 0
    <2>1. Pages({}) = {}
      BY DEF Pages
    <2>. QED
      BY <1>1, <2>1, FS_EmptySet
  <1>4. Footprint(S \cup {b}) <= Footprint(S) + Size[b]
    <2>1. CASE b \in S
      <3>1. S \cup {b} = S
        BY <2>1
      <3>2. Footprint(S) <= Footprint(S) + Size[b]
        BY <1>2
      <3>. QED
        BY <3>1, <3>2
    <2>2. CASE b \notin S
      <3>1. Footprint(S \cup {b}) = Footprint(S) + Size[b]
        BY <1>1, <2>2, PagesAdd
      <3>2. Footprint(S) + Size[b] <= Footprint(S) + Size[b]
        BY <1>2
      <3>. QED
        BY <3>1, <3>2
    <2>. QED
      BY <2>1, <2>2
  <1>5. ASSUME b \in S PROVE Footprint(S \ {b}) = Footprint(S) - Size[b]
    <2>1. PICK T : T = S \ {b}
      OBVIOUS
    <2>2. T \in SUBSET Sibuf /\ b \in Sibuf \ T /\ T \cup {b} = S
      BY <1>5, <2>1
    <2>3. Footprint(S) = Footprint(T) + Size[b]
      BY <1>1, <2>2, PagesAdd
    <2>4. Footprint(T) \in Nat
      BY <1>1, <2>2, PagesFinite
    <2>. QED
      BY <1>2, <2>1, <2>3, <2>4
  <1>. QED
    BY <1>2, <1>3, <1>4, <1>5

(* A step that leaves the pages and the account as they are, and the three *)
(* that do not.                                                            *)
LEMMA AccountStep ==
    ASSUME Typed, [Next]_vars
    PROVE  \/ UNCHANGED <<mapped, usage>>
           \/ \E b \in Sibuf :
                 /\ HasRoom(b)
                 /\ mapped' = mapped \cup {b} /\ usage' = usage + Size[b]
           \/ \E b \in needUnload :
                 mapped' = mapped \ {b} /\ usage' = usage - Size[b]
           \/ mapped' = mapped \ needUnload /\ usage' = 0
  <1>. DEFINE Goal ==
           \/ UNCHANGED <<mapped, usage>>
           \/ \E b \in Sibuf :
                 /\ HasRoom(b)
                 /\ mapped' = mapped \cup {b} /\ usage' = usage + Size[b]
           \/ \E b \in needUnload :
                 mapped' = mapped \ {b} /\ usage' = usage - Size[b]
           \/ mapped' = mapped \ needUnload /\ usage' = 0
  <1>1. ASSUME NEW t \in Thread, Map(t)
        PROVE  Goal
    <2>1. target[t] \in Sibuf
      BY <1>1 DEF Map, Typed, TargetInv
    <2>. QED
      BY <1>1, <2>1 DEF Map
  <1>2. ASSUME NEW t \in Thread, GcScan(t)
        PROVE  Goal
    BY <1>2 DEF GcScan, Collectable, Unload, memVars
  <1>3. ASSUME NEW t \in Thread,
               \/ LoadError(t) \/ LoadHit(t) \/ LoadMiss(t) \/ NoRoom(t)
               \/ GcStart(t) \/ GcEnd(t) \/ Again(t) \/ HandlerDrop(t)
               \/ Retry(t) \/ StatusStore(t) \/ Drop(t)
        PROVE  Goal
    <2>1. UNCHANGED <<mapped, usage>>
      BY <1>3 DEF LoadError, LoadHit, LoadMiss, NoRoom, GcStart, GcEnd, Again,
                  HandlerDrop, Retry, StatusStore, Drop, memVars
    <2>. QED
      BY <2>1
  <1>4. ASSUME NEW t \in Thread, NEW b \in Sibuf,
               Hold(t, b) \/ Touch(t, b) \/ StatusLoad(t, b)
        PROVE  Goal
    <2>1. UNCHANGED <<mapped, usage>>
      BY <1>4 DEF Hold, Touch, Begin, StatusLoad, memVars
    <2>. QED
      BY <2>1
  <1>5. CASE UnloadAll
    BY <1>5 DEF UnloadAll
  <1>6. CASE UNCHANGED vars
    BY <1>6 DEF vars, memVars
  <1>. QED
    BY <1>1, <1>2, <1>3, <1>4, <1>5, <1>6 DEF Next, Inside

LEMMA WithinLimitStep ==
    ASSUME Typed, LoadedInv, WithinLimit, [Next]_vars
    PROVE  WithinLimit'
  <1>1. /\ mapped \subseteq Sibuf /\ needUnload = mapped /\ usage \in Int
        /\ MaxLoaded \in Nat /\ usage <= MaxLoaded /\ Footprint(mapped) <= usage
    BY CacheAssumption
       DEF CacheAssumption, Typed, TypeOK, LoadedInv, WithinLimit
  <1>2. SUFFICES Footprint(mapped') <= usage' /\ usage' <= MaxLoaded
    BY DEF WithinLimit, Footprint, PagesOf
  <1>3. CASE UNCHANGED <<mapped, usage>>
    BY <1>1, <1>3
  <1>4. ASSUME NEW b \in Sibuf, HasRoom(b),
               mapped' = mapped \cup {b}, usage' = usage + Size[b]
        PROVE  Footprint(mapped') <= usage' /\ usage' <= MaxLoaded
    <2>1. /\ Footprint(mapped \cup {b}) <= Footprint(mapped) + Size[b]
          /\ Footprint(mapped) \in Nat /\ Size[b] \in Nat
          /\ Footprint(mapped \cup {b}) \in Nat
      <3>1. mapped \cup {b} \in SUBSET Sibuf
        BY <1>1
      <3>. QED
        BY <1>1, <3>1, FootprintFacts
    <2>. QED
      BY <1>1, <1>4, <2>1 DEF HasRoom
  <1>5. ASSUME NEW b \in needUnload,
               mapped' = mapped \ {b}, usage' = usage - Size[b]
        PROVE  Footprint(mapped') <= usage' /\ usage' <= MaxLoaded
    <2>1. /\ Footprint(mapped \ {b}) = Footprint(mapped) - Size[b]
          /\ Footprint(mapped) \in Nat /\ Size[b] \in Nat
      BY <1>1, FootprintFacts
    <2>. QED
      BY <1>1, <1>5, <2>1
  <1>6. CASE mapped' = mapped \ needUnload /\ usage' = 0
    <2>1. mapped' = {} /\ 1 \in Sibuf
      BY <1>1, <1>6, CacheAssumption DEF CacheAssumption, Sibuf
    <2>2. Footprint({}) = 0
      BY <2>1, FootprintFacts
    <2>. QED
      BY <1>1, <1>6, <2>1, <2>2
  <1>. QED
    BY <1>3, <1>4, <1>5, <1>6, AccountStep

(* The pages that are mapped are accounted for and never exceed            *)
(* sibuf_loaded_max, although gc_lock is given up between the test and the *)
(* mapping and an image may be counted twice; the account falls behind     *)
(* only by the race on the status byte.                                    *)
THEOREM CacheWithinLimit == ~ SplitStore /\ Spec => []WithinLimit
  <1>1. Init => WithinLimit
    <2>1. 1 \in Sibuf /\ MaxLoaded \in Nat
      BY CacheAssumption DEF CacheAssumption, Sibuf
    <2>2. Footprint({}) = 0
      BY <2>1, FootprintFacts
    <2>. QED
      BY <2>1, <2>2 DEF Init, WithinLimit
  <1>2. CacheInv /\ WithinLimit /\ [Next]_vars => WithinLimit'
    BY WithinLimitStep DEF CacheInv
  <1>. QED
    BY <1>1, <1>2, CacheInvariant, PTL DEF Spec

(***************************************************************************)
(* The cache implements SibufLease                                         *)
(***************************************************************************)

heldOf == [t \in Thread |-> HeldBy(t)]

(* The abstract set of a thread is what its outermost frames hold.         *)
LEMMA HeldByFirsts ==
    ASSUME Typed, UserInv, NEW t \in Thread
    PROVE  HeldBy(t) = Firsts(frames[t])
  <1>1. HeldBy(t) = Held(frames[t])
    BY DEF HeldBy, Held
  <1>2. frames[t] \in Seq(Frame) /\ WellNested(frames[t])
    BY DEF Typed, TypeOK, UserInv, UserOK
  <1>. QED
    BY <1>1, <1>2, HeldFirst

(* The stacks stay well nested, so the same holds of the next state.       *)
LEMMA HeldByFirstsNext ==
    ASSUME Typed', UserInv', NEW t \in Thread
    PROVE  HeldBy(t)' = Firsts(frames'[t])
  <1>1. HeldBy(t)' = Held(frames'[t])
    BY DEF HeldBy, Held
  <1>2. frames'[t] \in Seq(Frame) /\ WellNested(frames'[t])
    BY DEF Typed, TypeOK, UserInv, UserOK
  <1>. QED
    BY <1>1, <1>2, HeldFirst

(* A step that leaves the frames alone leaves the abstract holds alone.    *)
LEMMA SameHeld ==
    ASSUME UNCHANGED frames
    PROVE  heldOf' = heldOf
  BY DEF heldOf, HeldBy

(* The effect of a returning hold on the abstract holds of its thread.     *)
LEMMA ReturnHeld ==
    ASSUME Typed, UserInv, Typed', UserInv', NEW t \in Thread,
           NEW how \in Results, pc[t] \notin {"run", "ehdrop"},
           Return(t, how), ~ inFault[t],
           how = "first" => t \notin users[target[t]],
           how = "held" => t \in users[target[t]]
    PROVE  heldOf' = [heldOf EXCEPT ![t] =
              IF how = "error" THEN @ ELSE @ \cup {target[t]}]
  <1>. DEFINE b == target[t]
              f == [buf |-> b, how |-> how]
  <1>1. /\ b \in Sibuf /\ f \in Frame /\ frames[t] \in Seq(Frame)
        /\ WellNested(frames[t])
    BY DEF Typed, TypeOK, TargetInv, Frame, UserInv, UserOK
  <1>2. /\ how = "first" => b \notin Firsts(frames[t])
        /\ how = "held" => b \in Firsts(frames[t])
    BY <1>1 DEF UserInv, UserOK
  <1>3. frames' = [frames EXCEPT ![t] = Append(@, f)]
    BY DEF Return
  <1>4. frames'[t] = Append(frames[t], f)
    BY <1>3 DEF Typed, TypeOK
  <1>5. Firsts(frames'[t]) = IF how = "first" THEN Firsts(frames[t]) \cup {b}
                                              ELSE Firsts(frames[t])
    <2>1. f.buf = b /\ f.how = how
      OBVIOUS
    <2>. HIDE DEF f, b
    <2>2. Firsts(Append(frames[t], f)) =
             IF how = "first" THEN Firsts(frames[t]) \cup {b}
                              ELSE Firsts(frames[t])
      BY <1>1, <1>2, <2>1, PushNested
    <2>. QED
      BY <1>4, <2>2
  <1>6. HeldBy(t)' = IF how = "error" THEN HeldBy(t) ELSE HeldBy(t) \cup {b}
    BY <1>2, <1>5, HeldByFirsts, HeldByFirstsNext DEF Results
  <1>7. \A u \in Thread \ {t} : HeldBy(u)' = HeldBy(u)
    BY <1>3 DEF HeldBy, Typed, TypeOK
  <1>. QED
    BY <1>6, <1>7 DEF heldOf

(* A hold that returns with the image mapped acquires the lease, or loads  *)
(* the image for an instruction that faulted.                              *)
LEMMA AddUserLease ==
    ASSUME Typed, UserInv, Typed', UserInv', NEW t \in Thread,
           pc[t] \notin {"run", "ehdrop"},
           AddUser(t, target[t]), mapped' = mapped \cup {target[t]}
    PROVE  Lease!Next
  <1>1. target[t] \in Sibuf
    BY DEF Typed, TargetInv
  <1>. DEFINE how == IF t \in users[target[t]] THEN "held" ELSE "first"
  <1>2. Return(t, how) /\ how \in Results
    BY DEF AddUser, Results
  <1>3. CASE inFault[t]
    <2>1. heldOf' = heldOf
      BY <1>2, <1>3, SameHeld DEF Return
    <2>2. Lease!Prefetch(target[t])
      BY <2>1 DEF Lease!Prefetch, heldOf
    <2>. QED
      BY <1>1, <2>2 DEF Lease!Next
  <1>4. CASE ~ inFault[t]
    <2>1. heldOf' = [heldOf EXCEPT ![t] = @ \cup {target[t]}]
      <3>1. CASE t \in users[target[t]]
        BY <1>2, <1>4, <3>1, ReturnHeld
      <3>2. CASE t \notin users[target[t]]
        BY <1>2, <1>4, <3>2, ReturnHeld
      <3>. QED
        BY <3>1, <3>2
    <2>2. Lease!Acquire(t, target[t])
      BY <2>1 DEF Lease!Acquire, heldOf
    <2>. QED
      BY <1>1, <2>2 DEF Lease!Next
  <1>. QED
    BY <1>3, <1>4

LEMMA DropLease ==
    ASSUME Typed, UserInv, Typed', UserInv', NEW t \in Thread, Drop(t)
    PROVE  Lease!Next \/ (mapped' = mapped /\ heldOf' = heldOf)
  <1>. DEFINE s == frames[t]
              top == s[Len(s)]
  <1>1. /\ s # << >> /\ s \in Seq(Frame) /\ WellNested(s)
        /\ mapped' = mapped
        /\ frames' = [frames EXCEPT ![t] = SubSeq(s, 1, Len(s) - 1)]
    BY DEF Drop, Typed, TypeOK, UserInv, UserOK, memVars
  <1>2. top \in Frame /\ top.buf \in Sibuf
    BY <1>1, Pop DEF Frame
  <1>3. frames'[t] = SubSeq(s, 1, Len(s) - 1)
    BY <1>1 DEF Typed, TypeOK
  <1>4. /\ Firsts(frames'[t]) = IF top.how = "first"
                                THEN Firsts(s) \ {top.buf} ELSE Firsts(s)
        /\ top.how = "first" => top.buf \in Firsts(s)
    <2>1. s # << >> /\ s \in Seq(Frame) /\ WellNested(s)
      BY <1>1
    <2>. HIDE DEF s
    <2>2. /\ Firsts(SubSeq(s, 1, Len(s) - 1)) =
                IF top.how = "first" THEN Firsts(s) \ {top.buf} ELSE Firsts(s)
          /\ top.how = "first" => top.buf \in Firsts(s)
      BY <2>1, PopNested
    <2>. QED
      BY <1>3, <2>2
  <1>5. \A u \in Thread \ {t} : HeldBy(u)' = HeldBy(u)
    BY <1>1 DEF HeldBy, Typed, TypeOK
  <1>6. /\ HeldBy(t) = Firsts(s)
        /\ HeldBy(t)' = Firsts(frames'[t])
    BY HeldByFirsts, HeldByFirstsNext
  <1>. HIDE DEF top
  <1>7. CASE top.how = "first"
    <2>1. /\ top.buf \in heldOf[t]
          /\ heldOf' = [heldOf EXCEPT ![t] = @ \ {top.buf}]
      BY <1>4, <1>5, <1>6, <1>7 DEF heldOf
    <2>2. Lease!Release(t, top.buf)
      BY <1>1, <2>1 DEF Lease!Release, heldOf
    <2>. QED
      BY <1>2, <2>2 DEF Lease!Next
  <1>8. CASE top.how # "first"
    BY <1>1, <1>4, <1>5, <1>6, <1>8 DEF heldOf
  <1>. QED
    BY <1>7, <1>8

LEMMA UnmapLease ==
    ASSUME CacheInv, UNCHANGED frames, NEW b \in Sibuf, users[b] = {},
           mapped' = mapped \ {b}
    PROVE  Lease!Next
  <1>1. \A t \in Thread : b \notin HeldBy(t)
    BY HeldByFirsts DEF CacheInv, UserInv, UserOK
  <1>2. Lease!Holders(b) = {}
    BY <1>1 DEF Lease!Holders
  <1>3. Lease!Collect(b)
    BY <1>2, SameHeld DEF Lease!Collect, heldOf
  <1>. QED
    BY <1>3 DEF Lease!Next

LEMMA UnloadAllLease ==
    ASSUME CacheInv, UnloadAll
    PROVE  Lease!Next
  <1>1. mapped' = {} /\ UNCHANGED frames
    BY DEF UnloadAll, CacheInv, LoadedInv
  <1>2. \A t \in Thread : HeldBy(t) = {}
    BY DEF UnloadAll, Quiet, HeldBy
  <1>3. Lease!CollectAll
    BY <1>1, <1>2, SameHeld DEF Lease!CollectAll, Lease!Holders, heldOf
  <1>. QED
    BY <1>3 DEF Lease!Next

LEMMA LeaseStep ==
    ASSUME ~ SplitStore, CacheInv, CacheInv', [Next]_vars
    PROVE  Lease!Next \/ (mapped' = mapped /\ heldOf' = heldOf)
  <1>. USE DEF CacheInv
  <1>1. ASSUME NEW t \in Thread, LoadError(t)
        PROVE  mapped' = mapped /\ heldOf' = heldOf
    <2>1. mapped' = mapped /\ Return(t, "error") /\ pc[t] = "enter"
      BY <1>1 DEF LoadError, memVars
    <2>2. CASE inFault[t]
      BY <2>1, <2>2, SameHeld DEF Return
    <2>3. CASE ~ inFault[t]
      <3>1. heldOf' = [heldOf EXCEPT ![t] = @]
        BY <2>1, <2>3, ReturnHeld DEF Results
      <3>. QED
        BY <2>1, <3>1 DEF heldOf
    <2>. QED
      BY <2>1, <2>2, <2>3
  <1>2. ASSUME NEW t \in Thread, LoadHit(t)
        PROVE  Lease!Next
    BY <1>2, AddUserLease DEF LoadHit, LoadedInv, memVars
  <1>3. ASSUME NEW t \in Thread, Map(t)
        PROVE  Lease!Next
    BY <1>3, AddUserLease DEF Map
  <1>4. ASSUME NEW t \in Thread,
               LoadMiss(t) \/ NoRoom(t) \/ GcStart(t) \/ GcEnd(t) \/ Again(t)
        PROVE  mapped' = mapped /\ heldOf' = heldOf
    BY <1>4, SameHeld DEF LoadMiss, NoRoom, GcStart, GcEnd, Again, memVars
  <1>5. ASSUME NEW t \in Thread, GcScan(t)
        PROVE  Lease!Next \/ (mapped' = mapped /\ heldOf' = heldOf)
    <2>1. CASE Collectable(scan[t])
      <3>1. scan[t] \in Sibuf
        BY <1>5 DEF GcScan, Typed, TypeOK, Sibuf
      <3>. QED
        BY <1>5, <2>1, <3>1, UnmapLease DEF GcScan, Unload, Collectable
    <2>2. CASE ~ Collectable(scan[t])
      BY <1>5, <2>2, SameHeld DEF GcScan, memVars
    <2>. QED
      BY <2>1, <2>2
  <1>6. ASSUME NEW t \in Thread, HandlerDrop(t) \/ Retry(t)
        PROVE  mapped' = mapped /\ heldOf' = heldOf
    BY <1>6, SameHeld DEF HandlerDrop, Retry, memVars
  <1>7. ASSUME NEW t \in Thread, StatusStore(t)
        PROVE  mapped' = mapped /\ heldOf' = heldOf
    BY <1>7, SameHeld DEF StatusStore
  <1>8. ASSUME NEW t \in Thread, NEW b \in Sibuf,
               Hold(t, b) \/ Touch(t, b) \/ StatusLoad(t, b)
        PROVE  mapped' = mapped /\ heldOf' = heldOf
    BY <1>8, SameHeld DEF Hold, Touch, StatusLoad, Begin, memVars
  <1>9. CASE UNCHANGED vars
    BY <1>9, SameHeld DEF vars, memVars
  <1>. QED
    BY <1>1, <1>2, <1>3, <1>4, <1>5, <1>6, <1>7, <1>8, <1>9, DropLease,
       UnloadAllLease DEF Next, Inside

(* The cache keeps its promise: nested holds count once, end with the      *)
(* outermost drop, and no collection takes an image from a holder.         *)
THEOREM CacheImplementsLease == ~ SplitStore /\ Spec => ImplementsLease
  <1>1. Init => Lease!Init
    BY DEF Init, Lease!Init, HeldBy
  <1>2. ~ SplitStore /\ CacheInv /\ CacheInv' /\ [Next]_vars
           => [Lease!Next]_(Lease!vars)
    BY LeaseStep DEF Lease!vars, heldOf
  <1>3. CASE SplitStore
    BY <1>3
  <1>4. CASE ~ SplitStore
    <2>1. CacheInv /\ CacheInv' /\ [Next]_vars => [Lease!Next]_(Lease!vars)
      BY <1>2, <1>4
    <2>. QED
      BY <1>1, <1>4, <2>1, CacheInvariant, PTL
         DEF Spec, ImplementsLease, Lease!Spec
  <1>. QED
    BY <1>3, <1>4

=============================================================================
