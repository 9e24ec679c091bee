--------------------------- MODULE ParsePoolProofs ---------------------------
(* Theorems about ParsePool: for every number of images, slots, steps,     *)
(* commands and SIGQUITs.                                                  *)
EXTENDS ParsePool, TLAPS

(* Inside do_phase, between its two writes of in_use.                      *)
Working == {"check", "parse", "mark", "release", "fail"}

(* No thread in the slot, none to join, and nothing that says otherwise.   *)
Clear(s) == thread[s] = "none" /\ slot[s].in_use = 0 /\ ~ slot[s].tid

StepInv == main # "shell" => step \in Step

(* What a slot says of its thread.                                         *)
SlotInv ==
    \A s \in Slot :
        /\ thread[s] # "none" => slot[s].tid
        /\ thread[s] = "start" => slot[s].in_use = 1
        /\ thread[s] \in Working <=> slot[s].in_use = 2

(* The slot that the walk has chosen and filled.                           *)
Filled ==
    /\ slot[cur].in_use = 1
    /\ slot[cur].buf = image
    /\ slot[cur].step = step
    /\ thread[cur] \in {"none", "exit"}

WalkInv ==
    /\ main \in {"claim", "join", "joined", "create"} => image \in Image
    /\ main = "claim" => slot[cur].in_use = 0
    /\ main \in {"join", "joined", "create"} => Filled
    /\ main \in {"joined", "create"} => thread[cur] = "none"

(* wait_for_all_threads leaves clear slots behind.                         *)
WaitInv ==
    /\ main \in {"wait", "wjoined"} => \A s \in Slot : s < wait => Clear(s)
    /\ main = "wjoined" => wait \in Slot /\ thread[wait] = "none"
    /\ main \in {"unload", "unloading", "next", "begin", "shell"} =>
          \A s \in Slot : Clear(s)

(* A worker has an image the walk has passed, and has it alone.            *)
BufInv ==
    /\ \A s \in Busy : slot[s].buf \in 1..(image - 1) /\ slot[s].step \in Step
    /\ \A s, t \in Busy : slot[s].buf = slot[t].buf => s = t

PoolInv ==
    /\ TypeOK /\ StepInv /\ SlotInv /\ WalkInv /\ WaitInv /\ BufInv

(* TypeOK in three parts, which the provers take one by one.               *)
FlagTypes == {all, err, armed, locked} \subseteq BOOLEAN

PlaceTypes ==
    /\ main \in MainLabels
    /\ step \in 0..LastStep
    /\ image \in 1..(NImage + 1)
    /\ cur \in Slot
    /\ wait \in 1..(NSlot + 1)
    /\ requests \in 0..MaxRequests
    /\ quits \in 0..MaxQuit

DataTypes ==
    /\ slot \in [Slot -> SlotRecord]
    /\ thread \in [Slot -> ThreadLabels]
    /\ status \in [Image -> 0..LastStep]
    /\ parsed \in [Step -> Nat]
    /\ ran \in [Image -> SUBSET Step]

-----------------------------------------------------------------------------
LEMMA TypeParts ==
    /\ TypeOK <=> FlagTypes /\ PlaceTypes /\ DataTypes
    /\ TypeOK' <=> FlagTypes' /\ PlaceTypes' /\ DataTypes'
  BY DEF TypeOK, FlagTypes, PlaceTypes, DataTypes

LEMMA PoolInit == Init => PoolInv
<1> SUFFICES ASSUME Init PROVE PoolInv
  OBVIOUS
<1> USE PoolAssumption DEF PoolAssumption
<1>1. EmptySlot \in SlotRecord
  BY DEF EmptySlot, SlotRecord, NoImage
<1>2. TypeOK
  <2>1. DataTypes
    BY <1>1 DEF Init, DataTypes, ThreadLabels
  <2>2. PlaceTypes
    BY DEF Init, PlaceTypes, MainLabels, Slot
  <2>3. FlagTypes
    BY DEF Init, FlagTypes
  <2> QED
    BY <2>1, <2>2, <2>3, TypeParts
<1>3. \A s \in Slot : thread[s] = "none" /\ slot[s] = EmptySlot
  BY DEF Init
<1>4. Busy = {}
  BY <1>3 DEF Busy
<1>5. StepInv /\ WalkInv
  BY DEF Init, StepInv, WalkInv
<1>6. SlotInv
  BY <1>3 DEF SlotInv, EmptySlot, Working
<1>7. WaitInv
  BY <1>3 DEF Init, WaitInv, Clear, EmptySlot
<1>8. BufInv
  BY <1>4 DEF BufInv
<1> QED
  BY <1>2, <1>5, <1>6, <1>7, <1>8 DEF PoolInv

(* The main thread's steps that leave the slots, the threads and the image *)
(* alone: what is said of the slots stays.                                 *)
LEMMA SlotsStay ==
    ASSUME PoolInv, UNCHANGED <<slot, thread, image>>
    PROVE  SlotInv' /\ BufInv' /\ Busy' = Busy
<1>1. Busy' = Busy
  BY DEF Busy
<1>2. SlotInv'
  BY DEF PoolInv, SlotInv
<1>3. BufInv'
  BY <1>1 DEF PoolInv, BufInv
<1> QED
  BY <1>1, <1>2, <1>3

LEMMA PoolCommand ==
    ASSUME PoolInv, NEW r \in Request, Command(r)
    PROVE  PoolInv'
<1> USE PoolAssumption DEF PoolAssumption
<1>1. TypeOK'
  <2>1. DataTypes'
    BY TypeParts DEF PoolInv, DataTypes, Command, poolVars, dataVars
  <2>2. PlaceTypes'
    BY TypeParts DEF PoolInv, PlaceTypes, MainLabels, Command, walkVars, Step
  <2>3. FlagTypes'
    BY TypeParts DEF PoolInv, FlagTypes, Command
  <2> QED
    BY <2>1, <2>2, <2>3, TypeParts
<1>2. StepInv' /\ WalkInv' /\ WaitInv'
  BY DEF PoolInv, StepInv, WalkInv, WaitInv, Clear, Command, walkVars,
     poolVars, Step
<1>3. SlotInv' /\ BufInv'
  BY SlotsStay DEF Command, walkVars, poolVars
<1> QED
  BY <1>1, <1>2, <1>3 DEF PoolInv

LEMMA PoolOneSibuf ==
    ASSUME PoolInv, NEW b \in Image, NEW p \in Request \ {0},
           NEW force \in BOOLEAN, OneSibuf(b, p, force)
    PROVE  PoolInv'
<1> USE PoolAssumption DEF PoolAssumption
<1>1. p \in Step
  BY DEF Step
<1>2. ran' \in [Image -> SUBSET Step]
  BY <1>1 DEF PoolInv, TypeOK, OneSibuf
<1>3. TypeOK'
  <2>1. DataTypes'
    BY <1>2, TypeParts DEF PoolInv, DataTypes, OneSibuf, poolVars
  <2>2. PlaceTypes'
    BY TypeParts DEF PoolInv, PlaceTypes, MainLabels, OneSibuf, mainVars, cmdVars, walkVars
  <2>3. FlagTypes'
    BY TypeParts DEF PoolInv, FlagTypes, OneSibuf, mainVars, cmdVars
  <2> QED
    BY <2>1, <2>2, <2>3, TypeParts
<1>4. StepInv' /\ WalkInv' /\ WaitInv'
  BY DEF PoolInv, StepInv, WalkInv, Filled, WaitInv, Clear, OneSibuf,
     mainVars, cmdVars, walkVars, poolVars
<1>5. SlotInv' /\ BufInv'
  BY SlotsStay DEF OneSibuf, mainVars, walkVars, poolVars
<1> QED
  BY <1>3, <1>4, <1>5 DEF PoolInv

LEMMA PoolBegin ==
    ASSUME PoolInv, Begin
    PROVE  PoolInv'
<1> USE PoolAssumption DEF PoolAssumption
<1>1. EmptySlot \in SlotRecord
  BY DEF EmptySlot, SlotRecord, NoImage
<1>2. TypeOK'
  <2>1. DataTypes'
    BY <1>1, TypeParts DEF PoolInv, DataTypes, Begin, dataVars
  <2>2. PlaceTypes'
    BY TypeParts DEF PoolInv, PlaceTypes, MainLabels, Begin, countVars
  <2>3. FlagTypes'
    BY TypeParts DEF PoolInv, FlagTypes, Begin
  <2> QED
    BY <2>1, <2>2, <2>3, TypeParts
<1>3. \A s \in Slot : thread'[s] = "none" /\ slot'[s] = EmptySlot
  BY DEF PoolInv, WaitInv, Clear, Begin
<1>4. Busy' = {}
  BY <1>3 DEF Busy
<1>5. StepInv' /\ WalkInv' /\ WaitInv'
  BY DEF PoolInv, StepInv, WalkInv, WaitInv, Begin
<1>6. SlotInv'
  BY <1>3 DEF SlotInv, EmptySlot, Working
<1>7. BufInv'
  BY <1>4 DEF BufInv
<1> QED
  BY <1>2, <1>5, <1>6, <1>7 DEF PoolInv

LEMMA PoolWalkDone ==
    ASSUME PoolInv, WalkDone
    PROVE  PoolInv'
<1> USE PoolAssumption DEF PoolAssumption
<1>1. TypeOK'
  <2>1. DataTypes'
    BY TypeParts DEF PoolInv, DataTypes, WalkDone, poolVars, dataVars
  <2>2. PlaceTypes'
    BY TypeParts DEF PoolInv, PlaceTypes, MainLabels, WalkDone, ToWait, cmdVars, countVars
  <2>3. FlagTypes'
    BY TypeParts DEF PoolInv, FlagTypes, WalkDone, cmdVars
  <2> QED
    BY <2>1, <2>2, <2>3, TypeParts
<1>2. StepInv' /\ WalkInv' /\ WaitInv'
  BY DEF PoolInv, StepInv, WalkInv, WaitInv, WalkDone, ToWait, cmdVars, Slot
<1>3. SlotInv' /\ BufInv'
  BY SlotsStay DEF WalkDone, poolVars
<1> QED
  BY <1>1, <1>2, <1>3 DEF PoolInv

LEMMA PoolPick ==
    ASSUME PoolInv, Pick
    PROVE  PoolInv'
<1> USE PoolAssumption DEF PoolAssumption
<1>1. PICK s \in Slot : /\ slot[s].in_use = 0
                        /\ cur' = s
                        /\ \/ err' = TRUE /\ ToWait
                           \/ main' = "claim" /\ UNCHANGED <<err, wait>>
  BY DEF Pick, Free
<1>2. TypeOK'
  <2>1. DataTypes'
    BY TypeParts DEF PoolInv, DataTypes, Pick, poolVars, dataVars
  <2>2. PlaceTypes'
    BY <1>1, TypeParts DEF PoolInv, PlaceTypes, MainLabels, Pick, ToWait, countVars
  <2>3. FlagTypes'
    BY <1>1, TypeParts DEF PoolInv, FlagTypes, Pick, ToWait
  <2> QED
    BY <2>1, <2>2, <2>3, TypeParts
<1>3. StepInv' /\ WalkInv' /\ WaitInv'
  BY <1>1 DEF PoolInv, StepInv, WalkInv, WaitInv, Pick, ToWait, poolVars, Slot
<1>4. SlotInv' /\ BufInv'
  BY SlotsStay DEF Pick, poolVars
<1> QED
  BY <1>2, <1>3, <1>4 DEF PoolInv

(* A busy slot says so.                                                    *)
LEMMA BusySaysSo ==
    ASSUME PoolInv, NEW s \in Busy
    PROVE  s \in Slot /\ slot[s].in_use # 0 /\ slot[s].tid
  BY DEF PoolInv, SlotInv, Busy, TypeOK, ThreadLabels, Working

LEMMA PoolClaim ==
    ASSUME PoolInv, Claim
    PROVE  PoolInv'
<1> USE PoolAssumption DEF PoolAssumption
<1>1. /\ cur \in Slot /\ image \in Image /\ step \in 0..LastStep
      /\ slot \in [Slot -> SlotRecord]
      /\ slot[cur].in_use = 0
  BY DEF PoolInv, TypeOK, WalkInv, Claim
<1>2. /\ slot' \in [Slot -> SlotRecord]
      /\ \A t \in Slot \ {cur} : slot'[t] = slot[t]
      /\ slot'[cur].buf = image /\ slot'[cur].step = step
      /\ slot'[cur].in_use = 1 /\ slot'[cur].tid = slot[cur].tid
  BY <1>1 DEF Claim, SlotRecord
<1>3. thread[cur] \in {"none", "exit"}
  BY <1>1 DEF PoolInv, SlotInv, TypeOK, ThreadLabels, Working
<1>4. slot[cur].tid \/ thread[cur] = "none"
  BY <1>1 DEF PoolInv, SlotInv
<1>5. Busy' = Busy /\ cur \notin Busy /\ Busy \subseteq Slot
  BY <1>3 DEF Busy, Claim
<1>6. TypeOK'
  <2>1. DataTypes'
    BY <1>2, TypeParts DEF PoolInv, DataTypes, Claim, dataVars
  <2>2. PlaceTypes'
    BY TypeParts DEF PoolInv, PlaceTypes, MainLabels, Claim, cmdVars,
       walkVars, countVars
  <2>3. FlagTypes'
    BY TypeParts DEF PoolInv, FlagTypes, Claim, cmdVars
  <2> QED
    BY <2>1, <2>2, <2>3, TypeParts
<1>7. StepInv' /\ WaitInv'
  BY DEF PoolInv, StepInv, WaitInv, Claim, cmdVars
<1>8. WalkInv'
  BY <1>1, <1>2, <1>3, <1>4 DEF WalkInv, Filled, Claim, cmdVars, walkVars
<1>9. SlotInv'
  BY <1>1, <1>2, <1>3 DEF PoolInv, SlotInv, Claim, Working
<1>10. BufInv'
  BY <1>2, <1>5 DEF PoolInv, BufInv, Claim, walkVars
<1> QED
  BY <1>6, <1>7, <1>8, <1>9, <1>10 DEF PoolInv

LEMMA PoolJoin ==
    ASSUME PoolInv, Join
    PROVE  PoolInv'
<1>1. cur \in Slot /\ thread \in [Slot -> ThreadLabels] /\ Filled
  BY DEF PoolInv, TypeOK, WalkInv, Join
<1>2. /\ thread' \in [Slot -> ThreadLabels]
      /\ \A t \in Slot \ {cur} : thread'[t] = thread[t]
      /\ thread[cur] = "exit" /\ thread'[cur] = "none"
  BY <1>1 DEF Join, ThreadLabels
<1>3. Busy' = Busy
  BY <1>2 DEF Busy
<1>4. TypeOK'
  <2>1. DataTypes'
    BY <1>2, TypeParts DEF PoolInv, DataTypes, Join, dataVars
  <2>2. PlaceTypes'
    BY TypeParts DEF PoolInv, PlaceTypes, MainLabels, Join, cmdVars,
       walkVars, countVars
  <2>3. FlagTypes'
    BY TypeParts DEF PoolInv, FlagTypes, Join, cmdVars
  <2> QED
    BY <2>1, <2>2, <2>3, TypeParts
<1>5. StepInv' /\ WaitInv'
  BY DEF PoolInv, StepInv, WaitInv, Join, cmdVars
<1>6. WalkInv'
  BY <1>1, <1>2 DEF PoolInv, WalkInv, Filled, Join, cmdVars, walkVars
<1>7. SlotInv'
  BY <1>2 DEF PoolInv, SlotInv, Join, Working
<1>8. BufInv'
  BY <1>3 DEF PoolInv, BufInv, Join, walkVars
<1> QED
  BY <1>4, <1>5, <1>6, <1>7, <1>8 DEF PoolInv

LEMMA PoolJoined ==
    ASSUME PoolInv, Joined
    PROVE  PoolInv'
<1>1. /\ cur \in Slot /\ Filled /\ thread[cur] = "none"
      /\ slot \in [Slot -> SlotRecord]
  BY DEF PoolInv, TypeOK, WalkInv, Joined
<1>2. /\ slot' \in [Slot -> SlotRecord]
      /\ \A t \in Slot \ {cur} : slot'[t] = slot[t]
      /\ slot'[cur].buf = image /\ slot'[cur].step = step
      /\ slot'[cur].in_use = 1
  BY <1>1 DEF Joined, SlotRecord, Filled
<1>3. Busy' = Busy /\ cur \notin Busy /\ Busy \subseteq Slot
  BY <1>1 DEF Busy, Joined
<1>4. TypeOK'
  <2>1. DataTypes'
    BY <1>2, TypeParts DEF PoolInv, DataTypes, Joined, dataVars
  <2>2. PlaceTypes'
    BY TypeParts DEF PoolInv, PlaceTypes, MainLabels, Joined, cmdVars,
       walkVars, countVars
  <2>3. FlagTypes'
    BY TypeParts DEF PoolInv, FlagTypes, Joined, cmdVars
  <2> QED
    BY <2>1, <2>2, <2>3, TypeParts
<1>5. StepInv' /\ WaitInv'
  BY DEF PoolInv, StepInv, WaitInv, Joined, cmdVars
<1>6. WalkInv'
  BY <1>1, <1>2 DEF PoolInv, WalkInv, Filled, Joined, cmdVars, walkVars
<1>7. SlotInv'
  BY <1>1, <1>2 DEF PoolInv, SlotInv, Joined, Working
<1>8. BufInv'
  BY <1>2, <1>3 DEF PoolInv, BufInv, Joined, walkVars
<1> QED
  BY <1>4, <1>5, <1>6, <1>7, <1>8 DEF PoolInv

LEMMA PoolCreate ==
    ASSUME PoolInv, Create
    PROVE  PoolInv'
<1> USE PoolAssumption DEF PoolAssumption
<1>1. /\ cur \in Slot /\ image \in Image /\ Filled /\ thread[cur] = "none"
      /\ slot \in [Slot -> SlotRecord] /\ thread \in [Slot -> ThreadLabels]
      /\ step \in Step
  BY DEF PoolInv, TypeOK, WalkInv, StepInv, Create
<1>2. /\ slot' \in [Slot -> SlotRecord]
      /\ \A t \in Slot \ {cur} : slot'[t] = slot[t]
      /\ slot'[cur].buf = image /\ slot'[cur].step = step
      /\ slot'[cur].in_use = 1 /\ slot'[cur].tid
  BY <1>1 DEF Create, SlotRecord, Filled
<1>3. /\ thread' \in [Slot -> ThreadLabels]
      /\ \A t \in Slot \ {cur} : thread'[t] = thread[t]
      /\ thread'[cur] = "start"
  BY <1>1 DEF Create, ThreadLabels
<1>4. Busy' = Busy \cup {cur} /\ cur \notin Busy /\ Busy \subseteq Slot
  BY <1>1, <1>3 DEF Busy
<1>5. TypeOK'
  <2>1. DataTypes'
    BY <1>2, <1>3, TypeParts DEF PoolInv, DataTypes, Create, dataVars
  <2>2. PlaceTypes'
    BY <1>1, TypeParts DEF PoolInv, PlaceTypes, MainLabels, Image, Create,
       cmdVars, countVars
  <2>3. FlagTypes'
    BY TypeParts DEF PoolInv, FlagTypes, Create, cmdVars
  <2> QED
    BY <2>1, <2>2, <2>3, TypeParts
<1>6. StepInv' /\ WaitInv' /\ WalkInv'
  BY DEF PoolInv, StepInv, WaitInv, WalkInv, Create, cmdVars
<1>7. SlotInv'
  BY <1>1, <1>2, <1>3 DEF PoolInv, SlotInv, Working
<1>8. BufInv'
  <2>1. image' = image + 1 /\ image \in Nat /\ image >= 1
    BY <1>1 DEF Create, Image
  <2>2. \A s \in Busy : /\ slot'[s] = slot[s]
                        /\ slot[s].buf \in 1..(image - 1)
                        /\ slot[s].step \in Step
    BY <1>2, <1>4 DEF PoolInv, BufInv
  <2>3. \A s \in Busy' : slot'[s].buf \in 1..(image' - 1)
                         /\ slot'[s].step \in Step
    BY <1>1, <1>2, <1>4, <2>1, <2>2
  <2>4. \A s, t \in Busy' : slot'[s].buf = slot'[t].buf => s = t
    BY <1>2, <1>4, <2>1, <2>2 DEF PoolInv, BufInv
  <2> QED
    BY <2>3, <2>4 DEF BufInv
<1> QED
  BY <1>5, <1>6, <1>7, <1>8 DEF PoolInv

LEMMA PoolWaitJoin ==
    ASSUME PoolInv, WaitJoin
    PROVE  PoolInv'
<1>1. /\ wait \in Slot /\ thread \in [Slot -> ThreadLabels]
      /\ thread[wait] \in {"exit", "none"}
  BY DEF PoolInv, TypeOK, WaitJoin
<1>2. /\ thread' \in [Slot -> ThreadLabels]
      /\ \A t \in Slot \ {wait} : thread'[t] = thread[t]
      /\ thread'[wait] = "none"
  BY <1>1 DEF WaitJoin, ThreadLabels
<1>3. Busy' = Busy
  BY <1>1, <1>2 DEF Busy
<1>4. main' \in {"wjoined", "dead"}
  BY DEF WaitJoin
<1>5. TypeOK'
  <2>1. DataTypes'
    BY <1>2, TypeParts DEF PoolInv, DataTypes, WaitJoin, dataVars
  <2>2. PlaceTypes'
    BY <1>4, TypeParts DEF PoolInv, PlaceTypes, MainLabels, WaitJoin, cmdVars,
       walkVars, countVars
  <2>3. FlagTypes'
    BY TypeParts DEF PoolInv, FlagTypes, WaitJoin, cmdVars
  <2> QED
    BY <2>1, <2>2, <2>3, TypeParts
<1>6. StepInv' /\ WalkInv'
  BY <1>4 DEF PoolInv, StepInv, WalkInv, WaitJoin, cmdVars
<1>7. WaitInv'
  <2>1. \A t \in Slot : t < wait => Clear(t) /\ t # wait
    BY <1>1 DEF PoolInv, WaitInv, WaitJoin, Slot
  <2>2. \A t \in Slot : t < wait => Clear(t)'
    BY <1>2, <2>1 DEF Clear, WaitJoin
  <2> QED
    BY <1>1, <1>2, <1>4, <2>2 DEF WaitInv, WaitJoin, walkVars
<1>8. SlotInv'
  BY <1>1, <1>2 DEF PoolInv, SlotInv, WaitJoin, Working
<1>9. BufInv'
  BY <1>3 DEF PoolInv, BufInv, WaitJoin, walkVars
<1> QED
  BY <1>5, <1>6, <1>7, <1>8, <1>9 DEF PoolInv

LEMMA PoolWaitJoined ==
    ASSUME PoolInv, WaitJoined
    PROVE  PoolInv'
<1>1. /\ wait \in Slot /\ thread[wait] = "none"
      /\ slot \in [Slot -> SlotRecord]
  BY DEF PoolInv, TypeOK, WaitInv, WaitJoined
<1>2. /\ slot' \in [Slot -> SlotRecord]
      /\ \A t \in Slot \ {wait} : slot'[t] = slot[t]
      /\ slot'[wait].in_use = slot[wait].in_use
  BY <1>1 DEF WaitJoined, SlotRecord
<1>3. Busy' = Busy /\ wait \notin Busy /\ Busy \subseteq Slot
  BY <1>1 DEF Busy, WaitJoined
<1>4. TypeOK'
  <2>1. DataTypes'
    BY <1>2, TypeParts DEF PoolInv, DataTypes, WaitJoined, dataVars
  <2>2. PlaceTypes'
    BY TypeParts DEF PoolInv, PlaceTypes, MainLabels, WaitJoined, cmdVars,
       walkVars, countVars
  <2>3. FlagTypes'
    BY TypeParts DEF PoolInv, FlagTypes, WaitJoined, cmdVars
  <2> QED
    BY <2>1, <2>2, <2>3, TypeParts
<1>5. StepInv' /\ WalkInv'
  BY DEF PoolInv, StepInv, WalkInv, WaitJoined, cmdVars
<1>6. WaitInv'
  <2>1. \A t \in Slot : t < wait => Clear(t) /\ t # wait
    BY <1>1 DEF PoolInv, WaitInv, WaitJoined, Slot
  <2>2. \A t \in Slot : t < wait => Clear(t)'
    BY <1>2, <2>1 DEF Clear, WaitJoined
  <2> QED
    BY <2>2 DEF WaitInv, WaitJoined, walkVars
<1>7. SlotInv'
  BY <1>1, <1>2 DEF PoolInv, SlotInv, WaitJoined, Working
<1>8. BufInv'
  BY <1>2, <1>3 DEF PoolInv, BufInv, WaitJoined, walkVars
<1> QED
  BY <1>4, <1>5, <1>6, <1>7, <1>8 DEF PoolInv

LEMMA PoolWaitSlot ==
    ASSUME PoolInv, WaitSlot
    PROVE  PoolInv'
<1> USE PoolAssumption DEF PoolAssumption
<1>1. /\ wait \in Slot /\ thread[wait] = "none" /\ ~ slot[wait].tid
      /\ slot \in [Slot -> SlotRecord]
  BY DEF PoolInv, TypeOK, SlotInv, WaitSlot
<1>2. /\ slot' \in [Slot -> SlotRecord]
      /\ \A t \in Slot \ {wait} : slot'[t] = slot[t]
      /\ slot'[wait].in_use = 0 /\ ~ slot'[wait].tid
  BY <1>1 DEF WaitSlot, SlotRecord
<1>3. Busy' = Busy /\ wait \notin Busy /\ Busy \subseteq Slot
  BY <1>1 DEF Busy, WaitSlot
<1>4. TypeOK'
  <2>1. DataTypes'
    BY <1>2, TypeParts DEF PoolInv, DataTypes, WaitSlot, dataVars
  <2>2. PlaceTypes'
    <3>1. wait' \in 1..(NSlot + 1) /\ main' = main
      BY <1>1 DEF WaitSlot, Slot
    <3> QED
      BY <3>1, TypeParts DEF PoolInv, PlaceTypes, WaitSlot, cmdVars, countVars
  <2>3. FlagTypes'
    BY TypeParts DEF PoolInv, FlagTypes, WaitSlot, cmdVars
  <2> QED
    BY <2>1, <2>2, <2>3, TypeParts
<1>5. StepInv' /\ WalkInv'
  BY DEF PoolInv, StepInv, WalkInv, WaitSlot, cmdVars
<1>6. WaitInv'
  <2>1. \A t \in Slot : t < wait + 1 => t = wait \/ (t < wait /\ t # wait)
    BY <1>1 DEF Slot
  <2>2. \A t \in Slot : t < wait => Clear(t)
    BY DEF PoolInv, WaitInv, WaitSlot
  <2>3. \A t \in Slot : t < wait /\ t # wait => Clear(t)'
    BY <1>2, <2>2 DEF Clear, WaitSlot
  <2>4. \A t \in Slot : t = wait => Clear(t)'
    BY <1>1, <1>2 DEF Clear, WaitSlot
  <2>5. \A t \in Slot : t < wait + 1 => Clear(t)'
    BY <2>1, <2>3, <2>4
  <2> QED
    BY <2>5 DEF WaitInv, WaitSlot
<1>7. SlotInv'
  BY <1>1, <1>2 DEF PoolInv, SlotInv, WaitSlot, Working
<1>8. BufInv'
  BY <1>2, <1>3 DEF PoolInv, BufInv, WaitSlot
<1> QED
  BY <1>4, <1>5, <1>6, <1>7, <1>8 DEF PoolInv

LEMMA PoolWaitDone ==
    ASSUME PoolInv, WaitDone
    PROVE  PoolInv'
<1> USE PoolAssumption DEF PoolAssumption
<1>1. TypeOK'
  <2>1. DataTypes'
    BY TypeParts DEF PoolInv, DataTypes, WaitDone, poolVars, dataVars
  <2>2. PlaceTypes'
    BY TypeParts DEF PoolInv, PlaceTypes, MainLabels, WaitDone, cmdVars,
       walkVars, countVars
  <2>3. FlagTypes'
    BY TypeParts DEF PoolInv, FlagTypes, WaitDone, cmdVars
  <2> QED
    BY <2>1, <2>2, <2>3, TypeParts
<1>2. StepInv' /\ WalkInv'
  BY DEF PoolInv, StepInv, WalkInv, WaitDone, cmdVars
<1>3. WaitInv'
  <2>1. \A s \in Slot : s < wait
    BY DEF WaitDone, Slot
  <2>2. \A s \in Slot : Clear(s)
    BY <2>1 DEF PoolInv, WaitInv, WaitDone
  <2> QED
    BY <2>2 DEF WaitInv, WaitDone, Clear, poolVars
<1>4. SlotInv' /\ BufInv'
  BY SlotsStay DEF WaitDone, poolVars, walkVars
<1> QED
  BY <1>1, <1>2, <1>3, <1>4 DEF PoolInv

LEMMA PoolUnload ==
    ASSUME PoolInv, UnloadBegin \/ UnloadEnd
    PROVE  PoolInv'
<1>1. /\ main \in {"unload", "unloading"} /\ main' \in {"unloading", "next"}
      /\ locked' \in BOOLEAN
      /\ UNCHANGED <<cmdVars, err, walkVars, poolVars, dataVars, countVars>>
  BY DEF UnloadBegin, UnloadEnd
<1>2. TypeOK'
  <2>1. DataTypes'
    BY <1>1, TypeParts DEF PoolInv, DataTypes, poolVars, dataVars
  <2>2. PlaceTypes'
    BY <1>1, TypeParts DEF PoolInv, PlaceTypes, MainLabels, cmdVars,
       walkVars, countVars
  <2>3. FlagTypes'
    BY <1>1, TypeParts DEF PoolInv, FlagTypes, cmdVars
  <2> QED
    BY <2>1, <2>2, <2>3, TypeParts
<1>3. StepInv' /\ WalkInv' /\ WaitInv'
  BY <1>1 DEF PoolInv, StepInv, WalkInv, WaitInv, Clear, cmdVars, poolVars
<1>4. SlotInv' /\ BufInv'
  BY <1>1, SlotsStay DEF poolVars, walkVars
<1> QED
  BY <1>2, <1>3, <1>4 DEF PoolInv

LEMMA PoolNextStep ==
    ASSUME PoolInv, NextStep
    PROVE  PoolInv'
<1>1. \/ main' = "shell" /\ step' = step
      \/ main' = "begin" /\ step < LastStep /\ step' = step + 1
  BY Zenon DEF NextStep
<1> USE PoolAssumption DEF PoolAssumption
<1>2. step \in Step
  BY DEF PoolInv, StepInv, NextStep
<1>3. step' \in Step
  BY <1>1, <1>2 DEF Step
<1>4. TypeOK'
  <2>1. DataTypes'
    BY TypeParts DEF PoolInv, DataTypes, NextStep, poolVars, dataVars
  <2>2. PlaceTypes'
    BY <1>1, <1>3, TypeParts DEF PoolInv, PlaceTypes, MainLabels, Step,
       NextStep, walkVars, countVars
  <2>3. FlagTypes'
    BY TypeParts DEF PoolInv, FlagTypes, NextStep
  <2> QED
    BY <2>1, <2>2, <2>3, TypeParts
<1>5. StepInv' /\ WalkInv' /\ WaitInv'
  BY <1>1, <1>3 DEF PoolInv, StepInv, WalkInv, WaitInv, Clear, NextStep,
     poolVars
<1>6. SlotInv' /\ BufInv'
  BY SlotsStay DEF NextStep, poolVars, walkVars
<1> QED
  BY <1>4, <1>5, <1>6 DEF PoolInv

(* SIGQUIT wherever the handler may run: nothing is clear yet, and nothing *)
(* is chosen any more.                                                     *)
LEMMA PoolQuit ==
    ASSUME PoolInv, Quit
    PROVE  PoolInv'
<1> USE PoolAssumption DEF PoolAssumption
<1>1. TypeOK'
  <2>1. DataTypes'
    BY TypeParts DEF PoolInv, DataTypes, Quit, poolVars, dataVars
  <2>2. PlaceTypes'
    BY TypeParts DEF PoolInv, PlaceTypes, MainLabels, Quit, ToWait, cmdVars
  <2>3. FlagTypes'
    BY TypeParts DEF PoolInv, FlagTypes, Quit, cmdVars
  <2> QED
    BY <2>1, <2>2, <2>3, TypeParts
<1>2. StepInv' /\ WalkInv' /\ WaitInv'
  BY DEF PoolInv, StepInv, WalkInv, WaitInv, Quit, ToWait, cmdVars, Slot
<1>3. SlotInv' /\ BufInv'
  BY SlotsStay DEF Quit, poolVars
<1> QED
  BY <1>1, <1>2, <1>3 DEF PoolInv

-----------------------------------------------------------------------------
(* The workers.  A worker writes its own slot and its own thread; the slot *)
(* the main thread has chosen has no worker.                               *)
LEMMA WorkerFrame ==
    ASSUME PoolInv, NEW s \in Busy,
           thread' \in [Slot -> ThreadLabels],
           slot' \in [Slot -> SlotRecord],
           \A t \in Slot \ {s} : thread'[t] = thread[t] /\ slot'[t] = slot[t],
           thread'[s] # "none",
           slot'[s].tid = slot[s].tid,
           slot'[s].in_use = IF thread'[s] = "exit" THEN 0 ELSE 2,
           thread'[s] \in Working \cup {"exit"},
           thread'[s] # "exit" => /\ slot'[s].buf = slot[s].buf
                                  /\ slot'[s].step = slot[s].step,
           UNCHANGED mainVars
    PROVE  StepInv' /\ SlotInv' /\ WalkInv' /\ WaitInv' /\ BufInv'
<1>1. /\ s \in Slot /\ slot[s].in_use # 0 /\ slot[s].tid
      /\ thread[s] \notin {"none", "exit"}
  BY BusySaysSo DEF Busy
<1>2. main \in {"claim", "join", "joined", "create"} => s # cur
  BY <1>1 DEF PoolInv, WalkInv, Filled
<1>3. main \in {"wait", "wjoined"} => ~ (s < wait)
  BY <1>1 DEF PoolInv, WaitInv, Clear
<1>4. main \notin {"unload", "unloading", "next", "begin", "shell"}
  BY <1>1 DEF PoolInv, WaitInv, Clear
<1>5. UNCHANGED <<main, step, image, cur, wait>>
  BY DEF mainVars, cmdVars, walkVars
<1>6. StepInv'
  BY <1>5 DEF PoolInv, StepInv
<1>7. SlotInv'
  <2>1. /\ slot'[s].tid
        /\ thread'[s] # "start"
        /\ thread'[s] \in Working <=> slot'[s].in_use = 2
    BY <1>1 DEF Working
  <2> QED
    BY <2>1 DEF PoolInv, SlotInv
<1>8. WalkInv'
  <2>1. cur \in Slot
    BY DEF PoolInv, TypeOK
  <2> QED
    BY <1>2, <1>5, <2>1 DEF PoolInv, WalkInv, Filled
<1>9. WaitInv'
  <2>1. main = "wjoined" => wait # s
    BY <1>1 DEF PoolInv, WaitInv
  <2>2. \A t \in Slot : Clear(t) => t # s /\ Clear(t)'
    BY <1>1 DEF Clear
  <2> QED
    BY <1>4, <1>5, <2>1, <2>2 DEF PoolInv, WaitInv
<1>10. BufInv'
  <2>1. Busy' \subseteq Busy
    BY <1>1 DEF Busy
  <2>2. \A t \in Busy' : slot'[t].buf = slot[t].buf /\ slot'[t].step = slot[t].step
    BY <1>1, <2>1 DEF Busy
  <2> QED
    BY <1>5, <2>1, <2>2 DEF PoolInv, BufInv
<1> QED
  BY <1>6, <1>7, <1>8, <1>9, <1>10

LEMMA WorkerTypes ==
    ASSUME PoolInv, DataTypes', UNCHANGED <<mainVars, countVars>>
    PROVE  TypeOK'
<1>1. PlaceTypes'
  BY TypeParts DEF PoolInv, PlaceTypes, mainVars, cmdVars, walkVars, countVars
<1>2. FlagTypes'
  BY TypeParts DEF PoolInv, FlagTypes, mainVars, cmdVars
<1> QED
  BY <1>1, <1>2, TypeParts

(* The workers' data: an image of the resfile and a step of the parse.     *)
LEMMA WorkerData ==
    ASSUME PoolInv, NEW s \in Busy
    PROVE  /\ slot[s].buf \in Image /\ slot[s].step \in Step
           /\ image \in 1..(NImage + 1)
  BY PoolAssumption DEF PoolAssumption, PoolInv, BufInv, TypeOK, Image

LEMMA PoolStart ==
    ASSUME PoolInv, NEW s \in Slot, Start(s)
    PROVE  PoolInv'
<1>1. s \in Busy
  BY DEF Start, At, Busy
<1>2. thread \in [Slot -> ThreadLabels] /\ slot \in [Slot -> SlotRecord]
  BY DEF PoolInv, TypeOK
<1>3. /\ thread' \in [Slot -> ThreadLabels]
      /\ thread'[s] = "check"
      /\ \A t \in Slot \ {s} : thread'[t] = thread[t]
  BY <1>2 DEF Start, Move, ThreadLabels
<1>4. /\ slot' \in [Slot -> SlotRecord]
      /\ slot'[s].in_use = 2 /\ slot'[s].tid = slot[s].tid
      /\ slot'[s].buf = slot[s].buf /\ slot'[s].step = slot[s].step
      /\ \A t \in Slot \ {s} : slot'[t] = slot[t]
  BY <1>2 DEF Start, SlotRecord
<1>5. UNCHANGED <<mainVars, dataVars, countVars>>
  BY DEF Start
<1>6. TypeOK'
  BY <1>3, <1>4, <1>5, TypeParts, WorkerTypes DEF PoolInv, DataTypes, dataVars
<1>7. StepInv' /\ SlotInv' /\ WalkInv' /\ WaitInv' /\ BufInv'
  BY <1>1, <1>3, <1>4, <1>5, WorkerFrame DEF Working
<1> QED
  BY <1>6, <1>7 DEF PoolInv

(* Check, Parse, ParseFails and Mark leave the slots alone.                *)
LEMMA WorkerMoves ==
    ASSUME PoolInv, NEW s \in Slot, NEW l \in {"parse", "mark", "release", "fail"},
           thread[s] \in {"check", "parse", "mark"}, Move(s, l),
           UNCHANGED <<mainVars, slot, countVars>>,
           status' \in [Image -> 0..LastStep],
           parsed' \in [Step -> Nat],
           ran' \in [Image -> SUBSET Step]
    PROVE  PoolInv'
<1>1. s \in Busy
  BY DEF Busy
<1>2. thread \in [Slot -> ThreadLabels] /\ slot \in [Slot -> SlotRecord]
  BY DEF PoolInv, TypeOK
<1>3. /\ thread' \in [Slot -> ThreadLabels]
      /\ thread'[s] = l
      /\ \A t \in Slot \ {s} : thread'[t] = thread[t]
  BY <1>2 DEF Move, ThreadLabels
<1>4. slot[s].in_use = 2
  BY DEF PoolInv, SlotInv, Working
<1>5. TypeOK'
  BY <1>2, <1>3, WorkerTypes DEF DataTypes
<1>6. StepInv' /\ SlotInv' /\ WalkInv' /\ WaitInv' /\ BufInv'
  BY <1>1, <1>2, <1>3, <1>4, WorkerFrame DEF Working
<1> QED
  BY <1>5, <1>6 DEF PoolInv

LEMMA PoolCheck ==
    ASSUME PoolInv, NEW s \in Slot, Check(s)
    PROVE  PoolInv'
<1> DEFINE l == IF status[slot[s].buf] = slot[s].step - 1 THEN "parse"
                                                         ELSE "mark"
<1>1. l \in {"parse", "mark", "release", "fail"}
  OBVIOUS
<1>2. thread[s] = "check" /\ Move(s, l)
  BY DEF Check, At
<1>3. UNCHANGED <<mainVars, slot, dataVars, countVars>>
  BY DEF Check
<1> HIDE DEF l
<1> QED
  BY <1>1, <1>2, <1>3, WorkerMoves DEF PoolInv, TypeOK, dataVars

LEMMA PoolParse ==
    ASSUME PoolInv, NEW s \in Slot, Parse(s)
    PROVE  PoolInv'
<1>1. s \in Busy
  BY DEF Parse, At, Busy
<1>2. slot[s].buf \in Image /\ slot[s].step \in Step
  BY <1>1, WorkerData
<1>3. ran' \in [Image -> SUBSET Step]
  BY <1>2 DEF Parse, PoolInv, TypeOK
<1> QED
  BY <1>3, WorkerMoves DEF Parse, At, PoolInv, TypeOK

LEMMA PoolParseFails ==
    ASSUME PoolInv, NEW s \in Slot, ParseFails(s)
    PROVE  PoolInv'
  BY WorkerMoves DEF ParseFails, At, PoolInv, TypeOK, dataVars

LEMMA PoolMark ==
    ASSUME PoolInv, NEW s \in Slot, Mark(s)
    PROVE  PoolInv'
<1> USE PoolAssumption DEF PoolAssumption
<1>1. s \in Busy
  BY DEF Mark, At, Busy
<1>2. slot[s].buf \in Image /\ slot[s].step \in Step
  BY <1>1, WorkerData
<1>3. slot[s].step \in 0..LastStep
  BY <1>2 DEF Step
<1>4. status' \in [Image -> 0..LastStep]
  BY <1>2, <1>3 DEF Mark, PoolInv, TypeOK
<1>5. parsed' \in [Step -> Nat]
  BY <1>2 DEF Mark, PoolInv, TypeOK
<1> QED
  BY <1>4, <1>5, WorkerMoves DEF Mark, At, PoolInv, TypeOK

LEMMA RecordTyped ==
    ASSUME NEW r \in SlotRecord, NEW u \in 0..2
    PROVE  /\ \A b \in Image \cup {NoImage} :
                 [r EXCEPT !.buf = b, !.in_use = u] \in SlotRecord
           /\ \A v \in BOOLEAN :
                 [r EXCEPT !.ret = v, !.in_use = u] \in SlotRecord
<1>1. ASSUME NEW b \in Image \cup {NoImage}
      PROVE  [r EXCEPT !.buf = b, !.in_use = u] \in SlotRecord
  BY DEF SlotRecord
<1>2. ASSUME NEW v \in BOOLEAN
      PROVE  [r EXCEPT !.ret = v, !.in_use = u] \in SlotRecord
  BY DEF SlotRecord
<1> QED
  BY <1>1, <1>2

LEMMA PoolExit ==
    ASSUME PoolInv, NEW s \in Slot, Release(s) \/ Fail(s)
    PROVE  PoolInv'
<1>1. s \in Busy
  BY DEF Release, Fail, At, Busy
<1>2. thread \in [Slot -> ThreadLabels] /\ slot \in [Slot -> SlotRecord]
  BY DEF PoolInv, TypeOK
<1>3. /\ thread' \in [Slot -> ThreadLabels]
      /\ thread'[s] = "exit"
      /\ \A t \in Slot \ {s} : thread'[t] = thread[t]
  BY <1>2 DEF Release, Fail, Move, ThreadLabels
<1>4. /\ slot' \in [Slot -> SlotRecord]
      /\ slot'[s].in_use = 0 /\ slot'[s].tid = slot[s].tid
      /\ \A t \in Slot \ {s} : slot'[t] = slot[t]
  <2> DEFINE r == [slot[s] EXCEPT !.buf = NoImage, !.in_use = 0]
             f == [slot[s] EXCEPT !.ret = TRUE, !.in_use = 0]
  <2>1. /\ r \in SlotRecord /\ r.in_use = 0 /\ r.tid = slot[s].tid
        /\ f \in SlotRecord /\ f.in_use = 0 /\ f.tid = slot[s].tid
    <3>1. slot[s] \in SlotRecord
      BY <1>2
    <3>2. r \in SlotRecord /\ f \in SlotRecord
      <4>1. /\ NoImage \in Image \cup {NoImage}
            /\ TRUE \in BOOLEAN /\ 0 \in 0..2
        OBVIOUS
      <4> QED
        BY <3>1, <4>1, RecordTyped
    <3>3. r.in_use = 0 /\ f.in_use = 0
      BY <3>1 DEF SlotRecord
    <3>4. r.tid = slot[s].tid /\ f.tid = slot[s].tid
      BY <3>1 DEF SlotRecord
    <3> QED
      BY <3>2, <3>3, <3>4
  <2>2. slot' = [slot EXCEPT ![s] = r] \/ slot' = [slot EXCEPT ![s] = f]
    BY <1>2 DEF Release, Fail
  <2> HIDE DEF r, f
  <2> QED
    BY <1>2, <2>1, <2>2
<1>5. UNCHANGED <<mainVars, dataVars, countVars>>
  BY DEF Release, Fail
<1>6. TypeOK'
  BY <1>3, <1>4, <1>5, TypeParts, WorkerTypes DEF PoolInv, DataTypes, dataVars
<1>7. StepInv' /\ SlotInv' /\ WalkInv' /\ WaitInv' /\ BufInv'
  BY <1>1, <1>3, <1>4, <1>5, WorkerFrame
<1> QED
  BY <1>6, <1>7 DEF PoolInv

-----------------------------------------------------------------------------
LEMMA PoolNext == PoolInv /\ [Next]_vars => PoolInv'
<1> SUFFICES ASSUME PoolInv, [Next]_vars PROVE PoolInv'
  OBVIOUS
<1>1. ASSUME NEW r \in Request, Command(r) PROVE PoolInv'
  BY <1>1, PoolCommand
<1>2. ASSUME NEW b \in Image, NEW p \in Request \ {0}, NEW force \in BOOLEAN,
             OneSibuf(b, p, force)
      PROVE  PoolInv'
  BY <1>2, PoolOneSibuf
<1>3. CASE Main
  BY <1>3, PoolBegin, PoolWalkDone, PoolPick, PoolClaim, PoolJoin, PoolJoined,
     PoolCreate, PoolWaitJoin, PoolWaitJoined, PoolWaitSlot, PoolWaitDone,
     PoolUnload, PoolNextStep
     DEF Main
<1>4. CASE Quit
  BY <1>4, PoolQuit
<1>5. ASSUME NEW s \in Slot, Worker(s) PROVE PoolInv'
  BY <1>5, PoolStart, PoolCheck, PoolParse, PoolParseFails, PoolMark, PoolExit
     DEF Worker
<1>6. CASE UNCHANGED vars
  <2>1. UNCHANGED <<main, step, image, cur, wait, slot, thread>>
    BY <1>6 DEF vars, cmdVars, walkVars, poolVars
  <2>2. UNCHANGED <<mainVars, poolVars, dataVars, countVars>>
    BY <1>6 DEF vars, mainVars
  <2>3. DataTypes'
    BY <2>2, TypeParts DEF PoolInv, DataTypes, poolVars, dataVars
  <2>4. TypeOK'
    BY <2>2, <2>3, WorkerTypes
  <2>5. StepInv' /\ WalkInv' /\ WaitInv'
    BY <2>1 DEF PoolInv, StepInv, WalkInv, Filled, WaitInv, Clear
  <2>6. SlotInv' /\ BufInv'
    BY <2>1, SlotsStay
  <2> QED
    BY <2>4, <2>5, <2>6 DEF PoolInv
<1> QED
  BY <1>1, <1>2, <1>3, <1>4, <1>5, <1>6 DEF Next

THEOREM PoolInvariant == Spec => []PoolInv
<1> QED
  BY PoolInit, PoolNext, PTL DEF Spec

(* The state of parse_resfile and do_phase keeps its types, whatever the   *)
(* commands, the failures and the signals.                                 *)
THEOREM PoolTypeCorrect == Spec => []TypeOK
<1>1. PoolInv => TypeOK
  BY DEF PoolInv
<1> QED
  BY <1>1, PoolInvariant, PTL

(* parse_resfile creates a thread only in a slot whose last thread was     *)
(* joined.                                                                 *)
THEOREM SlotAlwaysFree == Spec => []SlotIsFree
<1>1. PoolInv => SlotIsFree
  BY DEF PoolInv, WalkInv, SlotIsFree
<1> QED
  BY <1>1, PoolInvariant, PTL

(* wait_for_all_threads leaves no worker behind, even when SIGQUIT takes   *)
(* the main thread out of the walk, out of a join or out of the wait.      *)
THEOREM NoWorkerEverLeft == Spec => []NoWorkerLeft
<1>1. PoolInv => NoWorkerLeft
  BY DEF PoolInv, WaitInv, Clear, NoWorkerLeft
<1> QED
  BY <1>1, PoolInvariant, PTL

-----------------------------------------------------------------------------
(* The pool implements PhaseBarrier.                                       *)

LEMMA NotBusyWhenClear ==
    ASSUME PoolInv, main \in {"unload", "unloading", "next", "begin", "shell"}
    PROVE  Busy = {} /\ ActiveNow = {}
<1>1. \A s \in Slot : thread[s] = "none"
  BY DEF PoolInv, WaitInv, Clear
<1> QED
  BY <1>1 DEF Busy, ActiveNow

(* A step that keeps the phase and the workers.                            *)
LEMMA SameWorkers ==
    ASSUME Busy' = Busy, \A s \in Busy : slot'[s].buf = slot[s].buf,
           PhaseNow' = PhaseNow
    PROVE  [Barrier!Next]_(Barrier!vars)
<1>1. ActiveNow' = ActiveNow
  BY DEF ActiveNow
<1> QED
  BY <1>1 DEF Barrier!vars

LEMMA BarrierCommand ==
    ASSUME PoolInv, NEW r \in Request, Command(r)
    PROVE  [Barrier!Next]_(Barrier!vars)
<1>1. Busy = {} /\ ActiveNow = {}
  BY NotBusyWhenClear DEF Command
<1>2. Busy' = Busy
  BY DEF Busy, Command, poolVars
<1>3. ActiveNow' = {}
  BY <1>1, <1>2 DEF ActiveNow
<1>4. PhaseNow' \in Step
  BY PoolAssumption DEF PoolAssumption, PhaseNow, Command, Step
<1>5. Barrier!Enter(PhaseNow')
  BY <1>1, <1>3 DEF Barrier!Enter
<1> QED
  BY <1>4, <1>5 DEF Barrier!Next

LEMMA BarrierNextStep ==
    ASSUME PoolInv, NextStep
    PROVE  [Barrier!Next]_(Barrier!vars)
<1>1. Busy = {} /\ ActiveNow = {}
  BY NotBusyWhenClear DEF NextStep
<1>2. Busy' = Busy
  BY DEF Busy, NextStep, poolVars
<1>3. ActiveNow' = {}
  BY <1>1, <1>2 DEF ActiveNow
<1>4. PhaseNow' \in Step \cup {0}
  BY PoolNextStep DEF PoolInv, StepInv, PhaseNow
<1>5. Barrier!Enter(PhaseNow')
  BY <1>1, <1>3 DEF Barrier!Enter
<1> QED
  BY <1>4, <1>5 DEF Barrier!Next

LEMMA BarrierCreate ==
    ASSUME PoolInv, Create
    PROVE  [Barrier!Next]_(Barrier!vars)
<1> USE PoolAssumption DEF PoolAssumption
<1>1. /\ cur \in Slot /\ image \in Image /\ Filled /\ thread[cur] = "none"
      /\ slot \in [Slot -> SlotRecord] /\ thread \in [Slot -> ThreadLabels]
      /\ step \in Step
  BY DEF PoolInv, TypeOK, WalkInv, StepInv, Create
<1>2. /\ \A t \in Slot \ {cur} : slot'[t] = slot[t]
      /\ slot'[cur].buf = image
  BY <1>1 DEF Create, SlotRecord, Filled
<1>3. /\ \A t \in Slot \ {cur} : thread'[t] = thread[t]
      /\ thread'[cur] = "start"
  BY <1>1 DEF Create, ThreadLabels
<1>4. Busy' = Busy \cup {cur} /\ cur \notin Busy /\ Busy \subseteq Slot
  BY <1>1, <1>3 DEF Busy
<1>5. ActiveNow' = ActiveNow \cup {image}
  BY <1>2, <1>4 DEF ActiveNow
<1>6. image \notin ActiveNow
  <2>1. \A s \in Busy : slot[s].buf # image
    BY <1>1 DEF PoolInv, BufInv, Image
  <2> QED
    BY <2>1 DEF ActiveNow
<1>7. PhaseNow # 0 /\ PhaseNow' = PhaseNow
  BY <1>1 DEF PhaseNow, Create, cmdVars, Step
<1>8. Barrier!Start(image)
  BY <1>5, <1>6, <1>7 DEF Barrier!Start
<1> QED
  BY <1>1, <1>8 DEF Barrier!Next

LEMMA BarrierExit ==
    ASSUME PoolInv, NEW s \in Slot, Release(s) \/ Fail(s)
    PROVE  [Barrier!Next]_(Barrier!vars)
<1>1. s \in Busy /\ slot[s].buf \in Image
  <2>1. s \in Busy
    BY DEF Release, Fail, At, Busy
  <2> QED
    BY <2>1, WorkerData
<1>2. thread \in [Slot -> ThreadLabels] /\ slot \in [Slot -> SlotRecord]
  BY DEF PoolInv, TypeOK
<1>3. thread'[s] = "exit" /\ \A t \in Slot \ {s} : thread'[t] = thread[t]
  BY <1>2 DEF Release, Fail, Move, ThreadLabels
<1>4. \A t \in Slot \ {s} : slot'[t] = slot[t]
  BY <1>2 DEF Release, Fail
<1>5. Busy' = Busy \ {s} /\ Busy \subseteq Slot
  BY <1>3 DEF Busy
<1>6. \A t \in Busy : slot[t].buf = slot[s].buf => t = s
  BY <1>1 DEF PoolInv, BufInv
<1>7. ActiveNow' = ActiveNow \ {slot[s].buf}
  BY <1>1, <1>4, <1>5, <1>6 DEF ActiveNow
<1>8. PhaseNow' = PhaseNow
  BY DEF PhaseNow, Release, Fail, mainVars, cmdVars
<1>9. Barrier!Finish(slot[s].buf)
  BY <1>7, <1>8 DEF Barrier!Finish
<1> QED
  BY <1>1, <1>9 DEF Barrier!Next

(* The other steps of the main thread keep the workers, and the command    *)
(* goes on.                                                                *)
LEMMA BarrierMain ==
    ASSUME PoolInv, Main, ~ NextStep, ~ Create
    PROVE  [Barrier!Next]_(Barrier!vars)
<1>1. PhaseNow' = PhaseNow
  BY DEF Main, Begin, WalkDone, Pick, Claim, Join, Joined, WaitJoin,
     WaitJoined, WaitSlot, WaitDone, UnloadBegin, UnloadEnd, ToWait, cmdVars,
     PhaseNow
<1>2. cur \in Slot /\ slot \in [Slot -> SlotRecord]
      /\ thread \in [Slot -> ThreadLabels]
  BY DEF PoolInv, TypeOK
<1>3. CASE Begin
  <2>1. Busy = {}
    BY <1>3, NotBusyWhenClear DEF Begin
  <2>2. Busy' = Busy
    BY <1>3 DEF Busy, Begin
  <2> QED
    BY <1>1, <2>1, <2>2, SameWorkers
<1>4. CASE Join \/ WaitJoin
  <2>1. Busy' = Busy
    BY <1>2, <1>4 DEF Busy, Join, WaitJoin, ThreadLabels
  <2>2. slot' = slot
    BY <1>4 DEF Join, WaitJoin
  <2> QED
    BY <1>1, <2>1, <2>2, SameWorkers
<1>5. CASE Claim
  <2>1. cur \notin Busy
    BY <1>5, BusySaysSo DEF PoolInv, WalkInv, Claim
  <2>2. Busy' = Busy
    BY <1>5 DEF Busy, Claim
  <2>3. \A s \in Busy : slot'[s].buf = slot[s].buf
    BY <1>2, <1>5, <2>1 DEF Busy, Claim
  <2> QED
    BY <1>1, <2>2, <2>3, SameWorkers
<1>6. CASE Joined
  <2>1. Busy' = Busy
    BY <1>6 DEF Busy, Joined
  <2>2. \A s \in Busy : slot'[s].buf = slot[s].buf
    BY <1>2, <1>6 DEF Busy, Joined, SlotRecord
  <2> QED
    BY <1>1, <2>1, <2>2, SameWorkers
<1>7. CASE WaitJoined
  <2>1. Busy' = Busy
    BY <1>7 DEF Busy, WaitJoined
  <2>2. \A s \in Busy : slot'[s].buf = slot[s].buf
    BY <1>2, <1>7 DEF Busy, WaitJoined, SlotRecord
  <2> QED
    BY <1>1, <2>1, <2>2, SameWorkers
<1>8. CASE WaitSlot
  <2>1. Busy' = Busy
    BY <1>8 DEF Busy, WaitSlot
  <2>2. \A s \in Busy : slot'[s].buf = slot[s].buf
    BY <1>2, <1>8 DEF Busy, WaitSlot, SlotRecord
  <2> QED
    BY <1>1, <2>1, <2>2, SameWorkers
<1>9. CASE WalkDone \/ Pick \/ WaitDone \/ UnloadBegin \/ UnloadEnd
  <2>1. slot' = slot /\ thread' = thread
    BY <1>9 DEF WalkDone, Pick, WaitDone, UnloadBegin, UnloadEnd, poolVars
  <2>2. Busy' = Busy
    BY <2>1 DEF Busy
  <2> QED
    BY <1>1, <2>1, <2>2, SameWorkers
<1> QED
  BY <1>3, <1>4, <1>5, <1>6, <1>7, <1>8, <1>9 DEF Main

(* The steps that neither end a worker nor touch the main thread.          *)
LEMMA BarrierWorker ==
    ASSUME PoolInv, NEW s \in Slot,
           Start(s) \/ Check(s) \/ Parse(s) \/ ParseFails(s) \/ Mark(s)
    PROVE  [Barrier!Next]_(Barrier!vars)
<1>1. thread \in [Slot -> ThreadLabels] /\ slot \in [Slot -> SlotRecord]
  BY DEF PoolInv, TypeOK
<1>2. PICK l \in {"check", "parse", "mark", "release", "fail"} : Move(s, l)
  <2> DEFINE k == IF status[slot[s].buf] = slot[s].step - 1 THEN "parse"
                                                           ELSE "mark"
  <2>1. k \in {"check", "parse", "mark", "release", "fail"}
    OBVIOUS
  <2>2. CASE Check(s)
    <3>1. Move(s, k)
      BY <2>2 DEF Check
    <3> HIDE DEF k
    <3> QED
      BY <2>1, <3>1
  <2>3. CASE Start(s) \/ Parse(s) \/ ParseFails(s) \/ Mark(s)
    BY <2>3 DEF Start, Parse, ParseFails, Mark
  <2> QED
    BY <2>2, <2>3
<1>3. thread[s] \in {"start", "check", "parse", "mark"}
  BY DEF Start, Check, Parse, ParseFails, Mark, At
<1>4. Busy' = Busy
  BY <1>1, <1>2, <1>3 DEF Busy, Move
<1>5. \A t \in Busy : slot'[t].buf = slot[t].buf
  <2>1. CASE Start(s)
    BY <1>1, <2>1 DEF Start, SlotRecord, Busy
  <2>2. CASE ~ Start(s)
    BY <2>2 DEF Check, Parse, ParseFails, Mark
  <2> QED
    BY <2>1, <2>2
<1>6. PhaseNow' = PhaseNow
  <2>1. UNCHANGED mainVars
    BY DEF Start, Check, Parse, ParseFails, Mark
  <2> QED
    BY <2>1 DEF PhaseNow, mainVars, cmdVars
<1> QED
  BY <1>4, <1>5, <1>6, SameWorkers

LEMMA BarrierStep ==
    ASSUME PoolInv, [Next]_vars
    PROVE  [Barrier!Next]_(Barrier!vars)
<1>1. ASSUME NEW r \in Request, Command(r)
      PROVE  [Barrier!Next]_(Barrier!vars)
  BY <1>1, BarrierCommand
<1>2. ASSUME NEW b \in Image, NEW p \in Request \ {0}, NEW force \in BOOLEAN,
             OneSibuf(b, p, force)
      PROVE  [Barrier!Next]_(Barrier!vars)
  <2>1. UNCHANGED <<main, step, slot, thread>>
    BY <1>2 DEF OneSibuf, mainVars, cmdVars, poolVars
  <2>2. Busy' = Busy /\ PhaseNow' = PhaseNow
    BY <2>1 DEF Busy, PhaseNow
  <2> QED
    BY <2>1, <2>2, SameWorkers
<1>3. CASE Main
  BY <1>3, BarrierMain, BarrierNextStep, BarrierCreate
<1>4. CASE Quit
  <2>1. UNCHANGED <<step, slot, thread>>
    BY <1>4 DEF Quit, cmdVars, poolVars
  <2>2. main # "shell" /\ main' # "shell"
    BY <1>4 DEF Quit, ToWait
  <2>3. Busy' = Busy /\ PhaseNow' = PhaseNow
    BY <2>1, <2>2 DEF Busy, PhaseNow
  <2> QED
    BY <2>1, <2>3, SameWorkers
<1>5. ASSUME NEW s \in Slot, Worker(s)
      PROVE  [Barrier!Next]_(Barrier!vars)
  BY <1>5, BarrierWorker, BarrierExit DEF Worker
<1>6. CASE UNCHANGED vars
  <2>1. UNCHANGED <<main, step, slot, thread>>
    BY <1>6 DEF vars, cmdVars, poolVars
  <2>2. Busy' = Busy /\ PhaseNow' = PhaseNow
    BY <2>1 DEF Busy, PhaseNow
  <2> QED
    BY <2>1, <2>2, SameWorkers
<1> QED
  BY <1>1, <1>2, <1>3, <1>4, <1>5, <1>6 DEF Next

(* The parser keeps what PhaseBarrier promises: an image has one worker at *)
(* most, and a step starts only when the one before has no worker left.    *)
THEOREM PoolImplementsBarrier == Spec => ImplementsBarrier
<1>1. Init => Barrier!Init
  <2> SUFFICES ASSUME Init PROVE Barrier!Init
    OBVIOUS
  <2>1. PhaseNow = 0
    BY DEF Init, PhaseNow
  <2>2. ActiveNow = {}
    BY DEF Init, ActiveNow, Busy
  <2> QED
    BY <2>1, <2>2 DEF Barrier!Init
<1>2. PoolInv /\ [Next]_vars => [Barrier!Next]_(Barrier!vars)
  BY BarrierStep
<1> QED
  BY <1>1, <1>2, PoolInvariant, PTL DEF Spec, ImplementsBarrier, Barrier!Spec

=============================================================================
