----------------------------- MODULE ParsePool ------------------------------
(***************************************************************************)
(* The parser of analysis/parse.c: "parse (resfile) (builtin) (step)".     *)
(*                                                                         *)
(* parse_resfile() walks the images of a resfile and gives each one to a   *)
(* worker thread.  A worker is described by a slot of the array bufs.  At  *)
(* the end of a step the main thread waits for all workers and unmaps all  *)
(* images; with step 0 it goes on with the next step.  SIGQUIT makes the   *)
(* main thread siglongjmp out of the walk, wherever it is.                 *)
(***************************************************************************)
EXTENDS Integers

CONSTANTS
    NImage,       \* the images of the resfile are 1..NImage
    NSlot,        \* THREAD_CNT
    LastStep,     \* STEPMAX - 1
    Request,      \* the "step" arguments the user may give: subset of 0..LastStep
    MaxRequests,  \* bound: commands in a behaviour
    MaxQuit,      \* bound: SIGQUITs in a behaviour
    MayFail       \* whether the parse of an image may fail

Image == 1..NImage
Slot == 1..NSlot
Step == 1..LastStep
NoImage == 0

ASSUME PoolAssumption ==
    /\ NImage \in Nat \ {0}
    /\ NSlot \in Nat \ {0}
    /\ LastStep \in Nat \ {0}
    /\ Request \subseteq 0..LastStep
    /\ MaxRequests \in Nat
    /\ MaxQuit \in Nat
    /\ MayFail \in BOOLEAN

VARIABLES
    main,     \* where the main thread is
    step,     \* parse_resfile's step
    all,      \* parse_resfile's flag: go on with the next step
    err,      \* parse_resfile's err is not 0
    image,    \* the image the walk has reached
    cur,      \* the slot t chosen for it
    wait,     \* the slot wait_for_all_threads has reached
    armed,    \* the handler is installed, sigsetjmp was called in this step
    locked,   \* gc_lock is held by the main thread
    slot,     \* the array bufs
    thread,   \* thread[s]: where the thread of slot s is
    status,   \* status[b]: sibuf.status
    parsed,   \* parsed[p]: resfile.parsed_files[p]
    ran,      \* ran[b]: the steps that ops->parse completed on b (auxiliary)
    requests, \* commands so far
    quits     \* SIGQUITs so far

cmdVars  == <<step, all, armed>>
walkVars == <<image, cur, wait>>
poolVars == <<slot, thread>>
dataVars == <<status, parsed, ran>>
countVars == <<requests, quits>>
mainVars == <<main, cmdVars, err, walkVars, locked>>
vars == <<main, cmdVars, err, walkVars, locked, poolVars, dataVars, countVars>>

MainLabels == {"shell",    \* outside parse_resfile
               "begin",    \* about to clear bufs
               "pick",     \* looking for a free slot
               "claim",    \* about to fill the slot
               "join",     \* about to join the slot's last thread
               "joined",   \* joined it, tid not cleared yet
               "create",   \* about to call pthread_create
               "wait",     \* in wait_for_all_threads
               "wjoined",  \* there, joined a thread, tid not cleared yet
               "unload",   \* about to call resfile_unload_all
               "unloading",\* inside it, under gc_lock
               "next",     \* at the end of the step
               "dead"}     \* crashed

ThreadLabels == {"none",    \* no thread, or joined already
                 "start", "check", "parse", "mark", "release", "fail",
                 "exit"}    \* returned, not joined yet

SlotRecord == [buf : Image \cup {NoImage}, ret : BOOLEAN, step : 0..LastStep,
               in_use : 0..2, tid : BOOLEAN]

EmptySlot == [buf |-> NoImage, ret |-> FALSE, step |-> 0, in_use |-> 0,
              tid |-> FALSE]

TypeOK ==
    /\ main \in MainLabels
    /\ step \in 0..LastStep
    /\ all \in BOOLEAN /\ err \in BOOLEAN /\ armed \in BOOLEAN
    /\ locked \in BOOLEAN
    /\ image \in 1..(NImage + 1)
    /\ cur \in Slot
    /\ wait \in 1..(NSlot + 1)
    /\ slot \in [Slot -> SlotRecord]
    /\ thread \in [Slot -> ThreadLabels]
    /\ status \in [Image -> 0..LastStep]
    /\ parsed \in [Step -> Nat]
    /\ ran \in [Image -> SUBSET Step]
    /\ requests \in 0..MaxRequests
    /\ quits \in 0..MaxQuit

Init ==
    /\ main = "shell"
    /\ step = 0
    /\ all = FALSE /\ err = FALSE /\ armed = FALSE
    /\ image = 1 /\ cur = 1 /\ wait = 1
    /\ locked = FALSE
    /\ slot = [s \in Slot |-> EmptySlot]
    /\ thread = [s \in Slot |-> "none"]
    /\ status = [b \in Image |-> 0]
    /\ parsed = [p \in Step |-> 0]
    /\ ran = [b \in Image |-> {}]
    /\ requests = 0
    /\ quits = 0

-----------------------------------------------------------------------------
(* The command: step 0 stands for all the steps, one after the other.      *)
Command(r) ==
    /\ main = "shell"
    /\ requests < MaxRequests
    /\ requests' = requests + 1
    /\ all' = (r = 0)
    /\ step' = IF r = 0 THEN 1 ELSE r
    /\ err' = FALSE
    /\ main' = "begin"
    /\ UNCHANGED <<armed, walkVars, locked, poolVars, dataVars, quits>>

(* "one_sibuf (srcpath) (step) (force)": the shell's own thread parses one  *)
(* image and leaves its status as it is.                                   *)
OneSibuf(b, p, force) ==
    /\ main = "shell"
    /\ requests < MaxRequests
    /\ requests' = requests + 1
    /\ \/ /\ force \/ status[b] = p - 1
          /\ ran' = [ran EXCEPT ![b] = @ \cup {p}]
       \/ /\ MayFail \/ ~ (force \/ status[b] = p - 1)
          /\ UNCHANGED ran
    /\ UNCHANGED <<mainVars, poolVars, status, parsed, quits>>

(* memset(&bufs, 0, sizeof(bufs)), then the walk from the first image.     *)
Begin ==
    /\ main = "begin"
    /\ slot' = [s \in Slot |-> EmptySlot]
    /\ image' = 1
    /\ armed' = FALSE
    /\ main' = "pick"
    /\ UNCHANGED <<step, all, err, cur, wait, locked, thread, dataVars,
                   countVars>>

(* Faulty: a slot that was filled but whose thread has not started.        *)
FreeNotRunning == {s \in Slot : slot[s].in_use # 2}

Free == {s \in Slot : slot[s].in_use = 0}

ToWait ==
    /\ wait' = 1
    /\ main' = "wait"

(* No image is left. *)
WalkDone ==
    /\ main = "pick"
    /\ image = NImage + 1
    /\ ToWait
    /\ UNCHANGED <<cmdVars, err, image, cur, locked, poolVars, dataVars,
                   countVars>>

(* Install the handler, set the jump target and take the first free slot.  *)
(* A slot whose worker failed stops the walk.                              *)
Pick ==
    /\ main = "pick"
    /\ image \in Image
    /\ armed' = TRUE
    /\ \E s \in Free :
          /\ \A t \in Free : s <= t
          /\ cur' = s
          /\ IF slot[s].ret
             THEN /\ err' = TRUE
                  /\ ToWait
             ELSE /\ main' = "claim"
                  /\ UNCHANGED <<err, wait>>
    /\ UNCHANGED <<step, all, image, locked, poolVars, dataVars, countVars>>

(* Faulty: the slot's last thread is not joined.                           *)
ClaimNoJoin ==
    /\ main = "claim"
    /\ slot' = [slot EXCEPT ![cur].buf = image, ![cur].in_use = 1,
                            ![cur].step = step]
    /\ main' = "create"
    /\ UNCHANGED <<cmdVars, err, walkVars, locked, thread, dataVars, countVars>>

Claim ==
    /\ main = "claim"
    /\ slot' = [slot EXCEPT ![cur].buf = image, ![cur].in_use = 1,
                            ![cur].step = step]
    /\ main' = IF slot[cur].tid THEN "join" ELSE "create"
    /\ UNCHANGED <<cmdVars, err, walkVars, locked, thread, dataVars, countVars>>

(* pthread_join returns when the thread has returned. *)
Join ==
    /\ main = "join"
    /\ thread[cur] = "exit"
    /\ thread' = [thread EXCEPT ![cur] = "none"]
    /\ main' = "joined"
    /\ UNCHANGED <<cmdVars, err, walkVars, locked, slot, dataVars, countVars>>

Joined ==
    /\ main = "joined"
    /\ slot' = [slot EXCEPT ![cur].tid = FALSE]
    /\ main' = "create"
    /\ UNCHANGED <<cmdVars, err, walkVars, locked, thread, dataVars, countVars>>

(* pthread_create, repeated until it succeeds: err is its result, 0.       *)
Create ==
    /\ main = "create"
    /\ thread' = [thread EXCEPT ![cur] = "start"]
    /\ slot' = [slot EXCEPT ![cur].tid = TRUE]
    /\ err' = FALSE
    /\ image' = image + 1
    /\ main' = "pick"
    /\ UNCHANGED <<cmdVars, cur, wait, locked, dataVars, countVars>>

-----------------------------------------------------------------------------
(* wait_for_all_threads                                                    *)

(* The join of a thread that was joined before is undefined: glibc reports *)
(* ESRCH, or reads a descriptor that is gone.                              *)
WaitJoin ==
    /\ main = "wait"
    /\ wait \in Slot
    /\ slot[wait].tid
    /\ \/ /\ thread[wait] = "exit"
          /\ main' = "wjoined"
       \/ /\ thread[wait] = "none"
          /\ main' \in {"wjoined", "dead"}
    /\ thread' = [thread EXCEPT ![wait] = "none"]
    /\ UNCHANGED <<cmdVars, err, walkVars, locked, slot, dataVars, countVars>>

WaitJoined ==
    /\ main = "wjoined"
    /\ slot' = [slot EXCEPT ![wait].tid = FALSE]
    /\ main' = "wait"
    /\ UNCHANGED <<cmdVars, err, walkVars, locked, thread, dataVars, countVars>>

(* A slot that was filled for a thread that will not be created (1) is set *)
(* free; one that is in a thread (2) is waited for.                        *)
WaitSlot ==
    /\ main = "wait"
    /\ wait \in Slot
    /\ ~ slot[wait].tid
    /\ slot[wait].in_use # 2
    /\ slot' = [slot EXCEPT ![wait].in_use = 0]
    /\ wait' = wait + 1
    /\ UNCHANGED <<main, cmdVars, err, image, cur, locked, thread, dataVars,
                   countVars>>

(* Faulty: the last slot is not waited for.                                *)
WaitDoneEarly ==
    /\ main = "wait"
    /\ wait >= NSlot
    /\ main' = "unload"
    /\ UNCHANGED <<cmdVars, err, walkVars, locked, poolVars, dataVars,
                   countVars>>

WaitDone ==
    /\ main = "wait"
    /\ wait = NSlot + 1
    /\ main' = "unload"
    /\ UNCHANGED <<cmdVars, err, walkVars, locked, poolVars, dataVars,
                   countVars>>

(* resfile_unload_all: the workers do not hold gc_lock any more, but the   *)
(* main thread may, when SIGQUIT took it out of this very call.            *)
UnloadBegin ==
    /\ main = "unload"
    /\ ~ locked
    /\ locked' = TRUE
    /\ main' = "unloading"
    /\ UNCHANGED <<cmdVars, err, walkVars, poolVars, dataVars, countVars>>

UnloadEnd ==
    /\ main = "unloading"
    /\ locked' = FALSE
    /\ main' = "next"
    /\ UNCHANGED <<cmdVars, err, walkVars, poolVars, dataVars, countVars>>

(* Faulty: one step too many.                                              *)
NextStepTooFar ==
    /\ main = "next"
    /\ IF all /\ step <= LastStep
       THEN /\ step' = step + 1
            /\ main' = "begin"
       ELSE /\ main' = "shell"
            /\ UNCHANGED step
    /\ UNCHANGED <<all, armed, err, walkVars, locked, poolVars, dataVars,
                   countVars>>

NextStep ==
    /\ main = "next"
    /\ IF all /\ step < LastStep
       THEN /\ step' = step + 1
            /\ main' = "begin"
       ELSE /\ main' = "shell"
            /\ UNCHANGED step
    /\ UNCHANGED <<all, armed, err, walkVars, locked, poolVars, dataVars,
                   countVars>>

(* sigquit_hdl, run by the main thread between the first sigsetjmp of the  *)
(* step and its end.  (Outside, it jumps into a frame that may be gone.)   *)
Quit ==
    /\ quits < MaxQuit
    /\ armed
    /\ main \in MainLabels \ {"shell", "begin", "next", "dead"}
    /\ quits' = quits + 1
    /\ ToWait
    /\ UNCHANGED <<cmdVars, err, image, cur, locked, poolVars, dataVars,
                   requests>>

-----------------------------------------------------------------------------
(* do_phase, the thread of slot s *)

At(s, label) == thread[s] = label
Move(s, label) == thread' = [thread EXCEPT ![s] = label]

Start(s) ==
    /\ At(s, "start")
    /\ slot' = [slot EXCEPT ![s].in_use = 2]
    /\ Move(s, "check")
    /\ UNCHANGED <<mainVars, dataVars, countVars>>

(* parse_sibuf without force: an image that is not at the step before is   *)
(* left alone, and that counts as success.                                 *)
Check(s) ==
    /\ At(s, "check")
    /\ Move(s, IF status[slot[s].buf] = slot[s].step - 1 THEN "parse"
                                                         ELSE "mark")
    /\ UNCHANGED <<mainVars, slot, dataVars, countVars>>

(* ops->parse *)
Parse(s) ==
    /\ At(s, "parse")
    /\ ran' = [ran EXCEPT ![slot[s].buf] = @ \cup {slot[s].step}]
    /\ Move(s, "mark")
    /\ UNCHANGED <<mainVars, slot, status, parsed, countVars>>

(* No lang_ops for the image, or ops->parse fails. *)
ParseFails(s) ==
    /\ MayFail
    /\ At(s, "check") \/ At(s, "parse")
    /\ Move(s, "fail")
    /\ UNCHANGED <<mainVars, slot, dataVars, countVars>>

Mark(s) ==
    /\ At(s, "mark")
    /\ status' = [status EXCEPT ![slot[s].buf] = slot[s].step]
    /\ parsed' = [parsed EXCEPT ![slot[s].step] = @ + 1]
    /\ Move(s, "release")
    /\ UNCHANGED <<mainVars, slot, ran, countVars>>

Release(s) ==
    /\ At(s, "release")
    /\ slot' = [slot EXCEPT ![s].buf = NoImage, ![s].in_use = 0]
    /\ Move(s, "exit")
    /\ UNCHANGED <<mainVars, dataVars, countVars>>

(* Faulty: a failed worker keeps its slot.                                 *)
FailKeepsSlot(s) ==
    /\ At(s, "fail")
    /\ slot' = [slot EXCEPT ![s].ret = TRUE]
    /\ Move(s, "exit")
    /\ UNCHANGED <<mainVars, dataVars, countVars>>

Fail(s) ==
    /\ At(s, "fail")
    /\ slot' = [slot EXCEPT ![s].ret = TRUE, ![s].in_use = 0]
    /\ Move(s, "exit")
    /\ UNCHANGED <<mainVars, dataVars, countVars>>

Worker(s) ==
    \/ Start(s) \/ Check(s) \/ Parse(s) \/ ParseFails(s)
    \/ Mark(s) \/ Release(s) \/ Fail(s)

Main ==
    \/ Begin \/ WalkDone \/ Pick \/ Claim \/ Join \/ Joined \/ Create
    \/ WaitJoin \/ WaitJoined \/ WaitSlot \/ WaitDone
    \/ UnloadBegin \/ UnloadEnd \/ NextStep

Next ==
    \/ \E r \in Request : Command(r)
    \/ \E b \in Image, p \in Request \ {0}, force \in BOOLEAN :
          OneSibuf(b, p, force)
    \/ Main
    \/ Quit
    \/ main # "dead" /\ \E s \in Slot : Worker(s)

Spec == Init /\ [][Next]_vars

(* The main thread and every worker keep running; a parse ends.            *)
FairSpec ==
    /\ Spec
    /\ WF_vars(Main)
    /\ \A s \in Slot : WF_vars(Worker(s))

-----------------------------------------------------------------------------
(* A command returns to the shell, or the program crashed, wherever SIGQUIT *)
(* strikes but for one place: inside resfile_unload_all, with gc_lock      *)
(* taken, which the second resfile_unload_all waits for for ever.          *)
ParseEnds ==
    main = "begin" ~> main \in {"shell", "dead"} \/ (main = "unload" /\ locked)

(* An image at status s went through the steps 1 to s.                     *)
StatusSound == \A b \in Image : 1..status[b] \subseteq ran[b]

(* A slot is given to a new thread only after its last thread was joined,  *)
(* so no descriptor is lost and no two threads share a slot.               *)
SlotIsFree == main = "create" => thread[cur] = "none"

(* The step ends, the images are unmapped and bufs is cleared only when no *)
(* worker runs and none is left to join.                                   *)
NoWorkerLeft ==
    main \in {"unload", "unloading", "next", "begin", "shell"} =>
        \A s \in Slot : thread[s] = "none" /\ slot[s].in_use = 0

(* The workers of one step are all gone before the next one starts, and an *)
(* image never has two.                                                    *)
Busy == {s \in Slot : thread[s] \notin {"none", "exit"}}
PhaseNow == IF main = "shell" THEN 0 ELSE step
ActiveNow == {slot[s].buf : s \in Busy}
Barrier == INSTANCE PhaseBarrier WITH
    Phase <- Step, phase <- PhaseNow, active <- ActiveNow
ImplementsBarrier == Barrier!Spec

=============================================================================
