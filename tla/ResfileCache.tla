---------------------------- MODULE ResfileCache ----------------------------
(***************************************************************************)
(* The sibuf cache of analysis/resfile.c.                                  *)
(*                                                                         *)
(* A resfile is a file of concatenated compiled-file images; a sibuf is    *)
(* one image.  A thread that wants to read an image calls sibuf_hold(),    *)
(* which mmaps the image at its fixed address when it is not mapped yet    *)
(* and records the thread in sibuf.users, and sibuf_drop() when it is      *)
(* done.  Pages stay mapped until resfile_gc() needs their room: it unmaps *)
(* every image nobody uses.  A thread that touches an image which is not   *)
(* mapped takes a SIGSEGV, whose handler holds and at once drops it.       *)
(*                                                                         *)
(* gc_lock is the mutex of resfile.c.  A section of the code that runs     *)
(* under gc_lock and touches no user list twice is one action; sibuf_drop  *)
(* does not take gc_lock, so it may happen between any two steps.          *)
(***************************************************************************)
EXTENDS Integers, Sequences, FiniteSets

CONSTANTS
    Thread,      \* the threads that hold images: workers, or the shell
    NoThread,    \* "nobody owns gc_lock"
    NSibuf,      \* number of images; si->sibuf_head is the list 1..NSibuf
    Size,        \* Size[b]: sibuf.total_len, in pages
    MaxLoaded,   \* sibuf_loaded_max, in pages
    Resfile,     \* the resfiles
    RfOf,        \* RfOf[b]: sibuf.rf
    InWorkdir,   \* the resfiles whose path lies under the current workdir
    MaxDepth,    \* bound: nesting of holds and faults in one thread
    MaxCalls,    \* bound: holds and faults of one thread per step of a parse
    MayENOMEM,   \* whether mmap may fail with ENOMEM
    MayTouch,    \* whether threads follow pointers into images they do not hold
    SplitStore   \* whether "status = step" is a visible read-modify-write

Sibuf == 1..NSibuf
NoBuf == 0

ASSUME CacheAssumption ==
    /\ NoThread \notin Thread
    /\ IsFiniteSet(Thread)
    /\ NSibuf \in Nat \ {0}
    /\ Size \in [Sibuf -> Nat \ {0}]
    /\ MaxLoaded \in Nat
    /\ RfOf \in [Sibuf -> Resfile]
    /\ InWorkdir \subseteq Resfile
    /\ MaxDepth \in Nat \ {0}
    /\ MaxCalls \in Nat
    /\ MayENOMEM \in BOOLEAN
    /\ MayTouch \in BOOLEAN
    /\ SplitStore \in BOOLEAN

VARIABLES
    gcLock,      \* owner of gc_lock
    fdOpen,      \* fdOpen[rf]: resfile.fd is not -1
    mapped,      \* the images whose pages are mapped
    needUnload,  \* the images whose need_unload bit is 1
    users,       \* users[b]: the threads on sibuf.users
    usage,       \* si->sibuf_mem_usage
    pc,          \* where each thread is in the cache code
    target,      \* target[t]: the sibuf argument of the call t is in
    inFault,     \* inFault[t]: the call is made by the SIGSEGV handler
    scan,        \* scan[t]: position of t's walk over si->sibuf_head
    frames,      \* frames[t]: the holds t's callers have not undone yet
    snap,        \* snap[t]: need_unload as read by "status = step"
    calls        \* calls[t]: how many calls t has made

lockVars   == <<gcLock, fdOpen>>
memVars    == <<mapped, needUnload, usage>>
callVars   == <<target, inFault, scan, snap>>
vars == <<lockVars, memVars, users, pc, callVars, frames, calls>>

Labels == {"run",      \* outside the cache code
           "enter",    \* resfile_load() wants gc_lock
           "room",     \* resfile_load() owns gc_lock and looks for room
           "gcwait",   \* resfile_gc() wants gc_lock
           "scan",     \* resfile_gc() owns gc_lock
           "again",    \* resfile_load() wants gc_lock back after a gc
           "ehdrop",   \* the SIGSEGV handler is about to drop
           "retry",    \* the faulting instruction runs again
           "store"}    \* between the two halves of "status = step"

(* What sibuf_hold returned to the caller: 0 (this call made the thread a  *)
(* user), 1 (the thread was a user already), -1 (nothing was loaded).      *)
Results == {"first", "held", "error"}
Frame == [buf : Sibuf, how : Results]

TypeOK ==
    /\ gcLock \in Thread \cup {NoThread}
    /\ fdOpen \in [Resfile -> BOOLEAN]
    /\ mapped \subseteq Sibuf
    /\ needUnload \subseteq Sibuf
    /\ users \in [Sibuf -> SUBSET Thread]
    /\ usage \in Int
    /\ pc \in [Thread -> Labels]
    /\ target \in [Thread -> Sibuf \cup {NoBuf}]
    /\ inFault \in [Thread -> BOOLEAN]
    /\ scan \in [Thread -> 1..(NSibuf + 1)]
    /\ frames \in [Thread -> Seq(Frame)]
    /\ snap \in [Thread -> BOOLEAN]
    /\ calls \in [Thread -> 0..MaxCalls]

(* A fresh process that has just previewed its resfiles (every fd is open) *)
(* or reloaded src.saved (every fd is -1): nothing is mapped in either.    *)
Init ==
    /\ gcLock = NoThread
    /\ \E open \in BOOLEAN : fdOpen = [rf \in Resfile |-> open]
    /\ mapped = {}
    /\ needUnload = {}
    /\ users = [b \in Sibuf |-> {}]
    /\ usage = 0
    /\ pc = [t \in Thread |-> "run"]
    /\ target = [t \in Thread |-> NoBuf]
    /\ inFault = [t \in Thread |-> FALSE]
    /\ scan = [t \in Thread |-> 1]
    /\ frames = [t \in Thread |-> << >>]
    /\ snap = [t \in Thread |-> FALSE]
    /\ calls = [t \in Thread |-> 0]

Goto(t, label) == pc' = [pc EXCEPT ![t] = label]

Begin(t, b, fault) ==
    /\ pc[t] = "run"
    /\ Len(frames[t]) < MaxDepth
    /\ calls[t] < MaxCalls
    /\ calls' = [calls EXCEPT ![t] = @ + 1]
    /\ target' = [target EXCEPT ![t] = b]
    /\ inFault' = [inFault EXCEPT ![t] = fault]
    /\ Goto(t, "enter")
    /\ UNCHANGED <<lockVars, memVars, users, scan, snap, frames>>

(* sibuf_hold(b), called by the program. *)
Hold(t, b) == Begin(t, b, FALSE)

(* t follows a pointer into b, whose pages are not mapped: do_sibuf_eh.    *)
Touch(t, b) ==
    /\ MayTouch
    /\ b \notin mapped
    /\ Begin(t, b, TRUE)

(* resfile_load returns "how" to sibuf_hold's caller: the program keeps    *)
(* the result to decide later whether to drop, the handler drops at once.  *)
Return(t, how) ==
    IF inFault[t]
    THEN /\ Goto(t, IF how = "first" THEN "ehdrop" ELSE "retry")
         /\ UNCHANGED <<frames, target>>
    ELSE /\ Goto(t, "run")
         /\ frames' = [frames EXCEPT
                ![t] = Append(@, [buf |-> target[t], how |-> how])]
         /\ target' = [target EXCEPT ![t] = NoBuf]

(* Faulty: a nested hold is reported as the outermost one.                 *)
AddUserUncounted(t, b) ==
    /\ users' = [users EXCEPT ![b] = @ \cup {t}]
    /\ Return(t, "first")

(* sibuf_add_user, and the value it makes resfile_load return.             *)
AddUser(t, b) ==
    /\ users' = [users EXCEPT ![b] = @ \cup {t}]
    /\ Return(t, IF t \in users[b] THEN "held" ELSE "first")

(* The resfile must be reopened, but lies outside the workdir: return -1.  *)
LoadError(t) ==
    /\ pc[t] = "enter"
    /\ gcLock = NoThread
    /\ ~ fdOpen[RfOf[target[t]]]
    /\ RfOf[target[t]] \notin InWorkdir
    /\ Return(t, "error")
    /\ UNCHANGED <<lockVars, memVars, users, inFault, scan, snap, calls>>

(* The resfile is open, or can be opened again. *)
Opened(t) ==
    /\ fdOpen[RfOf[target[t]]] \/ RfOf[target[t]] \in InWorkdir
    /\ fdOpen' = [fdOpen EXCEPT ![RfOf[target[t]]] = TRUE]

(* need_unload is set: the image counts as loaded, only the user is added. *)
LoadHit(t) ==
    /\ pc[t] = "enter"
    /\ gcLock = NoThread
    /\ Opened(t)
    /\ target[t] \in needUnload
    /\ AddUser(t, target[t])
    /\ UNCHANGED <<gcLock, memVars, inFault, scan, snap, calls>>

(* The image must be mapped: keep gc_lock and look for room.               *)
LoadMiss(t) ==
    /\ pc[t] = "enter"
    /\ gcLock = NoThread
    /\ Opened(t)
    /\ target[t] \notin needUnload
    /\ gcLock' = t
    /\ Goto(t, "room")
    /\ UNCHANGED <<memVars, users, callVars, frames, calls>>

(* Faulty: the room check forgets the size of the image itself.            *)
HasAnyRoom(b) == usage < MaxLoaded

HasRoom(b) == usage + Size[b] <= MaxLoaded

(* No room, or ENOMEM from mmap: give gc_lock up and collect.              *)
NoRoom(t) ==
    /\ pc[t] = "room"
    /\ ~ HasRoom(target[t]) \/ MayENOMEM
    /\ gcLock' = NoThread
    /\ Goto(t, "gcwait")
    /\ UNCHANGED <<fdOpen, memVars, users, callVars, frames, calls>>

(* mmap, account for the pages, set need_unload and add the user.  The     *)
(* code does not look at need_unload again after it had given gc_lock up.  *)
Map(t) ==
    LET b == target[t] IN
    /\ pc[t] = "room"
    /\ HasRoom(b)
    /\ mapped' = mapped \cup {b}
    /\ usage' = usage + Size[b]
    /\ needUnload' = needUnload \cup {b}
    /\ AddUser(t, b)
    /\ gcLock' = NoThread
    /\ UNCHANGED <<fdOpen, inFault, scan, snap, calls>>

GcStart(t) ==
    /\ pc[t] = "gcwait"
    /\ gcLock = NoThread
    /\ gcLock' = t
    /\ Goto(t, "scan")
    /\ UNCHANGED <<fdOpen, memVars, users, callVars, frames, calls>>

(* Faulty: the collection does not look at the users.                      *)
CollectableInUse(b) == b \in needUnload

Collectable(b) == b \in needUnload /\ users[b] = {}

(* resfile_unload of an image nobody uses. *)
Unload(b) ==
    /\ mapped' = mapped \ {b}
    /\ needUnload' = needUnload \ {b}
    /\ usage' = usage - Size[b]

(* Faulty: the walk does not stop at the end of the list.                  *)
GcScanTooFar(t) ==
    /\ pc[t] = "scan"
    /\ scan[t] <= NSibuf + 1
    /\ scan' = [scan EXCEPT ![t] = @ + 1]
    /\ UNCHANGED <<lockVars, memVars, users, pc, target, inFault, snap, frames,
                   calls>>

(* One turn of resfile_gc's loop.                                          *)
GcScan(t) ==
    /\ pc[t] = "scan"
    /\ scan[t] <= NSibuf
    /\ IF Collectable(scan[t])
       THEN Unload(scan[t])
       ELSE UNCHANGED memVars
    /\ scan' = [scan EXCEPT ![t] = @ + 1]
    /\ UNCHANGED <<lockVars, users, pc, target, inFault, snap, frames, calls>>

(* The walk is over.  Whether something was released only decides a log    *)
(* line and a pause of 10 ms.                                              *)
GcEnd(t) ==
    /\ pc[t] = "scan"
    /\ scan[t] = NSibuf + 1
    /\ gcLock' = NoThread
    /\ scan' = [scan EXCEPT ![t] = 1]
    /\ Goto(t, "again")
    /\ UNCHANGED <<fdOpen, memVars, users, target, inFault, snap, frames,
                   calls>>

Again(t) ==
    /\ pc[t] = "again"
    /\ gcLock = NoThread
    /\ gcLock' = t
    /\ Goto(t, "room")
    /\ UNCHANGED <<fdOpen, memVars, users, callVars, frames, calls>>

(* Faulty: the user stays on the list.                                     *)
DelNobody(t, b) == UNCHANGED users

(* sibuf_del_user, without gc_lock. *)
DelUser(t, b) == users' = [users EXCEPT ![b] = @ \ {t}]

(* The handler drops what its own hold acquired.                           *)
HandlerDrop(t) ==
    /\ pc[t] = "ehdrop"
    /\ DelUser(t, target[t])
    /\ Goto(t, "retry")
    /\ UNCHANGED <<lockVars, memVars, callVars, frames, calls>>

(* Back from the handler: the instruction faults again when a collection   *)
(* was faster.                                                             *)
Retry(t) ==
    /\ pc[t] = "retry"
    /\ IF target[t] \in mapped
       THEN /\ Goto(t, "run")
            /\ inFault' = [inFault EXCEPT ![t] = FALSE]
            /\ target' = [target EXCEPT ![t] = NoBuf]
       ELSE /\ Goto(t, "enter")
            /\ UNCHANGED <<inFault, target>>
    /\ UNCHANGED <<lockVars, memVars, users, scan, snap, frames, calls>>

(* "if (!held) sibuf_drop(buf)": the callers undo their holds in LIFO      *)
(* order, and take -1 for "already held".                                  *)
Drop(t) ==
    /\ pc[t] = "run"
    /\ frames[t] # << >>
    /\ LET top == frames[t][Len(frames[t])] IN
       IF top.how = "first" THEN DelUser(t, top.buf) ELSE UNCHANGED users
    /\ frames' = [frames EXCEPT ![t] = SubSeq(@, 1, Len(@) - 1)]
    /\ UNCHANGED <<lockVars, memVars, pc, callVars, calls>>

(* do_phase, after its last drop: "t->buf->status = step" without a lock.  *)
(* status and need_unload are bit fields of one byte, which the store      *)
(* reads, modifies and writes back.                                        *)
StatusLoad(t, b) ==
    /\ SplitStore
    /\ pc[t] = "run"
    /\ frames[t] = << >>
    /\ calls[t] < MaxCalls
    /\ calls' = [calls EXCEPT ![t] = @ + 1]
    /\ target' = [target EXCEPT ![t] = b]
    /\ snap' = [snap EXCEPT ![t] = b \in needUnload]
    /\ Goto(t, "store")
    /\ UNCHANGED <<lockVars, memVars, users, inFault, scan, frames>>

StatusStore(t) ==
    /\ pc[t] = "store"
    /\ needUnload' = IF snap[t] THEN needUnload \cup {target[t]}
                                ELSE needUnload \ {target[t]}
    /\ target' = [target EXCEPT ![t] = NoBuf]
    /\ snap' = [snap EXCEPT ![t] = FALSE]
    /\ Goto(t, "run")
    /\ UNCHANGED <<lockVars, mapped, usage, users, inFault, scan, frames,
                   calls>>

Quiet(t) == pc[t] = "run" /\ frames[t] = << >>

(* resfile_unload_all at the end of a step of parse_resfile, after         *)
(* wait_for_all_threads: whatever is loaded is unmapped, its users are     *)
(* forgotten, and the account is cleared.  The next step runs new threads. *)
UnloadAll ==
    /\ \A t \in Thread : Quiet(t)
    /\ gcLock = NoThread
    /\ mapped' = mapped \ needUnload
    /\ needUnload' = {}
    /\ users' = [b \in Sibuf |-> IF b \in needUnload THEN {} ELSE users[b]]
    /\ usage' = 0
    /\ calls' = [t \in Thread |-> 0]
    /\ UNCHANGED <<lockVars, pc, callVars, frames>>

(* What a thread does once it is inside the cache code. *)
Inside(t) ==
    \/ LoadError(t) \/ LoadHit(t) \/ LoadMiss(t)
    \/ NoRoom(t) \/ Map(t)
    \/ GcStart(t) \/ GcScan(t) \/ GcEnd(t) \/ Again(t)
    \/ HandlerDrop(t) \/ Retry(t) \/ StatusStore(t)

Next ==
    \/ \E t \in Thread :
          \/ Inside(t)
          \/ Drop(t)
          \/ \E b \in Sibuf : Hold(t, b) \/ Touch(t, b) \/ StatusLoad(t, b)
    \/ UnloadAll

Spec == Init /\ [][Next]_vars

(* A thread in the cache code keeps running, and a caller that holds an    *)
(* image eventually drops it.  A thread that waits for gc_lock gets it:    *)
(* whoever spins for room sleeps outside the lock between two attempts.    *)
Progress(t) ==
    /\ WF_vars(NoRoom(t) \/ Map(t))
    /\ WF_vars(GcScan(t) \/ GcEnd(t))
    /\ WF_vars(HandlerDrop(t) \/ Retry(t) \/ StatusStore(t))
    /\ WF_vars(Drop(t))
    /\ SF_vars(LoadError(t) \/ LoadHit(t) \/ LoadMiss(t))
    /\ SF_vars(GcStart(t))
    /\ SF_vars(Again(t))

FairSpec == Spec /\ \A t \in Thread : Progress(t)

-----------------------------------------------------------------------------
(* An image stays mapped as long as a caller whose hold succeeded has not  *)
(* dropped it, whatever other threads hold, drop, collect or fault on.     *)
HeldIsMapped ==
    \A t \in Thread : \A i \in DOMAIN frames[t] :
        frames[t][i].how # "error" => frames[t][i].buf \in mapped

(* sibuf.users names exactly the threads that still have to drop: a stale  *)
(* user would keep the image mapped for ever, a missing one would let it   *)
(* go too early.                                                           *)
MustDrop(t, b) ==
    \/ \E i \in DOMAIN frames[t] : frames[t][i] = [buf |-> b, how |-> "first"]
    \/ pc[t] = "ehdrop" /\ target[t] = b

UsersAreHolders ==
    \A b \in Sibuf : users[b] = {t \in Thread : MustDrop(t, b)}

PagesOf(b) == {b} \X (1..Size[b])
Footprint(S) == Cardinality(UNION {PagesOf(b) : b \in S})

(* The account never falls behind the pages that are mapped, so the limit  *)
(* sibuf_loaded_max holds for the pages themselves.                        *)
WithinLimit ==
    /\ Footprint(mapped) <= usage
    /\ usage <= MaxLoaded

(* A step that unmaps an image happens when no caller may be reading it.   *)
UnmapsOnlyUnused ==
    [][\A b \in mapped \ mapped' : users[b] = {}]_vars

(* The images a thread may read: its successful holds, not dropped yet.    *)
HeldBy(t) == {frames[t][i].buf :
                 i \in {j \in DOMAIN frames[t] : frames[t][j].how # "error"}}

(* The cache keeps the promise of SibufLease: nested holds of one image    *)
(* count once and end with the outermost drop, and a collection never      *)
(* takes an image from a holder.                                           *)
Lease == INSTANCE SibufLease WITH
    loaded <- mapped, held <- [t \in Thread |-> HeldBy(t)]
ImplementsLease == Lease!Spec

(* A hold returns, however many threads compete for the room: no thread    *)
(* waits for ever.  The exception is the status store: when it has written *)
(* a stale need_unload bit back, pages may stay that nobody collects.      *)
HoldsReturn ==
    \A t \in Thread :
        (pc[t] = "enter" /\ ~ inFault[t]) ~> (pc[t] = "run" \/ mapped # needUnload)

(* An instruction that faulted on an image completes in the end.           *)
FaultsAreRepaired ==
    \A t \in Thread : pc[t] = "retry" ~> pc[t] = "run"

=============================================================================
