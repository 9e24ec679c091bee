----------------------------- MODULE SibufLease -----------------------------
(***************************************************************************)
(* What the sibuf cache promises to its callers, with no locks, user lists *)
(* or accounts: while a thread has acquired an image and not released it,  *)
(* the image is loaded.  Images nobody has acquired come and go.           *)
(***************************************************************************)
CONSTANTS Thread, Sibuf

VARIABLES
    loaded,   \* the images that can be read
    held      \* held[t]: the images t acquired and has not released

vars == <<loaded, held>>

Init == loaded = {} /\ held = [t \in Thread |-> {}]

Holders(b) == {t \in Thread : b \in held[t]}

Acquire(t, b) ==
    /\ loaded' = loaded \cup {b}
    /\ held' = [held EXCEPT ![t] = @ \cup {b}]

Release(t, b) ==
    /\ b \in held[t]
    /\ held' = [held EXCEPT ![t] = @ \ {b}]
    /\ UNCHANGED loaded

(* Loaded on behalf of a thread that only touched it. *)
Prefetch(b) ==
    /\ loaded' = loaded \cup {b}
    /\ UNCHANGED held

Collect(b) ==
    /\ Holders(b) = {}
    /\ loaded' = loaded \ {b}
    /\ UNCHANGED held

CollectAll ==
    /\ \A b \in Sibuf : Holders(b) = {}
    /\ loaded' = {}
    /\ UNCHANGED held

Next ==
    \/ \E t \in Thread, b \in Sibuf : Acquire(t, b) \/ Release(t, b)
    \/ \E b \in Sibuf : Prefetch(b) \/ Collect(b)
    \/ CollectAll

Spec == Init /\ [][Next]_vars

(* What a thread holds can be read. *)
Readable == \A t \in Thread : held[t] \subseteq loaded

=============================================================================
