------------------------------ MODULE StepStream ------------------------------
(***************************************************************************)
(* What a warp-specialised kernel promises its consumers: a window of      *)
(* Window K-steps, in which steps become ready in any order, every         *)
(* consumer takes them in order, and a step is published over an older one *)
(* only when every consumer has taken that.  No parities, no barriers.     *)
(***************************************************************************)
EXTENDS Integers

CONSTANTS Consumers, Window, Total

VARIABLES
    ready,  \* the steps published so far
    taken   \* taken[c]: how many steps consumer c is done with

vars == <<ready, taken>>

Init == ready = {} /\ taken = [c \in Consumers |-> 0]

Publish(step) ==
    /\ step \notin ready
    /\ \A c \in Consumers : step < taken[c] + Window
    /\ ready' = ready \cup {step}
    /\ UNCHANGED taken

Take(c) ==
    /\ taken[c] \in ready
    /\ taken' = [taken EXCEPT ![c] = @ + 1]
    /\ UNCHANGED ready

Next == (\E step \in 0 .. Total - 1 : Publish(step)) \/ (\E c \in Consumers : Take(c))

Spec == Init /\ [][Next]_vars
=============================================================================
