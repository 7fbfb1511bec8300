---------------------------- MODULE RootfsCache ----------------------------
(***************************************************************************)
(* What the rootfs cache promises its clients.  Each slot is empty or      *)
(* holds the image it is named after, never a part of one or another one.  *)
(* A client is answered with a chain only at a moment its image is in the  *)
(* slot; images may be evicted at any time, also while clients hold an     *)
(* answer.                                                                 *)
(***************************************************************************)
CONSTANTS Clients, Chains, Nil

VARIABLES
    slot,       \* [Chains -> Chains \cup {Nil}]
    answer      \* [Clients -> Chains \cup {Nil}]

cvars == <<slot, answer>>

Init ==
    /\ slot = [c \in Chains |-> Nil]
    /\ answer = [k \in Clients |-> Nil]

(* A client builds the image and is answered with it. *)
Publish(k, c) ==
    /\ slot' = [slot EXCEPT ![c] = c]
    /\ answer' = [answer EXCEPT ![k] = c]

(* A client finds the image. *)
Hit(k, c) ==
    /\ slot[c] = c
    /\ answer' = [answer EXCEPT ![k] = c]
    /\ UNCHANGED slot

(* A client forgets its answer: it took it, failed or died. *)
Drop(k) ==
    /\ answer' = [answer EXCEPT ![k] = Nil]
    /\ UNCHANGED slot

Evict(c) ==
    /\ slot' = [slot EXCEPT ![c] = Nil]
    /\ UNCHANGED answer

Next ==
    \/ \E k \in Clients, c \in Chains : Publish(k, c) \/ Hit(k, c)
    \/ \E k \in Clients : Drop(k)
    \/ \E c \in Chains : Evict(c)

Spec == Init /\ [][Next]_cvars
=============================================================================
