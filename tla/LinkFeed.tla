-------------------------------- MODULE LinkFeed --------------------------------
(***************************************************************************)
(* What a subscriber of type NlType::link is promised, whatever the kernel *)
(* does and however the monitor is built: about each interface name it     *)
(* hears "up" first and then "down" and "up" in turn, it hears "add" first *)
(* and then "delete" and "add" in turn, and an interface is "add"ed        *)
(* (operational) only while it is administratively "up".                   *)
(***************************************************************************)
CONSTANT Name       \* interface names

VARIABLES admin,    \* admin[n]: the last of "up", "down" heard about n
          oper      \* oper[n]: the last of "add", "delete" heard about n

vars == <<admin, oper>>

Init ==
    /\ admin = [n \in Name |-> "none"]
    /\ oper = [n \in Name |-> "none"]

\* The other value of a feed that alternates between on and off.
Flip(word, on, off) == IF word = on THEN off ELSE on

\* One notification from the kernel about n: the administrative word, the
\* operational word or both change, together.
Announce(n) ==
    /\ \/ admin' = admin
       \/ admin' = [admin EXCEPT ![n] = Flip(@, "up", "down")]
    /\ \/ oper' = oper
       \/ oper' = [oper EXCEPT ![n] = Flip(@, "add", "delete")]
    /\ oper'[n] = "add" => admin'[n] = "up"

Next == \E n \in Name : Announce(n)

Spec == Init /\ [][Next]_vars
=================================================================================
