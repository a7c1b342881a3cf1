------------------------------ MODULE NodePool ------------------------------
(***************************************************************************)
(* What the controllers promise about compute nodes, whatever the          *)
(* interleaving of their threads: a node is idle or belongs to one job,    *)
(* and it changes hands only through the pool of idle nodes.               *)
(***************************************************************************)
CONSTANTS
  Node, Job,
  Unregistered, \* its slurmd has not registered
  Idle,         \* in the resource string of its controller
  Lost          \* in no string and of no job any more

VARIABLE owner

Init == owner = [n \in Node |-> Unregistered]

\* Some nodes go from one owner to another, all at once.
Move(from, to) ==
  /\ owner' \in [Node -> Job \cup {Unregistered, Idle, Lost}]
  /\ \A n \in Node : owner'[n] # owner[n] => owner[n] = from /\ owner'[n] = to

Register    == Move(Unregistered, Idle)
Take(j)     == Move(Idle, j)
GiveBack(j) == Move(j, Idle)
Lose(from)  == Move(from, Lost)

Next ==
  \/ Register
  \/ \E j \in Job : Take(j) \/ GiveBack(j)
  \/ \E o \in Job \cup {Idle} : Lose(o)

Spec == Init /\ [][Next]_owner
=============================================================================
