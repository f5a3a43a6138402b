------------------------------ MODULE Warehouse ------------------------------
(***************************************************************************)
(* The static part of the simulated warehouse and the vocabulary every     *)
(* other module shares: requests and the bin each one asks for, stacks as  *)
(* sequences of bins (last = top), and the actions the strategy hands to   *)
(* the event handler.  No variables.                                       *)
(*                                                                         *)
(* Requests are numbered in arrival order (requests_/request_generator.py  *)
(* hands out ascending ids over ascending arrival times), so "the request  *)
(* with the smallest id" is also "the one that arrived first".             *)
(***************************************************************************)
EXTENDS Integers, Sequences, FiniteSets

CONSTANTS
    NumRequests,      \* requests of the run, numbered 1 .. NumRequests
    Robots,           \* robot ids, integers: the scheduler scans them in order
    Bins,             \* the bins of the store
    Stacks,           \* the storage stacks (port cells are not stacks)
    Stations,         \* the pickstations
    Target,           \* [Requests -> Bins], request.target_box_id
    MaxStackHeight,   \* config.max_stack_height
    None              \* Python's None

Requests == 1 .. NumRequests

ASSUME WarehouseAssumption ==
    /\ NumRequests \in Nat
    /\ Robots \subseteq Int
    /\ Target \in [Requests -> Bins]
    /\ MaxStackHeight \in Nat
    /\ Stations # {}
    /\ None \notin Robots \cup Bins \cup Stacks \cup Stations \cup Requests

----------------------------------------------------------------------------
(* Storage *)

Top(bins) == bins[Len(bins)]

Holds(stack, s, b) == \E i \in DOMAIN stack[s] : stack[s][i] = b

\* The stack a bin lies on, None while it lies on no stack (robot or station).
StackOf(stack, b) ==
    IF \E s \in Stacks : Holds(stack, s, b)
    THEN CHOOSE s \in Stacks : Holds(stack, s, b)
    ELSE None

OnTop(stack, s, b) == stack[s] # <<>> /\ Top(stack[s]) = b

HasCapacity(stack, s) == Len(stack[s]) < MaxStackHeight

----------------------------------------------------------------------------
(* Actions.  "unbury" is the relocate action with the flag unbury set;     *)
(* "return_blocker" and "return_target" are type "return" with the two     *)
(* values of return_kind.  Two answers stand for exceptions: "raise" for   *)
(* the RuntimeError of a consistency check, "no_stack" for that of a       *)
(* selector without a candidate.                                           *)

Action(type, b, s1, s2) == [type |-> type, bin |-> b, from |-> s1, to |-> s2]

\* What a robot carries out with a PICKUP and a DROP event.
PhysicalActions ==
    [type : {"relocate", "unbury", "return_blocker"},
     bin : Bins, from : Stacks, to : Stacks]
      \cup [type : {"remove_target"}, bin : Bins, from : Stacks, to : {None}]
      \cup [type : {"return_target"}, bin : Bins, from : {None}, to : Stacks]

\* What a ROBOT_ACTION event carries.
FetchActions ==
    [type : {"pickup_from_pickstation"}, bin : Bins, from : {None}, to : {None}]

CompleteActions ==
    [type : {"request_complete"}, bin : Bins, from : {None}, to : {None}]

NoAction == Action("none", None, None, None)
Raise    == Action("raise", None, None, None)
NoStack  == Action("no_stack", None, None, None)

\* The answers of the strategy.
Answers == PhysicalActions \cup CompleteActions \cup {NoAction, Raise, NoStack}

IsRelocate(a) == a.type \in {"relocate", "unbury"}
IsReturn(a)   == a.type \in {"return_blocker", "return_target"}
IsPhysical(a) == IsRelocate(a) \/ IsReturn(a) \/ a.type = "remove_target"
=============================================================================
