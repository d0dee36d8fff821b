---------------------------- MODULE PageOwnership ----------------------------
(***************************************************************************)
(* What MemoryAllocator promises its callers: RAM is handed out in blocks  *)
(* that are wholly free at that moment, and a block that is given back is  *)
(* free again, or lost for good, but never anything else.                  *)
(***************************************************************************)
EXTENDS Integers

CONSTANT Ram    \* the addresses setup_memory hands to the allocator

VARIABLES
    available,  \* the addresses that are free
    owned       \* the blocks that callers hold

vars == <<available, owned>>

Bytes(b) == b.start..b.end

Init == available = {} /\ owned = {}

GiveRam ==
    /\ available = {} /\ owned = {}
    /\ available' = Ram
    /\ UNCHANGED owned

Reserve ==
    /\ \E a, b \in available : available' = available \ (a..b)
    /\ UNCHANGED owned

Allocate ==
    \E a, b \in available :
        /\ a <= b /\ a..b \subseteq available
        /\ available' = available \ (a..b)
        /\ owned' = owned \cup {[start |-> a, end |-> b]}

Release ==
    \E b \in owned :
        /\ owned' = owned \ {b}
        /\ available' \in {available, available \cup Bytes(b)}

Next == GiveRam \/ Reserve \/ Allocate \/ Release

Spec == Init /\ [][Next]_vars
=============================================================================
