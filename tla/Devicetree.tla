----------------------------- MODULE Devicetree ------------------------------
(***************************************************************************)
(* The device tree (dtb.rs): search_node and search_node_by_compatible,    *)
(* called again and again from the node found last, as init_serial_port,   *)
(* init_virtio_blk and launch_cpu do to go through all nodes of a kind,    *)
(* and the look-up of a node's properties.                                 *)
(*                                                                         *)
(* The structure block is a sequence of tokens; a property is one token    *)
(* with its name and value, and the name of a node is a token of its own   *)
(* after FDT_BEGIN_NODE, because the code gets there at different times.   *)
(* The recursion over the nodes is a stack of frames.  #address-cells and  *)
(* #size-cells are treated alike by the code and are one value here.       *)
(***************************************************************************)
EXTENDS Naturals, Sequences, FiniteSetsExt

CONSTANTS
    Blobs,          \* structure blocks
    Targets,        \* what is searched for: a name or a compatible string
    DefaultCells

Token == {"BEGIN_NODE", "NAME", "PROP", "END_NODE", "NOP", "END"}

ASSUME BlobAssumption == \A b \in Blobs : \A i \in 1..Len(b) : b[i].token \in Token

VARIABLES
    blob,
    target,         \* [by, name]
    pc,
    pointer,
    frames,         \* calls of _search_node: [start, cells]
    depth,          \* calls of _skip_to_next_node
    current,        \* the node found last: [address, cells]
    found           \* all nodes found so far

vars == <<blob, target, pc, pointer, frames, depth, current, found>>

NoNode == [address |-> 0, cells |-> DefaultCells]

Init ==
    /\ blob \in Blobs /\ target \in Targets
    /\ pc = "outer"
    /\ pointer = 1              \* get_struct_offset
    /\ frames = <<>> /\ depth = 0
    /\ current = NoNode
    /\ found = <<>>

\* read_node; past the structure block it is an error.
Read(p) == IF p <= Len(blob) THEN blob[p].token ELSE "error"
At(token) == Read(pointer) = token

Advance == pointer' = pointer + 1

\* The search returns None.
NotFound == pc' = "none" /\ UNCHANGED <<pointer, frames, depth, current, found>>

FoundNode(n) ==
    /\ pc' = "found"
    /\ current' = n /\ found' = Append(found, n)
    /\ frames' = <<>>
    /\ UNCHANGED <<pointer, depth>>

-----------------------------------------------------------------------------
(* search_node, search_node_by_compatible *)

\* The caller goes on from the node it has.
SearchAgain ==
    /\ pc = "found"
    /\ pc' = "skip" /\ pointer' = current.address /\ depth' = 1
    /\ UNCHANGED <<blob, target, frames, current, found>>

\* Mutant: a property ends the way to the end of the node.
SkipStepProps ==
    /\ pc = "skip"
    /\ \/ At("NOP") /\ Advance /\ UNCHANGED <<pc, frames, depth, current, found>>
       \/ /\ At("BEGIN_NODE") /\ Advance /\ depth' = depth + 1
          /\ UNCHANGED <<pc, frames, current, found>>
       \/ /\ At("END_NODE") /\ Advance /\ depth' = depth - 1
          /\ pc' = IF depth = 1 THEN "outer" ELSE "skip"
          /\ UNCHANGED <<frames, current, found>>
       \/ Read(pointer) \in {"PROP", "NAME", "END", "error"} /\ NotFound
    /\ UNCHANGED <<blob, target>>

\* _skip_to_next_node: to the end of the node.  It calls itself at a child
\* without passing the child's name, and fails there.
SkipStep ==
    /\ pc = "skip"
    /\ \/ Read(pointer) \in {"NOP", "PROP"} /\ Advance /\ UNCHANGED <<pc, frames, depth, current, found>>
       \/ /\ At("BEGIN_NODE") /\ Advance /\ depth' = depth + 1
          /\ UNCHANGED <<pc, frames, current, found>>
       \/ /\ At("END_NODE") /\ Advance /\ depth' = depth - 1
          /\ pc' = IF depth = 1 THEN "outer" ELSE "skip"
          /\ UNCHANGED <<frames, current, found>>
       \/ Read(pointer) \in {"NAME", "END", "error"} /\ NotFound
    /\ UNCHANGED <<blob, target>>

\* Mutant: the end of the structure block does not end the loop.
OuterStepForEver ==
    /\ pc = "outer"
    /\ \/ Read(pointer) \in {"NOP", "END_NODE"} /\ Advance /\ UNCHANGED <<pc, frames, depth, current, found>>
       \/ /\ At("BEGIN_NODE") /\ Advance /\ pc' = "name"
          /\ UNCHANGED <<frames, depth, current, found>>
       \/ At("END") /\ UNCHANGED vars
       \/ Read(pointer) \in {"PROP", "NAME", "error"} /\ NotFound
    /\ UNCHANGED <<blob, target>>

\* The loop over what follows: a node, or the end of the one around it, with
\* the cells of the node the search started from.
OuterStep ==
    /\ pc = "outer"
    /\ \/ Read(pointer) \in {"NOP", "END_NODE"} /\ Advance /\ UNCHANGED <<pc, frames, depth, current, found>>
       \/ /\ At("BEGIN_NODE") /\ Advance /\ pc' = "name"
          /\ UNCHANGED <<frames, depth, current, found>>
       \/ Read(pointer) \in {"END", "PROP", "NAME", "error"} /\ NotFound
    /\ UNCHANGED <<blob, target>>

-----------------------------------------------------------------------------
(* _search_node, _search_node_by_compatible *)

Top == frames[Len(frames)]

\* The address_cells a call is given.
CallerCells == IF frames = <<>> THEN current.cells ELSE Top.cells

\* compare_string with the delimiter "@": the name up to the unit address.
SameName(p) == target.by = "name" /\ blob[p].base = target.name

\* Mutant: the cells of the node the search came from are not replaced.
EnterNodeOuterCells ==
    /\ pc = "name"
    /\ IF SameName(pointer)
       THEN FoundNode([address |-> pointer + 1, cells |-> current.cells])
       ELSE /\ frames' = Append(frames, [start |-> pointer + 1, cells |-> current.cells])
            /\ Advance /\ pc' = "body"
            /\ UNCHANGED <<depth, current, found>>
    /\ UNCHANGED <<blob, target>>

EnterNode ==
    /\ pc = "name"
    /\ IF SameName(pointer)
       THEN FoundNode([address |-> pointer + 1, cells |-> CallerCells])
       ELSE /\ frames' = Append(frames, [start |-> pointer + 1, cells |-> CallerCells])
            /\ Advance /\ pc' = "body"
            /\ UNCHANGED <<depth, current, found>>
    /\ UNCHANGED <<blob, target>>

\* _is_device_compatible: one of the strings of the property.
Compatible(p) ==
    /\ target.by = "compatible"
    /\ blob[p].prop = "compatible" /\ target.name \in blob[p].value

\* check_address_and_size_cells.
CellsAfter(p, cells) == IF blob[p].prop = "cells" THEN blob[p].value ELSE cells

EnterChild ==
    /\ At("BEGIN_NODE") /\ Advance /\ pc' = "name"
    /\ UNCHANGED <<frames, depth, current, found>>

\* The call returns None, to the node around it or to the outer loop.
LeaveNode ==
    /\ At("END_NODE") /\ Advance
    /\ frames' = SubSeq(frames, 1, Len(frames) - 1)
    /\ pc' = IF Len(frames) = 1 THEN "outer" ELSE "body"
    /\ UNCHANGED <<depth, current, found>>

PassProperty ==
    /\ At("PROP") /\ ~Compatible(pointer) /\ Advance
    /\ frames' = [frames EXCEPT ![Len(frames)].cells = CellsAfter(pointer, @)]
    /\ UNCHANGED <<pc, depth, current, found>>

BodyStep ==
    /\ pc = "body"
    /\ \/ At("NOP") /\ Advance /\ UNCHANGED <<pc, frames, depth, current, found>>
       \/ EnterChild \/ LeaveNode \/ PassProperty
       \/ /\ At("PROP") /\ Compatible(pointer)
          /\ FoundNode([address |-> Top.start, cells |-> Top.cells])
       \/ Read(pointer) \in {"END", "error"} /\ NotFound
    /\ UNCHANGED <<blob, target>>

Search == SkipStep \/ OuterStep \/ EnterNode \/ BodyStep

Ended == pc = "none" /\ UNCHANGED vars

Next == SearchAgain \/ Search \/ Ended

\* The boot CPU, or the one that runs the console, goes on.
Spec == Init /\ [][Next]_vars /\ WF_vars(SearchAgain \/ Search)

-----------------------------------------------------------------------------
(* get_property *)

\* The properties from address on that get_property passes or returns: those
\* before the first child or the end of the node.
Reachable(address, p) ==
    /\ p \in address..Len(blob) /\ blob[p].token = "PROP"
    /\ \A q \in address..p : blob[q].token \in {"PROP", "NOP"}

\* Where property name of the node is; 0 is None.
get_property(node, name) ==
    LET at == {p \in node.address..Len(blob) : Reachable(node.address, p) /\ blob[p].prop = name}
    IN  IF at = {} THEN 0 ELSE CHOOSE p \in at : \A q \in at : p <= q

\* The cells read_reg_property uses: the node's, or those of the last
\* declaration before reg.
RegCells(node) ==
    LET reg == get_property(node, "reg")
        own == {p \in node.address..(reg - 1) : blob[p].token = "PROP" /\ blob[p].prop = "cells"}
    IN  IF own = {} THEN node.cells
        ELSE blob[CHOOSE p \in own : \A q \in own : q <= p].value

is_node_operational(node) ==
    LET p == get_property(node, "status") IN p = 0 \/ blob[p].value = "okay"

-----------------------------------------------------------------------------
(* Properties *)

\* What the structure block means, independently of the walk.  A node is
\* the place of its FDT_BEGIN_NODE.
Places(token) == {i \in 1..Len(blob) : blob[i].token = token}
Nodes == Places("BEGIN_NODE")

\* How many nodes are open after place i.
Open(i) ==
    Cardinality({n \in Nodes : n <= i}) - Cardinality({e \in Places("END_NODE") : e <= i})

Inside(n, p) == n < p /\ \A i \in n..p : Open(i) >= Open(n)
Parents(n) == {m \in Nodes : Inside(m, n)}

\* The properties of the node itself.
OwnProps(n, name) ==
    {p \in Places("PROP") : blob[p].prop = name /\ Inside(n, p) /\ Open(p) = Open(n)}

\* Nodes have a name, are closed in turn and before the end of the block.
Balanced ==
    /\ Places("END") = {Len(blob)} /\ Places("NAME") = {n + 1 : n \in Nodes}
    /\ \A i \in 1..Len(blob) : Open(i) >= 0
    /\ Open(Len(blob)) = 0

\* A node begins between the two places.
Between(i, j) == \E n \in Nodes : i < n /\ n < j

\* The properties of a node come before its children, and each name once.
WellFormed ==
    /\ Balanced
    /\ \A p \in Places("PROP") :
           /\ Open(p) > 0
           /\ \A e \in Places("END_NODE") : e < p => Between(e, p)
           /\ \A q \in Places("PROP") : q < p /\ blob[q].prop = blob[p].prop => Between(q, p)

Declared(n) == {blob[p].value : p \in OwnProps(n, "cells")}

\* The cells of n's reg: those of the nearest node around it that has any.
CellsFor(n) ==
    LET declaring == {m \in Parents(n) : Declared(m) # {}}
    IN  IF declaring = {} THEN {DefaultCells} ELSE Declared(Max(declaring))

Matches ==
    {n \in Nodes :
        IF target.by = "name" THEN blob[n + 1].base = target.name
        ELSE \E p \in OwnProps(n, "compatible") : target.name \in blob[p].value}

IsLeaf(n) == \A m \in Nodes : ~Inside(n, m)

NodeOf(i) == found[i].address - 2

(***************************************************************************)
(* Searching on from the node found last goes through the nodes of a name  *)
(* or of a compatible string in the order of the tree, without passing one *)
(* over or giving one twice; and it ends only after the last of them, if   *)
(* none of them has children.                                              *)
(***************************************************************************)
EnumeratesMatches ==
    pc \in {"found", "none"} /\ WellFormed =>
        /\ pc = "found" =>
               /\ NodeOf(Len(found)) \in Matches
               /\ {m \in Matches : m < NodeOf(Len(found))} = {NodeOf(i) : i \in 1..(Len(found) - 1)}
        /\ pc = "none" /\ (\A n \in Matches : IsLeaf(n)) =>
               Matches = {NodeOf(i) : i \in 1..Len(found)}

(***************************************************************************)
(* What is read of a node that was found is its own: its status and reg,   *)
(* never those of a child or a neighbour, and reg with the cells the node  *)
(* around it declares, as long as the nodes found so far are in the same   *)
(* node and declare no cells themselves.                                   *)
(***************************************************************************)
ReadsOwnProperties ==
    pc = "found" /\ WellFormed =>
        LET n == NodeOf(Len(found))
            regular == \A i \in 1..Len(found) :
                Parents(NodeOf(i)) = Parents(n) /\ Declared(NodeOf(i)) = {}
        IN
        /\ is_node_operational(current) <=> \A p \in OwnProps(n, "status") : blob[p].value = "okay"
        /\ (get_property(current, "reg") # 0) <=> (OwnProps(n, "reg") # {})
        /\ regular => RegCells(current) \in CellsFor(n)

(***************************************************************************)
(* Every search ends, with a node or without, and so does going through    *)
(* all of them, in a truncated or unbalanced structure block too.          *)
(***************************************************************************)
EnumerationEnds == <>(pc = "none")
=============================================================================
