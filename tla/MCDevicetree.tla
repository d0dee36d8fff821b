---------------------------- MODULE MCDevicetree -----------------------------
(***************************************************************************)
(* Model checking of Devicetree: every tree of a root with up to three     *)
(* nodes, one of which may have children, of two names, with and without   *)
(* the properties that matter, and structure blocks that are cut short or  *)
(* out of order.                                                           *)
(***************************************************************************)
EXTENDS Devicetree

Begin(name) == <<[token |-> "BEGIN_NODE"], [token |-> "NAME", base |-> name]>>
End == <<[token |-> "END_NODE"]>>
Prop(name, v) == <<[token |-> "PROP", prop |-> name, value |-> v]>>
Nop == <<[token |-> "NOP"]>>
Stop == <<[token |-> "END"]>>

Tree(name, props, children) == Begin(name) \o props \o children \o End

Virtio == Prop("compatible", {"virtio,mmio"})
Reg == Prop("reg", 0)

LeafProps ==
    {<<>>, Virtio \o Reg, Nop \o Reg \o Prop("status", "disabled") \o Virtio,
     Prop("cells", 1) \o Virtio \o Reg \o Prop("status", "okay")}

Leaves == {Tree(name, props, <<>>) : name \in {"cpu", "bus"}, props \in LeafProps}

\* A bus, or a cpu, with children.
Inner ==
    {Tree(name, props, first \o second) :
        name \in {"cpu", "bus"}, props \in {<<>>, Prop("cells", 1)},
        first \in Leaves, second \in {Nop, Tree("cpu", Virtio \o Reg, <<>>)}}

Root(props, children) == Tree("", props, children) \o Stop

Trees ==
    {Root(props, a \o b \o c) :
        props \in {<<>>, Prop("cells", 3)}, a \in Leaves \cup {<<>>}, b \in Inner \cup {<<>>},
        c \in {<<>>, Tree("cpu", Reg \o Virtio, <<>>), Tree("bus", <<>>, Tree("cpu", Virtio, <<>>))}}

\* Cut off inside a node, with END in a node, with a property after a child, right
\* after it or after a NOP, with two of one name, and without a node.
Malformed ==
    {Begin("") \o Begin("cpu") \o Virtio,
     Begin("") \o Begin("cpu") \o Virtio \o Stop,
     Begin("") \o Begin("bus") \o Reg \o Stop,
     Begin("") \o Tree("cpu", Virtio, <<>>) \o Nop,
     Tree("", Reg, Tree("cpu", Virtio, <<>>) \o Reg) \o Stop,
     Tree("", Reg, Tree("cpu", Virtio, <<>>) \o Nop \o Reg \o Tree("cpu", Virtio, <<>>)) \o Stop,
     Root(<<>>, Tree("cpu", Virtio \o Prop("status", "okay") \o Prop("status", "disabled"), <<>>)),
     Stop, Reg \o Stop}

MCBlobs == Trees \cup Malformed
MCTargets == {[by |-> "name", name |-> "cpu"], [by |-> "compatible", name |-> "virtio,mmio"]}
=============================================================================
