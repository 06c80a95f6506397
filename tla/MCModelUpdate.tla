--------------------------- MODULE MCModelUpdate ---------------------------
EXTENDS ModelUpdate, TLC

CONSTANTS rb, rc, rf, ri

Plain(kind, parent, ends) ==
  [kind |-> kind, parent |-> parent, ends |-> ends, val |-> 0, ans |-> 0]

\* A boundary with a component in it and a conduit from the root, a component
\* beside it and a flow between the two components.
FlowAcross ==
  0 :> Plain("root", 0, Empty) @@ 1 :> Plain("boundary", 0, Empty) @@
  2 :> Plain("component", 1, Empty) @@ 3 :> Plain("component", 0, Empty) @@
  4 :> Plain("flow", 0, <<2, 3>>)
RootConduit == {<<0, 1>>}

\* Two boundaries, one in the other, with a conduit, and a data item.
Nested ==
  0 :> Plain("root", 0, Empty) @@ 1 :> Plain("boundary", 0, Empty) @@
  2 :> Plain("boundary", 1, Empty) @@ 3 :> Plain("item", 0, Empty)
InnerConduit == {<<1, 2>>}

\* Two boundaries, one in the other, and a component beside the inner one:
\* two moves, the first of them refused, put each boundary in the other.
Crossed ==
  0 :> Plain("root", 0, Empty) @@ 1 :> Plain("boundary", 0, Empty) @@
  2 :> Plain("boundary", 1, Empty) @@ 3 :> Plain("component", 1, Empty)

Component == rc :> "component"
BoundaryAndComponent == rb :> "boundary" @@ rc :> "component"
OneOfEach == BoundaryAndComponent @@ rf :> "flow" @@ ri :> "item"
=============================================================================
