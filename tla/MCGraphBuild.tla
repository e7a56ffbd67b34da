----------------------------- MODULE MCGraphBuild -----------------------------
(***************************************************************************)
(* Nodes for GraphBuild: every kind, objects named twice by one node and   *)
(* by several, tensor arrays that can fail after one or two tensors.       *)
(***************************************************************************)
EXTENDS GraphBuild

CONSTANTS a, x, e  \* a library buffer, an external one, an event

MCDescs ==
    {Dispatch(<<a, x>>), MPSGraph(<<x, x>>, <<a, x>>), Copy(x, a), Fill(x), Event(e), Barrier}

===============================================================================
