---------------------------- MODULE MCGraphLaunch ----------------------------
(***************************************************************************)
(* Small instances of GraphLaunch for TLC: two buffers, one event and the  *)
(* graphs below, in the topological order instantiation gives their nodes. *)
(***************************************************************************)
EXTENDS LaunchRefinement

CONSTANTS a, b, ev

MkNode(kind, objs, flags) ==
    [kind |-> kind, objs |-> objs, range |-> 0, val |-> 0, flags |-> flags, binds |-> "declared"]

EventNode(kind, value) == [MkNode(kind, <<ev>>, {}) EXCEPT !.val = value]

Barrier   == MkNode("barrier", <<>>, {})
Workspace == MkNode("workspace", <<>>, {})

StaticDispatch  == <<MkNode("dispatch", <<a>>, {})>>
PatchedDispatch == <<MkNode("dispatch", <<a>>, {"buffer"})>>
GridDispatch    == <<MkNode("dispatch", <<a>>, {"grid"})>>
ScalarDispatch  == <<[MkNode("dispatch", <<a>>, {"scalar"}) EXCEPT !.binds = "scalars"]>>
UnknownDispatch == <<[MkNode("dispatch", <<a>>, {}) EXCEPT !.binds = "undeclared"]>>
BarrierOnly     == <<Barrier>>
CopyBuffers     == <<MkNode("copy", <<a, b>>, {"buffer"})>>
FillRange       == <<MkNode("fill", <<b>>, {"range"})>>
FillValue       == <<MkNode("fill", <<b>>, {"value"})>>
CopyFill        == <<MkNode("copy", <<a, b>>, {"range"}), Barrier, MkNode("fill", <<b>>, {})>>
FillMpsCopy     == <<MkNode("fill", <<a>>, {}), MkNode("mpsgraph", <<a, b>>, {}),
                     MkNode("copy", <<b, a>>, {})>>
FillMps         == <<MkNode("fill", <<a>>, {"buffer"}), MkNode("mpsgraph", <<b>>, {})>>
MpsMps          == <<MkNode("mpsgraph", <<a, b>>, {}), MkNode("mpsgraph", <<b, a>>, {})>>
WorkspaceFill   == <<Workspace, MkNode("workspace_fill", <<b>>, {})>>
SignalWaitMps   == <<EventNode("signal", 1), EventNode("wait", 1),
                     MkNode("mpsgraph", <<a>>, {})>>
WaitFill        == <<EventNode("wait", 1), MkNode("fill", <<a>>, {})>>
SignalValue     == <<[EventNode("signal", 1) EXCEPT !.flags = {"value"}]>>

SignalOnly      == <<EventNode("signal", 1)>>

(* Launches are interchangeable.                                            *)
LaunchSymmetry == Permutations(Launches)

LifecyclePrograms == {<<>>, CopyFill, FillMps, FillMpsCopy, MpsMps, WorkspaceFill,
                      StaticDispatch, PatchedDispatch, GridDispatch, ScalarDispatch,
                      UnknownDispatch, CopyBuffers, FillRange, FillValue, SignalValue}
CrossPrograms     == {WaitFill, SignalOnly}
BarrierPrograms   == {BarrierOnly}
MpsPrograms       == {MpsMps}
DispatchPrograms  == {StaticDispatch}
StreamPrograms    == {SignalWaitMps, FillMpsCopy, BarrierOnly}
FaultPrograms     == {StaticDispatch, FillMps, MpsMps}
=============================================================================
