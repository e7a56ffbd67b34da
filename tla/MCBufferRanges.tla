---------------------------- MODULE MCBufferRanges ----------------------------
(***************************************************************************)
(* Sizes of 4 bits for BufferRanges: 13 plus 4 wraps to 1.                 *)
(***************************************************************************)
EXTENDS BufferRanges, TLC

R(rel, count, alignment) == [rel |-> rel, count |-> count, alignment |-> alignment]

(* Absent; exact; behind the binding and more aligned than it; of unknown   *)
(* extent; so far behind that the offset wraps; with a bad alignment.       *)
MCResources == {NoResource, R(0, 4, 0), R(4, 4, 8), R(4, 0, 1), R(13, 4, 1), R(0, 4, 3)}

MCPlainResources == {NoResource, R(0, 4, 0)}

(* 1, 2 and 3 floats; 18 and 5, whose bytes wrap to 8 and 4; no shape.      *)
MCShapes == {<<1>>, <<1, 2>>, <<3>>, <<3, 6>>, <<5>>, <<0>>, <<>>}

MCFlagSets == {{}, {"buffer"}, {"range"}, {"buffer", "range"}, {"grid"}}

Symmetric == Permutations(Buffers)

===============================================================================
