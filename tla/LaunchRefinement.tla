--------------------------- MODULE LaunchRefinement ---------------------------
(***************************************************************************)
(* GraphLaunch implements LaunchContract. The script of a launch is what   *)
(* its command buffers hold, followed, while mgGraphLaunch still encodes   *)
(* it, by what the remaining nodes of the exec will encode.                *)
(***************************************************************************)
EXTENDS GraphLaunch, SequencesExt

(* What a node adds to a command buffer.                                    *)
Encoded(n) == IF Encodes(n) THEN <<CommandOf(n)>> ELSE <<>>

(* The commands the nodes from the i-th on encode.                          *)
ScriptFrom(ns, i) == FlattenSeq([k \in 1..Len(ns) - i + 1 |-> Encoded(ns[i + k - 1])])

(* What a command buffer has executed, and what it will have at its end.    *)
Ran(cb)  == SubSeq(cb.cmds, 1, cb.pos)
Runs(cb) == IF cb.st = "error" THEN Ran(cb) ELSE cb.cmds

Executed(l)  == FlattenSeq([k \in DOMAIN cbs[l] |-> Ran(cbs[l][k])])
Submitted(l) == FlattenSeq([k \in DOMAIN cbs[l] |-> Runs(cbs[l][k])])

ToEncode(l) ==
    IF lstate[l] = "encoding" THEN call.open \o ScriptFrom(NodesOf(l), call.i) ELSE <<>>

Script(l) == Submitted(l) \o ToEncode(l)

Lost(l) == \E k \in DOMAIN cbs[l] : cbs[l][k].st = "error"

ContractStatus(l) ==
    CASE lstate[l] = "none"     -> "none"
      [] lstate[l] = "encoding" -> "open"
      [] lstate[l] = "failed"   -> "failed"
      [] OTHER                  -> IF report[l] = "ok" THEN "synchronized" ELSE "returned"

Contract == INSTANCE LaunchContract WITH
    Commands <- Command,
    program  <- [e \in Execs |-> ScriptFrom(nodes[e], 1)],
    owner    <- lexec,
    script   <- [l \in Launches |-> Script(l)],
    executed <- [l \in Launches |-> Executed(l)],
    lost     <- [l \in Launches |-> Lost(l)],
    status   <- [l \in Launches |-> ContractStatus(l)]

(* Every behaviour of the run-time is one the contract allows: patches and  *)
(* the captured indirect commands never change what a launch executes, no   *)
(* command is repeated or reordered across the command buffers an MPSGraph  *)
(* node splits a launch into, none is lost but to a failing command buffer, *)
(* and synchronisation succeeds last, for a launch that lost none.          *)
ImplementsContract == Contract!Spec
==============================================================================
