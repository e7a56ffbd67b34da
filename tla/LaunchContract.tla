---------------------------- MODULE LaunchContract ----------------------------
(***************************************************************************)
(* What the run-time promises its caller (docs/metal_graph_api_spec_v0.md, *)
(* Phase 0, 3 and 4 semantics): a launch executes the commands the exec    *)
(* held when it was launched, each once and in order, whether or not an    *)
(* indirect command buffer is used; a patch replaces one command, affects  *)
(* future launches only and waits for the launches the caller was given;   *)
(* only a fault of the host or the GPU makes a launch fail or lose         *)
(* commands; synchronisation succeeds only after the last command of a     *)
(* launch that lost none.                                                  *)
(***************************************************************************)
EXTENDS Naturals, Sequences

CONSTANTS Execs, Launches, Commands, None, HostFaults, GpuFaults

VARIABLES
    program,   \* the commands each exec would launch now
    owner,     \* the exec of a launch, or None
    script,    \* the commands the launch stands for
    executed,  \* the commands the GPU has executed for it, in order
    lost,      \* a command buffer of the launch ended in error
    status     \* "none", "open", "returned", "failed" or "synchronized"

vars == <<program, owner, script, executed, lost, status>>

Init ==
    /\ program = [e \in Execs |-> <<>>]
    /\ owner = [l \in Launches |-> None]
    /\ script = [l \in Launches |-> <<>>]
    /\ executed = [l \in Launches |-> <<>>]
    /\ lost = [l \in Launches |-> FALSE]
    /\ status = [l \in Launches |-> "none"]

(* An exec is instantiated before it is launched, and never again.          *)
Instantiate(e) ==
    /\ program[e] = <<>> /\ \A l \in Launches : owner[l] # e
    /\ program'[e] \in Seq(Commands)
    /\ program' = [program EXCEPT ![e] = program'[e]]
    /\ UNCHANGED <<owner, script, executed, lost, status>>

(* A patch puts one command in the place of another when the GPU has        *)
(* finished every launch of the exec that the caller was given.             *)
Patch(e) ==
    /\ \A l \in Launches :
          owner[l] = e => status[l] # "open" /\ (status[l] = "returned" => executed[l] = script[l])
    /\ DOMAIN program'[e] = DOMAIN program[e]
    /\ \E k \in DOMAIN program[e] :
          /\ program'[e][k] \in Commands
          /\ program' = [program EXCEPT ![e][k] = program'[e][k]]
    /\ UNCHANGED <<owner, script, executed, lost, status>>

(* Launches that are under way keep what they have to execute.              *)
Destroy(e) ==
    /\ \A l \in Launches : owner[l] = e => status[l] # "open"
    /\ program' = [program EXCEPT ![e] = <<>>]
    /\ UNCHANGED <<owner, script, executed, lost, status>>

Launch(e, l) ==
    /\ status[l] = "none"
    /\ status' = [status EXCEPT ![l] = "open"]
    /\ owner' = [owner EXCEPT ![l] = e]
    /\ script' = [script EXCEPT ![l] = program[e]]
    /\ UNCHANGED <<program, executed, lost>>

Execute(l) ==
    /\ Len(executed[l]) < Len(script[l])
    /\ executed' = [executed EXCEPT ![l] = Append(@, script[l][Len(@) + 1])]
    /\ UNCHANGED <<program, owner, script, lost, status>>

(* A command buffer ends in error: the commands it had still to execute are *)
(* those that come next, and what was submitted after them stays.           *)
Lose(l) ==
    /\ GpuFaults /\ status[l] \notin {"none", "synchronized"}
    /\ lost' = [lost EXCEPT ![l] = TRUE]
    /\ \E n \in Len(executed[l])..Len(script[l]) :
          script' = [script EXCEPT ![l] = executed[l] \o SubSeq(@, n + 1, Len(@))]
    /\ UNCHANGED <<program, owner, executed, status>>

Return(l) ==
    /\ status[l] = "open"
    /\ status' = [status EXCEPT ![l] = "returned"]
    /\ UNCHANGED <<program, owner, script, executed, lost>>

(* A failed launch may leave any prefix of its commands to be executed.     *)
Fail(l) ==
    /\ status[l] = "open" /\ (HostFaults \/ lost[l])
    /\ status' = [status EXCEPT ![l] = "failed"]
    /\ \E n \in Len(executed[l])..Len(script[l]) : script' = [script EXCEPT ![l] = SubSeq(@, 1, n)]
    /\ UNCHANGED <<program, owner, executed, lost>>

Synchronize(l) ==
    /\ status[l] = "returned" /\ ~lost[l] /\ executed[l] = script[l]
    /\ status' = [status EXCEPT ![l] = "synchronized"]
    /\ UNCHANGED <<program, owner, script, executed, lost>>

Next ==
    \/ \E e \in Execs :
          Instantiate(e) \/ Patch(e) \/ Destroy(e) \/ \E l \in Launches : Launch(e, l)
    \/ \E l \in Launches : Execute(l) \/ Lose(l) \/ Return(l) \/ Fail(l) \/ Synchronize(l)

Spec == Init /\ [][Next]_vars
==============================================================================
