------------------------------ MODULE MCBoots ------------------------------
(***************************************************************************)
(* What a boot of the loader leaves for the next and for DSM: requests,    *)
(* the hand-over, the boot device's nodes and the flasher guard.  They     *)
(* share no state; a behaviour follows one of them and the others rest at  *)
(* a state they start from.                                                *)
(***************************************************************************)
EXTENDS BootRequests, HandOver, BootNodes, FlasherGuard, TLC

CONSTANTS unblock, disable, loader, other

VARIABLE focus

MCTasks == {unblock, disable}
MCDiskNames == 1 .. 2
MCPartsOf == (loader :> 3) @@ (other :> 3)

\* Which name the loader's disk has first makes no difference.
Symmetry == Permutations(Disks)

MCInit ==
    /\ focus \in {"requests", "handover", "nodes", "guard"}
    /\ Init /\ (focus # "requests" => \A t \in Tasks : db[t] = None)
    /\ HandOverInit /\ (focus # "handover" => disk = CHOOSE d \in Disks : TRUE)
    /\ NodesInit /\ (focus # "nodes" => mark = "none")
    /\ GuardInit

MCNext ==
    \/ focus = "requests" /\ Next /\ UNCHANGED <<focus, handOverVars, nodeVars, guardVars>>
    \/ focus = "handover" /\ HandOverNext /\ UNCHANGED <<focus, vars, nodeVars, guardVars>>
    \/ focus = "nodes" /\ NodesNext /\ UNCHANGED <<focus, vars, handOverVars, guardVars>>
    \/ focus = "guard" /\ GuardNext /\ UNCHANGED <<focus, vars, handOverVars, nodeVars>>

MCSpec == MCInit /\ [][MCNext]_<<focus, vars, handOverVars, nodeVars, guardVars>>
=============================================================================
