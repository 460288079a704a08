--------------------------- MODULE MCDriverPasses ---------------------------
(***************************************************************************)
(* DriverPasses with packs of three modules on a machine with a chain of   *)
(* three devices, each behind the one before, or two cards and a bus.      *)
(***************************************************************************)
EXTENDS DriverPasses, TLC

CONSTANTS d1, d2, d3

Chain == (d1 :> NoDevice) @@ (d2 :> d1) @@ (d3 :> d2)
Cards == (d1 :> NoDevice) @@ (d2 :> NoDevice) @@ (d3 :> d1)

Slow == [parent |-> Chain, prompt |-> {d2}]
AllMachines == {Slow} \cup {[parent |-> p, prompt |-> Devices] : p \in {Chain, Cards}}

Names == 1..3
Named == <<2>>
Claims == {{}, {d1}, {d2}, {d3}, {d1, d2}}
Module == [deps : {<<>>} \cup {<<n>> : n \in Names}, drives : Claims, needs : {{}}, exports : {{}}]
Acyclic(idx) ==
  \A S \in SUBSET Names \ {{}} : \E m \in S : ToSet(idx[m].deps) \cap S = {}
Indexes ==
  {idx \in [Names -> Module] : UNION {idx[n].drives : n \in Names} = Devices /\ Acyclic(idx)}

Faults == {<<{}, {}>>} \cup {<<{n}, {}>> : n \in Names} \cup {<<{}, {n}>> : n \in Names}
Plain == {[idx |-> i, prefer |-> {}, bad |-> f[1], shy |-> f[2]] : i \in Indexes, f \in Faults}
Originals == [idx : Indexes, prefer : {{n} : n \in Names}, bad : {{}, {2}}, shy : {{}}]
AnyPack == Plain \cup Originals
=============================================================================
