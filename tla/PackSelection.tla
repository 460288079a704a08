---------------------------- MODULE PackSelection ----------------------------
(***************************************************************************)
(* A pack's index read and linked, and modules selected from it: for the   *)
(* devices of a machine (ResolvePreferring) or by their names (ByName). One*)
(* step computes what an input gives; the reference says what that must be,*)
(* without the walks over the dependencies.                                *)
(***************************************************************************)
EXTENDS KmodPack

CONSTANTS
  Symbols,
  Inputs   \* [kind, idx, devices, loaded, prefer] or [kind, idx, names, first]

\* An index is finite; every one of its modules comes up in Go's map order.
ASSUME InputsAssumption ==
  \A in \in Inputs :
    /\ in.kind \in {"resolve", "byname"}
    /\ in.idx \in [DOMAIN in.idx -> [deps : Seq(Nat), drives : SUBSET Devices,
                                     needs : SUBSET Symbols, exports : SUBSET Symbols]]
    /\ DOMAIN in.idx \subseteq Nat /\ IsFiniteSet(DOMAIN in.idx)
    /\ in.kind = "byname" =>
          in.names \in Seq(Nat) /\ in.first \in Seq(Nat) /\ DOMAIN in.idx \subseteq ToSet(in.first)

VARIABLES input, output
packsVars == <<input, output>>

PacksInit == input \in Inputs /\ output = <<>>

Resolve ==
  /\ output = <<>> /\ input.kind = "resolve"
  /\ output' = <<ResolvePreferring(LinkSymbols(input.idx), input.devices, input.loaded, input.prefer)>>
  /\ UNCHANGED input

Select ==
  /\ output = <<>> /\ input.kind = "byname"
  /\ output' = <<ByName(LinkSymbols(input.idx), input.names, input.first)>>
  /\ UNCHANGED input

PacksNext == Resolve \/ Select

PacksSpec == PacksInit /\ [][PacksNext]_packsVars
-----------------------------------------------------------------------------
Answered(kind) == output # <<>> /\ input.kind = kind
Answer == output[1]
Pack == DOMAIN input.idx

\* What m needs, by its own account or for a symbol only one module supplies.
Needs(m, d) ==
  /\ d \in Pack /\ d # m
  /\ d \in ToSet(input.idx[m].deps) \/ \E s \in input.idx[m].needs : Exporters(input.idx, s) = {d}

\* The roots and what they need, as far as it is among the modules: what is in
\* every set that has the roots and is closed under needs.
Closure(modules, roots) ==
  {m \in modules : \A S \in SUBSET modules :
      roots \subseteq S /\ (\A n \in S, d \in modules : Needs(n, d) => d \in S) => m \in S}

\* More modules one behind the other, each needing the next, than the limit on
\* the depth allows for.
TooDeep(modules) ==
  \E chain \in [1 .. MaxDepth + 2 -> modules] :
    /\ IsInjective(chain)
    /\ \A i \in 1 .. MaxDepth + 1 : Needs(chain[i], chain[i + 1])

Acyclic == \A S \in SUBSET Pack \ {{}} : \E m \in S : \A d \in S : ~Needs(m, d)

Claims(n, d) == d \in input.idx[n].drives
Asked(n) ==
  \E d \in input.devices : Claims(n, d) /\ (n \in input.prefer \/ \A p \in input.prefer \cap Pack : ~Claims(p, d))

\* The modules the devices call for, with what those need and the pack has, or
\* the named ones with what they need, each once. Nothing else ever; and all of it,
\* unless the dependencies are deeper than the code follows them.
Complete ==
  /\ Answered("resolve") =>
       LET here == Pack \ input.loaded
           called == Closure(here, {n \in here : Asked(n)})
       IN  ToSet(Answer) \subseteq called /\ (ToSet(Answer) = called \/ TooDeep(here))
  /\ Answered("byname") => ToSet(Answer) = Closure(Pack, Pack \cap ToSet(input.names))
  /\ Answered("resolve") \/ Answered("byname") => IsInjective(Answer)

\* kmod.go: a module never appears before something it depends on, by its own
\* list or for a symbol; a pack whose modules need each other has no such order.
DependenciesFirst ==
  (Answered("resolve") /\ ~TooDeep(Pack \ input.loaded)) \/ Answered("byname") =>
    (Acyclic => \A i, j \in DOMAIN Answer : i < j => ~Needs(Answer[i], Answer[j]))

\* kmod.go: a load list is complete and in an order in which it can be loaded.
ClosedInOrder == Complete /\ DependenciesFirst
=============================================================================
