------------------------------ MODULE KmodPack ------------------------------
(***************************************************************************)
(* internal/kmod: which modules of a driver pack a machine's devices call  *)
(* for, and in what order.                                                 *)
(*                                                                         *)
(* A module is a natural number, so that the order of module names is that *)
(* of numbers.  An index maps the modules of a pack to what their .modinfo *)
(* and symbol tables say.                                                  *)
(*                                                                         *)
(* A function that calls itself is a function of the calls it may still    *)
(* nest, so that lemmas about it can be stated and proved.                 *)
(***************************************************************************)
EXTENDS Lists, SequencesExt

CONSTANTS
  Devices,   \* a device stands for its modalias
  MaxDepth   \* how deep ResolvePreferring follows dependencies (8 in the code)

ASSUME KmodAssumption == MaxDepth \in Nat

Sorted(S) == Listed(S, {p \in S \X S : p[1] < p[2]})
-----------------------------------------------------------------------------
Exporters(idx, s) == {n \in DOMAIN idx : s \in idx[n].exports}

\* LinkSymbols: the one module exporting a symbol another leaves undefined
\* becomes a dependency of it.
LinkSymbols(idx) ==
  [n \in DOMAIN idx |->
     LET deps == idx[n].deps
         sole == {b \in DOMAIN idx : \E s \in idx[n].needs : Exporters(idx, s) = {b}}
     IN  [idx[n] EXCEPT !.deps = deps \o Sorted(sole \ (ToSet(deps) \cup {n}))]]
-----------------------------------------------------------------------------
\* What a walk over the dependencies has come to: the modules it has seen, and
\* those it put out, in their order.
Walked(modules) == [seen : SUBSET modules, out : Seq(modules)]
NothingYet == [seen |-> {}, out |-> <<>>]

\* What add and visit do at a name: each of the modules once, after its
\* dependencies, in calls that nest no deeper than so many levels.
Walk(idx, modules, levels) ==
  LET call[left \in 0..levels] ==
        [name \in Nat |-> [st \in Walked(modules) |->
           IF left = 0 \/ name \in st.seen \/ name \notin modules THEN st
           ELSE LET deps == Along(idx[name].deps, call[left - 1], [st EXCEPT !.seen = @ \cup {name}])
                IN  [deps EXCEPT !.out = Append(@, name)]]]
  IN  call[levels]
-----------------------------------------------------------------------------
\* Mutant: the devices ask for preferred and other modules alike.
WantedAlike(idx, devices, loaded, prefer) ==
  {n \in DOMAIN idx : idx[n].drives \cap devices # {}} \ loaded

\* The modules the devices ask for.  A preferred module that matches a device
\* keeps the others from being wanted for it, even when it is loaded already.
Wanted(idx, devices, loaded, prefer) ==
  LET matched(d) == {n \in DOMAIN idx : d \in idx[n].drives}
      asked(d) == IF matched(d) \cap prefer # {} THEN matched(d) \cap prefer ELSE matched(d)
  IN  (UNION {asked(d) : d \in devices}) \ loaded

\* Mutant: a dependency at the limit is cut off.
AddShallow(idx, loaded) == Walk(idx, DOMAIN idx \ loaded, MaxDepth)

\* add: what is loaded is left out, and so is what is deeper than MaxDepth.
Add(idx, loaded) == Walk(idx, DOMAIN idx \ loaded, MaxDepth + 1)

\* Mutant: the sorting that makes the order deterministic is left to the end.
ResolveSorted(idx, devices, loaded, prefer) ==
  Sorted(ToSet(Along(Sorted(Wanted(idx, devices, loaded, prefer)), Add(idx, loaded), NothingYet).out))

ResolvePreferring(idx, devices, loaded, prefer) ==
  Along(Sorted(Wanted(idx, devices, loaded, prefer)), Add(idx, loaded), NothingYet).out
-----------------------------------------------------------------------------
\* addDepends: dependencies without end, the ones not in the index included. Each
\* call is for a name just added, so they nest no deeper than there are modules.
AddDepends(idx, name, into) ==
  LET call[left \in 0..Cardinality(DOMAIN idx)] ==
        [n \in Nat |-> [had \in SUBSET Nat |->
           IF left = 0 \/ n \notin DOMAIN idx THEN had
           ELSE Along(idx[n].deps,
                      [d \in Nat |-> [s \in SUBSET Nat |-> IF d \in s THEN s ELSE call[left - 1][d][s \cup {d}]]],
                      had)]]
  IN  call[Cardinality(DOMAIN idx)][name][into]

\* The names asked for that the index has, and all they depend on.
Depending(idx, names) ==
  Along(Within(names, DOMAIN idx),
        [n \in Nat |-> [into \in SUBSET Nat |-> AddDepends(idx, n, into \cup {n})]], {})

\* visit: what is not wanted is left out; a call marks its name, so that they nest
\* no deeper than there are modules.
Visit(idx, want) == Walk(idx, DOMAIN idx \cap want, Cardinality(DOMAIN idx))

\* ByName visits the wanted set in Go's map order: whatever order "first" has.
ByName(idx, names, first) == Along(first, Visit(idx, Depending(idx, names)), NothingYet).out
=============================================================================
