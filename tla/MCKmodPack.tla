---------------------------- MODULE MCKmodPack ----------------------------
(***************************************************************************)
(* PackSelection over every small input: indexes of up to three modules    *)
(* with any dependencies, and two devices; and of four modules, which can  *)
(* need one another deeper than the limit.                                 *)
(***************************************************************************)
EXTENDS PackSelection, TLC

CONSTANTS Modules, d1, d2, s1

Seqs(S) == {Sorted(T) : T \in SUBSET S}
AtMostOne(S) == {{}} \cup {{e} : e \in S}

Indexes(names, deps(_), drives, needs, exports) ==
  LET all == [deps : UNION {deps(n) : n \in names}, drives : drives, needs : needs, exports : exports]
  IN  {idx \in [names -> all] : \A n \in names : idx[n].deps \in deps(n)}

AnyDeps(n) == Seqs(Modules \ {n})
FewDeps(n) == {Sorted(T) : T \in AtMostOne(Modules \ {n})}
More == Modules \cup {4}
OneOfMore(n) == {Sorted(T) : T \in AtMostOne(More \ {n})}

\* Two modules, or three; the third may be missing from the pack.
ByDevice == UNION {Indexes(names, AnyDeps, SUBSET Devices, {{}}, {{}}) : names \in {Modules, Modules \ {3}}}
BySymbol == Indexes(Modules, FewDeps, AtMostOne(Devices), AtMostOne(Symbols), AtMostOne(Symbols))

ResolveInputs ==
  [kind : {"resolve"}, idx : ByDevice, devices : {Devices}, loaded : AtMostOne(Modules), prefer : AtMostOne(Modules)]
    \cup [kind : {"resolve"}, idx : BySymbol, devices : {Devices}, loaded : {{}}, prefer : {{}}]
    \cup [kind : {"resolve"}, idx : Indexes(More, OneOfMore, AtMostOne({d1}), {{}}, {{}}), devices : {Devices},
          loaded : {{}}, prefer : {{}}]
ByNameInputs ==
  [kind : {"byname"}, idx : UNION {Indexes(names, AnyDeps, {{}}, {{}}, {{}}) : names \in {Modules, Modules \ {3}}},
   names : UNION {SetToSeqs(T) : T \in SUBSET Modules}, first : SetToSeqs(Modules)]
MCInputs == ResolveInputs \cup ByNameInputs
=============================================================================
