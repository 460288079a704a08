------------------------------ MODULE PackMerge ------------------------------
(***************************************************************************)
(* `MergeOriginals` (internal/kmod/originals.go): Synology's own modules,  *)
(* taken from the .pat, put into a driver pack, the modules that go in     *)
(* found by a list of what is left to look at. A merged pack may be merged *)
(* with the same originals again.                                          *)
(*                                                                         *)
(* A pack maps names of modules to whose build it holds; an original is    *)
(* [deps, hardware, wrong]: what it depends on, whether it has a device's  *)
(* alias, and whether it is built for another kernel release.              *)
(***************************************************************************)
EXTENDS FiniteSets

CONSTANTS
    KeepOurs,  \* keepOurs: modules the loader replaces on purpose
    OurPacks,  \* the packs there may be
    Originals  \* the originals a .pat may have

VARIABLES
    ours,   \* the pack given
    orig,   \* the originals
    doing,   \* "start", "take" or "merged"
    todo,   \* modules to look at; which is the next makes no difference
    take,   \* the originals to add
    merged, \* [pack, list]: the pack written, and the list of its originals
    before  \* the pack the merge before was given and what it gave, or <<>>

mergeVars == <<ours, orig, doing, todo, take, merged, before>>

\* A name in both is replaced, unless ours is kept (rules 1, 2 and 5).
Replaced == {n \in DOMAIN orig \cap DOMAIN ours : n \notin KeepOurs /\ ~orig[n].wrong}

\* An original we do not have and that drives hardware (rule 3).
Drivers == {n \in DOMAIN orig \ DOMAIN ours : orig[n].hardware /\ ~orig[n].wrong}

\* An original that may be added.
Addable(n) == n \in DOMAIN orig /\ ~orig[n].wrong /\ n \notin DOMAIN ours

MergeInit ==
    /\ ours \in OurPacks /\ orig \in Originals
    /\ doing = "start" /\ todo = {} /\ take = {} /\ merged = <<>> /\ before = <<>>

\* Mutant: what a replacement depends on is not looked at.
BeginMergeAlone ==
    /\ doing = "start" /\ doing' = "take"
    /\ todo' = Drivers /\ take' = {}
    /\ UNCHANGED <<ours, orig, merged, before>>

\* The drivers, and what the replacements depend on (rule 4).
BeginMerge ==
    /\ doing = "start" /\ doing' = "take"
    /\ todo' = Drivers \cup UNION {orig[n].deps : n \in Replaced} /\ take' = {}
    /\ UNCHANGED <<ours, orig, merged, before>>

\* Mutant: an original built for another release is taken when something needs it.
TakeNextAny ==
    /\ doing = "take"
    /\ \E n \in todo :
          LET goesIn == n \in DOMAIN orig \ DOMAIN ours /\ n \notin take
          IN  /\ todo' = (todo \ {n}) \cup IF goesIn THEN orig[n].deps ELSE {}
              /\ take' = take \cup IF goesIn THEN {n} ELSE {}
    /\ UNCHANGED <<ours, orig, doing, merged, before>>

\* One name of the list; what goes in puts its own dependencies on it.
TakeNext ==
    /\ doing = "take"
    /\ \E n \in todo :
          LET goesIn == Addable(n) /\ n \notin take
          IN  /\ todo' = (todo \ {n}) \cup IF goesIn THEN orig[n].deps ELSE {}
              /\ take' = take \cup IF goesIn THEN {n} ELSE {}
    /\ UNCHANGED <<ours, orig, doing, merged, before>>

\* Mutant: only what was not in the pack before is listed.
FinishMergeNew ==
    /\ doing = "take" /\ todo = {} /\ doing' = "merged"
    /\ merged' = [pack |-> [n \in DOMAIN ours \cup take |->
                               IF n \in Replaced \cup take THEN "original" ELSE ours[n]],
                  list |-> take]
    /\ UNCHANGED <<ours, orig, todo, take, before>>

\* The pack with the originals in it, and their list.
FinishMerge ==
    /\ doing = "take" /\ todo = {} /\ doing' = "merged"
    /\ merged' = [pack |-> [n \in DOMAIN ours \cup take |->
                               IF n \in Replaced \cup take THEN "original" ELSE ours[n]],
                  list |-> Replaced \cup take]
    /\ UNCHANGED <<ours, orig, todo, take, before>>

\* The merged pack, with the same originals.
Again ==
    /\ doing = "merged" /\ before = <<>> /\ doing' = "start"
    /\ ours' = merged.pack /\ before' = <<[ours |-> ours, merged |-> merged]>> /\ merged' = <<>>
    /\ UNCHANGED <<orig, todo, take>>

MergeNext ==
    \/ BeginMerge \/ TakeNext \/ FinishMerge \/ Again
    \/ doing = "merged" /\ before # <<>> /\ UNCHANGED mergeVars

MergeSpec == MergeInit /\ [][MergeNext]_mergeVars

(***************************************************************************)
(* Properties.                                                             *)
(***************************************************************************)

\* originals.go, rules 4 and 5: what an original that goes in depends on is
\* there, and no original of another kernel release is.
MergeClosed ==
    doing = "merged" => \A n \in merged.list :
        /\ ~orig[n].wrong
        /\ \A d \in orig[n].deps \cap DOMAIN orig : orig[d].wrong \/ d \in DOMAIN merged.pack

\* Rules 1 to 4: an original goes in for a name the pack has, for hardware, or
\* for one that goes in; modules internal to Synology do not.
NothingMore ==
    doing = "merged" => \A S \in SUBSET (DOMAIN merged.pack \ DOMAIN ours) :
        (/\ Drivers \subseteq S
         /\ \A n \in Replaced \cup S : {d \in orig[n].deps : Addable(d)} \subseteq S)
        => DOMAIN merged.pack = DOMAIN ours \cup S

\* "Merging a pack that already has originals in it gives the same pack again",
\* its list included, when the pack had its own build of the modules it means
\* to keep before the first merge.
MergedOnce ==
    doing = "merged" /\ before # <<>> /\ KeepOurs \cap DOMAIN orig \subseteq DOMAIN before[1].ours =>
        merged = before[1].merged

\* originals.go: a merged pack has what its originals need and nothing more, and
\* merging is done once and for all.
MergeSound == MergeClosed /\ NothingMore /\ MergedOnce
=============================================================================
