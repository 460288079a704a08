---------------------------- MODULE BootstrapBuild ----------------------------
(***************************************************************************)
(* `vibeldr bootstrap` (cmd/vibeldr/main.go): the helper and vibeldr-boot  *)
(* built again when their sources are newer, then the image's other parts  *)
(* from mirrors and from what earlier runs kept of them                    *)
(* (internal/image/kernel_generic.go and scemd.go). Someone may edit the   *)
(* sources at any moment and a run may be killed anywhere.                 *)
(*                                                                         *)
(* Sources and binaries have times of modification; a clock moves on between *)
(* some events and not between others, as coarse as a file system's. The   *)
(* helper's sources are those of cmd/vibeldr-init and internal, the        *)
(* builder's those of cmd/vibeldr-boot and internal and the helper itself. *)
(***************************************************************************)
EXTENDS Integers, FiniteSets, Sequences

CONSTANTS
    MaxEdits,  \* edits of the sources
    MaxRuns,   \* runs of the command
    PartOrder, \* the image's other parts in the order they are fetched
    Missing,   \* no such file
    Whole,     \* a file as a mirror has it
    TornFile   \* a file cut short

Parts3 == {"init", "boot", "internal"}
HelperParts == {"init", "internal"}
BuilderParts == {"boot", "internal"}

Helpers == [of : [HelperParts -> Nat], time : Nat]
Builders == [of : [BuilderParts -> Nat], helper : Helpers \cup {Missing}, time : Nat]

ASSUME BootstrapAssumption == Missing \notin Helpers /\ Missing \notin Builders

VARIABLES
    clock,
    source,    \* source[p]: [text, time] of the newest .go file of p
    helper,    \* the helper's binary: [of, time], or Missing
    builder,   \* the vibeldr-boot binary: [of, helper, time], or Missing
    running,   \* the running command: [step, go, began, saw], or Missing
    keeps,     \* the cache: Whole, TornFile or Missing by part
    taken,     \* what this run has got of the image's parts, in their order
    burned,    \* the image, or Missing
    raced,     \* history: a source was edited while it was being compiled
    edits, runs

bootVars == <<clock, source, helper, builder, running, keeps, taken, burned, raced, edits, runs>>

Later(a, b) == IF a > b THEN a ELSE b
Cacheable == {PartOrder[i] : i \in DOMAIN PartOrder} \ {"kernel"}

BootstrapInit ==
    /\ clock = 1 /\ source = [p \in Parts3 |-> [text |-> 0, time |-> 1]]
    /\ helper \in {Missing, [of |-> [p \in HelperParts |-> 0], time |-> 1]}
    /\ builder \in {Missing, [of |-> [p \in BuilderParts |-> 0], helper |-> helper, time |-> 1]}
    /\ running = Missing /\ keeps = [f \in Cacheable |-> Missing] /\ taken = <<>>
    /\ burned = Missing /\ raced = FALSE /\ edits = 0 /\ runs = 0

Tick == clock' \in {clock, clock + 1}

Edit(p) ==
    /\ edits < MaxEdits /\ edits' = edits + 1 /\ Tick
    /\ source' = [source EXCEPT ![p] = [text |-> @.text + 1, time |-> clock']]
    /\ raced' = (raced \/ (running # Missing /\ running.step \in {"helper", "builder"}
                             /\ p \in DOMAIN running.saw))
    /\ UNCHANGED <<helper, builder, running, keeps, taken, burned, runs>>

Bootstrap(go) ==
    /\ running = Missing /\ runs < MaxRuns /\ runs' = runs + 1
    /\ running' = [step |-> "init?", go |-> go, saw |-> [p \in {} |-> 0],
                   began |-> [p \in Parts3 |-> source[p].text]]
    /\ taken' = <<>>
    /\ UNCHANGED <<clock, source, helper, builder, keeps, burned, raced, edits>>

\* The command ends with an error, or is killed.
Stop ==
    /\ running # Missing /\ running' = Missing /\ taken' = <<>>
    /\ UNCHANGED <<clock, source, helper, builder, keeps, burned, raced, edits, runs>>

(***************************************************************************)
(* The binaries.                                                           *)
(***************************************************************************)

Newest(parts) == LET times == {source[p].time : p \in parts}
                 IN  CHOOSE t \in times : \A u \in times : u <= t

\* Not there, or not newer than what it is made from.
Old(binary, than) == binary = Missing \/ binary.time <= than

\* The command at another step, with what it has seen of the sources.
AtStep(step, saw) == [step |-> step, go |-> running.go, began |-> running.began, saw |-> saw]

\* One binary looked at: kept when it is new enough, or when it is there and
\* nothing can compile another; else compiled from what the sources say now.
Check(step, building, next, binary, parts, than) ==
    /\ running # Missing /\ running.step = step
    /\ IF Old(binary, than) /\ running.go
       THEN running' = AtStep(building, [p \in parts |-> source[p].text])
       ELSE binary # Missing /\ running' = AtStep(next, running.saw)
    /\ UNCHANGED <<clock, source, helper, builder, keeps, taken, burned, raced, edits, runs>>

RebuildInitBinaryIfStale == Check("init?", "helper", "boot?", helper, HelperParts, Newest(HelperParts))

HelperBuilt ==
    /\ running # Missing /\ running.step = "helper" /\ Tick
    /\ helper' = [of |-> running.saw, time |-> clock']
    /\ running' = AtStep("boot?", running.saw)
    /\ UNCHANGED <<source, builder, keeps, taken, burned, raced, edits, runs>>

\* Mutant: the helper does not count among what the builder is made from.
RebuildBootForgetsHelper ==
    Check("boot?", "builder", "parts", builder, BuilderParts, Newest(BuilderParts))

RebuildBootBinaryIfStale ==
    Check("boot?", "builder", "parts", builder, BuilderParts,
          Later(Newest(BuilderParts), IF helper = Missing THEN 0 ELSE helper.time))

BuilderBuilt ==
    /\ running # Missing /\ running.step = "builder" /\ Tick
    /\ builder' = [of |-> running.saw, helper |-> helper, time |-> clock']
    /\ running' = AtStep("parts", running.saw)
    /\ UNCHANGED <<source, helper, keeps, taken, burned, raced, edits, runs>>

(***************************************************************************)
(* The other parts.                                                        *)
(***************************************************************************)

\* Whether what an earlier run kept is taken as it is: a certificate bundle of
\* some length, a package's file that is not empty, an extractor bundle that
\* reads as an archive to its end.
Usable(f) == keeps[f] # Missing /\ (f = "scemd" => keeps[f] # TornFile)

Fetching(f) ==
    /\ running # Missing /\ running.step = "parts"
    /\ Len(taken) < Len(PartOrder) /\ PartOrder[Len(taken) + 1] = f

\* The kernel and its modules come out of one package at each run.
FetchKernel ==
    /\ Fetching("kernel") /\ taken' = Append(taken, Whole)
    /\ UNCHANGED <<clock, source, helper, builder, running, keeps, burned, raced, edits, runs>>

FetchKept(f) ==
    /\ Fetching(f) /\ Usable(f) /\ taken' = Append(taken, keeps[f])
    /\ UNCHANGED <<clock, source, helper, builder, running, keeps, burned, raced, edits, runs>>

\* From the first mirror that has it, then kept; an error of keeping it is not
\* looked at, and the run may be killed in the middle of it.
FetchNew(f) ==
    /\ Fetching(f) /\ ~Usable(f)
    /\ \E kept \in {Whole, TornFile, keeps[f]} : keeps' = [keeps EXCEPT ![f] = kept]
    /\ taken' = Append(taken, Whole)
    /\ UNCHANGED <<clock, source, helper, builder, running, burned, raced, edits, runs>>

Burn ==
    /\ running # Missing /\ running.step = "parts"
    /\ Len(taken) = Len(PartOrder)
    /\ burned' = [boot |-> builder, parts |-> taken, go |-> running.go, began |-> running.began]
    /\ running' = Missing /\ taken' = <<>>
    /\ UNCHANGED <<clock, source, helper, builder, keeps, raced, edits, runs>>

BootstrapNext ==
    \/ \E p \in Parts3 : Edit(p)
    \/ \E go \in BOOLEAN : Bootstrap(go)
    \/ Stop \/ RebuildInitBinaryIfStale \/ HelperBuilt \/ RebuildBootBinaryIfStale \/ BuilderBuilt
    \/ FetchKernel \/ Burn
    \/ \E f \in Cacheable : FetchNew(f) \/ FetchKept(f)
    \/ running = Missing /\ runs = MaxRuns /\ UNCHANGED bootVars

BootstrapSpec == BootstrapInit /\ [][BootstrapNext]_bootVars

(***************************************************************************)
(* Property.                                                               *)
(***************************************************************************)

\* Where there is a compiler, "code fixed a moment ago" is in the image, in the
\* builder and in the helper the builder carries, whatever earlier runs were
\* killed and however close together the times are; unless a file was edited
\* while the compiler was at it, which leaves a binary newer than what it lacks.
\* An edit made during the run may be in it too.
BurnsTheFix ==
    burned # Missing /\ burned.go /\ ~raced =>
        /\ \A p \in BuilderParts : burned.boot.of[p] >= burned.began[p]
        /\ \A p \in HelperParts : burned.boot.helper.of[p] >= burned.began[p]
=============================================================================
