----------------------------- MODULE FlasherGuard -----------------------------
(***************************************************************************)
(* The guard against DSM's firmware flashers (cmd/vibeldr-init/guard.go):  *)
(* it follows the installer's log, and for a while after every line that   *)
(* says a checksum passed it puts a stub in place of the programs. The     *)
(* installer unpacks the programs, checks them, says so, and seconds later *)
(* runs them; it may be made to try again; its log may be cut at any time. *)
(*                                                                         *)
(* The guard looks ten times a second. What the installer does in between is *)
(* bounded by the number of looks the guard has had (`looks`).             *)
(***************************************************************************)
EXTENDS Integers, FiniteSets, SequencesExt

CONSTANTS
    Flashers,   \* the programs the patterns match
    Summed,     \* those the installer's checksums cover
    MaxAttempts,\* installs tried
    MaxLog,     \* pieces of lines in the log
    MaxCuts     \* times the log is cut

ASSUME FlashersAssumption == Summed \subseteq Flashers /\ Summed # {}

\* Looks the guard has at least in the seconds before a program is checked, and
\* before it runs.
LooksBeforeCheck == 2
LooksBeforeRun == 3

VARIABLES
    file,     \* file[p]: "none", "program" or "stub"
    log,      \* pieces of lines: "half" and "rest" of a line that says the checksum
              \* passed, "line" another
    install,    \* the installer: "idle", "unpack", "half", "passed", "failed" or "done"
    looks,    \* the guard's looks since the installer's last step
    attempts, cuts,
    guard,    \* [burst, own]: whether it replaces programs, for this attempt's line
    offset, partial, \* follow: what it has read, the piece without its end
    unhandled,     \* lines read that say so and are not yet dealt with
    overlap,  \* history: a burst for an earlier line was on when this attempt unpacked
    ran       \* history: what ran

guardVars == <<file, log, install, looks, attempts, cuts, guard, offset, partial, unhandled, overlap, ran>>

GuardInit ==
    /\ file = [p \in Flashers |-> "none"] /\ log = <<>> /\ install = "idle" /\ looks = 0
    /\ attempts = 0 /\ cuts = 0 /\ guard = [burst |-> FALSE, own |-> FALSE]
    /\ offset = 0 /\ partial = <<>> /\ unhandled = 0 /\ overlap = FALSE /\ ran = {}

(***************************************************************************)
(* The installer.                                                          *)
(***************************************************************************)

\* A log that was cut does not grow back to where the guard was between two of
\* its looks; while it is busy replacing programs it may.
Says(piece) ==
    /\ Len(log) < MaxLog /\ (guard.burst \/ Len(log) + 1 # offset)
    /\ log' = Append(log, piece)

\* A line that says nothing of a checksum.
Chatter ==
    /\ install # "half" /\ Says("line")
    /\ UNCHANGED <<file, install, looks, attempts, cuts, guard, offset, partial, unhandled, overlap, ran>>

\* A log is not cut within a tenth of a second of the line either.
Cut ==
    /\ install # "half" /\ (install = "passed" => looks > 0) /\ cuts < MaxCuts /\ cuts' = cuts + 1 /\ log' = <<>>
    /\ UNCHANGED <<file, install, looks, attempts, guard, offset, partial, unhandled, overlap, ran>>

\* The package unpacked, what was there of an earlier attempt written over.
Unpack ==
    /\ install = "idle" /\ attempts < MaxAttempts
    /\ \E there \in SUBSET Flashers :
          /\ Summed \subseteq there
          /\ file' = [p \in Flashers |-> IF p \in there THEN "program" ELSE file[p]]
    /\ install' = "unpack" /\ looks' = 0 /\ attempts' = attempts + 1
    /\ overlap' = guard.burst /\ guard' = [guard EXCEPT !.own = FALSE]
    /\ UNCHANGED <<log, cuts, offset, partial, unhandled, ran>>

\* The checksum passes, and the first half of the line is in the log.
CheckPasses ==
    /\ install = "unpack" /\ looks >= LooksBeforeCheck
    /\ \A p \in Summed : file[p] = "program"
    /\ Says("half") /\ install' = "half"
    /\ UNCHANGED <<file, looks, attempts, cuts, guard, offset, partial, unhandled, overlap, ran>>

CheckFails ==
    /\ install = "unpack" /\ looks >= LooksBeforeCheck
    /\ \E p \in Summed : file[p] = "stub"
    /\ install' = "failed"
    /\ UNCHANGED <<file, log, looks, attempts, cuts, guard, offset, partial, unhandled, overlap, ran>>

LineEnds ==
    /\ install = "half" /\ Says("rest") /\ install' = "passed" /\ looks' = 0
    /\ UNCHANGED <<file, attempts, cuts, guard, offset, partial, unhandled, overlap, ran>>

\* A program the checksums do not cover may come later still.
UnpackLate(p) ==
    /\ install = "passed" /\ p \notin Summed /\ file[p] # "program"
    /\ file' = [file EXCEPT ![p] = "program"] /\ looks' = 0
    /\ UNCHANGED <<log, install, attempts, cuts, guard, offset, partial, unhandled, overlap, ran>>

Run ==
    /\ install = "passed" /\ looks >= LooksBeforeRun
    /\ ran' = ran \cup {file[p] : p \in Flashers} /\ install' = "done"
    /\ UNCHANGED <<file, log, looks, attempts, cuts, guard, offset, partial, unhandled, overlap>>

\* Somebody tries again, at once or much later.
Again ==
    /\ install \in {"failed", "done"} /\ attempts < MaxAttempts /\ install' = "idle"
    /\ UNCHANGED <<file, log, looks, attempts, cuts, guard, offset, partial, unhandled, overlap, ran>>

(***************************************************************************)
(* The guard.                                                              *)
(***************************************************************************)

Looks == looks' = IF looks < LooksBeforeRun THEN looks + 1 ELSE looks

\* What a look finds: the file from the last one's end on, behind a piece kept
\* then; all of the file when it has got shorter.
NewText ==
    IF Len(log) < offset THEN log ELSE partial \o SubSeq(log, offset + 1, Len(log))

\* Mutant: any line is taken for one that says the checksum passed.
SaidAnything(text) == Len(text)

Said(text) == Cardinality({i \in 2 .. Len(text) : text[i - 1] = "half" /\ text[i] = "rest"})

Unfinished(text) == IF text # <<>> /\ Last(text) = "half" THEN <<"half">> ELSE <<>>

Polled(text, kept) ==
    /\ ~guard.burst
    /\ offset' = Len(log) /\ partial' = kept
    /\ unhandled' = Said(text)
    /\ guard' = [burst |-> Said(text) > 0, own |-> Said(text) > 0 /\ install = "passed"]
    /\ Looks
    /\ UNCHANGED <<file, log, install, attempts, cuts, overlap, ran>>

\* Mutant: a piece without its end is forgotten.
PollWhole == Polled(IF Len(log) < offset THEN log ELSE SubSeq(log, offset + 1, Len(log)), <<>>)

\* One look of follow.
Poll == Polled(NewText, Unfinished(NewText))

\* Mutant: programs are replaced one look long.
RoundOnce ==
    /\ guard.burst
    /\ file' = [p \in Flashers |-> IF file[p] = "none" THEN "none" ELSE "stub"]
    /\ guard' = [burst |-> FALSE, own |-> FALSE] /\ unhandled' = 0 /\ Looks
    /\ UNCHANGED <<log, install, attempts, cuts, offset, partial, overlap, ran>>

\* Every program there is becomes the stub, by a rename: one that runs does not
\* hinder it.
Round ==
    /\ guard.burst
    /\ file' = [p \in Flashers |-> IF file[p] = "none" THEN "none" ELSE "stub"]
    /\ Looks
    /\ UNCHANGED <<log, install, attempts, cuts, guard, offset, partial, unhandled, overlap, ran>>

\* The minute is over: it is longer than from the line to the program. The next
\* line that was read with it gets its own.
BurstEnds ==
    /\ guard.burst /\ ~(guard.own /\ install = "passed")
    /\ unhandled' = unhandled - 1 /\ guard' = [burst |-> unhandled > 1, own |-> FALSE]
    /\ UNCHANGED <<file, log, install, looks, attempts, cuts, offset, partial, overlap, ran>>

GuardNext ==
    \/ Chatter \/ Cut \/ Unpack \/ CheckPasses \/ CheckFails \/ LineEnds \/ Run \/ Again
    \/ \E p \in Flashers : UnpackLate(p)
    \/ Poll \/ Round \/ BurstEnds

GuardSpec == GuardInit /\ [][GuardNext]_guardVars

(***************************************************************************)
(* Properties.                                                             *)
(***************************************************************************)

\* No firmware flasher ever runs, in whatever pieces the line comes, however the
\* log is cut, in a later attempt as in the first: "what matters is that the next
\* exec meets the stub".
NoFlash == "program" \notin ran

\* "Replacing it too early fails that checksum": a check never fails on the
\* guard's stub, unless the attempt began within the minute after the line of an
\* earlier one.
ChecksumHolds == install = "failed" => overlap
=============================================================================
