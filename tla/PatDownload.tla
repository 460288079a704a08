----------------------------- MODULE PatDownload -----------------------------
(***************************************************************************)
(* Fetcher.Fetch (internal/pat/fetch.go): a .pat downloaded next to its    *)
(* place, `dest`, as a .part that the next run continues, checked against a*)
(* sum when one is known, and renamed. Runs follow one another with another*)
(* URL or sum for the same place, and may be killed at any moment.         *)
(*                                                                         *)
(* A file is a sequence of blocks, each known by the file it is of.        *)
(***************************************************************************)
EXTENDS Integers, SequencesExt

CONSTANTS
    Urls,
    BlocksOf,  \* BlocksOf[u]: the file at u
    Unchecked, \* no sum is known
    NoFile

ASSUME UrlsAssumption ==
    /\ \A u \in Urls : BlocksOf[u] \in Seq(Nat \X Nat) /\ BlocksOf[u] # <<>>
    /\ Unchecked \notin {BlocksOf[u] : u \in Urls}

VARIABLES
    dest, part, \* the file and its .part: blocks, or NoFile
    fetch,      \* the running call, or NoFile
    fetched     \* history: how the last call ended and what it was for

downloadVars == <<dest, part, fetch, fetched>>

DownloadInit == dest = NoFile /\ part = NoFile /\ fetch = NoFile /\ fetched = NoFile

Offset == IF part = NoFile THEN 0 ELSE Len(part)

Matches(file, want) == want = Unchecked \/ file = want

\* A call that finds its file already there, with the sum it wants.
FetchFound(u, want) ==
    /\ fetch = NoFile /\ dest \notin {NoFile, <<>>} /\ Matches(dest, want)
    /\ fetched' = [ok |-> TRUE, want |-> want, url |-> u]
    /\ UNCHANGED <<dest, part, fetch>>

\* Otherwise a file with another sum is removed, and the request asks for what
\* the .part lacks.
Request(u, want) ==
    /\ fetch = NoFile
    /\ dest \in {NoFile, <<>>} \/ ~Matches(dest, want)
    /\ dest' = IF dest = <<>> THEN dest ELSE NoFile
    /\ fetch' = [url |-> u, want |-> want, at |-> "asked", left |-> <<>>, length |-> 0]
    /\ fetched' = NoFile /\ UNCHANGED part

Ends(ok) ==
    /\ fetch' = NoFile
    /\ fetched' = [ok |-> ok, want |-> fetch.want, url |-> fetch.url]

File == BlocksOf[fetch.url]
Sent(ranged) == SubSeq(File, IF ranged THEN Offset + 1 ELSE 1, Len(File))

\* The length the finished .part should have; 0 when the server did not say.
Length(announced) == IF announced THEN Len(File) ELSE 0

\* The server sends the rest, or all of the file, in which case the .part is
\* begun again; with or without its length.
Answer(ranged, announced) ==
    /\ fetch # NoFile /\ fetch.at = "asked"
    /\ ranged => Offset \in 1 .. Len(File) - 1
    /\ part' = IF ranged THEN part ELSE <<>>
    /\ fetch' = [fetch EXCEPT !.at = "body", !.left = Sent(ranged), !.length = Length(announced)]
    /\ UNCHANGED <<dest, fetched>>

Receive ==
    /\ fetch # NoFile /\ fetch.at = "body" /\ fetch.left # <<>>
    /\ part' = Append(part, Head(fetch.left))
    /\ fetch' = [fetch EXCEPT !.left = Tail(@)]
    /\ UNCHANGED <<dest, fetched>>

\* Mutant: what has arrived is not checked.
BodyEndsUnchecked ==
    /\ fetch # NoFile /\ fetch.at = "body"
    /\ fetch.left = <<>> \/ fetch.length = 0
    /\ IF fetch.length > 0 /\ Len(part) # fetch.length THEN Ends(FALSE) /\ UNCHANGED part
       ELSE /\ fetch' = [fetch EXCEPT !.at = "finalise"] /\ UNCHANGED <<part, fetched>>
    /\ UNCHANGED dest

\* The body ends, where its length was not announced perhaps too soon. A .part
\* of another length than announced stays; one with another sum is removed.
BodyEnds ==
    /\ fetch # NoFile /\ fetch.at = "body"
    /\ fetch.left = <<>> \/ fetch.length = 0
    /\ IF fetch.length > 0 /\ Len(part) # fetch.length THEN Ends(FALSE) /\ UNCHANGED part
       ELSE IF ~Matches(part, fetch.want) THEN Ends(FALSE) /\ part' = NoFile
       ELSE /\ fetch' = [fetch EXCEPT !.at = "finalise"] /\ UNCHANGED <<part, fetched>>
    /\ UNCHANGED dest

Finalise ==
    /\ fetch # NoFile /\ fetch.at = "finalise"
    /\ dest' = part /\ part' = NoFile /\ Ends(TRUE)

\* Any step fails - no answer, an error status (416 for a range behind the end
\* among them), a broken line, a full disk, a rename that is refused - or the
\* program is killed; dest and the .part are as they were.
FetchCut ==
    /\ fetch # NoFile /\ Ends(FALSE) /\ UNCHANGED <<dest, part>>

Wants(u) == {BlocksOf[u], Unchecked}

DownloadNext ==
    \/ \E u \in Urls : \E want \in Wants(u) : FetchFound(u, want) \/ Request(u, want)
    \/ \E ranged, announced \in BOOLEAN : Answer(ranged, announced)
    \/ Receive \/ BodyEnds \/ Finalise \/ FetchCut

DownloadSpec == DownloadInit /\ [][DownloadNext]_downloadVars

(***************************************************************************)
(* Property.                                                               *)
(***************************************************************************)

\* A fetch with a sum that succeeds leaves exactly that file, whatever .part an
\* earlier one of another URL, cut off or killed, left to be continued.
FetchedIsWanted ==
    fetched # NoFile /\ fetched.ok /\ fetched.want # Unchecked => dest = fetched.want
=============================================================================
