---------------------------- MODULE MCKeptFiles ----------------------------
(***************************************************************************)
(* Files that outlive a run: the NVMe library, a .pat and its .part, the   *)
(* cached pack and the backups of DSM's identity.  They share no state; a  *)
(* behaviour follows one of them.                                          *)
(***************************************************************************)
EXTENDS NvmeLibrary, PatDownload, PackDownload, IdentityBackup

CONSTANTS b1, b2, x, y, w, d1, d2

VARIABLE focus

\* The board's two ports, two others and one address of another length; up to
\* three controllers, one more than there are slots.
MCBoardPorts == <<b1, b2>>

\* A file of three blocks and one of two.
MCUrls == 1 .. 2
MCBlocksOf == <<<<<<1, 1>>, <<1, 2>>, <<1, 3>>>>, <<<<2, 1>>, <<2, 2>>>>>>

MCInit == focus \in {"library", "pat", "pack", "identity"} /\ Init /\ DownloadInit /\ PackInit /\ IdentityInit

MCNext ==
    \/ focus = "library" /\ Next /\ UNCHANGED <<focus, downloadVars, packVars, identityVars>>
    \/ focus = "pat" /\ DownloadNext /\ UNCHANGED <<focus, vars, packVars, identityVars>>
    \/ focus = "pack" /\ PackNext /\ UNCHANGED <<focus, vars, downloadVars, identityVars>>
    \/ focus = "identity" /\ IdentityNext /\ UNCHANGED <<focus, vars, downloadVars, packVars>>

MCSpec == MCInit /\ [][MCNext]_<<focus, vars, downloadVars, packVars, identityVars>>
=============================================================================
