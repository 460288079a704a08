----------------------------- MODULE MCDiskBays -----------------------------
(***************************************************************************)
(* DiskBays for TLC: two SATA controllers, that DSM's kernel numbers the   *)
(* other way round, a SCSI card between them, three models, and four ways  *)
(* of plugging disks in.                                                   *)
(***************************************************************************)
EXTENDS DiskBays

Chipset == [name |-> "chipset", ports |-> 2, sata |-> TRUE]
Card == [name |-> "card", ports |-> 2, sata |-> TRUE]
Scsi == [name |-> "scsi", ports |-> 1, sata |-> FALSE]
MCControllers == <<Chipset, Scsi, Card>>
MCAtaOrder == <<Card, Scsi, Chipset>>
C(i) == [on |-> Chipset, index |-> i]
D(i) == [on |-> Card, index |-> i]
S(i) == [on |-> Scsi, index |-> i]
MCPlugged ==
  {<<{C(0), C(1), D(0), S(0)}, USB>>, <<{C(1), D(1)}, USB>>,
   <<{C(1), D(0), D(1)}, C(0)>>, <<{D(1), S(0)}, D(0)>>}
MCModels == {[dt |-> TRUE, bays |-> 3], [dt |-> FALSE, bays |-> 3], [dt |-> FALSE, bays |-> 2]}
=============================================================================
