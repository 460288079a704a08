--------------------------- MODULE MCInstallFlow ---------------------------
(***************************************************************************)
(* Small instances of InstallFlow for TLC: two models on two kernels, that *)
(* may have the same serial.                                               *)
(***************************************************************************)
EXTENDS InstallFlow, TLC

CONSTANTS m1, m2, s1, k1, k2

MCModels == {m1, m2}
MCOneSerial == {s1}
MCSharedSerial == (m1 :> {s1}) @@ (m2 :> {s1})
MCTwoKernels == (m1 :> k1) @@ (m2 :> k2)

\* A model goes with its kernel; which of the two pairs is which is no matter.
Symmetry == {(m1 :> a) @@ (m2 :> b) @@ (k1 :> c) @@ (k2 :> d) :
               <<a, b, c, d>> \in {<<m1, m2, k1, k2>>, <<m2, m1, k2, k1>>}}
=============================================================================
