------------------------------- MODULE MCLan --------------------------------
(***************************************************************************)
(* The network page and the boots for TLC: two cards with keys and one     *)
(* without, in slot order, two models, and one address to type in besides  *)
(* the cards' own.                                                         *)
(***************************************************************************)
EXTENDS LanBoot

CONSTANTS a, b, v, m1, m2, m3
MCSlots == <<a, b, v>>
MCMade == <<m1, m2, m3>>
=============================================================================
