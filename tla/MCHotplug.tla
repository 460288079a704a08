----------------------------- MODULE MCHotplug -----------------------------
(***************************************************************************)
(* Hotplug with a device of two interfaces (a network card's control and   *)
(* data, one driver on a common module) and one interface of another       *)
(* device on the same common module.                                       *)
(***************************************************************************)
EXTENDS Hotplug, TLC

CONSTANTS control, data, other, usbnet, cdc, asix

MCInterfaces == {control, data, other}
MCChain == (control :> <<usbnet, cdc>>) @@ (data :> <<usbnet, cdc>>)
             @@ (other :> <<usbnet, asix>>)
=============================================================================
