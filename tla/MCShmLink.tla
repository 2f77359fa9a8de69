------------------------------ MODULE MCShmLink ------------------------------
(* Two processes and the three slots of a channel. *)
EXTENDS ShmLink, TLC

CONSTANTS hub, gui, HubLimit, GuiLimit

Limit == (hub :> HubLimit) @@ (gui :> GuiLimit)
=============================================================================
