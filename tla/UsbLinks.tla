------------------------------ MODULE UsbLinks ------------------------------
(***************************************************************************)
(* The USB link manager of a node, with one port.                          *)
(*                                                                         *)
(* The manager looks at the devices every now and then.  A device it does  *)
(* not have a link for gets one; a link whose device is not there is       *)
(* stopped, joined and thrown away.  Devices are told apart by their kind  *)
(* and the port: one that is put in the place of another is the same.      *)
(***************************************************************************)
EXTENDS Integers

CONSTANT MaxPlugs  \* bound: how many cables are plugged in

ASSUME UsbAssumption == MaxPlugs \in Nat

VARIABLES
  port,     \* the number of the cable in the port, or 0
  plugs,    \* how many cables there have been
  usb,      \* the manager: where its run is, m_running
  ulink,    \* the link of the port: is it there, the cable it has opened,
            \* m_running, the two threads, is it known to the router
  swapped   \* history: a cable was put in before the last was missed

usbVars == <<port, plugs, usb, ulink, swapped>>

NoUsbLink == [there |-> FALSE, cable |-> 0, on |-> FALSE, sender |-> FALSE,
              receiver |-> FALSE, known |-> FALSE]

UsbInit ==
  /\ port = 0 /\ plugs = 0 /\ swapped = FALSE
  /\ usb = [at |-> "off", on |-> FALSE]
  /\ ulink = NoUsbLink

Plug ==
  /\ port = 0 /\ plugs < MaxPlugs
  /\ port' = plugs + 1 /\ plugs' = plugs + 1
  /\ swapped' = (ulink.there /\ ulink.on)
  /\ UNCHANGED <<usb, ulink>>

Unplug ==
  /\ port # 0
  /\ port' = 0
  /\ UNCHANGED <<plugs, usb, ulink, swapped>>

\* The constructor opens the device, its threads start.
FreshLink == [there |-> TRUE, cable |-> port, on |-> TRUE, sender |-> TRUE,
              receiver |-> TRUE, known |-> FALSE]

Found == ulink.there /\ port # 0

\* A look at the devices: a new link, or the end of an old one.
Scan ==
  /\ usb.at = "loop" /\ usb.on
  /\ \/ ~ulink.there /\ port # 0 /\ ulink' = FreshLink /\ UNCHANGED usb
     \/ ulink.there /\ ~Found /\ ulink' = [ulink EXCEPT !.on = FALSE]
        /\ usb' = [usb EXCEPT !.at = "purge"]
  /\ UNCHANGED <<port, plugs, swapped>>

UsbJoined == ~ulink.sender /\ ~ulink.receiver

Purge ==
  /\ usb.at = "purge" /\ UsbJoined
  /\ ulink' = NoUsbLink
  /\ usb' = [usb EXCEPT !.at = "loop"]
  /\ UNCHANGED <<port, plugs, swapped>>

UsbClose ==
  /\ usb.at = "loop" /\ ~usb.on
  /\ ulink' = [ulink EXCEPT !.on = FALSE]
  /\ usb' = [usb EXCEPT !.at = "close"]
  /\ UNCHANGED <<port, plugs, swapped>>

UsbEnd ==
  /\ usb.at = "close" /\ UsbJoined
  /\ ulink' = NoUsbLink
  /\ usb' = [usb EXCEPT !.at = "over"]
  /\ UNCHANGED <<port, plugs, swapped>>

UsbManager == Scan \/ Purge \/ UsbClose \/ UsbEnd

\* A transfer comes from the device that was opened, or fails; it does not
\* clear m_running.  The router learns who sends.
UsbReceive ==
  /\ ulink.receiver /\ ulink.on /\ port = ulink.cable
  /\ ulink' = [ulink EXCEPT !.known = TRUE]
  /\ UNCHANGED <<port, plugs, usb, swapped>>

\* Mistake: a transfer is tried again until it succeeds.
TriesAgain == ulink.on \/ port # ulink.cable

\* A thread goes on, with a transfer or the next, until m_running is cleared.
GoesOn == ulink.on

UsbSendEnds ==
  /\ ulink.sender /\ ~GoesOn
  /\ ulink' = [ulink EXCEPT !.sender = FALSE]
  /\ UNCHANGED <<port, plugs, usb, swapped>>

UsbReceiveEnds ==
  /\ ulink.receiver /\ ~GoesOn
  /\ ulink' = [ulink EXCEPT !.receiver = FALSE, !.known = FALSE]
  /\ UNCHANGED <<port, plugs, usb, swapped>>

UsbThreads == UsbReceive \/ UsbSendEnds \/ UsbReceiveEnds

-----------------------------------------------------------------------------
(* Properties.                                                             *)

UsbTypeOK ==
  /\ plugs \in 0 .. MaxPlugs /\ port \in 0 .. plugs /\ swapped \in BOOLEAN
  /\ usb \in [at : {"off", "loop", "purge", "close", "over"}, on : BOOLEAN]
  /\ ulink \in [there : BOOLEAN, cable : 0 .. plugs, on : BOOLEAN, sender : BOOLEAN,
                receiver : BOOLEAN, known : BOOLEAN]
=============================================================================
