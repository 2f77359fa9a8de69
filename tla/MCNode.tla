------------------------------- MODULE MCNode -------------------------------
(***************************************************************************)
(* A GUI node with two more applications, a file node, a hub at either     *)
(* end of an IP link, and a hub with a USB port.                           *)
(***************************************************************************)
EXTENDS Node

CONSTANTS launcher, mandelbrot, services

VARIABLE bench

\* The launcher has no timers and no pixmaps.
MCAskLimit == (launcher :> 0) @@ (services :> 2) @@ (mandelbrot :> 3)

\* The nodes to look at: their kind, their managers, their end of the link.
MCNodes == {<<"gui", {}, Client>>, <<"hub", {"ip"}, Server>>, <<"hub", {"ip"}, Client>>, <<"files", {}, Client>>,
            <<"hub", {"usb"}, Server>>}

\* A GUI node after a while: the launcher has been closed, two applications
\* have timers.
Busy ==
  /\ kind = "gui" /\ parts = {} /\ here = Client /\ main = "up"
  /\ IpInit /\ UsbInit
  /\ box = <<>> /\ kernel = "read" /\ krun = TRUE /\ wake = Never /\ timers = <<>> /\ now = 0
  /\ tasks = Apps /\ windows = Apps \ {Launcher}
  /\ thread = [t \in Threads |-> IF t = Service THEN "frame"
                                 ELSE IF t = Launcher THEN "over" ELSE "work"]
  /\ run = [t \in Threads |-> t # Launcher] /\ mail = [t \in Threads |-> {}]
  /\ armed = [t \in Apps |-> FALSE] /\ asks = [t \in Apps |-> 0]

MCInit ==
  \/ bench = "node" /\ Init /\ <<kind, parts, here>> \in MCNodes
  \/ bench = "timers" /\ Busy

\* On the second bench applications only ask for timers and cancel them.
TimersOnly ==
  /\ Turn \/ Tick \/ \E t \in Apps : (\E d \in Delays : Arm(t, d)) \/ Disarm(t) \/ ReadTimer(t)
  /\ UNCHANGED <<ipVars, usbVars, main, stay>>

MCNext ==
  /\ bench' = bench
  /\ (bench = "node" /\ Next) \/ (bench = "timers" /\ TimersOnly)

MCSpec == MCInit /\ [][MCNext]_<<vars, bench>> /\ Fairness
=============================================================================
