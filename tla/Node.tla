-------------------------------- MODULE Node --------------------------------
(***************************************************************************)
(* A node: the main function of a hub, a GUI node or a file node starts    *)
(* the kernel service, the link managers and its own service, waits until  *)
(* it is time to go, and stops and joins what it has started.              *)
(*                                                                         *)
(* The node is one end of the IP links; the other is a node that comes and *)
(* goes as it likes.                                                       *)
(***************************************************************************)
EXTENDS Kernel, IpLinks, UsbLinks

VARIABLES
  kind,   \* which main function: hub, gui, files
  parts,  \* the link managers it was told to start: ip, usb
  here,   \* the end of the IP links that is this node
  main    \* where main is

vars == <<kernelVars, ipVars, usbVars, kind, parts, here, main>>

There == Other(here)

Init ==
  /\ KernelInit /\ IpInit /\ UsbInit
  /\ kind \in {"hub", "gui", "files"} /\ parts \in SUBSET {"ip", "usb"}
  /\ here \in Ends
  /\ main = "begin"

-----------------------------------------------------------------------------
(* The main functions.                                                      *)

OwnThread == kind # "gui"
Started ==
  parts \cup (IF OwnThread THEN {"kernel"} ELSE {})
        \cup (IF kind = "hub" THEN {} ELSE {"service"})

\* The kernel starts first, except that the main function of a GUI node runs it
\* itself when the rest has been started.
Begin ==
  /\ main = "begin" /\ main' = "managers"
  /\ IF OwnThread THEN kernel' = "read" /\ krun' = TRUE ELSE UNCHANGED <<kernel, krun>>
  /\ IF kind = "hub" THEN UNCHANGED <<thread, run>>
     ELSE /\ thread' = [thread EXCEPT ![Service] = IF kind = "gui" THEN "begin" ELSE "serve"]
          /\ run' = [run EXCEPT ![Service] = TRUE]
  /\ UNCHANGED <<box, wake, timers, tasks, mail, armed, asks, windows, now, ipVars, usbVars>>

StartManagers ==
  /\ main = "managers" /\ main' = "up"
  /\ IF "ip" \in parts THEN StartManager(here) ELSE UNCHANGED ipVars
  /\ IF "usb" \in parts THEN usb' = [at |-> "loop", on |-> TRUE] ELSE UNCHANGED usb
  /\ IF OwnThread THEN UNCHANGED <<kernel, krun>> ELSE kernel' = "read" /\ krun' = TRUE
  /\ UNCHANGED <<box, wake, timers, tasks, taskVars, now, port, plugs, ulink, swapped>>

DialOut ==
  /\ main = "up" /\ "ip" \in parts /\ here = Client /\ Dial
  /\ UNCHANGED <<main, kernelVars, usbVars>>

\* Time is up; or, in a GUI node, the kernel has ended.
LeaveLoop ==
  /\ main = "up" /\ main' = "stop"
  /\ kind = "gui" => kernel = "over"
  /\ UNCHANGED <<kernelVars, ipVars, usbVars>>

StopManagers ==
  /\ main = "stop" /\ main' = "stop services"
  /\ IF "ip" \in parts THEN StopManager(here) ELSE UNCHANGED ipVars
  /\ IF "usb" \in parts THEN usb' = [usb EXCEPT !.on = FALSE] ELSE UNCHANGED usb
  /\ UNCHANGED <<kernelVars, port, plugs, ulink, swapped>>

\* stop_thread of the services, with the mail that wakes them.
StopServices ==
  /\ main = "stop services" /\ main' = "join"
  /\ IF kind = "hub" THEN UNCHANGED <<run, mail>>
     ELSE /\ run' = [run EXCEPT ![Service] = FALSE]
          /\ mail' = Stopped(Service)
  /\ IF OwnThread THEN krun' = FALSE /\ box' = Append(box, Event("exit"))
     ELSE UNCHANGED <<krun, box>>
  /\ UNCHANGED <<kernel, wake, timers, tasks, thread, armed, asks, windows, now, ipVars, usbVars>>

Over(part) ==
  CASE part = "ip"      -> manager[here].at = "over"
    [] part = "usb"     -> usb.at = "over"
    [] part = "kernel"  -> kernel = "over"
    [] part = "service" -> thread[Service] = "over"

\* The threads of managers and services have been joined.
AllJoined == \A p \in Started : Over(p)

\* main returns.  Nobody joins the threads of tasks: a message to the kernel holds
\* a reference to each Task for ever, so none is destroyed before the process ends.
Return ==
  /\ main = "join" /\ AllJoined
  /\ main' = "done"
  /\ IF "ip" \in parts THEN EndProcess(here) ELSE UNCHANGED ipVars
  /\ UNCHANGED <<kernelVars, usbVars>>

\* The thread of the file service, whose owner is a unique_ptr: after its run
\* shared_from_this throws, and nothing catches.
EndFileService ==
  /\ kind = "files" /\ thread[Service] = "serve" /\ ~run[Service] /\ "exit" \in mail[Service]
  /\ main' = "aborted"
  /\ IF "ip" \in parts THEN EndProcess(here) ELSE UNCHANGED ipVars
  /\ UNCHANGED <<kernelVars, usbVars>>

Main ==
  \/ Begin \/ StartManagers \/ DialOut \/ LeaveLoop \/ StopManagers \/ StopServices \/ Return

-----------------------------------------------------------------------------
(* The other node, the network and the cables.                              *)

Peer ==
  \/ StartManager(There)
  \/ There = Client /\ Dial
  \/ StopManager(There)
  \/ manager[There].at = "over" /\ EndProcess(There)

-----------------------------------------------------------------------------
(* The steps of the threads.                                                *)

\* A process runs until it has ended; the model looks no further than the node.
Runs(p) == main \notin {"done", "aborted"} /\ manager[p].at # "exited"

stay == <<kind, parts, here>>

KernelThread == Runs(here) /\ (Turn \/ EndKernel(OwnThread)) /\ UNCHANGED <<ipVars, usbVars, main, stay>>
GuiThread == Runs(here) /\ Gui /\ UNCHANGED <<ipVars, usbVars, main, stay>>
AppThread(t) == Runs(here) /\ Leave(t) /\ UNCHANGED <<ipVars, usbVars, main, stay>>
OtherTasks == Runs(here) /\ Tasks /\ UNCHANGED <<ipVars, usbVars, main, stay>>
FileThread == EndFileService /\ UNCHANGED stay
MainThread == Main /\ UNCHANGED stay
IpManager(p) == Runs(p) /\ Manager(p) /\ UNCHANGED <<kernelVars, usbVars, main, stay>>
IpSend(p, c) == Runs(p) /\ SendThread(p, c) /\ UNCHANGED <<kernelVars, usbVars, main, stay>>
IpReceive(p, c) == Runs(p) /\ ReceiveThread(p, c) /\ UNCHANGED <<kernelVars, usbVars, main, stay>>
UsbThread == Runs(here) /\ UsbThreads /\ UNCHANGED <<kernelVars, ipVars, main, stay>>
UsbManagerThread == Runs(here) /\ UsbManager /\ UNCHANGED <<kernelVars, ipVars, main, stay>>
Outside == Runs(here) /\
  \/ (Peer \/ Network) /\ "ip" \in parts
     /\ UNCHANGED <<kernelVars, usbVars, main, stay>>
  \/ (Plug \/ Unplug) /\ "usb" \in parts
     /\ UNCHANGED <<kernelVars, ipVars, main, stay>>

Next ==
  \/ KernelThread \/ OtherTasks \/ FileThread \/ MainThread
  \/ \E p \in Ends : IpManager(p) \/ \E c \in Conns : IpSend(p, c) \/ IpReceive(p, c)
  \/ UsbThread \/ UsbManagerThread \/ Outside

Spec == Init /\ [][Next]_vars

\* Threads run.  The kernel and the GUI service, and the threads of a link, may
\* go on for ever, so each gets its turn; of the others, some one that can take a
\* step does.  Nothing makes time come to go, nor anyone outside do a thing.
Rest ==
  \/ FileThread \/ ((main # "up" \/ kernel = "over") /\ MainThread)
  \/ (\E t \in Apps : AppThread(t)) \/ (\E p \in Ends : IpManager(p))
  \/ UsbThread \/ UsbManagerThread

Fairness ==
  /\ WF_vars(KernelThread \/ GuiThread) /\ WF_vars(Rest)
  /\ \A p \in Ends : \A c \in Conns : WF_vars(IpSend(p, c)) /\ WF_vars(IpReceive(p, c))

FairSpec == Spec /\ Fairness

-----------------------------------------------------------------------------
(* Properties.                                                             *)

\* Every variable keeps its type.
TypeOK ==
  /\ KernelTypeOK /\ IpTypeOK /\ UsbTypeOK
  /\ kind \in {"hub", "gui", "files"} /\ parts \subseteq {"ip", "usb"} /\ here \in Ends
  /\ main \in {"begin", "managers", "up", "stop", "stop services", "join", "done", "aborted"}

\* Where an application is while it has a window, or is about to take it away.
AtWork == {"work", "starting", "call", "hide"}

\* The router never holds a link that is gone.  A node whose main returns has left
\* no link and no thread of a manager or a service behind, no window and no
\* application at work; only a file node ends in an abort (link.cpp run_receive,
\* ip_link.cpp run, gui_service.cpp run, the main functions).
NothingLeftBehind ==
  /\ \A p \in Ends : \A c \in Conns :
       Runs(p) /\ link[p][c].known => link[p][c].at = "live"
  /\ ulink.known => ulink.there
  /\ main = "done" =>
       /\ kernel = "over" /\ usb.at \in {"off", "over"} /\ ~ulink.there
       /\ \A c \in Conns : link[here][c].at # "live"
       /\ windows = {} /\ \A t \in Apps : thread[t] \notin AtWork
  /\ main = "aborted" => kind = "files"

\* The other node is to end as well, and has not closed its sockets: each may read
\* from the other.
BothEnd == ~manager[There].on /\ manager[There].at \in {"loop", "purge", "close"}

\* The other node holds a connection for which it has no link and will get none:
\* a client whose io_context has stopped, or a server that is to end.
HalfLink ==
  /\ ~manager[There].io
  /\ \E c \in Conns : conn[c] = "open" /\ link[There][c].at = "none"

\* A node that is to end does, and so does a GUI service without windows; unless
\* the node at the other end of an IP link is to end at the same time, or holds a
\* connection without a link for it (ip_link.cpp run, receive).
NodeEnds ==
  main = "stop" \/ thread[Service] = "leave" ~>
    main \in {"done", "aborted"} \/ []BothEnd \/ []HalfLink

\* The router forgets a node that has ended; a cable in the port gets a link,
\* unless it took the place of another between two looks at the devices (ip_link.cpp
\* receive, usb_link.cpp run).
LinksFollow ==
  /\ manager[There].at = "exited" ~>
       (main \in {"done", "aborted"} \/ \A c \in Conns : ~link[here][c].known)
  /\ port # 0 /\ ~swapped ~>
       (ulink.cable = port \/ port = 0 \/ main \notin {"begin", "managers", "up"})
=============================================================================
