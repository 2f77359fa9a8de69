# ChrysaLib in TLA+

ChrysaLib is a C++ library for networks of nodes: processes that are wired
together by USB, IP or shared memory links, find each other's services in a
distributed directory and talk by messages to mailboxes.  This directory holds
TLA+ modules of its core, TLC configurations that check them on small instances,
and proofs checked by TLAPS.  Paths below are relative to `src/src/lib/`.

## 1. Inventory

| Component | State | Operations | Interacts by |
|---|---|---|---|
| Directory and routes (`mail/router.*`, `evt_ping` in `services/kernel_service.cpp`) | `m_directory`, `m_routes`, `m_links`, the session counter `m_next_parcel_id` | `declare`, `forget`, `enquire`, `add_link`, `sub_link`, `run`, `update_route`, `update_dir`, `purge_dir`, `purge_routes` | ping messages between kernel services; a wake-up mailbox; the router's mutex |
| Mailboxes (`mail/mailbox.h`, `mail/router.cpp`) | `m_mailboxes`, `m_next_mailbox_id`, the mail, mutex and `m_select` of each mailbox, a `Sync` per `select` | `alloc`, `free`, `validate`, `post`, `select`, `poll`, `read` | shared by all threads of a process |
| Messages and parcels (`mail/msg.h`, `mail/router.cpp`, `links/link.cpp`) | `m_outgoing_msg_que`, `m_parcels`, the message a send thread holds | `send`, `get_next_msg`, `purge_routes`, `run_send`, `run_receive` | one queue per node, shared by the send threads of its links |
| IP, USB and SHM links and managers (`links/`) | sockets, devices, a shared segment with a ring of slots each way; `m_running`, `m_remote_node_id` | dialling, accepting, `send`, `receive`, purging of dead links | add and remove themselves at the router |
| Kernel service and tasks (`services/kernel_service.*`, `task.*`) | `m_tasks`, `m_timer`, `m_running` and the thread of each task | start, stop, join, callback, timed mail, exit | mail to mailbox 0; callbacks run in the kernel thread |
| File service (`services/file_service.*`, `utils/threadpool.h`) | two thread pools with queues, a temporary file | list, `evt_send_file`, `evt_transfer_file`, `transfer_file` | messages between the jobs of three services |
| Farm (`task/farm.*`, the demo applications) | jobs ready, workers, tickets, keys | `refresh`, `assign_work`, `validate_job`, `complete_job` | the directory for the census, job and reply messages |
| Regions (`gui/region.*`) | a list of rectangles that do not overlap | paste, remove, cut, copy, clip, translate, bounds | - |
| View tree (`gui/view.*`) | children and parent, bounds, flags, a dirty and an opaque region per view, `m_gui_flags`, `m_temps` | add, sub, hide, to front and back, change, dirty, walks, hit tests | one recursive lock for the whole tree |
| GUI service and widgets (`services/gui_*`, `gui/window.cpp`, `title.cpp`, `button.cpp`) | the mouse, the back buffer; what is held of a window, a title, a button | requests of applications, input, the frame and its compositing | mail from and to applications, callbacks into the kernel thread |
| Nodes (`../nodes/`) | the services and managers of a process | start, wait, stop and join them | threads and mail |
| Utilities, mathematics, drawing, host layer | - | pure functions, system calls | - |

What makes each of them correct, and hard:

- **Directory and routes.** Pings of several sessions travel over several ways
  and overtake each other; links fail, entries age, nodes stop.  Messages must
  not go round in circles, one session must mean one set of services, floods
  must end, reach everybody, and a dead node must vanish.
- **Mailboxes.** `select` looks at, locks, arms, waits for and disarms a list
  of mailboxes while others post to them.  It must return a mailbox with mail,
  sleep on none, and leave no pointer to its stack behind.
- **Parcels.** Fragments overtake each other on parallel links, links fail with
  a message in the hands of their send thread, queues and parcels are purged.  A
  packet must be in one place, and a message delivered once and whole.
- **File service.** Three jobs in up to three processes, each with a timeout of
  its own, chunks out of order, flow control, two pools of few threads.
- **Farm.** Jobs are sent again while old copies and answers are on their way;
  workers come and go; the application starts over.
- **Links.** Shared memory without atomics; connections that fail under two
  threads that use them; threads that block in a read; cables that are swapped.
  A link that is gone must be forgotten, a manager must get to its end.
- **Kernel and nodes.** Requests from all threads, timers in a list of their own
  order, callbacks for others, and a shutdown that starts in one thread and has to
  reach all.
- **Regions.** Sixteen cases in five copies of the code, on a list that changes
  under the walk; each is a set operation on pixels.
- **Views and GUI.** Windows move, change order and go between frames, and only
  what is dirty is drawn again; input is sent to views as they were, and handled
  by applications later.

`PROJECT.json` lists each hazard with the line where it bites and the
properties that would catch it.

## 2. Modules

| Module | Models | Runs | Proofs |
|---|---|---|---|
| `Routing` | directory, routes, pings | `RoutingTriangle`, `RoutingLine`, `RoutingDeclared` of `MCRouting` | `RoutingProofs` |
| `Mailboxes` | mailboxes and `select`, lock by lock | `Mailboxes`, `SelectSleeps` of `MCMailboxes` | `MailboxesProofs` |
| `Parcels` | queues, links, fragments, parcels | `Parcels` of `MCParcels` | `ParcelsProofs` |
| `Delivery` | what the network promises: a message is delivered once and whole, or dropped | implemented by `Parcels` | in `ParcelsProofs` |
| `FileTransfer` | transfers and thread pools | `FileTransfer`, `FileClash` of `MCFileTransfer` | `FileTransferProofs` |
| `Farm` | the farm and its application | `Farm` of `MCFarm` | `FarmProofs` |
| `ShmLink` | the two ends of a shared memory link | `ShmLink` of `MCShmLink` | `ShmLinkProofs` |
| `Fifo` | what a direction of a link promises: a bounded channel in good order | implemented by `ShmLink` | in `ShmLinkProofs` |
| `Rectangles` | two rectangles and the parts one leaves of the other | with `Gui` | in `GuiProofs` |
| `Region` | lists of rectangles, each operation of the class | with `Gui` | in `GuiProofs` |
| `Views` | the tree of views, each method an operator on trees | with `Gui` | in `GuiProofs` |
| `Gui` | the GUI service, its frames and input, windows and their applications | `Gui` of `MCGui` | `GuiProofs` |
| `Kernel` | the kernel service, tasks and timers, and the threads that ask it | with `Node` | in `NodeProofs` |
| `IpLinks` | IP links, their threads and managers, at both ends | with `Node` | in `NodeProofs` |
| `UsbLinks` | the USB manager with one port | with `Node` | in `NodeProofs` |
| `Node` | a process: composes `Kernel`, `IpLinks` and `UsbLinks` with the main functions | `Node` of `MCNode` | `NodeProofs` |

In each module a `Mistake:` operator in front of a definition is that
definition with a plausible bug in it.  The specification does not use them;
they show that the properties can tell the difference.

### Routing

A node has three threads here: applications (`Declare`, `Forget`), the
directory manager (`ManagerTurn`, one turn of `Router::run`: take a wake-up,
allocate the session number, send the pings, purge the directory and the
routes) and the kernel service.  `HandlePing` is the `evt_ping` case, split by
the results of `update_route` and `update_dir` into `IgnorePing`, `RefineRoute`
and `AcceptPing`; the last floods.  `LinkUp` and `LinkDown` are `add_link` and
`sub_link`; `Lose` drops a ping on the way, `Crash` stops a process for good (one
that restarts has a new `Node_ID`).

Pings are a set, so they overtake each other; a queue per link would allow
less.  Time is abstracted: any entry of another node may be too old at any turn
of the manager, except for `Prompt` below.  The turn is one action although
the code takes the router's lock several times: a ping that is handled between
the purging of the directory and that of the routes has the effect of two turns
with smaller sets of old entries, which the model allows.

`Prompt` is the assumption that a ping is handled before its session becomes
too old anywhere.  The code tries to see to it: `MAX_DIRECTORY_AGE` and
`MAX_ROUTE_AGE` are ten seconds, as is `MAX_MESSAGE_AGE`, after which a message
is dropped from a queue.  But that age starts again at each hop, so a slow ping
can outlive an entry.  All runs assume `Prompt`, so what a slow ping does
(`mail/router.cpp:363`) is covered by no property: with `Prompt = FALSE` TLC finds
`LoopFree` and `FloodDiesOut` violated, as an old ping sets up an entry again that had
aged, or goes round once more.

Not in the model: the wrap of the 32 bit session counter, which is shared with
the parcel numbers; sessions are a strictly growing number.  `m_next_parcel_id`
has no initial value, so the first session is any of `FirstSessions`.

### Mailboxes

Each step of `Router::select` is an action: the look without locks (`Look`, one
mailbox at a time), locking and setting the `Sync` (`Arm`), the unlocking, the
wait, locking and clearing (`Disarm`), and the second look (`Find`).  Other
threads run between any two of them.  `Validate` and `Post` are `Router::send`
to a mailbox of the node: the router's lock is held from the first to the
second, as in the code, and `Post` takes the lock of the mailbox.  Mailboxes are
allocated by the next number that is free, with numbers that wrap at `MaxId`,
which is never given out.

### Parcels

`Send`, `Deliver` and `Forward` are `Router::send` for the three kinds of
packet it is handed; `Take` is `get_next_msg`, `Transmit`, `EndSend` and
`Overwrite` are what `run_send` does with the result of a link's `send`,
`Receive` is `run_receive`.  `EndSend` posts the packet back.  `Overwrite` is the
USB link, whose failed send leaves `m_running` set.  A parcel counts its
fragments where the code counts bytes.  Routes are constants.  Link pings carry
nothing and are left out.

`Delivery` is the abstract service: `Send`, `Put` of a whole message into its open
mailbox, `Drop` of messages that were not put yet, and `Close`.  `Service` maps to it: a
mailbox holds of each post the set of its fragments, and a message is dropped once one
of its packets is.  `IsDelivery` is the refinement: fragments, queues, links, their
failures and the purging are steps that drop or do nothing.

### FileTransfer

A job of a pool goes from `queued` over `going`, `waiting` and `whole` to
`ended`.  `Serve` is `File_Service::run`, `StartJob` a thread of a pool; `Source`
is `evt_send_file`, `Destination` is `evt_transfer_file`, `TransferOK` and
`Timeout` end the job of the asker.  A temporary file says for each position
whose chunk was written there.  Two streams on one file write to the same
positions; removing the file leaves the other stream writing to nowhere.

A timeout comes when something is lost (`Unlucky`), when there is no file, or when
nobody works on what the job waits for (`InVain`).  That is so when a receiver has ended
without a word, and when a job waits for a thread while a service is `Crowded`, that is,
receives two files and has no thread left.  A thread that is merely slow does not
make others time out.

### Farm

`Refresh` is `Farm::refresh` with all it calls, in its order: census, restart,
leavers, joiners, `assign_work`.  `assign_work` picks the worker with the fewest
tickets, the first in the map, again and again: the same as filling the places
in the order of tickets and workers, which is how `Chosen` says it.  The walks over workers and
tickets are orders of sets of places (`Sorted`: each member comes where as many precede
it), so that no operator is recursive.  `TakeReply`
is `validate_job`, the use of the data and `complete_job`, which one thread does
without a break.  A job message is shared: `farm.body` is what the last dispatch
wrote, and `farm.pending` the references that no worker has fetched, each of
which sees that body.  (A packet that is copied to a link while the farm writes
into it has the worker of one dispatch and the key of another, which is no
ticket: the same as a lost reply.)  `Reset` is the application's `reset`.

### ShmLink

The constructor of `SHM_Link` is three steps, since two processes run it on one
segment: `Clear`, `Look` at the towel and `Lay` it.  `ChooseTx` and `ChooseRx` are
the heads of `run_send` and `run_receive`.  `Write` and `MarkBusy` are the two
halves of `send`, the data of a slot and its status; `Copy` and `Release` those of
`receive`.  Processes see each other's writes in the order of the program: x86
processors keep it, but the slots are plain memory and C++ promises nothing.
`Write` sends a ping or, when the peer is known, a message, and the queue behind it
is that of `Parcels`.

The two processes start in any order and at any time.  `Clear` wipes out whatever is in
the segment, messages and towel; a slot that was cleared under its reader holds a
`Blank`.  An end that comes up when a thread of the other has chosen a channel so takes
the towel away that this thread went by.  `Agreed` says that this has not happened:
each thread that has chosen goes by the towel as it lies.

`Fifo` is the abstract channel.  It may break (`Break`), and promises nothing from then on.
`There` and `Back` map what has been marked busy to `sent`, what was released to `got` and
`Agreed` to `whole`, one for each direction, and `IsFifo` is the refinement.  When the link
breaks is said by `BrokenByStart`, and what a broken link is by `CrossedIfAgreed`: the
ends send on one channel or listen on one.  These two are proved, and not in a run of
their own.

### Rectangles and Region

`region.cpp` has the same sixteen cases five times, one for each set of edges of
the clip rectangle that lie inside the other.  `Sides` is that set, `Around` the
part of the rectangle behind each edge, `InPlace` the part that the code writes
over the rectangle itself; the others are pushed to the front of the list, where
the walk does not come again.  `paste_rect` differs when the rectangle spans the
new one from edge to edge over a third (`Spans`): there the new one is shortened.
So the order of the list is that of the code, and a region is a sequence.
Coordinates are integers without a width.

### Views and Gui

Every method of `View` runs under one recursive lock, so each is an operator from
a tree to a tree, and a method that calls others is their composition
(`ChangeDirty` is `dirty`, `change`, `trans_dirty` and `dirty_all`).  What `hide`,
`to_back` and the end of a frame do with temporary views is `Ghost` and
`DropTemps`.

The service answers one request at a time (`Serve`).  When its mailbox is empty
the kernel thread takes the lock and runs the frame: the events of the host
(`Input`), then `EndFrame` with `Composite`, which is `composite()` in its two
walks: `HideBehind` and `Raise` collect what is dirty in the root, `Share` hands
it out to the views that are visible there, and `Drawn` draws these from back to
front.  No application touches a view in a frame, hence `phase # "frame"` in
`App`.  A pixel of `fb` holds what was drawn into it: which view, where it was and
whether it was pressed, on top of what shows through.  An application has one
window and one thread; `Launch`, `Ask`, `Open` and `Close` are the start and end
of its `run`, and its events go through `Window::event` (`Gesture`) to the title,
the button or the border.  Mail that ends in a method that `View` leaves empty is
not kept.

### Kernel, IpLinks, UsbLinks and Node

`Turn` is one round of `Kernel_Service::run`: a request or the end of the wait,
and then the timers.  Callers that wait are in the states of `thread`: `init`,
`drawing`, `deinit`, `call` and `tidy` wait for a callback, `launch` and `starting`
for a task.  The GUI service here does its start, frames and end; what it shows is
in `Gui`.  The callback runs when the kernel handles it, with `Returns` as what
the caller does next.  The clock ticks a millisecond at a time, not while the
kernel has work.  `Cancellers` are the applications that cancel timers: the kernel
can, and no application in the repository asks it to.

In `IpLinks` a connection `conn[c]` has a link at either end, with a send and a
receive thread.  The network makes and breaks connections (`Open`, `Break`), as soon as
the server listens; the links are made by handlers of the io_context (`Connected`,
`Accept`), which run while their manager is in `run_for` and its context was not stopped
(`Handles`).  A client has nothing to wait for when no dial is under way; `run_for` then stops
the context (`RunOut`), nothing restarts it, and what is dialled later is a
connection with a link at the server only.  A receive thread leaves its read when there is a packet or the
other end is closed, and only then looks at `m_running` (`NextRound`).  The manager
purges links that do not run, one by one (`PurgeLink`, `LinkPurged`), and at the end
stops all, joins all and closes all (`CloseLinks`, `EndManager`).  In `UsbLinks` a
transfer fails after a while, so that its threads do look; a link is told from
another by its port only, and `swapped` remembers a cable that was replaced between
two looks.

`Node` has the three main functions of `nodes/` in one: `kind` says which.  It is one
end of the IP links (`here`), either end; the other end is a node that may start,
dial, stop and end as it likes (`Peer`).  The thread of the file service that ends takes
the process down (`EndFileService`).  `Return` is the end of `main`, when the threads of
managers and services are joined; those of tasks never are, and may be blocked then.

## 3. Runs

| Run | What it asks | Result |
|---|---|---|
| `routing_triangle` | no loops, one content per session, floods end, on a ring with failing links, lost and late pings and ageing | holds |
| `routing_line` | own services stay, a flood reaches all, a stopped node vanishes | holds |
| `routing_declared` | a declared service stays in the own entry, on a ring | violated |
| `mailboxes` | `select` finds mail, no dangling `Sync`, one owner, armed mailboxes wake, posters go on | holds |
| `select_sleeps` | nobody sleeps on mail | violated |
| `parcels` | packets are conserved, the refinement of `Delivery`, arrival | holds |
| `file_transfer` | OK means whole, flow control, threads come back, transfers succeed | holds, with the exception `Succeeds` names |
| `file_clash` | OK means whole, with one name for the temporary files | violated |
| `farm` | each job has one fate, replies retire their own ticket, jobs get done | holds |
| `shm_link` | each direction is a FIFO channel, arrival | holds, until the end that comes up later breaks the link |
| `gui` | the screen shows what it should, input goes where the user sees it, nothing stays held, dragging, regions against sets of pixels | holds, with the exceptions the properties name |
| `node` | requests are kept and timers in time, nothing is left behind, nodes end, links follow peers and cables | holds, with the exceptions the properties name |

What the violated runs show:

1. `routing_declared`: a ping that comes back to its origin is accepted like any
   other, since the origin's own entry has session 0.  `update_dir` then replaces
   the own services by those of the ping: what was declared since is forgotten,
   services without a star always are.  `declare` promises "declare a new local
   service" (`mail/router.cpp:152`).  On a tree of links no ping comes back, which
   `OwnServicesKept` confirms.
2. `select_sleeps`: mail posted between the first look and the locking is not
   seen, and `Sync::wait` sleeps until the next message comes, if one does.
   `ArmedWakes` shows that this is the only gap.
3. `file_clash`: `in_temp_file` has the same name for all transfers, two threads
   use it, and both transfers are reported as finished.

Some properties of the other runs name an exception, since the code has one.  What
was met on the way:

- **Farm.** A worker that joins when no job is ready never gets an entry in
  `m_jobs_assigned`, which is where `assign_work` looks for workers
  (`task/farm.cpp:71`).  When the others leave, the jobs wait for ever, although
  the repository's `README.md:14-15` promises that "things just keep on keeping on !".
  `DoneOrAlone` is what holds: the jobs get done as long as one worker that the farm uses stays.
  `KeepsGoing` is what does not; one job and the constants of `Farm.cfg` show it.
- **Shared memory.** The constructor of `SHM_Link` clears the segment before it tests
  the towel (`links/shm_link.h:26`), so the towel of a process that is already running is
  gone and the comment below, "put my towel down if seams available !" (`:27`), always
  finds it available.  The threads of the first go by their own towel, those of the
  second by theirs: both ends send on `m_chan_1` and listen on `m_chan_2`, for good.
  Nothing makes two processes start at once, so this is what an ordinary start
  leads to; the link works when both constructors are through before a
  thread of either looks.  `BrokenByStart` and `CrossedIfAgreed` say exactly when.
- **File transfers that crowd a service.** The comment at `services/file_service.h:67-69`
  wants two pools since "you do not want to deadlock due to all the threads being taken
  by requests and then no one can respond to them"; but both kinds of job go to `m_thread_pool1`
  (`services/file_service.cpp:59`, `:147`).  Two files that are received take both threads of
  a service; its own senders stay in the queue.  When the receivers wait for senders of the same
  service, or of one that is as crowded, all of them time out.  `Succeeds` excepts
  `Crowded`; without the exception TLC finds it violated.
- **Dials that come to nothing.** The manager calls `run_for` before there is anything
  to wait for, or after the first connections are made; asio then stops the context, and
  `links/ip_link.cpp:51` never restarts it.  An address dialled after that is connected
  to, and the server makes a link, over which the client never speaks.  The receive thread of
  the server stays in its read, and at the end the server joins it before it closes the
  socket (`links/ip_link.cpp:73`): it does not end before the client does.  `NodeEnds`
  names this exception, `HalfLink`.
- **A window that goes while it is dirty.** `hide` and `sub` take a window from the
  tree with the dirty region that an earlier move in the same frame has left in it;
  the place it moved from is not redrawn (`gui/view.cpp:72`).  `lost` holds these
  pixels, and `Painted` exempts them.
- **Buttons of the mouse.** A motion sets `m_mouse_buttons` to a bit mask in which
  the right button is 4, a press and a release use its number 3
  (`services/gui_service.cpp:496`, `:521`, `:548`): dragging with the right button,
  the release leaves a bit set, and the window takes the next motion for part of the
  drag.  A key, the wheel or a second button while a button is held moves
  `m_mouse_id`, so that the release goes elsewhere.  `distracted` marks both, and
  `NothingStuck` and `DragFollows` exempt it.
- **A smaller screen.** `set_mouse_id` uses the view that `hit_tree` finds without
  asking whether there is one.  When the mouse is off the screen, dragged out of it with a
  button held or left outside as the host window shrank, a key or the wheel finds none,
  and the null pointer is used (`services/gui_service.cpp:441`).  `MissesOutside`, a part
  of `PressHitsWhatShows`, says that this is the only way there, and `NoOtherMiss` proves
  it.
- **Requests at the end.** The GUI service leaves its loop when the last window goes,
  whatever is in its mailbox: an application that is about to open waits for ever
  (`services/gui_service.cpp:197`).  So does one that needs a callback of the kernel
  after that has ended.
- **Tasks are never joined.** `join_task` sends `evt_stop_task`
  (`services/kernel_service.cpp:214`), although the comment above it says that the kernel
  will call `join_thread`: the handler of `evt_join_task` is never reached, and nothing
  leaves `m_tasks`.  A request copies its `shared_ptr` into the bytes of a message
  (`services/kernel_service.cpp:186`, `:203`, `:215`), which are freed as a string
  (`mail/msg.h:111`): the reference is never given back, no `Task` is destroyed, and `main`
  returns (`../nodes/gui/gui.cpp:101`) with the threads of applications as they are.
  `NothingLeftBehind` shows that none of them is at work or has a window then; one that is
  about to open, or has given up its window and waits for a callback, may still wait.
- **The file node.** Its `File_Service` is held by a `unique_ptr`
  (`nodes/files/files.cpp:70`), and `run_then_join` calls `shared_from_this`: the
  thread of the service throws `bad_weak_ptr` when it ends (`services/task.cpp:12`).
  This is why `NothingLeftBehind` has its last line.
- **Two nodes that end together.** Each has stopped its send threads, reads from the
  other, and closes its sockets only after its receive threads are joined
  (`links/ip_link.cpp:73`): neither ends.  `BothEnd` is the first exception of
  `NodeEnds`.  A link that failed is not dialled again.
- **A swapped cable.** A device that is replaced between two looks is taken for the
  one before (`links/usb_link.h:11`), and its link keeps the old handle.  `open` may
  also fail and leave the handle without a value (`links/usb_link.h:50`), which is not
  modelled.
- **Cancelled timers.** A timer that is cancelled when its mail is on the way leaves
  the mail behind.  An application that cancels, asks again, reads the old mail and asks
  once more has two timers, of which the kernel would cancel only the first it finds
  (`services/kernel_service.cpp`, the `evt_timed_mail` case).  Three requests are needed
  for it.  No application cancels, so `RequestsKept` promises one timer to those
  outside `Cancellers`.
- `settings.h:8` calls 32 the number of chunks in flight, which may be 63
  (`WithinTwoWindows` is the bound that holds).  The kernel looks at the timer that is
  due last, which is harmless only because it never waits longer than a millisecond.

### Bounds

- `Routing`: three nodes, on a ring (the smallest graph where a ping comes back
  and where two ways have different lengths) or a line (where a node only relays).
  One origin, two sessions: entries of different origins do not depend on each
  other.  Sessions from `SessionLimit` on are left out, purging goes on.
- `Mailboxes`: two selecting tasks, with two mailboxes and one, one poster, one
  message per mailbox, four numbers, so that they come round.  The violation
  needs one task.
- `Parcels`: a doubled link, then a single one; a parcel of two fragments, the
  least that can be partial, and a short message.  Two failures.
- `FileTransfer`: three services, each of which asks for one transfer: one chunk from
  s to t, which may be lost; a file of two windows and one chunk from s to s, and one from
  s to s that does not exist.  The window is two.  A service that sends to itself is the
  smallest case in which receivers take all the threads that their senders need; two
  files each way between two services behave the same, with over a million states.
- `Farm`: two workers, two jobs and then one, a ticket per worker, and each
  mishap (loss, late answer, change of the census, new farm) once.
- `ShmLink`: two ends that start in any order, the three slots of the code; one end
  sends four messages, so that it goes round its ring and the ring gets full, the other
  one, so that both know their peer.
- `Gui`: a screen of 5 by 3 pixels, two windows, one with a border and a translucent
  title, one with a shadow and a button; three events of the host, of which one
  beyond motions and the left button (enough to press, drag and release while
  requests, mail and frames interleave at will); one point outside the screen, which
  the mouse can be at only while a button is held; one change of the host window until
  it has shrunk.  For the regions, all lists that two pastes, removals or clearings
  make in a 3 by 3 square, against every rectangle: each of the sixteen cases
  occurs, alone and after another.
- `Node`: a GUI node with the launcher and two applications, a hub at either end of
  an IP link, a hub with USB, a file node: parts of a process meet only in `main` and
  in mail, so they are looked at one at a time.  One TCP connection and one dial, before or
  after the io_context has stopped, three cables (one more than are
  needed for a swap), three milliseconds, delays of one and two, three requests of one
  application, which may cancel, and two of another, which may not.  The second bench starts with two applications at
  work, so that timers of both can be in the list in any order.  `Offers` has one of
  the applications; each is launched once.

What a property does not look at: `FloodReaches` takes all links to be up when the session
starts, so links that come up during a flood are in the safety properties only;
`StoppedVanish` is under `Prompt`, so no entry of the stopped node is set up again
after it aged; `PressHitsWhatShows` compares a press with the screen when nothing is
dirty, so a press after a window has moved and before the next frame goes where the tree
says, whatever is shown.

`CHECK_DEADLOCK FALSE` stands where the system may rest: tasks that wait for
work, transfers that are over, sessions that ran out, a process that has ended.

### Fairness

- `Routing`: the manager and the kernel thread take their turns (one waits with
  a timeout, the other reads its mailbox for ever); the entry of a stopped node
  ages and a message for it is purged.
- `Mailboxes`: a thread that can go on inside `select`, `read` or `post` does.
  Nothing makes anyone post.
- `Parcels`: the threads of a link run, and its manager makes a new link.
  Nothing makes links fail or packets age.
- `FileTransfer`, `Farm`: some step that threads, messages and clocks take is
  taken while there is one.  Every behaviour of these models is finite, so this
  weakest form is enough.
- `ShmLink`: constructors and threads run; nothing makes an end stop.
- `Node`: the kernel thread with the GUI service, and each thread of a link, get
  their turns, since they may go on for ever; of the managers, the main function, the
  USB threads and the applications that leave, some one that can take a step does.
  Nothing makes time come to leave, a peer act, a cable be plugged, or an application
  close.
- `Gui` is checked for safety only.

## 4. Proofs

### Routing

`RoutingProofs` proves, for any set of nodes, links and services and any bounds:

- `TypeCorrect`: `Spec => []TypeOK`, without further assumptions.
- `Inductive`, `NoLoops`, `DirectoriesAgree`: under `Prompt`, the invariant
  `IInv` and from it `[]LoopFree` and `[]SessionsAgree`.

`LoopFree` is not inductive, since it says nothing of pings on their way.  `IInv`
adds `Known` (nothing known of an origin is of its next session or a later one),
`PingsAhead` and `ViasAhead` (who sent a ping, or is recorded as a via, is the
origin, or has a route of a later session, or of the same session and nearer, or
has dropped its route when nothing of that session was on its way any more) and
`OneContent` (a session has one set of services, in pings and directories).  The
step of `AcceptPing` and `RefineRoute` is the heart: a table entry only moves
ahead in the order of session and nearness (`AheadRefines`), so everything that
leans on it stays ahead.  A turn of the manager may drop entries; `Prompt` is
used there (`AheadTurn`).  `NoLoops` then takes, in a set of nodes, one of the
latest session and least distance (`Foremost`): it can forward only to nodes
outside the set.

The assumptions are those named in the modules (`RoutingAssumption`: types of
the constants).  The numbers are naturals without a width.

Two more theorems about `Routing` have invariants of their own:

- `FloodEnds`: for a finite set of nodes and under `Prompt`, `[]FloodDiesOut`.  A ping
  that has made `h` hops has a set of `h` nodes that know its session (`Relayed`):
  whoever passes it on did not know it before, and under `Prompt` nobody forgets it
  while the ping is on its way.
- `OwnEntriesKept`: `[]OwnServicesKept` on a network with `NoCycle`: no walk along
  links that never turns back on itself comes back to where it set out.  `OwnIInv` says
  that every ping has made such a walk from its origin (`Walked`).  `Prompt` is not
  needed; that the network is one without cycles is: see `routing_declared`.

### Rectangles and Region

The first part of `GuiProofs` proves of the sixteen cases, for all integers:

- `ApartExact` and `CommonExact`: the test that skips a rectangle, and what is kept
  when it is clipped, are right pixel by pixel.
- `PartsNotEmpty`, `PartsApart`, `PartsExact`: the parts that are left of a rectangle
  are not empty, do not overlap, and hold exactly its pixels outside the other.
- `CoversExact`, `ShortenedExact`: `paste_rect` may stop, or go on with the shortened
  rectangle, without losing or doubling a pixel.

`Corners`, `InsideIs` and `PartCorners` are the lemmas: the types of all corners, and
what they are.

The second part goes from two rectangles to lists of any length: `ClipRectExact`,
`CopyRectExact`, `RemoveRectExact`, `PasteRectExact`, `CutRectExact`,
`RemoveRegionExact`, `PasteRegionExact` and `CopyRegionExact` say that each operation
of `region.cpp` makes a region of regions, and exactly which pixels it holds.  Every
operation is a `Walk` along the list.  What a walk computes is proved without an
induction theorem, by a set of places that has 0 in it and each next one (`WalkExists`,
that there is such a function; `WalkStays`, that it keeps what its steps keep).  The
invariant of a walk that takes a rectangle out (`Roomy`) says that what it has pushed to the
front and what it has left behind are two regions apart from each other, from the rectangle,
and from what is yet to come; while `paste_rect` shortens its rectangle, the pixels of
it and of the list together stay the same.  `CopyRegionExact` assumes that nothing of
what is copied was there before, as `copy_region` does: it tests nothing.

`RegionOpsHold` puts these together on the pixels of a screen, and `BenchExact` is
`[]RegionsExact` of the run.

### Views and Gui

The rest of `GuiProofs` proves `Typed` (`[]TypeOK`) for any windows, controls, stand-ins,
properties, screens and input.  `TypeOK` says that every dirty and every opaque
list is a region and that `m_children` and `m_parent` agree.  It is not inductive:
methods look a view up in the list of its parent, walk the tree, and count on a path to
the root.  `IInv` has these parts:

- `WellTrees`: the types of a tree, its regions, and its shape (`Shaped`): windows and
  stand-ins are below the screen and nowhere else, controls below their window, lists name
  nobody twice and nobody but their children.  So a way up has at most three
  views (`Paths`), and the recursive functions of the walks exist (`CallsTyped`).
- `MouseOK`, `WidgetsOK`, `MailOK`: the types of the mouse, of what windows remember, and of
  mail.  The mail of a window that waits for its place holds nothing but
  answers to `locate`, or `Open` would take the box from another message.
- `ShownAreOpen`: a window on the screen has an application that is open or on its way
  out, so that no input is mailed to one that still waits for its place.

Every method of `View` has a lemma that it keeps `WellTrees` and which windows it takes
off or puts on (`Same`: neither); `GatherTree`, `CompositeTree` and `FrameTree` are the two
walks of `composite`; `StepKeeps` has one lemma per action.  `FoundIsSeen` says that what
`hit_tree` finds is on the screen.

From there the two invariants on what windows remember are proved.  A window knows of the
mouse what its mail told it, so they are about the mail, and the proof has two layers:

- `KInv` says who has what mail: at most one request of an application is on its way or
  being answered (`OneRequest`, `RequestsFit`), a window that is shown has its application
  (`OpenAreShown`), one that waits for its place has nothing but that answer (`EarlyOnes`),
  and mail to an application is its own (`OwnMail`).
- `Follows` says what it amounts to: `OneButton` (without a distraction one button is
  held at most), and `Attentive`, for each window that still reads its mail (`Listens`):
  the mail since the last press keeps to one view (`Steady`), the last of it agrees with
  where the mouse is and whether it is held (`Newest`), a control that is held is
  the one that the mouse holds (`Gripped`), or the release is in the mail (`Down`), and a
  title that is held keeps its window at the distance it took (`Dragged`).  It is
  inductive only together: that a release finds the right control needs `Steady` and
  `Gripped`, that a distance stays right needs `Newest`.

Most steps change none of what `Attentive` reads (`QuietAttentive`); `FollowsStep` has one
case for each of the others.  `NothingHeldUp` is `[]NothingStuck`, `DragsFollow` is
`[]DragFollows`, and `BenchFollows` carries both to the bench, whose steps are steps of
`Gui` (`BenchIsGui`).

`NoOtherMiss` proves `MissesOutside`: the screen stays at its place, solid, behind all
views (`Backdrop`), so `hit_tree` ends at it whenever it has found nothing nearer and
the point is on it (`ScreenIsHit`).

The constants' types are assumed (`ViewsAssumption`, `GuiAssumption`, `MCGuiAssumption`), that
every control is the child of one window, that none is a title and a button at once, that
the screen begins at its origin (`services/gui_service.cpp:43`), and that what programs
paste is not empty.  The stand-ins are a bound (`Spare`): a window is hidden only while one is free, where
the code allocates another.

### Mailboxes

`MailboxesProofs` proves for any tasks, lists of mailboxes, posters and numbers
`TypeCorrect`, `SelectFinds`, `NothingDangles`, `OwnersAlone` and `ArmedWakesUp`, the
invariants of the run `mailboxes`, from `Inductive`.  `IInv` ties the shared state to
the place of each task in `select`: a mailbox points to the task's `Sync`, or is locked
by it, exactly if it is one of those that the task has passed (`InStep`); a task that was
woken has mail (`Stirred`); mail in a mailbox that the task has armed was there before
it armed it or has woken it (`Roused`); and a mailbox has one place in one list
(`Owners`).  `InStep` is needed in both directions: that no pointer is left behind
(`NoDangling`) rests on one, that a post wakes the sleeper on the other.

### ShmLink

`ShmLinkProofs` proves, for a ring of any number of slots, any towels and any
messages, and any start of the two ends, `TypeCorrect`, `Inductive`, `BreaksForGood`
(`BrokenByStart`), `Crosses` (`[]CrossedIfAgreed`) and `IsChannel`: `Spec => IsFifo`, each
direction implements `Fifo`.  Nothing is assumed but the types of the constants.

`IInv` has a part on the start (`SetUp`), which always holds, and one on the channels, which
holds while the link is `Agreed`.  The code lets a sender and a receiver go round the slots
on their own; the second part says that the slots that are busy are those between the two
indices, in the order of sending (`Filled`, `SenderAt`), what is written and not yet
marked, or copied and not yet released, is the message at that end (`InHand`), and what
came out is the beginning of what went in (`InOrder`).  `StepKeeps` shows at once that
each step that leaves the link agreed keeps this and is, in each direction, a `Send`, a
`Receive` or nothing of the abstract channel; any other step is a `Break`, and `Agreed`
never comes back.

### Parcels

`ParcelsProofs` proves, for any nodes, links, routes, messages and numbers of fragments
and failures, `TypeCorrect`, and from `Inductive` the invariants `NothingLost`
(`Conserved`) and `MailIntact` (`Intact`: a mailbox is given a message once, all of its
fragments, each once), and `Delivers`, `Spec => IsDelivery`.  `Conserved` counts places; what is inductive is
that each packet of a message that was sent is at one of them, once, and at none of the
others (`Housed`, `At`).  Each action moves one packet, but for `Deliver` of the last
fragment, which moves all of a parcel into the mailbox (`PostStep`): there
`FullLength`, the length of what is posted, is what makes it whole.  For the refinement
two facts about `IInv` are enough: a packet that is dropped is of a message that was sent
and not delivered (`DroppedNotDelivered`), so that each step that puts nothing into a
mailbox is a `Drop`, of nothing perhaps (`DropStep`), and the one that completes a parcel
is a `Put` (`PutStep`).

### FileTransfer

`FileTransferProofs` proves, for any transfers, windows, lengths and pools, `TypeCorrect` and
`FlowControl` (`[]WithinTwoWindows`) from `Inductive`.  `Paced` is the heart: with `d`
acknowledgements sent and `c` read, the destination has begun `d` windows and the source
sent `c`, and `c + 1` when it waits; those on their way are not among the `c`.  Together with
`SentOnce` (what is written and what is on its way was sent) the source is less than two
windows ahead.  The other conjuncts say that a request starts one job
(`RequestedOnce`) and a job is queued once (`QueuedOnce`).
`ReportedWhole` proves `[]OkMeansWhole` when no two transfers share a temporary file
(`OwnTempFiles`), from `Kept`: a temporary file holds as many chunks as were counted, none
of which is still on its way.  `file_clash` shows that the assumption is needed.

### Node

`NodeProofs` proves, for any applications, delays, connections, dials and cables, either
end of the IP links and all three main functions, `TypeCorrect`, `KeepsRequests`
(`[]RequestsKept`) and `LeavesNothing` (`[]NothingLeftBehind`).  The invariant has a part
for each module:

- `KInv`: a thread waits for the kernel exactly if one call of its is in the mailbox, of
  the kind it waits for (`CalledOnce`); a task is started once (`StartedOnce`); who waits
  for a timer has one in the list, in the mailbox, or as mail, and what it cancelled comes
  before that (`Armed`); without cancelling it has one of these (`OneTimer`); and the
  kernel wakes no later than the first timer is due (`Punctual`), which rests on the list
  and not on its order.
- `IpInv` and `UsbInv`: the router holds a link only while its receive thread reads, that
  only while there is a link, and there are links only while a manager is at work.
- `WindowInv`: an application at work has a window, and while there is one the GUI service
  is in its loop; so when that has ended there is none.
- `MainInv`: how far `main` is tells what has not started and what has ended.

`LeavesNothing` rests on `WindowInv` for a GUI node, whose tasks nobody joins: what they
leave is a thread that waits, never a window.

`InsertedTimers`, `RemovedTimers` and `PendingTimers` are the lemmas about the timer list:
where each timer of the new list comes from, and that none but those meant is lost.

### Farm

`FarmProofs` proves, for any workers, farms, jobs and limits, `FarmTypeCorrect`,
`JobsHaveOneFate` (`[]OneFate`) and `RepliesRetireTheirTicket` (`RightTicket`, an action
property) from `FarmInductive`.  Only the constants' types are assumed, and that the set
of workers is finite.  `IInv` has three parts:

- `Sorts`: the types of everything but the farm.
- `Sound`: the types of the farm; that no worker has more tickets than it may (`Limited`);
  that the workers are listed once each and no other has tickets (`Listed`), without
  which a worker that leaves would take jobs along or return them twice; and `Labelled`:
  among the jobs that bear the present mailbox a key names one job, a reply to that
  mailbox with the key of a job is to that job, every key was used before, and what
  has a ticket bears the present mailbox.  `RightTicket` rests on it: `validate_job` looks
  at the worker and the key only, and the mailbox does the rest.
- `Fates`: the jobs of the present farm that are not done are those that it holds, each at
  one place (`Once`), and those of later farms are untouched.

A handler is a chain of operators on farms (`Restarted`, `Departed`, `Joined`,
`Dispatched`), and each has its lemma: it rearranges the jobs (`Rearranged`: a one-to-one
correspondence of the places before and after, that keeps the job at each) and leaves the
farm sound.  `Ranked` and `ListedByRank` say that `Sorted` lists a finite set, each member
once, whatever strict total order is used; `ChosenFit` that `assign_work` never gives a worker
more than it has room for; `RetiredTicket` that `complete_job` removes one job and no other.

### What stays with TLC

- Liveness (`FloodReaches`, `StoppedVanish`, `SenderGoesOn`, `Arrives`, `ThreadsFreed`,
  `Succeeds`, `DoneOrAlone`, `NodeEnds`, `LinksFollow`): fairness needs `ENABLED`, which the
  prover does not know.
- `Painted` and the second half of `PressHitsWhatShows`, that a press goes to what is drawn
  there: that compositing what is dirty draws what drawing
  everything would draw relates two walks over the tree to the draw list pixel by pixel, for
  every tree; the lists are proved exact, the walks only to keep the tree well formed.

## 5. Plan

All of the plan is done: `Routing`, `Mailboxes`, `Parcels` with `Delivery`,
`FileTransfer`, `Farm`, `ShmLink` with `Fifo`; the regions, `Views` and `Gui`; `Kernel`,
`IpLinks`, `UsbLinks` and `Node`; and the proofs for each of them.  What would come next:

1. `Painted`: a lemma for each walk of `composite` that relates the pixels of its lists to
   the order of the tree, from the lemmas that the lists are exact.
2. `FileTransfer` and `Farm` over `Delivery`, instead of a network of their own.

Not modelled, and why:

- The run length coder, string functions, the memory pool, fixed point and vectors:
  pure functions on bytes and numbers, which tests and proofs of programs reach better
  than a model of states.
- Canvas, fonts, paths, pixmaps, the demos' pictures: numerical code without
  concurrency.  The caches of glyphs are used under a lock.
- Layout of flows and grids, scrolling, sliders, text: arithmetic on sizes that no
  other part reads; `Views` has the layout of a window, which decides what is opaque.
- Properties of views: a map that is looked up on the way to the parent.
- The host layer: system calls and drivers; libusb and sockets are seen from their
  callers.
- Command lines, the printing of the directory, the listing of files, and the
  destructors of the thread pools.
