------------------------------- MODULE Kernel -------------------------------
(***************************************************************************)
(* The kernel service of a node, the tasks it starts and the timers it     *)
(* keeps.                                                                  *)
(*                                                                         *)
(* The kernel thread reads its mailbox, does what the event asks for, and  *)
(* sends the mail of the timers that are due.  Its clients are the GUI     *)
(* service, which runs everything that touches the screen in the kernel    *)
(* thread, and the applications.  What the GUI service does with windows   *)
(* is in Gui; here it counts only who has one.                             *)
(***************************************************************************)
EXTENDS Integers, Sequences, FiniteSets, SequencesExt

CONSTANTS
  Apps,      \* the tasks that the GUI service and the launcher start
  Launcher,  \* the first of them
  Offers,    \* those that the launcher has a button for
  Cancellers, \* those that cancel timers; no application does so yet
  Service,   \* the GUI service, or the file service
  Delays,    \* the timeouts, in milliseconds, that applications ask for
  MaxTime,   \* bound: the clock stops here
  AskLimit,  \* bound: how often an application asks for a timer or a callback
  Never      \* the kernel waits without a timer

ASSUME KernelAssumption ==
  /\ Launcher \in Apps /\ Offers \subseteq Apps /\ Cancellers \subseteq Apps
  /\ Service \notin Apps
  /\ Delays \subseteq Nat \ {0} /\ MaxTime \in Nat /\ AskLimit \in [Apps -> Nat]
  /\ Never \notin Nat

Threads == Apps \cup {Service}

VARIABLES
  box,     \* the mailbox of the kernel service
  kernel,  \* where the kernel thread is: off, read, over
  krun,    \* m_running of the kernel service
  wake,    \* when mbox->read gives up
  timers,  \* m_timer
  tasks,   \* m_tasks
  thread,  \* thread[t]: what t's thread does, or waits for
  run,     \* run[t]: m_running of t
  mail,    \* mail[t]: the messages in t's mailboxes
  armed,   \* armed[t]: does t wait for a timer it has asked for?
  asks,    \* asks[t]: how often t has asked
  windows, \* the applications with a window on the screen
  now      \* the clock

serviceVars == <<kernel, krun, wake, timers, tasks>>
taskVars == <<thread, run, mail, armed, asks, windows>>
kernelVars == <<box, serviceVars, taskVars, now>>

KernelInit ==
  /\ box = <<>> /\ kernel = "off" /\ krun = FALSE /\ wake = Never
  /\ timers = <<>> /\ tasks = {}
  /\ thread = [t \in Threads |-> "none"] /\ run = [t \in Threads |-> FALSE]
  /\ mail = [t \in Threads |-> {}]
  /\ armed = [t \in Apps |-> FALSE] /\ asks = [t \in Apps |-> 0]
  /\ windows = {} /\ now = 0

Event(evt) == [evt |-> evt]
TaskEvent(evt, t) == [evt |-> evt, task |-> t]

\* A task tells the kernel what to do, and goes on or waits for the answer.
Tell(t, e, next) ==
  /\ box' = Append(box, e)
  /\ thread' = [thread EXCEPT ![t] = next]

StartTask(t, task) == [evt |-> "start", task |-> task, from |-> t]
Callback(t) == [evt |-> "callback", from |-> t]
TimedMail(t, delay) == [evt |-> "timer", to |-> t, delay |-> delay]

\* join_task asks the kernel to stop the task.
JoinTask(t) == TaskEvent("stop", t)

-----------------------------------------------------------------------------
(* The kernel thread.                                                       *)

\* The list has the mail that is due last in front.
Inserted(timer) ==
  InsertAt(timers,
           Min({i \in 1 .. Len(timers) : timers[i].at <= timer.at} \cup {Len(timers) + 1}),
           timer)

\* The first timer of the mailbox goes, which is the one due last.
Removed(to) ==
  LET own == {i \in 1 .. Len(timers) : timers[i].to = to}
  IN  IF own = {} THEN timers ELSE RemoveAt(timers, Min(own))

\* The timers that are not due, in their order.
Pending(list) ==
  LET later == {i \in 1 .. Len(list) : list[i].at > now}
  IN  [n \in 1 .. Cardinality(later) |->
         list[CHOOSE i \in later : Cardinality({k \in later : k <= i}) = n]]

\* Mistake: sleep at least a millisecond, and until the timer in front is due.
FrontTime(list) == IF list = <<>> THEN Never ELSE Head(list).at

\* Wait a millisecond while there are timers, less if the last of them is due.
WakeTime(list) ==
  IF list = <<>> THEN Never
  ELSE IF Head(list).at < now + 1 THEN Head(list).at ELSE now + 1

\* The timers after the event; what is due is sent off.
Fire(list, box1) ==
  /\ timers' = Pending(list)
  /\ wake' = WakeTime(Pending(list))
  /\ mail' = [t \in Threads |-> box1[t] \cup {"timer" : i \in
                {j \in 1 .. Len(list) : list[j].at <= now /\ list[j].to = t}}]

\* stop_thread: clear m_running and wake the task, unless it was clear.
Stopped(t) == IF run[t] THEN [mail EXCEPT ![t] = @ \cup {"exit"}] ELSE mail

HandleExit ==
  /\ krun' = FALSE
  /\ Fire(timers, mail)
  /\ UNCHANGED <<tasks, thread, run>>

\* Mistake: a task is not entered in the list.
NotListed(task) == tasks

Listed(task) == tasks \cup {task}

\* The thread of the task starts, and the caller gets its answer.
HandleStart(e) ==
  /\ tasks' = Listed(e.task)
  /\ run' = [run EXCEPT ![e.task] = TRUE]
  /\ thread' = [thread EXCEPT ![e.task] = IF run[e.task] THEN @ ELSE "show",
                              ![e.from] = IF @ = "launch" THEN "poll" ELSE "work"]
  /\ Fire(timers, mail)
  /\ UNCHANGED krun

HandleStop(e) ==
  /\ IF e.task \in tasks
     THEN run' = [run EXCEPT ![e.task] = FALSE] /\ Fire(timers, Stopped(e.task))
     ELSE UNCHANGED run /\ Fire(timers, mail)
  /\ UNCHANGED <<krun, tasks, thread>>

\* Where a thread goes on after a callback.
Returns(t) ==
  CASE thread[t] = "init"    -> "start"
    [] thread[t] = "call"    -> "work"
    [] thread[t] = "tidy"    -> "done"
    [] thread[t] = "drawing" -> IF windows = {} THEN "leave" ELSE "frame"
    [] thread[t] = "deinit"  -> "quit"

\* The function runs in the kernel thread, then its caller is woken.
HandleCallback(e) ==
  /\ thread' = [thread EXCEPT ![e.from] = Returns(e.from)]
  /\ Fire(timers, mail)
  /\ UNCHANGED <<krun, tasks, run>>

HandleTimer(e) ==
  /\ IF e.delay # 0
     THEN Fire(Inserted([to |-> e.to, at |-> now + e.delay]), mail)
     ELSE Fire(Removed(e.to), mail)
  /\ UNCHANGED <<krun, tasks, thread, run>>

\* mbox->read gives up.
Expired == wake # Never /\ wake <= now

\* One round of the loop: an event or a timeout, then the timers.
Turn ==
  /\ kernel = "read" /\ krun
  /\ \/ /\ box # <<>>
        /\ box' = Tail(box)
        /\ LET e == Head(box) IN
             \/ e.evt = "exit" /\ HandleExit
             \/ e.evt = "start" /\ HandleStart(e)
             \/ e.evt = "stop" /\ HandleStop(e)
             \/ e.evt = "callback" /\ HandleCallback(e)
             \/ e.evt = "timer" /\ HandleTimer(e)
     \/ /\ box = <<>> /\ Expired
        /\ Fire(timers, mail)
        /\ UNCHANGED <<box, krun, tasks, thread, run>>
  /\ UNCHANGED <<kernel, armed, asks, windows, now>>

\* A kernel with a thread of its own joins itself, in a mailbox nobody reads.
EndKernel(ownThread) ==
  /\ kernel = "read" /\ ~krun
  /\ kernel' = "over"
  /\ box' = IF ownThread THEN Append(box, JoinTask("kernel")) ELSE box
  /\ UNCHANGED <<krun, wake, timers, tasks, taskVars, now>>

\* Time passes, but not while the kernel thread has something to do.  Without a
\* timer it makes no difference.
Tick ==
  /\ now < MaxTime /\ timers # <<>>
  /\ kernel = "read" => krun /\ box = <<>> /\ ~Expired
  /\ now' = now + 1
  /\ UNCHANGED <<box, serviceVars, taskVars>>

-----------------------------------------------------------------------------
(* The thread of the GUI service.                                           *)

GuiStep(from, e, to) ==
  /\ thread[Service] = from
  /\ Tell(Service, e, to)
  /\ UNCHANGED <<serviceVars, run, mail, armed, asks, windows, now>>

\* The host is set up in the kernel thread; the launcher is started; a frame
\* is drawn in the kernel thread, again and again; the host is closed down.
InitHost == GuiStep("begin", Callback(Service), "init")
StartLauncher == GuiStep("start", StartTask(Service, Launcher), "launch")
Frame == GuiStep("frame", Callback(Service), "drawing")
DeinitHost == GuiStep("leave", Callback(Service), "deinit")

\* After the loop: stop and join itself, which is in no list, ask the kernel
\* to exit, and at the end of run_then_join join itself once more.
Quit ==
  /\ thread[Service] = "quit"
  /\ box' = box \o <<TaskEvent("stop", Service), JoinTask(Service), Event("exit"),
                     JoinTask(Service)>>
  /\ thread' = [thread EXCEPT ![Service] = "over"]
  /\ UNCHANGED <<serviceVars, run, mail, armed, asks, windows, now>>

\* The mail that the service reads is an application's request.
Serve(t) ==
  /\ thread[Service] \in {"poll", "frame"}
  /\ \/ /\ thread[t] = "show"
        /\ windows' = windows \cup {t}
        /\ thread' = [thread EXCEPT ![t] = "work", ![Service] = "frame"]
     \/ /\ thread[t] = "hide"
        /\ windows' = windows \ {t}
        /\ thread' = [thread EXCEPT ![t] = "hidden", ![Service] = "frame"]
  /\ UNCHANGED <<box, serviceVars, run, mail, armed, asks, now>>

-----------------------------------------------------------------------------
(* The threads of the applications.                                         *)

Working(t) == thread[t] = "work"

\* The launcher starts the task of a button that is pressed.
Launch(task) ==
  /\ Working(Launcher) /\ run[Launcher] /\ thread[task] = "none"
  /\ \A i \in DOMAIN box : box[i].evt = "start" => box[i].task # task
  /\ Tell(Launcher, StartTask(Launcher, task), "starting")
  /\ UNCHANGED <<serviceVars, run, mail, armed, asks, windows, now>>

\* A pixmap is made, drawn or thrown away.
CallBack(t) ==
  /\ Working(t) /\ run[t] /\ asks[t] < AskLimit[t]
  /\ asks' = [asks EXCEPT ![t] = @ + 1]
  /\ Tell(t, Callback(t), "call")
  /\ UNCHANGED <<serviceVars, run, mail, armed, windows, now>>

\* The first timer of an application, or the next.
Arm(t, delay) ==
  /\ Working(t) /\ run[t] /\ ~armed[t] /\ asks[t] < AskLimit[t]
  /\ asks' = [asks EXCEPT ![t] = @ + 1]
  /\ armed' = [armed EXCEPT ![t] = TRUE]
  /\ Tell(t, TimedMail(t, delay), "work")
  /\ UNCHANGED <<serviceVars, run, mail, windows, now>>

\* A timeout of 0 cancels a timer, but not the mail that has been sent already.
Disarm(t) ==
  /\ t \in Cancellers /\ Working(t) /\ run[t] /\ armed[t]
  /\ armed' = [armed EXCEPT ![t] = FALSE]
  /\ Tell(t, TimedMail(t, 0), "work")
  /\ UNCHANGED <<serviceVars, run, mail, asks, windows, now>>

ReadTimer(t) ==
  /\ Working(t) /\ run[t] /\ "timer" \in mail[t]
  /\ mail' = [mail EXCEPT ![t] = @ \ {"timer"}]
  /\ armed' = [armed EXCEPT ![t] = FALSE]
  /\ UNCHANGED <<box, serviceVars, thread, run, asks, windows, now>>

\* The window is to be closed.
Close(t) ==
  /\ Working(t) /\ run[t]
  /\ \A i \in DOMAIN box : box[i] # TaskEvent("stop", t)
  /\ Tell(t, TaskEvent("stop", t), "work")
  /\ UNCHANGED <<serviceVars, run, mail, armed, asks, windows, now>>

\* The loop of an application sees that it is to stop; the window goes, and
\* with it pixmaps, whose textures only the kernel thread may destroy.
Leave(t) ==
  /\ \/ Working(t) /\ ~run[t] /\ thread' = [thread EXCEPT ![t] = "hide"] /\ UNCHANGED box
     \/ thread[t] = "hidden" /\ Tell(t, Callback(t), "tidy")
     \/ thread[t] = "hidden" /\ thread' = [thread EXCEPT ![t] = "done"] /\ UNCHANGED box
     \/ thread[t] = "done" /\ Tell(t, JoinTask(t), "over")
  /\ UNCHANGED <<serviceVars, run, mail, armed, asks, windows, now>>

App(t) ==
  \/ CallBack(t) \/ (\E d \in Delays : Arm(t, d)) \/ Disarm(t) \/ ReadTimer(t)
  \/ Close(t) \/ Leave(t)

Gui == InitHost \/ StartLauncher \/ Frame \/ DeinitHost \/ Quit \/ (\E t \in Apps : Serve(t))

Tasks ==
  \/ Tick \/ Gui
  \/ (\E t \in Apps : App(t)) \/ (\E t \in Offers : Launch(t))

-----------------------------------------------------------------------------
(* Properties.                                                             *)

Timer == [to : Apps, at : Nat]

KernelTypeOK ==
  /\ kernel \in {"off", "read", "over"} /\ krun \in BOOLEAN
  /\ wake \in Nat \cup {Never} /\ now \in 0 .. MaxTime
  /\ timers \in Seq(Timer) /\ tasks \subseteq Apps
  /\ thread \in [Threads -> {"none", "serve", "begin", "init", "start", "launch", "poll", "frame",
       "drawing", "leave", "deinit", "quit", "show", "work", "starting", "call", "hide",
       "hidden", "tidy", "done", "over"}]
  /\ run \in [Threads -> BOOLEAN] /\ mail \in [Threads -> SUBSET {"exit", "timer"}]
  /\ armed \in [Apps -> BOOLEAN] /\ asks \in [Apps -> Nat]
  /\ windows \subseteq tasks /\ \A t \in Apps : thread[t] # "none" => t \in tasks

\* Where a thread waits for the kernel.
Waiting == {"init", "launch", "drawing", "deinit", "call", "starting", "tidy"}

\* What t has asked for that is still in the mailbox.
Asks(t, evts) == {i \in DOMAIN box : /\ box[i].evt \in evts
                                     /\ IF box[i].evt = "timer"
                                        THEN box[i].to = t /\ box[i].delay # 0
                                        ELSE box[i].from = t}

\* What is asked of the kernel is kept until it is done.  A thread that waits for
\* the kernel has its request in the mailbox.  An application that waits for a timer
\* has one, or its mail, or its request is on its way; one that asks for one timer
\* at a time and cancels none has one at most.  And no mail is late, though the
\* kernel looks only at the front of its list, where the timer is that is due last
\* (kernel_service.cpp run, start_task, callback, timed_mail).
RequestsKept ==
  kernel = "read" =>
    /\ \A t \in Threads : thread[t] \in Waiting => Asks(t, {"start", "callback"}) # {}
    /\ \A i \in DOMAIN timers : timers[i].at >= now
    /\ \A t \in Apps :
         LET kept == {i \in DOMAIN timers : timers[i].to = t}
         IN  /\ t \notin Cancellers => Cardinality(kept) <= 1
             /\ armed[t] => \/ kept # {} \/ "timer" \in mail[t]
                            \/ Asks(t, {"timer"}) # {}

=============================================================================
