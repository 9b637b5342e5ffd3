----------------------------- MODULE UITaskQueue -----------------------------
(***************************************************************************)
(* UITaskQueue.cpp: how the HTTP server task, main_loop and the other tasks *)
(* of the firmware have an action run on the UI task and wait for it.  The *)
(* poster puts a pointer to a std::function on its own stack into a        *)
(* FreeRTOS queue and sleeps on ONE binary semaphore that all posters      *)
(* share; a mutex keeps the posters apart.  Before the UI task has         *)
(* published its handle, and on the UI task itself, the action runs inline. *)
(*                                                                         *)
(* The state starts after the UI feature's setup (initTaskQueue done, the  *)
(* three actions registered, the UI task not yet started): the web server  *)
(* already accepts commands then (main.cpp:45-52).                         *)
(***************************************************************************)
EXTENDS Naturals, Sequences, FiniteSets

CONSTANTS
  Posters,     \* the tasks that post: httpd, main_loop, ...
  UITask,      \* the task of the UI feature
  None,        \* nullptr, or a mutex nobody holds
  QueueLen     \* length of sCmdQueue (8)

ASSUME UITaskQueueAssumption ==
  /\ UITask \notin Posters
  /\ None \notin Posters \union {UITask}
  /\ QueueLen \in Nat \ {0}

VARIABLES
  sUiTaskHandle,   \* None until the UI task's first loop
  sCmdQueue,       \* posted commands, each named by the task that waits for it
  sSyncMutex,      \* the task that holds the mutex
  sSyncDone,       \* the binary semaphore: is it given?
  cmd,             \* the command processTaskQueue is serving
  pc,              \* where each task is
  outer,           \* the body that a nested call of a task interrupts
  ran              \* history: how often the posted action of a task has run

vars == <<sUiTaskHandle, sCmdQueue, sSyncMutex, sSyncDone, cmd, pc, outer, ran>>

Tasks == Posters \union {UITask}

(* Code a task can be in that belongs to an action and may call further     *)
(* actions: an inline action, an action served from the queue, and what the *)
(* UI loop runs itself (touch handlers, timers, queued callbacks).          *)
Bodies == {"inline", "exec", "frame"}

PosterSteps == {"idle", "check", "inline", "lock", "send", "wait", "unlock"}
UISteps     == {"start", "recv", "exec", "give", "frame", "check", "inline"}

TypeOK ==
  /\ sUiTaskHandle \in {None, UITask}
  /\ sCmdQueue \in Seq(Posters)
  /\ Len(sCmdQueue) <= QueueLen
  /\ sSyncMutex \in Posters \union {None}
  /\ sSyncDone \in BOOLEAN
  /\ cmd \in Posters \union {None}
  /\ pc \in [Tasks -> PosterSteps \union UISteps]
  /\ \A t \in Posters : pc[t] \in PosterSteps
  /\ pc[UITask] \in UISteps
  /\ outer \in [Tasks -> Bodies \union {"none"}]
  /\ ran \in [Posters -> Nat]

Init ==
  /\ sUiTaskHandle = None
  /\ sCmdQueue = <<>>
  /\ sSyncMutex = None
  /\ sSyncDone = FALSE
  /\ cmd = None
  /\ pc = [t \in Tasks |-> IF t = UITask THEN "start" ELSE "idle"]
  /\ outer = [t \in Tasks |-> "none"]
  /\ ran = [t \in Posters |-> 0]

-----------------------------------------------------------------------------
(* postToUITaskSync                                                         *)

Goto(t, step) == pc' = [pc EXCEPT ![t] = step]

isUITaskRunning == sUiTaskHandle # None

isOnUITask(t) == isUITaskRunning /\ t = sUiTaskHandle

(* The call is over: control goes back to the body that made it, if any.    *)
Resume(t) ==
  /\ Goto(t, IF outer[t] = "none" THEN "idle" ELSE outer[t])
  /\ outer' = [outer EXCEPT ![t] = "none"]

(* A command arrives at a poster: the action's handler calls                *)
(* postToUITaskSync.                                                        *)
Call(t) ==
  /\ pc[t] = "idle"
  /\ Goto(t, "check")
  /\ UNCHANGED <<sUiTaskHandle, sCmdQueue, sSyncMutex, sSyncDone, cmd, outer, ran>>

(* An action that runs calls another one (a Berry script's action('...')).  *)
(* Bound: the inner action calls no third one.                              *)
NestedCall(t) ==
  /\ pc[t] \in Bodies
  /\ outer[t] = "none"
  /\ outer' = [outer EXCEPT ![t] = pc[t]]
  /\ Goto(t, "check")
  /\ UNCHANGED <<sUiTaskHandle, sCmdQueue, sSyncMutex, sSyncDone, cmd, ran>>

RunsInline_NoUICheck(t) == ~isUITaskRunning

RunsInline(t) == isOnUITask(t) \/ ~isUITaskRunning

Check(t) ==
  /\ pc[t] = "check"
  /\ Goto(t, IF RunsInline(t) THEN "inline" ELSE "lock")
  /\ UNCHANGED <<sUiTaskHandle, sCmdQueue, sSyncMutex, sSyncDone, cmd, outer, ran>>

InlineDone(t) ==
  /\ pc[t] = "inline"
  /\ Resume(t)
  /\ UNCHANGED <<sUiTaskHandle, sCmdQueue, sSyncMutex, sSyncDone, cmd, ran>>

MutexFree_Ignored == TRUE

MutexFree == sSyncMutex = None

Lock(t) ==
  /\ pc[t] = "lock"
  /\ MutexFree
  /\ sSyncMutex' = t
  /\ Goto(t, "send")
  /\ UNCHANGED <<sUiTaskHandle, sCmdQueue, sSyncDone, cmd, outer, ran>>

Send(t) ==
  /\ pc[t] = "send"
  /\ Len(sCmdQueue) < QueueLen
  /\ sCmdQueue' = Append(sCmdQueue, t)
  /\ ran' = [ran EXCEPT ![t] = 0]
  /\ Goto(t, "wait")
  /\ UNCHANGED <<sUiTaskHandle, sSyncMutex, sSyncDone, cmd, outer>>

WaitDone_TimesOut(t) ==
  /\ pc[t] = "wait"
  /\ sSyncDone' = FALSE
  /\ Goto(t, "unlock")
  /\ UNCHANGED <<sUiTaskHandle, sCmdQueue, sSyncMutex, cmd, outer, ran>>

WaitDone(t) ==
  /\ pc[t] = "wait"
  /\ sSyncDone
  /\ sSyncDone' = FALSE
  /\ Goto(t, "unlock")
  /\ UNCHANGED <<sUiTaskHandle, sCmdQueue, sSyncMutex, cmd, outer, ran>>

Unlock(t) ==
  /\ pc[t] = "unlock"
  /\ sSyncMutex' = None
  /\ Resume(t)
  /\ UNCHANGED <<sUiTaskHandle, sCmdQueue, sSyncDone, cmd, ran>>

-----------------------------------------------------------------------------
(* The UI task: the UI feature's loop and processTaskQueue                  *)

FirstLoop_NoPublish ==
  /\ pc[UITask] = "start"
  /\ Goto(UITask, "recv")
  /\ UNCHANGED <<sUiTaskHandle, sCmdQueue, sSyncMutex, sSyncDone, cmd, outer, ran>>

FirstLoop ==
  /\ pc[UITask] = "start"
  /\ sUiTaskHandle' = UITask
  /\ Goto(UITask, "recv")
  /\ UNCHANGED <<sCmdQueue, sSyncMutex, sSyncDone, cmd, outer, ran>>

Receive ==
  /\ pc[UITask] = "recv"
  /\ sCmdQueue # <<>>
  /\ cmd' = Head(sCmdQueue)
  /\ sCmdQueue' = Tail(sCmdQueue)
  /\ Goto(UITask, "exec")
  /\ UNCHANGED <<sUiTaskHandle, sSyncMutex, sSyncDone, outer, ran>>

(* The queue is drained: the rest of the loop body runs.                    *)
Drained ==
  /\ pc[UITask] = "recv"
  /\ sCmdQueue = <<>>
  /\ Goto(UITask, "frame")
  /\ UNCHANGED <<sUiTaskHandle, sCmdQueue, sSyncMutex, sSyncDone, cmd, outer, ran>>

ExecDone ==
  /\ pc[UITask] = "exec"
  /\ ran' = [ran EXCEPT ![cmd] = @ + 1]
  /\ Goto(UITask, "give")
  /\ UNCHANGED <<sUiTaskHandle, sCmdQueue, sSyncMutex, sSyncDone, cmd, outer>>

GiveDone ==
  /\ pc[UITask] = "give"
  /\ sSyncDone' = TRUE
  /\ cmd' = None
  /\ Goto(UITask, "recv")
  /\ UNCHANGED <<sUiTaskHandle, sCmdQueue, sSyncMutex, outer, ran>>

FrameDone ==
  /\ pc[UITask] = "frame"
  /\ Goto(UITask, "recv")
  /\ UNCHANGED <<sUiTaskHandle, sCmdQueue, sSyncMutex, sSyncDone, cmd, outer, ran>>

-----------------------------------------------------------------------------
PosterStep(t) == Check(t) \/ Send(t) \/ WaitDone(t) \/ Unlock(t)

Next ==
  \/ \E t \in Posters : Call(t) \/ PosterStep(t) \/ Lock(t)
  \/ \E t \in Tasks : NestedCall(t) \/ InlineDone(t)
  \/ Check(UITask)
  \/ FirstLoop \/ Receive \/ Drained \/ ExecDone \/ GiveDone \/ FrameDone

Safe == Init /\ [][Next]_vars

(* Each task keeps running; actions end, however many others they call      *)
(* (strong fairness: a nested call disables the step that ends the outer    *)
(* body for a while); and no poster is passed over for ever by the others   *)
(* when the mutex is freed.                                                 *)
Fairness ==
  /\ \A t \in Posters : WF_vars(PosterStep(t)) /\ SF_vars(Lock(t))
  /\ \A t \in Tasks : SF_vars(InlineDone(t))
  /\ WF_vars(Check(UITask))
  /\ WF_vars(FirstLoop) /\ WF_vars(Receive \/ Drained) /\ WF_vars(GiveDone)
  /\ SF_vars(ExecDone) /\ SF_vars(FrameDone)

Spec == Safe /\ Fairness

-----------------------------------------------------------------------------
(* Properties                                                               *)

(* A poster that wakes up does so for its own command, and that command has *)
(* run exactly once: the one semaphore all posters share never wakes the    *)
(* wrong one, so the result that the handler returns has been written.      *)
WokenByOwnCommand == \A t \in Posters : pc[t] = "unlock" => ran[t] = 1

Queued(t) == \E i \in DOMAIN sCmdQueue : sCmdQueue[i] = t

UIExecuting == pc[UITask] = "exec" \/ outer[UITask] = "exec"

(* A command holds a pointer to a std::function on its poster's stack.      *)
(* While the UI task can still follow it, the poster is in the call that    *)
(* owns it.                                                                 *)
NoDanglingCommand ==
  \A t \in Posters :
    Queued(t) \/ (cmd = t /\ UIExecuting) => pc[t] = "wait"

(* The semaphore is given only while the holder of the mutex sleeps on it   *)
(* and its command has run: no token is left over for the next poster.      *)
NoStaleDone ==
  sSyncDone => \E t \in Posters : sSyncMutex = t /\ pc[t] = "wait" /\ ran[t] = 1

(* Every call of a poster returns.  A nested call that waited for the UI    *)
(* task while running on it would never do so.                              *)
CallsReturn == \A t \in Posters : pc[t] # "idle" ~> pc[t] = "idle"

(* The window in which actions of other tasks run beside the UI task, on    *)
(* the same widgets, closes: from some moment on only the UI task runs      *)
(* them.                                                                    *)
EventuallyConfined == <>[](\A t \in Posters : pc[t] # "inline")

-----------------------------------------------------------------------------
(* The handshake implements a synchronous call.                             *)
Stage(t) ==
  CASE pc[t] \in {"lock", "send"} -> "waiting"
    [] pc[t] = "wait" /\ cmd = t /\ UIExecuting -> "serving"
    [] pc[t] = "wait" /\ ran[t] = 0 /\ ~(cmd = t /\ UIExecuting) -> "waiting"
    [] pc[t] = "wait" /\ ran[t] # 0 /\ ~(cmd = t /\ UIExecuting) -> "served"
    [] pc[t] = "unlock" -> "served"
    [] OTHER -> "idle"

stages == [t \in Posters |-> Stage(t)]

Abs == INSTANCE SyncCall WITH Callers <- Posters, stage <- stages

(* postToUITaskSync is a synchronous call of the UI task: one body at a     *)
(* time, exactly once between call and return, in every interleaving.       *)
ImplementsSyncCall == Abs!Spec
=============================================================================
