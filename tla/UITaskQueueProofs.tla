-------------------------- MODULE UITaskQueueProofs --------------------------
(***************************************************************************)
(* Proofs about UITaskQueue for any set of posters and any queue length.   *)
(* The inductive invariant says where the one outstanding command is: in   *)
(* the queue, being executed, executed, or signalled.                      *)
(***************************************************************************)
EXTENDS UITaskQueue, TLAPS

(* The mutex is held by the poster between xSemaphoreTake and               *)
(* xSemaphoreGive, and by nobody else.                                      *)
MutexInv ==
  \A t \in Posters : pc[t] \in {"send", "wait", "unlock"} <=> sSyncMutex = t

(* Which bodies a task can be nested in.                                    *)
OuterInv ==
  /\ \A t \in Posters :
       /\ outer[t] \in {"none", "inline"}
       /\ pc[t] \in {"idle"} => outer[t] = "none"
  /\ outer[UITask] \in {"none", "exec", "frame"}
  /\ pc[UITask] \in {"check", "inline"} <=> outer[UITask] # "none"

HandleInv == pc[UITask] # "start" => sUiTaskHandle = UITask

CmdInv == cmd # None <=> UIExecuting \/ pc[UITask] = "give"

Posted(t) ==
  sCmdQueue = <<t>> /\ cmd = None /\ ~sSyncDone /\ ran[t] = 0
Executing(t) ==
  sCmdQueue = <<>> /\ cmd = t /\ UIExecuting /\ ~sSyncDone /\ ran[t] = 0
Executed(t) ==
  sCmdQueue = <<>> /\ cmd = t /\ pc[UITask] = "give" /\ ~sSyncDone /\ ran[t] = 1
Signalled(t) ==
  sCmdQueue = <<>> /\ cmd = None /\ sSyncDone /\ ran[t] = 1

NoWaiter == \A t \in Posters : pc[t] # "wait"

HandshakeInv ==
  /\ \A t \in Posters :
       pc[t] = "wait" => Posted(t) \/ Executing(t) \/ Executed(t) \/ Signalled(t)
  /\ NoWaiter => sCmdQueue = <<>> /\ cmd = None /\ ~sSyncDone

IInv ==
  /\ TypeOK
  /\ MutexInv
  /\ OuterInv
  /\ HandleInv
  /\ CmdInv
  /\ HandshakeInv
  /\ WokenByOwnCommand

-----------------------------------------------------------------------------
USE UITaskQueueAssumption DEF Tasks

LEMMA InitIInv == Init => IInv
  <1> SUFFICES ASSUME Init PROVE IInv
    OBVIOUS
  <1> USE DEF Init, PosterSteps, UISteps, Bodies
  <1>1. TypeOK
    <2>1. pc \in [Tasks -> PosterSteps \union UISteps]
      OBVIOUS
    <2>2. /\ sCmdQueue \in Seq(Posters)
          /\ Len(sCmdQueue) <= QueueLen
      OBVIOUS
    <2>3. /\ \A t \in Posters : pc[t] \in PosterSteps
          /\ pc[UITask] \in UISteps
      OBVIOUS
    <2>4. outer \in [Tasks -> Bodies \union {"none"}] /\ ran \in [Posters -> Nat]
      OBVIOUS
    <2>5. QED
      BY <2>1, <2>2, <2>3, <2>4 DEF TypeOK
  <1>2. /\ pc[UITask] = "start"
        /\ \A t \in Posters : pc[t] = "idle"
        /\ \A t \in Tasks : outer[t] = "none"
    OBVIOUS
  <1>3. MutexInv /\ OuterInv /\ HandleInv /\ WokenByOwnCommand
    BY <1>2 DEF MutexInv, OuterInv, HandleInv, WokenByOwnCommand
  <1>4. CmdInv /\ HandshakeInv
    BY <1>2 DEF CmdInv, HandshakeInv, UIExecuting
  <1>5. QED
    BY <1>1, <1>3, <1>4 DEF IInv

(* Every step keeps the invariant.                                          *)
LEMMA NextIInv == IInv /\ [Next]_vars => IInv'
  <1> SUFFICES ASSUME IInv, [Next]_vars PROVE IInv'
    OBVIOUS
  <1> USE DEF IInv, TypeOK, MutexInv, OuterInv, HandleInv, CmdInv, HandshakeInv, NoWaiter,
              WokenByOwnCommand, UIExecuting, PosterSteps, UISteps, Bodies,
              Posted, Executing, Executed, Signalled, Goto
  <1>1. ASSUME NEW t \in Posters, Call(t) PROVE IInv'
    BY <1>1 DEF Call, Resume, RunsInline, isOnUITask, isUITaskRunning, MutexFree
  <1>2. ASSUME NEW t \in Posters, Check(t) PROVE IInv'
    BY <1>2 DEF Check, Resume, RunsInline, isOnUITask, isUITaskRunning, MutexFree
  <1>3. ASSUME NEW t \in Posters, Lock(t) PROVE IInv'
    BY <1>3 DEF Lock, Resume, RunsInline, isOnUITask, isUITaskRunning, MutexFree
  <1>4. ASSUME NEW t \in Posters, Send(t) PROVE IInv'
    <2> USE <1>4 DEF Send
    <2>1. NoWaiter
      OBVIOUS
    <2>2. sCmdQueue = <<>> /\ cmd = None /\ ~sSyncDone
      BY <2>1
    <2>3. sCmdQueue' = <<t>>
      BY <2>2
    <2>4. TypeOK'
      BY <2>2, <2>3
    <2>5. \A u \in Posters : pc'[u] = "wait" <=> u = t
      BY <2>1
    <2>6. HandshakeInv'
      BY <2>2, <2>3, <2>5
    <2>7. MutexInv' /\ OuterInv' /\ HandleInv' /\ CmdInv' /\ WokenByOwnCommand'
      BY <2>1
    <2>8. QED
      BY <2>4, <2>6, <2>7
  <1>5. ASSUME NEW t \in Posters, WaitDone(t) PROVE IInv'
    BY <1>5, ZenonT(30) DEF WaitDone, Resume, RunsInline, isOnUITask, isUITaskRunning, MutexFree
  <1>6. ASSUME NEW t \in Posters, Unlock(t) PROVE IInv'
    BY <1>6 DEF Unlock, Resume, RunsInline, isOnUITask, isUITaskRunning, MutexFree
  <1>7. ASSUME NEW t \in Tasks, NestedCall(t) PROVE IInv'
    BY <1>7 DEF NestedCall, Resume
  <1>8. ASSUME NEW t \in Tasks, InlineDone(t) PROVE IInv'
    BY <1>8 DEF InlineDone, Resume
  <1>9. ASSUME Check(UITask) PROVE IInv'
    BY <1>9 DEF Check, RunsInline, isOnUITask, isUITaskRunning
  <1>10. ASSUME FirstLoop PROVE IInv'
    BY <1>10 DEF FirstLoop
  <1>11. ASSUME Receive PROVE IInv'
    BY <1>11 DEF Receive
  <1>12. ASSUME Drained PROVE IInv'
    BY <1>12 DEF Drained
  <1>13. ASSUME ExecDone PROVE IInv'
    BY <1>13 DEF ExecDone
  <1>14. ASSUME GiveDone PROVE IInv'
    BY <1>14 DEF GiveDone
  <1>15. ASSUME FrameDone PROVE IInv'
    BY <1>15 DEF FrameDone
  <1>16. CASE UNCHANGED vars
    BY <1>16 DEF vars
  <1>17. QED
    BY <1>1, <1>2, <1>3, <1>4, <1>5, <1>6, <1>7, <1>8, <1>9, <1>10, <1>11, <1>12, <1>13, <1>14, <1>15, <1>16 DEF Next, PosterStep

(* The invariant holds in every reachable state.                            *)
THEOREM Invariance == Safe => []IInv
  BY InitIInv, NextIInv, PTL DEF Safe

(* Every variable of the hand-off keeps its type, for any set of posters;   *)
(* in particular the UI task never sleeps in the call it has to serve.      *)
THEOREM TypeCorrect == Safe => []TypeOK
  <1>1. IInv => TypeOK
    BY DEF IInv
  <1>2. QED
    BY <1>1, Invariance, PTL

(* A poster is only ever woken for its own command, which has run once.     *)
THEOREM WokenByOwn == Safe => []WokenByOwnCommand
  <1>1. IInv => WokenByOwnCommand
    BY DEF IInv
  <1>2. QED
    BY <1>1, Invariance, PTL

(* The UI task never follows a pointer into a stack frame that is gone.     *)
THEOREM NoDangling == Safe => []NoDanglingCommand
  <1>1. IInv => NoDanglingCommand
    <2> SUFFICES ASSUME IInv, NEW t \in Posters, Queued(t) \/ (cmd = t /\ UIExecuting)
                 PROVE  pc[t] = "wait"
      BY DEF NoDanglingCommand
    <2> USE DEF IInv, TypeOK, HandshakeInv, NoWaiter, Posted, Executing, Executed, Signalled
    <2>1. PICK u \in Posters : pc[u] = "wait"
      BY DEF Queued
    <2>2. Posted(u) \/ Executing(u) \/ Executed(u) \/ Signalled(u)
      BY <2>1
    <2>3. u = t
      <3>1. CASE Queued(t)
        BY <2>2, <3>1 DEF Queued
      <3>2. CASE cmd = t /\ UIExecuting
        BY <2>2, <3>2
      <3>3. QED
        BY <3>1, <3>2
    <2>4. QED
      BY <2>1, <2>3
  <1>2. QED
    BY <1>1, Invariance, PTL

(* No token is left in the shared semaphore for a later poster.             *)
THEOREM NoStale == Safe => []NoStaleDone
  <1>1. IInv => NoStaleDone
    BY DEF IInv, TypeOK, MutexInv, HandshakeInv, NoWaiter, NoStaleDone,
           Posted, Executing, Executed, Signalled
  <1>2. QED
    BY <1>1, Invariance, PTL

-----------------------------------------------------------------------------
(* The hand-off implements SyncCall: every step is one of SyncCall's or      *)
(* leaves every stage as it is.                                             *)

LEMMA StageOfWaiter ==
  ASSUME IInv, NEW t \in Posters, pc[t] = "wait"
  PROVE  /\ Posted(t)    => Stage(t) = "waiting"
         /\ Executing(t) => Stage(t) = "serving"
         /\ Executed(t)  => Stage(t) = "served"
         /\ Signalled(t) => Stage(t) = "served"
  <1> USE DEF Stage, IInv, TypeOK, OuterInv
  <1>1. Posted(t) => Stage(t) = "waiting"
    BY DEF Posted
  <1>2. Executing(t) => Stage(t) = "serving"
    BY DEF Executing
  <1>3. Executed(t) => Stage(t) = "served"
    BY DEF Executed, UIExecuting
  <1>4. Signalled(t) => Stage(t) = "served"
    BY DEF Signalled
  <1>5. QED
    BY <1>1, <1>2, <1>3, <1>4

(* A poster that does not sleep has a stage that its own step alone decides. *)
LEMMA StageOfOthers ==
  ASSUME NEW t \in Posters, pc[t] # "wait"
  PROVE  Stage(t) = IF pc[t] \in {"lock", "send"} THEN "waiting"
                    ELSE IF pc[t] = "unlock" THEN "served" ELSE "idle"
  BY DEF Stage

LEMMA NextRefines == IInv /\ IInv' /\ [Next]_vars => [Abs!Next]_stages
  <1> SUFFICES ASSUME IInv, IInv', [Next]_vars PROVE [Abs!Next]_stages
    OBVIOUS
  <1> USE DEF IInv, TypeOK, MutexInv, OuterInv, HandshakeInv, NoWaiter, WokenByOwnCommand, Goto, Bodies,
              PosterSteps, UISteps
  <1>a. (\A t \in Posters : Stage(t)' = Stage(t)) => UNCHANGED stages
    BY DEF stages
  <1>b. ASSUME NEW c \in Posters, NEW from, NEW to, Stage(c) = from, Stage(c)' = to,
               \A t \in Posters : t # c => Stage(t)' = Stage(t)
        PROVE  Abs!Move(c, from, to)
    <2>1. \A t \in Posters : Stage(t)' = IF t = c THEN to ELSE stages[t]
      BY <1>b DEF stages
    <2>2. stages' = [t \in Posters |-> IF t = c THEN to ELSE stages[t]]
      BY <2>1, Zenon DEF stages
    <2>3. stages' = [stages EXCEPT ![c] = to]
      <3>1. DOMAIN stages = Posters
        BY Zenon DEF stages
      <3>2. QED
        BY <2>2, <3>1
    <2>4. QED
      BY <1>b, <2>3 DEF Abs!Move, stages
  <1>1. ASSUME NEW c \in Posters, Call(c) PROVE [Abs!Next]_stages
    BY <1>1, <1>a DEF Call, Stage, UIExecuting
  <1>2. ASSUME NEW c \in Posters, Check(c) PROVE [Abs!Next]_stages
    <2> USE <1>2 DEF Check, UIExecuting
    <2>1. \A t \in Posters : t # c => Stage(t)' = Stage(t)
      BY DEF Stage
    <2>2. CASE RunsInline(c)
      BY <1>a, <2>1, <2>2 DEF Stage
    <2>3. CASE ~RunsInline(c)
      <3>1. Stage(c) = "idle" /\ Stage(c)' = "waiting"
        BY <2>3 DEF Stage
      <3>2. Abs!Call(c)
        BY <1>b, <2>1, <3>1 DEF Abs!Call
      <3>3. QED
        BY <3>2 DEF Abs!Next
    <2>4. QED
      BY <2>2, <2>3
  <1>3. ASSUME NEW c \in Posters, Lock(c) PROVE [Abs!Next]_stages
    BY <1>3, <1>a DEF Lock, Stage, UIExecuting
  <1>4. ASSUME NEW c \in Posters, Send(c) PROVE [Abs!Next]_stages
    <2> USE <1>4 DEF Send
    <2>1. cmd # c
      BY DEF Posted, Executing, Executed, Signalled
    <2>2. \A t \in Posters : Stage(t)' = Stage(t)
      BY <2>1 DEF Stage, UIExecuting
    <2>3. QED
      BY <1>a, <2>2
  <1>5. ASSUME NEW c \in Posters, WaitDone(c) PROVE [Abs!Next]_stages
    <2> USE <1>5 DEF WaitDone
    <2>1. Signalled(c)
      BY DEF Posted, Executing, Executed
    <2>2. Stage(c) = "served"
      BY <2>1, StageOfWaiter
    <2>3. \A t \in Posters : Stage(t)' = Stage(t)
      BY <2>2 DEF Stage, UIExecuting
    <2>4. QED
      BY <1>a, <2>3
  <1>6. ASSUME NEW c \in Posters, Unlock(c) PROVE [Abs!Next]_stages
    <2> USE <1>6 DEF Unlock, Resume
    <2>1. Stage(c) = "served" /\ Stage(c)' = "idle"
      BY DEF Stage
    <2>2. \A t \in Posters : t # c => Stage(t)' = Stage(t)
      BY DEF Stage, UIExecuting
    <2>3. Abs!Return(c)
      BY <1>b, <2>1, <2>2 DEF Abs!Return
    <2>4. QED
      BY <2>3 DEF Abs!Next
  <1>7. ASSUME NEW t \in Tasks, NestedCall(t) PROVE [Abs!Next]_stages
    BY <1>7, <1>a DEF NestedCall, Stage, UIExecuting
  <1>8. ASSUME NEW t \in Tasks, InlineDone(t) PROVE [Abs!Next]_stages
    BY <1>8, <1>a DEF InlineDone, Resume, Stage, UIExecuting
  <1>9. ASSUME Check(UITask) PROVE [Abs!Next]_stages
    BY <1>9, <1>a DEF Check, Stage, UIExecuting
  <1>10. ASSUME FirstLoop PROVE [Abs!Next]_stages
    BY <1>10, <1>a DEF FirstLoop, Stage, UIExecuting
  <1>11. ASSUME Receive PROVE [Abs!Next]_stages
    <2> USE <1>11 DEF Receive
    <2>1. PICK c \in Posters : pc[c] = "wait" /\ Posted(c)
      BY DEF Posted, Executing, Executed, Signalled
    <2>2. Executing(c)'
      BY <2>1 DEF Posted, Executing, UIExecuting
    <2>3. Stage(c) = "waiting" /\ Stage(c)' = "serving"
      <3>1. Stage(c) = "waiting"
        BY <2>1, StageOfWaiter
      <3>2. Stage(c)' = "serving"
        BY <2>1, <2>2 DEF Stage, Executing
      <3>3. QED
        BY <3>1, <3>2
    <2>4. \A t \in Posters : t # c => pc[t] \notin {"send", "wait", "unlock"}
      BY <2>1
    <2>5. \A t \in Posters : t # c => Stage(t)' = Stage(t)
      BY <2>4 DEF Stage
    <2>6. \A t \in Posters : Stage(t) \notin {"serving", "served"}
      BY <2>3, <2>4 DEF Stage
    <2>7. Abs!Serve(c)
      BY <1>b, <2>3, <2>5, <2>6 DEF Abs!Serve, stages
    <2>8. QED
      BY <2>7 DEF Abs!Next
  <1>12. ASSUME Drained PROVE [Abs!Next]_stages
    BY <1>12, <1>a DEF Drained, Stage, UIExecuting
  <1>13. ASSUME ExecDone PROVE [Abs!Next]_stages
    <2> USE <1>13 DEF ExecDone
    <2>1. PICK c \in Posters : pc[c] = "wait" /\ Executing(c)
      BY DEF CmdInv, UIExecuting, Posted, Executing, Executed, Signalled
    <2>2. Executed(c)'
      BY <2>1 DEF Executing, Executed
    <2>3. Stage(c) = "serving" /\ Stage(c)' = "served"
      <3>1. Stage(c) = "serving"
        BY <2>1, StageOfWaiter
      <3>2. Stage(c)' = "served"
        BY <2>1, <2>2 DEF Stage, Executed, UIExecuting
      <3>3. QED
        BY <3>1, <3>2
    <2>4. \A t \in Posters : t # c => Stage(t)' = Stage(t)
      BY <2>1 DEF Stage
    <2>5. Abs!Finish(c)
      BY <1>b, <2>3, <2>4 DEF Abs!Finish
    <2>6. QED
      BY <2>5 DEF Abs!Next
  <1>14. ASSUME GiveDone PROVE [Abs!Next]_stages
    <2> USE <1>14 DEF GiveDone
    <2>1. \A t \in Posters : pc[t] = "wait" => Executed(t) /\ Signalled(t)'
      BY DEF CmdInv, UIExecuting, Posted, Executing, Executed, Signalled
    <2>2. \A t \in Posters : Stage(t)' = Stage(t)
      BY <2>1 DEF Stage, Executed, Signalled, UIExecuting
    <2>3. QED
      BY <1>a, <2>2
  <1>15. ASSUME FrameDone PROVE [Abs!Next]_stages
    BY <1>15, <1>a DEF FrameDone, Stage, UIExecuting
  <1>16. CASE UNCHANGED vars
    BY <1>16, <1>a DEF vars, Stage, UIExecuting
  <1>17. QED
    BY <1>1, <1>2, <1>3, <1>4, <1>5, <1>6, <1>7, <1>8, <1>9, <1>10, <1>11, <1>12, <1>13, <1>14,
       <1>15, <1>16 DEF Next, PosterStep

(* postToUITaskSync, processTaskQueue and their four shared objects         *)
(* implement the synchronous call of SyncCall (its safety part), for any    *)
(* set of posters.                                                          *)
THEOREM Refinement == Safe => Abs!Safe
  <1>1. Init => Abs!Init
    BY DEF Init, Abs!Init, stages, Stage
  <1>2. QED
    BY <1>1, Invariance, NextRefines, PTL DEF Safe, Abs!Safe
=============================================================================
