------------------------------ MODULE SyncCall ------------------------------
(***************************************************************************)
(* What UI::postToUITaskSync promises to the tasks that call it while the  *)
(* UI task is running: a synchronous call whose body runs exactly once     *)
(* between the call and its return, one body at a time.  UITaskQueue.tla   *)
(* is the mutex, queue and semaphore that implement it.                    *)
(***************************************************************************)
CONSTANT Callers        \* the tasks that call from outside the UI task

VARIABLE stage          \* where the remote call of each caller stands

Stages == {"idle", "waiting", "serving", "served"}

Init == stage = [c \in Callers |-> "idle"]

Move(c, from, to) ==
  /\ stage[c] = from
  /\ stage' = [stage EXCEPT ![c] = to]

Call(c)   == Move(c, "idle", "waiting")

Serve(c)  ==
  /\ \A d \in Callers : stage[d] \notin {"serving", "served"}
  /\ Move(c, "waiting", "serving")

Finish(c) == Move(c, "serving", "served")

Return(c) == Move(c, "served", "idle")

Next == \E c \in Callers : Call(c) \/ Serve(c) \/ Finish(c) \/ Return(c)

Safe == Init /\ [][Next]_stage

Fairness ==
  \A c \in Callers :
    /\ SF_stage(Serve(c))
    /\ WF_stage(Finish(c))
    /\ WF_stage(Return(c))

Spec == Safe /\ Fairness
=============================================================================
