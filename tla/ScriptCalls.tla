----------------------------- MODULE ScriptCalls -----------------------------
(***************************************************************************)
(* How native code and Berry scripts call each other on the UI task        *)
(* (BerryApp.h, BerryUIBindings.cpp, App.h).  A ui.* function has no app    *)
(* argument: it acts on the handle table of s_currentApp, a global that     *)
(* BerryApp::setup, teardown and callBerryCallbackWithArgs set and reset.   *)
(* A callback may call an action that tears down and sets up other scripts, *)
(* its own among them, before it goes on: code of an instance that is gone  *)
(* then still runs.                                                         *)
(*                                                                         *)
(* The C++ stack is the sequence `stack`, innermost call first: what is     *)
(* running, then what is left to do once it returns.  What scripts do to    *)
(* their widgets, and touches to scripts, is in UIScripts.                  *)
(***************************************************************************)
EXTENDS Naturals, Sequences, FiniteSets, SequencesExt

CONSTANTS
  Scripts,    \* the scripts that can be opened
  None,       \* nullptr
  MaxGen,     \* bound: a script is set up no more often than this
  MaxCb,      \* bound: callbacks stored by one instance
  MaxTimers   \* bound: timers of each app

ASSUME ScriptCallsAssumption ==
  /\ None \notin Scripts /\ IsFiniteSet(Scripts)
  /\ {MaxGen, MaxCb} \subseteq Nat
  /\ MaxTimers \in [Scripts -> Nat]

VARIABLES
  app,           \* the BerryApp of each script
  s_currentApp,  \* whose handle table ui.* functions use
  stack          \* of calls

vars == <<app, s_currentApp, stack>>

(* A BerryApp:                                                              *)
(*   open       does the object exist?                                      *)
(*   gen        how often its script was set up: the number of the instance *)
(*   instance   is the instance kept in a global (_instanceGlobal)?         *)
(*   nextCbId   the id of the next callback                                 *)
(*   globals    the closures stored under the ids: of which instance, and   *)
(*              whether for the clicks of a button; NoClosure = nil         *)
(*   timers     cb = id it calls, fired = the flag the timer task sets,     *)
(*              owed = history: no callback has started since it last fired *)
(*   handles    _handles; handle 0 of the code is handle 1 here             *)
NoClosure == [gen |-> 0, click |-> FALSE]

Closed ==
  [open |-> FALSE, gen |-> 0, instance |-> FALSE, nextCbId |-> 0,
   globals |-> [id \in 0 .. MaxCb - 1 |-> NoClosure], timers |-> <<>>, handles |-> <<>>]

(* The entry of an element in the handle table: what it is, its parent, the *)
(* callback it has been given, whether the element still exists, and        *)
(* whether the script can use the handle: "valid", "null" once it has been  *)
(* invalidated, or "lost" if the script knows that the element is gone.     *)
Element(kind, parent) ==
  [kind |-> kind, parent |-> parent, cb |-> None, live |-> TRUE, handle |-> "valid"]

Content == Element("container", 0)

(* An entry of the stack: something native to do, or script code running.   *)
(* id is a callback's id, a timer's index or an element's handle, gen the   *)
(* instance whose code it is.                                               *)
Do(op, s) == [op |-> op, app |-> s, id |-> 0, gen |-> 0]

DoWith(op, s, id) == [Do(op, s) EXCEPT !.id = id]

Code(op, s, g) == [Do(op, s) EXCEPT !.gen = g]

(* Script code that uses ui.* functions: the script's setup and teardown    *)
(* methods, callbacks of widgets and of timers, and `berry eval`.  Bodies   *)
(* and constructors ("body") only define things, as in data/berry/apps.     *)
UserCode == {"setupMethod", "teardownMethod", "clickCallback", "eventCallback",
             "timerCallback", "eval"}

(* Native code that is inside an element: it goes through its children, or  *)
(* calls the closure in it.                                                 *)
Holding == {"children", "nextChild", "closure", "afterClosure"}

Init ==
  /\ app = [s \in Scripts |-> Closed]
  /\ s_currentApp = None
  /\ stack = <<>>

Idle == stack = <<>>

Doing(op) == ~Idle /\ Head(stack).op = op

Then(todo) == stack' = todo \o Tail(stack)

-----------------------------------------------------------------------------
(* BerryApp::setup                                                          *)

Setup ==
  /\ Doing("setup")
  /\ LET s == Head(stack).app IN
     /\ app' = [app EXCEPT ![s].gen = @ + 1, ![s].handles = <<Content>>]
     /\ s_currentApp' = s
     /\ Then(<<Code("body", s, app[s].gen + 1), Do("instantiate", s)>>)

(* The script cannot be opened or compiled, its body or its constructor     *)
(* fails, or it does not return a class.                                    *)
BodyFails ==
  /\ Doing("body")
  /\ s_currentApp' = None
  /\ stack' = Tail(Tail(stack))
  /\ UNCHANGED app

BodyReturns ==
  /\ Doing("body")
  /\ Then(<<>>)
  /\ UNCHANGED <<app, s_currentApp>>

Instantiate ==
  /\ Doing("instantiate")
  /\ LET s == Head(stack).app IN
     /\ app' = [app EXCEPT ![s].instance = TRUE]
     /\ Then(<<Code("setupMethod", s, app[s].gen), Do("resetCurrent", s)>>)
  /\ UNCHANGED s_currentApp

-----------------------------------------------------------------------------
(* BerryApp::teardown                                                       *)

Teardown ==
  /\ Doing("teardown")
  /\ LET s == Head(stack).app IN
     IF app[s].instance
     THEN /\ s_currentApp' = s
          /\ Then(<<Code("teardownMethod", s, app[s].gen), Do("cleanUp", s),
                    Do("resetCurrent", s)>>)
     ELSE /\ Then(<<>>)
          /\ UNCHANGED s_currentApp
  /\ UNCHANGED app

(* The timers stay. *)
CleanUp_KeepGlobals ==
  /\ Doing("cleanUp")
  /\ app' = [app EXCEPT ![Head(stack).app].instance = FALSE,
                        ![Head(stack).app].nextCbId = 0,
                        ![Head(stack).app].handles = <<>>]
  /\ Then(<<>>)
  /\ UNCHANGED s_currentApp

CleanUp ==
  /\ Doing("cleanUp")
  /\ app' = [app EXCEPT ![Head(stack).app].instance = FALSE,
                        ![Head(stack).app].nextCbId = 0,
                        ![Head(stack).app].handles = <<>>,
                        ![Head(stack).app].globals = Closed.globals]
  /\ Then(<<>>)
  /\ UNCHANGED s_currentApp

ResetCurrent ==
  /\ Doing("resetCurrent")
  /\ s_currentApp' = None
  /\ Then(<<>>)
  /\ UNCHANGED app

(* The window is replaced by a new one, and its elements with it.           *)
ReplaceWindow ==
  /\ Doing("replaceWindow")
  /\ LET s == Head(stack).app IN
     app' = [app EXCEPT ![s].handles = [h \in DOMAIN @ |-> [@[h] EXCEPT !.live = FALSE]]]
  /\ Then(<<>>)
  /\ UNCHANGED s_currentApp

(* ~App: the timers go with the object, and its window with it.             *)
Delete ==
  /\ Doing("delete")
  /\ app' = [app EXCEPT ![Head(stack).app] =
                        [Closed EXCEPT !.gen = app[Head(stack).app].gen]]
  /\ Then(<<>>)
  /\ UNCHANGED s_currentApp

-----------------------------------------------------------------------------
(* callBerryCallbackWithArgs, for a widget's callback or a timer's          *)

CallCallback ==
  /\ \/ Doing("call") \/ Doing("callTimer")
  /\ LET s == Head(stack).app
         k == Head(stack).id
         timer == Head(stack).op = "callTimer"
         id == IF timer THEN app[s].timers[k].cb ELSE k
         closure == app[s].globals[id]
     IN /\ IF closure = NoClosure
           THEN Then(<<>>) /\ UNCHANGED s_currentApp
           ELSE /\ s_currentApp' = s
                /\ Then(<<Code(IF timer THEN "timerCallback"
                               ELSE IF closure.click THEN "clickCallback" ELSE "eventCallback",
                               s, closure.gen),
                          Do("restoreCurrent", s_currentApp)>>)
        /\ app' = IF timer THEN [app EXCEPT ![s].timers[k].owed = FALSE] ELSE app

RestoreCurrent ==
  /\ Doing("restoreCurrent")
  /\ s_currentApp' = Head(stack).app
  /\ Then(<<>>)
  /\ UNCHANGED app

-----------------------------------------------------------------------------
(* What script code does                                                    *)

Running == ~Idle /\ Head(stack).op \in UserCode

Return ==
  /\ Running
  /\ Then(<<>>)
  /\ UNCHANGED <<app, s_currentApp>>

(* They act on the current app, and do nothing without one.                 *)
UsesCurrent ==
  /\ Running
  /\ s_currentApp # None
  /\ app[s_currentApp].nextCbId < MaxCb
  /\ UNCHANGED <<s_currentApp, stack>>

storeCallback(a, g, click) ==
  [a EXCEPT !.nextCbId = @ + 1, !.globals[a.nextCbId] = [gen |-> g, click |-> click]]

scheduleTimer(a, id) ==
  [a EXCEPT !.timers = Append(@, [cb |-> id, fired |-> FALSE, owed |-> FALSE])]

(* ui.timer.  Bound: not in a timer's callback, while tickTimers iterates   *)
(* over the timers that this adds to.                                       *)
Timer ==
  /\ UsesCurrent
  /\ ~Doing("timerCallback")
  /\ Len(app[s_currentApp].timers) < MaxTimers[s_currentApp]
  /\ app' = [app EXCEPT ![s_currentApp] =
                scheduleTimer(storeCallback(@, Head(stack).gen, FALSE), @.nextCbId)]

(* Opening and closing: what the window manager does to scripts             *)

(* Being set up or torn down.  Bound: no script closes or rebuilds such a   *)
(* one; the code has no guard against it, and deletes the object whose      *)
(* method is running.                                                       *)
InProgress(s) ==
  \E k \in DOMAIN stack :
    /\ stack[k].app = s
    /\ stack[k].op \notin {"clickCallback", "eventCallback", "restoreCurrent"} \union Holding

MayClose(s) == app[s].open /\ ~InProgress(s)

MayRebuild(s) == MayClose(s) /\ app[s].gen < MaxGen

CloseOf(s) == <<Do("teardown", s), Do("delete", s)>>

(* handleWindowStateChange, relayoutWindows, relayoutAll *)
RebuildOf(scripts) ==
  FlattenSeq([k \in DOMAIN scripts |-> <<Do("teardown", scripts[k]), Do("replaceWindow", scripts[k]),
                                         Do("setup", scripts[k])>>])

(* The callback of a button or a setup method calls an action: wm close, or *)
(* one that rebuilds every window, such as wm keyboard and screen rotate.   *)
CallsAction ==
  /\ Doing("clickCallback") \/ Doing("setupMethod")
  /\ \/ \E s \in Scripts : MayClose(s) /\ stack' = CloseOf(s) \o stack
     \/ LET open == {s \in Scripts : app[s].open} IN
        /\ \A s \in open : MayRebuild(s)
        /\ stack' = RebuildOf(SetToSeq(open)) \o stack
  /\ UNCHANGED <<app, s_currentApp>>

-----------------------------------------------------------------------------
(* What the UI loop does                                                    *)

Open(s) ==
  /\ Idle
  /\ ~app[s].open
  /\ app[s].gen < MaxGen
  /\ app' = [app EXCEPT ![s].open = TRUE]
  /\ stack' = <<Do("setup", s)>>
  /\ UNCHANGED s_currentApp

Close(s) ==
  /\ Idle
  /\ MayClose(s)
  /\ stack' = CloseOf(s)
  /\ UNCHANGED <<app, s_currentApp>>

Rebuild(s) ==
  /\ Idle
  /\ MayRebuild(s)
  /\ stack' = RebuildOf(<<s>>)
  /\ UNCHANGED <<app, s_currentApp>>

(* `berry eval`: code that belongs to no app. *)
Eval ==
  /\ Idle
  /\ stack' = <<Code("eval", None, 0)>>
  /\ UNCHANGED <<app, s_currentApp>>

(* App::tickTimers: the flag is cleared before the callback starts.         *)
Serve_ClearAfter(s, k) == <<DoWith("callTimer", s, k), DoWith("clearFlag", s, k)>>

Serve(s, k) == <<DoWith("clearFlag", s, k), DoWith("callTimer", s, k)>>

TickTimer(s, k) ==
  /\ Idle
  /\ app[s].timers[k].fired
  /\ stack' = Serve(s, k)
  /\ UNCHANGED <<app, s_currentApp>>

ClearFlag ==
  /\ Doing("clearFlag")
  /\ app' = [app EXCEPT ![Head(stack).app].timers[Head(stack).id].fired = FALSE]
  /\ Then(<<>>)
  /\ UNCHANGED s_currentApp

(* The timer task, at any time.                                             *)
Fire(s, k) ==
  /\ app' = [app EXCEPT ![s].timers[k].fired = TRUE, ![s].timers[k].owed = TRUE]
  /\ UNCHANGED <<s_currentApp, stack>>

-----------------------------------------------------------------------------
(* A ui.* function called by a script acts on the handle table of that      *)
(* script and of the very instance whose code is running, or on none: code  *)
(* of an instance that was torn down by the action it called, of another    *)
(* script, or of `berry eval` never reaches a table (s_currentApp).         *)
OwnTableOnly ==
  Running /\ s_currentApp # None =>
    /\ s_currentApp = Head(stack).app
    /\ app[s_currentApp].open
    /\ app[s_currentApp].gen = Head(stack).gen

(* A timer that fires while its callback runs is called again: no firing is *)
(* swallowed by the reset of the flag (App::tickTimers).                    *)
NoLostFiring ==
  \A s \in Scripts : \A k \in DOMAIN app[s].timers :
    app[s].timers[k].owed =>
      app[s].timers[k].fired \/ DoWith("callTimer", s, k) \in ToSet(stack)
=============================================================================
