-------------------------------- MODULE UILoop --------------------------------
(***************************************************************************)
(* One iteration after the other of the UI task's loop (UiFeature.cpp):     *)
(* posted commands, the touch screen, the action queue, the apps' timers,   *)
(* the action queue again, a frame.  A tap does not act at once: the        *)
(* widgets queue an action (ActionQueue.cpp) that runs after the touch has  *)
(* been handled.  Handlers run to completion on this task, so each is one   *)
(* step; the order of the steps, and what they find changed by earlier      *)
(* ones, is what can go wrong.                                              *)
(***************************************************************************)
EXTENDS WindowManager

CONSTANTS
  CommandOps,    \* bound: the commands that are sent
  TouchedParts,  \* bound: the parts of a window that are touched
  MaxQueue,      \* bound: commands queue no more actions than this
  MaxPopups      \* bound: an open panel is not opened again once there are
                 \* this many popups (each time leaves one behind)

ASSUME UILoopAssumption ==
  /\ TouchedParts \subseteq Parts
  /\ MaxQueue \in Nat
  /\ MaxPopups \in Nat

VARIABLES
  desk,    \* the desktop, a record of WindowManager
  phase,   \* where the loop is
  last,    \* where the finger was last, as long as it is down
  stale    \* history: has what is visible changed since it was drawn?

vars == <<desk, phase, last, stale>>

Phases == {"commands", "touch", "lifted", "touchEnd", "timers", "queue", "draw"}

NoTouch == [zone |-> "none", app |-> None, part |-> "blank"]

At(zone) == [NoTouch EXCEPT !.zone = zone]

Init ==
  /\ desk = [wins |-> <<>>, panel |-> FALSE, popups |-> <<>>,
             error |-> "hidden",
             keyboard |-> FALSE, pressedKey |-> FALSE, resized |-> FALSE,
             rotation |-> CHOOSE r \in Rotations : TRUE,
             consumer |-> NoConsumer, queue |-> <<>>, toRun |-> <<>>,
             dirty |-> TRUE, frameReady |-> FALSE, ub |-> "none"]
  /\ phase = "commands"
  /\ last = NoTouch
  /\ stale = TRUE

-----------------------------------------------------------------------------
(* The action queue                                                         *)

(* live: does what the callback has captured still exist?                   *)
(* tap: was it queued by a tap, or by an action that a tap queued?          *)
Item(kind, app, tap) ==
  [kind |-> kind, app |-> app, state |-> "restored", live |-> TRUE, tap |-> tap]

queueAction(d, item) == [d EXCEPT !.queue = Append(@, item)]

TakeQueue_FirstOnly(d) ==
  [d EXCEPT !.toRun = IF d.queue = <<>> THEN <<>> ELSE <<Head(d.queue)>>, !.queue = <<>>]

(* executeQueuedActions swaps the queue out before it runs anything. *)
TakeQueue(d) == [d EXCEPT !.toRun = d.queue, !.queue = <<>>]

-----------------------------------------------------------------------------
(* Commands, posted by other tasks or called by a script's callback         *)

Commands ==
  [op : CommandOps \intersect {"focus", "close", "page", "run"}, app : Apps]
    \union [op : CommandOps \intersect {"keyboard", "panel"}]
    \union [op : CommandOps \intersect {"rotate"}, rotation : Rotations]

rotate(d, r) ==
  [relayoutAll([d EXCEPT !.rotation = r]) EXCEPT !.frameReady = TRUE]

Execute(d, c, tap) ==
  CASE c.op = "focus"    -> restoreApp(d, c.app)
    [] c.op = "close"    -> closeApp(d, c.app)
    [] c.op = "page"     -> openAppByName(d, c.app)
    [] c.op = "run"      -> queueAction(d, Item("open", c.app, tap))
    [] c.op = "keyboard" -> toggleKeyboard(d)
    [] c.op = "panel"    -> openPanel(d)
    [] c.op = "rotate"   -> rotate(d, c.rotation)

Allowed(c) ==
  /\ c.op = "panel" => ~desk.panel \/ Len(desk.popups) < MaxPopups
  /\ c.op = "run" => Len(desk.queue) < MaxQueue

Command ==
  /\ phase = "commands"
  /\ \E c \in Commands : Allowed(c) /\ desk' = Execute(desk, c, FALSE)
  /\ UNCHANGED <<phase, last>>

CommandsDone ==
  /\ phase = "commands"
  /\ phase' = "touch"
  /\ UNCHANGED <<desk, last>>

-----------------------------------------------------------------------------
(* A finger on the screen: Desktop::handleOverlayTouch first (the error     *)
(* popup, popups, the keyboard, the taskbar), then the window it lands on   *)

Touched(d, where) ==
  /\ phase = "touch"
  /\ desk' = markDirty(d)
  /\ last' = where
  /\ phase' = "timers"

TouchError ==
  /\ desk.error # "hidden"
  /\ \E error \in {desk.error, "pressed"} :
       Touched([desk EXCEPT !.error = error], At("popup"))

TouchBesideError ==
  /\ desk.error # "hidden"
  /\ \E zone \in {"popup", "keys", "taskbar", "window"} : Touched(hideError(desk), At(zone))

TouchPopup ==
  /\ desk.error = "hidden"
  /\ hasVisiblePopups(desk)
  /\ Touched(desk, At("popup"))

TouchBesidePopups ==
  /\ desk.error = "hidden"
  /\ hasVisiblePopups(desk)
  /\ \E zone \in {"keys", "taskbar", "window"} :
       Touched(hideAllPopups(desk), At(zone))

(* Nothing lies over the keyboard, the taskbar and the windows. *)
Uncovered(d) == d.error = "hidden" /\ ~hasVisiblePopups(d)

(* A key is hit, or a gap between keys. *)
TouchKeys ==
  /\ Uncovered(desk)
  /\ desk.keyboard
  /\ \E hit \in BOOLEAN : Touched([desk EXCEPT !.pressedKey = hit], At("keys"))

TouchPanel ==
  /\ Uncovered(desk)
  /\ desk.panel
  /\ Touched(desk, At("taskbar"))

(* The screen above the keyboard in three areas, and those a window covers. *)
Areas(shape) ==
  CASE shape = "restored"  -> {"upper", "lower"}
    [] shape = "maximized" -> {"border", "upper", "lower"}
    [] shape = "top"       -> {"border", "upper"}
    [] shape = "bottom"    -> {"lower"}

Hits(d, area) == {i \in Shown(d) : area \in Areas(d.wins[i].bounds.shape)}

(* Window::onTouch *)
onTouch(d, i, part) ==
  CASE part = "blank" -> d
    [] part = "field" -> IF d.wins[i].app \in FieldApps THEN touchField(d, i) ELSE d
    [] OTHER -> [d EXCEPT !.wins[i].pressed = @ \union {part}]

TouchWindow ==
  /\ Uncovered(desk)
  /\ \E area \in {"border", "upper", "lower"}, part \in TouchedParts :
       /\ Hits(desk, area) # {}
       /\ LET i == Max(Hits(desk, area))
              app == desk.wins[i].app
              d == IF i = getFocused(desk) THEN desk ELSE focusApp(desk, app)
          IN Touched(onTouch(d, getFocused(d), part),
                     [zone |-> "window", app |-> app, part |-> part])

TouchDesktop ==
  /\ Uncovered(desk)
  /\ \E area \in {"border", "upper", "lower"} :
       Hits(desk, area) = {} /\ Touched(desk, At("window"))

-----------------------------------------------------------------------------
(* The finger is lifted: Desktop::handleOverlayTouchEnd, then the focused   *)
(* window, then executeQueuedActions                                        *)

Released_NotRun(d) ==
  /\ phase = "touch"
  /\ last.zone # "none"
  /\ desk' = markDirty(d)
  /\ last' = NoTouch
  /\ phase' = "timers"

Released(d) ==
  /\ phase = "touch"
  /\ last.zone # "none"
  /\ desk' = d
  /\ last' = NoTouch
  /\ phase' = "lifted"

(* Is the finger on a zone, or on what lies over it? *)
On(zone) == last.zone \in {zone, "popup"}

Click(d, kind, script) == queueAction(d, Item(kind, script, TRUE))

(* The button of the error popup fires if it was pressed and the finger is  *)
(* on it, and does not stay pressed.                                        *)
ReleaseError ==
  /\ last.zone = "popup"
  /\ desk.error # "hidden"
  /\ LET d == [desk EXCEPT !.error = "shown"]
     IN \/ Released(d)
        \/ desk.error = "pressed" /\ Released(Click(d, "hide", None))

ReleaseBesideError ==
  /\ desk.error # "hidden"
  /\ Released(hideError(desk))

ReleasePopup ==
  /\ last.zone = "popup"
  /\ desk.error = "hidden"
  /\ \E k \in VisiblePopups(desk) :
       LET popup == desk.popups[k]
           kind  == IF popup.live THEN "click" ELSE "orphan"
       IN \E d \in {desk, Click(desk, kind, popup.owner)} : Released(d)

ReleaseBesidePopups ==
  /\ last.zone # "popup"
  /\ desk.error = "hidden"
  /\ hasVisiblePopups(desk)
  /\ Released(hideAllPopups(desk))

(* Keyboard::handleTouchEnd: while a key is pressed the keyboard takes the  *)
(* lift wherever it is, and the key types if it is there.                   *)
letGo(d) == markDirty([d EXCEPT !.pressedKey = FALSE])

HasKey(d) == d.keyboard /\ d.pressedKey

ReleaseKey ==
  /\ Uncovered(desk)
  /\ HasKey(desk)
  /\ \/ Released(letGo(desk))
     \/ On("keys") /\ \E key \in {"enter", "letter"} : Released(letGo(pressKey(desk, key)))

(* What the keyboard does not take goes to the zone the last point is in.   *)
ReleasedOn(zone) == On(zone) /\ Uncovered(desk) /\ ~HasKey(desk)

ReleasePanel ==
  /\ ReleasedOn("taskbar")
  /\ desk.panel
  /\ \E d \in {desk, Click(desk, "click", Panel)} : Released(d)

(* Button::onTouchEnd of the title bar: a button that was pressed queues    *)
(* its callback if the finger is on it, and none stays pressed.             *)
Fires_Anywhere(w, part, at) == part \in w.pressed

Fires(w, part, at) == part \in w.pressed /\ part = at

touchEndOn(d, w, part, at, kind) ==
  IF Fires(w, part, at) THEN queueAction(d, Item(kind, w.app, TRUE)) ELSE d

titleTouchEnd(d, i, at) ==
  LET w  == d.wins[i]
      d1 == [d EXCEPT !.wins[i].pressed = @ \ TitleBar]
  IN touchEndOn(touchEndOn(d1, w, "close", at, "close"), w, "max", at, "cycle")

(* A script's button is told of the lift only when the point, moved by the  *)
(* scroll offset, is in its bounds: until then it stays pressed.  The       *)
(* content is told of every lift: one on the title bar, or outside of the   *)
(* window, may so be in the bounds of a button that is scrolled out of      *)
(* sight.                                                                   *)
contentTouchEnd(d, i, kind) ==
  IF "button" \in d.wins[i].pressed
  THEN Click([d EXCEPT !.wins[i].pressed = @ \ {"button"}], kind, d.wins[i].app)
  ELSE d

(* Window::onTouchEnd *)
onTouchEnd(d, i, at, scrolled) ==
  LET w == d.wins[i] IN
  IF Fires(w, "min", at)
  THEN queueAction(setState([d EXCEPT !.wins[i].pressed = @ \ TitleBar], i, "minimized"),
                   Item("minimize", w.app, TRUE))
  ELSE LET d1 == titleTouchEnd(d, i, at)
       IN IF at = "button" THEN contentTouchEnd(d1, i, "click")
          ELSE IF scrolled THEN contentTouchEnd(d1, i, "stray")
          ELSE d1

(* The focused window is told, be it the one that was touched or not. *)
ReleaseWindow ==
  /\ ReleasedOn("window") \/ (ReleasedOn("keys") /\ ~desk.keyboard)
  /\ getFocused(desk) # 0
  /\ \E at \in TouchedParts, scrolled \in BOOLEAN :
       LET i == getFocused(desk) IN
       /\ desk.wins[i].app = last.app => at = last.part
       /\ Released(onTouchEnd(desk, i, at, scrolled))

ReleaseNothing ==
  /\ \/ ReleasedOn("keys") /\ desk.keyboard
     \/ ReleasedOn("window") /\ getFocused(desk) = 0
     \/ ReleasedOn("taskbar") /\ ~desk.panel
  /\ Released(desk)

Untouched ==
  /\ phase = "touch"
  /\ last.zone = "none"
  /\ phase' = "timers"
  /\ UNCHANGED <<desk, last>>

-----------------------------------------------------------------------------
(* executeQueuedActions, after a lift and once more in every iteration      *)

Lifted ==
  /\ phase = "lifted"
  /\ desk' = TakeQueue(desk)
  /\ phase' = "touchEnd"
  /\ UNCHANGED last

NextState(state) ==
  CASE state = "restored"  -> "maximized"
    [] state = "maximized" -> "top"
    [] state = "top"       -> "bottom"
    [] OTHER               -> "restored"

(* Window::cycleWindowState: the callback that rebuilds the window is       *)
(* queued in its turn.                                                      *)
cycleWindowState(d, item) ==
  LET i == IndexOf(d, item.app)
      state == NextState(d.wins[i].state)
  IN IF ~item.live THEN [d EXCEPT !.ub = "action of a deleted window"]
     ELSE queueAction(setState(d, i, state),
                      [Item("state", item.app, item.tap) EXCEPT !.state = state])

(* A script's callback: it calls an action, or shows or hides its popup.    *)
ScriptCallback(d, item) ==
  IF item.kind = "orphan" THEN {[d EXCEPT !.ub = "click on an orphaned popup"]}
  ELSE IF ~item.live
  THEN {[d EXCEPT !.ub = IF item.kind = "stray" THEN "stray click of a deleted script"
                                                ELSE "click of a deleted script"]}
  ELSE {Execute(d, c, item.tap) : c \in {c \in Commands : Allowed(c)}}
         \union {d, togglePopup(d, item.app)}

Outcomes(d, item) ==
  CASE item.kind = "open"     -> {openApp(d, item.app)}
    [] item.kind = "close"    -> {closeApp(d, item.app)}
    [] item.kind = "minimize" -> {minimizeApp(d, item.app)}
    [] item.kind = "cycle"    -> {cycleWindowState(d, item)}
    [] item.kind = "state"    -> {handleWindowStateChange(d, item.app, item.state)}
    [] item.kind = "hide"     -> {hideError(d)}
    [] item.kind \in Clicks   -> ScriptCallback(d, item)

RunAction ==
  /\ phase \in {"touchEnd", "queue"}
  /\ desk.toRun # <<>>
  /\ desk' \in Outcomes([desk EXCEPT !.toRun = Tail(@)], Head(desk.toRun))
  /\ UNCHANGED <<phase, last>>

TouchEndDone ==
  /\ phase = "touchEnd"
  /\ desk.toRun = <<>>
  /\ desk' = markDirty(desk)
  /\ phase' = "timers"
  /\ UNCHANGED last

QueueDone ==
  /\ phase = "queue"
  /\ desk.toRun = <<>>
  /\ phase' = "draw"
  /\ UNCHANGED <<desk, last>>

-----------------------------------------------------------------------------
(* Timers and frames                                                        *)

(* A timer callback of a script changes its own widgets only. *)
Timers ==
  /\ phase = "timers"
  /\ \E d \in {desk, markDirty(desk)} : desk' = TakeQueue(d)
  /\ phase' = "queue"
  /\ UNCHANGED last

Draw ==
  /\ phase = "draw"
  /\ desk' = IF desk.dirty /\ desk.frameReady
             THEN [desk EXCEPT !.frameReady = FALSE, !.dirty = FALSE] ELSE desk
  /\ phase' = "commands"
  /\ UNCHANGED last

FrameTimer ==
  /\ ~desk.frameReady
  /\ desk' = [desk EXCEPT !.frameReady = TRUE]
  /\ UNCHANGED <<phase, last>>

-----------------------------------------------------------------------------
(* The steps of the loop itself; Command and FrameTimer come from outside.  *)
LoopStep ==
  \/ CommandsDone
  \/ TouchError \/ TouchBesideError
  \/ TouchPopup \/ TouchBesidePopups \/ TouchKeys \/ TouchPanel
  \/ TouchWindow \/ TouchDesktop
  \/ ReleaseError \/ ReleaseBesideError
  \/ ReleasePopup \/ ReleaseBesidePopups \/ ReleaseKey \/ ReleasePanel
  \/ ReleaseWindow \/ ReleaseNothing
  \/ Untouched
  \/ Lifted \/ RunAction \/ TouchEndDone \/ QueueDone
  \/ Timers \/ Draw

Observed(step) ==
  /\ desk.ub = "none"
  /\ step
  /\ stale' = (~(desk.dirty /\ ~desk'.dirty) /\ (stale \/ View(desk') # View(desk)))

Next == Observed(LoopStep \/ Command \/ FrameTimer)

Safe == Init /\ [][Next]_vars

(* The task is never suspended for good and every handler returns; commands *)
(* do not keep coming within one iteration; the frame timer is periodic.    *)
Fairness ==
  /\ WF_vars(Observed(LoopStep))
  /\ WF_vars(Observed(FrameTimer))

Spec == Safe /\ Fairness

-----------------------------------------------------------------------------
TypeOK ==
  /\ desk \in Desks
  /\ phase \in Phases
  /\ last \in [zone : {"none", "popup", "keys", "taskbar", "window"},
               app : Apps \union {None}, part : Parts]
  /\ stale \in BOOLEAN

(* An app never has two windows, though any number of requests to open it   *)
(* may be queued before the first one runs (berryHandlerImpl "run").        *)
OneWindowPerApp ==
  \A i, j \in DOMAIN desk.wins : desk.wins[i].app = desk.wins[j].app => i = j

(* Only the window that getFocused returns, which gets the taps, is drawn   *)
(* with an active title bar, whatever opened, closed, minimized or rebuilt  *)
(* windows since updateActiveStates last ran.                               *)
OnlyFocusedIsActive ==
  \A i \in Shown(desk) : desk.wins[i].active => i = getFocused(desk)

(* Every window, minimized ones included, has the bounds for the rotation   *)
(* and for the space the keyboard leaves, whichever order windows were      *)
(* opened, cycled and restored and the keyboard and the screen were turned. *)
WindowsFitScreen ==
  /\ desk.resized = desk.keyboard
  /\ \A i \in DOMAIN desk.wins :
       desk.wins[i].bounds = Bounds(desk, desk.wins[i].bounds.shape)

(* No popup outlives the script that shows it and that its buttons call     *)
(* (BerryApp::teardown, destroyPopupsForOwner).                             *)
PopupsHaveOwners ==
  \A k \in DOMAIN desk.popups :
    /\ desk.popups[k].live
    /\ desk.popups[k].owner = Panel \/ isAppOpen(desk, desk.popups[k].owner)

(* Destroyed popups are recreated: the script that holds a popup's handle   *)
(* still has that popup (comment at WindowManager.cpp:395).                 *)
OwnersHavePopups ==
  \A s \in PopupOwners :
    (IF s = Panel THEN desk.panel ELSE isAppOpen(desk, s)) =>
      \E k \in DOMAIN desk.popups : desk.popups[k].owner = s /\ desk.popups[k].live

(* All that a tap sets off, callbacks queued by callbacks included, is done *)
(* before the next touch is processed (comment at ActionQueue.h:10-12).     *)
TapsAreDoneBeforeNextTouch ==
  phase = "touch" =>
    /\ desk.toRun = <<>>
    /\ \A k \in DOMAIN desk.queue : ~desk.queue[k].tap

(* A change of what is visible is never left undrawn for lack of markDirty. *)
ChangesAreDirty == phase \in {"commands", "draw"} /\ stale => desk.dirty

(* Windows are not replaced while a touch handler still walks through them  *)
(* (comment at ActionQueue.h:7-10).                                         *)
StableWhileTraversed == desk.ub # "mutated while traversed"

(* What a queued callback has captured, its window or its script, is there  *)
(* when the callback runs: closing, cycling and whatever else a lift sets   *)
(* off deletes nothing that another callback of the same lift needs.  Not   *)
(* claimed of a script's button that fires for a lift somewhere else        *)
(* ("stray") nor of a popup whose script is gone ("orphan").  The run has   *)
(* title bars only; the theorem NoActionDangles has the scripts' buttons.   *)
NoDanglingAction ==
  desk.ub \notin {"click of a deleted script", "action of a deleted window"}

(* A tap on a close button closes the app.                                  *)
CloseTakesEffect ==
  \A a \in Apps :
    (\E k \in DOMAIN desk.queue : desk.queue[k].kind = "close" /\ desk.queue[k].app = a)
      ~> ~isAppOpen(desk, a)

(* What has changed gets drawn.                                             *)
ChangesAreDrawn == stale ~> ~stale
=============================================================================
