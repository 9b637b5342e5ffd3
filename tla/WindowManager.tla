---------------------------- MODULE WindowManager ----------------------------
(***************************************************************************)
(* WindowManager.cpp, with the parts of window.h, Desktop.h and textfield.h *)
(* that change its state.  Every method is an operator from a desktop to    *)
(* the desktop it leaves behind, so that a handler that calls several       *)
(* methods is their composition; UILoop says when the handlers run.         *)
(*                                                                         *)
(* A desktop is a record:                                                   *)
(*   wins      _openApps, bottom window first                               *)
(*   panel     is _panelSlot set?  (the taskbar)                            *)
(*   popups    _popupSlots; live = its owner has not been deleted           *)
(*   error     the error popup: is it shown, and is its button pressed?     *)
(*   keyboard  Keyboard::visible                                            *)
(*   pressedKey  has the keyboard a key that is pressed (pressedIndex)?     *)
(*   resized   WindowManager::_keyboardVisible: windows keep clear of it    *)
(*   rotation  of the screen                                                *)
(*   consumer  Desktop::keyConsumer: the text field that gets the keys      *)
(*   queue     g_queue, the actions waiting for executeQueuedActions        *)
(*   toRun     what executeQueuedActions has taken and not yet run          *)
(*   dirty     the renderer's dirty flag                                    *)
(*   frameReady  has the frame timer ticked since the last frame?           *)
(*   ub        the undefined behaviour met first, if any; nothing is        *)
(*             modelled after it                                            *)
(***************************************************************************)
EXTENDS Filter, FiniteSetsExt, SequencesExt

CONSTANTS
  Apps,        \* the scripts that can be opened in a window
  Panel,       \* the script shown as the taskbar
  None,        \* no app
  PopupOwners, \* the scripts whose setup creates a popup
  FieldApps,   \* the scripts that show a text field
  FailingApps, \* the scripts whose setup fails, before there is an instance
  Rotations    \* the rotations `screen rotate` is given

ASSUME WindowManagerAssumption ==
  /\ Panel \notin Apps
  /\ None \notin Apps \union {Panel}
  /\ PopupOwners \subseteq Apps \union {Panel}
  /\ FieldApps \subseteq Apps
  /\ FailingApps \subseteq Apps \union {Panel}
  /\ Rotations # {}

States  == {"restored", "maximized", "top", "bottom", "minimized"}

(* Where a touch can land in a window. *)
Parts == {"close", "max", "min", "button", "field", "blank"}

TitleBar == {"close", "max", "min"}

Pressable == TitleBar \union {"button"}

(* What a desktop is made of                                                *)
Windows ==
  [app : Apps, state : States, active : BOOLEAN, focused : BOOLEAN,
   pressed : SUBSET Pressable,
   bounds : [shape : States \ {"minimized"}, resized : BOOLEAN, rotation : Rotations]]

Popups == [owner : PopupOwners, live : BOOLEAN, visible : BOOLEAN]

(* Actions are of a window, or of a script's button: one that was tapped,   *)
(* one that was told of a lift elsewhere ("stray"), or one in a popup whose *)
(* script is gone ("orphan"); "hide" is that of the error popup.            *)
WindowActions == {"open", "close", "minimize", "cycle", "state"}

Clicks == {"click", "stray", "orphan"}

Items ==
  [kind : WindowActions \union Clicks \union {"hide"},
   app : Apps \union {Panel, None}, state : States, live : BOOLEAN, tap : BOOLEAN]

Undefined == {"mutated while traversed", "key to a deleted field",
              "action of a deleted window", "click of a deleted script",
              "stray click of a deleted script", "click on an orphaned popup"}

Desks ==
  [wins : Seq(Windows), panel : BOOLEAN, popups : Seq(Popups),
   error : {"hidden", "shown", "pressed"},
   keyboard : BOOLEAN, pressedKey : BOOLEAN, resized : BOOLEAN, rotation : Rotations,
   consumer : [app : Apps \union {None}, live : BOOLEAN],
   queue : Seq(Items), toRun : Seq(Items),
   dirty : BOOLEAN, frameReady : BOOLEAN, ub : Undefined \union {"none"}]

-----------------------------------------------------------------------------
(* Windows                                                                  *)

(* Window bounds, as the shape asked for and what they were computed from.  *)
Bounds(d, shape) ==
  [shape |-> shape, resized |-> d.resized, rotation |-> d.rotation]

(* A fresh window: its widgets are unpressed, and it is drawn active until  *)
(* updateActiveStates says otherwise.                                       *)
NewWindow(d, app, state, shape) ==
  [app |-> app, state |-> state, bounds |-> Bounds(d, shape),
   active |-> TRUE, pressed |-> {}, focused |-> FALSE]

isAppOpen(d, app) == \E i \in DOMAIN d.wins : d.wins[i].app = app

IndexOf(d, app) == CHOOSE i \in DOMAIN d.wins : d.wins[i].app = app

Shown(d) == {i \in DOMAIN d.wins : d.wins[i].state # "minimized"}

getFocused(d) == IF Shown(d) = {} THEN 0 ELSE Max(Shown(d))

markDirty(d) == [d EXCEPT !.dirty = TRUE]

updateActiveStates(d) ==
  [d EXCEPT !.wins =
     [i \in DOMAIN @ |-> [@[i] EXCEPT !.active = (i = getFocused(d))]]]

setState(d, i, state) == [d EXCEPT !.wins[i].state = state]

-----------------------------------------------------------------------------
(* Scripts: BerryApp::setup and teardown, as far as the desktop sees them   *)

NewPopup(owner) == [owner |-> owner, live |-> TRUE, visible |-> FALSE]

(* ErrorPopup::show and hide                                                *)
showError(d) == markDirty([d EXCEPT !.error = IF @ = "hidden" THEN "shown" ELSE @])

hideError(d) == markDirty([d EXCEPT !.error = "hidden"])

(* The scripts of a sequence are set up, one after the other.  One that     *)
(* fails may have made its popup before.                                    *)
setup(d, scripts) ==
  LET owners == Only(scripts, PopupOwners)
      d1 == [d EXCEPT !.popups = @ \o [k \in DOMAIN owners |-> NewPopup(owners[k])]]
  IN IF ToSet(scripts) \intersect FailingApps = {} THEN d1 ELSE showError(d1)

(* The scripts of a set are torn down: their popups go with them, but for   *)
(* a script that has failed nothing is done.                                *)
teardown(d, scripts) ==
  LET done == scripts \ FailingApps
  IN IF done = {} THEN d
     ELSE [markDirty(d) EXCEPT
             !.popups = Only(@, {p \in Popups : ~(p.owner \in done /\ p.live)})]

(* A script is deleted; its popups, if there are any left, are not.         *)
Orphaned(d, owner) ==
  [d EXCEPT !.popups =
     [k \in DOMAIN d.popups |->
        [d.popups[k] EXCEPT !.live = @ /\ d.popups[k].owner # owner]]]

(* A window is destroyed, and with gone its script as well: what queued     *)
(* actions and the keyboard have captured of them dangles.                  *)
Captures(action, scripts, gone) ==
  /\ action.app \in scripts
  /\ action.kind = "cycle" \/ (gone /\ action.kind \in {"click", "stray"})

Dangle(actions, scripts, gone) ==
  [k \in DOMAIN actions |->
     [actions[k] EXCEPT !.live = @ /\ ~Captures(actions[k], scripts, gone)]]

Destroyed(d, scripts, gone) ==
  [d EXCEPT !.queue = Dangle(@, scripts, gone),
            !.toRun = Dangle(@, scripts, gone),
            !.consumer.live = @ /\ d.consumer.app \notin scripts]

-----------------------------------------------------------------------------
(* Opening, closing, focusing                                               *)

focusApp_NotDirty(d, app) ==
  LET i == IndexOf(d, app) IN
  IF isAppOpen(d, app) /\ i # Len(d.wins)
  THEN updateActiveStates([d EXCEPT !.wins = Append(RemoveAt(@, i), @[i])])
  ELSE updateActiveStates(d)

focusApp(d, app) ==
  LET i == IndexOf(d, app) IN
  IF isAppOpen(d, app) /\ i # Len(d.wins)
  THEN updateActiveStates(
         markDirty([d EXCEPT !.wins = Append(RemoveAt(@, i), @[i])]))
  ELSE updateActiveStates(d)

isMinimized(d, app) == d.wins[IndexOf(d, app)].state = "minimized"

restoreApp(d, app) ==
  IF ~isAppOpen(d, app) THEN d
  ELSE markDirty(focusApp(
         IF isMinimized(d, app) THEN setState(d, IndexOf(d, app), "restored") ELSE d,
         app))

minimizeApp(d, app) ==
  IF ~isAppOpen(d, app) THEN d
  ELSE markDirty(setState(d, IndexOf(d, app), "minimized"))

Reopen(d, app) ==
  IF isMinimized(d, app) THEN restoreApp(d, app) ELSE focusApp(d, app)

(* `page`: the app registry is empty, so only an open app is brought up.    *)
openAppByName(d, app) == IF isAppOpen(d, app) THEN Reopen(d, app) ELSE d

openApp_NotFocused(d, app) ==
  LET d1 == setup(d, <<app>>) IN
  IF isAppOpen(d, app) THEN Reopen(d, app)
  ELSE markDirty([d1 EXCEPT !.wins = Append(@, NewWindow(d, app, "restored", "restored"))])

openApp_Twice(d, app) ==
  LET d1 == setup(d, <<app>>) IN
  markDirty(updateActiveStates(
    [d1 EXCEPT !.wins = Append(@, NewWindow(d, app, "restored", "restored"))]))

openApp(d, app) ==
  IF isAppOpen(d, app) THEN Reopen(d, app)
  ELSE LET d1 == setup(d, <<app>>) IN
       markDirty(updateActiveStates(
         [d1 EXCEPT !.wins = Append(@, NewWindow(d, app, "restored", "restored"))]))

closeApp_NoTeardown(d, app) ==
  IF ~isAppOpen(d, app) THEN d
  ELSE Destroyed(markDirty(updateActiveStates(
         [Orphaned(d, app) EXCEPT !.wins = RemoveAt(@, IndexOf(d, app))])), {app}, TRUE)

closeApp(d, app) ==
  IF ~isAppOpen(d, app) THEN d
  ELSE Destroyed(markDirty(updateActiveStates(
         [Orphaned(teardown(d, {app}), app) EXCEPT
            !.wins = RemoveAt(@, IndexOf(d, app))])), {app}, TRUE)

-----------------------------------------------------------------------------
(* Rebuilding windows                                                       *)

(* The windows of some scripts are replaced, which leaves wins; the scripts *)
(* are torn down and set up again.                                          *)
Rebuilt(d, scripts, wins) ==
  updateActiveStates(
    [Destroyed(setup(teardown(d, ToSet(scripts)), scripts), ToSet(scripts), FALSE)
       EXCEPT !.wins = wins])

handleWindowStateChange(d, app, state) ==
  LET i == IndexOf(d, app) IN
  IF ~isAppOpen(d, app) \/ state = "minimized" THEN d
  ELSE markDirty(Rebuilt(d, <<app>>,
         [d.wins EXCEPT ![i] = NewWindow(d, app, state, state)]))

relayoutWindows_KeepShape(d) ==
  Rebuilt(d, [i \in DOMAIN d.wins |-> d.wins[i].app],
    [i \in DOMAIN d.wins |-> NewWindow(d, d.wins[i].app, d.wins[i].state, d.wins[i].state)])

relayoutWindows_SkipMinimized(d) ==
  Rebuilt(d, [i \in DOMAIN d.wins |-> d.wins[i].app],
    [i \in DOMAIN d.wins |->
       IF i \in Shown(d) THEN NewWindow(d, d.wins[i].app, d.wins[i].state, "restored")
                         ELSE d.wins[i]])

(* Every window gets the restored bounds, whatever its state. *)
relayoutWindows(d) ==
  Rebuilt(d, [i \in DOMAIN d.wins |-> d.wins[i].app],
    [i \in DOMAIN d.wins |-> NewWindow(d, d.wins[i].app, d.wins[i].state, "restored")])

relayoutAll_NotDirty(d) ==
  LET d1 == [relayoutWindows(d) EXCEPT !.popups = <<>>]
  IN IF d.panel THEN setup(teardown(d1, {Panel}), <<Panel>>) ELSE d1

relayoutAll(d) ==
  LET d1 == [relayoutWindows(d) EXCEPT !.popups = <<>>]
  IN markDirty(IF d.panel THEN setup(teardown(d1, {Panel}), <<Panel>>) ELSE d1)

setKeyboardVisible(d, vis) ==
  IF vis = d.resized THEN d
  ELSE markDirty(relayoutWindows([d EXCEPT !.resized = vis]))

toggleKeyboard(d) ==
  setKeyboardVisible(
    markDirty([d EXCEPT !.keyboard = ~@, !.pressedKey = @ /\ ~d.keyboard]), ~d.keyboard)

(* The panel that was open is deleted without a teardown. *)
openPanel(d) ==
  LET d1 == Destroyed(setup(Orphaned(d, Panel), <<Panel>>), {Panel}, TRUE)
  IN markDirty([d1 EXCEPT !.panel = TRUE])

-----------------------------------------------------------------------------
(* Popups                                                                   *)

VisiblePopups(d) == {k \in DOMAIN d.popups : d.popups[k].visible}

hasVisiblePopups(d) == VisiblePopups(d) # {}

(* What is on the screen once the desktop is drawn                          *)
View(d) ==
  <<{<<i, d.wins[i]>> : i \in Shown(d)}, {<<k, d.popups[k]>> : k \in VisiblePopups(d)},
    d.keyboard, d.pressedKey, d.panel, d.rotation, d.error>>

hideAllPopups(d) ==
  markDirty([d EXCEPT !.popups = [k \in DOMAIN @ |-> [@[k] EXCEPT !.visible = FALSE]]])

(* ui.show_popup and ui.hide_popup on the popup of a script. *)
togglePopup(d, owner) ==
  markDirty([d EXCEPT !.popups =
    [k \in DOMAIN @ |->
       IF @[k].owner = owner /\ @[k].live
       THEN [@[k] EXCEPT !.visible = ~d.popups[k].visible] ELSE @[k]]])

-----------------------------------------------------------------------------
(* Keyboard focus: TextField through the handlers Desktop::init installs    *)

NoConsumer == [app |-> None, live |-> FALSE]

(* TextField::onTouch.  Showing the keyboard destroys the window, and the   *)
(* field in it, while Container::handleTouch still iterates over them.      *)
touchField(d, i) ==
  LET app == d.wins[i].app
      d1 == markDirty([d EXCEPT !.wins[i].focused = TRUE,
                                !.consumer = [app |-> app, live |-> TRUE],
                                !.keyboard = TRUE])
  IN IF d.wins[i].focused THEN d
     ELSE IF d.keyboard THEN [d EXCEPT !.wins[i].focused = TRUE,
                                       !.consumer = [app |-> app, live |-> TRUE]]
     ELSE [setKeyboardVisible(d1, TRUE) EXCEPT !.ub = "mutated while traversed"]

(* Keyboard::activateKey with a key for TextField::handleKey: enter gives   *)
(* the keyboard up, any other key edits the text.                           *)
pressKey(d, key) ==
  IF d.consumer.app = None THEN markDirty(d)
  ELSE IF ~d.consumer.live THEN [d EXCEPT !.ub = "key to a deleted field"]
  ELSE IF key # "enter" THEN markDirty(d)
  ELSE LET i == IndexOf(d, d.consumer.app)
           d1 == markDirty([d EXCEPT !.wins[i].focused = FALSE,
                                     !.consumer = NoConsumer,
                                     !.keyboard = FALSE, !.pressedKey = FALSE])
       IN setKeyboardVisible(d1, FALSE)
=============================================================================
