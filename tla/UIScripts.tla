------------------------------- MODULE UIScripts -------------------------------
(***************************************************************************)
(* The widgets of scripts (BerryUIBindings.cpp, elements/*.h): scripts know *)
(* them by handles, pointers in a table that nothing updates by itself, and *)
(* touches are passed down to them by loops over the children of their      *)
(* containers, which call the scripts back on the way.                      *)
(*                                                                          *)
(* A kind stands for the types of widget that are alike in this:            *)
(*   container  the content of a window or of a tab                         *)
(*   scrollable, groupbox, tabs                                             *)
(*   button     queues a copy of its callback when it is clicked            *)
(*   choice     a check box, radio button or combo box, which queues a call *)
(*              of the callback it has                                      *)
(*   direct     a canvas or a file list, which calls at once                *)
(*   plain      a label, an icon, or a text field, whose focus is in UILoop  *)
(* Popups are in WindowManager and UILoop.                                  *)
(***************************************************************************)
EXTENDS ScriptCalls

CONSTANT MaxHandles  \* bound: handles of one instance, for each script

ASSUME UIScriptsAssumption == MaxHandles \in [Scripts -> Nat \ {0}]

(* A call of getHandle that finds something                                 *)
getHandle(a, h) == h \in DOMAIN a.handles /\ a.handles[h].handle # "null"

(* What scripts do.  They use no handle that they know to be lost.          *)
Usable(a) == {h \in DOMAIN a.handles : a.handles[h].handle # "lost" /\ getHandle(a, h)}

Kind(a, h) == a.handles[h].kind

Children(a, h) == {i \in DOMAIN a.handles : a.handles[i].parent = h /\ a.handles[i].live}

(* Roots and all that is below them: parents are older than their children  *)
Under(a, roots) ==
  FoldLeft(LAMBDA acc, i : IF a.handles[i].parent \in acc THEN acc \union {i} ELSE acc,
           roots, [i \in DOMAIN a.handles |-> i])

-----------------------------------------------------------------------------
(* Functions that create widgets: the app after the call.  Without memory,  *)
(* or with a parent that takes no children, they do nothing.                *)

addHandle(a, kind, p) == [a EXCEPT !.handles = Append(@, Element(kind, p))]

addChildToParent(a, p, kind) ==
  IF Kind(a, p) \in {"scrollable", "container", "groupbox"} THEN addHandle(a, kind, p) ELSE a

ui_label(a, p) == addChildToParent(a, p, "plain")
ui_button(a, p) == addChildToParent(a, p, "button")
ui_scrollable(a, p) == addChildToParent(a, p, "scrollable")
ui_canvas(a, p) == addChildToParent(a, p, "direct")
ui_checkbox(a, p) == addChildToParent(a, p, "choice")
ui_radio(a, p) == addChildToParent(a, p, "choice")
ui_textfield(a, p) == addChildToParent(a, p, "plain")
ui_combobox(a, p) == addChildToParent(a, p, "choice")
ui_groupbox(a, p) == addChildToParent(a, p, "groupbox")
ui_tabs(a, p) == addChildToParent(a, p, "tabs")
ui_filelist(a, p) == addChildToParent(a, p, "direct")
ui_icon(a, p) == addChildToParent(a, p, "plain")

ui_tabs_add(a, h) == IF Kind(a, h) = "tabs" THEN addHandle(a, "container", h) ELSE a

(* Functions that remove widgets.  The handles of what was below a removed  *)
(* widget, and of all that is cleared, stay in the table as they are.       *)

(* Container::clear, removeChild: the elements are deleted.                 *)
Gone(handle) == [Element("gone", 0) EXCEPT !.live = FALSE, !.handle = handle]

Destroyed(a, gone) ==
  [a EXCEPT !.handles = [h \in DOMAIN @ |->
     IF h \in gone THEN Gone(IF @[h].handle = "null" THEN "null" ELSE "lost") ELSE @[h]]]

ui_clear(a, h) ==
  IF Kind(a, h) \in {"scrollable", "container"} THEN Destroyed(a, Under(a, Children(a, h))) ELSE a

invalidateHandle(a, h) == [a EXCEPT !.handles[h].handle = "null"]

removeChild(a, p, c) ==
  IF c \in Children(a, p)
  THEN [Destroyed(a, Under(a, {c})) EXCEPT !.handles[c].handle = "valid"]
  ELSE a

ui_remove_child_KeepHandle(a, p, c) ==
  IF Kind(a, p) \in {"scrollable", "container", "groupbox"} THEN removeChild(a, p, c) ELSE a

ui_remove_child(a, p, c) ==
  IF Kind(a, p) \in {"scrollable", "container", "groupbox"}
  THEN invalidateHandle(removeChild(a, p, c), c)
  ELSE a

(* Functions that give a widget a callback; g is the instance whose closure *)
(* it is.  ui.on_change and ui.on_touch store it before they look at the    *)
(* widget, which may have no use for it.                                    *)

Attached(a, h, g, click) ==
  [storeCallback(a, g, click) EXCEPT !.handles[h].cb = a.nextCbId]

ui_on_click(a, h, g) == IF Kind(a, h) = "button" THEN Attached(a, h, g, TRUE) ELSE a

ui_on_change(a, h, g) ==
  IF Kind(a, h) \in {"choice", "tabs"} THEN Attached(a, h, g, FALSE) ELSE storeCallback(a, g, FALSE)

ui_on_item_selected(a, h, g) == IF Kind(a, h) = "direct" THEN Attached(a, h, g, FALSE) ELSE a

ui_on_touch(a, h, g) ==
  IF Kind(a, h) \in {"container", "direct"} THEN Attached(a, h, g, FALSE) ELSE storeCallback(a, g, FALSE)

-----------------------------------------------------------------------------
(* The code of scripts.  Bound: they change their widgets in setup, in      *)
(* timers and when a button is clicked, as those in data/berry/apps do.     *)
Builds ==
  /\ Running
  /\ Head(stack).op \in {"setupMethod", "timerCallback", "clickCallback"}
  /\ s_currentApp # None

Becomes(a) ==
  /\ app' = [app EXCEPT ![s_currentApp] = a]
  /\ UNCHANGED <<s_currentApp, stack>>

Creates ==
  /\ Builds
  /\ LET a == app[s_currentApp] IN
     /\ Len(a.handles) < MaxHandles[s_currentApp]
     /\ \E p \in Usable(a) : \E made \in
          {ui_label(a, p), ui_button(a, p), ui_scrollable(a, p), ui_canvas(a, p), ui_checkbox(a, p),
           ui_radio(a, p), ui_textfield(a, p), ui_combobox(a, p), ui_groupbox(a, p), ui_tabs(a, p),
           ui_filelist(a, p), ui_icon(a, p), ui_tabs_add(a, p)} : Becomes(made)

Clears == /\ Builds
          /\ LET a == app[s_currentApp] IN \E h \in Usable(a) : Becomes(ui_clear(a, h))

RemovesChild ==
  /\ Builds
  /\ LET a == app[s_currentApp] IN
     \E p \in Usable(a), c \in Usable(a) \ {1} : Becomes(ui_remove_child(a, p, c))

SetsCallback ==
  /\ Builds
  /\ UsesCurrent
  /\ LET a == app[s_currentApp] IN
     \E h \in Usable(a) : \E set \in
       {ui_on_click(a, h, Head(stack).gen), ui_on_change(a, h, Head(stack).gen),
        ui_on_item_selected(a, h, Head(stack).gen), ui_on_touch(a, h, Head(stack).gen)} : Becomes(set)

-----------------------------------------------------------------------------
(* A touch goes down from the content of the window                         *)

Touch(s) ==
  /\ Idle
  /\ app[s].open
  /\ app[s].handles # <<>>
  /\ stack' = <<DoWith("touch", s, 1)>>
  /\ UNCHANGED <<app, s_currentApp>>

ElementOf(s, h) == app[s].handles[h]

CallsClosure(s, h) ==
  IF ElementOf(s, h).cb = None THEN <<>> ELSE <<DoWith("closure", s, h)>>

(* Container::handleTouch and handleTouchEnd, and those of the widgets that *)
(* hand over to their content                                               *)
TouchContainer ==
  /\ Doing("touch")
  /\ LET s == Head(stack).app
         h == Head(stack).id
     IN /\ ElementOf(s, h).kind \in {"container", "scrollable", "groupbox"}
        /\ Then((IF ElementOf(s, h).kind = "container" THEN CallsClosure(s, h) ELSE <<>>)
                \o <<DoWith("children", s, h)>>)
  /\ UNCHANGED <<app, s_currentApp>>

(* The child that the point is in.  Bound: children do not overlap, as in   *)
(* the layouts of data/berry/apps; the loop goes on to the next one.        *)
TouchChild ==
  /\ Doing("children")
  /\ LET s == Head(stack).app
         h == Head(stack).id
     IN \E c \in Children(app[s], h) : Then(<<DoWith("touch", s, c), DoWith("nextChild", s, h)>>)
  /\ UNCHANGED <<app, s_currentApp>>

LeaveChildren ==
  /\ Doing("children") \/ Doing("nextChild")
  /\ Then(<<>>)
  /\ UNCHANGED <<app, s_currentApp>>

(* TabControl: another tab is chosen, or the active one gets the touch.     *)
TouchTabs ==
  /\ Doing("touch")
  /\ LET s == Head(stack).app
         h == Head(stack).id
     IN /\ ElementOf(s, h).kind = "tabs"
        /\ \/ Then(CallsClosure(s, h))
           \/ \E c \in Children(app[s], h) :
                Then(<<DoWith("touch", s, c), DoWith("nextChild", s, h)>>)
  /\ UNCHANGED <<app, s_currentApp>>

(* A canvas, or a file list in which an item is selected or activated       *)
TouchDirect ==
  /\ Doing("touch")
  /\ LET s == Head(stack).app
         h == Head(stack).id
     IN ElementOf(s, h).kind = "direct" /\ Then(CallsClosure(s, h))
  /\ UNCHANGED <<app, s_currentApp>>

(* What is queued runs when the touch has been passed down.                 *)
Queued(todo) == stack' = Tail(stack) \o todo

ClickOf_AtOnce(s, h) ==
  IF ElementOf(s, h).cb = None THEN Then(<<>>)
  ELSE Then(<<DoWith("call", s, ElementOf(s, h).cb)>>)

(* Button::onTouchEnd *)
ClickOf(s, h) ==
  IF ElementOf(s, h).cb = None THEN Then(<<>>)
  ELSE Queued(<<DoWith("call", s, ElementOf(s, h).cb)>>)

TouchButton ==
  /\ Doing("touch")
  /\ LET s == Head(stack).app
         h == Head(stack).id
     IN ElementOf(s, h).kind = "button" /\ ClickOf(s, h)
  /\ UNCHANGED <<app, s_currentApp>>

(* Checkbox, RadioButton and ComboBox::onTouchEnd *)
TouchChoice ==
  /\ Doing("touch")
  /\ LET s == Head(stack).app
         h == Head(stack).id
     IN ElementOf(s, h).kind = "choice" /\ Queued(CallsClosure(s, h))
  /\ UNCHANGED <<app, s_currentApp>>

TouchPlain ==
  /\ Doing("touch")
  /\ ElementOf(Head(stack).app, Head(stack).id).kind = "plain"
  /\ Then(<<>>)
  /\ UNCHANGED <<app, s_currentApp>>

(* The closure that an element holds is called.                             *)
CallClosure ==
  /\ Doing("closure")
  /\ LET s == Head(stack).app
         h == Head(stack).id
     IN Then(<<DoWith("call", s, ElementOf(s, h).cb), DoWith("afterClosure", s, h)>>)
  /\ UNCHANGED <<app, s_currentApp>>

AfterClosure ==
  /\ Doing("afterClosure")
  /\ Then(<<>>)
  /\ UNCHANGED <<app, s_currentApp>>

-----------------------------------------------------------------------------
Next ==
  \/ Setup \/ BodyFails \/ BodyReturns \/ Instantiate
  \/ Teardown \/ CleanUp \/ ResetCurrent \/ ReplaceWindow \/ Delete
  \/ CallCallback \/ RestoreCurrent
  \/ Return \/ Timer \/ CallsAction
  \/ Creates \/ Clears \/ RemovesChild \/ SetsCallback
  \/ TouchContainer \/ TouchChild \/ LeaveChildren \/ TouchTabs \/ TouchDirect
  \/ TouchButton \/ TouchChoice \/ TouchPlain \/ CallClosure \/ AfterClosure
  \/ Eval \/ ClearFlag
  \/ \E s \in Scripts :
       \/ Open(s) \/ Close(s) \/ Rebuild(s) \/ Touch(s)
       \/ \E k \in DOMAIN app[s].timers : TickTimer(s, k) \/ Fire(s, k)

Spec == Init /\ [][Next]_vars

-----------------------------------------------------------------------------
(* A handle that a script may pass to a ui.* function refers to an element  *)
(* that exists: in its teardown too, and after its window was replaced,     *)
(* after another script or a callback of its own closed or rebuilt it, and  *)
(* for children it has removed (HandleEntry, getHandle).                    *)
HandlesAreLive ==
  Running /\ s_currentApp # None =>
    LET a == app[s_currentApp] IN \A h \in Usable(a) : a.handles[h].live

(* While native code is inside an element, going through its children or    *)
(* calling its closure, no callback deletes the element, replaces the       *)
(* closure, or changes the children (Container::handleTouch).               *)
Held(f) ==
  IF f.id \in DOMAIN app[f.app].handles
  THEN <<app[f.app].gen, ElementOf(f.app, f.id), Children(app[f.app], f.id)>>
  ELSE <<>>

HeldElementsStay ==
  [][\A f \in ToSet(stack) \intersect ToSet(stack') : f.op \in Holding => Held(f)' = Held(f)]_vars
=============================================================================
