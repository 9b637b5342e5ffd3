------------------------------ MODULE UILoopProofs ------------------------------
(***************************************************************************)
(* The invariants of the UI loop, for any scripts, screens and commands.    *)
(***************************************************************************)
EXTENDS UILoop, WindowManagerProofs

(* What is to be known of waiting actions, but for what they have captured  *)
Tags(items) == {<<item.kind, item.tap>> : item \in ToSet(items)}

(* What a lift queues runs at once, and queues no more than what may wait   *)
(* till the end of the iteration.                                           *)
Later == {"open", "state"} \X BOOLEAN

(* No window waits to be minimized while one waits to be cycled.            *)
NoClash(d) ==
  \A s, t \in Tags(d.queue) \union Tags(d.toRun) : ~(s[1] = "minimize" /\ t[1] = "cycle")

(* Which actions wait where                                                 *)
QueueInv ==
  /\ phase \notin {"touchEnd", "queue"} => desk.toRun = <<>>
  /\ phase \in {"commands", "touch"} => Tags(desk.queue) \subseteq {<<"open", FALSE>>}
  /\ phase \in {"touchEnd", "timers"} => Tags(desk.queue) \subseteq Later
  /\ phase = "queue" => Tags(desk.toRun) \subseteq Later
  /\ phase \in {"queue", "draw"} => desk.queue = <<>>
  /\ NoClash(desk)

(* What has changed and is not marked dirty will be, when the lift is done. *)
DirtyInv == stale /\ phase \notin {"lifted", "touchEnd"} => desk.dirty

IInv ==
  /\ TypeOK
  /\ Sound(desk)
  /\ Fits(desk)
  /\ QueueInv
  /\ DirtyInv

(* Apart from the buttons that fire for a lift somewhere else, all but one  *)
(* of the actions that wait open windows, and that one's window and script  *)
(* are there until it runs.  Such a button comes last.                      *)
Chosen(item) == item.kind \notin {"open", "stray"}

Waits(items) ==
  /\ \A i, j \in DOMAIN items :
       Chosen(items[i]) /\ Chosen(items[j]) => i = j /\ items[i].live
  /\ \A i \in DOMAIN items : items[i].kind = "stray" => i = Len(items)

LiftInv ==
  /\ phase = "lifted" => Waits(desk.queue)
  /\ phase = "touchEnd" => Waits(desk.toRun)

-----------------------------------------------------------------------------
(* The action queue                                                         *)

LEMMA DulledTags ==
  ASSUME NEW p \in Seq(Items), NEW q \in Seq(Items), Dulled(p, q)
  PROVE  Tags(q) = Tags(p) /\ (p = <<>> => q = <<>>)
  <1>1. \A item \in ToSet(q) : <<item.kind, item.tap>> \in Tags(p)
    BY DulledItems DEF Tags
  <1>2. \A item \in ToSet(p) : <<item.kind, item.tap>> \in Tags(q)
    <2> SUFFICES ASSUME NEW item \in ToSet(p) PROVE <<item.kind, item.tap>> \in Tags(q)
      OBVIOUS
    <2>1. PICK k \in 1 .. Len(p) : item = p[k]
      BY DEF ToSet
    <2>2. q[k] \in ToSet(q)
      BY DEF Dulled, ToSet
    <2> QED
      BY <2>1, <2>2 DEF Dulled, Tags
  <1>3. p = <<>> => q = <<>>
    <2>1. Len(q) = Len(p)
      BY DEF Dulled
    <2> QED
      BY <2>1
  <1> QED
    BY <1>1, <1>2, <1>3 DEF Tags

LEMMA AppendTags ==
  ASSUME NEW p \in Seq(Items), NEW x \in Items
  PROVE  Tags(Append(p, x)) = Tags(p) \union {<<x.kind, x.tap>>}
  BY AppendSet DEF Tags

LEMMA EmptyTags == ToSet(<<>>) = {} /\ Tags(<<>>) = {}
  BY DEF Tags, ToSet

LEMMA SameView ==
  ASSUME NEW d, NEW e, e.wins = d.wins, e.popups = d.popups, e.keyboard = d.keyboard,
         e.panel = d.panel, e.rotation = d.rotation, e.pressedKey = d.pressedKey,
         e.error = d.error
  PROVE  View(e) = View(d)
  <1>1. Shown(e) = Shown(d) /\ VisiblePopups(e) = VisiblePopups(d)
    BY DEF Shown, VisiblePopups
  <1> QED
    BY <1>1 DEF View

LEMMA NewItem ==
  ASSUME NEW kind \in WindowActions \union Clicks \union {"hide"},
         NEW app \in Apps \union {Panel, None}, NEW tap \in BOOLEAN,
         NEW x, x = Item(kind, app, tap)
  PROVE  x \in Items /\ x.kind = kind /\ x.app = app /\ x.tap = tap /\ x.live
  <1>1. "restored" \in States
    BY DEF States
  <1> QED
    BY <1>1 DEF Item, Items

(* Of a desktop everything but the waiting actions                          *)
Drawn(d, e) ==
  /\ e.wins = d.wins /\ e.popups = d.popups /\ e.dirty = d.dirty
  /\ e.consumer = d.consumer /\ e.error = d.error /\ Rest(d, e)

LEMMA DrawnSame ==
  ASSUME NEW d, Sound(d), NEW e \in Desks, Drawn(d, e),
         \A item \in Waiting(e) :
            item \in Waiting(d) \/ (/\ item.kind \in WindowActions => item.app \in Apps
                                    /\ item.kind = "cycle" => item.app \in OnScreen(d))
  PROVE  /\ Sound(e) /\ View(e) = View(d)
         /\ Fits(d) => Fits(e)
         /\ Owned(d) => Owned(e)
  <1>1. /\ Single(e) /\ Focus(e) /\ Opened(e) = Opened(d) /\ OnScreen(e) = OnScreen(d)
        /\ Bounded(d) => Bounded(e)
    BY SameWindows DEF Sound, Drawn, Rest
  <1>2. Sound(e)
    BY <1>1 DEF Sound, Keys, Actions, Drawn
  <1>3. View(e) = View(d)
    BY SameView DEF Drawn, Rest
  <1>4. (Fits(d) => Fits(e)) /\ (Owned(d) => Owned(e))
    BY <1>1 DEF Fits, Owned, Drawn, Rest
  <1> QED
    BY <1>2, <1>3, <1>4

LEMMA QueueAction ==
  ASSUME NEW d, Sound(d), NEW item \in Items,
         item.kind \in WindowActions => item.app \in Apps,
         item.kind = "cycle" => item.app \in OnScreen(d),
         NEW e, e = queueAction(d, item)
  PROVE  /\ Sound(e) /\ View(e) = View(d)
         /\ Fits(d) => Fits(e)
         /\ Owned(d) => Owned(e)
         /\ e.wins = d.wins /\ e.queue = Append(d.queue, item) /\ e.toRun = d.toRun
         /\ Tags(e.queue) = Tags(d.queue) \union {<<item.kind, item.tap>>}
         /\ e.dirty = d.dirty /\ e.ub = d.ub
  <1>1. d \in Desks /\ d.queue \in Seq(Items)
    BY DEF Sound, Desks
  <1>2. /\ e \in Desks /\ Drawn(d, e) /\ e.toRun = d.toRun
        /\ e.queue = Append(d.queue, item)
    <2>1. Append(d.queue, item) \in Seq(Items)
      BY <1>1
    <2> QED
      BY <1>1, <2>1 DEF queueAction, Desks, Drawn, Rest
  <1>3. ToSet(e.queue) = ToSet(d.queue) \union {item}
    BY <1>1, <1>2, AppendSet
  <1>4. \A x \in Waiting(e) : x \in Waiting(d) \/ x = item
    BY <1>2, <1>3 DEF Waiting
  <1>5. /\ Sound(e) /\ View(e) = View(d)
        /\ Fits(d) => Fits(e)
        /\ Owned(d) => Owned(e)
    BY <1>2, <1>4, DrawnSame
  <1>6. Tags(e.queue) = Tags(d.queue) \union {<<item.kind, item.tap>>}
    BY <1>1, <1>2, AppendTags
  <1> QED
    BY <1>2, <1>5, <1>6 DEF Drawn, Rest

(* The first of the actions that are to run is taken.                       *)
Taken(d) == [d EXCEPT !.toRun = Tail(@)]

LEMMA TakeHead ==
  ASSUME NEW d, Sound(d), d.toRun # <<>>, NEW e, e = Taken(d),
         NEW item, item = Head(d.toRun)
  PROVE  /\ Sound(e) /\ View(e) = View(d)
         /\ Fits(d) => Fits(e)
         /\ Owned(d) => Owned(e)
         /\ item \in Items /\ item \in Waiting(d) /\ Waiting(e) \subseteq Waiting(d)
         /\ <<item.kind, item.tap>> \in Tags(d.toRun) /\ Tags(e.toRun) \subseteq Tags(d.toRun)
         /\ e.queue = d.queue /\ e.toRun = Tail(d.toRun)
         /\ e.dirty = d.dirty /\ e.ub = d.ub /\ e.panel = d.panel
         /\ OnScreen(e) = OnScreen(d)
  <1>1. d \in Desks /\ d.toRun \in Seq(Items)
    BY DEF Sound, Desks
  <1>2. item \in Items /\ item \in ToSet(d.toRun)
    BY <1>1 DEF ToSet
  <1>3. Tail(d.toRun) \in Seq(Items) /\ ToSet(Tail(d.toRun)) \subseteq ToSet(d.toRun)
    BY <1>1 DEF ToSet
  <1>4. /\ e \in Desks /\ Drawn(d, e) /\ e.queue = d.queue
        /\ e.toRun = Tail(d.toRun)
    BY <1>1, <1>3 DEF Taken, Desks, Drawn, Rest
  <1>5. Waiting(e) \subseteq Waiting(d) /\ item \in Waiting(d)
    BY <1>2, <1>3, <1>4 DEF Waiting
  <1>6. /\ Sound(e) /\ View(e) = View(d)
        /\ Fits(d) => Fits(e)
        /\ Owned(d) => Owned(e)
    BY <1>4, <1>5, DrawnSame
  <1>7. OnScreen(e) = OnScreen(d)
    BY <1>4, SameWindows DEF Drawn
  <1> QED
    BY <1>2, <1>3, <1>4, <1>5, <1>6, <1>7 DEF Tags, Drawn, Rest

LEMMA TakeAll ==
  ASSUME NEW d, Sound(d), d.toRun = <<>>, NEW e, e = TakeQueue(d)
  PROVE  /\ Sound(e) /\ View(e) = View(d)
         /\ Fits(d) => Fits(e)
         /\ Owned(d) => Owned(e)
         /\ Waiting(e) = Waiting(d)
         /\ e.queue = <<>> /\ e.toRun = d.queue
         /\ e.dirty = d.dirty /\ e.ub = d.ub
  <1>1. d \in Desks /\ d.queue \in Seq(Items) /\ <<>> \in Seq(Items)
    BY DEF Sound, Desks
  <1>2. /\ e \in Desks /\ Drawn(d, e) /\ e.queue = <<>> /\ e.toRun = d.queue
    BY <1>1 DEF TakeQueue, Desks, Drawn, Rest
  <1>3. Waiting(e) = Waiting(d)
    BY <1>2 DEF Waiting
  <1>4. /\ Sound(e) /\ View(e) = View(d)
        /\ Fits(d) => Fits(e)
        /\ Owned(d) => Owned(e)
    BY <1>2, <1>3, DrawnSame
  <1> QED
    BY <1>2, <1>3, <1>4 DEF Drawn, Rest

-----------------------------------------------------------------------------
(* Commands and queued actions                                              *)

(* A panel that is opened leaves no popup of another behind.                *)
Replaceable(d) == ~d.panel \/ Panel \notin PopupOwners

(* What is known of the desktop a handler leaves: what a desktop always is, *)
(* what it has queued, and that a change of the screen is to be drawn.      *)
Handled(d, e, tags) ==
  /\ Sound(e)
  /\ Fits(d) => Fits(e)
  /\ Dulled(d.toRun, e.toRun)
  /\ Tags(e.queue) \subseteq Tags(d.queue) \union tags
  /\ tags = {} => Dulled(d.queue, e.queue)
  /\ e.dirty \/ View(e) = View(d)
  /\ d.dirty => e.dirty

LEMMA KeptHandled ==
  ASSUME NEW d, Sound(d), NEW e, Kept(d, e), NEW tags
  PROVE  Handled(d, e, tags) /\ e.ub = d.ub /\ (Owned(d) => Owned(e))
  <1>1. d.queue \in Seq(Items) /\ e.queue \in Seq(Items)
    BY DEF Kept, Steady, Sound, Desks
  <1>2. Tags(e.queue) = Tags(d.queue)
    BY <1>1, DulledTags DEF Kept, Steady
  <1> QED
    BY <1>2 DEF Handled, Kept, Steady

LEMMA rotateKeeps ==
  ASSUME NEW d, Sound(d), NEW r \in Rotations, NEW e, e = rotate(d, r)
  PROVE  Kept(d, e)
  <1> DEFINE d1 == [d EXCEPT !.rotation = r]
             d2 == relayoutAll(d1)
  <1>0. d \in Desks
    BY DEF Sound
  <1>1. /\ d1 \in Desks /\ d1.wins = d.wins /\ d1.consumer = d.consumer
        /\ d1.queue = d.queue /\ d1.toRun = d.toRun
        /\ d1.resized = d.resized /\ d1.keyboard = d.keyboard /\ d1.ub = d.ub
    BY <1>0 DEF Desks
  <1>2. e = [d2 EXCEPT !.frameReady = TRUE]
    BY DEF rotate
  <1> HIDE DEF d1
  <1>3. Sound(d1)
    BY <1>1, SoundCopy
  <1>4. /\ Sound(d2) /\ Rest(d1, d2) /\ d2.dirty /\ Bounded(d2)
        /\ NoLeftovers => Owned(d2)
        /\ Dulled(d1.queue, d2.queue) /\ Dulled(d1.toRun, d2.toRun)
    BY <1>3, relayoutAllKeeps
  <1> HIDE DEF d2
  <1>5. e \in Desks /\ Drawn(d2, e) /\ e.queue = d2.queue /\ e.toRun = d2.toRun
    BY <1>2, <1>4 DEF Sound, Desks, Drawn, Rest
  <1>6. /\ Sound(e) /\ (Fits(d2) => Fits(e)) /\ (Owned(d2) => Owned(e))
    BY <1>4, <1>5, DrawnSame DEF Waiting
  <1>7. Fits(d) => Fits(d2)
    BY <1>1, <1>4 DEF Fits, Rest
  <1>8. Owned(d) => Owned(e)
    BY <1>4, <1>6 DEF Owned
  <1> QED
    BY <1>1, <1>4, <1>5, <1>6, <1>7, <1>8 DEF Kept, Steady, Drawn, Rest

LEMMA CommandFields ==
  ASSUME NEW c \in Commands
  PROVE  /\ c.op \in {"focus", "close", "page", "run"} =>  c.app \in Apps
         /\ c.op = "rotate" => c.rotation \in Rotations
         /\ c.op \in {"focus", "close", "page", "run", "keyboard", "panel", "rotate"}
  BY DEF Commands

LEMMA ExecuteKeeps ==
  ASSUME NEW d, Sound(d), NEW c \in Commands, NEW tap \in BOOLEAN, NEW e, e = Execute(d, c, tap)
  PROVE  /\ Handled(d, e, {<<"open", tap>>}) /\ e.ub = d.ub
         /\ (c.op = "panel" => Replaceable(d)) /\ Owned(d) => Owned(e)
  <1> DEFINE tags == {<<"open", tap>>}
  <1>1. CASE c.op = "focus"
    <2>1. e = restoreApp(d, c.app)
      BY <1>1 DEF Execute
    <2> QED
      BY <2>1, restoreAppKeeps, KeptHandled
  <1>2. CASE c.op = "close"
    <2>1. e = closeApp(d, c.app)
      BY <1>2 DEF Execute
    <2> QED
      BY <2>1, closeAppKeeps, KeptHandled
  <1>3. CASE c.op = "page"
    <2>1. e = openAppByName(d, c.app)
      BY <1>3 DEF Execute
    <2> QED
      BY <2>1, openAppByNameKeeps, KeptHandled
  <1>4. CASE c.op = "run"
    <2> DEFINE item == Item("open", c.app, tap)
    <2>1. e = queueAction(d, item)
      BY <1>4 DEF Execute
    <2>2. item \in Items /\ item.kind = "open" /\ item.app = c.app /\ item.tap = tap
          /\ c.app \in Apps
      BY <1>4, CommandFields, NewItem DEF WindowActions
    <2>a. (item.kind \in WindowActions => item.app \in Apps) /\ item.kind # "cycle"
      BY <2>2
    <2> HIDE DEF item
    <2>3. /\ Sound(e) /\ View(e) = View(d)
          /\ Fits(d) => Fits(e)
          /\ Owned(d) => Owned(e)
          /\ e.toRun = d.toRun
          /\ Tags(e.queue) = Tags(d.queue) \union {<<item.kind, item.tap>>}
          /\ e.dirty = d.dirty /\ e.ub = d.ub
      BY <2>1, <2>2, <2>a, QueueAction
    <2>4. Dulled(d.toRun, e.toRun) /\ tags # {}
      BY <2>3, SameDulled DEF Sound, Desks
    <2>5. Tags(e.queue) = Tags(d.queue) \union tags
      BY <2>2, <2>3
    <2> HIDE DEF tags
    <2>6. Handled(d, e, tags)
      BY <2>3, <2>4, <2>5 DEF Handled
    <2> QED
      BY <2>3, <2>6 DEF tags
  <1>5. CASE c.op = "keyboard"
    <2>1. e = toggleKeyboard(d)
      BY <1>5 DEF Execute
    <2> QED
      BY <2>1, toggleKeyboardKeeps, KeptHandled
  <1>6. CASE c.op = "panel"
    <2>1. e = openPanel(d)
      BY <1>6 DEF Execute
    <2>2. /\ Sound(e) /\ (Fits(d) => Fits(e))
          /\ Dulled(d.queue, e.queue) /\ Dulled(d.toRun, e.toRun)
          /\ e.ub = d.ub /\ e.dirty
          /\ Replaceable(d) /\ Owned(d) => Owned(e)
      BY <2>1, openPanelKeeps DEF Replaceable
    <2>3. Tags(e.queue) = Tags(d.queue)
      BY <2>2, DulledTags DEF Sound, Desks
    <2> HIDE DEF tags
    <2>4. Handled(d, e, tags)
      BY <2>2, <2>3 DEF Handled
    <2> QED
      BY <1>6, <2>2, <2>4 DEF tags
  <1>7. CASE c.op = "rotate"
    <2>1. e = rotate(d, c.rotation) /\ c.rotation \in Rotations
      BY <1>7, CommandFields DEF Execute
    <2> QED
      BY <2>1, rotateKeeps, KeptHandled
  <1> QED
    BY <1>1, <1>2, <1>3, <1>4, <1>5, <1>6, <1>7, CommandFields

LEMMA CycleKeeps ==
  ASSUME NEW d, Sound(d), NEW item \in Items, item.app \in OnScreen(d), item.live,
         NEW e, e = cycleWindowState(d, item)
  PROVE  /\ Sound(e)
         /\ Fits(d) => Fits(e)
         /\ Owned(d) => Owned(e)
         /\ e.toRun = d.toRun
         /\ Tags(e.queue) = Tags(d.queue) \union {<<"state", item.tap>>}
         /\ e.ub = d.ub
  <1> DEFINE i == IndexOf(d, item.app)
             s == NextState(d.wins[i].state)
             m == setState(d, i, s)
             x == [Item("state", item.app, item.tap) EXCEPT !.state = s]
  <1>0. d \in Desks /\ d.queue \in Seq(Items) /\ d.toRun \in Seq(Items)
    BY DEF Sound, Desks
  <1>1. i \in Shown(d) /\ i \in DOMAIN d.wins /\ d.wins[i].app = item.app
    <2>1. PICK k \in Shown(d) : d.wins[k].app = item.app
      BY DEF OnScreen
    <2>2. k \in DOMAIN d.wins /\ isAppOpen(d, item.app)
      BY <2>1 DEF Shown, isAppOpen
    <2>3. i \in DOMAIN d.wins /\ d.wins[i].app = item.app
      BY <2>2, IndexOfApp
    <2>4. i = k
      BY <2>1, <2>2, <2>3 DEF Sound, Single
    <2> QED
      BY <2>1, <2>2, <2>4
  <1>2. s \in States /\ s # "minimized"
    BY DEF NextState, States
  <1>3. e = queueAction(m, x)
    BY DEF cycleWindowState
  <1> HIDE DEF i
  <1>4. item.app \in Apps /\ item.tap \in BOOLEAN
    <2>1. d.wins[i] \in Windows
      BY <1>0, <1>1, WinsDomain
    <2> QED
      BY <1>1, <2>1 DEF Items, Windows
  <1>5. x \in Items /\ x.kind = "state" /\ x.app = item.app /\ x.tap = item.tap
    <2> DEFINE y == Item("state", item.app, item.tap)
    <2>1. y \in Items /\ y.kind = "state" /\ y.app = item.app /\ y.tap = item.tap
      BY <1>4, NewItem DEF WindowActions
    <2>2. x = [y EXCEPT !.state = s]
      OBVIOUS
    <2> HIDE DEF s, x, y
    <2>3. /\ y \in Items => [y EXCEPT !.state = s] \in Items
          /\ y \in Items => /\ [y EXCEPT !.state = s].kind = y.kind
                            /\ [y EXCEPT !.state = s].app = y.app
                            /\ [y EXCEPT !.state = s].tap = y.tap
      BY <1>2 DEF Items
    <2> QED
      BY <2>1, <2>2, <2>3
  <1> HIDE DEF s, x
  <1>6. /\ m \in Desks /\ m = [d EXCEPT !.wins = m.wins]
        /\ Opened(m) = Opened(d) /\ Single(m)
        /\ Bounded(d) => Bounded(m)
        /\ Shown(m) \ {i} = Shown(d) \ {i} /\ i \in Shown(m)
        /\ \A k \in DOMAIN d.wins : /\ m.wins[k].app = d.wins[k].app
                                    /\ m.wins[k].active = d.wins[k].active
        /\ Len(m.wins) = Len(d.wins)
    BY <1>0, <1>1, <1>2, SetState DEF Sound
  <1> HIDE DEF m
  <1>7. Shown(m) = Shown(d) /\ getFocused(m) = getFocused(d)
    <2>1. ASSUME NEW k PROVE k \in Shown(m) <=> k \in Shown(d)
      <3>1. k \in Shown(m) \ {i} <=> k \in Shown(d) \ {i}
        BY <1>6
      <3> QED
        BY <1>1, <1>6, <3>1
    <2>2. Shown(m) = Shown(d)
      BY <2>1
    <2> QED
      BY <2>2 DEF getFocused
  <1>8. Focus(m) /\ OnScreen(m) = OnScreen(d)
    <2>1. Shown(d) \subseteq DOMAIN d.wins
      BY DEF Shown
    <2>2. OnScreen(m) = OnScreen(d)
      BY <1>6, <1>7, <2>1 DEF OnScreen
    <2>3. Focus(m)
      BY <1>6, <1>7, <2>1 DEF Focus, Sound
    <2> QED
      BY <2>2, <2>3
  <1>9. /\ m.consumer = d.consumer /\ m.queue = d.queue /\ m.toRun = d.toRun
        /\ m.popups = d.popups /\ Rest(d, m)
    BY <1>0, <1>6 DEF Desks, Rest
  <1>10. Sound(m) /\ (Fits(d) => Fits(m)) /\ (Owned(d) => Owned(m))
    <2>1. Sound(m)
      BY <1>0, <1>6, <1>8, <1>9, SoundAgain
    <2> QED
      BY <1>6, <1>9, <2>1 DEF Fits, Owned, Rest
  <1>11. /\ Sound(e)
         /\ Fits(m) => Fits(e)
         /\ Owned(m) => Owned(e)
         /\ e.toRun = m.toRun
         /\ Tags(e.queue) = Tags(m.queue) \union {<<x.kind, x.tap>>}
         /\ e.ub = m.ub
    <2>1. /\ x.kind \in WindowActions => x.app \in Apps
          /\ x.kind = "cycle" => x.app \in OnScreen(m)
      BY <1>4, <1>5
    <2> QED
      BY <1>3, <1>5, <1>10, <2>1, QueueAction
  <1> QED
    BY <1>5, <1>9, <1>10, <1>11 DEF Rest

(* Something undefined has happened; nothing else has.                      *)
LEMMA Undefines ==
  ASSUME NEW d, Sound(d), NEW ub \in Undefined, NEW e, e = [d EXCEPT !.ub = ub]
  PROVE  Handled(d, e, {}) /\ (Owned(d) => Owned(e)) /\ e.ub = ub
  <1>1. d \in Desks /\ d.queue \in Seq(Items) /\ d.toRun \in Seq(Items)
    BY DEF Sound, Desks
  <1>2. /\ e \in Desks /\ e.ub = ub
        /\ e.wins = d.wins /\ e.consumer = d.consumer /\ e.popups = d.popups
        /\ e.queue = d.queue /\ e.toRun = d.toRun /\ e.panel = d.panel
        /\ e.resized = d.resized /\ e.keyboard = d.keyboard /\ e.rotation = d.rotation
        /\ e.pressedKey = d.pressedKey /\ e.error = d.error /\ e.dirty = d.dirty
    BY <1>1 DEF Desks
  <1>3. Sound(e) /\ Opened(e) = Opened(d) /\ (Bounded(d) => Bounded(e)) /\ View(e) = View(d)
    BY <1>2, SoundCopy, SameWindows, SameView
  <1>4. (Fits(d) => Fits(e)) /\ (Owned(d) => Owned(e))
    BY <1>2, <1>3 DEF Fits, Owned
  <1> QED
    BY <1>1, <1>2, <1>3, <1>4, SameDulled DEF Handled

(* What NoDanglingAction excludes                                           *)
Dangling == {"click of a deleted script", "action of a deleted window"}

(* A button fires whose script is gone.                                     *)
LEMMA LostClicks ==
  ASSUME NEW d, Sound(d), d.ub = "none", NEW item \in Items, item.kind \in Clicks,
         item.kind = "orphan" \/ ~item.live, NEW e, e \in ScriptCallback(d, item)
  PROVE  /\ Handled(d, e, {}) /\ (Owned(d) => Owned(e))
         /\ item.live \/ item.kind # "click" => e.ub \notin Dangling
  <1> DEFINE ub == IF item.kind = "orphan" THEN "click on an orphaned popup"
                   ELSE IF item.kind = "stray" THEN "stray click of a deleted script"
                   ELSE "click of a deleted script"
  <1>1. e = [d EXCEPT !.ub = ub]
    BY DEF ScriptCallback
  <1>2. ub \in Undefined /\ (item.live \/ item.kind # "click" => ub \notin Dangling)
    BY DEF Undefined, Dangling, Clicks
  <1> HIDE DEF ub
  <1>3. Handled(d, e, {}) /\ (Owned(d) => Owned(e)) /\ e.ub = ub
    BY <1>1, <1>2, Undefines
  <1> QED
    BY <1>2, <1>3

(* Of a desktop all but the error popup, the pressed key and the flags of   *)
(* the renderer                                                             *)
Aside(d, e) ==
  /\ e.wins = d.wins /\ e.popups = d.popups /\ e.consumer = d.consumer
  /\ e.queue = d.queue /\ e.toRun = d.toRun
  /\ e.panel = d.panel /\ e.keyboard = d.keyboard /\ e.resized = d.resized
  /\ e.rotation = d.rotation /\ e.ub = d.ub

LEMMA AsideSteady ==
  ASSUME NEW d, Sound(d), NEW e \in Desks, Aside(d, e)
  PROVE  Steady(d, e)
  <1>1. d.queue \in Seq(Items) /\ d.toRun \in Seq(Items)
    BY DEF Sound, Desks
  <1>2. Sound(e) /\ Opened(e) = Opened(d) /\ (Bounded(d) => Bounded(e))
    BY SoundCopy, SameWindows DEF Aside
  <1>3. (Fits(d) => Fits(e)) /\ (Owned(d) => Owned(e))
    BY <1>2 DEF Fits, Owned, Aside
  <1> QED
    BY <1>1, <1>2, <1>3, SameDulled DEF Steady, Aside

LEMMA MarkedAside ==
  ASSUME NEW d, Sound(d), NEW m \in Desks, Aside(d, m), NEW e, e = markDirty(m)
  PROVE  Steady(d, e) /\ e.ub = d.ub /\ e.dirty
  <1>1. e \in Desks /\ e.dirty /\ Aside(d, e)
    BY DEF markDirty, Desks, Aside
  <1> QED
    BY <1>1, AsideSteady DEF Aside

LEMMA hideErrorKeeps ==
  ASSUME NEW d, Sound(d), NEW e, e = hideError(d)
  PROVE  Kept(d, e)
  <1> DEFINE m == [d EXCEPT !.error = "hidden"]
  <1>1. m \in Desks /\ Aside(d, m)
    BY DEF Sound, Desks, Aside
  <1>2. e = markDirty(m)
    BY DEF hideError
  <1> HIDE DEF m
  <1> QED
    BY <1>1, <1>2, MarkedAside DEF Kept

LEMMA letGoKeeps ==
  ASSUME NEW d, Sound(d), NEW e, e = letGo(d)
  PROVE  Steady(d, e) /\ e.ub = d.ub
  <1> DEFINE m == [d EXCEPT !.pressedKey = FALSE]
  <1>1. m \in Desks /\ Aside(d, m)
    BY DEF Sound, Desks, Aside
  <1>2. e = markDirty(m)
    BY DEF letGo
  <1> HIDE DEF m
  <1> QED
    BY <1>1, <1>2, MarkedAside

(* What a queued action sets off                                            *)
LEMMA OutcomesKeep ==
  ASSUME NEW d, Sound(d), d.ub = "none", NEW item \in Items,
         item.kind \in WindowActions => item.app \in Apps,
         item.kind = "cycle" /\ item.live => item.app \in OnScreen(d),
         item.kind = "minimize" => \A x \in Waiting(d) : x.kind # "cycle",
         NEW e, e \in Outcomes(d, item)
  PROVE  /\ Sound(e) /\ (Fits(d) => Fits(e)) /\ Dulled(d.toRun, e.toRun)
         /\ Tags(e.queue) \subseteq
              Tags(d.queue) \union {<<"open", item.tap>>, <<"state", item.tap>>}
         /\ item.kind \in {"open", "state"} => Handled(d, e, {})
         /\ (\A c \in Commands : Allowed(c) /\ c.op = "panel" => Replaceable(d)) /\ Owned(d)
              => Owned(e)
         /\ item.live \/ item.kind \notin {"cycle", "click"} => e.ub \notin Dangling
         /\ item.kind = "open" => e.toRun = d.toRun
  <1> DEFINE tags == {<<"open", item.tap>>, <<"state", item.tap>>}
             Quiet(t) == Handled(d, e, t) /\ (Owned(d) => Owned(e))
  <1>0. /\ item.kind \in WindowActions \union Clicks \union {"hide"}
        /\ item.state \in States /\ item.tap \in BOOLEAN
    BY DEF Items
  <1>a. d.ub \notin Dangling
    BY DEF Dangling
  <1>1. CASE item.kind = "open"
    <2>1. e = openApp(d, item.app) /\ item.app \in Apps
      BY <1>1 DEF Outcomes, WindowActions, Clicks
    <2>2. Kept(d, e) /\ e.toRun = d.toRun
      BY <2>1, openAppKeeps
    <2>3. Handled(d, e, {}) /\ Handled(d, e, tags) /\ e.ub = d.ub /\ (Owned(d) => Owned(e))
      BY <2>2, KeptHandled
    <2> QED
      BY <1>1, <1>a, <2>2, <2>3 DEF Handled
  <1>2. CASE item.kind = "close"
    <2>1. e = closeApp(d, item.app)
      BY <1>2 DEF Outcomes, Clicks
    <2>2. Kept(d, e)
      BY <2>1, closeAppKeeps
    <2>3. Handled(d, e, tags) /\ e.ub = d.ub /\ (Owned(d) => Owned(e))
      BY <2>2, KeptHandled
    <2> QED
      BY <1>2, <1>a, <2>3 DEF Handled
  <1>3. CASE item.kind = "minimize"
    <2>1. e = minimizeApp(d, item.app)
      BY <1>3 DEF Outcomes, Clicks
    <2>2. Kept(d, e)
      BY <1>3, <2>1, minimizeAppKeeps
    <2>3. Handled(d, e, tags) /\ e.ub = d.ub /\ (Owned(d) => Owned(e))
      BY <2>2, KeptHandled
    <2> QED
      BY <1>3, <1>a, <2>3 DEF Handled
  <1>4. CASE item.kind = "cycle"
    <2>1. e = cycleWindowState(d, item)
      BY <1>4 DEF Outcomes, Clicks
    <2>2. CASE item.live
      <3>1. /\ Sound(e)
            /\ Fits(d) => Fits(e)
            /\ Owned(d) => Owned(e)
            /\ e.toRun = d.toRun
            /\ Tags(e.queue) = Tags(d.queue) \union {<<"state", item.tap>>}
            /\ e.ub = d.ub
        BY <1>4, <2>1, <2>2, CycleKeeps
      <3>2. Dulled(d.toRun, e.toRun)
        BY <3>1, SameDulled DEF Sound, Desks
      <3> QED
        BY <1>4, <1>a, <3>1, <3>2
    <2>3. CASE ~item.live
      <3> DEFINE ub == "action of a deleted window"
      <3>1. e = [d EXCEPT !.ub = ub]
        BY <2>1, <2>3 DEF cycleWindowState
      <3>2. ub \in Undefined
        BY DEF Undefined
      <3> HIDE DEF ub
      <3>3. Handled(d, e, {}) /\ (Owned(d) => Owned(e))
        BY <3>1, <3>2, Undefines
      <3> QED
        BY <1>4, <2>3, <3>3 DEF Handled
    <2> QED
      BY <2>2, <2>3
  <1>5. CASE item.kind = "state"
    <2>1. e = handleWindowStateChange(d, item.app, item.state) /\ item.app \in Apps
      BY <1>5 DEF Outcomes, WindowActions, Clicks
    <2>2. Kept(d, e)
      BY <1>0, <2>1, WindowStateKeeps
    <2>3. Handled(d, e, {}) /\ Handled(d, e, tags) /\ e.ub = d.ub /\ (Owned(d) => Owned(e))
      BY <2>2, KeptHandled
    <2> QED
      BY <1>5, <1>a, <2>3 DEF Handled
  <1>6. CASE item.kind = "hide"
    <2>1. e = hideError(d)
      BY <1>6 DEF Outcomes, Clicks
    <2>2. Kept(d, e)
      BY <2>1, hideErrorKeeps
    <2>3. Handled(d, e, tags) /\ e.ub = d.ub /\ (Owned(d) => Owned(e))
      BY <2>2, KeptHandled
    <2> QED
      BY <1>6, <1>a, <2>3 DEF Handled
  <1>7. CASE item.kind \in Clicks
    <2>1. e \in ScriptCallback(d, item)
      BY <1>7 DEF Outcomes, Clicks
    <2>a. item.kind \notin {"open", "state", "cycle"}
      BY <1>7 DEF Clicks
    <2>2. CASE item.kind = "orphan" \/ ~item.live
      <3>1. /\ Handled(d, e, {}) /\ (Owned(d) => Owned(e))
            /\ item.live \/ item.kind # "click" => e.ub \notin Dangling
        BY <1>7, <2>1, <2>2, LostClicks
      <3> QED
        BY <2>a, <3>1 DEF Handled
    <2>3. CASE item.kind # "orphan" /\ item.live
      <3>1. \/ \E c \in Commands : Allowed(c) /\ e = Execute(d, c, item.tap)
            \/ e = d \/ e = togglePopup(d, item.app)
        BY <2>1, <2>3 DEF ScriptCallback
      <3>2. CASE e = d \/ e = togglePopup(d, item.app)
        <4>1. Kept(d, e)
          BY <3>2, Unchanged, togglePopupKeeps
        <4>2. Handled(d, e, tags) /\ e.ub = d.ub /\ (Owned(d) => Owned(e))
          BY <4>1, KeptHandled
        <4> QED
          BY <1>a, <2>a, <4>2 DEF Handled
      <3>3. ASSUME NEW c \in Commands, Allowed(c), e = Execute(d, c, item.tap)
            PROVE  /\ Handled(d, e, {<<"open", item.tap>>}) /\ e.ub = d.ub
                   /\ (c.op = "panel" => Replaceable(d)) /\ Owned(d) => Owned(e)
        BY <1>0, <3>3, ExecuteKeeps
      <3> QED
        BY <1>a, <2>a, <3>1, <3>2, <3>3 DEF Handled
    <2> QED
      BY <2>2, <2>3
  <1> QED
    BY <1>0, <1>1, <1>2, <1>3, <1>4, <1>5, <1>6, <1>7 DEF WindowActions

-----------------------------------------------------------------------------
(* The steps of the loop                                                    *)

LEMMA Start == Init => IInv /\ (NoLeftovers => Owned(desk)) /\ LiftInv
  <1> SUFFICES ASSUME Init PROVE IInv /\ (NoLeftovers => Owned(desk)) /\ LiftInv
    OBVIOUS
  <1> DEFINE r == CHOOSE x \in Rotations : TRUE
  <1>1. r \in Rotations
    BY WindowManagerAssumption
  <1>2. desk.wins = <<>> /\ desk.popups = <<>> /\ desk.queue = <<>> /\ desk.toRun = <<>>
        /\ desk.consumer = NoConsumer /\ desk.resized = FALSE /\ desk.keyboard = FALSE
        /\ desk.dirty
    BY DEF Init
  <1>3. desk \in Desks
    <2>1. NoConsumer \in [app : Apps \union {None}, live : BOOLEAN]
      BY DEF NoConsumer
    <2>2. <<>> \in Seq(Windows) /\ <<>> \in Seq(Popups) /\ <<>> \in Seq(Items)
      OBVIOUS
    <2>3. desk = [wins |-> <<>>, panel |-> FALSE, popups |-> <<>>,
                  error |-> "hidden",
                  keyboard |-> FALSE, pressedKey |-> FALSE, resized |-> FALSE,
                  rotation |-> r,
                  consumer |-> NoConsumer, queue |-> <<>>, toRun |-> <<>>,
                  dirty |-> TRUE, frameReady |-> FALSE, ub |-> "none"]
      BY DEF Init
    <2> HIDE DEF r
    <2> QED
      BY <1>1, <2>1, <2>2, <2>3 DEF Desks
  <1>4. DOMAIN desk.wins = {} /\ Shown(desk) = {} /\ DOMAIN desk.popups = {}
    BY <1>2 DEF Shown
  <1>5. Waiting(desk) = {} /\ Tags(desk.queue) = {} /\ Tags(desk.toRun) = {}
    BY <1>2, EmptyTags DEF Waiting
  <1>6. Sound(desk) /\ Fits(desk)
    <2>1. ~desk.consumer.live
      BY <1>2 DEF NoConsumer
    <2>2. Keys(desk)
      BY <2>1 DEF Keys
    <2>3. Single(desk) /\ Focus(desk) /\ Bounded(desk)
      BY <1>4 DEF Single, Focus, Bounded
    <2>4. Actions(desk)
      BY <1>5 DEF Actions
    <2> QED
      BY <1>2, <1>3, <2>2, <2>3, <2>4 DEF Sound, Fits
  <1>7. phase = "commands" /\ last = NoTouch /\ stale
    BY DEF Init
  <1>8. TypeOK
    BY <1>3, <1>7 DEF TypeOK, Phases, NoTouch, Parts
  <1>9. QueueInv /\ DirtyInv /\ LiftInv
    BY <1>2, <1>5, <1>7 DEF QueueInv, DirtyInv, LiftInv, NoClash
  <1>10. NoLeftovers => Owned(desk)
    BY <1>2, EmptyTags DEF Owned
  <1> QED
    BY <1>6, <1>8, <1>9, <1>10 DEF IInv

Lasts == [zone : {"none", "popup", "keys", "taskbar", "window"},
          app : Apps \union {None}, part : Parts]

LEMMA Ats == /\ NoTouch \in Lasts
             /\ \A zone \in {"popup", "keys", "taskbar", "window"} : At(zone) \in Lasts
  BY DEF At, NoTouch, Lasts, Parts

(* What stale becomes                                                       *)
Stales == stale' = (~(desk.dirty /\ ~desk'.dirty) /\ (stale \/ View(desk') # View(desk)))

LEMMA StaleType == Stales => stale' \in BOOLEAN
  BY DEF Stales

LEMMA LaterClashes ==
  ASSUME NEW d, Tags(d.queue) \subseteq Later, Tags(d.toRun) \subseteq Later
  PROVE  NoClash(d)
  <1>1. \A t \in Later : t[1] # "minimize"
    BY DEF Later
  <1> QED
    BY <1>1 DEF NoClash

LEMMA SteadyTrans ==
  ASSUME NEW c, NEW d, NEW e, Sound(c), Steady(c, d), Steady(d, e)
  PROVE  Steady(c, e)
  <1>1. Dulled(c.queue, e.queue) /\ Dulled(c.toRun, e.toRun)
    BY DEF Steady, Dulled
  <1> QED
    BY <1>1 DEF Steady

(* A touch is handled.                                                      *)
LEMMA TouchSteps ==
  ASSUME IInv, NEW d, Steady(desk, d), d.ub \notin Dangling,
         NEW where \in Lasts, Touched(d, where), Stales
  PROVE  IInv' /\ (Owned(desk) => Owned(desk)') /\ LiftInv' /\ NoDanglingAction'
  <1>1. /\ phase = "touch" /\ desk' = markDirty(d) /\ last' = where /\ phase' = "timers"
    BY DEF Touched
  <1>2. Sound(desk) /\ Fits(desk) /\ desk.toRun = <<>>
        /\ Tags(desk.queue) \subseteq {<<"open", FALSE>>}
    BY <1>1 DEF IInv, QueueInv
  <1>3. /\ Sound(d) /\ Fits(d) /\ (Owned(desk) => Owned(d))
        /\ Tags(d.queue) = Tags(desk.queue) /\ d.toRun = <<>>
    BY <1>2, DulledTags DEF Steady, Sound, Desks
  <1>4. /\ Sound(desk') /\ Beside(d, desk') /\ desk'.dirty /\ Opened(desk') = Opened(d)
        /\ Bounded(d) => Bounded(desk')
    BY <1>1, <1>3, Marked DEF Sound
  <1>5. Fits(desk') /\ (Owned(d) => Owned(desk')) /\ desk'.queue = d.queue /\ desk'.toRun = <<>>
    BY <1>3, <1>4 DEF Fits, Owned, Beside, Rest
  <1>6. TypeOK'
    BY <1>1, <1>4, StaleType DEF TypeOK, Sound, Lasts, Phases
  <1>7. Tags(desk'.queue) \subseteq {<<"open", FALSE>>} /\ Tags(desk'.toRun) = {}
    BY <1>2, <1>3, <1>5, EmptyTags
  <1>8. QueueInv'
    <2>1. Tags(desk'.queue) \subseteq Later /\ Tags(desk'.toRun) \subseteq Later
      <3>1. <<"open", FALSE>> \in Later
        BY DEF Later
      <3> QED
        BY <1>7, <3>1
    <2>2. NoClash(desk')
      BY <2>1, LaterClashes
    <2> QED
      BY <1>1, <1>5, <2>1, <2>2 DEF QueueInv
  <1> QED
    BY <1>1, <1>3, <1>4, <1>5, <1>6, <1>8
       DEF IInv, DirtyInv, LiftInv, NoDanglingAction, Dangling, Beside, Rest

LEMMA onTouchKeeps ==
  ASSUME NEW d, Sound(d), NEW i \in DOMAIN d.wins, NEW part \in Parts,
         NEW e, e = onTouch(d, i, part)
  PROVE  Steady(d, e) /\ e.ub \in {d.ub, "mutated while traversed"}
  <1>1. CASE e = d
    BY <1>1, Unchanged DEF Kept
  <1>2. CASE e = touchField(d, i)
    BY <1>2, touchFieldKeeps
  <1>3. CASE part \in Pressable
    <2> DEFINE w == [d.wins[i] EXCEPT !.pressed = @ \union {part}]
               wins == [d.wins EXCEPT ![i] = w]
    <2>0. d \in Desks /\ d.wins[i] \in Windows /\ d.queue \in Seq(Items) /\ d.toRun \in Seq(Items)
      BY WinsDomain DEF Sound, Desks
    <2>1. Retouched(w, d.wins[i])
      <3>1. d.wins[i].pressed \union {part} \in SUBSET Pressable
        BY <1>3, <2>0 DEF Windows
      <3> QED
        BY <2>0, <3>1 DEF Windows, Retouched
    <2>2. e = [d EXCEPT !.wins = wins]
      <3>1. part # "blank" /\ part # "field"
        BY <1>3 DEF Pressable, TitleBar
      <3> QED
        BY <2>0, <3>1 DEF onTouch, Desks
    <2>3. wins \in Seq(Windows)
      BY <2>0, <2>1, RetouchedSeq
    <2>4. e.wins = wins
      BY <2>0, <2>2 DEF Desks
    <2>5. /\ e \in Desks /\ Beside(d, e)
      <3> HIDE DEF wins
      <3> QED
        BY <2>0, <2>2, <2>3 DEF Desks, Beside, Rest
    <2> HIDE DEF w
    <2>6. /\ e.wins = [d.wins EXCEPT ![i] = w] /\ e.queue = d.queue /\ e.toRun = d.toRun
          /\ e.consumer.live => e.consumer.app \in Opened(d)
          /\ e.resized = d.resized /\ e.rotation = d.rotation /\ e.keyboard = d.keyboard
          /\ e.ub = d.ub /\ e.panel = d.panel /\ e.popups = d.popups
      BY <2>4, <2>5 DEF Beside, Rest, Sound, Keys
    <2>7. Sound(e) /\ Opened(e) = Opened(d) /\ (Bounded(d) => Bounded(e))
      BY <2>1, <2>5, <2>6, Retouch
    <2> QED
      BY <2>0, <2>6, <2>7, SameDulled DEF Steady, Fits, Owned
  <1>4. e = d \/ e = touchField(d, i) \/ part \in Pressable
    <2>1. CASE part \in {"blank", "field"}
      BY <2>1 DEF onTouch
    <2>2. CASE part \notin {"blank", "field"}
      BY <2>2 DEF Parts, Pressable, TitleBar
    <2> QED
      BY <2>1, <2>2
  <1> QED
    BY <1>1, <1>2, <1>3, <1>4

LEMMA HitWindow ==
  ASSUME NEW d, Sound(d), NEW area, Hits(d, area) # {}
  PROVE  Max(Hits(d, area)) \in Shown(d)
  <1>1. Hits(d, area) \subseteq 0 .. Len(d.wins) /\ Len(d.wins) \in Nat
    BY WinsDomain DEF Hits, Sound
  <1>2. Max(Hits(d, area)) \in Hits(d, area)
    BY <1>1, MaxIsLargest
  <1> QED
    BY <1>2 DEF Hits

LEMMA TouchWindowKeeps ==
  ASSUME NEW d, Sound(d), NEW i \in Shown(d), NEW part \in Parts,
         NEW m, m = IF i = getFocused(d) THEN d ELSE focusApp(d, d.wins[i].app),
         NEW e, e = onTouch(m, getFocused(m), part)
  PROVE  Steady(d, e) /\ e.ub \in {d.ub, "mutated while traversed"} /\ d.wins[i].app \in Apps
  <1>1. /\ d \in Desks /\ Single(d) /\ Focus(d)
        /\ d.wins[i] \in Windows /\ d.wins[i].app \in OnScreen(d)
    BY WinsDomain DEF Sound, OnScreen, Shown
  <1>2. Kept(d, m) /\ OnScreen(d) \subseteq OnScreen(m)
    <2>1. CASE i = getFocused(d)
      BY <2>1, Unchanged
    <2>2. CASE i # getFocused(d)
      <3>1. m = focusApp(d, d.wins[i].app)
        BY <2>2
      <3>2. Raised(d, m) /\ (m.dirty \/ View(m) = View(d))
        BY <1>1, <3>1, FocusApp
      <3> QED
        BY <3>2, RaisedKept DEF Raised
    <2> QED
      BY <2>1, <2>2
  <1>3. Sound(m) /\ Steady(d, m) /\ m.ub = d.ub
    BY <1>2 DEF Kept, Steady
  <1>4. getFocused(m) \in DOMAIN m.wins
    <2>1. Shown(m) # {}
      BY <1>1, <1>2 DEF OnScreen
    <2>2. getFocused(m) \in Shown(m)
      BY <1>3, <2>1, FocusedIsTop DEF Sound
    <2> QED
      BY <2>2 DEF Shown
  <1>5. Steady(m, e) /\ e.ub \in {m.ub, "mutated while traversed"}
    BY <1>3, <1>4, onTouchKeeps
  <1>6. d.wins[i].app \in Apps
    BY <1>1 DEF Windows
  <1> QED
    BY <1>3, <1>5, <1>6, SteadyTrans

(* The error popup or the keyboard is touched.                              *)
LEMMA TouchesOver ==
  ASSUME IInv, desk.ub = "none", Stales, NEW zone \in {"popup", "keys", "taskbar", "window"},
         NEW d \in Desks, Aside(desk, d), Touched(d, At(zone))
  PROVE  IInv' /\ (Owned(desk) => Owned(desk)') /\ LiftInv' /\ NoDanglingAction'
  <1>1. Steady(desk, d)
    BY AsideSteady DEF IInv
  <1>2. d.ub \notin Dangling
    BY DEF Aside, Dangling
  <1> QED
    BY <1>1, <1>2, Ats, TouchSteps

LEMMA Touches ==
  ASSUME IInv, desk.ub = "none", Stales,
         \/ TouchError \/ TouchBesideError
         \/ TouchPopup \/ TouchBesidePopups \/ TouchKeys \/ TouchPanel \/ TouchWindow \/ TouchDesktop
  PROVE  IInv' /\ (Owned(desk) => Owned(desk)') /\ LiftInv' /\ NoDanglingAction'
  <1>1. Sound(desk)
    BY DEF IInv
  <1>2. Steady(desk, desk) /\ desk.ub \notin Dangling
    BY <1>1, Unchanged DEF Kept, Dangling
  <1>3. CASE \E zone \in {"popup", "keys", "taskbar", "window"} : Touched(desk, At(zone))
    BY <1>2, <1>3, Ats, TouchSteps
  <1>4. CASE \E zone \in {"keys", "taskbar", "window"} : Touched(hideAllPopups(desk), At(zone))
    <2>1. PICK zone \in {"keys", "taskbar", "window"} : Touched(hideAllPopups(desk), At(zone))
      BY <1>4
    <2>2. Kept(desk, hideAllPopups(desk))
      BY <1>1, hideAllPopupsKeeps
    <2> QED
      BY <1>2, <2>1, <2>2, Ats, TouchSteps DEF Kept
  <1>5. CASE TouchWindow
    <2>1. PICK area \in {"border", "upper", "lower"}, part \in TouchedParts :
            /\ Hits(desk, area) # {}
            /\ LET i == Max(Hits(desk, area))
                   app == desk.wins[i].app
                   d == IF i = getFocused(desk) THEN desk ELSE focusApp(desk, app)
               IN Touched(onTouch(d, getFocused(d), part),
                          [zone |-> "window", app |-> app, part |-> part])
      BY <1>5 DEF TouchWindow
    <2> DEFINE i == Max(Hits(desk, area))
               m == IF i = getFocused(desk) THEN desk ELSE focusApp(desk, desk.wins[i].app)
               e == onTouch(m, getFocused(m), part)
               where == [zone |-> "window", app |-> desk.wins[i].app, part |-> part]
    <2>2. i \in Shown(desk) /\ part \in Parts
      BY <1>1, <2>1, HitWindow, UILoopAssumption
    <2>3. Touched(e, where)
      BY <2>1
    <2> HIDE DEF i
    <2>4. m = IF i = getFocused(desk) THEN desk ELSE focusApp(desk, desk.wins[i].app)
      OBVIOUS
    <2> HIDE DEF m
    <2>5. e = onTouch(m, getFocused(m), part)
      OBVIOUS
    <2> HIDE DEF e
    <2>7. /\ Steady(desk, e) /\ e.ub \in {desk.ub, "mutated while traversed"}
          /\ desk.wins[i].app \in Apps
      BY <1>1, <2>2, <2>4, <2>5, TouchWindowKeeps
    <2>6. where \in Lasts /\ e.ub \notin Dangling
      BY <2>2, <2>7 DEF Lasts, Dangling
    <2> HIDE DEF where
    <2> QED
      BY <2>3, <2>6, <2>7, TouchSteps
  <1>6. CASE TouchError
    <2>1. PICK error \in {desk.error, "pressed"} :
            Touched([desk EXCEPT !.error = error], At("popup"))
      BY <1>6 DEF TouchError
    <2> DEFINE d == [desk EXCEPT !.error = error]
    <2>2. d \in Desks /\ Aside(desk, d)
      BY <1>1, <2>1 DEF Sound, Desks, Aside
    <2>3. Touched(d, At("popup"))
      BY <2>1
    <2> HIDE DEF d
    <2> QED
      BY <2>2, <2>3, TouchesOver
  <1>7. CASE TouchBesideError
    <2>1. PICK zone \in {"popup", "keys", "taskbar", "window"} :
            Touched(hideError(desk), At(zone))
      BY <1>7 DEF TouchBesideError
    <2>2. Kept(desk, hideError(desk))
      BY <1>1, hideErrorKeeps
    <2> QED
      BY <1>2, <2>1, <2>2, Ats, TouchSteps DEF Kept
  <1>8. CASE TouchKeys
    <2>1. PICK hit \in BOOLEAN : Touched([desk EXCEPT !.pressedKey = hit], At("keys"))
      BY <1>8 DEF TouchKeys
    <2> DEFINE d == [desk EXCEPT !.pressedKey = hit]
    <2>2. d \in Desks /\ Aside(desk, d)
      BY <1>1 DEF Sound, Desks, Aside
    <2>3. Touched(d, At("keys"))
      BY <2>1
    <2> HIDE DEF d
    <2> QED
      BY <2>2, <2>3, TouchesOver
  <1> QED
    BY <1>3, <1>4, <1>5, <1>6, <1>7, <1>8
       DEF TouchPopup, TouchBesidePopups, TouchPanel, TouchDesktop

(* A lift queues one action at most, and what it has captured is there;     *)
(* then, at most, that of a button that fires for a lift somewhere else.    *)
OneMore(p, q) ==
  q = p \/ \E x \in Items : x.live /\ x.kind # "stray" /\ q = Append(p, x)

OneStray(p, q) == q = p \/ \E x \in Items : x.kind = "stray" /\ q = Append(p, x)

LEMMA OneMoreWaits ==
  ASSUME NEW p \in Seq(Items), Tags(p) \subseteq {<<"open", FALSE>>},
         NEW m, OneMore(p, m), NEW q, OneStray(m, q)
  PROVE  Waits(q)
  <1> DEFINE n == Len(p) + 1
  <1>1. \A k \in 1 .. Len(p) : p[k].kind = "open"
    <2> SUFFICES ASSUME NEW k \in 1 .. Len(p) PROVE p[k].kind = "open"
      OBVIOUS
    <2>1. p[k] \in ToSet(p)
      BY DEF ToSet
    <2>2. <<p[k].kind, p[k].tap>> \in Tags(p)
      BY <2>1 DEF Tags
    <2> QED
      BY <2>2
  <1>2. /\ m \in Seq(Items) /\ Len(m) \in {Len(p), n} /\ Len(p) \in Nat
        /\ \A k \in 1 .. Len(m) : m[k].kind # "stray"
        /\ \A k \in 1 .. Len(m) : m[k].kind # "open" => k = n /\ m[k].live
    <2>1. CASE m = p
      BY <1>1, <2>1
    <2>2. CASE \E x \in Items : x.live /\ x.kind # "stray" /\ m = Append(p, x)
      <3>1. PICK x \in Items : x.live /\ x.kind # "stray" /\ m = Append(p, x)
        BY <2>2
      <3>2. /\ m \in Seq(Items) /\ Len(m) = n /\ Len(p) \in Nat /\ m[n] = x
            /\ \A k \in 1 .. Len(p) : m[k] = p[k]
        BY <3>1
      <3>3. \A k \in 1 .. Len(m) : k \in 1 .. Len(p) \/ k = n
        BY <3>2
      <3> QED
        BY <1>1, <3>1, <3>2, <3>3
    <2> QED
      BY <2>1, <2>2 DEF OneMore
  <1> HIDE DEF n
  <1>3. CASE q = m
    <2>1. DOMAIN q = 1 .. Len(m)
      BY <1>2, <1>3
    <2>2. \A k \in DOMAIN q : Chosen(q[k]) => k = n /\ q[k].live
      BY <1>2, <1>3, <2>1 DEF Chosen
    <2>3. \A k \in DOMAIN q : q[k].kind # "stray"
      BY <1>2, <1>3, <2>1
    <2> QED
      BY <2>2, <2>3 DEF Waits
  <1>4. CASE \E x \in Items : x.kind = "stray" /\ q = Append(m, x)
    <2>1. PICK x \in Items : x.kind = "stray" /\ q = Append(m, x)
      BY <1>4
    <2>2. /\ DOMAIN q = 1 .. Len(m) + 1 /\ Len(q) = Len(m) + 1 /\ q[Len(m) + 1] = x
          /\ \A k \in 1 .. Len(m) : q[k] = m[k]
      BY <1>2, <2>1
    <2>3. \A k \in DOMAIN q : k \in 1 .. Len(m) \/ k = Len(q)
      BY <1>2, <2>2
    <2>4. \A k \in DOMAIN q : Chosen(q[k]) => k = n /\ q[k].live
      BY <1>2, <2>1, <2>2, <2>3 DEF Chosen
    <2>5. ASSUME NEW k \in DOMAIN q, q[k].kind = "stray"
          PROVE  k = Len(q)
      <3>1. k \in 1 .. Len(m) => q[k] = m[k] /\ m[k].kind # "stray"
        BY <1>2, <2>2
      <3> QED
        BY <2>3, <2>5, <3>1
    <2> QED
      BY <2>4, <2>5 DEF Waits
  <1> QED
    BY <1>3, <1>4 DEF OneStray

(* What a lift does, until the actions it has queued run                    *)
Lifts(d, e) ==
  /\ Sound(e)
  /\ Fits(d) => Fits(e)
  /\ Owned(d) => Owned(e)
  /\ e.toRun = d.toRun /\ e.ub = d.ub

(* Buttons of a window are no longer pressed.                               *)
Unpressed(d, i, S) == [d EXCEPT !.wins[i].pressed = @ \ S]

LEMMA Unpress ==
  ASSUME NEW d, Sound(d), NEW i \in DOMAIN d.wins, NEW S,
         NEW e, e = Unpressed(d, i, S)
  PROVE  /\ Lifts(d, e) /\ e.queue = d.queue
         /\ Shown(e) = Shown(d) /\ OnScreen(e) = OnScreen(d)
         /\ DOMAIN e.wins = DOMAIN d.wins /\ e.wins[i].app = d.wins[i].app
  <1> DEFINE w == [d.wins[i] EXCEPT !.pressed = @ \ S]
             wins == [d.wins EXCEPT ![i] = w]
  <1>0. d \in Desks /\ d.wins[i] \in Windows
    BY WinsDomain DEF Sound
  <1>1. Retouched(w, d.wins[i])
    <2>1. d.wins[i].pressed \ S \in SUBSET Pressable
      BY <1>0 DEF Windows
    <2> QED
      BY <1>0, <2>1 DEF Windows, Retouched
  <1>2. e = [d EXCEPT !.wins = wins]
    BY <1>0 DEF Desks, Unpressed
  <1> HIDE DEF w
  <1>3. /\ wins \in Seq(Windows) /\ DOMAIN wins = DOMAIN d.wins
        /\ \A k \in DOMAIN d.wins : wins[k] = IF k = i THEN w ELSE d.wins[k]
    BY <1>0, <1>1, RetouchedSeq
  <1>4. e \in Desks /\ Beside(d, e) /\ e.wins = wins
    <2> HIDE DEF wins
    <2> QED
      BY <1>0, <1>2, <1>3 DEF Desks, Beside, Rest
  <1>5. /\ e.wins = [d.wins EXCEPT ![i] = w] /\ e.queue = d.queue /\ e.toRun = d.toRun
        /\ e.consumer.live => e.consumer.app \in Opened(d)
        /\ e.resized = d.resized /\ e.rotation = d.rotation /\ e.keyboard = d.keyboard
        /\ e.ub = d.ub /\ e.panel = d.panel /\ e.popups = d.popups
    BY <1>4 DEF Beside, Rest, Sound, Keys
  <1> HIDE DEF wins
  <1>6. /\ Sound(e) /\ Opened(e) = Opened(d) /\ Shown(e) = Shown(d)
        /\ Bounded(d) => Bounded(e)
    BY <1>1, <1>4, <1>5, Retouch
  <1>7. \A k \in DOMAIN d.wins : e.wins[k].app = d.wins[k].app
    BY <1>1, <1>3, <1>4 DEF Retouched
  <1>8. OnScreen(e) = OnScreen(d)
    <2>1. Shown(d) \subseteq DOMAIN d.wins
      BY DEF Shown
    <2> QED
      BY <1>6, <1>7, <2>1 DEF OnScreen
  <1>9. Lifts(d, e)
    BY <1>5, <1>6 DEF Lifts, Fits, Owned
  <1> QED
    BY <1>3, <1>4, <1>5, <1>6, <1>7, <1>8, <1>9

(* The actions that a tap queues                                            *)
Tapped(kind, app) == Item(kind, app, TRUE)

LEMMA NewTapped ==
  ASSUME NEW kind \in WindowActions \union Clicks \union {"hide"},
         NEW app \in Apps \union {Panel, None}, NEW x, x = Tapped(kind, app)
  PROVE  x \in Items /\ x.kind = kind /\ x.app = app /\ x.live
  <1>1. "restored" \in States
    BY DEF States
  <1> QED
    BY <1>1 DEF Tapped, Item, Items

(* Nothing but an action of one kind is queued.                             *)
Queued(d, e, kind) ==
  /\ e.queue = d.queue
       \/ \E x \in Items : x.live /\ x.kind = kind /\ e.queue = Append(d.queue, x)
  /\ \A s \in Tags(e.queue) : s \in Tags(d.queue) \/ s[1] = kind

LEMMA SameQueued ==
  ASSUME NEW d, NEW e, e.queue = d.queue, NEW kind
  PROVE  Queued(d, e, kind)
  BY DEF Queued

LEMMA QueuedOne ==
  ASSUME NEW d, NEW e, NEW kind, Queued(d, e, kind)
  PROVE  /\ kind # "stray" => OneMore(d.queue, e.queue)
         /\ kind = "stray" => OneStray(d.queue, e.queue)
  BY DEF Queued, OneMore, OneStray

LEMMA TappedQueued ==
  ASSUME NEW d, Sound(d), NEW app \in Apps \union {Panel, None},
         NEW kind \in WindowActions \union Clicks \union {"hide"},
         kind \in WindowActions => app \in Apps, kind = "cycle" => app \in OnScreen(d),
         NEW x, x = Tapped(kind, app), NEW e, e = queueAction(d, x)
  PROVE  /\ Lifts(d, e) /\ e.wins = d.wins /\ OnScreen(e) = OnScreen(d)
         /\ Queued(d, e, kind)
  <1>1. x \in Items /\ x.kind = kind /\ x.app = app /\ x.live
    BY NewTapped
  <1>2. /\ x.kind \in WindowActions => x.app \in Apps
        /\ x.kind = "cycle" => x.app \in OnScreen(d)
    BY <1>1
  <1>3. /\ Sound(e)
        /\ Fits(d) => Fits(e)
        /\ Owned(d) => Owned(e)
        /\ e.wins = d.wins /\ e.queue = Append(d.queue, x) /\ e.toRun = d.toRun
        /\ Tags(e.queue) = Tags(d.queue) \union {<<x.kind, x.tap>>}
        /\ e.ub = d.ub
    BY <1>1, <1>2, QueueAction
  <1>4. OnScreen(e) = OnScreen(d)
    BY <1>3, SameWindows
  <1>5. Queued(d, e, kind)
    BY <1>1, <1>3 DEF Queued
  <1> QED
    BY <1>3, <1>4, <1>5 DEF Lifts

LEMMA LiftsTrans ==
  ASSUME NEW c, NEW d, NEW e, Lifts(c, d), Lifts(d, e)
  PROVE  Lifts(c, e)
  BY DEF Lifts

LEMMA TouchEndOnKeeps ==
  ASSUME NEW d, Sound(d), NEW w, w.app \in OnScreen(d), w.app \in Apps, NEW part, NEW at,
         NEW kind \in {"close", "cycle"}, NEW e, e = touchEndOn(d, w, part, at, kind)
  PROVE  /\ Lifts(d, e) /\ e.wins = d.wins /\ OnScreen(e) = OnScreen(d)
         /\ Queued(d, e, kind)
         /\ part # at => e = d
  <1> DEFINE x == Tapped(kind, w.app)
  <1>1. CASE e = d
    BY <1>1, SameQueued DEF Lifts
  <1>2. CASE e # d
    <2>1. e = queueAction(d, x) /\ part = at
      BY <1>2 DEF touchEndOn, Fires, Tapped
    <2>2. x = Tapped(kind, w.app) /\ kind \in WindowActions
      BY DEF WindowActions
    <2> HIDE DEF x
    <2> QED
      BY <2>1, <2>2, TappedQueued
  <1> QED
    BY <1>1, <1>2

LEMMA titleTouchEndKeeps ==
  ASSUME NEW d, Sound(d), NEW i \in Shown(d), NEW at, NEW e, e = titleTouchEnd(d, i, at)
  PROVE  /\ Lifts(d, e) /\ OnScreen(e) = OnScreen(d)
         /\ DOMAIN e.wins = DOMAIN d.wins /\ e.wins[i].app = d.wins[i].app
         /\ OneMore(d.queue, e.queue)
         /\ at \notin {"close", "max"} => e.queue = d.queue
         /\ \A s \in Tags(e.queue) : s \in Tags(d.queue) \/ s[1] \in {"close", "cycle"}
  <1> DEFINE w  == d.wins[i]
             d1 == Unpressed(d, i, TitleBar)
             d2 == touchEndOn(d1, w, "close", at, "close")
  <1>0. i \in DOMAIN d.wins /\ w.app \in OnScreen(d) /\ w.app \in Apps
    BY WinsDomain DEF Sound, Shown, OnScreen, Windows
  <1>1. e = touchEndOn(d2, w, "max", at, "cycle")
    BY DEF titleTouchEnd, Unpressed
  <1>2. d2 = touchEndOn(d1, w, "close", at, "close")
    OBVIOUS
  <1>3. /\ Lifts(d, d1) /\ d1.queue = d.queue
        /\ OnScreen(d1) = OnScreen(d)
        /\ DOMAIN d1.wins = DOMAIN d.wins /\ d1.wins[i].app = d.wins[i].app
    BY <1>0, Unpress
  <1> HIDE DEF w, d1, d2
  <1>4. /\ Lifts(d1, d2) /\ d2.wins = d1.wins /\ OnScreen(d2) = OnScreen(d1)
        /\ Queued(d1, d2, "close")
        /\ "close" # at => d2 = d1
    BY <1>0, <1>2, <1>3, TouchEndOnKeeps DEF Lifts
  <1>5. /\ Lifts(d2, e) /\ e.wins = d2.wins /\ OnScreen(e) = OnScreen(d2)
        /\ Queued(d2, e, "cycle")
        /\ "max" # at => e = d2
    BY <1>0, <1>1, <1>3, <1>4, TouchEndOnKeeps DEF Lifts
  <1>6. Lifts(d, e)
    BY <1>3, <1>4, <1>5, LiftsTrans
  <1>7. OneMore(d.queue, e.queue) /\ (at \notin {"close", "max"} => e.queue = d.queue)
    <2>1. CASE at = "max"
      <3>1. d2.queue = d.queue
        BY <1>3, <1>4, <2>1
      <3> QED
        BY <1>5, <2>1, <3>1, QueuedOne
    <2>2. CASE at # "max"
      <3>1. e = d2
        BY <1>5, <2>2
      <3> QED
        BY <1>3, <1>4, <2>2, <3>1, QueuedOne
    <2> QED
      BY <2>1, <2>2
  <1>8. \A s \in Tags(e.queue) : s \in Tags(d.queue) \/ s[1] \in {"close", "cycle"}
    BY <1>3, <1>4, <1>5 DEF Queued
  <1> QED
    BY <1>3, <1>4, <1>5, <1>6, <1>7, <1>8

LEMMA contentTouchEndKeeps ==
  ASSUME NEW d, Sound(d), NEW i \in DOMAIN d.wins, d.wins[i].app \in Apps,
         NEW kind \in {"click", "stray"}, NEW e, e = contentTouchEnd(d, i, kind)
  PROVE  Lifts(d, e) /\ Queued(d, e, kind)
  <1>1. CASE e = d
    BY <1>1, SameQueued DEF Lifts
  <1>2. CASE e # d
    <2> DEFINE S   == {"button"}
               m   == Unpressed(d, i, S)
               app == d.wins[i].app
               x   == Tapped(kind, app)
    <2>1. e = queueAction(m, x)
      BY <1>2 DEF contentTouchEnd, Unpressed, Click, Tapped
    <2>2. /\ x = Tapped(kind, app) /\ app \in Apps /\ app \in Apps \union {Panel, None}
          /\ kind \in Clicks /\ kind \notin WindowActions
      BY DEF Clicks, WindowActions
    <2> HIDE DEF S
    <2>3. Lifts(d, m) /\ m.queue = d.queue /\ Sound(m)
      BY Unpress DEF Lifts
    <2> HIDE DEF m, app, x
    <2>4. Lifts(m, e) /\ Queued(m, e, kind)
      BY <2>1, <2>2, <2>3, TappedQueued
    <2> QED
      BY <2>3, <2>4, LiftsTrans DEF Queued
  <1> QED
    BY <1>1, <1>2

LEMMA MinimizeLifts ==
  ASSUME NEW d, Sound(d), \A item \in Waiting(d) : item.kind # "cycle",
         NEW i \in DOMAIN d.wins, NEW e, e = setState(d, i, "minimized")
  PROVE  Lifts(d, e) /\ e.queue = d.queue
  <1>0. d \in Desks /\ "minimized" \in States
    BY DEF Sound, States
  <1>1. /\ e \in Desks /\ e = [d EXCEPT !.wins = e.wins]
        /\ Opened(e) = Opened(d) /\ Single(e)
        /\ Bounded(d) => Bounded(e)
    BY <1>0, SetState DEF Sound
  <1>2. Focus(e)
    BY <1>0, MinimizeKeepsFocus DEF Sound
  <1>3. Beside(d, e)
    BY <1>0, <1>1 DEF Desks, Beside, Rest
  <1>4. Sound(e)
    BY <1>1, <1>2, <1>3 DEF Sound, Keys, Actions, Waiting, Beside
  <1>5. (Fits(d) => Fits(e)) /\ (Owned(d) => Owned(e))
    BY <1>1, <1>3 DEF Fits, Owned, Beside, Rest
  <1> QED
    BY <1>3, <1>4, <1>5 DEF Lifts, Beside, Rest

LEMMA OpenTags ==
  ASSUME NEW p, Tags(p) \subseteq {<<"open", FALSE>>}
  PROVE  \A s \in Tags(p) : s[1] = "open"
  <1>1. <<"open", FALSE>>[1] = "open"
    OBVIOUS
  <1> QED
    BY <1>1

LEMMA onTouchEndKeeps ==
  ASSUME NEW d, Sound(d), Tags(d.queue) \subseteq {<<"open", FALSE>>}, d.toRun = <<>>,
         NEW i \in Shown(d), NEW at, NEW scrolled \in BOOLEAN,
         NEW e, e = onTouchEnd(d, i, at, scrolled)
  PROVE  /\ Lifts(d, e) /\ NoClash(e)
         /\ \E q : OneMore(d.queue, q) /\ OneStray(q, e.queue)
  <1> DEFINE w == d.wins[i]
             m == Unpressed(d, i, TitleBar)
             t == titleTouchEnd(d, i, at)
  <1>0. i \in DOMAIN d.wins /\ w.app \in OnScreen(d) /\ w.app \in Apps
    BY WinsDomain DEF Sound, Shown, OnScreen, Windows
  <1>a. \A s \in Tags(d.queue) : s[1] = "open"
    BY OpenTags
  <1>1. CASE Fires(w, "min", at)
    <2> DEFINE n   == setState(m, i, "minimized")
               app == w.app
               x   == Tapped("minimize", app)
    <2>1. e = queueAction(n, x)
      BY <1>1 DEF onTouchEnd, Unpressed, Tapped
    <2>2. /\ x = Tapped("minimize", app) /\ app \in Apps
          /\ app \in Apps \union {Panel, None} /\ "minimize" \in WindowActions
      BY <1>0 DEF WindowActions
    <2>3. n = setState(m, i, "minimized")
      OBVIOUS
    <2>4. /\ Lifts(d, m) /\ m.queue = d.queue
          /\ DOMAIN m.wins = DOMAIN d.wins
      BY <1>0, Unpress
    <2> HIDE DEF m, n, app, x
    <2>5. \A item \in Waiting(m) : item.kind # "cycle"
      <3>1. Waiting(m) = ToSet(d.queue) \union ToSet(<<>>)
        BY <2>4 DEF Lifts, Waiting
      <3>2. \A item \in ToSet(d.queue) : <<item.kind, item.tap>> \in {<<"open", FALSE>>}
        BY DEF Tags
      <3> QED
        BY <3>1, <3>2, EmptyTags
    <2>6. Lifts(m, n) /\ n.queue = m.queue
      BY <1>0, <2>3, <2>4, <2>5, MinimizeLifts DEF Lifts
    <2>7. Lifts(n, e) /\ Queued(n, e, "minimize")
      BY <2>1, <2>2, <2>6, TappedQueued DEF Lifts
    <2>8. Lifts(d, e)
      BY <2>4, <2>6, <2>7, LiftsTrans
    <2>9. NoClash(e)
      <3>1. \A s \in Tags(e.queue) : s[1] # "cycle"
        BY <1>a, <2>4, <2>6, <2>7 DEF Queued
      <3>2. Tags(e.toRun) = {}
        BY <2>8, EmptyTags DEF Lifts
      <3> QED
        BY <3>1, <3>2 DEF NoClash
    <2>10. OneMore(d.queue, e.queue) /\ OneStray(e.queue, e.queue)
      BY <2>4, <2>6, <2>7, QueuedOne DEF OneStray
    <2> QED
      BY <2>8, <2>9, <2>10
  <1>2. CASE ~Fires(w, "min", at)
    <2> DEFINE kind == IF at = "button" THEN "click" ELSE "stray"
    <2>1. /\ e = contentTouchEnd(t, i, kind) \/ (e = t /\ at # "button")
          /\ kind \in {"click", "stray"}
      BY <1>2 DEF onTouchEnd
    <2>2. t = titleTouchEnd(d, i, at)
      OBVIOUS
    <2> HIDE DEF t
    <2>3. /\ Lifts(d, t) /\ OnScreen(t) = OnScreen(d)
          /\ DOMAIN t.wins = DOMAIN d.wins /\ t.wins[i].app = d.wins[i].app
          /\ OneMore(d.queue, t.queue)
          /\ at \notin {"close", "max"} => t.queue = d.queue
          /\ \A s \in Tags(t.queue) : s \in Tags(d.queue) \/ s[1] \in {"close", "cycle"}
      BY <2>2, titleTouchEndKeeps
    <2>4. Lifts(t, e) /\ Queued(t, e, kind)
      <3> HIDE DEF kind
      <3>1. CASE e = t
        BY <2>3, <3>1, SameQueued DEF Lifts
      <3>2. CASE e # t
        BY <1>0, <2>1, <2>3, <3>2, contentTouchEndKeeps DEF Lifts
      <3> QED
        BY <3>1, <3>2
    <2>5. Lifts(d, e)
      BY <2>3, <2>4, LiftsTrans
    <2>6. NoClash(e)
      <3>1. \A s \in Tags(e.queue) : s[1] # "minimize"
        BY <1>a, <2>1, <2>3, <2>4 DEF Queued
      <3>2. Tags(e.toRun) = {}
        BY <2>5, EmptyTags DEF Lifts
      <3> QED
        BY <3>1, <3>2 DEF NoClash
    <2>7. \E q : OneMore(d.queue, q) /\ OneStray(q, e.queue)
      <3>1. CASE at = "button"
        <4>1. OneMore(d.queue, e.queue) /\ OneStray(e.queue, e.queue)
          BY <2>3, <2>4, <3>1, QueuedOne DEF OneStray
        <4> QED
          BY <4>1
      <3>2. CASE at # "button"
        BY <2>3, <2>4, <3>2, QueuedOne
      <3> QED
        BY <3>1, <3>2
    <2> QED
      BY <2>5, <2>6, <2>7
  <1> QED
    BY <1>1, <1>2

(* A lift is handled.                                                       *)
LEMMA ReleaseSteps ==
  ASSUME IInv, NEW d, Sound(d), Fits(d), d.toRun = <<>>, NoClash(d), d.ub \notin Dangling,
         Released(d), Stales
  PROVE  /\ IInv' /\ (Owned(d) => Owned(desk)') /\ NoDanglingAction'
         /\ Waits(d.queue) => LiftInv'
  <1>1. phase = "touch" /\ desk' = d /\ last' = NoTouch /\ phase' = "lifted"
    BY DEF Released
  <1>2. TypeOK'
    BY <1>1, StaleType, Ats DEF TypeOK, Sound, Lasts, Phases
  <1>3. QueueInv'
    BY <1>1 DEF QueueInv, NoClash
  <1> QED
    BY <1>1, <1>2, <1>3 DEF IInv, DirtyInv, LiftInv, NoDanglingAction, Dangling

(* What is to be shown of a lift                                            *)
LiftDone == IInv' /\ (Owned(desk) => Owned(desk)') /\ NoDanglingAction' /\ LiftInv'

LEMMA LiftSteps ==
  ASSUME IInv, desk.ub = "none", phase = "touch", NEW d, Lifts(desk, d), NoClash(d),
         Released(d), Stales, \E q : OneMore(desk.queue, q) /\ OneStray(q, d.queue)
  PROVE  LiftDone
  <1>1. /\ Sound(desk) /\ Fits(desk) /\ desk.toRun = <<>>
        /\ Tags(desk.queue) \subseteq {<<"open", FALSE>>}
    BY DEF IInv, QueueInv
  <1>2. desk.queue \in Seq(Items)
    BY <1>1 DEF Sound, Desks
  <1>3. Waits(d.queue)
    BY <1>1, <1>2, OneMoreWaits
  <1>4. d.ub \notin Dangling
    BY DEF Lifts, Dangling
  <1>5. Sound(d) /\ Fits(d) /\ d.toRun = <<>> /\ (Owned(desk) => Owned(d))
    BY <1>1 DEF Lifts
  <1> QED
    BY <1>3, <1>4, <1>5, ReleaseSteps DEF LiftDone

(* and one that queues no action                                            *)
LEMMA QuietLift ==
  ASSUME IInv, phase = "touch", NEW d, Steady(desk, d), d.ub \notin Dangling,
         Released(d), Stales
  PROVE  LiftDone
  <1>1. /\ Sound(desk) /\ Fits(desk) /\ desk.toRun = <<>>
        /\ Tags(desk.queue) \subseteq {<<"open", FALSE>>}
    BY DEF IInv, QueueInv
  <1>2. /\ Sound(d) /\ Fits(d) /\ (Owned(desk) => Owned(d))
        /\ Tags(d.queue) = Tags(desk.queue) /\ d.toRun = <<>>
    BY <1>1, DulledTags DEF Steady, Sound, Desks
  <1>3. d.queue \in Seq(Items)
    BY <1>2 DEF Sound, Desks
  <1>4. Waits(d.queue)
    <2>1. OneMore(d.queue, d.queue) /\ OneStray(d.queue, d.queue)
      BY DEF OneMore, OneStray
    <2> QED
      BY <1>1, <1>2, <1>3, <2>1, OneMoreWaits
  <1>5. NoClash(d)
    <2>1. \A s \in Tags(d.queue) : s[1] = "open"
      BY <1>1, <1>2, OpenTags
    <2> QED
      BY <1>2, <2>1, EmptyTags DEF NoClash
  <1> QED
    BY <1>2, <1>4, <1>5, ReleaseSteps DEF LiftDone

(* A tap on a popup, the panel or the error popup                           *)
LEMMA ClickSteps ==
  ASSUME IInv, NEW c, Steady(desk, c), c.ub = "none", phase = "touch",
         NEW kind \in Clicks \union {"hide"}, kind # "stray",
         NEW app \in Apps \union {Panel, None},
         NEW d, d = Click(c, kind, app), Released(d), Stales
  PROVE  LiftDone
  <1> DEFINE x == Tapped(kind, app)
  <1>1. /\ Sound(desk) /\ Fits(desk) /\ desk.toRun = <<>>
        /\ Tags(desk.queue) \subseteq {<<"open", FALSE>>}
    BY DEF IInv, QueueInv
  <1>2. /\ Sound(c) /\ Fits(c) /\ (Owned(desk) => Owned(c)) /\ c.queue \in Seq(Items)
        /\ Tags(c.queue) \subseteq {<<"open", FALSE>>} /\ c.toRun = <<>>
    BY <1>1, DulledTags DEF Steady, Sound, Desks
  <1>3. x = Tapped(kind, app) /\ d = queueAction(c, x)
    BY DEF Click, Tapped
  <1>4. kind \in WindowActions \union Clicks \union {"hide"} /\ kind \notin WindowActions
        /\ kind # "minimize" /\ kind # "cycle"
    BY DEF Clicks, WindowActions
  <1> HIDE DEF x
  <1>5. Lifts(c, d) /\ Queued(c, d, kind)
    BY <1>2, <1>3, <1>4, TappedQueued
  <1>6. NoClash(d)
    <2>1. \A s \in Tags(d.queue) : s[1] # "minimize"
      <3>1. \A s \in Tags(c.queue) : s[1] = "open"
        BY <1>2, OpenTags
      <3> QED
        BY <1>4, <1>5, <3>1 DEF Queued
    <2>2. Tags(d.toRun) = {}
      BY <1>2, <1>5, EmptyTags DEF Lifts
    <2> QED
      BY <2>1, <2>2 DEF NoClash
  <1>7. Waits(d.queue)
    <2>1. OneMore(c.queue, d.queue) /\ OneStray(d.queue, d.queue)
      BY <1>5, QueuedOne DEF OneStray
    <2> QED
      BY <1>2, <2>1, OneMoreWaits
  <1>8. /\ d.ub \notin Dangling
        /\ Sound(d) /\ Fits(d) /\ d.toRun = <<>> /\ (Owned(desk) => Owned(d))
    BY <1>2, <1>5 DEF Lifts, Dangling
  <1> QED
    BY <1>6, <1>7, <1>8, ReleaseSteps DEF LiftDone

LEMMA ReleasesPopup ==
  ASSUME IInv, desk.ub = "none", Stales, ReleasePopup
  PROVE  LiftDone
  <1> DEFINE Kind(k) == IF desk.popups[k].live THEN "click" ELSE "orphan"
  <1>1. PICK k \in VisiblePopups(desk) :
          Released(desk) \/ Released(Click(desk, Kind(k), desk.popups[k].owner))
    BY DEF ReleasePopup
  <1>2. Sound(desk) /\ phase = "touch" /\ Steady(desk, desk)
    BY <1>1, Unchanged DEF IInv, Released, Kept
  <1>3. CASE Released(desk)
    <2>1. desk.ub \notin Dangling
      BY DEF Dangling
    <2> QED
      BY <1>2, <1>3, <2>1, QuietLift
  <1>4. CASE ~Released(desk)
    <2> DEFINE kind == Kind(k)
               app  == desk.popups[k].owner
               d    == Click(desk, kind, app)
    <2>1. app \in Apps \union {Panel, None}
      <3>1. desk.popups \in Seq(Popups) /\ k \in DOMAIN desk.popups
        BY <1>2 DEF Sound, Desks, VisiblePopups
      <3>2. desk.popups[k] \in Popups
        BY <3>1, ElementOfSeq
      <3> QED
        BY <3>2, WindowManagerAssumption DEF Popups
    <2>2. kind \in Clicks \union {"hide"} /\ kind # "stray"
      BY DEF Clicks
    <2>3. d = Click(desk, kind, app) /\ Released(d)
      BY <1>1, <1>4
    <2> HIDE DEF kind, app, d
    <2> QED
      BY <1>2, <2>1, <2>2, <2>3, ClickSteps
  <1> QED
    BY <1>3, <1>4

LEMMA ReleasesPanel ==
  ASSUME IInv, desk.ub = "none", Stales, ReleasePanel
  PROVE  LiftDone
  <1>1. Sound(desk) /\ phase = "touch" /\ Steady(desk, desk)
        /\ (Released(desk) \/ Released(Click(desk, "click", Panel)))
    BY Unchanged DEF IInv, ReleasePanel, Released, Kept
  <1>2. CASE Released(desk)
    <2>1. desk.ub \notin Dangling
      BY DEF Dangling
    <2> QED
      BY <1>1, <1>2, <2>1, QuietLift
  <1>3. CASE Released(Click(desk, "click", Panel))
    <2>1. "click" \in Clicks \union {"hide"} /\ "click" # "stray"
      BY DEF Clicks
    <2> QED
      BY <1>1, <1>3, <2>1, ClickSteps
  <1> QED
    BY <1>1, <1>2, <1>3

LEMMA ReleasesError ==
  ASSUME IInv, desk.ub = "none", Stales, ReleaseError
  PROVE  LiftDone
  <1> DEFINE c == [desk EXCEPT !.error = "shown"]
  <1>1. phase = "touch" /\ (Released(c) \/ Released(Click(c, "hide", None)))
    BY DEF ReleaseError, Released
  <1>2. Sound(desk) /\ c \in Desks /\ Aside(desk, c)
    BY DEF IInv, Sound, Desks, Aside
  <1> HIDE DEF c
  <1>3. Steady(desk, c) /\ c.ub = "none"
    BY <1>2, AsideSteady DEF Aside
  <1>4. CASE Released(c)
    <2>1. c.ub \notin Dangling
      BY <1>3 DEF Dangling
    <2> QED
      BY <1>1, <1>3, <1>4, <2>1, QuietLift
  <1>5. CASE Released(Click(c, "hide", None))
    <2>1. "hide" \in Clicks \union {"hide"} /\ "hide" # "stray"
      OBVIOUS
    <2> QED
      BY <1>1, <1>3, <1>5, <2>1, ClickSteps
  <1> QED
    BY <1>1, <1>4, <1>5

LEMMA ReleasesWindow ==
  ASSUME IInv, desk.ub = "none", Stales, ReleaseWindow
  PROVE  LiftDone
  <1>1. PICK at \in TouchedParts, scrolled \in BOOLEAN :
          Released(onTouchEnd(desk, getFocused(desk), at, scrolled))
    BY DEF ReleaseWindow
  <1> DEFINE i == getFocused(desk)
             d == onTouchEnd(desk, i, at, scrolled)
  <1>2. /\ Sound(desk) /\ phase = "touch" /\ desk.toRun = <<>>
        /\ Tags(desk.queue) \subseteq {<<"open", FALSE>>}
    BY <1>1 DEF IInv, Released, QueueInv
  <1>3. i \in Shown(desk)
    <2>1. i # 0
      BY DEF ReleaseWindow
    <2> QED
      BY <1>2, <2>1, FocusedIsTop DEF Sound
  <1>4. d = onTouchEnd(desk, i, at, scrolled) /\ Released(d)
    BY <1>1
  <1> HIDE DEF i, d
  <1>5. /\ Lifts(desk, d) /\ NoClash(d)
        /\ \E q : OneMore(desk.queue, q) /\ OneStray(q, d.queue)
    BY <1>2, <1>3, <1>4, onTouchEndKeeps
  <1> QED
    BY <1>2, <1>4, <1>5, LiftSteps

LEMMA ReleasesKey ==
  ASSUME IInv, desk.ub = "none", Stales, ReleaseKey
  PROVE  LiftDone
  <1>1. PICK c : /\ c = desk \/ \E key \in {"enter", "letter"} : c = pressKey(desk, key)
                 /\ Released(letGo(c))
    BY DEF ReleaseKey
  <1>2. Sound(desk) /\ phase = "touch"
    BY <1>1 DEF IInv, Released
  <1>3. Steady(desk, c) /\ c.ub \in {"none", "key to a deleted field"}
    BY <1>1, <1>2, pressKeyKeeps, Unchanged DEF Kept
  <1> DEFINE d == letGo(c)
  <1>4. d = letGo(c) /\ Released(d)
    BY <1>1
  <1> HIDE DEF d
  <1>5. Steady(c, d) /\ d.ub = c.ub
    BY <1>3, <1>4, letGoKeeps DEF Steady
  <1>6. Steady(desk, d) /\ d.ub \notin Dangling
    BY <1>2, <1>3, <1>5, SteadyTrans DEF Dangling
  <1> QED
    BY <1>2, <1>4, <1>6, QuietLift

LEMMA Releases ==
  ASSUME IInv, desk.ub = "none", Stales,
         \/ ReleaseError \/ ReleaseBesideError
         \/ ReleasePopup \/ ReleaseBesidePopups \/ ReleaseKey \/ ReleasePanel
         \/ ReleaseWindow \/ ReleaseNothing
  PROVE  LiftDone
  <1>1. Sound(desk)
    BY DEF IInv
  <1>2. ASSUME NEW d, Kept(desk, d), Released(d)
        PROVE  LiftDone
    <2>1. phase = "touch" /\ Steady(desk, d) /\ d.ub \notin Dangling
      BY <1>2 DEF Released, Kept, Dangling
    <2> QED
      BY <1>2, <2>1, QuietLift
  <1>3. CASE ReleaseBesidePopups \/ ReleaseBesideError \/ ReleaseNothing
    <2>1. \E d \in {hideAllPopups(desk), hideError(desk), desk} : Released(d)
      BY <1>3 DEF ReleaseBesidePopups, ReleaseBesideError, ReleaseNothing
    <2>2. /\ Kept(desk, hideAllPopups(desk)) /\ Kept(desk, hideError(desk))
          /\ Kept(desk, desk)
      BY <1>1, hideAllPopupsKeeps, hideErrorKeeps, Unchanged
    <2> QED
      BY <1>2, <2>1, <2>2
  <1> QED
    BY <1>3, ReleasesError, ReleasesPopup, ReleasesKey, ReleasesPanel, ReleasesWindow

-----------------------------------------------------------------------------
(* No popup outlives its script: either the taskbar shows none, or it is    *)
(* never opened twice.                                                      *)
PanelOnce == MaxPopups = 0 \/ Panel \notin PopupOwners

LEMMA AllowedPanels ==
  ASSUME PanelOnce, Sound(desk), NEW c \in Commands, Allowed(c), c.op = "panel"
  PROVE  Replaceable(desk)
  <1>1. Len(desk.popups) \in Nat
    BY DEF Sound, Desks
  <1> QED
    BY <1>1 DEF PanelOnce, Allowed, Replaceable

(* What is to be shown of every step                                        *)
StepDone ==
  /\ IInv'
  /\ PanelOnce /\ Owned(desk) => Owned(desk)'
  /\ LiftInv => LiftInv' /\ NoDanglingAction'

LEMMA CommandStep ==
  ASSUME IInv, desk.ub = "none", Stales, Command
  PROVE  StepDone
  <1>1. PICK c \in Commands : Allowed(c) /\ desk' = Execute(desk, c, FALSE)
    BY DEF Command
  <1>2. /\ phase = "commands" /\ phase' = "commands" /\ last' = last
        /\ Sound(desk) /\ Fits(desk) /\ desk.toRun = <<>>
        /\ Tags(desk.queue) \subseteq {<<"open", FALSE>>} /\ (stale => desk.dirty)
    BY DEF Command, IInv, QueueInv, DirtyInv
  <1>3. PICK tap \in BOOLEAN : tap = FALSE
    OBVIOUS
  <1>4. desk' = Execute(desk, c, tap)
    BY <1>1, <1>3
  <1>5. /\ Handled(desk, desk', {<<"open", tap>>}) /\ desk'.ub = desk.ub
        /\ (c.op = "panel" => Replaceable(desk)) /\ Owned(desk) => Owned(desk')
    BY <1>2, <1>4, ExecuteKeeps
  <1>6. /\ Sound(desk') /\ Fits(desk')
        /\ Tags(desk'.queue) \subseteq {<<"open", FALSE>>}
        /\ stale' => desk'.dirty
    BY <1>2, <1>3, <1>5 DEF Handled, Stales
  <1>7. desk'.toRun = <<>>
    BY <1>2, <1>5, DulledTags DEF Handled, Sound, Desks
  <1>8. QueueInv'
    <2>1. NoClash(desk')
      <3>1. \A s \in Tags(desk'.queue) : s[1] = "open"
        BY <1>6, OpenTags
      <3> QED
        BY <1>7, <3>1, EmptyTags DEF NoClash
    <2> QED
      BY <1>2, <1>6, <1>7, <2>1 DEF QueueInv
  <1>9. TypeOK'
    BY <1>2, <1>6, StaleType DEF TypeOK, IInv, Sound
  <1>10. PanelOnce /\ Owned(desk) => Owned(desk')
    BY <1>1, <1>2, <1>5, AllowedPanels
  <1> QED
    BY <1>2, <1>5, <1>6, <1>8, <1>9, <1>10
       DEF StepDone, IInv, DirtyInv, LiftInv, NoDanglingAction, Dangling

LEMMA LiftedStep ==
  ASSUME IInv, desk.ub = "none", Stales, Lifted
  PROVE  StepDone
  <1>1. /\ phase = "lifted" /\ phase' = "touchEnd" /\ last' = last
        /\ desk' = TakeQueue(desk) /\ Sound(desk) /\ desk.toRun = <<>> /\ NoClash(desk)
    BY DEF Lifted, IInv, QueueInv
  <1>2. /\ Sound(desk') /\ (Fits(desk) => Fits(desk')) /\ (Owned(desk) => Owned(desk'))
        /\ desk'.queue = <<>> /\ desk'.toRun = desk.queue /\ desk'.ub = desk.ub
    BY <1>1, TakeAll
  <1>3. QueueInv'
    <2>1. NoClash(desk')
      BY <1>1, <1>2, EmptyTags DEF NoClash
    <2> QED
      BY <1>1, <1>2, <2>1, EmptyTags DEF QueueInv
  <1>4. TypeOK'
    BY <1>1, <1>2, StaleType DEF TypeOK, IInv, Sound, Phases
  <1> QED
    BY <1>1, <1>2, <1>3, <1>4 DEF StepDone, IInv, DirtyInv, LiftInv, NoDanglingAction

LEMMA TouchEndDoneStep ==
  ASSUME IInv, desk.ub = "none", Stales, TouchEndDone
  PROVE  StepDone
  <1>1. /\ phase = "touchEnd" /\ phase' = "timers" /\ last' = last
        /\ desk' = markDirty(desk) /\ desk.toRun = <<>> /\ Sound(desk)
        /\ Tags(desk.queue) \subseteq Later /\ NoClash(desk)
    BY DEF TouchEndDone, IInv, QueueInv
  <1>2. /\ Sound(desk') /\ Beside(desk, desk') /\ desk'.dirty /\ Opened(desk') = Opened(desk)
        /\ Bounded(desk) => Bounded(desk')
    BY <1>1, Marked DEF Sound
  <1>3. (Fits(desk) => Fits(desk')) /\ (Owned(desk) => Owned(desk'))
    BY <1>2 DEF Fits, Owned, Beside, Rest
  <1>4. QueueInv'
    BY <1>1, <1>2 DEF QueueInv, NoClash, Beside
  <1>5. TypeOK'
    BY <1>1, <1>2, StaleType DEF TypeOK, IInv, Sound, Phases
  <1> QED
    BY <1>1, <1>2, <1>3, <1>4, <1>5
       DEF StepDone, IInv, DirtyInv, LiftInv, NoDanglingAction, Beside, Rest

LEMMA TimersStep ==
  ASSUME IInv, desk.ub = "none", Stales, Timers
  PROVE  StepDone
  <1>1. /\ phase = "timers" /\ phase' = "queue" /\ last' = last
        /\ desk.toRun = <<>> /\ Sound(desk) /\ Fits(desk)
        /\ Tags(desk.queue) \subseteq Later /\ NoClash(desk) /\ (stale => desk.dirty)
    BY DEF Timers, IInv, QueueInv, DirtyInv
  <1>2. PICK d \in {desk, markDirty(desk)} : desk' = TakeQueue(d)
    BY DEF Timers
  <1>3. /\ Sound(d) /\ Fits(d) /\ (Owned(desk) => Owned(d))
        /\ d.queue = desk.queue /\ d.toRun = desk.toRun /\ d.ub = desk.ub
        /\ d.dirty \/ d = desk
    <2>1. CASE d = desk
      BY <1>1, <2>1
    <2>2. CASE d = markDirty(desk)
      <3>1. /\ Sound(d) /\ Beside(desk, d) /\ d.dirty /\ Opened(d) = Opened(desk)
            /\ Bounded(desk) => Bounded(d)
        BY <1>1, <2>2, Marked DEF Sound
      <3> QED
        BY <1>1, <3>1 DEF Fits, Owned, Beside, Rest
    <2> QED
      BY <2>1, <2>2
  <1>4. /\ Sound(desk') /\ View(desk') = View(d)
        /\ Fits(desk') /\ (Owned(d) => Owned(desk'))
        /\ desk'.queue = <<>> /\ desk'.toRun = desk.queue
        /\ desk'.dirty = d.dirty /\ desk'.ub = desk.ub
    BY <1>1, <1>2, <1>3, TakeAll
  <1>5. QueueInv'
    <2>1. NoClash(desk')
      BY <1>1, <1>4, EmptyTags DEF NoClash
    <2> QED
      BY <1>1, <1>4, <2>1, EmptyTags DEF QueueInv
  <1>6. stale' => desk'.dirty
    BY <1>1, <1>3, <1>4 DEF Stales
  <1>7. TypeOK'
    BY <1>1, <1>4, StaleType DEF TypeOK, IInv, Sound, Phases
  <1> QED
    BY <1>1, <1>3, <1>4, <1>5, <1>6, <1>7
       DEF StepDone, IInv, DirtyInv, LiftInv, NoDanglingAction

LEMMA FrameFields ==
  ASSUME NEW d \in Desks, NEW e,
         \/ e = [d EXCEPT !.frameReady = FALSE, !.dirty = FALSE]
         \/ e = [d EXCEPT !.frameReady = TRUE]
  PROVE  /\ e \in Desks /\ e.wins = d.wins /\ e.popups = d.popups /\ Beside(d, e)
  <1>1. CASE e = [d EXCEPT !.frameReady = FALSE, !.dirty = FALSE]
    BY <1>1 DEF Desks, Beside, Rest
  <1>2. CASE e = [d EXCEPT !.frameReady = TRUE]
    BY <1>2 DEF Desks, Beside, Rest
  <1> QED
    BY <1>1, <1>2

(* CommandsDone, Untouched, QueueDone, Draw and FrameTimer change no window *)
(* and no action.                                                           *)
LEMMA PlainSteps ==
  ASSUME IInv, desk.ub = "none", Stales,
         CommandsDone \/ Untouched \/ QueueDone \/ Draw \/ FrameTimer
  PROVE  StepDone
  <1>1. Sound(desk) /\ desk \in Desks /\ last' = last
    BY DEF IInv, Sound, CommandsDone, Untouched, QueueDone, Draw, FrameTimer
  <1>2. \/ desk' = desk
        \/ phase = "draw" /\ desk.dirty /\ desk' = [desk EXCEPT !.frameReady = FALSE, !.dirty = FALSE]
        \/ phase' = phase /\ desk' = [desk EXCEPT !.frameReady = TRUE]
    BY DEF CommandsDone, Untouched, QueueDone, Draw, FrameTimer
  <1>3. /\ desk' \in Desks /\ desk'.wins = desk.wins /\ desk'.popups = desk.popups
        /\ Beside(desk, desk')
        /\ desk'.dirty = desk.dirty \/ (phase = "draw" /\ desk.dirty /\ ~desk'.dirty)
    <2>1. CASE desk' = desk
      BY <1>1, <2>1 DEF Beside, Rest
    <2>2. CASE phase = "draw" /\ desk.dirty
                 /\ desk' = [desk EXCEPT !.frameReady = FALSE, !.dirty = FALSE]
      <3>1. ~desk'.dirty
        BY <1>1, <2>2 DEF Desks
      <3> QED
        BY <1>1, <2>2, <3>1, FrameFields
    <2>3. CASE desk' = [desk EXCEPT !.frameReady = TRUE]
      <3>1. desk'.dirty = desk.dirty
        BY <1>1, <2>3 DEF Desks
      <3> QED
        BY <1>1, <2>3, <3>1, FrameFields
    <2> QED
      BY <1>2, <2>1, <2>2, <2>3
  <1>4. Sound(desk') /\ Opened(desk') = Opened(desk)
    BY <1>1, <1>3, SoundCopy DEF Beside
  <1>5. (Fits(desk) => Fits(desk')) /\ (Owned(desk) => Owned(desk'))
    BY <1>3, <1>4, SameWindows DEF Fits, Owned, Beside, Rest
  <1>6. View(desk') = View(desk)
    BY <1>3, SameView DEF Beside, Rest
  <1>7. /\ <<phase, phase'>> \in {<<"commands", "touch">>, <<"touch", "timers">>,
                                  <<"queue", "draw">>, <<"draw", "commands">>}
             \/ phase' = phase
        /\ phase = "queue" => desk.toRun = <<>> \/ phase' = phase
        /\ phase' \in Phases
    BY DEF IInv, TypeOK, CommandsDone, Untouched, QueueDone, Draw, FrameTimer, Phases
  <1>8. /\ desk'.queue = desk.queue /\ desk'.toRun = desk.toRun
        /\ NoClash(desk) => NoClash(desk')
    BY <1>3 DEF Beside, NoClash
  <1>9. QueueInv'
    <2>1. <<"open", FALSE>> \in Later
      BY DEF Later
    <2> QED
      BY <1>7, <1>8, <2>1, EmptyTags DEF QueueInv, IInv
  <1>10. DirtyInv'
    <2>1. (phase = "draw" => phase' \in {"draw", "commands"}) /\ (stale' => stale)
      BY <1>6, <1>7 DEF Stales
    <2> QED
      BY <1>3, <1>7, <2>1 DEF DirtyInv, IInv, Stales
  <1>11. TypeOK'
    BY <1>1, <1>3, <1>7, StaleType DEF TypeOK, IInv
  <1>12. LiftInv => LiftInv'
    BY <1>7, <1>8 DEF LiftInv
  <1>13. NoDanglingAction'
    BY <1>3 DEF NoDanglingAction, Beside, Rest
  <1> QED
    BY <1>4, <1>5, <1>9, <1>10, <1>11, <1>12, <1>13 DEF StepDone, IInv

LEMMA WaitsTail ==
  ASSUME NEW p \in Seq(Items), p # <<>>, Waits(p), NEW q, q = Tail(p)
  PROVE  /\ Waits(q)
         /\ Chosen(Head(p)) => Head(p).live /\ \A k \in 1 .. Len(q) : ~Chosen(q[k])
         /\ Head(p).kind = "stray" => q = <<>>
  <1>1. /\ Len(p) \in Nat /\ Len(p) > 0 /\ DOMAIN p = 1 .. Len(p) /\ Head(p) = p[1]
        /\ Len(q) = Len(p) - 1 /\ DOMAIN q = 1 .. Len(q) /\ 1 \in DOMAIN p
        /\ \A k \in 1 .. Len(q) : q[k] = p[k + 1] /\ k + 1 \in DOMAIN p /\ k + 1 # 1
    OBVIOUS
  <1>2. Waits(q)
    <2>1. ASSUME NEW i \in 1 .. Len(q), NEW j \in 1 .. Len(q), Chosen(q[i]), Chosen(q[j])
          PROVE  i = j /\ q[i].live
      <3>1. i + 1 = j + 1 /\ p[i + 1].live
        BY <1>1, <2>1 DEF Waits
      <3> QED
        BY <1>1, <3>1
    <2>2. ASSUME NEW i \in 1 .. Len(q), q[i].kind = "stray"
          PROVE  i = Len(q)
      <3>1. i + 1 = Len(p)
        BY <1>1, <2>2 DEF Waits
      <3>2. Len(p) \in Nat /\ Len(q) = Len(p) - 1 /\ i \in Int
        BY <1>1
      <3> QED
        BY <3>1, <3>2
    <2> QED
      BY <1>1, <2>1, <2>2 DEF Waits
  <1>3. ASSUME Chosen(Head(p))
        PROVE  Head(p).live /\ \A k \in 1 .. Len(q) : ~Chosen(q[k])
    BY <1>1, <1>3 DEF Waits
  <1>4. ASSUME Head(p).kind = "stray"
        PROVE  q = <<>>
    <2>1. Len(p) = 1
      BY <1>1, <1>4 DEF Waits
    <2> QED
      BY <1>1, <2>1
  <1> QED
    BY <1>2, <1>3, <1>4

(* Actions whose windows are destroyed wait as before.                      *)
LEMMA DulledWaits ==
  ASSUME NEW p \in Seq(Items), NEW q \in Seq(Items), Dulled(p, q), Waits(p),
         \A k \in 1 .. Len(p) : ~Chosen(p[k])
  PROVE  Waits(q)
  <1>1. /\ Len(q) = Len(p) /\ DOMAIN q = 1 .. Len(p) /\ DOMAIN p = 1 .. Len(p)
        /\ \A k \in 1 .. Len(p) : q[k].kind = p[k].kind
    BY DEF Dulled
  <1> QED
    BY <1>1 DEF Waits, Chosen

LEMMA RunActionStep ==
  ASSUME IInv, desk.ub = "none", Stales, RunAction
  PROVE  StepDone
  <1> DEFINE d    == Taken(desk)
             item == Head(desk.toRun)
  <1>1. /\ phase \in {"touchEnd", "queue"} /\ phase' = phase /\ last' = last
        /\ desk.toRun # <<>> /\ desk' \in Outcomes(d, item)
    BY DEF RunAction, Taken
  <1>2. /\ Sound(desk) /\ Fits(desk) /\ desk \in Desks /\ desk.toRun \in Seq(Items)
        /\ NoClash(desk)
        /\ phase = "touchEnd" => Tags(desk.queue) \subseteq Later
        /\ phase = "queue" => /\ Tags(desk.toRun) \subseteq Later /\ desk.queue = <<>>
                              /\ stale => desk.dirty
    BY DEF IInv, QueueInv, DirtyInv, Sound, Desks
  <1>3. d = Taken(desk) /\ item = Head(desk.toRun)
    OBVIOUS
  <1> HIDE DEF d, item
  <1>4. /\ Sound(d) /\ View(d) = View(desk)
        /\ Fits(desk) => Fits(d)
        /\ Owned(desk) => Owned(d)
        /\ item \in Items /\ item \in Waiting(desk) /\ Waiting(d) \subseteq Waiting(desk)
        /\ <<item.kind, item.tap>> \in Tags(desk.toRun) /\ Tags(d.toRun) \subseteq Tags(desk.toRun)
        /\ d.queue = desk.queue /\ d.toRun = Tail(desk.toRun)
        /\ d.dirty = desk.dirty /\ d.ub = desk.ub /\ d.panel = desk.panel
        /\ OnScreen(d) = OnScreen(desk)
    <2>1. Sound(desk) /\ desk.toRun # <<>>
      BY <1>1, <1>2
    <2> QED
      BY <1>3, <2>1, TakeHead
  <1>5. /\ item.kind \in WindowActions => item.app \in Apps
        /\ item.kind = "cycle" /\ item.live => item.app \in OnScreen(d)
    BY <1>2, <1>4 DEF Sound, Actions
  <1>6. item.kind = "minimize" => \A x \in Waiting(d) : x.kind # "cycle"
    <2> SUFFICES ASSUME item.kind = "minimize", NEW x \in Waiting(desk) PROVE x.kind # "cycle"
      BY <1>4
    <2>1. <<x.kind, x.tap>> \in Tags(desk.queue) \union Tags(desk.toRun)
      BY DEF Waiting, Tags
    <2>2. /\ <<x.kind, x.tap>>[1] = x.kind
          /\ <<item.kind, item.tap>>[1] = item.kind
      OBVIOUS
    <2> QED
      BY <1>2, <1>4, <2>1, <2>2 DEF NoClash
  <1>7. /\ Sound(desk') /\ (Fits(d) => Fits(desk')) /\ Dulled(d.toRun, desk'.toRun)
        /\ Tags(desk'.queue) \subseteq
             Tags(d.queue) \union {<<"open", item.tap>>, <<"state", item.tap>>}
        /\ item.kind \in {"open", "state"} => Handled(d, desk', {})
        /\ (\A c \in Commands : Allowed(c) /\ c.op = "panel" => Replaceable(d)) /\ Owned(d)
             => Owned(desk')
        /\ item.live \/ item.kind \notin {"cycle", "click"} => desk'.ub \notin Dangling
        /\ item.kind = "open" => desk'.toRun = d.toRun
    BY <1>1, <1>4, <1>5, <1>6, OutcomesKeep
  <1>8. desk'.toRun \in Seq(Items) /\ desk'.queue \in Seq(Items)
        /\ d.toRun \in Seq(Items) /\ d.queue \in Seq(Items)
    BY <1>4, <1>7 DEF Sound, Desks
  <1>9. /\ Tags(desk'.toRun) \subseteq Tags(desk.toRun)
        /\ Tags(desk'.queue) \subseteq Tags(desk.queue) \union Later
    <2>1. Tags(desk'.toRun) = Tags(d.toRun)
      BY <1>7, <1>8, DulledTags
    <2>2. {<<"open", item.tap>>, <<"state", item.tap>>} \subseteq Later
      BY <1>4 DEF Later, Items
    <2> QED
      BY <1>4, <1>7, <2>1, <2>2
  <1>10. phase = "queue" => item.kind \in {"open", "state"}
    <2>1. \A s \in Later : s[1] \in {"open", "state"}
      BY DEF Later
    <2>2. <<item.kind, item.tap>>[1] = item.kind
      OBVIOUS
    <2> QED
      BY <1>2, <1>4, <2>1, <2>2
  <1>11. phase = "queue" => desk'.queue = <<>>
    <2>1. ASSUME phase = "queue" PROVE Dulled(desk.queue, desk'.queue)
      BY <1>4, <1>7, <1>10, <2>1 DEF Handled
    <2> QED
      BY <1>2, <1>4, <1>8, <2>1, DulledTags
  <1>12. QueueInv'
    <2>1. NoClash(desk')
      <3>1. \A s \in Later : s[1] # "minimize" /\ s[1] # "cycle"
        BY DEF Later
      <3> QED
        BY <1>2, <1>9, <3>1 DEF NoClash
    <2> QED
      BY <1>1, <1>2, <1>9, <1>11, <2>1 DEF QueueInv
  <1>13. DirtyInv'
    <2>1. CASE phase = "touchEnd"
      BY <1>1, <2>1 DEF DirtyInv
    <2>2. CASE phase = "queue"
      <3>1. desk'.dirty \/ View(desk') = View(d)
        BY <1>7, <1>10, <2>2 DEF Handled
      <3>2. d.dirty => desk'.dirty
        BY <1>7, <1>10, <2>2 DEF Handled
      <3>3. stale' => stale \/ View(desk') # View(desk)
        BY DEF Stales
      <3> QED
        BY <1>2, <1>4, <2>2, <3>1, <3>2, <3>3 DEF DirtyInv
    <2> QED
      BY <1>1, <2>1, <2>2
  <1>14. TypeOK'
    BY <1>1, <1>7, StaleType DEF TypeOK, IInv, Sound
  <1>15. PanelOnce /\ Owned(desk) => Owned(desk')
    <2> SUFFICES ASSUME PanelOnce, Owned(desk) PROVE Owned(desk')
      OBVIOUS
    <2>1. \A c \in Commands : Allowed(c) /\ c.op = "panel" => Replaceable(d)
      BY <1>2, <1>4, AllowedPanels DEF Replaceable
    <2> QED
      BY <1>4, <1>7, <2>1
  <1>16. LiftInv => LiftInv' /\ NoDanglingAction'
    <2>1. CASE phase = "queue"
      <3>1. LiftInv'
        BY <1>1, <2>1 DEF LiftInv
      <3>2. desk'.ub \notin Dangling
        BY <1>7, <1>10, <2>1
      <3> QED
        BY <3>1, <3>2 DEF NoDanglingAction, Dangling
    <2>2. CASE phase = "touchEnd" /\ LiftInv
      <3>1. Waits(desk.toRun)
        BY <2>2 DEF LiftInv
      <3>2. /\ Waits(d.toRun)
            /\ Chosen(item) => item.live /\ \A k \in 1 .. Len(d.toRun) : ~Chosen(d.toRun[k])
            /\ item.kind = "stray" => d.toRun = <<>>
        BY <1>1, <1>2, <1>3, <1>4, <3>1, WaitsTail
      <3>3. desk'.ub \notin Dangling
        BY <1>7, <3>2 DEF Chosen
      <3>4. Waits(desk'.toRun)
        <4>1. CASE item.kind = "open"
          BY <1>7, <3>2, <4>1
        <4>2. CASE item.kind # "open"
          <5>1. \A k \in 1 .. Len(d.toRun) : ~Chosen(d.toRun[k])
            BY <3>2, <4>2 DEF Chosen
          <5> QED
            BY <1>7, <1>8, <3>2, <5>1, DulledWaits
        <4> QED
          BY <4>1, <4>2
      <3> QED
        BY <1>1, <2>2, <3>3, <3>4 DEF LiftInv, NoDanglingAction, Dangling
    <2> QED
      BY <1>1, <2>1, <2>2
  <1> QED
    BY <1>2, <1>4, <1>7, <1>12, <1>13, <1>14, <1>15, <1>16 DEF StepDone, IInv

-----------------------------------------------------------------------------
(* The theorems                                                             *)

LEMMA Steps ==
  ASSUME IInv, [Next]_vars
  PROVE  /\ IInv'
         /\ PanelOnce /\ Owned(desk) => Owned(desk)'
         /\ LiftInv /\ NoDanglingAction => LiftInv' /\ NoDanglingAction'
  <1>1. CASE Next
    <2>1. desk.ub = "none" /\ Stales /\ (LoopStep \/ Command \/ FrameTimer)
      BY <1>1 DEF Next, Observed, Stales
    <2>2. CASE \/ TouchError \/ TouchBesideError
               \/ TouchPopup \/ TouchBesidePopups \/ TouchKeys \/ TouchPanel
               \/ TouchWindow \/ TouchDesktop
      BY <2>1, <2>2, Touches
    <2>3. CASE \/ ReleaseError \/ ReleaseBesideError
               \/ ReleasePopup \/ ReleaseBesidePopups \/ ReleaseKey \/ ReleasePanel
               \/ ReleaseWindow \/ ReleaseNothing
      BY <2>1, <2>3, Releases DEF LiftDone
    <2>4. CASE Lifted
      BY <2>1, <2>4, LiftedStep DEF StepDone
    <2>5. CASE RunAction
      BY <2>1, <2>5, RunActionStep DEF StepDone
    <2>6. CASE TouchEndDone
      BY <2>1, <2>6, TouchEndDoneStep DEF StepDone
    <2>7. CASE Timers
      BY <2>1, <2>7, TimersStep DEF StepDone
    <2>8. CASE Command
      BY <2>1, <2>8, CommandStep DEF StepDone
    <2>9. CASE CommandsDone \/ Untouched \/ QueueDone \/ Draw \/ FrameTimer
      BY <2>1, <2>9, PlainSteps DEF StepDone
    <2> QED
      BY <2>1, <2>2, <2>3, <2>4, <2>5, <2>6, <2>7, <2>8, <2>9 DEF LoopStep
  <1>2. CASE UNCHANGED vars
    <2>1. desk' = desk /\ phase' = phase /\ last' = last /\ stale' = stale
      BY <1>2 DEF vars
    <2> QED
      BY <2>1 DEF IInv, TypeOK, QueueInv, DirtyInv, LiftInv, NoDanglingAction
  <1> QED
    BY <1>1, <1>2

LEMMA Invariance == Safe => []IInv
  <1>1. Init => IInv
    BY Start
  <1>2. IInv /\ [Next]_vars => IInv'
    BY Steps
  <1> QED
    BY <1>1, <1>2, PTL DEF Safe

(* The desktop is one the code can have: windows, popups, waiting actions   *)
(* and the phase of the loop are of the kinds UiFeature.cpp knows.          *)
THEOREM TypeCorrect == Safe => []TypeOK
  <1>1. IInv => TypeOK
    BY DEF IInv
  <1> QED
    BY <1>1, Invariance, PTL

(* However many requests to open an app are queued, closed, rotated or      *)
(* rebuilt between, WindowManager::openApp never gives it a second window.  *)
THEOREM NoSecondWindow == Safe => []OneWindowPerApp
  <1>1. IInv => OneWindowPerApp
    BY DEF IInv, Sound, Single, OneWindowPerApp
  <1> QED
    BY <1>1, Invariance, PTL

(* No window but the one that gets the taps (getFocused) is drawn with an   *)
(* active title bar, in spite of the methods that do not call               *)
(* updateActiveStates: Window::onTouchEnd and minimizeApp.                  *)
THEOREM OneActiveWindow == Safe => []OnlyFocusedIsActive
  <1>1. IInv => OnlyFocusedIsActive
    BY DEF IInv, Sound, Focus, OnlyFocusedIsActive
  <1> QED
    BY <1>1, Invariance, PTL

(* Every window, minimized ones included, has the bounds for the rotation   *)
(* and the keyboard as they are, in any order of the calls that resize.     *)
THEOREM AlwaysFitting == Safe => []WindowsFitScreen
  <1>1. IInv => WindowsFitScreen
    BY DEF IInv, Fits, Bounded, WindowsFitScreen
  <1> QED
    BY <1>1, Invariance, PTL

(* What a tap sets off is done when the next touch is processed: what       *)
(* executeQueuedActions runs after a lift queues no more than what the      *)
(* second call of the same iteration runs.                                  *)
THEOREM TapsFinish == Safe => []TapsAreDoneBeforeNextTouch
  <1>1. IInv => TapsAreDoneBeforeNextTouch
    <2> SUFFICES ASSUME IInv, phase = "touch"
                 PROVE  desk.toRun = <<>> /\ \A k \in DOMAIN desk.queue : ~desk.queue[k].tap
      BY DEF TapsAreDoneBeforeNextTouch
    <2>1. desk.toRun = <<>> /\ Tags(desk.queue) \subseteq {<<"open", FALSE>>}
          /\ desk.queue \in Seq(Items)
      BY DEF IInv, QueueInv, Sound, Desks
    <2>2. ASSUME NEW k \in DOMAIN desk.queue PROVE ~desk.queue[k].tap
      <3>1. desk.queue[k] \in ToSet(desk.queue)
        BY <2>1 DEF ToSet
      <3>2. <<desk.queue[k].kind, desk.queue[k].tap>> \in Tags(desk.queue)
        BY <3>1 DEF Tags
      <3> QED
        BY <2>1, <3>2
    <2> QED
      BY <2>1, <2>2
  <1> QED
    BY <1>1, Invariance, PTL

(* When a frame may be drawn, and when commands are served, a change of     *)
(* what is on the screen is marked for the renderer (markDirty).            *)
THEOREM NothingLeftUndrawn == Safe => []ChangesAreDirty
  <1>1. IInv => ChangesAreDirty
    BY DEF IInv, DirtyInv, ChangesAreDirty
  <1> QED
    BY <1>1, Invariance, PTL

LEMMA OwnersStay ==
  ASSUME PanelOnce, NoLeftovers
  PROVE  Safe => [](IInv /\ Owned(desk))
  <1>1. Init => IInv /\ Owned(desk)
    BY Start
  <1>2. IInv /\ Owned(desk) /\ [Next]_vars => (IInv /\ Owned(desk))'
    BY Steps
  <1> QED
    BY <1>1, <1>2, PTL DEF Safe

(* A script's popups go with it (BerryApp::teardown), unless the panel has  *)
(* popups and is opened while it is open, or the setup of a script that has *)
(* made its popup fails after that: either leaves them behind.              *)
THEOREM PopupsOwned ==
  ASSUME PanelOnce, NoLeftovers
  PROVE  Safe => []PopupsHaveOwners
  <1>1. IInv /\ Owned(desk) => PopupsHaveOwners
    <2> SUFFICES ASSUME IInv, Owned(desk), NEW k \in DOMAIN desk.popups
                 PROVE  /\ desk.popups[k].live
                        /\ desk.popups[k].owner = Panel \/ isAppOpen(desk, desk.popups[k].owner)
      BY DEF PopupsHaveOwners
    <2>1. desk.popups[k] \in ToSet(desk.popups)
      BY DEF IInv, Sound, Desks, ToSet
    <2> QED
      BY <2>1 DEF Owned, Opened, isAppOpen
  <1> QED
    BY <1>1, OwnersStay, PTL

(* A queued callback never finds its window or its script deleted: a lift   *)
(* queues one callback, and what runs before it only opens windows.  A      *)
(* second one, of a button that fires for a lift somewhere else because its *)
(* window is scrolled, runs after it and may find its script deleted: that  *)
(* is the one use that has a name of its own, with those of left popups.    *)
THEOREM NoActionDangles == Safe => []NoDanglingAction
  <1> DEFINE Inv == IInv /\ LiftInv /\ NoDanglingAction
  <1>1. Init => Inv
    <2>1. Init => NoDanglingAction
      BY DEF Init, NoDanglingAction
    <2> QED
      BY <2>1, Start
  <1>2. Inv /\ [Next]_vars => Inv'
    BY Steps
  <1> QED
    BY <1>1, <1>2, PTL DEF Safe
=================================================================================
