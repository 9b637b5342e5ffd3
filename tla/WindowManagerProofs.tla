-------------------------- MODULE WindowManagerProofs --------------------------
(***************************************************************************)
(* What the methods of the window manager preserve, for any scripts, any    *)
(* desktop they are called on and any order of calls.                       *)
(***************************************************************************)
EXTENDS WindowManager, DataLemmas

Single(d) == \A i, j \in DOMAIN d.wins : d.wins[i].app = d.wins[j].app => i = j

(* No window but the focused one is drawn active, and a window on top of    *)
(* all others is.                                                           *)
Focus(d) ==
  \A i \in Shown(d) :
    /\ d.wins[i].active => i = getFocused(d)
    /\ i = Len(d.wins) => d.wins[i].active

(* Every window has the bounds for the screen and the keyboard as they are. *)
Bounded(d) ==
  \A i \in DOMAIN d.wins : d.wins[i].bounds = Bounds(d, d.wins[i].bounds.shape)

Fits(d) == d.resized = d.keyboard /\ Bounded(d)

Opened(d) == {d.wins[i].app : i \in DOMAIN d.wins}
OnScreen(d) == {d.wins[i].app : i \in Shown(d)}

(* The text field that has the keyboard is in an open window.               *)
Keys(d) == d.consumer.live => d.consumer.app \in Opened(d)

Waiting(d) == ToSet(d.queue) \union ToSet(d.toRun)

(* Only buttons of popups, of the panel and of the error popup act for what *)
(* has no window, and a window that is to be cycled is on the screen.       *)
Actions(d) ==
  \A item \in Waiting(d) :
    /\ item.kind \in WindowActions => item.app \in Apps
    /\ item.kind = "cycle" /\ item.live => item.app \in OnScreen(d)

(* No script that has made its popup fails after that.                      *)
NoLeftovers == FailingApps \intersect PopupOwners = {}

(* Every popup is that of the panel or of an open window.                   *)
Owned(d) ==
  /\ NoLeftovers
  /\ \A popup \in ToSet(d.popups) :
       /\ popup.live
       /\ IF popup.owner = Panel THEN d.panel ELSE popup.owner \in Opened(d)

(* What the methods need of a desktop, and leave                            *)
Sound(d) == d \in Desks /\ Single(d) /\ Focus(d) /\ Keys(d) /\ Actions(d)

-----------------------------------------------------------------------------
LEMMA WinsDomain ==
  ASSUME NEW d \in Desks
  PROVE  /\ d.wins \in Seq(Windows) /\ Len(d.wins) \in Nat /\ DOMAIN d.wins = 1 .. Len(d.wins)
         /\ \A i \in DOMAIN d.wins : d.wins[i] \in Windows
         /\ Shown(d) \subseteq 1 .. Len(d.wins)
  <1>1. d.wins \in Seq(Windows)
    BY DEF Desks
  <1>2. Len(d.wins) \in Nat /\ DOMAIN d.wins = 1 .. Len(d.wins)
    BY <1>1
  <1>3. \A i \in DOMAIN d.wins : d.wins[i] \in Windows
    BY <1>1, <1>2, ElementOfSeq
  <1> QED
    BY <1>1, <1>2, <1>3 DEF Shown

LEMMA FocusedIsTop ==
  ASSUME NEW d \in Desks
  PROVE  /\ Shown(d) # {} => getFocused(d) \in Shown(d)
         /\ Shown(d) = {} => getFocused(d) = 0
         /\ \A i \in Shown(d) : i <= getFocused(d)
         /\ Len(d.wins) \in Shown(d) => getFocused(d) = Len(d.wins)
  <1>1. CASE Shown(d) = {}
    BY <1>1 DEF getFocused
  <1>2. CASE Shown(d) # {}
    <2>1. Shown(d) \subseteq 0 .. Len(d.wins) /\ Len(d.wins) \in Nat
      BY WinsDomain
    <2>2. Max(Shown(d)) \in Shown(d) /\ \A i \in Shown(d) : i <= Max(Shown(d))
      BY <1>2, <2>1, MaxIsLargest, Zenon
    <2>3. getFocused(d) = Max(Shown(d))
      BY <1>2 DEF getFocused
    <2> QED
      BY <1>2, <2>1, <2>2, <2>3
  <1> QED
    BY <1>1, <1>2

LEMMA IndexOfApp ==
  ASSUME NEW d, NEW app, isAppOpen(d, app)
  PROVE  IndexOf(d, app) \in DOMAIN d.wins /\ d.wins[IndexOf(d, app)].app = app
  BY DEF isAppOpen, IndexOf

LEMMA WindowActive ==
  ASSUME NEW w \in Windows, NEW b \in BOOLEAN, NEW v, v = [w EXCEPT !.active = b]
  PROVE  v \in Windows /\ v.app = w.app /\ v.state = w.state /\ v.bounds = w.bounds
         /\ v.active = b
  BY DEF Windows

-----------------------------------------------------------------------------
(* updateActiveStates                                                       *)

LEMMA UpdateActive ==
  ASSUME NEW d \in Desks, NEW e, e = updateActiveStates(d)
  PROVE  /\ e \in Desks /\ e = [d EXCEPT !.wins = e.wins]
         /\ Len(e.wins) = Len(d.wins)
         /\ \A i \in 1 .. Len(d.wins) :
              e.wins[i] = [d.wins[i] EXCEPT !.active = (i = getFocused(d))]
  <1> DEFINE w == [i \in DOMAIN d.wins |-> [d.wins[i] EXCEPT !.active = (i = getFocused(d))]]
  <1>1. e = [d EXCEPT !.wins = w]
    BY DEF updateActiveStates, Desks
  <1>2. \A i \in 1 .. Len(d.wins) : w[i] = [d.wins[i] EXCEPT !.active = (i = getFocused(d))]
    BY WinsDomain
  <1>3. \A i \in 1 .. Len(d.wins) : w[i] \in Windows
    BY <1>2, WinsDomain, WindowActive, ZenonT(30)
  <1>4. w \in Seq(Windows) /\ Len(w) = Len(d.wins)
    <2>1. DOMAIN w = 1 .. Len(d.wins) /\ w = [i \in 1 .. Len(d.wins) |-> w[i]]
      BY WinsDomain
    <2> HIDE DEF w
    <2> QED
      BY <1>3, <2>1, WinsDomain, GivenSeq
  <1> HIDE DEF w
  <1> QED
    BY <1>1, <1>2, <1>4, ZenonT(30) DEF Desks

(* What only the flags active change, beside other fields                   *)
Relit(d, e) ==
  /\ Len(e.wins) = Len(d.wins)
  /\ \A i \in 1 .. Len(d.wins) : e.wins[i] = [d.wins[i] EXCEPT !.active = e.wins[i].active]

LEMMA RelitSame ==
  ASSUME NEW d \in Desks, NEW e \in Desks, Relit(d, e)
  PROVE  /\ Shown(e) = Shown(d) /\ getFocused(e) = getFocused(d)
         /\ Opened(e) = Opened(d) /\ OnScreen(e) = OnScreen(d)
         /\ Single(d) => Single(e)
         /\ \A i \in 1 .. Len(d.wins) : e.wins[i].app = d.wins[i].app
                                       /\ e.wins[i].bounds = d.wins[i].bounds
  <1>1. DOMAIN d.wins = 1 .. Len(d.wins) /\ DOMAIN e.wins = 1 .. Len(d.wins)
    BY WinsDomain DEF Relit
  <1>2. \A i \in 1 .. Len(d.wins) : /\ e.wins[i].app = d.wins[i].app
                                    /\ e.wins[i].state = d.wins[i].state
                                    /\ e.wins[i].bounds = d.wins[i].bounds
    <2> SUFFICES ASSUME NEW i \in 1 .. Len(d.wins)
                 PROVE  /\ e.wins[i].app = d.wins[i].app
                        /\ e.wins[i].state = d.wins[i].state
                        /\ e.wins[i].bounds = d.wins[i].bounds
      OBVIOUS
    <2>1. d.wins[i] \in Windows /\ e.wins[i] \in Windows
      BY <1>1, WinsDomain
    <2>2. e.wins[i].active \in BOOLEAN
      BY <2>1 DEF Windows
    <2>3. e.wins[i] = [d.wins[i] EXCEPT !.active = e.wins[i].active]
      BY DEF Relit
    <2> QED
      BY <2>1, <2>3 DEF Windows
  <1>3. Shown(e) = Shown(d)
    BY <1>1, <1>2 DEF Shown
  <1>4. getFocused(e) = getFocused(d)
    BY <1>3 DEF getFocused
  <1>5. OnScreen(e) = OnScreen(d) /\ Opened(e) = Opened(d)
    BY <1>1, <1>2, <1>3, WinsDomain DEF OnScreen, Opened
  <1>6. Single(d) => Single(e)
    BY <1>1, <1>2 DEF Single
  <1> QED
    BY <1>2, <1>3, <1>4, <1>5, <1>6

LEMMA UpdateActiveKeeps ==
  ASSUME NEW d \in Desks, NEW e, e = updateActiveStates(d)
  PROVE  /\ e \in Desks /\ e = [d EXCEPT !.wins = e.wins]
         /\ Relit(d, e) /\ Focus(e)
         /\ Focus(d) /\ Len(d.wins) \in Shown(d) =>
              \A i \in Shown(d) : e.wins[i] = d.wins[i]
  <1>1. /\ e \in Desks /\ e = [d EXCEPT !.wins = e.wins]
        /\ Len(e.wins) = Len(d.wins)
        /\ \A i \in 1 .. Len(d.wins) :
             e.wins[i] = [d.wins[i] EXCEPT !.active = (i = getFocused(d))]
    BY UpdateActive
  <1>2. \A i \in 1 .. Len(d.wins) : e.wins[i].active = (i = getFocused(d))
    <2> SUFFICES ASSUME NEW i \in 1 .. Len(d.wins)
                 PROVE  e.wins[i].active = (i = getFocused(d))
      OBVIOUS
    <2>1. d.wins[i] \in Windows /\ (i = getFocused(d)) \in BOOLEAN
      BY WinsDomain
    <2> QED
      BY <1>1, <2>1, WindowActive, ZenonT(30)
  <1>3. Relit(d, e)
    BY <1>1, <1>2 DEF Relit
  <1>4. Focus(e)
    <2>1. Shown(e) = Shown(d) /\ getFocused(e) = getFocused(d)
      BY <1>1, <1>3, RelitSame
    <2> QED
      BY <1>1, <1>2, <2>1, FocusedIsTop, WinsDomain DEF Focus
  <1>5. ASSUME Focus(d), Len(d.wins) \in Shown(d), NEW i \in Shown(d)
        PROVE  e.wins[i] = d.wins[i]
    <2>1. getFocused(d) = Len(d.wins) /\ i \in 1 .. Len(d.wins) /\ d.wins[i] \in Windows
      BY <1>5, FocusedIsTop, WinsDomain
    <2>2. d.wins[i].active = (i = getFocused(d))
      BY <1>5, <2>1 DEF Focus, Windows
    <2> QED
      BY <1>1, <2>1, <2>2 DEF Windows
  <1> QED
    BY <1>1, <1>3, <1>4, <1>5

-----------------------------------------------------------------------------
(* Records: what a method leaves of the fields it does not assign           *)

LEMMA MarkDirty ==
  ASSUME NEW d \in Desks, NEW e, e = markDirty(d)
  PROVE  e \in Desks /\ e = [d EXCEPT !.dirty = TRUE] /\ e.dirty /\ e.wins = d.wins
  BY DEF markDirty, Desks

(* What depends on the windows only                                         *)
LEMMA SameWindows ==
  ASSUME NEW d, NEW e, e.wins = d.wins
  PROVE  /\ Shown(e) = Shown(d) /\ getFocused(e) = getFocused(d)
         /\ Opened(e) = Opened(d) /\ OnScreen(e) = OnScreen(d)
         /\ Single(d) => Single(e)
         /\ Focus(d) => Focus(e)
         /\ Bounded(d) /\ e.resized = d.resized /\ e.rotation = d.rotation => Bounded(e)
  <1>1. Shown(e) = Shown(d) /\ getFocused(e) = getFocused(d)
    BY DEF Shown, getFocused
  <1> QED
    BY <1>1 DEF Opened, OnScreen, Single, Focus, Bounded, Bounds

LEMMA SoundAgain ==
  ASSUME NEW d \in Desks, Sound(d), NEW e \in Desks, Single(e), Focus(e),
         Opened(d) \subseteq Opened(e), OnScreen(d) \subseteq OnScreen(e),
         e.consumer = d.consumer, e.queue = d.queue, e.toRun = d.toRun
  PROVE  Sound(e)
  BY DEF Sound, Keys, Actions, Waiting

-----------------------------------------------------------------------------
(* focusApp                                                                 *)

LEMMA MoveToTop ==
  ASSUME NEW d \in Desks, NEW i \in DOMAIN d.wins, Single(d),
         NEW e, e = [d EXCEPT !.wins = Append(RemoveAt(@, i), @[i])]
  PROVE  /\ e \in Desks /\ e = [d EXCEPT !.wins = e.wins] /\ Len(e.wins) = Len(d.wins)
         /\ Opened(e) = Opened(d) /\ OnScreen(e) = OnScreen(d) /\ Single(e)
         /\ Bounded(d) => Bounded(e)
  <1> DEFINE n == Len(d.wins)
             r == RemoveAt(d.wins, i)
             w == Append(r, d.wins[i])
             from(k) == IF k < i THEN k ELSE IF k < n THEN k + 1 ELSE i
  <1>1. d.wins \in Seq(Windows) /\ n \in Nat /\ DOMAIN d.wins = 1 .. n /\ i \in 1 .. n
    BY WinsDomain
  <1>2. r \in Seq(Windows) /\ Len(r) = n - 1
        /\ \A k \in 1 .. n - 1 : r[k] = IF k < i THEN d.wins[k] ELSE d.wins[k + 1]
    BY <1>1, RemoveAtShifts
  <1>3. e = [d EXCEPT !.wins = w] /\ e.wins = w
    BY DEF Desks
  <1>4. d.wins[i] \in Windows
    BY WinsDomain
  <1>5. w \in Seq(Windows) /\ Len(w) = n
    <2> HIDE DEF r, n
    <2> QED
      BY <1>1, <1>2, <1>4
  <1>6. \A k \in 1 .. n : from(k) \in 1 .. n /\ w[k] = d.wins[from(k)]
    <2> SUFFICES ASSUME NEW k \in 1 .. n PROVE from(k) \in 1 .. n /\ w[k] = d.wins[from(k)]
      OBVIOUS
    <2> HIDE DEF r, n
    <2>1. CASE k = n
      BY <1>1, <1>2, <1>4, <2>1
    <2>2. CASE k # n
      <3>1. k \in 1 .. n - 1 /\ k < n
        BY <1>1, <2>2
      <3>2. w[k] = r[k]
        BY <1>2, <1>4, <3>1
      <3> QED
        BY <1>1, <1>2, <3>1, <3>2
    <2> QED
      BY <2>1, <2>2
  <1>7. \A k, l \in 1 .. n : from(k) = from(l) => k = l
    <2> HIDE DEF n
    <2> QED
      BY <1>1
  <1>8. \A l \in 1 .. n : \E k \in 1 .. n : from(k) = l
    <2> SUFFICES ASSUME NEW l \in 1 .. n PROVE \E k \in 1 .. n : from(k) = l
      OBVIOUS
    <2>1. CASE l < i
      BY <2>1
    <2>2. CASE l = i
      <3>1. from(n) = l /\ n \in 1 .. n
        BY <1>1, <2>2
      <3> QED
        BY <3>1
    <2>3. CASE l > i
      <3>1. l - 1 \in 1 .. n /\ from(l - 1) = l
        BY <1>1, <2>3
      <3> QED
        BY <3>1
    <2> QED
      BY <1>1, <2>1, <2>2, <2>3
  <1> HIDE DEF w, from, n
  <1>9. DOMAIN e.wins = 1 .. n /\ DOMAIN d.wins = 1 .. n /\ Len(e.wins) = n
    BY <1>1, <1>3, <1>5
  <1>10. e \in Desks
    BY <1>3, <1>5 DEF Desks
  <1>11. Opened(e) = Opened(d)
    <2>1. ASSUME NEW k \in DOMAIN e.wins PROVE e.wins[k].app \in Opened(d)
      BY <1>3, <1>6, <1>9 DEF Opened
    <2>2. ASSUME NEW l \in DOMAIN d.wins PROVE d.wins[l].app \in Opened(e)
      <3>1. PICK k \in 1 .. n : from(k) = l
        BY <1>8, <1>9
      <3> QED
        BY <1>3, <1>6, <1>9, <3>1 DEF Opened
    <2> QED
      BY <2>1, <2>2 DEF Opened
  <1>12. OnScreen(e) = OnScreen(d)
    <2>1. ASSUME NEW k \in Shown(e) PROVE e.wins[k].app \in OnScreen(d)
      BY <1>3, <1>6, <1>9 DEF OnScreen, Shown
    <2>2. ASSUME NEW l \in Shown(d) PROVE d.wins[l].app \in OnScreen(e)
      <3>1. PICK k \in 1 .. n : from(k) = l
        BY <1>8, <1>9 DEF Shown
      <3> QED
        BY <1>3, <1>6, <1>9, <3>1, ZenonT(30) DEF OnScreen, Shown
    <2> QED
      BY <2>1, <2>2, ZenonT(30) DEF OnScreen
  <1>13. Single(e)
    <2> SUFFICES ASSUME NEW k \in 1 .. n, NEW l \in 1 .. n, e.wins[k].app = e.wins[l].app
                 PROVE  k = l
      BY <1>9 DEF Single
    <2>1. d.wins[from(k)].app = d.wins[from(l)].app /\ from(k) \in 1 .. n /\ from(l) \in 1 .. n
      BY <1>3, <1>6
    <2>2. from(k) = from(l)
      BY <1>9, <2>1 DEF Single
    <2> QED
      BY <1>7, <2>2
  <1>14. Bounded(d) => Bounded(e)
    <2>1. e.resized = d.resized /\ e.rotation = d.rotation
      BY <1>3 DEF Desks
    <2> QED
      BY <1>3, <1>6, <1>9, <2>1 DEF Bounded, Bounds
  <1> QED
    BY <1>3, <1>9, <1>10, <1>11, <1>12, <1>13, <1>14 DEF n

(* The windows are as before but for their order, what is on the screen and *)
(* what is active; none is missing.                                         *)
Raised(d, e) ==
  /\ e \in Desks /\ e = [d EXCEPT !.wins = e.wins, !.dirty = e.dirty]
  /\ Single(e) /\ Focus(e)
  /\ Opened(e) = Opened(d) /\ OnScreen(d) \subseteq OnScreen(e)
  /\ Bounded(d) => Bounded(e)
  /\ d.dirty => e.dirty

LEMMA RaisedFields ==
  ASSUME NEW d \in Desks, NEW e, Raised(d, e)
  PROVE  /\ e.panel = d.panel /\ e.popups = d.popups /\ e.keyboard = d.keyboard
         /\ e.resized = d.resized /\ e.rotation = d.rotation /\ e.consumer = d.consumer
         /\ e.queue = d.queue /\ e.toRun = d.toRun /\ e.frameReady = d.frameReady
         /\ e.ub = d.ub
  BY DEF Raised, Desks

LEMMA RaisedIsSound ==
  ASSUME NEW d \in Desks, NEW e, Raised(d, e), Sound(d)
  PROVE  Sound(e) /\ (Fits(d) => Fits(e)) /\ (Owned(d) => Owned(e))
  <1>1. e \in Desks
    BY DEF Raised
  <1>2. Sound(e)
    BY <1>1, RaisedFields, SoundAgain, ZenonT(30) DEF Raised
  <1> QED
    BY <1>2, RaisedFields DEF Raised, Fits, Owned

(* The windows are updated after a change that is no more than that.        *)
LEMMA UpdateRaises ==
  ASSUME NEW d \in Desks, NEW m \in Desks, m = [d EXCEPT !.wins = m.wins, !.dirty = m.dirty],
         Single(m), Opened(m) = Opened(d), OnScreen(d) \subseteq OnScreen(m),
         Bounded(d) => Bounded(m), d.dirty => m.dirty,
         NEW e, e = updateActiveStates(m)
  PROVE  Raised(d, e) /\ e.dirty = m.dirty
  <1>1. e \in Desks /\ e = [m EXCEPT !.wins = e.wins] /\ Relit(m, e) /\ Focus(e)
    BY UpdateActiveKeeps
  <1>2. /\ Opened(e) = Opened(m) /\ OnScreen(e) = OnScreen(m) /\ Single(e)
        /\ \A i \in 1 .. Len(m.wins) : e.wins[i].bounds = m.wins[i].bounds
    BY <1>1, RelitSame
  <1>3. e = [d EXCEPT !.wins = e.wins, !.dirty = e.dirty] /\ e.dirty = m.dirty
        /\ e.resized = m.resized /\ e.rotation = m.rotation
    <2>1. e.dirty = m.dirty /\ e.resized = m.resized /\ e.rotation = m.rotation
      BY <1>1 DEF Desks
    <2>2. e = [[d EXCEPT !.wins = m.wins, !.dirty = m.dirty] EXCEPT !.wins = e.wins]
      BY <1>1
    <2>3. \A w, v : [[d EXCEPT !.wins = v, !.dirty = m.dirty] EXCEPT !.wins = w]
                   = [d EXCEPT !.wins = w, !.dirty = m.dirty]
      BY DEF Desks
    <2> QED
      BY <2>1, <2>2, <2>3
  <1>4. Bounded(m) => Bounded(e)
    <2>1. DOMAIN e.wins = 1 .. Len(m.wins) /\ DOMAIN m.wins = 1 .. Len(m.wins)
      BY <1>1, WinsDomain DEF Relit
    <2> QED
      BY <1>2, <1>3, <2>1 DEF Bounded, Bounds
  <1> QED
    BY <1>1, <1>2, <1>3, <1>4 DEF Raised

LEMMA FocusApp ==
  ASSUME NEW d \in Desks, Single(d), NEW app, NEW e, e = focusApp(d, app)
  PROVE  /\ Raised(d, e)
         /\ app \in OnScreen(d) /\ Focus(d) => e.dirty \/ View(e) = View(d)
  <1> DEFINE i == IndexOf(d, app)
  <1>1. CASE isAppOpen(d, app) /\ i # Len(d.wins)
    <2> DEFINE m == [d EXCEPT !.wins = Append(RemoveAt(@, i), @[i])]
               md == markDirty(m)
    <2>1. i \in DOMAIN d.wins
      BY <1>1, IndexOfApp
    <2>2. /\ m \in Desks /\ m = [d EXCEPT !.wins = m.wins]
          /\ Opened(m) = Opened(d) /\ OnScreen(m) = OnScreen(d) /\ Single(m)
          /\ Bounded(d) => Bounded(m)
      BY <2>1, MoveToTop
    <2>3. e = updateActiveStates(md)
      BY <1>1 DEF focusApp
    <2> HIDE DEF m
    <2>4. md \in Desks /\ md = [m EXCEPT !.dirty = TRUE] /\ md.dirty /\ md.wins = m.wins
      BY <2>2, MarkDirty
    <2> HIDE DEF md
    <2>5. md = [d EXCEPT !.wins = md.wins, !.dirty = md.dirty]
          /\ md.resized = m.resized /\ md.rotation = m.rotation
      BY <2>2, <2>4 DEF Desks
    <2>6. /\ Opened(md) = Opened(m) /\ OnScreen(md) = OnScreen(m) /\ Single(md)
          /\ Bounded(m) => Bounded(md)
      BY <2>2, <2>4, <2>5, SameWindows
    <2>7. /\ Opened(md) = Opened(d) /\ OnScreen(d) \subseteq OnScreen(md) /\ Single(md)
          /\ Bounded(d) => Bounded(md)
          /\ d.dirty => md.dirty
      BY <2>2, <2>4, <2>6
    <2>8. Raised(d, e) /\ e.dirty
      BY <2>3, <2>4, <2>5, <2>7, UpdateRaises
    <2> QED
      BY <2>8
  <1>2. CASE ~(isAppOpen(d, app) /\ i # Len(d.wins))
    <2>1. e = updateActiveStates(d)
      BY <1>2 DEF focusApp
    <2>2. d = [d EXCEPT !.wins = d.wins, !.dirty = d.dirty]
      BY DEF Desks
    <2>3. Raised(d, e)
      BY <2>1, <2>2, UpdateRaises
    <2>4. ASSUME app \in OnScreen(d), Focus(d) PROVE View(e) = View(d)
      <3>1. PICK k \in Shown(d) : d.wins[k].app = app
        BY <2>4 DEF OnScreen
      <3>2. isAppOpen(d, app) /\ i = k
        BY <3>1, IndexOfApp DEF isAppOpen, Shown, Single
      <3>3. Len(d.wins) \in Shown(d)
        BY <1>2, <3>1, <3>2
      <3>4. /\ \A l \in Shown(d) : e.wins[l] = d.wins[l]
            /\ e = [d EXCEPT !.wins = e.wins] /\ e \in Desks /\ Relit(d, e)
        BY <2>1, <2>4, <3>3, UpdateActiveKeeps
      <3>5. Shown(e) = Shown(d)
        BY <3>4, RelitSame
      <3>6. e.popups = d.popups /\ e.keyboard = d.keyboard /\ e.panel = d.panel
            /\ e.rotation = d.rotation /\ e.pressedKey = d.pressedKey /\ e.error = d.error
        BY <3>4 DEF Desks
      <3> QED
        BY <3>4, <3>5, <3>6 DEF View, VisiblePopups
    <2> QED
      BY <2>3, <2>4
  <1> QED
    BY <1>1, <1>2

LEMMA RaisedAfter ==
  ASSUME NEW d \in Desks, NEW m \in Desks, m = [d EXCEPT !.wins = m.wins, !.dirty = m.dirty],
         Opened(m) = Opened(d), OnScreen(d) \subseteq OnScreen(m),
         Bounded(d) => Bounded(m), d.dirty => m.dirty,
         NEW e, Raised(m, e)
  PROVE  Raised(d, e)
  <1>1. e = [[d EXCEPT !.wins = m.wins, !.dirty = m.dirty] EXCEPT !.wins = e.wins,
                                                                 !.dirty = e.dirty]
    BY DEF Raised
  <1>2. \A w, b, v, c : [[d EXCEPT !.wins = v, !.dirty = c] EXCEPT !.wins = w, !.dirty = b]
                        = [d EXCEPT !.wins = w, !.dirty = b]
    BY DEF Desks
  <1>3. e = [d EXCEPT !.wins = e.wins, !.dirty = e.dirty]
    BY <1>1, <1>2
  <1> QED
    BY <1>3 DEF Raised

LEMMA RaisedDirty ==
  ASSUME NEW d \in Desks, NEW f, Raised(d, f), NEW e, e = markDirty(f)
  PROVE  Raised(d, e) /\ e.dirty
  <1>1. f \in Desks
    BY DEF Raised
  <1>2. e \in Desks /\ e = [f EXCEPT !.dirty = TRUE] /\ e.dirty /\ e.wins = f.wins
    BY <1>1, MarkDirty
  <1>3. e.resized = f.resized /\ e.rotation = f.rotation
    BY <1>1, <1>2 DEF Desks
  <1>4. e = [d EXCEPT !.wins = e.wins, !.dirty = e.dirty]
    <2>1. e = [[d EXCEPT !.wins = f.wins, !.dirty = f.dirty] EXCEPT !.dirty = TRUE]
      BY <1>2 DEF Raised
    <2>2. \A w, b, c : [[d EXCEPT !.wins = w, !.dirty = b] EXCEPT !.dirty = c]
                       = [d EXCEPT !.wins = w, !.dirty = c]
      BY DEF Desks
    <2>3. e = [d EXCEPT !.wins = f.wins, !.dirty = TRUE]
      BY <2>1, <2>2
    <2>4. e.dirty = TRUE
      BY <1>1, <1>2 DEF Desks
    <2> QED
      BY <1>2, <2>3, <2>4
  <1> QED
    BY <1>1, <1>2, <1>3, <1>4, SameWindows DEF Raised

-----------------------------------------------------------------------------
(* setState, restoreApp, minimizeApp                                        *)

LEMMA SetState ==
  ASSUME NEW d \in Desks, NEW i \in DOMAIN d.wins, NEW s \in States,
         NEW e, e = setState(d, i, s)
  PROVE  /\ e \in Desks /\ e = [d EXCEPT !.wins = e.wins]
         /\ Opened(e) = Opened(d)
         /\ Single(d) => Single(e)
         /\ Bounded(d) => Bounded(e)
         /\ Shown(e) \ {i} = Shown(d) \ {i}
         /\ i \in Shown(e) <=> s # "minimized"
         /\ \A k \in DOMAIN d.wins : e.wins[k].app = d.wins[k].app
                                     /\ e.wins[k].active = d.wins[k].active
         /\ Len(e.wins) = Len(d.wins)
  <1> DEFINE w == [d.wins EXCEPT ![i].state = s]
  <1>1. e = [d EXCEPT !.wins = w] /\ e.wins = w
    BY DEF setState, Desks
  <1>2. \A k \in DOMAIN d.wins :
          /\ w[k] \in Windows /\ w[k].app = d.wins[k].app /\ w[k].active = d.wins[k].active
          /\ w[k].bounds = d.wins[k].bounds
          /\ w[k].state = IF k = i THEN s ELSE d.wins[k].state
    <2> SUFFICES ASSUME NEW k \in DOMAIN d.wins
                 PROVE  /\ w[k] \in Windows /\ w[k].app = d.wins[k].app
                        /\ w[k].active = d.wins[k].active
                        /\ w[k].bounds = d.wins[k].bounds
                        /\ w[k].state = IF k = i THEN s ELSE d.wins[k].state
      OBVIOUS
    <2>1. d.wins[k] \in Windows
      BY WinsDomain
    <2>2. w[k] = IF k = i THEN [d.wins[k] EXCEPT !.state = s] ELSE d.wins[k]
      BY WinsDomain
    <2> HIDE DEF w
    <2> QED
      BY <2>1, <2>2 DEF Windows
  <1>3. w \in Seq(Windows) /\ DOMAIN w = DOMAIN d.wins /\ Len(w) = Len(d.wins)
    <2>1. w = [k \in 1 .. Len(d.wins) |-> w[k]] /\ DOMAIN w = 1 .. Len(d.wins)
      BY WinsDomain
    <2> HIDE DEF w
    <2> QED
      BY <1>2, <2>1, WinsDomain, GivenSeq, ZenonT(30)
  <1> HIDE DEF w
  <1>4. e \in Desks /\ e = [d EXCEPT !.wins = e.wins]
        /\ e.resized = d.resized /\ e.rotation = d.rotation
    BY <1>1, <1>3 DEF Desks
  <1>5. Opened(e) = Opened(d) /\ (Single(d) => Single(e))
    BY <1>1, <1>2, <1>3 DEF Opened, Single
  <1>6. Bounded(d) => Bounded(e)
    BY <1>1, <1>2, <1>3, <1>4 DEF Bounded, Bounds
  <1>7. Shown(e) \ {i} = Shown(d) \ {i} /\ (i \in Shown(e) <=> s # "minimized")
    BY <1>1, <1>2, <1>3 DEF Shown
  <1> QED
    BY <1>1, <1>2, <1>3, <1>4, <1>5, <1>6, <1>7

LEMMA MinimizeKeepsFocus ==
  ASSUME NEW d \in Desks, NEW i \in DOMAIN d.wins, Focus(d),
         NEW e, e = setState(d, i, "minimized")
  PROVE  Focus(e)
  <1>1. /\ e \in Desks /\ Shown(e) \ {i} = Shown(d) \ {i} /\ i \notin Shown(e)
        /\ \A k \in DOMAIN d.wins : e.wins[k].active = d.wins[k].active
        /\ Len(e.wins) = Len(d.wins)
    <2>1. "minimized" \in States
      BY DEF States
    <2> QED
      BY <2>1, SetState
  <1>2. \A k \in Shown(e) : k \in Shown(d) /\ k \in DOMAIN d.wins
    BY <1>1, WinsDomain
  <1>3. ASSUME NEW k \in Shown(e)
        PROVE  /\ e.wins[k].active => k = getFocused(e)
               /\ k = Len(e.wins) => e.wins[k].active
    <2>1. CASE e.wins[k].active
      <3>1. k = getFocused(d)
        BY <1>1, <1>2, <2>1 DEF Focus
      <3>2. \A l \in Shown(e) : l <= k
        BY <1>2, <3>1, FocusedIsTop
      <3>3. getFocused(e) \in Shown(e) /\ k <= getFocused(e)
        BY <1>1, FocusedIsTop
      <3>4. getFocused(e) \in Nat /\ k \in Nat
        BY <1>1, <3>3, WinsDomain
      <3> QED
        BY <1>1, <1>2, <2>1, <3>2, <3>3, <3>4
    <2>2. k = Len(e.wins) => e.wins[k].active
      BY <1>1, <1>2 DEF Focus
    <2> QED
      BY <2>1, <2>2
  <1> QED
    BY <1>3 DEF Focus

LEMMA RestoreApp ==
  ASSUME NEW d \in Desks, Single(d), NEW app, isAppOpen(d, app), NEW e, e = restoreApp(d, app)
  PROVE  Raised(d, e) /\ e.dirty
  <1> DEFINE i == IndexOf(d, app)
             m == IF isMinimized(d, app) THEN setState(d, i, "restored") ELSE d
  <1>1. i \in DOMAIN d.wins /\ d.wins[i].app = app
    BY IndexOfApp
  <1>2. /\ m \in Desks /\ m = [d EXCEPT !.wins = m.wins, !.dirty = m.dirty]
        /\ m.dirty = d.dirty /\ Single(m) /\ Opened(m) = Opened(d)
        /\ OnScreen(d) \subseteq OnScreen(m)
        /\ Bounded(d) => Bounded(m)
    <2>1. CASE isMinimized(d, app)
      <3>1. "restored" \in States /\ "restored" # "minimized"
        BY DEF States
      <3>2. m = setState(d, i, "restored")
        BY <2>1
      <3> HIDE DEF m, i
      <3>3. /\ m \in Desks /\ m = [d EXCEPT !.wins = m.wins]
            /\ Opened(m) = Opened(d) /\ Single(m)
            /\ Bounded(d) => Bounded(m)
            /\ Shown(m) \ {i} = Shown(d) \ {i} /\ i \in Shown(m)
            /\ \A k \in DOMAIN d.wins : m.wins[k].app = d.wins[k].app
        BY <1>1, <3>1, <3>2, SetState
      <3>4. Shown(d) \subseteq Shown(m) /\ Shown(d) \subseteq DOMAIN d.wins
        BY <3>3, WinsDomain
      <3>5. OnScreen(d) \subseteq OnScreen(m)
        BY <3>3, <3>4 DEF OnScreen
      <3>6. m.dirty = d.dirty /\ m = [d EXCEPT !.wins = m.wins, !.dirty = m.dirty]
        BY <3>3 DEF Desks
      <3> QED
        BY <3>3, <3>5, <3>6
    <2>2. CASE ~isMinimized(d, app)
      <3>1. m = d
        BY <2>2
      <3>2. d = [d EXCEPT !.wins = d.wins, !.dirty = d.dirty]
        BY DEF Desks
      <3> HIDE DEF m
      <3> QED
        BY <3>1, <3>2
    <2> QED
      BY <2>1, <2>2
  <1>3. e = markDirty(focusApp(m, app))
    BY DEF restoreApp
  <1> HIDE DEF m
  <1> DEFINE f == focusApp(m, app)
  <1>4. Raised(m, f)
    BY <1>2, FocusApp
  <1>5. Raised(d, f)
    BY <1>2, <1>4, RaisedAfter
  <1> HIDE DEF f
  <1>6. e = markDirty(f)
    BY <1>3 DEF f
  <1> QED
    BY <1>5, <1>6, RaisedDirty

LEMMA ReopenApp ==
  ASSUME NEW d \in Desks, Single(d), Focus(d), NEW app, isAppOpen(d, app),
         NEW e, e = Reopen(d, app)
  PROVE  Raised(d, e) /\ (e.dirty \/ View(e) = View(d))
  <1>1. CASE isMinimized(d, app)
    BY <1>1, RestoreApp DEF Reopen
  <1>2. CASE ~isMinimized(d, app)
    <2>1. e = focusApp(d, app)
      BY <1>2 DEF Reopen
    <2>2. IndexOf(d, app) \in Shown(d) /\ d.wins[IndexOf(d, app)].app = app
      BY <1>2, IndexOfApp DEF isMinimized, Shown
    <2>3. app \in OnScreen(d)
      BY <2>2 DEF OnScreen
    <2> QED
      BY <2>1, <2>3, FocusApp
  <1> QED
    BY <1>1, <1>2

LEMMA MinimizeApp ==
  ASSUME NEW d \in Desks, Single(d), Focus(d), NEW app, isAppOpen(d, app),
         NEW e, e = minimizeApp(d, app)
  PROVE  /\ e \in Desks /\ e = [d EXCEPT !.wins = e.wins, !.dirty = TRUE]
         /\ Single(e) /\ Focus(e) /\ Opened(e) = Opened(d)
         /\ Bounded(d) => Bounded(e)
  <1> DEFINE i == IndexOf(d, app)
             m == setState(d, i, "minimized")
  <1>1. i \in DOMAIN d.wins
    BY IndexOfApp
  <1>2. "minimized" \in States
    BY DEF States
  <1>3. e = markDirty(m)
    BY DEF minimizeApp
  <1>4. /\ m \in Desks /\ m = [d EXCEPT !.wins = m.wins]
        /\ Opened(m) = Opened(d) /\ Single(m) /\ Focus(m)
        /\ Bounded(d) => Bounded(m)
    BY <1>1, <1>2, SetState, MinimizeKeepsFocus
  <1> HIDE DEF m
  <1>5. e \in Desks /\ e = [m EXCEPT !.dirty = TRUE] /\ e.wins = m.wins
    BY <1>3, <1>4, MarkDirty
  <1>6. e = [d EXCEPT !.wins = e.wins, !.dirty = TRUE]
        /\ e.resized = m.resized /\ e.rotation = m.rotation
    <2>1. e = [[d EXCEPT !.wins = m.wins] EXCEPT !.dirty = TRUE]
      BY <1>4, <1>5
    <2>2. \A w : [[d EXCEPT !.wins = w] EXCEPT !.dirty = TRUE]
                 = [d EXCEPT !.wins = w, !.dirty = TRUE]
      BY DEF Desks
    <2> QED
      BY <1>4, <1>5, <2>1, <2>2 DEF Desks
  <1> QED
    BY <1>4, <1>5, <1>6, SameWindows

-----------------------------------------------------------------------------
(* setup, teardown, Destroyed                                               *)

(* The fields a script is not told of                                       *)
Rest(d, e) ==
  /\ e.panel = d.panel /\ e.keyboard = d.keyboard /\ e.resized = d.resized
  /\ e.rotation = d.rotation /\ e.pressedKey = d.pressedKey /\ e.ub = d.ub

LEMMA Setup ==
  ASSUME NEW d \in Desks, NEW scripts \in Seq(Apps \union {Panel}),
         NEW e, e = setup(d, scripts)
  PROVE  /\ e \in Desks /\ Rest(d, e)
         /\ e.wins = d.wins
         /\ e.consumer = d.consumer /\ e.queue = d.queue /\ e.toRun = d.toRun
         /\ \A p \in ToSet(e.popups) :
              p \in ToSet(d.popups) \/ (p.live /\ p.owner \in ToSet(scripts))
  <1> DEFINE owners == Only(scripts, PopupOwners)
             new == [k \in DOMAIN owners |-> NewPopup(owners[k])]
             d1  == [d EXCEPT !.popups = d.popups \o new]
  <1>1. owners \in Seq(Apps \union {Panel}) /\ ToSet(owners) = ToSet(scripts) \intersect PopupOwners
    BY OnlyKeeps
  <1> HIDE DEF owners
  <1>2. /\ DOMAIN owners = 1 .. Len(owners) /\ Len(owners) \in Nat
        /\ \A k \in 1 .. Len(owners) : owners[k] \in PopupOwners /\ owners[k] \in ToSet(scripts)
    BY <1>1 DEF ToSet
  <1>3. new \in Seq(Popups) /\ Len(new) = Len(owners)
        /\ \A k \in 1 .. Len(owners) : new[k] = NewPopup(owners[k])
    <2>1. \A k \in 1 .. Len(owners) : NewPopup(owners[k]) \in Popups
      BY <1>2 DEF NewPopup, Popups
    <2>2. new = [k \in 1 .. Len(owners) |-> NewPopup(owners[k])]
      BY <1>2
    <2> QED
      BY <1>2, <2>1, <2>2
  <1> HIDE DEF new
  <1>4. e = d1 \/ e = showError(d1)
    BY DEF setup, new, owners
  <1>5. d.popups \in Seq(Popups)
    BY DEF Desks
  <1>6. /\ d.popups \o new \in Seq(Popups)
        /\ Len(d.popups \o new) = Len(d.popups) + Len(new)
        /\ \A k \in 1 .. Len(d.popups) + Len(new) :
             (d.popups \o new)[k] = IF k <= Len(d.popups) THEN d.popups[k]
                                    ELSE new[k - Len(d.popups)]
    BY <1>3, <1>5, ConcatProperties, ZenonT(30)
  <1>7. /\ e \in Desks /\ Rest(d, e) /\ e.popups = d.popups \o new
        /\ e.wins = d.wins
        /\ e.consumer = d.consumer /\ e.queue = d.queue /\ e.toRun = d.toRun
    <2>1. /\ d1 \in Desks /\ Rest(d, d1) /\ d1.popups = d.popups \o new
          /\ d1.wins = d.wins
          /\ d1.consumer = d.consumer /\ d1.queue = d.queue /\ d1.toRun = d.toRun
      BY <1>6 DEF Desks, Rest
    <2> HIDE DEF d1
    <2>2. CASE e = d1
      BY <2>1, <2>2
    <2>3. CASE e = showError(d1)
      <3> DEFINE error == IF d1.error = "hidden" THEN "shown" ELSE d1.error
                 d2 == [d1 EXCEPT !.error = error]
      <3>1. e = markDirty(d2)
        BY <2>3 DEF showError
      <3>2. error \in {"hidden", "shown", "pressed"}
        BY <2>1 DEF Desks
      <3> HIDE DEF error
      <3>3. /\ d2 \in Desks /\ Rest(d1, d2) /\ d2.popups = d1.popups /\ d2.wins = d1.wins
            /\ d2.consumer = d1.consumer /\ d2.queue = d1.queue /\ d2.toRun = d1.toRun
        BY <2>1, <3>2 DEF Desks, Rest
      <3> HIDE DEF d2
      <3>4. /\ e \in Desks /\ Rest(d2, e) /\ e.popups = d2.popups /\ e.wins = d2.wins
            /\ e.consumer = d2.consumer /\ e.queue = d2.queue /\ e.toRun = d2.toRun
        BY <3>1, <3>3 DEF markDirty, Desks, Rest
      <3> QED
        BY <2>1, <3>3, <3>4 DEF Rest
    <2> QED
      BY <1>4, <2>2, <2>3
  <1>8. ASSUME NEW p \in ToSet(e.popups)
        PROVE  p \in ToSet(d.popups) \/ (p.live /\ p.owner \in ToSet(scripts))
    <2>1. PICK k \in 1 .. Len(d.popups) + Len(new) : p = (d.popups \o new)[k]
      BY <1>6, <1>7 DEF ToSet
    <2>2. Len(d.popups) \in Nat /\ DOMAIN d.popups = 1 .. Len(d.popups)
      BY <1>5
    <2>3. CASE k <= Len(d.popups)
      BY <1>6, <2>1, <2>2, <2>3 DEF ToSet
    <2>4. CASE ~(k <= Len(d.popups))
      <3>1. k - Len(d.popups) \in 1 .. Len(owners)
        BY <1>2, <1>3, <2>1, <2>2, <2>4
      <3>2. p = NewPopup(owners[k - Len(d.popups)])
        BY <1>3, <1>6, <2>1, <2>4, <3>1
      <3> QED
        BY <1>2, <3>1, <3>2 DEF NewPopup
    <2> QED
      BY <2>3, <2>4
  <1> QED
    BY <1>7, <1>8

LEMMA Teardown ==
  ASSUME NEW d \in Desks, NEW scripts, NEW e, e = teardown(d, scripts)
  PROVE  /\ e \in Desks /\ Rest(d, e)
         /\ e.wins = d.wins
         /\ e.consumer = d.consumer /\ e.queue = d.queue /\ e.toRun = d.toRun
         /\ \A p \in ToSet(e.popups) :
              p \in ToSet(d.popups) /\ (p.live => p.owner \notin scripts \ FailingApps)
  <1> DEFINE done == scripts \ FailingApps
             left == {p \in Popups : ~(p.owner \in done /\ p.live)}
             kept == Only(d.popups, left)
  <1>1. d.popups \in Seq(Popups)
    BY DEF Desks
  <1>2. kept \in Seq(Popups) /\ ToSet(kept) = ToSet(d.popups) \intersect left
    <2> HIDE DEF left
    <2> QED
      BY <1>1, OnlyKeeps
  <1>3. CASE done = {}
    <2>1. e = d
      BY <1>3 DEF teardown
    <2> QED
      BY <1>3, <2>1 DEF Rest
  <1>4. CASE done # {}
    <2>1. e = [markDirty(d) EXCEPT !.popups = Only(@, left)]
      BY <1>4 DEF teardown
    <2> HIDE DEF left, done
    <2>2. e = [markDirty(d) EXCEPT !.popups = kept]
      BY <2>1 DEF markDirty, Desks
    <2> HIDE DEF kept
    <2>3. /\ e \in Desks /\ Rest(d, e) /\ e.popups = kept
          /\ e.wins = d.wins
          /\ e.consumer = d.consumer /\ e.queue = d.queue /\ e.toRun = d.toRun
      BY <1>2, <2>2 DEF Desks, Rest, markDirty
    <2> QED
      BY <1>2, <2>3 DEF left, done
  <1> QED
    BY <1>3, <1>4

LEMMA Orphans ==
  ASSUME NEW d \in Desks, NEW owner, NEW e, e = Orphaned(d, owner)
  PROVE  /\ e \in Desks /\ Rest(d, e)
         /\ e.wins = d.wins
         /\ e.consumer = d.consumer /\ e.queue = d.queue /\ e.toRun = d.toRun
         /\ (\A p \in ToSet(d.popups) : p.owner # owner) => e.popups = d.popups
  <1> DEFINE orphan(k) == [d.popups[k] EXCEPT !.live = @ /\ d.popups[k].owner # owner]
             orphaned  == [k \in DOMAIN d.popups |-> orphan(k)]
  <1>1. d.popups \in Seq(Popups)
    BY DEF Desks
  <1>2. DOMAIN d.popups = 1 .. Len(d.popups) /\ Len(d.popups) \in Nat
        /\ \A k \in 1 .. Len(d.popups) : d.popups[k] \in Popups /\ d.popups[k] \in ToSet(d.popups)
    BY <1>1, ElementOfSeq DEF ToSet
  <1>3. \A k \in 1 .. Len(d.popups) :
          /\ orphan(k) \in Popups
          /\ d.popups[k].owner # owner => orphan(k) = d.popups[k]
    BY <1>2 DEF Popups
  <1>4. orphaned = [k \in 1 .. Len(d.popups) |-> orphan(k)]
    BY <1>2
  <1>5. e = [d EXCEPT !.popups = orphaned]
    BY DEF Orphaned
  <1> HIDE DEF orphan, orphaned
  <1>6. orphaned \in Seq(Popups) /\ DOMAIN orphaned = 1 .. Len(d.popups)
        /\ Len(orphaned) = Len(d.popups)
    BY <1>2, <1>3, <1>4
  <1>7. /\ e \in Desks /\ Rest(d, e) /\ e.popups = orphaned /\ e.wins = d.wins
        /\ e.consumer = d.consumer /\ e.queue = d.queue /\ e.toRun = d.toRun
    BY <1>5, <1>6 DEF Desks, Rest
  <1>8. ASSUME \A p \in ToSet(d.popups) : p.owner # owner
        PROVE  orphaned = d.popups
    <2>1. \A k \in 1 .. Len(d.popups) : orphaned[k] = d.popups[k]
      BY <1>2, <1>3, <1>4, <1>8
    <2> QED
      BY <1>1, <1>2, <1>6, <2>1
  <1> QED
    BY <1>7, <1>8

(* Actions of which some have lost what they captured                       *)
Dulled(p, q) ==
  /\ Len(q) = Len(p)
  /\ \A k \in 1 .. Len(p) :
       /\ q[k].kind = p[k].kind /\ q[k].app = p[k].app /\ q[k].tap = p[k].tap
       /\ q[k].live => p[k].live

LEMMA DulledActions ==
  ASSUME NEW p \in Seq(Items), NEW scripts, NEW gone, NEW q, q = Dangle(p, scripts, gone)
  PROVE  /\ q \in Seq(Items) /\ Dulled(p, q)
         /\ \A item \in ToSet(q) : item.kind = "cycle" /\ item.live => item.app \notin scripts
  <1>1. DOMAIN p = 1 .. Len(p) /\ Len(p) \in Nat /\ \A k \in 1 .. Len(p) : p[k] \in Items
    BY ElementOfSeq
  <1> DEFINE dull(k) == [p[k] EXCEPT !.live = @ /\ ~Captures(p[k], scripts, gone)]
  <1>2. q = [k \in 1 .. Len(p) |-> dull(k)]
    BY <1>1 DEF Dangle
  <1>3. \A k \in 1 .. Len(p) :
          /\ dull(k) \in Items
          /\ dull(k).kind = p[k].kind /\ dull(k).app = p[k].app /\ dull(k).tap = p[k].tap
          /\ dull(k).live <=> p[k].live /\ ~Captures(p[k], scripts, gone)
    <2> SUFFICES ASSUME NEW k \in 1 .. Len(p)
                 PROVE  /\ dull(k) \in Items
                        /\ dull(k).kind = p[k].kind /\ dull(k).app = p[k].app
                        /\ dull(k).tap = p[k].tap
                        /\ dull(k).live <=> p[k].live /\ ~Captures(p[k], scripts, gone)
      OBVIOUS
    <2>1. p[k] \in Items
      BY <1>1
    <2> DEFINE b == p[k].live /\ ~Captures(p[k], scripts, gone)
    <2>2. b \in BOOLEAN /\ dull(k) = [p[k] EXCEPT !.live = b]
      BY <2>1 DEF Items
    <2> HIDE DEF b, dull
    <2>3. /\ dull(k) \in Items
          /\ dull(k).kind = p[k].kind /\ dull(k).app = p[k].app /\ dull(k).tap = p[k].tap
          /\ dull(k).live = b
      BY <2>1, <2>2 DEF Items
    <2> QED
      BY <2>3 DEF b
  <1> HIDE DEF dull
  <1>4. q \in Seq(Items) /\ Len(q) = Len(p) /\ \A k \in 1 .. Len(p) : q[k] = dull(k)
    BY <1>1, <1>2, <1>3
  <1>5. DOMAIN q = 1 .. Len(p)
    BY <1>1, <1>4
  <1>6. Dulled(p, q)
    BY <1>3, <1>4 DEF Dulled
  <1>7. ASSUME NEW item \in ToSet(q), item.kind = "cycle", item.live
        PROVE  item.app \notin scripts
    BY <1>3, <1>4, <1>5, <1>7 DEF ToSet, Captures
  <1> QED
    BY <1>4, <1>6, <1>7

LEMMA Destruction ==
  ASSUME NEW d \in Desks, NEW scripts, NEW gone, NEW e, e = Destroyed(d, scripts, gone)
  PROVE  /\ e \in Desks /\ Rest(d, e)
         /\ e.wins = d.wins /\ e.dirty = d.dirty /\ e.popups = d.popups
         /\ e.queue = Dangle(d.queue, scripts, gone)
         /\ e.toRun = Dangle(d.toRun, scripts, gone)
         /\ e.consumer.app = d.consumer.app
         /\ e.consumer.live => d.consumer.live /\ d.consumer.app \notin scripts
  <1> DEFINE q == Dangle(d.queue, scripts, gone)
             r == Dangle(d.toRun, scripts, gone)
             c == d.consumer.live /\ d.consumer.app \notin scripts
             f == [d.consumer EXCEPT !.live = c]
  <1>1. d.queue \in Seq(Items) /\ d.toRun \in Seq(Items)
        /\ d.consumer \in [app : Apps \union {None}, live : BOOLEAN]
    BY DEF Desks
  <1>2. q \in Seq(Items) /\ r \in Seq(Items)
    BY <1>1, DulledActions
  <1>3. c \in BOOLEAN
    BY <1>1
  <1>4. e = [d EXCEPT !.queue = q, !.toRun = r, !.consumer = f]
    BY DEF Destroyed, Desks
  <1> HIDE DEF q, r, c
  <1>5. f \in [app : Apps \union {None}, live : BOOLEAN] /\ f.app = d.consumer.app /\ f.live = c
    BY <1>1, <1>3
  <1> HIDE DEF f
  <1>6. /\ e \in Desks /\ Rest(d, e)
        /\ e.wins = d.wins /\ e.dirty = d.dirty /\ e.popups = d.popups
        /\ e.queue = q /\ e.toRun = r /\ e.consumer = f
    <2>1. \A g \in [app : Apps \union {None}, live : BOOLEAN] :
            [d EXCEPT !.queue = q, !.toRun = r, !.consumer = g] \in Desks
      BY <1>2 DEF Desks
    <2>2. e \in Desks
      BY <1>4, <1>5, <2>1
    <2>3. /\ e.wins = d.wins /\ e.dirty = d.dirty /\ e.popups = d.popups
          /\ e.queue = q /\ e.toRun = r /\ e.consumer = f
      BY <1>4 DEF Desks
    <2>4. Rest(d, e)
      BY <1>4 DEF Desks, Rest
    <2> QED
      BY <2>2, <2>3, <2>4
  <1> QED
    BY <1>5, <1>6 DEF q, r, c

LEMMA DulledItems ==
  ASSUME NEW p \in Seq(Items), NEW q \in Seq(Items), Dulled(p, q), NEW item \in ToSet(q)
  PROVE  \E was \in ToSet(p) : /\ item.kind = was.kind /\ item.app = was.app
                               /\ item.tap = was.tap /\ (item.live => was.live)
  <1>1. DOMAIN p = 1 .. Len(p) /\ DOMAIN q = 1 .. Len(p)
    BY DEF Dulled
  <1>2. PICK k \in 1 .. Len(p) : item = q[k]
    BY <1>1 DEF ToSet
  <1>3. p[k] \in ToSet(p)
    BY <1>1 DEF ToSet
  <1> QED
    BY <1>2, <1>3 DEF Dulled

-----------------------------------------------------------------------------
(* What every method leaves as it was                                       *)

LEMMA SameDulled ==
  ASSUME NEW p \in Seq(Items)
  PROVE  Dulled(p, p)
  BY DEF Dulled

(* Of a desktop everything but its windows, and whether it is dirty         *)
Beside(d, e) ==
  /\ Rest(d, e) /\ e.popups = d.popups /\ e.error = d.error
  /\ e.consumer = d.consumer /\ e.queue = d.queue /\ e.toRun = d.toRun

LEMMA Updated ==
  ASSUME NEW d \in Desks, NEW e, e = updateActiveStates(d)
  PROVE  /\ e \in Desks /\ Beside(d, e) /\ e.dirty = d.dirty
         /\ Focus(e) /\ (Single(d) => Single(e))
         /\ Opened(e) = Opened(d) /\ OnScreen(e) = OnScreen(d)
         /\ Bounded(d) => Bounded(e)
  <1>1. e \in Desks /\ e = [d EXCEPT !.wins = e.wins] /\ Relit(d, e) /\ Focus(e)
    BY UpdateActiveKeeps
  <1>2. /\ Opened(e) = Opened(d) /\ OnScreen(e) = OnScreen(d)
        /\ Single(d) => Single(e)
        /\ \A i \in 1 .. Len(d.wins) : e.wins[i].bounds = d.wins[i].bounds
    BY <1>1, RelitSame
  <1>3. Beside(d, e) /\ e.dirty = d.dirty
    BY <1>1 DEF Desks, Beside, Rest
  <1>4. DOMAIN e.wins = 1 .. Len(d.wins) /\ DOMAIN d.wins = 1 .. Len(d.wins)
    BY <1>1, WinsDomain DEF Relit
  <1>5. Bounded(d) => Bounded(e)
    BY <1>2, <1>3, <1>4 DEF Bounded, Bounds, Beside, Rest
  <1> QED
    BY <1>1, <1>2, <1>3, <1>5

LEMMA Marked ==
  ASSUME NEW d \in Desks, NEW e, e = markDirty(d)
  PROVE  /\ e \in Desks /\ Beside(d, e) /\ e.dirty /\ e.wins = d.wins
         /\ (Focus(d) => Focus(e)) /\ (Single(d) => Single(e))
         /\ Opened(e) = Opened(d) /\ OnScreen(e) = OnScreen(d)
         /\ Bounded(d) => Bounded(e)
         /\ Sound(d) => Sound(e)
  <1>1. e \in Desks /\ Beside(d, e) /\ e.dirty /\ e.wins = d.wins
    BY DEF markDirty, Desks, Beside, Rest
  <1>2. e.resized = d.resized /\ e.rotation = d.rotation
        /\ e.consumer = d.consumer /\ e.queue = d.queue /\ e.toRun = d.toRun
    BY <1>1 DEF Beside, Rest
  <1>3. /\ (Focus(d) => Focus(e)) /\ (Single(d) => Single(e))
        /\ Opened(e) = Opened(d) /\ OnScreen(e) = OnScreen(d)
        /\ Bounded(d) => Bounded(e)
    BY <1>1, <1>2, SameWindows
  <1>4. Sound(d) => Sound(e)
    BY <1>1, <1>2, <1>3 DEF Sound, Keys, Actions, Waiting
  <1> QED
    BY <1>1, <1>3, <1>4

(* What a method that destroys the windows of some scripts, or none, leaves *)
LEMMA SoundAfter ==
  ASSUME NEW d \in Desks, Sound(d), NEW e \in Desks, Single(e), Focus(e),
         NEW scripts, NEW gone,
         Opened(d) \ scripts \subseteq Opened(e), OnScreen(d) \ scripts \subseteq OnScreen(e),
         e.queue = Dangle(d.queue, scripts, gone), e.toRun = Dangle(d.toRun, scripts, gone),
         e.consumer.app = d.consumer.app,
         e.consumer.live => d.consumer.live /\ d.consumer.app \notin scripts
  PROVE  Sound(e) /\ Dulled(d.queue, e.queue) /\ Dulled(d.toRun, e.toRun)
  <1>1. d.queue \in Seq(Items) /\ d.toRun \in Seq(Items)
    BY DEF Desks
  <1>2. /\ e.queue \in Seq(Items) /\ Dulled(d.queue, e.queue)
        /\ \A item \in ToSet(e.queue) : item.kind = "cycle" /\ item.live => item.app \notin scripts
    BY <1>1, DulledActions
  <1>3. /\ e.toRun \in Seq(Items) /\ Dulled(d.toRun, e.toRun)
        /\ \A item \in ToSet(e.toRun) : item.kind = "cycle" /\ item.live => item.app \notin scripts
    BY <1>1, DulledActions
  <1>4. Keys(e)
    BY DEF Keys, Sound
  <1>5. ASSUME NEW item \in Waiting(e)
        PROVE  /\ item.kind \in WindowActions => item.app \in Apps
               /\ item.kind = "cycle" /\ item.live => item.app \in OnScreen(e)
    <2>1. \E was \in Waiting(d) : /\ item.kind = was.kind /\ item.app = was.app
                                  /\ item.live => was.live
      <3>1. CASE item \in ToSet(e.queue)
        BY <1>1, <1>2, <3>1, DulledItems DEF Waiting
      <3>2. CASE item \in ToSet(e.toRun)
        BY <1>1, <1>3, <3>2, DulledItems DEF Waiting
      <3> QED
        BY <3>1, <3>2 DEF Waiting
    <2>2. PICK was \in Waiting(d) : /\ item.kind = was.kind /\ item.app = was.app
                                    /\ item.live => was.live
      BY <2>1
    <2>3. item.kind = "cycle" /\ item.live => item.app \notin scripts
      BY <1>2, <1>3 DEF Waiting
    <2>4. /\ was.kind \in WindowActions => was.app \in Apps
          /\ was.kind = "cycle" /\ was.live => was.app \in OnScreen(d)
      BY <2>2 DEF Sound, Actions
    <2> QED
      BY <2>2, <2>3, <2>4
  <1> QED
    BY <1>2, <1>3, <1>4, <1>5 DEF Sound, Actions

Steady(d, e) ==
  /\ Sound(e)
  /\ Fits(d) => Fits(e)
  /\ Owned(d) => Owned(e)
  /\ Dulled(d.queue, e.queue) /\ Dulled(d.toRun, e.toRun)

(* and, of what it has changed on the screen, that it is to be drawn        *)
Kept(d, e) ==
  /\ Steady(d, e)
  /\ e.ub = d.ub
  /\ e.dirty \/ View(e) = View(d)
  /\ d.dirty => e.dirty

LEMMA Unchanged ==
  ASSUME NEW d, Sound(d)
  PROVE  Kept(d, d)
  <1>1. d.queue \in Seq(Items) /\ d.toRun \in Seq(Items)
    BY DEF Sound, Desks
  <1> QED
    BY <1>1, SameDulled DEF Kept, Steady

LEMMA RaisedKept ==
  ASSUME NEW d, Sound(d), NEW e, Raised(d, e), e.dirty \/ View(e) = View(d)
  PROVE  Kept(d, e) /\ e.queue = d.queue /\ e.toRun = d.toRun /\ e.panel = d.panel
         /\ e.popups = d.popups
  <1>1. d \in Desks /\ d.queue \in Seq(Items) /\ d.toRun \in Seq(Items)
    BY DEF Sound, Desks
  <1>2. Sound(e) /\ (Fits(d) => Fits(e)) /\ (Owned(d) => Owned(e))
    BY <1>1, RaisedIsSound
  <1>3. e.panel = d.panel /\ e.popups = d.popups
        /\ e.queue = d.queue /\ e.toRun = d.toRun /\ e.ub = d.ub
    BY <1>1, RaisedFields
  <1>4. d.dirty => e.dirty
    BY DEF Raised
  <1> QED
    BY <1>1, <1>2, <1>3, <1>4, SameDulled DEF Kept, Steady

LEMMA restoreAppKeeps ==
  ASSUME NEW d, Sound(d), NEW app, NEW e, e = restoreApp(d, app)
  PROVE  Kept(d, e)
  <1>1. CASE ~isAppOpen(d, app)
    BY <1>1, Unchanged DEF restoreApp
  <1>2. CASE isAppOpen(d, app)
    <2>1. Raised(d, e) /\ e.dirty
      BY <1>2, RestoreApp DEF Sound
    <2> QED
      BY <2>1, RaisedKept
  <1> QED
    BY <1>1, <1>2

LEMMA openAppByNameKeeps ==
  ASSUME NEW d, Sound(d), NEW app, NEW e, e = openAppByName(d, app)
  PROVE  Kept(d, e)
  <1>1. CASE ~isAppOpen(d, app)
    BY <1>1, Unchanged DEF openAppByName
  <1>2. CASE isAppOpen(d, app)
    <2>1. e = Reopen(d, app)
      BY <1>2 DEF openAppByName
    <2>2. Raised(d, e) /\ (e.dirty \/ View(e) = View(d))
      BY <1>2, <2>1, ReopenApp DEF Sound
    <2> QED
      BY <2>2, RaisedKept
  <1> QED
    BY <1>1, <1>2

LEMMA minimizeAppKeeps ==
  ASSUME NEW d, Sound(d), \A item \in Waiting(d) : item.kind # "cycle",
         NEW app, NEW e, e = minimizeApp(d, app)
  PROVE  Kept(d, e)
  <1>1. CASE ~isAppOpen(d, app)
    BY <1>1, Unchanged DEF minimizeApp
  <1>2. CASE isAppOpen(d, app)
    <2>1. d \in Desks /\ d.queue \in Seq(Items) /\ d.toRun \in Seq(Items)
      BY DEF Sound, Desks
    <2>2. /\ e \in Desks /\ e = [d EXCEPT !.wins = e.wins, !.dirty = TRUE]
          /\ Single(e) /\ Focus(e) /\ Opened(e) = Opened(d)
          /\ Bounded(d) => Bounded(e)
      BY <1>2, <2>1, MinimizeApp DEF Sound
    <2>3. Beside(d, e) /\ e.dirty
      BY <2>1, <2>2 DEF Desks, Beside, Rest
    <2>4. Sound(e)
      BY <2>2, <2>3 DEF Sound, Keys, Actions, Waiting, Beside
    <2>5. (Fits(d) => Fits(e)) /\ (Owned(d) => Owned(e))
      BY <2>2, <2>3 DEF Fits, Owned, Beside, Rest
    <2> QED
      BY <2>1, <2>3, <2>4, <2>5, SameDulled DEF Kept, Steady, Beside, Rest
  <1> QED
    BY <1>1, <1>2

-----------------------------------------------------------------------------
(* openApp and closeApp                                                     *)

LEMMA AddWindow ==
  ASSUME NEW d \in Desks, NEW w \in Windows, w.app \notin Opened(d), w.state # "minimized",
         w.bounds = Bounds(d, w.bounds.shape), Single(d),
         NEW e, e = [d EXCEPT !.wins = Append(@, w)]
  PROVE  /\ e \in Desks /\ Beside(d, e) /\ e.dirty = d.dirty
         /\ Single(e)
         /\ Opened(e) = Opened(d) \union {w.app}
         /\ OnScreen(d) \subseteq OnScreen(e)
         /\ Bounded(d) => Bounded(e)
  <1> DEFINE n == Len(d.wins)
             v == Append(d.wins, w)
  <1>1. d.wins \in Seq(Windows) /\ n \in Nat /\ DOMAIN d.wins = 1 .. n
    BY WinsDomain
  <1>2. v \in Seq(Windows) /\ DOMAIN v = 1 .. n + 1 /\ v[n + 1] = w
        /\ \A i \in 1 .. n : v[i] = d.wins[i]
    <2> HIDE DEF n
    <2>1. n = Len(d.wins)
      BY DEF n
    <2> QED
      BY <1>1, <2>1
  <1>3. e = [d EXCEPT !.wins = v]
    BY DEF Desks
  <1> HIDE DEF v
  <1>4. e \in Desks /\ Beside(d, e) /\ e.dirty = d.dirty /\ e.wins = v
    BY <1>2, <1>3 DEF Desks, Beside, Rest
  <1> HIDE DEF n
  <1>5. \A i \in 1 .. n + 1 : i \in 1 .. n \/ i = n + 1
    BY <1>1
  <1>6. 1 .. n \subseteq 1 .. n + 1 /\ n + 1 \in 1 .. n + 1 /\ n + 1 \notin 1 .. n
    BY <1>1
  <1>7. Single(e)
    <2> SUFFICES ASSUME NEW i \in 1 .. n + 1, NEW j \in 1 .. n + 1, v[i].app = v[j].app
                 PROVE  i = j
      BY <1>2, <1>4, ZenonT(30) DEF Single
    <2>1. \A k \in 1 .. n : v[k].app \in Opened(d)
      BY <1>1, <1>2 DEF Opened
    <2>2. CASE i \in 1 .. n /\ j \in 1 .. n
      BY <1>1, <1>2, <2>2 DEF Single
    <2>3. CASE i = n + 1 \/ j = n + 1
      BY <1>2, <1>5, <2>1, <2>3
    <2> QED
      BY <1>5, <2>2, <2>3
  <1>8. Opened(e) = Opened(d) \union {w.app}
    <2>1. \A i \in 1 .. n + 1 : v[i].app \in Opened(d) \union {w.app}
      BY <1>1, <1>2, <1>5 DEF Opened
    <2>2. Opened(d) \union {w.app} \subseteq {v[i].app : i \in 1 .. n + 1}
      <3>1. \A i \in 1 .. n : d.wins[i].app \in {v[k].app : k \in 1 .. n + 1}
        BY <1>2, <1>6
      <3>2. w.app \in {v[k].app : k \in 1 .. n + 1}
        BY <1>2, <1>6
      <3> QED
        BY <1>1, <3>1, <3>2 DEF Opened
    <2>3. Opened(e) = {v[i].app : i \in 1 .. n + 1}
      BY <1>2, <1>4 DEF Opened
    <2> QED
      BY <2>1, <2>2, <2>3
  <1>9. OnScreen(d) \subseteq OnScreen(e)
    BY <1>1, <1>2, <1>4, <1>6 DEF OnScreen, Shown
  <1>10. Bounded(d) => Bounded(e)
    BY <1>1, <1>2, <1>4, <1>5 DEF Bounded, Bounds, Beside, Rest
  <1> QED
    BY <1>4, <1>7, <1>8, <1>9, <1>10

LEMMA FreshWindow ==
  ASSUME NEW d \in Desks, NEW app \in Apps, NEW state \in States,
         NEW shape \in States \ {"minimized"}, NEW w, w = NewWindow(d, app, state, shape)
  PROVE  w \in Windows /\ w.app = app /\ w.state = state
         /\ w.bounds = Bounds(d, shape) /\ w.bounds.shape = shape
  <1>1. d.resized \in BOOLEAN /\ d.rotation \in Rotations
    BY DEF Desks
  <1>2. Bounds(d, shape) \in [shape : States \ {"minimized"}, resized : BOOLEAN,
                              rotation : Rotations]
        /\ Bounds(d, shape).shape = shape
    BY <1>1 DEF Bounds
  <1> QED
    BY <1>2 DEF NewWindow, Windows

LEMMA openAppKeeps ==
  ASSUME NEW d, Sound(d), NEW app \in Apps, NEW e, e = openApp(d, app)
  PROVE  /\ Kept(d, e) /\ e.queue = d.queue /\ e.toRun = d.toRun
  <1>0. d \in Desks /\ d.queue \in Seq(Items) /\ d.toRun \in Seq(Items)
    BY DEF Sound, Desks
  <1>1. CASE isAppOpen(d, app)
    <2>1. e = Reopen(d, app)
      BY <1>1 DEF openApp
    <2>2. Raised(d, e) /\ (e.dirty \/ View(e) = View(d))
      BY <1>0, <1>1, <2>1, ReopenApp DEF Sound
    <2> QED
      BY <2>2, RaisedKept
  <1>2. CASE ~isAppOpen(d, app)
    <2> DEFINE d1 == setup(d, <<app>>)
               w == NewWindow(d, app, "restored", "restored")
               d2 == [d1 EXCEPT !.wins = Append(@, w)]
               d3 == updateActiveStates(d2)
    <2>1. e = markDirty(d3)
      BY <1>2 DEF openApp
    <2>2. /\ d1 \in Desks /\ Rest(d, d1)
          /\ d1.wins = d.wins
          /\ d1.consumer = d.consumer /\ d1.queue = d.queue /\ d1.toRun = d.toRun
          /\ \A p \in ToSet(d1.popups) : p \in ToSet(d.popups) \/ (p.live /\ p.owner = app)
      <3>1. <<app>> \in Seq(Apps \union {Panel}) /\ ToSet(<<app>>) = {app}
        BY DEF ToSet
      <3> QED
        BY <1>0, <3>1, Setup, ZenonT(30)
    <2>3. /\ w \in Windows /\ w.app = app /\ w.state = "restored"
          /\ w.bounds = Bounds(d, w.bounds.shape)
      BY <1>0, FreshWindow DEF States
    <2> HIDE DEF d1, w
    <2>4. /\ Single(d1) /\ Opened(d1) = Opened(d) /\ OnScreen(d1) = OnScreen(d)
          /\ Bounded(d) => Bounded(d1)
          /\ w.bounds = Bounds(d1, w.bounds.shape)
      <3>1. d1.resized = d.resized /\ d1.rotation = d.rotation
        BY <2>2 DEF Rest
      <3>2. /\ Single(d1) /\ Opened(d1) = Opened(d) /\ OnScreen(d1) = OnScreen(d)
            /\ Bounded(d) => Bounded(d1)
        BY <2>2, <3>1, SameWindows DEF Sound
      <3> QED
        BY <2>3, <3>1, <3>2 DEF Bounds
    <2>5. app \notin Opened(d1)
      BY <1>2, <2>4 DEF isAppOpen, Opened
    <2>6. /\ d2 \in Desks /\ Beside(d1, d2)
          /\ Single(d2) /\ Opened(d2) = Opened(d1) \union {app}
          /\ OnScreen(d1) \subseteq OnScreen(d2)
          /\ Bounded(d1) => Bounded(d2)
      BY <2>2, <2>3, <2>4, <2>5, AddWindow
    <2> HIDE DEF d2
    <2>7. /\ d3 \in Desks /\ Beside(d2, d3) /\ Focus(d3) /\ Single(d3)
          /\ Opened(d3) = Opened(d2) /\ OnScreen(d3) = OnScreen(d2)
          /\ Bounded(d2) => Bounded(d3)
      BY <2>6, Updated
    <2> HIDE DEF d3
    <2>8. /\ e \in Desks /\ Beside(d3, e) /\ e.dirty /\ Focus(e) /\ Single(e)
          /\ Opened(e) = Opened(d3) /\ OnScreen(e) = OnScreen(d3)
          /\ Bounded(d3) => Bounded(e)
      BY <2>1, <2>7, Marked
    <2>9. /\ Rest(d, e) /\ e.popups = d1.popups
          /\ e.consumer = d.consumer /\ e.queue = d.queue /\ e.toRun = d.toRun
      BY <2>2, <2>6, <2>7, <2>8 DEF Beside, Rest
    <2>10. Sound(e)
      BY <1>0, <2>4, <2>6, <2>7, <2>8, <2>9, SoundAgain
    <2>11. Fits(d) => Fits(e)
      BY <2>4, <2>6, <2>7, <2>8, <2>9 DEF Fits, Rest
    <2>12. Owned(d) => Owned(e)
      <3>1. Opened(e) = Opened(d) \union {app} /\ app # Panel /\ e.panel = d.panel
        BY <2>4, <2>6, <2>7, <2>8, <2>9, WindowManagerAssumption DEF Rest
      <3> QED
        BY <2>2, <2>9, <3>1 DEF Owned
    <2> QED
      BY <1>0, <2>8, <2>9, <2>10, <2>11, <2>12, SameDulled DEF Kept, Steady, Rest
  <1> QED
    BY <1>1, <1>2

LEMMA RemoveWindow ==
  ASSUME NEW d \in Desks, NEW i \in DOMAIN d.wins, Single(d),
         NEW e, e = [d EXCEPT !.wins = RemoveAt(@, i)]
  PROVE  /\ e \in Desks /\ Beside(d, e) /\ e.dirty = d.dirty
         /\ Single(e)
         /\ Opened(d) \ {d.wins[i].app} \subseteq Opened(e)
         /\ OnScreen(d) \ {d.wins[i].app} \subseteq OnScreen(e)
         /\ Bounded(d) => Bounded(e)
  <1> DEFINE n == Len(d.wins)
             r == RemoveAt(d.wins, i)
             from(k) == IF k < i THEN k ELSE k + 1
  <1>1. d.wins \in Seq(Windows) /\ n \in Nat /\ DOMAIN d.wins = 1 .. n /\ i \in 1 .. n
    BY WinsDomain
  <1>2. r \in Seq(Windows) /\ Len(r) = n - 1
        /\ \A k \in 1 .. n - 1 : r[k] = IF k < i THEN d.wins[k] ELSE d.wins[k + 1]
    BY <1>1, RemoveAtShifts
  <1>3. e = [d EXCEPT !.wins = r]
    BY DEF Desks
  <1> HIDE DEF r
  <1>4. e \in Desks /\ Beside(d, e) /\ e.dirty = d.dirty /\ e.wins = r
    BY <1>2, <1>3 DEF Desks, Beside, Rest
  <1> HIDE DEF n
  <1>5. DOMAIN r = 1 .. n - 1
    BY <1>1, <1>2
  <1>6. \A k \in 1 .. n - 1 : from(k) \in 1 .. n /\ r[k] = d.wins[from(k)]
    BY <1>1, <1>2
  <1>7. \A k, l \in 1 .. n - 1 : from(k) = from(l) => k = l
    BY <1>1
  <1>8. \A l \in 1 .. n : l # i => \E k \in 1 .. n - 1 : from(k) = l
    <2> SUFFICES ASSUME NEW l \in 1 .. n, l # i PROVE \E k \in 1 .. n - 1 : from(k) = l
      OBVIOUS
    <2>1. CASE l < i
      <3>1. l \in 1 .. n - 1 /\ from(l) = l
        BY <1>1, <2>1
      <3> QED
        BY <3>1
    <2>2. CASE ~(l < i)
      <3>1. l - 1 \in 1 .. n - 1 /\ from(l - 1) = l
        BY <1>1, <2>2
      <3> QED
        BY <3>1
    <2> QED
      BY <2>1, <2>2
  <1> HIDE DEF from
  <1>9. Single(e)
    <2> SUFFICES ASSUME NEW k \in 1 .. n - 1, NEW l \in 1 .. n - 1, r[k].app = r[l].app
                 PROVE  k = l
      BY <1>4, <1>5, ZenonT(30) DEF Single
    <2>1. from(k) = from(l)
      BY <1>1, <1>6, SMTT(20) DEF Single
    <2> QED
      BY <1>7, <2>1
  <1>10. Opened(d) \ {d.wins[i].app} \subseteq Opened(e)
    <2> SUFFICES ASSUME NEW l \in 1 .. n, l # i PROVE d.wins[l].app \in Opened(e)
      BY <1>1 DEF Opened
    <2>1. PICK k \in 1 .. n - 1 : from(k) = l
      BY <1>8
    <2> QED
      BY <1>4, <1>5, <1>6, <2>1 DEF Opened
  <1>11. OnScreen(d) \ {d.wins[i].app} \subseteq OnScreen(e)
    <2> SUFFICES ASSUME NEW l \in Shown(d), l # i PROVE d.wins[l].app \in OnScreen(e)
      BY DEF OnScreen
    <2>1. PICK k \in 1 .. n - 1 : from(k) = l
      BY <1>1, <1>8 DEF Shown
    <2> QED
      BY <1>4, <1>5, <1>6, <2>1 DEF OnScreen, Shown
  <1>12. Bounded(d) => Bounded(e)
    BY <1>1, <1>4, <1>5, <1>6 DEF Bounded, Bounds, Beside, Rest
  <1> QED
    BY <1>4, <1>9, <1>10, <1>11, <1>12

LEMMA closeAppKeeps ==
  ASSUME NEW d, Sound(d), NEW app, NEW e, e = closeApp(d, app)
  PROVE  Kept(d, e)
  <1>0. d \in Desks
    BY DEF Sound
  <1>1. CASE ~isAppOpen(d, app)
    BY <1>1, Unchanged DEF closeApp
  <1>2. CASE isAppOpen(d, app)
    <2>0. PICK gone \in BOOLEAN : gone = TRUE
      OBVIOUS
    <2> DEFINE i == IndexOf(d, app)
               d0 == teardown(d, {app})
               d1 == Orphaned(d0, app)
               d2 == [d1 EXCEPT !.wins = RemoveAt(@, i)]
               d3 == updateActiveStates(d2)
               d4 == markDirty(d3)
               scripts == {app}
    <2>1. i \in DOMAIN d.wins /\ d.wins[i].app = app
      BY <1>2, IndexOfApp
    <2>2. /\ d0 \in Desks /\ Rest(d, d0) /\ d0.wins = d.wins
          /\ d0.consumer = d.consumer /\ d0.queue = d.queue /\ d0.toRun = d.toRun
          /\ \A p \in ToSet(d0.popups) :
               p \in ToSet(d.popups) /\ (p.live => p.owner \notin {app} \ FailingApps)
      BY <1>0, Teardown
    <2> HIDE DEF d0
    <2>3. /\ d1 \in Desks /\ Rest(d0, d1) /\ d1.wins = d0.wins
          /\ d1.consumer = d0.consumer /\ d1.queue = d0.queue /\ d1.toRun = d0.toRun
          /\ (\A p \in ToSet(d0.popups) : p.owner # app) => d1.popups = d0.popups
      BY <2>2, Orphans
    <2>4. /\ d1.wins = d.wins /\ Rest(d, d1)
          /\ d1.consumer = d.consumer /\ d1.queue = d.queue /\ d1.toRun = d.toRun
      BY <2>2, <2>3 DEF Rest
    <2>5. e = Destroyed(d4, scripts, gone) /\ d2 = [d1 EXCEPT !.wins = RemoveAt(@, i)]
      <3>1. [Orphaned(teardown(d, {app}), app) EXCEPT !.wins = RemoveAt(@, IndexOf(d, app))] = d2
        BY DEF d0
      <3> QED
        BY <1>2, <2>0, <3>1 DEF closeApp
    <2> HIDE DEF d1, d2, d3, d4, i, scripts
    <2>6. /\ Single(d1) /\ Opened(d1) = Opened(d) /\ OnScreen(d1) = OnScreen(d)
          /\ Bounded(d) => Bounded(d1)
      <3>1. d1.resized = d.resized /\ d1.rotation = d.rotation
        BY <2>4 DEF Rest
      <3> QED
        BY <2>4, <3>1, SameWindows DEF Sound
    <2>7. /\ d2 \in Desks /\ Beside(d1, d2) /\ Single(d2)
          /\ Opened(d1) \ {app} \subseteq Opened(d2)
          /\ OnScreen(d1) \ {app} \subseteq OnScreen(d2)
          /\ Bounded(d1) => Bounded(d2)
      <3>1. i \in DOMAIN d1.wins /\ d1.wins[i].app = app
        BY <2>1, <2>4
      <3> QED
        BY <2>3, <2>4, <2>5, <2>6, <3>1, RemoveWindow
    <2>8. /\ d3 \in Desks /\ Beside(d2, d3) /\ Focus(d3) /\ Single(d3)
          /\ Opened(d3) = Opened(d2) /\ OnScreen(d3) = OnScreen(d2)
          /\ Bounded(d2) => Bounded(d3)
      BY <2>7, Updated DEF d3
    <2>9. /\ d4 \in Desks /\ Beside(d3, d4) /\ d4.dirty /\ Focus(d4) /\ Single(d4)
          /\ Opened(d4) = Opened(d3) /\ OnScreen(d4) = OnScreen(d3)
          /\ Bounded(d3) => Bounded(d4)
      BY <2>8, Marked DEF d4
    <2>10. /\ e \in Desks /\ Rest(d4, e)
           /\ e.wins = d4.wins /\ e.dirty = d4.dirty /\ e.popups = d4.popups
           /\ e.queue = Dangle(d4.queue, scripts, gone)
           /\ e.toRun = Dangle(d4.toRun, scripts, gone)
           /\ e.consumer.app = d4.consumer.app
           /\ e.consumer.live => d4.consumer.live /\ d4.consumer.app \notin scripts
      BY <2>5, <2>9, Destruction, ZenonT(30)
    <2>11. /\ Rest(d, e) /\ e.popups = d1.popups
           /\ d4.consumer = d.consumer /\ d4.queue = d.queue /\ d4.toRun = d.toRun
      BY <2>4, <2>7, <2>8, <2>9, <2>10 DEF Beside, Rest
    <2>12. /\ Single(e) /\ Focus(e)
           /\ Opened(d) \ scripts \subseteq Opened(e) /\ OnScreen(d) \ scripts \subseteq OnScreen(e)
           /\ Bounded(d) => Bounded(e)
      <3>1. e.resized = d4.resized /\ e.rotation = d4.rotation
        BY <2>10 DEF Rest
      <3>2. /\ Single(e) /\ Focus(e)
            /\ Opened(e) = Opened(d4) /\ OnScreen(e) = OnScreen(d4)
            /\ Bounded(d4) => Bounded(e)
        BY <2>9, <2>10, <3>1, SameWindows
      <3> QED
        BY <2>6, <2>7, <2>8, <2>9, <3>2 DEF scripts
    <2>13. Sound(e) /\ Dulled(d.queue, e.queue) /\ Dulled(d.toRun, e.toRun)
      <3>1. /\ e.queue = Dangle(d.queue, scripts, gone) /\ e.toRun = Dangle(d.toRun, scripts, gone)
            /\ e.consumer.app = d.consumer.app
            /\ e.consumer.live => d.consumer.live /\ d.consumer.app \notin scripts
        BY <2>10, <2>11
      <3> QED
        BY <1>0, <2>10, <2>12, <3>1, SoundAfter
    <2>14. Fits(d) => Fits(e)
      BY <2>11, <2>12 DEF Fits, Rest
    <2>15. Owned(d) => Owned(e)
      <3> SUFFICES ASSUME Owned(d), NEW p \in ToSet(e.popups)
                   PROVE  /\ NoLeftovers /\ p.live
                          /\ IF p.owner = Panel THEN e.panel ELSE p.owner \in Opened(e)
        BY DEF Owned
      <3>1. d0.popups \in Seq(Popups)
        BY <2>2 DEF Desks
      <3>2. \A q \in ToSet(d0.popups) : q \in Popups
        BY <3>1, ElementOfSeq DEF ToSet
      <3>3. \A q \in ToSet(d0.popups) : q.owner # app
        BY <2>2, <3>2 DEF Owned, NoLeftovers, Popups
      <3>4. p \in ToSet(d.popups) /\ p.owner # app
        BY <2>2, <2>3, <2>11, <3>3
      <3> QED
        BY <2>11, <2>12, <3>4 DEF Owned, Rest, scripts
    <2> QED
      BY <2>9, <2>10, <2>11, <2>13, <2>14, <2>15 DEF Kept, Steady, Rest
  <1> QED
    BY <1>1, <1>2

-----------------------------------------------------------------------------
(* Rebuilding windows                                                       *)

(* New windows for some scripts, in the place of the old ones               *)
Replaces(wins, d, scripts) ==
  /\ wins \in Seq(Windows)
  /\ Len(wins) = Len(d.wins)
  /\ \A i \in 1 .. Len(wins) : /\ wins[i].app = d.wins[i].app
                               /\ wins[i].app \notin scripts => wins[i] = d.wins[i]

LEMMA ReplaceWindows ==
  ASSUME NEW d \in Desks, Single(d), NEW scripts, NEW wins, Replaces(wins, d, scripts),
         NEW e, e = [d EXCEPT !.wins = wins]
  PROVE  /\ e \in Desks /\ Beside(d, e) /\ e.dirty = d.dirty /\ e.wins = wins
         /\ Single(e)
         /\ Opened(e) = Opened(d)
         /\ OnScreen(d) \ scripts \subseteq OnScreen(e)
  <1>1. e \in Desks /\ Beside(d, e) /\ e.dirty = d.dirty /\ e.wins = wins
    BY DEF Replaces, Desks, Beside, Rest
  <1>2. DOMAIN e.wins = 1 .. Len(wins) /\ DOMAIN d.wins = 1 .. Len(wins)
    BY <1>1, WinsDomain DEF Replaces
  <1>3. Single(e) /\ Opened(e) = Opened(d)
    BY <1>1, <1>2 DEF Replaces, Single, Opened
  <1>4. ASSUME NEW app \in OnScreen(d) \ scripts
        PROVE  app \in OnScreen(e)
    <2>1. PICK i \in Shown(d) : d.wins[i].app = app
      BY DEF OnScreen
    <2>2. i \in 1 .. Len(wins) /\ wins[i] = d.wins[i]
      BY <1>2, <1>4, <2>1 DEF Replaces, Shown
    <2> QED
      BY <1>1, <1>2, <2>1, <2>2 DEF OnScreen, Shown
  <1> QED
    BY <1>1, <1>3, <1>4

LEMMA RebuiltKeeps ==
  ASSUME NEW d, Sound(d), NEW scripts \in Seq(Apps), ToSet(scripts) \subseteq Opened(d),
         NEW wins, Replaces(wins, d, ToSet(scripts)),
         NEW e, e = Rebuilt(d, scripts, wins)
  PROVE  /\ Sound(e) /\ Rest(d, e)
         /\ Dulled(d.queue, e.queue) /\ Dulled(d.toRun, e.toRun)
         /\ Opened(e) = Opened(d)
         /\ Owned(d) => Owned(e)
         /\ (\A i \in 1 .. Len(wins) : wins[i].bounds = Bounds(d, wins[i].bounds.shape))
              => Bounded(e)
  <1> DEFINE S == ToSet(scripts)
             d1 == teardown(d, S)
             d2 == setup(d1, scripts)
             d3 == Destroyed(d2, S, FALSE)
             d4 == [d3 EXCEPT !.wins = wins]
  <1>0. d \in Desks /\ scripts \in Seq(Apps \union {Panel})
    BY DEF Sound
  <1>1. e = updateActiveStates(d4)
    BY DEF Rebuilt
  <1>2. /\ d1 \in Desks /\ Rest(d, d1) /\ d1.wins = d.wins
        /\ d1.consumer = d.consumer /\ d1.queue = d.queue /\ d1.toRun = d.toRun
        /\ \A p \in ToSet(d1.popups) : p \in ToSet(d.popups)
    BY <1>0, Teardown
  <1> HIDE DEF d1
  <1>3. /\ d2 \in Desks /\ Rest(d1, d2) /\ d2.wins = d1.wins
        /\ d2.consumer = d1.consumer /\ d2.queue = d1.queue /\ d2.toRun = d1.toRun
        /\ \A p \in ToSet(d2.popups) : p \in ToSet(d1.popups) \/ (p.live /\ p.owner \in S)
    BY <1>0, <1>2, Setup
  <1> HIDE DEF d2, S
  <1>4. /\ d3 \in Desks /\ Rest(d2, d3)
        /\ d3.wins = d2.wins /\ d3.dirty = d2.dirty /\ d3.popups = d2.popups
        /\ d3.queue = Dangle(d2.queue, S, FALSE)
        /\ d3.toRun = Dangle(d2.toRun, S, FALSE)
        /\ d3.consumer.app = d2.consumer.app
        /\ d3.consumer.live => d2.consumer.live /\ d2.consumer.app \notin S
    BY <1>3, Destruction
  <1> HIDE DEF d3
  <1>5. /\ d3.wins = d.wins
        /\ Single(d3) /\ Opened(d3) = Opened(d) /\ OnScreen(d3) = OnScreen(d)
    <2>1. d3.wins = d.wins
      BY <1>2, <1>3, <1>4
    <2> QED
      BY <2>1, SameWindows DEF Sound
  <1>6. /\ d4 \in Desks /\ Beside(d3, d4) /\ d4.dirty = d3.dirty /\ d4.wins = wins
        /\ Single(d4) /\ Opened(d4) = Opened(d3) /\ OnScreen(d3) \ S \subseteq OnScreen(d4)
    <2>1. Replaces(wins, d3, S)
      BY <1>5 DEF S, Replaces
    <2> QED
      BY <1>4, <1>5, <2>1, ReplaceWindows
  <1> HIDE DEF d4
  <1>7. /\ e \in Desks /\ Beside(d4, e) /\ e.dirty = d4.dirty
        /\ Focus(e) /\ Single(e)
        /\ Opened(e) = Opened(d4) /\ OnScreen(e) = OnScreen(d4)
        /\ Bounded(d4) => Bounded(e)
    BY <1>1, <1>6, Updated
  <1>8. /\ Rest(d, e)
        /\ e.popups = d2.popups
        /\ e.queue = Dangle(d.queue, S, FALSE) /\ e.toRun = Dangle(d.toRun, S, FALSE)
        /\ e.consumer.app = d.consumer.app
        /\ e.consumer.live => d.consumer.live /\ d.consumer.app \notin S
    <2>1. Rest(d, e)
      BY <1>2, <1>3, <1>4, <1>6, <1>7 DEF Beside, Rest
    <2>2. e.popups = d2.popups
      BY <1>2, <1>3, <1>4, <1>6, <1>7 DEF Beside
    <2>3. e.queue = d3.queue /\ e.toRun = d3.toRun /\ e.consumer = d3.consumer
      BY <1>6, <1>7 DEF Beside
    <2> QED
      BY <1>2, <1>3, <1>4, <2>1, <2>2, <2>3
  <1>9. Opened(e) = Opened(d) /\ OnScreen(d) \ S \subseteq OnScreen(e)
    BY <1>5, <1>6, <1>7
  <1>10. Sound(e) /\ Dulled(d.queue, e.queue) /\ Dulled(d.toRun, e.toRun)
    BY <1>0, <1>7, <1>8, <1>9, SoundAfter
  <1>11. Owned(d) => Owned(e)
    <2> SUFFICES ASSUME Owned(d), NEW p \in ToSet(e.popups)
                 PROVE  /\ NoLeftovers /\ p.live
                        /\ IF p.owner = Panel THEN e.panel ELSE p.owner \in Opened(e)
      BY DEF Owned
    <2>1. p \in ToSet(d.popups) \/ (p.live /\ p.owner \in S)
      BY <1>2, <1>3, <1>8
    <2>2. \A s \in S : s \in Opened(d) /\ s # Panel
      <3>1. S \subseteq Apps
        BY <1>0 DEF S, ToSet
      <3> QED
        BY <3>1, WindowManagerAssumption DEF S
    <2>3. e.panel = d.panel
      BY <1>8 DEF Rest
    <2> QED
      BY <1>9, <2>1, <2>2, <2>3 DEF Owned
  <1>12. ASSUME \A i \in 1 .. Len(wins) : wins[i].bounds = Bounds(d, wins[i].bounds.shape)
         PROVE  Bounded(e)
    <2>1. d4.resized = d.resized /\ d4.rotation = d.rotation
      BY <1>2, <1>3, <1>4, <1>6 DEF Beside, Rest
    <2>2. DOMAIN d4.wins = 1 .. Len(wins)
      BY <1>6, WinsDomain
    <2> QED
      BY <1>6, <1>7, <1>12, <2>1, <2>2 DEF Bounded, Bounds
  <1> QED
    BY <1>7, <1>8, <1>9, <1>10, <1>11, <1>12

LEMMA WindowStateKeeps ==
  ASSUME NEW d, Sound(d), NEW app \in Apps, NEW state \in States,
         NEW e, e = handleWindowStateChange(d, app, state)
  PROVE  Kept(d, e)
  <1>0. d \in Desks
    BY DEF Sound
  <1>1. CASE ~isAppOpen(d, app) \/ state = "minimized"
    BY <1>1, Unchanged DEF handleWindowStateChange
  <1>2. CASE isAppOpen(d, app) /\ state # "minimized"
    <2> DEFINE i == IndexOf(d, app)
               w == NewWindow(d, app, state, state)
               wins == [d.wins EXCEPT ![i] = w]
               d1 == Rebuilt(d, <<app>>, wins)
    <2>1. e = markDirty(d1)
      BY <1>2 DEF handleWindowStateChange
    <2>2. i \in DOMAIN d.wins /\ d.wins[i].app = app
      BY <1>2, IndexOfApp
    <2>3. /\ w \in Windows /\ w.app = app /\ w.bounds = Bounds(d, state)
          /\ w.bounds.shape = state
      BY <1>0, <1>2, FreshWindow
    <2> HIDE DEF i, w
    <2>4. /\ wins \in Seq(Windows) /\ Len(wins) = Len(d.wins)
          /\ \A k \in 1 .. Len(d.wins) : wins[k] = IF k = i THEN w ELSE d.wins[k]
      BY <1>0, <2>2, <2>3, WinsDomain
    <2> HIDE DEF wins
    <2>5. <<app>> \in Seq(Apps) /\ ToSet(<<app>>) = {app} /\ app \in Opened(d)
      BY <1>2 DEF ToSet, isAppOpen, Opened
    <2>6. Replaces(wins, d, ToSet(<<app>>))
      BY <2>2, <2>3, <2>4, <2>5 DEF Replaces
    <2>7. ToSet(<<app>>) \subseteq Opened(d)
      BY <2>5
    <2> HIDE DEF d1
    <2>8. /\ Sound(d1) /\ Rest(d, d1)
          /\ Dulled(d.queue, d1.queue) /\ Dulled(d.toRun, d1.toRun)
          /\ Opened(d1) = Opened(d)
          /\ Owned(d) => Owned(d1)
          /\ (\A k \in 1 .. Len(wins) : wins[k].bounds = Bounds(d, wins[k].bounds.shape))
               => Bounded(d1)
      BY <2>5, <2>6, <2>7, RebuiltKeeps DEF d1
    <2>9. Bounded(d) => Bounded(d1)
      <3> SUFFICES ASSUME Bounded(d), NEW k \in 1 .. Len(wins)
                   PROVE  wins[k].bounds = Bounds(d, wins[k].bounds.shape)
        BY <2>8
      <3> QED
        BY <1>0, <2>3, <2>4, WinsDomain DEF Bounded
    <2>10. /\ Sound(e) /\ Beside(d1, e) /\ e.dirty /\ Opened(e) = Opened(d1)
           /\ Bounded(d1) => Bounded(e)
      BY <2>1, <2>8, Marked DEF Sound
    <2>11. /\ e.queue = d1.queue /\ e.toRun = d1.toRun /\ e.ub = d.ub
           /\ Fits(d) => Fits(e)
           /\ Owned(d) => Owned(e)
      BY <2>8, <2>9, <2>10 DEF Beside, Rest, Fits, Owned
    <2> QED
      BY <2>8, <2>10, <2>11 DEF Kept, Steady
  <1> QED
    BY <1>1, <1>2

LEMMA relayoutWindowsKeeps ==
  ASSUME NEW d, Sound(d), NEW e, e = relayoutWindows(d)
  PROVE  /\ Sound(e) /\ Rest(d, e) /\ Bounded(e)
         /\ Dulled(d.queue, e.queue) /\ Dulled(d.toRun, e.toRun)
         /\ Opened(e) = Opened(d)
         /\ Owned(d) => Owned(e)
  <1> DEFINE scripts == [i \in DOMAIN d.wins |-> d.wins[i].app]
             wins == [i \in DOMAIN d.wins |->
                        NewWindow(d, d.wins[i].app, d.wins[i].state, "restored")]
  <1>0. d \in Desks /\ DOMAIN d.wins = 1 .. Len(d.wins) /\ Len(d.wins) \in Nat
        /\ \A i \in 1 .. Len(d.wins) : d.wins[i] \in Windows
    BY WinsDomain DEF Sound
  <1>1. \A i \in 1 .. Len(d.wins) : d.wins[i].app \in Apps /\ d.wins[i].state \in States
    BY <1>0 DEF Windows
  <1>2. scripts \in Seq(Apps) /\ ToSet(scripts) = Opened(d)
    <2>1. scripts = [i \in 1 .. Len(d.wins) |-> d.wins[i].app]
      BY <1>0
    <2>2. scripts \in Seq(Apps) /\ DOMAIN scripts = 1 .. Len(d.wins)
      BY <1>0, <1>1, <2>1
    <2>3. Opened(d) = {d.wins[i].app : i \in 1 .. Len(d.wins)}
      BY <1>0 DEF Opened
    <2>4. ToSet(scripts) = {d.wins[i].app : i \in 1 .. Len(d.wins)}
      BY <2>1, <2>2 DEF ToSet
    <2> QED
      BY <2>2, <2>3, <2>4
  <1>3. \A i \in 1 .. Len(d.wins) :
          /\ wins[i] \in Windows /\ wins[i].app = d.wins[i].app
          /\ wins[i].bounds = Bounds(d, wins[i].bounds.shape)
    <2> SUFFICES ASSUME NEW i \in 1 .. Len(d.wins)
                 PROVE  /\ wins[i] \in Windows /\ wins[i].app = d.wins[i].app
                        /\ wins[i].bounds = Bounds(d, wins[i].bounds.shape)
      OBVIOUS
    <2>1. wins[i] = NewWindow(d, d.wins[i].app, d.wins[i].state, "restored")
      BY <1>0
    <2>2. "restored" \in States \ {"minimized"}
      BY DEF States
    <2> HIDE DEF wins
    <2> QED
      BY <1>0, <1>1, <2>1, <2>2, FreshWindow
  <1>4. wins \in Seq(Windows) /\ Len(wins) = Len(d.wins)
    <2>1. wins = [i \in 1 .. Len(d.wins) |-> wins[i]] /\ DOMAIN wins = 1 .. Len(d.wins)
      BY <1>0
    <2> HIDE DEF wins
    <2> QED
      BY <1>0, <1>3, <2>1, GivenSeq
  <1>5. e = Rebuilt(d, scripts, wins)
    BY DEF relayoutWindows
  <1> HIDE DEF scripts, wins
  <1>6. Replaces(wins, d, ToSet(scripts))
    BY <1>0, <1>2, <1>3, <1>4 DEF Opened, Replaces
  <1>7. ToSet(scripts) \subseteq Opened(d)
    BY <1>2
  <1>8. \A i \in 1 .. Len(wins) : wins[i].bounds = Bounds(d, wins[i].bounds.shape)
    BY <1>3, <1>4
  <1> QED
    BY <1>2, <1>4, <1>5, <1>6, <1>7, <1>8, RebuiltKeeps

(* What depends on the windows and the actions only                         *)
LEMMA SoundCopy ==
  ASSUME NEW d, Sound(d), NEW e \in Desks, e.wins = d.wins,
         e.consumer = d.consumer, e.queue = d.queue, e.toRun = d.toRun
  PROVE  Sound(e) /\ Opened(e) = Opened(d)
  <1>1. /\ Single(e) /\ Focus(e) /\ Opened(e) = Opened(d) /\ OnScreen(e) = OnScreen(d)
    BY SameWindows DEF Sound
  <1> QED
    BY <1>1, SoundAgain DEF Sound

LEMMA setKeyboardVisibleKeeps ==
  ASSUME NEW d, Sound(d), NEW vis \in BOOLEAN, NEW e, e = setKeyboardVisible(d, vis)
  PROVE  /\ Sound(e) /\ e.resized = vis
         /\ e.keyboard = d.keyboard /\ e.panel = d.panel /\ e.rotation = d.rotation
         /\ e.ub = d.ub /\ (d.dirty => e.dirty)
         /\ Dulled(d.queue, e.queue) /\ Dulled(d.toRun, e.toRun)
         /\ Opened(e) = Opened(d)
         /\ Bounded(d) => Bounded(e)
         /\ Owned(d) => Owned(e)
  <1>0. d \in Desks /\ d.queue \in Seq(Items) /\ d.toRun \in Seq(Items)
    BY DEF Sound, Desks
  <1>1. CASE vis = d.resized
    BY <1>0, <1>1, SameDulled DEF setKeyboardVisible
  <1>2. CASE vis # d.resized
    <2> DEFINE d1 == [d EXCEPT !.resized = vis]
               d2 == relayoutWindows(d1)
    <2>1. e = markDirty(d2)
      BY <1>2 DEF setKeyboardVisible
    <2>2. /\ d1 \in Desks /\ d1.resized = vis /\ d1.wins = d.wins /\ d1.consumer = d.consumer
          /\ d1.queue = d.queue /\ d1.toRun = d.toRun /\ d1.popups = d.popups
          /\ d1.keyboard = d.keyboard /\ d1.panel = d.panel /\ d1.rotation = d.rotation
          /\ d1.ub = d.ub
      BY <1>0 DEF Desks
    <2> HIDE DEF d1
    <2>3. Sound(d1) /\ Opened(d1) = Opened(d)
      BY <2>2, SoundCopy
    <2>4. Owned(d) => Owned(d1)
      BY <2>2, <2>3 DEF Owned
    <2>5. /\ Sound(d2) /\ Rest(d1, d2) /\ Bounded(d2)
          /\ Dulled(d1.queue, d2.queue) /\ Dulled(d1.toRun, d2.toRun)
          /\ Opened(d2) = Opened(d1)
          /\ Owned(d1) => Owned(d2)
      BY <2>3, relayoutWindowsKeeps
    <2> HIDE DEF d2
    <2>6. /\ Sound(e) /\ Beside(d2, e) /\ e.dirty /\ Opened(e) = Opened(d2) /\ Bounded(e)
      BY <2>1, <2>5, Marked DEF Sound
    <2>7. Owned(d2) => Owned(e)
      BY <2>6 DEF Owned, Beside, Rest
    <2> QED
      BY <2>2, <2>3, <2>4, <2>5, <2>6, <2>7 DEF Beside, Rest
  <1> QED
    BY <1>1, <1>2

LEMMA toggleKeyboardKeeps ==
  ASSUME NEW d, Sound(d), NEW e, e = toggleKeyboard(d)
  PROVE  Kept(d, e)
  <1> DEFINE key == d.pressedKey /\ ~d.keyboard
             vis == ~d.keyboard
             d1  == markDirty([d EXCEPT !.keyboard = vis, !.pressedKey = key])
  <1>0. d \in Desks /\ vis \in BOOLEAN /\ key \in BOOLEAN
    BY DEF Sound, Desks
  <1>1. e = setKeyboardVisible(d1, vis)
    BY <1>0 DEF toggleKeyboard, Desks
  <1> HIDE DEF vis, key
  <1>2. /\ d1 \in Desks /\ d1.keyboard = vis /\ d1.dirty /\ d1.wins = d.wins
        /\ d1.consumer = d.consumer /\ d1.queue = d.queue /\ d1.toRun = d.toRun
        /\ d1.popups = d.popups /\ d1.panel = d.panel /\ d1.rotation = d.rotation
        /\ d1.ub = d.ub /\ d1.resized = d.resized
    BY <1>0 DEF Desks, markDirty
  <1> HIDE DEF d1
  <1>3. Sound(d1) /\ Opened(d1) = Opened(d)
    BY <1>2, SoundCopy
  <1>4. Bounded(d) => Bounded(d1)
    BY <1>2, SameWindows
  <1>5. Owned(d) => Owned(d1)
    BY <1>2, <1>3 DEF Owned
  <1>6. /\ Sound(e) /\ e.resized = vis
        /\ e.keyboard = d1.keyboard /\ e.ub = d1.ub /\ (d1.dirty => e.dirty)
        /\ Dulled(d1.queue, e.queue) /\ Dulled(d1.toRun, e.toRun)
        /\ Bounded(d1) => Bounded(e)
        /\ Owned(d1) => Owned(e)
    BY <1>0, <1>1, <1>3, setKeyboardVisibleKeeps
  <1> QED
    BY <1>2, <1>4, <1>5, <1>6 DEF Kept, Steady, Fits

LEMMA relayoutAllKeeps ==
  ASSUME NEW d, Sound(d), NEW e, e = relayoutAll(d)
  PROVE  /\ Sound(e) /\ Rest(d, e) /\ e.dirty /\ Bounded(e)
         /\ NoLeftovers => Owned(e)
         /\ Dulled(d.queue, e.queue) /\ Dulled(d.toRun, e.toRun)
  <1> DEFINE d0 == relayoutWindows(d)
             d1 == [d0 EXCEPT !.popups = <<>>]
             S  == {Panel}
             d2 == teardown(d1, S)
             d3 == IF d.panel THEN setup(d2, <<Panel>>) ELSE d1
  <1>1. e = markDirty(d3)
    BY DEF relayoutAll
  <1>2. /\ Sound(d0) /\ Rest(d, d0) /\ Bounded(d0)
        /\ Dulled(d.queue, d0.queue) /\ Dulled(d.toRun, d0.toRun)
    BY relayoutWindowsKeeps
  <1> HIDE DEF d0
  <1>3. /\ d1 \in Desks /\ Rest(d0, d1) /\ d1.wins = d0.wins /\ d1.popups = <<>>
        /\ d1.consumer = d0.consumer /\ d1.queue = d0.queue /\ d1.toRun = d0.toRun
    <2>1. d0 \in Desks /\ <<>> \in Seq(Popups)
      BY <1>2 DEF Sound
    <2> QED
      BY <2>1 DEF Desks, Rest
  <1> HIDE DEF d1, S
  <1>4. ToSet(d1.popups) = {}
    BY <1>3 DEF ToSet
  <1>5. /\ d2 \in Desks /\ Rest(d1, d2) /\ d2.wins = d1.wins
        /\ d2.consumer = d1.consumer /\ d2.queue = d1.queue /\ d2.toRun = d1.toRun
        /\ \A p \in ToSet(d2.popups) : p \in ToSet(d1.popups)
    BY <1>3, Teardown
  <1> HIDE DEF d2
  <1>6. /\ d3 \in Desks /\ Rest(d1, d3) /\ d3.wins = d1.wins
        /\ d3.consumer = d1.consumer /\ d3.queue = d1.queue /\ d3.toRun = d1.toRun
        /\ \A p \in ToSet(d3.popups) : d.panel /\ p.live /\ p.owner = Panel
    <2>1. CASE d.panel
      <3>1. <<Panel>> \in Seq(Apps \union {Panel}) /\ ToSet(<<Panel>>) = {Panel}
        BY DEF ToSet
      <3>2. d3 = setup(d2, <<Panel>>)
        BY <2>1
      <3> HIDE DEF d3
      <3>3. /\ d3 \in Desks /\ Rest(d2, d3) /\ d3.wins = d2.wins
            /\ d3.consumer = d2.consumer /\ d3.queue = d2.queue /\ d3.toRun = d2.toRun
            /\ \A p \in ToSet(d3.popups) :
                 p \in ToSet(d2.popups) \/ (p.live /\ p.owner \in ToSet(<<Panel>>))
        BY <1>5, <3>1, <3>2, Setup, ZenonT(30)
      <3> QED
        BY <1>4, <1>5, <2>1, <3>1, <3>3 DEF Rest
    <2>2. CASE ~d.panel
      BY <1>3, <1>4, <2>2 DEF Rest
    <2> QED
      BY <2>1, <2>2
  <1> HIDE DEF d3
  <1>7. Sound(d3) /\ Bounded(d3)
    <2>1. /\ d3.wins = d0.wins /\ d3.consumer = d0.consumer
          /\ d3.queue = d0.queue /\ d3.toRun = d0.toRun
          /\ d3.resized = d0.resized /\ d3.rotation = d0.rotation
      BY <1>3, <1>6 DEF Rest
    <2> QED
      BY <1>2, <1>6, <2>1, SoundCopy, SameWindows
  <1>8. /\ Sound(e) /\ Beside(d3, e) /\ e.dirty /\ Bounded(e)
    BY <1>1, <1>6, <1>7, Marked
  <1>9. Rest(d, e) /\ e.queue = d0.queue /\ e.toRun = d0.toRun
    BY <1>2, <1>3, <1>6, <1>8 DEF Beside, Rest
  <1>10. NoLeftovers => Owned(e)
    <2>1. e.popups = d3.popups /\ e.panel = d.panel
      BY <1>8, <1>9 DEF Beside, Rest
    <2>2. ASSUME NEW p \in ToSet(e.popups)
          PROVE  p.live /\ p.owner = Panel /\ e.panel
      BY <1>6, <2>1
    <2> QED
      BY <2>2 DEF Owned
  <1> QED
    BY <1>2, <1>8, <1>9, <1>10

(* A panel is opened; popups of one that was open before are left behind.   *)
LEMMA openPanelKeeps ==
  ASSUME NEW d, Sound(d), NEW e, e = openPanel(d)
  PROVE  /\ Sound(e) /\ (Fits(d) => Fits(e))
         /\ Dulled(d.queue, e.queue) /\ Dulled(d.toRun, e.toRun)
         /\ e.ub = d.ub /\ e.dirty
         /\ (~d.panel \/ Panel \notin PopupOwners) /\ Owned(d) => Owned(e)
  <1> DEFINE d0 == Orphaned(d, Panel)
             d1 == setup(d0, <<Panel>>)
             S  == {Panel}
             gone == TRUE
             d2 == Destroyed(d1, S, gone)
             d3 == [d2 EXCEPT !.panel = TRUE]
  <1>0. d \in Desks /\ d.popups \in Seq(Popups)
    BY DEF Sound, Desks
  <1>1. e = markDirty(d3)
    BY DEF openPanel
  <1>2. ASSUME ~d.panel \/ Panel \notin PopupOwners, Owned(d), NEW p \in ToSet(d.popups)
        PROVE  p.owner # Panel
    <2>1. p \in Popups
      BY <1>0, ElementOfSeq DEF ToSet
    <2> QED
      BY <1>2, <2>1 DEF Owned, Popups
  <1>3. /\ d0 \in Desks /\ Rest(d, d0) /\ d0.wins = d.wins
        /\ d0.consumer = d.consumer /\ d0.queue = d.queue /\ d0.toRun = d.toRun
        /\ (\A p \in ToSet(d.popups) : p.owner # Panel) => d0.popups = d.popups
    BY <1>0, Orphans
  <1> HIDE DEF d0
  <1>4. <<Panel>> \in Seq(Apps \union {Panel}) /\ ToSet(<<Panel>>) = {Panel}
    BY DEF ToSet
  <1>5. /\ d1 \in Desks /\ Rest(d0, d1) /\ d1.wins = d0.wins
        /\ d1.consumer = d0.consumer /\ d1.queue = d0.queue /\ d1.toRun = d0.toRun
        /\ \A p \in ToSet(d1.popups) :
             p \in ToSet(d0.popups) \/ (p.live /\ p.owner \in ToSet(<<Panel>>))
    BY <1>3, <1>4, Setup, ZenonT(30)
  <1> HIDE DEF d1, S, gone
  <1>6. /\ d2 \in Desks /\ Rest(d1, d2) /\ d2.wins = d1.wins /\ d2.popups = d1.popups
        /\ d2.queue = Dangle(d1.queue, S, gone)
        /\ d2.toRun = Dangle(d1.toRun, S, gone)
        /\ d2.consumer.app = d1.consumer.app
        /\ d2.consumer.live => d1.consumer.live /\ d1.consumer.app \notin S
    BY <1>5, Destruction
  <1> HIDE DEF d2
  <1>7. /\ d3 \in Desks /\ d3.wins = d2.wins /\ d3.popups = d2.popups
        /\ d3.consumer = d2.consumer /\ d3.queue = d2.queue /\ d3.toRun = d2.toRun
        /\ d3.panel /\ d3.resized = d2.resized /\ d3.keyboard = d2.keyboard
        /\ d3.rotation = d2.rotation /\ d3.ub = d2.ub
    BY <1>6 DEF Desks
  <1> HIDE DEF d3
  <1>8. /\ d3.wins = d.wins /\ d3.resized = d.resized /\ d3.keyboard = d.keyboard
        /\ d3.rotation = d.rotation /\ d3.ub = d.ub
    BY <1>3, <1>5, <1>6, <1>7 DEF Rest
  <1>9. /\ Single(d3) /\ Focus(d3) /\ Opened(d3) = Opened(d) /\ OnScreen(d3) = OnScreen(d)
        /\ Bounded(d) => Bounded(d3)
    BY <1>8, SameWindows DEF Sound
  <1>10. Sound(d3) /\ Dulled(d.queue, d3.queue) /\ Dulled(d.toRun, d3.toRun)
    <2>1. /\ d3.queue = Dangle(d.queue, S, gone) /\ d3.toRun = Dangle(d.toRun, S, gone)
          /\ d3.consumer.app = d.consumer.app
          /\ d3.consumer.live => d.consumer.live /\ d.consumer.app \notin S
      BY <1>3, <1>5, <1>6, <1>7
    <2>2. Opened(d) \ S \subseteq Opened(d3) /\ OnScreen(d) \ S \subseteq OnScreen(d3)
      BY <1>9
    <2> QED
      BY <1>0, <1>7, <1>9, <2>1, <2>2, SoundAfter
  <1>11. /\ Sound(e) /\ Beside(d3, e) /\ e.dirty /\ Opened(e) = Opened(d3)
         /\ Bounded(d3) => Bounded(e)
    BY <1>1, <1>7, <1>10, Marked
  <1>12. Fits(d) => Fits(e)
    BY <1>8, <1>9, <1>11 DEF Fits, Beside, Rest
  <1>13. ASSUME ~d.panel \/ Panel \notin PopupOwners, Owned(d) PROVE Owned(e)
    <2>1. e.popups = d1.popups /\ e.panel /\ Opened(e) = Opened(d)
      BY <1>6, <1>7, <1>9, <1>11 DEF Beside, Rest
    <2>2. ASSUME NEW p \in ToSet(e.popups)
          PROVE  p.live /\ (p.owner = Panel \/ p.owner \in Opened(e))
      <3>1. p \in ToSet(d.popups) \/ (p.live /\ p.owner = Panel)
        BY <1>2, <1>3, <1>4, <1>5, <1>13, <2>1
      <3> QED
        BY <1>13, <2>1, <3>1 DEF Owned
    <2>3. NoLeftovers
      BY <1>13 DEF Owned
    <2> QED
      BY <2>1, <2>2, <2>3, ZenonT(30) DEF Owned
  <1> QED
    BY <1>8, <1>10, <1>11, <1>12, <1>13 DEF Beside, Rest

-----------------------------------------------------------------------------
(* Popups                                                                   *)

(* Popups that are only shown or hidden                                     *)
LEMMA ShowPopups ==
  ASSUME NEW d, Sound(d), NEW popups, DOMAIN popups = DOMAIN d.popups,
         popups = [k \in DOMAIN d.popups |-> popups[k]],
         \A k \in DOMAIN d.popups :
           /\ popups[k].owner = d.popups[k].owner /\ popups[k].live = d.popups[k].live
           /\ popups[k] \in Popups,
         NEW e, e = markDirty([d EXCEPT !.popups = popups])
  PROVE  Kept(d, e)
  <1>0. d \in Desks /\ d.popups \in Seq(Popups) /\ d.queue \in Seq(Items) /\ d.toRun \in Seq(Items)
    BY DEF Sound, Desks
  <1>1. DOMAIN d.popups = 1 .. Len(d.popups) /\ Len(d.popups) \in Nat
    BY <1>0
  <1>2. popups \in Seq(Popups)
    <2>1. popups = [k \in 1 .. Len(d.popups) |-> popups[k]]
      BY <1>1
    <2>2. \A k \in 1 .. Len(d.popups) : popups[k] \in Popups
      BY <1>1
    <2> QED
      BY <1>1, <2>1, <2>2, GivenSeq
  <1>3. /\ e \in Desks /\ Rest(d, e) /\ e.wins = d.wins /\ e.popups = popups /\ e.dirty
        /\ e.consumer = d.consumer /\ e.queue = d.queue /\ e.toRun = d.toRun
    BY <1>0, <1>2 DEF Desks, Rest, markDirty
  <1>4. Sound(e) /\ Opened(e) = Opened(d)
    BY <1>3, SoundCopy
  <1>5. Fits(d) => Fits(e)
    BY <1>3, SameWindows DEF Fits, Rest
  <1>6. Owned(d) => Owned(e)
    BY <1>3, <1>4 DEF Owned, Rest, ToSet
  <1> QED
    BY <1>0, <1>3, <1>4, <1>5, <1>6, SameDulled DEF Kept, Steady, Rest

LEMMA PopupFields ==
  ASSUME NEW d, Sound(d), NEW k \in DOMAIN d.popups, NEW b \in BOOLEAN
  PROVE  /\ [d.popups[k] EXCEPT !.visible = b] \in Popups
         /\ [d.popups[k] EXCEPT !.visible = b].owner = d.popups[k].owner
         /\ [d.popups[k] EXCEPT !.visible = b].live = d.popups[k].live
         /\ d.popups[k] \in Popups /\ d.popups[k].visible \in BOOLEAN
  <1>1. d.popups \in Seq(Popups)
    BY DEF Sound, Desks
  <1>2. d.popups[k] \in Popups
    BY <1>1, ElementOfSeq
  <1> QED
    BY <1>2 DEF Popups

LEMMA hideAllPopupsKeeps ==
  ASSUME NEW d, Sound(d), NEW e, e = hideAllPopups(d)
  PROVE  Kept(d, e)
  <1> DEFINE popups == [k \in DOMAIN d.popups |-> [d.popups[k] EXCEPT !.visible = FALSE]]
  <1>1. \A k \in DOMAIN d.popups :
           /\ popups[k].owner = d.popups[k].owner /\ popups[k].live = d.popups[k].live
           /\ popups[k] \in Popups
    <2> SUFFICES ASSUME NEW k \in DOMAIN d.popups
                 PROVE  /\ popups[k].owner = d.popups[k].owner
                        /\ popups[k].live = d.popups[k].live
                        /\ popups[k] \in Popups
      OBVIOUS
    <2>1. popups[k] = [d.popups[k] EXCEPT !.visible = FALSE]
      OBVIOUS
    <2> HIDE DEF popups
    <2> QED
      BY <2>1, PopupFields, ZenonT(30)
  <1>2. e = markDirty([d EXCEPT !.popups = popups])
    BY DEF hideAllPopups, Sound, Desks
  <1>3. DOMAIN popups = DOMAIN d.popups /\ popups = [k \in DOMAIN d.popups |-> popups[k]]
    OBVIOUS
  <1> HIDE DEF popups
  <1> QED
    BY <1>1, <1>2, <1>3, ShowPopups

LEMMA togglePopupKeeps ==
  ASSUME NEW d, Sound(d), NEW owner, NEW e, e = togglePopup(d, owner)
  PROVE  Kept(d, e)
  <1> DEFINE popups == [k \in DOMAIN d.popups |->
                          IF d.popups[k].owner = owner /\ d.popups[k].live
                          THEN [d.popups[k] EXCEPT !.visible = ~d.popups[k].visible] ELSE d.popups[k]]
  <1>1. \A k \in DOMAIN d.popups :
           /\ popups[k].owner = d.popups[k].owner /\ popups[k].live = d.popups[k].live
           /\ popups[k] \in Popups
    <2> SUFFICES ASSUME NEW k \in DOMAIN d.popups
                 PROVE  /\ popups[k].owner = d.popups[k].owner
                        /\ popups[k].live = d.popups[k].live
                        /\ popups[k] \in Popups
      OBVIOUS
    <2> DEFINE b == ~d.popups[k].visible
    <2>1. /\ b \in BOOLEAN /\ d.popups[k] \in Popups
          /\ popups[k] = IF d.popups[k].owner = owner /\ d.popups[k].live
                         THEN [d.popups[k] EXCEPT !.visible = b] ELSE d.popups[k]
      BY PopupFields
    <2> HIDE DEF popups, b
    <2> QED
      BY <2>1, PopupFields
  <1>2. e = markDirty([d EXCEPT !.popups = popups])
    BY DEF togglePopup
  <1>3. DOMAIN popups = DOMAIN d.popups /\ popups = [k \in DOMAIN d.popups |-> popups[k]]
    OBVIOUS
  <1> HIDE DEF popups
  <1> QED
    BY <1>1, <1>2, <1>3, ShowPopups

-----------------------------------------------------------------------------
(* Touches and keys                                                         *)

(* A window of which only what is pressed and what has the keyboard changes *)
Retouched(w, v) ==
  w \in Windows /\ w.app = v.app /\ w.state = v.state /\ w.active = v.active
  /\ w.bounds = v.bounds

LEMMA RetouchedSeq ==
  ASSUME NEW d \in Desks, NEW i \in DOMAIN d.wins, NEW w, Retouched(w, d.wins[i]),
         NEW wins, wins = [d.wins EXCEPT ![i] = w]
  PROVE  /\ wins \in Seq(Windows) /\ DOMAIN wins = DOMAIN d.wins /\ Len(wins) = Len(d.wins)
         /\ \A k \in DOMAIN d.wins : wins[k] = IF k = i THEN w ELSE d.wins[k]
  BY WinsDomain DEF Retouched

LEMMA Retouch ==
  ASSUME NEW d, Sound(d), NEW i \in DOMAIN d.wins, NEW w, Retouched(w, d.wins[i]),
         NEW e \in Desks, e.wins = [d.wins EXCEPT ![i] = w],
         e.queue = d.queue, e.toRun = d.toRun,
         e.consumer.live => e.consumer.app \in Opened(d)
  PROVE  /\ Sound(e)
         /\ Opened(e) = Opened(d) /\ Shown(e) = Shown(d) /\ getFocused(e) = getFocused(d)
         /\ Bounded(d) /\ e.resized = d.resized /\ e.rotation = d.rotation => Bounded(e)
  <1>0. d \in Desks /\ w \in Windows
    BY DEF Sound, Retouched
  <1>1. /\ DOMAIN e.wins = DOMAIN d.wins /\ Len(e.wins) = Len(d.wins)
        /\ \A k \in DOMAIN d.wins : e.wins[k] = IF k = i THEN w ELSE d.wins[k]
    BY <1>0, RetouchedSeq
  <1>2. \A k \in DOMAIN d.wins :
          /\ e.wins[k].app = d.wins[k].app /\ e.wins[k].state = d.wins[k].state
          /\ e.wins[k].active = d.wins[k].active /\ e.wins[k].bounds = d.wins[k].bounds
    BY <1>1 DEF Retouched
  <1>3. Shown(e) = Shown(d) /\ getFocused(e) = getFocused(d)
    <2>1. Shown(e) = Shown(d)
      BY <1>1, <1>2 DEF Shown
    <2> QED
      BY <2>1 DEF getFocused
  <1>4. Opened(e) = Opened(d) /\ OnScreen(e) = OnScreen(d)
    <2>1. Opened(e) = Opened(d)
      BY <1>1, <1>2 DEF Opened
    <2>2. \A k \in Shown(d) : e.wins[k].app = d.wins[k].app
      BY <1>2 DEF Shown
    <2> QED
      BY <1>3, <2>1, <2>2 DEF OnScreen
  <1>5. Single(e)
    BY <1>1, <1>2 DEF Single, Sound
  <1>6. ASSUME NEW k \in Shown(e)
        PROVE  /\ e.wins[k].active => k = getFocused(e)
               /\ k = Len(e.wins) => e.wins[k].active
    <2>1. k \in DOMAIN d.wins /\ k \in Shown(d)
      BY <1>1, <1>3 DEF Shown
    <2> QED
      BY <1>1, <1>2, <1>3, <2>1 DEF Sound, Focus
  <1>7. Bounded(d) /\ e.resized = d.resized /\ e.rotation = d.rotation => Bounded(e)
    BY <1>1, <1>2 DEF Bounded, Bounds
  <1>8. Sound(e)
    BY <1>4, <1>5, <1>6 DEF Sound, Keys, Actions, Waiting, Focus
  <1> QED
    BY <1>3, <1>4, <1>7, <1>8

(* The keyboard is shown for a field of a window, or given up by one.       *)
KeyboardTo(d, i, b, c, kb, dirty) ==
  [d EXCEPT !.wins[i].focused = b, !.consumer = c, !.keyboard = kb, !.dirty = dirty]

LEMMA KeyboardFor ==
  ASSUME NEW d, Sound(d), NEW i \in DOMAIN d.wins, NEW b \in BOOLEAN,
         NEW e, NEW c \in [app : Apps \union {None}, live : BOOLEAN],
         c.live => c.app \in Opened(d),
         NEW kb \in BOOLEAN, NEW dirty \in BOOLEAN,
         e = KeyboardTo(d, i, b, c, kb, dirty)
  PROVE  /\ Sound(e) /\ Opened(e) = Opened(d)
         /\ e.queue = d.queue /\ e.toRun = d.toRun /\ e.popups = d.popups
         /\ e.panel = d.panel /\ e.resized = d.resized /\ e.ub = d.ub
         /\ e.keyboard = kb
         /\ Bounded(d) => Bounded(e)
  <1> DEFINE w == [d.wins[i] EXCEPT !.focused = b]
             wins == [d.wins EXCEPT ![i] = w]
  <1>0. d \in Desks /\ d.wins[i] \in Windows
    BY WinsDomain DEF Sound
  <1>1. Retouched(w, d.wins[i])
    BY <1>0 DEF Windows, Retouched
  <1>2. e = [d EXCEPT !.wins = wins, !.consumer = c, !.keyboard = kb, !.dirty = dirty]
    BY <1>0 DEF KeyboardTo, Desks
  <1> HIDE DEF w
  <1>3. wins \in Seq(Windows)
    BY <1>0, <1>1, RetouchedSeq
  <1>4. e.wins = wins
    BY <1>0, <1>2 DEF Desks
  <1>5. e \in Desks
    <2> HIDE DEF wins
    <2> QED
      BY <1>0, <1>2, <1>3 DEF Desks
  <1>6. /\ e.queue = d.queue /\ e.toRun = d.toRun /\ e.popups = d.popups
        /\ e.panel = d.panel /\ e.resized = d.resized /\ e.rotation = d.rotation
        /\ e.ub = d.ub /\ e.keyboard = kb /\ e.consumer = c
    <2> HIDE DEF wins
    <2> QED
      BY <1>0, <1>2 DEF Desks
  <1> QED
    BY <1>1, <1>4, <1>5, <1>6, Retouch

LEMMA touchFieldKeeps ==
  ASSUME NEW d, Sound(d), NEW i \in DOMAIN d.wins, NEW e, e = touchField(d, i)
  PROVE  Steady(d, e) /\ e.ub \in {d.ub, "mutated while traversed"}
  <1> DEFINE yes == TRUE
             c  == [app |-> d.wins[i].app, live |-> yes]
             d1 == KeyboardTo(d, i, yes, c, yes, yes)
             d2 == setKeyboardVisible(d1, yes)
             ub == "mutated while traversed"
  <1>0. d \in Desks /\ d.wins[i] \in Windows /\ d.queue \in Seq(Items) /\ d.toRun \in Seq(Items)
        /\ d.keyboard \in BOOLEAN /\ d.dirty \in BOOLEAN /\ yes \in BOOLEAN
    BY WinsDomain DEF Sound, Desks
  <1>1. /\ c \in [app : Apps \union {None}, live : BOOLEAN]
        /\ c.live => c.app \in Opened(d)
    BY <1>0 DEF Windows, Opened
  <1>2. CASE d.wins[i].focused
    <2>1. e = d
      BY <1>2 DEF touchField
    <2> QED
      BY <1>0, <2>1, Unchanged DEF Kept
  <1>3. CASE ~d.wins[i].focused /\ d.keyboard
    <2>1. e = [d EXCEPT !.wins[i].focused = TRUE, !.consumer = c]
      BY <1>3 DEF touchField
    <2>2. e = KeyboardTo(d, i, yes, c, d.keyboard, d.dirty)
      BY <1>0, <2>1 DEF Desks, KeyboardTo
    <2> HIDE DEF c, yes
    <2>3. /\ Sound(e) /\ Opened(e) = Opened(d)
          /\ e.queue = d.queue /\ e.toRun = d.toRun /\ e.popups = d.popups
          /\ e.panel = d.panel /\ e.resized = d.resized /\ e.ub = d.ub
          /\ e.keyboard = d.keyboard
          /\ Bounded(d) => Bounded(e)
      BY <1>0, <1>1, <2>2, KeyboardFor
    <2>4. (Fits(d) => Fits(e)) /\ (Owned(d) => Owned(e))
      BY <2>3 DEF Fits, Owned
    <2> QED
      BY <1>0, <2>3, <2>4, SameDulled DEF Steady
  <1>4. CASE ~d.wins[i].focused /\ ~d.keyboard
    <2>1. e = [d2 EXCEPT !.ub = ub]
      <3>1. markDirty([d EXCEPT !.wins[i].focused = TRUE, !.consumer = c, !.keyboard = TRUE]) = d1
        BY <1>0 DEF markDirty, Desks, KeyboardTo
      <3> HIDE DEF d1
      <3> QED
        BY <1>4, <3>1 DEF touchField
    <2> HIDE DEF c, yes
    <2>2. /\ Sound(d1) /\ Opened(d1) = Opened(d)
          /\ d1.queue = d.queue /\ d1.toRun = d.toRun /\ d1.popups = d.popups
          /\ d1.panel = d.panel /\ d1.resized = d.resized
          /\ d1.keyboard = yes
          /\ Bounded(d) => Bounded(d1)
      <3>1. d1 = KeyboardTo(d, i, yes, c, yes, yes)
        OBVIOUS
      <3> HIDE DEF d1, d2
      <3> QED
        BY <1>0, <1>1, <3>1, KeyboardFor
    <2> HIDE DEF d1
    <2>3. /\ Sound(d2) /\ d2.resized = yes
          /\ d2.keyboard = d1.keyboard /\ d2.panel = d1.panel
          /\ Dulled(d1.queue, d2.queue) /\ Dulled(d1.toRun, d2.toRun)
          /\ Opened(d2) = Opened(d1)
          /\ Bounded(d1) => Bounded(d2)
          /\ Owned(d1) => Owned(d2)
      BY <1>0, <2>2, setKeyboardVisibleKeeps, ZenonT(60)
    <2> HIDE DEF d2
    <2>4. ub \in Undefined
      BY DEF Undefined
    <2> HIDE DEF ub
    <2>5. /\ e \in Desks /\ e.ub = ub
          /\ e.wins = d2.wins /\ e.consumer = d2.consumer /\ e.popups = d2.popups
          /\ e.queue = d2.queue /\ e.toRun = d2.toRun /\ e.panel = d2.panel
          /\ e.resized = d2.resized /\ e.keyboard = d2.keyboard /\ e.rotation = d2.rotation
      BY <2>1, <2>3, <2>4, ZenonT(30) DEF Sound, Desks
    <2>6. Sound(e) /\ Opened(e) = Opened(d2) /\ (Bounded(d2) => Bounded(e))
      BY <2>3, <2>5, SoundCopy, SameWindows
    <2>7. Fits(d) => Fits(e)
      BY <2>2, <2>3, <2>5, <2>6 DEF Fits
    <2>8. Owned(d) => Owned(e)
      <3>1. Owned(d) => Owned(d1)
        BY <2>2 DEF Owned
      <3>2. Owned(d2) => Owned(e)
        BY <2>5, <2>6 DEF Owned
      <3> QED
        BY <2>3, <3>1, <3>2
    <2> QED
      BY <2>2, <2>3, <2>5, <2>6, <2>7, <2>8 DEF Steady, ub
  <1> QED
    BY <1>2, <1>3, <1>4

LEMMA pressKeyKeeps ==
  ASSUME NEW d, Sound(d), NEW key, NEW e, e = pressKey(d, key)
  PROVE  Steady(d, e) /\ e.ub \in {d.ub, "key to a deleted field"}
  <1> DEFINE ub == "key to a deleted field"
             i  == IndexOf(d, d.consumer.app)
             no == FALSE
             yes == TRUE
             d0 == [d EXCEPT !.pressedKey = no]
             d1 == KeyboardTo(d0, i, no, NoConsumer, no, yes)
  <1>0. d \in Desks /\ d.queue \in Seq(Items) /\ d.toRun \in Seq(Items)
    BY DEF Sound, Desks
  <1>1. CASE e = markDirty(d)
    <2>1. /\ Sound(e) /\ Beside(d, e) /\ Opened(e) = Opened(d) /\ (Bounded(d) => Bounded(e))
      BY <1>0, <1>1, Marked
    <2>2. (Fits(d) => Fits(e)) /\ (Owned(d) => Owned(e)) /\ e.ub = d.ub
      BY <2>1 DEF Fits, Owned, Beside, Rest
    <2>3. Dulled(d.queue, e.queue) /\ Dulled(d.toRun, e.toRun)
      BY <1>0, <2>1, SameDulled DEF Beside
    <2> QED
      BY <2>1, <2>2, <2>3 DEF Steady
  <1>2. CASE e = [d EXCEPT !.ub = ub]
    <2>1. ub \in Undefined
      BY DEF Undefined
    <2> HIDE DEF ub
    <2>2. /\ e \in Desks /\ e.ub = ub
          /\ e.wins = d.wins /\ e.consumer = d.consumer /\ e.popups = d.popups
          /\ e.queue = d.queue /\ e.toRun = d.toRun /\ e.panel = d.panel
          /\ e.resized = d.resized /\ e.keyboard = d.keyboard /\ e.rotation = d.rotation
      BY <1>0, <1>2, <2>1, ZenonT(30) DEF Desks
    <2>3. Sound(e) /\ Opened(e) = Opened(d) /\ (Bounded(d) => Bounded(e))
      BY <2>2, SoundCopy, SameWindows
    <2>4. (Fits(d) => Fits(e)) /\ (Owned(d) => Owned(e))
      BY <2>2, <2>3 DEF Fits, Owned
    <2> QED
      BY <1>0, <2>2, <2>3, <2>4, SameDulled DEF Steady, ub
  <1>3. CASE d.consumer.live /\ e = setKeyboardVisible(d1, no)
    <2>1. i \in DOMAIN d.wins
      <3>1. isAppOpen(d, d.consumer.app)
        BY <1>3 DEF Sound, Keys, Opened, isAppOpen
      <3> QED
        BY <3>1, IndexOfApp
    <2>2. /\ NoConsumer \in [app : Apps \union {None}, live : BOOLEAN]
          /\ ~NoConsumer.live
      BY DEF NoConsumer
    <2>3. yes \in BOOLEAN /\ no \in BOOLEAN
      OBVIOUS
    <2> HIDE DEF i, yes, no
    <2>4. /\ d0 \in Desks /\ d0.wins = d.wins /\ d0.consumer = d.consumer
          /\ d0.queue = d.queue /\ d0.toRun = d.toRun /\ d0.popups = d.popups
          /\ d0.panel = d.panel /\ d0.resized = d.resized /\ d0.ub = d.ub
          /\ d0.rotation = d.rotation
      BY <1>0, <2>3 DEF Desks
    <2> HIDE DEF d0
    <2>5. Sound(d0) /\ Opened(d0) = Opened(d) /\ (Bounded(d) => Bounded(d0))
      BY <2>4, SoundCopy, SameWindows
    <2>6. /\ Sound(d1) /\ Opened(d1) = Opened(d0)
          /\ d1.queue = d0.queue /\ d1.toRun = d0.toRun /\ d1.popups = d0.popups
          /\ d1.panel = d0.panel /\ d1.resized = d0.resized /\ d1.ub = d0.ub
          /\ d1.keyboard = no
          /\ Bounded(d0) => Bounded(d1)
      <3>1. i \in DOMAIN d0.wins
        BY <2>1, <2>4
      <3>2. d1 = KeyboardTo(d0, i, no, NoConsumer, no, yes)
        OBVIOUS
      <3> HIDE DEF d1
      <3> QED
        BY <2>2, <2>3, <2>5, <3>1, <3>2, KeyboardFor
    <2> HIDE DEF d1
    <2>7. /\ Sound(e) /\ e.resized = no
          /\ e.keyboard = d1.keyboard /\ e.ub = d1.ub
          /\ Dulled(d1.queue, e.queue) /\ Dulled(d1.toRun, e.toRun)
          /\ Bounded(d1) => Bounded(e)
          /\ Owned(d1) => Owned(e)
      BY <1>3, <2>3, <2>6, setKeyboardVisibleKeeps
    <2>8. Owned(d) => Owned(d1)
      BY <2>4, <2>5, <2>6 DEF Owned
    <2> QED
      BY <2>4, <2>5, <2>6, <2>7, <2>8 DEF Steady, Fits
  <1>4. d.consumer.live /\ d.consumer.app # None /\ key = "enter" =>
          e = setKeyboardVisible(d1, no)
    <2>1. \A j : markDirty([d EXCEPT !.wins[j].focused = FALSE, !.consumer = NoConsumer,
                                     !.keyboard = FALSE, !.pressedKey = FALSE])
                 = KeyboardTo(d0, j, no, NoConsumer, no, yes)
      BY <1>0 DEF markDirty, Desks, KeyboardTo
    <2> QED
      BY <2>1 DEF pressKey
  <1>5. \/ e = markDirty(d) \/ e = [d EXCEPT !.ub = ub]
        \/ d.consumer.live /\ d.consumer.app # None /\ key = "enter"
    BY DEF pressKey
  <1> QED
    BY <1>1, <1>2, <1>3, <1>4, <1>5
=============================================================================
