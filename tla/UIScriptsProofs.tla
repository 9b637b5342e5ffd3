---------------------------- MODULE UIScriptsProofs ----------------------------
(***************************************************************************)
(* The invariants of scripts and native code that call each other, for any  *)
(* scripts, timers, widgets and nesting of calls.                           *)
(*                                                                         *)
(* What may be on the stack together is what the proof is about.  Each part *)
(* of the invariant says of the entries of the stack what holds of those    *)
(* above and below them, so that it can be kept by putting entries on top   *)
(* (lemmas ...Push) and taking the first away (lemmas ...Tail).             *)
(***************************************************************************)
EXTENDS UIScripts, DataLemmas

(* What is on the stack, and what an app keeps.                             *)
LifeOps == {"setup", "body", "instantiate", "teardown", "cleanUp", "resetCurrent",
            "replaceWindow", "delete"}

TouchOps == {"touch", "call"} \union Holding

TimerOps == {"callTimer", "clearFlag"}

Ops == UserCode \union LifeOps \union TouchOps \union TimerOps \union {"restoreCurrent"}

Frames == [op : Ops, app : Scripts \union {None}, id : Nat, gen : Nat]

Anyone(f) == IF f.op \in {"eval", "restoreCurrent"} THEN f.app = None ELSE f.app \in Scripts

Stacks == {st \in Seq(Frames) : \A k \in 1 .. Len(st) : Anyone(st[k])}

(* The table that ui.* functions use is that of the script code that runs   *)
(* next, unless what runs before resets it.                                 *)
Resets == {"resetCurrent", "restoreCurrent", "setup", "body", "instantiate"}

Unbound == LifeOps \union {"restoreCurrent"}

Owns(f, apps, current) ==
  /\ f.app = current
  /\ apps[current].open
  /\ apps[current].instance
  /\ apps[current].gen = f.gen

Covered(st, apps, current) ==
  current # None =>
    \A k \in 1 .. Len(st) + 1 :
      (\A j \in 1 .. k - 1 : st[j].op \notin Resets) =>
        /\ k \in 1 .. Len(st)
        /\ \/ st[k].op \in Unbound
           \/ st[k].op \in UserCode /\ Owns(st[k], apps, current)

-----------------------------------------------------------------------------
LEMMA TailShifts ==
  ASSUME NEW st \in Stacks, st # <<>>
  PROVE  /\ Tail(st) \in Stacks
         /\ Len(st) \in Nat /\ Len(st) >= 1 /\ Len(Tail(st)) = Len(st) - 1
         /\ \A k \in 1 .. Len(st) - 1 : Tail(st)[k] = st[k + 1]
         /\ Head(st) = st[1]
  <1>1. st \in Seq(Frames) /\ \A k \in 1 .. Len(st) : Anyone(st[k])
    BY DEF Stacks
  <1>2. Len(st) \in Nat /\ Len(st) >= 1 /\ Head(st) = st[1]
    BY <1>1
  <1>3. Tail(st) \in Seq(Frames) /\ Len(Tail(st)) = Len(st) - 1
        /\ \A k \in 1 .. Len(st) - 1 : Tail(st)[k] = st[k + 1] /\ k + 1 \in 1 .. Len(st)
    BY <1>1
  <1>4. \A k \in 1 .. Len(Tail(st)) : Anyone(Tail(st)[k])
    BY <1>1, <1>2, <1>3
  <1> QED
    BY <1>2, <1>3, <1>4 DEF Stacks

LEMMA ConcatShifts ==
  ASSUME NEW todo \in Stacks, NEW st \in Stacks
  PROVE  /\ todo \o st \in Stacks
         /\ Len(todo) \in Nat /\ Len(st) \in Nat
         /\ Len(todo \o st) = Len(todo) + Len(st)
         /\ \A k \in 1 .. Len(todo) : (todo \o st)[k] = todo[k]
         /\ \A k \in Len(todo) + 1 .. Len(todo) + Len(st) :
              k - Len(todo) \in 1 .. Len(st) /\ (todo \o st)[k] = st[k - Len(todo)]
  <1>1. /\ todo \in Seq(Frames) /\ st \in Seq(Frames)
        /\ Len(todo) \in Nat /\ Len(st) \in Nat
    BY DEF Stacks
  <1>2. /\ todo \o st \in Seq(Frames)
        /\ Len(todo \o st) = Len(todo) + Len(st)
        /\ \A k \in 1 .. Len(todo) + Len(st) :
             (todo \o st)[k] = IF k <= Len(todo) THEN todo[k] ELSE st[k - Len(todo)]
    BY <1>1, ConcatProperties
  <1>3. \A k \in Len(todo) + 1 .. Len(todo) + Len(st) :
          k \in 1 .. Len(todo) + Len(st) /\ ~(k <= Len(todo)) /\ k - Len(todo) \in 1 .. Len(st)
    BY <1>1
  <1>4. \A k \in 1 .. Len(todo) : k \in 1 .. Len(todo) + Len(st) /\ k <= Len(todo)
    BY <1>1
  <1>5. \A k \in 1 .. Len(todo) + Len(st) : k \in 1 .. Len(todo) \/ k \in Len(todo) + 1 .. Len(todo) + Len(st)
    BY <1>1
  <1>6. \A k \in 1 .. Len(todo) + Len(st) : Anyone((todo \o st)[k])
    BY <1>2, <1>3, <1>4, <1>5 DEF Stacks
  <1> QED
    BY <1>1, <1>2, <1>3, <1>4, <1>6 DEF Stacks

LEMMA CoveredTail ==
  ASSUME NEW st \in Stacks, st # <<>>, NEW apps, NEW current,
         Covered(st, apps, current), Head(st).op \notin Resets
  PROVE  Covered(Tail(st), apps, current)
  <1> SUFFICES ASSUME current # None, NEW k \in 1 .. Len(Tail(st)) + 1,
                      \A j \in 1 .. k - 1 : Tail(st)[j].op \notin Resets
               PROVE  /\ k \in 1 .. Len(Tail(st))
                      /\ \/ Tail(st)[k].op \in Unbound
                         \/ Tail(st)[k].op \in UserCode /\ Owns(Tail(st)[k], apps, current)
    BY DEF Covered
  <1>1. Len(st) \in Nat /\ Len(st) >= 1 /\ Len(Tail(st)) = Len(st) - 1 /\ Head(st) = st[1]
        /\ \A i \in 1 .. Len(st) - 1 : Tail(st)[i] = st[i + 1]
    BY TailShifts
  <1>2. k + 1 \in 1 .. Len(st) + 1 /\ k \in Nat
    BY <1>1
  <1>3. ASSUME NEW j \in 1 .. (k + 1) - 1 PROVE st[j].op \notin Resets
    <2>1. CASE j = 1
      BY <1>1, <2>1
    <2>2. CASE j # 1
      <3>1. j - 1 \in 1 .. k - 1 /\ j - 1 \in 1 .. Len(st) - 1 /\ (j - 1) + 1 = j
        BY <1>1, <2>2
      <3> QED
        BY <1>1, <3>1
    <2> QED
      BY <2>1, <2>2
  <1>4. /\ k + 1 \in 1 .. Len(st)
        /\ \/ st[k + 1].op \in Unbound
           \/ st[k + 1].op \in UserCode /\ Owns(st[k + 1], apps, current)
    BY <1>2, <1>3 DEF Covered
  <1>5. k \in 1 .. Len(st) - 1
    BY <1>1, <1>4
  <1> QED
    BY <1>1, <1>4, <1>5

LEMMA CoveredPush ==
  ASSUME NEW st \in Stacks, NEW todo \in Stacks, NEW apps, NEW current,
         Covered(st, apps, current), \A k \in 1 .. Len(todo) : todo[k].op \in Unbound
  PROVE  Covered(todo \o st, apps, current)
  <1> DEFINE r == todo \o st
             n == Len(todo)
  <1>1. /\ n \in Nat /\ Len(st) \in Nat /\ Len(r) = n + Len(st)
        /\ \A i \in 1 .. n : r[i] = todo[i]
        /\ \A i \in n + 1 .. n + Len(st) : r[i] = st[i - n]
    BY ConcatShifts
  <1> HIDE DEF r
  <1> SUFFICES ASSUME current # None, NEW k \in 1 .. Len(r) + 1,
                      \A j \in 1 .. k - 1 : r[j].op \notin Resets
               PROVE  /\ k \in 1 .. Len(r)
                      /\ \/ r[k].op \in Unbound
                         \/ r[k].op \in UserCode /\ Owns(r[k], apps, current)
    BY DEF Covered, r
  <1>2. CASE k \in 1 .. n
    BY <1>1, <1>2
  <1>3. CASE k \notin 1 .. n
    <2>1. k - n \in 1 .. Len(st) + 1
      BY <1>1, <1>3
    <2>2. ASSUME NEW j \in 1 .. (k - n) - 1 PROVE st[j].op \notin Resets
      <3>1. j + n \in n + 1 .. n + Len(st) /\ (j + n) - n = j /\ j + n \in 1 .. k - 1
        BY <1>1, <2>1
      <3> QED
        BY <1>1, <3>1
    <2>3. /\ k - n \in 1 .. Len(st)
          /\ \/ st[k - n].op \in Unbound
             \/ st[k - n].op \in UserCode /\ Owns(st[k - n], apps, current)
      BY <2>1, <2>2 DEF Covered
    <2>4. k \in n + 1 .. n + Len(st) /\ k \in 1 .. Len(r)
      BY <1>1, <2>3
    <2> QED
      BY <1>1, <2>3, <2>4
  <1> QED
    BY <1>2, <1>3

(* Script code, then what resets the table.                                 *)
LEMMA CoveredByReset ==
  ASSUME NEW st \in Stacks, NEW todo \in Stacks, NEW apps, NEW current,
         NEW m \in 1 .. Len(todo), todo[m].op \in Resets,
         \A k \in 1 .. m : \/ todo[k].op \in Unbound
                           \/ todo[k].op \in UserCode /\ Owns(todo[k], apps, current)
  PROVE  Covered(todo \o st, apps, current)
  <1> DEFINE r == todo \o st
             n == Len(todo)
  <1>1. /\ n \in Nat /\ Len(st) \in Nat /\ Len(r) = n + Len(st)
        /\ \A i \in 1 .. n : r[i] = todo[i]
    BY ConcatShifts
  <1>2. m \in 1 .. n /\ \A i \in 1 .. m : i \in 1 .. n
    BY <1>1
  <1> HIDE DEF r, n
  <1> SUFFICES ASSUME current # None, NEW k \in 1 .. Len(r) + 1,
                      \A j \in 1 .. k - 1 : r[j].op \notin Resets
               PROVE  /\ k \in 1 .. Len(r)
                      /\ \/ r[k].op \in Unbound
                         \/ r[k].op \in UserCode /\ Owns(r[k], apps, current)
    BY DEF Covered, r
  <1>3. k \in 1 .. m
    <2>1. m \notin 1 .. k - 1
      BY <1>1, <1>2
    <2> QED
      BY <1>1, <1>2, <2>1
  <1>4. k \in 1 .. Len(r) /\ r[k] = todo[k]
    BY <1>1, <1>2, <1>3
  <1> QED
    BY <1>3, <1>4

(* Apps that keep their instance stay covered.                              *)
KeepsInstances(apps, new) ==
  \A s \in Scripts : apps[s].instance =>
     new[s].instance /\ new[s].gen = apps[s].gen /\ new[s].open = apps[s].open

LEMMA CoveredApps ==
  ASSUME NEW st \in Stacks, NEW apps, NEW new, NEW current \in Scripts \union {None},
         Covered(st, apps, current), KeepsInstances(apps, new)
  PROVE  Covered(st, new, current)
  BY DEF Covered, Owns, KeepsInstances

-----------------------------------------------------------------------------
Loaded(apps, s) == apps[s].instance

Bare == {"replaceWindow", "setup", "delete"}

Unloads == {"teardown", "cleanUp"}

Opened(apps, s) == apps[s].open

(* A script whose window is replaced or deleted, or that is set up, has no  *)
(* instance by then: its teardown comes first.                              *)
Unloaded(st, apps) ==
  \A k \in 1 .. Len(st) : st[k].op \in Bare =>
     \/ ~Loaded(apps, st[k].app)
     \/ \E j \in 1 .. k - 1 : st[j].op \in Unloads /\ st[j].app = st[k].app

(* Setting up and deleting are the last things to be done with a script, up *)
(* to a callback of its that is still running.                              *)
Outside == {"clickCallback", "eventCallback", "restoreCurrent"} \union Holding

Finals == {"setup", "instantiate", "delete"}

Final(st) ==
  \A k \in 1 .. Len(st) : st[k].op \in Finals =>
    \A j \in k + 1 .. Len(st) : st[j].app = st[k].app => st[j].op \in Outside

Opening(st, apps) ==
  \A k \in 1 .. Len(st) : st[k].op \in {"setup", "body", "instantiate"} => Opened(apps, st[k].app)

(* Calls that follow each other.                                            *)
Followed(st) ==
  \A k \in 1 .. Len(st) :
    /\ st[k].op = "cleanUp" => k + 1 \in 1 .. Len(st) /\ st[k + 1].op = "resetCurrent"
    /\ st[k].op = "body" =>
         k = 1 /\ 2 \in 1 .. Len(st) /\ st[2].op = "instantiate" /\ st[2].app = st[1].app
    /\ st[k].op = "instantiate" => k = 1 \/ (k = 2 /\ st[1].op = "body")

LEMMA UnloadedApps ==
  ASSUME NEW st \in Stacks, NEW apps, NEW new, Unloaded(st, apps),
         \A s \in Scripts : Loaded(new, s) => Loaded(apps, s)
  PROVE  Unloaded(st, new)
  BY DEF Unloaded, Stacks, Anyone, Bare

LEMMA UnloadedTail ==
  ASSUME NEW st \in Stacks, st # <<>>, NEW apps, Unloaded(st, apps),
         Head(st).op \in Unloads => ~Loaded(apps, Head(st).app)
  PROVE  Unloaded(Tail(st), apps)
  <1>1. Len(st) \in Nat /\ Len(st) >= 1 /\ Len(Tail(st)) = Len(st) - 1 /\ Head(st) = st[1]
        /\ \A i \in 1 .. Len(st) - 1 : Tail(st)[i] = st[i + 1]
    BY TailShifts
  <1> SUFFICES ASSUME NEW k \in 1 .. Len(st) - 1,
                      st[k + 1].op \in Bare,
                      Loaded(apps, st[k + 1].app)
               PROVE  \E j \in 1 .. k - 1 : /\ Tail(st)[j].op \in Unloads
                                            /\ Tail(st)[j].app = st[k + 1].app
    BY <1>1 DEF Unloaded
  <1>2. k + 1 \in 1 .. Len(st)
    BY <1>1
  <1>3. PICK j \in 1 .. (k + 1) - 1 : st[j].op \in Unloads /\ st[j].app = st[k + 1].app
    BY <1>2 DEF Unloaded
  <1>4. j # 1
    BY <1>1, <1>3
  <1>5. j - 1 \in 1 .. k - 1 /\ (j - 1) + 1 = j /\ j - 1 \in 1 .. Len(st) - 1
    BY <1>4
  <1> QED
    BY <1>1, <1>3, <1>5

LEMMA UnloadedPush ==
  ASSUME NEW st \in Stacks, NEW todo \in Stacks, NEW apps, Unloaded(st, apps), Unloaded(todo, apps)
  PROVE  Unloaded(todo \o st, apps)
  <1> DEFINE r == todo \o st
             n == Len(todo)
  <1>1. /\ n \in Nat /\ Len(st) \in Nat /\ Len(r) = n + Len(st)
        /\ \A i \in 1 .. n : r[i] = todo[i]
        /\ \A i \in n + 1 .. n + Len(st) : r[i] = st[i - n]
    BY ConcatShifts
  <1> HIDE DEF r
  <1> SUFFICES ASSUME NEW k \in 1 .. Len(r), r[k].op \in Bare,
                      Loaded(apps, r[k].app)
               PROVE  \E j \in 1 .. k - 1 : r[j].op \in Unloads /\ r[j].app = r[k].app
    BY DEF Unloaded, r
  <1>2. CASE k \in 1 .. n
    <2>1. PICK j \in 1 .. k - 1 : todo[j].op \in Unloads /\ todo[j].app = todo[k].app
      BY <1>1, <1>2 DEF Unloaded
    <2>2. j \in 1 .. n
      BY <1>1, <1>2
    <2> QED
      BY <1>1, <1>2, <2>1, <2>2
  <1>3. CASE k \notin 1 .. n
    <2>1. k - n \in 1 .. Len(st) /\ r[k] = st[k - n]
      BY <1>1, <1>3
    <2>2. PICK j \in 1 .. (k - n) - 1 : st[j].op \in Unloads /\ st[j].app = st[k - n].app
      BY <2>1 DEF Unloaded
    <2>3. j + n \in 1 .. k - 1 /\ r[j + n] = st[j]
      <3>1. j + n \in n + 1 .. n + Len(st) /\ (j + n) - n = j /\ j + n \in 1 .. k - 1
        BY <1>1, <2>1
      <3> QED
        BY <1>1, <3>1
    <2> QED
      BY <2>1, <2>2, <2>3
  <1> QED
    BY <1>2, <1>3

LEMMA FinalTail ==
  ASSUME NEW st \in Stacks, st # <<>>, Final(st)
  PROVE  Final(Tail(st))
  <1>1. Len(st) \in Nat /\ Len(st) >= 1 /\ Len(Tail(st)) = Len(st) - 1
        /\ \A i \in 1 .. Len(st) - 1 : Tail(st)[i] = st[i + 1]
    BY TailShifts
  <1> SUFFICES ASSUME NEW k \in 1 .. Len(st) - 1, st[k + 1].op \in Finals,
                      NEW j \in k + 1 .. Len(st) - 1, st[j + 1].app = st[k + 1].app
               PROVE  st[j + 1].op \in Outside
    BY <1>1 DEF Final
  <1>2. k + 1 \in 1 .. Len(st) /\ j + 1 \in (k + 1) + 1 .. Len(st)
    BY <1>1
  <1> QED
    BY <1>2 DEF Final

LEMMA FinalPush ==
  ASSUME NEW st \in Stacks, NEW todo \in Stacks, Final(st), Final(todo),
         \A k \in 1 .. Len(todo) : todo[k].op \in Finals =>
           \A j \in 1 .. Len(st) : st[j].app = todo[k].app => st[j].op \in Outside
  PROVE  Final(todo \o st)
  <1> DEFINE r == todo \o st
             n == Len(todo)
  <1>1. /\ n \in Nat /\ Len(st) \in Nat /\ Len(r) = n + Len(st)
        /\ \A i \in 1 .. n : r[i] = todo[i]
        /\ \A i \in n + 1 .. n + Len(st) : i - n \in 1 .. Len(st) /\ r[i] = st[i - n]
    BY ConcatShifts
  <1> HIDE DEF r
  <1> SUFFICES ASSUME NEW k \in 1 .. Len(r), r[k].op \in Finals,
                      NEW j \in k + 1 .. Len(r), r[j].app = r[k].app
               PROVE  r[j].op \in Outside
    BY DEF Final, r
  <1>2. CASE j \in 1 .. n
    <2>1. k \in 1 .. n
      BY <1>1, <1>2
    <2> QED
      BY <1>1, <1>2, <2>1 DEF Final
  <1>3. CASE k \in 1 .. n /\ j \notin 1 .. n
    <2>1. j \in n + 1 .. n + Len(st)
      BY <1>1, <1>3
    <2> QED
      BY <1>1, <1>3, <2>1
  <1>4. CASE k \notin 1 .. n
    <2>1. k \in n + 1 .. n + Len(st) /\ j \in n + 1 .. n + Len(st) /\ j - n \in (k - n) + 1 .. Len(st)
      BY <1>1, <1>4
    <2> QED
      BY <1>1, <2>1 DEF Final
  <1> QED
    BY <1>2, <1>3, <1>4

LEMMA OpeningTail ==
  ASSUME NEW st \in Stacks, st # <<>>, NEW apps, Opening(st, apps)
  PROVE  Opening(Tail(st), apps)
  <1>1. Len(st) \in Nat /\ Len(st) >= 1 /\ Len(Tail(st)) = Len(st) - 1
        /\ \A i \in 1 .. Len(st) - 1 : i + 1 \in 1 .. Len(st) /\ Tail(st)[i] = st[i + 1]
    BY TailShifts
  <1> QED
    BY <1>1 DEF Opening

LEMMA OpeningPush ==
  ASSUME NEW st \in Stacks, NEW todo \in Stacks, NEW apps, Opening(st, apps), Opening(todo, apps)
  PROVE  Opening(todo \o st, apps)
  <1> DEFINE r == todo \o st
             n == Len(todo)
  <1>1. /\ n \in Nat /\ Len(st) \in Nat /\ Len(r) = n + Len(st)
        /\ \A i \in 1 .. n : r[i] = todo[i]
        /\ \A i \in n + 1 .. n + Len(st) : i - n \in 1 .. Len(st) /\ r[i] = st[i - n]
    BY ConcatShifts
  <1>2. \A k \in 1 .. n + Len(st) : k \in 1 .. n \/ k \in n + 1 .. n + Len(st)
    BY <1>1
  <1> HIDE DEF r
  <1>3. Opening(r, apps)
    BY <1>1, <1>2 DEF Opening
  <1> QED
    BY <1>3 DEF r

LEMMA FollowedTail ==
  ASSUME NEW st \in Stacks, st # <<>>, Followed(st)
  PROVE  Followed(Tail(st))
  <1>1. Len(st) \in Nat /\ Len(st) >= 1 /\ Len(Tail(st)) = Len(st) - 1
        /\ \A i \in 1 .. Len(st) - 1 : Tail(st)[i] = st[i + 1]
    BY TailShifts
  <1> DEFINE t == Tail(st)
  <1>0. t \in Stacks /\ Len(t) = Len(st) - 1 /\ \A i \in 1 .. Len(st) - 1 : t[i] = st[i + 1]
    BY TailShifts
  <1> HIDE DEF t
  <1> SUFFICES ASSUME NEW k \in 1 .. Len(t)
      PROVE /\ t[k].op = "cleanUp" => k + 1 \in 1 .. Len(t) /\ t[k + 1].op = "resetCurrent"
            /\ t[k].op # "body"
            /\ t[k].op = "instantiate" => k = 1
    BY DEF Followed, t
  <1>2. k + 1 \in 1 .. Len(st) /\ k + 1 # 1
    BY <1>0, <1>1
  <1>3. st[k + 1].op # "body"
    BY <1>2 DEF Followed
  <1>4. st[k + 1].op = "instantiate" => k + 1 = 2
    BY <1>2 DEF Followed
  <1>5. st[k + 1].op = "cleanUp" => (k + 1) + 1 \in 1 .. Len(st) /\ st[(k + 1) + 1].op = "resetCurrent"
    BY <1>2 DEF Followed
  <1>6. (k + 1) + 1 \in 1 .. Len(st) => k + 1 \in 1 .. Len(t) /\ t[k + 1] = st[(k + 1) + 1]
    BY <1>0, <1>1
  <1>7. t[k] = st[k + 1] /\ (k + 1 = 2 => k = 1)
    BY <1>0
  <1>8. t[k].op = "cleanUp" => k + 1 \in 1 .. Len(t) /\ t[k + 1].op = "resetCurrent"
    BY <1>5, <1>6, <1>7
  <1> QED
    BY <1>3, <1>4, <1>7, <1>8

LEMMA FollowedPush ==
  ASSUME NEW st \in Stacks, NEW todo \in Stacks, Followed(st), Followed(todo),
         st = <<>> \/ st[1].op \notin {"body", "instantiate"}
  PROVE  Followed(todo \o st)
  <1> DEFINE r == todo \o st
             n == Len(todo)
  <1>1. /\ n \in Nat /\ Len(st) \in Nat /\ Len(r) = n + Len(st)
        /\ \A i \in 1 .. n : r[i] = todo[i]
        /\ \A i \in n + 1 .. n + Len(st) : i - n \in 1 .. Len(st) /\ r[i] = st[i - n]
    BY ConcatShifts
  <1>2. ASSUME NEW k \in 1 .. Len(st) PROVE st[k].op \notin {"body", "instantiate"}
    <2>1. st # <<>>
      BY DEF Stacks
    <2> QED
      BY <2>1 DEF Followed
  <1> HIDE DEF r, n
  <1> SUFFICES ASSUME NEW k \in 1 .. Len(r)
      PROVE /\ r[k].op = "cleanUp" => k + 1 \in 1 .. Len(r) /\ r[k + 1].op = "resetCurrent"
            /\ r[k].op = "body" =>
                 k = 1 /\ 2 \in 1 .. Len(r) /\ r[2].op = "instantiate" /\ r[2].app = r[1].app
            /\ r[k].op = "instantiate" => k = 1 \/ (k = 2 /\ r[1].op = "body")
    BY DEF Followed, r
  <1>3. CASE k \in 1 .. n
    <2>1. r[k] = todo[k] /\ 1 \in 1 .. n
      BY <1>1, <1>3
    <2>2. \A i \in 1 .. n : i \in 1 .. Len(r) /\ r[i] = todo[i]
      BY <1>1
    <2> QED
      BY <1>3, <2>1, <2>2 DEF Followed, n
  <1>4. CASE k \notin 1 .. n
    <2>1. k \in n + 1 .. n + Len(st) /\ k - n \in 1 .. Len(st) /\ r[k] = st[k - n]
      BY <1>1, <1>4
    <2>2. ASSUME st[k - n].op = "cleanUp"
          PROVE  k + 1 \in 1 .. Len(r) /\ r[k + 1].op = "resetCurrent"
      <3>1. (k - n) + 1 \in 1 .. Len(st) /\ st[(k - n) + 1].op = "resetCurrent"
        BY <2>1, <2>2 DEF Followed
      <3>2. k \in Nat /\ n \in Nat /\ Len(st) \in Nat /\ k \in n + 1 .. n + Len(st) /\ Len(r) = n + Len(st)
        BY <1>1, <2>1
      <3>3. (k - n) + 1 \in 1 .. Len(st)
        BY <3>1
      <3>4. k + 1 \in n + 1 .. n + Len(st) /\ (k + 1) - n = (k - n) + 1 /\ k + 1 \in 1 .. Len(r)
        BY <3>2, <3>3
      <3> QED
        BY <1>1, <3>1, <3>4
    <2> QED
      BY <1>2, <2>1, <2>2
  <1> QED
    BY <1>3, <1>4

-----------------------------------------------------------------------------
(* What an app keeps.                                                       *)
Ids == 0 .. MaxCb - 1

Kinds == {"container", "scrollable", "groupbox", "tabs", "button", "choice", "direct", "plain",
          "gone"}

Elements == [kind : Kinds, parent : Nat, cb : Ids \union {None}, live : BOOLEAN,
             handle : {"valid", "null", "lost"}]

Timers == [cb : Ids, fired : BOOLEAN, owed : BOOLEAN]

AppObjects ==
  [open : BOOLEAN, gen : Nat, instance : BOOLEAN, nextCbId : Nat,
   globals : [Ids -> [gen : Nat, click : BOOLEAN]], timers : Seq(Timers), handles : Seq(Elements)]

(* The closures that are stored are those of the instance there is.         *)
Stored(a) ==
  \A id \in Ids : a.globals[id] # NoClosure =>
    a.open /\ a.instance /\ a.globals[id].gen = a.gen

(* An element's callback is stored, for a click if the element is a button. *)
Attaches(a, e) ==
  e.cb # None => e.cb < a.nextCbId /\ (e.kind # "button" => ~a.globals[e.cb].click)

CallsBack(a) == \A h \in 1 .. Len(a.handles) : Attaches(a, a.handles[h])

(* A handle that a script may use is that of an element that exists.        *)
Exists(e) == e.handle = "valid" => e.live

Reachable(a) == a.instance => \A h \in 1 .. Len(a.handles) : Exists(a.handles[h])

Sane(a) == Stored(a) /\ CallsBack(a) /\ Reachable(a) /\ (a.instance => a.open)

HasInstance(a) == a.instance

Keeps(e, f) == f.cb = None \/ (f.cb = e.cb /\ f.kind = e.kind)

ForClick(a, id) == a.globals[id].click

Alike(a, b) ==
  b.open = a.open /\ b.gen = a.gen /\ b.instance = a.instance /\ b.timers = a.timers

LEMMA ClosedIsSane ==
  /\ Closed \in AppObjects /\ Sane(Closed)
  /\ \A g \in Nat : [Closed EXCEPT !.gen = g] \in AppObjects /\ Sane([Closed EXCEPT !.gen = g])
  <1>1. /\ Closed.open = FALSE /\ Closed.gen = 0 /\ Closed.instance = FALSE /\ Closed.nextCbId = 0
        /\ Closed.globals = [id \in Ids |-> NoClosure] /\ Closed.timers = <<>> /\ Closed.handles = <<>>
    BY DEF Closed, Ids
  <1>2. NoClosure \in [gen : Nat, click : BOOLEAN]
    BY DEF NoClosure
  <1>3. Closed.globals \in [Ids -> [gen : Nat, click : BOOLEAN]]
    BY <1>1, <1>2
  <1>4. Closed \in AppObjects
    BY <1>1, <1>3 DEF Closed, AppObjects, Ids
  <1>5. ASSUME NEW b, b.open = FALSE, b.instance = FALSE, b.globals = [id \in Ids |-> NoClosure],
               b.handles = <<>>
        PROVE  Sane(b)
    BY <1>5 DEF Sane, Stored, CallsBack, Reachable
  <1>6. ASSUME NEW g \in Nat
        PROVE  [Closed EXCEPT !.gen = g] \in AppObjects /\ Sane([Closed EXCEPT !.gen = g])
    <2> DEFINE b == [Closed EXCEPT !.gen = g]
    <2>1. /\ b \in AppObjects /\ b.open = Closed.open /\ b.instance = Closed.instance
          /\ b.globals = Closed.globals /\ b.handles = Closed.handles
      BY <1>4 DEF AppObjects
    <2> HIDE DEF b
    <2>2. b \in AppObjects /\ Sane(b)
      BY <1>1, <1>5, <2>1
    <2> QED
      BY <2>2 DEF b
  <1> QED
    BY <1>1, <1>4, <1>5, <1>6

LEMMA NewElement ==
  ASSUME NEW kind \in Kinds, NEW p \in Nat
  PROVE  /\ Element(kind, p) \in Elements
         /\ Element(kind, p).cb = None /\ Exists(Element(kind, p))
  BY DEF Element, Elements, Exists

(* Functions that change the elements only.                                 *)
LEMMA NewHandles ==
  ASSUME NEW a \in AppObjects, Sane(a), NEW b, NEW hs \in Seq(Elements),
         b = [a EXCEPT !.handles = hs],
         \A h \in 1 .. Len(hs) :
           /\ Exists(hs[h])
           /\ hs[h].cb = None \/ (h \in 1 .. Len(a.handles) /\ Keeps(a.handles[h], hs[h]))
  PROVE  b \in AppObjects /\ Alike(a, b) /\ Sane(b) /\ b.nextCbId = a.nextCbId /\ b.globals = a.globals
  <1>1. /\ b \in AppObjects /\ Alike(a, b) /\ b.nextCbId = a.nextCbId /\ b.globals = a.globals
        /\ b.handles = hs
    BY DEF AppObjects, Alike
  <1>2. Stored(b)
    BY <1>1 DEF Sane, Stored, Alike
  <1>3. CallsBack(b)
    BY <1>1 DEF Sane, CallsBack, Attaches, Keeps
  <1>4. Reachable(b) /\ (b.instance => b.open)
    BY <1>1 DEF Sane, Reachable, Alike
  <1> QED
    BY <1>1, <1>2, <1>3, <1>4 DEF Sane

LEMMA HandlesOf ==
  ASSUME NEW a \in AppObjects
  PROVE  /\ a.handles \in Seq(Elements) /\ DOMAIN a.handles = 1 .. Len(a.handles)
         /\ Len(a.handles) \in Nat
         /\ \A h \in 1 .. Len(a.handles) : a.handles[h] \in Elements
  BY DEF AppObjects

LEMMA Adds ==
  ASSUME NEW a \in AppObjects, Sane(a), HasInstance(a), NEW kind \in Kinds, NEW p \in Nat, NEW b,
         b = addHandle(a, kind, p)
  PROVE  b \in AppObjects /\ Alike(a, b) /\ Sane(b)
  <1> DEFINE hs == Append(a.handles, Element(kind, p))
  <1>1. a.handles \in Seq(Elements) /\ Len(a.handles) \in Nat /\ Element(kind, p) \in Elements
    BY HandlesOf, NewElement
  <1>2. hs \in Seq(Elements) /\ Len(hs) = Len(a.handles) + 1
        /\ hs[Len(a.handles) + 1] = Element(kind, p)
        /\ \A h \in 1 .. Len(a.handles) : hs[h] = a.handles[h]
    BY <1>1
  <1>3. b = [a EXCEPT !.handles = hs]
    BY DEF addHandle
  <1> HIDE DEF hs
  <1>4. ASSUME NEW h \in 1 .. Len(hs)
        PROVE  /\ Exists(hs[h])
               /\ hs[h].cb = None \/ (h \in 1 .. Len(a.handles) /\ Keeps(a.handles[h], hs[h]))
    <2>1. CASE h = Len(a.handles) + 1
      BY <1>2, <2>1, NewElement
    <2>2. CASE h # Len(a.handles) + 1
      <3>1. h \in 1 .. Len(a.handles)
        BY <1>1, <1>2, <2>2
      <3> QED
        BY <1>2, <3>1 DEF Sane, Reachable, HasInstance, Keeps
    <2> QED
      BY <2>1, <2>2
  <1> QED
    BY <1>2, <1>3, <1>4, NewHandles

(* Elements that are deleted leave a handle that their script knows of.     *)
Wiped(hs, gone) ==
  [h \in DOMAIN hs |->
     IF h \in gone THEN Gone(IF hs[h].handle = "null" THEN "null" ELSE "lost") ELSE hs[h]]

LEMMA GoneElement ==
  ASSUME NEW handle \in {"null", "lost"}
  PROVE  Gone(handle) \in Elements /\ Gone(handle).cb = None /\ Exists(Gone(handle))
         /\ Gone(handle).handle = handle
  BY DEF Gone, Element, Elements, Exists, Kinds

LEMMA Wipes ==
  ASSUME NEW a \in AppObjects, NEW gone, Sane(a), HasInstance(a), NEW hs, hs = Wiped(a.handles, gone)
  PROVE  /\ hs \in Seq(Elements) /\ Len(hs) = Len(a.handles)
         /\ \A h \in 1 .. Len(hs) :
              /\ Exists(hs[h])
              /\ Keeps(a.handles[h], hs[h])
  <1>1. /\ DOMAIN a.handles = 1 .. Len(a.handles) /\ Len(a.handles) \in Nat
        /\ \A h \in 1 .. Len(a.handles) : a.handles[h] \in Elements /\ Exists(a.handles[h])
    BY HandlesOf DEF Sane, Reachable, HasInstance
  <1>2. ASSUME NEW h \in 1 .. Len(a.handles)
        PROVE  /\ hs[h] \in Elements /\ Exists(hs[h])
               /\ Keeps(a.handles[h], hs[h])
    <2>1. CASE h \in gone
      <3> DEFINE x == IF a.handles[h].handle = "null" THEN "null" ELSE "lost"
      <3>1. hs[h] = Gone(x) /\ x \in {"null", "lost"}
        BY <1>1, <2>1 DEF Wiped
      <3> HIDE DEF x
      <3>2. Gone(x) \in Elements /\ Gone(x).cb = None /\ Exists(Gone(x))
        BY <3>1, GoneElement, Zenon
      <3> QED
        BY <3>1, <3>2 DEF Keeps
    <2>2. CASE h \notin gone
      <3>1. hs[h] = a.handles[h]
        BY <1>1, <2>2 DEF Wiped
      <3> QED
        BY <1>1, <3>1 DEF Keeps
    <2> QED
      BY <2>1, <2>2
  <1>3. DOMAIN hs = 1 .. Len(a.handles) /\ hs = [h \in 1 .. Len(a.handles) |-> hs[h]]
    BY <1>1 DEF Wiped
  <1>4. hs \in Seq(Elements) /\ Len(hs) = Len(a.handles)
    BY <1>1, <1>2, <1>3, GivenSeq
  <1> QED
    BY <1>2, <1>4

LEMMA Destroys ==
  ASSUME NEW a \in AppObjects, Sane(a), HasInstance(a), NEW gone, NEW b, b = Destroyed(a, gone)
  PROVE  b \in AppObjects /\ Alike(a, b) /\ Sane(b) /\ b.handles = Wiped(a.handles, gone)
  <1> DEFINE hs == Wiped(a.handles, gone)
  <1>1. b = [a EXCEPT !.handles = hs]
    BY DEF Destroyed, Wiped, AppObjects
  <1>2. hs = Wiped(a.handles, gone)
    OBVIOUS
  <1> HIDE DEF hs
  <1>3. /\ hs \in Seq(Elements) /\ Len(hs) = Len(a.handles)
        /\ \A h \in 1 .. Len(hs) :
              /\ Exists(hs[h])
              /\ Keeps(a.handles[h], hs[h])
    BY <1>2, Wipes
  <1>4. b.handles = hs
    BY <1>1 DEF AppObjects
  <1> QED
    BY <1>1, <1>2, <1>3, <1>4, NewHandles

(* ui.remove_child: the handle of the child is "null" in the end, whether   *)
(* it was deleted or not.                                                   *)
LEMMA RemovesChildren ==
  ASSUME NEW a \in AppObjects, Sane(a), HasInstance(a), NEW p, NEW c \in 1 .. Len(a.handles), NEW b,
         b = ui_remove_child(a, p, c)
  PROVE  b \in AppObjects /\ Alike(a, b) /\ Sane(b)
  <1> DEFINE gone == IF c \in Children(a, p) THEN Under(a, {c}) ELSE {}
             w == Wiped(a.handles, gone)
             hs == [w EXCEPT ![c] = [@ EXCEPT !.handle = "null"]]
  <1>1. b = a \/ b = [a EXCEPT !.handles = hs]
    <2>1. DOMAIN a.handles = 1 .. Len(a.handles) /\ a.handles \in Seq(Elements)
      BY HandlesOf
    <2>2. CASE c \in Children(a, p)
      <3> DEFINE d == Destroyed(a, Under(a, {c}))
      <3>1. w = Wiped(a.handles, Under(a, {c}))
        BY <2>2
      <3>2. d = [a EXCEPT !.handles = w]
        BY <3>1 DEF Destroyed, Wiped, AppObjects
      <3>3. w \in Seq(Elements) /\ c \in DOMAIN w /\ w[c] \in Elements
        <4>1. w \in Seq(Elements) /\ Len(w) = Len(a.handles)
          BY <3>1, Wipes
        <4> QED
          BY <4>1
      <3> HIDE DEF w
      <3> DEFINE ws == [w EXCEPT ![c] = [@ EXCEPT !.handle = "valid"]]
                 f == [d EXCEPT !.handles[c].handle = "valid"]
      <3>4. f = [a EXCEPT !.handles = ws]
        BY <3>2, <3>3 DEF AppObjects, Elements
      <3>5. [ws EXCEPT ![c].handle = "null"] = [w EXCEPT ![c] = [@ EXCEPT !.handle = "null"]]
        BY <3>3 DEF Elements
      <3>6. [f EXCEPT !.handles[c].handle = "null"] = [a EXCEPT !.handles = [ws EXCEPT ![c].handle = "null"]]
        <4>1. f.handles = ws
          BY <3>4 DEF AppObjects
        <4> HIDE DEF ws, f
        <4>2. [f EXCEPT !.handles = [ws EXCEPT ![c].handle = "null"]] = [f EXCEPT !.handles[c].handle = "null"]
          BY <4>1
        <4>3. \A x : [f EXCEPT !.handles = x] = [a EXCEPT !.handles = x]
          BY <3>4
        <4> QED
          BY <4>2, <4>3
      <3>7. b = a \/ b = [f EXCEPT !.handles[c].handle = "null"]
        BY <2>2 DEF ui_remove_child, removeChild, invalidateHandle
      <3> QED
        BY <3>5, <3>6, <3>7
    <2>3. CASE c \notin Children(a, p)
      <3>1. w = a.handles
        BY <2>1, <2>3 DEF Wiped
      <3> QED
        BY <2>1, <2>3, <3>1 DEF ui_remove_child, removeChild, invalidateHandle, AppObjects
    <2> QED
      BY <2>2, <2>3
  <1>2. w = Wiped(a.handles, gone)
    OBVIOUS
  <1> HIDE DEF gone
  <1> HIDE DEF w
  <1>3. /\ w \in Seq(Elements) /\ Len(w) = Len(a.handles)
        /\ \A h \in 1 .. Len(w) :
              /\ Exists(w[h])
              /\ Keeps(a.handles[h], w[h])
    BY <1>2, Wipes
  <1>4. hs \in Seq(Elements) /\ Len(hs) = Len(w) /\ hs[c] = [w[c] EXCEPT !.handle = "null"]
        /\ \A h \in 1 .. Len(w) : h # c => hs[h] = w[h]
    <2>1. c \in 1 .. Len(w) /\ w[c] \in Elements /\ DOMAIN w = 1 .. Len(w)
      BY <1>3
    <2>2. [w[c] EXCEPT !.handle = "null"] \in Elements
      BY <2>1 DEF Elements
    <2>3. \A e \in Elements : [w EXCEPT ![c] = e] \in Seq(Elements)
                              /\ Len([w EXCEPT ![c] = e]) = Len(w) /\ [w EXCEPT ![c] = e][c] = e
                              /\ \A h \in 1 .. Len(w) : h # c => [w EXCEPT ![c] = e][h] = w[h]
      BY <1>3, <2>1
    <2>4. hs = [w EXCEPT ![c] = [w[c] EXCEPT !.handle = "null"]]
      BY <2>1
    <2> QED
      BY <2>2, <2>3, <2>4
  <1> HIDE DEF hs
  <1>5. hs[c].cb = w[c].cb /\ hs[c].kind = w[c].kind /\ Exists(hs[c])
    BY <1>3, <1>4 DEF Elements, Exists
  <1>6. ASSUME NEW h \in 1 .. Len(hs)
        PROVE  /\ Exists(hs[h])
               /\ hs[h].cb = None \/ (h \in 1 .. Len(a.handles) /\ Keeps(a.handles[h], hs[h]))
    <2>1. h \in 1 .. Len(w) /\ h \in 1 .. Len(a.handles)
      BY <1>3, <1>4
    <2>2. CASE h = c
      BY <1>3, <1>5, <2>1, <2>2 DEF Keeps
    <2>3. CASE h # c
      BY <1>3, <1>4, <2>1, <2>3
    <2> QED
      BY <2>2, <2>3
  <1>7. b = [a EXCEPT !.handles = hs] => b \in AppObjects /\ Alike(a, b) /\ Sane(b)
    BY <1>4, <1>6, NewHandles
  <1> QED
    BY <1>1, <1>7 DEF Alike

LEMMA StoredFields ==
  ASSUME NEW a \in AppObjects, a.nextCbId \in Ids, NEW g \in Nat, NEW click \in BOOLEAN, NEW b,
         b = storeCallback(a, g, click)
  PROVE  /\ b \in AppObjects
         /\ b.open = a.open /\ b.gen = a.gen /\ b.instance = a.instance /\ b.timers = a.timers
         /\ b.handles = a.handles /\ b.nextCbId = a.nextCbId + 1
         /\ b.globals = [a.globals EXCEPT ![a.nextCbId] = [gen |-> g, click |-> click]]
  <1> DEFINE gs == [a.globals EXCEPT ![a.nextCbId] = [gen |-> g, click |-> click]]
  <1>1. gs \in [Ids -> [gen : Nat, click : BOOLEAN]]
    BY DEF AppObjects
  <1>2. a.nextCbId + 1 \in Nat
    BY DEF AppObjects
  <1>3. b = [a EXCEPT !.nextCbId = a.nextCbId + 1, !.globals = gs]
    BY DEF storeCallback, AppObjects
  <1>4. gs = [a.globals EXCEPT ![a.nextCbId] = [gen |-> g, click |-> click]]
    OBVIOUS
  <1> HIDE DEF gs
  <1>5. /\ b \in AppObjects
        /\ b.open = a.open /\ b.gen = a.gen /\ b.instance = a.instance /\ b.timers = a.timers
        /\ b.handles = a.handles /\ b.nextCbId = a.nextCbId + 1 /\ b.globals = gs
    BY <1>1, <1>2, <1>3 DEF AppObjects
  <1> QED
    BY <1>4, <1>5

(* Storing a callback under the next id leaves the others.                  *)
LEMMA Stores ==
  ASSUME NEW a \in AppObjects, Sane(a), HasInstance(a), a.nextCbId < MaxCb,
         NEW g \in Nat, g = a.gen, NEW click \in BOOLEAN, NEW b, b = storeCallback(a, g, click)
  PROVE  /\ b \in AppObjects /\ Alike(a, b) /\ Sane(b) /\ b.handles = a.handles
         /\ a.nextCbId \in Ids /\ b.nextCbId = a.nextCbId + 1 /\ (ForClick(b, a.nextCbId) <=> click)
         /\ \A id \in Ids : id # a.nextCbId => b.globals[id] = a.globals[id]
  <1> DEFINE n == a.nextCbId
             new == [gen |-> g, click |-> click]
  <1>1. n \in Nat /\ n \in Ids
    BY ScriptCallsAssumption DEF AppObjects, Ids
  <1>2. /\ b \in AppObjects /\ Alike(a, b) /\ b.handles = a.handles /\ b.nextCbId = n + 1
        /\ b.globals = [a.globals EXCEPT ![n] = new]
    BY <1>1, StoredFields DEF Alike
  <1>3. b.globals[n] = new /\ \A id \in Ids : id # n => b.globals[id] = a.globals[id]
    BY <1>1, <1>2 DEF AppObjects
  <1>4. Stored(b)
    BY <1>2, <1>3 DEF Sane, Stored, Alike, HasInstance
  <1>5. ASSUME NEW h \in 1 .. Len(a.handles) PROVE Attaches(b, a.handles[h])
    <2>1. a.handles[h] \in Elements /\ Attaches(a, a.handles[h])
      BY HandlesOf DEF Sane, CallsBack
    <2> SUFFICES ASSUME a.handles[h].cb # None PROVE Attaches(b, a.handles[h])
      BY DEF Attaches
    <2>2. a.handles[h].cb \in Ids /\ a.handles[h].cb \in Nat /\ a.handles[h].cb < n
      BY <2>1 DEF Elements, Attaches, Ids
    <2>3. a.handles[h].cb < n + 1 /\ a.handles[h].cb # n
      BY <1>1, <2>2
    <2>4. b.globals[a.handles[h].cb] = a.globals[a.handles[h].cb]
      BY <1>3, <2>2, <2>3
    <2> QED
      BY <1>2, <2>1, <2>3, <2>4 DEF Attaches
  <1>6. CallsBack(b) /\ Reachable(b) /\ (b.instance => b.open)
    BY <1>2, <1>5 DEF Sane, CallsBack, Reachable, Alike
  <1> QED
    BY <1>1, <1>2, <1>3, <1>4, <1>6 DEF Sane, ForClick

Suits(e, click) == click <=> e.kind = "button"

LEMMA Attaching ==
  ASSUME NEW a \in AppObjects, Sane(a), HasInstance(a), a.nextCbId < MaxCb, NEW h \in 1 .. Len(a.handles),
         NEW g \in Nat, g = a.gen, NEW click \in BOOLEAN, Suits(a.handles[h], click),
         NEW b, b = Attached(a, h, g, click)
  PROVE  b \in AppObjects /\ Alike(a, b) /\ Sane(b)
  <1> DEFINE c == storeCallback(a, g, click)
             n == a.nextCbId
             hs == [a.handles EXCEPT ![h] = [@ EXCEPT !.cb = n]]
  <1>1. c = storeCallback(a, g, click)
    OBVIOUS
  <1> HIDE DEF c
  <1>2. /\ c \in AppObjects /\ Alike(a, c) /\ Sane(c) /\ c.handles = a.handles
        /\ n \in Ids /\ c.nextCbId = n + 1 /\ (ForClick(c, n) <=> click)
    BY <1>1, Stores
  <1>3. a.handles \in Seq(Elements) /\ a.handles[h] \in Elements /\ Len(a.handles) \in Nat
        /\ DOMAIN a.handles = 1 .. Len(a.handles)
    BY HandlesOf
  <1>4. b = [c EXCEPT !.handles = hs]
    BY <1>1, <1>2, <1>3 DEF Attached, AppObjects
  <1>5. hs \in Seq(Elements) /\ Len(hs) = Len(a.handles) /\ hs[h] = [a.handles[h] EXCEPT !.cb = n]
        /\ \A i \in 1 .. Len(a.handles) : i # h => hs[i] = a.handles[i]
    BY <1>2, <1>3 DEF Elements
  <1> HIDE DEF hs
  <1>6. b \in AppObjects /\ Alike(a, b) /\ b.globals = c.globals /\ b.nextCbId = c.nextCbId /\ b.handles = hs
    BY <1>2, <1>4, <1>5 DEF AppObjects, Alike
  <1>7. hs[h].cb = n /\ hs[h].kind = a.handles[h].kind /\ hs[h].handle = a.handles[h].handle
        /\ hs[h].live = a.handles[h].live
    BY <1>3, <1>5 DEF Elements
  <1>8. Attaches(b, hs[h])
    <2>1. n < n + 1
      BY <1>2 DEF Ids
    <2>2. hs[h].kind # "button" => ~b.globals[n].click
      BY <1>2, <1>6, <1>7 DEF ForClick, Suits
    <2> QED
      BY <1>2, <1>6, <1>7, <2>1, <2>2 DEF Attaches
  <1>9. ASSUME NEW i \in 1 .. Len(hs) PROVE Attaches(b, hs[i]) /\ Exists(hs[i])
    <2>1. i \in 1 .. Len(a.handles)
      BY <1>5
    <2>2. Attaches(c, a.handles[i]) /\ Exists(a.handles[i])
      BY <1>2, <2>1 DEF Sane, CallsBack, Reachable, Alike, HasInstance
    <2>3. CASE i = h
      BY <1>7, <1>8, <2>2, <2>3 DEF Exists
    <2>4. CASE i # h
      BY <1>5, <1>6, <2>1, <2>2, <2>4 DEF Attaches
    <2> QED
      BY <2>3, <2>4
  <1>10. Stored(b)
    BY <1>2, <1>6 DEF Sane, Stored, Alike
  <1> QED
    BY <1>2, <1>6, <1>9, <1>10 DEF Sane, CallsBack, Reachable, Alike

-----------------------------------------------------------------------------
(* Touches: nothing but callbacks of the kind that changes no elements runs *)
(* while one is passed down; the click it queues comes last.                *)
Touching(st) == \E k \in 1 .. Len(st) : st[k].op \in TouchOps

During == TouchOps \union {"eventCallback", "restoreCurrent"}

OnElement == {"touch"} \union Holding

(* The closure of an element is called, which is not one for clicks.        *)
Within(f, apps) ==
  /\ f.op \in During
  /\ f.op \in OnElement => f.id \in 1 .. Len(apps[f.app].handles)
  /\ f.op = "closure" => /\ apps[f.app].handles[f.id].cb # None
                         /\ apps[f.app].handles[f.id].kind # "button"
  /\ f.op = "call" => f.id \in Ids

Event(f, apps) == f.op = "call" => ~ForClick(apps[f.app], f.id)

Touches(st, apps) ==
  Touching(st) => \A k \in 1 .. Len(st) : /\ Within(st[k], apps)
                                          /\ k = Len(st) \/ Event(st[k], apps)

(* A touch goes down in one place, and has not queued its click yet.        *)
Descending == {"touch", "children"}

Descends(st) ==
  \A k \in 1 .. Len(st) : st[k].op \in Descending =>
    /\ \A j \in 1 .. Len(st) : st[j].op \in Descending => j = k
    /\ st[Len(st)].op # "call"

(* What tickTimers does is alone on the stack.                              *)
Ticking(st) == \E k \in 1 .. Len(st) : st[k].op \in TimerOps

Ticks(st, apps) ==
  Ticking(st) => \E s \in Scripts : \E n \in 1 .. Len(apps[s].timers) :
                   st = Serve(s, n) \/ st = <<DoWith("callTimer", s, n)>>

Without(st, S) == \A k \in 1 .. Len(st) : st[k].op \notin S

LEMMA Frame ==
  ASSUME NEW op \in Ops, NEW s \in Scripts \union {None}, NEW n \in Nat
  PROVE  /\ Do(op, s) \in Frames /\ DoWith(op, s, n) \in Frames /\ Code(op, s, n) \in Frames
         /\ Do(op, s).op = op /\ Do(op, s).app = s
         /\ DoWith(op, s, n).op = op /\ DoWith(op, s, n).app = s /\ DoWith(op, s, n).id = n
         /\ Code(op, s, n).op = op /\ Code(op, s, n).app = s /\ Code(op, s, n).gen = n
  BY DEF Frames, Do, DoWith, Code

LEMMA FrameOp ==
  ASSUME NEW op, NEW s, NEW n
  PROVE  DoWith(op, s, n).op = op
  BY DEF DoWith, Do

LEMMA WithoutTail ==
  ASSUME NEW st \in Stacks, st # <<>>, NEW S, Without(st, S)
  PROVE  Without(Tail(st), S)
  <1>1. Len(st) \in Nat /\ Len(st) >= 1 /\ Len(Tail(st)) = Len(st) - 1
        /\ \A i \in 1 .. Len(st) - 1 : i + 1 \in 1 .. Len(st) /\ Tail(st)[i] = st[i + 1]
    BY TailShifts
  <1> QED
    BY <1>1 DEF Without

LEMMA WithoutPush ==
  ASSUME NEW st \in Stacks, NEW todo \in Stacks, NEW S, Without(st, S), Without(todo, S)
  PROVE  Without(todo \o st, S)
  <1> DEFINE r == todo \o st
             n == Len(todo)
  <1>1. /\ n \in Nat /\ Len(st) \in Nat /\ Len(r) = n + Len(st)
        /\ \A i \in 1 .. n : r[i] = todo[i]
        /\ \A i \in n + 1 .. n + Len(st) : i - n \in 1 .. Len(st) /\ r[i] = st[i - n]
    BY ConcatShifts
  <1>2. \A k \in 1 .. n + Len(st) : k \in 1 .. n \/ k \in n + 1 .. n + Len(st)
    BY <1>1
  <1> HIDE DEF r, n
  <1>3. Without(r, S)
    BY <1>1, <1>2 DEF Without, n
  <1> QED
    BY <1>3 DEF r

(* Inside of a script, but for callbacks of that kind, there is no touch,   *)
(* and no timer is being served.                                            *)
LEMMA NoTouch ==
  ASSUME NEW st \in Stacks, st # <<>>, NEW apps, Touches(st, apps), Head(st).op \notin During
  PROVE  Without(st, TouchOps)
  <1>1. 1 \in 1 .. Len(st) /\ Head(st) = st[1]
    BY TailShifts
  <1>2. ~Touching(st)
    BY <1>1 DEF Touches, Within
  <1> QED
    BY <1>2 DEF Touching, Without

LEMMA NoTick ==
  ASSUME NEW st \in Stacks, st # <<>>, NEW apps, Ticks(st, apps), Head(st).op \notin TimerOps
  PROVE  Without(st, TimerOps)
  <1>1. ~Ticking(st)
    <2> SUFFICES ASSUME Ticking(st) PROVE FALSE
      OBVIOUS
    <2>1. PICK s \in Scripts : \E n \in 1 .. Len(apps[s].timers) :
            st = Serve(s, n) \/ st = <<DoWith("callTimer", s, n)>>
      BY DEF Ticks
    <2>2. PICK n \in 1 .. Len(apps[s].timers) : st = Serve(s, n) \/ st = <<DoWith("callTimer", s, n)>>
      BY <2>1
    <2>3. Head(st) \in {DoWith("clearFlag", s, n), DoWith("callTimer", s, n)}
      <3>1. \A x, y : Head(<<x>>) = x /\ Head(<<x, y>>) = x
        OBVIOUS
      <3> QED
        BY <2>2, <3>1 DEF Serve
    <2>4. DoWith("clearFlag", s, n).op = "clearFlag" /\ DoWith("callTimer", s, n).op = "callTimer"
      BY DEF DoWith, Do
    <2>5. Head(st).op \in {"clearFlag", "callTimer"}
      BY <2>3, <2>4
    <2> QED
      BY <2>5 DEF TimerOps
  <1> QED
    BY <1>1 DEF Ticking, Without

LEMMA Untouched ==
  ASSUME NEW st, NEW apps, Without(st, TouchOps)
  PROVE  Touches(st, apps) /\ Descends(st)
  BY DEF Without, Touches, Touching, Descends, Descending, TouchOps, Holding

LEMMA NotServing ==
  ASSUME NEW st, NEW apps, Without(st, TimerOps)
  PROVE  Ticks(st, apps)
  BY DEF Without, Ticks, Ticking

LEMMA TouchesThen ==
  ASSUME NEW st \in Stacks, st # <<>>, NEW apps, Touches(st, apps), Touching(st), NEW todo \in Stacks,
         \A k \in 1 .. Len(todo) : Within(todo[k], apps) /\ Event(todo[k], apps)
  PROVE  Touches(todo \o Tail(st), apps)
  <1> DEFINE t == Tail(st)
             r == todo \o t
             n == Len(todo)
  <1>1. t \in Stacks /\ Len(st) \in Nat /\ Len(st) >= 1 /\ Len(t) = Len(st) - 1
        /\ \A i \in 1 .. Len(st) - 1 : i + 1 \in 1 .. Len(st) /\ t[i] = st[i + 1]
    BY TailShifts
  <1> HIDE DEF t
  <1>2. /\ n \in Nat /\ Len(t) \in Nat /\ Len(r) = n + Len(t)
        /\ \A i \in 1 .. n : r[i] = todo[i]
        /\ \A i \in n + 1 .. n + Len(t) : i - n \in 1 .. Len(t) /\ r[i] = t[i - n]
    BY <1>1, ConcatShifts
  <1> HIDE DEF r
  <1> SUFFICES ASSUME NEW k \in 1 .. Len(r) PROVE Within(r[k], apps) /\ (k = Len(r) \/ Event(r[k], apps))
    BY DEF Touches, r, t
  <1>3. CASE k \in 1 .. n
    BY <1>2, <1>3
  <1>4. CASE k \notin 1 .. n
    <2>1. k \in n + 1 .. n + Len(t)
      BY <1>2, <1>4
    <2>2. k - n \in 1 .. Len(t) /\ r[k] = t[k - n]
      BY <1>2, <2>1
    <2>3. (k - n) + 1 \in 1 .. Len(st) /\ t[k - n] = st[(k - n) + 1]
      BY <1>1, <2>2
    <2>4. Within(r[k], apps) /\ ((k - n) + 1 = Len(st) \/ Event(r[k], apps))
      BY <2>2, <2>3 DEF Touches
    <2>5. (k - n) + 1 = Len(st) => k = Len(r)
      BY <1>1, <1>2, <2>1
    <2> QED
      BY <2>4, <2>5
  <1> QED
    BY <1>3, <1>4

LEMMA DescendsThen ==
  ASSUME NEW st \in Stacks, st # <<>>, Descends(st), NEW todo \in Stacks,
         \A k \in 1 .. Len(todo) : todo[k].op \in Descending =>
           Head(st).op \in Descending /\ \A j \in 1 .. Len(todo) : todo[j].op \in Descending => j = k,
         Len(todo) # 0 => todo[Len(todo)].op # "call"
  PROVE  Descends(todo \o Tail(st))
  <1> DEFINE t == Tail(st)
             r == todo \o t
             n == Len(todo)
  <1>1. t \in Stacks /\ Len(st) \in Nat /\ Len(st) >= 1 /\ Len(t) = Len(st) - 1 /\ Head(st) = st[1]
        /\ \A i \in 1 .. Len(st) - 1 : i + 1 \in 1 .. Len(st) /\ t[i] = st[i + 1]
    BY TailShifts
  <1> HIDE DEF t
  <1>2. /\ n \in Nat /\ Len(t) \in Nat /\ Len(r) = n + Len(t)
        /\ \A i \in 1 .. n : r[i] = todo[i]
        /\ \A i \in n + 1 .. n + Len(t) : i - n \in 1 .. Len(t) /\ r[i] = t[i - n]
    BY <1>1, ConcatShifts
  <1> HIDE DEF r
  <1> SUFFICES ASSUME NEW k \in 1 .. Len(r), r[k].op \in Descending
               PROVE  /\ \A j \in 1 .. Len(r) : r[j].op \in Descending => j = k
                      /\ r[Len(r)].op # "call"
    BY DEF Descends, r, t
  <1>3. ASSUME NEW i \in n + 1 .. n + Len(t)
        PROVE  (i - n) + 1 \in 1 .. Len(st) /\ r[i] = st[(i - n) + 1] /\ (i - n) + 1 # 1
    <2>1. i - n \in 1 .. Len(st) - 1 /\ r[i] = t[i - n]
      BY <1>1, <1>2
    <2>2. t[i - n] = st[(i - n) + 1] /\ (i - n) + 1 \in 1 .. Len(st)
      BY <1>1, <2>1
    <2>3. i - n \in Nat /\ i - n # 0
      BY <2>1
    <2>4. (i - n) + 1 # 1
      BY <2>3
    <2> QED
      BY <2>1, <2>2, <2>4
  <1>4. \A i \in 1 .. Len(r) : i \in 1 .. n \/ i \in n + 1 .. n + Len(t)
    BY <1>2
  <1>5. CASE k \in 1 .. n
    <2>1. st[1].op \in Descending /\ \A j \in 1 .. n : todo[j].op \in Descending => j = k
      BY <1>1, <1>2, <1>5
    <2>2. ASSUME NEW j \in n + 1 .. n + Len(t) PROVE r[j].op \notin Descending
      <3>1. 1 \in 1 .. Len(st) /\ (j - n) + 1 \in 1 .. Len(st) /\ r[j] = st[(j - n) + 1] /\ (j - n) + 1 # 1
        BY <1>1, <1>3
      <3>2. st[(j - n) + 1].op \notin Descending
        BY <2>1, <3>1 DEF Descends
      <3> QED
        BY <3>1, <3>2
    <2>3. \A j \in 1 .. Len(r) : r[j].op \in Descending => j = k
      BY <1>2, <1>4, <2>1, <2>2
    <2>4. r[Len(r)].op # "call"
      <3>1. CASE Len(t) = 0
        BY <1>2, <1>5, <3>1
      <3>2. CASE Len(t) # 0
        <4>1. Len(r) \in n + 1 .. n + Len(t) /\ (Len(r) - n) + 1 = Len(st)
          BY <1>1, <1>2, <3>2
        <4>2. st[Len(st)].op # "call"
          BY <1>1, <2>1 DEF Descends
        <4> QED
          BY <1>3, <4>1, <4>2
      <3> QED
        BY <3>1, <3>2
    <2> QED
      BY <2>3, <2>4
  <1>6. CASE k \in n + 1 .. n + Len(t)
    <2> DEFINE i == (k - n) + 1
    <2>1. i \in 1 .. Len(st) /\ st[i].op \in Descending /\ i # 1
      BY <1>3, <1>6
    <2>2. \A j \in 1 .. Len(st) : st[j].op \in Descending => j = i
      BY <2>1 DEF Descends
    <2>3. st[1].op \notin Descending /\ 1 \in 1 .. Len(st)
      BY <1>1, <2>1, <2>2
    <2>4. \A j \in 1 .. n : r[j].op \notin Descending
      BY <1>1, <1>2, <2>3
    <2>5. ASSUME NEW j \in n + 1 .. n + Len(t), r[j].op \in Descending PROVE j = k
      <3>1. (j - n) + 1 = i
        BY <1>3, <2>2, <2>5
      <3> QED
        BY <1>2, <1>6, <3>1
    <2>6. \A j \in 1 .. Len(r) : r[j].op \in Descending => j = k
      BY <1>4, <2>4, <2>5
    <2>7. Len(r) \in n + 1 .. n + Len(t) /\ (Len(r) - n) + 1 = Len(st)
      BY <1>1, <1>2, <1>6
    <2>8. st[Len(st)].op # "call"
      BY <2>1 DEF Descends
    <2>9. r[Len(r)].op # "call"
      BY <1>3, <2>7, <2>8
    <2> QED
      BY <2>6, <2>9
  <1> QED
    BY <1>4, <1>5, <1>6

(* A leaf queues what is to be done when the touch has been passed down.    *)
LEMMA TouchesQueue ==
  ASSUME NEW st \in Stacks, st # <<>>, NEW apps, Touches(st, apps), Touching(st), Descends(st),
         Head(st).op \in Descending,
         NEW todo \in Stacks, Len(todo) <= 1, Len(todo) = 1 => Within(todo[1], apps),
         Without(todo, Descending)
  PROVE  /\ Tail(st) \o todo \in Stacks
         /\ Touches(Tail(st) \o todo, apps) /\ Descends(Tail(st) \o todo)
  <1> DEFINE t == Tail(st)
             r == t \o todo
             n == Len(t)
  <1>1. t \in Stacks /\ Len(st) \in Nat /\ Len(st) >= 1 /\ Len(t) = Len(st) - 1 /\ Head(st) = st[1]
        /\ \A i \in 1 .. Len(st) - 1 : i + 1 \in 1 .. Len(st) /\ t[i] = st[i + 1]
    BY TailShifts
  <1> HIDE DEF t
  <1>2. /\ n \in Nat /\ Len(todo) \in Nat /\ Len(r) = n + Len(todo) /\ r \in Stacks
        /\ \A i \in 1 .. n : r[i] = t[i]
        /\ \A i \in n + 1 .. n + Len(todo) : i - n \in 1 .. Len(todo) /\ r[i] = todo[i - n]
    BY <1>1, ConcatShifts
  <1>3. \A i \in 1 .. n : i + 1 \in 1 .. Len(st) /\ r[i] = st[i + 1] /\ i + 1 # 1
    BY <1>1, <1>2
  <1>4. \A i \in 1 .. Len(r) : i \in 1 .. n \/ (i = n + 1 /\ Len(todo) = 1 /\ r[i] = todo[1] /\ i = Len(r))
    <2>1. \A i \in 1 .. Len(r) : i \in 1 .. n \/ i \in n + 1 .. n + Len(todo)
      BY <1>2
    <2>2. ASSUME NEW i \in n + 1 .. n + Len(todo)
          PROVE  i = n + 1 /\ Len(todo) = 1 /\ i - n = 1 /\ i = Len(r)
      <3>1. n \in Nat /\ Len(todo) \in Nat /\ Len(todo) <= 1 /\ Len(r) = n + Len(todo)
        BY <1>2
      <3> HIDE DEF r, n
      <3>2. \A m \in Nat, l \in Nat : l <= 1 /\ i \in m + 1 .. m + l => l = 1
        OBVIOUS
      <3>3. Len(todo) = 1
        BY <3>1, <3>2
      <3> QED
        BY <3>1, <3>3
    <2> QED
      BY <1>2, <2>1, <2>2
  <1> HIDE DEF r
  <1>5. \A k \in 1 .. Len(st) : st[k].op \in Descending => k = 1
    BY <1>1 DEF Descends
  <1>6. st[Len(st)].op # "call"
    BY <1>1 DEF Descends
  <1>7. ASSUME NEW k \in 1 .. Len(r) PROVE Within(r[k], apps) /\ (k = Len(r) \/ Event(r[k], apps))
    <2>1. CASE k \in 1 .. n
      <3>1. Within(r[k], apps) /\ (k + 1 = Len(st) \/ Event(r[k], apps))
        BY <1>3, <2>1 DEF Touches
      <3>2. k + 1 = Len(st) => Event(r[k], apps)
        BY <1>3, <1>6, <2>1 DEF Event
      <3> QED
        BY <3>1, <3>2
    <2>2. CASE k \notin 1 .. n
      BY <1>4, <2>2
    <2> QED
      BY <2>1, <2>2
  <1>8. \A k \in 1 .. Len(r) : r[k].op \notin Descending
    <2>1. Len(todo) = 1 => todo[1].op \notin Descending
      BY DEF Without
    <2> QED
      BY <1>3, <1>4, <1>5, <2>1
  <1>9. Touches(r, apps) /\ Descends(r)
    BY <1>7, <1>8 DEF Touches, Descends
  <1> QED
    BY <1>2, <1>9 DEF r, t

-----------------------------------------------------------------------------
(* Everything that hangs together.                                          *)
Starts == {"body", "instantiate"}

Fresh(apps, s) == apps[s].handles = <<Content>>

(* A script that is about to be instantiated has nothing but its content.   *)
Starting(st, apps, current) ==
  1 \in 1 .. Len(st) /\ st[1].op \in Starts => current = st[1].app /\ Fresh(apps, st[1].app)

Owes(apps, s, k) == apps[s].timers[k].owed

Fires(apps, s, k) == apps[s].timers[k].fired

CallsTimer(st, s, k) == \E j \in 1 .. Len(st) : st[j] = DoWith("callTimer", s, k)

NoneLost(st, apps) ==
  \A s \in Scripts : \A k \in 1 .. Len(apps[s].timers) :
    Owes(apps, s, k) => Fires(apps, s, k) \/ CallsTimer(st, s, k)

Flow(st, apps) == Unloaded(st, apps) /\ Final(st) /\ Opening(st, apps) /\ Followed(st)

Calls(st, apps) == Touches(st, apps) /\ Descends(st) /\ Ticks(st, apps) /\ NoneLost(st, apps)

Types(st, apps, current) ==
  /\ st \in Stacks
  /\ apps \in [Scripts -> AppObjects]
  /\ current \in Scripts \union {None}
  /\ \A s \in Scripts : Sane(apps[s])

Good(st, apps, current) ==
  /\ Types(st, apps, current)
  /\ Covered(st, apps, current)
  /\ Flow(st, apps)
  /\ Starting(st, apps, current)
  /\ Calls(st, apps)

IInv == Good(stack, app, s_currentApp)

-----------------------------------------------------------------------------
LEMMA Empty ==
  /\ <<>> \in Stacks /\ Len(<<>>) = 0
  /\ \A apps, current : Flow(<<>>, apps) /\ Starting(<<>>, apps, current)
  /\ \A S : Without(<<>>, S)
  BY DEF Stacks, Flow, Unloaded, Final, Opening, Followed, Starting, Without

LEMMA Single ==
  ASSUME NEW f \in Frames, Anyone(f)
  PROVE  <<f>> \in Stacks /\ Len(<<f>>) = 1 /\ <<f>>[1] = f
  BY DEF Stacks

LEMMA Pair ==
  ASSUME NEW f \in Frames, Anyone(f), NEW g \in Frames, Anyone(g)
  PROVE  <<f, g>> \in Stacks /\ Len(<<f, g>>) = 2 /\ <<f, g>>[1] = f /\ <<f, g>>[2] = g
  BY DEF Stacks

LEMMA Triple ==
  ASSUME NEW f \in Frames, Anyone(f), NEW g \in Frames, Anyone(g), NEW h \in Frames, Anyone(h)
  PROVE  /\ <<f, g, h>> \in Stacks /\ Len(<<f, g, h>>) = 3
         /\ <<f, g, h>>[1] = f /\ <<f, g, h>>[2] = g /\ <<f, g, h>>[3] = h
  BY DEF Stacks

(* The head of the stack.                                                   *)
LEMMA Top ==
  ASSUME NEW st \in Stacks, st # <<>>
  PROVE  /\ Head(st) = st[1] /\ 1 \in 1 .. Len(st) /\ Head(st) \in Frames /\ Anyone(Head(st))
  BY TailShifts DEF Stacks

LEMMA NothingPushed ==
  ASSUME NEW st \in Stacks
  PROVE  <<>> \o st = st
  BY DEF Stacks

LEMMA NoCurrent ==
  ASSUME NEW st \in Stacks, NEW apps, NEW current, Covered(st, apps, current),
         st = <<>> \/ Head(st).op \notin Unbound \union UserCode
  PROVE  current = None
  <1> SUFFICES ASSUME current # None PROVE FALSE
    OBVIOUS
  <1>1. Len(st) \in Nat /\ 1 \in 1 .. Len(st) + 1
    BY DEF Stacks
  <1>2. 1 \in 1 .. Len(st) /\ (st[1].op \in Unbound \/ st[1].op \in UserCode)
    BY <1>1 DEF Covered
  <1>3. st # <<>>
    BY <1>2, Empty
  <1> QED
    BY <1>2, <1>3, Top

LEMMA CurrentOwns ==
  ASSUME NEW st \in Stacks, st # <<>>, NEW apps, NEW current, Covered(st, apps, current),
         Head(st).op \in UserCode, current # None
  PROVE  Owns(Head(st), apps, current)
  <1>1. Len(st) \in Nat /\ 1 \in 1 .. Len(st) + 1
    BY DEF Stacks
  <1>2. st[1].op \in Unbound \/ (st[1].op \in UserCode /\ Owns(st[1], apps, current))
    BY <1>1 DEF Covered
  <1>3. Head(st) = st[1]
    BY Top
  <1> QED
    BY <1>2, <1>3 DEF Unbound, LifeOps, UserCode

LEMMA CoveredHead ==
  ASSUME NEW st \in Stacks, 1 \in 1 .. Len(st), st[1].op \in Resets, NEW apps, NEW current
  PROVE  Covered(st, apps, current)
  <1>1. st[1].op \in Resets => st[1].op \in Unbound
    BY DEF Resets, Unbound, LifeOps
  <1>2. Len(st) \in Nat
    BY DEF Stacks
  <1> SUFFICES ASSUME NEW k \in 1 .. Len(st) + 1, \A j \in 1 .. k - 1 : st[j].op \notin Resets
               PROVE  k \in 1 .. Len(st) /\ st[k].op \in Unbound
    BY DEF Covered
  <1>3. 1 \notin 1 .. k - 1
    OBVIOUS
  <1>4. k = 1
    BY <1>2, <1>3
  <1> QED
    BY <1>1, <1>4

-----------------------------------------------------------------------------
(* Parts that are kept when the stack or the apps change.                   *)

Modest(apps, new) ==
  \A s \in Scripts : /\ Loaded(new, s) => Loaded(apps, s)
                     /\ Opened(apps, s) => Opened(new, s)

(* Entries that need nothing of those below them.                           *)
Demanding == {"replaceWindow", "setup", "delete", "body", "instantiate", "cleanUp"}

LEMMA FlowApps ==
  ASSUME NEW st \in Stacks, NEW apps, NEW new, Flow(st, apps), Modest(apps, new)
  PROVE  Flow(st, new)
  <1>1. \A k \in 1 .. Len(st) : st[k].op \in Starts \union {"setup"} => st[k].app \in Scripts
    BY DEF Stacks, Anyone, Starts
  <1>2. Opening(st, new)
    BY <1>1 DEF Flow, Opening, Modest, Starts
  <1>3. Unloaded(st, new)
    BY UnloadedApps DEF Flow, Modest
  <1> QED
    BY <1>2, <1>3 DEF Flow

LEMMA FlowTail ==
  ASSUME NEW st \in Stacks, st # <<>>, NEW apps, Flow(st, apps),
         Head(st).op \in Unloads => ~Loaded(apps, Head(st).app)
  PROVE  Flow(Tail(st), apps)
  BY UnloadedTail, FinalTail, OpeningTail, FollowedTail DEF Flow

LEMMA FlowPush ==
  ASSUME NEW st \in Stacks, NEW apps, Flow(st, apps), NEW todo \in Stacks, Flow(todo, apps),
         st = <<>> \/ st[1].op \notin Starts,
         \A k \in 1 .. Len(todo) : todo[k].op \in Finals =>
           \A j \in 1 .. Len(st) : st[j].app = todo[k].app => st[j].op \in Outside
  PROVE  Flow(todo \o st, apps)
  <1>1. Followed(todo \o st)
    BY FollowedPush DEF Flow, Starts
  <1>2. Final(todo \o st)
    BY FinalPush DEF Flow
  <1>3. Unloaded(todo \o st, apps) /\ Opening(todo \o st, apps)
    BY UnloadedPush, OpeningPush DEF Flow
  <1> QED
    BY <1>1, <1>2, <1>3 DEF Flow

(* A constructor is the second entry only while the body is the first.      *)
LEMMA CalmTail ==
  ASSUME NEW st \in Stacks, st # <<>>, NEW apps, Flow(st, apps), Head(st).op # "body"
  PROVE  Tail(st) = <<>> \/ Tail(st)[1].op \notin Starts
  <1> DEFINE t == Tail(st)
  <1>1. t \in Stacks /\ Len(t) = Len(st) - 1 /\ \A i \in 1 .. Len(st) - 1 : t[i] = st[i + 1]
    BY TailShifts
  <1>2. Head(st) = st[1] /\ Len(st) \in Nat
    BY TailShifts
  <1> HIDE DEF t
  <1> SUFFICES ASSUME t # <<>> PROVE t[1].op \notin Starts
    BY DEF t
  <1>3. 1 \in 1 .. Len(st) - 1 /\ 1 + 1 \in 1 .. Len(st)
    BY <1>1, <1>2, TailShifts
  <1>4. t[1] = st[1 + 1]
    BY <1>1, <1>3
  <1>5. st[1 + 1].op # "body" /\ st[1 + 1].op # "instantiate"
    <2>1. 1 + 1 # 1 /\ 1 + 1 = 2
      OBVIOUS
    <2> QED
      BY <1>2, <1>3, <2>1 DEF Flow, Followed
  <1> QED
    BY <1>4, <1>5 DEF Starts

LEMMA FlowThen ==
  ASSUME NEW st \in Stacks, st # <<>>, NEW apps, Flow(st, apps), Head(st).op # "body",
         NEW todo \in Stacks, Flow(todo, apps), Without(todo, Finals),
         Head(st).op \in Unloads => ~Loaded(apps, Head(st).app)
  PROVE  Flow(todo \o Tail(st), apps)
  <1>1. Tail(st) \in Stacks
    BY TailShifts
  <1>2. Flow(Tail(st), apps) /\ (Tail(st) = <<>> \/ Tail(st)[1].op \notin Starts)
    BY FlowTail, CalmTail
  <1> QED
    BY <1>1, <1>2, FlowPush DEF Without

LEMMA Undemanding ==
  ASSUME NEW st, NEW apps, Without(st, Demanding)
  PROVE  /\ Flow(st, apps) /\ Without(st, Finals)
         /\ \A current : Starting(st, apps, current)
  BY DEF Without, Demanding, Flow, Unloaded, Final, Opening, Followed, Bare, Finals, Starting, Starts

LEMMA CalmThen ==
  ASSUME NEW st \in Stacks, st # <<>>, NEW apps, Flow(st, apps), Head(st).op # "body",
         NEW todo \in Stacks, Without(todo, Starts), NEW new, NEW current
  PROVE  Starting(todo \o Tail(st), new, current)
  <1> DEFINE t == Tail(st)
  <1>1. t \in Stacks /\ (t = <<>> \/ t[1].op \notin Starts)
    BY TailShifts, CalmTail
  <1> HIDE DEF t
  <1>2. /\ Len(todo) \in Nat /\ Len(t) \in Nat /\ Len(todo \o t) = Len(todo) + Len(t)
        /\ \A k \in 1 .. Len(todo) : (todo \o t)[k] = todo[k]
        /\ \A k \in Len(todo) + 1 .. Len(todo) + Len(t) : (todo \o t)[k] = t[k - Len(todo)]
    BY <1>1, ConcatShifts
  <1>3. CASE 1 \in 1 .. Len(todo)
    BY <1>2, <1>3 DEF Starting, Without, t
  <1>4. CASE 1 \notin 1 .. Len(todo) /\ 1 \in 1 .. Len(t)
    <2>1. Len(todo) = 0 /\ t # <<>> /\ 1 \in Len(todo) + 1 .. Len(todo) + Len(t)
      BY <1>2, <1>4, Empty
    <2>2. (todo \o t)[1] = t[1]
      BY <1>2, <2>1
    <2> QED
      BY <1>1, <2>1, <2>2 DEF Starting, t
  <1>5. CASE 1 \notin 1 .. Len(todo) /\ 1 \notin 1 .. Len(t)
    <2>1. 1 \notin 1 .. Len(todo \o t)
      BY <1>2, <1>5
    <2> QED
      BY <2>1 DEF Starting, t
  <1> QED
    BY <1>3, <1>4, <1>5

-----------------------------------------------------------------------------
(* Nothing that an app owes is lost by steps of this kind.                  *)
OwesNoMore(apps, new) ==
  \A s \in Scripts : \A k \in 1 .. Len(new[s].timers) :
    Owes(new, s, k) => k \in 1 .. Len(apps[s].timers) /\ Owes(apps, s, k)
                       /\ (Fires(apps, s, k) => Fires(new, s, k))

LEMMA SameTimers ==
  ASSUME NEW apps, NEW new, \A s \in Scripts : new[s].timers = apps[s].timers
  PROVE  OwesNoMore(apps, new)
  BY DEF OwesNoMore, Owes, Fires

LEMMA NotCalling ==
  ASSUME NEW st \in Stacks, Without(st, TimerOps), NEW s, NEW k
  PROVE  ~CallsTimer(st, s, k)
  <1>1. DoWith("callTimer", s, k).op = "callTimer"
    BY DEF DoWith, Do
  <1> QED
    BY <1>1 DEF CallsTimer, Without, TimerOps

LEMMA CallsElsewhere ==
  ASSUME NEW st \in Stacks, NEW apps, Calls(st, apps), Without(st, TimerOps),
         NEW new, OwesNoMore(apps, new), NEW next, Without(next, TouchOps), Without(next, TimerOps)
  PROVE  Calls(next, new)
  <1>1. Touches(next, new) /\ Descends(next) /\ Ticks(next, new)
    BY Untouched, NotServing
  <1>2. ASSUME NEW s \in Scripts, NEW k \in 1 .. Len(new[s].timers), Owes(new, s, k)
        PROVE  Fires(new, s, k)
    <2>1. k \in 1 .. Len(apps[s].timers) /\ Owes(apps, s, k) /\ (Fires(apps, s, k) => Fires(new, s, k))
      BY <1>2 DEF OwesNoMore
    <2> QED
      BY <2>1, NotCalling DEF Calls, NoneLost
  <1> QED
    BY <1>1, <1>2 DEF Calls, NoneLost

(* Life cycle and code that changes widgets: no touch is passed down.       *)
LEMMA Apart ==
  ASSUME NEW st \in Stacks, st # <<>>, NEW apps, Calls(st, apps),
         Head(st).op \notin During, Head(st).op \notin TimerOps
  PROVE  Without(st, TouchOps) /\ Without(st, TimerOps)
  BY NoTouch, NoTick DEF Calls

LEMMA CallsThen ==
  ASSUME NEW st \in Stacks, st # <<>>, NEW apps, Calls(st, apps), Head(st).op \notin TimerOps,
         NEW todo \in Stacks, Without(todo, TimerOps),
         Touching(st) =>
           /\ \A k \in 1 .. Len(todo) : Within(todo[k], apps) /\ Event(todo[k], apps)
           /\ \A k \in 1 .. Len(todo) : todo[k].op \in Descending =>
                /\ Head(st).op \in Descending
                /\ \A j \in 1 .. Len(todo) : todo[j].op \in Descending => j = k
           /\ Len(todo) # 0 => todo[Len(todo)].op # "call",
         ~Touching(st) => Without(todo, TouchOps)
  PROVE  Calls(todo \o Tail(st), apps)
  <1>1. Tail(st) \in Stacks
    BY TailShifts
  <1>2. Without(st, TimerOps)
    BY NoTick DEF Calls
  <1>3. Without(todo \o Tail(st), TimerOps)
    BY <1>1, <1>2, WithoutTail, WithoutPush
  <1>4. CASE Touching(st)
    <2>1. Touches(todo \o Tail(st), apps)
      BY <1>4, TouchesThen DEF Calls
    <2>2. Descends(todo \o Tail(st))
      BY <1>4, DescendsThen DEF Calls
    <2>3. \A s \in Scripts : \A k \in 1 .. Len(apps[s].timers) : Owes(apps, s, k) => Fires(apps, s, k)
      BY <1>2, NotCalling DEF Calls, NoneLost
    <2>4. NoneLost(todo \o Tail(st), apps)
      BY <2>3 DEF NoneLost
    <2> QED
      BY <1>3, <2>1, <2>2, <2>4, NotServing DEF Calls
  <1>5. CASE ~Touching(st)
    <2>1. Without(st, TouchOps)
      BY <1>5 DEF Touching, Without
    <2>2. Without(todo \o Tail(st), TouchOps)
      BY <1>1, <1>5, <2>1, WithoutTail, WithoutPush
    <2>3. OwesNoMore(apps, apps)
      BY SameTimers
    <2> QED
      BY <1>2, <1>3, <2>2, <2>3, CallsElsewhere
  <1> QED
    BY <1>4, <1>5

LEMMA CallsTail ==
  ASSUME NEW st \in Stacks, st # <<>>, NEW apps, Calls(st, apps), Head(st).op \notin TimerOps
  PROVE  Calls(Tail(st), apps)
  <1> DEFINE e == <<>>
  <1>1. e \in Stacks /\ Len(e) = 0 /\ \A S : Without(e, S)
    BY Empty
  <1>2. e \o Tail(st) = Tail(st)
    BY TailShifts, NothingPushed
  <1> HIDE DEF e
  <1>3. (\A k \in 1 .. Len(e) : FALSE) /\ Without(e, TimerOps) /\ Without(e, TouchOps)
    BY <1>1
  <1>4. Calls(e \o Tail(st), apps)
    BY <1>1, <1>3, CallsThen
  <1> QED
    BY <1>2, <1>4

-----------------------------------------------------------------------------
(* What closing and rebuilding puts on the stack.                           *)
Orders == {"teardown", "replaceWindow", "setup", "delete"}

Idly(st) == \A k \in 1 .. Len(st) : st[k].op \in Orders

LEMMA IdlyApart ==
  ASSUME NEW st, Idly(st)
  PROVE  /\ Without(st, TouchOps) /\ Without(st, TimerOps) /\ Without(st, Starts)
         /\ \A k \in 1 .. Len(st) : st[k].op \in Unbound
  BY DEF Idly, Orders, Without, TouchOps, Holding, TimerOps, Starts, Unbound, LifeOps

LEMMA Order ==
  ASSUME NEW op \in Orders, NEW s \in Scripts
  PROVE  Do(op, s) \in Frames /\ Anyone(Do(op, s)) /\ Do(op, s).op = op /\ Do(op, s).app = s
  <1>1. op \in Ops /\ s \in Scripts \union {None} /\ 0 \in Nat
    BY DEF Orders, Ops, LifeOps
  <1>2. Do(op, s) \in Frames /\ Do(op, s).op = op /\ Do(op, s).app = s
    BY <1>1, Frame
  <1>3. op # "eval" /\ op # "restoreCurrent"
    BY DEF Orders
  <1> QED
    BY <1>2, <1>3 DEF Anyone

LEMMA Closing ==
  ASSUME NEW s \in Scripts, NEW apps
  PROVE  /\ CloseOf(s) \in Stacks /\ Idly(CloseOf(s)) /\ Flow(CloseOf(s), apps)
         /\ \A k \in 1 .. Len(CloseOf(s)) : CloseOf(s)[k].app = s
  <1> DEFINE f == Do("teardown", s)
             g == Do("delete", s)
             c == CloseOf(s)
  <1>1. "teardown" \in Orders /\ "delete" \in Orders
    BY DEF Orders
  <1>2. f \in Frames /\ Anyone(f) /\ f.op = "teardown" /\ f.app = s
    BY <1>1, Order
  <1>3. g \in Frames /\ Anyone(g) /\ g.op = "delete" /\ g.app = s
    BY <1>1, Order
  <1>4. c = <<f, g>>
    BY DEF CloseOf
  <1> HIDE DEF f, g, c
  <1>5. c \in Stacks /\ Len(c) = 2 /\ c[1] = f /\ c[2] = g
    BY <1>2, <1>3, <1>4, Pair
  <1>6. \A k \in 1 .. Len(c) : k = 1 \/ k = 2
    BY <1>5
  <1>7. Idly(c) /\ \A k \in 1 .. Len(c) : c[k].app = s
    BY <1>1, <1>2, <1>3, <1>5, <1>6 DEF Idly
  <1>8. Unloaded(c, apps)
    <2>1. 1 \in 1 .. 2 - 1
      OBVIOUS
    <2> QED
      BY <1>2, <1>3, <1>5, <1>6, <2>1 DEF Unloaded, Unloads, Bare
  <1>9. Final(c)
    BY <1>2, <1>3, <1>5, <1>6 DEF Final, Finals
  <1>10. Opening(c, apps) /\ Followed(c)
    BY <1>2, <1>3, <1>5, <1>6 DEF Opening, Followed
  <1> QED
    BY <1>5, <1>7, <1>8, <1>9, <1>10 DEF Flow, c

LEMMA Thirds ==
  ASSUME NEW n \in Nat, NEW k \in 1 .. 3 * n
  PROVE  \E i \in 1 .. n : \E j \in 1 .. 3 : k = 3 * (i - 1) + j
  <1> DEFINE i == (k + 2) \div 3
             j == k - 3 * (i - 1)
  <1>1. i \in Int /\ 3 * i <= k + 2 /\ k + 2 < 3 * i + 3
    OBVIOUS
  <1> HIDE DEF i
  <1>2. i \in 1 .. n /\ j \in 1 .. 3 /\ k = 3 * (i - 1) + j
    BY <1>1
  <1> QED
    BY <1>2

LEMMA Rebuilding ==
  ASSUME NEW scripts \in Seq(Scripts), NEW apps,
         \A i, j \in 1 .. Len(scripts) : scripts[i] = scripts[j] => i = j,
         \A i \in 1 .. Len(scripts) : Opened(apps, scripts[i])
  PROVE  /\ RebuildOf(scripts) \in Stacks /\ Idly(RebuildOf(scripts)) /\ Flow(RebuildOf(scripts), apps)
         /\ \A k \in 1 .. Len(RebuildOf(scripts)) :
              \E i \in 1 .. Len(scripts) : RebuildOf(scripts)[k].app = scripts[i]
  <1> DEFINE n == Len(scripts)
             threes == [k \in DOMAIN scripts |->
                          <<Do("teardown", scripts[k]), Do("replaceWindow", scripts[k]),
                            Do("setup", scripts[k])>>]
             r == RebuildOf(scripts)
  <1>1. n \in Nat /\ DOMAIN scripts = 1 .. n /\ \A i \in 1 .. n : scripts[i] \in Scripts
    OBVIOUS
  <1>2. ASSUME NEW i \in 1 .. n
        PROVE  /\ threes[i] \in Seq(Frames) /\ Len(threes[i]) = 3
               /\ Anyone(threes[i][1]) /\ threes[i][1].op = "teardown" /\ threes[i][1].app = scripts[i]
               /\ Anyone(threes[i][2]) /\ threes[i][2].op = "replaceWindow" /\ threes[i][2].app = scripts[i]
               /\ Anyone(threes[i][3]) /\ threes[i][3].op = "setup" /\ threes[i][3].app = scripts[i]
    <2> DEFINE f == Do("teardown", scripts[i])
               g == Do("replaceWindow", scripts[i])
               h == Do("setup", scripts[i])
    <2>1. "teardown" \in Orders /\ "replaceWindow" \in Orders /\ "setup" \in Orders /\ scripts[i] \in Scripts
      BY <1>1 DEF Orders
    <2>2. f \in Frames /\ Anyone(f) /\ f.op = "teardown" /\ f.app = scripts[i]
      BY <2>1, Order
    <2>3. g \in Frames /\ Anyone(g) /\ g.op = "replaceWindow" /\ g.app = scripts[i]
      BY <2>1, Order
    <2>4. h \in Frames /\ Anyone(h) /\ h.op = "setup" /\ h.app = scripts[i]
      BY <2>1, Order
    <2>5. threes[i] = <<f, g, h>>
      BY <1>1
    <2> HIDE DEF f, g, h, threes
    <2>6. /\ <<f, g, h>> \in Seq(Frames) /\ Len(<<f, g, h>>) = 3
          /\ <<f, g, h>>[1] = f /\ <<f, g, h>>[2] = g /\ <<f, g, h>>[3] = h
      BY <2>2, <2>3, <2>4, Triple DEF Stacks
    <2> QED
      BY <2>2, <2>3, <2>4, <2>5, <2>6
  <1>3. threes \in Seq(Seq(Frames)) /\ Len(threes) = n
    <2>1. DOMAIN threes = 1 .. n /\ threes = [i \in 1 .. n |-> threes[i]]
      BY <1>1
    <2>2. \A i \in 1 .. n : threes[i] \in Seq(Frames)
      BY <1>2
    <2> HIDE DEF threes
    <2> QED
      BY <1>1, <2>1, <2>2, GivenSeq
  <1>4. r = FlattenSeq(threes)
    BY DEF RebuildOf
  <1> HIDE DEF threes, r
  <1>5. /\ r \in Seq(Frames) /\ Len(r) = 3 * n
        /\ \A i \in 1 .. n : \A j \in 1 .. 3 : r[3 * (i - 1) + j] = threes[i][j]
    <2>1. \A i \in 1 .. Len(threes) : Len(threes[i]) = 3
      BY <1>2, <1>3
    <2>2. FlattenSeq(threes) \in Seq(Frames)
      BY <1>3, <2>1, FlattenThrees
    <2>3. Len(FlattenSeq(threes)) = 3 * Len(threes)
      BY <1>3, <2>1, FlattenThrees
    <2>4. \A i \in 1 .. Len(threes) : \A j \in 1 .. 3 : InThrees(FlattenSeq(threes), i, j) = threes[i][j]
      BY <1>3, <2>1, FlattenThrees
    <2> QED
      BY <1>3, <1>4, <2>2, <2>3, <2>4 DEF InThrees
  <1>6. ASSUME NEW k \in 1 .. Len(r)
        PROVE  \E i \in 1 .. n : /\ r[k].app = scripts[i] /\ Anyone(r[k])
                                 /\ \/ k = 3 * i - 2 /\ r[k].op = "teardown"
                                    \/ k = 3 * i - 1 /\ r[k].op = "replaceWindow"
                                    \/ k = 3 * i /\ r[k].op = "setup"
    <2>1. PICK i \in 1 .. n : \E j \in 1 .. 3 : k = 3 * (i - 1) + j
      <3>1. n \in Nat /\ k \in 1 .. 3 * n
        BY <1>1, <1>5
      <3> HIDE DEF n
      <3> QED
        BY <3>1, Thirds
    <2>2. PICK j \in 1 .. 3 : k = 3 * (i - 1) + j
      BY <2>1
    <2>3. r[k] = threes[i][j]
      BY <1>5, <2>2
    <2>4. (j = 1 /\ k = 3 * i - 2) \/ (j = 2 /\ k = 3 * i - 1) \/ (j = 3 /\ k = 3 * i)
      BY <1>1, <2>2
    <2>5. CASE j = 1 /\ k = 3 * i - 2
      BY <1>2, <2>3, <2>5
    <2>6. CASE j = 2 /\ k = 3 * i - 1
      BY <1>2, <2>3, <2>6
    <2>7. CASE j = 3 /\ k = 3 * i
      BY <1>2, <2>3, <2>7
    <2> QED
      BY <2>4, <2>5, <2>6, <2>7
  <1>7. ASSUME NEW i \in 1 .. n
        PROVE  3 * i - 2 \in 1 .. Len(r) /\ r[3 * i - 2].op = "teardown" /\ r[3 * i - 2].app = scripts[i]
    <2>1. 3 * i - 2 = 3 * (i - 1) + 1 /\ 1 \in 1 .. 3 /\ 3 * i - 2 \in 1 .. Len(r)
      BY <1>1, <1>5
    <2>2. r[3 * i - 2] = threes[i][1]
      BY <1>5, <2>1
    <2> QED
      BY <1>2, <2>1, <2>2
  <1>8. r \in Stacks /\ Idly(r)
    BY <1>5, <1>6 DEF Stacks, Idly, Orders
  <1>9. Unloaded(r, apps)
    <2> SUFFICES ASSUME NEW k \in 1 .. Len(r), r[k].op \in Bare
                 PROVE  \E j \in 1 .. k - 1 : r[j].op \in Unloads /\ r[j].app = r[k].app
      BY DEF Unloaded
    <2>1. PICK i \in 1 .. n : /\ r[k].app = scripts[i]
                              /\ \/ k = 3 * i - 2 /\ r[k].op = "teardown"
                                 \/ k = 3 * i - 1
                                 \/ k = 3 * i
      BY <1>6
    <2>2. k = 3 * i - 1 \/ k = 3 * i
      BY <2>1 DEF Bare
    <2>3. 3 * i - 2 \in 1 .. k - 1
      BY <1>1, <2>2
    <2> QED
      BY <1>7, <2>1, <2>3 DEF Unloads
  <1>10. Final(r)
    <2> SUFFICES ASSUME NEW k \in 1 .. Len(r), r[k].op \in Finals,
                        NEW j \in k + 1 .. Len(r), r[j].app = r[k].app
                 PROVE  FALSE
      BY DEF Final
    <2>1. PICK i \in 1 .. n : r[k].app = scripts[i] /\ (k = 3 * i \/ r[k].op \in {"teardown", "replaceWindow"})
      BY <1>6
    <2>2. k = 3 * i
      BY <2>1 DEF Finals
    <2>3. j \in 1 .. Len(r)
      BY <1>1, <1>5
    <2>4. PICK m \in 1 .. n : r[j].app = scripts[m] /\ (j = 3 * m \/ j = 3 * m - 1 \/ j = 3 * m - 2)
      BY <1>6, <2>3
    <2>5. m = i
      BY <2>1, <2>4
    <2> QED
      BY <1>1, <2>2, <2>4, <2>5
  <1>11. Opening(r, apps)
    BY <1>6 DEF Opening
  <1>12. Followed(r)
    BY <1>6 DEF Followed
  <1> QED
    BY <1>6, <1>8, <1>9, <1>10, <1>11, <1>12 DEF Flow, r

LEMMA RebuildingOne ==
  ASSUME NEW s \in Scripts, NEW apps, Opened(apps, s)
  PROVE  /\ RebuildOf(<<s>>) \in Stacks /\ Idly(RebuildOf(<<s>>)) /\ Flow(RebuildOf(<<s>>), apps)
  <1> DEFINE w == <<s>>
  <1>1. w \in Seq(Scripts) /\ Len(w) = 1 /\ w[1] = s /\ \A i \in 1 .. Len(w) : i = 1
    OBVIOUS
  <1> HIDE DEF w
  <1>2. RebuildOf(w) \in Stacks /\ Idly(RebuildOf(w)) /\ Flow(RebuildOf(w), apps)
    BY <1>1, Rebuilding
  <1> QED
    BY <1>2 DEF w

-----------------------------------------------------------------------------
(* The life cycle of a script                                               *)

LEMMA HeadUnloaded ==
  ASSUME NEW st \in Stacks, st # <<>>, NEW apps, Flow(st, apps), Head(st).op \in Bare
  PROVE  ~Loaded(apps, Head(st).app)
  <1>1. 1 \in 1 .. Len(st) /\ Head(st) = st[1] /\ ~\E j \in 1 .. 1 - 1 : TRUE
    BY Top
  <1> QED
    BY <1>1 DEF Flow, Unloaded

LEMMA HeadFinal ==
  ASSUME NEW st \in Stacks, st # <<>>, NEW apps, Flow(st, apps), Head(st).op \in Finals
  PROVE  \A j \in 1 .. Len(Tail(st)) : Tail(st)[j].app = Head(st).app => Tail(st)[j].op \in Outside
  <1>1. /\ Len(st) \in Nat /\ Len(st) >= 1 /\ Len(Tail(st)) = Len(st) - 1 /\ Head(st) = st[1]
        /\ \A i \in 1 .. Len(st) - 1 : Tail(st)[i] = st[i + 1]
    BY TailShifts
  <1>2. \A j \in 1 .. Len(st) - 1 : j + 1 \in 1 + 1 .. Len(st) /\ 1 \in 1 .. Len(st)
    BY <1>1
  <1> QED
    BY <1>1, <1>2 DEF Flow, Final

LEMMA LifeCalls ==
  ASSUME NEW st \in Stacks, st # <<>>, NEW apps, Calls(st, apps), Head(st).op \in LifeOps,
         NEW todo \in Stacks, Without(todo, TouchOps), Without(todo, TimerOps),
         NEW new, OwesNoMore(apps, new)
  PROVE  Calls(todo \o Tail(st), new)
  <1>1. Head(st).op \notin During /\ Head(st).op \notin TimerOps
    BY DEF LifeOps, During, TouchOps, Holding, TimerOps
  <1>2. Without(st, TouchOps) /\ Without(st, TimerOps)
    BY <1>1, Apart
  <1>3. Tail(st) \in Stacks /\ Without(Tail(st), TouchOps) /\ Without(Tail(st), TimerOps)
    BY <1>2, WithoutTail, TailShifts
  <1>4. Without(todo \o Tail(st), TouchOps) /\ Without(todo \o Tail(st), TimerOps)
    BY <1>3, WithoutPush
  <1> QED
    BY <1>2, <1>4, CallsElsewhere

(* One app changes.                                                         *)
LEMMA OneApp ==
  ASSUME NEW apps \in [Scripts -> AppObjects], \A s \in Scripts : Sane(apps[s]),
         NEW s \in Scripts, NEW b \in AppObjects, Sane(b), NEW new, new = [apps EXCEPT ![s] = b]
  PROVE  /\ new \in [Scripts -> AppObjects] /\ new[s] = b
         /\ \A t \in Scripts : t # s => new[t] = apps[t]
         /\ \A t \in Scripts : Sane(new[t])
  OBVIOUS

LEMMA OneAppTimers ==
  ASSUME NEW apps \in [Scripts -> AppObjects], NEW s \in Scripts, NEW b, b.timers = apps[s].timers \/ b.timers = <<>>,
         NEW new, new = [apps EXCEPT ![s] = b]
  PROVE  OwesNoMore(apps, new)
  <1>1. \A t \in Scripts : new[t].timers = apps[t].timers \/ new[t].timers = <<>>
    OBVIOUS
  <1>2. Len(<<>>) = 0
    OBVIOUS
  <1> QED
    BY <1>1, <1>2 DEF OwesNoMore, Owes, Fires

(* The script whose turn it is.                                             *)
LEMMA Turn ==
  ASSUME IInv, NEW op, Doing(op), op # "eval", op # "restoreCurrent"
  PROVE  /\ stack \in Stacks /\ stack # <<>> /\ Head(stack).op = op
         /\ Head(stack).app \in Scripts /\ Tail(stack) \in Stacks
         /\ app \in [Scripts -> AppObjects] /\ app[Head(stack).app] \in AppObjects
         /\ Sane(app[Head(stack).app])
         /\ Flow(stack, app) /\ Calls(stack, app)
  <1>1. stack \in Stacks /\ stack # <<>> /\ Head(stack).op = op
    BY DEF IInv, Good, Types, Doing, Idle
  <1>2. Head(stack).app \in Scripts /\ Tail(stack) \in Stacks
    BY <1>1, Top, TailShifts DEF Anyone
  <1> QED
    BY <1>1, <1>2 DEF IInv, Good, Types

LEMMA ThenFirst ==
  ASSUME NEW todo \in Stacks, NEW st \in Stacks, 1 \in 1 .. Len(todo)
  PROVE  (todo \o st)[1] = todo[1] /\ 1 \in 1 .. Len(todo \o st)
  <1>1. /\ Len(todo) \in Nat /\ Len(st) \in Nat /\ Len(todo \o st) = Len(todo) + Len(st)
        /\ \A k \in 1 .. Len(todo) : (todo \o st)[k] = todo[k]
    BY ConcatShifts
  <1>2. (todo \o st)[1] = todo[1]
    BY <1>1
  <1>3. 1 <= Len(todo) + Len(st)
    BY <1>1
  <1> QED
    BY <1>1, <1>2, <1>3

LEMMA SetupStep ==
  ASSUME IInv, Setup
  PROVE  IInv'
  <1> DEFINE s == Head(stack).app
             a == app[s]
             b == [a EXCEPT !.gen = @ + 1, !.handles = <<Content>>]
             f == Code("body", s, a.gen + 1)
             g == Do("instantiate", s)
             todo == <<f, g>>
             t == Tail(stack)
  <1>1. /\ stack \in Stacks /\ stack # <<>> /\ Head(stack).op = "setup" /\ s \in Scripts /\ t \in Stacks
        /\ app \in [Scripts -> AppObjects] /\ a \in AppObjects /\ Sane(a)
        /\ Flow(stack, app) /\ Calls(stack, app) /\ \A x \in Scripts : Sane(app[x])
    BY Turn DEF Setup, IInv, Good, Types
  <1>2. ~Loaded(app, s)
    BY <1>1, HeadUnloaded DEF Bare
  <1>3. app' = [app EXCEPT ![s] = b] /\ s_currentApp' = s /\ stack' = todo \o t
    BY <1>1 DEF Setup, Then, AppObjects
  <1>4. Content \in Elements /\ Content.cb = None
    <2>1. "container" \in Kinds /\ 0 \in Nat
      BY DEF Kinds
    <2> QED
      BY <2>1, NewElement DEF Content
  <1>5. b \in AppObjects /\ Sane(b) /\ b.timers = a.timers /\ b.open = a.open /\ b.instance = a.instance
        /\ b.handles = <<Content>>
    <2>1. /\ b \in AppObjects /\ b.timers = a.timers /\ b.open = a.open /\ b.instance = FALSE
          /\ b.handles = <<Content>> /\ b.globals = a.globals /\ a.instance = FALSE
      <3> DEFINE hs == <<Content>>
                 n == a.gen + 1
      <3>1. hs \in Seq(Elements) /\ n \in Nat
        BY <1>1, <1>4 DEF AppObjects
      <3>2. b = [a EXCEPT !.gen = n, !.handles = hs]
        BY <1>1 DEF AppObjects
      <3> HIDE DEF hs, n, b, a
      <3>3. /\ b \in AppObjects /\ b.timers = a.timers /\ b.open = a.open /\ b.instance = a.instance
            /\ b.handles = hs /\ b.globals = a.globals /\ a.instance \in BOOLEAN
        BY <1>1, <3>1, <3>2 DEF AppObjects
      <3>4. a.instance = FALSE
        BY <1>2, <3>3 DEF Loaded, a
      <3> QED
        BY <3>3, <3>4 DEF hs
    <2>2. Stored(b)
      BY <1>1, <2>1 DEF Sane, Stored
    <2>3. CallsBack(b)
      BY <1>4, <2>1 DEF CallsBack, Attaches
    <2> QED
      BY <2>1, <2>2, <2>3 DEF Sane, Reachable
  <1>6. a.gen + 1 \in Nat /\ "body" \in Ops /\ "instantiate" \in Ops /\ s \in Scripts \union {None}
    BY <1>1 DEF AppObjects, Ops, LifeOps
  <1>7. f \in Frames /\ f.op = "body" /\ f.app = s
    BY <1>6, Frame
  <1>8. g \in Frames /\ g.op = "instantiate" /\ g.app = s
    BY <1>6, Frame
  <1> HIDE DEF b, f, g, a
  <1>9. /\ app' \in [Scripts -> AppObjects] /\ app'[s] = b
        /\ \A x \in Scripts : x # s => app'[x] = app[x]
        /\ \A x \in Scripts : Sane(app'[x])
    BY <1>1, <1>3, <1>5, OneApp
  <1>10. todo \in Stacks /\ Len(todo) = 2 /\ todo[1] = f /\ todo[2] = g
    BY <1>1, <1>7, <1>8, Pair DEF Anyone
  <1>11. \A k \in 1 .. Len(todo) : k = 1 \/ k = 2
    BY <1>10
  <1> HIDE DEF todo
  <1>12. 1 \in 1 .. Len(todo)
    BY <1>10
  <1>13. todo[1].op \in Resets /\ todo[1].op \in Unbound
    BY <1>7, <1>10 DEF Resets, Unbound, LifeOps
  <1>14. Types(stack', app', s_currentApp')
    BY <1>1, <1>3, <1>9, <1>10, ConcatShifts DEF Types
  <1>15. Covered(stack', app', s_currentApp')
    <2>1. 1 \in 1 .. Len(todo \o t) /\ (todo \o t)[1] = todo[1] /\ todo \o t \in Stacks
      BY <1>1, <1>10, <1>12, ThenFirst, ConcatShifts
    <2> QED
      BY <1>3, <1>13, <2>1, CoveredHead
  <1>16. Flow(stack', app')
    <2>1. Opened(app', s)
      <3>1. 1 \in 1 .. Len(stack) /\ stack[1] = Head(stack)
        BY <1>1, Top
      <3>2. Opened(app, s)
        BY <1>1, <3>1 DEF Flow, Opening
      <3> QED
        BY <1>5, <1>9, <3>2 DEF Opened, a
    <2>2. Modest(app, app')
      BY <1>5, <1>9 DEF Modest, Loaded, Opened, a
    <2>3. Flow(t, app) /\ (t = <<>> \/ t[1].op \notin Starts)
      BY <1>1, FlowTail, CalmTail DEF Unloads
    <2>4. Flow(t, app')
      BY <1>1, <2>2, <2>3, FlowApps
    <2>5. Flow(todo, app')
      <3>1. Unloaded(todo, app')
        BY <1>7, <1>8, <1>10, <1>11 DEF Unloaded, Bare
      <3>2. Final(todo)
        BY <1>7, <1>8, <1>10, <1>11 DEF Final, Finals
      <3>3. Opening(todo, app')
        BY <1>7, <1>8, <1>10, <1>11, <2>1 DEF Opening
      <3>4. 2 \in 1 .. Len(todo)
        BY <1>10
      <3>5. Followed(todo)
        BY <1>7, <1>8, <1>10, <1>11, <3>4 DEF Followed
      <3> QED
        BY <3>1, <3>2, <3>3, <3>5 DEF Flow
    <2>6. \A j \in 1 .. Len(t) : t[j].app = s => t[j].op \in Outside
      BY <1>1, HeadFinal DEF Finals
    <2>7. \A k \in 1 .. Len(todo) : todo[k].op \in Finals =>
            \A j \in 1 .. Len(t) : t[j].app = todo[k].app => t[j].op \in Outside
      BY <1>7, <1>8, <1>10, <1>11, <2>6
    <2> QED
      BY <1>1, <1>3, <1>10, <2>3, <2>4, <2>5, <2>7, FlowPush
  <1>17. Starting(stack', app', s_currentApp')
    <2>1. stack'[1] = todo[1]
      BY <1>1, <1>3, <1>10, <1>12, ThenFirst
    <2> QED
      BY <1>3, <1>5, <1>7, <1>9, <1>10, <2>1 DEF Starting, Fresh
  <1>18. Calls(stack', app')
    <2>1. Without(todo, TouchOps) /\ Without(todo, TimerOps)
      BY <1>7, <1>8, <1>10, <1>11 DEF Without, TouchOps, Holding, TimerOps
    <2>2. OwesNoMore(app, app')
      BY <1>1, <1>3, <1>5, OneAppTimers DEF a
    <2> QED
      BY <1>1, <1>3, <1>10, <2>1, <2>2, LifeCalls DEF LifeOps
  <1> QED
    BY <1>14, <1>15, <1>16, <1>17, <1>18 DEF IInv, Good

LEMMA Calm ==
  ASSUME NEW st, st = <<>> \/ st[1].op \notin Starts, NEW apps, NEW current
  PROVE  Starting(st, apps, current)
  BY Empty DEF Starting

(* A call returns.                                                          *)
LEMMA Returning ==
  ASSUME NEW st, NEW apps, NEW new, NEW current, st # <<>>,
         Types(st, new, current), Flow(st, new), Covered(Tail(st), new, current),
         Head(st).op # "body", Head(st).op \in Unloads => ~Loaded(new, Head(st).app),
         Calls(Tail(st), new)
  PROVE  Good(Tail(st), new, current)
  <1>1. st \in Stacks /\ Tail(st) \in Stacks
    BY TailShifts DEF Types
  <1>2. Flow(Tail(st), new)
    BY <1>1, FlowTail
  <1>3. Starting(Tail(st), new, current)
    BY <1>1, CalmTail, Calm
  <1> QED
    BY <1>1, <1>2, <1>3 DEF Good, Types

LEMMA BodyFailsStep ==
  ASSUME IInv, BodyFails
  PROVE  IInv'
  <1> DEFINE t == Tail(stack)
  <1>1. /\ stack \in Stacks /\ stack # <<>> /\ Head(stack).op = "body" /\ t \in Stacks
        /\ Flow(stack, app) /\ Calls(stack, app)
    BY Turn DEF BodyFails
  <1>2. stack' = Tail(t) /\ s_currentApp' = None /\ app' = app
    BY DEF BodyFails
  <1>3. /\ 1 \in 1 .. Len(stack) /\ Len(stack) \in Nat /\ stack[1].op = "body" /\ Len(t) = Len(stack) - 1
        /\ \A i \in 1 .. Len(stack) - 1 : t[i] = stack[i + 1]
    BY <1>1, TailShifts
  <1>4. 2 \in 1 .. Len(stack) /\ stack[2].op = "instantiate"
    BY <1>1, <1>3 DEF Flow, Followed
  <1>5. 1 \in 1 .. Len(stack) - 1 /\ 1 + 1 = 2
    BY <1>3, <1>4
  <1>6. 1 \in 1 .. Len(t) /\ t[1].op = "instantiate"
    BY <1>3, <1>4, <1>5
  <1> HIDE DEF t
  <1>7. t # <<>> /\ Head(t).op = "instantiate"
    BY <1>1, <1>6, Empty, Top
  <1>8. Flow(t, app) /\ Calls(t, app)
    BY <1>1, FlowTail, CallsTail DEF t, Unloads, TimerOps
  <1>9. Calls(Tail(t), app)
    BY <1>1, <1>7, <1>8, CallsTail DEF TimerOps
  <1>10. Types(t, app, None) /\ Covered(Tail(t), app, None)
    BY <1>1 DEF IInv, Good, Types, Covered
  <1>11. Good(Tail(t), app, None)
    BY <1>7, <1>8, <1>9, <1>10, Returning DEF Unloads
  <1> QED
    BY <1>2, <1>11 DEF IInv

LEMMA BodyReturnsStep ==
  ASSUME IInv, BodyReturns
  PROVE  IInv'
  <1> DEFINE t == Tail(stack)
             c == s_currentApp
  <1>1. /\ stack \in Stacks /\ stack # <<>> /\ Head(stack).op = "body" /\ t \in Stacks
        /\ Flow(stack, app) /\ Calls(stack, app)
    BY Turn DEF BodyReturns
  <1>2. stack' = t /\ s_currentApp' = c /\ app' = app
    BY <1>1, NothingPushed DEF BodyReturns, Then
  <1>3. /\ 1 \in 1 .. Len(stack) /\ Len(stack) \in Nat /\ stack[1].op = "body" /\ Len(t) = Len(stack) - 1
        /\ \A i \in 1 .. Len(stack) - 1 : t[i] = stack[i + 1]
    BY <1>1, TailShifts
  <1>4. 2 \in 1 .. Len(stack) /\ stack[2].op = "instantiate" /\ stack[2].app = stack[1].app
    BY <1>1, <1>3 DEF Flow, Followed
  <1>5. 1 \in 1 .. Len(stack) - 1 /\ 1 + 1 = 2
    BY <1>3, <1>4
  <1>6. 1 \in 1 .. Len(t) /\ t[1].op = "instantiate" /\ t[1].app = stack[1].app
    BY <1>3, <1>4, <1>5
  <1> HIDE DEF t
  <1>7. Flow(t, app) /\ Calls(t, app)
    BY <1>1, FlowTail, CallsTail DEF t, Unloads, TimerOps
  <1>8. Covered(t, app, c)
    BY <1>1, <1>6, CoveredHead DEF Resets
  <1>9. Starting(t, app, c)
    BY <1>3, <1>6 DEF Starting, Starts, IInv, Good
  <1> QED
    BY <1>1, <1>2, <1>7, <1>8, <1>9 DEF IInv, Good, Types

LEMMA ResetCurrentStep ==
  ASSUME IInv, ResetCurrent
  PROVE  IInv'
  <1> DEFINE t == Tail(stack)
  <1>1. /\ stack \in Stacks /\ stack # <<>> /\ Head(stack).op = "resetCurrent" /\ t \in Stacks
        /\ Flow(stack, app) /\ Calls(stack, app)
    BY Turn DEF ResetCurrent
  <1>2. stack' = t /\ s_currentApp' = None /\ app' = app
    BY <1>1, NothingPushed DEF ResetCurrent, Then
  <1>3. Types(stack, app, None) /\ Covered(t, app, None)
    BY DEF IInv, Good, Types, Covered
  <1>4. Calls(t, app)
    BY <1>1, CallsTail DEF TimerOps
  <1>5. Good(t, app, None)
    BY <1>1, <1>3, <1>4, Returning DEF Unloads
  <1> QED
    BY <1>2, <1>5 DEF IInv

(* A script without an instance loses its window.                           *)
LEMMA WithoutInstance ==
  ASSUME NEW s \in Scripts, NEW apps, NEW new, NEW b, new = [apps EXCEPT ![s] = b],
         apps \in [Scripts -> AppObjects], ~Loaded(apps, s)
  PROVE  KeepsInstances(apps, new)
  BY DEF KeepsInstances, Loaded

Lifeless(hs) == [h \in DOMAIN hs |-> [hs[h] EXCEPT !.live = FALSE]]

LEMMA Bereft ==
  ASSUME NEW a \in AppObjects, NEW hs, hs = Lifeless(a.handles)
  PROVE  /\ hs \in Seq(Elements) /\ Len(hs) = Len(a.handles)
         /\ \A h \in 1 .. Len(hs) : hs[h].cb = a.handles[h].cb /\ hs[h].kind = a.handles[h].kind
  <1>1. /\ DOMAIN a.handles = 1 .. Len(a.handles) /\ Len(a.handles) \in Nat
        /\ \A h \in 1 .. Len(a.handles) : a.handles[h] \in Elements
    BY HandlesOf
  <1>2. \A e \in Elements : /\ [e EXCEPT !.live = FALSE] \in Elements
                            /\ [e EXCEPT !.live = FALSE].cb = e.cb
                            /\ [e EXCEPT !.live = FALSE].kind = e.kind
    BY DEF Elements
  <1>3. \A h \in 1 .. Len(a.handles) : hs[h] = [a.handles[h] EXCEPT !.live = FALSE]
    BY <1>1 DEF Lifeless
  <1>4. DOMAIN hs = 1 .. Len(a.handles) /\ hs = [h \in 1 .. Len(a.handles) |-> hs[h]]
    BY <1>1 DEF Lifeless
  <1>5. \A h \in 1 .. Len(a.handles) :
          hs[h] \in Elements /\ hs[h].cb = a.handles[h].cb /\ hs[h].kind = a.handles[h].kind
    BY <1>1, <1>2, <1>3
  <1>6. hs \in Seq(Elements) /\ Len(hs) = Len(a.handles)
    BY <1>1, <1>4, <1>5, GivenSeq
  <1> QED
    BY <1>5, <1>6

LEMMA ReplaceWindowStep ==
  ASSUME IInv, ReplaceWindow
  PROVE  IInv'
  <1> DEFINE s == Head(stack).app
             a == app[s]
             hs == [h \in DOMAIN a.handles |-> [a.handles[h] EXCEPT !.live = FALSE]]
             b == [a EXCEPT !.handles = hs]
             t == Tail(stack)
             c == s_currentApp
  <1>1. /\ stack \in Stacks /\ stack # <<>> /\ Head(stack).op = "replaceWindow" /\ s \in Scripts
        /\ t \in Stacks /\ app \in [Scripts -> AppObjects] /\ a \in AppObjects /\ Sane(a)
        /\ Flow(stack, app) /\ Calls(stack, app) /\ \A x \in Scripts : Sane(app[x])
    BY Turn DEF ReplaceWindow, IInv, Good, Types
  <1>2. ~Loaded(app, s)
    BY <1>1, HeadUnloaded DEF Bare
  <1>3. app' = [app EXCEPT ![s] = b] /\ s_currentApp' = c /\ stack' = t
    <2>1. stack' = t /\ s_currentApp' = c
      BY <1>1, NothingPushed DEF ReplaceWindow, Then
    <2>2. app' = [app EXCEPT ![s].handles = hs]
      BY <1>1 DEF ReplaceWindow
    <2> HIDE DEF hs
    <2> QED
      BY <1>1, <2>1, <2>2
  <1>4. /\ hs \in Seq(Elements) /\ Len(hs) = Len(a.handles)
        /\ \A h \in 1 .. Len(hs) : hs[h].cb = a.handles[h].cb /\ hs[h].kind = a.handles[h].kind
    <2>1. hs = Lifeless(a.handles)
      BY DEF Lifeless
    <2> HIDE DEF hs, a
    <2> QED
      BY <1>1, <2>1, Bereft
  <1> HIDE DEF hs, a
  <1>5. /\ b \in AppObjects /\ b.timers = a.timers /\ b.open = a.open /\ b.instance = a.instance
        /\ b.globals = a.globals /\ b.handles = hs /\ b.nextCbId = a.nextCbId /\ b.gen = a.gen
        /\ a.instance \in BOOLEAN
    BY <1>1, <1>4 DEF AppObjects
  <1> HIDE DEF b
  <1>6. Sane(b)
    <2>1. Stored(b)
      BY <1>1, <1>5 DEF Sane, Stored
    <2>2. CallsBack(b)
      BY <1>1, <1>4, <1>5 DEF Sane, CallsBack, Attaches
    <2>3. b.instance = FALSE
      BY <1>2, <1>5 DEF Loaded, a
    <2> QED
      BY <2>1, <2>2, <2>3 DEF Sane, Reachable
  <1>7. /\ app' \in [Scripts -> AppObjects] /\ app'[s] = b
        /\ \A x \in Scripts : x # s => app'[x] = app[x]
        /\ \A x \in Scripts : Sane(app'[x])
    BY <1>1, <1>3, <1>5, <1>6, OneApp
  <1>8. Types(stack, app', c)
    BY <1>1, <1>7 DEF Types, IInv, Good
  <1>9. Flow(stack, app')
    <2>1. Modest(app, app')
      BY <1>5, <1>7 DEF Modest, Loaded, Opened, a
    <2> QED
      BY <1>1, <2>1, FlowApps
  <1>10. Covered(t, app', c)
    <2>1. Covered(t, app, c)
      BY <1>1, CoveredTail DEF IInv, Good, Resets
    <2>2. KeepsInstances(app, app') /\ c \in Scripts \union {None}
      BY <1>1, <1>2, <1>3, WithoutInstance DEF IInv, Good, Types
    <2> QED
      BY <1>1, <2>1, <2>2, CoveredApps
  <1>11. Calls(t, app')
    <2>1. OwesNoMore(app, app')
      BY <1>1, <1>3, <1>5, OneAppTimers DEF a
    <2>2. <<>> \in Stacks /\ Without(<<>>, TouchOps) /\ Without(<<>>, TimerOps) /\ <<>> \o t = t
      BY <1>1, Empty, NothingPushed
    <2>3. Head(stack).op \in LifeOps
      BY <1>1 DEF LifeOps
    <2>4. Calls(<<>> \o t, app')
      BY <1>1, <2>1, <2>2, <2>3, LifeCalls
    <2> QED
      BY <2>2, <2>4
  <1>12. Good(t, app', c)
    BY <1>1, <1>8, <1>9, <1>10, <1>11, Returning DEF Unloads
  <1> QED
    BY <1>3, <1>12 DEF IInv

LEMMA DeleteStep ==
  ASSUME IInv, Delete
  PROVE  IInv'
  <1> DEFINE s == Head(stack).app
             a == app[s]
             b == [Closed EXCEPT !.gen = a.gen]
             t == Tail(stack)
             c == s_currentApp
  <1>1. /\ stack \in Stacks /\ stack # <<>> /\ Head(stack).op = "delete" /\ s \in Scripts
        /\ t \in Stacks /\ app \in [Scripts -> AppObjects] /\ a \in AppObjects /\ Sane(a)
        /\ Flow(stack, app) /\ Calls(stack, app) /\ \A x \in Scripts : Sane(app[x])
    BY Turn DEF Delete, IInv, Good, Types
  <1>2. ~Loaded(app, s)
    BY <1>1, HeadUnloaded DEF Bare
  <1>3. app' = [app EXCEPT ![s] = b] /\ s_currentApp' = c /\ stack' = t
    BY <1>1, NothingPushed DEF Delete, Then
  <1>4. a.gen \in Nat /\ b.timers = <<>> /\ b.instance = FALSE
    BY <1>1 DEF AppObjects, Closed
  <1>5. b \in AppObjects /\ Sane(b)
    BY <1>4, ClosedIsSane
  <1> HIDE DEF a, b
  <1>6. /\ app' \in [Scripts -> AppObjects] /\ app'[s] = b
        /\ \A x \in Scripts : x # s => app'[x] = app[x]
        /\ \A x \in Scripts : Sane(app'[x])
    BY <1>1, <1>3, <1>5, OneApp
  <1>7. Covered(t, app', c)
    <2>1. Covered(t, app, c)
      BY <1>1, CoveredTail DEF IInv, Good, Resets
    <2>2. KeepsInstances(app, app') /\ c \in Scripts \union {None}
      BY <1>1, <1>2, <1>3, WithoutInstance DEF IInv, Good, Types
    <2> QED
      BY <1>1, <2>1, <2>2, CoveredApps
  <1>8. Calls(t, app')
    <2>1. OwesNoMore(app, app')
      BY <1>1, <1>3, <1>4, OneAppTimers
    <2>2. <<>> \in Stacks /\ Without(<<>>, TouchOps) /\ Without(<<>>, TimerOps) /\ <<>> \o t = t
      BY <1>1, Empty, NothingPushed
    <2>3. Head(stack).op \in LifeOps
      BY <1>1 DEF LifeOps
    <2>4. Calls(<<>> \o t, app')
      BY <1>1, <2>1, <2>2, <2>3, LifeCalls
    <2> QED
      BY <2>2, <2>4
  <1>9. Flow(t, app')
    <2>1. Flow(t, app)
      BY <1>1, FlowTail DEF Unloads
    <2>2. \A x \in Scripts : Loaded(app', x) => Loaded(app, x)
      BY <1>4, <1>6 DEF Loaded
    <2>3. Unloaded(t, app')
      BY <1>1, <2>1, <2>2, UnloadedApps DEF Flow
    <2>4. \A k \in 1 .. Len(t) : t[k].op \in {"setup", "body", "instantiate"} =>
            t[k].app \in Scripts /\ t[k].app # s
      <3>1. \A k \in 1 .. Len(t) : t[k].app = s => t[k].op \in Outside
        BY <1>1, HeadFinal DEF Finals
      <3>2. \A k \in 1 .. Len(t) : Anyone(t[k])
        BY <1>1 DEF Stacks
      <3> QED
        BY <3>1, <3>2 DEF Outside, Holding, Anyone
    <2>5. Opening(t, app')
      BY <1>6, <2>1, <2>4 DEF Flow, Opening, Opened
    <2> QED
      BY <2>1, <2>3, <2>5 DEF Flow
  <1>10. Starting(t, app', c)
    BY <1>1, CalmTail, Calm
  <1> QED
    BY <1>1, <1>3, <1>6, <1>7, <1>8, <1>9, <1>10 DEF IInv, Good, Types

(* The entry below.                                                         *)
LEMMA Second ==
  ASSUME NEW st \in Stacks, st # <<>>, 2 \in 1 .. Len(st)
  PROVE  1 \in 1 .. Len(Tail(st)) /\ Tail(st)[1] = st[2]
  <1>1. /\ Len(st) \in Nat /\ Len(Tail(st)) = Len(st) - 1
        /\ \A i \in 1 .. Len(st) - 1 : Tail(st)[i] = st[i + 1]
    BY TailShifts
  <1>2. 1 \in 1 .. Len(st) - 1 /\ 1 + 1 = 2
    BY <1>1
  <1> QED
    BY <1>1, <1>2

LEMMA AfterCleanUp ==
  ASSUME NEW st \in Stacks, st # <<>>, NEW apps, Flow(st, apps), Head(st).op = "cleanUp"
  PROVE  1 \in 1 .. Len(Tail(st)) /\ Tail(st)[1].op = "resetCurrent"
  <1>1. \A k \in 1 .. Len(st) : st[k].op = "cleanUp" =>
          \E m \in 1 .. Len(st) : m = k + 1 /\ st[m].op = "resetCurrent"
    BY DEF Flow, Followed
  <1>2. PICK m \in 1 .. Len(st) : m = 1 + 1 /\ st[m].op = "resetCurrent"
    BY <1>1, Top
  <1>3. m = 2
    BY <1>2
  <1>4. Tail(st)[1] = st[m] /\ 1 \in 1 .. Len(Tail(st))
    BY <1>3, Second
  <1> QED
    BY <1>2, <1>4

LEMMA CleanUpStep ==
  ASSUME IInv, CleanUp
  PROVE  IInv'
  <1> DEFINE s == Head(stack).app
             a == app[s]
             b == [a EXCEPT !.instance = FALSE, !.nextCbId = 0, !.handles = <<>>,
                            !.globals = Closed.globals]
             t == Tail(stack)
             c == s_currentApp
  <1>1. /\ stack \in Stacks /\ stack # <<>> /\ Head(stack).op = "cleanUp" /\ s \in Scripts
        /\ t \in Stacks /\ app \in [Scripts -> AppObjects] /\ a \in AppObjects /\ Sane(a)
        /\ Flow(stack, app) /\ Calls(stack, app) /\ \A x \in Scripts : Sane(app[x])
    BY Turn DEF CleanUp, IInv, Good, Types
  <1>2. app' = [app EXCEPT ![s] = b] /\ s_currentApp' = c /\ stack' = t
    <2>1. stack' = t /\ s_currentApp' = c
      BY <1>1, NothingPushed DEF CleanUp, Then
    <2>2. app' = [app EXCEPT ![s].instance = FALSE, ![s].nextCbId = 0, ![s].handles = <<>>,
                             ![s].globals = Closed.globals]
      BY <1>1 DEF CleanUp
    <2> QED
      BY <1>1, <2>1, <2>2 DEF AppObjects
  <1>3. /\ Closed.globals = [id \in Ids |-> NoClosure]
        /\ Closed.globals \in [Ids -> [gen : Nat, click : BOOLEAN]]
    <2>1. NoClosure \in [gen : Nat, click : BOOLEAN]
      BY DEF NoClosure
    <2> QED
      BY <2>1 DEF Closed, Ids
  <1> HIDE DEF a
  <1>4. /\ b \in AppObjects /\ b.timers = a.timers /\ b.open = a.open /\ b.instance = FALSE
        /\ b.globals = Closed.globals /\ b.handles = <<>>
    <2> DEFINE gs == Closed.globals
               none == <<>>
    <2>1. gs \in [Ids -> [gen : Nat, click : BOOLEAN]] /\ none \in Seq(Elements) /\ 0 \in Nat
      BY <1>3
    <2>2. b = [a EXCEPT !.instance = FALSE, !.nextCbId = 0, !.handles = none, !.globals = gs]
      OBVIOUS
    <2> HIDE DEF gs, none, b
    <2>3. /\ b \in AppObjects /\ b.timers = a.timers /\ b.open = a.open /\ b.instance = FALSE
          /\ b.globals = gs /\ b.handles = none
      BY <1>1, <2>1, <2>2 DEF AppObjects
    <2> QED
      BY <2>3 DEF gs, none
  <1> HIDE DEF b
  <1>5. Sane(b)
    BY <1>3, <1>4 DEF Sane, Stored, CallsBack, Reachable
  <1>6. /\ app' \in [Scripts -> AppObjects] /\ app'[s] = b
        /\ \A x \in Scripts : x # s => app'[x] = app[x]
        /\ \A x \in Scripts : Sane(app'[x])
    BY <1>1, <1>2, <1>4, <1>5, OneApp
  <1>7. Types(stack, app', c)
    BY <1>1, <1>6 DEF Types, IInv, Good
  <1>8. Flow(stack, app')
    <2>1. Modest(app, app')
      BY <1>4, <1>6 DEF Modest, Loaded, Opened, a
    <2> QED
      BY <1>1, <2>1, FlowApps
  <1>9. Covered(t, app', c)
    <2>4. 1 \in 1 .. Len(t) /\ t[1].op = "resetCurrent"
      BY <1>1, AfterCleanUp
    <2> QED
      BY <1>1, <2>4, CoveredHead DEF Resets
  <1>10. Calls(t, app')
    <2>1. OwesNoMore(app, app')
      BY <1>1, <1>2, <1>4, OneAppTimers DEF a
    <2>2. <<>> \in Stacks /\ Without(<<>>, TouchOps) /\ Without(<<>>, TimerOps) /\ <<>> \o t = t
      BY <1>1, Empty, NothingPushed
    <2>3. Head(stack).op \in LifeOps
      BY <1>1 DEF LifeOps
    <2>4. Calls(<<>> \o t, app')
      BY <1>1, <2>1, <2>2, <2>3, LifeCalls
    <2> QED
      BY <2>2, <2>4
  <1>11. ~Loaded(app', s)
    BY <1>4, <1>6 DEF Loaded
  <1>12. Good(t, app', c)
    BY <1>1, <1>7, <1>8, <1>9, <1>10, <1>11, Returning
  <1> QED
    BY <1>2, <1>12 DEF IInv

(* What clears up after a script takes the place of its teardown.           *)
LEMMA Replaced ==
  ASSUME NEW st \in Stacks, st # <<>>, NEW apps, Unloaded(st, apps), NEW todo \in Stacks,
         Without(todo, Bare), NEW m \in 1 .. Len(todo), todo[m].op \in Unloads, todo[m].app = Head(st).app
  PROVE  Unloaded(todo \o Tail(st), apps)
  <1> DEFINE t == Tail(st)
             n == Len(todo)
             r == todo \o t
  <1>1. /\ t \in Stacks /\ Len(st) \in Nat /\ Len(t) = Len(st) - 1 /\ Head(st) = st[1]
        /\ \A i \in 1 .. Len(st) - 1 : t[i] = st[i + 1]
    BY TailShifts
  <1> HIDE DEF t
  <1>2. /\ n \in Nat /\ Len(t) \in Nat /\ Len(r) = n + Len(t)
        /\ \A k \in 1 .. n : r[k] = todo[k]
        /\ \A k \in n + 1 .. n + Len(t) : k - n \in 1 .. Len(t) /\ r[k] = t[k - n]
    BY <1>1, ConcatShifts
  <1>3. m \in 1 .. n /\ r[m] = todo[m]
    BY <1>2
  <1> HIDE DEF r
  <1> SUFFICES ASSUME NEW k \in 1 .. Len(r), r[k].op \in Bare, Loaded(apps, r[k].app)
               PROVE  \E j \in 1 .. k - 1 : r[j].op \in Unloads /\ r[j].app = r[k].app
    BY DEF Unloaded, r, t
  <1>4. k \notin 1 .. n
    BY <1>2 DEF Without
  <1>5. k \in n + 1 .. n + Len(t)
    BY <1>2, <1>4
  <1>6. k - n \in 1 .. Len(st) - 1 /\ r[k] = st[(k - n) + 1] /\ (k - n) + 1 \in 1 .. Len(st)
    <2>1. k - n \in 1 .. Len(st) - 1 /\ r[k] = t[k - n]
      BY <1>1, <1>2, <1>5
    <2>2. t[k - n] = st[(k - n) + 1]
      BY <1>1, <2>1
    <2>3. (k - n) + 1 \in 1 .. Len(st)
      BY <1>1, <2>1
    <2> QED
      BY <2>1, <2>2, <2>3
  <1>7. PICK i \in 1 .. ((k - n) + 1) - 1 : st[i].op \in Unloads /\ st[i].app = r[k].app
    BY <1>6 DEF Unloaded
  <1>8. CASE i = 1
    <2>1. m \in 1 .. k - 1
      BY <1>2, <1>3, <1>5
    <2> QED
      BY <1>1, <1>3, <1>7, <1>8, <2>1
  <1>9. CASE i # 1
    <2>1. i - 1 \in 1 .. Len(st) - 1 /\ (i - 1) + 1 = i /\ i - 1 \in 1 .. Len(t)
      BY <1>1, <1>6, <1>9
    <2>2. n + (i - 1) \in n + 1 .. n + Len(t) /\ (n + (i - 1)) - n = i - 1 /\ n + (i - 1) \in 1 .. k - 1
      BY <1>2, <1>5, <1>9, <2>1
    <2>3. r[n + (i - 1)] = t[i - 1] /\ t[i - 1] = st[i]
      BY <1>1, <1>2, <2>1, <2>2
    <2> QED
      BY <1>7, <2>2, <2>3
  <1> QED
    BY <1>8, <1>9

LEMMA InstantiateStep ==
  ASSUME IInv, Instantiate
  PROVE  IInv'
  <1> DEFINE s == Head(stack).app
             a == app[s]
             b == [a EXCEPT !.instance = TRUE]
             f == Code("setupMethod", s, a.gen)
             g == Do("resetCurrent", s)
             todo == <<f, g>>
             t == Tail(stack)
             c == s_currentApp
  <1>1. /\ stack \in Stacks /\ stack # <<>> /\ Head(stack).op = "instantiate" /\ s \in Scripts
        /\ t \in Stacks /\ app \in [Scripts -> AppObjects] /\ a \in AppObjects /\ Sane(a)
        /\ Flow(stack, app) /\ Calls(stack, app) /\ \A x \in Scripts : Sane(app[x])
    BY Turn DEF Instantiate, IInv, Good, Types
  <1>2. c = s /\ Fresh(app, s) /\ Opened(app, s)
    <2>1. 1 \in 1 .. Len(stack) /\ stack[1] = Head(stack)
      BY <1>1, Top
    <2>2. c = s /\ Fresh(app, s)
      BY <1>1, <2>1 DEF IInv, Good, Starting, Starts
    <2> QED
      BY <1>1, <2>1, <2>2 DEF Flow, Opening
  <1>3. app' = [app EXCEPT ![s] = b] /\ s_currentApp' = s /\ stack' = todo \o t
    BY <1>1, <1>2 DEF Instantiate, Then, AppObjects
  <1> HIDE DEF a
  <1>4. /\ b \in AppObjects /\ b.timers = a.timers /\ b.open = a.open /\ b.instance = TRUE
        /\ b.globals = a.globals /\ b.handles = a.handles /\ b.gen = a.gen /\ a.gen \in Nat
    BY <1>1 DEF AppObjects
  <1> HIDE DEF b
  <1>5. Sane(b)
    <2>1. Content \in Elements /\ Content.cb = None /\ Exists(Content)
      <3>1. "container" \in Kinds /\ 0 \in Nat
        BY DEF Kinds
      <3> QED
        BY <3>1, NewElement DEF Content
    <2>2. b.handles = <<Content>> /\ b.open
      BY <1>2, <1>4 DEF Fresh, Opened, a
    <2>3. Stored(b)
      BY <1>1, <1>4 DEF Sane, Stored
    <2>4. CallsBack(b)
      BY <2>1, <2>2 DEF CallsBack, Attaches
    <2>5. Reachable(b)
      BY <2>1, <2>2 DEF Reachable
    <2> QED
      BY <2>2, <2>3, <2>4, <2>5 DEF Sane
  <1>6. /\ app' \in [Scripts -> AppObjects] /\ app'[s] = b
        /\ \A x \in Scripts : x # s => app'[x] = app[x]
        /\ \A x \in Scripts : Sane(app'[x])
    BY <1>1, <1>3, <1>4, <1>5, OneApp
  <1>7. "setupMethod" \in Ops /\ "resetCurrent" \in Ops /\ s \in Scripts \union {None}
    BY <1>1 DEF Ops, LifeOps, UserCode
  <1>8. f \in Frames /\ f.op = "setupMethod" /\ f.app = s /\ f.gen = a.gen
    BY <1>4, <1>7, Frame DEF a
  <1>9. g \in Frames /\ g.op = "resetCurrent" /\ g.app = s
    BY <1>7, Frame DEF Do
  <1> HIDE DEF f, g
  <1>10. todo \in Stacks /\ Len(todo) = 2 /\ todo[1] = f /\ todo[2] = g
    BY <1>1, <1>8, <1>9, Pair DEF Anyone
  <1>11. \A k \in 1 .. Len(todo) : k = 1 \/ k = 2
    BY <1>10
  <1> HIDE DEF todo
  <1>12. Without(todo, Demanding) /\ Without(todo, TouchOps) /\ Without(todo, TimerOps) /\ Without(todo, Starts)
    BY <1>8, <1>9, <1>10, <1>11 DEF Without, Demanding, TouchOps, Holding, TimerOps, Starts
  <1>13. Types(stack', app', s_currentApp')
    BY <1>1, <1>3, <1>6, <1>10, ConcatShifts DEF Types
  <1>14. Covered(stack', app', s_currentApp')
    <2>1. Owns(f, app', s)
      BY <1>2, <1>4, <1>6, <1>8 DEF Owns, Opened, a
    <2>2. 2 \in 1 .. Len(todo) /\ todo[2].op \in Resets /\ todo[2].op \in Unbound
      BY <1>9, <1>10 DEF Resets, Unbound, LifeOps
    <2>3. \A k \in 1 .. 2 : k = 1 \/ k = 2
      OBVIOUS
    <2>4. todo[1].op \in UserCode /\ Owns(todo[1], app', s)
      BY <1>8, <1>10, <2>1 DEF UserCode
    <2>5. \A k \in 1 .. 2 : \/ todo[k].op \in Unbound
                            \/ todo[k].op \in UserCode /\ Owns(todo[k], app', s)
      BY <2>2, <2>3, <2>4
    <2>6. Covered(todo \o t, app', s)
      BY <1>1, <1>10, <2>2, <2>5, CoveredByReset
    <2> QED
      BY <1>3, <2>6
  <1>15. Flow(stack', app')
    <2>1. Flow(t, app) /\ (t = <<>> \/ t[1].op \notin Starts)
      BY <1>1, FlowTail, CalmTail DEF Unloads
    <2>2. \A j \in 1 .. Len(t) : t[j].app = s => t[j].op \in Outside
      BY <1>1, HeadFinal DEF Finals
    <2>3. ASSUME NEW k \in 1 .. Len(t), t[k].op \in Bare PROVE t[k].app \in Scripts /\ t[k].app # s
      <3>1. Anyone(t[k])
        BY <1>1 DEF Stacks
      <3> QED
        BY <2>2, <2>3, <3>1 DEF Outside, Holding, Bare, Anyone
    <2>4. Unloaded(t, app')
      BY <1>6, <2>1, <2>3 DEF Flow, Unloaded, Loaded
    <2>5. Modest(app', app') /\ \A x \in Scripts : Opened(app, x) => Opened(app', x)
      BY <1>4, <1>6 DEF Modest, Opened, a
    <2>6. Opening(t, app')
      <3>1. \A k \in 1 .. Len(t) : Anyone(t[k])
        BY <1>1 DEF Stacks
      <3> QED
        BY <2>1, <2>5, <3>1 DEF Flow, Opening, Anyone
    <2>7. Flow(t, app')
      BY <2>1, <2>4, <2>6 DEF Flow
    <2>8. Flow(todo, app') /\ Without(todo, Finals)
      BY <1>12, Undemanding
    <2> QED
      BY <1>1, <1>3, <1>10, <2>1, <2>7, <2>8, FlowPush DEF Without
  <1>16. Starting(stack', app', s_currentApp')
    BY <1>1, <1>3, <1>10, <1>12, CalmThen
  <1>17. Calls(stack', app')
    <2>1. OwesNoMore(app, app')
      BY <1>1, <1>3, <1>4, OneAppTimers DEF a
    <2> QED
      BY <1>1, <1>3, <1>10, <1>12, <2>1, LifeCalls DEF LifeOps
  <1> QED
    BY <1>13, <1>14, <1>15, <1>16, <1>17 DEF IInv, Good

LEMMA TeardownStep ==
  ASSUME IInv, Teardown
  PROVE  IInv'
  <1> DEFINE s == Head(stack).app
             a == app[s]
             t == Tail(stack)
             c == s_currentApp
  <1>1. /\ stack \in Stacks /\ stack # <<>> /\ Head(stack).op = "teardown" /\ s \in Scripts
        /\ t \in Stacks /\ app \in [Scripts -> AppObjects] /\ a \in AppObjects /\ Sane(a)
        /\ Flow(stack, app) /\ Calls(stack, app) /\ Types(stack, app, c)
    BY Turn DEF Teardown, IInv, Good
  <1>2. app' = app
    BY DEF Teardown
  <1>3. CASE ~Loaded(app, s)
    <2>1. stack' = t /\ s_currentApp' = c
      BY <1>1, <1>3, NothingPushed DEF Teardown, Then, Loaded
    <2>2. Covered(t, app, c)
      BY <1>1, CoveredTail DEF IInv, Good, Resets
    <2>3. Calls(t, app)
      BY <1>1, CallsTail DEF TimerOps
    <2>4. Good(t, app, c)
      BY <1>1, <1>3, <2>2, <2>3, Returning
    <2> QED
      BY <1>2, <2>1, <2>4 DEF IInv
  <1>4. CASE Loaded(app, s)
    <2> DEFINE f == Code("teardownMethod", s, a.gen)
               g == Do("cleanUp", s)
               h == Do("resetCurrent", s)
               todo == <<f, g, h>>
    <2>1. stack' = todo \o t /\ s_currentApp' = s
      BY <1>1, <1>4 DEF Teardown, Then, Loaded
    <2>2. /\ "teardownMethod" \in Ops /\ "cleanUp" \in Ops /\ "resetCurrent" \in Ops
          /\ s \in Scripts \union {None} /\ a.gen \in Nat
      BY <1>1 DEF Ops, LifeOps, UserCode, AppObjects
    <2>3. f \in Frames /\ f.op = "teardownMethod" /\ f.app = s /\ f.gen = a.gen
      BY <2>2, Frame
    <2>4. g \in Frames /\ g.op = "cleanUp" /\ g.app = s
      BY <2>2, Frame DEF Do
    <2>5. h \in Frames /\ h.op = "resetCurrent" /\ h.app = s
      BY <2>2, Frame DEF Do
    <2> HIDE DEF f, g, h
    <2>6. todo \in Stacks /\ Len(todo) = 3 /\ todo[1] = f /\ todo[2] = g /\ todo[3] = h
      BY <1>1, <2>3, <2>4, <2>5, Triple DEF Anyone
    <2>7. \A k \in 1 .. Len(todo) : k = 1 \/ k = 2 \/ k = 3
      BY <2>6
    <2> HIDE DEF todo
    <2>8. /\ Without(todo, Bare) /\ Without(todo, Finals) /\ Without(todo, Starts)
          /\ Without(todo, TouchOps) /\ Without(todo, TimerOps)
      BY <2>3, <2>4, <2>5, <2>6, <2>7 DEF Without, Bare, Finals, Starts, TouchOps, Holding, TimerOps
    <2>9. Covered(stack', app, s)
      <3>1. Owns(f, app, s)
        BY <1>1, <1>4, <2>3 DEF Owns, Loaded, Sane
      <3>2. 3 \in 1 .. Len(todo) /\ todo[3].op \in Resets /\ todo[3].op \in Unbound /\ todo[2].op \in Unbound
        BY <2>4, <2>5, <2>6 DEF Resets, Unbound, LifeOps
      <3>3. \A k \in 1 .. 3 : k = 1 \/ k = 2 \/ k = 3
        OBVIOUS
      <3>4. todo[1].op \in UserCode /\ Owns(todo[1], app, s)
        BY <2>3, <2>6, <3>1 DEF UserCode
      <3>5. \A k \in 1 .. 3 : \/ todo[k].op \in Unbound
                              \/ todo[k].op \in UserCode /\ Owns(todo[k], app, s)
        BY <3>2, <3>3, <3>4
      <3>6. Covered(todo \o t, app, s)
        BY <1>1, <2>6, <3>2, <3>5, CoveredByReset
      <3> QED
        BY <2>1, <3>6
    <2>10. Flow(stack', app)
      <3>1. Unloaded(stack', app)
        <4>1. 2 \in 1 .. Len(todo) /\ todo[2].op \in Unloads /\ todo[2].app = s
          BY <2>4, <2>6 DEF Unloads
        <4> QED
          BY <1>1, <2>1, <2>6, <2>8, <4>1, Replaced DEF Flow
      <3>2. Final(todo) /\ Opening(todo, app) /\ Unloaded(todo, app)
        BY <2>3, <2>4, <2>5, <2>6, <2>7, <2>8 DEF Without, Final, Opening, Unloaded
      <3>3. Followed(todo)
        <4>1. 2 + 1 \in 1 .. Len(todo) /\ todo[2 + 1].op = "resetCurrent"
          BY <2>5, <2>6
        <4> QED
          BY <2>3, <2>4, <2>5, <2>6, <2>7, <4>1 DEF Followed
      <3>4. Final(t) /\ Opening(t, app) /\ Followed(t)
        BY <1>1, FinalTail, OpeningTail, FollowedTail DEF Flow
      <3>5. t = <<>> \/ t[1].op \notin Starts
        BY <1>1, CalmTail
      <3>6. Final(todo \o t) /\ Opening(todo \o t, app)
        BY <1>1, <2>6, <2>8, <3>2, <3>4, FinalPush, OpeningPush DEF Without
      <3>7. Followed(todo \o t)
        BY <1>1, <2>6, <3>3, <3>4, <3>5, FollowedPush DEF Starts
      <3> QED
        BY <2>1, <3>1, <3>6, <3>7 DEF Flow
    <2>11. Starting(stack', app, s)
      BY <1>1, <2>1, <2>6, <2>8, CalmThen
    <2>12. Calls(stack', app)
      <3>1. OwesNoMore(app, app)
        BY SameTimers
      <3> QED
        BY <1>1, <2>1, <2>6, <2>8, <3>1, LifeCalls DEF LifeOps
    <2>13. Types(stack', app, s)
      BY <1>1, <2>1, <2>6, ConcatShifts DEF Types
    <2> QED
      BY <1>2, <2>1, <2>9, <2>10, <2>11, <2>12, <2>13 DEF IInv, Good
  <1> QED
    BY <1>3, <1>4

-----------------------------------------------------------------------------
(* Timers                                                                   *)

(* Steps that change a timer only.                                          *)
Quiet(apps, new) ==
  \A s \in Scripts :
    /\ new[s].open = apps[s].open
    /\ new[s].gen = apps[s].gen
    /\ new[s].instance = apps[s].instance
    /\ new[s].handles = apps[s].handles
    /\ new[s].globals = apps[s].globals

SameElements(apps, new) ==
  \A s \in Scripts : new[s].gen = apps[s].gen /\ new[s].handles = apps[s].handles

WithTimer(a, k, timer) == [a EXCEPT !.timers = [a.timers EXCEPT ![k] = timer]]

SetsTimer(apps, new, s, k, timer) == new = [apps EXCEPT ![s] = WithTimer(apps[s], k, timer)]

HasTimer(apps, s, k) == k \in 1 .. Len(apps[s].timers)

TimerOf(apps, s, k) == apps[s].timers[k]

OthersAgree(apps, new, s, k) ==
  \A x \in Scripts : /\ Len(new[x].timers) = Len(apps[x].timers)
                     /\ \A j \in 1 .. Len(apps[x].timers) :
                          x # s \/ j # k => /\ Owes(new, x, j) <=> Owes(apps, x, j)
                                            /\ Fires(new, x, j) <=> Fires(apps, x, j)

LEMMA OneTimer ==
  ASSUME NEW apps \in [Scripts -> AppObjects], \A x \in Scripts : Sane(apps[x]),
         NEW s \in Scripts, NEW k, HasTimer(apps, s, k), NEW timer \in Timers,
         NEW new, SetsTimer(apps, new, s, k, timer)
  PROVE  /\ new \in [Scripts -> AppObjects] /\ \A x \in Scripts : Sane(new[x])
         /\ Quiet(apps, new) /\ OthersAgree(apps, new, s, k)
         /\ TimerOf(new, s, k) = timer
  <1> DEFINE a == apps[s]
             ts == [a.timers EXCEPT ![k] = timer]
             b == WithTimer(a, k, timer)
  <1>0. k \in 1 .. Len(a.timers)
    BY DEF HasTimer
  <1>1. /\ a \in AppObjects /\ a.timers \in Seq(Timers) /\ ts \in Seq(Timers) /\ Len(ts) = Len(a.timers)
        /\ ts[k] = timer /\ \A j \in 1 .. Len(a.timers) : j # k => ts[j] = a.timers[j]
    BY <1>0 DEF AppObjects
  <1>2. b = [a EXCEPT !.timers = ts]
    BY DEF WithTimer
  <1> HIDE DEF ts
  <1>3. /\ b \in AppObjects /\ b.open = a.open /\ b.gen = a.gen /\ b.instance = a.instance
        /\ b.handles = a.handles /\ b.globals = a.globals /\ b.nextCbId = a.nextCbId /\ b.timers = ts
    BY <1>1, <1>2 DEF AppObjects
  <1> HIDE DEF b
  <1>4. Sane(b)
    <2>1. Sane(a)
      OBVIOUS
    <2> HIDE DEF a
    <2> QED
      BY <1>3, <2>1 DEF Sane, Stored, CallsBack, Attaches, Reachable
  <1>5. new = [apps EXCEPT ![s] = b]
    BY DEF b, SetsTimer
  <1>6. new \in [Scripts -> AppObjects] /\ new[s] = b /\ \A x \in Scripts : x # s => new[x] = apps[x]
    BY <1>3, <1>5
  <1>7. \A x \in Scripts : Sane(new[x])
    BY <1>4, <1>6
  <1>8. Quiet(apps, new)
    BY <1>3, <1>6 DEF Quiet
  <1>9. OthersAgree(apps, new, s, k)
    BY <1>1, <1>3, <1>6 DEF OthersAgree, Owes, Fires
  <1> QED
    BY <1>1, <1>3, <1>6, <1>7, <1>8, <1>9 DEF TimerOf

LEMMA QuietApps ==
  ASSUME NEW st \in Stacks, NEW apps, NEW new, NEW current \in Scripts \union {None}, Quiet(apps, new)
  PROVE  /\ Covered(st, apps, current) => Covered(st, new, current)
         /\ Flow(st, apps) => Flow(st, new)
         /\ Starting(st, apps, current) => Starting(st, new, current)
         /\ Touches(st, apps) => Touches(st, new)
  <1>1. Covered(st, apps, current) => Covered(st, new, current)
    <2>1. KeepsInstances(apps, new)
      BY DEF Quiet, KeepsInstances
    <2> QED
      BY <2>1, CoveredApps
  <1>2. Flow(st, apps) => Flow(st, new)
    <2>1. Modest(apps, new)
      BY DEF Quiet, Modest, Loaded, Opened
    <2> QED
      BY <2>1, FlowApps
  <1>3. \A k \in 1 .. Len(st) : Anyone(st[k])
    BY DEF Stacks
  <1>4. Starting(st, apps, current) => Starting(st, new, current)
    BY <1>3 DEF Starting, Starts, Fresh, Quiet, Anyone
  <1>5. \A k \in 1 .. Len(st) : Within(st[k], apps) => Within(st[k], new)
    <2> SUFFICES ASSUME NEW k \in 1 .. Len(st), Within(st[k], apps) PROVE Within(st[k], new)
      OBVIOUS
    <2>1. st[k].op \in OnElement \union {"closure", "call"} => st[k].app \in Scripts
      BY <1>3 DEF Anyone, OnElement, Holding
    <2> QED
      BY <2>1 DEF Within, Quiet
  <1>6. \A k \in 1 .. Len(st) : Event(st[k], apps) => Event(st[k], new)
    BY <1>3 DEF Event, ForClick, Quiet, Anyone
  <1>7. Touches(st, apps) => Touches(st, new)
    BY <1>5, <1>6 DEF Touches
  <1> QED
    BY <1>1, <1>2, <1>4, <1>7

-----------------------------------------------------------------------------
LEMMA Serving ==
  ASSUME NEW s \in Scripts, NEW k \in Nat
  PROVE  /\ DoWith("clearFlag", s, k) \in Frames /\ Anyone(DoWith("clearFlag", s, k))
         /\ DoWith("callTimer", s, k) \in Frames /\ Anyone(DoWith("callTimer", s, k))
         /\ DoWith("clearFlag", s, k).op = "clearFlag" /\ DoWith("callTimer", s, k).op = "callTimer"
         /\ DoWith("clearFlag", s, k).app = s /\ DoWith("callTimer", s, k).app = s
         /\ DoWith("clearFlag", s, k).id = k /\ DoWith("callTimer", s, k).id = k
         /\ Serve(s, k) \in Stacks /\ Len(Serve(s, k)) = 2
         /\ Serve(s, k)[1] = DoWith("clearFlag", s, k) /\ Serve(s, k)[2] = DoWith("callTimer", s, k)
         /\ Head(Serve(s, k)) = DoWith("clearFlag", s, k)
         /\ Tail(Serve(s, k)) = <<DoWith("callTimer", s, k)>>
  <1> DEFINE f == DoWith("clearFlag", s, k)
             g == DoWith("callTimer", s, k)
             q == Serve(s, k)
  <1>1. "clearFlag" \in Ops /\ "callTimer" \in Ops /\ s \in Scripts \union {None}
    BY DEF Ops, TimerOps
  <1>2. f \in Frames /\ f.op = "clearFlag" /\ f.app = s /\ f.id = k
    BY <1>1, Frame
  <1>3. g \in Frames /\ g.op = "callTimer" /\ g.app = s /\ g.id = k
    BY <1>1, Frame
  <1>4. Anyone(f) /\ Anyone(g)
    BY <1>2, <1>3 DEF Anyone
  <1>5. q = <<f, g>>
    BY DEF Serve
  <1> HIDE DEF f, g, q
  <1>6. q \in Stacks /\ Len(q) = 2 /\ q[1] = f /\ q[2] = g
    BY <1>2, <1>3, <1>4, <1>5, Pair
  <1>7. Head(q) = f /\ Tail(q) = <<g>>
    BY <1>5
  <1> QED
    BY <1>2, <1>3, <1>4, <1>6, <1>7 DEF f, g, q

(* While a timer is served nothing else is on the stack.                    *)
LEMMA ServedAlone ==
  ASSUME NEW st \in Stacks, st # <<>>, NEW apps, Ticks(st, apps), Head(st).op \in TimerOps
  PROVE  /\ Head(st).app \in Scripts
         /\ Head(st).id \in 1 .. Len(apps[Head(st).app].timers)
         /\ \/ Head(st).op = "clearFlag" /\ st = Serve(Head(st).app, Head(st).id)
            \/ Head(st).op = "callTimer" /\ st = <<DoWith("callTimer", Head(st).app, Head(st).id)>>
  <1>1. 1 \in 1 .. Len(st) /\ Head(st) = st[1]
    BY Top
  <1>2. PICK s \in Scripts : \E n \in 1 .. Len(apps[s].timers) :
          st = Serve(s, n) \/ st = <<DoWith("callTimer", s, n)>>
    BY <1>1 DEF Ticks, Ticking
  <1>3. PICK n \in 1 .. Len(apps[s].timers) : st = Serve(s, n) \/ st = <<DoWith("callTimer", s, n)>>
    BY <1>2
  <1>4. n \in Nat
    OBVIOUS
  <1>5. CASE st = Serve(s, n)
    BY <1>4, <1>5, Serving
  <1>6. CASE st = <<DoWith("callTimer", s, n)>>
    <2> DEFINE g == DoWith("callTimer", s, n)
    <2>1. g.op = "callTimer" /\ g.app = s /\ g.id = n
      BY <1>4, Serving
    <2> HIDE DEF g
    <2>2. Head(st) = g
      BY <1>6 DEF g
    <2> QED
      BY <1>6, <2>1, <2>2 DEF g
  <1> QED
    BY <1>3, <1>5, <1>6

LEMMA SameCall ==
  ASSUME NEW s \in Scripts, NEW k \in Nat, NEW x \in Scripts, NEW j \in Nat,
         DoWith("callTimer", x, j) = DoWith("callTimer", s, k)
  PROVE  x = s /\ j = k
  BY Serving

LEMMA FireStep ==
  ASSUME IInv, NEW s \in Scripts, NEW k \in DOMAIN app[s].timers, Fire(s, k)
  PROVE  IInv' /\ SameElements(app, app')
  <1> DEFINE a == app[s]
             timer == [a.timers[k] EXCEPT !.fired = TRUE, !.owed = TRUE]
  <1>1. /\ app \in [Scripts -> AppObjects] /\ a \in AppObjects /\ \A x \in Scripts : Sane(app[x])
        /\ stack \in Stacks /\ s_currentApp \in Scripts \union {None}
    BY DEF IInv, Good, Types
  <1>2. k \in 1 .. Len(a.timers) /\ a.timers[k] \in Timers /\ HasTimer(app, s, k)
    BY <1>1 DEF AppObjects, HasTimer
  <1>3. timer \in Timers /\ timer.owed = TRUE /\ timer.fired = TRUE
    BY <1>2 DEF Timers
  <1>4. SetsTimer(app, app', s, k, timer) /\ stack' = stack /\ s_currentApp' = s_currentApp
    <2>1. stack' = stack /\ s_currentApp' = s_currentApp
      BY DEF Fire
    <2>2. app' = [app EXCEPT ![s].timers[k].fired = TRUE, ![s].timers[k].owed = TRUE]
      BY DEF Fire
    <2> DEFINE first  == [a.timers[k] EXCEPT !.fired = TRUE]
               middle == [app EXCEPT ![s] = WithTimer(a, k, first)]
    <2>3. a.timers \in Seq(Timers) /\ app[s] = a /\ s \in DOMAIN app /\ "timers" \in DOMAIN a
      BY <1>1 DEF AppObjects
    <2>4. app' = [middle EXCEPT ![s].timers[k].owed = TRUE]
      BY <2>2 DEF WithTimer
    <2>5. middle[s] = WithTimer(a, k, first) /\ s \in DOMAIN middle
      BY <2>3
    <2>6. middle[s].timers = [a.timers EXCEPT ![k] = first]
      BY <2>3, <2>5 DEF WithTimer
    <2>7. middle[s].timers[k] = first /\ k \in DOMAIN middle[s].timers
      BY <1>2, <2>3, <2>6
    <2>8. timer = [first EXCEPT !.owed = TRUE]
      BY <1>2 DEF Timers
    <2> HIDE DEF first, timer
    <2>9. app' = [middle EXCEPT ![s] = WithTimer(middle[s], k, timer)]
      BY <2>4, <2>7, <2>8 DEF WithTimer
    <2>10. WithTimer(middle[s], k, timer) = WithTimer(a, k, timer)
      BY <1>2, <2>3, <2>5, <2>6 DEF WithTimer
    <2> QED
      BY <2>1, <2>3, <2>9, <2>10 DEF SetsTimer
  <1> HIDE DEF timer
  <1>5. /\ app' \in [Scripts -> AppObjects] /\ \A x \in Scripts : Sane(app'[x])
        /\ Quiet(app, app') /\ OthersAgree(app, app', s, k)
        /\ TimerOf(app', s, k) = timer
    BY <1>1, <1>2, <1>3, <1>4, OneTimer
  <1>6. /\ Covered(stack, app', s_currentApp) /\ Flow(stack, app') /\ Starting(stack, app', s_currentApp)
        /\ Touches(stack, app')
    BY <1>1, <1>5, QuietApps DEF IInv, Good, Calls
  <1>7. Ticks(stack, app')
    BY <1>5 DEF IInv, Good, Calls, Ticks, OthersAgree
  <1>8. NoneLost(stack, app')
    <2>1. Fires(app', s, k)
      BY <1>3, <1>5 DEF Fires, TimerOf
    <2>2. NoneLost(stack, app)
      BY DEF IInv, Good, Calls
    <2> QED
      BY <1>5, <2>1, <2>2 DEF NoneLost, OthersAgree
  <1>9. Descends(stack)
    BY DEF IInv, Good, Calls
  <1>10. SameElements(app, app')
    BY <1>5 DEF Quiet, SameElements
  <1> QED
    BY <1>1, <1>4, <1>5, <1>6, <1>7, <1>8, <1>9, <1>10 DEF IInv, Good, Types, Calls

LEMMA ClearFlagStep ==
  ASSUME IInv, ClearFlag
  PROVE  IInv'
  <1> DEFINE s == Head(stack).app
             k == Head(stack).id
             a == app[s]
             timer == [a.timers[k] EXCEPT !.fired = FALSE]
             t == Tail(stack)
             c == s_currentApp
  <1>1. /\ stack \in Stacks /\ stack # <<>> /\ Head(stack).op = "clearFlag" /\ s \in Scripts
        /\ t \in Stacks /\ app \in [Scripts -> AppObjects] /\ a \in AppObjects
        /\ Flow(stack, app) /\ Calls(stack, app) /\ \A x \in Scripts : Sane(app[x])
    BY Turn DEF ClearFlag, IInv, Good, Types
  <1>2. k \in 1 .. Len(a.timers) /\ stack = Serve(s, k) /\ k \in Nat /\ HasTimer(app, s, k)
    <2>1. k \in 1 .. Len(a.timers) /\ stack = Serve(s, k)
      BY <1>1, ServedAlone DEF Calls, TimerOps
    <2> QED
      BY <2>1 DEF HasTimer
  <1>3. c = None
    BY <1>1, NoCurrent DEF Unbound, LifeOps, UserCode, IInv, Good
  <1>4. timer \in Timers
    <2>1. a.timers[k] \in Timers
      BY <1>1, <1>2 DEF AppObjects
    <2>2. \A e \in Timers : [e EXCEPT !.fired = FALSE] \in Timers
      BY DEF Timers
    <2> QED
      BY <2>1, <2>2
  <1>5. SetsTimer(app, app', s, k, timer) /\ stack' = t /\ s_currentApp' = c
    <2>1. stack' = t /\ s_currentApp' = c
      BY <1>1, NothingPushed DEF ClearFlag, Then
    <2>2. app' = [app EXCEPT ![s].timers[k].fired = FALSE]
      BY DEF ClearFlag
    <2> QED
      BY <1>1, <1>2, <2>1, <2>2 DEF SetsTimer, WithTimer, AppObjects, Timers
  <1>6. t = <<DoWith("callTimer", s, k)>> /\ stack[1] = DoWith("clearFlag", s, k)
        /\ stack[2] = DoWith("callTimer", s, k) /\ Len(stack) = 2
    BY <1>1, <1>2, Serving
  <1> HIDE DEF timer
  <1>7. /\ app' \in [Scripts -> AppObjects] /\ \A x \in Scripts : Sane(app'[x])
        /\ Quiet(app, app') /\ OthersAgree(app, app', s, k)
        /\ TimerOf(app', s, k) = timer
    BY <1>1, <1>2, <1>4, <1>5, OneTimer
  <1> HIDE DEF s, k, t, a
  <1>8. Len(t) = 1 /\ t[1] = DoWith("callTimer", s, k) /\ t[1].op = "callTimer"
    BY <1>1, <1>2, <1>6, Serving
  <1>9. Without(t, TouchOps)
    BY <1>8 DEF Without, TouchOps, Holding
  <1>10. Flow(stack, app') /\ Covered(t, app', c)
    <2>1. Flow(stack, app')
      BY <1>1, <1>7, QuietApps DEF IInv, Good, Types
    <2> QED
      BY <1>3, <2>1 DEF Covered
  <1>11. Ticks(t, app')
    <2>1. k \in 1 .. Len(app'[s].timers)
      BY <1>1, <1>2, <1>7 DEF OthersAgree, a
    <2> QED
      BY <1>1, <1>6, <2>1 DEF Ticks
  <1>12. NoneLost(t, app')
    <2> SUFFICES ASSUME NEW x \in Scripts, NEW j \in 1 .. Len(app'[x].timers), Owes(app', x, j),
                        ~CallsTimer(t, x, j)
                 PROVE  Fires(app', x, j)
      BY DEF NoneLost
    <2>1. x # s \/ j # k
      <3>1. CallsTimer(t, s, k)
        BY <1>8 DEF CallsTimer
      <3> QED
        BY <3>1
    <2>2. /\ j \in 1 .. Len(app[x].timers) /\ Owes(app, x, j)
          /\ Fires(app', x, j) <=> Fires(app, x, j)
      BY <1>7, <2>1 DEF OthersAgree
    <2>3. ~CallsTimer(stack, x, j)
      <3> SUFFICES ASSUME NEW i \in 1 .. Len(stack), stack[i] = DoWith("callTimer", x, j) PROVE FALSE
        BY DEF CallsTimer
      <3>1. i = 1 \/ i = 2
        BY <1>6
      <3>2. stack[1].op = "clearFlag" /\ DoWith("callTimer", x, j).op = "callTimer"
        BY <1>1, <1>2, <1>6, Serving, FrameOp
      <3>3. DoWith("callTimer", x, j) = DoWith("callTimer", s, k)
        BY <1>6, <3>1, <3>2
      <3> QED
        BY <1>1, <1>2, <2>1, <3>3, SameCall
    <2> QED
      BY <1>1, <2>2, <2>3 DEF Calls, NoneLost
  <1>13. Calls(t, app')
    BY <1>9, <1>11, <1>12, Untouched DEF Calls
  <1>14. Types(stack, app', c)
    BY <1>1, <1>7 DEF Types, IInv, Good
  <1>15. Good(t, app', c)
    BY <1>1, <1>10, <1>13, <1>14, Returning DEF t, Unloads
  <1> QED
    BY <1>5, <1>15 DEF IInv

(* A callback is called: no table is in use, so that there is none to       *)
(* restore when it returns.                                                 *)
IsStored(apps, s, id) == apps[s].globals[id] # NoClosure

Generation(apps, s, id) == apps[s].globals[id].gen

Calling(op, s, g) == <<Code(op, s, g), Do("restoreCurrent", None)>>

LEMMA Callback ==
  ASSUME NEW apps \in [Scripts -> AppObjects], NEW s \in Scripts, Sane(apps[s]),
         NEW id \in Ids, IsStored(apps, s, id),
         NEW op \in {"timerCallback", "clickCallback", "eventCallback"},
         NEW new, Quiet(apps, new), NEW t \in Stacks,
         NEW todo, todo = Calling(op, s, Generation(apps, s, id))
  PROVE  /\ todo \in Stacks /\ Len(todo) = 2 /\ todo[1].op = op /\ todo[2].op = "restoreCurrent"
         /\ Covered(todo \o t, new, s)
         /\ Without(todo, Demanding) /\ Without(todo, TouchOps) /\ Without(todo, TimerOps)
         /\ Without(todo, Starts)
  <1> DEFINE n == Generation(apps, s, id)
             f == Code(op, s, n)
             g == Do("restoreCurrent", None)
  <1>1. n \in Nat
    BY DEF AppObjects, Generation
  <1>2. apps[s].open /\ apps[s].instance /\ n = apps[s].gen
    BY DEF Sane, Stored, IsStored, Generation
  <1>3. todo = <<f, g>>
    BY DEF Calling
  <1> HIDE DEF n
  <1>4. op \in Ops /\ "restoreCurrent" \in Ops /\ s \in Scripts \union {None} /\ None \in Scripts \union {None}
    BY DEF Ops, UserCode
  <1>5. f \in Frames /\ f.op = op /\ f.app = s /\ f.gen = n
    BY <1>1, <1>4, Frame
  <1>6. g \in Frames /\ g.op = "restoreCurrent" /\ g.app = None
    BY <1>4, Frame DEF Do
  <1> HIDE DEF f, g
  <1>7. Anyone(f) /\ Anyone(g)
    BY <1>5, <1>6 DEF Anyone
  <1>8. todo \in Stacks /\ Len(todo) = 2 /\ todo[1] = f /\ todo[2] = g
    BY <1>3, <1>5, <1>6, <1>7, Pair
  <1>9. \A k \in 1 .. Len(todo) : k = 1 \/ k = 2
    BY <1>8
  <1>10. /\ Without(todo, Demanding) /\ Without(todo, TouchOps) /\ Without(todo, TimerOps)
         /\ Without(todo, Starts)
    BY <1>5, <1>6, <1>8, <1>9 DEF Without, Demanding, TouchOps, Holding, TimerOps, Starts
  <1>11. Covered(todo \o t, new, s)
    <2>1. Owns(f, new, s)
      BY <1>2, <1>5 DEF Owns, Quiet
    <2>2. 2 \in 1 .. Len(todo) /\ todo[2].op \in Resets /\ todo[2].op \in Unbound
      BY <1>6, <1>8 DEF Resets, Unbound, LifeOps
    <2>3. \A k \in 1 .. 2 : k = 1 \/ k = 2
      OBVIOUS
    <2>4. todo[1].op \in UserCode /\ Owns(todo[1], new, s)
      BY <1>5, <1>8, <2>1 DEF UserCode
    <2>5. \A k \in 1 .. 2 : \/ todo[k].op \in Unbound
                            \/ todo[k].op \in UserCode /\ Owns(todo[k], new, s)
      BY <2>2, <2>3, <2>4
    <2> QED
      BY <1>8, <2>2, <2>5, CoveredByReset
  <1> QED
    BY <1>5, <1>6, <1>8, <1>10, <1>11

LEMMA AllQuiet ==
  ASSUME NEW apps
  PROVE  Quiet(apps, apps) /\ OwesNoMore(apps, apps)
  BY SameTimers DEF Quiet

LEMMA CallStep ==
  ASSUME IInv, CallCallback, Doing("call")
  PROVE  IInv'
  <1> DEFINE s == Head(stack).app
             id == Head(stack).id
             closure == app[s].globals[id]
             t == Tail(stack)
             c == s_currentApp
             op == IF closure.click THEN "clickCallback" ELSE "eventCallback"
             todo == Calling(op, s, Generation(app, s, id))
  <1>1. /\ stack \in Stacks /\ stack # <<>> /\ Head(stack).op = "call" /\ s \in Scripts
        /\ t \in Stacks /\ app \in [Scripts -> AppObjects] /\ Sane(app[s])
        /\ Flow(stack, app) /\ Calls(stack, app) /\ Types(stack, app, c)
    BY Turn DEF IInv, Good
  <1>2. c = None
    BY <1>1, NoCurrent DEF Unbound, LifeOps, UserCode, IInv, Good
  <1>3. app' = app
    BY <1>1 DEF CallCallback
  <1>4. 1 \in 1 .. Len(stack) /\ stack[1] = Head(stack)
    BY <1>1, Top
  <1>5. Touching(stack)
    BY <1>1, <1>4 DEF Touching, TouchOps
  <1>6. id \in Ids /\ (1 = Len(stack) \/ ~ForClick(app[s], id))
    BY <1>1, <1>4, <1>5 DEF Calls, Touches, Within, Event
  <1>7. CASE closure = NoClosure
    <2>1. stack' = t /\ s_currentApp' = c
      BY <1>1, <1>7, NothingPushed DEF CallCallback, Then
    <2>2. Covered(t, app, c)
      BY <1>2 DEF Covered
    <2>3. Calls(t, app)
      BY <1>1, CallsTail DEF TimerOps
    <2>4. Good(t, app, c)
      BY <1>1, <2>2, <2>3, Returning DEF Unloads
    <2> QED
      BY <1>3, <2>1, <2>4 DEF IInv
  <1>8. CASE closure # NoClosure
    <2>1. stack' = todo \o t /\ s_currentApp' = s
      BY <1>1, <1>2, <1>8 DEF CallCallback, Then, Calling, Generation
    <2>2. op \in {"timerCallback", "clickCallback", "eventCallback"}
      OBVIOUS
    <2>3. todo = Calling(op, s, Generation(app, s, id)) /\ IsStored(app, s, id)
      BY <1>8 DEF IsStored
    <2>4. (op = "clickCallback" /\ ForClick(app[s], id)) \/ (op = "eventCallback" /\ ~ForClick(app[s], id))
      BY DEF ForClick
    <2>5. Quiet(app, app) /\ OwesNoMore(app, app)
      BY AllQuiet
    <2> HIDE DEF op
    <2> HIDE DEF todo
    <2>6. /\ todo \in Stacks /\ Len(todo) = 2 /\ todo[1].op = op /\ todo[2].op = "restoreCurrent"
          /\ Covered(todo \o t, app, s)
          /\ Without(todo, Demanding) /\ Without(todo, TouchOps) /\ Without(todo, TimerOps)
          /\ Without(todo, Starts)
      BY <1>1, <1>6, <1>8, <2>2, <2>3, <2>5, Callback
    <2>7. Flow(todo \o t, app)
      BY <1>1, <2>6, FlowThen, Undemanding DEF Unloads
    <2>8. Starting(todo \o t, app, s)
      BY <1>1, <2>6, CalmThen
    <2>9. Types(todo \o t, app, s)
      BY <1>1, <2>6, ConcatShifts DEF Types
    <2>10. Calls(todo \o t, app)
      <3>1. CASE op = "eventCallback" /\ ~ForClick(app[s], id)
        <4>1. \A k \in 1 .. Len(todo) : k = 1 \/ k = 2
          BY <2>6
        <4>2. \A k \in 1 .. Len(todo) : Within(todo[k], app) /\ Event(todo[k], app)
          BY <2>6, <3>1, <4>1 DEF Within, Event, During, OnElement, Holding
        <4>3. \A k \in 1 .. Len(todo) : todo[k].op \notin Descending
          BY <2>6, <3>1, <4>1 DEF Descending
        <4>4. todo[Len(todo)].op # "call"
          BY <2>6
        <4> QED
          BY <1>1, <1>5, <2>6, <4>2, <4>3, <4>4, CallsThen DEF TimerOps
      <3>2. CASE op = "clickCallback" /\ ForClick(app[s], id)
        <4>1. Without(stack, TimerOps)
          BY <1>1, NoTick DEF Calls, TimerOps
        <4>2. Len(t) = 0
          BY <1>1, <1>6, <3>2, TailShifts
        <4>3. Without(t, TouchOps) /\ Without(t, TimerOps)
          BY <4>2 DEF Without
        <4>4. Without(todo \o t, TouchOps) /\ Without(todo \o t, TimerOps)
          BY <1>1, <2>6, <4>3, WithoutPush
        <4> QED
          BY <1>1, <2>5, <4>1, <4>4, CallsElsewhere
      <3> QED
        BY <2>4, <3>1, <3>2
    <2> QED
      BY <1>3, <2>1, <2>6, <2>7, <2>8, <2>9, <2>10 DEF IInv, Good
  <1> QED
    BY <1>7, <1>8

LEMMA CallTimerStep ==
  ASSUME IInv, CallCallback, Doing("callTimer")
  PROVE  IInv'
  <1> DEFINE s == Head(stack).app
             k == Head(stack).id
             a == app[s]
             timer == [a.timers[k] EXCEPT !.owed = FALSE]
             id == a.timers[k].cb
             closure == a.globals[id]
             t == Tail(stack)
             c == s_currentApp
             op == "timerCallback"
             todo == Calling(op, s, Generation(app, s, id))
  <1>1. /\ stack \in Stacks /\ stack # <<>> /\ Head(stack).op = "callTimer" /\ s \in Scripts
        /\ t \in Stacks /\ app \in [Scripts -> AppObjects] /\ a \in AppObjects /\ Sane(a)
        /\ Flow(stack, app) /\ Calls(stack, app) /\ \A x \in Scripts : Sane(app[x])
    BY Turn DEF IInv, Good, Types
  <1>2. c = None
    BY <1>1, NoCurrent DEF Unbound, LifeOps, UserCode, IInv, Good
  <1>3. k \in 1 .. Len(a.timers) /\ stack = <<DoWith("callTimer", s, k)>> /\ k \in Nat /\ HasTimer(app, s, k)
    <2>1. k \in 1 .. Len(a.timers) /\ stack = <<DoWith("callTimer", s, k)>>
      BY <1>1, ServedAlone DEF Calls, TimerOps
    <2> QED
      BY <2>1 DEF HasTimer
  <1>4. a.timers[k] \in Timers /\ timer \in Timers /\ timer.owed = FALSE /\ id \in Ids
    <2>1. a.timers[k] \in Timers
      BY <1>1, <1>3 DEF AppObjects
    <2>2. \A e \in Timers : /\ [e EXCEPT !.owed = FALSE] \in Timers /\ [e EXCEPT !.owed = FALSE].owed = FALSE
                            /\ e.cb \in Ids
      BY DEF Timers
    <2> QED
      BY <2>1, <2>2
  <1>5. SetsTimer(app, app', s, k, timer)
    <2>1. app' = [app EXCEPT ![s].timers[k].owed = FALSE]
      BY <1>1 DEF CallCallback
    <2> QED
      BY <1>1, <1>3, <2>1 DEF SetsTimer, WithTimer, AppObjects, Timers
  <1>6. t = <<>> /\ stack[1] = DoWith("callTimer", s, k) /\ Len(stack) = 1
    <2>1. \A x : Tail(<<x>>) = <<>> /\ <<x>>[1] = x /\ Len(<<x>>) = 1
      OBVIOUS
    <2> QED
      BY <1>3, <2>1
  <1> HIDE DEF timer, t
  <1>7. /\ app' \in [Scripts -> AppObjects] /\ \A x \in Scripts : Sane(app'[x])
        /\ Quiet(app, app') /\ OthersAgree(app, app', s, k)
        /\ TimerOf(app', s, k) = timer
    BY <1>1, <1>3, <1>4, <1>5, OneTimer
  <1>8. Flow(stack, app') /\ Types(stack, app', c)
    BY <1>1, <1>7, QuietApps DEF IInv, Good, Types
  <1>9. \A next : NoneLost(next, app')
    <2> SUFFICES ASSUME NEW x \in Scripts, NEW j \in 1 .. Len(app'[x].timers), Owes(app', x, j)
                 PROVE  Fires(app', x, j)
      BY DEF NoneLost
    <2>1. x # s \/ j # k
      BY <1>4, <1>7 DEF TimerOf, Owes
    <2>2. /\ j \in 1 .. Len(app[x].timers) /\ Owes(app, x, j)
          /\ Fires(app', x, j) <=> Fires(app, x, j)
      BY <1>7, <2>1 DEF OthersAgree
    <2>3. ~CallsTimer(stack, x, j)
      <3> SUFFICES ASSUME NEW i \in 1 .. Len(stack), stack[i] = DoWith("callTimer", x, j) PROVE FALSE
        BY DEF CallsTimer
      <3>1. i = 1
        BY <1>6
      <3>2. DoWith("callTimer", x, j) = DoWith("callTimer", s, k)
        BY <1>6, <3>1
      <3> QED
        BY <1>1, <1>3, <2>1, <3>2, SameCall
    <2> QED
      BY <1>1, <2>2, <2>3 DEF Calls, NoneLost
  <1>10. CASE closure = NoClosure
    <2>1. stack' = t /\ s_currentApp' = c
      BY <1>1, <1>10, NothingPushed DEF CallCallback, Then, t
    <2>2. Covered(t, app', c)
      BY <1>2 DEF Covered
    <2>3. Calls(t, app')
      BY <1>6, <1>9, Empty, Untouched, NotServing DEF Calls
    <2>4. Good(t, app', c)
      BY <1>1, <1>8, <2>2, <2>3, Returning DEF t, Unloads
    <2> QED
      BY <2>1, <2>4 DEF IInv
  <1>11. CASE closure # NoClosure
    <2>1. stack' = todo \o t /\ s_currentApp' = s
      BY <1>1, <1>2, <1>11 DEF CallCallback, Then, Calling, Generation, t
    <2>2. op \in {"timerCallback", "clickCallback", "eventCallback"}
      OBVIOUS
    <2>3. todo = Calling(op, s, Generation(app, s, id)) /\ IsStored(app, s, id)
      BY <1>11 DEF IsStored
    <2> HIDE DEF op
    <2> HIDE DEF todo, id, a
    <2>4. /\ todo \in Stacks /\ Len(todo) = 2 /\ todo[1].op = op /\ todo[2].op = "restoreCurrent"
          /\ Covered(todo \o t, app', s)
          /\ Without(todo, Demanding) /\ Without(todo, TouchOps) /\ Without(todo, TimerOps)
          /\ Without(todo, Starts)
      BY <1>1, <1>4, <1>7, <2>2, <2>3, Callback DEF a, t
    <2>5. Flow(todo \o t, app')
      BY <1>1, <1>8, <2>4, FlowThen, Undemanding DEF Unloads, t
    <2>6. Starting(todo \o t, app', s)
      BY <1>1, <2>4, CalmThen DEF t
    <2>7. Types(todo \o t, app', s)
      BY <1>1, <1>8, <2>4, ConcatShifts DEF Types, t
    <2>8. Calls(todo \o t, app')
      <3>1. Without(t, TouchOps) /\ Without(t, TimerOps) /\ t \in Stacks
        BY <1>6, Empty
      <3>2. Without(todo \o t, TouchOps) /\ Without(todo \o t, TimerOps)
        BY <2>4, <3>1, WithoutPush
      <3> QED
        BY <1>9, <3>2, Untouched, NotServing DEF Calls
    <2> QED
      BY <2>1, <2>4, <2>5, <2>6, <2>7, <2>8 DEF IInv, Good
  <1> QED
    BY <1>10, <1>11

-----------------------------------------------------------------------------
(* Calls that return and calls of actions                                   *)

LEMMA ReturnStep ==
  ASSUME IInv, Return
  PROVE  IInv'
  <1> DEFINE t == Tail(stack)
             c == s_currentApp
  <1>1. /\ stack \in Stacks /\ stack # <<>> /\ Head(stack).op \in UserCode /\ t \in Stacks
        /\ Flow(stack, app) /\ Calls(stack, app) /\ Types(stack, app, c)
    BY TailShifts DEF Return, Running, Idle, IInv, Good, Types
  <1>2. stack' = t /\ s_currentApp' = c /\ app' = app
    BY <1>1, NothingPushed DEF Return, Then
  <1>3. /\ Head(stack).op \notin Resets /\ Head(stack).op \notin TimerOps
        /\ Head(stack).op \notin Unloads /\ Head(stack).op # "body"
    BY <1>1 DEF UserCode, Resets, TimerOps, Unloads
  <1>4. Covered(t, app, c) /\ Calls(t, app)
    BY <1>1, <1>3, CoveredTail, CallsTail DEF IInv, Good
  <1>5. Good(t, app, c)
    BY <1>1, <1>3, <1>4, Returning
  <1> QED
    BY <1>2, <1>5 DEF IInv

LEMMA RestoreCurrentStep ==
  ASSUME IInv, RestoreCurrent
  PROVE  IInv'
  <1> DEFINE t == Tail(stack)
  <1>1. /\ stack \in Stacks /\ stack # <<>> /\ Head(stack).op = "restoreCurrent" /\ t \in Stacks
        /\ Flow(stack, app) /\ Calls(stack, app)
    BY TailShifts DEF RestoreCurrent, Doing, Idle, IInv, Good, Types
  <1>2. Head(stack).app = None
    BY <1>1, Top DEF Anyone
  <1>3. stack' = t /\ s_currentApp' = None /\ app' = app
    BY <1>1, <1>2, NothingPushed DEF RestoreCurrent, Then
  <1>4. Types(stack, app, None) /\ Covered(t, app, None)
    BY DEF IInv, Good, Types, Covered
  <1>5. Calls(t, app)
    BY <1>1, CallsTail DEF TimerOps
  <1>6. Good(t, app, None)
    BY <1>1, <1>4, <1>5, Returning DEF Unloads
  <1> QED
    BY <1>3, <1>6 DEF IInv

(* An action that the running code calls.                                   *)
LEMMA Called ==
  ASSUME NEW st, st # <<>>, NEW apps, NEW current, Good(st, apps, current),
         Head(st).op \in {"clickCallback", "setupMethod"},
         NEW todo \in Stacks, Idly(todo), Flow(todo, apps),
         \A k \in 1 .. Len(todo) : \A j \in 1 .. Len(st) :
           st[j].app = todo[k].app => st[j].op \in Outside
  PROVE  Good(todo \o st, apps, current)
  <1>1. /\ st \in Stacks /\ Types(st, apps, current) /\ Covered(st, apps, current) /\ Flow(st, apps)
        /\ Calls(st, apps)
    BY DEF Good, Types
  <1>2. /\ Head(st).op \notin During /\ Head(st).op \notin TimerOps /\ Head(st).op \notin Starts
    BY DEF During, TouchOps, Holding, TimerOps, Starts
  <1>3. 1 \in 1 .. Len(st) /\ st[1].op \notin Starts
    BY <1>1, <1>2, Top
  <1>4. /\ Without(todo, TouchOps) /\ Without(todo, TimerOps) /\ Without(todo, Starts)
        /\ \A k \in 1 .. Len(todo) : todo[k].op \in Unbound
    BY IdlyApart
  <1>5. Types(todo \o st, apps, current)
    BY <1>1, ConcatShifts DEF Types
  <1>6. Covered(todo \o st, apps, current)
    BY <1>1, <1>4, CoveredPush
  <1>7. Flow(todo \o st, apps)
    BY <1>1, <1>3, FlowPush
  <1>8. Starting(todo \o st, apps, current)
    <2>1. CASE 1 \in 1 .. Len(todo)
      <3>1. (todo \o st)[1] = todo[1]
        BY <1>1, <2>1, ThenFirst
      <3> QED
        BY <1>4, <2>1, <3>1 DEF Without, Starting
    <2>2. CASE 1 \notin 1 .. Len(todo)
      <3>1. Len(todo) = 0 /\ todo \o st = st
        BY <1>1, <2>2 DEF Stacks
      <3> QED
        BY <1>3, <3>1, Calm
    <2> QED
      BY <2>1, <2>2
  <1>9. Calls(todo \o st, apps)
    <2>1. Without(st, TouchOps) /\ Without(st, TimerOps)
      BY <1>1, <1>2, Apart
    <2>2. Without(todo \o st, TouchOps) /\ Without(todo \o st, TimerOps)
      BY <1>1, <1>4, <2>1, WithoutPush
    <2>3. OwesNoMore(apps, apps)
      BY AllQuiet
    <2> QED
      BY <1>1, <2>1, <2>2, <2>3, CallsElsewhere
  <1> QED
    BY <1>5, <1>6, <1>7, <1>8, <1>9 DEF Good

LEMMA MayCloseMeans ==
  ASSUME stack \in Stacks, NEW s \in Scripts, MayClose(s)
  PROVE  Opened(app, s) /\ \A j \in 1 .. Len(stack) : stack[j].app = s => stack[j].op \in Outside
  <1>1. DOMAIN stack = 1 .. Len(stack)
    BY DEF Stacks
  <1> QED
    BY <1>1 DEF MayClose, InProgress, Opened, Outside

LEMMA CallsActionStep ==
  ASSUME IInv, CallsAction
  PROVE  IInv'
  <1> DEFINE c == s_currentApp
  <1>1. /\ stack \in Stacks /\ stack # <<>> /\ Good(stack, app, c)
        /\ Head(stack).op \in {"clickCallback", "setupMethod"} /\ app' = app /\ s_currentApp' = c
    BY DEF CallsAction, Doing, Idle, IInv, Good, Types
  <1>2. CASE \E s \in Scripts : MayClose(s) /\ stack' = CloseOf(s) \o stack
    <2>1. PICK s \in Scripts : MayClose(s) /\ stack' = CloseOf(s) \o stack
      BY <1>2
    <2>2. /\ CloseOf(s) \in Stacks /\ Idly(CloseOf(s)) /\ Flow(CloseOf(s), app)
          /\ \A k \in 1 .. Len(CloseOf(s)) : CloseOf(s)[k].app = s
      BY Closing
    <2>3. \A j \in 1 .. Len(stack) : stack[j].app = s => stack[j].op \in Outside
      BY <1>1, <2>1, MayCloseMeans
    <2>4. Good(CloseOf(s) \o stack, app, c)
      BY <1>1, <2>2, <2>3, Called
    <2> QED
      BY <1>1, <2>1, <2>4 DEF IInv
  <1>3. CASE LET open == {s \in Scripts : app[s].open} IN
             /\ \A s \in open : MayRebuild(s)
             /\ stack' = RebuildOf(SetToSeq(open)) \o stack
    <2> DEFINE open == {s \in Scripts : app[s].open}
               q == SetToSeq(open)
               r == RebuildOf(q)
    <2>1. (\A s \in open : MayRebuild(s)) /\ stack' = r \o stack
      BY <1>3
    <2>2. open \subseteq Scripts /\ IsFiniteSet(open)
      <3>1. IsFiniteSet(Scripts)
        BY ScriptCallsAssumption
      <3> QED
        BY <3>1, FS_Subset
    <2> HIDE DEF r
    <2>3. q \in Seq(open) /\ \A i, j \in 1 .. Len(q) : q[i] = q[j] => i = j
      <3> HIDE DEF open
      <3> QED
        BY <2>2, SetToSeqIsInjective
    <2> HIDE DEF q
    <2>4. q \in Seq(Scripts) /\ \A i \in 1 .. Len(q) : q[i] \in open
      <3> HIDE DEF open
      <3> QED
        BY <2>2, <2>3
    <2>5. \A i \in 1 .. Len(q) : Opened(app, q[i]) /\ MayClose(q[i])
      BY <2>1, <2>4 DEF Opened, MayRebuild
    <2>6. /\ r \in Stacks /\ Idly(r) /\ Flow(r, app)
          /\ \A k \in 1 .. Len(r) : \E i \in 1 .. Len(q) : r[k].app = q[i]
      BY <2>3, <2>4, <2>5, Rebuilding DEF r
    <2>7. ASSUME NEW k \in 1 .. Len(r), NEW j \in 1 .. Len(stack), stack[j].app = r[k].app
          PROVE  stack[j].op \in Outside
      <3>1. PICK i \in 1 .. Len(q) : r[k].app = q[i]
        BY <2>6
      <3>2. q[i] \in Scripts /\ MayClose(q[i])
        BY <2>4, <2>5
      <3> QED
        BY <1>1, <2>7, <3>1, <3>2, MayCloseMeans
    <2>8. Good(r \o stack, app, c)
      BY <1>1, <2>6, <2>7, Called
    <2> QED
      BY <1>1, <2>1, <2>8 DEF IInv
  <1> QED
    BY <1>2, <1>3 DEF CallsAction

-----------------------------------------------------------------------------
(* Code that changes its own app.                                           *)
LEMMA Changing ==
  ASSUME NEW st \in Stacks, NEW apps, NEW current, Good(st, apps, current),
         st # <<>>, Head(st).op \in UserCode, current # None
  PROVE  /\ current \in Scripts /\ apps[current] \in AppObjects /\ Sane(apps[current])
         /\ HasInstance(apps[current]) /\ Head(st).gen = apps[current].gen /\ Head(st).gen \in Nat
         /\ Without(st, TimerOps)
  <1>1. current \in Scripts /\ apps[current] \in AppObjects /\ Sane(apps[current])
    BY DEF Good, Types
  <1>2. Owns(Head(st), apps, current)
    BY CurrentOwns DEF Good
  <1>3. Head(st).gen \in Nat
    BY Top DEF Frames
  <1>4. Head(st).op \notin TimerOps
    BY DEF UserCode, TimerOps
  <1> QED
    BY <1>1, <1>2, <1>3, <1>4, NoTick DEF Owns, HasInstance, Good, Calls

Same(a, b) == b.open = a.open /\ b.gen = a.gen /\ b.instance = a.instance

LEMMA Changed ==
  ASSUME NEW st \in Stacks, NEW apps, NEW current, Good(st, apps, current),
         st # <<>>, Head(st).op \in UserCode, current # None,
         NEW b \in AppObjects, Sane(b), Same(apps[current], b),
         NEW new, new = [apps EXCEPT ![current] = b], OwesNoMore(apps, new), Touches(st, new)
  PROVE  Good(st, new, current)
  <1>1. /\ current \in Scripts /\ apps \in [Scripts -> AppObjects] /\ \A x \in Scripts : Sane(apps[x])
        /\ Without(st, TimerOps)
    BY Changing DEF Good, Types
  <1>2. /\ new \in [Scripts -> AppObjects] /\ new[current] = b
        /\ \A t \in Scripts : t # current => new[t] = apps[t]
        /\ \A t \in Scripts : Sane(new[t])
    BY <1>1, OneApp
  <1>3. Covered(st, new, current)
    <2>1. KeepsInstances(apps, new)
      BY <1>1, <1>2 DEF KeepsInstances, Same
    <2> QED
      BY <1>1, <2>1, CoveredApps DEF Good
  <1>4. Flow(st, new)
    <2>1. Modest(apps, new)
      BY <1>1, <1>2 DEF Modest, Loaded, Opened, Same
    <2> QED
      BY <2>1, FlowApps DEF Good
  <1>5. Starting(st, new, current)
    <2>1. st[1].op \notin Starts
      BY Top DEF UserCode, Starts
    <2> QED
      BY <2>1, Calm
  <1>6. Calls(st, new)
    <2>1. Ticks(st, new)
      BY <1>1, NotServing
    <2>2. NoneLost(st, new)
      <3> SUFFICES ASSUME NEW s \in Scripts, NEW k \in 1 .. Len(new[s].timers), Owes(new, s, k)
                   PROVE  Fires(new, s, k)
        BY DEF NoneLost
      <3>1. k \in 1 .. Len(apps[s].timers) /\ Owes(apps, s, k) /\ (Fires(apps, s, k) => Fires(new, s, k))
        BY DEF OwesNoMore
      <3> QED
        BY <1>1, <3>1, NotCalling DEF Good, Calls, NoneLost
    <2> QED
      BY <2>1, <2>2 DEF Good, Calls
  <1> QED
    BY <1>2, <1>3, <1>4, <1>5, <1>6 DEF Good, Types

-----------------------------------------------------------------------------
(* Code that changes the widgets of its own script.                         *)
LEMMA Altered ==
  ASSUME IInv, Builds, NEW b \in AppObjects, Alike(app[s_currentApp], b), Sane(b), Becomes(b)
  PROVE  IInv'
  <1> DEFINE c == s_currentApp
  <1>1. /\ Good(stack, app, c) /\ stack \in Stacks /\ stack # <<>> /\ c # None
        /\ Head(stack).op \in {"setupMethod", "timerCallback", "clickCallback"}
        /\ app \in [Scripts -> AppObjects]
    BY DEF IInv, Good, Types, Builds, Running, Idle
  <1>2. Head(stack).op \in UserCode /\ Head(stack).op \notin During
    BY <1>1 DEF UserCode, During, TouchOps, Holding
  <1>3. app' = [app EXCEPT ![c] = b] /\ s_currentApp' = c /\ stack' = stack
    BY DEF Becomes
  <1>4. Same(app[c], b) /\ b.timers = app[c].timers
    BY DEF Alike, Same
  <1>5. OwesNoMore(app, app')
    <2>1. \A s \in Scripts : app'[s].timers = app[s].timers
      BY <1>1, <1>3, <1>4
    <2> QED
      BY <2>1, SameTimers
  <1>6. Touches(stack, app')
    BY <1>1, <1>2, NoTouch, Untouched DEF Good, Calls
  <1>7. Good(stack, app', c)
    BY <1>1, <1>2, <1>3, <1>4, <1>5, <1>6, Changed
  <1> QED
    BY <1>3, <1>7 DEF IInv

LEMMA Building ==
  ASSUME IInv, Builds
  PROVE  /\ app[s_currentApp] \in AppObjects /\ Sane(app[s_currentApp])
         /\ HasInstance(app[s_currentApp])
         /\ Head(stack).gen = app[s_currentApp].gen /\ Head(stack).gen \in Nat
         /\ \A h \in Usable(app[s_currentApp]) : h \in 1 .. Len(app[s_currentApp].handles)
  <1>1. /\ Good(stack, app, s_currentApp) /\ stack \in Stacks /\ stack # <<>>
        /\ Head(stack).op \in UserCode /\ s_currentApp # None
    BY DEF IInv, Good, Types, Builds, Running, Idle
  <1>2. /\ app[s_currentApp] \in AppObjects /\ Sane(app[s_currentApp])
        /\ HasInstance(app[s_currentApp])
        /\ Head(stack).gen = app[s_currentApp].gen /\ Head(stack).gen \in Nat
    BY <1>1, Changing
  <1>3. DOMAIN app[s_currentApp].handles = 1 .. Len(app[s_currentApp].handles)
    BY <1>2, HandlesOf
  <1> QED
    BY <1>2, <1>3 DEF Usable

LEMMA AddsChild ==
  ASSUME NEW a \in AppObjects, Sane(a), HasInstance(a), NEW kind \in Kinds, NEW p \in Nat, NEW b,
         b = addChildToParent(a, p, kind) \/ b = addHandle(a, kind, p) \/ b = a
  PROVE  b \in AppObjects /\ Alike(a, b) /\ Sane(b)
  <1>1. CASE b = addHandle(a, kind, p)
    BY <1>1, Adds
  <1>2. CASE b = a
    BY <1>2 DEF Alike
  <1> QED
    BY <1>1, <1>2 DEF addChildToParent

LEMMA CreatesStep ==
  ASSUME IInv, Creates
  PROVE  IInv'
  <1> DEFINE a == app[s_currentApp]
  <1>1. /\ Builds /\ a \in AppObjects /\ Sane(a) /\ HasInstance(a)
        /\ \A h \in Usable(a) : h \in 1 .. Len(a.handles)
    BY Building DEF Creates
  <1>2. PICK p \in Usable(a) : \E made \in
          {ui_label(a, p), ui_button(a, p), ui_scrollable(a, p), ui_canvas(a, p), ui_checkbox(a, p),
           ui_radio(a, p), ui_textfield(a, p), ui_combobox(a, p), ui_groupbox(a, p), ui_tabs(a, p),
           ui_filelist(a, p), ui_icon(a, p), ui_tabs_add(a, p)} : Becomes(made)
    BY DEF Creates
  <1>3. PICK made \in
          {ui_label(a, p), ui_button(a, p), ui_scrollable(a, p), ui_canvas(a, p), ui_checkbox(a, p),
           ui_radio(a, p), ui_textfield(a, p), ui_combobox(a, p), ui_groupbox(a, p), ui_tabs(a, p),
           ui_filelist(a, p), ui_icon(a, p), ui_tabs_add(a, p)} : Becomes(made)
    BY <1>2
  <1>4. p \in Nat
    BY <1>1
  <1> HIDE DEF a
  <1>5. \E kind \in Kinds : \/ made = addChildToParent(a, p, kind)
                            \/ made = addHandle(a, kind, p)
                            \/ made = a
    <2>1. {"plain", "button", "scrollable", "direct", "choice", "groupbox", "tabs", "container"}
            \subseteq Kinds
      BY DEF Kinds
    <2> QED
      BY <1>3, <2>1 DEF ui_label, ui_button, ui_scrollable, ui_canvas, ui_checkbox, ui_radio,
         ui_textfield, ui_combobox, ui_groupbox, ui_tabs, ui_filelist, ui_icon, ui_tabs_add
  <1>6. made \in AppObjects /\ Alike(a, made) /\ Sane(made)
    BY <1>1, <1>4, <1>5, AddsChild
  <1> QED
    BY <1>1, <1>3, <1>6, Altered DEF a

LEMMA ClearsStep ==
  ASSUME IInv, Clears
  PROVE  IInv'
  <1> DEFINE a == app[s_currentApp]
  <1>1. Builds /\ a \in AppObjects /\ Sane(a) /\ HasInstance(a)
    BY Building DEF Clears
  <1>2. PICK h \in Usable(a) : Becomes(ui_clear(a, h))
    BY DEF Clears
  <1> DEFINE b == ui_clear(a, h)
  <1>3. b = Destroyed(a, Under(a, Children(a, h))) \/ b = a
    BY DEF ui_clear
  <1>4. Becomes(b)
    BY <1>2
  <1> HIDE DEF a, b
  <1>5. b \in AppObjects /\ Alike(a, b) /\ Sane(b)
    <2>1. CASE b = Destroyed(a, Under(a, Children(a, h)))
      BY <1>1, <2>1, Destroys
    <2>2. CASE b = a
      BY <1>1, <2>2 DEF Alike
    <2> QED
      BY <1>3, <2>1, <2>2
  <1> QED
    BY <1>1, <1>4, <1>5, Altered DEF a

LEMMA RemovesChildStep ==
  ASSUME IInv, RemovesChild
  PROVE  IInv'
  <1> DEFINE a == app[s_currentApp]
  <1>1. /\ Builds /\ a \in AppObjects /\ Sane(a) /\ HasInstance(a)
        /\ \A h \in Usable(a) : h \in 1 .. Len(a.handles)
    BY Building DEF RemovesChild
  <1>2. PICK p \in Usable(a), c \in Usable(a) \ {1} : Becomes(ui_remove_child(a, p, c))
    BY DEF RemovesChild
  <1>3. c \in 1 .. Len(a.handles)
    BY <1>1
  <1> DEFINE b == ui_remove_child(a, p, c)
  <1>4. Becomes(b) /\ b = ui_remove_child(a, p, c)
    BY <1>2
  <1> HIDE DEF a, b
  <1>5. b \in AppObjects /\ Alike(a, b) /\ Sane(b)
    BY <1>1, <1>3, <1>4, RemovesChildren
  <1> QED
    BY <1>1, <1>4, <1>5, Altered DEF a

LEMMA SetsCallbackStep ==
  ASSUME IInv, SetsCallback
  PROVE  IInv'
  <1> DEFINE a == app[s_currentApp]
             g == Head(stack).gen
  <1>1. /\ Builds /\ a \in AppObjects /\ Sane(a) /\ HasInstance(a) /\ g = a.gen /\ g \in Nat
        /\ \A h \in Usable(a) : h \in 1 .. Len(a.handles)
    BY Building DEF SetsCallback
  <1>2. a.nextCbId < MaxCb
    BY DEF SetsCallback, UsesCurrent
  <1>3. PICK h \in Usable(a) : \E set \in
          {ui_on_click(a, h, g), ui_on_change(a, h, g), ui_on_item_selected(a, h, g),
           ui_on_touch(a, h, g)} : Becomes(set)
    BY DEF SetsCallback
  <1>4. PICK set \in {ui_on_click(a, h, g), ui_on_change(a, h, g), ui_on_item_selected(a, h, g),
                      ui_on_touch(a, h, g)} : Becomes(set)
    BY <1>3
  <1>5. h \in 1 .. Len(a.handles)
    BY <1>1
  <1> HIDE DEF a, g
  <1>6. \/ set = a
        \/ \E click \in BOOLEAN : \/ set = storeCallback(a, g, click)
                                  \/ set = Attached(a, h, g, click) /\ Suits(a.handles[h], click)
    BY <1>4 DEF ui_on_click, ui_on_change, ui_on_item_selected, ui_on_touch, Kind, Suits
  <1>7. set \in AppObjects /\ Alike(a, set) /\ Sane(set)
    <2>1. CASE set = a
      BY <1>1, <2>1 DEF Alike
    <2>2. CASE \E click \in BOOLEAN : set = storeCallback(a, g, click)
      BY <1>1, <1>2, <2>2, Stores
    <2>3. CASE \E click \in BOOLEAN : set = Attached(a, h, g, click) /\ Suits(a.handles[h], click)
      BY <1>1, <1>2, <1>5, <2>3, Attaching
    <2> QED
      BY <1>6, <2>1, <2>2, <2>3
  <1> QED
    BY <1>1, <1>4, <1>7, Altered DEF a

LEMMA TouchesStill ==
  ASSUME NEW st \in Stacks, NEW apps, NEW new, Touches(st, apps),
         \A s \in Scripts : new[s].handles = apps[s].handles,
         \A s \in Scripts : \A id \in Ids : ForClick(new[s], id) => ForClick(apps[s], id)
  PROVE  Touches(st, new)
  <1>1. \A k \in 1 .. Len(st) : Anyone(st[k])
    BY DEF Stacks
  <1>2. ASSUME NEW k \in 1 .. Len(st), Within(st[k], apps)
        PROVE  Within(st[k], new) /\ (Event(st[k], apps) => Event(st[k], new))
    <2>1. st[k].op \in OnElement \union {"closure", "call"} => st[k].app \in Scripts
      BY <1>1 DEF Anyone, OnElement, Holding
    <2>2. Within(st[k], new)
      BY <1>2, <2>1 DEF Within
    <2>3. st[k].op = "call" => st[k].app \in Scripts /\ st[k].id \in Ids
      BY <1>2, <2>1 DEF Within
    <2> QED
      BY <2>2, <2>3 DEF Event
  <1> QED
    BY <1>2 DEF Touches

(* ui.timer                                                                 *)
ui_timer(a, g) == scheduleTimer(storeCallback(a, g, FALSE), a.nextCbId)

LEMMA Schedules ==
  ASSUME NEW a \in AppObjects, Sane(a), HasInstance(a), a.nextCbId < MaxCb,
         NEW g \in Nat, g = a.gen, NEW b, b = ui_timer(a, g)
  PROVE  /\ b \in AppObjects /\ Same(a, b) /\ Sane(b) /\ b.handles = a.handles
         /\ \A id \in Ids : ForClick(b, id) => ForClick(a, id)
         /\ \A k \in 1 .. Len(b.timers) : b.timers[k].owed =>
              k \in 1 .. Len(a.timers) /\ b.timers[k] = a.timers[k]
  <1> DEFINE n == a.nextCbId
             c == storeCallback(a, g, FALSE)
             timer == [cb |-> n, fired |-> FALSE, owed |-> FALSE]
             ts == Append(a.timers, timer)
  <1>1. c = storeCallback(a, g, FALSE)
    OBVIOUS
  <1> HIDE DEF c
  <1>2. /\ c \in AppObjects /\ Alike(a, c) /\ Sane(c) /\ c.handles = a.handles /\ n \in Ids
        /\ ~ForClick(c, n) /\ \A id \in Ids : id # n => c.globals[id] = a.globals[id]
    <2>1. PICK click \in BOOLEAN : ~click /\ c = storeCallback(a, g, click)
      BY <1>1
    <2> QED
      BY <2>1, Stores
  <1>3. timer \in Timers /\ timer.owed = FALSE
    BY <1>2 DEF Timers
  <1>4. b = [c EXCEPT !.timers = ts]
    BY <1>1, <1>2 DEF ui_timer, scheduleTimer, Alike, AppObjects
  <1> HIDE DEF timer
  <1>5. /\ a.timers \in Seq(Timers) /\ ts \in Seq(Timers) /\ Len(ts) = Len(a.timers) + 1
        /\ Len(a.timers) \in Nat /\ ts[Len(a.timers) + 1] = timer
        /\ \A k \in 1 .. Len(a.timers) : ts[k] = a.timers[k]
    BY <1>3 DEF AppObjects
  <1> HIDE DEF ts
  <1>6. /\ b \in AppObjects /\ b.open = c.open /\ b.gen = c.gen /\ b.instance = c.instance
        /\ b.handles = c.handles /\ b.globals = c.globals /\ b.nextCbId = c.nextCbId /\ b.timers = ts
    BY <1>2, <1>4, <1>5 DEF AppObjects
  <1>7. Sane(b) /\ Same(a, b)
    <2>1. Stored(b) /\ (b.instance => b.open)
      BY <1>2, <1>6 DEF Sane, Stored
    <2>2. CallsBack(b)
      BY <1>2, <1>6 DEF Sane, CallsBack, Attaches
    <2>3. Reachable(b)
      BY <1>2, <1>6 DEF Sane, Reachable
    <2> QED
      BY <1>2, <1>6, <2>1, <2>2, <2>3 DEF Sane, Alike, Same
  <1>8. ASSUME NEW k \in 1 .. Len(ts), ts[k].owed
        PROVE  k \in 1 .. Len(a.timers) /\ ts[k] = a.timers[k]
    <2>1. k # Len(a.timers) + 1
      BY <1>3, <1>5, <1>8
    <2> QED
      BY <1>5, <2>1
  <1>9. \A id \in Ids : ForClick(b, id) => ForClick(a, id)
    BY <1>2, <1>6 DEF ForClick
  <1> QED
    BY <1>2, <1>6, <1>7, <1>8, <1>9

LEMMA TimerStep ==
  ASSUME IInv, Timer
  PROVE  IInv' /\ SameElements(app, app')
  <1> DEFINE c == s_currentApp
             a == app[c]
             g == Head(stack).gen
             b == ui_timer(a, g)
  <1>1. /\ Good(stack, app, c) /\ stack \in Stacks /\ stack # <<>> /\ Head(stack).op \in UserCode
        /\ c # None /\ a.nextCbId < MaxCb /\ app \in [Scripts -> AppObjects]
    BY DEF IInv, Good, Types, Timer, UsesCurrent, Running, Idle
  <1>2. c \in Scripts /\ a \in AppObjects /\ Sane(a) /\ HasInstance(a) /\ g = a.gen /\ g \in Nat
    BY <1>1, Changing
  <1>3. app' = [app EXCEPT ![c] = b] /\ s_currentApp' = c /\ stack' = stack
    BY <1>1, <1>2 DEF Timer, UsesCurrent, ui_timer
  <1>4. b = ui_timer(a, g)
    OBVIOUS
  <1> HIDE DEF a, b, g
  <1>5. /\ b \in AppObjects /\ Same(a, b) /\ Sane(b) /\ b.handles = a.handles
        /\ \A id \in Ids : ForClick(b, id) => ForClick(a, id)
        /\ \A k \in 1 .. Len(b.timers) : b.timers[k].owed =>
             k \in 1 .. Len(a.timers) /\ b.timers[k] = a.timers[k]
    BY <1>1, <1>2, <1>4, Schedules
  <1>6. app'[c] = b /\ a = app[c] /\ \A s \in Scripts : s # c => app'[s] = app[s]
    BY <1>1, <1>2, <1>3 DEF a
  <1>7. OwesNoMore(app, app')
    BY <1>5, <1>6 DEF OwesNoMore, Owes, Fires
  <1>8. Touches(stack, app')
    <2>1. /\ \A s \in Scripts : app'[s].handles = app[s].handles
          /\ \A s \in Scripts : \A id \in Ids : ForClick(app'[s], id) => ForClick(app[s], id)
      BY <1>5, <1>6
    <2>2. Touches(stack, app)
      BY <1>1 DEF Good, Calls
    <2> QED
      BY <1>1, <2>1, <2>2, TouchesStill
  <1>9. Good(stack, app', c)
    <2>1. Same(app[c], b)
      BY <1>5 DEF a
    <2> QED
      BY <1>1, <1>3, <1>5, <1>7, <1>8, <2>1, Changed
  <1>10. SameElements(app, app')
    BY <1>5, <1>6 DEF SameElements, Same
  <1> QED
    BY <1>3, <1>9, <1>10 DEF IInv

-----------------------------------------------------------------------------
(* What the UI loop does when no call is under way.                         *)
LEMMA FromIdle ==
  ASSUME IInv, Idle, NEW todo \in Stacks, NEW new \in [Scripts -> AppObjects],
         \A x \in Scripts : Sane(new[x]) /\ new[x].timers = app[x].timers,
         Flow(todo, new), Without(todo, Starts),
         Touches(todo, new), Descends(todo), Ticks(todo, new)
  PROVE  s_currentApp = None /\ Good(todo, new, None)
  <1>1. stack = <<>> /\ stack \in Stacks /\ Covered(stack, app, s_currentApp) /\ NoneLost(stack, app)
    BY DEF Idle, IInv, Good, Types, Calls
  <1>2. s_currentApp = None
    BY <1>1, NoCurrent
  <1>3. Without(stack, TimerOps)
    BY <1>1, Empty
  <1>4. NoneLost(todo, new)
    BY <1>1, <1>3, NotCalling DEF NoneLost, Owes, Fires
  <1>5. Starting(todo, new, None)
    BY DEF Without, Starting
  <1>6. Types(todo, new, None) /\ Covered(todo, new, None)
    BY DEF Types, Covered
  <1> QED
    BY <1>2, <1>4, <1>5, <1>6 DEF Good, Calls

LEMMA Idling ==
  ASSUME IInv
  PROVE  app \in [Scripts -> AppObjects] /\ \A x \in Scripts : Sane(app[x])
  BY DEF IInv, Good, Types

LEMMA Ordered ==
  ASSUME IInv, Idle, NEW todo \in Stacks, Idly(todo), Flow(todo, app),
         stack' = todo, UNCHANGED <<app, s_currentApp>>
  PROVE  IInv'
  <1>1. Without(todo, TouchOps) /\ Without(todo, TimerOps) /\ Without(todo, Starts)
    BY IdlyApart
  <1>2. Touches(todo, app) /\ Descends(todo) /\ Ticks(todo, app)
    BY <1>1, Untouched, NotServing
  <1>3. s_currentApp = None /\ Good(todo, app, None)
    BY <1>1, <1>2, Idling, FromIdle
  <1> QED
    BY <1>3 DEF IInv

LEMMA CloseStep ==
  ASSUME IInv, NEW s \in Scripts, Close(s)
  PROVE  IInv'
  <1>1. CloseOf(s) \in Stacks /\ Idly(CloseOf(s)) /\ Flow(CloseOf(s), app)
    BY Closing
  <1> QED
    BY <1>1, Ordered DEF Close

LEMMA RebuildStep ==
  ASSUME IInv, NEW s \in Scripts, Rebuild(s)
  PROVE  IInv'
  <1>1. Opened(app, s)
    BY DEF Rebuild, MayRebuild, MayClose, Opened
  <1>2. RebuildOf(<<s>>) \in Stacks /\ Idly(RebuildOf(<<s>>)) /\ Flow(RebuildOf(<<s>>), app)
    BY <1>1, RebuildingOne
  <1> QED
    BY <1>2, Ordered DEF Rebuild

LEMMA OpenStep ==
  ASSUME IInv, NEW s \in Scripts, Open(s)
  PROVE  IInv'
  <1> DEFINE a == app[s]
             b == [a EXCEPT !.open = TRUE]
             f == Do("setup", s)
             q == <<f>>
  <1>1. /\ Idle /\ ~Opened(app, s) /\ a \in AppObjects /\ Sane(a) /\ app \in [Scripts -> AppObjects]
        /\ \A x \in Scripts : Sane(app[x])
    BY Idling DEF Open, Opened
  <1>2. app' = [app EXCEPT ![s] = b] /\ stack' = q /\ s_currentApp' = s_currentApp
    BY <1>1 DEF Open
  <1>3. /\ b \in AppObjects /\ b.open = TRUE /\ b.gen = a.gen /\ b.instance = a.instance
        /\ b.globals = a.globals /\ b.nextCbId = a.nextCbId /\ b.timers = a.timers
        /\ b.handles = a.handles
    BY <1>1 DEF AppObjects
  <1>4. f \in Frames /\ Anyone(f) /\ f.op = "setup" /\ f.app = s
    <2>1. "setup" \in Orders
      BY DEF Orders
    <2> QED
      BY <2>1, Order
  <1> HIDE DEF a, b, f
  <1>5. Sane(b)
    <2>1. Stored(b) /\ CallsBack(b)
      BY <1>1, <1>3 DEF Sane, Stored, CallsBack, Attaches
    <2>2. Reachable(b) /\ b.open
      BY <1>1, <1>3 DEF Sane, Reachable
    <2> QED
      BY <2>1, <2>2 DEF Sane
  <1>6. q \in Stacks /\ Len(q) = 1 /\ q[1] = f
    BY <1>4, Single
  <1> HIDE DEF q
  <1>7. /\ app' \in [Scripts -> AppObjects] /\ app'[s] = b
        /\ \A x \in Scripts : x # s => app'[x] = app[x]
        /\ \A x \in Scripts : Sane(app'[x])
    BY <1>1, <1>2, <1>3, <1>5, OneApp
  <1>8. \A x \in Scripts : app'[x].timers = app[x].timers
    BY <1>3, <1>7 DEF a
  <1>9. Flow(q, app')
    <2>1. ~Loaded(app', s) /\ Opened(app', s)
      BY <1>1, <1>3, <1>7 DEF Loaded, Opened, Sane, a
    <2>2. \A k \in 1 .. Len(q) : k = 1
      BY <1>6
    <2>3. Unloaded(q, app') /\ Opening(q, app')
      BY <1>4, <1>6, <2>1, <2>2 DEF Unloaded, Opening
    <2>4. Final(q) /\ Followed(q)
      BY <1>4, <1>6, <2>2 DEF Final, Followed
    <2> QED
      BY <2>3, <2>4 DEF Flow
  <1>10. Without(q, TouchOps) /\ Without(q, TimerOps) /\ Without(q, Starts)
    BY <1>4, <1>6 DEF Without, TouchOps, Holding, TimerOps, Starts
  <1>11. Touches(q, app') /\ Descends(q) /\ Ticks(q, app')
    BY <1>10, Untouched, NotServing
  <1>12. s_currentApp = None /\ Good(q, app', None)
    BY <1>1, <1>6, <1>7, <1>8, <1>9, <1>10, <1>11, FromIdle
  <1> QED
    BY <1>2, <1>12 DEF IInv

LEMMA EvalStep ==
  ASSUME IInv, Eval
  PROVE  IInv'
  <1> DEFINE f == Code("eval", None, 0)
             q == <<f>>
  <1>1. Idle /\ stack' = q /\ app' = app /\ s_currentApp' = s_currentApp
    BY DEF Eval
  <1>2. f \in Frames /\ f.op = "eval" /\ f.app = None
    <2>1. "eval" \in Ops /\ 0 \in Nat /\ None \in Scripts \union {None}
      BY DEF Ops, UserCode
    <2> QED
      BY <2>1, Frame
  <1>3. Anyone(f)
    BY <1>2 DEF Anyone
  <1> HIDE DEF f
  <1>4. q \in Stacks /\ Len(q) = 1 /\ q[1] = f
    BY <1>2, <1>3, Single
  <1> HIDE DEF q
  <1>5. /\ Without(q, TouchOps) /\ Without(q, TimerOps) /\ Without(q, Starts)
        /\ Without(q, Demanding)
    BY <1>2, <1>4 DEF Without, TouchOps, Holding, TimerOps, Starts, Demanding
  <1>6. Flow(q, app) /\ Touches(q, app) /\ Descends(q) /\ Ticks(q, app)
    BY <1>5, Undemanding, Untouched, NotServing
  <1>7. s_currentApp = None /\ Good(q, app, None)
    BY <1>1, <1>4, <1>5, <1>6, Idling, FromIdle
  <1> QED
    BY <1>1, <1>7 DEF IInv

LEMMA TouchStep ==
  ASSUME IInv, NEW s \in Scripts, Touch(s)
  PROVE  IInv'
  <1> DEFINE f == DoWith("touch", s, 1)
             q == <<f>>
  <1>1. Idle /\ app[s].handles # <<>> /\ stack' = q /\ app' = app /\ s_currentApp' = s_currentApp
    BY DEF Touch
  <1>2. f \in Frames /\ f.op = "touch" /\ f.app = s /\ f.id = 1
    <2>1. "touch" \in Ops /\ 1 \in Nat /\ s \in Scripts \union {None}
      BY DEF Ops, TouchOps
    <2> QED
      BY <2>1, Frame
  <1>3. Anyone(f)
    BY <1>2 DEF Anyone
  <1> HIDE DEF f
  <1>4. q \in Stacks /\ Len(q) = 1 /\ q[1] = f
    BY <1>2, <1>3, Single
  <1> HIDE DEF q
  <1>5. Without(q, TimerOps) /\ Without(q, Starts) /\ Without(q, Demanding)
    BY <1>2, <1>4 DEF Without, TimerOps, Starts, Demanding
  <1>6. 1 \in 1 .. Len(app[s].handles)
    <2>1. app[s].handles \in Seq(Elements)
      BY Idling, HandlesOf
    <2> QED
      BY <1>1, <2>1
  <1>7. Within(f, app)
    BY <1>2, <1>6 DEF Within, During, TouchOps
  <1>8. \A k \in 1 .. Len(q) : k = 1
    BY <1>4
  <1>9. Touches(q, app)
    BY <1>4, <1>7, <1>8 DEF Touches
  <1>10. Descends(q)
    BY <1>2, <1>4, <1>8 DEF Descends
  <1>11. Flow(q, app) /\ Ticks(q, app)
    BY <1>5, Undemanding, NotServing
  <1>12. s_currentApp = None /\ Good(q, app, None)
    BY <1>1, <1>4, <1>5, <1>9, <1>10, <1>11, Idling, FromIdle
  <1> QED
    BY <1>1, <1>12 DEF IInv

LEMMA TickTimerStep ==
  ASSUME IInv, NEW s \in Scripts, NEW k \in DOMAIN app[s].timers, TickTimer(s, k)
  PROVE  IInv'
  <1> DEFINE q == Serve(s, k)
  <1>1. Idle /\ stack' = q /\ app' = app /\ s_currentApp' = s_currentApp
    BY DEF TickTimer
  <1>2. k \in 1 .. Len(app[s].timers) /\ k \in Nat
    BY Idling DEF AppObjects
  <1>3. /\ q \in Stacks /\ Len(q) = 2 /\ q[1].op = "clearFlag" /\ q[2].op = "callTimer"
    BY <1>2, Serving
  <1>4. Ticks(q, app)
    BY <1>2 DEF Ticks
  <1> HIDE DEF q
  <1>5. \A i \in 1 .. Len(q) : q[i].op \in TimerOps
    <2>1. \A i \in 1 .. Len(q) : i = 1 \/ i = 2
      BY <1>3
    <2> QED
      BY <1>3, <2>1 DEF TimerOps
  <1>6. Without(q, TouchOps) /\ Without(q, Starts) /\ Without(q, Demanding)
    BY <1>5 DEF Without, TouchOps, Holding, TimerOps, Starts, Demanding
  <1>7. Flow(q, app) /\ Touches(q, app) /\ Descends(q)
    BY <1>6, Undemanding, Untouched
  <1>8. s_currentApp = None /\ Good(q, app, None)
    BY <1>1, <1>3, <1>4, <1>6, <1>7, Idling, FromIdle
  <1> QED
    BY <1>1, <1>8 DEF IInv

-----------------------------------------------------------------------------
(* A touch is passed down.                                                  *)
LEMMA TouchFrame ==
  ASSUME NEW op \in TouchOps, NEW s \in Scripts, NEW n \in Nat
  PROVE  /\ DoWith(op, s, n) \in Frames /\ Anyone(DoWith(op, s, n))
         /\ DoWith(op, s, n).op = op /\ DoWith(op, s, n).app = s /\ DoWith(op, s, n).id = n
  <1>1. op \in Ops /\ s \in Scripts \union {None}
    BY DEF Ops
  <1>2. /\ DoWith(op, s, n) \in Frames
        /\ DoWith(op, s, n).op = op /\ DoWith(op, s, n).app = s /\ DoWith(op, s, n).id = n
    BY <1>1, Frame
  <1>3. op # "eval" /\ op # "restoreCurrent"
    BY DEF TouchOps, Holding
  <1> QED
    BY <1>2, <1>3 DEF Anyone

HasElement(apps, s, h) == h \in 1 .. Len(apps[s].handles)

LEMMA Passing ==
  ASSUME IInv, stack # <<>>, Head(stack).op \in OnElement
  PROVE  /\ stack \in Stacks /\ Head(stack).app \in Scripts /\ Head(stack).id \in Nat
         /\ HasElement(app, Head(stack).app, Head(stack).id)
         /\ Within(Head(stack), app)
         /\ s_currentApp = None /\ Touching(stack)
         /\ Without(stack, TimerOps) /\ Without(stack, Demanding)
         /\ Calls(stack, app) /\ Touches(stack, app) /\ Descends(stack)
  <1>1. stack \in Stacks /\ Covered(stack, app, s_currentApp) /\ Calls(stack, app)
    BY DEF IInv, Good, Types
  <1>2. Head(stack) = stack[1] /\ 1 \in 1 .. Len(stack) /\ Head(stack) \in Frames /\ Anyone(Head(stack))
    BY <1>1, Top
  <1>3. Head(stack).op \in TouchOps /\ Head(stack).op \notin TimerOps
        /\ Head(stack).op \notin Unbound \union UserCode
    BY DEF OnElement, TouchOps, Holding, TimerOps, Unbound, LifeOps, UserCode
  <1>4. s_currentApp = None
    BY <1>1, <1>3, NoCurrent
  <1>5. Touching(stack) /\ Touches(stack, app) /\ Descends(stack)
    BY <1>1, <1>2, <1>3 DEF Touching, Calls
  <1>6. \A k \in 1 .. Len(stack) : Within(stack[k], app)
    BY <1>5 DEF Touches
  <1>7. Without(stack, TimerOps) /\ Without(stack, Demanding)
    BY <1>6 DEF Without, Within, During, TouchOps, Holding, TimerOps, Demanding
  <1>8. Head(stack).app \in Scripts
    BY <1>2 DEF Anyone, OnElement, Holding
  <1>9. Head(stack).id \in Nat
    BY <1>2 DEF Frames
  <1>10. Within(Head(stack), app) /\ HasElement(app, Head(stack).app, Head(stack).id)
    BY <1>2, <1>6 DEF Within, HasElement
  <1> QED
    BY <1>1, <1>4, <1>5, <1>7, <1>8, <1>9, <1>10

LEMMA Passed ==
  ASSUME IInv, NEW next \in Stacks, Touches(next, app), Descends(next),
         s_currentApp = None, Without(stack, TimerOps),
         Without(next, TimerOps), Without(next, Demanding)
  PROVE  Good(next, app, None)
  <1>1. stack \in Stacks /\ NoneLost(stack, app)
    BY DEF IInv, Good, Types, Calls
  <1>2. NoneLost(next, app)
    BY <1>1, NotCalling DEF NoneLost
  <1>3. Flow(next, app) /\ Starting(next, app, None) /\ Ticks(next, app)
    BY Undemanding, NotServing
  <1>4. Types(next, app, None) /\ Covered(next, app, None)
    BY DEF IInv, Good, Types, Covered
  <1> QED
    BY <1>2, <1>3, <1>4 DEF Good, Calls

Alone(todo, S) == \A k, j \in 1 .. Len(todo) : todo[k].op \in S /\ todo[j].op \in S => j = k

EndsIn(todo, op) == Len(todo) # 0 /\ todo[Len(todo)].op = op

LEMMA Passes ==
  ASSUME IInv, stack # <<>>, Head(stack).op \in OnElement, NEW todo \in Stacks,
         \A k \in 1 .. Len(todo) : Within(todo[k], app) /\ Event(todo[k], app),
         Without(todo, Descending) \/ (Head(stack).op \in Descending /\ Alone(todo, Descending)),
         ~EndsIn(todo, "call"),
         Then(todo), UNCHANGED <<app, s_currentApp>>
  PROVE  IInv'
  <1> DEFINE r == todo \o Tail(stack)
  <1>1. /\ stack \in Stacks /\ s_currentApp = None /\ Touching(stack)
        /\ Without(stack, TimerOps) /\ Without(stack, Demanding)
        /\ Touches(stack, app) /\ Descends(stack)
    BY Passing
  <1>2. Without(todo, TimerOps) /\ Without(todo, Demanding)
    BY DEF Without, Within, During, TouchOps, Holding, TimerOps, Demanding
  <1>3. Tail(stack) \in Stacks /\ r \in Stacks
    BY <1>1, TailShifts, ConcatShifts
  <1>4. Without(r, TimerOps) /\ Without(r, Demanding)
    BY <1>1, <1>2, <1>3, WithoutTail, WithoutPush
  <1>5. Touches(r, app)
    BY <1>1, TouchesThen
  <1>6. Descends(r)
    <2>1. \A k \in 1 .. Len(todo) : todo[k].op \in Descending =>
            Head(stack).op \in Descending /\ \A j \in 1 .. Len(todo) : todo[j].op \in Descending => j = k
      BY DEF Without, Alone
    <2>2. Len(todo) # 0 => todo[Len(todo)].op # "call"
      BY DEF EndsIn
    <2> QED
      BY <1>1, <2>1, <2>2, DescendsThen
  <1>7. Good(r, app, None)
    BY <1>1, <1>3, <1>4, <1>5, <1>6, Passed
  <1> QED
    BY <1>1, <1>7 DEF IInv, Then

LEMMA Queues ==
  ASSUME IInv, stack # <<>>, Head(stack).op = "touch", NEW todo \in Stacks,
         Len(todo) <= 1, \A k \in 1 .. Len(todo) : Within(todo[k], app), Without(todo, Descending),
         Queued(todo), UNCHANGED <<app, s_currentApp>>
  PROVE  IInv'
  <1> DEFINE r == Tail(stack) \o todo
  <1>1. Head(stack).op \in OnElement /\ Head(stack).op \in Descending
    BY DEF OnElement, Descending
  <1>2. /\ stack \in Stacks /\ s_currentApp = None /\ Touching(stack)
        /\ Without(stack, TimerOps) /\ Without(stack, Demanding)
        /\ Touches(stack, app) /\ Descends(stack)
    BY <1>1, Passing
  <1>3. Without(todo, TimerOps) /\ Without(todo, Demanding)
    <2>1. Len(todo) \in Nat
      BY DEF Stacks
    <2>2. \A m \in Nat : m <= 1 => \A k \in 1 .. m : k = 1
      OBVIOUS
    <2>3. \A k \in 1 .. Len(todo) : k = 1
      BY <2>1, <2>2
    <2> QED
      BY <2>3 DEF Without, Within, During, TouchOps, Holding, TimerOps, Demanding
  <1>4. Tail(stack) \in Stacks
    BY <1>2, TailShifts
  <1>5. Without(r, TimerOps) /\ Without(r, Demanding)
    BY <1>2, <1>3, <1>4, WithoutTail, WithoutPush
  <1>6. r \in Stacks /\ Touches(r, app) /\ Descends(r)
    <2>1. Len(todo) = 1 => Within(todo[1], app)
      OBVIOUS
    <2> QED
      BY <1>1, <1>2, <2>1, TouchesQueue
  <1>7. Good(r, app, None)
    BY <1>2, <1>5, <1>6, Passed
  <1> QED
    BY <1>2, <1>7 DEF IInv, Queued

LEMMA NothingPasses ==
  ASSUME IInv, stack # <<>>, Head(stack).op \in OnElement,
         Then(<<>>), UNCHANGED <<app, s_currentApp>>
  PROVE  IInv'
  <1> DEFINE e == <<>>
  <1>1. e \in Stacks /\ Len(e) = 0 /\ \A S : Without(e, S)
    BY Empty
  <1>2. Then(e)
    OBVIOUS
  <1> HIDE DEF e
  <1>3. (\A k \in 1 .. Len(e) : FALSE) /\ ~EndsIn(e, "call")
    BY <1>1 DEF EndsIn
  <1> QED
    BY <1>1, <1>2, <1>3, Passes

(* What an element is asked to do.                                          *)
LEMMA OneFrame ==
  ASSUME NEW op \in {"touch", "children", "closure", "call"}, NEW s \in Scripts, NEW n \in Nat
  PROVE  /\ <<DoWith(op, s, n)>> \in Stacks /\ Len(<<DoWith(op, s, n)>>) = 1
         /\ <<DoWith(op, s, n)>>[1] = DoWith(op, s, n)
         /\ DoWith(op, s, n).op = op /\ DoWith(op, s, n).app = s /\ DoWith(op, s, n).id = n
  <1> DEFINE f == DoWith(op, s, n)
  <1>1. f \in Frames /\ Anyone(f) /\ f.op = op /\ f.app = s /\ f.id = n
    BY TouchFrame DEF TouchOps, Holding
  <1> HIDE DEF f
  <1>2. <<f>> \in Stacks /\ Len(<<f>>) = 1 /\ <<f>>[1] = f
    BY <1>1, Single
  <1> QED
    BY <1>1, <1>2 DEF f

LEMMA OnlyPasses ==
  ASSUME IInv, stack # <<>>, Head(stack).op \in OnElement, NEW s \in Scripts, NEW n \in Nat,
         NEW op \in {"touch", "children", "closure"},
         Within(DoWith(op, s, n), app), op \in Descending => Head(stack).op \in Descending,
         Then(<<DoWith(op, s, n)>>), UNCHANGED <<app, s_currentApp>>
  PROVE  IInv'
  <1> DEFINE f == DoWith(op, s, n)
             q == <<f>>
  <1>1. q \in Stacks /\ Len(q) = 1 /\ q[1] = f /\ f.op = op
    BY OneFrame
  <1>2. Then(q) /\ Within(f, app)
    OBVIOUS
  <1> HIDE DEF f, q
  <1>3. \A k \in 1 .. Len(q) : k = 1
    BY <1>1
  <1>4. /\ \A k \in 1 .. Len(q) : Within(q[k], app) /\ Event(q[k], app)
        /\ ~EndsIn(q, "call") /\ Alone(q, Descending)
        /\ op \notin Descending => Without(q, Descending)
    BY <1>1, <1>2, <1>3 DEF Event, EndsIn, Alone, Without
  <1> QED
    BY <1>1, <1>2, <1>4, Passes

LEMMA TwoPass ==
  ASSUME IInv, stack # <<>>, Head(stack).op \in OnElement,
         NEW f \in Frames, Anyone(f), NEW g \in Frames, Anyone(g),
         Within(f, app), Event(f, app), Within(g, app), g.op # "call",
         ~(f.op \in Descending /\ g.op \in Descending),
         f.op \in Descending \/ g.op \in Descending => Head(stack).op \in Descending,
         Then(<<f, g>>), UNCHANGED <<app, s_currentApp>>
  PROVE  IInv'
  <1> DEFINE q == <<f, g>>
  <1>1. q \in Stacks /\ Len(q) = 2 /\ q[1] = f /\ q[2] = g
    BY Pair
  <1>2. Then(q)
    OBVIOUS
  <1> HIDE DEF q
  <1>3. \A k \in 1 .. Len(q) : k = 1 \/ k = 2
    BY <1>1
  <1>4. /\ \A k \in 1 .. Len(q) : Within(q[k], app) /\ Event(q[k], app)
        /\ ~EndsIn(q, "call")
    BY <1>1, <1>3 DEF Event, EndsIn
  <1>5. Without(q, Descending) \/ (Head(stack).op \in Descending /\ Alone(q, Descending))
    BY <1>1, <1>3 DEF Alone, Without
  <1> QED
    BY <1>1, <1>2, <1>4, <1>5, Passes

LEMMA ThenOne ==
  ASSUME NEW x, NEW y
  PROVE  <<>> \o <<x>> = <<x>> /\ <<x>> \o <<y>> = <<x, y>>
  <1>1. <<x>> \in Seq({x}) /\ \A q \in Seq({x}) : <<>> \o q = q
    OBVIOUS
  <1>2. <<x>> \o <<y>> = <<x, y>>
    <2> DEFINE r == <<x>> \o <<y>>
    <2>1. <<x>> \in Seq({x, y}) /\ <<y>> \in Seq({x, y}) /\ <<x, y>> \in Seq({x, y})
      OBVIOUS
    <2>2. r \in Seq({x, y}) /\ Len(r) = 2 /\ r[1] = x /\ r[2] = y
      BY <2>1
    <2> HIDE DEF r
    <2>3. r = <<r[1], r[2]>>
      BY <2>2
    <2> QED
      BY <2>2, <2>3 DEF r
  <1> QED
    BY <1>1, <1>2

(* An element and its closure.                                              *)
HasClosure(apps, s, h) ==
  apps[s].handles[h].cb # None /\ apps[s].handles[h].kind # "button"

LEMMA WithinElement ==
  ASSUME NEW op \in TouchOps, NEW s \in Scripts, NEW h \in Nat, NEW apps, HasElement(apps, s, h),
         op \in {"touch", "children", "nextChild", "afterClosure"}
           \/ (op = "closure" /\ HasClosure(apps, s, h))
  PROVE  Within(DoWith(op, s, h), apps) /\ Event(DoWith(op, s, h), apps)
  <1>1. DoWith(op, s, h).op = op /\ DoWith(op, s, h).app = s /\ DoWith(op, s, h).id = h
    BY TouchFrame
  <1> QED
    BY <1>1 DEF Within, Event, HasElement, HasClosure, During, TouchOps

LEMMA ClosureOf ==
  ASSUME NEW s \in Scripts, NEW h, app[s] \in AppObjects, Sane(app[s]), HasElement(app, s, h),
         HasClosure(app, s, h)
  PROVE  /\ app[s].handles[h].cb \in Ids /\ app[s].handles[h].cb \in Nat
         /\ ~ForClick(app[s], app[s].handles[h].cb)
  <1>1. app[s].handles[h] \in Elements
    BY HandlesOf DEF HasElement
  <1>2. app[s].handles[h].cb \in Ids
    BY <1>1 DEF Elements, HasClosure
  <1>3. Attaches(app[s], app[s].handles[h])
    BY DEF Sane, CallsBack, HasElement
  <1>4. ~ForClick(app[s], app[s].handles[h].cb)
    BY <1>3 DEF Attaches, ForClick, HasClosure
  <1> QED
    BY <1>2, <1>4 DEF Ids

LEMMA TouchContainerStep ==
  ASSUME IInv, TouchContainer
  PROVE  IInv'
  <1> DEFINE s == Head(stack).app
             h == Head(stack).id
             kind == ElementOf(s, h).kind
             f == DoWith("closure", s, h)
             g == DoWith("children", s, h)
  <1>1. stack # <<>> /\ Head(stack).op = "touch" /\ UNCHANGED <<app, s_currentApp>>
    BY DEF TouchContainer, Doing, Idle
  <1>2. Head(stack).op \in OnElement /\ Head(stack).op \in Descending
    BY <1>1 DEF OnElement, Descending
  <1>3. s \in Scripts /\ h \in Nat /\ HasElement(app, s, h)
    BY <1>1, <1>2, Passing
  <1>4. \/ Then(<<g>>)
        \/ Then(<<f, g>>) /\ HasClosure(app, s, h)
    <2>1. Then((IF kind = "container" THEN CallsClosure(s, h) ELSE <<>>) \o <<g>>)
      BY DEF TouchContainer
    <2>2. \/ (IF kind = "container" THEN CallsClosure(s, h) ELSE <<>>) = <<>>
          \/ /\ (IF kind = "container" THEN CallsClosure(s, h) ELSE <<>>) = <<f>>
             /\ HasClosure(app, s, h)
      BY DEF CallsClosure, HasClosure, ElementOf
    <2> HIDE DEF f, g, kind
    <2> QED
      BY <2>1, <2>2, ThenOne
  <1>5. "closure" \in TouchOps /\ "children" \in TouchOps
    BY DEF TouchOps, Holding
  <1>6. f \in Frames /\ Anyone(f) /\ f.op = "closure"
    BY <1>3, <1>5, TouchFrame
  <1>7. g \in Frames /\ Anyone(g) /\ g.op = "children" /\ Within(g, app)
    BY <1>3, <1>5, TouchFrame, WithinElement
  <1>8. CASE Then(<<g>>)
    BY <1>1, <1>2, <1>3, <1>7, <1>8, OnlyPasses
  <1>9. CASE Then(<<f, g>>) /\ HasClosure(app, s, h)
    <2>1. Within(f, app) /\ Event(f, app)
      BY <1>3, <1>5, <1>9, WithinElement
    <2>2. f.op \notin Descending /\ g.op # "call"
      BY <1>6, <1>7 DEF Descending
    <2> HIDE DEF f, g
    <2> QED
      BY <1>1, <1>2, <1>6, <1>7, <1>9, <2>1, <2>2, TwoPass
  <1> QED
    BY <1>4, <1>8, <1>9

LEMMA AtElement ==
  ASSUME IInv, stack # <<>>, Head(stack).op \in OnElement
  PROVE  /\ Head(stack).app \in Scripts /\ Head(stack).id \in Nat
         /\ HasElement(app, Head(stack).app, Head(stack).id)
         /\ app[Head(stack).app] \in AppObjects /\ Sane(app[Head(stack).app])
         /\ \A c \in Children(app[Head(stack).app], Head(stack).id) :
              c \in Nat /\ HasElement(app, Head(stack).app, c)
  <1> DEFINE s == Head(stack).app
  <1>1. s \in Scripts /\ Head(stack).id \in Nat /\ HasElement(app, s, Head(stack).id)
    BY Passing
  <1>2. app[s] \in AppObjects /\ Sane(app[s])
    BY <1>1, Idling
  <1>3. \A c \in Children(app[s], Head(stack).id) : c \in 1 .. Len(app[s].handles)
    BY <1>2, HandlesOf DEF Children
  <1> QED
    BY <1>1, <1>2, <1>3 DEF HasElement

(* A child is told of the touch, by a loop that goes on after it.           *)
LEMMA ChildPasses ==
  ASSUME IInv, stack # <<>>, Head(stack).op \in Descending, NEW c,
         c \in Children(app[Head(stack).app], Head(stack).id),
         Then(<<DoWith("touch", Head(stack).app, c),
                DoWith("nextChild", Head(stack).app, Head(stack).id)>>),
         UNCHANGED <<app, s_currentApp>>
  PROVE  IInv'
  <1> DEFINE s == Head(stack).app
             h == Head(stack).id
             f == DoWith("touch", s, c)
             g == DoWith("nextChild", s, h)
  <1>1. Head(stack).op \in OnElement
    BY DEF OnElement, Descending, Holding
  <1>2. s \in Scripts /\ h \in Nat /\ c \in Nat /\ HasElement(app, s, h) /\ HasElement(app, s, c)
    BY <1>1, AtElement
  <1>3. "touch" \in TouchOps /\ "nextChild" \in TouchOps
    BY DEF TouchOps, Holding
  <1>4. f \in Frames /\ Anyone(f) /\ f.op = "touch" /\ Within(f, app) /\ Event(f, app)
    BY <1>2, <1>3, TouchFrame, WithinElement
  <1>5. g \in Frames /\ Anyone(g) /\ g.op = "nextChild" /\ Within(g, app)
    BY <1>2, <1>3, TouchFrame, WithinElement
  <1>6. Then(<<f, g>>)
    OBVIOUS
  <1> HIDE DEF f, g
  <1>7. g.op \notin Descending /\ g.op # "call"
    BY <1>5 DEF Descending
  <1> QED
    BY <1>1, <1>4, <1>5, <1>6, <1>7, TwoPass

LEMMA TouchChildStep ==
  ASSUME IInv, TouchChild
  PROVE  IInv'
  <1>1. stack # <<>> /\ Head(stack).op \in Descending /\ UNCHANGED <<app, s_currentApp>>
    BY DEF TouchChild, Doing, Idle, Descending
  <1>2. PICK c \in Children(app[Head(stack).app], Head(stack).id) :
          Then(<<DoWith("touch", Head(stack).app, c),
                 DoWith("nextChild", Head(stack).app, Head(stack).id)>>)
    BY DEF TouchChild
  <1> QED
    BY <1>1, <1>2, ChildPasses

LEMMA LeaveChildrenStep ==
  ASSUME IInv, LeaveChildren
  PROVE  IInv'
  <1>1. /\ stack # <<>> /\ Head(stack).op \in OnElement
        /\ Then(<<>>) /\ UNCHANGED <<app, s_currentApp>>
    BY DEF LeaveChildren, Doing, Idle, OnElement, Holding
  <1> QED
    BY <1>1, NothingPasses

LEMMA AfterClosureStep ==
  ASSUME IInv, AfterClosure
  PROVE  IInv'
  <1>1. /\ stack # <<>> /\ Head(stack).op \in OnElement
        /\ Then(<<>>) /\ UNCHANGED <<app, s_currentApp>>
    BY DEF AfterClosure, Doing, Idle, OnElement, Holding
  <1> QED
    BY <1>1, NothingPasses

LEMMA TouchPlainStep ==
  ASSUME IInv, TouchPlain
  PROVE  IInv'
  <1>1. /\ stack # <<>> /\ Head(stack).op \in OnElement
        /\ Then(<<>>) /\ UNCHANGED <<app, s_currentApp>>
    BY DEF TouchPlain, Doing, Idle, OnElement
  <1> QED
    BY <1>1, NothingPasses

(* An element that is no button calls its closure, if it has one.           *)
LEMMA ClosurePasses ==
  ASSUME IInv, stack # <<>>, Head(stack).op = "touch",
         ElementOf(Head(stack).app, Head(stack).id).kind # "button",
         Then(CallsClosure(Head(stack).app, Head(stack).id)), UNCHANGED <<app, s_currentApp>>
  PROVE  IInv'
  <1> DEFINE s == Head(stack).app
             h == Head(stack).id
  <1>1. Head(stack).op \in OnElement
    BY DEF OnElement
  <1>2. s \in Scripts /\ h \in Nat /\ HasElement(app, s, h)
    BY <1>1, AtElement
  <1>3. Then(<<>>) \/ (Then(<<DoWith("closure", s, h)>>) /\ HasClosure(app, s, h))
    BY DEF CallsClosure, HasClosure, ElementOf
  <1>4. CASE Then(<<>>)
    BY <1>1, <1>4, NothingPasses
  <1>5. CASE Then(<<DoWith("closure", s, h)>>) /\ HasClosure(app, s, h)
    <2>1. "closure" \in TouchOps
      BY DEF TouchOps, Holding
    <2>2. Within(DoWith("closure", s, h), app) /\ "closure" \notin Descending
      BY <1>2, <1>5, <2>1, WithinElement DEF Descending
    <2> QED
      BY <1>1, <1>2, <1>5, <2>2, OnlyPasses
  <1> QED
    BY <1>3, <1>4, <1>5

LEMMA TouchTabsStep ==
  ASSUME IInv, TouchTabs
  PROVE  IInv'
  <1>1. /\ stack # <<>> /\ Head(stack).op = "touch" /\ UNCHANGED <<app, s_currentApp>>
        /\ ElementOf(Head(stack).app, Head(stack).id).kind # "button"
    BY DEF TouchTabs, Doing, Idle
  <1>2. CASE Then(CallsClosure(Head(stack).app, Head(stack).id))
    BY <1>1, <1>2, ClosurePasses
  <1>3. CASE \E c \in Children(app[Head(stack).app], Head(stack).id) :
               Then(<<DoWith("touch", Head(stack).app, c),
                      DoWith("nextChild", Head(stack).app, Head(stack).id)>>)
    <2>1. Head(stack).op \in Descending
      BY <1>1 DEF Descending
    <2> QED
      BY <1>1, <1>3, <2>1, ChildPasses
  <1> QED
    BY <1>2, <1>3 DEF TouchTabs

LEMMA TouchDirectStep ==
  ASSUME IInv, TouchDirect
  PROVE  IInv'
  <1>1. /\ stack # <<>> /\ Head(stack).op = "touch" /\ UNCHANGED <<app, s_currentApp>>
        /\ ElementOf(Head(stack).app, Head(stack).id).kind # "button"
        /\ Then(CallsClosure(Head(stack).app, Head(stack).id))
    BY DEF TouchDirect, Doing, Idle
  <1> QED
    BY <1>1, ClosurePasses

LEMMA CallClosureStep ==
  ASSUME IInv, CallClosure
  PROVE  IInv'
  <1> DEFINE s == Head(stack).app
             h == Head(stack).id
             cb == ElementOf(s, h).cb
             f == DoWith("call", s, cb)
             g == DoWith("afterClosure", s, h)
  <1>1. /\ stack # <<>> /\ Head(stack).op = "closure" /\ UNCHANGED <<app, s_currentApp>>
        /\ Then(<<f, g>>)
    BY DEF CallClosure, Doing, Idle
  <1>2. Head(stack).op \in OnElement
    BY <1>1 DEF OnElement, Holding
  <1>3. /\ s \in Scripts /\ h \in Nat /\ HasElement(app, s, h)
        /\ app[s] \in AppObjects /\ Sane(app[s])
    BY <1>1, <1>2, AtElement
  <1>4. HasClosure(app, s, h)
    <2>1. Within(Head(stack), app)
      BY <1>1, <1>2, Passing
    <2> QED
      BY <1>1, <2>1 DEF Within, HasClosure
  <1>5. cb \in Ids /\ cb \in Nat /\ ~ForClick(app[s], cb)
    BY <1>3, <1>4, ClosureOf DEF ElementOf
  <1>6. "call" \in TouchOps /\ "afterClosure" \in TouchOps
    BY DEF TouchOps, Holding
  <1> HIDE DEF cb
  <1>7. f \in Frames /\ Anyone(f) /\ f.op = "call" /\ f.app = s /\ f.id = cb
    BY <1>3, <1>5, <1>6, TouchFrame
  <1>8. g \in Frames /\ Anyone(g) /\ g.op = "afterClosure" /\ Within(g, app)
    BY <1>3, <1>6, TouchFrame, WithinElement
  <1> HIDE DEF f, g
  <1>9. Within(f, app) /\ Event(f, app)
    BY <1>5, <1>7 DEF Within, Event, During, TouchOps, OnElement, Holding
  <1>10. f.op \notin Descending /\ g.op \notin Descending /\ g.op # "call"
    BY <1>7, <1>8 DEF Descending
  <1> QED
    BY <1>1, <1>2, <1>7, <1>8, <1>9, <1>10, TwoPass

(* Leaves that queue their callback                                         *)
LEMMA TouchChoiceStep ==
  ASSUME IInv, TouchChoice
  PROVE  IInv'
  <1> DEFINE s == Head(stack).app
             h == Head(stack).id
             q == CallsClosure(s, h)
             f == DoWith("closure", s, h)
  <1>1. /\ stack # <<>> /\ Head(stack).op = "touch" /\ UNCHANGED <<app, s_currentApp>>
        /\ ElementOf(s, h).kind = "choice" /\ Queued(q)
    BY DEF TouchChoice, Doing, Idle
  <1>2. s \in Scripts /\ h \in Nat /\ HasElement(app, s, h)
    BY <1>1, AtElement DEF OnElement
  <1>3. q = <<>> \/ (q = <<f>> /\ HasClosure(app, s, h))
    BY <1>1 DEF CallsClosure, HasClosure, ElementOf
  <1> HIDE DEF q
  <1>4. CASE q = <<>>
    <2>1. q \in Stacks /\ Len(q) = 0 /\ Without(q, Descending) /\ \A k \in 1 .. Len(q) : FALSE
      BY <1>4, Empty
    <2> QED
      BY <1>1, <2>1, Queues
  <1>5. CASE q = <<f>> /\ HasClosure(app, s, h)
    <2>1. "closure" \in TouchOps
      BY DEF TouchOps, Holding
    <2>2. Within(f, app)
      BY <1>2, <1>5, <2>1, WithinElement
    <2>3. <<f>> \in Stacks /\ Len(<<f>>) = 1 /\ <<f>>[1] = f /\ f.op = "closure"
      BY <1>2, OneFrame
    <2> HIDE DEF f
    <2>4. q \in Stacks /\ Len(q) = 1 /\ q[1] = f /\ Len(q) <= 1
      BY <1>5, <2>3
    <2>5. Without(q, Descending) /\ \A k \in 1 .. Len(q) : Within(q[k], app)
      BY <2>2, <2>3, <2>4 DEF Without, Descending
    <2> QED
      BY <1>1, <2>4, <2>5, Queues
  <1> QED
    BY <1>3, <1>4, <1>5

LEMMA TouchButtonStep ==
  ASSUME IInv, TouchButton
  PROVE  IInv'
  <1> DEFINE s == Head(stack).app
             h == Head(stack).id
             cb == ElementOf(s, h).cb
             f == DoWith("call", s, cb)
             q == <<f>>
  <1>1. /\ stack # <<>> /\ Head(stack).op = "touch" /\ UNCHANGED <<app, s_currentApp>>
        /\ (cb = None /\ Then(<<>>)) \/ (cb # None /\ Queued(q))
    BY DEF TouchButton, Doing, Idle, ClickOf
  <1>2. Head(stack).op \in OnElement
    BY <1>1 DEF OnElement
  <1>3. s \in Scripts /\ h \in Nat /\ HasElement(app, s, h) /\ app[s] \in AppObjects
    BY <1>1, <1>2, AtElement
  <1>4. CASE Then(<<>>)
    BY <1>1, <1>2, <1>4, NothingPasses
  <1>5. CASE cb # None /\ Queued(q)
    <2>1. app[s].handles[h] \in Elements
      BY <1>3, HandlesOf DEF HasElement
    <2>2. cb \in Ids
      BY <1>5, <2>1 DEF ElementOf, Elements
    <2> HIDE DEF cb
    <2>3. cb \in Nat
      BY <2>2 DEF Ids
    <2>4. /\ q \in Stacks /\ Len(q) = 1 /\ q[1] = f /\ f.op = "call" /\ f.id = cb
          /\ Len(q) <= 1
      BY <1>3, <2>3, OneFrame
    <2> HIDE DEF f, q
    <2>5. Within(f, app)
      BY <2>2, <2>4 DEF Within, During, TouchOps, OnElement, Holding
    <2>6. Without(q, Descending) /\ \A k \in 1 .. Len(q) : Within(q[k], app)
      BY <2>4, <2>5 DEF Without, Descending
    <2> QED
      BY <1>1, <1>5, <2>4, <2>6, Queues
  <1> QED
    BY <1>1, <1>4, <1>5

-----------------------------------------------------------------------------
LEMMA InitIInv == Init => IInv
  <1> SUFFICES ASSUME Init PROVE IInv
    OBVIOUS
  <1> DEFINE e == <<>>
  <1>1. app = [s \in Scripts |-> Closed] /\ s_currentApp = None /\ stack = e
    BY DEF Init
  <1>2. e \in Stacks /\ Flow(e, app) /\ Starting(e, app, None) /\ \A S : Without(e, S)
    BY Empty
  <1> HIDE DEF e
  <1>3. Types(e, app, None)
    BY <1>1, <1>2, ClosedIsSane DEF Types
  <1>4. Covered(e, app, None)
    BY DEF Covered
  <1>5. Touches(e, app) /\ Descends(e) /\ Ticks(e, app)
    BY <1>2, Untouched, NotServing
  <1>6. NoneLost(e, app)
    <2>1. Closed.timers = <<>>
      BY DEF Closed
    <2>2. \A s \in Scripts : Len(app[s].timers) = 0
      BY <1>1, <2>1
    <2> QED
      BY <2>2 DEF NoneLost
  <1> QED
    BY <1>1, <1>2, <1>3, <1>4, <1>5, <1>6 DEF IInv, Good, Calls

LEMMA NextIInv == IInv /\ [Next]_vars => IInv'
  <1> SUFFICES ASSUME IInv, [Next]_vars PROVE IInv'
    OBVIOUS
  <1>1. CASE Setup \/ BodyFails \/ BodyReturns \/ Instantiate
    BY <1>1, SetupStep, BodyFailsStep, BodyReturnsStep, InstantiateStep
  <1>2. CASE Teardown \/ CleanUp \/ ResetCurrent \/ ReplaceWindow \/ Delete
    BY <1>2, TeardownStep, CleanUpStep, ResetCurrentStep, ReplaceWindowStep, DeleteStep
  <1>3. CASE CallCallback
    <2>1. Doing("call") \/ Doing("callTimer")
      BY <1>3 DEF CallCallback
    <2> QED
      BY <1>3, <2>1, CallStep, CallTimerStep
  <1>4. CASE RestoreCurrent \/ Return \/ Timer \/ CallsAction
    BY <1>4, RestoreCurrentStep, ReturnStep, TimerStep, CallsActionStep
  <1>5. CASE Creates \/ Clears \/ RemovesChild \/ SetsCallback
    BY <1>5, CreatesStep, ClearsStep, RemovesChildStep, SetsCallbackStep
  <1>6. CASE TouchContainer \/ TouchChild \/ LeaveChildren \/ TouchTabs \/ TouchDirect
    BY <1>6, TouchContainerStep, TouchChildStep, LeaveChildrenStep, TouchTabsStep, TouchDirectStep
  <1>7. CASE TouchButton \/ TouchChoice \/ TouchPlain \/ CallClosure \/ AfterClosure
    BY <1>7, TouchButtonStep, TouchChoiceStep, TouchPlainStep, CallClosureStep, AfterClosureStep
  <1>8. CASE Eval \/ ClearFlag
    BY <1>8, EvalStep, ClearFlagStep
  <1>9. ASSUME NEW s \in Scripts, Open(s) \/ Close(s) \/ Rebuild(s) \/ Touch(s)
        PROVE  IInv'
    BY <1>9, OpenStep, CloseStep, RebuildStep, TouchStep
  <1>10. ASSUME NEW s \in Scripts, NEW k \in DOMAIN app[s].timers, TickTimer(s, k) \/ Fire(s, k)
         PROVE  IInv'
    BY <1>10, TickTimerStep, FireStep
  <1>11. CASE UNCHANGED vars
    BY <1>11 DEF vars, IInv
  <1> QED
    BY <1>1, <1>2, <1>3, <1>4, <1>5, <1>6, <1>7, <1>8, <1>9, <1>10, <1>11 DEF Next

THEOREM Invariance == Spec => []IInv
  BY InitIInv, NextIInv, PTL DEF Spec

(* A ui.* function acts on the table of the script and of the instance      *)
(* whose code called it, or on none, for any scripts that close, rebuild    *)
(* and call back each other (s_currentApp).                                 *)
THEOREM TablesApart == Spec => []OwnTableOnly
  <1>1. IInv => OwnTableOnly
    <2> SUFFICES ASSUME IInv, Running, s_currentApp # None
                 PROVE  /\ s_currentApp = Head(stack).app
                        /\ app[s_currentApp].open
                        /\ app[s_currentApp].gen = Head(stack).gen
      BY DEF OwnTableOnly
    <2>1. /\ stack \in Stacks /\ stack # <<>> /\ Covered(stack, app, s_currentApp)
          /\ Head(stack).op \in UserCode
      BY DEF Running, Idle, IInv, Good, Types
    <2>2. Owns(Head(stack), app, s_currentApp)
      BY <2>1, CurrentOwns
    <2> QED
      BY <2>2 DEF Owns
  <1> QED
    BY <1>1, Invariance, PTL

(* However many timers there are and whenever they fire, each firing is     *)
(* served by a call of the callback that starts after it (App::tickTimers   *)
(* clears the flag before it calls).                                        *)
THEOREM TimersServed == Spec => []NoLostFiring
  <1>1. IInv => NoLostFiring
    <2> SUFFICES ASSUME IInv, NEW s \in Scripts, NEW k \in DOMAIN app[s].timers,
                        app[s].timers[k].owed
                 PROVE  app[s].timers[k].fired \/ DoWith("callTimer", s, k) \in ToSet(stack)
      BY DEF NoLostFiring
    <2>1. stack \in Seq(Frames) /\ app[s] \in AppObjects /\ NoneLost(stack, app)
      BY DEF IInv, Good, Types, Stacks, Calls
    <2>2. k \in 1 .. Len(app[s].timers) /\ DOMAIN stack = 1 .. Len(stack)
      BY <2>1 DEF AppObjects
    <2>3. Fires(app, s, k) \/ CallsTimer(stack, s, k)
      BY <2>1, <2>2 DEF NoneLost, Owes
    <2> QED
      BY <2>2, <2>3 DEF Fires, CallsTimer, ToSet
  <1> QED
    BY <1>1, Invariance, PTL

(* Every handle that a script may pass to a ui.* function is that of an     *)
(* element that exists, for any widgets, any number of handles and any      *)
(* nesting of callbacks, teardowns and rebuilds (HandleEntry, getHandle).   *)
THEOREM HandlesLive == Spec => []HandlesAreLive
  <1>1. IInv => HandlesAreLive
    <2> SUFFICES ASSUME IInv, Running, s_currentApp # None, NEW h \in Usable(app[s_currentApp])
                 PROVE  app[s_currentApp].handles[h].live
      BY DEF HandlesAreLive
    <2> DEFINE a == app[s_currentApp]
    <2>1. /\ Good(stack, app, s_currentApp) /\ stack \in Stacks /\ stack # <<>>
          /\ Head(stack).op \in UserCode
      BY DEF Running, Idle, IInv, Good, Types
    <2>2. a \in AppObjects /\ Sane(a) /\ HasInstance(a)
      BY <2>1, Changing
    <2> HIDE DEF a
    <2>3. h \in 1 .. Len(a.handles) /\ a.handles[h] \in Elements
      BY <2>2, HandlesOf DEF Usable, a
    <2>4. a.handles[h].handle = "valid"
      BY <2>3 DEF Usable, getHandle, Elements, a
    <2> QED
      BY <2>2, <2>3, <2>4 DEF Sane, Reachable, HasInstance, Exists, a
  <1> QED
    BY <1>1, Invariance, PTL

(* While a touch is passed down no step changes an element.                 *)
LEMMA TouchedStay ==
  ASSUME IInv, [Next]_vars, Touching(stack)
  PROVE  SameElements(app, app')
  <1>1. stack \in Stacks /\ Touches(stack, app)
    BY DEF IInv, Good, Types, Calls
  <1>2. stack # <<>>
    BY Empty DEF Touching
  <1>3. Head(stack).op \in During
    BY <1>1, <1>2, Top DEF Touches, Within
  <1>4. During \intersect (LifeOps \union TimerOps \union {"setupMethod", "timerCallback",
                           "clickCallback"}) = {}
    BY DEF During, TouchOps, Holding, LifeOps, TimerOps
  <1>5. app' = app => SameElements(app, app')
    BY DEF SameElements
  <1>6. ASSUME NEW op \in LifeOps \union TimerOps PROVE ~Doing(op)
    BY <1>3, <1>4 DEF Doing
  <1>7. ~Builds
    BY <1>3, <1>4 DEF Builds
  <1>8. CASE Setup \/ BodyFails \/ BodyReturns \/ Instantiate \/ Teardown \/ CleanUp
             \/ ResetCurrent \/ ReplaceWindow \/ Delete \/ ClearFlag
    BY <1>6, <1>8 DEF Setup, BodyFails, BodyReturns, Instantiate, Teardown, CleanUp, ResetCurrent,
       ReplaceWindow, Delete, ClearFlag, LifeOps, TimerOps
  <1>9. CASE CallCallback
    <2>1. ~Doing("callTimer")
      BY <1>6 DEF TimerOps
    <2>2. app' = app
      BY <1>9, <2>1 DEF CallCallback, Doing
    <2> QED
      BY <1>5, <2>2
  <1>10. CASE Timer
    BY <1>10, TimerStep
  <1>11. CASE Creates \/ Clears \/ RemovesChild \/ SetsCallback
    BY <1>7, <1>11 DEF Creates, Clears, RemovesChild, SetsCallback
  <1>12. CASE RestoreCurrent \/ Return \/ CallsAction \/ Eval
    BY <1>5, <1>12 DEF RestoreCurrent, Return, CallsAction, Eval
  <1>13. CASE TouchContainer \/ TouchChild \/ LeaveChildren \/ TouchTabs \/ TouchDirect
              \/ TouchButton \/ TouchChoice \/ TouchPlain \/ CallClosure \/ AfterClosure
    BY <1>5, <1>13 DEF TouchContainer, TouchChild, LeaveChildren, TouchTabs, TouchDirect,
       TouchButton, TouchChoice, TouchPlain, CallClosure, AfterClosure
  <1>14. ASSUME NEW s \in Scripts, Open(s) \/ Close(s) \/ Rebuild(s) \/ Touch(s)
         PROVE  FALSE
    BY <1>2, <1>14 DEF Open, Close, Rebuild, Touch, Idle
  <1>15. ASSUME NEW s \in Scripts, NEW k \in DOMAIN app[s].timers, TickTimer(s, k) \/ Fire(s, k)
         PROVE  SameElements(app, app')
    BY <1>5, <1>15, FireStep DEF TickTimer
  <1>16. CASE UNCHANGED vars
    BY <1>5, <1>16 DEF vars
  <1> QED
    BY <1>8, <1>9, <1>10, <1>11, <1>12, <1>13, <1>14, <1>15, <1>16 DEF Next

(* For any widgets and scripts, no step deletes or changes an element, or   *)
(* its children, while native code is inside of it (Container::handleTouch  *)
(* and the closures of widgets).                                            *)
THEOREM HeldStay == Spec => HeldElementsStay
  <1>1. IInv /\ [Next]_vars =>
          [\A f \in ToSet(stack) \intersect ToSet(stack') : f.op \in Holding => Held(f)' = Held(f)]_vars
    <2> SUFFICES ASSUME IInv, [Next]_vars,
                        NEW f \in ToSet(stack) \intersect ToSet(stack'), f.op \in Holding
                 PROVE  Held(f)' = Held(f)
      OBVIOUS
    <2>1. stack \in Stacks
      BY DEF IInv, Good, Types
    <2>2. PICK k \in 1 .. Len(stack) : f = stack[k]
      BY <2>1 DEF Stacks, ToSet
    <2>3. Touching(stack)
      BY <2>2 DEF Touching, TouchOps
    <2>4. f.app \in Scripts
      BY <2>1, <2>2 DEF Stacks, Anyone, Holding
    <2>5. app'[f.app].gen = app[f.app].gen /\ app'[f.app].handles = app[f.app].handles
      BY <2>3, <2>4, TouchedStay DEF SameElements
    <2>6. Children(app'[f.app], f.id) = Children(app[f.app], f.id)
      BY <2>5 DEF Children
    <2>7. ElementOf(f.app, f.id)' = ElementOf(f.app, f.id)
      BY <2>5 DEF ElementOf
    <2> QED
      BY <2>5, <2>6, <2>7 DEF Held
  <1> QED
    BY <1>1, Invariance, PTL DEF Spec, HeldElementsStay
=============================================================================
