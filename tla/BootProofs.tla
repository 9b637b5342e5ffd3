------------------------------ MODULE BootProofs ------------------------------
(***************************************************************************)
(* Proofs about Boot for any features, actions and order of features.       *)
(***************************************************************************)
EXTENDS Boot, TLAPS

(* An action that needs its feature initialised is registered after that.   *)
RegisteredInv ==
  \A f \in Features : Late[f] \intersect actions # {} => f \in ready

(* Whatever is called, wired or posted has been registered.                 *)
CalledInv ==
  /\ endpoints \subseteq actions
  /\ \A t \in Tasks : running[t] \in actions \union {None}
  /\ \A t \in Tasks : posted[t] \in actions \union {None}

(* Between the steps of a setup.                                            *)
SetupInv ==
  /\ boot = "register actions" => Feature \in ready \union Tolerant
  /\ \A f \in {UI, Berry} : state[f] = "RUNNING" => f \in ready

(* The tasks that the boot starts, and that main_loop comes last.           *)
TasksInv ==
  /\ uiTask # "none" => UI \in ready
  /\ main_loop = "autoexec" => Berry \in ready
  /\ main_loop # "none" <=> boot = "done"
  /\ boot = "done" => uiTask # "created"
  /\ main_loop = "none" => running["main_loop"] = None

IInv ==
  /\ TypeOK
  /\ RegisteredInv
  /\ CalledInv
  /\ SetupInv
  /\ TasksInv
  /\ MainLoopConfined

-----------------------------------------------------------------------------
(* What the proofs need of the constants.                                   *)
LEMMA OrderFacts ==
  /\ 1 \in DOMAIN Order
  /\ \A i \in DOMAIN Order : i < Len(Order) => i + 1 \in DOMAIN Order
  /\ \A i \in DOMAIN Order : Order[i] \in Features
  <1>1. Order \in Seq(Features) /\ Order # <<>>
    BY BootAssumption
  <1>2. DOMAIN Order = 1 .. Len(Order) /\ Len(Order) \in Nat /\ Len(Order) # 0
    BY <1>1
  <1>3. \A i \in DOMAIN Order : Order[i] \in Features
    BY <1>1
  <1> QED
    BY <1>2, <1>3

LEMMA ActionFacts ==
  /\ {UI, Berry} \subseteq Features
  /\ OnUITask \subseteq Actions
  /\ None \notin Actions
  /\ \A f \in Tolerant : Late[f] = {} /\ f \notin {UI, Berry}
  /\ \A f \in Features :
       /\ Early[f] \subseteq Actions
       /\ Late[f] \subseteq Actions
       /\ \A g \in Features : Early[f] \intersect Late[g] = {}
       /\ \A g \in Features \ {f} : Late[f] \intersect Late[g] = {}
  BY BootAssumption DEF Actions, ActionsOf

LEMMA TaskFacts ==
  "httpd" \in Tasks /\ "main_loop" \in Tasks /\ "UI task" \in Tasks
  BY DEF Tasks

LEMMA NextFeatureTyped ==
  ASSUME cur \in DOMAIN Order, NEW again, NEW after, NextFeature(again, after)
  PROVE  boot' \in {again, after} /\ cur' \in DOMAIN Order
  <1>1. CASE cur < Len(Order)
    BY <1>1, OrderFacts DEF NextFeature
  <1>2. CASE ~(cur < Len(Order))
    BY <1>2, OrderFacts DEF NextFeature
  <1> QED
    BY <1>1, <1>2

(* A call changes what its own task runs or has posted.                     *)
Called(t, a) ==
  /\ running' \in [Tasks -> Actions \union {None}]
  /\ posted' \in [Tasks -> Actions \union {None}]
  /\ \A u \in Tasks : running'[u] \in {running[u], a} /\ posted'[u] \in {posted[u], a}
  /\ \A u \in Tasks \ {t} : running'[u] = running[u]
  /\ a \in OnUITask /\ uiTask = "running" => running' = running

LEMMA ExecuteCalls ==
  ASSUME running \in [Tasks -> Actions \union {None}],
         posted \in [Tasks -> Actions \union {None}],
         NEW t \in Tasks, NEW a \in Actions, Execute(t, a)
  PROVE  Called(t, a)
  <1>1. CASE a \in OnUITask /\ uiTask = "running"
    BY <1>1 DEF Execute, Called
  <1>2. CASE ~(a \in OnUITask /\ uiTask = "running")
    BY <1>2 DEF Execute, Called
  <1> QED
    BY <1>1, <1>2

USE OrderFacts, ActionFacts, TaskFacts

LEMMA InitIInv == Init => IInv
  <1> SUFFICES ASSUME Init PROVE IInv
    OBVIOUS
  <1> USE DEF Init
  <1>1. TypeOK
    <2>1. cur \in DOMAIN Order
      OBVIOUS
    <2>2. /\ state \in [Features -> FeatureStates]
          /\ mirror \in [Features -> FeatureStates \union {"absent"}]
      BY DEF FeatureStates
    <2>3. running \in [Tasks -> Actions \union {None}] /\ posted \in [Tasks -> Actions \union {None}]
      OBVIOUS
    <2> QED
      BY <2>1, <2>2, <2>3 DEF TypeOK, BootSteps
  <1>2. RegisteredInv /\ CalledInv /\ SetupInv /\ TasksInv
    BY DEF RegisteredInv, CalledInv, SetupInv, TasksInv
  <1>3. MainLoopConfined
    BY DEF MainLoopConfined
  <1> QED
    BY <1>1, <1>2, <1>3 DEF IInv

LEMMA NextIInv == IInv /\ [Next]_vars => IInv'
  <1> SUFFICES ASSUME IInv, [Next]_vars PROVE IInv'
    OBVIOUS
  <1> USE DEF IInv, TypeOK, RegisteredInv, CalledInv, SetupInv, TasksInv, MainLoopConfined,
        BootSteps, FeatureStates, At, Preempted, Feature, bootVars
  <1>1. CASE InitWifi
    BY <1>1 DEF InitWifi
  <1>2. CASE WaitForIP
    BY <1>2 DEF WaitForIP
  <1>3. CASE InitWebServer
    BY <1>3 DEF InitWebServer
  <1>4. CASE InitWebSockets
    BY <1>4 DEF InitWebSockets
  <1>5. CASE RegisterFeatures
    BY <1>5 DEF RegisterFeatures
  <1>6. CASE Setup
    <2>1. CASE Feature \in Deferred
      <3>1. boot' \in {"set up", "wire"} /\ cur' \in DOMAIN Order
        BY <1>6, <2>1, NextFeatureTyped DEF Setup
      <3> QED
        BY <1>6, <2>1, <3>1 DEF Setup
    <2>2. CASE Feature \notin Deferred
      BY <1>6, <2>2, ZenonT(30) DEF Setup
    <2> QED
      BY <2>1, <2>2
  <1>7. CASE Initialise
    BY <1>7, ZenonT(30) DEF Initialise
  <1>8. CASE RegisterActions
    BY <1>8 DEF RegisterActions
  <1>9. CASE SetupDone
    <2>1. boot' \in {"set up", "wire"} /\ cur' \in DOMAIN Order
      BY <1>9, NextFeatureTyped DEF SetupDone
    <2>2. mirror' \in [Features -> FeatureStates \union {"absent"}]
      <3>1. state[Feature] \in FeatureStates
        OBVIOUS
      <3> HIDE DEF FeatureStates
      <3> QED
        BY <1>9, <3>1 DEF SetupDone, updateFeatureJson
    <2> QED
      BY <1>9, <2>1, <2>2 DEF SetupDone
  <1>10. CASE wireRestEndpoints
    BY <1>10 DEF wireRestEndpoints
  <1>11. CASE StartTask
    <2>1. boot' \in {"start tasks", "create main_loop"} /\ cur' \in DOMAIN Order
      BY <1>11, NextFeatureTyped DEF StartTask
    <2> QED
      BY <1>11, <2>1 DEF StartTask
  <1>12. CASE CreateMainLoop
    BY <1>12 DEF CreateMainLoop
  <1>13. CASE WifiEvent
    BY <1>13 DEF WifiEvent
  <1>14. CASE FirstLoop
    BY <1>14 DEF FirstLoop
  <1>15. CASE Autoexec
    <2>1. PICK a \in Late[Berry] \intersect actions : Execute("main_loop", a)
      BY <1>15 DEF Autoexec
    <2>2. Called("main_loop", a)
      BY <2>1, ExecuteCalls
    <2> QED
      BY <1>15, <2>1, <2>2, ZenonT(30) DEF Autoexec, Called
  <1>16. ASSUME NEW a \in Actions, ClientCalls(a) PROVE IInv'
    <2>1. a \in actions
      BY <1>16 DEF ClientCalls, Accepts
    <2>2. Called("httpd", a)
      BY <1>16, ExecuteCalls DEF ClientCalls
    <2>3. "httpd" # "main_loop"
      OBVIOUS
    <2> QED
      BY <1>16, <2>1, <2>2, <2>3, ZenonT(30) DEF ClientCalls, Called
  <1>17. ASSUME NEW a \in Actions, SerialCommand(a) PROVE IInv'
    <2>1. Called("main_loop", a)
      BY <1>17, ExecuteCalls DEF SerialCommand
    <2> QED
      BY <1>17, <2>1 DEF SerialCommand, Called
  <1>18. ASSUME NEW t \in Tasks, Return(t) PROVE IInv'
    <2>1. TypeOK'
      BY <1>18 DEF Return
    <2>2. RegisteredInv'
      BY <1>18 DEF Return
    <2>3. CalledInv'
      BY <1>18 DEF Return
    <2>4. SetupInv'
      BY <1>18 DEF Return
    <2>5. TasksInv'
      BY <1>18 DEF Return
    <2>6. MainLoopConfined'
      BY <1>18 DEF Return
    <2> QED
      BY <2>1, <2>2, <2>3, <2>4, <2>5, <2>6
  <1>19. ASSUME NEW t \in Tasks, Serve(t) PROVE IInv'
    <2>1. TypeOK'
      BY <1>19 DEF Serve
    <2>2. RegisteredInv'
      BY <1>19 DEF Serve
    <2>3. CalledInv'
      BY <1>19 DEF Serve
    <2>4. SetupInv'
      BY <1>19 DEF Serve
    <2>5. TasksInv'
      BY <1>19 DEF Serve
    <2>6. MainLoopConfined'
      BY <1>19 DEF Serve
    <2> QED
      BY <2>1, <2>2, <2>3, <2>4, <2>5, <2>6
  <1>20. CASE UNCHANGED vars
    BY <1>20, ZenonT(30) DEF vars
  <1> QED
    BY <1>1, <1>2, <1>3, <1>4, <1>5, <1>6, <1>7, <1>8, <1>9, <1>10, <1>11, <1>12, <1>13, <1>14, <1>15, <1>16, <1>17, <1>18, <1>19, <1>20 DEF Next, AppMain

(* The inductive invariant holds of every boot.                             *)
THEOREM Invariance == Spec => []IInv
  <1> QED
    BY InitIInv, NextIInv, PTL DEF Spec

(* The type invariant, for any features and actions.                        *)
THEOREM TypeCorrect == Spec => []TypeOK
  <1>1. IInv => TypeOK
    BY DEF IInv
  <1> QED
    BY <1>1, Invariance, PTL

(* No code runs before what it works on exists, for any features and any    *)
(* order of them (Setup registers most actions after it has initialised).   *)
THEOREM FindsResources == Spec => []CodeFindsResources
  <1>1. IInv => CodeFindsResources
    BY ZenonT(30) DEF IInv, TypeOK, RegisteredInv, CalledInv, TasksInv, CodeFindsResources
  <1> QED
    BY <1>1, Invariance, PTL

(* main_loop never works on the windows beside the UI task, given that the  *)
(* UI task preempts app_main (its priority and core in UiFeature.cpp:420).  *)
THEOREM Confined == Spec => []MainLoopConfined
  <1>1. IInv => MainLoopConfined
    BY DEF IInv
  <1> QED
    BY <1>1, Invariance, PTL

-----------------------------------------------------------------------------
(* What the registry shows of the features that boot is not working on is   *)
(* what they are, and a feature that runs has all of its actions.           *)
Within == {"initialise", "register actions", "update JSON"}
Between == {"set up", "wire", "start tasks", "create main_loop", "done"}

MirrorInv ==
  /\ \A f \in Features : "RUNNING" \in {state[f], mirror[f]} => ActionsOf(f) \subseteq actions
  /\ boot \in Within => /\ Early[Feature] \subseteq actions
                        /\ \A f \in Features \ {Feature} : mirror[f] = state[f]
  /\ boot \in Between => mirror = state

LEMMA InitMirrorInv == Init => MirrorInv
  BY DEF Init, MirrorInv, Within, Between

(* A step that leaves boot and the registries alone leaves MirrorInv.       *)
LEMMA OthersKeepMirror ==
  ASSUME MirrorInv, UNCHANGED bootVars
  PROVE  MirrorInv'
  BY DEF MirrorInv, bootVars, Feature

LEMMA NextMirrorInv == IInv /\ MirrorInv /\ [Next]_vars => MirrorInv'
  <1> SUFFICES ASSUME IInv, MirrorInv, [Next]_vars PROVE MirrorInv'
    OBVIOUS
  <1>0. /\ cur \in DOMAIN Order /\ Feature \in Features
        /\ state \in [Features -> FeatureStates]
        /\ mirror \in [Features -> FeatureStates \union {"absent"}]
    BY DEF IInv, TypeOK, Feature
  <1> USE DEF MirrorInv, Within, Between, At
  <1>1. CASE InitWifi \/ WaitForIP \/ InitWebServer \/ InitWebSockets
    BY <1>1 DEF InitWifi, WaitForIP, InitWebServer, InitWebSockets
  <1>2. CASE RegisterFeatures
    BY <1>0, <1>2 DEF RegisterFeatures
  <1>3. CASE Setup
    <2>1. CASE Feature \in Deferred
      <3>1. /\ boot = "set up" /\ boot' \in {"set up", "wire"}
            /\ UNCHANGED <<state, mirror, actions>>
        BY <1>0, <1>3, <2>1, NextFeatureTyped DEF Setup
      <3> QED
        BY <3>1
    <2>2. CASE Feature \notin Deferred
      <3>1. /\ boot = "set up" /\ boot' = "initialise" /\ Feature' = Feature /\ mirror' = mirror
            /\ actions' = actions \union Early[Feature]
            /\ state' = [state EXCEPT ![Feature] = "SETUP"]
        BY <1>3, <2>2 DEF Setup, Feature
      <3> QED
        BY <1>0, <3>1
    <2> QED
      BY <2>1, <2>2
  <1>4. CASE Initialise
    <2>1. /\ boot = "initialise" /\ boot' \in Within /\ Feature' = Feature
          /\ mirror' = mirror /\ actions' = actions
          /\ state' \in {state, [state EXCEPT ![Feature] = "ERROR"]}
      BY <1>4 DEF Initialise, Feature
    <2> QED
      BY <1>0, <2>1
  <1>5. CASE RegisterActions
    <2>1. /\ boot = "register actions" /\ boot' = "update JSON" /\ Feature' = Feature
          /\ mirror' = mirror /\ actions' = actions \union Late[Feature]
          /\ state' = [state EXCEPT ![Feature] = "RUNNING"]
      BY <1>5 DEF RegisterActions, Feature
    <2> QED
      BY <1>0, <2>1 DEF ActionsOf
  <1>6. CASE SetupDone
    <2>1. /\ boot = "update JSON" /\ boot' \in {"set up", "wire"}
          /\ state' = state /\ actions' = actions
          /\ mirror' = [mirror EXCEPT ![Feature] = state[Feature]]
      BY <1>0, <1>6, NextFeatureTyped DEF SetupDone, updateFeatureJson
    <2>2. mirror' = state
      BY <1>0, <2>1
    <2> QED
      BY <2>1, <2>2
  <1>7. CASE wireRestEndpoints
    BY <1>7 DEF wireRestEndpoints
  <1>8. CASE StartTask
    <2>1. /\ boot = "start tasks" /\ boot' \in {"start tasks", "create main_loop"}
          /\ UNCHANGED <<state, mirror, actions>>
      BY <1>0, <1>8, NextFeatureTyped DEF StartTask
    <2> QED
      BY <2>1
  <1>9. CASE CreateMainLoop
    BY <1>9 DEF CreateMainLoop
  <1>10. CASE Autoexec
    BY <1>10 DEF Autoexec, Feature
  <1>11. CASE UNCHANGED bootVars
    BY <1>11, OthersKeepMirror
  <1>12. CASE UNCHANGED vars
    BY <1>12 DEF vars, Feature
  <1>13. WifiEvent \/ FirstLoop \/ (\E a \in Actions : ClientCalls(a) \/ SerialCommand(a))
           \/ (\E t \in Tasks : Return(t) \/ Serve(t)) => UNCHANGED bootVars
    BY DEF WifiEvent, FirstLoop, ClientCalls, SerialCommand, Return, Serve
  <1> QED
    BY <1>1, <1>2, <1>3, <1>4, <1>5, <1>6, <1>7, <1>8, <1>9, <1>10, <1>11, <1>12, <1>13
       DEF Next, AppMain

(* Clients are told the truth about the features: one shown as running has  *)
(* all of its actions, and after the boot every state shown is the true one *)
(* (updateFeatureJson after each setup).                                    *)
THEOREM ClientsToldTheTruth == Spec => []MirrorTruthful
  <1>1. MirrorInv => MirrorTruthful
    BY DEF MirrorInv, MirrorTruthful, Between
  <1> QED
    BY <1>1, InitMirrorInv, NextMirrorInv, Invariance, PTL DEF Spec
=============================================================================
