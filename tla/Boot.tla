--------------------------------- MODULE Boot ---------------------------------
(***************************************************************************)
(* main.cpp with FeatureRegistry.h, Feature.h and ActionRegistry.h: app_main *)
(* brings up WiFi, the web server and one feature after the other, while    *)
(* clients already call the actions that features have registered; then it  *)
(* starts the UI task and main_loop, whose first pass runs autoexec.be.     *)
(***************************************************************************)
EXTENDS Naturals, Sequences, FiniteSets

CONSTANTS
  Order,       \* the features, in the order FeatureRegistry::init names them
  UI, Berry,   \* two of them
  Deferred,    \* those that do not start on their own (autoStart)
  CanFail,     \* those whose setup can fail
  Tolerant,    \* of these, those that run nevertheless
  NeedServer,  \* those whose setup fails without an HTTP server
  Early,       \* the actions a feature registers before it initialises
  Late,        \* ... and after that
  Rest,        \* the actions that have a REST endpoint
  OnUITask,    \* the actions that are posted to the UI task
  None         \* no action

Features == {Order[i] : i \in DOMAIN Order}
Tasks    == {"httpd", "main_loop", "UI task"}

ActionsOf(f) == Early[f] \union Late[f]
Actions == UNION {ActionsOf(f) : f \in Features}

(* The registries have room for all features and actions.                   *)
FEATURES_SIZE == 16
ACTIONS_SIZE  == 24

ASSUME BootAssumption ==
  /\ Order \in Seq(Features) \ {<<>>}
  /\ {UI, Berry} \subseteq Features
  /\ Tolerant \subseteq CanFail
  /\ \A f \in Tolerant : Late[f] = {} /\ f \notin {UI, Berry}
  /\ \A f \in Features : Early[f] \intersect Late[f] = {}
  /\ \A f, g \in Features : f # g => ActionsOf(f) \intersect ActionsOf(g) = {}
  /\ Len(Order) <= FEATURES_SIZE
  /\ Cardinality(Actions) <= ACTIONS_SIZE
  /\ Rest \union OnUITask \subseteq Actions
  /\ None \notin Actions

VARIABLES
  boot,        \* where app_main is
  cur,         \* the feature it is working on
  gotIP,       \* WIFI_GOT_IP_BIT
  server,      \* s_server: is the web server running?
  state,       \* Feature::_featureState
  mirror,      \* registeredFeatures, the states that clients are shown
  ready,       \* the features that are initialised
  actions,     \* ActionRegistry::_actions
  endpoints,   \* the actions wired to REST
  uiTask,      \* "none", "created", then "running": its handle is published
  main_loop,   \* "none", then "autoexec" until autoexec.be has run
  running,     \* the action whose handler each task runs
  posted       \* the action each task has posted and waits for

vars == <<boot, cur, gotIP, server, state, mirror, ready, actions, endpoints,
          uiTask, main_loop, running, posted>>

bootVars == <<boot, cur, server, state, mirror, ready, actions, endpoints, main_loop>>

BootSteps == {"wifi", "wait for IP", "web server", "web sockets", "register",
              "set up", "initialise", "register actions", "update JSON",
              "wire", "start tasks", "create main_loop", "done"}

FeatureStates == {"PENDING", "SETUP", "RUNNING", "ERROR"}

Init ==
  /\ boot = "wifi"
  /\ cur = 1
  /\ gotIP = FALSE
  /\ server = FALSE
  /\ state = [f \in Features |-> "PENDING"]
  /\ mirror = [f \in Features |-> "absent"]
  /\ ready = {}
  /\ actions = {}
  /\ endpoints = {}
  /\ uiTask = "none"
  /\ main_loop = "none"
  /\ running = [t \in Tasks |-> None]
  /\ posted = [t \in Tasks |-> None]

-----------------------------------------------------------------------------
(* app_main                                                                 *)

(* app_main has priority 1 on the core that the UI task, with priority 2,   *)
(* is pinned to: once created, the UI task runs until it first sleeps.      *)
Preempted_SamePriority == FALSE

Preempted == uiTask = "created"

At(step) == boot = step /\ ~Preempted

Feature == Order[cur]

(* The next feature of a pass over all of them, or else what comes after.   *)
NextFeature_OffByOne(again, after) ==
  IF cur <= Len(Order) THEN boot' = again /\ cur' = cur + 1
                       ELSE boot' = after /\ cur' = 1

NextFeature(again, after) ==
  IF cur < Len(Order) THEN boot' = again /\ cur' = cur + 1
                      ELSE boot' = after /\ cur' = 1

(* Without stored credentials there is no connection to wait for.           *)
InitWifi ==
  /\ At("wifi")
  /\ boot' \in {"wait for IP", "web server"}
  /\ UNCHANGED <<cur, gotIP, server, state, mirror, ready, actions, endpoints,
                 uiTask, main_loop, running, posted>>

(* The wait ends with an IP address or after ten seconds.                   *)
WaitOver_NoTimeout == gotIP

WaitOver == TRUE

WaitForIP ==
  /\ At("wait for IP")
  /\ WaitOver
  /\ boot' = "web server"
  /\ UNCHANGED <<cur, gotIP, server, state, mirror, ready, actions, endpoints,
                 uiTask, main_loop, running, posted>>

(* httpd_start may fail.                                                    *)
InitWebServer ==
  /\ At("web server")
  /\ server' \in BOOLEAN
  /\ boot' = "web sockets"
  /\ UNCHANGED <<cur, gotIP, state, mirror, ready, actions, endpoints,
                 uiTask, main_loop, running, posted>>

InitWebSockets ==
  /\ At("web sockets")
  /\ boot' = "register"
  /\ UNCHANGED <<cur, gotIP, server, state, mirror, ready, actions, endpoints,
                 uiTask, main_loop, running, posted>>

RegisterFeatures ==
  /\ At("register")
  /\ mirror' = state
  /\ boot' = "set up"
  /\ UNCHANGED <<cur, gotIP, server, state, ready, actions, endpoints,
                 uiTask, main_loop, running, posted>>

Setup_SwappedOrder ==
  /\ At("set up")
  /\ IF Feature \in Deferred
     THEN NextFeature("set up", "wire") /\ UNCHANGED <<state, actions>>
     ELSE /\ state' = [state EXCEPT ![Feature] = "SETUP"]
          /\ actions' = actions \union ActionsOf(Feature)
          /\ boot' = "initialise"
          /\ UNCHANGED cur
  /\ UNCHANGED <<gotIP, server, mirror, ready, endpoints,
                 uiTask, main_loop, running, posted>>

Setup ==
  /\ At("set up")
  /\ IF Feature \in Deferred
     THEN NextFeature("set up", "wire") /\ UNCHANGED <<state, actions>>
     ELSE /\ state' = [state EXCEPT ![Feature] = "SETUP"]
          /\ actions' = actions \union Early[Feature]
          /\ boot' = "initialise"
          /\ UNCHANGED cur
  /\ UNCHANGED <<gotIP, server, mirror, ready, endpoints,
                 uiTask, main_loop, running, posted>>

Succeeds(f) == f \notin NeedServer \/ server

Initialise ==
  /\ At("initialise")
  /\ \/ /\ Succeeds(Feature)
        /\ ready' = ready \union {Feature}
        /\ boot' = "register actions"
        /\ UNCHANGED state
     \/ /\ Feature \in CanFail \/ ~Succeeds(Feature)
        /\ IF Feature \in Tolerant
           THEN boot' = "register actions" /\ UNCHANGED state
           ELSE boot' = "update JSON" /\ state' = [state EXCEPT ![Feature] = "ERROR"]
        /\ UNCHANGED ready
  /\ UNCHANGED <<cur, gotIP, server, mirror, actions, endpoints,
                 uiTask, main_loop, running, posted>>

RegisterActions ==
  /\ At("register actions")
  /\ actions' = actions \union Late[Feature]
  /\ state' = [state EXCEPT ![Feature] = "RUNNING"]
  /\ boot' = "update JSON"
  /\ UNCHANGED <<cur, gotIP, server, mirror, ready, endpoints,
                 uiTask, main_loop, running, posted>>

updateFeatureJson_OnlyRunning ==
  IF state[Feature] = "RUNNING" THEN [mirror EXCEPT ![Feature] = "RUNNING"] ELSE mirror

updateFeatureJson == [mirror EXCEPT ![Feature] = state[Feature]]

SetupDone ==
  /\ At("update JSON")
  /\ mirror' = updateFeatureJson
  /\ NextFeature("set up", "wire")
  /\ UNCHANGED <<gotIP, server, state, ready, actions, endpoints,
                 uiTask, main_loop, running, posted>>

wireRestEndpoints ==
  /\ At("wire")
  /\ endpoints' = IF server THEN actions \intersect Rest ELSE {}
  /\ boot' = "start tasks"
  /\ UNCHANGED <<cur, gotIP, server, state, mirror, ready, actions,
                 uiTask, main_loop, running, posted>>

(* Only the UI has a task of its own, should there be memory for one.       *)
StartTask ==
  /\ At("start tasks")
  /\ uiTask' \in {uiTask} \union
       IF Feature = UI /\ state[UI] = "RUNNING" THEN {"created"} ELSE {}
  /\ NextFeature("start tasks", "create main_loop")
  /\ UNCHANGED <<gotIP, server, state, mirror, ready, actions, endpoints,
                 main_loop, running, posted>>

CreateMainLoop ==
  /\ At("create main_loop")
  /\ main_loop' = IF state[Berry] = "RUNNING" THEN "autoexec" ELSE "commands"
  /\ boot' = "done"
  /\ UNCHANGED <<cur, gotIP, server, state, mirror, ready, actions, endpoints,
                 uiTask, running, posted>>

AppMain ==
  \/ InitWifi \/ WaitForIP \/ InitWebServer \/ InitWebSockets \/ RegisterFeatures
  \/ Setup \/ Initialise \/ RegisterActions \/ SetupDone
  \/ wireRestEndpoints \/ StartTask \/ CreateMainLoop

-----------------------------------------------------------------------------
(* The other tasks                                                          *)

(* wifi_event_handler: the address comes and goes; nothing reconnects.      *)
WifiEvent ==
  /\ boot # "wifi"
  /\ gotIP' \in BOOLEAN
  /\ UNCHANGED <<bootVars, uiTask, running, posted>>

(* The UI task's first loop publishes its handle.                           *)
FirstLoop ==
  /\ uiTask = "created"
  /\ uiTask' = "running"
  /\ UNCHANGED <<bootVars, gotIP, running, posted>>

(* A task calls an action: its handler runs there, or is posted.            *)
Execute(t, a) ==
  /\ running[t] = None /\ posted[t] = None
  /\ IF a \in OnUITask /\ uiTask = "running"
     THEN posted' = [posted EXCEPT ![t] = a] /\ UNCHANGED running
     ELSE running' = [running EXCEPT ![t] = a] /\ UNCHANGED posted

(* Over a WebSocket, once there are any; or by REST.                        *)
Accepts(a) ==
  /\ server
  /\ \/ a \in actions /\ boot \notin {"wifi", "wait for IP", "web server", "web sockets"}
     \/ a \in endpoints

ClientCalls(a) ==
  /\ Accepts(a)
  /\ Execute("httpd", a)
  /\ UNCHANGED <<bootVars, gotIP, uiTask>>

(* A command from the serial port; main_loop's first pass may read one      *)
(* before the Berry feature's loop runs autoexec.be.                        *)
SerialCommand(a) ==
  /\ main_loop # "none"
  /\ a \in actions
  /\ Execute("main_loop", a)
  /\ UNCHANGED <<bootVars, gotIP, uiTask>>

(* autoexec.be opens the taskbar, with an action.                           *)
Autoexec ==
  /\ main_loop = "autoexec"
  /\ \E a \in Late[Berry] \intersect actions : Execute("main_loop", a)
  /\ main_loop' = "commands"
  /\ UNCHANGED <<boot, cur, gotIP, server, state, mirror, ready, actions, endpoints, uiTask>>

Return(t) ==
  /\ running[t] # None
  /\ running' = [running EXCEPT ![t] = None]
  /\ UNCHANGED <<bootVars, gotIP, uiTask, posted>>

(* processTaskQueue; see UITaskQueue.                                       *)
Serve(t) ==
  /\ uiTask = "running"
  /\ posted[t] # None
  /\ running["UI task"] = None
  /\ running' = [running EXCEPT !["UI task"] = posted[t]]
  /\ posted' = [posted EXCEPT ![t] = None]
  /\ UNCHANGED <<bootVars, gotIP, uiTask>>

Next ==
  \/ AppMain \/ WifiEvent \/ FirstLoop \/ Autoexec
  \/ \E a \in Actions : ClientCalls(a) \/ SerialCommand(a)
  \/ \E t \in Tasks : Return(t) \/ Serve(t)

(* The tasks of the firmware are scheduled.                                 *)
Spec == Init /\ [][Next]_vars /\ WF_vars(AppMain) /\ WF_vars(FirstLoop)

-----------------------------------------------------------------------------
TypeOK ==
  /\ boot \in BootSteps
  /\ cur \in DOMAIN Order
  /\ gotIP \in BOOLEAN /\ server \in BOOLEAN
  /\ state \in [Features -> FeatureStates]
  /\ mirror \in [Features -> FeatureStates \union {"absent"}]
  /\ ready \subseteq Features
  /\ actions \subseteq Actions
  /\ endpoints \subseteq Rest
  /\ uiTask \in {"none", "created", "running"}
  /\ main_loop \in {"none", "autoexec", "commands"}
  /\ running \in [Tasks -> Actions \union {None}]
  /\ posted \in [Tasks -> Actions \union {None}]

(* No code runs before what it works on exists, whichever setups failed and *)
(* however early a client calls: an action finds its feature initialised,   *)
(* or is one that is registered before on purpose (comment at               *)
(* LittleFsManagement.cpp:82); the UI task finds the renderer, and          *)
(* autoexec.be the Berry VM.                                                *)
CodeFindsResources ==
  /\ \A t \in Tasks, f \in Features : running[t] \in Late[f] => f \in ready
  /\ uiTask # "none" => UI \in ready
  /\ main_loop = "autoexec" => Berry \in ready

(* What clients are told of the features: one that is shown as running has  *)
(* all of its actions, and after the boot the states shown are the true     *)
(* ones (updateFeatureJson).                                                *)
MirrorTruthful ==
  /\ \A f \in Features : mirror[f] = "RUNNING" => ActionsOf(f) \subseteq actions
  /\ boot = "done" => mirror = state

(* main_loop never works on the windows beside the UI task: autoexec.be and *)
(* serial commands find its handle published (UiFeature.cpp:420).           *)
MainLoopConfined ==
  running["main_loop"] \in OnUITask => uiTask = "none"

(* The device comes up without the network, and whatever setups fail.       *)
BootCompletes == <>(boot = "done")
=============================================================================
