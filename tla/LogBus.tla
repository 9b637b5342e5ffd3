-------------------------------- MODULE LogBus --------------------------------
(***************************************************************************)
(* Logging.h and WebSocketServer.cpp: any task logs; the log keeps the last *)
(* entries and hands every message to its listener, which sends it to all   *)
(* WebSocket clients on the task that logs.  Meanwhile the HTTP server task *)
(* opens and closes sessions, whose file descriptors are used again.        *)
(* Sending and the sessions themselves belong to the HTTP server library.   *)
(***************************************************************************)
EXTENDS Filter, FiniteSets, SequencesExt

CONSTANTS
  Tasks,           \* the tasks that log
  httpd,           \* the HTTP server's task, one of them
  Fds,             \* file descriptors
  None,            \* no task, no message
  MAX_LOG_ENTRIES, \* 100 in the code
  MaxLogs          \* bound: messages logged

ASSUME LogBusAssumption ==
  /\ httpd \in Tasks
  /\ None \notin Tasks
  /\ MAX_LOG_ENTRIES \in Nat \ {0}
  /\ MaxLogs \in Nat

VARIABLES
  entries,         \* _entries; a message is the number of the log call
  entryCount,      \* _entryCount
  logged,          \* log calls so far
  wsSetUp,         \* what initWebSockets has done so far
  sess,            \* the library's sessions: what each descriptor is used for
  wsClients,       \* the descriptors that messages are sent to
  wsClientsMutex,  \* the task that holds it
  pc,              \* where each task is
  next,            \* position in wsClients of a task that sends
  fd,              \* the session the HTTP server works on
  half,            \* the tasks whose frames are half sent, for each descriptor
  mixed            \* history: which kinds of frames were sent into each other

vars == <<entries, entryCount, logged, wsSetUp, sess, wsClients,
          wsClientsMutex, pc, next, fd, half, mixed>>

logVars == <<entries, entryCount, logged>>
netVars == <<sess, fd>>
sendVars == <<next, half, mixed>>

Uses == {"free", "http", "ws"}

LogSteps == {"idle", "add", "copy", "lock", "header", "payload", "unlock"}
ServerSteps == {"add client", "remove client", "close"}

AnswerSteps == {"answer header", "answer payload"}
Kinds == {"broadcast", "answer"}

Init ==
  /\ entries = <<>>
  /\ entryCount = 0
  /\ logged = 0
  /\ wsSetUp = "nothing"
  /\ sess = [f \in Fds |-> "free"]
  /\ wsClients = <<>>
  /\ wsClientsMutex = None
  /\ pc = [t \in Tasks |-> "idle"]
  /\ next = [t \in Tasks |-> 1]
  /\ fd \in Fds
  /\ half = [f \in Fds |-> {}]
  /\ mixed = {}

Goto(t, step) == pc' = [pc EXCEPT ![t] = step]

-----------------------------------------------------------------------------
(* Logger::handle.  Bound: no more than MaxLogs calls.                      *)

MayLog == logged + Cardinality({t \in Tasks : pc[t] \in {"add client", "add"}}) < MaxLogs

Log(t) ==
  /\ pc[t] = "idle"
  /\ MayLog
  /\ Goto(t, "add")
  /\ UNCHANGED <<logVars, wsSetUp, netVars, wsClients, wsClientsMutex, sendVars>>

Full_OffByOne == entryCount > MAX_LOG_ENTRIES

Full == entryCount >= MAX_LOG_ENTRIES

addEntry(t) ==
  /\ pc[t] = "add"
  /\ logged' = logged + 1
  /\ entries' = Append(IF Full THEN Tail(entries) ELSE entries, logged + 1)
  /\ entryCount' = IF Full THEN entryCount ELSE entryCount + 1
  /\ Goto(t, "copy")
  /\ UNCHANGED <<wsSetUp, netVars, wsClients, wsClientsMutex, sendVars>>

CopyListeners(t) ==
  /\ pc[t] = "copy"
  /\ Goto(t, IF wsSetUp = "listener" THEN "lock" ELSE "idle")
  /\ UNCHANGED <<logVars, wsSetUp, netVars, wsClients, wsClientsMutex, sendVars>>

(* initWebSockets                                                           *)
RegisterHandler ==
  /\ wsSetUp = "nothing"
  /\ wsSetUp' = "handler"
  /\ UNCHANGED <<logVars, netVars, wsClients, wsClientsMutex, pc, sendVars>>

AddListener ==
  /\ wsSetUp = "handler"
  /\ wsSetUp' = "listener"
  /\ UNCHANGED <<logVars, netVars, wsClients, wsClientsMutex, pc, sendVars>>

-----------------------------------------------------------------------------
(* wsBroadcast                                                              *)

MutexFree_Ignored(t) == TRUE

MutexFree(t) == wsClientsMutex = None

Lock(t) ==
  /\ pc[t] = "lock"
  /\ MutexFree(t)
  /\ wsClientsMutex' = t
  /\ next' = [next EXCEPT ![t] = 1]
  /\ Goto(t, "header")
  /\ UNCHANGED <<logVars, wsSetUp, netVars, wsClients, half, mixed>>

Client(t) == wsClients[next[t]]

(* The library writes a frame's header, then its payload.                   *)
KindOf(t) == IF pc[t] = "payload" THEN "broadcast" ELSE "answer"

StartFrame(t, f, kind) ==
  /\ half' = [half EXCEPT ![f] = @ \union {t}]
  /\ mixed' = mixed \union {{kind, KindOf(u)} : u \in half[f]}

EndFrame(t, f) == half' = [half EXCEPT ![f] = @ \ {t}]

SendHeader(t) ==
  /\ pc[t] = "header"
  /\ next[t] <= Len(wsClients)
  /\ sess[Client(t)] = "ws"
  /\ StartFrame(t, Client(t), "broadcast")
  /\ Goto(t, "payload")
  /\ UNCHANGED <<logVars, wsSetUp, netVars, wsClients, wsClientsMutex, next>>

(* A failed send is reported with ESP_LOGW, which calls no listener.        *)
AfterFailure_Logged == "add"

AfterFailure == "header"

SendFails(t) ==
  /\ \/ pc[t] = "header" /\ next[t] <= Len(wsClients)
     \/ pc[t] = "payload"
  /\ next' = [next EXCEPT ![t] = @ + 1]
  /\ EndFrame(t, Client(t))
  /\ Goto(t, AfterFailure)
  /\ UNCHANGED <<logVars, wsSetUp, netVars, wsClients, wsClientsMutex, mixed>>

SendPayload(t) ==
  /\ pc[t] = "payload"
  /\ next' = [next EXCEPT ![t] = @ + 1]
  /\ EndFrame(t, Client(t))
  /\ Goto(t, "header")
  /\ UNCHANGED <<logVars, wsSetUp, netVars, wsClients, wsClientsMutex, mixed>>

Unlock(t) ==
  /\ pc[t] = "header"
  /\ next[t] > Len(wsClients)
  /\ wsClientsMutex' = None
  /\ Goto(t, "idle")
  /\ UNCHANGED <<logVars, wsSetUp, netVars, wsClients, sendVars>>

-----------------------------------------------------------------------------
(* The HTTP server's task                                                   *)

Accept(f) ==
  /\ pc[httpd] = "idle"
  /\ sess[f] = "free"
  /\ sess' = [sess EXCEPT ![f] = "http"]
  /\ UNCHANGED <<logVars, wsSetUp, fd, wsClients, wsClientsMutex, pc, sendVars>>

(* The library answers the handshake, then calls wsHandler.                 *)
Handshake(f) ==
  /\ pc[httpd] = "idle"
  /\ wsSetUp # "nothing"
  /\ MayLog
  /\ sess[f] = "http"
  /\ sess' = [sess EXCEPT ![f] = "ws"]
  /\ fd' = f
  /\ Goto(httpd, "add client")
  /\ UNCHANGED <<logVars, wsSetUp, wsClients, wsClientsMutex, sendVars>>

(* wsHandler then logs that the client has connected.                       *)
wsAddClient ==
  /\ pc[httpd] = "add client"
  /\ MutexFree(httpd)
  /\ wsClients' = IF fd \in ToSet(wsClients) THEN wsClients ELSE Append(wsClients, fd)
  /\ Goto(httpd, "add")
  /\ UNCHANGED <<logVars, wsSetUp, netVars, wsClientsMutex, sendVars>>

(* wsHandler runs the action of a text frame and answers; what the action   *)
(* logs is logged before.  The answer is sent without wsClientsMutex.       *)
Request(f) ==
  /\ pc[httpd] = "idle"
  /\ sess[f] = "ws"
  /\ fd' = f
  /\ Goto(httpd, "answer header")
  /\ UNCHANGED <<logVars, wsSetUp, sess, wsClients, wsClientsMutex, sendVars>>

AnswerHeader ==
  /\ pc[httpd] = "answer header"
  /\ StartFrame(httpd, fd, "answer")
  /\ Goto(httpd, "answer payload")
  /\ UNCHANGED <<logVars, wsSetUp, netVars, wsClients, wsClientsMutex, next>>

AnswerPayload ==
  /\ pc[httpd] = "answer payload"
  /\ EndFrame(httpd, fd)
  /\ Goto(httpd, "idle")
  /\ UNCHANGED <<logVars, wsSetUp, netVars, wsClients, wsClientsMutex, next, mixed>>

(* The library closes the session of a handler that fails.                  *)
AnswerFails ==
  /\ pc[httpd] \in AnswerSteps
  /\ EndFrame(httpd, fd)
  /\ Goto(httpd, "remove client")
  /\ UNCHANGED <<logVars, wsSetUp, netVars, wsClients, wsClientsMutex, next, mixed>>

(* The peer has left, or the session is the least recently used one when a  *)
(* new one arrives (lru_purge_enable): onHttpSessionClose.                  *)
CloseSession(f) ==
  /\ pc[httpd] = "idle"
  /\ sess[f] # "free"
  /\ fd' = f
  /\ Goto(httpd, "remove client")
  /\ UNCHANGED <<logVars, wsSetUp, sess, wsClients, wsClientsMutex, sendVars>>

(* erase of what std::remove leaves at the end.                             *)
Without_NotErased(f) ==
  LET kept == SelectSeq(wsClients, LAMBDA g : g # f)
  IN  kept \o SubSeq(wsClients, Len(kept) + 1, Len(wsClients))

Without(f) == Only(wsClients, ToSet(wsClients) \ {f})

wsRemoveClient ==
  /\ pc[httpd] = "remove client"
  /\ MutexFree(httpd)
  /\ wsClients' = Without(fd)
  /\ Goto(httpd, "close")
  /\ UNCHANGED <<logVars, wsSetUp, netVars, wsClientsMutex, sendVars>>

CloseFd ==
  /\ pc[httpd] = "close"
  /\ sess' = [sess EXCEPT ![fd] = "free"]
  /\ Goto(httpd, "idle")
  /\ UNCHANGED <<logVars, wsSetUp, fd, wsClients, wsClientsMutex, sendVars>>

LogStep(t) ==
  \/ addEntry(t) \/ CopyListeners(t) \/ Lock(t)
  \/ SendHeader(t) \/ SendFails(t) \/ SendPayload(t) \/ Unlock(t)

Answer == AnswerHeader \/ AnswerPayload \/ AnswerFails

ServerStep == wsAddClient \/ wsRemoveClient \/ CloseFd \/ Answer

Next ==
  \/ \E t \in Tasks : Log(t) \/ LogStep(t)
  \/ ServerStep
  \/ RegisterHandler \/ AddListener
  \/ \E f \in Fds : Accept(f) \/ Handshake(f) \/ Request(f) \/ CloseSession(f)

(* Tasks are scheduled and sends return, if only by their timeout; a mutex  *)
(* that is released again and again is obtained in the end.                 *)
Fairness ==
  /\ \A t \in Tasks : WF_vars(LogStep(t)) /\ SF_vars(Lock(t))
  /\ SF_vars(wsAddClient) /\ SF_vars(wsRemoveClient) /\ WF_vars(CloseFd \/ Answer)

Spec == Init /\ [][Next]_vars /\ Fairness

-----------------------------------------------------------------------------
TypeOK ==
  /\ entries \in Seq(1 .. logged)
  /\ entryCount \in 0 .. MAX_LOG_ENTRIES
  /\ logged \in Nat
  /\ wsSetUp \in {"nothing", "handler", "listener"}
  /\ sess \in [Fds -> Uses]
  /\ wsClients \in Seq(Fds)
  /\ wsClientsMutex \in Tasks \union {None}
  /\ pc \in [Tasks -> LogSteps \union ServerSteps \union AnswerSteps]
  /\ next \in [Tasks -> Nat]
  /\ fd \in Fds
  /\ half \in [Fds -> SUBSET Tasks]
  /\ mixed \subseteq SUBSET Kinds

(* The log holds the most recent messages, as many as it has room for, in   *)
(* order, however many tasks log at once (Logger::addEntry).                *)
RecentEntries ==
  /\ Len(entries) = IF logged < MAX_LOG_ENTRIES THEN logged ELSE MAX_LOG_ENTRIES
  /\ \A i \in DOMAIN entries : entries[i] = logged - Len(entries) + i

(* Messages are only sent to open WebSocket sessions: a descriptor is gone  *)
(* from the clients before it is closed and may serve another connection    *)
(* (onHttpSessionClose).                                                    *)
ClientsAreSessions == \A f \in ToSet(wsClients) : sess[f] = "ws"

(* The messages of tasks that log at the same time are not sent into each   *)
(* other's frames (wsBroadcast holds wsClientsMutex).  Answers are: see     *)
(* Request.                                                                 *)
BroadcastsWhole == {"broadcast"} \notin mixed

(* A task that logs gets to go on, whoever else logs, connects or is        *)
(* disconnected, and whichever sends fail.                                  *)
LogsReturn == \A t \in Tasks : pc[t] = "copy" ~> pc[t] = "idle"
=============================================================================
