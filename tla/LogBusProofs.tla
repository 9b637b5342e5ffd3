---------------------------- MODULE LogBusProofs ----------------------------
(***************************************************************************)
(* Proofs about LogBus for any tasks, descriptors and capacity of the log.  *)
(***************************************************************************)
EXTENDS LogBus, DataLemmas

(* The counter is the number of entries, though it is kept apart from them. *)
CountInv == entryCount = Len(entries)

Broadcasting(t) == pc[t] \in {"header", "payload"}

(* Who broadcasts holds the mutex, and nobody else does.                    *)
MutexInv == \A t \in Tasks : Broadcasting(t) <=> wsClientsMutex = t

(* Only the HTTP server serves.  The session it has just opened is one, and *)
(* the one it closes is no client any more.                                 *)
ServerInv ==
  /\ \A t \in Tasks \ {httpd} : pc[t] \in LogSteps
  /\ pc[httpd] = "add client" => sess[fd] = "ws"
  /\ pc[httpd] = "close" => fd \notin ToSet(wsClients)

(* A broadcast that sends a payload sends it to a client.                   *)
PositionInv ==
  \A t \in Tasks :
    /\ next[t] # 0
    /\ pc[t] = "payload" => next[t] <= Len(wsClients)

(* A frame is half sent by the broadcast at that client, or as an answer.   *)
HalfInv ==
  \A f \in Fds : \A t \in half[f] :
    \/ pc[t] = "payload" /\ f = Client(t)
    \/ pc[t] = "answer payload" /\ t = httpd /\ f = fd

IInv ==
  /\ TypeOK
  /\ RecentEntries
  /\ CountInv
  /\ MutexInv
  /\ ServerInv
  /\ ClientsAreSessions
  /\ PositionInv
  /\ HalfInv
  /\ BroadcastsWhole

-----------------------------------------------------------------------------
(* Removing a client leaves the others.                                     *)
LEMMA WithoutKeepsOthers ==
  ASSUME wsClients \in Seq(Fds), NEW f \in Fds
  PROVE  Without(f) \in Seq(Fds) /\ ToSet(Without(f)) = ToSet(wsClients) \ {f}
  BY OnlyKeeps DEF Without

-----------------------------------------------------------------------------
USE LogBusAssumption

LEMMA InitIInv == Init => IInv
  <1> SUFFICES ASSUME Init PROVE IInv
    OBVIOUS
  <1> USE DEF Init
  <1>1. TypeOK
    BY DEF TypeOK, Uses, LogSteps, Kinds
  <1>2. RecentEntries /\ CountInv
    BY DEF RecentEntries, CountInv
  <1>3. MutexInv /\ ServerInv /\ PositionInv /\ HalfInv
    BY DEF MutexInv, Broadcasting, ServerInv, LogSteps, PositionInv, HalfInv
  <1>4. ClientsAreSessions /\ BroadcastsWhole
    BY DEF ClientsAreSessions, ToSet, BroadcastsWhole
  <1> QED
    BY <1>1, <1>2, <1>3, <1>4 DEF IInv

LEMMA ClientsTyped ==
  ASSUME TypeOK
  PROVE  /\ ToSet(wsClients) \subseteq Fds
         /\ \A t \in Tasks : next[t] # 0 /\ next[t] <= Len(wsClients) => Client(t) \in Fds
  BY DEF TypeOK, ToSet, Client

(* Nobody is within a frame while the mutex is free and the server does     *)
(* something else than answer.                                              *)
LEMMA NothingHalfSent ==
  ASSUME TypeOK, MutexInv, HalfInv, wsClientsMutex = None, pc[httpd] # "answer payload"
  PROVE  \A f \in Fds : half[f] = {}
  BY ZenonT(30) DEF TypeOK, MutexInv, HalfInv, Broadcasting

(* A frame begins among those half sent, or ends.                           *)
LEMMA StartFrameAdds ==
  ASSUME TypeOK, NEW t \in Tasks, NEW f \in Fds, NEW kind \in Kinds, StartFrame(t, f, kind)
  PROVE  /\ half' \in [Fds -> SUBSET Tasks]
         /\ \A g \in Fds : half'[g] = IF g = f THEN half[g] \union {t} ELSE half[g]
         /\ mixed' \subseteq SUBSET Kinds
  <1>1. half' \in [Fds -> SUBSET Tasks]
    BY DEF StartFrame, TypeOK
  <1>2. \A g \in Fds : half'[g] = IF g = f THEN half[g] \union {t} ELSE half[g]
    BY DEF StartFrame, TypeOK
  <1>3. {{kind, KindOf(u)} : u \in half[f]} \subseteq SUBSET Kinds
    BY DEF KindOf, Kinds
  <1>4. mixed' \subseteq SUBSET Kinds
    BY <1>3 DEF StartFrame, TypeOK
  <1> QED
    BY <1>1, <1>2, <1>4

LEMMA EndFrameRemoves ==
  ASSUME TypeOK, NEW t \in Tasks, NEW f \in Fds, EndFrame(t, f)
  PROVE  /\ half' \in [Fds -> SUBSET Tasks]
         /\ \A g \in Fds : half'[g] = IF g = f THEN half[g] \ {t} ELSE half[g]
  BY DEF EndFrame, TypeOK

(* The log after another entry.                                             *)
LEMMA addEntryKeepsLog ==
  ASSUME TypeOK, RecentEntries, CountInv, NEW t \in Tasks, addEntry(t)
  PROVE  /\ RecentEntries' /\ CountInv'
         /\ entries' \in Seq(1 .. logged')
         /\ entryCount' \in 0 .. MAX_LOG_ENTRIES
  <1> DEFINE n == logged + 1
  <1>1. /\ logged \in Nat /\ logged' = n
        /\ Len(entries) \in Nat
        /\ Len(entries) = IF logged < MAX_LOG_ENTRIES THEN logged ELSE MAX_LOG_ENTRIES
        /\ \A i \in 1 .. Len(entries) : entries[i] = logged - Len(entries) + i
        /\ entries \in Seq(Nat)
        /\ entryCount = Len(entries)
    <2>1. entries \in Seq(1 .. logged) /\ 1 .. logged \subseteq Nat
      BY DEF TypeOK
    <2>2. entries \in Seq(Nat)
      BY <2>1, SeqMonotonic
    <2>3. logged \in Nat /\ Len(entries) \in Nat
      BY <2>2 DEF TypeOK
    <2>4. DOMAIN entries = 1 .. Len(entries)
      BY <2>2
    <2> QED
      BY <2>2, <2>3, <2>4 DEF RecentEntries, CountInv, addEntry
  <1>2. CASE Full
    <2>1. /\ Len(entries) = MAX_LOG_ENTRIES
          /\ logged >= MAX_LOG_ENTRIES
          /\ entries # <<>>
      BY <1>1, <1>2 DEF Full
    <2>2. entries' = Append(Tail(entries), n) /\ entryCount' = entryCount
      BY <1>2 DEF addEntry
    <2>3. /\ Tail(entries) \in Seq(Nat)
          /\ Len(Tail(entries)) = Len(entries) - 1
          /\ \A i \in 1 .. Len(entries) - 1 : Tail(entries)[i] = entries[i + 1]
      BY <1>1, <2>1
    <2>4. entries' \in Seq(Nat) /\ Len(entries') = Len(entries)
      BY <1>1, <2>1, <2>2, <2>3
    <2>5. \A i \in 1 .. Len(entries) : entries'[i] = n - Len(entries) + i
      <3>1. \A i \in 1 .. Len(entries) - 1 : entries'[i] = entries[i + 1]
        BY <1>1, <2>2, <2>3
      <3>2. \A i \in 1 .. Len(entries) - 1 : i + 1 \in 1 .. Len(entries)
        BY <1>1
      <3>3. entries'[Len(entries)] = n
        BY <1>1, <2>1, <2>2, <2>3
      <3> SUFFICES ASSUME NEW i \in 1 .. Len(entries)
                   PROVE  entries'[i] = n - Len(entries) + i
        OBVIOUS
      <3>4. CASE i = Len(entries)
        BY <1>1, <3>3, <3>4
      <3>5. CASE i # Len(entries)
        <4>1. i \in 1 .. Len(entries) - 1
          BY <1>1, <3>5
        <4>2. entries'[i] = logged - Len(entries) + (i + 1)
          BY <1>1, <3>1, <3>2, <4>1
        <4> QED
          BY <1>1, <4>2
      <3> QED
        BY <3>4, <3>5
    <2> QED
      BY <1>1, <2>1, <2>2, <2>4, <2>5, SMTT(20) DEF RecentEntries, CountInv
  <1>3. CASE ~Full
    <2>1. Len(entries) = logged /\ logged < MAX_LOG_ENTRIES
      BY <1>1, <1>3 DEF Full
    <2>2. entries' = Append(entries, n) /\ entryCount' = entryCount + 1
      BY <1>3 DEF addEntry
    <2>3. entries' \in Seq(Nat) /\ Len(entries') = n
      BY <1>1, <2>1, <2>2
    <2>4. \A i \in 1 .. n : entries'[i] = i
      BY <1>1, <2>1, <2>2
    <2> QED
      BY <1>1, <2>1, <2>2, <2>3, <2>4 DEF RecentEntries, CountInv
  <1> QED
    BY <1>2, <1>3

LEMMA NextIInv == IInv /\ [Next]_vars => IInv'
  <1> SUFFICES ASSUME IInv, [Next]_vars PROVE IInv'
    OBVIOUS
  <1> USE DEF IInv, Goto, LogSteps, ServerSteps, AnswerSteps, netVars, sendVars, logVars
  <1>1. ASSUME NEW t \in Tasks, Log(t) PROVE IInv'
    <2>1. TypeOK'
      BY <1>1 DEF TypeOK, Log
    <2>2. RecentEntries' /\ CountInv' /\ ClientsAreSessions' /\ BroadcastsWhole'
      BY <1>1 DEF RecentEntries, CountInv, ClientsAreSessions, BroadcastsWhole, Log
    <2>3. MutexInv' /\ ServerInv' /\ PositionInv'
      BY <1>1 DEF TypeOK, MutexInv, Broadcasting, ServerInv, PositionInv, Log
    <2>4. HalfInv'
      BY <1>1 DEF TypeOK, HalfInv, MutexInv, Broadcasting, Client, Log
    <2> QED
      BY <2>1, <2>2, <2>3, <2>4
  <1>2. ASSUME NEW t \in Tasks, addEntry(t) PROVE IInv'
    <2>1. TypeOK'
      <3>1. entries' \in Seq(1 .. logged') /\ entryCount' \in 0 .. MAX_LOG_ENTRIES
        BY <1>2, addEntryKeepsLog
      <3>2. logged' \in Nat
        <4>1. logged \in Nat /\ logged' = logged + 1
          BY <1>2 DEF TypeOK, addEntry
        <4> QED
          BY <4>1
      <3>3. pc' \in [Tasks -> LogSteps \union ServerSteps \union AnswerSteps]
        BY <1>2 DEF TypeOK, addEntry
      <3> HIDE DEF LogSteps, ServerSteps, AnswerSteps
      <3> QED
        BY <1>2, <3>1, <3>2, <3>3 DEF TypeOK, addEntry
    <2>2. RecentEntries' /\ CountInv' /\ ClientsAreSessions' /\ BroadcastsWhole'
      BY <1>2, addEntryKeepsLog DEF ClientsAreSessions, BroadcastsWhole, addEntry
    <2>3. MutexInv' /\ ServerInv' /\ PositionInv'
      BY <1>2 DEF TypeOK, MutexInv, Broadcasting, ServerInv, PositionInv, addEntry
    <2>4. HalfInv'
      BY <1>2 DEF TypeOK, HalfInv, MutexInv, Broadcasting, Client, addEntry
    <2> QED
      BY <2>1, <2>2, <2>3, <2>4
  <1>3. ASSUME NEW t \in Tasks, CopyListeners(t) PROVE IInv'
    <2>1. TypeOK'
      BY <1>3 DEF TypeOK, CopyListeners
    <2>2. RecentEntries' /\ CountInv' /\ ClientsAreSessions' /\ BroadcastsWhole'
      BY <1>3 DEF RecentEntries, CountInv, ClientsAreSessions, BroadcastsWhole, CopyListeners
    <2>3. MutexInv' /\ ServerInv' /\ PositionInv'
      BY <1>3 DEF TypeOK, MutexInv, Broadcasting, ServerInv, PositionInv, CopyListeners
    <2>4. HalfInv'
      BY <1>3 DEF TypeOK, HalfInv, MutexInv, Broadcasting, Client, CopyListeners
    <2> QED
      BY <2>1, <2>2, <2>3, <2>4
  <1>4. ASSUME NEW t \in Tasks, Lock(t) PROVE IInv'
    <2>1. TypeOK'
      BY <1>4 DEF TypeOK, Lock, MutexFree
    <2>2. RecentEntries' /\ CountInv' /\ ClientsAreSessions' /\ BroadcastsWhole'
      BY <1>4 DEF RecentEntries, CountInv, ClientsAreSessions, BroadcastsWhole, Lock, MutexFree
    <2>3. MutexInv' /\ ServerInv' /\ PositionInv'
      <3>1. MutexInv'
        BY <1>4 DEF TypeOK, MutexInv, Broadcasting, Lock, MutexFree
      <3>2. ServerInv'
        BY <1>4 DEF TypeOK, ServerInv, Lock
      <3>3. PositionInv'
        <4>1. \A u \in Tasks : next'[u] = IF u = t THEN 1 ELSE next[u]
          BY <1>4 DEF TypeOK, Lock
        <4>2. \A u \in Tasks : pc'[u] = IF u = t THEN "header" ELSE pc[u]
          BY <1>4 DEF TypeOK, Lock
        <4>3. wsClients' = wsClients
          BY <1>4 DEF Lock
        <4> QED
          BY <4>1, <4>2, <4>3 DEF PositionInv
      <3> QED
        BY <3>1, <3>2, <3>3
    <2>4. HalfInv'
      BY <1>4 DEF TypeOK, HalfInv, MutexInv, Broadcasting, Client, Lock, MutexFree
    <2> QED
      BY <2>1, <2>2, <2>3, <2>4
  <1>5. ASSUME NEW t \in Tasks, SendHeader(t) PROVE IInv'
    <2> DEFINE f == Client(t)
    <2>1. pc[t] = "header" /\ wsClientsMutex = t /\ next[t] # 0 /\ next[t] <= Len(wsClients)
      BY <1>5 DEF SendHeader, MutexInv, Broadcasting, PositionInv
    <2>2. f \in Fds /\ "broadcast" \in Kinds /\ StartFrame(t, f, "broadcast")
      BY <1>5, <2>1, ClientsTyped DEF SendHeader, Kinds
    <2> HIDE DEF f
    <2>3. /\ half' \in [Fds -> SUBSET Tasks]
          /\ \A g \in Fds : half'[g] = IF g = f THEN half[g] \union {t} ELSE half[g]
          /\ mixed' \subseteq SUBSET Kinds
      BY <2>2, StartFrameAdds
    <2>4. \A u \in half[f] : KindOf(u) = "answer"
      BY <2>1, <2>2 DEF TypeOK, HalfInv, MutexInv, Broadcasting, KindOf
    <2>5. TypeOK'
      BY <1>5, <2>3 DEF TypeOK, SendHeader
    <2>6. RecentEntries' /\ CountInv' /\ ClientsAreSessions'
      BY <1>5 DEF RecentEntries, CountInv, ClientsAreSessions, SendHeader
    <2>7. MutexInv' /\ ServerInv' /\ PositionInv'
      BY <1>5 DEF TypeOK, MutexInv, Broadcasting, ServerInv, PositionInv, SendHeader
    <2>8. HalfInv'
      <3> SUFFICES ASSUME NEW g \in Fds, NEW u \in half'[g]
                   PROVE  \/ pc'[u] = "payload" /\ g = Client(u)'
                          \/ pc'[u] = "answer payload" /\ u = httpd /\ g = fd'
        BY DEF HalfInv
      <3>1. Client(u)' = Client(u) /\ fd' = fd
        BY <1>5 DEF SendHeader, Client
      <3>2. CASE u = t
        <4>1. g = f
          BY <2>1, <2>3, <3>2 DEF HalfInv, ServerInv
        <4> QED
          BY <1>5, <2>1, <3>1, <3>2, <4>1 DEF TypeOK, SendHeader, f
      <3>3. CASE u # t
        <4>1. u \in half[g] /\ u \in Tasks /\ pc'[u] = pc[u]
          BY <1>5, <2>3, <3>3 DEF TypeOK, SendHeader
        <4> QED
          BY <3>1, <4>1 DEF HalfInv
      <3> QED
        BY <3>2, <3>3
    <2>9. BroadcastsWhole'
      BY <2>2, <2>4 DEF BroadcastsWhole, StartFrame
    <2> QED
      BY <2>5, <2>6, <2>7, <2>8, <2>9
  <1>6. ASSUME NEW t \in Tasks, SendFails(t) PROVE IInv'
    <2> DEFINE f == Client(t)
    <2>1. Broadcasting(t) /\ next[t] # 0 /\ f \in Fds
      BY <1>6, ClientsTyped DEF SendFails, Broadcasting, PositionInv
    <2>2. EndFrame(t, f)
      BY <1>6 DEF SendFails
    <2> HIDE DEF f
    <2>3. /\ half' \in [Fds -> SUBSET Tasks]
          /\ \A g \in Fds : half'[g] = IF g = f THEN half[g] \ {t} ELSE half[g]
      BY <2>1, <2>2, EndFrameRemoves
    <2>4. TypeOK'
      <3>1. next' \in [Tasks -> Nat]
        <4>1. next \in [Tasks -> Nat] /\ next' = [next EXCEPT ![t] = @ + 1]
          BY <1>6 DEF TypeOK, SendFails
        <4> QED
          BY <4>1
      <3>2. pc' \in [Tasks -> LogSteps \union ServerSteps \union AnswerSteps]
        BY <1>6 DEF TypeOK, SendFails, AfterFailure
      <3> QED
        BY <1>6, <2>3, <3>1, <3>2 DEF TypeOK, SendFails
    <2>5. RecentEntries' /\ CountInv' /\ ClientsAreSessions' /\ BroadcastsWhole'
      BY <1>6 DEF RecentEntries, CountInv, ClientsAreSessions, BroadcastsWhole, SendFails
    <2>6. MutexInv' /\ ServerInv' /\ PositionInv'
      <3>1. MutexInv'
        BY <1>6 DEF TypeOK, MutexInv, Broadcasting, SendFails, AfterFailure
      <3>2. ServerInv'
        BY <1>6 DEF TypeOK, ServerInv, SendFails, AfterFailure
      <3>3. PositionInv'
        <4>1. next \in [Tasks -> Nat] /\ next' = [next EXCEPT ![t] = @ + 1]
          BY <1>6 DEF TypeOK, SendFails
        <4>2. \A u \in Tasks : next'[u] # 0 /\ (u # t => next'[u] = next[u])
          BY <4>1 DEF PositionInv
        <4>3. \A u \in Tasks : pc'[u] = IF u = t THEN "header" ELSE pc[u]
          BY <1>6 DEF TypeOK, SendFails, AfterFailure
        <4>4. wsClients' = wsClients
          BY <1>6 DEF SendFails
        <4> QED
          BY <4>2, <4>3, <4>4 DEF PositionInv
      <3> QED
        BY <3>1, <3>2, <3>3
    <2>7. HalfInv'
      <3> SUFFICES ASSUME NEW g \in Fds, NEW u \in half'[g]
                   PROVE  \/ pc'[u] = "payload" /\ g = Client(u)'
                          \/ pc'[u] = "answer payload" /\ u = httpd /\ g = fd'
        BY DEF HalfInv
      <3>1. u \in half[g] /\ u \in Tasks /\ ~(u = t /\ g = f)
        BY <2>3 DEF TypeOK
      <3>2. u # t
        BY <2>1, <3>1 DEF HalfInv, Broadcasting, f
      <3>3. pc'[u] = pc[u] /\ Client(u)' = Client(u) /\ fd' = fd
        BY <1>6, <3>1, <3>2 DEF TypeOK, SendFails, Client
      <3> QED
        BY <3>1, <3>3 DEF HalfInv
    <2> QED
      BY <2>4, <2>5, <2>6, <2>7
  <1>7. ASSUME NEW t \in Tasks, SendPayload(t) PROVE IInv'
    <2> DEFINE f == Client(t)
    <2>1. Broadcasting(t) /\ next[t] # 0 /\ f \in Fds
      BY <1>7, ClientsTyped DEF SendPayload, Broadcasting, PositionInv
    <2>2. EndFrame(t, f)
      BY <1>7 DEF SendPayload
    <2> HIDE DEF f
    <2>3. /\ half' \in [Fds -> SUBSET Tasks]
          /\ \A g \in Fds : half'[g] = IF g = f THEN half[g] \ {t} ELSE half[g]
      BY <2>1, <2>2, EndFrameRemoves
    <2>4. TypeOK'
      <3>1. next' \in [Tasks -> Nat]
        <4>1. next \in [Tasks -> Nat] /\ next' = [next EXCEPT ![t] = @ + 1]
          BY <1>7 DEF TypeOK, SendPayload
        <4> QED
          BY <4>1
      <3>2. pc' \in [Tasks -> LogSteps \union ServerSteps \union AnswerSteps]
        BY <1>7 DEF TypeOK, SendPayload
      <3> QED
        BY <1>7, <2>3, <3>1, <3>2 DEF TypeOK, SendPayload
    <2>5. RecentEntries' /\ CountInv' /\ ClientsAreSessions' /\ BroadcastsWhole'
      BY <1>7 DEF RecentEntries, CountInv, ClientsAreSessions, BroadcastsWhole, SendPayload
    <2>6. MutexInv' /\ ServerInv' /\ PositionInv'
      <3>1. MutexInv'
        BY <1>7 DEF TypeOK, MutexInv, Broadcasting, SendPayload
      <3>2. ServerInv'
        BY <1>7 DEF TypeOK, ServerInv, SendPayload
      <3>3. PositionInv'
        <4>1. next \in [Tasks -> Nat] /\ next' = [next EXCEPT ![t] = @ + 1]
          BY <1>7 DEF TypeOK, SendPayload
        <4>2. \A u \in Tasks : next'[u] # 0 /\ (u # t => next'[u] = next[u])
          BY <4>1 DEF PositionInv
        <4>3. \A u \in Tasks : pc'[u] = IF u = t THEN "header" ELSE pc[u]
          BY <1>7 DEF TypeOK, SendPayload
        <4>4. wsClients' = wsClients
          BY <1>7 DEF SendPayload
        <4> QED
          BY <4>2, <4>3, <4>4 DEF PositionInv
      <3> QED
        BY <3>1, <3>2, <3>3
    <2>7. HalfInv'
      <3> SUFFICES ASSUME NEW g \in Fds, NEW u \in half'[g]
                   PROVE  \/ pc'[u] = "payload" /\ g = Client(u)'
                          \/ pc'[u] = "answer payload" /\ u = httpd /\ g = fd'
        BY DEF HalfInv
      <3>1. u \in half[g] /\ u \in Tasks /\ ~(u = t /\ g = f)
        BY <2>3 DEF TypeOK
      <3>2. u # t
        BY <2>1, <3>1 DEF HalfInv, Broadcasting, f
      <3>3. pc'[u] = pc[u] /\ Client(u)' = Client(u) /\ fd' = fd
        BY <1>7, <3>1, <3>2 DEF TypeOK, SendPayload, Client
      <3> QED
        BY <3>1, <3>3 DEF HalfInv
    <2> QED
      BY <2>4, <2>5, <2>6, <2>7
  <1>8. ASSUME NEW t \in Tasks, Unlock(t) PROVE IInv'
    <2>1. TypeOK'
      BY <1>8 DEF TypeOK, Unlock
    <2>2. RecentEntries' /\ CountInv' /\ ClientsAreSessions' /\ BroadcastsWhole'
      BY <1>8 DEF RecentEntries, CountInv, ClientsAreSessions, BroadcastsWhole, Unlock
    <2>3. MutexInv' /\ ServerInv' /\ PositionInv'
      BY <1>8 DEF TypeOK, MutexInv, Broadcasting, ServerInv, PositionInv, Unlock
    <2>4. HalfInv'
      BY <1>8 DEF TypeOK, HalfInv, MutexInv, Broadcasting, Client, Unlock
    <2> QED
      BY <2>1, <2>2, <2>3, <2>4
  <1>9. CASE wsAddClient
    <2>1. pc[httpd] # "answer payload" /\ wsClientsMutex = None /\ fd \in Fds
      BY <1>9 DEF TypeOK, wsAddClient, MutexFree
    <2>2. \A f \in Fds : half[f] = {}
      BY <2>1, NothingHalfSent
    <2>3. wsClients' \in Seq(Fds) /\ ToSet(wsClients') = ToSet(wsClients) \union {fd}
      <3>1. CASE fd \in ToSet(wsClients)
        BY <1>9, <2>1, <3>1 DEF TypeOK, wsAddClient
      <3>2. CASE fd \notin ToSet(wsClients)
        <4>1. wsClients' = Append(wsClients, fd) /\ wsClients \in Seq(Fds)
          BY <1>9, <3>2 DEF TypeOK, wsAddClient
        <4>2. ToSet(Append(wsClients, fd)) = ToSet(wsClients) \union {fd}
          BY <2>1, <4>1, AppendSet, ZenonT(30)
        <4>3. Append(wsClients, fd) \in Seq(Fds)
          BY <2>1, <4>1, AppendProperties
        <4> QED
          BY <4>1, <4>2, <4>3
      <3> QED
        BY <3>1, <3>2
    <2>4. TypeOK'
      BY <1>9, <2>3 DEF TypeOK, wsAddClient
    <2>5. RecentEntries' /\ CountInv' /\ BroadcastsWhole'
      BY <1>9 DEF RecentEntries, CountInv, BroadcastsWhole, wsAddClient
    <2>6. ClientsAreSessions'
      BY <1>9, <2>3 DEF ClientsAreSessions, ServerInv, wsAddClient
    <2>7. MutexInv' /\ PositionInv'
      BY <1>9, <2>1 DEF TypeOK, MutexInv, Broadcasting, PositionInv, wsAddClient
    <2>8. ServerInv'
      BY <1>9, <2>3 DEF TypeOK, ServerInv, wsAddClient
    <2>9. HalfInv'
      BY <1>9, <2>2 DEF HalfInv, wsAddClient
    <2> QED
      BY <2>4, <2>5, <2>6, <2>7, <2>8, <2>9
  <1>10. CASE wsRemoveClient
    <2>1. pc[httpd] # "answer payload" /\ wsClientsMutex = None /\ fd \in Fds
      BY <1>10 DEF TypeOK, wsRemoveClient, MutexFree
    <2>2. \A f \in Fds : half[f] = {}
      BY <2>1, NothingHalfSent
    <2>3. wsClients' \in Seq(Fds) /\ ToSet(wsClients') = ToSet(wsClients) \ {fd}
      BY <1>10, <2>1, WithoutKeepsOthers DEF TypeOK, wsRemoveClient
    <2>4. TypeOK'
      BY <1>10, <2>3 DEF TypeOK, wsRemoveClient
    <2>5. RecentEntries' /\ CountInv' /\ BroadcastsWhole'
      BY <1>10 DEF RecentEntries, CountInv, BroadcastsWhole, wsRemoveClient
    <2>6. ClientsAreSessions'
      BY <1>10, <2>3 DEF ClientsAreSessions, ServerInv, wsRemoveClient
    <2>7. MutexInv' /\ PositionInv'
      BY <1>10, <2>1 DEF TypeOK, MutexInv, Broadcasting, PositionInv, wsRemoveClient
    <2>8. ServerInv'
      BY <1>10, <2>3 DEF TypeOK, ServerInv, wsRemoveClient
    <2>9. HalfInv'
      BY <1>10, <2>2 DEF HalfInv, wsRemoveClient
    <2> QED
      BY <2>4, <2>5, <2>6, <2>7, <2>8, <2>9
  <1>11. CASE CloseFd
    <2>1. TypeOK'
      BY <1>11 DEF TypeOK, CloseFd, Uses
    <2>2. RecentEntries' /\ CountInv' /\ ClientsAreSessions' /\ BroadcastsWhole'
      <3>1. RecentEntries' /\ CountInv' /\ BroadcastsWhole'
        BY <1>11 DEF RecentEntries, CountInv, BroadcastsWhole, CloseFd
      <3>2. ClientsAreSessions'
        BY <1>11, ClientsTyped DEF TypeOK, ClientsAreSessions, ServerInv, CloseFd
      <3> QED
        BY <3>1, <3>2
    <2>3. MutexInv' /\ ServerInv' /\ PositionInv'
      BY <1>11 DEF TypeOK, MutexInv, Broadcasting, ServerInv, PositionInv, CloseFd, Uses
    <2>4. HalfInv'
      BY <1>11 DEF TypeOK, HalfInv, MutexInv, Broadcasting, Client, CloseFd, Uses
    <2> QED
      BY <2>1, <2>2, <2>3, <2>4
  <1>12. CASE AnswerHeader
    <2>1. fd \in Fds /\ "answer" \in Kinds /\ StartFrame(httpd, fd, "answer")
      BY <1>12 DEF TypeOK, AnswerHeader, Kinds
    <2>2. /\ half' \in [Fds -> SUBSET Tasks]
          /\ \A g \in Fds : half'[g] = IF g = fd THEN half[g] \union {httpd} ELSE half[g]
          /\ mixed' \subseteq SUBSET Kinds
      BY <2>1, StartFrameAdds
    <2>3. TypeOK'
      BY <1>12, <2>2 DEF TypeOK, AnswerHeader
    <2>4. RecentEntries' /\ CountInv' /\ ClientsAreSessions'
      BY <1>12 DEF RecentEntries, CountInv, ClientsAreSessions, AnswerHeader
    <2>5. MutexInv' /\ ServerInv' /\ PositionInv'
      BY <1>12 DEF TypeOK, MutexInv, Broadcasting, ServerInv, PositionInv, AnswerHeader
    <2>6. HalfInv'
      <3> SUFFICES ASSUME NEW g \in Fds, NEW u \in half'[g]
                   PROVE  \/ pc'[u] = "payload" /\ g = Client(u)'
                          \/ pc'[u] = "answer payload" /\ u = httpd /\ g = fd'
        BY DEF HalfInv
      <3>1. Client(u)' = Client(u) /\ fd' = fd
        BY <1>12 DEF AnswerHeader, Client
      <3>2. CASE u = httpd
        <4>1. g = fd
          BY <1>12, <2>2, <3>2 DEF HalfInv, AnswerHeader
        <4> QED
          BY <1>12, <3>1, <3>2, <4>1 DEF TypeOK, AnswerHeader
      <3>3. CASE u # httpd
        <4>1. u \in half[g] /\ u \in Tasks /\ pc'[u] = pc[u]
          BY <1>12, <2>2, <3>3 DEF TypeOK, AnswerHeader
        <4> QED
          BY <3>1, <4>1 DEF HalfInv
      <3> QED
        BY <3>2, <3>3
    <2>7. BroadcastsWhole'
      BY <2>1 DEF BroadcastsWhole, StartFrame
    <2> QED
      BY <2>3, <2>4, <2>5, <2>6, <2>7
  <1>13. CASE AnswerPayload
    <2> DEFINE f == fd
    <2>1. pc[httpd] \in AnswerSteps /\ f \in Fds
      BY <1>13 DEF TypeOK, AnswerPayload
    <2>2. EndFrame(httpd, f)
      BY <1>13 DEF AnswerPayload
    <2> HIDE DEF f
    <2>3. /\ half' \in [Fds -> SUBSET Tasks]
          /\ \A g \in Fds : half'[g] = IF g = f THEN half[g] \ {httpd} ELSE half[g]
      BY <2>1, <2>2, EndFrameRemoves
    <2>4. TypeOK'
      BY <1>13, <2>3 DEF TypeOK, AnswerPayload
    <2>5. RecentEntries' /\ CountInv' /\ ClientsAreSessions' /\ BroadcastsWhole'
      BY <1>13 DEF RecentEntries, CountInv, ClientsAreSessions, BroadcastsWhole, AnswerPayload
    <2>6. MutexInv' /\ ServerInv' /\ PositionInv'
      BY <1>13 DEF TypeOK, MutexInv, Broadcasting, ServerInv, PositionInv, AnswerPayload
    <2>7. HalfInv'
      <3> SUFFICES ASSUME NEW g \in Fds, NEW u \in half'[g]
                   PROVE  \/ pc'[u] = "payload" /\ g = Client(u)'
                          \/ pc'[u] = "answer payload" /\ u = httpd /\ g = fd'
        BY DEF HalfInv
      <3>1. u \in half[g] /\ u \in Tasks /\ ~(u = httpd /\ g = f)
        BY <2>3 DEF TypeOK
      <3>2. u # httpd
        BY <2>1, <3>1 DEF HalfInv, f
      <3>3. pc'[u] = pc[u] /\ Client(u)' = Client(u) /\ fd' = fd
        BY <1>13, <3>1, <3>2 DEF TypeOK, AnswerPayload, Client
      <3> QED
        BY <3>1, <3>3 DEF HalfInv
    <2> QED
      BY <2>4, <2>5, <2>6, <2>7
  <1>14. CASE AnswerFails
    <2> DEFINE f == fd
    <2>1. pc[httpd] \in AnswerSteps /\ f \in Fds
      BY <1>14 DEF TypeOK, AnswerFails
    <2>2. EndFrame(httpd, f)
      BY <1>14 DEF AnswerFails
    <2> HIDE DEF f
    <2>3. /\ half' \in [Fds -> SUBSET Tasks]
          /\ \A g \in Fds : half'[g] = IF g = f THEN half[g] \ {httpd} ELSE half[g]
      BY <2>1, <2>2, EndFrameRemoves
    <2>4. TypeOK'
      BY <1>14, <2>3 DEF TypeOK, AnswerFails
    <2>5. RecentEntries' /\ CountInv' /\ ClientsAreSessions' /\ BroadcastsWhole'
      BY <1>14 DEF RecentEntries, CountInv, ClientsAreSessions, BroadcastsWhole, AnswerFails
    <2>6. MutexInv' /\ ServerInv' /\ PositionInv'
      BY <1>14 DEF TypeOK, MutexInv, Broadcasting, ServerInv, PositionInv, AnswerFails
    <2>7. HalfInv'
      <3> SUFFICES ASSUME NEW g \in Fds, NEW u \in half'[g]
                   PROVE  \/ pc'[u] = "payload" /\ g = Client(u)'
                          \/ pc'[u] = "answer payload" /\ u = httpd /\ g = fd'
        BY DEF HalfInv
      <3>1. u \in half[g] /\ u \in Tasks /\ ~(u = httpd /\ g = f)
        BY <2>3 DEF TypeOK
      <3>2. u # httpd
        BY <2>1, <3>1 DEF HalfInv, f
      <3>3. pc'[u] = pc[u] /\ Client(u)' = Client(u) /\ fd' = fd
        BY <1>14, <3>1, <3>2 DEF TypeOK, AnswerFails, Client
      <3> QED
        BY <3>1, <3>3 DEF HalfInv
    <2> QED
      BY <2>4, <2>5, <2>6, <2>7
  <1>15. CASE RegisterHandler
    BY <1>15 DEF RegisterHandler, TypeOK, RecentEntries, CountInv, MutexInv, Broadcasting, ServerInv,
        ClientsAreSessions, PositionInv, HalfInv, Client, BroadcastsWhole
  <1>16. CASE AddListener
    BY <1>16 DEF AddListener, TypeOK, RecentEntries, CountInv, MutexInv, Broadcasting, ServerInv,
        ClientsAreSessions, PositionInv, HalfInv, Client, BroadcastsWhole
  <1>17. ASSUME NEW f \in Fds, Accept(f) PROVE IInv'
    <2>1. TypeOK'
      BY <1>17 DEF TypeOK, Accept, Uses
    <2>2. RecentEntries' /\ CountInv' /\ ClientsAreSessions' /\ BroadcastsWhole'
      <3>1. RecentEntries' /\ CountInv' /\ BroadcastsWhole'
        BY <1>17 DEF RecentEntries, CountInv, BroadcastsWhole, Accept
      <3>2. ClientsAreSessions'
        BY <1>17, ClientsTyped DEF TypeOK, ClientsAreSessions, ServerInv, Accept
      <3> QED
        BY <3>1, <3>2
    <2>3. MutexInv' /\ ServerInv' /\ PositionInv'
      BY <1>17 DEF TypeOK, MutexInv, Broadcasting, ServerInv, PositionInv, Accept, Uses
    <2>4. HalfInv'
      BY <1>17 DEF TypeOK, HalfInv, MutexInv, Broadcasting, Client, Accept, Uses
    <2> QED
      BY <2>1, <2>2, <2>3, <2>4
  <1>18. ASSUME NEW f \in Fds, Handshake(f) PROVE IInv'
    <2>1. TypeOK'
      BY <1>18 DEF TypeOK, Handshake, Uses
    <2>2. RecentEntries' /\ CountInv' /\ ClientsAreSessions' /\ BroadcastsWhole'
      <3>1. RecentEntries' /\ CountInv' /\ BroadcastsWhole'
        BY <1>18 DEF RecentEntries, CountInv, BroadcastsWhole, Handshake
      <3>2. ClientsAreSessions'
        BY <1>18, ClientsTyped DEF TypeOK, ClientsAreSessions, ServerInv, Handshake
      <3> QED
        BY <3>1, <3>2
    <2>3. MutexInv' /\ ServerInv' /\ PositionInv'
      BY <1>18 DEF TypeOK, MutexInv, Broadcasting, ServerInv, PositionInv, Handshake, Uses
    <2>4. HalfInv'
      BY <1>18 DEF TypeOK, HalfInv, MutexInv, Broadcasting, Client, Handshake, Uses
    <2> QED
      BY <2>1, <2>2, <2>3, <2>4
  <1>19. ASSUME NEW f \in Fds, Request(f) PROVE IInv'
    <2>1. TypeOK'
      BY <1>19 DEF TypeOK, Request
    <2>2. RecentEntries' /\ CountInv' /\ ClientsAreSessions' /\ BroadcastsWhole'
      BY <1>19 DEF RecentEntries, CountInv, ClientsAreSessions, BroadcastsWhole, Request
    <2>3. MutexInv' /\ ServerInv' /\ PositionInv'
      BY <1>19 DEF TypeOK, MutexInv, Broadcasting, ServerInv, PositionInv, Request
    <2>4. HalfInv'
      BY <1>19 DEF TypeOK, HalfInv, MutexInv, Broadcasting, Client, Request
    <2> QED
      BY <2>1, <2>2, <2>3, <2>4
  <1>20. ASSUME NEW f \in Fds, CloseSession(f) PROVE IInv'
    <2>1. TypeOK'
      BY <1>20 DEF TypeOK, CloseSession
    <2>2. RecentEntries' /\ CountInv' /\ ClientsAreSessions' /\ BroadcastsWhole'
      BY <1>20 DEF RecentEntries, CountInv, ClientsAreSessions, BroadcastsWhole, CloseSession
    <2>3. MutexInv' /\ ServerInv' /\ PositionInv'
      BY <1>20 DEF TypeOK, MutexInv, Broadcasting, ServerInv, PositionInv, CloseSession
    <2>4. HalfInv'
      BY <1>20 DEF TypeOK, HalfInv, MutexInv, Broadcasting, Client, CloseSession
    <2> QED
      BY <2>1, <2>2, <2>3, <2>4
  <1>21. CASE UNCHANGED vars
    BY <1>21 DEF vars, TypeOK, RecentEntries, CountInv, MutexInv, Broadcasting, ServerInv,
        ClientsAreSessions, PositionInv, HalfInv, Client, BroadcastsWhole
  <1> QED
    BY <1>1, <1>2, <1>3, <1>4, <1>5, <1>6, <1>7, <1>8, <1>9, <1>10, <1>11, <1>12, <1>13, <1>14, <1>15, <1>16, <1>17, <1>18, <1>19, <1>20, <1>21
       DEF Next, LogStep, ServerStep, Answer

(* The inductive invariant holds of every run.                              *)
THEOREM Invariance == Spec => []IInv
  <1> QED
    BY InitIInv, NextIInv, PTL DEF Spec

(* The type invariant, for any tasks and descriptors.                       *)
THEOREM TypeCorrect == Spec => []TypeOK
  <1>1. IInv => TypeOK
    BY DEF IInv
  <1> QED
    BY <1>1, Invariance, PTL

(* The log holds the most recent messages in order, for any capacity and    *)
(* any number of tasks that log at once (Logger::addEntry).                 *)
THEOREM LogKeepsRecent == Spec => []RecentEntries
  <1>1. IInv => RecentEntries
    BY DEF IInv
  <1> QED
    BY <1>1, Invariance, PTL

(* No message goes to a closed descriptor or to a connection that has got   *)
(* the descriptor of a client (wsRemoveClient before close).                *)
THEOREM ClientsOpen == Spec => []ClientsAreSessions
  <1>1. IInv => ClientsAreSessions
    BY DEF IInv
  <1> QED
    BY <1>1, Invariance, PTL

(* Two broadcasts are never within each other's frames (wsBroadcast holds   *)
(* wsClientsMutex while it sends).                                          *)
THEOREM BroadcastsApart == Spec => []BroadcastsWhole
  <1>1. IInv => BroadcastsWhole
    BY DEF IInv
  <1> QED
    BY <1>1, Invariance, PTL

(* While a task goes through the clients nobody adds or removes one: the    *)
(* loop of wsBroadcast never sees its vector change.                        *)
ClientsStable == [][(\E t \in Tasks : Broadcasting(t)) => UNCHANGED wsClients]_vars

THEOREM BroadcastSeesOneList == Spec => ClientsStable
  <1>1. IInv /\ [Next]_vars => [(\E t \in Tasks : Broadcasting(t)) => UNCHANGED wsClients]_vars
    <2> SUFFICES ASSUME IInv, [Next]_vars, NEW t \in Tasks, Broadcasting(t)
                 PROVE  UNCHANGED wsClients
      OBVIOUS
    <2>1. wsClientsMutex # None
      BY DEF IInv, MutexInv
    <2>2. ~wsAddClient /\ ~wsRemoveClient
      BY <2>1 DEF wsAddClient, wsRemoveClient, MutexFree
    <2> QED
      BY <2>2 DEF Next, LogStep, ServerStep, Answer, Log, addEntry, CopyListeners, Lock, SendHeader,
        SendFails, SendPayload, Unlock, RegisterHandler, AddListener, Accept, Handshake, Request,
        AnswerHeader, AnswerPayload, AnswerFails, CloseSession, CloseFd, vars
  <1> QED
    BY <1>1, Invariance, PTL DEF Spec, ClientsStable
=============================================================================
