------------------------------ MODULE EspLittleFs ------------------------------
(***************************************************************************)
(* The layer between the C library's files and littlefs (esp_littlefs.c).   *)
(* A registered partition is a context: it has a lock, a table of           *)
(* descriptors and a list of the open files.  Each operation on files looks *)
(* its context up, takes the lock, works, and gives the lock back; formats  *)
(* and unregistering delete the context without asking who uses it.         *)
(*                                                                          *)
(* A call is two steps: Call finds the context, and one of the actions      *)
(* below it does the work, under the lock.  What littlefs itself does with  *)
(* a file is external here: LittleFs has it.                                *)
(***************************************************************************)
EXTENDS Integers, Sequences, FiniteSetsExt, SequencesExt

CONSTANTS
  Tasks,
  Files,       \* the files on the flash, as paths
  None,
  Contexts,    \* bound: the contexts that are ever made, 1..n
  MAX_PARTITIONS,
  FD_MIN,      \* CONFIG_LITTLEFS_FD_CACHE_MIN_SIZE
  MaxFaults    \* bound: how often the flash is full or fails

ASSUME EspLittleFsAssumption ==
  /\ MAX_PARTITIONS \in Nat \ {0}
  /\ FD_MIN \in Nat \ {0}
  /\ MaxFaults \in Nat
  /\ Contexts \subseteq Nat /\ 1 \in Contexts /\ None \notin Contexts

VARIABLES
  flash,     \* what littlefs has in each file, None if there is no such file
  efs,       \* _efs: the contexts of the partition by slot
  vfs,       \* the context the mount point is registered with
  fds,       \* each task's open file: its context and descriptor
  fsCall,    \* the call of each task that is in this layer
  fsResult,  \* what its last call returned
  format,    \* where each task is in the action "format"
  faults,
  ub         \* the undefined behaviour (or wrong file) that there has been

fsVars == <<flash, efs, vfs, fds, fsCall, fsResult, format, faults, ub>>

NoCallFS == [op |-> "none", ctx |-> None, path |-> None, mode |-> "r", data |-> <<>>]
NoFile == [ctx |-> None, fd |-> 0, path |-> None]

Context(id, mounted) ==
  [id |-> id, mounted |-> mounted, fd_count |-> 0,
   cache |-> IF mounted THEN [i \in 1..FD_MIN |-> None] ELSE <<>>]

Slots == 1..MAX_PARTITIONS
Live  == {efs[i] : i \in {i \in Slots : efs[i] # None}}
Slot(id) == CHOOSE i \in Slots : efs[i] # None /\ efs[i].id = id
IsLive(id) == \E c \in Live : c.id = id

InitFS ==
  /\ flash \in {[f \in Files |-> None], [f \in Files |-> <<"o">>]}
  /\ efs = [i \in Slots |-> IF i = 1 THEN Context(1, TRUE) ELSE None]
  /\ vfs = 1
  /\ fds = [t \in Tasks |-> NoFile]
  /\ fsCall = [t \in Tasks |-> NoCallFS]
  /\ fsResult = [t \in Tasks |-> "ok"]
  /\ format = [t \in Tasks |-> [pc |-> "idle", slot |-> 0, tmp |-> FALSE]]
  /\ faults = 0
  /\ ub = "none"

-----------------------------------------------------------------------------
(* ESP-IDF's virtual file system finds the context of the mount point; its  *)
(* files were closed if it has been unregistered since.                     *)
Call(t, c) ==
  IF vfs = None \/ (c.op # "open" /\ fds[t] = NoFile)
  THEN /\ fsResult' = [fsResult EXCEPT ![t] = "error"]
       /\ fds' = IF c.op = "close" THEN [fds EXCEPT ![t] = NoFile] ELSE fds
       /\ UNCHANGED fsCall
  ELSE /\ fsCall' = [fsCall EXCEPT ![t] = [c EXCEPT !.ctx = vfs]]
       /\ UNCHANGED <<fsResult, fds>>

Returns(t, result) ==
  /\ fsCall' = [fsCall EXCEPT ![t] = NoCallFS]
  /\ fsResult' = [fsResult EXCEPT ![t] = result]

Fault == faults < MaxFaults /\ faults' = faults + 1

(* sem_take with the context that was looked up: it may be gone by now.     *)
Enters(t, op) ==
  /\ fsCall[t].op = op
  /\ IsLive(fsCall[t].ctx)

Deleted(t) ==
  /\ fsCall[t].op # "none"
  /\ ~IsLive(fsCall[t].ctx)
  /\ ub' = "context used after it was freed"
  /\ UNCHANGED <<flash, efs, vfs, fds, fsCall, fsResult, format, faults>>

Ctx(t) == efs[Slot(fsCall[t].ctx)]

(* The test of a descriptor: one that was opened before the partition was   *)
(* registered again need not be in the table.                               *)
Known(t) == fds[t].fd \in DOMAIN Ctx(t).cache /\ Ctx(t).cache[fds[t].fd] # None

SetCtx(t, c) == efs' = [efs EXCEPT ![Slot(fsCall[t].ctx)] = c]

-----------------------------------------------------------------------------
(* Descriptors: an array of places that grows, and the number in use        *)

NewFile(t, data) ==
  [task |-> t, path |-> fsCall[t].path, data |-> data, dirty |-> FALSE, errored |-> FALSE]

Grown_OffByOne(c) ==
  IF c.fd_count > Len(c.cache)
  THEN [c EXCEPT !.cache = @ \o [i \in DOMAIN @ |-> None]] ELSE c

(* The array is doubled when it is full, and its new half cleared.          *)
Grown(c) ==
  IF c.fd_count + 1 > Len(c.cache)
  THEN [c EXCEPT !.cache = @ \o [i \in DOMAIN @ |-> None]] ELSE c

(* The first free place; without one the loop ends behind the array.        *)
FreePlace(c) ==
  Min({i \in DOMAIN c.cache : c.cache[i] = None} \union {Len(c.cache) + 1})

esp_littlefs_allocate_fd(c, file) ==
  [c EXCEPT !.cache = [i \in DOMAIN @ |-> IF i = FreePlace(c) THEN file ELSE @[i]],
            !.fd_count = @ + 1]

esp_littlefs_free_fd(c, fd) == [c EXCEPT !.cache[fd] = None, !.fd_count = @ - 1]

(* vfs_littlefs_open: opening for writing creates or empties the file, and  *)
(* the sync after it writes that to the flash at once.                      *)
vfs_littlefs_open(t) ==
  LET c == fsCall[t]
      old == flash[c.path]
      data == IF c.mode = "w" \/ old = None THEN <<>> ELSE old
      ctx == Grown(Ctx(t))
  IN /\ Enters(t, "open")
     /\ UNCHANGED <<vfs, format, ub>>
     /\ \/ /\ c.mode # "r" \/ old # None
           /\ SetCtx(t, esp_littlefs_allocate_fd(ctx, NewFile(t, data)))
           /\ fds' = [fds EXCEPT ![t] = [ctx |-> c.ctx, fd |-> FreePlace(ctx), path |-> c.path]]
           /\ flash' = IF c.mode = "r" THEN flash ELSE [flash EXCEPT ![c.path] = data]
           /\ Returns(t, "ok") /\ UNCHANGED faults
        \/ /\ c.mode = "r" /\ old = None
           /\ Returns(t, "error") /\ UNCHANGED <<flash, efs, fds, faults>>
        \/ /\ Fault
           /\ Returns(t, "error") /\ UNCHANGED <<flash, efs, fds>>

(* The open file of a task that the context has under its descriptor        *)
FileOf(t) == Ctx(t).cache[fds[t].fd]

Owns(t) == Known(t) /\ FileOf(t).task = t

(* vfs_littlefs_write: into the file's own buffer and blocks.  A failure    *)
(* marks the file, and what it has is then never synced.                    *)
vfs_littlefs_write(t) ==
  /\ Enters(t, "write") /\ Owns(t)
  /\ \/ /\ SetCtx(t, [Ctx(t) EXCEPT !.cache[fds[t].fd].data = @ \o fsCall[t].data,
                                     !.cache[fds[t].fd].dirty = TRUE])
        /\ Returns(t, "ok") /\ UNCHANGED faults
     \/ /\ Fault
        /\ SetCtx(t, [Ctx(t) EXCEPT !.cache[fds[t].fd].errored = TRUE])
        /\ Returns(t, "error")
  /\ UNCHANGED <<flash, vfs, fds, format, ub>>

vfs_littlefs_read(t) ==
  /\ Enters(t, "read") /\ Owns(t)
  /\ Returns(t, "ok")
  /\ UNCHANGED <<flash, efs, vfs, fds, format, faults, ub>>

(* vfs_littlefs_close: the file is synced; if that fails its descriptor is  *)
(* not freed, though the caller's is.                                       *)
vfs_littlefs_close(t) ==
  LET file == FileOf(t)
      synced == IF file.dirty /\ ~file.errored
                THEN [flash EXCEPT ![file.path] = file.data] ELSE flash
  IN /\ Enters(t, "close") /\ Owns(t)
     /\ fds' = [fds EXCEPT ![t] = NoFile]
     /\ UNCHANGED <<vfs, format, ub>>
     /\ \/ /\ SetCtx(t, esp_littlefs_free_fd(Ctx(t), fds[t].fd))
           /\ flash' = synced
           /\ Returns(t, "ok") /\ UNCHANGED faults
        \/ /\ file.dirty /\ ~file.errored
           /\ Fault
           /\ Returns(t, "error") /\ UNCHANGED <<flash, efs>>

BadDescriptor(t) ==
  /\ fsCall[t].op \in {"write", "read", "close"}
  /\ IsLive(fsCall[t].ctx)
  /\ ~Known(t)
  /\ Returns(t, "error")
  /\ fds' = IF fsCall[t].op = "close" THEN [fds EXCEPT ![t] = NoFile] ELSE fds
  /\ UNCHANGED <<flash, efs, vfs, format, faults, ub>>

(* A descriptor of an earlier registration may be that of another file now: *)
(* what is done to that file ends the behaviour.                            *)
OtherFile(t) ==
  /\ fsCall[t].op \in {"write", "read", "close"}
  /\ IsLive(fsCall[t].ctx)
  /\ Known(t) /\ FileOf(t).task # t
  /\ ub' = "another task's file used"
  /\ UNCHANGED <<flash, efs, vfs, fds, fsCall, fsResult, format, faults>>

FileOperation(t) ==
  \/ vfs_littlefs_open(t) \/ vfs_littlefs_write(t)
  \/ vfs_littlefs_read(t) \/ vfs_littlefs_close(t)
  \/ BadDescriptor(t) \/ OtherFile(t) \/ Deleted(t)

-----------------------------------------------------------------------------
(* The action "format": unregister, format, register                        *)

At(t, pc) == format[t].pc = pc

Go(t, pc, slot, tmp) == format' = [format EXCEPT ![t] = [pc |-> pc, slot |-> slot, tmp |-> tmp]]

Found == \E i \in Slots : efs[i] # None
esp_littlefs_by_label == Min({i \in Slots : efs[i] # None})

StartFormat(t) ==
  /\ At(t, "idle")
  /\ Go(t, "unregister", 0, FALSE)
  /\ UNCHANGED <<flash, efs, vfs, fds, fsCall, fsResult, faults, ub>>

(* The mount point goes first, and with it the files that are open on it.   *)
Unregister(t) ==
  /\ At(t, "unregister")
  /\ IF Found /\ efs[esp_littlefs_by_label].id = vfs
     THEN /\ vfs' = None
          /\ fds' = [u \in Tasks |-> IF fds[u].ctx = vfs THEN NoFile ELSE fds[u]]
          /\ Go(t, "free", esp_littlefs_by_label, FALSE)
     ELSE Go(t, "format", 0, FALSE) /\ UNCHANGED <<vfs, fds>>
  /\ UNCHANGED <<flash, efs, fsCall, fsResult, faults, ub>>

esp_littlefs_free(t) ==
  /\ At(t, "free")
  /\ efs' = [efs EXCEPT ![format[t].slot] = None]
  /\ Go(t, "format", 0, FALSE)
  /\ UNCHANGED <<flash, vfs, fds, fsCall, fsResult, faults, ub>>

Unused == Contexts \ ({c.id : c \in Live} \union {fds[t].ctx : t \in Tasks}
                        \union {fsCall[t].ctx : t \in Tasks} \union {vfs})

EmptySlots == {i \in Slots : efs[i] = None}

(* esp_littlefs_init, with its own lock, for a context that is not there:   *)
(* one that is already registered is freed (the slot that was found is used *)
(* to clean up), whoever has it.                                            *)
esp_littlefs_init(mounted) ==
  IF Found THEN efs' = [efs EXCEPT ![esp_littlefs_by_label] = None]
  ELSE efs' = [efs EXCEPT ![Min(EmptySlots)] = Context(Min(Unused), mounted)]

(* esp_littlefs_format: a temporary context if there is none                *)
FormatContext(t) ==
  /\ At(t, "format")
  /\ IF Found THEN Go(t, "erase", esp_littlefs_by_label, FALSE) /\ UNCHANGED efs
     ELSE /\ Unused # {}
          /\ esp_littlefs_init(FALSE)
          /\ Go(t, "erase", Min(EmptySlots), TRUE)
  /\ UNCHANGED <<flash, vfs, fds, fsCall, fsResult, faults, ub>>

(* format_from_efs: a mounted context is unmounted and mounted again        *)
FormatFlash(t) ==
  /\ At(t, "erase")
  /\ LET c == efs[format[t].slot] IN
     IF c = None
     THEN /\ ub' = "formatting without a context"
          /\ UNCHANGED <<flash, efs, format>>
     ELSE /\ flash' = [f \in Files |-> None]
          /\ efs' = [efs EXCEPT ![format[t].slot] = Context(c.id, c.mounted)]
          /\ Go(t, IF format[t].tmp THEN "freeTmp" ELSE "init", format[t].slot, FALSE)
          /\ UNCHANGED ub
  /\ UNCHANGED <<vfs, fds, fsCall, fsResult, faults>>

FreeTemporary(t) ==
  /\ At(t, "freeTmp")
  /\ efs' = [efs EXCEPT ![format[t].slot] = None]
  /\ Go(t, "init", 0, FALSE)
  /\ UNCHANGED <<flash, vfs, fds, fsCall, fsResult, faults, ub>>

InitContext(t) ==
  /\ At(t, "init")
  /\ Unused # {} \/ Found
  /\ esp_littlefs_init(TRUE)
  /\ IF Found THEN Go(t, "idle", 0, FALSE) ELSE Go(t, "register", Min(EmptySlots), FALSE)
  /\ UNCHANGED <<flash, vfs, fds, fsCall, fsResult, faults, ub>>

(* esp_vfs_littlefs_register, its last step                                 *)
Register(t) ==
  /\ At(t, "register")
  /\ IF efs[format[t].slot] = None THEN ub' = "registering a freed context" /\ UNCHANGED vfs
     ELSE vfs' = efs[format[t].slot].id /\ UNCHANGED ub
  /\ Go(t, "idle", 0, FALSE)
  /\ UNCHANGED <<flash, efs, fds, fsCall, fsResult, faults>>

FormatStep(t) ==
  \/ Unregister(t) \/ esp_littlefs_free(t) \/ FormatContext(t) \/ FormatFlash(t)
  \/ FreeTemporary(t) \/ InitContext(t) \/ Register(t)
===============================================================================
