-------------------------------- MODULE SdCard --------------------------------
(***************************************************************************)
(* Mounting the SD card (SdCardFeature.cpp).  Serial commands, scripts and  *)
(* WebSocket clients may all send `sd mount`, `sd unmount` and `sd info`;   *)
(* nothing keeps them apart.  sdMounted and sdCard are what the firmware    *)
(* knows, `volume` is what the SD driver has mounted.  Allocated structures *)
(* are numbered, so that a pointer to one that was freed can be told from   *)
(* one to its successor.                                                    *)
(***************************************************************************)
EXTENDS Integers, Sequences

CONSTANTS
  SdTasks,   \* the tasks that send sd commands
  Cards,     \* bound: the card structures that are ever allocated, 1..n
  NoCard

VARIABLES
  sdMounted, sdCard,  \* the flag and the pointer
  volume,             \* the card that is mounted
  freed,              \* card structures that were freed
  sd,                 \* where each task is in a command, and what it has read
  sdUb

sdVars == <<sdMounted, sdCard, volume, freed, sd, sdUb>>

(* SdCardFeature's setup has mounted the card if there was one.             *)
InitSd ==
  /\ \/ sdMounted = FALSE /\ sdCard = NoCard /\ volume = NoCard
     \/ sdMounted = TRUE /\ sdCard = 1 /\ volume = 1
  /\ freed = {}
  /\ sd = [t \in SdTasks |-> [pc |-> "idle", card |-> NoCard]]
  /\ sdUb = FALSE

SdAt(t, pc) == sd[t].pc = pc
SdGo(t, pc) == sd' = [sd EXCEPT ![t] = [pc |-> pc, card |-> NoCard]]

(* sdHandler: which command, and its test of sdMounted                      *)
MountAllowed == ~sdMounted

Mount(t) ==
  /\ SdAt(t, "idle") /\ MountAllowed
  /\ SdGo(t, "mount")
  /\ UNCHANGED <<sdMounted, sdCard, volume, freed, sdUb>>

UnmountAllowed == sdMounted

Unmount(t) ==
  /\ SdAt(t, "idle") /\ UnmountAllowed
  /\ SdGo(t, "unmount")
  /\ UNCHANGED <<sdMounted, sdCard, volume, freed, sdUb>>

Info(t) ==
  /\ SdAt(t, "idle") /\ sdMounted
  /\ SdGo(t, "type")
  /\ UNCHANGED <<sdMounted, sdCard, volume, freed, sdUb>>

(* esp_vfs_fat_sdspi_mount: with no card, or if one is mounted already, it  *)
(* fails and leaves the pointer alone.                                      *)
DriverMounts(t) ==
  /\ SdAt(t, "mount")
  /\ \/ /\ volume = NoCard
        /\ \E c \in Cards \ freed :
             /\ \A d \in Cards \ freed : c <= d
             /\ volume' = c /\ sdCard' = c
        /\ SdGo(t, "mounted")
     \/ /\ SdGo(t, "idle")
        /\ UNCHANGED <<volume, sdCard>>
  /\ UNCHANGED <<sdMounted, freed, sdUb>>

(* The flag is set before the answer is made, which reads the card.         *)
SetMounted(t) ==
  /\ SdAt(t, "mounted")
  /\ sdMounted' = TRUE
  /\ SdGo(t, "type")
  /\ UNCHANGED <<sdCard, volume, freed, sdUb>>

(* getSdCardTypeName, getSdCardSize: the pointer is tested, then used.      *)
TestCard(t) ==
  /\ SdAt(t, "type")
  /\ SdGo(t, IF sdMounted /\ sdCard # NoCard THEN "use" ELSE "idle")
  /\ UNCHANGED <<sdMounted, sdCard, volume, freed, sdUb>>

UseCard(t) ==
  /\ SdAt(t, "use")
  /\ sdUb' = (sdCard = NoCard \/ sdCard \in freed)
  /\ SdGo(t, "idle")
  /\ UNCHANGED <<sdMounted, sdCard, volume, freed>>

(* doUnmount: the pointer is read for the call,                             *)
ReadCard(t) ==
  /\ SdAt(t, "unmount")
  /\ sd' = [sd EXCEPT ![t] = [pc |-> "driver", card |-> sdCard]]
  /\ UNCHANGED <<sdMounted, sdCard, volume, freed, sdUb>>

(* esp_vfs_fat_sdcard_unmount refuses a card it does not know; its result   *)
(* is ignored;                                                              *)
DriverUnmounts(t) ==
  /\ SdAt(t, "driver")
  /\ IF sd[t].card = volume /\ volume # NoCard
     THEN volume' = NoCard /\ freed' = freed \union {volume}
     ELSE UNCHANGED <<volume, freed>>
  /\ SdGo(t, "clear")
  /\ UNCHANGED <<sdMounted, sdCard, sdUb>>

(* and the pointer and the flag are cleared.                                *)
ClearCard(t) ==
  /\ SdAt(t, "clear")
  /\ sdCard' = NoCard
  /\ SdGo(t, "unmounted")
  /\ UNCHANGED <<sdMounted, volume, freed, sdUb>>

SetUnmounted(t) ==
  /\ SdAt(t, "unmounted")
  /\ sdMounted' = FALSE
  /\ SdGo(t, "idle")
  /\ UNCHANGED <<sdCard, volume, freed, sdUb>>

SdStep(t) ==
  /\ ~sdUb
  /\ \/ Mount(t) \/ Unmount(t) \/ Info(t)
     \/ DriverMounts(t) \/ SetMounted(t) \/ TestCard(t) \/ UseCard(t)
     \/ ReadCard(t) \/ DriverUnmounts(t) \/ ClearCard(t) \/ SetUnmounted(t)

===============================================================================
