-------------------------------- MODULE LittleFs --------------------------------
(***************************************************************************)
(* littlefs as the firmware uses it: the operations of lfs.c that the VFS   *)
(* layer of esp_littlefs.c calls, one after the other because it holds its  *)
(* lock for each of them, and the loss of power at any point of them.       *)
(*                                                                          *)
(* An operation that writes first repairs what a loss of power has left     *)
(* (lfs_fs_forceconsistency), then looks up its paths, and then changes the *)
(* disk in one commit after the other, each of which LfsCommit takes apart. *)
(***************************************************************************)
EXTENDS LfsCommit

CONSTANTS
  Scenarios, \* bound: [first, then, more, tired, failures]: the requests that come
             \* first, without a loss of power, those of which some follow, how many
             \* do, how often blocks are tired and how often the power fails
  MaxPieces  \* bound: how many pieces are written to a file

VARIABLES
  op,      \* the operation that runs, and how the last one ended
  listing, \* what the open directory has listed, and what it should list
  tree,    \* what the disk holds, Tree(disk)
  todo     \* the scenario: what is left of it

vars == <<disk, lfs, mlist, commit, fix, tired, failures, op, listing, tree, todo>>
noop == <<disk, lfs, mlist, commit, fix, tired, failures>>

NoOp == [req |-> {}, before |-> <<>>, answer |-> "none", pc |-> "none", m |-> NoMDir, id |-> NoId,
         dir |-> {}, pred |-> NoMDir, old |-> NoMDir, oldid |-> NoId]

NoListing == [of |-> <<>>, on |-> FALSE, names |-> <<>>, stay |-> {}, ever |-> {}, ended |-> FALSE]

Unmounted == [root |-> {}, move |-> {}, orphans |-> 0, gdisk |-> {}, gdelta |-> {},
              alloc |-> [next |-> 0, window |-> 0, ckpoint |-> N, free |-> {}]]
Mounted == lfs.root # {}

Handles == [s \in Slots |-> None]

-----------------------------------------------------------------------------
(* lfs_format, and a mount                                                  *)
Fresh == [pair |-> <<1, 0>>, rev |-> 1, log |-> 1, erased |-> TRUE, entries |-> <<SuperEntry>>,
          tail |-> {}, split |-> FALSE, delta |-> {}]

Format == [b \in Blocks |-> CASE b = 1 -> Image(Fresh)
                              [] b = 0 -> Image([Fresh EXCEPT !.rev = 0])
                              [] OTHER -> Junk]

Init ==
  /\ disk = Format /\ lfs = Unmounted /\ mlist = Handles
  /\ commit = NoCommit /\ fix = NoFix
  /\ op = NoOp /\ listing = NoListing /\ tree = <<>>
  /\ \E s \in Scenarios : /\ todo = [first |-> s.first, then |-> s.then, more |-> s.more]
                          /\ tired = s.tired /\ failures = s.failures

(* lfs_mount: the state is what all pairs of the list have of it; the       *)
(* allocator starts where a seed of the pairs' checksums says.              *)
lfs_mount ==
  /\ ~Mounted
  /\ LET gs == GState(disk) IN
     \E start \in {0, N \div 2} :
     lfs' = [root |-> Root(disk), move |-> gs \ {Orphan}, orphans |-> IF Orphan \in gs THEN 1 ELSE 0,
             gdisk |-> gs, gdelta |-> {},
             alloc |-> [next |-> start, window |-> 0, ckpoint |-> N, free |-> {}]]
  /\ UNCHANGED <<disk, mlist, commit, fix, tired, failures, op, todo>>

-----------------------------------------------------------------------------
(* Requests                                                                 *)

Find(path) == lfs_dir_find(disk, lfs.gdisk, lfs.root, path)
File == mlist["file"]

Free == Mounted /\ Ready /\ op.req = {}
Busy(pc) == Ready /\ op.req # {} /\ op.pc = pc
Req == Only(op.req)

Stat(path) == UNION {f.entry : f \in {f \in {Find(path)} : f.found}}

(* Is there an open file with this path?                                    *)
esp_littlefs_get_fd_by_name(path) == Open(File) /\ File.path = path

(* What esp_littlefs.c refuses itself.  Bound: no directory is renamed to   *)
(* a place below itself, which littlefs does not refuse, and none while a   *)
(* file below it is open.                                                   *)
Passes(r) ==
  CASE r.kind = "unlink" -> ~esp_littlefs_get_fd_by_name(r.path) /\ \E e \in Stat(r.path) : ~IsDir(e)
    [] r.kind = "rmdir"  -> \E e \in Stat(r.path) : IsDir(e)
    [] r.kind = "rename" -> /\ ~esp_littlefs_get_fd_by_name(r.path)
                            /\ ~esp_littlefs_get_fd_by_name(r.to)
                            /\ ~IsStrictPrefix(r.path, r.to)
                            /\ ~(Open(File) /\ IsStrictPrefix(r.path, File.path))
    [] r.kind = "mkdir"  -> TRUE
    [] r.kind = "open"   -> ~Open(File)

Request ==
  /\ Free
  /\ IF todo.first # <<>> THEN todo' = [todo EXCEPT !.first = Tail(@)]
     ELSE todo.more > 0 /\ todo' = [todo EXCEPT !.more = @ - 1]
  /\ \E r \in IF todo.first # <<>> THEN {Head(todo.first)} ELSE todo.then :
       /\ Passes(r)
       /\ op' = [NoOp EXCEPT !.req = {r}, !.before = tree, !.pc = "begin"]
  /\ UNCHANGED noop

Return(answer) == op' = [NoOp EXCEPT !.answer = answer]

Commit(own, m, attrs) == StartCommit("op", own, m, attrs)

(* lfs_fs_forceconsistency: lfs_fs_demove, lfs_fs_deorphan                  *)
lfs_fs_demove ==
  /\ Busy("begin")
  /\ \E f \in lfs.gdisk \ {Orphan} :
       /\ lfs' = [lfs EXCEPT !.move = {}]
       /\ Commit("none", lfs_dir_fetch(disk, f[1]), <<Delete(f[2])>>)
  /\ UNCHANGED <<disk, mlist, fix, tired, failures, op, todo>>

lfs_fs_deorphan ==
  /\ Busy("begin") /\ lfs.gdisk \subseteq {Orphan} /\ lfs.orphans > 0
  /\ StartFix(TRUE)
  /\ UNCHANGED <<disk, lfs, mlist, commit, tired, failures, op, todo>>

Begin(kind) == Busy("begin") /\ Req.kind = kind /\ lfs.gdisk \subseteq {Orphan} /\ lfs.orphans = 0

-----------------------------------------------------------------------------
(* lfs_mkdir: the new pair takes over the tail of its directory's last      *)
(* pair, is linked behind that, and gets its entry.                         *)

lfs_mkdir ==
  /\ Begin("mkdir")
  /\ \E f \in {Find(Req.path)}, a \in {lfs_dir_alloc(lfs_alloc_ckpoint(lfs))} :
     LET pred == Last(Chain(disk, f.m))
     IN /\ f.err = "none" /\ ~f.found
        /\ lfs' = a.l
        /\ IF a.ok THEN /\ op' = [op EXCEPT !.pc = "link", !.m = f.m, !.id = f.id, !.dir = Pair(a.m), !.pred = pred]
                        /\ Commit("none", a.m, <<SetTail(pred.tail, FALSE)>>)
           ELSE Return("full") /\ UNCHANGED commit
  /\ UNCHANGED <<disk, mlist, fix, tired, failures, todo>>

MkdirLink ==
  /\ Busy("link") /\ op.m.split
  /\ lfs' = [lfs EXCEPT !.orphans = @ + 1]
  /\ mlist' = [mlist EXCEPT !["hook"] = [type |-> "hook", m |-> op.m, id |-> 0]]
  /\ Commit("none", op.pred, <<SetTail(op.dir, FALSE)>>)
  /\ op' = [op EXCEPT !.pc = "linked"]
  /\ UNCHANGED <<disk, fix, tired, failures, todo>>

MkdirEntry ==
  /\ (Busy("link") /\ ~op.m.split) \/ Busy("linked")
  /\ LET cwd == IF op.pc = "linked" THEN mlist["hook"].m ELSE op.m
         entry == Create(op.id, Entry(Last(Req.path), DirStruct(op.dir)))
     IN IF op.pc = "linked" /\ lfs.orphans = 0
        THEN commit' = [NoCommit EXCEPT !.stage = "assert"] /\ UNCHANGED lfs
        ELSE /\ lfs' = IF op.pc = "linked" THEN [lfs EXCEPT !.orphans = @ - 1] ELSE lfs
             /\ Commit("none", cwd, <<entry>> \o IF cwd.split THEN <<>> ELSE <<SetTail(op.dir, FALSE)>>)
  /\ mlist' = [mlist EXCEPT !["hook"] = None]
  /\ op' = [op EXCEPT !.pc = "end"]
  /\ UNCHANGED <<disk, fix, tired, failures, todo>>

End ==
  /\ Busy("end")
  /\ Return("ok")
  /\ UNCHANGED <<noop, todo>>

-----------------------------------------------------------------------------
(* lfs_remove, of a file or of an empty directory, whose pair is an orphan  *)
(* from when its entry is deleted until it is unlinked.                     *)

IsEmpty(pair) == LET m == lfs_dir_fetch(disk, pair) IN m.entries = <<>> /\ ~m.split

Hook(e) == IF IsDir(e) THEN [mlist EXCEPT !["hook"] = [type |-> "hook", id |-> 0,
                                                      m |-> lfs_dir_fetch(disk, e.struct.pair)]]
           ELSE mlist
Orphaned(e) == IF IsDir(e) THEN [lfs EXCEPT !.orphans = @ + 1] ELSE lfs

lfs_remove ==
  /\ \E kind \in {"unlink", "rmdir"} : Begin(kind)
  /\ \E f \in {Find(Req.path)} :
     \E e \in f.entry :
        /\ IsDir(e) => IsEmpty(e.struct.pair)
        /\ lfs' = Orphaned(e) /\ mlist' = Hook(e)
        /\ Commit("none", f.m, <<Delete(f.id)>>)
  /\ op' = [op EXCEPT !.pc = "drop"]
  /\ UNCHANGED <<disk, fix, tired, failures, todo>>

(* lfs_dir_drop; that there are orphans tells that it was a directory.      *)
Drop ==
  /\ Busy("drop")
  /\ mlist' = [mlist EXCEPT !["hook"] = None]
  /\ LET dir == mlist["hook"].m
         pred == lfs_fs_pred(disk, Pair(dir))
     IN IF lfs.orphans = 0
        THEN op' = [op EXCEPT !.pc = "end"] /\ UNCHANGED <<lfs, commit>>
        ELSE IF ~Open(mlist["hook"])
        THEN commit' = [NoCommit EXCEPT !.stage = "assert"] /\ UNCHANGED <<lfs, op>>
        ELSE IF pred = {}
        THEN Return("refused") /\ lfs' = [lfs EXCEPT !.orphans = @ - 1] /\ UNCHANGED commit
        ELSE /\ lfs' = [lfs EXCEPT !.orphans = @ - 1, !.gdelta = Xor(@, dir.delta)]
             /\ Commit("none", Only(pred), <<SetTail(dir.tail, dir.split)>>)
             /\ op' = [op EXCEPT !.pc = "end"]
  /\ UNCHANGED <<disk, fix, tired, failures, todo>>

-----------------------------------------------------------------------------
(* lfs_rename: the entry is created in its new place, which says in the     *)
(* global state that it has to vanish from its old one, and then it does.   *)

lfs_rename ==
  /\ Begin("rename")
  /\ \E old \in {Find(Req.path)}, new \in {Find(Req.to)} :
     \E e \in old.entry :
     LET samepair == Pair(old.m) \intersect Pair(new.m) # {}
         oldid == IF samepair /\ ~new.found /\ new.id <= old.id THEN old.id + 1 ELSE old.id
         l == IF new.found THEN Orphaned(Only(new.entry)) ELSE lfs
     IN /\ new.err = "none"
        /\ ~(samepair /\ new.found /\ new.id = old.id)
        /\ \A p \in new.entry : IsDir(p) = IsDir(e) /\ (IsDir(p) => IsEmpty(p.struct.pair))
        /\ lfs' = IF samepair THEN l ELSE [l EXCEPT !.move = {<<Pair(old.m), oldid>>}]
        /\ mlist' = IF new.found THEN Hook(Only(new.entry)) ELSE mlist
        /\ Commit("none", new.m, (IF new.found THEN <<Delete(new.id)>> ELSE <<>>)
                              \o <<Create(new.id, Entry(Last(Req.to), e.struct))>>
                              \o (IF samepair THEN <<Delete(oldid)>> ELSE <<>>))
        /\ op' = [op EXCEPT !.pc = IF samepair THEN "drop" ELSE "source", !.old = old.m, !.oldid = old.id]
  /\ UNCHANGED <<disk, fix, tired, failures, todo>>

RenameSource ==
  /\ Busy("source")
  /\ IF lfs.move # {} THEN /\ lfs' = [lfs EXCEPT !.move = {}]
                           /\ Commit("none", op.old, <<Delete(op.oldid)>>)
     ELSE UNCHANGED <<lfs, commit>>
  /\ op' = [op EXCEPT !.pc = "drop"]
  /\ UNCHANGED <<disk, mlist, fix, tired, failures, todo>>

RenameToItself ==
  /\ Begin("rename")
  /\ LET old == Find(Req.path) IN old.found /\ Req.path = Req.to
  /\ Return("ok")
  /\ UNCHANGED <<noop, todo>>

(* What the operations refuse, once they have looked up their paths         *)
Refused ==
  /\ \E kind \in {"mkdir", "unlink", "rmdir", "rename", "open"} : Begin(kind)
  /\ \E f \in {Find(Req.path)}, new \in {Find(Req.to)} :
     LET NotEmpty(e) == IsDir(e) /\ ~IsEmpty(e.struct.pair)
     IN CASE Req.kind = "mkdir" -> f.err # "none" \/ f.found
          [] Req.kind \in {"unlink", "rmdir"} -> ~f.found \/ \E e \in f.entry : NotEmpty(e)
          [] Req.kind = "rename" ->
               \/ ~f.found \/ new.err # "none"
               \/ Req.path # Req.to /\ \E e \in f.entry, p \in new.entry : IsDir(p) # IsDir(e) \/ NotEmpty(p)
          [] Req.kind = "open" -> f.err # "none" \/ \E e \in f.entry : IsDir(e)
  /\ Return("refused")
  /\ UNCHANGED <<noop, todo>>

-----------------------------------------------------------------------------
(* Files: opened for writing, which makes them empty; written; closed.      *)
(* Bounds: one file is open at a time, and its first piece fits into its    *)
(* entry, all further ones into one block.                                  *)

ContentOf(h) == IF h.pieces = 0 THEN Empty ELSE [of |-> h.of, pieces |-> h.pieces]

(* A file that was opened for writing: that it has an attribute, its time,  *)
(* makes it dirty.                                                          *)
Opened(f) ==
  [type |-> "reg", m |-> f.m, id |-> f.id, path |-> Req.path, of |-> todo.more,
   pieces |-> 0, block |-> NoBlock, dirty |-> TRUE, erred |-> FALSE]

lfs_file_open ==
  /\ Begin("open")
  /\ \E f \in {Find(Req.path)} :
        /\ f.err = "none" /\ \A e \in f.entry : ~IsDir(e)
        /\ mlist' = [mlist EXCEPT !["file"] = Opened(f)]
        /\ IF f.found THEN UNCHANGED commit
           ELSE Commit("file", f.m, <<Create(f.id, Entry(Last(Req.path), Inline(Empty)))>>)
  /\ op' = [op EXCEPT !.pc = "sync"]
  /\ UNCHANGED <<disk, lfs, fix, tired, failures, todo>>

(* lfs_file_sync; esp_littlefs.c syncs a file as soon as it is open, which  *)
(* frees the blocks that it had.                                            *)
lfs_file_sync ==
  /\ Busy("sync")
  /\ IF File.dirty /\ ~File.erred /\ File.m # NoMDir
     THEN Commit("file", File.m, <<Struct(File.id, IF File.block = NoBlock THEN Inline(ContentOf(File))
                                                   ELSE Ctz(File.block))>>)
     ELSE UNCHANGED commit
  /\ op' = [op EXCEPT !.pc = "synced"]
  /\ UNCHANGED <<disk, lfs, mlist, fix, tired, failures, todo>>

Synced ==
  /\ Busy("synced")
  /\ mlist' = IF Req.kind = "close" THEN [mlist EXCEPT !["file"] = None]
              ELSE [mlist EXCEPT !["file"].dirty = FALSE]
  /\ Return("ok")
  /\ UNCHANGED <<disk, lfs, commit, fix, tired, failures, todo>>

(* What does not fit into the entry any more is moved to a block; without   *)
(* one the file has an error.                                               *)
lfs_file_outline == lfs_alloc(lfs_alloc_ckpoint(lfs))

lfs_file_write ==
  /\ Free /\ todo.first = <<>> /\ Open(File) /\ ~File.erred /\ File.pieces < MaxPieces
  /\ LET pieces == File.pieces + 1
         a == lfs_file_outline
         fits == pieces = 1 \/ File.block # NoBlock
         block == IF fits THEN File.block ELSE a.block
     IN /\ lfs' = IF fits THEN lfs ELSE lfs_alloc_ckpoint(a.l)
        /\ mlist' = [mlist EXCEPT !["file"] =
                       IF ~fits /\ ~a.ok THEN [@ EXCEPT !.erred = TRUE]
                       ELSE [@ EXCEPT !.pieces = pieces, !.block = block, !.dirty = TRUE]]
        /\ disk' = IF block = NoBlock THEN disk
                   ELSE [disk EXCEPT ![block] = Data([of |-> File.of, pieces |-> pieces])]
  /\ UNCHANGED <<commit, fix, tired, failures, op, todo>>

CallClose ==
  /\ Free /\ Open(File)
  /\ op' = [NoOp EXCEPT !.req = {[kind |-> "close", path |-> File.path, to |-> <<>>,
                                  data |-> IF File.dirty /\ ~File.erred THEN {ContentOf(File)} ELSE {}]},
                        !.before = tree, !.pc = "sync"]
  /\ UNCHANGED <<noop, todo>>

-----------------------------------------------------------------------------
(* Listing a directory                                                      *)

NamesIn(t, path) == {Last(p) : p \in {p \in DOMAIN t : p # <<>> /\ Front(p) = path}}
IsDirIn(t, path) == path = <<>> \/ (path \in DOMAIN t /\ t[path] = Directory)

(* What the caller of opendir and readdir gets.  "." and ".." are left out. *)
vfs_littlefs_opendir(path, names) ==
  [of |-> path, on |-> TRUE, names |-> <<>>, stay |-> names, ever |-> names, ended |-> FALSE]

vfs_littlefs_readdir(l, entry) ==
  IF entry = {} THEN [l EXCEPT !.ended = TRUE] ELSE [l EXCEPT !.names = Append(@, Only(entry).name)]

(* Bound: listings are followed while no move is pending: the reading of the *)
(* entries behind the source of a pending move is told in the README.       *)
lfs_dir_open ==
  /\ Free /\ todo.first = <<>> /\ ~Open(mlist["dir"]) /\ lfs.gdisk \subseteq {Orphan}
  /\ \E path \in {p \in DOMAIN tree : tree[p] = Directory} \union {<<>>} :
       LET pair == IF path = <<>> THEN lfs.root ELSE Only(Stat(path)).struct.pair
           names == NamesIn(tree, path)
       IN /\ mlist' = [mlist EXCEPT !["dir"] = [type |-> "dir", m |-> lfs_dir_fetch(disk, pair), id |-> 0]]
          /\ listing' = vfs_littlefs_opendir(path, names)
  /\ UNCHANGED <<disk, lfs, commit, fix, tired, failures, op, todo>>

(* lfs_dir_read passes over what is no entry of a file or a directory.      *)
RECURSIVE NextEntry(_, _)
NextEntry(m, id) ==
  LET e == lfs_dir_getinfo(lfs.gdisk, m, id) IN
  IF id = Len(m.entries)
  THEN IF m.split THEN NextEntry(lfs_dir_fetch(disk, m.tail), 0) ELSE [m |-> m, id |-> id, entry |-> {}]
  ELSE IF e = {} THEN NextEntry(m, id + 1)
  ELSE [m |-> m, id |-> id + 1, entry |-> e]

lfs_dir_read ==
  /\ Free /\ Open(mlist["dir"]) /\ ~listing.ended
  /\ LET next == NextEntry(mlist["dir"].m, mlist["dir"].id)
     IN /\ mlist' = [mlist EXCEPT !["dir"].m = next.m, !["dir"].id = next.id]
        /\ listing' = vfs_littlefs_readdir(listing, next.entry)
  /\ UNCHANGED <<disk, lfs, commit, fix, tired, failures, op, todo>>

lfs_dir_close ==
  /\ Free /\ Open(mlist["dir"]) /\ listing.ended
  /\ mlist' = [mlist EXCEPT !["dir"] = None]
  /\ listing' = NoListing
  /\ UNCHANGED <<disk, lfs, commit, fix, tired, failures, op, todo>>

(* What the directory has while it is listed: what a rename replaces was    *)
(* not there all the time, and of a directory that is itself removed or     *)
(* renamed nothing is expected.                                             *)
Watched ==
  LET names == NamesIn(tree', listing.of)
      replaced == {Last(r.to) : r \in {r \in op.req : r.kind = "rename"}}
  IN IF ~listing.on \/ disk' = disk THEN listing
     ELSE IF ~IsDirIn(tree', listing.of) THEN [NoListing EXCEPT !.ended = listing.ended]
     ELSE [listing EXCEPT !.stay = (@ \intersect names) \ replaced, !.ever = @ \union names]

-----------------------------------------------------------------------------
(* The power fails, or an assertion of lfs.c, which restarts the device     *)
Reset ==
  /\ lfs' = Unmounted /\ mlist' = Handles /\ commit' = NoCommit /\ fix' = NoFix
  /\ Return("lost") /\ listing' = NoListing

PowerFails ==
  /\ todo.first = <<>> /\ failures > 0 /\ failures' = failures - 1
  /\ CutOff \/ (Mounted /\ UNCHANGED disk)
  /\ Reset
  /\ UNCHANGED <<tired, todo>>

AssertionFails ==
  /\ commit.stage = "assert"
  /\ Reset
  /\ UNCHANGED <<disk, tired, failures, todo>>

Steps == CommitStep \/ CommitDone \/ DeorphanStep

Operations ==
  \/ Request \/ lfs_fs_demove \/ lfs_fs_deorphan \/ Refused \/ End
  \/ lfs_mkdir \/ MkdirLink \/ MkdirEntry \/ lfs_remove \/ Drop
  \/ lfs_rename \/ RenameSource \/ RenameToItself
  \/ lfs_file_open \/ lfs_file_sync \/ Synced \/ lfs_file_write \/ CallClose
  \/ lfs_mount
  \/ (Steps /\ UNCHANGED <<op, todo>>)

Finished == Free /\ todo.first = <<>> /\ todo.more = 0 /\ ~Open(File) /\ ~Open(mlist["dir"]) /\ UNCHANGED vars

Tracked == tree' = IF disk' = disk THEN tree ELSE Tree(disk')

Next == \/ Operations /\ Tracked /\ listing' = Watched
        \/ (lfs_dir_open \/ lfs_dir_read \/ lfs_dir_close \/ PowerFails \/ AssertionFails) /\ Tracked
        \/ Finished

Spec == Init /\ [][Next]_vars

-----------------------------------------------------------------------------
(* What is asked of the tree: the requests, and the closing of a file       *)
Requests == UNION {ToSet(s.first) \union s.then : s \in Scenarios}
Contents == {Empty} \union [of : 0..Max({s.more : s \in Scenarios}), pieces : 1..MaxPieces]
Closings == {[kind |-> "close", path |-> p, to |-> <<>>, data |-> d] :
               p \in {r.path : r \in {r \in Requests : r.kind = "open"}},
               d \in {{}} \union {{c} : c \in Contents}}

Promise == INSTANCE FileTree
             WITH Requests <- Requests \union Closings, Formatted <- {<<>>}, tree <- tree,
                  call <- [req |-> op.req, before |-> op.before, answer |-> op.answer]

(* Every operation happens at once or not at all, with a block that becomes *)
(* tired and a loss of power at any point, or with two tired blocks and no  *)
(* loss of power (the scenarios' bounds); when it has returned it stays.    *)
(* Two tired blocks and a loss of power: RecoveryKeepsTheTree.              *)
OperationsAreAtomic == Promise!Spec

TypeOK ==
  /\ lfs.root \subseteq Blocks /\ Cardinality(lfs.move) <= 1 /\ lfs.orphans \in Nat
  /\ lfs.alloc.free \subseteq Blocks /\ lfs.alloc.window \in 0..N /\ lfs.alloc.ckpoint \in 0..N
  /\ \A s \in Slots : mlist[s].type \in {"none", "reg", "dir", "hook"}
  /\ commit.stage \in {"none", "first", "drop", "parent", "pred", "done", "assert"}
  /\ fix.pass \in 0..1 /\ tired \in Nat /\ failures \in Nat
  /\ Cardinality(op.req) <= 1

(* Whenever the power fails the disk can be mounted: the list of all pairs  *)
(* ends, each of them can be read, and each directory that an entry refers  *)
(* to is in the list, with one of its blocks at least.                      *)
Mountable ==
  LET l == TailList(disk)
      InList(pair) == \E i \in DOMAIN l : Pair(l[i]) \intersect pair # {}
  IN /\ Last(l).tail = {}
     /\ \A i \in DOMAIN l : \A j \in DOMAIN l[i].entries :
          LET e == l[i].entries[j] IN IsDir(e) => InList(e.struct.pair)

(* A listing has each file that is there all the time once, and none that   *)
(* was never there.                                                         *)
ListsEachOnce ==
  LET count(n) == Cardinality({i \in DOMAIN listing.names : listing.names[i] = n})
  IN listing.on => /\ ToSet(listing.names) \subseteq listing.ever
                   /\ \A n \in listing.stay : count(n) <= 1 /\ (listing.ended => count(n) = 1)

(* "All POSIX operations, such as remove and rename, are atomic, even in    *)
(* event of power-loss" (README.md of littlefs): when an operation has      *)
(* repaired what a loss of power left, it finds the tree that there was     *)
(* when it was asked for, and no name that a rename had taken away.         *)
RecoveryKeepsTheTree ==
  \A req \in op.req : Begin(req.kind) =>
    \A p \in (DOMAIN op.before \union {req.path, req.to}) \ {<<>>} : Find(p).found <=> p \in DOMAIN op.before

(* "The filesystem on disk is a mirror image of the free blocks"            *)
(* (DESIGN.md): what the allocator hands out next is not in use.            *)
AllocatesUnused == lfs.alloc.free \intersect InFiles(disk) = {}
===============================================================================
