------------------------------- MODULE LfsCommit -------------------------------
(***************************************************************************)
(* How littlefs changes a directory (lfs.c, lfs_dir_commit and what it      *)
(* calls).  A commit is appended to the newer block of the pair, or the     *)
(* pair is compacted into its other block: then it may be split, and a      *)
(* block that is tired is replaced by another, so that whoever refers to    *)
(* the pair has to be changed too, in further commits.                      *)
(*                                                                          *)
(* Every call of lfs_dir_relocatingcommit is one step; the power may fail   *)
(* before any of the blocks it writes, or while it is written.  What calls  *)
(* it waits in `commit` (lfs_dir_orphaningcommit) and `fix`                 *)
(* (lfs_fs_deorphan).                                                       *)
(***************************************************************************)
EXTENDS LfsDisk, TLC

CONSTANT
  Careful \* bound: whether commits that take a block of a file for free are left out

VARIABLES
  disk,
  lfs,      \* lfs_t: the root, the state (gstate, gdisk, gdelta), the allocator
  mlist,    \* the open file and directory, and the directory that an operation
            \* hooks in so that it follows the changes
  commit,   \* lfs_dir_orphaningcommit
  fix,      \* lfs_fs_deorphan
  tired,    \* bound: how often a block may still be tired when its pair is compacted
  failures  \* bound: how often the power may still fail

Slots == {"file", "dir", "hook"}
None == [type |-> "none"]

NoMDir == [pair |-> <<NoBlock, NoBlock>>]
NoCommit == [stage |-> "none", by |-> "none", own |-> "none", dir |-> NoMDir, attrs |-> <<>>,
             ldir |-> NoMDir, pdir |-> NoMDir, lpair |-> {}, hasparent |-> FALSE, orphans |-> FALSE]
NoFix == [on |-> FALSE, powerloss |-> FALSE, pass |-> 0, pdir |-> NoMDir, more |-> FALSE]

Open(h) == h.type # "none"

(* The blocks of files that are not yet in a directory                      *)
OfFiles(ml) ==
  {ml[s].block : s \in {s \in Slots : ml[s].type = "reg" /\ ml[s].dirty /\ ml[s].block # NoBlock}}

GFacts(l) == l.move \union IF l.orphans > 0 THEN {Orphan} ELSE {}

-----------------------------------------------------------------------------
(* The allocator hands out the free blocks of a window, which is scanned    *)
(* when it is used up.  Of the blocks since the last checkpoint none is     *)
(* looked at twice: they may be in use though nothing refers to them yet.   *)

lfs_alloc_ckpoint(l) == [l EXCEPT !.alloc.ckpoint = N]

Ahead(a, b) == (b - a.next) % N
Advance(a, n) == [a EXCEPT !.next = (@ + n) % N, !.window = @ - n, !.ckpoint = @ - n]

UncheckedScan(a, used) == \* what if the window were not limited to the checkpoint
  LET s == Advance(a, a.window)
  IN [s EXCEPT !.window = N, !.free = Blocks \ used]

lfs_alloc_scan(a, used) ==
  LET s == Advance(a, a.window)
  IN [s EXCEPT !.window = s.ckpoint, !.free = {b \in Blocks \ used : Ahead(s, b) < s.ckpoint}]

Allocated(l, a) ==
  LET block == CHOOSE b \in a.free : \A c \in a.free : Ahead(a, b) <= Ahead(a, c)
      rest == a.free \ {block}
  IN IF a.free = {} THEN [ok |-> FALSE, block |-> NoBlock, l |-> [l EXCEPT !.alloc = Advance(a, a.window)]]
     ELSE [ok |-> TRUE, block |-> block,
           l |-> [l EXCEPT !.alloc = Advance([a EXCEPT !.free = rest],
                                             Min({Ahead(a, b) : b \in rest} \union {a.window}))]]

lfs_alloc(l) ==
  Allocated(l, IF l.alloc.free # {} THEN l.alloc
               ELSE lfs_alloc_scan(l.alloc, lfs_fs_traverse(disk, l.gdisk, OfFiles(mlist))))

(* lfs_dir_alloc: the second block of the pair is allocated first, and the  *)
(* revision follows the one that is found in the other.                     *)
NewPair(second, first) ==
  [ok |-> second.ok /\ first.ok, l |-> IF second.ok THEN first.l ELSE second.l,
   m |-> [pair |-> <<first.block, second.block>>,
          rev |-> IF first.ok /\ disk[first.block].kind = "meta" THEN disk[first.block].rev ELSE 0,
          log |-> 0, erased |-> FALSE, entries |-> <<>>, tail |-> {}, split |-> FALSE, delta |-> {}]]

lfs_dir_alloc(l) == LET Behind(second) == NewPair(second, lfs_alloc(second.l)) IN Behind(lfs_alloc(l))

-----------------------------------------------------------------------------
(* What is committed: changes of entries, by id, and of the tail            *)
Create(id, e) == [op |-> "create", id |-> id, entry |-> e]
Delete(id) == [op |-> "delete", id |-> id]
Struct(id, struct) == [op |-> "struct", id |-> id, struct |-> struct]
SetTail(tail, split) == [op |-> "tail", id |-> NoId, tail |-> tail, split |-> split]

Changed(m, a) ==
  CASE a.op = "create" -> [m EXCEPT !.entries = InsertAt(@, a.id + 1, a.entry)]
    [] a.op = "delete" -> [m EXCEPT !.entries = RemoveAt(@, a.id + 1)]
    [] a.op = "struct" -> [m EXCEPT !.entries[a.id + 1].struct = a.struct]
    [] a.op = "tail"   -> [m EXCEPT !.tail = a.tail, !.split = a.split]

(* A directory as it is with changes that are not yet on the disk           *)
lfs_dir_traverse(m, attrs) == FoldLeft(Changed, m, attrs)

Deletes(attrs) == \E i \in DOMAIN attrs : attrs[i].op = "delete"

Write(b, content, partial) == [block |-> b, content |-> content, partial |-> partial]

(* lfs_dir_compact: into the other block, or into a new one in its place.   *)
(* Only what stays in its place brings the state over to the disk.          *)
Compacted(l, m, relocated, a) ==
  LET block == IF relocated /\ a.ok THEN a.block ELSE m.pair[2]
      state == IF relocated THEN {} ELSE Xor(l.gdisk, GFacts(l))
  IN [l |-> [(IF relocated THEN a.l ELSE l) EXCEPT !.gdelta = {}, !.gdisk = IF relocated THEN @ ELSE GFacts(l)],
      m |-> [m EXCEPT !.pair = <<block, m.pair[1]>>, !.rev = (@ + 1) % 3, !.log = 1,
                      !.delta = Xor(@, Xor(state, l.gdelta))],
      res |-> IF relocated THEN "relocated" ELSE "ok"]

lfs_dir_compact(l, m, isTired) == Compacted(l, m, isTired /\ Pair(m) # Superblock, lfs_alloc(l))

(* The write that a compaction comes down to                                *)
Compaction(c) == Write(c.m.pair[1], Image(c.m), Junk)

(* lfs_dir_split: what is behind the first s entries goes to a new pair.    *)
Divided(m, s, c) ==
  LET moved == m.pair[1] \in c.l.root /\ s = 0
  IN [ok |-> TRUE, write |-> Compaction(c),
      l |-> [c.l EXCEPT !.root = IF moved THEN Pair(c.m) ELSE @],
      m |-> [m EXCEPT !.tail = Pair(c.m), !.split = TRUE,
                      !.entries = SubSeq(@, 1, IF s = 0 THEN 1 ELSE s)]]

lfs_dir_split(l, m, s) ==
  LET Into(a) == IF ~a.ok THEN [ok |-> FALSE, l |-> a.l]
                 ELSE Divided(m, s, lfs_dir_compact(a.l,
                        [a.m EXCEPT !.entries = SubSeq(m.entries, s + 1, Len(m.entries)),
                                    !.tail = m.tail, !.split = m.split], FALSE))
  IN Into(lfs_dir_alloc(l))

(* Half of what is too much, half of the rest, and so on                    *)
RECURSIVE SplitAt(_, _)
SplitAt(n, s) == IF n - s <= CAP THEN s ELSE SplitAt(n, s + (n - s) \div 2)

(* What is left of a compaction r after a split, which needs free blocks    *)
AfterSplit(r, split) ==
  IF split.ok THEN [l |-> split.l, m |-> split.m, writes |-> Append(r.writes, split.write), go |-> TRUE]
  ELSE [r EXCEPT !.l = split.l, !.go = FALSE]

RECURSIVE Splitted(_)
Splitted(r) ==
  LET s == SplitAt(Len(r.m.entries), 0)
  IN IF s = 0 \/ ~r.go THEN r ELSE Splitted(AfterSplit(r, lfs_dir_split(r.l, r.m, s)))

(* A tired superblock is expanded: the root moves to a pair of its own, if  *)
(* there is enough room.                                                    *)
Expanded(r, isTired) ==
  LET room == N - lfs_fs_size(disk, r.l.gdisk, OfFiles(mlist))
  IN IF ~isTired \/ Pair(r.m) # Superblock \/ room <= N \div 8 THEN r
     ELSE AfterSplit(r, lfs_dir_split(r.l, r.m, 0))

TailFirstCompact(l, m, isTired) == \* what if a pair were linked before it is written
  LET Ended(r, c) == [res |-> c.res, l |-> c.l, m |-> c.m, writes |-> <<Compaction(c)>> \o r.writes]
      Compact(r) == Ended(r, lfs_dir_compact(r.l, r.m, isTired))
  IN Compact(Expanded(Splitted([l |-> l, m |-> m, writes |-> <<>>, go |-> TRUE]), isTired))

lfs_dir_splittingcompact(l, m, isTired) ==
  LET Ended(r, c) == [res |-> c.res, l |-> c.l, m |-> c.m, writes |-> Append(r.writes, Compaction(c))]
      Compact(r) == Ended(r, lfs_dir_compact(r.l, r.m, isTired))
  IN Compact(Expanded(Splitted([l |-> l, m |-> m, writes |-> <<>>, go |-> TRUE]), isTired))

Appended(l, m) ==
  LET c == [m EXCEPT !.log = @ + 1,
                     !.delta = Xor(@, Xor(l.gdelta, Xor(GFacts(l), l.gdisk)))]
  IN [res |-> "ok", l |-> [l EXCEPT !.gdisk = GFacts(l), !.gdelta = {}], m |-> c,
      writes |-> <<Write(m.pair[1], Image(c), [disk[m.pair[1]] EXCEPT !.torn = TRUE])>>]

(* lfs_dir_relocatingcommit up to its repair of mlist.  A pair that becomes *)
(* empty is dropped, if another part of its directory precedes it; only     *)
(* the first call can handle that, the others assert that it is no case.    *)
lfs_dir_relocatingcommit(l, dir, attrs, first, isTired) ==
  LET m == lfs_dir_traverse(dir, attrs)
      emptied == Deletes(attrs) /\ m.entries = <<>>
      pred == lfs_fs_pred(disk, Pair(dir))
  IN IF emptied /\ ~first THEN [res |-> "assert", l |-> l, m |-> m, writes |-> <<>>]
     ELSE IF emptied /\ \E p \in pred : p.split
     THEN [res |-> "dropped", l |-> l, m |-> m, writes |-> <<>>]
     ELSE IF dir.erased /\ dir.log < LOG THEN Appended(l, m)
     ELSE lfs_dir_splittingcompact(l, m, isTired)

lfs_bd_prog(d, w) == [d EXCEPT ![w.block] = w.content]

Written(d, writes) == FoldLeft(lfs_bd_prog, d, writes)

-----------------------------------------------------------------------------
(* The other users of a pair that was changed follow (fixmlist).            *)

MovedTooFar(h, a) == \* what if the entry that is read next counted as one before it
  IF a.op = "delete" /\ a.id = h.id /\ h.type # "dir" THEN [h EXCEPT !.m = NoMDir]
  ELSE IF a.op = "delete" /\ a.id <= h.id /\ h.id > 0 THEN [h EXCEPT !.id = @ - 1]
  ELSE IF a.op = "create" /\ a.id <= h.id THEN [h EXCEPT !.id = @ + 1]
  ELSE h

Moved(h, a) ==
  IF a.op = "delete" /\ a.id = h.id /\ h.type # "dir" THEN [h EXCEPT !.m = NoMDir]
  ELSE IF a.op = "delete" /\ a.id < h.id THEN [h EXCEPT !.id = @ - 1]
  ELSE IF a.op = "create" /\ a.id <= h.id THEN [h EXCEPT !.id = @ + 1]
  ELSE h

(* What was behind a split is in the tail now.                              *)
RECURSIVE IntoTail(_, _, _)
IntoTail(d, root, h) ==
  IF h.m = NoMDir \/ h.id < Len(h.m.entries) \/ ~h.m.split THEN h
  ELSE IntoTail(d, root,
         [h EXCEPT !.m = lfs_dir_fetch(d, h.m.tail),
                   !.id = IF h.m.tail \intersect root = {} THEN @ - Len(h.m.entries) ELSE @])

At(h, pair) == Open(h) /\ h.m # NoMDir /\ Pair(h.m) \intersect pair # {}

fixmlist(d, root, ml, pair, m, attrs, own) ==
  [s \in Slots |->
     IF ~At(ml[s], pair) THEN ml[s]
     ELSE LET h == [ml[s] EXCEPT !.m = m]
          IN IntoTail(d, root, IF s = own THEN h ELSE FoldLeft(Moved, h, attrs))]

-----------------------------------------------------------------------------
(* lfs_dir_orphaningcommit                                                  *)

StartCommit(by, own, dir, attrs) ==
  commit' = [NoCommit EXCEPT !.stage = "first", !.by = by, !.own = own, !.dir = dir, !.attrs = attrs]

(* A move that is pending in a pair is finished with whatever is committed  *)
(* to the pair.                                                             *)
ForgetMove(l, m) == <<>> \* what if the entry were only dropped from the state

FixMove(l, m) == IF hasmovehere(l.move, Pair(m)) THEN <<Delete(moveid(l.move, Pair(m)))>> ELSE <<>>
WithoutMove(l, m) == IF hasmovehere(l.move, Pair(m)) THEN [l EXCEPT !.move = {}] ELSE l

(* The calls of lfs_dir_relocatingcommit, by stage: what is committed where *)
(* and what has been changed in memory before.  `none` if there is nothing  *)
(* to commit to.                                                            *)
Call(l, ml, m, attrs) == [none |-> FALSE, l |-> l, ml |-> ml, m |-> m, attrs |-> attrs]
NoCall(l, ml) == [none |-> TRUE, l |-> l, ml |-> ml, m |-> NoMDir, attrs |-> <<>>]

FirstCall == Call(lfs, mlist, commit.dir, commit.attrs)

DropCall ==
  Call([lfs EXCEPT !.gdelta = Xor(@, commit.dir.delta)], mlist, commit.pdir,
       <<SetTail(commit.dir.tail, commit.dir.split)>>)

(* The pair has become another: the root, the open directories, and the     *)
(* entry of the parent.                                                     *)
ParentCall ==
  LET new == Pair(commit.ldir)
      l == IF commit.lpair \intersect lfs.root # {} THEN [lfs EXCEPT !.root = new] ELSE lfs
      Renamed(h) == IF At(h, commit.lpair) THEN [h EXCEPT !.m.pair = commit.ldir.pair] ELSE h
      ml == [s \in Slots |-> Renamed(mlist[s])]
      parent == lfs_fs_parent(disk, lfs.gdisk, commit.lpair)
      p == Only(parent)
      below == hasmovehere(l.move, Pair(p.m)) /\ moveid(l.move, Pair(p.m)) < p.id
  IN IF parent = {} THEN NoCall(l, ml)
     ELSE Call([WithoutMove(l, p.m) EXCEPT !.orphans = @ + 1], ml, p.m,
               FixMove(l, p.m) \o <<Struct(IF below THEN p.id - 1 ELSE p.id, DirStruct(new))>>)

(* and the tail of the predecessor.                                         *)
PredCall ==
  LET pred == lfs_fs_pred(disk, commit.lpair)
      p == Only(pred)
      l == IF lfs.orphans > 0 /\ commit.hasparent THEN [lfs EXCEPT !.orphans = @ - 1] ELSE lfs
  IN IF pred = {} THEN NoCall(lfs, mlist)
     ELSE Call(WithoutMove(l, p), mlist, p,
               FixMove(l, p) \o <<SetTail(Pair(commit.ldir), p.split)>>)

TheCall == CASE commit.stage = "first"  -> FirstCall
             [] commit.stage = "drop"   -> DropCall
             [] commit.stage = "parent" -> ParentCall
             [] commit.stage = "pred"   -> PredCall

(* What follows a stage                                                     *)
Done(c) == [c EXCEPT !.stage = "done"]

Relocate(c, lpair, m) == [c EXCEPT !.stage = "parent", !.lpair = lpair, !.ldir = m]

AfterStage(c, call, r, ml) ==
  LET own == IF c.own = "none" THEN c.dir ELSE ml[c.own].m
      dir == IF own # NoMDir /\ Pair(own) \intersect Pair(c.dir) # {} THEN r.m ELSE own
      c1 == [c EXCEPT !.dir = dir]
  IN CASE r.res = "assert" -> [c EXCEPT !.stage = "assert"]
       [] c.stage = "first" ->
            (CASE r.res = "dropped" -> [c1 EXCEPT !.stage = "drop", !.pdir = Only(lfs_fs_pred(disk, Pair(c.dir)))]
               [] r.res = "relocated" -> Relocate(c1, Pair(c.dir), r.m)
               [] OTHER -> Done(c1))
       [] c.stage = "parent" /\ r.res = "ok" -> [c EXCEPT !.stage = "pred", !.hasparent = TRUE]
       [] c.stage = "parent" /\ r.res = "relocated" ->
            [Relocate(c, Pair(call.m), r.m) EXCEPT !.orphans = TRUE]
       [] OTHER -> IF r.res = "relocated" THEN Relocate(c, Pair(call.m), r.m) ELSE Done(c)

Committing == commit.stage \in {"first", "drop", "parent", "pred"}

(* A block may be tired when its pair is compacted, but not that of a pair  *)
(* that has just been allocated.  Bound: not when no block is free.         *)
MayTire(call) == tired > 0 /\ (call.m.erased \/ call.m.log > 0) /\ lfs_alloc(call.l).ok

Result(call, isTired) ==
  lfs_dir_relocatingcommit(call.l, call.m, call.attrs, commit.stage = "first", isTired)

Compacts(call) == ~(call.m.erased /\ call.m.log < LOG)

(* Not all blocks of files are seen by the allocator: not those of the      *)
(* entry behind one whose move is pending (lfs_dir_get), and not those in a *)
(* pair that has been replaced and is not in the list yet.  See             *)
(* AllocatesUnused.                                                         *)
Sound(r) == Careful => LET taken == InFiles(disk)
                       IN /\ r.l.alloc.free \intersect taken = {}
                          /\ \A k \in DOMAIN r.writes : r.writes[k].block \notin taken

Tireds(call) == {FALSE} \union IF MayTire(call) /\ Compacts(call) THEN {TRUE} ELSE {}

NoneToCommitTo(call) ==
  /\ call.none
  /\ lfs' = call.l /\ mlist' = call.ml
  /\ commit' = CASE commit.stage = "parent" -> [commit EXCEPT !.stage = "pred", !.hasparent = FALSE]
                 [] commit.stage = "pred" /\ commit.hasparent -> [commit EXCEPT !.stage = "assert"]
                 [] OTHER -> Done(commit)
  /\ UNCHANGED <<disk, tired>>

CommitTo(call) ==
  /\ ~call.none
  /\ \E isTired \in Tireds(call) : \E r \in {Result(call, isTired)} :
     Sound(r) /\ \E d \in {Written(disk, r.writes)} :
     LET ml == fixmlist(d, r.l.root, call.ml, Pair(call.m), r.m, call.attrs,
                        IF commit.stage = "first" THEN commit.own ELSE "none")
     IN /\ disk' = d /\ lfs' = r.l /\ mlist' = ml
        /\ commit' = AfterStage(commit, call, r, ml)
        /\ tired' = IF isTired /\ r.writes # <<>> THEN tired - 1 ELSE tired

CommitStep ==
  /\ Committing
  /\ \E call \in {TheCall} : NoneToCommitTo(call) \/ CommitTo(call)
  /\ UNCHANGED <<fix, failures>>

(* The power fails in a commit: some of its blocks have been written, the   *)
(* next one has been begun.                                                 *)
CutOff ==
  /\ Committing
  /\ \E call \in {TheCall} :
     /\ ~call.none
     /\ \E isTired \in Tireds(call) : \E r \in {Result(call, isTired)} :
        Sound(r) /\ \E k \in DOMAIN r.writes :
          disk' = [Written(disk, SubSeq(r.writes, 1, k - 1)) EXCEPT
                     ![r.writes[k].block] = r.writes[k].partial]

-----------------------------------------------------------------------------
(* lfs_fs_deorphan: two passes over the list of all pairs                   *)

Start == [NoMDir EXCEPT !.pair = <<NoBlock, NoBlock>>] @@ [tail |-> Superblock, split |-> TRUE]

StartFix(powerloss) ==
  fix' = [on |-> TRUE, powerloss |-> powerloss, pass |-> 0, pdir |-> Start, more |-> FALSE]

(* The pair that the parent has for this directory: one or none             *)
Referred(pair) ==
  UNION {{e.struct.pair : e \in lfs_dir_get(lfs.gdisk, p.m, p.id)} :
           p \in lfs_fs_parent(disk, lfs.gdisk, pair)}

HalfOrphan(pair) == \E r \in Referred(pair) : r # pair
FullOrphan(pair) == lfs_fs_parent(disk, lfs.gdisk, pair) = {}

Found(p) == ~p.split /\ p.tail # {} /\ IF fix.pass = 0 THEN HalfOrphan(p.tail) ELSE fix.powerloss /\ FullOrphan(p.tail)

DeorphanStep ==
  /\ fix.on /\ commit.stage = "none"
  /\ LET l == Threaded(disk, fix.pdir)
         found == {i \in DOMAIN l : Found(l[i])}
         p == l[Min(found)]
         o == lfs_dir_fetch(disk, p.tail)
     IN IF found = {}
        THEN /\ IF fix.pass = 1 /\ ~fix.more
                THEN fix' = NoFix /\ lfs' = [lfs EXCEPT !.orphans = 0]
                ELSE /\ fix' = [fix EXCEPT !.pass = IF fix.more THEN 0 ELSE 1, !.pdir = Start, !.more = FALSE]
                     /\ UNCHANGED lfs
             /\ UNCHANGED commit
        ELSE /\ fix' = [fix EXCEPT !.pdir = p]
             /\ IF fix.pass = 0
                THEN /\ lfs' = WithoutMove(lfs, p)
                     /\ StartCommit("fix", "none", p, FixMove(lfs, p) \o <<SetTail(Only(Referred(p.tail)), FALSE)>>)
                ELSE /\ lfs' = [lfs EXCEPT !.gdelta = Xor(@, o.delta)]
                     /\ StartCommit("fix", "none", p, <<SetTail(o.tail, o.split)>>)
  /\ UNCHANGED <<disk, mlist, tired, failures>>

(* lfs_dir_commit: the orphans that a commit has made are fixed at once.    *)
CommitDone ==
  /\ commit.stage = "done"
  /\ commit' = NoCommit
  /\ IF commit.by = "fix"
     THEN fix' = [fix EXCEPT !.pdir = commit.dir, !.more = @ \/ commit.orphans]
     ELSE IF commit.orphans /\ lfs.orphans > 0 THEN StartFix(FALSE) ELSE UNCHANGED fix
  /\ UNCHANGED <<disk, lfs, mlist, tired, failures>>

(* What calls can go on                                                     *)
Ready == commit.stage = "none" /\ ~fix.on

===============================================================================
