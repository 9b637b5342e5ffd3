------------------------------- MODULE FileData -------------------------------
(***************************************************************************)
(* The data of one open file of littlefs: small files are inline, in a      *)
(* buffer; others are a list of blocks in which block i has pointers to the *)
(* blocks i - 2^k that its number allows (a "CTZ skip list").  Writing goes *)
(* into new blocks that branch off the list, which a flush completes.       *)
(*                                                                          *)
(* A file is a record and each operation an operator on files; a block is   *)
(* the sequence of what was programmed into it, pointers first, each one    *)
(* cell.  Not here: failing blocks, and the disk being full (LittleFs).     *)
(***************************************************************************)
EXTENDS Integers, SequencesExt

CONSTANTS
  BLOCK,       \* block_size, in cells, more than two pointers
  WORD,        \* the cells of a pointer: 4, and 1 where data is looked at
  INLINE_MAX,  \* no more than BLOCK
  FILE_MAX

Inline == 0   \* LFS_BLOCK_INLINE; blocks are numbered from 1

RECURSIVE lfs_popc(_)
lfs_popc(a) == IF a = 0 THEN 0 ELSE (a % 2) + lfs_popc(a \div 2)

lfs_npw2(a) == CHOOSE n \in 0 .. 32 : 2 ^ n >= a /\ (n > 0 => 2 ^ (n - 1) < a)

lfs_ctz(a) == CHOOSE n \in 0 .. 32 : a % (2 ^ n) = 0 /\ a % (2 ^ (n + 1)) # 0

(* The number of the block that has byte `size` of a file, and where        *)
lfs_ctz_index(size) ==
  LET b == BLOCK - 2 * WORD
      i == size \div b
      j == IF i = 0 THEN 0 ELSE (size - WORD * (lfs_popc(i - 1) + 2)) \div b
  IN [index |-> j, off |-> size - b * j - WORD * lfs_popc(j)]

(* From block `current` of the list back to block `target`, the longest     *)
(* pointer first that does not go too far                                   *)
RECURSIVE Back(_, _, _, _)
Back(disk, head, current, target) ==
  LET skip == Min({lfs_npw2(current - target + 1) - 1, lfs_ctz(current)})
  IN IF current = target THEN head
     ELSE Back(disk, disk[head][skip + 1], current - 2 ^ skip, target)

lfs_ctz_find(disk, head, size, pos) ==
  LET target == lfs_ctz_index(pos)
  IN [block |-> Back(disk, head, lfs_ctz_index(size - 1).index, target.index),
      off   |-> target.off]

(* The pointers of a block behind `head`: each one is found in the block    *)
(* that the one before it points to                                         *)
RECURSIVE Pointers(_, _, _, _)
Pointers(disk, head, i, skips) ==
  IF i = skips THEN <<>>
  ELSE <<head>> \o Pointers(disk, IF i = skips - 1 THEN head ELSE disk[head][i + 1], i + 1, skips)

(* A new block behind the first `size` bytes: the copy of the last one up   *)
(* to there, or, when that is full, one with its pointers                   *)
lfs_ctz_extend(disk, head, size) ==
  LET last == lfs_ctz_index(size - 1)
      new  == IF size = 0 THEN <<>>
              ELSE IF last.off + 1 # BLOCK THEN SubSeq(disk[head], 1, last.off + 1)
              ELSE Pointers(disk, head, 0, lfs_ctz(last.index + 1) + 1)
  IN [disk |-> Append(disk, new), block |-> Len(disk) + 1, off |-> Len(new)]

(* The blocks of a list, last one first, two at a time where it can         *)
RECURSIVE VisitFrom(_, _, _)
VisitFrom(disk, head, index) ==
  IF index = 0 THEN <<head>>
  ELSE IF index % 2 = 1 THEN <<head>> \o VisitFrom(disk, disk[head][1], index - 1)
  ELSE <<head, disk[head][1]>> \o VisitFrom(disk, disk[head][2], index - 2)

lfs_ctz_traverse(disk, head, size) ==
  IF size = 0 THEN <<>> ELSE VisitFrom(disk, head, lfs_ctz_index(size - 1).index)

-----------------------------------------------------------------------------
(* Files.  `kept` is what the directory entry has, `again` whether a cell   *)
(* of a block was ever programmed twice.                                    *)

Created == [inline |-> TRUE, head |-> Inline, size |-> 0, buffer |-> <<>>]

lfs_file_opencfg(disk, entry, append) ==
  [disk |-> disk, head |-> entry.head, size |-> entry.size, inline |-> entry.inline,
   buffer |-> IF entry.inline THEN SubSeq(entry.buffer, 1, entry.size) ELSE <<>>, pos |-> 0, off |-> 0, block |-> Inline,
   reading |-> FALSE, writing |-> FALSE, dirty |-> FALSE, append |-> append, again |-> FALSE,
   kept |-> entry]

Cells(f) == IF f.inline THEN f.buffer ELSE f.disk[f.block]

Overwrite(cells, off, data) ==
  SubSeq(cells, 1, off) \o data \o SubSeq(cells, off + Len(data) + 1, Len(cells))

lfs_bd_prog(f, data) ==
  LET cells == Overwrite(Cells(f), f.off, data)
      g == [f EXCEPT !.pos = @ + Len(data), !.off = @ + Len(data)]
  IN IF f.inline THEN [g EXCEPT !.buffer = cells]
     ELSE [g EXCEPT !.disk[f.block] = cells, !.again = @ \/ f.off # Len(Cells(f))]

(* A block for the next byte to be read                                     *)
ReadingAt(f) ==
  LET at == IF f.inline THEN [block |-> Inline, off |-> f.pos]
            ELSE lfs_ctz_find(f.disk, f.head, f.size, f.pos)
  IN IF f.reading /\ f.off # BLOCK THEN f
     ELSE [f EXCEPT !.reading = TRUE, !.block = at.block, !.off = at.off]

RECURSIVE ReadChunks(_, _, _)
ReadChunks(f, n, data) ==
  IF n = 0 THEN [file |-> f, answer |-> data]
  ELSE LET g    == ReadingAt(f)
           diff == Min({n, BLOCK - g.off})
       IN ReadChunks([g EXCEPT !.pos = @ + diff, !.off = @ + diff], n - diff,
                     data \o SubSeq(Cells(g), g.off + 1, g.off + diff))

lfs_file_flushedread(f, n) ==
  ReadChunks(f, IF f.pos >= f.size THEN 0 ELSE Min({n, f.size - f.pos}), <<>>)

(* An inline file becomes a list of one block, with what is before pos      *)
lfs_file_outline(f) ==
  [f EXCEPT !.off = f.pos, !.inline = FALSE, !.writing = TRUE, !.block = Len(f.disk) + 1,
            !.disk = Append(@, SubSeq(f.buffer, 1, f.pos))]

(* A block for the next byte to be written                                  *)
WritingAt(f) ==
  LET from == IF ~f.writing /\ f.pos > 0
              THEN lfs_ctz_find(f.disk, f.head, f.size, f.pos - 1).block ELSE f.block
      new  == lfs_ctz_extend(f.disk, from, f.pos)
  IN IF f.writing /\ f.off # BLOCK THEN f
     ELSE IF f.inline THEN [f EXCEPT !.writing = TRUE, !.block = Inline, !.off = f.pos]
     ELSE [f EXCEPT !.writing = TRUE, !.disk = new.disk, !.block = new.block, !.off = new.off]

RECURSIVE WriteChunks(_, _)
WriteChunks(f, data) ==
  IF data = <<>> THEN f
  ELSE LET g    == WritingAt(f)
           diff == Min({Len(data), BLOCK - g.off})
       IN WriteChunks(lfs_bd_prog(g, SubSeq(data, 1, diff)), SubSeq(data, diff + 1, Len(data)))

lfs_file_flushedwrite(f, data) ==
  LET fits == Max({f.pos + Len(data), f.size}) <= INLINE_MAX
  IN WriteChunks(IF f.inline /\ ~fits THEN lfs_file_outline(f) ELSE f, data)

WriteZeros(f, n) ==
  FoldLeft(LAMBDA g, zero : lfs_file_flushedwrite(g, <<zero>>), f, [i \in 1 .. n |-> 0])

(* Reading ends; what was written is followed by what the old list has      *)
(* behind it, and becomes the list                                          *)
lfs_file_flush(f) ==
  LET g    == [f EXCEPT !.reading = FALSE]
      old  == lfs_file_flushedread([g EXCEPT !.writing = FALSE], Max({f.size - f.pos, 0}))
      done == IF f.inline THEN [g EXCEPT !.pos = Max({f.pos, f.size})]
              ELSE IF f.pos < f.size THEN lfs_file_flushedwrite(g, old.answer)
              ELSE g
  IN IF ~f.writing THEN g
     ELSE [done EXCEPT !.head = done.block, !.size = done.pos, !.writing = FALSE,
                       !.dirty = TRUE, !.pos = f.pos]

lfs_file_sync(f) ==
  LET g == lfs_file_flush(f)
  IN IF ~g.dirty THEN g
     ELSE [g EXCEPT !.dirty = FALSE,
                    !.kept = [inline |-> g.inline, head |-> g.head, size |-> g.size,
                              buffer |-> g.buffer]]

(* Closed, and opened again: what another open would find                   *)
lfs_file_close(f) ==
  LET g == lfs_file_sync(f)
  IN [lfs_file_opencfg(g.disk, g.kept, g.append) EXCEPT !.again = g.again]

lfs_file_size(f) == IF f.writing THEN Max({f.pos, f.size}) ELSE f.size

lfs_file_read(f, n) == lfs_file_flushedread(IF f.writing THEN lfs_file_flush(f) ELSE f, n)

lfs_file_write(f, data) ==
  LET g   == IF f.reading THEN lfs_file_flush(f) ELSE f
      at  == IF g.append /\ g.pos < g.size THEN [g EXCEPT !.pos = g.size] ELSE g
      gap == IF ~at.writing THEN at.pos - at.size ELSE 0
      all == IF gap > 0 THEN WriteZeros([at EXCEPT !.pos = at.size], gap) ELSE at
  IN IF at.pos + Len(data) > FILE_MAX THEN [file |-> at, answer |-> "too big"]
     ELSE [file |-> lfs_file_flushedwrite(all, data), answer |-> Len(data)]

(* `cached`: the cache has what is at npos                                  *)
lfs_file_seek(f, npos, cached) ==
  LET there == lfs_ctz_index(npos)
      near  == /\ f.reading /\ f.off # BLOCK
               /\ lfs_ctz_index(f.pos).index = there.index
               /\ cached
  IN CASE npos < 0 \/ npos > FILE_MAX -> [file |-> f, answer |-> "invalid"]
       [] npos = f.pos -> [file |-> f, answer |-> npos]
       [] npos \in 0 .. FILE_MAX /\ npos # f.pos /\ near ->
            [file |-> [f EXCEPT !.pos = npos, !.off = there.off], answer |-> npos]
       [] OTHER -> [file |-> [lfs_file_flush(f) EXCEPT !.pos = npos], answer |-> npos]

(* A shorter file becomes inline, or ends in the block of its last byte     *)
Shrunk(f, size, cached) ==
  LET first == lfs_file_flushedread(lfs_file_seek(f, 0, cached).file, size)
      g     == lfs_file_flush(f)
      block == lfs_ctz_find(g.disk, g.head, g.size, size - 1).block
  IN IF size <= INLINE_MAX
     THEN [first.file EXCEPT !.head = Inline, !.size = size, !.dirty = TRUE, !.reading = TRUE,
                             !.inline = TRUE, !.buffer = first.answer]
     ELSE [g EXCEPT !.pos = size, !.block = block, !.head = block, !.size = size,
                    !.dirty = TRUE, !.reading = TRUE]

Grown(f, size, cached) ==
  FoldLeft(LAMBDA g, zero : lfs_file_write(g, <<zero>>).file,
           lfs_file_seek(f, lfs_file_size(f), cached).file,
           [i \in 1 .. size - lfs_file_size(f) |-> 0])

lfs_file_truncate(f, size, cached) ==
  LET g == CASE size < lfs_file_size(f) -> Shrunk(f, size, cached)
             [] size > lfs_file_size(f) -> Grown(f, size, cached)
             [] OTHER                   -> f
  IN IF size > FILE_MAX THEN [file |-> f, answer |-> "invalid"]
     ELSE [file |-> lfs_file_seek(g, f.pos, cached).file, answer |-> "done"]

-----------------------------------------------------------------------------
(* What a file promises: a sequence of bytes and a position                 *)

Bytes(append) == [data |-> <<>>, pos |-> 0, append |-> append, kept |-> <<>>]

Zeros(n) == [i \in 1 .. n |-> 0]

Resized(data, size) ==
  IF size <= Len(data) THEN SubSeq(data, 1, size) ELSE data \o Zeros(size - Len(data))

ReadBytes(b, n) ==
  LET data == SubSeq(b.data, b.pos + 1, Min({b.pos + n, Len(b.data)}))
  IN [file |-> [b EXCEPT !.pos = @ + Len(data)], answer |-> data]

WriteBytes(b, data) ==
  LET pos == IF b.append /\ b.pos < Len(b.data) THEN Len(b.data) ELSE b.pos
      all == Overwrite(Resized(b.data, Max({pos, Len(b.data)})), pos, data)
  IN IF pos + Len(data) > FILE_MAX THEN [file |-> [b EXCEPT !.pos = pos], answer |-> "too big"]
     ELSE [file |-> [b EXCEPT !.data = all, !.pos = pos + Len(data)], answer |-> Len(data)]

SeekBytes(b, npos) ==
  IF npos \in 0 .. FILE_MAX THEN [file |-> [b EXCEPT !.pos = npos], answer |-> npos]
  ELSE [file |-> b, answer |-> "invalid"]

TruncateBytes(b, size) ==
  IF size > FILE_MAX THEN [file |-> b, answer |-> "invalid"]
  ELSE [file |-> [b EXCEPT !.data = Resized(@, size)], answer |-> "done"]

(* Calls, [op, n, cached]: of both sides, the n-th byte written by call k   *)
(* being 100k + n                                                           *)
Written(k, n) == [i \in 1 .. n |-> 100 * k + i]

Called(f, c, k) ==
  CASE c.op = "read"     -> lfs_file_read(f, c.n)
    [] c.op = "write"    -> lfs_file_write(f, Written(k, c.n))
    [] c.op = "seek"     -> lfs_file_seek(f, c.n, c.cached)
    [] c.op = "end"      -> lfs_file_seek(f, lfs_file_size(f) + c.n, c.cached)
    [] c.op = "truncate" -> lfs_file_truncate(f, c.n, c.cached)
    [] c.op = "sync"     -> [file |-> lfs_file_sync(f), answer |-> "done"]
    [] c.op = "reopen"   -> [file |-> lfs_file_close(f), answer |-> "done"]

Asked(b, c, k) ==
  CASE c.op = "read"     -> ReadBytes(b, c.n)
    [] c.op = "write"    -> WriteBytes(b, Written(k, c.n))
    [] c.op = "seek"     -> SeekBytes(b, c.n)
    [] c.op = "end"      -> SeekBytes(b, Len(b.data) + c.n)
    [] c.op = "truncate" -> TruncateBytes(b, c.n)
    [] c.op = "sync"     -> [file |-> [b EXCEPT !.kept = b.data], answer |-> "done"]
    [] c.op = "reopen"   -> [file |-> [b EXCEPT !.kept = b.data, !.pos = 0], answer |-> "done"]

(* What a file reads as, from what its entry has                            *)
KeptBytes(f) == lfs_file_flushedread(lfs_file_opencfg(f.disk, f.kept, FALSE), f.kept.size).answer

(* Calls answer as if the file were bytes; until a sync the entry keeps     *)
(* what it had; and no cell is programmed twice.                            *)
Agrees(f, b) ==
  /\ f.pos = b.pos /\ lfs_file_size(f) = Len(b.data)
  /\ KeptBytes(f) = b.kept
  /\ ~f.again

RECURSIVE StaysBytes(_, _, _, _)
StaysBytes(f, b, calls, k) ==
  \A c \in calls :
     LET called == Called(f, c, k)
         asked  == Asked(b, c, k)
     IN /\ called.answer = asked.answer
        /\ Agrees(called.file, asked.file)
        /\ k > 1 => StaysBytes(called.file, asked.file, calls, k - 1)

(* After `first`, whatever k calls follow                                   *)
FilesAreBytes(first, calls, k, append) ==
  LET numbered == [i \in DOMAIN first |-> [call |-> first[i], k |-> k + Len(first) + 1 - i]]
      f == FoldLeft(LAMBDA g, c : Called(g, c.call, c.k).file, lfs_file_opencfg(<<>>, Created, append), numbered)
      b == FoldLeft(LAMBDA g, c : Asked(g, c.call, c.k).file, Bytes(append), numbered)
  IN Agrees(f, b) /\ StaysBytes(f, b, calls, k)

(* Positions against the room that each block has behind its pointers       *)
RECURSIVE StartOf(_)
StartOf(i) == CASE i = 0 -> 0
                [] i = 1 -> BLOCK
                [] OTHER -> StartOf(i - 1) + BLOCK - WORD * (lfs_ctz(i - 1) + 1)

IndexIsPlace(blocks) ==
  \A i \in 0 .. blocks - 1 : \A pos \in StartOf(i) .. StartOf(i + 1) - 1 :
     lfs_ctz_index(pos) =
       [index |-> i, off |-> pos - StartOf(i) + (IF i = 0 THEN 0 ELSE WORD * (lfs_ctz(i) + 1))]

(* A list that grew block by block: every byte is found in its block, and   *)
(* a traversal comes to every block once                                    *)
ListIsComplete(blocks) ==
  LET f == lfs_file_flushedwrite(lfs_file_opencfg(<<>>, Created, FALSE), Written(0, StartOf(blocks)))
      Of(i) == lfs_ctz_find(f.disk, f.block, f.pos, StartOf(i)).block
      visited == lfs_ctz_traverse(f.disk, f.block, f.pos)
  IN /\ \A i \in 0 .. blocks - 1 : Of(i) = i + 1
     /\ visited = [i \in 1 .. blocks |-> blocks + 1 - i]
=============================================================================
