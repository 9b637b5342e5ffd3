-------------------------------- MODULE LfsDisk --------------------------------
(***************************************************************************)
(* What littlefs keeps on the flash, and how it reads it (lfs.c).           *)
(*                                                                          *)
(* A directory is a chain of metadata pairs.  Of the two blocks of a pair   *)
(* the newer valid one counts; it holds the entries in the order of their   *)
(* names, and the id of an entry is its place.  All pairs are linked into   *)
(* one list by their tails, which starts with the superblock's pair; a tail *)
(* within a directory is marked as a split.  Changes that touch more than   *)
(* one pair are announced in the global state: the symmetric difference of  *)
(* the deltas of all pairs.  Its facts are the entry that is being moved,   *)
(* <<pair, id>>, and that there may be orphans, Orphan.                     *)
(*                                                                          *)
(* A pair is the set of its two blocks, {} if it is null.  lfs_pair_cmp     *)
(* takes pairs for the same if they share a block.                          *)
(***************************************************************************)
EXTENDS Integers, Sequences, FiniteSetsExt, SequencesExt

CONSTANTS
  N,    \* the number of blocks
  LOG,  \* how many commits a block takes until it has to be compacted
  CAP   \* how many entries a compacted block takes: half of what fits

ASSUME LfsDiskAssumption == N \in Nat /\ N > 2 /\ LOG \in Nat \ {0} /\ CAP \in Nat \ {0, 1}

Blocks == 0..(N - 1)
NoBlock == -1
NoId == -1
Superblock == {0, 1}
Orphan == <<{}, 0>>

(* The data of a file: whose it is, and how many pieces were written; and   *)
(* what stands for a directory, and for data that is not there              *)
Empty == [of |-> 0, pieces |-> 0]
Directory == [of |-> -1, pieces |-> 0]
Lost == [of |-> -2, pieces |-> 0]

Inline(data) == [type |-> "inline", data |-> data]
Ctz(b) == [type |-> "ctz", block |-> b]
DirStruct(pair) == [type |-> "dir", pair |-> pair]
Entry(name, struct) == [name |-> name, struct |-> struct]
SuperEntry == Entry(0, [type |-> "super"])

IsDir(e) == e.struct.type = "dir"

Only(S) == CHOOSE x \in S : TRUE

Xor(a, b) == (a \ b) \union (b \ a)

-----------------------------------------------------------------------------
(* Blocks: metadata, the data of a file, or what cannot be read             *)
Junk == [kind |-> "junk"]
Data(d) == [kind |-> "data", data |-> d]

Pair(m) == {m.pair[1], m.pair[2]}

(* The block that a metadata pair in memory is the image of                 *)
Image(m) == [kind |-> "meta", rev |-> m.rev, log |-> m.log, torn |-> FALSE, entries |-> m.entries,
             tail |-> m.tail, split |-> m.split, delta |-> m.delta]

(* lfs_dir_fetch: `erased` is that more can be appended to the block, which *)
(* a commit that was cut off prevents.                                      *)
MDir(pair, b) == [pair |-> pair, rev |-> b.rev, log |-> b.log, erased |-> ~b.torn,
                  entries |-> b.entries, tail |-> b.tail, split |-> b.split, delta |-> b.delta]

(* Revisions are compared by their difference; of a pair they differ by one *)
Newer(b, c) == c.kind # "meta" \/ (b.rev - c.rev) % 3 = 1

Fetchable(disk, pair) == \E b \in pair : disk[b].kind = "meta"

Best(disk, pair) ==
  CHOOSE b \in pair : disk[b].kind = "meta" /\ \A c \in pair \ {b} : Newer(disk[b], disk[c])

lfs_dir_fetch(disk, pair) ==
  LET Of(best) == MDir(<<best, CHOOSE c \in pair : c # best>>, disk[best]) IN Of(Best(disk, pair))

(* The pairs from m on: all of the list, or only those of the directory;    *)
(* none behind a pair that cannot be read.  A list with more than N pairs   *)
(* has a cycle.                                                             *)
RECURSIVE Walk(_, _, _, _)
Walk(disk, m, all, n) ==
  IF m.tail = {} \/ n = 0 \/ ~(all \/ m.split) \/ ~Fetchable(disk, m.tail) THEN <<m>>
  ELSE <<m>> \o Only({Walk(disk, t, all, n - 1) : t \in {lfs_dir_fetch(disk, m.tail)}})

Threaded(disk, m) == Walk(disk, m, TRUE, N)
TailList(disk) == Threaded(disk, lfs_dir_fetch(disk, Superblock))

(* The pairs of one directory                                               *)
Chain(disk, m) == Walk(disk, m, FALSE, N)

(* lfs_mount: the state on the disk, and the last pair with a superblock    *)
GState(disk) == FoldLeft(LAMBDA acc, m : Xor(acc, m.delta), {}, TailList(disk))

Root(disk) ==
  LET l == TailList(disk)
  IN Pair(l[Max({i \in DOMAIN l : l[i].entries # <<>> /\ l[i].entries[1] = SuperEntry})])

-----------------------------------------------------------------------------
(* Reading while a move is pending: its source is left out, and the ids     *)
(* above it are shifted (lfs_dir_getslice, lfs_dir_fetchmatch).             *)

hasmovehere(gs, pair) == \E f \in gs : f[1] \intersect pair # {}
moveid(gs, pair) == IF hasmovehere(gs, pair)
                    THEN (CHOOSE f \in gs : f[1] \intersect pair # {})[2] ELSE NoId

(* lfs_dir_get: the entries that have this id; there is one or none.        *)
lfs_dir_get(gdisk, m, id) ==
  LET move == moveid(gdisk, Pair(m))
      place == IF move # NoId /\ move < id THEN id + 1 ELSE id
  IN IF id = move THEN {} ELSE {m.entries[i] : i \in {i \in DOMAIN m.entries : i = place + 1}}

(* What a listing shows of it: files and directories                        *)
lfs_dir_getinfo(gdisk, m, id) == lfs_dir_get(gdisk, m, id) \ {SuperEntry}

Shifted(gdisk, m, id) ==
  LET move == moveid(gdisk, Pair(m)) IN IF move # NoId /\ move < id THEN id - 1 ELSE id

(* The ids of the entries with a name, and of those with a greater one      *)
lfs_dir_find_match(m, name) ==
  [eq |-> {i - 1 : i \in {i \in DOMAIN m.entries : m.entries[i].name = name}},
   gt |-> {i - 1 : i \in {i \in DOMAIN m.entries : m.entries[i].name > name}}]

(* lfs_dir_fetchmatch for a name: its id, or that of the first greater one. *)
Match(gdisk, m, name) ==
  LET ids == lfs_dir_find_match(m, name)
      best == IF ids.eq # {} THEN Min(ids.eq) ELSE Min(ids.gt \union {Len(m.entries)})
  IN [found |-> ids.eq # {} /\ best # moveid(gdisk, Pair(m)),
      stop |-> best < Len(m.entries), id |-> Shifted(gdisk, m, best)]

(* lfs_dir_find for one segment of a path.                                  *)
Lookup(disk, gdisk, pair, name) ==
  LET Hit(m, hit) == [err |-> "none", found |-> hit.found, m |-> m, id |-> hit.id,
                      entry |-> IF hit.found THEN lfs_dir_get(gdisk, m, hit.id) ELSE {}]
      In(m) == Hit(m, Match(gdisk, m, name))
      First(c) == LET stops == {i \in DOMAIN c : Match(gdisk, c[i], name).stop}
                  IN c[IF stops = {} THEN Len(c) ELSE Min(stops)]
  IN In(First(Chain(disk, lfs_dir_fetch(disk, pair))))

(* lfs_dir_find: what the path leads to; if only its last segment is        *)
(* missing, where it would be.                                              *)
RECURSIVE FindFrom(_, _, _, _)
FindFrom(disk, gdisk, d, path) ==
  IF path = <<>> THEN d
  ELSE IF ~d.found \/ d.entry = {} THEN [d EXCEPT !.err = "noent", !.found = FALSE]
  ELSE IF \E e \in d.entry : ~IsDir(e) THEN [d EXCEPT !.err = "notdir", !.found = FALSE]
  ELSE FindFrom(disk, gdisk, Lookup(disk, gdisk, Only(d.entry).struct.pair, Head(path)), Tail(path))

lfs_dir_find(disk, gdisk, root, path) ==
  FindFrom(disk, gdisk, [err |-> "none", found |-> TRUE, entry |-> {Entry(0, DirStruct(root))}], path)

-----------------------------------------------------------------------------
(* Searches of the whole list                                               *)

(* The first of these places in a list: one element or none                 *)
FirstOf(l, hits) == IF hits = {} THEN {} ELSE {l[Min(hits)]}

lfs_fs_pred(disk, pair) ==
  LET l == TailList(disk) IN FirstOf(l, {i \in DOMAIN l : l[i].tail \intersect pair # {}})

Refers(gdisk, m, pair) ==
  {i - 1 : i \in {i \in DOMAIN m.entries : IsDir(m.entries[i])
                    /\ m.entries[i].struct.pair \intersect pair # {}}} \ {moveid(gdisk, Pair(m))}

(* lfs_fs_parent: the entry that refers to a pair, by its pair and its id   *)
lfs_fs_parent(disk, gdisk, pair) ==
  LET l == TailList(disk)
  IN {[m |-> m, id |-> Shifted(gdisk, m, Only(Refers(gdisk, m, pair)))] :
        m \in FirstOf(l, {i \in DOMAIN l : Refers(gdisk, l[i], pair) # {}})}

(* The blocks of a file.  Bound: there is one.                              *)
lfs_ctz_traverse(e) == IF e.struct.type = "ctz" THEN {e.struct.block} ELSE {}

(* lfs_fs_traverse_: the blocks in use, with those of the open files.       *)
lfs_fs_traverse(disk, gdisk, ofFiles) ==
  LET Of(e) == IF IsDir(e) THEN e.struct.pair ELSE lfs_ctz_traverse(e)
      In(m) == Pair(m) \union UNION {Of(e) : e \in UNION {lfs_dir_get(gdisk, m, id) :
                                                          id \in 0..(Len(m.entries) - 1)}}
  IN ofFiles \union UNION {In(m) : m \in ToSet(TailList(disk))}

(* lfs_fs_size_: how often lfs_fs_traverse_ comes upon a block; here it     *)
(* leaves out the pairs that entries refer to.                              *)
lfs_fs_size(disk, gdisk, ofFiles) ==
  LET Files(m) == {id \in 0..(Len(m.entries) - 1) :
                     \E e \in lfs_dir_get(gdisk, m, id) : lfs_ctz_traverse(e) # {}}
      In(m) == Cardinality(Pair(m)) + Cardinality(Files(m))
  IN Cardinality(ofFiles) + MapThenSumSet(In, ToSet(TailList(disk)))

-----------------------------------------------------------------------------
(* What the disk promises: the tree as the state on the disk has it, with   *)
(* the source of a pending move taken as deleted (SPEC.md).                 *)

Children(disk, gs, pair) ==
  LET c == Chain(disk, lfs_dir_fetch(disk, pair))
      In(m) == {m.entries[i] : i \in {i \in DOMAIN m.entries : i - 1 # moveid(gs, Pair(m))}}
  IN UNION {In(c[i]) : i \in DOMAIN c} \ {SuperEntry}

Content(disk, e) ==
  CASE IsDir(e) -> Directory
    [] e.struct.type = "inline" -> e.struct.data
    [] OTHER -> IF disk[e.struct.block].kind = "data" THEN disk[e.struct.block].data ELSE Lost

(* Bound: how deep directories are nested                                   *)
DEPTH == 3

(* The entries with their paths, by the number of their segments            *)
Level(disk, gs, root) ==
  LET level[n \in 1..DEPTH] ==
        IF n = 1 THEN {<<<<e.name>>, e>> : e \in Children(disk, gs, root)}
        ELSE UNION {{<<Append(d[1], e.name), e>> : e \in Children(disk, gs, d[2].struct.pair)} :
                      d \in {d \in level[n - 1] : IsDir(d[2])}}
  IN level

TreeOf(disk, nodes) ==
  [p \in {x[1] : x \in nodes} |-> Content(disk, (CHOOSE x \in nodes : x[1] = p)[2])]

Nodes(disk) ==
  LET All(level) == UNION {level[n] : n \in 1..DEPTH}
  IN UNION {All(Level(disk, gs, root)) : gs \in {GState(disk)}, root \in {Root(disk)}}

Tree(disk) == Only({TreeOf(disk, nodes) : nodes \in {Nodes(disk)}})

(* The blocks of the files in the tree                                      *)
InFiles(disk) == {d[2].struct.block : d \in {d \in Nodes(disk) : d[2].struct.type = "ctz"}}
===============================================================================
