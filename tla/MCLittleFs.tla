------------------------------- MODULE MCLittleFs -------------------------------
(***************************************************************************)
(* The scenarios in which LittleFs is checked.  Names are numbers, in the   *)
(* order in which littlefs keeps them.                                      *)
(***************************************************************************)
EXTENDS LittleFs

Ask(kind, path) == [kind |-> kind, path |-> path, to |-> <<>>, data |-> {}]
Mkdir(path) == Ask("mkdir", path)
Unlink(path) == Ask("unlink", path)
Rmdir(path) == Ask("rmdir", path)
Rename(from, to) == [Ask("rename", from) EXCEPT !.to = to]
Touch(path) == [Ask("open", path) EXCEPT !.data = {Empty}]

Scenario(first, then, more, t, f) ==
  [first |-> first, then |-> then, more |-> more, tired |-> t, failures |-> f]

(* Files and directories come and go in a directory                         *)
InOneDirectory ==
  Scenario(<<Mkdir(<<1>>)>>,
           {Touch(<<1, 1>>), Rename(<<1, 1>>, <<2>>), Rmdir(<<1>>), Mkdir(<<1, 2>>)}, 2, 1, 1)

(* A file, perhaps an open one, is moved between directories                *)
BetweenDirectories ==
  Scenario(<<Mkdir(<<1>>), Mkdir(<<2>>), Touch(<<1, 1>>)>>,
           {Rename(<<1, 1>>, <<2, 1>>), Rename(<<2, 1>>, <<1, 1>>), Rename(<<1, 1>>, <<1, 2>>),
            Unlink(<<1, 1>>)}, 2, 1, 1)

(* Directories replace each other                                           *)
Directories ==
  Scenario(<<Mkdir(<<1>>), Mkdir(<<2>>)>>,
           {Rename(<<1>>, <<2>>), Rename(<<2>>, <<1>>), Rename(<<1>>, <<1>>), Rmdir(<<1>>), Rmdir(<<2>>)},
           2, 1, 1)

(* A directory is split over several pairs, of which one becomes empty      *)
Split ==
  Scenario(<<Touch(<<2>>), Touch(<<4>>), Touch(<<6>>)>>,
           {Mkdir(<<1>>), Unlink(<<2>>), Rename(<<4>>, <<1>>)}, 1, 1, 1)

(* A pair and the pair of its parent are replaced; MCNested has it with a   *)
(* loss of power as well                                                    *)
Nested ==
  Scenario(<<Mkdir(<<1>>), Mkdir(<<1, 1>>), Mkdir(<<1, 1, 1>>)>>,
           {Rmdir(<<1, 1, 1>>), Mkdir(<<1, 1, 2>>), Rename(<<1, 1, 1>>, <<1, 2>>)}, 2, 2, 0)

(* A move is finished when the pair that it came from changes for another   *)
(* reason                                                                   *)
FromTheParent ==
  Scenario(<<Mkdir(<<1>>), Touch(<<1, 2>>), Touch(<<1, 2>>), Touch(<<2>>)>>,
           {Rename(<<2>>, <<1, 1>>)}, 1, 1, 1)

(* No block is left                                                         *)
Full ==
  Scenario(<<Mkdir(<<1>>), Mkdir(<<2>>), Mkdir(<<3>>), Mkdir(<<4>>), Mkdir(<<5>>)>>,
           {Mkdir(<<6>>), Rmdir(<<2>>)}, 1, 0, 1)

MCScenarios == {InOneDirectory, BetweenDirectories, Directories, Split, Nested, FromTheParent, Full}

(* Those in which the code does not do what it promises                     *)
MCTaken == {Split}
MCNested == {[Nested EXCEPT !.failures = 1]}

(* What is in a file.  Positions, with blocks of the smallest size that     *)
(* littlefs accepts; and sequences of calls on small blocks, from an empty  *)
(* file, from a list of four blocks, and from one that is appended to       *)
Places == INSTANCE FileData WITH BLOCK <- 128, WORD <- 4, INLINE_MAX <- 16, FILE_MAX <- 4096
Small == INSTANCE FileData WITH BLOCK <- 6, WORD <- 1, INLINE_MAX <- 2, FILE_MAX <- 24

On(name, n) == [op |-> name, n |-> n, cached |-> FALSE]
Seeks == {[op |-> name, n |-> n, cached |-> c] :
            name \in {"seek", "truncate"}, n \in {1, 6}, c \in BOOLEAN}
FileCalls == Seeks \union {On("read", 4), On("write", 1), On("write", 7), On("end", 0), On("end", 2),
                       On("end", 9), On("seek", -1), On("truncate", 12), On("truncate", 30),
                       On("sync", 0), On("reopen", 0)}

ASSUME Places!IndexIsPlace(20) /\ Small!IndexIsPlace(7) /\ Small!ListIsComplete(7)
ASSUME Small!FilesAreBytes(<<>>, FileCalls, 3, FALSE)
ASSUME Small!FilesAreBytes(<<On("write", 18), On("sync", 0)>>, FileCalls, 3, FALSE)
ASSUME Small!FilesAreBytes(<<On("write", 18), On("reopen", 0)>>, FileCalls, 3, TRUE)
===============================================================================
