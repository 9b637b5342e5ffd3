-------------------------------- MODULE Canvas --------------------------------
(***************************************************************************)
(* ui.canvas_flood_fill: a fill by rows with a stack of seeds.  Of an image *)
(* it sees which points have the colour of the first one: `area`, less what *)
(* it has painted.  Bound: the bounds of a canvas are those of its sprite,  *)
(* as they are until a script gives the canvas other ones (ui.set_bounds).  *)
(***************************************************************************)
EXTENDS Integers, FiniteSets, Sequences

Points(w, h) == (0 .. w - 1) \X (0 .. h - 1)

(* The columns of row y that are painted when the seed at x is taken: the   *)
(* ones between which and x the row has no gap                              *)
RowRun(area, x, y) ==
  LET row == {p[1] : p \in {q \in area : q[2] = y}}
  IN {c \in row : (IF c < x THEN c .. x ELSE x .. c) \subseteq row}

(* A row above or below gives a seed where a run of it begins               *)
Begins(area, run, c, y) ==
  /\ <<c, y>> \in area
  /\ c - 1 \in run => <<c - 1, y>> \notin area

(* The seeds of a row that was painted, the last pushed first               *)
RECURSIVE SeedsOf(_, _, _)
SeedsOf(area, run, y) ==
  LET begin == {c \in run : \E side \in {y - 1, y + 1} : Begins(area, run, c, side)}
  IN IF begin = {} THEN <<>>
     ELSE LET last == CHOOSE c \in begin : \A d \in begin : d <= c
          IN SelectSeq(<<<<last, y + 1>>, <<last, y - 1>>>>,
                       LAMBDA p : Begins(area, run, p[1], p[2]))
             \o SeedsOf(area, {c \in run : c < last}, y)

(* The loop over the stack, which gives up once more than cap seeds wait;   *)
(* what is left of the area                                                 *)
RECURSIVE FillRows(_, _, _)
FillRows(area, stack, cap) ==
  IF stack = <<>> THEN area
  ELSE LET s     == Head(stack)
           run   == RowRun(area, s[1], s[2])
           seeds == SeedsOf(area, run, s[2]) \o Tail(stack)
           rest  == area \ (run \X {s[2]})
       IN CASE s \notin area      -> FillRows(area, Tail(stack), cap)
            [] Len(seeds) > cap   -> rest
            [] OTHER              -> FillRows(rest, seeds, cap)

(* What is painted when the fill starts at <<x, y>>; a fill with the colour *)
(* that is there paints nothing and is left out                             *)
FloodFill(w, h, area, x, y, cap) ==
  LET around == SelectSeq(<<<<x, y + 1>>, <<x, y - 1>>, <<x + 1, y>>, <<x - 1, y>>>>,
                          LAMBDA p : p \in Points(w, h))
  IN IF <<x, y>> \notin Points(w, h) THEN {}
     ELSE area \ FillRows(area \ {<<x, y>>}, around, cap)

(* The definition that it is held against: the points that points of the    *)
(* area connect with the first one                                          *)
Adjacent(p, q) == \/ p[1] = q[1] /\ p[2] - q[2] \in {-1, 1}
                  \/ p[2] = q[2] /\ p[1] - q[1] \in {-1, 1}

RECURSIVE Connected(_, _)
Connected(area, some) ==
  LET more == some \cup {p \in area : \E q \in some : Adjacent(p, q)}
  IN IF more = some THEN some ELSE Connected(area, more)

(* With room for the seeds a fill paints what is connected                  *)
FillsConnected(w, h, cap) ==
  \A area \in SUBSET Points(w, h) : \A start \in area :
     FloodFill(w, h, area, start[1], start[2], cap) = Connected(area, {start})

(* Without room it may paint less, but never anything else                  *)
FillsNothingElse(w, h, cap) ==
  \A area \in SUBSET Points(w, h) : \A start \in area :
     FloodFill(w, h, area, start[1], start[2], cap) \subseteq Connected(area, {start})
=============================================================================
