------------------------------ MODULE MCUIScripts ------------------------------
(***************************************************************************)
(* Two scripts for checking UIScripts: one builds widgets and has a timer,  *)
(* the other has one widget.                                                *)
(***************************************************************************)
EXTENDS UIScripts, Canvas

CONSTANTS Builder, Ticker

MCScripts == {Builder, Ticker}

MCMaxHandles == [s \in MCScripts |-> IF s = Builder THEN 3 ELSE 1]

MCMaxTimers == [s \in MCScripts |-> IF s = Builder THEN 1 ELSE 0]

(* A canvas of four by three points is filled with room for six seeds, and  *)
(* with room for one no point is painted that should not be                 *)
ASSUME FillsConnected(4, 3, 6)
ASSUME FillsNothingElse(3, 3, 1)
=============================================================================
