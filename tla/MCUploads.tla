------------------------------- MODULE MCUploads -------------------------------
(* Three tasks, of which one uploads, one reads and one formats; bodies that  *)
(* look like a boundary for a while, and one of each kind of error.           *)
EXTENDS Uploads, TLC

MCTasks == {"httpd", "ui", "loop"}
MCFiles == {<<"f">>}

MCHeader == [p |-> [name |-> "path", fileName |-> ""],
             b |-> [name |-> "basePath", fileName |-> ""],
             d |-> [name |-> "note", fileName |-> ""],
             f |-> [name |-> "file", fileName |-> "f"]]

MCSymbols == DOMAIN MCHeader \union
  {"r", "n", "-", "B", "x", "y", "m", "a", "g", "i", "c", "0", "o", "flash", "sd", ".."}

Part(h, data) == [header |-> h, data |-> data]
Upload(parts) == [kind |-> "upload", boundary |-> TRUE, parts |-> parts]
Ota(parts) == [kind |-> "ota", boundary |-> TRUE, parts |-> parts]

MCRequests == {
  Upload(<<Part("p", <<"flash", "..", "f">>), Part("f", <<"r", "n", "-", "x", "y">>)>>),
  Upload(<<Part("b", <<"sd">>), Part("f", <<"x", "r", "n", "-">>)>>),
  Upload(<<Part("p", <<"sd", "f">>), Part("f", <<"x">>), Part("f", <<"y">>)>>),
  Upload(<<Part("d", <<"x">>), Part("f", <<"y">>)>>),
  Ota(<<Part("f", <<"m", "a", "g", "i", "c", "0">>)>>),
  Ota(<<Part("f", <<"x", "a", "g", "i", "c">>)>>),
  [kind |-> "upload", boundary |-> FALSE, parts |-> <<>>],
  [kind |-> "ota", boundary |-> FALSE, parts |-> <<>>]}

(* esp_ota_end reads as much as the image's header says, and nothing behind *)
(* it.                                                                      *)
MCValidImages ==
  LET behind == boundaryMarker \o <<"-", "-", "r", "n">> IN
  {<<"m", "a", "g", "i", "c", "0">> \o SubSeq(behind, 1, n) : n \in 0 .. Len(behind)}

ASSUME MCAssumption == OneFormatter /\ OrderlyRequests
===============================================================================
