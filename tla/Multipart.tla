------------------------------- MODULE Multipart -------------------------------
(***************************************************************************)
(* parseMultipartRequest (MultipartParser.h): a body is read in pieces of   *)
(* any size, and is cut into its parts as the pieces come in.  A boundary   *)
(* may be split anywhere, so the parser keeps back as many bytes as could   *)
(* be the beginning of one.  The callbacks are the caller's: `call` holds   *)
(* the call that is under way, Returned what happens when it comes back.    *)
(*                                                                          *)
(* A body is a sequence of bytes; the block of headers of a part is one     *)
(* symbol, of which Header gives what mpParsePartHeaders reads in it.       *)
(***************************************************************************)
EXTENDS Integers, Sequences, FiniteSetsExt

CONSTANTS
  Symbols,   \* what bodies are made of
  Header,    \* the symbols for headers -> [name, fileName]
  READ_SZ    \* the most that is read at once

ASSUME MultipartAssumption ==
  /\ {"r", "n", "-", "B"} \subseteq Symbols
  /\ READ_SZ \in Nat \ {0}

VARIABLES
  mp,     \* the local variables of parseMultipartRequest, and what is unread
  call    \* the callback that is running

NoCall == [kind |-> "none", data |-> <<>>, first |-> FALSE, final |-> FALSE, last |-> FALSE]

boundaryMarker == <<"r", "n", "-", "-", "B">>
firstBoundary  == <<"-", "-", "B", "r", "n">>
headerEnd      == <<"r", "n", "r", "n">>

Idle == [state |-> "IDLE", buffer |-> <<>>, unread |-> <<>>, header |-> "none",
         isFirstChunk |-> TRUE, fieldValue |-> <<>>, eof |-> FALSE, ret |-> "none"]

(* The place of a pattern in a buffer, 0 if it is not in it.                *)
find(s, pat) ==
  LET places == {i \in 1..(Len(s) - Len(pat) + 1) :
                   SubSeq(s, i, i + Len(pat) - 1) = pat}
  IN IF places = {} THEN 0 ELSE Min(places)

from(s, i) == SubSeq(s, i, Len(s))

mpParsePartHeaders(h) == Header[h]

isFile == mpParsePartHeaders(mp.header).fileName # ""

(* The call of parseMultipartRequest: without a boundary it returns at once *)
Parse(body, boundary) ==
  mp' = IF boundary THEN [Idle EXCEPT !.state = "PREAMBLE", !.unread = body]
                    ELSE [Idle EXCEPT !.state = "DONE", !.ret = "INVALID_ARG"]

Parsing == call = NoCall /\ mp.state \notin {"IDLE", "DONE"}

FindFirstBoundary ==
  /\ Parsing /\ mp.state = "PREAMBLE"
  /\ find(mp.buffer, firstBoundary) # 0
  /\ mp' = [mp EXCEPT !.state = "HEADER",
                      !.buffer = from(@, find(@, firstBoundary) + Len(firstBoundary))]
  /\ UNCHANGED call

ParseHeader ==
  /\ Parsing /\ mp.state = "HEADER"
  /\ find(mp.buffer, headerEnd) # 0
  /\ mp' = [mp EXCEPT !.state = "BODY",
                      !.header = mp.buffer[find(mp.buffer, headerEnd) - 1],
                      !.buffer = from(@, find(@, headerEnd) + Len(headerEnd)),
                      !.isFirstChunk = TRUE, !.fieldValue = <<>>]
  /\ UNCHANGED call

FileData(data, final, last) ==
  [kind |-> "file", data |-> data, first |-> mp.isFirstChunk, final |-> final, last |-> last]

Field(value, last) ==
  [kind |-> "field", data |-> value, first |-> TRUE, final |-> TRUE, last |-> last]

(* A part that ends: the rest of its data is the caller's.                  *)
FindBoundary ==
  LET pos == find(mp.buffer, boundaryMarker)
      data == SubSeq(mp.buffer, 1, pos - 1)
  IN /\ Parsing /\ mp.state = "BODY"
     /\ pos # 0
     /\ call' = IF isFile THEN FileData(data, TRUE, FALSE)
                          ELSE Field(mp.fieldValue \o data, FALSE)
     /\ mp' = [mp EXCEPT !.state = "AFTER_BOUNDARY",
                         !.buffer = from(@, pos + Len(boundaryMarker))]

Kept_LineEnd(buffer) == Min({Len(buffer), 2})

(* What is kept back of the data without a boundary in it                   *)
Kept(buffer) == Min({Len(buffer), Len(boundaryMarker)})

Flush ==
  LET safeLen == Len(mp.buffer) - Kept(mp.buffer)
      data == SubSeq(mp.buffer, 1, safeLen)
  IN /\ Parsing /\ mp.state = "BODY"
     /\ find(mp.buffer, boundaryMarker) = 0
     /\ safeLen > 0
     /\ call' = IF isFile THEN FileData(data, FALSE, FALSE) ELSE NoCall
     /\ mp' = [mp EXCEPT !.buffer = from(@, safeLen + 1),
                         !.isFirstChunk = @ /\ ~isFile,
                         !.fieldValue = IF isFile THEN @ ELSE @ \o data]

AfterBoundary ==
  /\ Parsing /\ mp.state = "AFTER_BOUNDARY"
  /\ Len(mp.buffer) >= 2
  /\ mp' = IF SubSeq(mp.buffer, 1, 2) = <<"-", "-">>
           THEN [mp EXCEPT !.state = "DONE", !.ret = "OK"]
           ELSE [mp EXCEPT !.state = "HEADER", !.buffer = from(@, 3)]
  /\ UNCHANGED call

(* No more can be done with what has been read. *)
Progress ==
  \/ mp.state = "PREAMBLE" /\ find(mp.buffer, firstBoundary) # 0
  \/ mp.state = "HEADER" /\ find(mp.buffer, headerEnd) # 0
  \/ mp.state = "BODY" /\ (find(mp.buffer, boundaryMarker) # 0
                            \/ Len(mp.buffer) > Kept(mp.buffer))
  \/ mp.state = "AFTER_BOUNDARY" /\ Len(mp.buffer) >= 2

Starved == Parsing /\ ~Progress

(* httpd_req_recv: what has arrived; a timeout is a retry, that is no step. *)
Receive ==
  /\ Starved /\ ~mp.eof /\ mp.unread # <<>>
  /\ \E n \in 1..Min({READ_SZ, Len(mp.unread)}) :
       mp' = [mp EXCEPT !.buffer = @ \o SubSeq(mp.unread, 1, n),
                        !.unread = from(@, n + 1)]
  /\ UNCHANGED call

(* The connection is lost. *)
Disconnect ==
  /\ Starved /\ ~mp.eof /\ mp.unread # <<>>
  /\ mp' = [mp EXCEPT !.eof = TRUE]
  /\ UNCHANGED call

(* Nothing more comes: what is left in a part is passed on as its end.      *)
EndOfStream ==
  /\ Starved /\ (mp.eof \/ mp.unread = <<>>)
  /\ mp' = [mp EXCEPT !.state = "DONE", !.ret = "OK"]
  /\ call' = IF mp.state # "BODY" \/ mp.buffer = <<>> THEN NoCall
             ELSE IF isFile THEN FileData(mp.buffer, TRUE, TRUE)
             ELSE Field(mp.fieldValue \o mp.buffer, TRUE)

(* The callback returns: false ends the parsing, but not from the last call *)
Returned(cont) ==
  /\ call' = NoCall
  /\ mp' = IF cont \/ call.last THEN mp
           ELSE [mp EXCEPT !.state = "DONE", !.ret = "INVALID_STATE"]

ParserStep ==
  \/ FindFirstBoundary \/ ParseHeader \/ FindBoundary \/ Flush \/ AfterBoundary
  \/ EndOfStream
===============================================================================
