---------------------------- MODULE UploadsProofs ----------------------------
(***************************************************************************)
(* For any requests, any pieces in which the network delivers them and      *)
(* anything that fails on the way, four invariants, each one on top of      *)
(* those before it:                                                         *)
(*                                                                          *)
(*  - IInv: an update request leaves no update open;                        *)
(*  - FlashInv: what boots is a whole image and the file that was sent.  It *)
(*    says where in the body the parser is (Position), which needs of the   *)
(*    requests that no data has the boundary in it (OrderlyRequests);       *)
(*  - FilesInv: the descriptors of esp_littlefs.c stay their tasks', while  *)
(*    one task formats only (OneFormatter);                                 *)
(*  - StoreInv: an upload has stored the file that was sent.                *)
(***************************************************************************)
EXTENDS Uploads, DataLemmas

MpStates == {"IDLE", "PREAMBLE", "HEADER", "BODY", "AFTER_BOUNDARY", "DONE"}

(* The shapes of the parser, of the handler and of the update.              *)
ParserType ==
  /\ mp \in [state : MpStates, buffer : Seq(Symbols), unread : Seq(Symbols),
             header : {mp.header}, isFirstChunk : BOOLEAN,
             fieldValue : Seq(Symbols), eof : BOOLEAN, ret : {mp.ret}]
  /\ call \in [kind : {"none", "field", "file"}, data : Seq(Symbols),
               first : BOOLEAN, final : BOOLEAN, last : BOOLEAN]
  /\ call.kind = "none" => call = NoCall

HandlerType ==
  /\ handler \in [pc : {"none", "parsing", "opening", "writing", "closing", "onCard", "answered"},
                  targetPath : {handler.targetPath}, basePath : {handler.basePath},
                  error : BOOLEAN, otaStarted : BOOLEAN, answer : {"none", "ok", "400", "500"}]
  /\ ota \in [open : BOOLEAN, image : {ota.image}, boot : {ota.boot}]

(* The body of a file goes on: something was kept back of it, so that a     *)
(* last piece comes, and it will not be the first.                          *)
GoesOn == mp.state = "BODY" /\ isFile /\ ~mp.isFirstChunk /\ mp.buffer # <<>>

(* The steps of uploadFilesHandler inside a callback                        *)
Storing == {"opening", "writing", "closing", "onCard"}

(* A callback runs for a handler only, and a piece that is not the last one *)
(* leaves the parser where the next one comes from.                         *)
CallInv ==
  /\ handler.pc \in Storing => call # NoCall
  /\ call # NoCall => /\ handler.pc \notin {"none", "answered"}
                      /\ mp.state \in {"BODY", "AFTER_BOUNDARY", "DONE"}
  /\ call.kind = "file" /\ ~call.final => GoesOn
  /\ call.last => mp.state = "DONE"

(* A handler that has failed is not called any more.                        *)
ErrorInv == handler.error => call = NoCall /\ mp.state = "DONE"

(* An open update is that of the request, which has noted that it began; if *)
(* nothing has failed, another piece of its file is on the way.             *)
OpenInv ==
  ota.open =>
    /\ request.kind = "ota" /\ handler.pc = "parsing" /\ handler.otaStarted
    /\ ~handler.error => \/ call = NoCall /\ GoesOn
                         \/ call.kind = "file" /\ ~call.first

IInv == ParserType /\ HandlerType /\ CallInv /\ ErrorInv /\ OpenInv

-----------------------------------------------------------------------------
(* What the parser takes from its buffer are sequences again.               *)

(* What From leaves of a sequence of symbols is one.                        *)
LEMMA FromIsSeq ==
  ASSUME NEW s \in Seq(Symbols), NEW i \in Nat \ {0}
  PROVE  from(s, i) \in Seq(Symbols)
  BY DEF from

(* Min of two numbers is the lesser one.                                    *)
LEMMA SetMin ==
  ASSUME NEW a \in Int, NEW b \in Int
  PROVE  Min({a, b}) \in {a, b} /\ Min({a, b}) <= a /\ Min({a, b}) <= b
  <1>1. \E x \in {a, b} : \A y \in {a, b} : x <= y
    <2>1. CASE a <= b
      BY <2>1
    <2>2. CASE b <= a
      BY <2>2
    <2> QED
      BY <2>1, <2>2
  <1> QED
    BY <1>1 DEF Min

(* A pattern that is in a buffer is found at the first of its places.       *)
Occurs(s, pat, p) ==
  /\ p \in 1 .. Len(s) - Len(pat) + 1
  /\ \A q \in 1 .. Len(pat) : s[p + q - 1] = pat[q]

(* Parts of a sequence of symbols are sequences of symbols.                 *)
LEMMA SubSeqIs ==
  ASSUME NEW s \in Seq(Symbols), NEW pat \in Seq(Symbols), NEW p \in 1 .. Len(s) - Len(pat) + 1
  PROVE  SubSeq(s, p, p + Len(pat) - 1) = pat <=> \A q \in 1 .. Len(pat) : s[p + q - 1] = pat[q]
  <1> DEFINE n == Len(pat)
             u == SubSeq(s, p, p + n - 1)
  <1>1. n \in Nat /\ Len(s) \in Nat /\ p \in Nat \ {0} /\ p + n - 1 <= Len(s)
        /\ p + n - 1 \in Int /\ (p + n - 1) - p + 1 = n
    OBVIOUS
  <1>2. \A k \in p .. p + n - 1 : s[k] \in Symbols
    BY <1>1
  <1>3. u \in Seq(Symbols) /\ Len(u) = n /\ \A q \in 1 .. n : u[q] = s[p + q - 1]
    <2> HIDE DEF n
    <2>1. u \in Seq(Symbols)
      BY <1>1, <1>2, SubSeqProperties
    <2>2. Len(u) = IF p <= p + n - 1 THEN (p + n - 1) - p + 1 ELSE 0
      BY <1>1, <1>2, SubSeqProperties
    <2>3. \A q \in 1 .. (p + n - 1) - p + 1 : u[q] = s[p + q - 1]
      BY <1>1, <1>2, SubSeqProperties
    <2> QED
      BY <1>1, <2>1, <2>2, <2>3
  <1>4. pat \in Seq(Symbols) /\ Len(pat) = n
    OBVIOUS
  <1> HIDE DEF u, n
  <1>5. (\A q \in 1 .. n : u[q] = pat[q]) => u = pat
    BY <1>3, <1>4, SeqEqual
  <1> QED
    BY <1>3, <1>5 DEF u, n

(* What find returns is a place of the pattern, or 0.                       *)
LEMMA FindIsFirst ==
  ASSUME NEW s \in Seq(Symbols), NEW pat \in Seq(Symbols)
  PROVE  /\ find(s, pat) \in Nat
         /\ find(s, pat) # 0 => Occurs(s, pat, find(s, pat))
         /\ \A p : Occurs(s, pat, p) => find(s, pat) # 0 /\ find(s, pat) <= p
  <1> DEFINE places == {i \in 1..(Len(s) - Len(pat) + 1) :
                          SubSeq(s, i, i + Len(pat) - 1) = pat}
  <1>1. \A p : p \in places <=> Occurs(s, pat, p)
    BY SubSeqIs DEF Occurs
  <1>2. find(s, pat) = IF places = {} THEN 0 ELSE Min(places)
    BY DEF find
  <1>3. places \in SUBSET Nat /\ 0 \notin places
    OBVIOUS
  <1> HIDE DEF places
  <1>4. CASE places = {}
    BY <1>1, <1>2, <1>4
  <1>5. CASE places # {}
    <2>1. Min(places) \in places /\ \A p \in places : Min(places) <= p
      BY <1>3, <1>5, MinIsLeast
    <2>2. find(s, pat) = Min(places)
      BY <1>2, <1>5
    <2>3. Occurs(s, pat, Min(places)) /\ Min(places) \in Nat /\ Min(places) # 0
      BY <1>1, <1>3, <2>1
    <2>4. \A p : Occurs(s, pat, p) => Min(places) <= p
      BY <1>1, <2>1
    <2> QED
      BY <2>2, <2>3, <2>4
  <1> QED
    BY <1>4, <1>5

(* What is left behind a pattern that was found is a sequence.              *)
LEMMA RestIsSeq ==
  ASSUME NEW s \in Seq(Symbols), NEW pat \in Seq(Symbols), Len(pat) # 0
  PROVE  from(s, find(s, pat) + Len(pat)) \in Seq(Symbols)
  <1>1. find(s, pat) \in Nat /\ Len(pat) \in Nat
    BY FindIsFirst
  <1>2. find(s, pat) + Len(pat) \in Nat \ {0}
    BY <1>1
  <1> QED
    BY <1>2, FromIsSeq

(* What is before a place is a sequence, too.                               *)
LEMMA UpToIsSeq ==
  ASSUME NEW s \in Seq(Symbols), NEW n \in Int, n <= Len(s)
  PROVE  SubSeq(s, 1, n) \in Seq(Symbols) /\ Len(SubSeq(s, 1, n)) = (IF n >= 1 THEN n ELSE 0)
         /\ \A q \in 1 .. n : SubSeq(s, 1, n)[q] = s[q]
  <1>1. \A i \in 1 .. n : s[i] \in Symbols
    OBVIOUS
  <1>2. 1 \in Int /\ n - 1 + 1 = n /\ \A q \in 1 .. n : 1 + q - 1 = q
    OBVIOUS
  <1> QED
    BY <1>1, <1>2, SubSeqProperties

(* So is what was before it.                                                *)
LEMMA BeforeIsSeq ==
  ASSUME NEW s \in Seq(Symbols), NEW pat \in Seq(Symbols), Len(pat) # 0
  PROVE  SubSeq(s, 1, find(s, pat) - 1) \in Seq(Symbols)
  <1>1. find(s, pat) \in Nat /\ Len(pat) \in Nat \ {0} /\ Len(s) \in Nat
        /\ (find(s, pat) # 0 => Occurs(s, pat, find(s, pat)))
    BY FindIsFirst
  <1>2. find(s, pat) - 1 \in Int /\ find(s, pat) - 1 <= Len(s)
    BY <1>1 DEF Occurs
  <1> QED
    BY <1>2, UpToIsSeq

(* A flush keeps something back.                                            *)
LEMMA FlushKeeps ==
  ASSUME NEW s \in Seq(Symbols), Len(s) - Kept(s) > 0
  PROVE  /\ Len(s) - Kept(s) \in Nat /\ Kept(s) = 5
         /\ from(s, Len(s) - Kept(s) + 1) \in Seq(Symbols)
         /\ from(s, Len(s) - Kept(s) + 1) # <<>>
  <1>1. Len(boundaryMarker) = 5 /\ Len(s) \in Nat
    BY DEF boundaryMarker
  <1>2. Kept(s) \in {Len(s), 5} /\ Kept(s) <= 5
    <2>1. Len(s) \in Int /\ Len(boundaryMarker) \in Int
      BY <1>1
    <2>2. /\ Kept(s) \in {Len(s), Len(boundaryMarker)}
          /\ Kept(s) <= Len(boundaryMarker)
      BY <2>1, SetMin, Zenon DEF Kept
    <2> QED
      BY <1>1, <2>2
  <1>3. Kept(s) = 5
    BY <1>1, <1>2
  <1>4. from(s, Len(s) - 5 + 1) = SubSeq(s, Len(s) - 4, Len(s)) /\ Len(s) - 4 \in 1 .. Len(s)
    BY <1>1, <1>3 DEF from
  <1>5. SubSeq(s, Len(s) - 4, Len(s)) \in Seq(Symbols) /\ Len(SubSeq(s, Len(s) - 4, Len(s))) = 5
    BY <1>1, <1>4
  <1>6. SubSeq(s, Len(s) - 4, Len(s)) # <<>>
    <2> DEFINE t == SubSeq(s, Len(s) - 4, Len(s))
    <2>1. t \in Seq(Symbols) /\ Len(t) = 5
      BY <1>5
    <2> HIDE DEF t
    <2>2. t = <<>> => Len(t) = 0
      BY EmptySeq, Zenon
    <2>3. Len(t) # 0
      BY <2>1
    <2> QED
      BY <2>2, <2>3, Zenon DEF t
  <1>7. Len(s) - Kept(s) \in Nat
    BY <1>1, <1>3
  <1> QED
    BY <1>3, <1>4, <1>5, <1>6, <1>7

(* What the parser looks for is not empty.                                  *)
LEMMA PatternsNotEmpty ==
  Len(boundaryMarker) # 0 /\ Len(firstBoundary) # 0 /\ Len(headerEnd) # 0
  BY DEF boundaryMarker, firstBoundary, headerEnd

(* And it is a sequence of symbols.                                         *)
LEMMA PatternsAreSequences ==
  /\ boundaryMarker \in Seq(Symbols) /\ Len(boundaryMarker) = 5
  /\ firstBoundary \in Seq(Symbols) /\ Len(firstBoundary) = 5
  /\ headerEnd \in Seq(Symbols) /\ Len(headerEnd) = 4
  <1>1. "r" \in Symbols /\ "n" \in Symbols /\ "-" \in Symbols /\ "B" \in Symbols
    BY MultipartAssumption
  <1>2. \A a, b, c, d, e \in Symbols :
          /\ <<a, b, c, d, e>> \in Seq(Symbols) /\ Len(<<a, b, c, d, e>>) = 5
          /\ <<a, b, c, d>> \in Seq(Symbols) /\ Len(<<a, b, c, d>>) = 4
    OBVIOUS
  <1> QED
    BY <1>1, <1>2 DEF boundaryMarker, firstBoundary, headerEnd

(* The parts of a body one after the other are a sequence of symbols.       *)
LEMMA BodyIsSeq ==
  ASSUME NEW parts \in Seq([header : Symbols, data : Seq(Symbols)])
  PROVE  Body(parts) \in Seq(Symbols)
  <1> DEFINE end(i) == IF i = Len(parts) THEN <<"-", "-", "r", "n">> ELSE <<"r", "n">>
             Part(i) == <<parts[i].header>> \o headerEnd \o parts[i].data \o boundaryMarker
                        \o end(i)
             seqs == [i \in DOMAIN parts |-> Part(i)]
  <1>1. Len(parts) \in Nat /\ DOMAIN parts = 1 .. Len(parts)
    OBVIOUS
  <1>2. ASSUME NEW i \in DOMAIN parts PROVE Part(i) \in Seq(Symbols)
    <2>1. parts[i] \in [header : Symbols, data : Seq(Symbols)]
      BY ElementOfSeq, <1>1
    <2>2. <<parts[i].header>> \in Seq(Symbols) /\ parts[i].data \in Seq(Symbols)
      BY <2>1
    <2>3. end(i) \in Seq(Symbols)
      <3>1. "r" \in Symbols /\ "n" \in Symbols /\ "-" \in Symbols
        BY MultipartAssumption
      <3> QED
        BY <3>1
    <2> HIDE DEF end
    <2> QED
      BY <2>2, <2>3, PatternsAreSequences
  <1>3. seqs \in Seq(Seq(Symbols))
    <2> HIDE DEF Part
    <2> QED
      BY <1>1, <1>2
  <1>4. Body(parts) = firstBoundary \o FlattenSeq(seqs)
    BY DEF Body
  <1> HIDE DEF seqs
  <1> QED
    BY <1>3, <1>4, FlattenIsSeq, PatternsAreSequences
-----------------------------------------------------------------------------
(* At the start there is no handler and no call.                            *)
LEMMA InitIInv == InitUploads => IInv
  <1>1. ASSUME InitUploads PROVE IInv
    <2>1. mp = Idle /\ call = NoCall /\ handler = NoHandler
          /\ ota = [open |-> FALSE, image |-> <<>>, boot |-> "running"]
      BY <1>1 DEF InitUploads
    <2>2. <<>> \in Seq(Symbols)
      OBVIOUS
    <2>3. ParserType /\ HandlerType
      BY <2>1, <2>2 DEF ParserType, HandlerType, MpStates, Idle, NoCall, NoHandler
    <2> QED
      BY <2>1, <2>3 DEF IInv, CallInv, ErrorInv, OpenInv, NoCall, NoHandler, Idle, Storing
  <1> QED
    BY <1>1

(* A step of the parser, for a handler that waits for its callbacks         *)
LEMMA ParserIInv == IInv /\ handler.pc = "parsing" /\ UNCHANGED <<handler, request, ota>>
                      /\ (ParserStep \/ Receive \/ Disconnect) => IInv'
  <1> SUFFICES ASSUME IInv, handler.pc = "parsing", UNCHANGED <<handler, request, ota>>,
                      ParserStep \/ Receive \/ Disconnect
               PROVE  IInv'
    OBVIOUS
  <1> USE DEF IInv
  <1>1. call = NoCall /\ mp.state # "DONE" /\ mp.state # "IDLE" /\ mp.buffer \in Seq(Symbols)
        /\ mp.unread \in Seq(Symbols) /\ ~handler.error
    BY DEF ParserType, ErrorInv, ParserStep, FindFirstBoundary, ParseHeader, FindBoundary,
           Flush, AfterBoundary, EndOfStream, Receive, Disconnect, Parsing, Starved, Storing
  <1>2. HandlerType'
    BY DEF HandlerType
  <1>3. ota.open => GoesOn
    BY <1>1 DEF OpenInv, NoCall
  <1>4. ASSUME ParserType', CallInv',
               ota.open => \/ call' = NoCall /\ GoesOn'
                           \/ call'.kind = "file" /\ ~call'.first
        PROVE  IInv'
    BY <1>1, <1>2, <1>4 DEF ErrorInv, OpenInv
  <1>5. CASE FindFirstBoundary
    <2>1. from(mp.buffer, find(mp.buffer, firstBoundary) + Len(firstBoundary)) \in Seq(Symbols)
      BY <1>1, RestIsSeq, PatternsAreSequences, PatternsNotEmpty, Zenon
    <2> QED
      BY <1>1, <1>3, <1>4, <1>5, <2>1
      DEF FindFirstBoundary, ParserType, CallInv, MpStates, GoesOn, NoCall
  <1>6. CASE ParseHeader
    <2>1. from(mp.buffer, find(mp.buffer, headerEnd) + Len(headerEnd)) \in Seq(Symbols)
      BY <1>1, RestIsSeq, PatternsAreSequences, PatternsNotEmpty, Zenon
    <2> QED
      BY <1>1, <1>3, <1>4, <1>6, <2>1
      DEF ParseHeader, ParserType, CallInv, MpStates, GoesOn, NoCall
  <1>7. CASE FindBoundary
    <2>1. from(mp.buffer, find(mp.buffer, boundaryMarker) + Len(boundaryMarker)) \in Seq(Symbols)
      BY <1>1, RestIsSeq, PatternsAreSequences, PatternsNotEmpty, Zenon
    <2> DEFINE data == SubSeq(mp.buffer, 1, find(mp.buffer, boundaryMarker) - 1)
    <2>2. data \in Seq(Symbols)
      BY <1>1, BeforeIsSeq, PatternsAreSequences, PatternsNotEmpty, Zenon
    <2>3. mp.fieldValue \o data \in Seq(Symbols)
      <3>1. mp.fieldValue \in Seq(Symbols)
        BY DEF ParserType
      <3> HIDE DEF data
      <3> QED
        BY <2>2, <3>1
    <2> QED
      BY <1>1, <1>3, <1>4, <1>7, <2>1, <2>2, <2>3
      DEF FindBoundary, FileData, Field, ParserType, CallInv, MpStates, GoesOn, NoCall
  <1>8. CASE Flush
    <2>1. from(mp.buffer, Len(mp.buffer) - Kept(mp.buffer) + 1) \in Seq(Symbols) \ {<<>>}
      BY <1>1, <1>8, FlushKeeps DEF Flush
    <2> DEFINE data == SubSeq(mp.buffer, 1, Len(mp.buffer) - Kept(mp.buffer))
    <2>2. data \in Seq(Symbols) /\ mp.fieldValue \o data \in Seq(Symbols)
      <3>1. Len(mp.buffer) - Kept(mp.buffer) \in Nat /\ Len(mp.buffer) - Kept(mp.buffer) <= Len(mp.buffer)
        <4>1. /\ Len(mp.buffer) - Kept(mp.buffer) \in Nat /\ Kept(mp.buffer) = 5
              /\ Len(mp.buffer) \in Nat
          BY <1>1, <1>8, FlushKeeps DEF Flush
        <4> QED
          BY <4>1
      <3>2. data \in Seq(Symbols)
        BY <1>1, <3>1, UpToIsSeq
      <3>3. mp.fieldValue \in Seq(Symbols)
        BY DEF ParserType
      <3> HIDE DEF data
      <3> QED
        BY <3>2, <3>3
    <2> QED
      BY <1>1, <1>3, <1>4, <1>8, <2>1, <2>2
      DEF Flush, FileData, ParserType, CallInv, MpStates, GoesOn, NoCall, isFile,
          mpParsePartHeaders
  <1>9. CASE AfterBoundary
    <2>1. from(mp.buffer, 3) \in Seq(Symbols)
      BY <1>1 DEF from
    <2> QED
      BY <1>1, <1>3, <1>4, <1>9, <2>1
      DEF AfterBoundary, ParserType, CallInv, MpStates, GoesOn, NoCall
  <1>10. CASE EndOfStream
    <2>1. mp.fieldValue \o mp.buffer \in Seq(Symbols) /\ <<>> \in Seq(Symbols)
      BY <1>1 DEF ParserType
    <2> QED
      BY <1>1, <1>3, <1>4, <1>10, <2>1
      DEF EndOfStream, FileData, Field, ParserType, CallInv, MpStates, GoesOn, NoCall, isFile,
          mpParsePartHeaders
  <1>11. CASE Receive
    <2>1. PICK n \in 1 .. Min({READ_SZ, Len(mp.unread)}) :
            mp' = [mp EXCEPT !.buffer = @ \o SubSeq(mp.unread, 1, n), !.unread = from(@, n + 1)]
      BY <1>11 DEF Receive
    <2>2. n \in Nat \ {0} /\ n <= Len(mp.unread)
      <3>1. READ_SZ \in Int /\ Len(mp.unread) \in Int
        BY <1>1, MultipartAssumption
      <3>2. Min({READ_SZ, Len(mp.unread)}) \in Int
            /\ Min({READ_SZ, Len(mp.unread)}) <= Len(mp.unread)
        BY <3>1, SetMin
      <3> QED
        BY <3>1, <3>2
    <2>3. /\ SubSeq(mp.unread, 1, n) \in Seq(Symbols)
          /\ from(mp.unread, n + 1) \in Seq(Symbols)
          /\ mp.buffer \o SubSeq(mp.unread, 1, n) \in Seq(Symbols)
      BY <1>1, <2>2 DEF from
    <2>4. mp.buffer # <<>> => mp.buffer \o SubSeq(mp.unread, 1, n) # <<>>
      BY <1>1, <2>3
    <2> QED
      BY <1>1, <1>3, <1>4, <1>11, <2>1, <2>3, <2>4
      DEF Receive, ParserType, CallInv, GoesOn, NoCall, isFile, mpParsePartHeaders
  <1>12. CASE Disconnect
    BY <1>1, <1>3, <1>4, <1>12
    DEF Disconnect, ParserType, CallInv, GoesOn, NoCall, isFile, mpParsePartHeaders
  <1> QED
    BY <1>5, <1>6, <1>7, <1>8, <1>9, <1>10, <1>11, <1>12 DEF ParserStep

(* The steps of other tasks leave the request and the update alone.         *)
LEMMA OthersIInv == IInv /\ OtherStep => IInv'
  <1>1. OtherStep => UNCHANGED <<mp, call, handler, request, ota>>
    BY DEF OtherStep, FileSystem, Read, FormatFiles, SdCommand, UsesStorage
  <1>2. IInv /\ UNCHANGED <<mp, call, handler, request, ota>> => IInv'
    BY ZenonT(30) DEF IInv, ParserType, HandlerType, CallInv, ErrorInv, OpenInv, GoesOn, isFile,
           mpParsePartHeaders
  <1> QED
    BY <1>1, <1>2

(* What a callback returns                                                  *)
LEMMA ReturnedIInv ==
  ASSUME IInv, NEW cont \in BOOLEAN, Returned(cont), handler'.pc = "parsing"
  PROVE  /\ ParserType' /\ CallInv' /\ call' = NoCall
         /\ ~cont => mp'.state = "DONE"
         /\ cont => mp' = mp
  <1>1. ParserType'
    <2>1. <<>> \in Seq(Symbols)
      OBVIOUS
    <2> QED
      BY <2>1 DEF IInv, ParserType, Returned, NoCall, MpStates
  <1>2. call' = NoCall /\ (~cont => mp'.state = "DONE") /\ (cont => mp' = mp)
    BY DEF IInv, ParserType, CallInv, Returned, MpStates
  <1> QED
    BY <1>1, <1>2 DEF CallInv, NoCall, Storing

(* The steps of the handlers and of their parser keep the invariant.        *)
LEMMA HandlerIInv == IInv /\ HandlerStep => IInv'
  <1> SUFFICES ASSUME IInv, HandlerStep PROVE IInv'
    OBVIOUS
  <1> USE DEF IInv
  <1>1. ASSUME UNCHANGED <<mp, call, ota, request>>, ~ota.open, HandlerType',
               handler'.error = handler.error,
               handler'.pc \in {"none", "answered"} => call = NoCall,
               handler'.pc \in Storing => call # NoCall
        PROVE  IInv'
    BY <1>1 DEF ParserType, CallInv, ErrorInv, OpenInv, GoesOn, isFile, mpParsePartHeaders
  <1>2. ASSUME NEW cont \in BOOLEAN, Returned(cont), call # NoCall, HandlerType',
               handler'.error => ~cont,
               handler'.pc = "parsing",
               ota'.open => /\ request'.kind = "ota" /\ handler'.otaStarted
                            /\ ~handler'.error => cont /\ GoesOn
        PROVE  IInv'
    <2>1. /\ ParserType' /\ CallInv' /\ call' = NoCall
          /\ ~cont => mp'.state = "DONE"
          /\ cont => mp' = mp
      BY <1>2, ReturnedIInv
    <2>2. ErrorInv'
      BY <1>2, <2>1 DEF ErrorInv
    <2>3. cont /\ GoesOn => GoesOn'
      BY <2>1 DEF GoesOn, isFile, mpParsePartHeaders
    <2>4. OpenInv'
      BY <1>2, <2>1, <2>3 DEF OpenInv
    <2> QED
      BY <1>2, <2>1, <2>2, <2>4
  <1>3. call # NoCall => ~handler.error
    BY DEF ErrorInv
  <1>4. CASE Begin
    <2>1. PICK r \in Requests : request' = r /\ Parse(Body(r.parts), r.boundary)
      BY <1>4 DEF Begin
    <2>2. Body(r.parts) \in Seq(Symbols)
      BY UploadsAssumption, BodyIsSeq
    <2>3. call = NoCall /\ call' = call /\ ~ota.open
      BY <1>4 DEF Begin, CallInv, OpenInv
    <2>4. ParserType'
      <3>1. <<>> \in Seq(Symbols)
        OBVIOUS
      <3>2. call' \in [kind : {"none", "field", "file"}, data : Seq(Symbols),
                       first : BOOLEAN, final : BOOLEAN, last : BOOLEAN]
            /\ call' = NoCall
        BY <2>3 DEF NoCall
      <3> QED
        BY <2>1, <2>2, <3>1, <3>2 DEF Parse, Idle, ParserType, MpStates, NoCall
    <2>5. HandlerType'
      BY <1>4 DEF Begin, HandlerType, NoHandler
    <2> QED
      BY <1>4, <2>3, <2>4, <2>5
      DEF Begin, CallInv, ErrorInv, OpenInv, NoHandler, NoCall, Storing
  <1>5. CASE Parser \/ LoseConnection
    BY <1>5, ParserIInv DEF Parser, LoseConnection
  <1>6. CASE FieldReceived
    <2>1. Returned(TRUE) /\ UNCHANGED <<request, ota>>
      BY <1>6 DEF FieldReceived
    <2>2. call # NoCall /\ call.kind = "field"
      BY <1>6 DEF FieldReceived, NoCall
    <2>3. HandlerType' /\ handler'.error = handler.error /\ handler'.pc = "parsing"
      BY <1>6 DEF FieldReceived, HandlerType
    <2>4. ~ota.open
      BY <1>3, <2>2 DEF OpenInv
    <2> QED
      BY <1>2, <1>3, <2>1, <2>3, <2>4, <2>2
  <1>7. CASE FileReceived \/ Opened \/ Written \/ Closed \/ WriteToCard
    <2>1. request.kind = "upload" /\ UNCHANGED <<request, ota>>
      BY <1>7 DEF FileReceived, Opened, Written, Closed, WriteToCard, In, OtherFs
    <2>2. ~ota.open
      BY <2>1 DEF OpenInv
    <2>3. CASE handler' = [handler EXCEPT !.error = TRUE, !.pc = "parsing"]
               /\ Returned(FALSE) /\ call # NoCall
      BY <1>2, <2>1, <2>2, <2>3 DEF HandlerType
    <2>4. CASE handler' = [handler EXCEPT !.pc = "parsing"] /\ Returned(TRUE) /\ call # NoCall
      BY <1>2, <1>3, <2>1, <2>2, <2>4 DEF HandlerType
    <2>5. CASE UNCHANGED <<mp, call>> /\ call # NoCall /\ handler'.pc \in Storing
               /\ \E path : handler' = [handler EXCEPT !.targetPath = path, !.pc = handler'.pc]
      BY <1>1, <2>1, <2>2, <2>5 DEF HandlerType, Storing
    <2>6. ASSUME UNCHANGED <<mp, call>>, call # NoCall, NEW pc \in Storing,
                  handler' = [handler EXCEPT !.pc = pc]
           PROVE  IInv'
      <3>1. handler' = [handler EXCEPT !.targetPath = handler.targetPath, !.pc = pc]
            /\ handler'.pc = pc
        BY <2>6 DEF HandlerType
      <3> QED
        BY <2>5, <2>6, <3>1
    <2>7. CASE FileReceived
      <3>1. call # NoCall /\ handler.pc = "parsing"
        BY <2>7 DEF FileReceived, In, NoCall
      <3>2. ASSUME NEW path, NEW h, h = [handler EXCEPT !.targetPath = path], OpenFile(h) PROVE IInv'
        <4>1. CASE UNCHANGED <<mp, call>> /\ handler' = [h EXCEPT !.pc = "opening"]
          BY <2>5, <3>1, <3>2, <4>1 DEF HandlerType, Storing
        <4>2. CASE UNCHANGED <<mp, call>> /\ handler' = [h EXCEPT !.pc = "onCard"]
          BY <2>5, <3>1, <3>2, <4>2 DEF HandlerType, Storing
        <4>3. CASE Fails(h)
          BY <1>2, <2>1, <2>2, <3>1, <3>2, <4>3 DEF Fails, HandlerType
        <4> QED
          BY <3>2, <4>1, <4>2, <4>3 DEF OpenFile
      <3>3. CASE OpenFile(handler)
        <4>1. handler = [handler EXCEPT !.targetPath = handler.targetPath]
          BY DEF HandlerType
        <4> QED
          BY <3>2, <3>3, <4>1
      <3>4. CASE Fails(handler)
        BY <2>3, <3>1, <3>4 DEF Fails
      <3> QED
        BY <2>7, <3>2, <3>3, <3>4 DEF FileReceived
    <2>8. CASE Opened
      <3>1. call # NoCall
        BY <2>8 DEF Opened, In, CallInv, Storing
      <3>2. CASE UNCHANGED <<mp, call>> /\ handler' = [handler EXCEPT !.pc = "writing"]
        BY <2>6, <3>1, <3>2 DEF Storing
      <3> QED
        BY <2>3, <2>8, <3>1, <3>2 DEF Opened, Fails
    <2>9. CASE Written
      <3>1. call # NoCall /\ UNCHANGED <<mp, call>> /\ handler' = [handler EXCEPT !.pc = "closing"]
        BY <2>9 DEF Written, In, CallInv, Storing
      <3> QED
        BY <2>6, <3>1 DEF Storing
    <2>10. CASE Closed \/ WriteToCard
      BY <2>4, <2>10 DEF Closed, WriteToCard, In, CallInv, Storing
    <2> QED
      BY <1>7, <2>7, <2>8, <2>9, <2>10
  <1>8. CASE OtaReceived
    <2> DEFINE begun == IF call.first THEN OtaBegin(ota) ELSE ota
               written == [begun EXCEPT !.image = @ \o call.data]
               started == [handler EXCEPT !.otaStarted = TRUE]
    <2>1. call # NoCall /\ call.kind = "file" /\ handler.pc = "parsing"
          /\ request.kind = "ota" /\ request' = request
      BY <1>8 DEF OtaReceived, In, NoCall
    <2>2. CASE ~call.final /\ ota' = written /\ handler' = started /\ Returned(TRUE)
      BY <1>2, <1>3, <2>1, <2>2 DEF HandlerType, CallInv, OtaBegin
    <2>3. CASE ota' = [written EXCEPT !.open = FALSE, !.boot = "update"]
               /\ handler' = started /\ Returned(TRUE)
      BY <1>2, <1>3, <2>1, <2>3 DEF HandlerType, OtaBegin
    <2>4. CASE ota' = [written EXCEPT !.open = FALSE] /\ OtaEndFails
      BY <1>2, <2>1, <2>4 DEF HandlerType, OtaBegin, OtaEndFails
    <2> QED
      BY <1>8, <2>2, <2>3, <2>4 DEF OtaReceived
  <1>9. CASE OtaFaults
    <2> DEFINE begun == IF call.first THEN OtaBegin(ota) ELSE ota
               failed == [handler EXCEPT !.error = TRUE, !.otaStarted = TRUE]
    <2>1. call # NoCall /\ call.kind = "file" /\ handler.pc = "parsing"
          /\ request.kind = "ota" /\ request' = request
      BY <1>9 DEF OtaFaults, In, NoCall
    <2>2. CASE call.first /\ OtaFails /\ UNCHANGED ota
      <3>1. ~ota.open
        BY <1>3, <2>1, <2>2 DEF OpenInv
      <3> QED
        BY <1>2, <2>1, <2>2, <3>1 DEF HandlerType, OtaFails
    <2>3. CASE handler' = failed /\ Returned(FALSE) /\ ota' = begun
      BY <1>2, <2>1, <2>3 DEF HandlerType, OtaBegin
    <2>4. CASE handler' = failed /\ Returned(FALSE)
               /\ ota' = [begun EXCEPT !.image = @ \o call.data, !.open = FALSE]
      BY <1>2, <2>1, <2>4 DEF HandlerType, OtaBegin
    <2> QED
      BY <1>9, <2>2, <2>3, <2>4 DEF OtaFaults
  <1>10. CASE AnswerUpload
    <2>1. ~ota.open
      BY <1>10 DEF AnswerUpload, In, OpenInv
    <2> QED
      BY <1>1, <1>10, <2>1 DEF AnswerUpload, Answer, HandlerType, In, Storing
  <1>11. CASE AnswerOta
    <2>1. ~ota'.open
      BY <1>11 DEF AnswerOta, Answer, Abort, OpenInv, GoesOn, HandlerType, NoCall
    <2>2. HandlerType' /\ handler'.error = handler.error
      BY <1>11 DEF AnswerOta, Answer, Abort, HandlerType
    <2>3. call = NoCall /\ mp.state = "DONE" /\ UNCHANGED <<mp, call, request>>
          /\ handler'.pc = "answered"
      BY <1>11 DEF AnswerOta, Answer, HandlerType
    <2> QED
      BY <2>1, <2>2, <2>3 DEF ParserType, CallInv, ErrorInv, OpenInv, NoCall, Storing
  <1>12. CASE End
    <2>1. call = NoCall /\ ~ota.open
      BY <1>12 DEF End, CallInv, OpenInv
    <2>2. <<>> \in Seq(Symbols)
      OBVIOUS
    <2>3. ParserType' /\ HandlerType'
      BY <1>12, <2>1, <2>2 DEF End, ParserType, HandlerType, MpStates, Idle, NoHandler, NoCall
    <2> QED
      BY <1>12, <2>1, <2>3 DEF End, CallInv, ErrorInv, OpenInv, NoHandler, NoCall, Storing
  <1> QED
    BY <1>4, <1>5, <1>6, <1>7, <1>8, <1>9, <1>10, <1>11, <1>12 DEF HandlerStep

(* So do those of the other tasks, which touch neither.                     *)
LEMMA NextIInv == IInv /\ [NextUploads]_vars => IInv'
  <1>1. IInv /\ UNCHANGED vars => IInv'
    BY ZenonT(30) DEF vars, handlerVars, IInv, ParserType, HandlerType, CallInv, ErrorInv, OpenInv,
           GoesOn, isFile, mpParsePartHeaders
  <1> QED
    BY <1>1, HandlerIInv, OthersIInv DEF NextUploads

(* No update is open but that of a handler that has noted it and that will  *)
(* be called with the rest of its file, or has failed.                      *)
THEOREM Invariance == Spec => []IInv
  BY InitIInv, NextIInv, PTL DEF Spec

(* When an update request is answered no update is left open, whatever      *)
(* failed: otaPostHandler aborts what it began, or esp_ota_end closed it.   *)
THEOREM UpdatesAreClosed == Spec => []UpdateClosed
  <1>1. IInv => UpdateClosed
    BY DEF IInv, OpenInv, UpdateClosed
  <1> QED
    BY <1>1, Invariance, PTL

-----------------------------------------------------------------------------
(* What has been read of a stream, and what is still to come                *)

(* What a concatenation of two sequences is.                                *)
LEMMA ConcatIs ==
  ASSUME NEW v \in Seq(Symbols), NEW w \in Seq(Symbols)
  PROVE  /\ v \o w \in Seq(Symbols) /\ Len(v \o w) = Len(v) + Len(w)
         /\ \A q \in 1 .. Len(v) : (v \o w)[q] = v[q]
         /\ \A q \in 1 .. Len(v) + Len(w) :
              (v \o w)[q] = IF q <= Len(v) THEN v[q] ELSE w[q - Len(v)]
  OBVIOUS

(* How concatenations are bracketed does not matter.                        *)
LEMMA Associative ==
  \A s, t, u \in Seq(Symbols) : (s \o t) \o u = s \o (t \o u)
  BY ConcatAssociative

(* A stream begins with a prefix that is in the buffer: without it, the     *)
(* rest of the stream is what is left in the buffer and what is unread.     *)
LEMMA DropPrefix ==
  ASSUME NEW s \in Seq(Symbols), NEW u \in Seq(Symbols), NEW p \in Seq(Symbols),
         NEW r \in Seq(Symbols), s \o u = p \o r, Len(p) <= Len(s)
  PROVE  /\ SubSeq(s, 1, Len(p)) = p
         /\ from(s, Len(p) + 1) \in Seq(Symbols)
         /\ from(s, Len(p) + 1) \o u = r
  <1> DEFINE n == Len(p)
             a == SubSeq(s, 1, n)
             b == SubSeq(s, n + 1, Len(s))
  <1>1. n \in Nat /\ Len(s) \in Nat /\ n <= Len(s) /\ Len(u) \in Nat /\ Len(r) \in Nat
    OBVIOUS
  <1>2. a \in Seq(Symbols) /\ Len(a) = n /\ \A q \in 1 .. n : a[q] = s[q]
    <2>1. n \in Int
      BY <1>1
    <2> HIDE DEF n
    <2>2. a \in Seq(Symbols) /\ Len(a) = (IF n >= 1 THEN n ELSE 0) /\ \A q \in 1 .. n : a[q] = s[q]
      BY <1>1, <2>1, UpToIsSeq
    <2> QED
      BY <1>1, <2>2
  <1>3. b \in Seq(Symbols)
    BY <1>1
  <1>4. \A q \in 1 .. n : s[q] = p[q]
    <2>1. \A q \in 1 .. n : (s \o u)[q] = s[q] /\ (p \o r)[q] = p[q]
      BY <1>1
    <2> QED
      BY <2>1
  <1>5. a = p
    <2> HIDE DEF a
    <2>1. \A q \in 1 .. Len(a) : a[q] = p[q]
      BY <1>2, <1>4
    <2> QED
      BY <1>2, <2>1, SeqEqual
  <1>6. s = p \o b
    <2>1. 1 \in 1 .. Len(s) + 1 /\ n \in 1 - 1 .. Len(s) /\ Len(s) \in n .. Len(s)
      BY <1>1
    <2>2. a \o b = SubSeq(s, 1, Len(s))
      <3> HIDE DEF n
      <3> QED
        BY <2>1, ConcatAdjacentSubSeq
    <2>3. SubSeq(s, 1, Len(s)) = s
      BY SubSeqFull
    <2> QED
      BY <1>5, <2>2, <2>3
  <1>7. p \o (b \o u) = p \o r
    <2> HIDE DEF b
    <2>1. (p \o b) \o u = p \o (b \o u)
      BY <1>3, Associative, Zenon
    <2>2. s \o u = (p \o b) \o u
      BY <1>6
    <2> QED
      BY <2>1, <2>2
  <1>8. b \o u = r
    <2>1. b \o u \in Seq(Symbols)
      <3> HIDE DEF b
      <3> QED
        BY <1>3
    <2> HIDE DEF b
    <2> QED
      BY <1>7, <2>1, ConcatSimplifications
  <1> QED
    BY <1>3, <1>5, <1>8 DEF from

(* A sequence is cut in two.                                                *)
LEMMA CutSeq ==
  ASSUME NEW s \in Seq(Symbols), NEW a \in 0 .. Len(s), NEW b \in a .. Len(s)
  PROVE  /\ SubSeq(s, 1, a) \o SubSeq(s, a + 1, b) = SubSeq(s, 1, b)
         /\ SubSeq(s, a + 1, b) \o from(s, b + 1) = from(s, a + 1)
         /\ SubSeq(s, a + 1, b) \in Seq(Symbols) /\ Len(SubSeq(s, a + 1, b)) = b - a
         /\ from(s, b + 1) \in Seq(Symbols) /\ Len(from(s, b + 1)) = Len(s) - b
  <1>1. Len(s) \in Nat
    OBVIOUS
  <1>2. 1 \in 1 .. Len(s) + 1 /\ a \in 1 - 1 .. Len(s)
    BY <1>1
  <1>3. SubSeq(s, 1, a) \o SubSeq(s, a + 1, b) = SubSeq(s, 1, b)
    BY <1>2, ConcatAdjacentSubSeq
  <1>4. a + 1 \in 1 .. Len(s) + 1 /\ b \in (a + 1) - 1 .. Len(s) /\ Len(s) \in b .. Len(s)
    BY <1>1
  <1>5. SubSeq(s, a + 1, b) \o SubSeq(s, b + 1, Len(s)) = SubSeq(s, a + 1, Len(s))
    BY <1>4, ConcatAdjacentSubSeq
  <1>6. /\ SubSeq(s, a + 1, b) \in Seq(Symbols) /\ Len(SubSeq(s, a + 1, b)) = b - a
        /\ SubSeq(s, b + 1, Len(s)) \in Seq(Symbols) /\ Len(SubSeq(s, b + 1, Len(s))) = Len(s) - b
    BY <1>1
  <1> QED
    BY <1>3, <1>5, <1>6 DEF from

-----------------------------------------------------------------------------
(* The first place of a pattern in a stream is where it is found, once that *)
(* much has been read.                                                      *)

FirstAt(s, pat, p) == Occurs(s, pat, p) /\ \A q : Occurs(s, pat, q) => p <= q

(* A pattern in the buffer is at the same place of the stream.              *)
LEMMA OccursInPrefix ==
  ASSUME NEW s \in Seq(Symbols), NEW u \in Seq(Symbols), NEW pat \in Seq(Symbols),
         NEW p \in Nat, p + Len(pat) - 1 <= Len(s)
  PROVE  Occurs(s, pat, p) <=> Occurs(s \o u, pat, p)
  <1>1. Len(s) \in Nat /\ Len(u) \in Nat /\ Len(pat) \in Nat /\ Len(s \o u) = Len(s) + Len(u)
    OBVIOUS
  <1>2. p \in 1 .. Len(s) - Len(pat) + 1 <=> p \in 1 .. Len(s \o u) - Len(pat) + 1
    BY <1>1
  <1>3. ASSUME p >= 1 PROVE \A q \in 1 .. Len(pat) : (s \o u)[p + q - 1] = s[p + q - 1]
    <2> TAKE q \in 1 .. Len(pat)
    <2>1. p + q - 1 \in 1 .. Len(s)
      BY <1>1, <1>3
    <2>2. \A m \in 1 .. Len(s) : (s \o u)[m] = s[m]
      BY <1>1
    <2> QED
      BY <2>1, <2>2
  <1> QED
    BY <1>1, <1>2, <1>3 DEF Occurs

(* The first place in the stream is found as soon as all of the pattern is  *)
(* in the buffer, and nothing is found before.                              *)
LEMMA FindInStream ==
  ASSUME NEW s \in Seq(Symbols), NEW u \in Seq(Symbols), NEW pat \in Seq(Symbols),
         NEW p, FirstAt(s \o u, pat, p)
  PROVE  /\ p \in Nat \ {0}
         /\ find(s, pat) # 0 => find(s, pat) = p /\ p + Len(pat) - 1 <= Len(s)
         /\ find(s, pat) = 0 => Len(s) < p + Len(pat) - 1
  <1>1. Len(s) \in Nat /\ Len(u) \in Nat /\ Len(pat) \in Nat /\ Len(s \o u) \in Nat
    OBVIOUS
  <1>2. p \in Nat \ {0} /\ Occurs(s \o u, pat, p) /\ \A q : Occurs(s \o u, pat, q) => p <= q
    <2>1. Len(s \o u) - Len(pat) + 1 \in Int /\ p \in 1 .. Len(s \o u) - Len(pat) + 1
      BY <1>1 DEF FirstAt, Occurs
    <2>2. p \in Nat \ {0}
      BY <2>1
    <2> QED
      BY <2>2 DEF FirstAt
  <1> DEFINE f == find(s, pat)
  <1>3. /\ f \in Nat
        /\ f # 0 => Occurs(s, pat, f)
        /\ \A q : Occurs(s, pat, q) => f # 0 /\ f <= q
    BY FindIsFirst
  <1> HIDE DEF f
  <1>4. ASSUME p + Len(pat) - 1 <= Len(s) PROVE f # 0 /\ f <= p
    <2>1. Occurs(s, pat, p)
      BY <1>2, <1>4, OccursInPrefix
    <2> QED
      BY <1>3, <2>1
  <1>5. ASSUME f # 0 PROVE p <= f /\ p + Len(pat) - 1 <= Len(s)
    <2>1. Occurs(s, pat, f) /\ f + Len(pat) - 1 <= Len(s)
      BY <1>1, <1>3, <1>5 DEF Occurs
    <2>2. Occurs(s \o u, pat, f)
      BY <1>3, <2>1, OccursInPrefix
    <2>3. p <= f
      BY <1>2, <2>2
    <2> QED
      BY <1>1, <1>2, <1>3, <2>1, <2>3
  <1>6. f # 0 => f = p /\ p + Len(pat) - 1 <= Len(s)
    BY <1>2, <1>3, <1>4, <1>5
  <1>7. f = 0 => Len(s) < p + Len(pat) - 1
    BY <1>1, <1>2, <1>4
  <1> QED
    BY <1>2, <1>6, <1>7 DEF f

(* A stream that begins with the pattern has it at its first place.         *)
LEMMA FirstInFront ==
  ASSUME NEW pat \in Seq(Symbols), NEW r \in Seq(Symbols)
  PROVE  FirstAt(pat \o r, pat, 1)
  <1>1. Len(pat) \in Nat /\ Len(r) \in Nat /\ Len(pat \o r) = Len(pat) + Len(r)
        /\ \A q \in 1 .. Len(pat) : (pat \o r)[q] = pat[q] /\ 1 + q - 1 = q
    OBVIOUS
  <1>2. Occurs(pat \o r, pat, 1)
    <2>1. 1 \in 1 .. Len(pat \o r) - Len(pat) + 1
      BY <1>1
    <2> QED
      BY <1>1, <2>1 DEF Occurs
  <1>3. \A q : Occurs(pat \o r, pat, q) => 1 <= q
    BY <1>1 DEF Occurs
  <1> QED
    BY <1>2, <1>3 DEF FirstAt

(* The end of the headers is not found before their last symbol.            *)
LEMMA FirstAfterHeader ==
  ASSUME NEW h \in Symbols, NEW r \in Seq(Symbols)
  PROVE  FirstAt(<<h>> \o (headerEnd \o r), headerEnd, 2)
  <1> DEFINE u == headerEnd \o r
             s == <<h>> \o u
  <1>1. /\ headerEnd \in Seq(Symbols) /\ Len(headerEnd) = 4
        /\ headerEnd[1] = "r" /\ headerEnd[2] = "n" /\ headerEnd[3] = "r" /\ headerEnd[4] = "n"
    BY PatternsAreSequences DEF headerEnd
  <1>2. u \in Seq(Symbols) /\ Len(u) = 4 + Len(r) /\ Len(r) \in Nat
        /\ \A q \in 1 .. 4 : u[q] = headerEnd[q]
    <2>1. Len(r) \in Nat
      OBVIOUS
    <2>2. /\ u \in Seq(Symbols) /\ Len(u) = Len(headerEnd) + Len(r)
          /\ \A q \in 1 .. Len(headerEnd) + Len(r) :
               u[q] = IF q <= Len(headerEnd) THEN headerEnd[q] ELSE r[q - Len(headerEnd)]
      <3>1. headerEnd \in Seq(Symbols)
        BY <1>1
      <3> QED
        BY <3>1, ConcatIs
    <2> HIDE DEF u
    <2>3. \A q \in 1 .. 4 : q \in 1 .. 4 + Len(r) /\ q <= 4
      BY <2>1
    <2> QED
      BY <1>1, <2>1, <2>2, <2>3
  <1> HIDE DEF u
  <1>3. s \in Seq(Symbols) /\ Len(s) = 1 + Len(u) /\ \A q \in 1 .. Len(u) : s[1 + q] = u[q]
    BY <1>2
  <1> HIDE DEF s
  <1>4. \A q \in 1 .. 4 : s[2 + q - 1] = headerEnd[q]
    <2> TAKE q \in 1 .. 4
    <2>1. q \in 1 .. Len(u) /\ 2 + q - 1 = 1 + q
      BY <1>2
    <2> QED
      BY <1>2, <1>3, <2>1
  <1>5. Occurs(s, headerEnd, 2)
    <2>1. 2 \in 1 .. Len(s) - 4 + 1
      BY <1>2, <1>3
    <2> QED
      BY <1>1, <1>4, <2>1 DEF Occurs
  <1>6. ~Occurs(s, headerEnd, 1)
    <2>1. s[2] = "r"
      BY <1>1, <1>2, <1>3
    <2>2. 2 \in 1 .. Len(headerEnd) /\ 1 + 2 - 1 = 2
      BY <1>1
    <2>3. s[2] # headerEnd[2]
      BY <1>1, <2>1
    <2> QED
      BY <2>2, <2>3 DEF Occurs
  <1>7. \A q : Occurs(s, headerEnd, q) => 2 <= q
    <2> SUFFICES ASSUME NEW q, Occurs(s, headerEnd, q) PROVE 2 <= q
      OBVIOUS
    <2>1. q \in Int /\ q >= 1 /\ q # 1
      BY <1>1, <1>3, <1>6 DEF Occurs
    <2> QED
      BY <2>1
  <1> QED
    BY <1>5, <1>7 DEF FirstAt, s, u

(* In what is left of a part's data the boundary after it is the first.     *)
LEMMA FirstAfterData ==
  ASSUME NEW data \in Seq(Symbols),
         find(data \o boundaryMarker, boundaryMarker) = Len(data) + 1,
         NEW k \in 0 .. Len(data), NEW r \in Seq(Symbols)
  PROVE  FirstAt(from(data, k + 1) \o (boundaryMarker \o r), boundaryMarker, Len(data) - k + 1)
  <1> DEFINE B == boundaryMarker
             D == data \o B
             v == from(data, k + 1)
             s == v \o (B \o r)
             n == Len(data)
  <1>1. B \in Seq(Symbols) /\ Len(B) = 5
    BY PatternsAreSequences
  <1>2. n \in Nat /\ Len(r) \in Nat /\ k \in Nat /\ k <= n
    OBVIOUS
  <1>3. v \in Seq(Symbols) /\ Len(v) = n - k /\ \A q \in 1 .. n - k : v[q] = data[k + q]
    <2>1. v = SubSeq(data, k + 1, n)
      BY DEF from
    <2>2. k + 1 \in Int /\ n \in Int /\ \A q \in k + 1 .. n : data[q] \in Symbols
      BY <1>2
    <2>3. /\ v \in Seq(Symbols) /\ Len(v) = (IF k + 1 <= n THEN n - (k + 1) + 1 ELSE 0)
          /\ \A q \in 1 .. n - (k + 1) + 1 : v[q] = data[(k + 1) + q - 1]
      <3> HIDE DEF v, n
      <3> QED
        BY <2>1, <2>2, SubSeqProperties
    <2>4. n - (k + 1) + 1 = n - k /\ \A q \in 1 .. n - k : (k + 1) + q - 1 = k + q
      BY <1>2
    <2> HIDE DEF v, n
    <2> QED
      BY <1>2, <2>3, <2>4
  <1> HIDE DEF v, B, n
  <1>4. D \in Seq(Symbols) /\ Len(D) = n + 5 /\ \A q \in 1 .. n + 5 : D[q] = IF q <= n THEN data[q] ELSE B[q - n]
    <2>1. Len(data) = n
      BY DEF n
    <2>2. /\ D \in Seq(Symbols) /\ Len(D) = Len(data) + Len(B)
          /\ \A q \in 1 .. Len(data) + Len(B) :
               D[q] = IF q <= Len(data) THEN data[q] ELSE B[q - Len(data)]
      BY <1>1, ConcatProperties
    <2> HIDE DEF D
    <2> QED
      BY <1>1, <2>1, <2>2
  <1>5. B \o r \in Seq(Symbols) /\ Len(B \o r) = 5 + Len(r) /\ \A q \in 1 .. 5 : (B \o r)[q] = B[q]
    <2>1. /\ B \o r \in Seq(Symbols) /\ Len(B \o r) = Len(B) + Len(r)
          /\ \A q \in 1 .. Len(B) + Len(r) :
               (B \o r)[q] = IF q <= Len(B) THEN B[q] ELSE r[q - Len(B)]
      <3>1. B \in Seq(Symbols)
        BY <1>1
      <3> QED
        BY <3>1, ConcatIs
    <2>2. \A q \in 1 .. 5 : q \in 1 .. 5 + Len(r) /\ q <= 5
      BY <1>2
    <2> QED
      BY <1>1, <2>1, <2>2
  <1> DEFINE w == B \o r
  <1>6. s \in Seq(Symbols) /\ Len(s) = (n - k) + (5 + Len(r))
        /\ \A q \in 1 .. (n - k) + (5 + Len(r)) : s[q] = IF q <= n - k THEN v[q] ELSE w[q - (n - k)]
    <2>1. w \in Seq(Symbols) /\ Len(w) = 5 + Len(r) /\ s = v \o w
      BY <1>5
    <2> HIDE DEF w, s
    <2>2. /\ s \in Seq(Symbols) /\ Len(s) = Len(v) + Len(w)
          /\ \A q \in 1 .. Len(v) + Len(w) : s[q] = IF q <= Len(v) THEN v[q] ELSE w[q - Len(v)]
      <3>1. v \in Seq(Symbols) /\ w \in Seq(Symbols)
        BY <1>3, <2>1
      <3> QED
        BY <2>1, <3>1, ConcatIs
    <2> QED
      BY <1>3, <2>1, <2>2
  <1> HIDE DEF s, D, w
  <1>7. \A q \in 1 .. (n - k) + 5 : s[q] = D[k + q]
    <2> TAKE q \in 1 .. (n - k) + 5
    <2>1. k + q \in 1 .. n + 5 /\ q \in 1 .. (n - k) + (5 + Len(r))
      BY <1>2
    <2>2. CASE q <= n - k
      <3>1. q \in 1 .. n - k /\ k + q <= n
        BY <1>2, <2>2
      <3> QED
        BY <1>3, <1>4, <1>6, <2>1, <2>2, <3>1
    <2>3. CASE ~(q <= n - k)
      <3>1. q - (n - k) \in 1 .. 5 /\ ~(k + q <= n) /\ (k + q) - n = q - (n - k)
        BY <1>2, <2>3
      <3>2. s[q] = w[q - (n - k)]
        BY <1>6, <2>1, <2>3
      <3>3. w[q - (n - k)] = B[q - (n - k)]
        BY <1>5, <3>1 DEF w
      <3>4. D[k + q] = B[q - (n - k)]
        <4> DEFINE m == k + q
        <4>2. m \in 1 .. n + 5 /\ ~(m <= n)
          BY <2>1, <3>1
        <4> HIDE DEF m
        <4>3. D[m] = B[m - n]
          BY <1>4, <4>2
        <4>1. D[k + q] = B[(k + q) - n]
          BY <4>3 DEF m
        <4> QED
          BY <3>1, <4>1
      <3> QED
        BY <3>2, <3>3, <3>4
    <2> QED
      BY <2>2, <2>3
  <1>8. /\ Occurs(D, B, n + 1)
        /\ \A q : Occurs(D, B, q) => n + 1 <= q
    <2>1. find(D, B) = n + 1
      BY DEF D, B, n
    <2>2. n + 1 # 0
      BY <1>2
    <2> QED
      BY <1>1, <1>4, <2>1, <2>2, FindIsFirst
  <1>9. Occurs(s, B, n - k + 1)
    <2>1. n - k + 1 \in 1 .. Len(s) - 5 + 1
      BY <1>2, <1>6
    <2>2. ASSUME NEW q \in 1 .. 5 PROVE s[n - k + 1 + q - 1] = B[q]
      <3>1. n - k + 1 + q - 1 \in 1 .. (n - k) + 5 /\ k + (n - k + 1 + q - 1) = n + 1 + q - 1
        BY <1>2
      <3>2. D[n + 1 + q - 1] = B[q]
        BY <1>1, <1>8 DEF Occurs
      <3> QED
        BY <1>7, <3>1, <3>2
    <2> QED
      BY <1>1, <2>1, <2>2 DEF Occurs
  <1>10. ASSUME NEW q, Occurs(s, B, q) PROVE n - k + 1 <= q
    <2>1. q \in 1 .. Len(s) - 5 + 1 /\ \A m \in 1 .. 5 : s[q + m - 1] = B[m]
      BY <1>1, <1>10 DEF Occurs
    <2>2. SUFFICES ASSUME q <= n - k PROVE FALSE
      BY <1>2, <1>6, <2>1
    <2>3. k + q \in 1 .. Len(D) - 5 + 1
      BY <1>2, <1>4, <1>6, <2>1, <2>2
    <2>4. ASSUME NEW m \in 1 .. 5 PROVE D[k + q + m - 1] = B[m]
      <3>1. q + m - 1 \in 1 .. (n - k) + 5 /\ k + (q + m - 1) = k + q + m - 1
        <4>1. q \in Int /\ q >= 1
          BY <1>2, <1>6, <2>1
        <4> QED
          BY <1>2, <2>2, <4>1
      <3> QED
        BY <1>7, <2>1, <3>1
    <2>5. Occurs(D, B, k + q)
      BY <1>1, <2>3, <2>4 DEF Occurs
    <2>6. n + 1 <= k + q
      BY <1>8, <2>5
    <2> QED
      BY <1>2, <1>6, <2>1, <2>2, <2>6
  <1> QED
    BY <1>9, <1>10 DEF FirstAt, s, v, B, n

-----------------------------------------------------------------------------
(* A body from its i-th part on                                             *)

BodyParts == [header : Symbols, data : Seq(Symbols)]

Ending(parts, i) == IF i = Len(parts) THEN <<"-", "-", "r", "n">> ELSE <<"r", "n">>

PartOf(parts, i) ==
  <<parts[i].header>> \o headerEnd \o parts[i].data \o boundaryMarker \o Ending(parts, i)

Rest(parts, i) == FlattenSeq([q \in 1 .. Len(parts) + 1 - i |-> PartOf(parts, i + q - 1)])

After(parts, i) == Ending(parts, i) \o Rest(parts, i + 1)

(* A part is its header, its data and what ends it.                         *)
LEMMA PartIs ==
  ASSUME NEW parts \in Seq(BodyParts), NEW i \in 1 .. Len(parts)
  PROVE  /\ parts[i] \in BodyParts /\ parts[i].header \in Symbols /\ parts[i].data \in Seq(Symbols)
         /\ Ending(parts, i) \in Seq(Symbols) /\ Len(Ending(parts, i)) >= 2
         /\ SubSeq(Ending(parts, i), 1, 2) = (IF i = Len(parts) THEN <<"-", "-">> ELSE <<"r", "n">>)
         /\ PartOf(parts, i) \in Seq(Symbols)
  <1>1. parts[i] \in BodyParts /\ parts[i].header \in Symbols /\ parts[i].data \in Seq(Symbols)
    <2>1. parts[i] \in BodyParts
      OBVIOUS
    <2> QED
      BY <2>1 DEF BodyParts
  <1>2. Ending(parts, i) \in Seq(Symbols) /\ Len(Ending(parts, i)) >= 2
        /\ SubSeq(Ending(parts, i), 1, 2) = (IF i = Len(parts) THEN <<"-", "-">> ELSE <<"r", "n">>)
    <2>1. "r" \in Symbols /\ "n" \in Symbols /\ "-" \in Symbols
      BY MultipartAssumption
    <2> QED
      BY <2>1 DEF Ending
  <1>3. <<parts[i].header>> \in Seq(Symbols)
    BY <1>1
  <1>4. PartOf(parts, i) \in Seq(Symbols)
    BY <1>1, <1>2, <1>3, PatternsAreSequences DEF PartOf
  <1> QED
    BY <1>1, <1>2, <1>4

(* The rest of a body is a part and the rest behind it, or nothing.         *)
LEMMA RestsAre ==
  ASSUME NEW parts \in Seq(BodyParts), NEW i \in 1 .. Len(parts) + 1
  PROVE  /\ Rest(parts, i) \in Seq(Symbols)
         /\ i = Len(parts) + 1 => Rest(parts, i) = <<>>
         /\ i <= Len(parts) => Rest(parts, i) = PartOf(parts, i) \o Rest(parts, i + 1)
  <1> DEFINE N == Len(parts)
             S(m) == [q \in 1 .. N + 1 - m |-> PartOf(parts, m + q - 1)]
  <1>1. N \in Nat /\ i \in Nat
    OBVIOUS
  <1>2. ASSUME NEW m \in 1 .. N + 1
        PROVE  /\ S(m) \in Seq(Seq(Symbols)) /\ Len(S(m)) = N + 1 - m
               /\ \A q \in 1 .. N + 1 - m : S(m)[q] = PartOf(parts, m + q - 1)
    <2>1. N + 1 - m \in Nat
      BY <1>1
    <2>2. \A q \in 1 .. N + 1 - m : PartOf(parts, m + q - 1) \in Seq(Symbols)
      <3> TAKE q \in 1 .. N + 1 - m
      <3>1. m + q - 1 \in 1 .. Len(parts)
        BY <1>1
      <3> QED
        BY <3>1, PartIs
    <2> QED
      BY <2>1, <2>2
  <1>3. Rest(parts, i) = FlattenSeq(S(i)) /\ Rest(parts, i + 1) = FlattenSeq(S(i + 1))
    BY DEF Rest
  <1>4. i \in 1 .. N + 1
    OBVIOUS
  <1> HIDE DEF S, N
  <1>5. Rest(parts, i) \in Seq(Symbols)
    BY <1>2, <1>3, <1>4, FlattenIsSeq
  <1>6. ASSUME i = N + 1 PROVE Rest(parts, i) = <<>>
    <2>1. Len(S(i)) = 0
      BY <1>1, <1>2, <1>4, <1>6
    <2> QED
      BY <1>2, <1>3, <1>4, <2>1, FlattenIsSeq
  <1>7. ASSUME i <= N PROVE Rest(parts, i) = PartOf(parts, i) \o Rest(parts, i + 1)
    <2>1. i + 1 \in 1 .. N + 1
      BY <1>1, <1>4, <1>7
    <2>2. /\ S(i) \in Seq(Seq(Symbols)) /\ Len(S(i)) = N + 1 - i
          /\ \A q \in 1 .. N + 1 - i : S(i)[q] = PartOf(parts, i + q - 1)
          /\ S(i + 1) \in Seq(Seq(Symbols)) /\ Len(S(i + 1)) = N + 1 - (i + 1)
          /\ \A q \in 1 .. N + 1 - (i + 1) : S(i + 1)[q] = PartOf(parts, (i + 1) + q - 1)
      BY <1>2, <1>4, <2>1
    <2>3. Len(S(i)) = Len(S(i + 1)) + 1
      <3>1. Len(S(i)) = N + 1 - i /\ Len(S(i + 1)) = N + 1 - (i + 1)
        BY <2>2
      <3> QED
        BY <1>1, <3>1
    <2>4. \A q \in 1 .. Len(S(i + 1)) : S(i + 1)[q] = S(i)[q + 1]
      <3> TAKE q \in 1 .. Len(S(i + 1))
      <3>1. q \in 1 .. N + 1 - (i + 1) /\ q + 1 \in 1 .. N + 1 - i /\ (i + 1) + q - 1 = i + (q + 1) - 1
        BY <1>1, <2>2
      <3> QED
        BY <2>2, <3>1
    <2>5. FlattenSeq(S(i)) = S(i)[1] \o FlattenSeq(S(i + 1))
      BY <2>2, <2>3, <2>4, FlattenFirst
    <2>6. S(i)[1] = PartOf(parts, i)
      <3>1. 1 \in 1 .. N + 1 - i /\ i + 1 - 1 = i
        BY <1>1, <1>7
      <3> QED
        BY <2>2, <3>1
    <2> QED
      BY <1>3, <2>5, <2>6
  <1> QED
    BY <1>5, <1>6, <1>7 DEF N

(* Concatenation, as an operator of which the provers see these laws only   *)
Cat(s, t) == s \o t

(* A concatenation of sequences is a sequence.                              *)
LEMMA CatIs ==
  ASSUME NEW s \in Seq(Symbols), NEW t \in Seq(Symbols)
  PROVE  Cat(s, t) \in Seq(Symbols)
  BY DEF Cat

(* The same for Cat.                                                        *)
LEMMA CatAssociative ==
  ASSUME NEW s \in Seq(Symbols), NEW t \in Seq(Symbols), NEW u \in Seq(Symbols)
  PROVE  Cat(Cat(s, t), u) = Cat(s, Cat(t, u))
  BY ConcatAssociative DEF Cat

(* A body is put together of six pieces at most.                            *)
LEMMA CatSix ==
  ASSUME NEW h \in Seq(Symbols), NEW H \in Seq(Symbols), NEW d \in Seq(Symbols),
         NEW B \in Seq(Symbols), NEW e \in Seq(Symbols), NEW r \in Seq(Symbols)
  PROVE  /\ Cat(Cat(Cat(Cat(Cat(h, H), d), B), e), r) = Cat(h, Cat(H, Cat(d, Cat(B, Cat(e, r)))))
         /\ Cat(e, r) \in Seq(Symbols)
  <1>1. Cat(e, r) \in Seq(Symbols) /\ Cat(h, H) \in Seq(Symbols)
    BY CatIs
  <1>2. Cat(B, Cat(e, r)) \in Seq(Symbols) /\ Cat(Cat(h, H), d) \in Seq(Symbols)
    BY <1>1, CatIs
  <1>3. Cat(d, Cat(B, Cat(e, r))) \in Seq(Symbols) /\ Cat(Cat(Cat(h, H), d), B) \in Seq(Symbols)
    BY <1>2, CatIs
  <1>4. Cat(Cat(Cat(Cat(Cat(h, H), d), B), e), r) = Cat(Cat(Cat(Cat(h, H), d), B), Cat(e, r))
    BY <1>3, CatAssociative
  <1>5. Cat(Cat(Cat(Cat(h, H), d), B), Cat(e, r)) = Cat(Cat(Cat(h, H), d), Cat(B, Cat(e, r)))
    BY <1>1, <1>2, CatAssociative
  <1>6. Cat(Cat(Cat(h, H), d), Cat(B, Cat(e, r))) = Cat(Cat(h, H), Cat(d, Cat(B, Cat(e, r))))
    BY <1>1, <1>2, CatAssociative
  <1>7. Cat(Cat(h, H), Cat(d, Cat(B, Cat(e, r)))) = Cat(h, Cat(H, Cat(d, Cat(B, Cat(e, r)))))
    BY <1>3, CatAssociative
  <1> QED
    BY <1>1, <1>4, <1>5, <1>6, <1>7

(* A part is its headers, its data, a boundary and what comes after it.     *)
LEMMA RestIs ==
  ASSUME NEW parts \in Seq(BodyParts), NEW i \in 1 .. Len(parts)
  PROVE  /\ After(parts, i) \in Seq(Symbols)
         /\ Rest(parts, i) = <<parts[i].header>> \o
                 (headerEnd \o (parts[i].data \o (boundaryMarker \o After(parts, i))))
  <1> DEFINE h == <<parts[i].header>>
             H == headerEnd
             d == parts[i].data
             B == boundaryMarker
             e == Ending(parts, i)
             r == Rest(parts, i + 1)
  <1>1. /\ h \in Seq(Symbols) /\ H \in Seq(Symbols) /\ d \in Seq(Symbols) /\ B \in Seq(Symbols)
        /\ e \in Seq(Symbols) /\ r \in Seq(Symbols)
    <2>1. i + 1 \in 1 .. Len(parts) + 1
      OBVIOUS
    <2>2. r \in Seq(Symbols)
      BY <2>1, RestsAre
    <2>3. parts[i].header \in Symbols /\ d \in Seq(Symbols) /\ e \in Seq(Symbols)
      BY PartIs
    <2>4. h \in Seq(Symbols)
      BY <2>3
    <2> QED
      BY <2>2, <2>3, <2>4, PatternsAreSequences
  <1>2. Rest(parts, i) = PartOf(parts, i) \o r
    <2>1. i \in 1 .. Len(parts) + 1 /\ i <= Len(parts)
      OBVIOUS
    <2> QED
      BY <2>1, RestsAre
  <1>3. PartOf(parts, i) = (((h \o H) \o d) \o B) \o e
    BY DEF PartOf
  <1>4. After(parts, i) = e \o r
    BY DEF After
  <1> HIDE DEF h, H, d, B, e, r
  <1>5. /\ Cat(Cat(Cat(Cat(Cat(h, H), d), B), e), r) = Cat(h, Cat(H, Cat(d, Cat(B, Cat(e, r)))))
        /\ Cat(e, r) \in Seq(Symbols)
    BY <1>1, CatSix
  <1>6. e \o r \in Seq(Symbols)
    BY <1>5 DEF Cat
  <1>7. ((((h \o H) \o d) \o B) \o e) \o r = h \o (H \o (d \o (B \o (e \o r))))
    BY <1>5, Zenon DEF Cat
  <1>8. Rest(parts, i) = h \o (H \o (d \o (B \o (e \o r))))
    BY <1>2, <1>3, <1>7, Zenon
  <1> QED
    BY <1>4, <1>6, <1>8, Zenon DEF h, H, d, B

(* A body is its first boundary and the rest from the first part on.        *)
LEMMA BodyIs ==
  ASSUME NEW parts \in Seq(BodyParts)
  PROVE  Body(parts) = firstBoundary \o Rest(parts, 1)
  <1>1. [i \in DOMAIN parts |-> <<parts[i].header>> \o headerEnd \o parts[i].data \o boundaryMarker
                   \o (IF i = Len(parts) THEN <<"-", "-", "r", "n">> ELSE <<"r", "n">>)]
         = [q \in 1 .. Len(parts) + 1 - 1 |-> PartOf(parts, 1 + q - 1)]
    <2>1. DOMAIN parts = 1 .. Len(parts) + 1 - 1
      OBVIOUS
    <2>2. \A q \in DOMAIN parts : 1 + q - 1 = q
      OBVIOUS
    <2>3. \A q \in DOMAIN parts : <<parts[q].header>> \o headerEnd \o parts[q].data \o boundaryMarker
                   \o (IF q = Len(parts) THEN <<"-", "-", "r", "n">> ELSE <<"r", "n">>) = PartOf(parts, 1 + q - 1)
      BY <2>2 DEF PartOf, Ending
    <2> QED
      BY <2>1, <2>3, Zenon
  <1> QED
    BY <1>1 DEF Body, Rest

-----------------------------------------------------------------------------
(* Where the parser is in a body                                            *)

FileAt(parts, i) == Header[parts[i].header].fileName # ""

Sent(parts) == parts \in Seq(BodyParts) /\ \A i \in 1 .. Len(parts) : BoundaryFree(parts[i].data)

Active == mp.state \notin {"IDLE", "DONE"}
Stream == mp.buffer \o mp.unread
LenOf(parts, i) == IF i \in 1 .. Len(parts) THEN Len(parts[i].data) ELSE 0
LeftOf(parts, i, k) == from(parts[i].data, k + 1) \o (boundaryMarker \o After(parts, i))

(* In the i-th part, k symbols of its data are taken from the buffer, and j *)
(* of them were passed on by callbacks that have returned.                  *)
CallPlace(parts, i, j, k) ==
  /\ call = NoCall => j = k
  /\ call.kind = "file" =>
       /\ isFile /\ call.data = SubSeq(parts[i].data, j + 1, k)
       /\ call.first <=> j = 0
       /\ call.final <=> mp.state = "AFTER_BOUNDARY"
  /\ call.kind = "field" => ~isFile

Place(parts, i, j, k) ==
  /\ mp.state = "PREAMBLE" =>
       i = 1 /\ k = 0 /\ call = NoCall /\ Stream = firstBoundary \o Rest(parts, 1)
  /\ mp.state = "HEADER" =>
       /\ i \in 1 .. Len(parts) \/ Len(parts) = 0
       /\ k = 0 /\ call = NoCall /\ Stream = Rest(parts, i)
  /\ mp.state \in {"BODY", "AFTER_BOUNDARY"} =>
       i \in 1 .. Len(parts) /\ mp.header = parts[i].header
  /\ mp.state = "BODY" =>
       /\ Stream = LeftOf(parts, i, k)
       /\ isFile => (mp.isFirstChunk <=> k = 0)
       /\ call # NoCall => call.kind = "file"
  /\ mp.state = "AFTER_BOUNDARY" => k = LenOf(parts, i) /\ Stream = After(parts, i)
  /\ CallPlace(parts, i, j, k)

Position(parts, i, j, k) ==
  i \in 1 .. Len(parts) + 1 /\ k \in 0 .. LenOf(parts, i) /\ j \in 0 .. k /\ Place(parts, i, j, k)

(* The parts that are over                                                  *)
Over(i) == IF mp.state = "AFTER_BOUNDARY" /\ call = NoCall THEN i ELSE i - 1

(* What the parser's own steps keep of a position                           *)
Moved(parts, i, j, i2, j2, k2) ==
  /\ Position(parts, i2, j2, k2)'
  /\ Over(i2)' = Over(i)
  /\ mp.state = "BODY" /\ isFile => i2 = i /\ j2 = j /\ isFile'
  /\ j2 > 0 /\ isFile' => isFile /\ i2 = i /\ j2 = j

(* What is known of a part of a body that was sent.                         *)
LEMMA SentIs ==
  ASSUME NEW parts, Sent(parts), NEW i \in 1 .. Len(parts)
  PROVE  /\ parts \in Seq(BodyParts) /\ Len(parts) \in Nat
         /\ LenOf(parts, i) = Len(parts[i].data) /\ parts[i].data \in Seq(Symbols)
         /\ Len(parts[i].data) \in Nat /\ BoundaryFree(parts[i].data)
         /\ parts[i].header \in Symbols
         /\ Rest(parts, i) \in Seq(Symbols) /\ After(parts, i) \in Seq(Symbols)
         /\ Rest(parts, i + 1) \in Seq(Symbols)
  <1>1. parts \in Seq(BodyParts) /\ BoundaryFree(parts[i].data)
    BY DEF Sent
  <1>2. Len(parts) \in Nat /\ i \in 1 .. Len(parts) + 1 /\ i + 1 \in 1 .. Len(parts) + 1
    BY <1>1
  <1>3. parts[i].data \in Seq(Symbols) /\ parts[i].header \in Symbols
    BY <1>1, PartIs
  <1>4. Rest(parts, i) \in Seq(Symbols) /\ Rest(parts, i + 1) \in Seq(Symbols)
    BY <1>1, <1>2, RestsAre
  <1>5. After(parts, i) \in Seq(Symbols)
    BY <1>1, RestIs
  <1> QED
    BY <1>1, <1>2, <1>3, <1>4, <1>5 DEF LenOf

(* Before the parser runs, for a handler that waits                         *)
Runs(parts, i, k) ==
  /\ IInv /\ handler.pc = "parsing" /\ Sent(parts) /\ Position(parts, i, k, k) /\ Parsing
  /\ UNCHANGED handler

(* What is known while the parser runs in a body.                           *)
LEMMA RunsIs ==
  ASSUME NEW parts, NEW i, NEW k, Runs(parts, i, k)
  PROVE  /\ mp.buffer \in Seq(Symbols) /\ mp.unread \in Seq(Symbols) /\ call = NoCall
         /\ Len(mp.buffer) \in Nat /\ Len(mp.unread) \in Nat
         /\ mp = [state |-> mp.state, buffer |-> mp.buffer, unread |-> mp.unread,
                  header |-> mp.header, isFirstChunk |-> mp.isFirstChunk,
                  fieldValue |-> mp.fieldValue, eof |-> mp.eof, ret |-> mp.ret]
         /\ mp.isFirstChunk \in BOOLEAN
         /\ parts \in Seq(BodyParts) /\ Len(parts) \in Nat
         /\ i \in 1 .. Len(parts) + 1 /\ k \in 0 .. LenOf(parts, i) /\ k \in Nat /\ LenOf(parts, i) \in Nat
         /\ Place(parts, i, k, k)
         /\ mp.state \in {"PREAMBLE", "HEADER", "BODY", "AFTER_BOUNDARY"}
  <1>1. /\ mp.buffer \in Seq(Symbols) /\ mp.unread \in Seq(Symbols) /\ call = NoCall
        /\ mp = [state |-> mp.state, buffer |-> mp.buffer, unread |-> mp.unread,
                  header |-> mp.header, isFirstChunk |-> mp.isFirstChunk,
                  fieldValue |-> mp.fieldValue, eof |-> mp.eof, ret |-> mp.ret]
        /\ mp.isFirstChunk \in BOOLEAN
        /\ mp.state \in {"PREAMBLE", "HEADER", "BODY", "AFTER_BOUNDARY"}
    BY DEF Runs, IInv, ParserType, MpStates, Parsing
  <1>2. parts \in Seq(BodyParts) /\ i \in 1 .. Len(parts) + 1 /\ k \in 0 .. LenOf(parts, i)
        /\ Place(parts, i, k, k)
    BY DEF Runs, Sent, Position
  <1>3. Len(parts) \in Nat
    BY <1>2
  <1>4. LenOf(parts, i) \in Nat
    <2>1. CASE i \in 1 .. Len(parts)
      BY <2>1, SentIs DEF Runs
    <2>2. CASE i \notin 1 .. Len(parts)
      BY <2>2 DEF LenOf
    <2> QED
      BY <2>1, <2>2
  <1>5. Len(mp.buffer) \in Nat /\ Len(mp.unread) \in Nat
    BY <1>1
  <1> QED
    BY <1>1, <1>2, <1>3, <1>4, <1>5

(* The first boundary leads to the header of the first part.                *)
LEMMA FirstBoundaryMoves ==
  ASSUME NEW parts, NEW i, NEW k, Runs(parts, i, k), FindFirstBoundary
  PROVE  Moved(parts, i, k, i, k, k)
  <1> DEFINE n == find(mp.buffer, firstBoundary)
             b == from(mp.buffer, n + Len(firstBoundary))
             r == Rest(parts, 1)
  <1>1. /\ mp.buffer \in Seq(Symbols) /\ mp.unread \in Seq(Symbols) /\ call = NoCall
        /\ parts \in Seq(BodyParts) /\ Len(parts) \in Nat
        /\ i \in 1 .. Len(parts) + 1 /\ k \in 0 .. LenOf(parts, i)
        /\ Place(parts, i, k, k)
    BY RunsIs
  <1>2. /\ mp.state = "PREAMBLE" /\ n # 0 /\ call' = call
        /\ mp' = [mp EXCEPT !.state = "HEADER", !.buffer = b]
    BY DEF FindFirstBoundary
  <1>3. i = 1 /\ k = 0 /\ mp.buffer \o mp.unread = firstBoundary \o r
    BY <1>1, <1>2 DEF Place, Stream
  <1>4. firstBoundary \in Seq(Symbols) /\ Len(firstBoundary) = 5 /\ r \in Seq(Symbols)
    <2>1. 1 \in 1 .. Len(parts) + 1
      BY <1>1
    <2> QED
      BY <1>1, <2>1, RestsAre, PatternsAreSequences
  <1> HIDE DEF r, n
  <1>5. n = 1 /\ 5 <= Len(mp.buffer)
    <2>1. FirstAt(mp.buffer \o mp.unread, firstBoundary, 1)
      BY <1>3, <1>4, FirstInFront
    <2>2. n = 1 /\ 1 + Len(firstBoundary) - 1 <= Len(mp.buffer)
      BY <1>1, <1>2, <1>4, <2>1, FindInStream DEF n
    <2> QED
      BY <1>4, <2>2
  <1>6. b = from(mp.buffer, Len(firstBoundary) + 1)
    BY <1>4, <1>5
  <1> HIDE DEF b
  <1>7. b \o mp.unread = r
    <2>1. mp.buffer \in Seq(Symbols) /\ mp.unread \in Seq(Symbols)
      BY <1>1
    <2>2. Len(firstBoundary) <= Len(mp.buffer)
      BY <1>4, <1>5
    <2>3. mp.buffer \o mp.unread = firstBoundary \o r
      BY <1>3
    <2>4. firstBoundary \in Seq(Symbols) /\ r \in Seq(Symbols)
      BY <1>4
    <2>5. \A s, u \in Seq(Symbols) : s \o u = firstBoundary \o r /\ Len(firstBoundary) <= Len(s) =>
            from(s, Len(firstBoundary) + 1) \o u = r
      BY <2>4, DropPrefix
    <2> QED
      BY <1>6, <2>1, <2>2, <2>3, <2>5, Zenon
  <1>8. mp'.buffer = b /\ mp'.unread = mp.unread /\ mp'.state = "HEADER"
    BY <1>2, RunsIs
  <1>9. Position(parts, i, k, k)'
    <2>1. i \in 1 .. Len(parts) \/ Len(parts) = 0
      BY <1>1, <1>3
    <2> QED
      BY <1>1, <1>2, <1>3, <1>7, <1>8, <2>1 DEF Position, Place, Stream, CallPlace, NoCall, r
  <1> QED
    BY <1>2, <1>3, <1>8, <1>9 DEF Moved, Over

(* A header leads to the data of its part.                                  *)
LEMMA HeaderMoves ==
  ASSUME NEW parts, NEW i, NEW k, Runs(parts, i, k), ParseHeader
  PROVE  Moved(parts, i, k, i, k, k)
  <1> DEFINE n == find(mp.buffer, headerEnd)
             b == from(mp.buffer, n + Len(headerEnd))
             h == parts[i].header
             r == parts[i].data \o (boundaryMarker \o After(parts, i))
  <1>1. /\ mp.buffer \in Seq(Symbols) /\ mp.unread \in Seq(Symbols) /\ call = NoCall
        /\ parts \in Seq(BodyParts) /\ Len(parts) \in Nat
        /\ i \in 1 .. Len(parts) + 1 /\ k \in 0 .. LenOf(parts, i)
        /\ Place(parts, i, k, k)
    BY RunsIs
  <1>2. /\ mp.state = "HEADER" /\ n # 0 /\ call' = call
        /\ mp' = [mp EXCEPT !.state = "BODY", !.header = mp.buffer[n - 1], !.buffer = b,
                            !.isFirstChunk = TRUE, !.fieldValue = <<>>]
    BY DEF ParseHeader
  <1>3. k = 0 /\ mp.buffer \o mp.unread = Rest(parts, i) /\ (i \in 1 .. Len(parts) \/ Len(parts) = 0)
    BY <1>1, <1>2 DEF Place, Stream
  <1>4. headerEnd \in Seq(Symbols) /\ Len(headerEnd) = 4
    BY PatternsAreSequences
  <1>5. i \in 1 .. Len(parts)
    <2> SUFFICES ASSUME Len(parts) = 0 PROVE FALSE
      BY <1>3
    <2>1. Rest(parts, i) = <<>>
      <3>1. i = Len(parts) + 1
        BY <1>1
      <3> QED
        BY <1>1, <3>1, RestsAre
    <2>2. Len(mp.buffer) = 0
      BY <1>1, <1>3, <2>1
    <2>3. Occurs(mp.buffer, headerEnd, n)
      BY <1>1, <1>2, <1>4, FindIsFirst
    <2> QED
      BY <1>4, <2>2, <2>3 DEF Occurs
  <1>6. h \in Symbols /\ r \in Seq(Symbols) /\ parts[i].data \in Seq(Symbols) /\ Len(parts[i].data) \in Nat
        /\ LenOf(parts, i) = Len(parts[i].data)
    <2>1. h \in Symbols /\ parts[i].data \in Seq(Symbols) /\ After(parts, i) \in Seq(Symbols)
          /\ Len(parts[i].data) \in Nat /\ LenOf(parts, i) = Len(parts[i].data)
      BY <1>5, SentIs DEF Runs
    <2> QED
      BY <2>1, PatternsAreSequences
  <1>7. mp.buffer \o mp.unread = <<h>> \o (headerEnd \o r)
    BY <1>1, <1>3, <1>5, RestIs
  <1> HIDE DEF n, h, r
  <1>8. n = 2 /\ 5 <= Len(mp.buffer)
    <2>1. FirstAt(mp.buffer \o mp.unread, headerEnd, 2)
      BY <1>6, <1>7, FirstAfterHeader
    <2>2. n = 2 /\ 2 + Len(headerEnd) - 1 <= Len(mp.buffer)
      BY <1>1, <1>2, <1>4, <2>1, FindInStream DEF n
    <2> QED
      BY <1>4, <2>2
  <1> DEFINE p == <<h>> \o headerEnd
  <1>9. p \in Seq(Symbols) /\ Len(p) = 5 /\ p[1] = h
    <2>1. <<h>> \in Seq(Symbols) /\ Len(<<h>>) = 1 /\ <<h>>[1] = h
      BY <1>6
    <2>2. headerEnd \in Seq(Symbols)
      BY <1>4
    <2>3. p \in Seq(Symbols) /\ Len(p) = Len(<<h>>) + Len(headerEnd) /\ \A q \in 1 .. Len(<<h>>) : p[q] = <<h>>[q]
      <3> DEFINE v == <<h>>
      <3>1. v \in Seq(Symbols)
        BY <2>1
      <3> HIDE DEF v
      <3>2. v \o headerEnd \in Seq(Symbols) /\ Len(v \o headerEnd) = Len(v) + Len(headerEnd)
            /\ \A q \in 1 .. Len(v) : (v \o headerEnd)[q] = v[q]
        BY <2>2, <3>1, ConcatIs
      <3> QED
        BY <3>2 DEF v
    <2>4. 1 \in 1 .. Len(<<h>>)
      BY <2>1
    <2> HIDE DEF p
    <2> QED
      BY <1>4, <2>1, <2>3, <2>4
  <1>10. mp.buffer \o mp.unread = p \o r
    <2>1. <<h>> \in Seq(Symbols)
      BY <1>6
    <2>2. (<<h>> \o headerEnd) \o r = <<h>> \o (headerEnd \o r)
      BY <1>4, <1>6, <2>1, Associative, Zenon
    <2> QED
      BY <1>7, <2>2
  <1>11. b = from(mp.buffer, Len(p) + 1)
    BY <1>4, <1>8, <1>9
  <1> HIDE DEF p, b
  <1>12. b \o mp.unread = r /\ SubSeq(mp.buffer, 1, 5) = p
    <2>1. mp.buffer \in Seq(Symbols) /\ mp.unread \in Seq(Symbols)
      BY <1>1
    <2>2. Len(p) <= Len(mp.buffer)
      BY <1>8, <1>9
    <2>3. p \in Seq(Symbols) /\ r \in Seq(Symbols)
      BY <1>6, <1>9
    <2>4. from(mp.buffer, Len(p) + 1) \o mp.unread = r /\ SubSeq(mp.buffer, 1, Len(p)) = p
      <3>1. \A s, u \in Seq(Symbols) : s \o u = p \o r /\ Len(p) <= Len(s)
              => from(s, Len(p) + 1) \o u = r /\ SubSeq(s, 1, Len(p)) = p
        BY <2>3, DropPrefix
      <3> QED
        BY <1>10, <2>1, <2>2, <3>1, Zenon
    <2> QED
      BY <1>9, <1>11, <2>4
  <1>13. mp.buffer[1] = h
    <2>1. SubSeq(mp.buffer, 1, 5)[1] = mp.buffer[1]
      BY <1>1, <1>8
    <2> QED
      BY <1>9, <1>12, <2>1
  <1>14. /\ mp'.buffer = b /\ mp'.unread = mp.unread /\ mp'.state = "BODY" /\ mp'.header = h
         /\ mp'.isFirstChunk = TRUE
    <2>1. mp.buffer[n - 1] = h
      BY <1>8, <1>13
    <2> QED
      BY <1>2, <2>1, RunsIs
  <1>15. from(parts[i].data, k + 1) = parts[i].data
    BY <1>3, <1>6, SubSeqFull DEF from
  <1>16. LeftOf(parts, i, k) = r
    BY <1>15 DEF LeftOf, r
  <1>17. Position(parts, i, k, k)'
    <2>1. i \in 1 .. Len(parts) + 1 /\ k \in 0 .. LenOf(parts, i) /\ k \in 0 .. k
      BY <1>1, <1>3
    <2>2. CallPlace(parts, i, k, k)'
      BY <1>1, <1>2 DEF CallPlace, NoCall
    <2>3. mp'.buffer \o mp'.unread = LeftOf(parts, i, k)
      BY <1>12, <1>14, <1>16
    <2>4. mp'.header = parts[i].header /\ call' = NoCall
      BY <1>1, <1>2, <1>14 DEF h
    <2>5. Place(parts, i, k, k)'
      BY <1>3, <1>5, <1>14, <2>2, <2>3, <2>4 DEF Place, Stream
    <2> QED
      BY <2>1, <2>5 DEF Position
  <1> QED
    BY <1>2, <1>3, <1>14, <1>17 DEF Moved, Over

(* What is before the parser in the middle of a part                        *)
Ahead(parts, i, k) ==
  /\ i \in 1 .. Len(parts) /\ mp.header = parts[i].header
  /\ parts[i].data \in Seq(Symbols) /\ LenOf(parts, i) = Len(parts[i].data)
  /\ Len(parts[i].data) \in Nat /\ k \in 0 .. Len(parts[i].data) /\ k \in Nat
  /\ After(parts, i) \in Seq(Symbols)
  /\ from(parts[i].data, k + 1) \in Seq(Symbols)
  /\ Len(from(parts[i].data, k + 1)) = Len(parts[i].data) - k
  /\ mp.buffer \o mp.unread = from(parts[i].data, k + 1) \o (boundaryMarker \o After(parts, i))
  /\ FirstAt(mp.buffer \o mp.unread, boundaryMarker, Len(parts[i].data) - k + 1)
  /\ isFile => (mp.isFirstChunk <=> k = 0)

(* Inside a part the first boundary of the stream is at the end of its      *)
(* data.                                                                    *)
LEMMA DataAhead ==
  ASSUME NEW parts, NEW i, NEW k, Runs(parts, i, k), mp.state = "BODY"
  PROVE  Ahead(parts, i, k)
  <1>1. /\ i \in 1 .. Len(parts) /\ mp.header = parts[i].header
        /\ mp.buffer \o mp.unread = from(parts[i].data, k + 1) \o (boundaryMarker \o After(parts, i))
        /\ isFile => (mp.isFirstChunk <=> k = 0)
    <2>1. Place(parts, i, k, k)
      BY RunsIs
    <2> QED
      BY <2>1, Zenon DEF Place, Stream, LeftOf
  <1>2. /\ parts[i].data \in Seq(Symbols) /\ LenOf(parts, i) = Len(parts[i].data)
        /\ Len(parts[i].data) \in Nat /\ After(parts, i) \in Seq(Symbols) /\ BoundaryFree(parts[i].data)
    BY <1>1, SentIs DEF Runs
  <1>3. k \in 0 .. Len(parts[i].data) /\ k \in Nat
    BY <1>2, RunsIs
  <1>4. from(parts[i].data, k + 1) \in Seq(Symbols) /\ Len(from(parts[i].data, k + 1)) = Len(parts[i].data) - k
    <2>1. parts[i].data \in Seq(Symbols) /\ k \in 0 .. Len(parts[i].data) /\ k \in k .. Len(parts[i].data)
      BY <1>2, <1>3
    <2> QED
      BY <2>1, CutSeq
  <1>5. FirstAt(mp.buffer \o mp.unread, boundaryMarker, Len(parts[i].data) - k + 1)
    <2>1. FirstAt(from(parts[i].data, k + 1) \o (boundaryMarker \o After(parts, i)), boundaryMarker,
                  Len(parts[i].data) - k + 1)
      BY <1>2, <1>3, FirstAfterData DEF BoundaryFree
    <2> QED
      BY <1>1, <2>1
  <1> QED
    BY <1>1, <1>2, <1>3, <1>4, <1>5, Zenon DEF Ahead

(* A boundary that is found is the end of the part: the call gets the rest  *)
(* of its data.                                                             *)
LEMMA BoundaryMoves ==
  ASSUME NEW parts, NEW i, NEW k, Runs(parts, i, k), FindBoundary
  PROVE  Moved(parts, i, k, i, k, LenOf(parts, i))
  <1> DEFINE pos == find(mp.buffer, boundaryMarker)
             data == SubSeq(mp.buffer, 1, pos - 1)
             b == from(mp.buffer, pos + Len(boundaryMarker))
             L == Len(parts[i].data)
             v == from(parts[i].data, k + 1)
             r == After(parts, i)
             B == boundaryMarker
  <1>1. mp.state = "BODY" /\ pos # 0 /\ mp' = [mp EXCEPT !.state = "AFTER_BOUNDARY", !.buffer = b]
        /\ call' = IF isFile THEN FileData(data, TRUE, FALSE) ELSE Field(mp.fieldValue \o data, FALSE)
    BY DEF FindBoundary
  <1>2. mp.buffer \in Seq(Symbols) /\ mp.unread \in Seq(Symbols) /\ call = NoCall /\ Len(mp.buffer) \in Nat
        /\ i \in 1 .. Len(parts) + 1 /\ Len(parts) \in Nat
    BY RunsIs
  <1>3. /\ i \in 1 .. Len(parts) /\ mp.header = parts[i].header
        /\ LenOf(parts, i) = L /\ L \in Nat /\ k \in 0 .. L
        /\ r \in Seq(Symbols) /\ v \in Seq(Symbols) /\ Len(v) = L - k
        /\ mp.buffer \o mp.unread = v \o (B \o r)
        /\ FirstAt(mp.buffer \o mp.unread, B, L - k + 1)
    <2>1. mp.state = "BODY"
      BY <1>1
    <2>2. Ahead(parts, i, k)
      BY <2>1, DataAhead
    <2>3. v \in Seq(Symbols) /\ Len(v) = L - k /\ mp.buffer \o mp.unread = v \o (B \o r)
          /\ FirstAt(mp.buffer \o mp.unread, B, L - k + 1) /\ k \in 0 .. L /\ L \in Nat
      BY <2>2, Zenon DEF Ahead
    <2>4. i \in 1 .. Len(parts) /\ mp.header = parts[i].header /\ LenOf(parts, i) = L /\ r \in Seq(Symbols)
      BY <2>2, Zenon DEF Ahead
    <2> HIDE DEF v, r, L, B
    <2> QED
      BY <2>3, <2>4
  <1>18. isFile => (mp.isFirstChunk <=> k = 0)
    <2>1. Ahead(parts, i, k)
      BY <1>1, DataAhead
    <2> QED
      BY <2>1, Zenon DEF Ahead
  <1>4. B \in Seq(Symbols) /\ Len(B) = 5
    BY PatternsAreSequences
  <1>5. v = SubSeq(parts[i].data, k + 1, L)
    BY DEF from
  <1> HIDE DEF pos, v, r, L, B
  <1>6. pos = L - k + 1 /\ L - k + 5 <= Len(mp.buffer)
    <2>1. pos = L - k + 1 /\ L - k + 1 + Len(B) - 1 <= Len(mp.buffer)
      <3>1. mp.buffer \in Seq(Symbols) /\ mp.unread \in Seq(Symbols) /\ B \in Seq(Symbols)
            /\ FirstAt(mp.buffer \o mp.unread, B, L - k + 1) /\ find(mp.buffer, B) # 0 /\ pos = find(mp.buffer, B)
        BY <1>1, <1>2, <1>3, <1>4 DEF pos, B
      <3> QED
        BY <3>1, FindInStream
    <2>2. Len(B) = 5 /\ L \in Nat /\ k \in Nat /\ k <= L /\ Len(mp.buffer) \in Nat
      BY <1>2, <1>3, <1>4
    <2> QED
      BY <2>1, <2>2
  <1>7. data = v
    <2>1. B \o r \in Seq(Symbols)
      BY <1>3, <1>4, ConcatIs
    <2>2. Len(v) <= Len(mp.buffer) /\ Len(v) = pos - 1
      <3>1. Len(v) = L - k /\ L \in Nat /\ k \in 0 .. L /\ Len(mp.buffer) \in Nat
        BY <1>2, <1>3
      <3> QED
        BY <1>6, <3>1
    <2>3. mp.buffer \in Seq(Symbols) /\ mp.unread \in Seq(Symbols) /\ v \in Seq(Symbols)
          /\ mp.buffer \o mp.unread = v \o (B \o r)
      BY <1>2, <1>3
    <2>4. SubSeq(mp.buffer, 1, Len(v)) = v
      BY <2>1, <2>2, <2>3, DropPrefix
    <2> QED
      BY <2>2, <2>4
  <1> DEFINE p == v \o B
  <1>8. p \in Seq(Symbols) /\ Len(p) = L - k + 5
    <2>1. v \in Seq(Symbols) /\ B \in Seq(Symbols)
      BY <1>3, <1>4
    <2>2. p \in Seq(Symbols) /\ Len(p) = Len(v) + Len(B)
      BY <2>1, ConcatIs
    <2> HIDE DEF p
    <2> QED
      BY <1>3, <1>4, <2>2
  <1>9. mp.buffer \o mp.unread = p \o r
    <2>1. v \in Seq(Symbols) /\ B \in Seq(Symbols) /\ r \in Seq(Symbols)
      BY <1>3, <1>4
    <2>2. (v \o B) \o r = v \o (B \o r)
      BY <2>1, Associative, Zenon
    <2> QED
      BY <1>3, <2>2
  <1>10. b = from(mp.buffer, Len(p) + 1)
    <2> HIDE DEF p
    <2>1. pos + Len(boundaryMarker) = Len(p) + 1
      BY <1>3, <1>4, <1>6, <1>8 DEF B
    <2> QED
      BY <2>1
  <1> HIDE DEF p, b, data
  <1>11. b \o mp.unread = r
    <2>1. mp.buffer \in Seq(Symbols) /\ mp.unread \in Seq(Symbols)
      BY <1>2
    <2>2. Len(p) <= Len(mp.buffer)
      BY <1>6, <1>8
    <2>3. p \in Seq(Symbols) /\ r \in Seq(Symbols)
      BY <1>3, <1>8
    <2>4. \A s, u \in Seq(Symbols) : s \o u = p \o r /\ Len(p) <= Len(s) =>
            from(s, Len(p) + 1) \o u = r
      BY <2>3, DropPrefix
    <2> QED
      BY <1>9, <1>10, <2>1, <2>2, <2>4, Zenon
  <1>12. mp'.buffer = b /\ mp'.unread = mp.unread /\ mp'.state = "AFTER_BOUNDARY" /\ mp'.header = mp.header
    BY <1>1, RunsIs
  <1>13. isFile' <=> isFile
    BY <1>12 DEF isFile, mpParsePartHeaders
  <1>14. call' # NoCall /\ (call'.kind = "field" => ~isFile)
         /\ (call'.kind = "file" => /\ isFile /\ call'.data = SubSeq(parts[i].data, k + 1, L)
                                    /\ call'.first = mp.isFirstChunk /\ call'.final)
    BY <1>1, <1>5, <1>7 DEF FileData, Field, NoCall
  <1>15. CallPlace(parts, i, k, L)'
    BY <1>12, <1>13, <1>14, <1>18, Zenon DEF CallPlace
  <1>16. Place(parts, i, k, L)'
    BY <1>3, <1>11, <1>12, <1>15 DEF Place, Stream, r
  <1>17. Position(parts, i, k, L)'
    <2>1. L \in 0 .. LenOf(parts, i) /\ k \in 0 .. L
      BY <1>3
    <2> QED
      BY <1>2, <1>16, <2>1 DEF Position
  <1> QED
    BY <1>1, <1>3, <1>12, <1>13, <1>14, <1>17 DEF Moved, Over

(* What is flushed is data of the part, since the boundary needs more than  *)
(* what is kept back.                                                       *)
LEMMA FlushMoves ==
  ASSUME NEW parts, NEW i, NEW k, Runs(parts, i, k), Flush
  PROVE  \E j2, k2 : Moved(parts, i, k, i, j2, k2)
  <1> DEFINE n == Len(mp.buffer) - Kept(mp.buffer)
             data == SubSeq(mp.buffer, 1, n)
             b == from(mp.buffer, n + 1)
             L == Len(parts[i].data)
             v == from(parts[i].data, k + 1)
             p == SubSeq(parts[i].data, k + 1, k + n)
             w == from(parts[i].data, k + n + 1)
             t == boundaryMarker \o After(parts, i)
  <1>1. /\ mp.state = "BODY" /\ find(mp.buffer, boundaryMarker) = 0 /\ n > 0
        /\ call' = IF isFile THEN FileData(data, FALSE, FALSE) ELSE NoCall
        /\ mp' = [mp EXCEPT !.buffer = b, !.isFirstChunk = mp.isFirstChunk /\ ~isFile,
                            !.fieldValue = IF isFile THEN mp.fieldValue ELSE mp.fieldValue \o data]
    BY DEF Flush
  <1>2. mp.buffer \in Seq(Symbols) /\ mp.unread \in Seq(Symbols) /\ call = NoCall /\ Len(mp.buffer) \in Nat
        /\ i \in 1 .. Len(parts) + 1 /\ Len(parts) \in Nat
    BY RunsIs
  <1>3. /\ i \in 1 .. Len(parts) /\ mp.header = parts[i].header
        /\ LenOf(parts, i) = L /\ L \in Nat /\ k \in 0 .. L /\ k \in Nat /\ parts[i].data \in Seq(Symbols)
        /\ After(parts, i) \in Seq(Symbols)
        /\ mp.buffer \o mp.unread = v \o t
        /\ FirstAt(mp.buffer \o mp.unread, boundaryMarker, L - k + 1)
    <2>1. mp.state = "BODY"
      BY <1>1
    <2>2. Ahead(parts, i, k)
      BY <2>1, DataAhead
    <2> QED
      BY <2>2, Zenon DEF Ahead
  <1>18. isFile => (mp.isFirstChunk <=> k = 0)
    <2>1. mp.state = "BODY"
      BY <1>1
    <2>2. Ahead(parts, i, k)
      BY <2>1, DataAhead
    <2> QED
      BY <2>2, Zenon DEF Ahead
  <1>4. boundaryMarker \in Seq(Symbols) /\ Len(boundaryMarker) = 5
    BY PatternsAreSequences
  <1>5. n \in Nat /\ n = Len(mp.buffer) - 5
    BY <1>1, <1>2, FlushKeeps
  <1>6. t \in Seq(Symbols)
    <2>1. boundaryMarker \in Seq(Symbols) /\ After(parts, i) \in Seq(Symbols)
      BY <1>3, <1>4
    <2> QED
      BY <2>1, ConcatIs
  <1> HIDE DEF n, t, L
  <1>7. n < L - k
    <2>1. Len(mp.buffer) < L - k + 1 + Len(boundaryMarker) - 1
      <3>1. mp.buffer \in Seq(Symbols) /\ mp.unread \in Seq(Symbols) /\ boundaryMarker \in Seq(Symbols)
            /\ FirstAt(mp.buffer \o mp.unread, boundaryMarker, L - k + 1) /\ find(mp.buffer, boundaryMarker) = 0
        BY <1>1, <1>2, <1>3, <1>4
      <3> QED
        BY <3>1, FindInStream
    <2>2. L \in Nat /\ k \in Nat /\ Len(mp.buffer) \in Nat
      BY <1>2, <1>3
    <2> QED
      BY <1>4, <1>5, <2>1, <2>2
  <1>8. k + n \in k .. L /\ k + n \in 0 .. L /\ k + n \in Nat
    <2>1. n > 0 /\ L \in Nat /\ k \in Nat
      BY <1>1, <1>3
    <2> QED
      BY <1>5, <1>7, <2>1
  <1>9. p \in Seq(Symbols) /\ Len(p) = n /\ p \o w = v /\ w \in Seq(Symbols)
    <2>1. parts[i].data \in Seq(Symbols) /\ k \in 0 .. Len(parts[i].data) /\ k + n \in k .. Len(parts[i].data)
      BY <1>3, <1>8 DEF L
    <2>2. p \in Seq(Symbols) /\ Len(p) = (k + n) - k /\ p \o w = v /\ w \in Seq(Symbols)
      BY <2>1, CutSeq
    <2>3. (k + n) - k = n
      BY <1>3, <1>5
    <2> HIDE DEF p
    <2> QED
      BY <2>2, <2>3
  <1> HIDE DEF v, w, p
  <1>10. mp.buffer \o mp.unread = p \o (w \o t) /\ w \o t \in Seq(Symbols)
    <2>1. p \in Seq(Symbols) /\ w \in Seq(Symbols) /\ t \in Seq(Symbols)
      BY <1>3, <1>6, <1>9
    <2>4. mp.buffer \o mp.unread = (p \o w) \o t
      BY <1>3, <1>9
    <2>2. (p \o w) \o t = p \o (w \o t)
      BY <2>1, Associative, Zenon
    <2>3. w \o t \in Seq(Symbols)
      BY <2>1, ConcatIs
    <2> QED
      BY <2>4, <2>2, <2>3
  <1>11. b \o mp.unread = w \o t /\ data = p
    <2>1. mp.buffer \in Seq(Symbols) /\ mp.unread \in Seq(Symbols)
      BY <1>2
    <2>2. Len(p) <= Len(mp.buffer)
      BY <1>2, <1>5, <1>9
    <2>3. p \in Seq(Symbols) /\ w \o t \in Seq(Symbols) /\ mp.buffer \o mp.unread = p \o (w \o t) /\ Len(p) = n
      BY <1>9, <1>10
    <2>4. SubSeq(mp.buffer, 1, Len(p)) = p /\ from(mp.buffer, Len(p) + 1) \o mp.unread = w \o t
      <3> DEFINE r == w \o t
      <3>1. p \in Seq(Symbols) /\ r \in Seq(Symbols)
        BY <2>3
      <3>2. mp.buffer \o mp.unread = p \o r
        BY <2>3
      <3> HIDE DEF r
      <3>4. \A s, u \in Seq(Symbols) : s \o u = p \o r /\ Len(p) <= Len(s)
              => SubSeq(s, 1, Len(p)) = p /\ from(s, Len(p) + 1) \o u = r
        BY <3>1, DropPrefix
      <3>3. SubSeq(mp.buffer, 1, Len(p)) = p /\ from(mp.buffer, Len(p) + 1) \o mp.unread = r
        BY <2>1, <2>2, <3>2, <3>4, Zenon
      <3> QED
        BY <3>3 DEF r
    <2> QED
      BY <2>3, <2>4
  <1> HIDE DEF b, data
  <1>12. /\ mp'.buffer = b /\ mp'.unread = mp.unread /\ mp'.state = "BODY" /\ mp'.header = mp.header
         /\ mp'.isFirstChunk = (mp.isFirstChunk /\ ~isFile)
    BY <1>1, RunsIs
  <1>13. isFile' <=> isFile
    <2>1. mp'.header = mp.header
      BY <1>12
    <2> QED
      BY <2>1 DEF isFile, mpParsePartHeaders
  <1>14. PICK m : m = k + n
    OBVIOUS
  <1>15. m \in Nat /\ m \in 0 .. LenOf(parts, i) /\ k \in 0 .. m /\ m # 0
    <2>1. L \in Nat /\ k \in Nat /\ LenOf(parts, i) = L /\ n > 0
      BY <1>1, <1>3
    <2> QED
      BY <1>5, <1>8, <1>14, <2>1
  <1>19. mp'.buffer \o mp'.unread = LeftOf(parts, i, m)
    BY <1>11, <1>12, <1>14 DEF LeftOf, w, t
  <1>20. mp'.state # "AFTER_BOUNDARY" /\ mp'.state # "PREAMBLE" /\ mp'.state # "HEADER"
         /\ i \in 1 .. Len(parts) /\ mp'.header = parts[i].header
    BY <1>3, <1>12
  <1>16. CASE isFile
    <2>1. /\ call' # NoCall /\ call'.kind = "file" /\ call'.data = SubSeq(parts[i].data, k + 1, m)
          /\ call'.first = mp.isFirstChunk /\ ~call'.final
      BY <1>1, <1>11, <1>14, <1>16 DEF FileData, NoCall, p
    <2>2. CallPlace(parts, i, k, m)'
      <3>1. call'.kind # "field"
        BY <2>1
      <3> QED
        BY <1>13, <1>16, <1>18, <1>20, <2>1, <3>1, Zenon DEF CallPlace
    <2>4. mp'.isFirstChunk <=> m = 0
      BY <1>12, <1>15, <1>16
    <2>5. Place(parts, i, k, m)'
      BY <1>19, <1>20, <2>1, <2>2, <2>4, Zenon DEF Place, Stream
    <2>7. Position(parts, i, k, m)'
      BY <1>2, <1>15, <2>5, Zenon DEF Position
    <2>8. Moved(parts, i, k, i, k, m)
      BY <1>1, <1>12, <1>13, <1>16, <2>7 DEF Moved, Over
    <2> QED
      BY <2>8
  <1>17. CASE ~isFile
    <2>1. call' = NoCall
      BY <1>1, <1>17
    <2>2. CallPlace(parts, i, m, m)'
      BY <2>1 DEF CallPlace, NoCall
    <2>5. Place(parts, i, m, m)'
      BY <1>13, <1>17, <1>19, <1>20, <2>1, <2>2, Zenon DEF Place, Stream
    <2>6. m \in 0 .. m
      BY <1>15
    <2>7. Position(parts, i, m, m)'
      BY <1>2, <1>15, <2>5, <2>6, Zenon DEF Position
    <2>8. Moved(parts, i, k, i, m, m)
      BY <1>1, <1>12, <1>13, <1>17, <2>7 DEF Moved, Over
    <2> QED
      BY <2>8
  <1> QED
    BY <1>16, <1>17

(* The end of the body, after its last part, is where the parser stops.     *)
BodyDone(parts, i) == mp'.state = "DONE" /\ mp'.ret = "OK" /\ call' = NoCall /\ Over(i) = Len(parts)

(* Behind the data of a part are two symbols, which say whether it was the  *)
(* last one.                                                                *)
LEMMA EndingIs ==
  ASSUME NEW parts \in Seq(BodyParts), NEW i \in 1 .. Len(parts)
  PROVE  \E p, e \in Seq(Symbols) :
           /\ p = (IF i = Len(parts) THEN <<"-", "-">> ELSE <<"r", "n">>) /\ Len(p) = 2
           /\ After(parts, i) = p \o e
           /\ i # Len(parts) => e = Rest(parts, i + 1)
  <1>1. "r" \in Symbols /\ "n" \in Symbols /\ "-" \in Symbols
    BY MultipartAssumption
  <1>2. /\ <<"-", "-">> \in Seq(Symbols) /\ <<"r", "n">> \in Seq(Symbols)
        /\ Len(<<"-", "-">>) = 2 /\ Len(<<"r", "n">>) = 2
    BY <1>1
  <1>3. Rest(parts, i + 1) \in Seq(Symbols)
    <2>1. i + 1 \in 1 .. Len(parts) + 1
      OBVIOUS
    <2> QED
      BY <2>1, RestsAre
  <1>4. CASE i = Len(parts)
    <2> DEFINE d == <<"-", "-">>
               c == <<"r", "n">>
               r == Rest(parts, i + 1)
    <2>1. Ending(parts, i) = d \o c
      BY <1>4 DEF Ending
    <2>2. d \in Seq(Symbols) /\ c \in Seq(Symbols) /\ r \in Seq(Symbols)
      BY <1>2, <1>3
    <2>3. After(parts, i) = (d \o c) \o r
      BY <2>1 DEF After
    <2> HIDE DEF d, c, r
    <2>4. (d \o c) \o r = d \o (c \o r)
      BY <2>2, Associative, Zenon
    <2>5. c \o r \in Seq(Symbols)
      BY <2>2, ConcatIs
    <2> QED
      BY <1>2, <1>4, <2>2, <2>3, <2>4, <2>5 DEF d
  <1>5. CASE i # Len(parts)
    <2>1. After(parts, i) = <<"r", "n">> \o Rest(parts, i + 1)
      BY <1>5 DEF After, Ending
    <2> QED
      BY <1>2, <1>3, <1>5, <2>1, Zenon
  <1> QED
    BY <1>4, <1>5

(* They lead to the next header, or to the end of the body.                 *)
LEMMA AfterBoundaryMoves ==
  ASSUME NEW parts, NEW i, NEW k, Runs(parts, i, k), AfterBoundary
  PROVE  BodyDone(parts, i) \/ (mp'.state # "DONE" /\ Moved(parts, i, k, i + 1, 0, 0))
  <1>1. /\ mp.state = "AFTER_BOUNDARY" /\ Len(mp.buffer) >= 2 /\ call' = call
        /\ mp' = IF SubSeq(mp.buffer, 1, 2) = <<"-", "-">>
                 THEN [mp EXCEPT !.state = "DONE", !.ret = "OK"]
                 ELSE [mp EXCEPT !.state = "HEADER", !.buffer = from(mp.buffer, 3)]
    BY DEF AfterBoundary
  <1>2. mp.buffer \in Seq(Symbols) /\ mp.unread \in Seq(Symbols) /\ call = NoCall /\ Len(mp.buffer) \in Nat
        /\ i \in 1 .. Len(parts) + 1 /\ Len(parts) \in Nat /\ parts \in Seq(BodyParts)
    BY RunsIs
  <1>3. i \in 1 .. Len(parts) /\ mp.buffer \o mp.unread = After(parts, i)
    BY <1>1, RunsIs DEF Place, Stream
  <1>4. PICK p, e \in Seq(Symbols) :
           /\ p = (IF i = Len(parts) THEN <<"-", "-">> ELSE <<"r", "n">>) /\ Len(p) = 2
           /\ After(parts, i) = p \o e
           /\ i # Len(parts) => e = Rest(parts, i + 1)
    BY <1>2, <1>3, EndingIs
  <1>5. SubSeq(mp.buffer, 1, 2) = p /\ from(mp.buffer, 3) \o mp.unread = e
    <2>1. mp.buffer \o mp.unread = p \o e
      BY <1>3, <1>4
    <2>2. mp.buffer \in Seq(Symbols) /\ mp.unread \in Seq(Symbols) /\ Len(p) <= Len(mp.buffer)
      BY <1>1, <1>2, <1>4
    <2>4. p \in Seq(Symbols) /\ e \in Seq(Symbols)
      BY <1>4
    <2> DEFINE s == mp.buffer
               u == mp.unread
    <2>6. s \in Seq(Symbols) /\ u \in Seq(Symbols) /\ s \o u = p \o e /\ Len(p) <= Len(s)
      BY <2>1, <2>2
    <2> HIDE DEF s, u
    <2>3. SubSeq(s, 1, Len(p)) = p /\ from(s, Len(p) + 1) \o u = e
      BY <2>4, <2>6, DropPrefix
    <2>5. Len(p) = 2 /\ Len(p) + 1 = 3
      BY <1>4
    <2> QED
      BY <2>3, <2>5, Zenon DEF s, u
  <1>6. CASE i = Len(parts)
    <2>1. mp' = [mp EXCEPT !.state = "DONE", !.ret = "OK"]
      BY <1>1, <1>4, <1>5, <1>6
    <2>2. mp'.state = "DONE" /\ mp'.ret = "OK"
      BY <2>1, RunsIs
    <2> QED
      BY <1>1, <1>2, <1>6, <2>2 DEF BodyDone, Over
  <1>7. CASE i # Len(parts)
    <2>1. SubSeq(mp.buffer, 1, 2) = <<"r", "n">> /\ <<"r", "n">> # <<"-", "-">>
      <3>1. <<"r", "n">>[1] # <<"-", "-">>[1]
        OBVIOUS
      <3> QED
        BY <1>4, <1>5, <1>7, <3>1
    <2>2. mp' = [mp EXCEPT !.state = "HEADER", !.buffer = from(mp.buffer, 3)]
      BY <1>1, <2>1
    <2>3. mp'.state = "HEADER" /\ mp'.buffer = from(mp.buffer, 3) /\ mp'.unread = mp.unread
      BY <2>2, RunsIs
    <2>4. mp'.buffer \o mp'.unread = Rest(parts, i + 1)
      BY <1>4, <1>5, <1>7, <2>3
    <2>5. PICK m : m = i + 1
      OBVIOUS
    <2>6. m \in 1 .. Len(parts) /\ m \in 1 .. Len(parts) + 1 /\ m - 1 = i
      BY <1>2, <1>3, <1>7, <2>5
    <2>7. LenOf(parts, m) \in Nat
      BY <2>6, SentIs DEF Runs
    <2>8. Position(parts, m, 0, 0)'
      <3>1. CallPlace(parts, m, 0, 0)'
        BY <1>1, <1>2 DEF CallPlace, NoCall
      <3>2. mp'.state = "HEADER" /\ call' = NoCall /\ mp'.buffer \o mp'.unread = Rest(parts, m)
        BY <1>1, <1>2, <2>3, <2>4, <2>5
      <3>3. Place(parts, m, 0, 0)'
        BY <2>6, <3>1, <3>2 DEF Place, Stream
      <3>4. 0 \in 0 .. LenOf(parts, m) /\ 0 \in 0 .. 0
        BY <2>7
      <3> QED
        BY <2>6, <3>3, <3>4 DEF Position
    <2>9. Over(m)' = Over(i)
      BY <1>1, <1>2, <2>3, <2>6 DEF Over
    <2>10. Moved(parts, i, k, m, 0, 0)
      BY <1>1, <2>8, <2>9 DEF Moved
    <2> QED
      BY <2>3, <2>5, <2>10
  <1> QED
    BY <1>6, <1>7

(* A piece that arrives moves from what is unread to the buffer.            *)
LEMMA ReceiveMoves ==
  ASSUME NEW parts, NEW i, NEW k, Runs(parts, i, k), Receive
  PROVE  Moved(parts, i, k, i, k, k)
  <1>1. PICK n \in 1 .. Min({READ_SZ, Len(mp.unread)}) :
          mp' = [mp EXCEPT !.buffer = mp.buffer \o SubSeq(mp.unread, 1, n),
                           !.unread = from(mp.unread, n + 1)]
    BY DEF Receive
  <1>2. mp.buffer \in Seq(Symbols) /\ mp.unread \in Seq(Symbols) /\ call = NoCall /\ Len(mp.unread) \in Nat
        /\ i \in 1 .. Len(parts) + 1 /\ k \in 0 .. LenOf(parts, i) /\ k \in Nat
        /\ Place(parts, i, k, k)
    BY RunsIs
  <1>3. n \in 0 .. Len(mp.unread)
    <2>1. READ_SZ \in Int /\ Len(mp.unread) \in Int
      BY <1>2, MultipartAssumption
    <2>2. Min({READ_SZ, Len(mp.unread)}) \in {READ_SZ, Len(mp.unread)}
          /\ Min({READ_SZ, Len(mp.unread)}) <= Len(mp.unread)
      BY <2>1, SetMin, Zenon
    <2>3. Min({READ_SZ, Len(mp.unread)}) \in Int
      BY <2>1, <2>2
    <2> QED
      BY <1>2, <2>2, <2>3
  <1> DEFINE s == mp.buffer
             u == mp.unread
             a == SubSeq(u, 1, n)
             b == from(u, n + 1)
  <1>4. a \o b = u /\ a \in Seq(Symbols) /\ b \in Seq(Symbols)
    <2>1. 0 \in 0 .. Len(u) /\ n \in 0 .. Len(u) /\ u \in Seq(Symbols)
      BY <1>2, <1>3
    <2>2. /\ SubSeq(u, 0 + 1, n) \o from(u, n + 1) = from(u, 0 + 1)
          /\ SubSeq(u, 0 + 1, n) \in Seq(Symbols) /\ from(u, n + 1) \in Seq(Symbols)
      BY <2>1, CutSeq
    <2>3. from(u, 1) = u
      BY <1>2, SubSeqFull DEF from
    <2> QED
      BY <2>2, <2>3
  <1>5. s \in Seq(Symbols)
    BY <1>2
  <1>6. mp'.buffer = s \o a /\ mp'.unread = b /\ mp'.state = mp.state /\ mp'.header = mp.header
        /\ mp'.isFirstChunk = mp.isFirstChunk
    BY <1>1, RunsIs
  <1> HIDE DEF s, u, a, b
  <1>7. Stream' = Stream
    <2>4. s \in Seq(Symbols) /\ a \in Seq(Symbols) /\ b \in Seq(Symbols)
      BY <1>4, <1>5
    <2>1. (s \o a) \o b = s \o (a \o b)
      BY <2>4, Associative, Zenon
    <2>2. Stream' = (s \o a) \o b
      BY <1>6 DEF Stream
    <2>3. Stream = s \o u
      BY DEF Stream, s, u
    <2> QED
      BY <1>4, <2>1, <2>2, <2>3
  <1>8. call' = call /\ (isFile' <=> isFile)
    BY <1>6 DEF Receive, isFile, mpParsePartHeaders
  <1>9. CallPlace(parts, i, k, k)'
    BY <1>2, <1>8 DEF CallPlace, NoCall
  <1>10. Place(parts, i, k, k)'
    BY <1>2, <1>6, <1>7, <1>8, <1>9, Zenon DEF Place
  <1>11. k \in 0 .. k
    BY <1>2
  <1>12. Position(parts, i, k, k)'
    BY <1>2, <1>10, <1>11, Zenon DEF Position
  <1>13. Over(i)' = Over(i)
    BY <1>6, <1>8 DEF Over
  <1> QED
    BY <1>8, <1>12, <1>13, Zenon DEF Moved

(* A pattern that a buffer has is found in it.                              *)
LEMMA FoundInAll ==
  ASSUME NEW s \in Seq(Symbols), NEW pat \in Seq(Symbols), NEW p, FirstAt(s, pat, p)
  PROVE  find(s, pat) # 0
  BY FindIsFirst DEF FirstAt

(* When all of a body has been read the parser is not left in the middle of *)
(* it: what is missing was cut off with the connection.                     *)
LEMMA EndIsDone ==
  ASSUME NEW parts, NEW i, NEW k, Runs(parts, i, k), EndOfStream, ~mp.eof
  PROVE  BodyDone(parts, i)
  <1>1. /\ ~Progress /\ mp.unread = <<>> /\ mp' = [mp EXCEPT !.state = "DONE", !.ret = "OK"]
        /\ mp.state # "BODY" => call' = NoCall
    BY DEF EndOfStream, Starved
  <1>2. mp.buffer \in Seq(Symbols) /\ call = NoCall /\ Len(mp.buffer) \in Nat
        /\ i \in 1 .. Len(parts) + 1 /\ Len(parts) \in Nat /\ parts \in Seq(BodyParts)
        /\ mp.state \in {"PREAMBLE", "HEADER", "BODY", "AFTER_BOUNDARY"}
    BY RunsIs
  <1>3. mp.buffer \o mp.unread = mp.buffer
    BY <1>1, <1>2, ConcatEmptySeq
  <1>4. mp.state # "PREAMBLE"
    <2> SUFFICES ASSUME mp.state = "PREAMBLE" PROVE FALSE
      OBVIOUS
    <2>1. mp.buffer = firstBoundary \o Rest(parts, 1)
      BY <1>3, RunsIs DEF Place, Stream
    <2>2. firstBoundary \in Seq(Symbols) /\ Rest(parts, 1) \in Seq(Symbols)
      <3>1. 1 \in 1 .. Len(parts) + 1
        BY <1>2
      <3> QED
        BY <1>2, <3>1, RestsAre, PatternsAreSequences
    <2>3. FirstAt(mp.buffer, firstBoundary, 1)
      BY <2>1, <2>2, FirstInFront
    <2>4. find(mp.buffer, firstBoundary) # 0
      BY <1>2, <2>2, <2>3, FoundInAll
    <2> QED
      BY <1>1, <2>4 DEF Progress
  <1>5. mp.state = "HEADER" => Len(parts) = 0
    <2> SUFFICES ASSUME mp.state = "HEADER", i \in 1 .. Len(parts) PROVE FALSE
      BY RunsIs DEF Place
    <2> DEFINE h == parts[i].header
               r == parts[i].data \o (boundaryMarker \o After(parts, i))
    <2>1. mp.buffer = Rest(parts, i)
      BY <1>3, RunsIs DEF Place, Stream
    <2>2. Rest(parts, i) = <<h>> \o (headerEnd \o r)
      BY <1>2, RestIs
    <2>3. h \in Symbols /\ r \in Seq(Symbols)
      <3>1. h \in Symbols /\ parts[i].data \in Seq(Symbols) /\ After(parts, i) \in Seq(Symbols)
        BY SentIs DEF Runs
      <3>2. boundaryMarker \o After(parts, i) \in Seq(Symbols)
        BY <3>1, PatternsAreSequences, ConcatIs
      <3> QED
        BY <3>1, <3>2, ConcatIs
    <2>4. FirstAt(mp.buffer, headerEnd, 2)
      <3> HIDE DEF h, r
      <3> QED
        BY <2>1, <2>2, <2>3, FirstAfterHeader
    <2>5. find(mp.buffer, headerEnd) # 0
      BY <1>2, <2>4, PatternsAreSequences, FoundInAll
    <2> QED
      BY <1>1, <2>5 DEF Progress
  <1>6. mp.state # "BODY"
    <2> SUFFICES ASSUME mp.state = "BODY" PROVE FALSE
      OBVIOUS
    <2>1. Ahead(parts, i, k)
      BY DataAhead
    <2>2. FirstAt(mp.buffer, boundaryMarker, Len(parts[i].data) - k + 1)
      <3>1. FirstAt(mp.buffer \o mp.unread, boundaryMarker, Len(parts[i].data) - k + 1)
        BY <2>1, Zenon DEF Ahead
      <3> QED
        BY <1>3, <3>1, Zenon
    <2>3. find(mp.buffer, boundaryMarker) # 0
      BY <1>2, <2>2, PatternsAreSequences, FoundInAll
    <2> QED
      BY <1>1, <2>3 DEF Progress
  <1>7. mp.state # "AFTER_BOUNDARY"
    <2> SUFFICES ASSUME mp.state = "AFTER_BOUNDARY" PROVE FALSE
      OBVIOUS
    <2>1. i \in 1 .. Len(parts) /\ mp.buffer = After(parts, i)
      BY <1>3, RunsIs DEF Place, Stream
    <2>2. PICK p, e \in Seq(Symbols) :
           /\ p = (IF i = Len(parts) THEN <<"-", "-">> ELSE <<"r", "n">>) /\ Len(p) = 2
           /\ After(parts, i) = p \o e
           /\ i # Len(parts) => e = Rest(parts, i + 1)
      BY <1>2, <2>1, EndingIs
    <2>3. Len(p \o e) = Len(p) + Len(e) /\ Len(e) \in Nat
      BY ConcatIs
    <2>4. Len(mp.buffer) >= 2
      BY <2>1, <2>2, <2>3
    <2> QED
      BY <1>1, <2>4 DEF Progress
  <1>8. mp.state = "HEADER" /\ Len(parts) = 0 /\ i = 1
    BY <1>2, <1>4, <1>5, <1>6, <1>7
  <1>9. mp'.state = "DONE" /\ mp'.ret = "OK"
    BY <1>1, RunsIs
  <1> QED
    BY <1>1, <1>8, <1>9 DEF BodyDone, Over

(* The parser is in the first part of nothing when a request begins.        *)
LEMMA BodyBegins ==
  ASSUME NEW parts, Sent(parts), call' = NoCall,
         mp' = [Idle EXCEPT !.state = "PREAMBLE", !.unread = Body(parts)]
  PROVE  Position(parts, 1, 0, 0)'
  <1>1. parts \in Seq(BodyParts) /\ Len(parts) \in Nat
    BY DEF Sent
  <1>2. Rest(parts, 1) \in Seq(Symbols) /\ Body(parts) = firstBoundary \o Rest(parts, 1)
    <2>1. 1 \in 1 .. Len(parts) + 1
      BY <1>1
    <2> QED
      BY <1>1, <2>1, RestsAre, BodyIs
  <1>3. mp'.state = "PREAMBLE" /\ mp'.buffer = <<>> /\ mp'.unread = Body(parts)
    BY DEF Idle
  <1>4. firstBoundary \o Rest(parts, 1) \in Seq(Symbols)
    BY <1>2, PatternsAreSequences, ConcatIs
  <1>5. mp'.buffer \o mp'.unread = firstBoundary \o Rest(parts, 1)
    <2> DEFINE w == firstBoundary \o Rest(parts, 1)
    <2>1. w \in Seq(Symbols)
      BY <1>4
    <2> HIDE DEF w
    <2>2. <<>> \o w = w
      BY <2>1, ConcatEmptySeq
    <2> QED
      BY <1>2, <1>3, <2>2 DEF w
  <1>6. CallPlace(parts, 1, 0, 0)'
    BY DEF CallPlace, NoCall
  <1>7. Place(parts, 1, 0, 0)'
    BY <1>3, <1>5, <1>6 DEF Place, Stream
  <1>8. LenOf(parts, 1) \in Nat
    <2>1. CASE 1 \in 1 .. Len(parts)
      BY <2>1, SentIs
    <2>2. CASE 1 \notin 1 .. Len(parts)
      BY <2>2 DEF LenOf
    <2> QED
      BY <2>1, <2>2
  <1>9. 1 \in 1 .. Len(parts) + 1 /\ 0 \in 0 .. LenOf(parts, 1) /\ 0 \in 0 .. 0
    BY <1>1, <1>8
  <1> QED
    BY <1>7, <1>9 DEF Position

(* Nothing moves the parser but its own steps.                              *)
LEMMA PositionKept ==
  ASSUME NEW parts, NEW i, NEW j, NEW k, Position(parts, i, j, k), call' = call,
         mp'.state = mp.state, mp'.buffer = mp.buffer, mp'.unread = mp.unread,
         mp'.header = mp.header, mp'.isFirstChunk = mp.isFirstChunk
  PROVE  /\ Position(parts, i, j, k)' /\ Over(i)' = Over(i)
         /\ (isFile' <=> isFile) /\ (Active' <=> Active)
  <1>1. isFile' <=> isFile
    BY DEF isFile, mpParsePartHeaders
  <1>2. CallPlace(parts, i, j, k)'
    BY <1>1, Zenon DEF CallPlace, Position, Place
  <1>3. Place(parts, i, j, k)'
    BY <1>1, <1>2, Zenon DEF Place, Position, Stream
  <1>4. Position(parts, i, j, k)'
    BY <1>3, Zenon DEF Position
  <1> QED
    BY <1>1, <1>4, Zenon DEF Over, Active

(* The callback returns: what it was given is passed on.                    *)
LEMMA ReturnedMoves ==
  ASSUME NEW parts, NEW i, NEW j, NEW k, Position(parts, i, j, k), Sent(parts),
         mp' = mp, call' = NoCall, mp.state \in {"BODY", "AFTER_BOUNDARY"}
  PROVE  /\ Position(parts, i, k, k)' /\ (isFile' <=> isFile)
         /\ Over(i)' = IF mp.state = "AFTER_BOUNDARY" THEN i ELSE i - 1
  <1>1. isFile' <=> isFile
    BY DEF isFile, mpParsePartHeaders
  <1>2. Place(parts, i, j, k) /\ i \in 1 .. Len(parts) + 1 /\ k \in 0 .. LenOf(parts, i)
    BY DEF Position
  <1>3. CallPlace(parts, i, k, k)'
    BY DEF CallPlace, NoCall
  <1>4. Place(parts, i, k, k)'
    BY <1>1, <1>2, <1>3 DEF Place, Stream
  <1>5. k \in 0 .. k
    <2>1. i \in 1 .. Len(parts)
      BY <1>2 DEF Place
    <2>2. LenOf(parts, i) \in Nat
      BY <2>1, SentIs
    <2> QED
      BY <1>2, <2>2
  <1>6. Position(parts, i, k, k)'
    BY <1>2, <1>4, <1>5, Zenon DEF Position
  <1>7. Over(i)' = IF mp.state = "AFTER_BOUNDARY" THEN i ELSE i - 1
    BY DEF Over
  <1> QED
    BY <1>1, <1>6, <1>7

(* Wherever the network cuts a body, the parser is in one of its parts, or  *)
(* it is done with all of them, or the connection was lost.                 *)
LEMMA ParserMoves ==
  ASSUME NEW parts, NEW i, NEW k, Runs(parts, i, k), ParserStep \/ Receive
  PROVE  \/ mp'.state = "DONE" /\ mp.eof
         \/ BodyDone(parts, i)
         \/ mp'.state # "DONE" /\ \E i2, j2, k2 : Moved(parts, i, k, i2, j2, k2)
  <1>8. ASSUME FindFirstBoundary \/ ParseHeader \/ FindBoundary \/ Flush \/ Receive
        PROVE  mp'.state # "DONE"
    BY <1>8, RunsIs DEF FindFirstBoundary, ParseHeader, FindBoundary, Flush, Receive
  <1>1. CASE FindFirstBoundary
    BY <1>1, <1>8, FirstBoundaryMoves, Zenon
  <1>2. CASE ParseHeader
    BY <1>2, <1>8, HeaderMoves, Zenon
  <1>3. CASE FindBoundary
    BY <1>3, <1>8, BoundaryMoves, Zenon
  <1>4. CASE Flush
    BY <1>4, <1>8, FlushMoves, Zenon
  <1>5. CASE AfterBoundary
    BY <1>5, AfterBoundaryMoves, Zenon
  <1>6. CASE EndOfStream
    <2>1. mp' = [mp EXCEPT !.state = "DONE", !.ret = "OK"]
      BY <1>6 DEF EndOfStream
    <2>2. mp'.state = "DONE"
      BY <2>1, RunsIs
    <2> QED
      BY <1>6, <2>2, EndIsDone, Zenon
  <1>7. CASE Receive
    BY <1>7, <1>8, ReceiveMoves, Zenon
  <1> QED
    BY <1>1, <1>2, <1>3, <1>4, <1>5, <1>6, <1>7 DEF ParserStep

-----------------------------------------------------------------------------
(* The update                                                               *)

UpTo(parts, i, j) == SubSeq(parts[i].data, 1, j)

(* While a handler runs there is a request that it serves.                  *)
RequestInv == IF handler.pc = "none" THEN request = NoRequest ELSE request \in Requests

(* What was flashed of the file that is coming in; what boots next is that  *)
(* of a file that is over.                                                  *)
PartFlashed(parts, i, j) ==
  /\ j > 0 /\ isFile /\ Over(i) < i => ota.image = UpTo(parts, i, j)
  /\ ota.boot = "update" => \A p \in 1 .. Len(parts) : FileAt(parts, p) => p <= Over(i)

Stage(parts) ==
  \E i, j, k : Position(parts, i, j, k) /\ (request.kind = "ota" => PartFlashed(parts, i, j))

BodyStage == Active => Stage(request.parts)

BodyInv ==
  /\ mp.eof => disturbed
  /\ call # NoCall /\ mp.state = "DONE" => disturbed /\ mp.ret = "OK"
  /\ mp.state = "IDLE" <=> handler.pc = "none"
  /\ handler.pc = "answered" => mp.state = "DONE"
  /\ handler.pc = "answered" /\ handler.answer = "ok" => ~handler.error /\ mp.ret = "OK"
  /\ handler.pc \in Storing => call.kind = "file" /\ request.kind = "upload"
  /\ RequestInv

(* The image that boots next was validated, and nothing touches it.         *)
Boots ==
  ota.boot = "update" =>
    /\ request.kind = "ota" /\ ota.image \in ValidImages
    /\ handler.pc \in {"parsing", "answered"} /\ ~handler.error
    /\ handler.pc = "answered" => handler.answer = "ok"
    /\ mp.state = "DONE" => mp.ret = "OK"
    /\ call.kind # "file"
    /\ ~disturbed => \E i \in FileParts(request) : ota.image = request.parts[i].data

FlashInv == BodyInv /\ BodyStage /\ Boots

(* A request of an orderly client is one that the lemmas about the parser   *)
(* are about.                                                               *)
LEMMA RequestIsSent ==
  ASSUME OrderlyRequests, NEW r \in Requests
  PROVE  /\ Orderly(r) /\ Sent(r.parts) /\ r.kind \in {"upload", "ota"}
         /\ r.parts \in Seq(BodyParts)
         /\ FileParts(r) = {i \in 1 .. Len(r.parts) : FileAt(r.parts, i)}
  <1>1. Orderly(r)
    BY DEF OrderlyRequests
  <1>2. r.parts \in Seq(BodyParts) /\ r.kind \in {"upload", "ota"}
    BY UploadsAssumption DEF BodyParts
  <1>3. \A i \in 1 .. Len(r.parts) : BoundaryFree(r.parts[i].data)
    BY <1>1, <1>2 DEF Orderly
  <1>4. DOMAIN r.parts = 1 .. Len(r.parts)
    BY <1>2
  <1>5. FileParts(r) = {i \in 1 .. Len(r.parts) : FileAt(r.parts, i)}
    BY <1>4 DEF FileParts, FileAt
  <1> QED
    BY <1>1, <1>2, <1>3, <1>5 DEF Sent

(* So is the one that is served.                                            *)
LEMMA ThisIsSent ==
  ASSUME OrderlyRequests, RequestInv, handler.pc # "none"
  PROVE  /\ request \in Requests /\ Orderly(request) /\ Sent(request.parts)
         /\ request.kind \in {"upload", "ota"}
         /\ FileParts(request) = {i \in 1 .. Len(request.parts) : FileAt(request.parts, i)}
  BY RequestIsSent DEF RequestInv

(* Every step of the parser                                                 *)
LEMMA ParserSaves ==
  ASSUME IInv, ParserStep \/ Receive
  PROVE  /\ Parsing /\ call = NoCall
         /\ mp'.eof = mp.eof /\ mp'.state # "IDLE"
         /\ mp'.state = "DONE" => mp'.ret = "OK"
         /\ call'.kind = "file" => mp.state = "BODY" /\ isFile
         /\ EndOfStream \/ call' = NoCall \/ mp'.state # "DONE"
  <1>1. Parsing /\ call = NoCall
    BY DEF ParserStep, FindFirstBoundary, ParseHeader, FindBoundary, Flush, AfterBoundary,
           EndOfStream, Receive, Starved, Parsing
  <1>2. mp = [state |-> mp.state, buffer |-> mp.buffer, unread |-> mp.unread,
              header |-> mp.header, isFirstChunk |-> mp.isFirstChunk,
              fieldValue |-> mp.fieldValue, eof |-> mp.eof, ret |-> mp.ret]
        /\ mp.state \notin {"IDLE", "DONE"}
    BY <1>1 DEF IInv, ParserType, Parsing
  <1>3. CASE FindFirstBoundary \/ ParseHeader \/ Receive
    <2>1. call' = call /\ mp'.eof = mp.eof /\ mp'.state \notin {"IDLE", "DONE"}
      BY <1>2, <1>3 DEF FindFirstBoundary, ParseHeader, Receive
    <2> QED
      BY <1>1, <1>2, <2>1 DEF NoCall
  <1>7. CASE AfterBoundary
    <2>1. call' = call /\ mp'.eof = mp.eof /\ mp'.state \in {"HEADER", "DONE"}
          /\ (mp'.state = "DONE" => mp'.ret = "OK")
      BY <1>2, <1>7 DEF AfterBoundary
    <2> QED
      BY <1>1, <1>2, <2>1 DEF NoCall
  <1>4. CASE FindBoundary
    BY <1>1, <1>2, <1>4 DEF FindBoundary, Field
  <1>5. CASE Flush
    BY <1>1, <1>2, <1>5 DEF Flush, NoCall
  <1>6. CASE EndOfStream
    BY <1>1, <1>2, <1>6 DEF EndOfStream, NoCall, Field
  <1> QED
    BY <1>3, <1>4, <1>5, <1>6, <1>7 DEF ParserStep

(* Wherever a callback is called, its part is not over.                     *)
LEMMA PlaceOfCall ==
  ASSUME NEW parts, Sent(parts), NEW i, NEW j, NEW k, Position(parts, i, j, k),
         mp.state \in {"BODY", "AFTER_BOUNDARY"}
  PROVE  /\ i \in 1 .. Len(parts) /\ Len(parts) \in Nat /\ i \in Nat
         /\ j \in 0 .. k /\ k \in 0 .. Len(parts[i].data) /\ Len(parts[i].data) \in Nat
         /\ parts[i].data \in Seq(Symbols)
         /\ isFile <=> FileAt(parts, i)
         /\ call # NoCall => Over(i) = i - 1
         /\ mp.state = "BODY" => Over(i) = i - 1
         /\ mp.state = "AFTER_BOUNDARY" => k = Len(parts[i].data)
         /\ CallPlace(parts, i, j, k)
  <1>1. Place(parts, i, j, k) /\ i \in 1 .. Len(parts) /\ mp.header = parts[i].header
    BY DEF Position, Place
  <1>2. /\ LenOf(parts, i) = Len(parts[i].data) /\ Len(parts[i].data) \in Nat /\ Len(parts) \in Nat
        /\ parts[i].data \in Seq(Symbols)
    BY <1>1, SentIs
  <1>3. isFile <=> FileAt(parts, i)
    BY <1>1 DEF isFile, FileAt, mpParsePartHeaders
  <1>4. CallPlace(parts, i, j, k) /\ (mp.state = "AFTER_BOUNDARY" => k = Len(parts[i].data))
    BY <1>1, <1>2 DEF Place
  <1>5. j \in 0 .. k /\ k \in 0 .. Len(parts[i].data)
    BY <1>2 DEF Position
  <1> QED
    BY <1>1, <1>2, <1>3, <1>4, <1>5 DEF Over

(* At the start nothing is flashed and nothing boots.                       *)
LEMMA InitFlashInv == InitUploads => IInv /\ FlashInv
  <1> SUFFICES ASSUME InitUploads PROVE FlashInv
    BY InitIInv
  <1>1. /\ mp = Idle /\ call = NoCall /\ handler = NoHandler /\ request = NoRequest
        /\ ota = [open |-> FALSE, image |-> <<>>, boot |-> "running"]
    BY DEF InitUploads
  <1> QED
    BY <1>1 DEF FlashInv, BodyInv, BodyStage, Boots, Active, RequestInv, Idle, NoHandler, Storing

(* A request begins before its first part.                                  *)
LEMMA BeginFlashInv ==
  ASSUME OrderlyRequests, IInv, FlashInv, Begin
  PROVE  FlashInv'
  <1>1. PICK r \in Requests : request' = r /\ Parse(Body(r.parts), r.boundary)
    BY DEF Begin
  <1>2. handler.pc = "none" /\ handler' = [NoHandler EXCEPT !.pc = "parsing"] /\ disturbed' = FALSE
        /\ call' = call /\ ota' = ota
    BY DEF Begin
  <1>3. call' = NoCall /\ ota.boot # "update"
    BY <1>2 DEF IInv, CallInv, FlashInv, Boots
  <1>4. handler'.pc = "parsing" /\ handler'.error = FALSE
    BY <1>2 DEF NoHandler
  <1>5. mp'.state \in {"PREAMBLE", "DONE"} /\ mp'.eof = FALSE
    BY <1>1 DEF Parse, Idle
  <1>6. RequestInv'
    BY <1>1, <1>4 DEF RequestInv
  <1>7. BodyInv'
    BY <1>2, <1>3, <1>4, <1>5, <1>6 DEF BodyInv, Storing
  <1>8. Boots'
    BY <1>2, <1>3 DEF Boots
  <1>9. BodyStage'
    <2>1. CASE r.boundary
      <3>1. mp' = [Idle EXCEPT !.state = "PREAMBLE", !.unread = Body(r.parts)]
        BY <1>1, <2>1 DEF Parse
      <3>2. Sent(r.parts)
        BY <1>1, <1>4, <1>6, RequestIsSent
      <3>3. Position(r.parts, 1, 0, 0)'
        BY <1>3, <3>1, <3>2, BodyBegins
      <3>4. (request.kind = "ota" => PartFlashed(r.parts, 1, 0))'
        BY <1>2, <1>3 DEF PartFlashed
      <3> QED
        BY <1>1, <3>3, <3>4, Zenon DEF BodyStage, Stage
    <2>2. CASE ~r.boundary
      <3>1. mp'.state = "DONE"
        BY <1>1, <2>2 DEF Parse, Idle
      <3> QED
        BY <3>1 DEF BodyStage, Active
    <2> QED
      BY <2>1, <2>2
  <1> QED
    BY <1>7, <1>8, <1>9 DEF FlashInv

(* The parser goes from place to place in the body and leaves the update    *)
(* alone.                                                                   *)
LEMMA ParserFlashInv ==
  ASSUME OrderlyRequests, IInv, FlashInv, Parser
  PROVE  FlashInv'
  <1>1. handler.pc = "parsing" /\ (ParserStep \/ Receive) /\ UNCHANGED <<handler, request, ota, disturbed>>
    BY DEF Parser
  <1>2. /\ Parsing /\ call = NoCall
        /\ mp'.eof = mp.eof /\ mp'.state # "IDLE"
        /\ mp'.state = "DONE" => mp'.ret = "OK"
        /\ call'.kind = "file" => mp.state = "BODY" /\ isFile
        /\ EndOfStream \/ call' = NoCall \/ mp'.state # "DONE"
    BY <1>1, ParserSaves
  <1>3. PICK parts : parts = request.parts
    OBVIOUS
  <1>4. Sent(parts) /\ request'.parts = parts
    BY <1>1, <1>3, ThisIsSent DEF FlashInv, BodyInv
  <1>5. Active
    BY <1>2 DEF Parsing, Active
  <1>6. PICK i, k : Position(parts, i, k, k) /\ (request.kind = "ota" => PartFlashed(parts, i, k))
    <2>1. PICK i, j, k : Position(parts, i, j, k) /\ (request.kind = "ota" => PartFlashed(parts, i, j))
      BY <1>3, <1>5 DEF FlashInv, BodyStage, Stage
    <2>2. j = k
      BY <1>2, <2>1 DEF Position, Place, CallPlace
    <2> QED
      BY <2>1, <2>2
  <1>7. Runs(parts, i, k)
    BY <1>1, <1>2, <1>4, <1>6 DEF Runs
  <1>8. \/ mp'.state = "DONE" /\ mp.eof
        \/ BodyDone(parts, i)
        \/ mp'.state # "DONE" /\ \E i2, j2, k2 : Moved(parts, i, k, i2, j2, k2)
    BY <1>1, <1>7, ParserMoves
  <1>9. BodyInv'
    <2>1. call' # NoCall /\ mp'.state = "DONE" => disturbed /\ mp'.ret = "OK"
      <3>1. CASE EndOfStream
        BY <1>2, <1>7, <3>1, EndIsDone DEF BodyDone, FlashInv, BodyInv
      <3> QED
        BY <1>2, <3>1
    <2>2. RequestInv'
      BY <1>1 DEF FlashInv, BodyInv, RequestInv
    <2> QED
      BY <1>1, <1>2, <2>1, <2>2 DEF FlashInv, BodyInv, Parsing, Storing
  <1>10. ota.boot = "update" => call'.kind # "file"
    <2> SUFFICES ASSUME ota.boot = "update", mp.state = "BODY", isFile PROVE FALSE
      BY <1>2
    <2>1. request.kind = "ota" /\ \A p \in 1 .. Len(parts) : FileAt(parts, p) => p <= Over(i)
      BY <1>6 DEF FlashInv, Boots, PartFlashed
    <2>2. i \in 1 .. Len(parts) /\ FileAt(parts, i) /\ Over(i) = i - 1 /\ i \in Nat
      BY <1>4, <1>6, PlaceOfCall
    <2> QED
      BY <2>1, <2>2
  <1>11. Boots'
    BY <1>1, <1>2, <1>10 DEF FlashInv, Boots
  <1>12. BodyStage'
    <2> SUFFICES ASSUME mp'.state # "DONE" PROVE BodyStage'
      BY DEF BodyStage, Active
    <2>1. PICK i2, j2, k2 : Moved(parts, i, k, i2, j2, k2)
      BY <1>8 DEF BodyDone
    <2>2. /\ Position(parts, i2, j2, k2)'
          /\ Over(i2)' = Over(i)
          /\ j2 > 0 /\ isFile' => isFile /\ i2 = i /\ j2 = k
      BY <2>1 DEF Moved
    <2>3. ASSUME request.kind = "ota" PROVE PartFlashed(parts, i2, j2)'
      <3>1. PartFlashed(parts, i, k)
        BY <1>6, <2>3
      <3>2. ota'.boot = "update" => \A p \in 1 .. Len(parts) : FileAt(parts, p) => p <= Over(i2)'
        BY <1>1, <2>2, <3>1 DEF PartFlashed
      <3>3. ASSUME j2 > 0, isFile', Over(i2)' < i2 PROVE ota'.image = UpTo(parts, i2, j2)
        BY <1>1, <2>2, <3>1, <3>3 DEF PartFlashed
      <3>4. FileAt(parts, 1)' = FileAt(parts, 1)
        BY DEF FileAt
      <3> QED
        BY <3>2, <3>3, Zenon DEF PartFlashed, FileAt, UpTo
    <2>4. (request.kind = "ota" => PartFlashed(parts, i2, j2))'
      BY <1>1, <2>3
    <2> QED
      BY <1>4, <2>2, <2>4, Zenon DEF BodyStage, Stage
  <1> QED
    BY <1>9, <1>11, <1>12 DEF FlashInv

(* A callback returns, and its piece is passed on.                          *)
LEMMA ReturnsFlashInv ==
  ASSUME OrderlyRequests, IInv, FlashInv, NEW parts, parts = request.parts,
         call # NoCall, NEW cont \in BOOLEAN, Returned(cont), handler'.pc = "parsing",
         request' = request, disturbed => disturbed',
         ASSUME cont, request.kind = "ota", Active, NEW i, NEW j, NEW k,
                Position(parts, i, j, k), PartFlashed(parts, i, j)
         PROVE  PartFlashed(parts, i, k)'
  PROVE  BodyInv' /\ BodyStage'
  <1>1. /\ call' = NoCall
        /\ mp' = IF cont \/ call.last THEN mp
                 ELSE [mp EXCEPT !.state = "DONE", !.ret = "INVALID_STATE"]
    BY DEF Returned
  <1>2. /\ handler.pc \notin {"none", "answered"} /\ mp.state \in {"BODY", "AFTER_BOUNDARY", "DONE"}
        /\ call.last => mp.state = "DONE"
        /\ mp = [state |-> mp.state, buffer |-> mp.buffer, unread |-> mp.unread,
              header |-> mp.header, isFirstChunk |-> mp.isFirstChunk,
              fieldValue |-> mp.fieldValue, eof |-> mp.eof, ret |-> mp.ret]
    BY DEF IInv, CallInv, ParserType
  <1>3. Sent(parts)
    BY <1>2, ThisIsSent DEF FlashInv, BodyInv
  <1>4. mp' = mp \/ (mp'.state = "DONE" /\ mp'.eof = mp.eof)
    BY <1>1, <1>2
  <1>5. BodyInv'
    <2>1. RequestInv'
      BY <1>2 DEF FlashInv, BodyInv, RequestInv
    <2>2. mp'.state # "IDLE" /\ mp'.eof = mp.eof
      BY <1>2, <1>4
    <2> QED
      BY <1>1, <2>1, <2>2 DEF FlashInv, BodyInv, Storing
  <1>6. ASSUME Active' PROVE Stage(parts)'
    <2>1. mp' = mp /\ mp.state \in {"BODY", "AFTER_BOUNDARY"} /\ cont
      BY <1>1, <1>2, <1>4, <1>6 DEF Active
    <2>2. Active
      BY <2>1 DEF Active
    <2>3. PICK i, j, k : Position(parts, i, j, k) /\ (request.kind = "ota" => PartFlashed(parts, i, j))
      BY <2>2 DEF FlashInv, BodyStage, Stage
    <2>4. Position(parts, i, k, k)'
      BY <1>1, <1>3, <2>1, <2>3, ReturnedMoves
    <2>5. request.kind = "ota" => PartFlashed(parts, i, k)'
      BY <2>1, <2>2, <2>3
    <2>6. (request.kind = "ota" => PartFlashed(parts, i, k))'
      BY <2>5
    <2> QED
      BY <2>4, <2>6, Zenon DEF Stage
  <1> QED
    BY <1>5, <1>6 DEF BodyStage

(* Nothing of the request moves; a callback may go on inside the handler.   *)
LEMMA StaysFlashInv ==
  ASSUME OrderlyRequests, IInv, FlashInv, UNCHANGED <<call, request, ota>>,
         mp' = mp \/ (mp' = [mp EXCEPT !.eof = TRUE] /\ disturbed'), disturbed => disturbed',
         \/ handler' = handler
         \/ /\ handler.pc \notin {"none", "answered"} /\ handler'.pc \in Storing
            /\ call.kind = "file" /\ request.kind = "upload"
  PROVE  FlashInv'
  <1>1. mp = [state |-> mp.state, buffer |-> mp.buffer, unread |-> mp.unread,
              header |-> mp.header, isFirstChunk |-> mp.isFirstChunk,
              fieldValue |-> mp.fieldValue, eof |-> mp.eof, ret |-> mp.ret]
    BY DEF IInv, ParserType
  <1>2. /\ mp'.state = mp.state /\ mp'.buffer = mp.buffer /\ mp'.unread = mp.unread
        /\ mp'.header = mp.header /\ mp'.isFirstChunk = mp.isFirstChunk /\ mp'.ret = mp.ret
        /\ mp'.eof => mp.eof \/ disturbed'
    BY <1>1
  <1>3. BodyInv'
    <2>1. RequestInv'
      BY DEF FlashInv, BodyInv, RequestInv, Storing
    <2> QED
      BY <1>2, <2>1 DEF FlashInv, BodyInv, Storing
  <1>4. Boots'
    BY <1>2 DEF FlashInv, Boots
  <1>5. PICK parts : parts = request.parts
    OBVIOUS
  <1>6. ASSUME Active' PROVE Stage(parts)'
    <2>1. Active
      BY <1>2, <1>6 DEF Active
    <2>2. PICK i, j, k : Position(parts, i, j, k) /\ (request.kind = "ota" => PartFlashed(parts, i, j))
      BY <1>5, <2>1 DEF FlashInv, BodyStage, Stage
    <2>3. Position(parts, i, j, k)' /\ Over(i)' = Over(i) /\ (isFile' <=> isFile)
      BY <1>2, <2>2, PositionKept
    <2>4. (request.kind = "ota" => PartFlashed(parts, i, j))'
      BY <2>2, <2>3, Zenon DEF PartFlashed, UpTo, FileAt
    <2> QED
      BY <2>3, <2>4, Zenon DEF Stage
  <1>7. request'.parts = parts
    BY <1>5
  <1>8. BodyStage'
    BY <1>6, <1>7 DEF BodyStage
  <1> QED
    BY <1>3, <1>4, <1>8 DEF FlashInv

(* A field of the body is over: what is flashed stays that of the file.     *)
LEMMA FieldFlashInv ==
  ASSUME OrderlyRequests, IInv, FlashInv, FieldReceived
  PROVE  FlashInv'
  <1>1. /\ handler.pc = "parsing" /\ call.kind = "field" /\ Returned(TRUE)
        /\ UNCHANGED <<request, ota, disturbed>>
        /\ handler'.pc = "parsing" /\ handler'.error = handler.error
    BY DEF FieldReceived, IInv, HandlerType
  <1>2. call # NoCall /\ mp' = mp /\ call' = NoCall
    BY <1>1 DEF NoCall, Returned
  <1>3. PICK parts : parts = request.parts
    OBVIOUS
  <1>4. Sent(parts)
    BY <1>1, <1>3, ThisIsSent DEF FlashInv, BodyInv
  <1>5. ASSUME Active, NEW i, NEW j, NEW k, Position(parts, i, j, k), PartFlashed(parts, i, j)
        PROVE  PartFlashed(parts, i, k)'
    <2>1. mp.state \in {"BODY", "AFTER_BOUNDARY"}
      BY <1>2, <1>5 DEF IInv, CallInv, Active
    <2>2. /\ i \in Nat /\ Over(i) = i - 1 /\ CallPlace(parts, i, j, k)
      BY <1>2, <1>4, <1>5, <2>1, PlaceOfCall
    <2>3. (isFile' <=> isFile) /\ Over(i)' = IF mp.state = "AFTER_BOUNDARY" THEN i ELSE i - 1
      BY <1>2, <1>4, <1>5, <2>1, ReturnedMoves
    <2>4. ~isFile'
      BY <1>1, <2>2, <2>3 DEF CallPlace
    <2>5. ota.boot = "update" => \A p \in 1 .. Len(parts) : FileAt(parts, p) => p <= Over(i)'
      BY <1>5, <2>2, <2>3 DEF PartFlashed
    <2> QED
      BY <1>1, <2>4, <2>5, Zenon DEF PartFlashed, FileAt
  <1>6. BodyInv' /\ BodyStage'
    <2>1. disturbed => disturbed'
      BY <1>1
    <2>2. TRUE \in BOOLEAN /\ request' = request
      BY <1>1
    <2> QED
      BY <1>1, <1>2, <1>3, <1>5, <2>1, <2>2, ReturnsFlashInv
  <1>7. Boots'
    BY <1>1, <1>2 DEF FlashInv, Boots, NoCall
  <1> QED
    BY <1>6, <1>7 DEF FlashInv

(* The steps of uploadFilesHandler leave the update alone.                  *)
LEMMA UploadFlashInv ==
  ASSUME OrderlyRequests, IInv, FlashInv, request.kind = "upload",
         UNCHANGED <<request, ota, disturbed>>, call.kind = "file",
         \/ UNCHANGED <<mp, call>> /\ handler'.pc \in Storing
         \/ (Returned(TRUE) \/ Returned(FALSE)) /\ handler'.pc = "parsing"
  PROVE  FlashInv'
  <1>1. call # NoCall /\ handler.pc \notin {"none", "answered"}
    BY DEF NoCall, IInv, CallInv
  <1>2. CASE UNCHANGED <<mp, call>> /\ handler'.pc \in Storing
    BY <1>1, <1>2, StaysFlashInv
  <1>3. ASSUME NEW cont \in BOOLEAN, Returned(cont), handler'.pc = "parsing" PROVE FlashInv'
    <2>1. PICK parts : parts = request.parts
      OBVIOUS
    <2>2. BodyInv' /\ BodyStage'
      BY <1>1, <1>3, <2>1, ReturnsFlashInv
    <2>3. Boots'
      BY DEF FlashInv, Boots
    <2> QED
      BY <2>2, <2>3 DEF FlashInv
  <1> QED
    BY <1>2, <1>3

(* Opening a file is a step inside the callback, or its end.                *)
LEMMA OpenFileSteps ==
  ASSUME NEW h, OpenFile(h), h = [handler EXCEPT !.targetPath = h.targetPath], HandlerType
  PROVE  \/ UNCHANGED <<mp, call>> /\ handler'.pc \in Storing
         \/ (Returned(TRUE) \/ Returned(FALSE)) /\ handler'.pc = "parsing"
  <1>1. \/ handler' = [h EXCEPT !.pc = "opening"] /\ UNCHANGED <<mp, call>>
        \/ handler' = [h EXCEPT !.pc = "onCard"] /\ UNCHANGED <<mp, call>>
        \/ handler' = [h EXCEPT !.error = TRUE, !.pc = "parsing"] /\ Returned(FALSE)
    BY DEF OpenFile, Fails
  <1>2. h = [pc |-> h.pc, targetPath |-> h.targetPath, basePath |-> h.basePath, error |-> h.error,
             otaStarted |-> h.otaStarted, answer |-> h.answer]
    BY DEF HandlerType
  <1> QED
    BY <1>1, <1>2 DEF Storing

(* The steps of uploadFilesHandler leave the update alone.                  *)
LEMMA StoringFlashInv ==
  ASSUME OrderlyRequests, IInv, FlashInv,
         FileReceived \/ Opened \/ Written \/ Closed \/ WriteToCard
  PROVE  FlashInv'
  <1>1. HandlerType
    BY DEF IInv
  <1>2. handler = [handler EXCEPT !.targetPath = handler.targetPath]
    BY <1>1 DEF HandlerType
  <1>3. CASE FileReceived
    <2>1. request.kind = "upload" /\ call.kind = "file" /\ UNCHANGED <<request, ota, disturbed>>
      BY <1>3 DEF FileReceived, In
    <2>2. (\E h : OpenFile(h) /\ h = [handler EXCEPT !.targetPath = h.targetPath]) \/ Fails(handler)
      <3>1. \A x : [handler EXCEPT !.targetPath = [handler EXCEPT !.targetPath = x].targetPath]
                     = [handler EXCEPT !.targetPath = x]
        BY <1>1 DEF HandlerType
      <3> QED
        BY <1>2, <1>3, <3>1 DEF FileReceived
    <2>3. \/ UNCHANGED <<mp, call>> /\ handler'.pc \in Storing
          \/ (Returned(TRUE) \/ Returned(FALSE)) /\ handler'.pc = "parsing"
      <3>1. CASE Fails(handler)
        BY <1>1, <3>1 DEF Fails, HandlerType
      <3> QED
        BY <1>1, <2>2, <3>1, OpenFileSteps
    <2> QED
      BY <2>1, <2>3, UploadFlashInv
  <1>4. CASE Opened
    <2>1. request.kind = "upload" /\ handler.pc = "opening" /\ UNCHANGED <<request, ota, disturbed>>
      BY <1>4 DEF Opened, In, OtherFs
    <2>2. \/ UNCHANGED <<mp, call>> /\ handler'.pc \in Storing
          \/ Returned(FALSE) /\ handler'.pc = "parsing"
      BY <1>1, <1>4 DEF Opened, Fails, HandlerType, Storing
    <2>3. call.kind = "file"
      BY <2>1 DEF FlashInv, BodyInv, Storing
    <2> QED
      BY <2>1, <2>2, <2>3, UploadFlashInv
  <1>5. CASE Written \/ Closed \/ WriteToCard
    <2>1. /\ request.kind = "upload" /\ handler.pc \in Storing
          /\ UNCHANGED <<request, ota, disturbed>>
      BY <1>5 DEF Written, Closed, WriteToCard, In, OtherFs, Storing
    <2>2. \/ UNCHANGED <<mp, call>> /\ handler'.pc \in Storing
          \/ Returned(TRUE) /\ handler'.pc = "parsing"
      BY <1>1, <1>5 DEF Written, Closed, WriteToCard, HandlerType, Storing
    <2>3. call.kind = "file"
      BY <2>1 DEF FlashInv, BodyInv
    <2> QED
      BY <2>1, <2>2, <2>3, UploadFlashInv
  <1> QED
    BY <1>3, <1>4, <1>5

(* A piece of the file follows what was passed on of it before.             *)
LEMMA PieceFollows ==
  ASSUME NEW parts, Sent(parts), NEW i, NEW j, NEW k, Position(parts, i, j, k),
         mp.state \in {"BODY", "AFTER_BOUNDARY"}, call.kind = "file"
  PROVE  /\ UpTo(parts, i, j) \in Seq(Symbols) /\ UpTo(parts, i, k) \in Seq(Symbols)
         /\ UpTo(parts, i, k) = UpTo(parts, i, j) \o call.data
         /\ call.first => UpTo(parts, i, j) = <<>> /\ UpTo(parts, i, k) = call.data
         /\ ~call.first => j > 0
         /\ mp.state = "AFTER_BOUNDARY" => UpTo(parts, i, k) = parts[i].data
         /\ call.data \in Seq(Symbols)
  <1>1. /\ i \in 1 .. Len(parts) /\ j \in 0 .. k /\ k \in 0 .. Len(parts[i].data)
        /\ Len(parts[i].data) \in Nat /\ parts[i].data \in Seq(Symbols)
        /\ mp.state = "AFTER_BOUNDARY" => k = Len(parts[i].data)
        /\ call.data = SubSeq(parts[i].data, j + 1, k) /\ (call.first <=> j = 0)
    BY PlaceOfCall DEF CallPlace
  <1>2. PICK d : d = parts[i].data
    OBVIOUS
  <1>3. j \in 0 .. Len(d) /\ k \in j .. Len(d) /\ 0 \in 0 .. Len(d) /\ k \in 0 .. Len(d)
        /\ Len(d) \in 0 .. Len(d) /\ d \in Seq(Symbols)
    BY <1>1, <1>2
  <1>4. SubSeq(d, 1, j) \o SubSeq(d, j + 1, k) = SubSeq(d, 1, k) /\ SubSeq(d, j + 1, k) \in Seq(Symbols)
    BY <1>3, CutSeq
  <1>5. SubSeq(d, 1, j) \in Seq(Symbols) /\ SubSeq(d, 1, k) \in Seq(Symbols)
    BY <1>3, UpToIsSeq
  <1>6. j = 0 => SubSeq(d, 1, j) = <<>> /\ SubSeq(d, j + 1, k) = SubSeq(d, 1, k)
    BY <1>3
  <1>7. SubSeq(d, 1, Len(d)) = d
    BY <1>3
  <1>8. ~call.first => j > 0
    BY <1>1
  <1> QED
    BY <1>1, <1>2, <1>4, <1>5, <1>6, <1>7, <1>8 DEF UpTo

(* otaPostHandler writes a piece behind the one before it, or fails; what   *)
(* it lets boot is all of the file.                                         *)
LEMMA OtaFlashInv ==
  ASSUME OrderlyRequests, IInv, FlashInv, OtaReceived \/ OtaFaults
  PROVE  FlashInv'
  <1>1. /\ request.kind = "ota" /\ handler.pc = "parsing" /\ call.kind = "file" /\ request' = request
        /\ disturbed => disturbed'
    <2>1. request.kind = "ota" /\ handler.pc = "parsing" /\ call.kind = "file" /\ request' = request
      BY DEF OtaReceived, OtaFaults, In
    <2>2. disturbed => disturbed'
      BY Zenon DEF OtaReceived, OtaFaults
    <2> QED
      BY <2>1, <2>2
  <1>2. /\ call # NoCall /\ ota.boot # "update" /\ ~handler.error
        /\ mp.state \in {"BODY", "AFTER_BOUNDARY", "DONE"}
    BY <1>1 DEF NoCall, IInv, CallInv, FlashInv, Boots, ErrorInv
  <1>3. PICK parts : parts = request.parts
    OBVIOUS
  <1>4. /\ Sent(parts) /\ FileParts(request) = {p \in 1 .. Len(parts) : FileAt(parts, p)}
        /\ \A p, q \in FileParts(request) : p = q
    BY <1>1, <1>3, ThisIsSent DEF FlashInv, BodyInv, Orderly
  <1>5. /\ ota = [open |-> ota.open, image |-> ota.image, boot |-> ota.boot]
        /\ handler = [pc |-> handler.pc, targetPath |-> handler.targetPath, basePath |-> handler.basePath,
                      error |-> handler.error, otaStarted |-> handler.otaStarted, answer |-> handler.answer]
    BY DEF IInv, HandlerType
  <1>6. ASSUME NEW cont \in BOOLEAN, Returned(cont), handler'.pc = "parsing",
               ota'.boot = ota.boot,
               cont => mp.state = "BODY" \/ ~Active,
               cont => ota'.image = IF call.first THEN call.data ELSE ota.image \o call.data
        PROVE  FlashInv'
    <2>1. Boots'
      BY <1>2, <1>6 DEF Boots
    <2>2. ASSUME cont, Active, NEW i, NEW j, NEW k, Position(parts, i, j, k), PartFlashed(parts, i, j)
          PROVE  PartFlashed(parts, i, k)'
      <3>1. mp.state = "BODY"
        BY <1>6, <2>2
      <3>2. /\ UpTo(parts, i, k) = UpTo(parts, i, j) \o call.data
            /\ call.first => UpTo(parts, i, k) = call.data
            /\ ~call.first => j > 0
        BY <1>1, <1>4, <2>2, <3>1, PieceFollows
      <3>3. isFile /\ Over(i) = i - 1 /\ i \in Nat
        BY <1>1, <1>2, <1>4, <2>2, <3>1, PlaceOfCall DEF CallPlace
      <3>4. ~call.first => ota.image = UpTo(parts, i, j)
        BY <2>2, <3>2, <3>3 DEF PartFlashed
      <3>5. ota'.image = UpTo(parts, i, k)
        BY <1>6, <2>2, <3>2, <3>4
      <3> QED
        BY <1>2, <1>6, <3>5 DEF PartFlashed, UpTo
    <2>3. BodyInv' /\ BodyStage'
      BY <1>1, <1>2, <1>3, <1>6, <2>2, ReturnsFlashInv
    <2> QED
      BY <2>1, <2>3 DEF FlashInv
  <1>7. ASSUME Returned(TRUE), call.final, handler'.pc = "parsing", handler'.error = FALSE,
               ota'.image \in ValidImages, ~disturbed => ~disturbed',
               ota'.image = IF call.first THEN call.data ELSE ota.image \o call.data
        PROVE  FlashInv'
    <2>1. mp' = mp /\ call' = NoCall
      BY <1>7 DEF Returned
    <2>2. ASSUME Active, NEW i, NEW j, NEW k, Position(parts, i, j, k), PartFlashed(parts, i, j)
          PROVE  PartFlashed(parts, i, k)' /\ i \in FileParts(request) /\ ota'.image = request.parts[i].data
      <3>1. mp.state \in {"BODY", "AFTER_BOUNDARY"}
        BY <1>2, <2>2 DEF Active
      <3>2. isFile /\ Over(i) = i - 1 /\ i \in 1 .. Len(parts) /\ i \in Nat /\ FileAt(parts, i)
            /\ mp.state = "AFTER_BOUNDARY"
        BY <1>1, <1>2, <1>4, <1>7, <2>2, <3>1, PlaceOfCall DEF CallPlace
      <3>3. /\ UpTo(parts, i, k) = UpTo(parts, i, j) \o call.data
            /\ call.first => UpTo(parts, i, k) = call.data
            /\ ~call.first => j > 0
            /\ UpTo(parts, i, k) = parts[i].data
        <4>1. /\ UpTo(parts, i, k) = UpTo(parts, i, j) \o call.data
              /\ call.first => UpTo(parts, i, k) = call.data
              /\ ~call.first => j > 0
          BY <1>1, <1>4, <2>2, <3>1, PieceFollows
        <4>2. UpTo(parts, i, k) = parts[i].data
          BY <1>1, <1>4, <2>2, <3>2, PieceFollows
        <4> QED
          BY <4>1, <4>2
      <3>4. ~call.first => ota.image = UpTo(parts, i, j)
        BY <2>2, <3>2, <3>3 DEF PartFlashed
      <3>5. ota'.image = request.parts[i].data
        BY <1>3, <1>7, <3>3, <3>4
      <3>6. Over(i)' = i
        BY <2>1, <3>2 DEF Over
      <3>7. i \in FileParts(request) /\ \A p \in 1 .. Len(parts) : FileAt(parts, p) => p <= i
        BY <1>4, <3>2
      <3>8. ~(Over(i)' < i) /\ \A p \in 1 .. Len(parts) : FileAt(parts, p) => p <= Over(i)'
        BY <3>2, <3>6, <3>7
      <3>9. PartFlashed(parts, i, k)'
        BY <3>8, Zenon DEF PartFlashed, FileAt
      <3> QED
        BY <3>5, <3>7, <3>9
    <2>3. BodyInv' /\ BodyStage'
      BY <1>1, <1>2, <1>3, <1>7, <2>2, ReturnsFlashInv
    <2>4. ~disturbed' => \E i \in FileParts(request) : ota'.image = request.parts[i].data
      <3> SUFFICES ASSUME ~disturbed PROVE \E i \in FileParts(request) : ota'.image = request.parts[i].data
        BY <1>1
      <3>1. Active
        BY <1>1, <1>2 DEF FlashInv, BodyInv, Active
      <3>2. PICK i, j, k : Position(parts, i, j, k) /\ PartFlashed(parts, i, j)
        BY <1>1, <1>3, <3>1 DEF FlashInv, BodyStage, Stage
      <3> QED
        BY <2>2, <3>1, <3>2
    <2>5. FileParts(request') = FileParts(request)
      BY <1>1
    <2>6. mp'.state = "DONE" => mp'.ret = "OK"
      BY <1>2, <2>1 DEF FlashInv, BodyInv
    <2>7. Boots'
      BY <1>1, <1>7, <2>1, <2>4, <2>5, <2>6 DEF Boots, NoCall
    <2> QED
      BY <2>3, <2>7 DEF FlashInv
  <1>8. CASE OtaReceived
    <2> DEFINE begun == IF call.first THEN OtaBegin(ota) ELSE ota
               written == [begun EXCEPT !.image = begun.image \o call.data]
               started == [handler EXCEPT !.otaStarted = TRUE]
    <2>1. call.data \in Seq(Symbols)
      BY DEF IInv, ParserType
    <2>2. <<>> \o call.data = call.data
      BY <2>1, ConcatEmptySeq
    <2>3. /\ written.boot = ota.boot
          /\ written.image = (IF call.first THEN call.data ELSE ota.image \o call.data)
          /\ written = [open |-> written.open, image |-> written.image, boot |-> written.boot]
      <3>1. ota \in [open : BOOLEAN, image : {ota.image}, boot : {ota.boot}]
        BY DEF IInv, HandlerType
      <3>2. OtaBegin(ota) \in [open : BOOLEAN, image : {<<>>}, boot : {ota.boot}]
        BY <3>1 DEF OtaBegin
      <3>3. begun \in [open : BOOLEAN, image : {begun.image}, boot : {ota.boot}]
            /\ begun.image = IF call.first THEN <<>> ELSE ota.image
        BY <3>1, <3>2
      <3> HIDE DEF begun
      <3>4. written \in [open : BOOLEAN, image : {begun.image \o call.data}, boot : {ota.boot}]
        BY <3>3
      <3>5. begun.image \o call.data = IF call.first THEN call.data ELSE ota.image \o call.data
        BY <2>2, <3>3
      <3> HIDE DEF written
      <3> QED
        BY <3>4, <3>5
    <2>4. started.pc = "parsing" /\ started.error = FALSE
      BY <1>1, <1>2, <1>5 DEF IInv, HandlerType
    <2>5. \/ /\ ~call.final
             /\ ota' = written /\ handler' = started /\ Returned(TRUE)
          \/ /\ call.final /\ OtaEnd(written)
             /\ ota' = [written EXCEPT !.open = FALSE, !.boot = "update"]
             /\ handler' = started /\ Returned(TRUE)
          \/ /\ call.final /\ ~OtaEnd(written)
             /\ ota' = [written EXCEPT !.open = FALSE]
             /\ OtaEndFails
      BY <1>8 DEF OtaReceived
    <2> HIDE DEF written, started
    <2>6. CASE ~call.final /\ ota' = written /\ handler' = started /\ Returned(TRUE)
      <3>1. mp.state = "BODY" \/ ~Active
        <4> SUFFICES ASSUME Active, mp.state = "AFTER_BOUNDARY" PROVE FALSE
          BY <1>2 DEF Active
        <4>1. PICK i, j, k : Position(parts, i, j, k)
          BY <1>3 DEF FlashInv, BodyStage, Stage
        <4> QED
          BY <1>1, <1>4, <2>6, <4>1, PlaceOfCall DEF CallPlace
      <3> QED
        BY <1>6, <2>3, <2>4, <2>6, <3>1
    <2>7. CASE call.final /\ OtaEnd(written) /\ ota' = [written EXCEPT !.open = FALSE, !.boot = "update"]
               /\ handler' = started /\ Returned(TRUE)
      <3>1. ota'.image = written.image /\ written.image \in ValidImages
        BY <2>3, <2>7 DEF OtaEnd
      <3>2. disturbed' = disturbed
        BY <1>8 DEF OtaReceived
      <3> QED
        BY <1>7, <2>3, <2>4, <2>7, <3>1, <3>2
    <2>8. CASE ota' = [written EXCEPT !.open = FALSE] /\ OtaEndFails
      <3>1. ota'.boot = ota.boot
        BY <2>3, <2>8
      <3>2. Returned(FALSE) /\ handler'.pc = "parsing"
        BY <1>1, <1>5, <2>8 DEF OtaEndFails
      <3> QED
        BY <1>6, <3>1, <3>2
    <2> QED
      BY <2>5, <2>6, <2>7, <2>8
  <1>9. CASE OtaFaults
    <2>1. Returned(FALSE)
      BY <1>9 DEF OtaFaults, OtaFails
    <2>2. handler'.pc = "parsing"
      BY <1>1, <1>5, <1>9 DEF OtaFaults, OtaFails
    <2>3. ota'.boot = ota.boot
      BY <1>5, <1>9 DEF OtaFaults, OtaBegin
    <2> QED
      BY <1>6, <2>1, <2>2, <2>3
  <1> QED
    BY <1>8, <1>9

(* Answers end a request: a device that boots the update restarts, and      *)
(* serves no other.                                                         *)
LEMMA AnswersFlashInv ==
  ASSUME OrderlyRequests, IInv, FlashInv, AnswerUpload \/ AnswerOta \/ End
  PROVE  FlashInv'
  <1>1. handler = [pc |-> handler.pc, targetPath |-> handler.targetPath, basePath |-> handler.basePath,
                   error |-> handler.error, otaStarted |-> handler.otaStarted, answer |-> handler.answer]
        /\ ota \in [open : BOOLEAN, image : {ota.image}, boot : {ota.boot}]
    BY DEF IInv, HandlerType
  <1>2. ASSUME UNCHANGED <<mp, call, request, disturbed>>, mp.state = "DONE", call = NoCall,
               handler.pc = "parsing", ota'.boot = ota.boot, ota'.image = ota.image,
               NEW result, Answer(result, handler),
               result = "ok" => ~handler.error /\ mp.ret = "OK",
               ota.boot = "update" => result = "ok"
        PROVE  FlashInv'
    <2>1. handler'.pc = "answered" /\ handler'.answer = result /\ handler'.error = handler.error
      BY <1>1, <1>2 DEF Answer
    <2>2. BodyInv'
      BY <1>2, <2>1 DEF FlashInv, BodyInv, RequestInv, Storing
    <2>3. BodyStage'
      BY <1>2 DEF BodyStage, Active
    <2>4. FileParts(request') = FileParts(request)
      BY <1>2
    <2>5. Boots'
      BY <1>2, <2>1, <2>4 DEF FlashInv, Boots
    <2> QED
      BY <2>2, <2>3, <2>5 DEF FlashInv
  <1>3. CASE AnswerUpload
    <2>1. ota.boot # "update"
      BY <1>3 DEF AnswerUpload, In, FlashInv, Boots
    <2> QED
      BY <1>2, <1>3, <2>1 DEF AnswerUpload, In
  <1>4. CASE AnswerOta
    <2>1. UNCHANGED <<mp, call, request, disturbed>> /\ mp.state = "DONE" /\ call = NoCall /\ handler.pc = "parsing"
      BY <1>4 DEF AnswerOta, In
    <2>2. CASE handler.error \/ mp.ret # "OK"
      <3>1. ota' = (IF handler.otaStarted THEN Abort(ota) ELSE ota) /\ Answer("500", handler)
        BY <1>4, <2>2 DEF AnswerOta
      <3>2. ota'.boot = ota.boot /\ ota'.image = ota.image
        BY <1>1, <3>1 DEF Abort
      <3>3. ota.boot # "update"
        BY <2>1, <2>2 DEF FlashInv, Boots
      <3> QED
        BY <1>2, <2>1, <3>1, <3>2, <3>3
    <2>3. CASE ~(handler.error \/ mp.ret # "OK")
      <3>1. ota' = ota /\ Answer("ok", handler)
        BY <1>4, <2>3 DEF AnswerOta
      <3> QED
        BY <1>2, <2>1, <2>3, <3>1
    <2> QED
      BY <2>2, <2>3
  <1>5. CASE End
    <2>1. handler.pc = "answered" /\ ~(request.kind = "ota" /\ handler.answer = "ok")
          /\ handler' = NoHandler /\ mp' = Idle /\ request' = NoRequest /\ UNCHANGED <<call, ota, disturbed>>
      BY <1>5 DEF End
    <2>2. ota.boot # "update" /\ call = NoCall
      BY <2>1 DEF FlashInv, Boots, IInv, CallInv
    <2>3. BodyInv' /\ BodyStage'
      BY <2>1, <2>2 DEF BodyInv, BodyStage, Active, RequestInv, Idle, NoHandler, Storing
    <2> QED
      BY <2>1, <2>2, <2>3 DEF FlashInv, Boots
  <1> QED
    BY <1>3, <1>4, <1>5

(* The invariant of the update holds after every step.                      *)
LEMMA NextFlashInv ==
  ASSUME OrderlyRequests, IInv, FlashInv, [NextUploads]_vars
  PROVE  FlashInv'
  <1>1. CASE UNCHANGED vars
    <2>1. UNCHANGED <<mp, call, handler, request, ota, disturbed>>
      BY <1>1 DEF vars, handlerVars
    <2> QED
      BY <2>1, StaysFlashInv
  <1>2. CASE LoseConnection
    <2>1. /\ handler' = handler /\ UNCHANGED <<call, request, ota>>
          /\ mp' = [mp EXCEPT !.eof = TRUE] /\ disturbed'
      BY <1>2 DEF LoseConnection, Disconnect
    <2> QED
      BY <2>1, StaysFlashInv
  <1>3. CASE OtherStep
    <2>1. UNCHANGED <<mp, call, handler, request, ota>>
      BY <1>3 DEF OtherStep, FileSystem, Read, FormatFiles, SdCommand, UsesStorage
    <2>2. disturbed => disturbed'
      BY <1>3, Zenon DEF OtherStep, FileSystem, Read, FormatFiles, SdCommand
    <2> QED
      BY <2>1, <2>2, StaysFlashInv
  <1> QED
    BY <1>1, <1>2, <1>3, BeginFlashInv, ParserFlashInv, FieldFlashInv, StoringFlashInv, OtaFlashInv,
       AnswersFlashInv DEF NextUploads, HandlerStep

(* What was flashed is what came of the file so far, and an image that      *)
(* boots is validated and complete.                                         *)
THEOREM FlashInvariance ==
  ASSUME OrderlyRequests
  PROVE  Spec => [](IInv /\ FlashInv)
  <1>1. InitUploads => IInv /\ FlashInv
    BY InitFlashInv
  <1>2. IInv /\ FlashInv /\ [NextUploads]_vars => (IInv /\ FlashInv)'
    BY NextIInv, NextFlashInv
  <1> QED
    BY <1>1, <1>2, PTL DEF Spec

(* What the device boots next is an image that was validated: a failure or  *)
(* a lost connection in the middle of another update leaves it alone        *)
(* (otaPostHandler switches the boot partition after esp_ota_end only, and  *)
(* the device restarts before it serves another request).  If nothing has   *)
(* failed, it is all of the file's data: parseMultipartRequest loses        *)
(* nothing of it and adds nothing to it, however the network cut the body   *)
(* into pieces.                                                             *)
THEOREM UpdatesAreWhole ==
  ASSUME OrderlyRequests
  PROVE  Spec => []BootsWholeImage
  <1>1. FlashInv => BootsWholeImage
    BY DEF FlashInv, Boots, BootsWholeImage
  <1> QED
    BY <1>1, FlashInvariance, PTL

-----------------------------------------------------------------------------
(* The layer of descriptors, while one task formats only                    *)

FormatSteps == {"idle", "unregister", "free", "format", "erase", "freeTmp", "init", "register"}
FdRecords == [ctx : Contexts \union {None}, fd : Nat, path : Files \union {None}]
FsCalls == [op : {"none", "open", "write", "read", "close"}, ctx : Contexts \union {None},
            path : Files \union {None}, mode : {"r", "w", "a"}, data : Seq(Symbols)]
FormatStates == [pc : FormatSteps, slot : Slots \union {0}, tmp : BOOLEAN]

FsType ==
  /\ flash \in [Files -> Seq(Symbols) \union {None}]
  /\ efs \in [Slots -> ContextRecords \union {None}]
  /\ vfs \in Contexts \union {None}
  /\ fds \in [Tasks -> FdRecords]
  /\ fsCall \in [Tasks -> FsCalls]
  /\ fsResult \in [Tasks -> {"ok", "error"}]
  /\ format \in [Tasks -> FormatStates]

Holds(i) == efs[i] # None
Used(c) == {p \in DOMAIN c.cache : c.cache[p] # None}

(* There is one context at most, and its counter counts its open files.     *)
ContextInv ==
  \A i \in Slots : Holds(i) =>
    /\ \A j \in Slots : Holds(j) => i = j
    /\ efs[i].fd_count = Cardinality(Used(efs[i]))
    /\ efs[i].mounted => Len(efs[i].cache) # 0

(* The files of a task that are open in a context                           *)
HasFile(c, t) ==
  /\ fds[t].fd \in DOMAIN c.cache
  /\ c.cache[fds[t].fd] # None
  /\ c.cache[fds[t].fd].task = t
  /\ c.cache[fds[t].fd].path = fds[t].path

(* A descriptor of a context that is there is that of its task's file, in   *)
(* or out of registration; the other tasks only read.                       *)
FileInv ==
  \A t \in Tasks :
    /\ fds[t].ctx = None => fds[t] = NoFile
    /\ \A i \in Slots : Holds(i) /\ efs[i].id = fds[t].ctx => HasFile(efs[i], t)
    /\ fsCall[t].op # "none" => fsCall[t].ctx # None
    /\ fsCall[t].op = "open" => fsCall[t].path \in Files
    /\ t # httpd => fsCall[t].mode = "r" /\ fsCall[t].op # "write"
    /\ t = httpd /\ fsCall[t].op = "open" => fsCall[t].mode # "r"

CleanInv ==
  \A i \in Slots : Holds(i) =>
    \A p \in Used(efs[i]) : efs[i].cache[p].task # httpd => ~efs[i].cache[p].dirty

(* Nothing refers to a context that has just been made.                     *)
Fresh(i) == \A t \in Tasks : fds[t].ctx # efs[i].id /\ fsCall[t].ctx # efs[i].id

Registered == {"idle", "unregister"}

(* Where the one task that formats is, and what is there meanwhile          *)
FormatInv ==
  /\ \A t \in Tasks : format[t].pc # "idle" => t \in Formatters
  /\ (\A t \in Tasks : format[t].pc \in Registered) =>
       \E i \in Slots : Holds(i) /\ efs[i].id = vfs /\ efs[i].mounted
  /\ \A t \in Tasks :
       LET i == format[t].slot IN
       /\ format[t].pc \notin Registered => vfs = None
       /\ format[t].pc \in {"free", "erase", "freeTmp", "register"} => i \in Slots /\ Holds(i)
       /\ format[t].pc \in {"free", "register"} => efs[i].mounted
       /\ format[t].pc \in {"format", "init"} => \A s \in Slots : ~Holds(s)
       /\ format[t].pc \in {"erase", "freeTmp", "register"} => Fresh(i)
       /\ format[t].pc = "erase" => format[t].tmp

FsInv == FsType /\ ContextInv /\ FileInv /\ CleanInv /\ FormatInv

-----------------------------------------------------------------------------
(* The table of descriptors of a context                                    *)

USE EspLittleFsAssumption, UploadsAssumption

(* The places in use are among those of the table.                          *)
LEMMA UsedIsFinite ==
  ASSUME NEW c \in ContextRecords
  PROVE  /\ c.cache \in Seq(OpenFiles \union {None}) /\ DOMAIN c.cache = 1 .. Len(c.cache)
         /\ Len(c.cache) \in Nat
         /\ Used(c) \subseteq 1 .. Len(c.cache) /\ IsFiniteSet(Used(c))
         /\ \A p \in DOMAIN c.cache : c.cache[p] \in OpenFiles \union {None}
         /\ \A p \in Used(c) : c.cache[p] \in OpenFiles
  <1>1. c.cache \in Seq(OpenFiles \union {None})
    BY DEF ContextRecords
  <1>2. DOMAIN c.cache = 1 .. Len(c.cache) /\ Len(c.cache) \in Nat
    BY <1>1
  <1>3. \A p \in DOMAIN c.cache : c.cache[p] \in OpenFiles \union {None}
    BY <1>1
  <1>4. Used(c) \subseteq 1 .. Len(c.cache)
    BY <1>2 DEF Used
  <1>5. IsFiniteSet(Used(c))
    <2>1. IsFiniteSet(1 .. Len(c.cache))
      BY <1>2, FS_Interval
    <2> QED
      BY <1>4, <2>1, FS_Subset
  <1> QED
    BY <1>1, <1>2, <1>3, <1>4, <1>5 DEF Used

(* One place of the table gets a file or becomes free.                      *)
Placed(c, p, x, n) == [c EXCEPT !.cache = [c.cache EXCEPT ![p] = x], !.fd_count = n]

(* A place of the table gets a file or loses it.                            *)
LEMMA PlaceChanged ==
  ASSUME NEW c \in ContextRecords, NEW p \in DOMAIN c.cache, NEW x \in OpenFiles \union {None},
         NEW n \in Nat, NEW d, d = Placed(c, p, x, n)
  PROVE  /\ d \in ContextRecords /\ d.id = c.id /\ d.mounted = c.mounted /\ d.fd_count = n
         /\ Len(d.cache) = Len(c.cache) /\ DOMAIN d.cache = DOMAIN c.cache
         /\ d.cache[p] = x /\ \A q \in DOMAIN c.cache \ {p} : d.cache[q] = c.cache[q]
         /\ Used(d) = IF x = None THEN Used(c) \ {p} ELSE Used(c) \union {p}
  <1>1. c.cache \in Seq(OpenFiles \union {None})
    BY UsedIsFinite
  <1>2. c = [id |-> c.id, mounted |-> c.mounted, fd_count |-> c.fd_count, cache |-> c.cache]
        /\ c.id \in Contexts /\ c.mounted \in BOOLEAN
    BY DEF ContextRecords
  <1>3. d.id = c.id /\ d.mounted = c.mounted /\ d.fd_count = n /\ d.cache = [c.cache EXCEPT ![p] = x]
        /\ d = [id |-> d.id, mounted |-> d.mounted, fd_count |-> d.fd_count, cache |-> d.cache]
    BY <1>2 DEF Placed
  <1> DEFINE w == c.cache
             v == [w EXCEPT ![p] = x]
  <1>4. v \in Seq(OpenFiles \union {None}) /\ Len(v) = Len(w) /\ DOMAIN v = DOMAIN w
        /\ v[p] = x /\ \A q \in DOMAIN w \ {p} : v[q] = w[q]
    <2>1. w \in Seq(OpenFiles \union {None}) /\ p \in 1 .. Len(w)
      BY <1>1
    <2> HIDE DEF w
    <2> QED
      BY <2>1
  <1>5. d \in ContextRecords
    BY <1>2, <1>3, <1>4 DEF ContextRecords
  <1> HIDE DEF v
  <1>6. Used(d) = IF x = None THEN Used(c) \ {p} ELSE Used(c) \union {p}
    <2>1. d.cache = v
      BY <1>3 DEF v
    <2> QED
      BY <1>4, <2>1 DEF Used
  <1> QED
    BY <1>3, <1>4, <1>5, <1>6 DEF v

(* The table is doubled when it is full, and keeps what it has: there is a  *)
(* free place in it then.                                                   *)
LEMMA GrownContext ==
  ASSUME NEW c \in ContextRecords, c.fd_count = Cardinality(Used(c)), Len(c.cache) # 0
  PROVE  /\ Grown(c) \in ContextRecords
         /\ Grown(c).id = c.id /\ Grown(c).mounted = c.mounted
         /\ Grown(c).fd_count = c.fd_count /\ Len(Grown(c).cache) # 0
         /\ Used(Grown(c)) = Used(c)
         /\ \A p \in DOMAIN c.cache : /\ p \in DOMAIN Grown(c).cache
                                      /\ Grown(c).cache[p] = c.cache[p]
         /\ FreePlace(Grown(c)) \in DOMAIN Grown(c).cache \ Used(c)
  <1> DEFINE w == c.cache
             n == Len(w)
             g == Grown(c)
             free == {i \in DOMAIN g.cache : g.cache[i] = None}
  <1>1. w \in Seq(OpenFiles \union {None}) /\ n \in Nat /\ n # 0 /\ DOMAIN w = 1 .. n
        /\ Used(c) \subseteq 1 .. n /\ IsFiniteSet(Used(c))
    BY UsedIsFinite
  <1>2. Cardinality(Used(c)) \in Nat /\ Cardinality(Used(c)) <= n
        /\ (Cardinality(Used(c)) = n => Used(c) = 1 .. n)
    <2>1. IsFiniteSet(1 .. n) /\ Cardinality(1 .. n) = n
      BY <1>1, FS_Interval
    <2> QED
      BY <1>1, <2>1, FS_Subset, FS_CardinalityType
  <1>3. /\ g \in ContextRecords /\ g.id = c.id /\ g.mounted = c.mounted /\ g.fd_count = c.fd_count
        /\ Len(g.cache) # 0 /\ Used(g) = Used(c)
        /\ \A p \in 1 .. n : p \in DOMAIN g.cache /\ g.cache[p] = c.cache[p]
        /\ free # {}
    <2>1. CASE ~(c.fd_count + 1 > Len(c.cache))
      <3>1. g = c
        BY <2>1 DEF Grown
      <3>2. Used(c) # 1 .. n
        <4>1. c.fd_count + 1 <= n
          BY <1>1, <1>2, <2>1
        <4>2. Cardinality(1 .. n) = n
          BY <1>1, FS_Interval
        <4> HIDE DEF n
        <4> QED
          BY <1>2, <4>1, <4>2
      <3>3. PICK p \in 1 .. n : p \notin Used(c)
        BY <1>1, <3>2
      <3>4. p \in free
        BY <1>1, <3>1, <3>3 DEF Used
      <3> QED
        BY <1>1, <3>1, <3>4
    <2>2. CASE c.fd_count + 1 > Len(c.cache)
      <3> DEFINE e == [i \in 1 .. n |-> None]
                 v == w \o e
      <3>1. g = [c EXCEPT !.cache = v]
        BY <1>1, <2>2 DEF Grown
      <3>2. e \in Seq(OpenFiles \union {None}) /\ Len(e) = n /\ \A i \in 1 .. n : e[i] = None
        BY <1>1
      <3>2a. w \in Seq(OpenFiles \union {None}) /\ Len(w) = n /\ n \in Nat
        BY <1>1
      <3> HIDE DEF n, e, w
      <3>3. /\ v \in Seq(OpenFiles \union {None}) /\ Len(v) = n + n
            /\ \A p \in 1 .. n + n : v[p] = IF p <= n THEN w[p] ELSE e[p - n]
        BY <3>2, <3>2a, ConcatProperties, SMTT(30)
      <3>4. DOMAIN v = 1 .. n + n
        BY <3>3
      <3>5. \A p \in 1 .. n : p \in 1 .. n + n /\ v[p] = w[p]
        BY <1>1, <3>3
      <3>6. \A p \in 1 .. n + n : p \notin 1 .. n => v[p] = None
        <4> TAKE p \in 1 .. n + n
        <4> HAVE p \notin 1 .. n
        <4>1. ~(p <= n) /\ p - n \in 1 .. n
          BY <1>1
        <4> QED
          BY <3>2, <3>3, <4>1
      <3> HIDE DEF v
      <3>7. g.cache = v /\ g.id = c.id /\ g.mounted = c.mounted /\ g.fd_count = c.fd_count
            /\ g \in ContextRecords
        BY <3>1, <3>3 DEF ContextRecords
      <3>8. Used(g) = Used(c)
        <4>1. Used(g) = {p \in 1 .. n + n : v[p] # None}
          BY <3>4, <3>7 DEF Used
        <4>2. Used(c) = {p \in 1 .. n : w[p] # None}
          BY <1>1 DEF Used, w
        <4> QED
          BY <3>5, <3>6, <4>1, <4>2
      <3>9. n + 1 \in 1 .. n + n /\ n + 1 \notin 1 .. n
        BY <1>1
      <3>10. n + 1 \in free
        BY <3>4, <3>6, <3>7, <3>9
      <3>11. Len(g.cache) # 0
        BY <1>1, <3>3, <3>7
      <3> QED
        BY <3>4, <3>5, <3>7, <3>8, <3>10, <3>11 DEF w
    <2> QED
      BY <2>1, <2>2
  <1> HIDE DEF g
  <1>4. FreePlace(g) \in free
    <2>1. DOMAIN g.cache = 1 .. Len(g.cache) /\ Len(g.cache) \in Nat
      BY <1>3, UsedIsFinite
    <2> DEFINE S == free \union {Len(g.cache) + 1}
    <2>2. S \in SUBSET Nat /\ S # {}
      BY <2>1
    <2>3. Min(S) \in S /\ \A x \in S : Min(S) <= x
      <3> HIDE DEF S
      <3> QED
        BY <2>2, MinIsLeast
    <2>4. PICK x \in free : TRUE
      BY <1>3
    <2>5. x < Len(g.cache) + 1 /\ Min(S) <= x
      BY <2>1, <2>3, <2>4
    <2>6. Min(S) # Len(g.cache) + 1
      BY <2>1, <2>5
    <2>7. FreePlace(g) = Min(S)
      BY DEF FreePlace
    <2> QED
      BY <2>3, <2>6, <2>7
  <1> QED
    BY <1>1, <1>3, <1>4 DEF Used, g

(* esp_littlefs_allocate_fd takes a free place and keeps the others.        *)
LEMMA Allocated ==
  ASSUME NEW c \in ContextRecords, c.fd_count = Cardinality(Used(c)),
         NEW file \in OpenFiles, FreePlace(c) \in DOMAIN c.cache \ Used(c),
         NEW d, d = esp_littlefs_allocate_fd(c, file)
  PROVE  /\ d \in ContextRecords /\ d.id = c.id /\ d.mounted = c.mounted
         /\ d.fd_count = Cardinality(Used(d)) /\ Len(d.cache) = Len(c.cache)
         /\ DOMAIN d.cache = DOMAIN c.cache /\ Used(d) = Used(c) \union {FreePlace(c)}
         /\ d.cache[FreePlace(c)] = file
         /\ \A q \in DOMAIN c.cache \ {FreePlace(c)} : d.cache[q] = c.cache[q]
  <1> DEFINE p == FreePlace(c)
  <1>1. IsFiniteSet(Used(c)) /\ Cardinality(Used(c)) \in Nat /\ p \notin Used(c) /\ p \in DOMAIN c.cache
    BY UsedIsFinite, FS_CardinalityType
  <1>2. d = Placed(c, p, file, c.fd_count + 1)
    <2>1. [i \in DOMAIN c.cache |-> IF i = p THEN file ELSE c.cache[i]] = [c.cache EXCEPT ![p] = file]
      BY UsedIsFinite
    <2> QED
      BY <2>1 DEF esp_littlefs_allocate_fd, Placed
  <1>3. file # None
    OBVIOUS
  <1> HIDE DEF p
  <1>4. Cardinality(Used(c) \union {p}) = Cardinality(Used(c)) + 1
    BY <1>1, FS_AddElement
  <1>5. /\ d \in ContextRecords /\ d.id = c.id /\ d.mounted = c.mounted
        /\ d.fd_count = c.fd_count + 1
        /\ Len(d.cache) = Len(c.cache) /\ DOMAIN d.cache = DOMAIN c.cache
        /\ d.cache[p] = file /\ \A q \in DOMAIN c.cache \ {p} : d.cache[q] = c.cache[q]
        /\ Used(d) = Used(c) \union {p}
    <2>1. c.fd_count + 1 \in Nat
      BY <1>1
    <2> QED
      BY <1>1, <1>2, <1>3, <2>1, PlaceChanged
  <1> QED
    BY <1>4, <1>5 DEF p

(* esp_littlefs_free_fd frees one place, and halves the table only when the *)
(* second half is empty.                                                    *)
LEMMA Freed ==
  ASSUME NEW c \in ContextRecords, c.fd_count = Cardinality(Used(c)), NEW p \in Used(c),
         NEW d, d = esp_littlefs_free_fd(c, p)
  PROVE  /\ d \in ContextRecords /\ d.id = c.id /\ d.mounted = c.mounted
         /\ d.fd_count = Cardinality(Used(d)) /\ Len(d.cache) = Len(c.cache)
         /\ DOMAIN d.cache = DOMAIN c.cache /\ Used(d) = Used(c) \ {p}
         /\ \A q \in DOMAIN c.cache \ {p} : d.cache[q] = c.cache[q]
  <1>1. IsFiniteSet(Used(c)) /\ Cardinality(Used(c)) \in Nat /\ p \in DOMAIN c.cache
    BY UsedIsFinite, FS_CardinalityType DEF Used
  <1>2. Cardinality(Used(c) \ {p}) = Cardinality(Used(c)) - 1 /\ Cardinality(Used(c)) - 1 \in Nat
    <2>1. IsFiniteSet(Used(c) \ {p})
      BY <1>1, FS_Subset
    <2>2. Cardinality(Used(c) \ {p}) = Cardinality(Used(c)) - 1
      BY <1>1, FS_RemoveElement
    <2> QED
      BY <2>1, <2>2, FS_CardinalityType
  <1>3. d = Placed(c, p, None, c.fd_count - 1)
    BY DEF esp_littlefs_free_fd, Placed
  <1>4. c.fd_count - 1 \in Nat
    BY <1>2
  <1>5. None \in OpenFiles \union {None}
    OBVIOUS
  <1>6. /\ d \in ContextRecords /\ d.id = c.id /\ d.mounted = c.mounted
        /\ d.fd_count = c.fd_count - 1
        /\ Len(d.cache) = Len(c.cache) /\ DOMAIN d.cache = DOMAIN c.cache
        /\ \A q \in DOMAIN c.cache \ {p} : d.cache[q] = c.cache[q]
        /\ Used(d) = Used(c) \ {p}
    BY <1>1, <1>3, <1>4, <1>5, PlaceChanged
  <1> QED
    BY <1>2, <1>6

(* A file that is written to stays in its place.                            *)
WithFile(c, p, file) == [c EXCEPT !.cache[p] = file]

(* The data of an open file change.                                         *)
LEMMA Rewritten ==
  ASSUME NEW c \in ContextRecords, c.fd_count = Cardinality(Used(c)), NEW p \in Used(c),
         NEW file \in OpenFiles, NEW d, d = WithFile(c, p, file)
  PROVE  /\ d \in ContextRecords /\ d.id = c.id /\ d.mounted = c.mounted
         /\ d.fd_count = Cardinality(Used(d)) /\ Len(d.cache) = Len(c.cache)
         /\ DOMAIN d.cache = DOMAIN c.cache /\ Used(d) = Used(c)
         /\ d.cache[p] = file
         /\ \A q \in DOMAIN c.cache \ {p} : d.cache[q] = c.cache[q]
  <1>1. p \in DOMAIN c.cache /\ c.fd_count \in Nat /\ file # None
    BY DEF Used, ContextRecords
  <1>2. d = Placed(c, p, file, c.fd_count)
    BY DEF ContextRecords, Placed, WithFile
  <1>3. file \in OpenFiles \union {None}
    OBVIOUS
  <1>4. /\ d \in ContextRecords /\ d.id = c.id /\ d.mounted = c.mounted
        /\ d.fd_count = c.fd_count
        /\ Len(d.cache) = Len(c.cache) /\ DOMAIN d.cache = DOMAIN c.cache
        /\ d.cache[p] = file /\ \A q \in DOMAIN c.cache \ {p} : d.cache[q] = c.cache[q]
        /\ Used(d) = Used(c) \union {p}
    BY <1>1, <1>2, <1>3, PlaceChanged
  <1>5. Used(d) = Used(c)
    BY <1>4
  <1> QED
    BY <1>4, <1>5

-----------------------------------------------------------------------------
(* The context that a call has found                                        *)

(* A context is found in its slot.                                          *)
LEMMA SlotIsUnique ==
  ASSUME ContextInv, NEW i \in Slots, Holds(i)
  PROVE  /\ Slot(efs[i].id) = i
         /\ IsLive(efs[i].id)
         /\ \A j \in Slots : Holds(j) => j = i
  <1>1. \A j \in Slots : Holds(j) => j = i
    BY DEF ContextInv
  <1>2. \A j \in Slots : (efs[j] # None /\ efs[j].id = efs[i].id) <=> j = i
    BY <1>1 DEF Holds
  <1>3. Slot(efs[i].id) = i
    BY <1>2 DEF Slot
  <1> QED
    BY <1>1, <1>3 DEF IsLive, Live, Holds

(* A context is live if and only if a slot holds it.                        *)
LEMMA LiveIsHeld ==
  ASSUME ContextInv, NEW id, IsLive(id)
  PROVE  \E i \in Slots : Holds(i) /\ efs[i].id = id /\ Slot(id) = i
  <1>1. PICK i \in Slots : Holds(i) /\ efs[i].id = id
    BY DEF IsLive, Live, Holds
  <1> QED
    BY <1>1, SlotIsUnique

(* A context that a call has found is mounted, and is not being formatted.  *)
Settled == {"idle", "unregister", "free"}

(* A call that has found a context works on one that is mounted, unless the *)
(* context was freed meanwhile.                                             *)
LEMMA FoundIsMounted ==
  ASSUME FsInv, OneFormatter, NEW t \in Tasks, NEW i \in Slots, Holds(i),
         fsCall[t].ctx = efs[i].id \/ fds[t].ctx = efs[i].id
  PROVE  efs[i].mounted /\ \A u \in Tasks : format[u].pc \in Settled
  <1>1. \A u \in Tasks : format[u].pc \in FormatSteps
    BY DEF FsInv, FsType, FormatStates
  <1>2. \A j \in Slots : Holds(j) => j = i
    BY SlotIsUnique DEF FsInv
  <1>3. \A u \in Tasks : format[u].pc \in Settled
    <2> SUFFICES ASSUME NEW u \in Tasks, format[u].pc \notin Settled PROVE FALSE
      OBVIOUS
    <2>1. CASE format[u].pc \in {"format", "init"}
      BY <2>1 DEF FsInv, FormatInv
    <2>2. CASE format[u].pc \in {"erase", "freeTmp", "register"}
      <3>1. format[u].slot \in Slots /\ Holds(format[u].slot) /\ Fresh(format[u].slot)
        BY <2>2 DEF FsInv, FormatInv
      <3>2. format[u].slot = i
        BY <1>2, <3>1
      <3> QED
        BY <3>1, <3>2 DEF Fresh
    <2> QED
      BY <1>1, <2>1, <2>2 DEF Settled, FormatSteps
  <1>4. CASE \A u \in Tasks : format[u].pc \in Registered
    BY <1>2, <1>3, <1>4 DEF FsInv, FormatInv
  <1>5. CASE ~(\A u \in Tasks : format[u].pc \in Registered)
    <2>1. PICK u \in Tasks : format[u].pc = "free"
      BY <1>3, <1>5 DEF Settled, Registered
    <2>2. format[u].slot \in Slots /\ Holds(format[u].slot) /\ efs[format[u].slot].mounted
      BY <2>1 DEF FsInv, FormatInv
    <2> QED
      BY <1>2, <1>3, <2>2
  <1> QED
    BY <1>4, <1>5

(* The steps of a call                                                      *)
FsKept == UNCHANGED <<flash, efs, vfs, fds, fsCall, fsResult, format>>

(* The invariant is about these variables only.                             *)
LEMMA FsSame == FsInv /\ FsKept => FsInv'
  <1> SUFFICES ASSUME FsInv, FsKept PROVE FsInv'
    OBVIOUS
  <1> USE DEF FsInv, FsKept
  <1>1. FsType'
    BY DEF FsType
  <1>2. ContextInv'
    BY DEF ContextInv, Holds, Used
  <1>3. FileInv'
    BY DEF FileInv, Holds, HasFile
  <1>4. CleanInv'
    BY DEF CleanInv, Holds, Used
  <1>5. FormatInv'
    BY ZenonT(30) DEF FormatInv, Holds, Fresh
  <1> QED
    BY <1>1, <1>2, <1>3, <1>4, <1>5

(* What a call changes, if it changes its task's file at all: the table in  *)
(* one context.                                                             *)
TableChanged(t, i, d, fd) ==
  /\ efs' = [efs EXCEPT ![i] = d]
  /\ d.id = efs[i].id /\ d.mounted = efs[i].mounted
  /\ d.fd_count = Cardinality(Used(d)) /\ Len(d.cache) # 0
  /\ \A p \in Used(d) : d.cache[p].task # httpd => ~d.cache[p].dirty
  /\ flash' \in [Files -> Seq(Symbols) \union {None}]
  /\ fds' = [fds EXCEPT ![t] = fd]
  /\ fd.ctx = None => fd = NoFile
  /\ \A u \in Tasks : fds'[u].ctx = efs[i].id =>
       /\ fds'[u].fd \in DOMAIN d.cache
       /\ d.cache[fds'[u].fd] # None
       /\ d.cache[fds'[u].fd].task = u
       /\ d.cache[fds'[u].fd].path = fds'[u].path

(* A step of a task on its own file in the table keeps everybody else's.    *)
LEMMA CtxStep ==
  ASSUME FsInv, OneFormatter, NEW t \in Tasks, NEW i \in Slots, Holds(i),
         fsCall[t].ctx = efs[i].id,
         NEW d \in ContextRecords, NEW fd \in FdRecords, TableChanged(t, i, d, fd),
         UNCHANGED <<vfs, format>>,
         NEW result \in {"ok", "error"}, Returns(t, result)
  PROVE  FsInv'
  <1> USE DEF TableChanged
  <1> USE DEF FsInv
  <1>1. /\ efs \in [Slots -> ContextRecords \union {None}] /\ fds \in [Tasks -> FdRecords]
        /\ fsCall \in [Tasks -> FsCalls] /\ fsResult \in [Tasks -> {"ok", "error"}]
    BY DEF FsType
  <1>2. d # None
    OBVIOUS
  <1>3. /\ efs'[i] = d /\ \A j \in Slots : j # i => efs'[j] = efs[j]
        /\ \A j \in Slots : Holds(j)' <=> Holds(j)
        /\ \A j \in Slots : Holds(j) => j = i
    BY <1>1, <1>2, SlotIsUnique DEF Holds
  <1>4. /\ fsCall' = [fsCall EXCEPT ![t] = NoCallFS] /\ fsResult' = [fsResult EXCEPT ![t] = result]
        /\ fsCall'[t] = NoCallFS /\ fds'[t] = fd
        /\ \A u \in Tasks : u # t => fsCall'[u] = fsCall[u] /\ fds'[u] = fds[u]
    BY <1>1 DEF Returns
  <1>5. FsType'
    <2>1. NoCallFS \in FsCalls
      BY DEF NoCallFS, FsCalls
    <2>2. efs' \in [Slots -> ContextRecords \union {None}] /\ fds' \in [Tasks -> FdRecords]
          /\ fsCall' \in [Tasks -> FsCalls] /\ fsResult' \in [Tasks -> {"ok", "error"}]
      BY <1>1, <1>4, <2>1
    <2> QED
      BY <2>2 DEF FsType
  <1>6. ContextInv'
    <2>1. Used(d)' = Used(d)
      BY DEF Used
    <2>2. \A j \in Slots : Holds(j)' =>
            /\ \A k \in Slots : Holds(k)' => j = k
            /\ efs'[j].fd_count = Cardinality(Used(efs'[j]))
            /\ efs'[j].mounted => Len(efs'[j].cache) # 0
      BY <1>3
    <2> QED
      BY <2>2 DEF ContextInv, Used
  <1>7. FileInv'
    <2> SUFFICES ASSUME NEW u \in Tasks
                 PROVE  /\ fds'[u].ctx = None => fds'[u] = NoFile
                        /\ \A j \in Slots : Holds(j)' /\ efs'[j].id = fds'[u].ctx => HasFile(efs[j], u)'
                        /\ fsCall'[u].op # "none" => fsCall'[u].ctx # None
                        /\ fsCall'[u].op = "open" => fsCall'[u].path \in Files
                        /\ u # httpd => fsCall'[u].mode = "r" /\ fsCall'[u].op # "write"
                        /\ u = httpd /\ fsCall'[u].op = "open" => fsCall'[u].mode # "r"
      BY DEF FileInv
    <2>1. fds'[u].ctx = None => fds'[u] = NoFile
      BY <1>4 DEF FileInv
    <2>2. \A j \in Slots : Holds(j)' /\ efs'[j].id = fds'[u].ctx => HasFile(efs[j], u)'
      BY <1>3 DEF HasFile
    <2>3. /\ fsCall'[u].op # "none" => fsCall'[u].ctx # None
          /\ fsCall'[u].op = "open" => fsCall'[u].path \in Files
          /\ u # httpd => fsCall'[u].mode = "r" /\ fsCall'[u].op # "write"
          /\ u = httpd /\ fsCall'[u].op = "open" => fsCall'[u].mode # "r"
      BY <1>4 DEF FileInv, NoCallFS
    <2> QED
      BY <2>1, <2>2, <2>3
  <1>8. CleanInv'
    BY <1>3 DEF CleanInv, Used
  <1>9. FormatInv'
    <2>1. \A u \in Tasks : format[u].pc \in Settled
      BY FoundIsMounted
    <2>2. \A j \in Slots : Holds(j) => Holds(j)' /\ efs'[j].id = efs[j].id
                                       /\ efs'[j].mounted = efs[j].mounted
      BY <1>3
    <2>3. (\A u \in Tasks : format'[u].pc \in Registered) =>
            \E j \in Slots : Holds(j)' /\ efs'[j].id = vfs' /\ efs'[j].mounted
      BY <2>2 DEF FormatInv
    <2> QED
      BY <2>1, <2>2, <2>3 DEF FormatInv, Settled
  <1> QED
    BY <1>5, <1>6, <1>7, <1>8, <1>9

(* The context of a call that enters it                                     *)
LEMMA Entered ==
  ASSUME FsInv, OneFormatter, NEW t \in Tasks, IsLive(fsCall[t].ctx)
  PROVE  \E i \in Slots :
           /\ Holds(i) /\ fsCall[t].ctx = efs[i].id /\ Slot(fsCall[t].ctx) = i /\ Ctx(t) = efs[i]
           /\ efs[i] \in ContextRecords /\ efs[i].fd_count = Cardinality(Used(efs[i]))
           /\ Len(efs[i].cache) # 0
           /\ \A u \in Tasks : fds[u].ctx = efs[i].id => HasFile(efs[i], u)
           /\ \A p \in Used(efs[i]) : efs[i].cache[p].task # httpd => ~efs[i].cache[p].dirty
  <1>1. PICK i \in Slots : Holds(i) /\ efs[i].id = fsCall[t].ctx /\ Slot(fsCall[t].ctx) = i
    BY LiveIsHeld DEF FsInv
  <1>2. efs[i] \in ContextRecords
    BY <1>1 DEF FsInv, FsType, Holds
  <1>3. efs[i].fd_count = Cardinality(Used(efs[i])) /\ (efs[i].mounted => Len(efs[i].cache) # 0)
    BY <1>1 DEF FsInv, ContextInv
  <1>4. efs[i].mounted
    BY <1>1, FoundIsMounted
  <1>5. \A u \in Tasks : fds[u].ctx = efs[i].id => HasFile(efs[i], u)
    BY <1>1 DEF FsInv, FileInv
  <1>6. \A p \in Used(efs[i]) : efs[i].cache[p].task # httpd => ~efs[i].cache[p].dirty
    BY <1>1 DEF FsInv, CleanInv
  <1> QED
    BY <1>1, <1>2, <1>3, <1>4, <1>5, <1>6 DEF Ctx

(* A call that leaves the context alone                                     *)
LEMMA NoCtxStep ==
  ASSUME FsInv, NEW t \in Tasks, UNCHANGED <<flash, efs, vfs, format>>,
         NEW result \in {"ok", "error"}, Returns(t, result),
         fds' = fds \/ fds' = [fds EXCEPT ![t] = NoFile]
  PROVE  FsInv'
  <1> USE DEF FsInv
  <1>1. /\ fds \in [Tasks -> FdRecords]
        /\ fsCall \in [Tasks -> FsCalls] /\ fsResult \in [Tasks -> {"ok", "error"}]
    BY DEF FsType
  <1>2. NoCallFS \in FsCalls /\ NoFile \in FdRecords
    BY DEF NoCallFS, FsCalls, NoFile, FdRecords
  <1>3. /\ fsCall'[t] = NoCallFS /\ fds'[t] \in {fds[t], NoFile}
        /\ \A u \in Tasks : u # t => fsCall'[u] = fsCall[u] /\ fds'[u] = fds[u]
        /\ fsCall' \in [Tasks -> FsCalls] /\ fds' \in [Tasks -> FdRecords]
        /\ fsResult' \in [Tasks -> {"ok", "error"}]
    BY <1>1, <1>2 DEF Returns
  <1>4. FsType'
    BY <1>3 DEF FsType
  <1>5. ContextInv' /\ CleanInv'
    BY DEF ContextInv, CleanInv, Holds, Used
  <1>6. \A i \in Slots : Holds(i) => efs[i].id \in Contexts /\ efs[i].id # None
    BY DEF FsType, Holds, ContextRecords
  <1>7. FileInv'
    <2> SUFFICES ASSUME NEW u \in Tasks
                 PROVE  /\ fds'[u].ctx = None => fds'[u] = NoFile
                        /\ \A j \in Slots : Holds(j)' /\ efs'[j].id = fds'[u].ctx => HasFile(efs[j], u)'
                        /\ fsCall'[u].op # "none" => fsCall'[u].ctx # None
                        /\ fsCall'[u].op = "open" => fsCall'[u].path \in Files
                        /\ u # httpd => fsCall'[u].mode = "r" /\ fsCall'[u].op # "write"
                        /\ u = httpd /\ fsCall'[u].op = "open" => fsCall'[u].mode # "r"
      BY DEF FileInv
    <2>1. fds'[u] \in {fds[u], NoFile} /\ fsCall'[u] \in {fsCall[u], NoCallFS}
      BY <1>3
    <2>2. CASE fds'[u] = NoFile
      <3>1. \A j \in Slots : Holds(j)' => efs'[j].id # fds'[u].ctx
        BY <1>6, <2>2 DEF NoFile, Holds
      <3> QED
        BY <2>1, <2>2, <3>1 DEF FileInv, NoCallFS
    <2>3. CASE fds'[u] = fds[u]
      <3>1. \A j \in Slots : HasFile(efs[j], u)' <=> HasFile(efs[j], u)
        BY <2>3 DEF HasFile
      <3> QED
        BY <2>1, <2>3, <3>1 DEF FileInv, NoCallFS, Holds
    <2> QED
      BY <2>1, <2>2, <2>3
  <1>8. FormatInv'
    <2>1. \A j \in Slots : Holds(j) => (Fresh(j) => Fresh(j)')
      BY <1>3, <1>6 DEF Fresh, NoCallFS, NoFile
    <2> QED
      BY <2>1 DEF FormatInv, Holds
  <1> QED
    BY <1>4, <1>5, <1>7, <1>8

(* So does opening a file.                                                  *)
LEMMA OpenStep ==
  ASSUME FsInv, OneFormatter, NEW t \in Tasks, vfs_littlefs_open(t)
  PROVE  FsInv'
  <1> DEFINE c == fsCall[t]
             old == flash[c.path]
             data == IF c.mode = "w" \/ old = None THEN <<>> ELSE old
             ctx == Grown(Ctx(t))
             file == NewFile(t, data)
             d == esp_littlefs_allocate_fd(ctx, file)
             fd == [ctx |-> c.ctx, fd |-> FreePlace(ctx), path |-> c.path]
  <1>1. c.op = "open" /\ IsLive(c.ctx) /\ UNCHANGED <<vfs, format>>
    BY DEF vfs_littlefs_open, Enters
  <1>2. c \in FsCalls /\ c.path \in Files /\ c.ctx \in Contexts
        /\ flash \in [Files -> Seq(Symbols) \union {None}]
    <2>1. c \in FsCalls /\ flash \in [Files -> Seq(Symbols) \union {None}]
      BY DEF FsInv, FsType
    <2>2. c.path \in Files /\ c.ctx # None
      BY <1>1 DEF FsInv, FileInv
    <2> QED
      BY <2>1, <2>2 DEF FsCalls
  <1>3. PICK i \in Slots :
           /\ Holds(i) /\ c.ctx = efs[i].id /\ Slot(c.ctx) = i /\ Ctx(t) = efs[i]
           /\ efs[i] \in ContextRecords /\ efs[i].fd_count = Cardinality(Used(efs[i]))
           /\ Len(efs[i].cache) # 0
           /\ \A u \in Tasks : fds[u].ctx = efs[i].id => HasFile(efs[i], u)
           /\ \A p \in Used(efs[i]) : efs[i].cache[p].task # httpd => ~efs[i].cache[p].dirty
    BY <1>1, Entered
  <1>4. CASE Returns(t, "error") /\ UNCHANGED <<flash, efs, fds>>
    BY <1>1, <1>4, NoCtxStep
  <1>5. CASE /\ SetCtx(t, d)
             /\ fds' = [fds EXCEPT ![t] = fd]
             /\ flash' = IF c.mode = "r" THEN flash ELSE [flash EXCEPT ![c.path] = data]
             /\ Returns(t, "ok")
    <2>1. data \in Seq(Symbols)
      <3>1. <<>> \in Seq(Symbols)
        OBVIOUS
      <3> QED
        BY <1>2, <3>1
    <2>2. file \in OpenFiles /\ file.task = t /\ file.path = c.path /\ ~file.dirty
      BY <1>2, <2>1 DEF NewFile, OpenFiles
    <2>3. /\ ctx \in ContextRecords /\ ctx.id = efs[i].id /\ ctx.mounted = efs[i].mounted
          /\ ctx.fd_count = Cardinality(Used(ctx)) /\ Len(ctx.cache) # 0
          /\ Used(ctx) = Used(efs[i])
          /\ \A p \in DOMAIN efs[i].cache : p \in DOMAIN ctx.cache /\ ctx.cache[p] = efs[i].cache[p]
          /\ FreePlace(ctx) \in DOMAIN ctx.cache \ Used(ctx)
      BY <1>3, GrownContext
    <2> DEFINE p == FreePlace(ctx)
    <2> HIDE DEF file, ctx
    <2>4. /\ d \in ContextRecords /\ d.id = ctx.id /\ d.mounted = ctx.mounted
          /\ d.fd_count = Cardinality(Used(d)) /\ Len(d.cache) = Len(ctx.cache)
          /\ DOMAIN d.cache = DOMAIN ctx.cache /\ Used(d) = Used(ctx) \union {p}
          /\ d.cache[p] = file
          /\ \A q \in DOMAIN ctx.cache \ {p} : d.cache[q] = ctx.cache[q]
      BY <2>2, <2>3, Allocated
    <2>5. p \in Nat /\ p \notin Used(ctx)
      BY <2>3, UsedIsFinite
    <2> HIDE DEF d, p
    <2>6. fd \in FdRecords /\ fd.ctx = efs[i].id /\ fd.ctx # None
      BY <1>2, <1>3, <2>5 DEF FdRecords, p
    <2>7. efs' = [efs EXCEPT ![i] = d]
      BY <1>3, <1>5 DEF SetCtx
    <2>8. \A q \in Used(efs[i]) : q \in DOMAIN d.cache /\ d.cache[q] = efs[i].cache[q]
      BY <2>3, <2>4, <2>5 DEF Used
    <2>9. \A q \in Used(d) : d.cache[q].task # httpd => ~d.cache[q].dirty
      BY <1>3, <2>2, <2>3, <2>4, <2>8
    <2>10. ASSUME NEW u \in Tasks, fds'[u].ctx = efs[i].id
           PROVE  /\ fds'[u].fd \in DOMAIN d.cache
                  /\ d.cache[fds'[u].fd] # None
                  /\ d.cache[fds'[u].fd].task = u
                  /\ d.cache[fds'[u].fd].path = fds'[u].path
      <3>1. CASE u = t
        <4>1. fds'[u] = fd /\ fd.fd = p /\ fd.path = c.path
          BY <1>5, <3>1 DEF FsInv, FsType, p
        <4>2. p \in DOMAIN d.cache /\ d.cache[p] = file /\ file # None
          BY <2>2, <2>3, <2>4 DEF p
        <4> QED
          BY <2>2, <3>1, <4>1, <4>2
      <3>2. CASE u # t
        <4>1. fds'[u] = fds[u]
          BY <1>5, <3>2 DEF FsInv, FsType
        <4>2. HasFile(efs[i], u)
          BY <1>3, <2>10, <4>1
        <4> QED
          BY <2>8, <4>1, <4>2 DEF HasFile, Used
      <3> QED
        BY <3>1, <3>2
    <2>11. flash' \in [Files -> Seq(Symbols) \union {None}]
      BY <1>2, <1>5, <2>1
    <2>12. /\ d.id = efs[i].id /\ d.mounted = efs[i].mounted /\ Len(d.cache) # 0
           /\ fds' = [fds EXCEPT ![t] = fd] /\ Returns(t, "ok")
      BY <1>5, <2>3, <2>4
    <2> HIDE DEF fd
    <2>13. TableChanged(t, i, d, fd)
      BY <2>4, <2>6, <2>7, <2>9, <2>10, <2>11, <2>12 DEF TableChanged
    <2> HIDE DEF c
    <2> QED
      BY <1>1, <1>3, <2>4, <2>6, <2>12, <2>13, CtxStep DEF c
  <1> QED
    BY <1>4, <1>5 DEF vfs_littlefs_open

(* A task's own open file is written to or marked.                          *)
LEMMA WriteStep ==
  ASSUME FsInv, OneFormatter, NEW t \in Tasks, vfs_littlefs_write(t)
  PROVE  FsInv'
  <1> DEFINE p == fds[t].fd
  <1>1. /\ fsCall[t].op = "write" /\ IsLive(fsCall[t].ctx) /\ Owns(t)
        /\ UNCHANGED <<flash, vfs, fds, format>>
    BY DEF vfs_littlefs_write, Enters
  <1>2. PICK i \in Slots :
           /\ Holds(i) /\ fsCall[t].ctx = efs[i].id /\ Slot(fsCall[t].ctx) = i /\ Ctx(t) = efs[i]
           /\ efs[i] \in ContextRecords /\ efs[i].fd_count = Cardinality(Used(efs[i]))
           /\ Len(efs[i].cache) # 0
           /\ \A u \in Tasks : fds[u].ctx = efs[i].id => HasFile(efs[i], u)
           /\ \A q \in Used(efs[i]) : efs[i].cache[q].task # httpd => ~efs[i].cache[q].dirty
    BY <1>1, Entered
  <1>3. p \in Used(efs[i]) /\ efs[i].cache[p].task = t /\ efs[i].cache[p] \in OpenFiles
    <2>1. p \in Used(efs[i]) /\ efs[i].cache[p].task = t
      BY <1>1, <1>2 DEF Owns, Known, FileOf, Used
    <2> QED
      BY <1>2, <2>1, UsedIsFinite
  <1>4. fsCall[t].data \in Seq(Symbols) /\ fds \in [Tasks -> FdRecords]
        /\ flash \in [Files -> Seq(Symbols) \union {None}]
    BY DEF FsInv, FsType, FsCalls
  <1>5. t = httpd
    BY <1>1 DEF FsInv, FileInv
  <1>6. ASSUME NEW file \in OpenFiles, file.task = t, file.path = efs[i].cache[p].path,
               efs' = [efs EXCEPT ![i] = WithFile(efs[i], p, file)],
               NEW result \in {"ok", "error"}, Returns(t, result)
        PROVE  FsInv'
    <2> DEFINE d == WithFile(efs[i], p, file)
    <2> HIDE DEF d, p
    <2>1. d = WithFile(efs[i], p, file)
      BY DEF d
    <2>2. /\ d \in ContextRecords /\ d.id = efs[i].id /\ d.mounted = efs[i].mounted
          /\ d.fd_count = Cardinality(Used(d)) /\ Len(d.cache) = Len(efs[i].cache)
          /\ DOMAIN d.cache = DOMAIN efs[i].cache /\ Used(d) = Used(efs[i])
          /\ d.cache[p] = file
          /\ \A q \in DOMAIN efs[i].cache \ {p} : d.cache[q] = efs[i].cache[q]
      BY <1>2, <1>3, <1>6, <2>1, Rewritten
    <2>3. \A q \in Used(d) : d.cache[q].task # httpd => ~d.cache[q].dirty
      BY <1>2, <1>5, <1>6, <2>2 DEF Used
    <2>4. ASSUME NEW u \in Tasks, fds'[u].ctx = efs[i].id
          PROVE  /\ fds'[u].fd \in DOMAIN d.cache
                 /\ d.cache[fds'[u].fd] # None
                 /\ d.cache[fds'[u].fd].task = u
                 /\ d.cache[fds'[u].fd].path = fds'[u].path
      <3>1. HasFile(efs[i], u) /\ fds'[u] = fds[u]
        BY <1>1, <1>2, <2>4
      <3>2. CASE fds[u].fd = p
        BY <1>3, <1>6, <2>2, <3>1, <3>2 DEF HasFile, Used
      <3>3. CASE fds[u].fd # p
        BY <2>2, <3>1, <3>3 DEF HasFile
      <3> QED
        BY <3>2, <3>3
    <2>5. fds' = [fds EXCEPT ![t] = fds[t]] /\ fds[t] \in FdRecords
      BY <1>1, <1>4
    <2>6. TableChanged(t, i, d, fds[t])
      BY <1>1, <1>2, <1>4, <1>6, <2>1, <2>2, <2>3, <2>4, <2>5 DEF TableChanged, FsInv, FileInv
    <2> QED
      BY <1>1, <1>2, <1>6, <2>2, <2>5, <2>6, CtxStep
  <1> DEFINE old == efs[i].cache[p]
  <1>7. CASE /\ SetCtx(t, [Ctx(t) EXCEPT !.cache[fds[t].fd].data = @ \o fsCall[t].data,
                                          !.cache[fds[t].fd].dirty = TRUE])
             /\ Returns(t, "ok")
    <2> DEFINE data == old.data \o fsCall[t].data
               file == [old EXCEPT !.data = data, !.dirty = TRUE]
    <2>1. file \in OpenFiles /\ file.task = t /\ file.path = old.path
      <3>1. data \in Seq(Symbols)
        BY <1>3, <1>4 DEF OpenFiles
      <3> HIDE DEF data
      <3> QED
        BY <1>3, <3>1 DEF OpenFiles
    <2>2. efs' = [efs EXCEPT ![i] = WithFile(efs[i], p, file)]
      <3> DEFINE c == efs[i]
      <3>1. efs' = [efs EXCEPT ![i] = [c EXCEPT !.cache[p].data = @ \o fsCall[t].data,
                                                !.cache[p].dirty = TRUE]]
        BY <1>2, <1>7 DEF SetCtx
      <3>2. c = [id |-> c.id, mounted |-> c.mounted, fd_count |-> c.fd_count, cache |-> c.cache]
            /\ c.cache \in Seq(OpenFiles \union {None}) /\ p \in DOMAIN c.cache
        BY <1>2, <1>3, UsedIsFinite DEF ContextRecords, Used
      <3> HIDE DEF c, data, p
      <3>3. [c EXCEPT !.cache[p].data = @ \o fsCall[t].data, !.cache[p].dirty = TRUE]
              = WithFile(c, p, [c.cache[p] EXCEPT !.data = @ \o fsCall[t].data, !.dirty = TRUE])
        BY <3>2 DEF WithFile
      <3> QED
        BY <3>1, <3>3 DEF c, data
    <2> HIDE DEF file, p
    <2> QED
      BY <1>6, <1>7, <2>1, <2>2
  <1>8. CASE /\ SetCtx(t, [Ctx(t) EXCEPT !.cache[fds[t].fd].errored = TRUE])
             /\ Returns(t, "error")
    <2> DEFINE file == [old EXCEPT !.errored = TRUE]
    <2>1. file \in OpenFiles /\ file.task = t /\ file.path = old.path
      BY <1>3 DEF OpenFiles
    <2>2. efs' = [efs EXCEPT ![i] = WithFile(efs[i], p, file)]
      BY <1>2, <1>8 DEF SetCtx, WithFile
    <2> HIDE DEF file, p
    <2> QED
      BY <1>6, <1>8, <2>1, <2>2
  <1> QED
    BY <1>7, <1>8 DEF vfs_littlefs_write

(* So does closing one.                                                     *)
LEMMA CloseStep ==
  ASSUME FsInv, OneFormatter, NEW t \in Tasks, vfs_littlefs_close(t)
  PROVE  FsInv'
  <1> DEFINE p == fds[t].fd
             file == FileOf(t)
             synced == IF file.dirty /\ ~file.errored
                       THEN [flash EXCEPT ![file.path] = file.data] ELSE flash
  <1>1. /\ fsCall[t].op = "close" /\ IsLive(fsCall[t].ctx) /\ Owns(t)
        /\ fds' = [fds EXCEPT ![t] = NoFile] /\ UNCHANGED <<vfs, format>>
    BY DEF vfs_littlefs_close, Enters
  <1>2. CASE Returns(t, "error") /\ UNCHANGED <<flash, efs>>
    BY <1>1, <1>2, NoCtxStep
  <1>3. CASE /\ SetCtx(t, esp_littlefs_free_fd(Ctx(t), fds[t].fd))
             /\ flash' = synced
             /\ Returns(t, "ok")
    <2>1. PICK i \in Slots :
             /\ Holds(i) /\ fsCall[t].ctx = efs[i].id /\ Slot(fsCall[t].ctx) = i /\ Ctx(t) = efs[i]
             /\ efs[i] \in ContextRecords /\ efs[i].fd_count = Cardinality(Used(efs[i]))
             /\ Len(efs[i].cache) # 0
             /\ \A u \in Tasks : fds[u].ctx = efs[i].id => HasFile(efs[i], u)
             /\ \A q \in Used(efs[i]) : efs[i].cache[q].task # httpd => ~efs[i].cache[q].dirty
      BY <1>1, Entered
    <2>2. p \in Used(efs[i]) /\ file = efs[i].cache[p] /\ file.task = t /\ file \in OpenFiles
      <3>1. p \in Used(efs[i]) /\ file = efs[i].cache[p] /\ file.task = t
        BY <1>1, <2>1 DEF Owns, Known, FileOf, Used
      <3> QED
        BY <2>1, <3>1, UsedIsFinite
    <2>3. flash' \in [Files -> Seq(Symbols) \union {None}]
      <3>1. flash \in [Files -> Seq(Symbols) \union {None}]
        BY DEF FsInv, FsType
      <3> HIDE DEF file
      <3> QED
        BY <1>3, <2>2, <3>1 DEF OpenFiles
    <2> DEFINE d == esp_littlefs_free_fd(efs[i], p)
    <2> HIDE DEF d, p, file
    <2>4. /\ d \in ContextRecords /\ d.id = efs[i].id /\ d.mounted = efs[i].mounted
          /\ d.fd_count = Cardinality(Used(d)) /\ Len(d.cache) = Len(efs[i].cache)
          /\ DOMAIN d.cache = DOMAIN efs[i].cache /\ Used(d) = Used(efs[i]) \ {p}
          /\ \A q \in DOMAIN efs[i].cache \ {p} : d.cache[q] = efs[i].cache[q]
      <3>1. d = esp_littlefs_free_fd(efs[i], p)
        BY DEF d
      <3> QED
        BY <2>1, <2>2, <3>1, Freed
    <2>5. \A q \in Used(d) : d.cache[q].task # httpd => ~d.cache[q].dirty
      BY <2>1, <2>4 DEF Used
    <2>6. NoFile \in FdRecords /\ NoFile.ctx = None
      BY DEF NoFile, FdRecords
    <2>7. efs[i].id # None
      BY <2>1 DEF ContextRecords
    <2>8. ASSUME NEW u \in Tasks, fds'[u].ctx = efs[i].id
          PROVE  /\ fds'[u].fd \in DOMAIN d.cache
                 /\ d.cache[fds'[u].fd] # None
                 /\ d.cache[fds'[u].fd].task = u
                 /\ d.cache[fds'[u].fd].path = fds'[u].path
      <3>1. u # t /\ fds'[u] = fds[u]
        BY <1>1, <2>6, <2>7, <2>8 DEF FsInv, FsType
      <3>2. HasFile(efs[i], u)
        BY <2>1, <2>8, <3>1
      <3>3. fds[u].fd # p
        BY <2>2, <3>1, <3>2 DEF HasFile
      <3> QED
        BY <2>4, <3>1, <3>2, <3>3 DEF HasFile
    <2>9. efs' = [efs EXCEPT ![i] = d]
      BY <1>3, <2>1 DEF SetCtx, d, p
    <2>10. TableChanged(t, i, d, NoFile)
      BY <1>1, <2>1, <2>3, <2>4, <2>5, <2>6, <2>8, <2>9 DEF TableChanged
    <2> QED
      BY <1>1, <1>3, <2>1, <2>4, <2>6, <2>10, CtxStep
  <1> QED
    BY <1>2, <1>3 DEF vfs_littlefs_close

(* Every operation keeps the invariant of the layer.                        *)
LEMMA OperationStep ==
  ASSUME FsInv, OneFormatter, NEW t \in Tasks, FileOperation(t)
  PROVE  FsInv'
  <1>1. CASE vfs_littlefs_open(t) \/ vfs_littlefs_write(t) \/ vfs_littlefs_close(t)
    BY <1>1, OpenStep, WriteStep, CloseStep
  <1>2. CASE vfs_littlefs_read(t)
    BY <1>2, NoCtxStep DEF vfs_littlefs_read
  <1>3. CASE BadDescriptor(t)
    BY <1>3, NoCtxStep DEF BadDescriptor
  <1>4. CASE OtherFile(t) \/ Deleted(t)
    BY <1>4, FsSame DEF OtherFile, Deleted, FsKept
  <1> QED
    BY <1>1, <1>2, <1>3, <1>4 DEF FileOperation

(* A call that begins finds the context of the mount point: it is there.    *)
CallAllowed(t, c) ==
  /\ c \in FsCalls /\ c.op # "none"
  /\ c.op = "open" => c.path \in Files
  /\ t # httpd => c.mode = "r" /\ c.op # "write"
  /\ t = httpd /\ c.op = "open" => c.mode # "r"

(* So does a call, which finds the context.                                 *)
LEMMA CallStep ==
  ASSUME FsInv, NEW t \in Tasks, NEW c, CallAllowed(t, c), Call(t, c),
         UNCHANGED <<flash, efs, vfs, format>>
  PROVE  FsInv'
  <1> USE DEF FsInv
  <1>1. /\ fds \in [Tasks -> FdRecords] /\ fsCall \in [Tasks -> FsCalls]
        /\ fsResult \in [Tasks -> {"ok", "error"}] /\ vfs \in Contexts \union {None}
    BY DEF FsType
  <1>2. CASE vfs = None \/ (c.op # "open" /\ fds[t] = NoFile)
    <2>1. fsResult' = [fsResult EXCEPT ![t] = "error"] /\ fsCall' = fsCall
          /\ (fds' = fds \/ fds' = [fds EXCEPT ![t] = NoFile])
      BY <1>2 DEF Call
    <2>2. FsType'
      <3>1. NoFile \in FdRecords
        BY DEF NoFile, FdRecords
      <3>2. fds' \in [Tasks -> FdRecords]
        BY <1>1, <2>1, <3>1
      <3> QED
        BY <1>1, <2>1, <3>2 DEF FsType
    <2>3. ContextInv' /\ CleanInv'
      BY DEF ContextInv, CleanInv, Holds, Used
    <2>4. \A i \in Slots : Holds(i) => efs[i].id \in Contexts /\ efs[i].id # None
      BY DEF FsType, Holds, ContextRecords
    <2>5. \A u \in Tasks : fds'[u] \in {fds[u], NoFile}
      BY <1>1, <2>1
    <2>6. ASSUME NEW u \in Tasks
          PROVE  /\ fds'[u].ctx = None => fds'[u] = NoFile
                 /\ \A j \in Slots : Holds(j)' /\ efs'[j].id = fds'[u].ctx => HasFile(efs[j], u)'
      <3>1. CASE fds'[u] = NoFile
        BY <2>4, <3>1 DEF NoFile, Holds
      <3>2. CASE fds'[u] = fds[u]
        BY <3>2 DEF FileInv, Holds, HasFile
      <3> QED
        BY <2>5, <3>1, <3>2
    <2>7. FileInv'
      BY <2>1, <2>6 DEF FileInv
    <2>8. FormatInv'
      <3>1. \A j \in Slots : Holds(j) => (Fresh(j) => Fresh(j)')
        BY <2>1, <2>4, <2>5 DEF Fresh, NoFile
      <3> QED
        BY <3>1 DEF FormatInv, Holds
    <2> QED
      BY <2>2, <2>3, <2>7, <2>8
  <1>3. CASE vfs # None /\ (c.op = "open" \/ fds[t] # NoFile)
    <2>1. fsCall' = [fsCall EXCEPT ![t] = [c EXCEPT !.ctx = vfs]] /\ UNCHANGED <<fsResult, fds>>
      BY <1>3 DEF Call
    <2> DEFINE new == [c EXCEPT !.ctx = vfs]
    <2>2. /\ new \in FsCalls /\ new.ctx = vfs /\ new.op = c.op /\ new.path = c.path
          /\ new.mode = c.mode
      BY <1>1 DEF CallAllowed, FsCalls
    <2> HIDE DEF new
    <2>3. \A u \in Tasks : fsCall'[u] = IF u = t THEN new ELSE fsCall[u]
      BY <1>1, <2>1 DEF new
    <2>4. FsType'
      BY <1>1, <2>1, <2>2 DEF FsType, new
    <2>5. ContextInv' /\ CleanInv'
      BY DEF ContextInv, CleanInv, Holds, Used
    <2>6. FileInv'
      BY <1>3, <2>1, <2>2, <2>3 DEF FileInv, Holds, HasFile, CallAllowed
    <2>7. FormatInv'
      <3>1. \A u \in Tasks : format[u].pc \in Registered
        BY <1>3 DEF FormatInv
      <3> QED
        BY <3>1 DEF FormatInv, Holds, Registered
    <2> QED
      BY <2>4, <2>5, <2>6, <2>7
  <1> QED
    BY <1>2, <1>3

-----------------------------------------------------------------------------
(* The steps of the action "format", while one task formats only            *)

(* A free slot is found, if there is one.                                   *)
LEMMA MinOfSlots ==
  ASSUME NEW S \in SUBSET Slots, S # {}
  PROVE  Min(S) \in S
  BY MinIsLeast DEF Slots

(* A context that has been made has no files, and nothing refers to it.     *)
LEMMA NewContext ==
  ASSUME NEW id \in Contexts, NEW mounted \in BOOLEAN
  PROVE  /\ Context(id, mounted) \in ContextRecords
         /\ Context(id, mounted).id = id /\ Context(id, mounted).mounted = mounted
         /\ Context(id, mounted).fd_count = Cardinality(Used(Context(id, mounted)))
         /\ mounted => Len(Context(id, mounted).cache) # 0
         /\ Used(Context(id, mounted)) = {}
  <1> DEFINE c == Context(id, mounted)
             table == [i \in 1..FD_MIN |-> None]
  <1>1. table \in Seq(OpenFiles \union {None}) /\ Len(table) = FD_MIN /\ DOMAIN table = 1 .. FD_MIN
        /\ \A p \in DOMAIN table : table[p] = None
    BY EspLittleFsAssumption
  <1> HIDE DEF table
  <1>2. c = [id |-> id, mounted |-> mounted, fd_count |-> 0, cache |-> IF mounted THEN table ELSE <<>>]
    BY DEF Context, table
  <1>3. <<>> \in Seq(OpenFiles \union {None}) /\ DOMAIN <<>> = {}
    OBVIOUS
  <1>4. c \in ContextRecords
    BY <1>1, <1>2, <1>3 DEF ContextRecords
  <1>5. Used(c) = {}
    BY <1>1, <1>2, <1>3 DEF Used
  <1>6. c.fd_count = Cardinality(Used(c))
    <2>1. Cardinality({}) = 0
      BY FS_EmptySet
    <2>2. c.fd_count = 0
      BY <1>2
    <2> QED
      BY <1>5, <2>1, <2>2
  <1> HIDE DEF c
  <1> QED
    BY <1>1, <1>2, <1>4, <1>5, <1>6, EspLittleFsAssumption DEF c

(* Nobody refers to a context that was not made yet.                        *)
LEMMA UnusedIsFresh ==
  ASSUME FsInv, Unused # {}
  PROVE  /\ Min(Unused) \in Contexts
         /\ \A t \in Tasks : fds[t].ctx # Min(Unused) /\ fsCall[t].ctx # Min(Unused)
  <1>1. Unused \in SUBSET Nat
    BY EspLittleFsAssumption DEF Unused
  <1>2. Min(Unused) \in Unused
    BY <1>1, MinIsLeast
  <1> QED
    BY <1>2 DEF Unused

(* Only the task that formats can be in its steps.                          *)
LEMMA OthersIdle ==
  ASSUME FsInv, OneFormatter, NEW t \in Formatters
  PROVE  /\ t \in Tasks /\ format \in [Tasks -> FormatStates]
         /\ \A u \in Tasks : u # t => format[u].pc = "idle"
  BY UploadsAssumption DEF FsInv, FormatInv, FsType, OneFormatter

(* What holds where the task that formats is                                *)
FormatStateInv(pc, slot, tmp) ==
  /\ pc \in Registered => \E s \in Slots : Holds(s) /\ efs[s].id = vfs /\ efs[s].mounted
  /\ pc \notin Registered => vfs = None
  /\ pc \in {"free", "erase", "freeTmp", "register"} => slot \in Slots /\ Holds(slot)
  /\ pc \in {"free", "register"} => efs[slot].mounted
  /\ pc \in {"format", "init"} => \A s \in Slots : ~Holds(s)
  /\ pc \in {"erase", "freeTmp", "register"} => Fresh(slot)
  /\ pc = "erase" => tmp

(* What the invariant says of the one task that formats.                    *)
LEMMA FormatInvIs ==
  ASSUME FsInv, OneFormatter, NEW t \in Formatters
  PROVE  FormatStateInv(format[t].pc, format[t].slot, format[t].tmp)
  <1>1. t \in Tasks /\ \A u \in Tasks : u # t => format[u].pc = "idle"
    BY OthersIdle
  <1>2. format[t].pc \in Registered => \A u \in Tasks : format[u].pc \in Registered
    BY <1>1 DEF Registered
  <1> QED
    BY <1>1, <1>2 DEF FsInv, FormatInv, FormatStateInv

(* It is enough to know where that task is.                                 *)
LEMMA FormatInvStep ==
  ASSUME FsInv, OneFormatter, NEW t \in Formatters, NEW pc, NEW slot, NEW tmp,
         Go(t, pc, slot, tmp), FormatStateInv(pc, slot, tmp)'
  PROVE  FormatInv'
  <1>1. t \in Tasks /\ format \in [Tasks -> FormatStates]
        /\ \A u \in Tasks : u # t => format[u].pc = "idle"
    BY OthersIdle
  <1>2. /\ format'[t].pc = pc /\ format'[t].slot = slot /\ format'[t].tmp = tmp
        /\ \A u \in Tasks : u # t => format'[u].pc = "idle"
    BY <1>1 DEF Go
  <1>3. (\A u \in Tasks : format'[u].pc \in Registered) =>
           \E s \in Slots : Holds(s)' /\ efs'[s].id = vfs' /\ efs'[s].mounted
    BY <1>1, <1>2 DEF FormatStateInv
  <1>4. ASSUME NEW u \in Tasks
        PROVE  /\ format'[u].pc # "idle" => u \in Formatters
               /\ format'[u].pc \notin Registered => vfs' = None
               /\ format'[u].pc \in {"free", "erase", "freeTmp", "register"} =>
                    format'[u].slot \in Slots /\ Holds(format[u].slot)'
               /\ format'[u].pc \in {"free", "register"} => efs'[format'[u].slot].mounted
               /\ format'[u].pc \in {"format", "init"} => \A s \in Slots : ~Holds(s)'
               /\ format'[u].pc \in {"erase", "freeTmp", "register"} => Fresh(format[u].slot)'
               /\ format'[u].pc = "erase" => format'[u].tmp
    <2>1. CASE u = t
      BY <1>2, <2>1 DEF FormatStateInv, Holds, Fresh
    <2>2. CASE u # t
      BY <1>2, <2>2 DEF Registered
    <2> QED
      BY <2>1, <2>2
  <1> QED
    BY <1>3, <1>4 DEF FormatInv

(* No context is left, or one that nothing refers to: what was open is      *)
(* gone.                                                                    *)
LEMMA ContextGone ==
  ASSUME FsInv, NEW i \in Slots, efs' = [efs EXCEPT ![i] = None],
         \A j \in Slots : Holds(j) => j = i,
         UNCHANGED <<fds, fsCall>>
  PROVE  ContextInv' /\ FileInv' /\ CleanInv' /\ efs' \in [Slots -> ContextRecords \union {None}]
         /\ \A j \in Slots : ~Holds(j)'
  <1>1. efs \in [Slots -> ContextRecords \union {None}]
    BY DEF FsInv, FsType
  <1>2. \A j \in Slots : ~Holds(j)'
    BY <1>1 DEF Holds
  <1>3. efs' \in [Slots -> ContextRecords \union {None}]
    BY <1>1
  <1> QED
    BY <1>2, <1>3 DEF FsInv, ContextInv, FileInv, CleanInv

Makes(i, id, mounted) ==
  /\ efs' = [efs EXCEPT ![i] = Context(id, mounted)]
  /\ \A j \in Slots : Holds(j) => j = i
  /\ \A t \in Tasks : fds[t].ctx # id /\ fsCall[t].ctx # id
  /\ UNCHANGED <<fds, fsCall>>

(* A new context is in its slot, and no one else's.                         *)
LEMMA ContextMade ==
  ASSUME FsInv, NEW i \in Slots, NEW id \in Contexts, NEW mounted \in BOOLEAN,
         Makes(i, id, mounted)
  PROVE  /\ ContextInv' /\ FileInv' /\ CleanInv' /\ efs' \in [Slots -> ContextRecords \union {None}]
         /\ Holds(i)' /\ Fresh(i)' /\ efs'[i].id = id /\ efs'[i].mounted = mounted
  <1> USE DEF Makes
  <1> DEFINE c == Context(id, mounted)
  <1>1. efs \in [Slots -> ContextRecords \union {None}]
    BY DEF FsInv, FsType
  <1>2. /\ c \in ContextRecords /\ c.id = id /\ c.mounted = mounted
        /\ c.fd_count = Cardinality(Used(c)) /\ (mounted => Len(c.cache) # 0) /\ Used(c) = {}
    BY NewContext
  <1> HIDE DEF c
  <1>3. efs' = [efs EXCEPT ![i] = c]
    BY DEF c
  <1>4. /\ efs'[i] = c /\ c # None /\ \A j \in Slots : Holds(j)' => j = i
        /\ efs' \in [Slots -> ContextRecords \union {None}]
    BY <1>1, <1>2, <1>3 DEF Holds
  <1>5. ContextInv'
    <2>1. \A j \in Slots : Holds(j)' =>
            /\ \A k \in Slots : Holds(k)' => j = k
            /\ efs'[j].fd_count = Cardinality(Used(efs'[j]))
            /\ efs'[j].mounted => Len(efs'[j].cache) # 0
      BY <1>2, <1>4
    <2> QED
      BY <2>1 DEF ContextInv, Used
  <1>6. CleanInv'
    <2>1. \A j \in Slots : Holds(j)' => Used(efs'[j]) = {}
      BY <1>2, <1>4
    <2> QED
      BY <2>1 DEF CleanInv, Used
  <1>7. FileInv'
    <2>1. \A j \in Slots : Holds(j)' => efs'[j].id = id
      BY <1>2, <1>4
    <2> QED
      BY <2>1 DEF FsInv, FileInv
  <1>8. Fresh(i)' /\ Holds(i)' /\ efs'[i].id = id /\ efs'[i].mounted = mounted
    BY <1>2, <1>4 DEF Fresh, Holds
  <1> QED
    BY <1>4, <1>5, <1>6, <1>7, <1>8

(* The steps of the action keep the invariant.                              *)
LEMMA FormatStepKeeps ==
  ASSUME FsInv, OneFormatter, NEW t \in Formatters, FormatStep(t) \/ StartFormat(t)
  PROVE  FsInv'
  <1>1. /\ t \in Tasks /\ format \in [Tasks -> FormatStates] /\ FormatStateInv(format[t].pc, format[t].slot, format[t].tmp)
        /\ efs \in [Slots -> ContextRecords \union {None}] /\ vfs \in Contexts \union {None}
        /\ fds \in [Tasks -> FdRecords]
    BY OthersIdle, FormatInvIs DEF FsInv, FsType
  <1>2. ASSUME NEW pc \in FormatSteps, NEW slot \in Slots \union {0}, NEW tmp \in BOOLEAN,
               Go(t, pc, slot, tmp), UNCHANGED <<fsCall, fsResult>>,
               flash' \in [Files -> Seq(Symbols) \union {None}],
               efs' \in [Slots -> ContextRecords \union {None}], vfs' \in Contexts \union {None},
               fds' \in [Tasks -> FdRecords], ContextInv', FileInv', CleanInv', FormatStateInv(pc, slot, tmp)'
        PROVE  FsInv'
    <2>1. FormatInv'
      BY <1>2, FormatInvStep
    <2>2. [pc |-> pc, slot |-> slot, tmp |-> tmp] \in FormatStates
      BY DEF FormatStates
    <2>3. format' \in [Tasks -> FormatStates]
      BY <1>1, <1>2, <2>2 DEF Go
    <2> QED
      BY <1>2, <2>1, <2>3 DEF FsInv, FsType
  <1>4. flash \in [Files -> Seq(Symbols) \union {None}] /\ ContextInv /\ FileInv /\ CleanInv
    BY DEF FsInv, FsType
  <1>5. \A i, j \in Slots : Holds(i) /\ Holds(j) => i = j
    BY <1>4 DEF ContextInv
  <1>6. Found <=> \E i \in Slots : Holds(i)
    BY DEF Found, Holds
  <1>7. Found => esp_littlefs_by_label \in Slots /\ Holds(esp_littlefs_by_label)
    <2> DEFINE S == {i \in Slots : efs[i] # None}
    <2>1. Found => S \in SUBSET Slots /\ S # {}
      BY DEF Found
    <2>2. Found => Min(S) \in S
      BY <2>1, MinOfSlots
    <2> QED
      BY <2>2 DEF esp_littlefs_by_label, Holds
  <1>8. ~Found => Min(EmptySlots) \in Slots
    <2>1. ~Found => EmptySlots = Slots
      BY DEF Found, EmptySlots
    <2>2. 1 \in Slots /\ Slots \in SUBSET Slots
      BY EspLittleFsAssumption DEF Slots
    <2> QED
      BY <2>1, <2>2, MinOfSlots
  <1> USE DEF FormatStateInv, Registered
  <1>10. CASE StartFormat(t)
    <2>1. Go(t, "unregister", 0, FALSE) /\ UNCHANGED <<flash, efs, vfs, fds, fsCall, fsResult>>
          /\ format[t].pc = "idle"
      BY <1>10 DEF StartFormat, At
    <2>2. FormatStateInv("unregister", 0, FALSE)'
      BY <1>1, <2>1 DEF Holds
    <2>3. ContextInv' /\ CleanInv'
      BY <1>4, <2>1 DEF ContextInv, CleanInv, Holds, Used
    <2>4. FileInv'
      BY <1>4, <2>1 DEF FileInv, Holds, HasFile
    <2> QED
      BY <1>1, <1>2, <1>4, <2>1, <2>2, <2>3, <2>4 DEF FormatSteps
  <1>11. CASE Unregister(t)
    <2>1. At(t, "unregister") /\ UNCHANGED <<flash, efs, fsCall, fsResult>>
      BY <1>11 DEF Unregister
    <2>2. PICK label \in Slots : /\ Found /\ label = esp_littlefs_by_label
                                /\ Holds(label) /\ efs[label].id = vfs /\ efs[label].mounted
      BY <1>1, <1>5, <1>6, <1>7, <2>1 DEF At
    <2>3. /\ vfs' = None /\ Go(t, "free", label, FALSE)
          /\ fds' = [u \in Tasks |-> IF fds[u].ctx = vfs THEN NoFile ELSE fds[u]]
      BY <1>11, <2>2 DEF Unregister
    <2>4. NoFile \in FdRecords /\ NoFile.ctx = None
      BY DEF NoFile, FdRecords
    <2>5. fds' \in [Tasks -> FdRecords]
      BY <1>1, <2>3, <2>4
    <2>6. FormatStateInv("free", label, FALSE)'
      BY <2>1, <2>2, <2>3 DEF Holds
    <2>7. ContextInv' /\ CleanInv'
      BY <1>4, <2>1 DEF ContextInv, CleanInv, Holds, Used
    <2>8. \A i \in Slots : Holds(i) => efs[i].id # None
      BY <1>1 DEF Holds, ContextRecords
    <2>9. ASSUME NEW u \in Tasks
          PROVE  /\ fds'[u].ctx = None => fds'[u] = NoFile
                 /\ \A j \in Slots : Holds(j)' /\ efs'[j].id = fds'[u].ctx => HasFile(efs[j], u)'
      <3>1. CASE fds'[u] = NoFile
        BY <2>1, <2>4, <2>8, <3>1 DEF Holds
      <3>2. CASE fds'[u] = fds[u]
        BY <1>4, <2>1, <3>2 DEF FileInv, Holds, HasFile
      <3> QED
        BY <2>3, <3>1, <3>2
    <2>10. FileInv'
      BY <1>4, <2>1, <2>9 DEF FileInv
    <2> QED
      BY <1>1, <1>2, <1>4, <2>1, <2>2, <2>3, <2>5, <2>6, <2>7, <2>10 DEF FormatSteps
  <1>12. CASE esp_littlefs_free(t)
    <2>1. /\ At(t, "free") /\ efs' = [efs EXCEPT ![format[t].slot] = None]
          /\ Go(t, "format", 0, FALSE) /\ UNCHANGED <<flash, vfs, fds, fsCall, fsResult>>
      BY <1>12 DEF esp_littlefs_free
    <2>2. format[t].slot \in Slots /\ Holds(format[t].slot) /\ vfs = None
      BY <1>1, <2>1 DEF At
    <2>3. ContextInv' /\ FileInv' /\ CleanInv' /\ efs' \in [Slots -> ContextRecords \union {None}]
          /\ \A j \in Slots : ~Holds(j)'
      BY <1>5, <2>1, <2>2, ContextGone
    <2>4. FormatStateInv("format", 0, FALSE)'
      BY <2>1, <2>2, <2>3
    <2> QED
      BY <1>1, <1>2, <1>4, <2>1, <2>3, <2>4 DEF FormatSteps
  <1>13. CASE FormatContext(t)
    <2>1. At(t, "format") /\ UNCHANGED <<flash, vfs, fds, fsCall, fsResult>>
      BY <1>13 DEF FormatContext
    <2>2. ~Found /\ vfs = None /\ \A i \in Slots : ~Holds(i)
      BY <1>1, <1>6, <2>1 DEF At
    <2>7. Unused # {}
      BY <1>13, <2>2 DEF FormatContext
    <2>8. PICK i \in Slots : i = Min(EmptySlots)
      BY <1>8, <2>2
    <2>4. PICK id \in Contexts : /\ id = Min(Unused)
                                /\ \A u \in Tasks : fds[u].ctx # id /\ fsCall[u].ctx # id
      BY <2>7, UnusedIsFresh
    <2>3. efs' = [efs EXCEPT ![i] = Context(id, FALSE)] /\ Go(t, "erase", i, TRUE)
      BY <1>13, <2>2, <2>4, <2>8 DEF FormatContext, esp_littlefs_init
    <2>5. ContextInv' /\ FileInv' /\ CleanInv' /\ efs' \in [Slots -> ContextRecords \union {None}]
          /\ Holds(i)' /\ Fresh(i)'
      <3>1. Makes(i, id, FALSE)
        BY <2>1, <2>2, <2>3, <2>4 DEF Makes
      <3> QED
        BY <2>4, <3>1, ContextMade
    <2>6. FormatStateInv("erase", i, TRUE)'
      BY <2>1, <2>2, <2>3, <2>5
    <2> QED
      BY <1>1, <1>2, <1>4, <2>1, <2>3, <2>5, <2>6 DEF FormatSteps
  <1>14. CASE FormatFlash(t)
    <2>1. At(t, "erase") /\ UNCHANGED <<vfs, fds, fsCall, fsResult>>
      BY <1>14 DEF FormatFlash
    <2>2. PICK i \in Slots : i = format[t].slot /\ Holds(i) /\ Fresh(i) /\ format[t].tmp /\ vfs = None
      BY <1>1, <2>1 DEF At
    <2>4. PICK id \in Contexts, mounted \in BOOLEAN :
            /\ efs[i].id = id /\ efs[i].mounted = mounted
            /\ \A u \in Tasks : fds[u].ctx # id /\ fsCall[u].ctx # id
      BY <1>1, <2>2 DEF Holds, ContextRecords, Fresh
    <2>3. /\ flash' = [f \in Files |-> None]
          /\ efs' = [efs EXCEPT ![i] = Context(id, mounted)]
          /\ Go(t, "freeTmp", i, FALSE)
      BY <1>14, <2>2, <2>4 DEF FormatFlash, Holds
    <2>5. ContextInv' /\ FileInv' /\ CleanInv' /\ efs' \in [Slots -> ContextRecords \union {None}]
          /\ Holds(i)' /\ Fresh(i)'
      <3>1. Makes(i, id, mounted)
        BY <1>5, <2>1, <2>2, <2>3, <2>4 DEF Makes
      <3> QED
        BY <3>1, ContextMade, ZenonT(30)
    <2>6. FormatStateInv("freeTmp", i, FALSE)'
      BY <2>1, <2>2, <2>3, <2>5
    <2>7. flash' \in [Files -> Seq(Symbols) \union {None}]
      BY <2>3
    <2> QED
      BY <1>1, <1>2, <2>1, <2>2, <2>3, <2>5, <2>6, <2>7 DEF FormatSteps
  <1>15. CASE FreeTemporary(t)
    <2>1. /\ At(t, "freeTmp") /\ efs' = [efs EXCEPT ![format[t].slot] = None]
          /\ Go(t, "init", 0, FALSE) /\ UNCHANGED <<flash, vfs, fds, fsCall, fsResult>>
      BY <1>15 DEF FreeTemporary
    <2>2. format[t].slot \in Slots /\ Holds(format[t].slot) /\ vfs = None
      BY <1>1, <2>1 DEF At
    <2>3. ContextInv' /\ FileInv' /\ CleanInv' /\ efs' \in [Slots -> ContextRecords \union {None}]
          /\ \A j \in Slots : ~Holds(j)'
      BY <1>5, <2>1, <2>2, ContextGone
    <2>4. FormatStateInv("init", 0, FALSE)'
      BY <2>1, <2>2, <2>3
    <2> QED
      BY <1>1, <1>2, <1>4, <2>1, <2>3, <2>4 DEF FormatSteps
  <1>16. CASE InitContext(t)
    <2>1. At(t, "init") /\ UNCHANGED <<flash, vfs, fds, fsCall, fsResult>>
      BY <1>16 DEF InitContext
    <2>2. ~Found /\ vfs = None /\ \A i \in Slots : ~Holds(i)
      BY <1>1, <1>6, <2>1 DEF At
    <2>7. Unused # {}
      BY <1>16, <2>2 DEF InitContext
    <2>8. PICK i \in Slots : i = Min(EmptySlots)
      BY <1>8, <2>2
    <2>4. PICK id \in Contexts : /\ id = Min(Unused)
                                /\ \A u \in Tasks : fds[u].ctx # id /\ fsCall[u].ctx # id
      BY <2>7, UnusedIsFresh
    <2>3. efs' = [efs EXCEPT ![i] = Context(id, TRUE)] /\ Go(t, "register", i, FALSE)
      BY <1>16, <2>2, <2>4, <2>8 DEF InitContext, esp_littlefs_init
    <2>5. ContextInv' /\ FileInv' /\ CleanInv' /\ efs' \in [Slots -> ContextRecords \union {None}]
          /\ Holds(i)' /\ Fresh(i)' /\ efs'[i].mounted
      <3>1. Makes(i, id, TRUE)
        BY <2>1, <2>2, <2>3, <2>4 DEF Makes
      <3> QED
        BY <2>4, <3>1, ContextMade
    <2>6. FormatStateInv("register", i, FALSE)'
      BY <2>1, <2>2, <2>3, <2>5
    <2> QED
      BY <1>1, <1>2, <1>4, <2>1, <2>3, <2>5, <2>6 DEF FormatSteps
  <1>17. CASE Register(t)
    <2> DEFINE i == format[t].slot
    <2>1. At(t, "register") /\ UNCHANGED <<flash, efs, fds, fsCall, fsResult>>
          /\ Go(t, "idle", 0, FALSE)
      BY <1>17 DEF Register
    <2>2. i \in Slots /\ Holds(i) /\ efs[i].mounted
      BY <1>1, <2>1 DEF At
    <2>3. vfs' = efs[i].id /\ efs[i].id \in Contexts
      BY <1>1, <1>17, <2>2 DEF Register, Holds, ContextRecords
    <2>4. ContextInv' /\ CleanInv'
      BY <1>4, <2>1 DEF ContextInv, CleanInv, Holds, Used
    <2>5. FileInv'
      BY <1>4, <2>1 DEF FileInv, Holds, HasFile
    <2>6. FormatStateInv("idle", 0, FALSE)'
      BY <2>1, <2>2, <2>3 DEF Holds
    <2> QED
      BY <1>1, <1>2, <1>4, <2>1, <2>3, <2>4, <2>5, <2>6 DEF FormatSteps
  <1> QED
    BY <1>10, <1>11, <1>12, <1>13, <1>14, <1>15, <1>16, <1>17 DEF FormatStep

(* The handler's own file is open during a callback only.                   *)
ServerInv ==
  /\ handler.pc \notin {"opening", "writing", "closing"} =>
       fds[httpd] = NoFile /\ fsCall[httpd].op = "none"
  /\ handler.pc = "opening" =>
       /\ fsCall[httpd].op \in {"none", "open"}
       /\ fsCall[httpd].op = "open" \/ fsResult[httpd] = "error" => fds[httpd] = NoFile
  /\ handler.pc = "writing" => fsCall[httpd].op \in {"none", "write"}
  /\ handler.pc = "closing" => /\ fsCall[httpd].op \in {"none", "close"}
                               /\ fsCall[httpd].op = "none" => fds[httpd] = NoFile

FilesInv == FsInv /\ ServerInv /\ RequestInv

-----------------------------------------------------------------------------
(* The tasks that the system has.                                           *)
LEMMA TasksAre == httpd \in Tasks /\ Readers \subseteq Tasks /\ Formatters \subseteq Tasks /\ httpd \notin Readers
  OBVIOUS

(* A task without a call or a file is described like the others.            *)
LEMMA NoCallIsCall ==
  /\ NoCallFS \in FsCalls
  /\ NoFile \in FdRecords
  <1>1. <<>> \in Seq(Symbols)
    OBVIOUS
  <1> QED
    BY <1>1 DEF NoCallFS, NoFile, FsCalls, FdRecords

(* At the start one partition is mounted and no file is open.               *)
LEMMA InitFilesInv == InitUploads => FilesInv
  <1> SUFFICES ASSUME InitUploads PROVE FilesInv
    OBVIOUS
  <1>1. /\ flash \in {[f \in Files |-> None], [f \in Files |-> <<"o">>]}
        /\ efs = [i \in Slots |-> IF i = 1 THEN Context(1, TRUE) ELSE None]
        /\ vfs = 1
        /\ fds = [t \in Tasks |-> NoFile]
        /\ fsCall = [t \in Tasks |-> NoCallFS]
        /\ fsResult = [t \in Tasks |-> "ok"]
        /\ format = [t \in Tasks |-> [pc |-> "idle", slot |-> 0, tmp |-> FALSE]]
        /\ handler = NoHandler /\ request = NoRequest
    BY DEF InitUploads, InitFS
  <1> DEFINE c == Context(1, TRUE)
  <1>2. /\ c \in ContextRecords /\ c.id = 1 /\ c.mounted /\ c.fd_count = Cardinality(Used(c))
        /\ Len(c.cache) # 0 /\ Used(c) = {} /\ c # None /\ 1 \in Contexts /\ 1 \in Slots
    <2>1. c \in ContextRecords /\ c.id = 1 /\ c.mounted = TRUE /\ c.fd_count = Cardinality(Used(c))
          /\ Len(c.cache) # 0 /\ Used(c) = {}
      BY NewContext
    <2>2. 1 \in Slots
      BY DEF Slots
    <2> QED
      BY <2>1, <2>2
  <1> HIDE DEF c
  <1>3. \A i \in Slots : Holds(i) <=> i = 1
    BY <1>1, <1>2 DEF Holds, c
  <1>4. efs[1] = c
    BY <1>1, <1>2 DEF c
  <1>5. FsType
    <2>1. <<"o">> \in Seq(Symbols)
      OBVIOUS
    <2>2. flash \in [Files -> Seq(Symbols) \union {None}]
      BY <1>1, <2>1
    <2>3. efs \in [Slots -> ContextRecords \union {None}]
      BY <1>1, <1>2 DEF c
    <2>4. [pc |-> "idle", slot |-> 0, tmp |-> FALSE] \in FormatStates
      BY DEF FormatStates, FormatSteps
    <2>5. fds \in [Tasks -> FdRecords] /\ fsCall \in [Tasks -> FsCalls]
      BY <1>1, NoCallIsCall
    <2>6. fsResult \in [Tasks -> {"ok", "error"}] /\ format \in [Tasks -> FormatStates]
      BY <1>1, <2>4
    <2> QED
      BY <1>1, <1>2, <2>2, <2>3, <2>5, <2>6 DEF FsType
  <1>6. ContextInv
    BY <1>2, <1>3, <1>4 DEF ContextInv
  <1>7. FileInv
    BY <1>1, <1>2, <1>3, <1>4 DEF FileInv, NoFile, NoCallFS
  <1>8. CleanInv
    BY <1>2, <1>3, <1>4 DEF CleanInv
  <1>9. FormatInv
    <2>1. \A t \in Tasks : format[t].pc = "idle"
      BY <1>1
    <2> QED
      BY <1>1, <1>2, <1>3, <1>4, <2>1 DEF FormatInv, Registered
  <1>10. ServerInv /\ RequestInv
    BY <1>1, TasksAre DEF ServerInv, RequestInv, NoHandler, NoFile, NoCallFS
  <1> QED
    BY <1>5, <1>6, <1>7, <1>8, <1>9, <1>10 DEF FilesInv, FsInv

(* What is the handler's own of the layer changes by its own calls and by   *)
(* unregistering only.                                                      *)
Entry(t) == <<fds[t], fsCall[t], fsResult[t]>>

(* Other tasks' operations leave the handler's descriptor and call alone.   *)
LEMMA OthersEntry ==
  ASSUME FsInv, NEW t \in Tasks, FileOperation(t), NEW u \in Tasks \ {t}
  PROVE  fds'[u] = fds[u] /\ fsCall'[u] = fsCall[u] /\ fsResult'[u] = fsResult[u]
  <1>1. /\ fds \in [Tasks -> FdRecords] /\ fsCall \in [Tasks -> FsCalls]
        /\ fsResult \in [Tasks -> {"ok", "error"}]
    BY DEF FsInv, FsType
  <1>2. \A result : Returns(t, result) => fsCall'[u] = fsCall[u] /\ fsResult'[u] = fsResult[u]
    BY <1>1 DEF Returns
  <1>3. \A x : fds' = [fds EXCEPT ![t] = x] => fds'[u] = fds[u]
    BY <1>1
  <1>4. CASE vfs_littlefs_open(t)
    <2>1. \E result : Returns(t, result)
      BY <1>4 DEF vfs_littlefs_open
    <2>2. fds' = fds \/ \E x : fds' = [fds EXCEPT ![t] = x]
      BY <1>4 DEF vfs_littlefs_open
    <2> QED
      BY <1>2, <1>3, <2>1, <2>2
  <1>5. CASE vfs_littlefs_write(t) \/ vfs_littlefs_read(t)
    <2>1. (\E result : Returns(t, result)) /\ fds' = fds
      BY <1>5 DEF vfs_littlefs_write, vfs_littlefs_read
    <2> QED
      BY <1>2, <2>1
  <1>6. CASE vfs_littlefs_close(t)
    <2>1. (\E result : Returns(t, result)) /\ fds' = [fds EXCEPT ![t] = NoFile]
      BY <1>6 DEF vfs_littlefs_close
    <2> QED
      BY <1>2, <1>3, <2>1
  <1>7. CASE BadDescriptor(t)
    <2>1. (\E result : Returns(t, result)) /\ (fds' = fds \/ fds' = [fds EXCEPT ![t] = NoFile])
      BY <1>7 DEF BadDescriptor
    <2> QED
      BY <1>2, <1>3, <2>1
  <1>8. CASE OtherFile(t) \/ Deleted(t)
    BY <1>8 DEF OtherFile, Deleted
  <1> QED
    BY <1>4, <1>5, <1>6, <1>7, <1>8 DEF FileOperation

(* The handler's call returns with the descriptor its step expects.         *)
LEMMA ServerOperation ==
  ASSUME FsInv, ServerInv, NEW t \in Tasks, FileOperation(t), UNCHANGED handler
  PROVE  ServerInv'
  <1>1. /\ fds \in [Tasks -> FdRecords] /\ fsCall \in [Tasks -> FsCalls]
        /\ fsResult \in [Tasks -> {"ok", "error"}] /\ httpd \in Tasks
    BY DEF FsInv, FsType
  <1>2. CASE t # httpd
    <2>1. /\ fds'[httpd] = fds[httpd] /\ fsCall'[httpd] = fsCall[httpd]
          /\ fsResult'[httpd] = fsResult[httpd]
      BY <1>1, <1>2, OthersEntry
    <2> QED
      BY <2>1 DEF ServerInv
  <1>3. CASE t = httpd
    <2>1. NoCallFS.op = "none"
      BY DEF NoCallFS
    <2>2. \A result \in {"ok", "error"} : Returns(httpd, result) =>
             fsCall'[httpd].op = "none" /\ fsResult'[httpd] = result
      BY <1>1, <2>1 DEF Returns
    <2>3. CASE vfs_littlefs_open(httpd)
      <3>1. fsCall[httpd].op = "open" /\ handler.pc = "opening" /\ fds[httpd] = NoFile
        BY <2>3 DEF vfs_littlefs_open, Enters, ServerInv
      <3>2. fsCall'[httpd].op = "none" /\ (fsResult'[httpd] = "error" => fds' = fds)
        BY <2>2, <2>3 DEF vfs_littlefs_open
      <3> QED
        BY <3>1, <3>2 DEF ServerInv
    <2>4. CASE vfs_littlefs_write(httpd) \/ vfs_littlefs_read(httpd)
      <3>1. fsCall[httpd].op \in {"write", "read"} /\ fsCall'[httpd].op = "none"
        BY <2>2, <2>4 DEF vfs_littlefs_write, vfs_littlefs_read, Enters
      <3> QED
        BY <3>1 DEF ServerInv
    <2>5. CASE vfs_littlefs_close(httpd)
      <3>1. fsCall[httpd].op = "close" /\ fsCall'[httpd].op = "none"
            /\ fds' = [fds EXCEPT ![httpd] = NoFile]
        BY <2>2, <2>5 DEF vfs_littlefs_close, Enters
      <3>2. fds'[httpd] = NoFile
        BY <1>1, <3>1
      <3> QED
        BY <3>1, <3>2 DEF ServerInv
    <2>6. CASE BadDescriptor(httpd)
      <3>1. fsCall[httpd].op \in {"write", "read", "close"} /\ fsCall'[httpd].op = "none"
            /\ fds' = IF fsCall[httpd].op = "close" THEN [fds EXCEPT ![httpd] = NoFile] ELSE fds
        BY <2>2, <2>6 DEF BadDescriptor
      <3>2. fsCall[httpd].op = "close" => fds'[httpd] = NoFile
        BY <1>1, <3>1
      <3> QED
        BY <3>1, <3>2 DEF ServerInv
    <2>7. CASE OtherFile(httpd) \/ Deleted(httpd)
      BY <2>7 DEF OtherFile, Deleted, ServerInv
    <2> QED
      BY <1>3, <2>3, <2>4, <2>5, <2>6, <2>7 DEF FileOperation
  <1> QED
    BY <1>2, <1>3

(* Formatting takes files away, and leaves the calls alone.                 *)
LEMMA FormatEntries ==
  ASSUME FsInv, NEW t \in Formatters, FormatStep(t) \/ StartFormat(t)
  PROVE  UNCHANGED <<fsCall, fsResult>> /\ \A u \in Tasks : fds'[u] \in {fds[u], NoFile}
  <1>1. fds \in [Tasks -> FdRecords]
    BY DEF FsInv, FsType
  <1>2. CASE Unregister(t)
    BY <1>1, <1>2 DEF Unregister
  <1>3. CASE ~Unregister(t)
    BY <1>3 DEF FormatStep, StartFormat, esp_littlefs_free, FormatContext, FormatFlash, FreeTemporary,
                InitContext, Register
  <1> QED
    BY <1>2, <1>3

(* The steps of other tasks keep the invariant of the files.                *)
LEMMA OthersFilesInv ==
  ASSUME IInv, FilesInv, OneFormatter, OtherStep
  PROVE  FilesInv'
  <1> USE DEF FilesInv
  <1>1. UNCHANGED <<handler, request>>
    BY DEF OtherStep, FileSystem, Read, FormatFiles, SdCommand, UsesStorage
  <1>2. RequestInv'
    BY <1>1 DEF RequestInv
  <1>3. CASE \E t \in Tasks : FileSystem(t)
    BY <1>1, <1>2, <1>3, OperationStep, ServerOperation DEF FileSystem
  <1>4. ASSUME NEW t \in Readers, Read(t) PROVE FilesInv'
    <2>1. t \in Tasks /\ httpd \in Tasks /\ t # httpd
      BY TasksAre
    <2>2. UNCHANGED <<flash, efs, vfs, format>>
      BY <1>4 DEF Read
    <2>3. PICK c : Call(t, c) /\ CallAllowed(t, c)
      <3>1. CASE \E f \in Files : Call(t, [NoCallFS EXCEPT !.op = "open", !.path = f])
        <4>1. \A f \in Files : CallAllowed(t, [NoCallFS EXCEPT !.op = "open", !.path = f])
          <5>1. <<>> \in Seq(Symbols)
            OBVIOUS
          <5> QED
            BY <2>1, <5>1 DEF CallAllowed, NoCallFS, FsCalls
        <4> QED
          BY <3>1, <4>1
      <3>2. CASE \E op \in {"read", "close"} : Call(t, [NoCallFS EXCEPT !.op = op])
        <4>1. \A op \in {"read", "close"} : CallAllowed(t, [NoCallFS EXCEPT !.op = op])
          <5>1. <<>> \in Seq(Symbols)
            OBVIOUS
          <5> QED
            BY <2>1, <5>1 DEF CallAllowed, NoCallFS, FsCalls
        <4> QED
          BY <3>2, <4>1
      <3> QED
        BY <1>4, <3>1, <3>2 DEF Read
    <2>4. FsInv'
      BY <2>1, <2>2, <2>3, CallStep
    <2>5. /\ fds'[httpd] = fds[httpd] /\ fsCall'[httpd] = fsCall[httpd]
          /\ fsResult'[httpd] = fsResult[httpd]
      <3>1. /\ fds \in [Tasks -> FdRecords] /\ fsCall \in [Tasks -> FsCalls]
            /\ fsResult \in [Tasks -> {"ok", "error"}]
        BY DEF FsInv, FsType
      <3> QED
        BY <2>1, <2>3, <3>1 DEF Call
    <2>6. ServerInv'
      BY <1>1, <2>5 DEF ServerInv
    <2> QED
      BY <1>2, <2>4, <2>6
  <1>5. ASSUME NEW t \in Formatters, FormatFiles(t) PROVE FilesInv'
    <2>1. FormatStep(t) \/ StartFormat(t)
      BY <1>5 DEF FormatFiles
    <2>2. FsInv'
      BY <2>1, FormatStepKeeps
    <2>3. UNCHANGED <<fsCall, fsResult>> /\ fds'[httpd] \in {fds[httpd], NoFile}
      BY <2>1, FormatEntries, TasksAre
    <2>4. ServerInv'
      BY <1>1, <2>3 DEF ServerInv
    <2> QED
      BY <1>2, <2>2, <2>4
  <1>6. CASE \E t \in SdTasks : SdCommand(t)
    <2>1. UNCHANGED fsVars
      BY <1>6 DEF SdCommand
    <2>2. FsInv'
      BY <2>1, FsSame DEF fsVars, FsKept
    <2>3. ServerInv'
      BY <1>1, <2>1 DEF ServerInv, fsVars
    <2> QED
      BY <1>2, <2>2, <2>3
  <1> QED
    BY <1>3, <1>4, <1>5, <1>6 DEF OtherStep

(* The first piece of a file empties it, the others are appended.           *)
LEMMA OpensForWriting ==
  ASSUME NEW path \in Files
  PROVE  CallAllowed(httpd, [NoCallFS EXCEPT !.op = "open", !.mode = UploadMode(call), !.path = path])
  <1>1. <<>> \in Seq(Symbols)
    OBVIOUS
  <1>2. UploadMode(call) \in {"w", "a"}
    BY DEF UploadMode
  <1> QED
    BY <1>1, <1>2 DEF CallAllowed, NoCallFS, FsCalls

(* So do the steps of the handlers.                                         *)
LEMMA HandlerFilesInv ==
  ASSUME IInv, FilesInv, HandlerStep
  PROVE  FilesInv'
  <1> USE DEF FilesInv
  <1> DEFINE Calling == {"opening", "writing", "closing"}
  <1>1. /\ handler.pc \in {"none", "parsing", "opening", "writing", "closing", "onCard", "answered"}
        /\ call.data \in Seq(Symbols) /\ httpd \in Tasks
        /\ fds \in [Tasks -> FdRecords] /\ fsCall \in [Tasks -> FsCalls]
        /\ fsResult \in [Tasks -> {"ok", "error"}]
    BY DEF IInv, HandlerType, ParserType, FsInv, FsType
  <1>2. ASSUME UNCHANGED fsVars, handler.pc \notin Calling, handler'.pc \notin Calling, RequestInv'
        PROVE  FilesInv'
    <2>1. FsInv'
      BY <1>2, FsSame DEF fsVars, FsKept
    <2>2. ServerInv'
      BY <1>2 DEF ServerInv, fsVars
    <2> QED
      BY <1>2, <2>1, <2>2
  <1>3. CASE Begin
    BY <1>2, <1>3 DEF Begin, NoHandler, RequestInv
  <1>4. CASE Parser \/ LoseConnection
    BY <1>2, <1>4 DEF Parser, LoseConnection, Quiet, RequestInv
  <1>5. CASE FieldReceived
    <2>1. handler'.pc = "parsing"
      BY <1>5 DEF FieldReceived, IInv, HandlerType
    <2> QED
      BY <1>2, <1>5, <2>1 DEF FieldReceived, Quiet, RequestInv
  <1>6. CASE WriteToCard
    <2>1. handler'.pc = "parsing"
      BY <1>6 DEF WriteToCard, IInv, HandlerType
    <2> QED
      BY <1>2, <1>6, <2>1 DEF WriteToCard, In, RequestInv
  <1>7. CASE OtaReceived \/ OtaFaults
    <2>1. handler'.pc = "parsing" /\ handler.pc = "parsing" /\ request' = request
          /\ UNCHANGED <<flash, efs, vfs, fds, fsCall, fsResult, format>>
      BY <1>7 DEF OtaReceived, OtaFaults, OtaFails, OtaEndFails, In, Quiet, fsVars, IInv, HandlerType
    <2>2. FsInv'
      BY <2>1, FsSame DEF FsKept
    <2>3. ServerInv' /\ RequestInv'
      BY <2>1 DEF ServerInv, RequestInv
    <2> QED
      BY <2>2, <2>3
  <1>8. CASE AnswerUpload \/ AnswerOta
    <2>1. handler'.pc = "answered" /\ handler.pc = "parsing"
      BY <1>8 DEF AnswerUpload, AnswerOta, Answer, In, IInv, HandlerType
    <2> QED
      BY <1>2, <1>8, <2>1 DEF AnswerUpload, AnswerOta, Quiet, RequestInv
  <1>9. CASE End
    BY <1>2, <1>9 DEF End, Quiet, NoHandler, RequestInv
  <1>10. ASSUME handler.pc = "parsing", handler'.pc = "parsing", request' = request,
                UNCHANGED <<flash, efs, vfs, format, fsCall, fsResult, fds>>
         PROVE  FilesInv'
    <2>1. FsInv'
      BY <1>10, FsSame DEF FsKept
    <2> QED
      BY <1>10, <2>1 DEF ServerInv, RequestInv
  <1>11. CASE FileReceived
    <2>1. handler.pc = "parsing" /\ request' = request /\ UNCHANGED <<flash, efs, vfs, format>>
      BY <1>11 DEF FileReceived, In
    <2>2. ASSUME NEW h, h \in {handler, [handler EXCEPT !.targetPath = h.targetPath]}, OpenFile(h)
          PROVE  FilesInv'
      <3>1. CASE OnFlash(h.targetPath)
        <4> DEFINE c == [NoCallFS EXCEPT !.op = "open", !.mode = UploadMode(call),
                                         !.path = Tail(h.targetPath)]
        <4>1. handler' = [h EXCEPT !.pc = "opening"] /\ Call(httpd, c)
          BY <2>2, <3>1 DEF OpenFile
        <4>2. handler'.pc = "opening"
          BY <2>2, <4>1 DEF IInv, HandlerType
        <4>3. CallAllowed(httpd, c)
          BY <3>1, OpensForWriting DEF OnFlash
        <4>4. c.op = "open"
          BY DEF NoCallFS
        <4> HIDE DEF c
        <4>5. FsInv'
          BY <1>1, <2>1, <4>1, <4>3, CallStep
        <4>6. fds'[httpd] = NoFile /\ fsCall'[httpd].op \in {"none", "open"}
          <5>1. fds[httpd] = NoFile /\ fsCall[httpd].op = "none"
            BY <2>1 DEF ServerInv
          <5>2. fds' = fds
            BY <4>1, <4>4 DEF Call
          <5>3. fsCall' = fsCall \/ fsCall' = [fsCall EXCEPT ![httpd] = [c EXCEPT !.ctx = vfs]]
            BY <4>1 DEF Call
          <5>4. [c EXCEPT !.ctx = vfs].op = "open"
            BY <4>3, <4>4 DEF CallAllowed, FsCalls
          <5> QED
            BY <1>1, <5>1, <5>2, <5>3, <5>4
        <4> QED
          BY <2>1, <4>2, <4>5, <4>6 DEF ServerInv, RequestInv
      <3>2. CASE ~OnFlash(h.targetPath)
        <4>1. UNCHANGED <<fsCall, fsResult, fds>> /\ handler'.pc \in {"onCard", "parsing"}
          BY <2>2, <3>2 DEF OpenFile, Fails, IInv, HandlerType
        <4>2. FsInv'
          BY <2>1, <4>1, FsSame DEF FsKept
        <4> QED
          BY <2>1, <4>1, <4>2 DEF ServerInv, RequestInv
      <3> QED
        BY <3>1, <3>2
    <2>3. CASE OpenFile(handler)
      BY <2>2, <2>3
    <2>4. ASSUME NEW path, OpenFile([handler EXCEPT !.targetPath = path]) PROVE FilesInv'
      <3> DEFINE h == [handler EXCEPT !.targetPath = path]
      <3>1. h = [handler EXCEPT !.targetPath = h.targetPath]
        BY DEF IInv, HandlerType
      <3> QED
        BY <2>2, <2>4, <3>1
    <2>5. CASE Fails(handler) /\ UNCHANGED <<fsCall, fsResult, fds>>
      <3>1. handler'.pc = "parsing"
        BY <2>5 DEF Fails, IInv, HandlerType
      <3> QED
        BY <1>10, <2>1, <2>5, <3>1
    <2> QED
      BY <1>11, <2>3, <2>4, <2>5 DEF FileReceived
  <1>12. CASE Opened
    <2>1. handler.pc = "opening" /\ fsCall[httpd].op = "none" /\ request' = request
          /\ UNCHANGED <<flash, efs, vfs, format>>
      BY <1>12 DEF Opened, In, FsReturned, OtherFs
    <2>2. CASE fsResult[httpd] = "error"
      <3>1. handler'.pc = "parsing" /\ UNCHANGED <<fsCall, fsResult, fds>>
        BY <1>12, <2>2 DEF Opened, Fails, IInv, HandlerType
      <3>2. FsInv'
        BY <2>1, <3>1, FsSame DEF FsKept
      <3>3. fds[httpd] = NoFile
        BY <2>1, <2>2 DEF ServerInv
      <3> QED
        BY <2>1, <3>1, <3>2, <3>3 DEF ServerInv, RequestInv
    <2>3. CASE fsResult[httpd] # "error"
      <3> DEFINE c == [NoCallFS EXCEPT !.op = "write", !.data = call.data]
      <3>1. handler'.pc = "writing" /\ Call(httpd, c)
        BY <1>12, <2>3 DEF Opened, IInv, HandlerType
      <3>2. c \in FsCalls /\ c.op = "write"
        BY <1>1 DEF NoCallFS, FsCalls
      <3> HIDE DEF c
      <3>3. CallAllowed(httpd, c)
        BY <3>2 DEF CallAllowed
      <3>4. FsInv'
        BY <1>1, <2>1, <3>1, <3>3, CallStep
      <3>5. fsCall'[httpd].op \in {"none", "write"}
        <4>1. fsCall' = fsCall \/ fsCall' = [fsCall EXCEPT ![httpd] = [c EXCEPT !.ctx = vfs]]
          BY <3>1 DEF Call
        <4>2. [c EXCEPT !.ctx = vfs].op = "write"
          BY <3>2 DEF FsCalls
        <4> QED
          BY <1>1, <2>1, <4>1, <4>2
      <3> QED
        BY <2>1, <3>1, <3>4, <3>5 DEF ServerInv, RequestInv
    <2> QED
      BY <2>2, <2>3
  <1>13. CASE Written
    <2> DEFINE c == [NoCallFS EXCEPT !.op = "close"]
    <2>1. handler.pc = "writing" /\ fsCall[httpd].op = "none" /\ request' = request
          /\ UNCHANGED <<flash, efs, vfs, format>> /\ handler'.pc = "closing" /\ Call(httpd, c)
      BY <1>13 DEF Written, In, FsReturned, OtherFs, IInv, HandlerType
    <2>2. c \in FsCalls /\ c.op = "close"
      BY NoCallIsCall DEF NoCallFS, FsCalls
    <2> HIDE DEF c
    <2>3. CallAllowed(httpd, c)
      BY <2>2 DEF CallAllowed
    <2>4. FsInv'
      BY <1>1, <2>1, <2>3, CallStep
    <2>5. fsCall'[httpd].op = "close" \/ (fsCall'[httpd].op = "none" /\ fds'[httpd] = NoFile)
      <3>1. \/ fsCall' = fsCall /\ fds' = [fds EXCEPT ![httpd] = NoFile]
            \/ fsCall' = [fsCall EXCEPT ![httpd] = [c EXCEPT !.ctx = vfs]]
        BY <2>1, <2>2 DEF Call
      <3>2. [c EXCEPT !.ctx = vfs].op = "close"
        BY <2>2 DEF FsCalls
      <3> QED
        BY <1>1, <2>1, <3>1, <3>2
    <2> QED
      BY <2>1, <2>4, <2>5 DEF ServerInv, RequestInv
  <1>14. CASE Closed
    <2>1. handler.pc = "closing" /\ fsCall[httpd].op = "none" /\ request' = request
          /\ UNCHANGED <<flash, efs, vfs, format, fsCall, fsResult, fds>> /\ handler'.pc = "parsing"
      BY <1>14 DEF Closed, In, FsReturned, OtherFs, IInv, HandlerType
    <2>2. FsInv'
      BY <2>1, FsSame DEF FsKept
    <2> QED
      BY <2>1, <2>2 DEF ServerInv, RequestInv
  <1> QED
    BY <1>3, <1>4, <1>5, <1>6, <1>7, <1>8, <1>9, <1>11, <1>12, <1>13, <1>14 DEF HandlerStep

(* The invariant of the files holds after every step.                       *)
LEMMA NextFilesInv == OneFormatter /\ IInv /\ FilesInv /\ [NextUploads]_vars => FilesInv'
  <1>1. FilesInv /\ UNCHANGED vars => FilesInv'
    <2> SUFFICES ASSUME FilesInv, UNCHANGED vars PROVE FilesInv'
      OBVIOUS
    <2>1. FsInv'
      BY FsSame DEF vars, fsVars, FsKept, FilesInv
    <2> QED
      BY <2>1 DEF vars, handlerVars, fsVars, FilesInv, ServerInv, RequestInv
  <1> QED
    BY <1>1, HandlerFilesInv, OthersFilesInv DEF NextUploads

(* Descriptors, the table, the contexts and the steps of formatting fit     *)
(* each other.                                                              *)
THEOREM FilesInvariance ==
  ASSUME OneFormatter
  PROVE  Spec => [](IInv /\ FilesInv)
  <1>1. InitUploads => IInv /\ FilesInv
    BY InitIInv, InitFilesInv
  <1>2. IInv /\ FilesInv /\ [NextUploads]_vars => (IInv /\ FilesInv)'
    BY NextIInv, NextFilesInv
  <1> QED
    BY <1>1, <1>2, PTL DEF Spec

(* The states of the request, of its files and of the update are of the     *)
(* shapes the code gives them, and a context is in one slot only            *)
(* (esp_littlefs.c counts the open files of a table that it grows and       *)
(* shrinks).                                                                *)
THEOREM TypeCorrect ==
  ASSUME OneFormatter
  PROVE  Spec => []TypeOK
  <1>1. IInv /\ FilesInv => TypeOK
    <2> SUFFICES ASSUME IInv, FilesInv PROVE TypeOK
      OBVIOUS
    <2>1. \A i, j \in Slots : efs[i] # None /\ efs[j] # None => i = j
      BY DEF FilesInv, FsInv, ContextInv, Holds
    <2>2. \A c \in Live : c.fd_count = Cardinality({i \in DOMAIN c.cache : c.cache[i] # None})
      BY DEF FilesInv, FsInv, ContextInv, Holds, Live, Used
    <2>3. request \in Requests \union {NoRequest}
      BY DEF FilesInv, RequestInv
    <2>4. vfs \in Contexts \union {None}
      BY DEF FilesInv, FsInv, FsType
    <2> QED
      BY <2>1, <2>2, <2>3, <2>4 DEF TypeOK, IInv, HandlerType, CallInv
  <1> QED
    BY <1>1, FilesInvariance, PTL

(* A descriptor of a mounted partition is that of the file its task opened: *)
(* esp_littlefs_allocate_fd and esp_littlefs_free_fd give no place to two   *)
(* tasks, while the table grows and shrinks.                                *)
THEOREM FilesAreOwned ==
  ASSUME OneFormatter
  PROVE  Spec => []OwnFile
  <1>1. FilesInv => OwnFile
    <2> SUFFICES ASSUME FilesInv, NEW t \in Tasks, fds[t] # NoFile, fds[t].ctx = vfs
                 PROVE  HasFile(efs[Slot(vfs)], t)
      BY DEF OwnFile, HasFile
    <2>1. vfs # None
      BY DEF FilesInv, FsInv, FileInv
    <2>2. \A u \in Tasks : format[u].pc \in Registered
      BY <2>1 DEF FilesInv, FsInv, FormatInv
    <2>3. PICK i \in Slots : Holds(i) /\ efs[i].id = vfs
      BY <2>2 DEF FilesInv, FsInv, FormatInv
    <2>4. Slot(vfs) = i
      BY <2>3, SlotIsUnique DEF FilesInv, FsInv
    <2> QED
      BY <2>3, <2>4 DEF FilesInv, FsInv, FileInv
  <1> QED
    BY <1>1, FilesInvariance, PTL

-----------------------------------------------------------------------------
(* What the operations of the layer of descriptors do to the handler's file *)

Real(path) == OnFlash(path) \/ OnCard(path)
TargetFile == Tail(handler.targetPath)

OpenAt(i, f, data) ==
  /\ Holds(i) /\ efs[i].id = vfs /\ fds[httpd].ctx = vfs /\ fds[httpd].path = f
  /\ efs[i].cache[fds[httpd].fd].data = data /\ ~efs[i].cache[fds[httpd].fd].errored
OpenWith(f, data) == \E i \in Slots : OpenAt(i, f, data)
DirtyWith(f, data) == \E i \in Slots : OpenAt(i, f, data) /\ efs[i].cache[fds[httpd].fd].dirty

Calls(op) == fsCall[httpd].op = op /\ fsCall[httpd].ctx = vfs /\ vfs # None
NotCalling == fsCall[httpd].op = "none"

(* What another task's operation leaves of it                               *)
ServerFileKept ==
  /\ flash' = flash /\ vfs' = vfs
  /\ fds'[httpd] = fds[httpd] /\ fsCall'[httpd] = fsCall[httpd] /\ fsResult'[httpd] = fsResult[httpd]
  /\ \A i \in Slots : Holds(i) /\ efs[i].id = fds[httpd].ctx =>
       /\ Holds(i)' /\ efs'[i].id = efs[i].id
       /\ efs'[i].cache[fds[httpd].fd] = efs[i].cache[fds[httpd].fd]

(* An open file gets the next free place; the others stay where they are.   *)
OpenedAs(t, i, d, p, data) ==
  /\ d \in ContextRecords /\ d.id = efs[i].id
  /\ efs' = [efs EXCEPT ![i] = d]
  /\ \A q \in Used(efs[i]) : d.cache[q] = efs[i].cache[q]
  /\ d.cache[p] = NewFile(t, data) /\ p \in Nat
  /\ fds' = [fds EXCEPT ![t] = [ctx |-> fsCall[t].ctx, fd |-> p, path |-> fsCall[t].path]]
  /\ flash' = IF fsCall[t].mode = "r" THEN flash ELSE [flash EXCEPT ![fsCall[t].path] = data]
  /\ data = IF fsCall[t].mode = "w" \/ flash[fsCall[t].path] = None THEN <<>> ELSE flash[fsCall[t].path]
  /\ Returns(t, "ok")

(* What opening a file does to the table and to the flash.                  *)
LEMMA OpenDoes ==
  ASSUME FsInv, OneFormatter, NEW t \in Tasks, vfs_littlefs_open(t)
  PROVE  /\ vfs' = vfs
         /\ \/ UNCHANGED <<flash, efs, fds>> /\ (fsCall[t].mode = "r" \/ faults' = faults + 1)
            \/ \E i \in Slots : \E d, p, data : /\ Holds(i) /\ fsCall[t].ctx = efs[i].id
                                               /\ OpenedAs(t, i, d, p, data)
  <1> DEFINE c == fsCall[t]
             old == flash[c.path]
             data == IF c.mode = "w" \/ old = None THEN <<>> ELSE old
             ctx == Grown(Ctx(t))
             file == NewFile(t, data)
             d == esp_littlefs_allocate_fd(ctx, file)
             fd == [ctx |-> c.ctx, fd |-> FreePlace(ctx), path |-> c.path]
  <1>1. c.op = "open" /\ IsLive(c.ctx) /\ UNCHANGED <<vfs, format>>
    BY DEF vfs_littlefs_open, Enters
  <1>2. c \in FsCalls /\ c.path \in Files /\ c.ctx \in Contexts
        /\ flash \in [Files -> Seq(Symbols) \union {None}]
    <2>1. c \in FsCalls /\ flash \in [Files -> Seq(Symbols) \union {None}]
      BY DEF FsInv, FsType
    <2>2. c.path \in Files /\ c.ctx # None
      BY <1>1 DEF FsInv, FileInv
    <2> QED
      BY <2>1, <2>2 DEF FsCalls
  <1>3. PICK i \in Slots :
           /\ Holds(i) /\ c.ctx = efs[i].id /\ Slot(c.ctx) = i /\ Ctx(t) = efs[i]
           /\ efs[i] \in ContextRecords /\ efs[i].fd_count = Cardinality(Used(efs[i]))
           /\ Len(efs[i].cache) # 0
    BY <1>1, Entered
  <1>4. CASE UNCHANGED <<flash, efs, fds>> /\ (c.mode = "r" \/ faults' = faults + 1)
    BY <1>1, <1>4
  <1>5. CASE /\ SetCtx(t, d)
             /\ fds' = [fds EXCEPT ![t] = fd]
             /\ flash' = IF c.mode = "r" THEN flash ELSE [flash EXCEPT ![c.path] = data]
             /\ Returns(t, "ok")
    <2>1. data \in Seq(Symbols)
      <3>1. <<>> \in Seq(Symbols)
        OBVIOUS
      <3> QED
        BY <1>2, <3>1
    <2>2. file \in OpenFiles
      BY <1>2, <2>1 DEF NewFile, OpenFiles
    <2>3. /\ ctx \in ContextRecords /\ ctx.id = efs[i].id
          /\ ctx.fd_count = Cardinality(Used(ctx)) /\ Used(ctx) = Used(efs[i])
          /\ \A p \in DOMAIN efs[i].cache : p \in DOMAIN ctx.cache /\ ctx.cache[p] = efs[i].cache[p]
          /\ FreePlace(ctx) \in DOMAIN ctx.cache \ Used(ctx)
      BY <1>3, GrownContext
    <2> DEFINE p == FreePlace(ctx)
    <2> HIDE DEF file, ctx
    <2>4. /\ d \in ContextRecords /\ d.id = ctx.id
          /\ d.cache[p] = file
          /\ \A q \in DOMAIN ctx.cache \ {p} : d.cache[q] = ctx.cache[q]
      BY <2>2, <2>3, Allocated
    <2>5. p \in Nat /\ p \notin Used(ctx)
      BY <2>3, UsedIsFinite
    <2> HIDE DEF d, p
    <2>6. \A q \in Used(efs[i]) : d.cache[q] = efs[i].cache[q]
      BY <2>3, <2>4, <2>5 DEF Used
    <2>7. efs' = [efs EXCEPT ![i] = d]
      BY <1>3, <1>5 DEF SetCtx
    <2>8. fds' = [fds EXCEPT ![t] = [ctx |-> fsCall[t].ctx, fd |-> p, path |-> fsCall[t].path]]
      BY <1>5 DEF p
    <2>9. d.cache[p] = NewFile(t, data)
      BY <2>4 DEF file
    <2>10. OpenedAs(t, i, d, p, data)
      BY <1>5, <2>3, <2>4, <2>5, <2>6, <2>7, <2>8, <2>9, Zenon DEF OpenedAs
    <2> HIDE DEF data
    <2> QED
      BY <1>1, <1>3, <2>10, Zenon
  <1> QED
    BY <1>4, <1>5, Zenon DEF vfs_littlefs_open, Fault

(* Another task's operation leaves the handler's file alone.                *)
LEMMA OthersKeep ==
  ASSUME FsInv, OneFormatter, NEW t \in Tasks \ {httpd}, FileOperation(t)
  PROVE  ServerFileKept
  <1>1. /\ fds'[httpd] = fds[httpd] /\ fsCall'[httpd] = fsCall[httpd] /\ fsResult'[httpd] = fsResult[httpd]
        /\ httpd \in Tasks
    BY OthersEntry
  <1>2. efs \in [Slots -> ContextRecords \union {None}] /\ fds \in [Tasks -> FdRecords]
    BY DEF FsInv, FsType
  <1>3. \A i \in Slots : Holds(i) /\ efs[i].id = fds[httpd].ctx =>
          /\ fds[httpd].fd \in Used(efs[i]) /\ efs[i].cache[fds[httpd].fd].task = httpd
    BY <1>1 DEF FsInv, FileInv, HasFile, Used
  <1>4. ASSUME flash' = flash, vfs' = vfs, efs' = efs PROVE ServerFileKept
    BY <1>1, <1>4 DEF ServerFileKept, Holds
  <1>5. ASSUME flash' = flash, vfs' = vfs, NEW i \in Slots, Holds(i), NEW d \in ContextRecords, d.id = efs[i].id,
               efs' = [efs EXCEPT ![i] = d],
               \A q \in Used(efs[i]) : efs[i].cache[q].task = httpd => d.cache[q] = efs[i].cache[q]
        PROVE  ServerFileKept
    BY <1>1, <1>2, <1>3, <1>5 DEF ServerFileKept, Holds
  <1>6. CASE vfs_littlefs_open(t)
    <2>1. fsCall[t].mode = "r"
      BY DEF FsInv, FileInv
    <2>2. CASE UNCHANGED <<flash, efs, fds>> /\ vfs' = vfs
      BY <1>4, <2>2
    <2>3. ASSUME NEW i \in Slots, NEW d, NEW p, NEW data, Holds(i), OpenedAs(t, i, d, p, data), vfs' = vfs
          PROVE  ServerFileKept
      <3>1. /\ d \in ContextRecords /\ d.id = efs[i].id /\ efs' = [efs EXCEPT ![i] = d]
            /\ \A q \in Used(efs[i]) : d.cache[q] = efs[i].cache[q]
            /\ flash' = flash
        BY <2>1, <2>3, Zenon DEF OpenedAs
      <3>2. \A q \in Used(efs[i]) : efs[i].cache[q].task = httpd => d.cache[q] = efs[i].cache[q]
        BY <3>1
      <3>3. flash' = flash /\ vfs' = vfs /\ Holds(i)
        BY <2>3, <3>1
      <3> QED
        BY <1>5, <3>1, <3>2, <3>3, Zenon
    <2> QED
      BY <1>6, <2>2, <2>3, OpenDoes
  <1>7. CASE vfs_littlefs_read(t)
    BY <1>4, <1>7 DEF vfs_littlefs_read
  <1>8. ~vfs_littlefs_write(t)
    BY DEF vfs_littlefs_write, Enters, FsInv, FileInv
  <1>9. CASE vfs_littlefs_close(t)
    <2> DEFINE p == fds[t].fd
               file == FileOf(t)
               synced == IF file.dirty /\ ~file.errored
                         THEN [flash EXCEPT ![file.path] = file.data] ELSE flash
    <2>1. IsLive(fsCall[t].ctx) /\ Owns(t) /\ vfs' = vfs
      BY <1>9 DEF vfs_littlefs_close, Enters
    <2>2. PICK i \in Slots :
             /\ Holds(i) /\ fsCall[t].ctx = efs[i].id /\ Slot(fsCall[t].ctx) = i /\ Ctx(t) = efs[i]
             /\ efs[i] \in ContextRecords /\ efs[i].fd_count = Cardinality(Used(efs[i]))
             /\ \A q \in Used(efs[i]) : efs[i].cache[q].task # httpd => ~efs[i].cache[q].dirty
      BY <2>1, Entered
    <2>3. p \in Used(efs[i]) /\ file = efs[i].cache[p] /\ file.task = t /\ ~file.dirty
      BY <2>1, <2>2 DEF Owns, Known, FileOf, Used
    <2>4. flash' = flash
      <3> HIDE DEF file
      <3> QED
        BY <1>9, <2>3 DEF vfs_littlefs_close, file
    <2>5. efs' = efs \/ efs' = [efs EXCEPT ![i] = esp_littlefs_free_fd(efs[i], p)]
      BY <1>9, <2>2 DEF vfs_littlefs_close, SetCtx
    <2> DEFINE d == esp_littlefs_free_fd(efs[i], p)
    <2>6. /\ d \in ContextRecords /\ d.id = efs[i].id
          /\ \A q \in DOMAIN efs[i].cache \ {p} : d.cache[q] = efs[i].cache[q]
      <3> HIDE DEF d, p
      <3>1. d = esp_littlefs_free_fd(efs[i], p)
        BY DEF d
      <3> QED
        BY <2>2, <2>3, <3>1, Freed
    <2> HIDE DEF d, file
    <2>7. \A q \in Used(efs[i]) : efs[i].cache[q].task = httpd => d.cache[q] = efs[i].cache[q]
      BY <2>3, <2>6 DEF Used
    <2>8. CASE efs' = efs
      BY <1>4, <2>1, <2>4, <2>8
    <2>9. CASE efs' = [efs EXCEPT ![i] = d]
      BY <1>5, <2>1, <2>2, <2>4, <2>6, <2>7, <2>9
    <2> QED
      BY <2>5, <2>8, <2>9 DEF d
  <1>10. CASE BadDescriptor(t) \/ OtherFile(t) \/ Deleted(t)
    BY <1>4, <1>10 DEF BadDescriptor, OtherFile, Deleted
  <1> QED
    BY <1>6, <1>7, <1>8, <1>9, <1>10 DEF FileOperation

-----------------------------------------------------------------------------
(* The handler's own operations                                             *)

(* The handler's file is open, empty or with what it had.                   *)
LEMMA ServerOpens ==
  ASSUME FsInv, OneFormatter, vfs_littlefs_open(httpd), Calls("open"), faults \in Nat, faults' = faults,
         NEW f, f = fsCall[httpd].path, NEW old \in Seq(Symbols),
         \/ fsCall[httpd].mode = "w" /\ old = <<>>
         \/ fsCall[httpd].mode = "a" /\ flash[f] = old
  PROVE  NotCalling' /\ fsResult'[httpd] = "ok" /\ OpenWith(f, old)'
  <1>1. /\ httpd \in Tasks /\ efs \in [Slots -> ContextRecords \union {None}] /\ fds \in [Tasks -> FdRecords]
        /\ fsCall \in [Tasks -> FsCalls] /\ fsResult \in [Tasks -> {"ok", "error"}]
    BY DEF FsInv, FsType
  <1>2. fsCall[httpd].mode # "r" /\ faults' # faults + 1
    OBVIOUS
  <1>3. vfs' = vfs
    BY OpenDoes
  <1>4a. PICK i \in Slots : \E d, p, data : Holds(i) /\ fsCall[httpd].ctx = efs[i].id /\ OpenedAs(httpd, i, d, p, data)
    BY <1>1, <1>2, OpenDoes, Zenon
  <1>4. PICK d, p, data : Holds(i) /\ fsCall[httpd].ctx = efs[i].id /\ OpenedAs(httpd, i, d, p, data)
    BY <1>4a
  <1>5. /\ d \in ContextRecords /\ d.id = efs[i].id /\ efs' = [efs EXCEPT ![i] = d]
        /\ d.cache[p] = NewFile(httpd, data)
        /\ fds' = [fds EXCEPT ![httpd] = [ctx |-> fsCall[httpd].ctx, fd |-> p, path |-> f]]
        /\ data = IF fsCall[httpd].mode = "w" \/ flash[f] = None THEN <<>> ELSE flash[f]
        /\ Returns(httpd, "ok")
    BY <1>4, Zenon DEF OpenedAs
  <1>6. data = old
    <2>1. old # None
      OBVIOUS
    <2> QED
      BY <1>5, <2>1
  <1>7. NotCalling' /\ fsResult'[httpd] = "ok"
    BY <1>1, <1>5 DEF Returns, NotCalling, NoCallFS
  <1>8. efs'[i] = d /\ d # None
    BY <1>1, <1>5
  <1>9. fds'[httpd].ctx = fsCall[httpd].ctx /\ fds'[httpd].fd = p /\ fds'[httpd].path = f
    BY <1>1, <1>5
  <1>10. NewFile(httpd, data).data = data /\ NewFile(httpd, data).errored = FALSE
    BY DEF NewFile
  <1>11. OpenAt(i, f, old)'
    BY <1>3, <1>4, <1>5, <1>6, <1>8, <1>9, <1>10 DEF OpenAt, Calls, Holds
  <1> QED
    BY <1>7, <1>11 DEF OpenWith

(* The call finds the context that the open file is in.                     *)
LEMMA OpenIsEntered ==
  ASSUME FsInv, NEW i \in Slots, NEW f, NEW data, OpenAt(i, f, data), fsCall[httpd].ctx = vfs
  PROVE  /\ Slot(fsCall[httpd].ctx) = i /\ Ctx(httpd) = efs[i] /\ efs[i] \in ContextRecords
         /\ efs[i].fd_count = Cardinality(Used(efs[i]))
         /\ fds[httpd].fd \in Used(efs[i]) /\ FileOf(httpd) = efs[i].cache[fds[httpd].fd]
         /\ FileOf(httpd) \in OpenFiles /\ FileOf(httpd).path = f
  <1>1. Holds(i) /\ efs[i].id = vfs /\ fds[httpd].ctx = vfs /\ fds[httpd].path = f /\ httpd \in Tasks
    BY DEF OpenAt
  <1>2. Slot(fsCall[httpd].ctx) = i
    BY <1>1, SlotIsUnique DEF FsInv
  <1>3. Ctx(httpd) = efs[i] /\ FileOf(httpd) = efs[i].cache[fds[httpd].fd]
    BY <1>2 DEF Ctx, FileOf
  <1>4. efs[i] \in ContextRecords /\ efs[i].fd_count = Cardinality(Used(efs[i]))
    BY <1>1 DEF FsInv, FsType, ContextInv, Holds
  <1>5. HasFile(efs[i], httpd)
    BY <1>1 DEF FsInv, FileInv
  <1>6. fds[httpd].fd \in Used(efs[i]) /\ efs[i].cache[fds[httpd].fd].path = f
    BY <1>1, <1>5 DEF HasFile, Used
  <1>7. efs[i].cache[fds[httpd].fd] \in OpenFiles
    BY <1>4, <1>6, UsedIsFinite
  <1> QED
    BY <1>2, <1>3, <1>4, <1>6, <1>7

(* The piece is behind what the file had.                                   *)
LEMMA ServerWrites ==
  ASSUME FsInv, OneFormatter, vfs_littlefs_write(httpd), Calls("write"), faults \in Nat, faults' = faults,
         NEW f, NEW old \in Seq(Symbols), OpenWith(f, old),
         NEW new \in Seq(Symbols), new = old \o fsCall[httpd].data
  PROVE  NotCalling' /\ DirtyWith(f, new)'
  <1> DEFINE p == fds[httpd].fd
  <1>1. /\ httpd \in Tasks /\ efs \in [Slots -> ContextRecords \union {None}]
        /\ fsCall \in [Tasks -> FsCalls] /\ fsResult \in [Tasks -> {"ok", "error"}]
    BY DEF FsInv, FsType
  <1>2. PICK i \in Slots : OpenAt(i, f, old)
    BY DEF OpenWith
  <1>3. /\ Slot(fsCall[httpd].ctx) = i /\ Ctx(httpd) = efs[i] /\ efs[i] \in ContextRecords
        /\ p \in Used(efs[i]) /\ FileOf(httpd) = efs[i].cache[p] /\ FileOf(httpd) \in OpenFiles
    BY <1>2, OpenIsEntered DEF Calls
  <1>4. /\ SetCtx(httpd, [Ctx(httpd) EXCEPT !.cache[p].data = @ \o fsCall[httpd].data, !.cache[p].dirty = TRUE])
        /\ Returns(httpd, "ok") /\ UNCHANGED <<vfs, fds>>
    BY DEF vfs_littlefs_write, Fault
  <1>5. NotCalling'
    BY <1>1, <1>4 DEF Returns, NotCalling, NoCallFS
  <1> DEFINE c == efs[i]
             n == [c EXCEPT !.cache[p].data = @ \o fsCall[httpd].data, !.cache[p].dirty = TRUE]
  <1>6. efs' = [efs EXCEPT ![i] = n]
    BY <1>3, <1>4 DEF SetCtx
  <1>7. c = [id |-> c.id, mounted |-> c.mounted, fd_count |-> c.fd_count, cache |-> c.cache]
        /\ c.cache \in Seq(OpenFiles \union {None}) /\ p \in DOMAIN c.cache /\ c.cache[p] \in OpenFiles
    BY <1>3, UsedIsFinite DEF ContextRecords, Used
  <1>8. c.cache[p].data = old /\ ~c.cache[p].errored /\ c.id = vfs /\ fds[httpd].ctx = vfs /\ fds[httpd].path = f
    BY <1>2 DEF OpenAt
  <1>9. n = WithFile(c, p, [c.cache[p] EXCEPT !.data = @ \o fsCall[httpd].data, !.dirty = TRUE])
    <2> HIDE DEF c, p
    <2> QED
      BY <1>7 DEF WithFile
  <1> DEFINE file == [c.cache[p] EXCEPT !.data = new, !.dirty = TRUE]
  <1>10. n = WithFile(c, p, file)
    <2>1. [c.cache[p] EXCEPT !.data = @ \o fsCall[httpd].data, !.dirty = TRUE] = file
      BY <1>8
    <2> HIDE DEF n, c, p, file
    <2> QED
      BY <1>9, <2>1
  <1>13. file \in OpenFiles /\ file.data = new /\ file.dirty /\ ~file.errored
    <2> DEFINE x == c.cache[p]
    <2>1. x \in OpenFiles /\ ~x.errored
      BY <1>7, <1>8
    <2> HIDE DEF x
    <2>2. [x EXCEPT !.data = new, !.dirty = TRUE] \in OpenFiles
          /\ [x EXCEPT !.data = new, !.dirty = TRUE].data = new
          /\ [x EXCEPT !.data = new, !.dirty = TRUE].dirty
          /\ ~[x EXCEPT !.data = new, !.dirty = TRUE].errored
      BY <2>1 DEF OpenFiles
    <2> QED
      BY <2>2 DEF x
  <1> HIDE DEF file, n, c, p
  <1>14. /\ n \in ContextRecords /\ n.id = c.id /\ n.cache[p] = file
    <2>1. c.fd_count = Cardinality(Used(c)) /\ c \in ContextRecords /\ p \in Used(c)
      BY <1>2, <1>3, OpenIsEntered DEF Calls, c, p
    <2> QED
      BY <1>10, <1>13, <2>1, Rewritten
  <1>15. efs'[i] = n /\ n # None
    BY <1>1, <1>6, <1>14
  <1>16. fds'[httpd] = fds[httpd] /\ vfs' = vfs
    BY <1>4
  <1>17. OpenAt(i, f, new)' /\ efs'[i].cache[fds'[httpd].fd].dirty
    <2>1. efs'[i].cache[fds'[httpd].fd] = file
      BY <1>14, <1>15, <1>16 DEF p
    <2>2. efs'[i].id = vfs'
      BY <1>8, <1>14, <1>15, <1>16
    <2>3. fds'[httpd].ctx = vfs' /\ fds'[httpd].path = f
      BY <1>8, <1>16
    <2> QED
      BY <1>13, <1>15, <2>1, <2>2, <2>3 DEF OpenAt, Holds
  <1> QED
    BY <1>5, <1>17 DEF DirtyWith

(* What was written is on the flash.                                        *)
LEMMA ServerCloses ==
  ASSUME FsInv, OneFormatter, vfs_littlefs_close(httpd), Calls("close"), faults \in Nat, faults' = faults,
         NEW f \in Files, NEW new \in Seq(Symbols), DirtyWith(f, new)
  PROVE  NotCalling' /\ flash'[f] = new
  <1>1. /\ httpd \in Tasks /\ fsCall \in [Tasks -> FsCalls] /\ fsResult \in [Tasks -> {"ok", "error"}]
        /\ flash \in [Files -> Seq(Symbols) \union {None}]
    BY DEF FsInv, FsType
  <1>2. PICK i \in Slots : OpenAt(i, f, new) /\ efs[i].cache[fds[httpd].fd].dirty
    BY DEF DirtyWith
  <1> DEFINE file == FileOf(httpd)
  <1>3. file.path = f /\ file.data = new /\ file.dirty /\ ~file.errored
    BY <1>2, OpenIsEntered DEF Calls, OpenAt
  <1> HIDE DEF file
  <1>4. Returns(httpd, "ok") /\ flash' = [flash EXCEPT ![f] = new]
    <2>1. \/ flash' = (IF file.dirty /\ ~file.errored THEN [flash EXCEPT ![file.path] = file.data] ELSE flash)
             /\ Returns(httpd, "ok")
          \/ Fault
      BY Zenon DEF vfs_littlefs_close, file
    <2>2. ~Fault
      BY DEF Fault
    <2> QED
      BY <1>3, <2>1, <2>2
  <1>5. NotCalling'
    BY <1>1, <1>4 DEF Returns, NotCalling, NoCallFS
  <1> QED
    BY <1>1, <1>4, <1>5

-----------------------------------------------------------------------------
(* Where the handler is in storing a piece of a file, that had `old' before *)
(* and has `new' after it.                                                  *)
PieceStored(old, new) ==
  /\ handler.pc \in {"opening", "writing", "closing"} => OnFlash(handler.targetPath)
  /\ handler.pc = "opening" =>
       \/ /\ Calls("open") /\ fsCall[httpd].path = TargetFile
          /\ \/ fsCall[httpd].mode = "w" /\ old = <<>>
             \/ fsCall[httpd].mode = "a" /\ flash[TargetFile] = old
       \/ NotCalling /\ fsResult[httpd] = "error"
       \/ NotCalling /\ OpenWith(TargetFile, old)
  /\ handler.pc = "writing" =>
       \/ Calls("write") /\ fsCall[httpd].data = call.data /\ OpenWith(TargetFile, old)
       \/ NotCalling /\ DirtyWith(TargetFile, new)
  /\ handler.pc = "closing" =>
       \/ Calls("close") /\ DirtyWith(TargetFile, new)
       \/ NotCalling /\ flash[TargetFile] = new
  /\ handler.pc = "onCard" =>
       /\ OnCard(handler.targetPath) /\ volume # NoCard
       /\ IF call.first THEN old = <<>> ELSE sdFiles[TargetFile] = old

(* An open file that nothing touches stays as it is.                        *)
LEMMA OpenIsKept ==
  ASSUME ServerFileKept, NEW f, NEW data
  PROVE  /\ OpenWith(f, data) => OpenWith(f, data)'
         /\ DirtyWith(f, data) => DirtyWith(f, data)'
  <1>1. ASSUME NEW i \in Slots, OpenAt(i, f, data)
        PROVE  /\ OpenAt(i, f, data)'
               /\ efs[i].cache[fds[httpd].fd].dirty => efs'[i].cache[fds'[httpd].fd].dirty
    <2>1. Holds(i) /\ efs[i].id = fds[httpd].ctx /\ efs[i].id = vfs
      BY <1>1 DEF OpenAt
    <2>2. /\ Holds(i)' /\ efs'[i].id = efs[i].id /\ fds'[httpd] = fds[httpd] /\ vfs' = vfs
          /\ efs'[i].cache[fds[httpd].fd] = efs[i].cache[fds[httpd].fd]
      BY <2>1 DEF ServerFileKept
    <2> QED
      BY <1>1, <2>2 DEF OpenAt
  <1> QED
    BY <1>1 DEF OpenWith, DirtyWith

(* So does what was done of storing a piece.                                *)
LEMMA PieceIsKept ==
  ASSUME ServerFileKept, UNCHANGED <<handler, call, sdFiles, volume>>,
         NEW old, NEW new, PieceStored(old, new)
  PROVE  PieceStored(old, new)'
  <1>1. /\ flash' = flash /\ vfs' = vfs
        /\ fsCall'[httpd] = fsCall[httpd] /\ fsResult'[httpd] = fsResult[httpd]
    BY DEF ServerFileKept
  <1>2. PICK f : f = TargetFile
    OBVIOUS
  <1>3. TargetFile' = f /\ (OpenWith(f, old) => OpenWith(f, old)') /\ (DirtyWith(f, new) => DirtyWith(f, new)')
    BY <1>2, OpenIsKept DEF TargetFile
  <1>4. (NotCalling' <=> NotCalling) /\ \A op : Calls(op)' <=> Calls(op)
    BY <1>1 DEF NotCalling, Calls
  <1>5. handler'.pc = "opening" =>
       \/ /\ Calls("open")' /\ fsCall'[httpd].path = f
          /\ \/ fsCall'[httpd].mode = "w" /\ old = <<>>
             \/ fsCall'[httpd].mode = "a" /\ flash'[f] = old
       \/ NotCalling' /\ fsResult'[httpd] = "error"
       \/ NotCalling' /\ OpenWith(f, old)'
    BY <1>1, <1>2, <1>3, <1>4 DEF PieceStored
  <1>6. handler'.pc = "writing" =>
       \/ Calls("write")' /\ fsCall'[httpd].data = call'.data /\ OpenWith(f, old)'
       \/ NotCalling' /\ DirtyWith(f, new)'
    BY <1>1, <1>2, <1>3, <1>4 DEF PieceStored
  <1>7. handler'.pc = "closing" =>
       \/ Calls("close")' /\ DirtyWith(f, new)'
       \/ NotCalling' /\ flash'[f] = new
    BY <1>1, <1>2, <1>3, <1>4 DEF PieceStored
  <1>8. /\ handler'.pc \in {"opening", "writing", "closing"} => OnFlash(handler'.targetPath)
        /\ handler'.pc = "onCard" =>
             /\ OnCard(handler'.targetPath) /\ volume' # NoCard
             /\ IF call'.first THEN old = <<>> ELSE sdFiles'[f] = old
    BY <1>2 DEF PieceStored
  <1> HIDE DEF OnFlash, OnCard
  <1> QED
    BY <1>3, <1>5, <1>6, <1>7, <1>8, Zenon DEF PieceStored

(* An operation takes the storing of a piece one step further.              *)
LEMMA PieceMoves ==
  ASSUME FsInv, OneFormatter, ServerInv, NEW t \in Tasks, FileOperation(t),
         UNCHANGED <<handler, call, sdFiles, volume>>, faults \in Nat, faults' = faults,
         NEW old \in Seq(Symbols), NEW new \in Seq(Symbols), new = old \o call.data,
         PieceStored(old, new)
  PROVE  PieceStored(old, new)'
  <1>1. CASE t # httpd
    BY <1>1, OthersKeep, PieceIsKept
  <1>2. ASSUME UNCHANGED <<flash, efs, vfs, fds, fsCall, fsResult>> PROVE PieceStored(old, new)'
    BY <1>2, PieceIsKept DEF ServerFileKept, Holds
  <1>3. CASE t = httpd
    <2>1. fsCall[httpd].op # "none"
      BY <1>3 DEF FileOperation, vfs_littlefs_open, vfs_littlefs_write, vfs_littlefs_read,
                  vfs_littlefs_close, BadDescriptor, OtherFile, Deleted, Enters
    <2>2. handler.pc \in {"opening", "writing", "closing"} /\ ~NotCalling
      BY <2>1 DEF ServerInv, NotCalling
    <2>3. OnFlash(handler.targetPath)
      BY <2>2 DEF PieceStored
    <2>4. PICK f : f = TargetFile
      OBVIOUS
    <2>5. f \in Files /\ TargetFile' = f
      BY <2>3, <2>4 DEF OnFlash, TargetFile
    <2>6. CASE OtherFile(httpd) \/ Deleted(httpd)
      BY <1>2, <2>6 DEF OtherFile, Deleted
    <2>7. ~vfs_littlefs_read(httpd)
      BY <2>2 DEF vfs_littlefs_read, Enters, ServerInv
    <2>8. ~BadDescriptor(httpd)
      <3> SUFFICES ASSUME BadDescriptor(httpd) PROVE FALSE
        OBVIOUS
      <3>1. fsCall[httpd].op \in {"write", "close"} /\ ~Known(httpd)
        BY <2>2 DEF BadDescriptor, ServerInv
      <3>2. fsCall[httpd].ctx = vfs /\ (OpenWith(f, old) \/ DirtyWith(f, new))
        BY <2>2, <2>4, <3>1 DEF PieceStored, Calls, ServerInv
      <3>3a. PICK i \in Slots : \E data : OpenAt(i, f, data)
        BY <3>2 DEF OpenWith, DirtyWith
      <3>3. PICK data : OpenAt(i, f, data)
        BY <3>3a
      <3>4. fds[httpd].fd \in Used(efs[i]) /\ Ctx(httpd) = efs[i]
        BY <3>2, <3>3, OpenIsEntered
      <3> QED
        BY <3>1, <3>4 DEF Known, Used
    <2>9. CASE handler.pc = "opening"
      <3>1. /\ Calls("open") /\ fsCall[httpd].path = f
            /\ \/ fsCall[httpd].mode = "w" /\ old = <<>>
               \/ fsCall[httpd].mode = "a" /\ flash[f] = old
        BY <2>2, <2>4, <2>9 DEF PieceStored
      <3>2. ~vfs_littlefs_write(httpd) /\ ~vfs_littlefs_close(httpd)
        BY <3>1 DEF vfs_littlefs_write, vfs_littlefs_close, Enters, Calls
      <3>3. CASE vfs_littlefs_open(httpd)
        <4>1. NotCalling' /\ OpenWith(f, old)'
          BY <3>1, <3>3, ServerOpens
        <4> QED
          BY <2>3, <2>5, <2>9, <4>1 DEF PieceStored
      <3> QED
        BY <1>3, <2>6, <2>7, <2>8, <3>2, <3>3 DEF FileOperation
    <2>10. CASE handler.pc = "writing"
      <3>1. Calls("write") /\ fsCall[httpd].data = call.data /\ OpenWith(f, old)
        BY <2>2, <2>4, <2>10 DEF PieceStored
      <3>2. ~vfs_littlefs_open(httpd) /\ ~vfs_littlefs_close(httpd)
        BY <3>1 DEF vfs_littlefs_open, vfs_littlefs_close, Enters, Calls
      <3>3. CASE vfs_littlefs_write(httpd)
        <4>1. new = old \o fsCall[httpd].data
          BY <3>1
        <4>2. NotCalling' /\ DirtyWith(f, new)'
          BY <3>1, <3>3, <4>1, ServerWrites
        <4> QED
          BY <2>3, <2>5, <2>10, <4>2 DEF PieceStored
      <3> QED
        BY <1>3, <2>6, <2>7, <2>8, <3>2, <3>3 DEF FileOperation
    <2>11. CASE handler.pc = "closing"
      <3>1. Calls("close") /\ DirtyWith(f, new)
        BY <2>2, <2>4, <2>11 DEF PieceStored
      <3>2. ~vfs_littlefs_open(httpd) /\ ~vfs_littlefs_write(httpd)
        BY <3>1 DEF vfs_littlefs_open, vfs_littlefs_write, Enters, Calls
      <3>3. CASE vfs_littlefs_close(httpd)
        <4>1. NotCalling' /\ flash'[f] = new
          BY <2>5, <3>1, <3>3, ServerCloses
        <4> QED
          BY <2>3, <2>5, <2>11, <4>1 DEF PieceStored
      <3> QED
        BY <1>3, <2>6, <2>7, <2>8, <3>2, <3>3 DEF FileOperation
    <2> QED
      BY <2>2, <2>9, <2>10, <2>11
  <1> QED
    BY <1>1, <1>3

-----------------------------------------------------------------------------
(* The files                                                                *)

FileSeen(parts, m) == \E p \in 1 .. m : FileAt(parts, p)

AllStored(parts, m) ==
  \A p \in 1 .. m : FileAt(parts, p) => Real(handler.targetPath) /\ Stored = parts[p].data

(* What is stored of the file that is coming in: up to the piece that was   *)
(* passed on last, or somewhere in the middle of the next one.              *)
PartStored(parts, i, j, k) ==
  /\ handler.pc \in Storing =>
       ~FileSeen(parts, i - 1) /\ PieceStored(UpTo(parts, i, j), UpTo(parts, i, k))
  /\ handler.pc = "parsing" =>
       /\ AllStored(parts, Over(i))
       /\ j > 0 /\ isFile => /\ ~FileSeen(parts, i - 1)
                             /\ Real(handler.targetPath) /\ Stored = UpTo(parts, i, j)

StoreStage(parts) ==
  \E i, j, k : Position(parts, i, j, k) /\ (~disturbed => PartStored(parts, i, j, k))

UploadStage == request.kind = "upload" /\ Active => StoreStage(request.parts)

UploadDone ==
  request.kind = "upload" /\ mp.state = "DONE" /\ mp.ret = "OK" /\ ~disturbed /\ ~handler.error
    => AllStored(request.parts, Len(request.parts))

IsPath(path) == \E E : path \in Seq(E)

(* What is on the card, and the paths, are sequences.                       *)
DataInv ==
  /\ faults \in Nat
  /\ sdFiles \in [Files -> Seq(Symbols) \union {None}]
  /\ IsPath(handler.targetPath) /\ IsPath(handler.basePath)

StoreInv == DataInv /\ UploadStage /\ UploadDone

UploadsInv == IInv /\ FilesInv /\ FlashInv /\ StoreInv

-----------------------------------------------------------------------------
(* What is put together of paths are paths.                                 *)
LEMMA PathsJoin ==
  ASSUME NEW path, IsPath(path), NEW x
  PROVE  /\ IsPath(path \o <<x>>) /\ IsPath(<<x>>) /\ IsPath(<<>>)
         /\ path # <<>> => IsPath(Tail(path)) /\ IsPath(<<x>> \o Tail(path))
  <1>1. PICK E : path \in Seq(E)
    BY DEF IsPath
  <1> DEFINE D == E \union {x}
  <1>2. path \in Seq(D) /\ <<x>> \in Seq(D) /\ <<>> \in Seq(D)
    BY <1>1
  <1> HIDE DEF D
  <1>3. path \o <<x>> \in Seq(D)
    BY <1>2
  <1>4. path # <<>> => Tail(path) \in Seq(D) /\ <<x>> \o Tail(path) \in Seq(D)
    BY <1>2
  <1> QED
    BY <1>2, <1>3, <1>4 DEF IsPath

(* Sanitizing keeps the first segment of a path on the device.              *)
LEMMA Sanitized ==
  ASSUME NEW path, IsPath(path)
  PROVE  /\ IsPath(sanitizePath(path))
         /\ path # <<>> /\ path[1] \in {"littlefs", "sdcard"} =>
              sanitizePath(path) # <<>> /\ sanitizePath(path)[1] = path[1]
  <1>1. PICK E : path \in Seq(E)
    BY DEF IsPath
  <1> DEFINE S == ToSet(path) \ {"", ".."}
  <1>2. sanitizePath(path) = Only(path, S)
    BY DEF sanitizePath
  <1>3. ASSUME path # <<>>, path[1] \in {"littlefs", "sdcard"} PROVE path[1] \in S
    <2>1. 1 \in DOMAIN path
      BY <1>1, <1>3
    <2> QED
      BY <1>3, <2>1 DEF ToSet
  <1> HIDE DEF S
  <1>4. Only(path, S) \in Seq(E)
    BY <1>1, OnlyKeeps
  <1>5. ASSUME path # <<>>, path[1] \in {"littlefs", "sdcard"} PROVE Only(path, S) # <<>> /\ Only(path, S)[1] = path[1]
    BY <1>1, <1>3, <1>5, FirstIsKept
  <1> QED
    BY <1>2, <1>4, <1>5 DEF IsPath

(* Resolving maps no path to one on the device that was on it already.      *)
LEMMA Resolved ==
  ASSUME NEW path, IsPath(path), path # <<>>
  PROVE  /\ IsPath(resolveVirtualPath(path))
         /\ path[1] = "littlefs" => resolveVirtualPath(path) = <<>>
         /\ path[1] = "sdcard" => resolveVirtualPath(path) # <<>> /\ resolveVirtualPath(path)[1] = "sdcardcard"
  <1>1. \A x : IsPath(<<x>> \o Tail(path)) /\ IsPath(<<>>)
    BY PathsJoin
  <1>2. IsPath(Tail(path))
    BY PathsJoin
  <1>3. PICK E : Tail(path) \in Seq(E)
    BY <1>2 DEF IsPath
  <1>4. <<"sdcardcard">> \o Tail(path) # <<>> /\ (<<"sdcardcard">> \o Tail(path))[1] = "sdcardcard"
    <2> DEFINE t == Tail(path)
               D == E \union {"sdcardcard"}
    <2>1. t \in Seq(D) /\ <<"sdcardcard">> \in Seq(D) /\ Len(<<"sdcardcard">>) = 1 /\ <<"sdcardcard">>[1] = "sdcardcard"
      BY <1>3
    <2> HIDE DEF t, D
    <2>2. Len(<<"sdcardcard">> \o t) = 1 + Len(t) /\ (<<"sdcardcard">> \o t)[1] = "sdcardcard" /\ Len(t) \in Nat
      BY <2>1
    <2>3. Len(<<>>) = 0
      OBVIOUS
    <2> QED
      BY <2>2, <2>3 DEF t
  <1> QED
    BY <1>1, <1>4 DEF resolveVirtualPath

(* A path on the device is not one a client names: the handler fails with   *)
(* it.                                                                      *)
LEMMA RealIsRefused ==
  ASSUME IsPath(handler.targetPath), Real(handler.targetPath)
  PROVE  LET safePath == UploadPath(handler)
             realPath == IF safePath = <<>> THEN <<>> ELSE resolveVirtualPath(safePath)
         IN /\ UploadPath(handler) # <<>>
            /\ realPath = <<>> \/ (~OnFlash(realPath) /\ ~OnCard(realPath))
  <1> DEFINE path == handler.targetPath
             safePath == UploadPath(handler)
  <1>1. path # <<>> /\ path[1] \in {"littlefs", "sdcard"}
    BY DEF Real, OnFlash, OnCard
  <1>2. safePath = sanitizePath(path)
    BY <1>1 DEF UploadPath
  <1>3. safePath # <<>> /\ IsPath(safePath) /\ safePath[1] = path[1]
    BY <1>1, <1>2, Sanitized
  <1> HIDE DEF safePath, path
  <1> QED
    BY <1>1, <1>3, Resolved DEF OnFlash, OnCard, safePath

(* What the handler takes for the target is a path.                         *)
LEMMA UploadPathIs ==
  ASSUME IsPath(handler.targetPath), IsPath(handler.basePath)
  PROVE  IsPath(UploadPath(handler))
  <1>1. IsPath(handler.basePath \o <<FileName>>) /\ IsPath(<<FileName>>)
    BY PathsJoin
  <1>2. \A path : IsPath(path) => IsPath(sanitizePath(path))
    BY Sanitized
  <1> QED
    BY <1>1, <1>2, Zenon DEF UploadPath

(* At the start there is no upload.                                         *)
LEMMA InitStoreInv == InitUploads => StoreInv
  <1> SUFFICES ASSUME InitUploads PROVE StoreInv
    OBVIOUS
  <1>1. mp = Idle /\ handler = NoHandler /\ request = NoRequest /\ sdFiles = [f \in Files |-> None] /\ faults = 0
    BY DEF InitUploads, InitFS
  <1>2. IsPath(<<>>)
    <2>1. <<>> \in Seq({})
      OBVIOUS
    <2> QED
      BY <2>1 DEF IsPath
  <1>3. DataInv
    BY <1>1, <1>2 DEF DataInv, NoHandler
  <1> QED
    BY <1>1, <1>3 DEF StoreInv, UploadStage, UploadDone, Idle, NoRequest

FaultsAre == faults' = faults \/ faults' = faults + 1

(* Failures are counted one by one.                                         *)
LEMMA FaultsCount ==
  ASSUME NEW t \in Tasks, FileOperation(t), faults \in Nat
  PROVE  faults' \in Nat
  <1> SUFFICES FaultsAre
    BY DEF FaultsAre
  <1>1. CASE vfs_littlefs_open(t)
    BY <1>1, Zenon DEF vfs_littlefs_open, Fault, FaultsAre
  <1>2. CASE vfs_littlefs_write(t)
    BY <1>2, Zenon DEF vfs_littlefs_write, Fault, FaultsAre
  <1>3. CASE vfs_littlefs_close(t)
    BY <1>3, Zenon DEF vfs_littlefs_close, Fault, FaultsAre
  <1>4. CASE vfs_littlefs_read(t) \/ BadDescriptor(t) \/ OtherFile(t) \/ Deleted(t)
    BY <1>4, Zenon DEF vfs_littlefs_read, BadDescriptor, OtherFile, Deleted, FaultsAre
  <1> QED
    BY <1>1, <1>2, <1>3, <1>4 DEF FileOperation

(* The handlers keep paths paths and the card's files sequences.            *)
LEMMA HandlerDataInv ==
  ASSUME IInv, DataInv, HandlerStep
  PROVE  DataInv'
  <1>1. HandlerType /\ call.data \in Seq(Symbols)
    BY DEF IInv, ParserType
  <1>2. IsPath(call.data) /\ IsPath(<<>>)
    <2>1. <<>> \in Seq(Symbols)
      OBVIOUS
    <2> QED
      BY <1>1, <2>1 DEF IsPath
  <1>3. ASSUME UNCHANGED <<faults, sdFiles>>, IsPath(handler'.targetPath), IsPath(handler'.basePath)
        PROVE  DataInv'
    BY <1>3 DEF DataInv
  <1>4. ASSUME handler'.targetPath = handler.targetPath, handler'.basePath = handler.basePath,
               sdFiles' = sdFiles, faults' \in Nat
        PROVE  DataInv'
    BY <1>4 DEF DataInv
  <1>5. CASE Begin
    <2>1. handler'.targetPath = <<>> /\ handler'.basePath = <<>> /\ UNCHANGED <<faults, sdFiles>>
      BY <1>5 DEF Begin, NoHandler, fsVars
    <2> QED
      BY <1>2, <1>3, <2>1
  <1>6. CASE Parser \/ LoseConnection
    <2>1. UNCHANGED <<handler, faults, sdFiles>>
      BY <1>6 DEF Parser, LoseConnection, Quiet, fsVars
    <2> QED
      BY <1>4, <2>1 DEF DataInv
  <1>7. CASE FieldReceived
    <2>1. UNCHANGED <<faults, sdFiles>>
      BY <1>7 DEF FieldReceived, Quiet, fsVars
    <2>2. handler'.targetPath \in {handler.targetPath, call.data} /\ handler'.basePath \in {handler.basePath, call.data}
      BY <1>1, <1>7 DEF FieldReceived, HandlerType
    <2> QED
      BY <1>2, <1>3, <2>1, <2>2 DEF DataInv
  <1>8. CASE FileReceived
    <2> DEFINE safePath == UploadPath(handler)
               realPath == IF safePath = <<>> THEN <<>> ELSE resolveVirtualPath(safePath)
    <2>1. IsPath(realPath)
      <3>1. IsPath(safePath)
        BY UploadPathIs DEF DataInv
      <3> HIDE DEF safePath
      <3> QED
        BY <1>2, <3>1, Resolved
    <2>2. UNCHANGED <<faults, sdFiles>>
      BY <1>8 DEF FileReceived
    <2>3. \/ OpenFile(handler) \/ Fails(handler)
          \/ OpenFile([handler EXCEPT !.targetPath = realPath])
      BY <1>8 DEF FileReceived
    <2> HIDE DEF realPath
    <2>4. handler'.targetPath \in {handler.targetPath, realPath} /\ handler'.basePath = handler.basePath
      BY <1>1, <2>3 DEF OpenFile, Fails, HandlerType
    <2> QED
      BY <1>3, <2>1, <2>2, <2>4 DEF DataInv
  <1>9. CASE Opened \/ Written \/ Closed
    <2>1. handler'.targetPath = handler.targetPath /\ handler'.basePath = handler.basePath
      BY <1>1, <1>9 DEF Opened, Written, Closed, Fails, HandlerType
    <2>2. UNCHANGED <<faults, sdFiles>>
      BY <1>9 DEF Opened, Written, Closed, OtherFs
    <2> QED
      BY <1>3, <2>1, <2>2 DEF DataInv
  <1>10. CASE WriteToCard
    <2> DEFINE f == Tail(handler.targetPath)
               old == IF call.first \/ sdFiles[f] = None THEN <<>> ELSE sdFiles[f]
    <2>1. sdFiles' = sdFiles \/ sdFiles' = [sdFiles EXCEPT ![f] = old \o call.data]
      BY <1>10 DEF WriteToCard
    <2>2. handler'.targetPath = handler.targetPath /\ handler'.basePath = handler.basePath /\ faults' = faults
      BY <1>1, <1>10 DEF WriteToCard, HandlerType, fsVars
    <2>3. f \in Files => old \o call.data \in Seq(Symbols)
      <3> SUFFICES ASSUME f \in Files PROVE old \o call.data \in Seq(Symbols)
        OBVIOUS
      <3>1. <<>> \in Seq(Symbols)
        OBVIOUS
      <3>2. old \in Seq(Symbols)
        BY <3>1 DEF DataInv
      <3> HIDE DEF old
      <3> QED
        BY <1>1, <3>2
    <2> HIDE DEF old, f
    <2>4. sdFiles' \in [Files -> Seq(Symbols) \union {None}]
      BY <2>1, <2>3 DEF DataInv
    <2> QED
      BY <2>2, <2>4 DEF DataInv
  <1>11. CASE OtaReceived \/ OtaFaults
    <2>1. sdFiles' = sdFiles /\ faults' \in Nat
      <3>1. sdFiles' = sdFiles /\ (faults' = faults \/ faults' = faults + 1)
        BY <1>11 DEF OtaReceived, OtaFaults, Quiet, fsVars, Fault
      <3> QED
        BY <3>1 DEF DataInv
    <2>2. handler'.targetPath = handler.targetPath /\ handler'.basePath = handler.basePath
      BY <1>1, <1>11 DEF OtaReceived, OtaFaults, OtaFails, OtaEndFails, HandlerType
    <2> QED
      BY <1>4, <2>1, <2>2
  <1>12. CASE AnswerUpload \/ AnswerOta
    <2>1. UNCHANGED <<faults, sdFiles>>
      BY <1>12 DEF AnswerUpload, AnswerOta, Quiet, fsVars
    <2>2. handler'.targetPath = handler.targetPath /\ handler'.basePath = handler.basePath
      BY <1>1, <1>12 DEF AnswerUpload, AnswerOta, Answer, HandlerType
    <2> QED
      BY <1>3, <2>1, <2>2 DEF DataInv
  <1>13. CASE End
    <2>1. handler'.targetPath = <<>> /\ handler'.basePath = <<>> /\ UNCHANGED <<faults, sdFiles>>
      BY <1>13 DEF End, NoHandler, Quiet, fsVars
    <2> QED
      BY <1>2, <1>3, <2>1
  <1> QED
    BY <1>5, <1>6, <1>7, <1>8, <1>9, <1>10, <1>11, <1>12, <1>13 DEF HandlerStep

(* Nothing of the request moves, but other tasks run: they leave what is    *)
(* stored of it alone, or disturb it.                                       *)
LEMMA StaysStoreInv ==
  ASSUME OrderlyRequests, UploadsInv, UNCHANGED <<handler, call, request, sdFiles>>,
         mp' = mp \/ mp' = [mp EXCEPT !.eof = TRUE],
         faults' \in Nat,
         ~disturbed' => ~disturbed /\ (handler.pc \notin Storing => flash' = flash),
         ASSUME ~disturbed', NEW old \in Seq(Symbols), NEW new \in Seq(Symbols), new = old \o call.data,
                PieceStored(old, new)
         PROVE  PieceStored(old, new)'
  PROVE  StoreInv'
  <1>1. mp = [state |-> mp.state, buffer |-> mp.buffer, unread |-> mp.unread,
              header |-> mp.header, isFirstChunk |-> mp.isFirstChunk,
              fieldValue |-> mp.fieldValue, eof |-> mp.eof, ret |-> mp.ret]
    BY DEF UploadsInv, IInv, ParserType
  <1>2. /\ mp'.state = mp.state /\ mp'.buffer = mp.buffer /\ mp'.unread = mp.unread
        /\ mp'.header = mp.header /\ mp'.isFirstChunk = mp.isFirstChunk /\ mp'.ret = mp.ret
    BY <1>1
  <1>3. DataInv'
    BY DEF UploadsInv, StoreInv, DataInv
  <1>4. PICK parts : parts = request.parts
    OBVIOUS
  <1>5. ASSUME NEW m, AllStored(parts, m), flash' = flash PROVE AllStored(parts, m)'
    BY <1>5, Zenon DEF AllStored, FileAt, Real, OnFlash, OnCard, Stored
  <1>6. UploadDone'
    <2> SUFFICES ASSUME request.kind = "upload", mp.state = "DONE", mp.ret = "OK", ~disturbed', ~handler.error
                 PROVE  AllStored(parts, Len(parts))'
      BY <1>2, <1>4, Zenon DEF UploadDone, AllStored
    <2>1. ~disturbed /\ AllStored(parts, Len(parts))
      BY <1>4 DEF UploadsInv, StoreInv, UploadDone
    <2>2. handler.pc \notin Storing
      BY <2>1 DEF UploadsInv, FlashInv, BodyInv, IInv, CallInv
    <2> QED
      BY <1>5, <2>1, <2>2
  <1>7. ASSUME request.kind = "upload", Active' PROVE StoreStage(parts)'
    <2>1. Active
      BY <1>2, <1>7 DEF Active
    <2>2. PICK i, j, k : Position(parts, i, j, k) /\ (~disturbed => PartStored(parts, i, j, k))
      BY <1>4, <1>7, <2>1 DEF UploadsInv, StoreInv, UploadStage, StoreStage
    <2>3. Position(parts, i, j, k)' /\ Over(i)' = Over(i) /\ (isFile' <=> isFile)
      BY <1>2, <2>2, PositionKept
    <2>4. ASSUME ~disturbed' PROVE PartStored(parts, i, j, k)'
      <3>1. PartStored(parts, i, j, k)
        BY <2>2, <2>4
      <3>2. CASE handler.pc \in Storing
        <4>1. call # NoCall /\ call.kind = "file" /\ handler.pc # "none" /\ handler.pc # "parsing"
          BY <3>2 DEF UploadsInv, FlashInv, BodyInv, IInv, CallInv, Storing
        <4>2. Sent(parts)
          BY <1>4, <4>1, ThisIsSent DEF UploadsInv, FlashInv, BodyInv
        <4>3. mp.state \in {"BODY", "AFTER_BOUNDARY"}
          BY <2>1, <4>1 DEF Active, UploadsInv, IInv, CallInv
        <4>4. /\ UpTo(parts, i, j) \in Seq(Symbols) /\ UpTo(parts, i, k) \in Seq(Symbols)
              /\ UpTo(parts, i, k) = UpTo(parts, i, j) \o call.data
          BY <2>2, <4>1, <4>2, <4>3, PieceFollows
        <4>5. ~FileSeen(parts, i - 1) /\ PieceStored(UpTo(parts, i, j), UpTo(parts, i, k))
          BY <3>1, <3>2 DEF PartStored
        <4> DEFINE old == UpTo(parts, i, j)
                   new == UpTo(parts, i, k)
        <4> HIDE DEF old, new
        <4>6. old \in Seq(Symbols) /\ new \in Seq(Symbols) /\ new = old \o call.data /\ PieceStored(old, new)
          BY <4>4, <4>5 DEF old, new
        <4>7. PieceStored(old, new)'
          BY <2>4, <4>6
        <4>8. UpTo(parts, i, j)' = old /\ UpTo(parts, i, k)' = new /\ ~FileSeen(parts, i - 1)'
          BY <4>5 DEF UpTo, old, new, FileSeen, FileAt
        <4>9. handler'.pc # "parsing"
          BY <4>1
        <4> QED
          BY <4>5, <4>7, <4>9, Zenon DEF PartStored, old, new, UpTo, FileSeen, FileAt
      <3>3. CASE handler.pc \notin Storing
        <4>1. flash' = flash
          BY <2>4, <3>3
        <4>2. AllStored(parts, Over(i)) => AllStored(parts, Over(i))'
          <5>1. PICK m : m = Over(i)
            OBVIOUS
          <5>2. AllStored(parts, m) => AllStored(parts, m)'
            BY <1>5, <4>1
          <5> QED
            BY <2>3, <5>1, <5>2, Zenon DEF AllStored
        <4>3. (Real(handler.targetPath))' <=> Real(handler.targetPath)
          BY Zenon DEF Real, OnFlash, OnCard
        <4>4. Stored' = Stored
          BY <4>1, Zenon DEF Stored, OnFlash
        <4> QED
          BY <2>3, <3>1, <3>3, <4>2, <4>3, <4>4, Zenon DEF PartStored, UpTo, FileSeen, FileAt
      <3> QED
        BY <3>2, <3>3
    <2> QED
      BY <2>3, <2>4, Zenon DEF StoreStage
  <1>8. UploadStage'
    BY <1>4, <1>7 DEF UploadStage
  <1> QED
    BY <1>3, <1>6, <1>8 DEF StoreInv

(* Other tasks leave the upload alone, or disturb it.                       *)
LEMMA OthersStoreInv ==
  ASSUME OneFormatter, OrderlyRequests, UploadsInv, OtherStep
  PROVE  StoreInv'
  <1>1. FsInv /\ ServerInv /\ faults \in Nat /\ UNCHANGED <<mp, call, handler, request, sdFiles>>
    BY DEF UploadsInv, FilesInv, StoreInv, DataInv, OtherStep, FileSystem, Read, FormatFiles, SdCommand,
           UsesStorage
  <1>2. /\ fds \in [Tasks -> FdRecords] /\ fsCall \in [Tasks -> FsCalls]
        /\ fsResult \in [Tasks -> {"ok", "error"}]
    BY <1>1 DEF FsInv, FsType
  <1>3. ASSUME NEW t \in Tasks, FileSystem(t) PROVE StoreInv'
    <2>1. FileOperation(t) /\ volume' = volume
      BY <1>3 DEF FileSystem, sdVars
    <2>2. ~disturbed' => ~disturbed /\ faults' = faults
      BY <1>3, Zenon DEF FileSystem
    <2>3. faults' \in Nat
      BY <1>1, <2>1, FaultsCount
    <2>4. ASSUME handler.pc \notin Storing PROVE flash' = flash
      <3>1. t # httpd
        <4>1. fsCall[t].op # "none"
          BY <2>1 DEF FileOperation, vfs_littlefs_open, vfs_littlefs_write, vfs_littlefs_read,
                      vfs_littlefs_close, BadDescriptor, OtherFile, Deleted, Enters
        <4> QED
          BY <1>1, <2>4, <4>1 DEF ServerInv, Storing
      <3> QED
        BY <1>1, <2>1, <3>1, OthersKeep DEF ServerFileKept
    <2>5. ASSUME ~disturbed', NEW old \in Seq(Symbols), NEW new \in Seq(Symbols), new = old \o call.data,
                 PieceStored(old, new)
          PROVE  PieceStored(old, new)'
      BY <1>1, <2>1, <2>2, <2>5, PieceMoves
    <2> QED
      BY <1>1, <2>2, <2>3, <2>4, <2>5, StaysStoreInv
  <1>4. ASSUME NEW t \in Readers, Read(t) PROVE StoreInv'
    <2>1. UNCHANGED <<flash, efs, vfs, faults, volume, disturbed>>
      BY <1>4 DEF Read, sdVars
    <2>2. t # httpd /\ httpd \in Tasks
      OBVIOUS
    <2>3. \E c : Call(t, c)
      BY <1>4 DEF Read
    <2>4. fds'[httpd] = fds[httpd] /\ fsCall'[httpd] = fsCall[httpd] /\ fsResult'[httpd] = fsResult[httpd]
      BY <1>2, <2>2, <2>3 DEF Call
    <2>5. ServerFileKept
      BY <2>1, <2>4 DEF ServerFileKept, Holds
    <2>6. ASSUME NEW old \in Seq(Symbols), NEW new \in Seq(Symbols), PieceStored(old, new)
          PROVE  PieceStored(old, new)'
      BY <1>1, <2>1, <2>5, <2>6, PieceIsKept
    <2> QED
      BY <1>1, <2>1, <2>6, StaysStoreInv
  <1>5. ASSUME NEW t \in Formatters, FormatFiles(t) PROVE StoreInv'
    <2>1. disturbed' = TRUE /\ faults' = faults
      BY <1>5 DEF FormatFiles, StartFormat, FormatStep, Unregister, esp_littlefs_free, FormatContext,
                  FormatFlash, FreeTemporary, InitContext, Register
    <2> QED
      BY <1>1, <2>1, StaysStoreInv
  <1>6. ASSUME NEW t \in SdTasks, SdCommand(t) PROVE StoreInv'
    <2>1. UNCHANGED fsVars
      BY <1>6 DEF SdCommand
    <2>2. ~disturbed' => ~disturbed /\ volume' = volume
      BY <1>6, Zenon DEF SdCommand
    <2>3. ServerFileKept /\ flash' = flash /\ faults' = faults
      BY <2>1 DEF fsVars, ServerFileKept, Holds
    <2>4. ASSUME ~disturbed', NEW old \in Seq(Symbols), NEW new \in Seq(Symbols), PieceStored(old, new)
          PROVE  PieceStored(old, new)'
      BY <1>1, <2>2, <2>3, <2>4, PieceIsKept
    <2> QED
      BY <1>1, <2>2, <2>3, <2>4, StaysStoreInv
  <1> QED
    BY <1>3, <1>4, <1>5, <1>6 DEF OtherStep

(* A lost connection disturbs it.                                           *)
LEMMA StillStoreInv ==
  ASSUME OrderlyRequests, UploadsInv, LoseConnection \/ UNCHANGED vars
  PROVE  StoreInv'
  <1>1. /\ UNCHANGED <<handler, call, request, sdFiles, volume, faults>> /\ UNCHANGED <<flash, efs, vfs, fds, fsCall, fsResult>>
        /\ mp' = mp \/ mp' = [mp EXCEPT !.eof = TRUE]
    BY DEF LoseConnection, Disconnect, Quiet, vars, handlerVars, fsVars, sdVars
  <1>2. ~disturbed' => ~disturbed
    <2>1. CASE LoseConnection
      BY <2>1, Zenon DEF LoseConnection
    <2>2. CASE UNCHANGED vars
      BY <2>2, Zenon DEF vars, handlerVars
    <2> QED
      BY <2>1, <2>2
  <1>3. ServerFileKept
    BY <1>1 DEF ServerFileKept, Holds
  <1>4. ASSUME NEW old \in Seq(Symbols), NEW new \in Seq(Symbols), PieceStored(old, new)
        PROVE  PieceStored(old, new)'
    BY <1>1, <1>3, <1>4, PieceIsKept
  <1>5. faults' \in Nat
    BY <1>1 DEF UploadsInv, StoreInv, DataInv
  <1> QED
    BY <1>1, <1>2, <1>4, <1>5, StaysStoreInv

(* An upload begins with nothing stored.                                    *)
LEMMA BeginStoreInv ==
  ASSUME OrderlyRequests, UploadsInv, Begin
  PROVE  UploadStage' /\ UploadDone'
  <1>1. PICK r \in Requests : request' = r /\ Parse(Body(r.parts), r.boundary)
    BY DEF Begin
  <1>2. handler.pc = "none" /\ handler' = [NoHandler EXCEPT !.pc = "parsing"] /\ call' = call
    BY DEF Begin
  <1>3. call' = NoCall
    BY <1>2 DEF UploadsInv, IInv, CallInv
  <1>4. Sent(r.parts)
    BY RequestIsSent
  <1>5. CASE r.boundary
    <2>1. mp' = [Idle EXCEPT !.state = "PREAMBLE", !.unread = Body(r.parts)]
      BY <1>1, <1>5 DEF Parse
    <2>2. Position(r.parts, 1, 0, 0)'
      BY <1>3, <1>4, <2>1, BodyBegins
    <2>3. handler'.pc = "parsing" /\ mp'.state = "PREAMBLE"
      BY <1>2, <2>1 DEF NoHandler, Idle
    <2>4. Over(1)' = 0
      BY <2>3 DEF Over
    <2>5. PartStored(r.parts, 1, 0, 0)'
      BY <2>3, <2>4 DEF PartStored, AllStored, Storing
    <2>6. StoreStage(r.parts)'
      BY <2>2, <2>5, Zenon DEF StoreStage
    <2> QED
      BY <1>1, <2>3, <2>6 DEF UploadStage, UploadDone
  <1>6. CASE ~r.boundary
    <2>1. mp'.state = "DONE" /\ mp'.ret # "OK"
      BY <1>1, <1>6 DEF Parse, Idle
    <2> QED
      BY <2>1 DEF UploadStage, UploadDone, Active
  <1> QED
    BY <1>5, <1>6

(* The parser goes on in the body and stores nothing.                       *)
LEMMA ParserStoreInv ==
  ASSUME OrderlyRequests, UploadsInv, Parser
  PROVE  UploadStage' /\ UploadDone'
  <1> SUFFICES ASSUME request.kind = "upload" PROVE UploadStage' /\ UploadDone'
    BY DEF Parser, UploadStage, UploadDone
  <1>1. /\ handler.pc = "parsing" /\ (ParserStep \/ Receive)
        /\ UNCHANGED <<handler, request, disturbed, flash, sdFiles>>
    BY DEF Parser, Quiet, fsVars
  <1>2. Parsing /\ call = NoCall /\ IInv
    BY <1>1, ParserSaves DEF UploadsInv
  <1>3. PICK parts : parts = request.parts
    OBVIOUS
  <1>4. Sent(parts) /\ request'.parts = parts
    BY <1>1, <1>3, ThisIsSent DEF UploadsInv, FlashInv, BodyInv
  <1>5. Active
    BY <1>2 DEF Parsing, Active
  <1>6. PICK i, k : Position(parts, i, k, k) /\ (~disturbed => PartStored(parts, i, k, k))
    <2>1. PICK i, j, k : Position(parts, i, j, k) /\ (~disturbed => PartStored(parts, i, j, k))
      BY <1>3, <1>5 DEF UploadsInv, StoreInv, UploadStage, StoreStage
    <2>2. j = k
      BY <1>2, <2>1 DEF Position, Place, CallPlace
    <2> QED
      BY <2>1, <2>2
  <1>7. Runs(parts, i, k)
    BY <1>1, <1>2, <1>4, <1>6 DEF Runs
  <1>8. \/ mp'.state = "DONE" /\ mp.eof
        \/ BodyDone(parts, i)
        \/ mp'.state # "DONE" /\ \E i2, j2, k2 : Moved(parts, i, k, i2, j2, k2)
    BY <1>1, <1>7, ParserMoves
  <1>9. Stored' = Stored /\ ((Real(handler.targetPath))' <=> Real(handler.targetPath))
    BY <1>1, Zenon DEF Stored, Real, OnFlash, OnCard
  <1>10. ASSUME ~disturbed
         PROVE  /\ AllStored(parts, Over(i))
                /\ (k > 0 /\ isFile) => (/\ ~FileSeen(parts, i - 1)
                                         /\ Real(handler.targetPath) /\ Stored = UpTo(parts, i, k))
    BY <1>1, <1>6, <1>10, Zenon DEF PartStored
  <1>11. UploadDone'
    <2> SUFFICES ASSUME mp'.state = "DONE", ~disturbed PROVE AllStored(parts, Len(parts))'
      BY <1>1, <1>4, Zenon DEF UploadDone, AllStored
    <2>1. Over(i) = Len(parts)
      BY <1>8 DEF BodyDone, UploadsInv, FlashInv, BodyInv
    <2>2. AllStored(parts, Len(parts))
      BY <1>10, <2>1, Zenon
    <2> QED
      BY <1>9, <2>2, Zenon DEF AllStored, FileAt
  <1>12. UploadStage'
    <2> SUFFICES ASSUME mp'.state # "DONE" PROVE StoreStage(parts)'
      BY <1>4 DEF UploadStage, Active
    <2>1. PICK i2, j2, k2 : Moved(parts, i, k, i2, j2, k2)
      BY <1>8 DEF BodyDone
    <2>2. /\ Position(parts, i2, j2, k2)'
          /\ Over(i2)' = Over(i)
          /\ j2 > 0 /\ isFile' => isFile /\ i2 = i /\ j2 = k
      BY <2>1 DEF Moved
    <2>3. ASSUME ~disturbed PROVE PartStored(parts, i2, j2, k2)'
      <3>1. handler'.pc = "parsing" /\ handler'.pc \notin Storing
        BY <1>1 DEF Storing
      <3>2. AllStored(parts, Over(i2))'
        <4>1. PICK m : m = Over(i)
          OBVIOUS
        <4>2. AllStored(parts, m)
          BY <1>10, <2>3, <4>1, Zenon
        <4>3. AllStored(parts, m)'
          BY <1>9, <4>2, Zenon DEF AllStored, FileAt
        <4>4. Over(i2)' = m
          BY <2>2, <4>1, Zenon
        <4> QED
          BY <4>3, <4>4, Zenon DEF AllStored
      <3>3. (j2 > 0 /\ isFile') =>
              (~FileSeen(parts, i2 - 1) /\ Real(handler.targetPath) /\ Stored = UpTo(parts, i2, j2))
        <4> SUFFICES ASSUME j2 > 0, isFile'
                     PROVE  ~FileSeen(parts, i2 - 1) /\ Real(handler.targetPath) /\ Stored = UpTo(parts, i2, j2)
          OBVIOUS
        <4>1. isFile /\ i2 = i /\ j2 = k /\ k > 0
          BY <2>2
        <4>2. ~FileSeen(parts, i - 1) /\ Real(handler.targetPath) /\ Stored = UpTo(parts, i, k)
          BY <1>10, <2>3, <4>1, Zenon
        <4> QED
          BY <4>1, <4>2, Zenon
      <3> QED
        BY <1>9, <3>1, <3>2, <3>3, Zenon DEF PartStored, FileSeen, FileAt, UpTo
    <2>4. (~disturbed => PartStored(parts, i2, j2, k2))'
      BY <1>1, <2>3, Zenon
    <2> QED
      BY <2>2, <2>4, Zenon DEF StoreStage
  <1> QED
    BY <1>11, <1>12

(* A callback of the upload returns, and the parser goes on.                *)
LEMMA PassedStoreInv ==
  ASSUME OrderlyRequests, UploadsInv, NEW parts, parts = request.parts, request.kind = "upload",
         call # NoCall, mp' = mp, call' = NoCall, request' = request, handler'.pc = "parsing",
         disturbed => disturbed',
         ASSUME ~disturbed, Active, NEW i, NEW j, NEW k,
                Position(parts, i, j, k), PartStored(parts, i, j, k)
         PROVE  /\ AllStored(parts, IF mp.state = "AFTER_BOUNDARY" THEN i ELSE i - 1)'
                /\ k > 0 /\ isFile =>
                     ~FileSeen(parts, i - 1) /\ Real(handler'.targetPath) /\ Stored' = UpTo(parts, i, k)
  PROVE  UploadStage' /\ UploadDone'
  <1>1. /\ handler.pc # "none" /\ mp.state \in {"BODY", "AFTER_BOUNDARY", "DONE"}
        /\ mp.state = "DONE" => disturbed
    BY DEF UploadsInv, IInv, CallInv, FlashInv, BodyInv
  <1>2. Sent(parts)
    BY <1>1, ThisIsSent DEF UploadsInv, FlashInv, BodyInv
  <1>3. UploadDone'
    <2>1. ~disturbed' => mp'.state # "DONE"
      BY <1>1
    <2> QED
      BY <2>1, Zenon DEF UploadDone
  <1>4. ASSUME Active PROVE StoreStage(parts)'
    <2>1. mp.state \in {"BODY", "AFTER_BOUNDARY"}
      BY <1>1, <1>4 DEF Active
    <2>2. PICK i, j, k : Position(parts, i, j, k) /\ (~disturbed => PartStored(parts, i, j, k))
      BY <1>4 DEF UploadsInv, StoreInv, UploadStage, StoreStage
    <2>3. /\ Position(parts, i, k, k)' /\ (isFile' <=> isFile)
          /\ Over(i)' = IF mp.state = "AFTER_BOUNDARY" THEN i ELSE i - 1
      BY <1>2, <2>1, <2>2, ReturnedMoves
    <2>4. ASSUME ~disturbed' PROVE PartStored(parts, i, k, k)'
      <3>1. ~disturbed
        BY <2>4
      <3>2. /\ AllStored(parts, IF mp.state = "AFTER_BOUNDARY" THEN i ELSE i - 1)'
            /\ k > 0 /\ isFile =>
                 ~FileSeen(parts, i - 1) /\ Real(handler'.targetPath) /\ Stored' = UpTo(parts, i, k)
        BY <1>4, <2>2, <3>1
      <3>3. AllStored(parts, Over(i))'
        <4>1. PICK m : m = IF mp.state = "AFTER_BOUNDARY" THEN i ELSE i - 1
          OBVIOUS
        <4>2. (IF mp.state = "AFTER_BOUNDARY" THEN i ELSE i - 1)' = m
          BY <4>1
        <4>3. AllStored(parts, m)'
          BY <3>2, <4>2, Zenon DEF AllStored
        <4>4. Over(i)' = m
          BY <2>3, <4>1
        <4> QED
          BY <4>3, <4>4, Zenon DEF AllStored
      <3>4. handler'.pc \notin Storing
        BY DEF Storing
      <3>5. k > 0 /\ isFile' =>
              ~FileSeen(parts, i - 1) /\ Real(handler'.targetPath) /\ Stored' = UpTo(parts, i, k)
        BY <2>3, <3>2, Zenon
      <3> QED
        BY <3>3, <3>4, <3>5, Zenon DEF PartStored, FileSeen, FileAt, UpTo, Real, OnFlash, OnCard
    <2> QED
      BY <2>3, <2>4, Zenon DEF StoreStage
  <1>5. UploadStage'
    BY <1>4 DEF UploadStage, Active
  <1> QED
    BY <1>3, <1>5

(* The handler has failed: the parser stops.                                *)
LEMMA FailedStoreInv ==
  ASSUME UploadsInv, call # NoCall, Returned(FALSE), handler'.error
  PROVE  UploadStage' /\ UploadDone'
  <1>1. /\ call.last => mp.state = "DONE"
        /\ mp = [state |-> mp.state, buffer |-> mp.buffer, unread |-> mp.unread,
              header |-> mp.header, isFirstChunk |-> mp.isFirstChunk,
              fieldValue |-> mp.fieldValue, eof |-> mp.eof, ret |-> mp.ret]
    BY DEF UploadsInv, IInv, CallInv, ParserType
  <1>2. mp'.state = "DONE"
    BY <1>1 DEF Returned
  <1> QED
    BY <1>2, Zenon DEF UploadStage, UploadDone, Active

(* Whichever piece of its file an undisturbed upload has got, this step      *)
(* leaves it stored as far as its handler has come.                          *)
PieceGoesOn(parts) ==
  \A i, j, k : \A old, new \in Seq(Symbols) :
    /\ ~disturbed /\ Active /\ Position(parts, i, j, k) /\ PartStored(parts, i, j, k)
    /\ old = UpTo(parts, i, j) /\ new = UpTo(parts, i, k)
    /\ (call.first => old = <<>>) /\ (~call.first => j > 0)
    /\ isFile /\ Over(i) = i - 1
    => ~FileSeen(parts, i - 1) /\ PieceStored(old, new)'

(* The handler takes its next step inside the callback.                     *)
LEMMA WaitsStoreInv ==
  ASSUME OrderlyRequests, UploadsInv, NEW parts, parts = request.parts, request.kind = "upload",
         UNCHANGED <<mp, call, request>>, call.kind = "file", handler'.pc \in Storing,
         disturbed => disturbed',
         PieceGoesOn(parts)
  PROVE  UploadStage' /\ UploadDone'
  <1>1. /\ call # NoCall /\ handler.pc # "none" /\ mp.state \in {"BODY", "AFTER_BOUNDARY", "DONE"}
        /\ mp.state = "DONE" => disturbed
    BY DEF UploadsInv, IInv, CallInv, FlashInv, BodyInv, NoCall
  <1>2. Sent(parts)
    BY <1>1, ThisIsSent DEF UploadsInv, FlashInv, BodyInv
  <1>3. UploadDone'
    <2>1. ~disturbed' => mp'.state # "DONE"
      BY <1>1
    <2> QED
      BY <2>1, Zenon DEF UploadDone
  <1>4. ASSUME Active PROVE StoreStage(parts)'
    <2>1. mp.state \in {"BODY", "AFTER_BOUNDARY"}
      BY <1>1, <1>4 DEF Active
    <2>2. PICK i, j, k : Position(parts, i, j, k) /\ (~disturbed => PartStored(parts, i, j, k))
      BY <1>4 DEF UploadsInv, StoreInv, UploadStage, StoreStage
    <2>3. Position(parts, i, j, k)'
      BY <2>2, PositionKept
    <2>4. ASSUME ~disturbed' PROVE PartStored(parts, i, j, k)'
      <3>1. PICK old, new : old = UpTo(parts, i, j) /\ new = UpTo(parts, i, k)
        OBVIOUS
      <3>2. /\ old \in Seq(Symbols) /\ new \in Seq(Symbols)
            /\ call.first => old = <<>>
            /\ ~call.first => j > 0
        BY <1>2, <2>1, <2>2, <3>1, PieceFollows
      <3>3. isFile /\ Over(i) = i - 1
        BY <1>1, <1>2, <2>1, <2>2, PlaceOfCall DEF CallPlace
      <3>4. ~disturbed /\ PartStored(parts, i, j, k)
        BY <2>2, <2>4
      <3>5. ~FileSeen(parts, i - 1) /\ PieceStored(old, new)'
        BY <1>4, <2>2, <3>1, <3>2, <3>3, <3>4 DEF PieceGoesOn
      <3>6. UpTo(parts, i, j)' = old /\ UpTo(parts, i, k)' = new /\ ~FileSeen(parts, i - 1)'
        BY <3>1, <3>5, Zenon DEF UpTo, FileSeen, FileAt
      <3>7. handler'.pc # "parsing"
        BY DEF Storing
      <3> QED
        BY <3>5, <3>6, <3>7, <3>1, Zenon DEF PartStored, UpTo, FileSeen, FileAt
    <2> QED
      BY <2>3, <2>4, Zenon DEF StoreStage
  <1>5. UploadStage'
    BY <1>4 DEF UploadStage, Active
  <1> QED
    BY <1>3, <1>5

(* A field behind the file does not name another target.                    *)
LEMMA FieldStoreInv ==
  ASSUME OrderlyRequests, UploadsInv, FieldReceived
  PROVE  UploadStage' /\ UploadDone'
  <1>1. /\ handler.pc = "parsing" /\ call.kind = "field" /\ mp' = mp /\ call' = NoCall
        /\ UNCHANGED <<request, flash, sdFiles>>
    BY DEF FieldReceived, Returned, Quiet, fsVars
  <1>2. disturbed => disturbed'
    BY Zenon DEF FieldReceived
  <1>3. call # NoCall /\ handler'.pc = "parsing"
    BY <1>1 DEF NoCall, FieldReceived, UploadsInv, IInv, HandlerType
  <1>4. CASE request.kind # "upload"
    BY <1>1, <1>4 DEF UploadStage, UploadDone
  <1>5. CASE request.kind = "upload"
    <2>1. PICK parts : parts = request.parts
      OBVIOUS
    <2>2. /\ Sent(parts) /\ FileParts(request) = {p \in 1 .. Len(parts) : FileAt(parts, p)}
          /\ \A p \in FileParts(request), q \in DOMAIN parts \ FileParts(request) :
               p < q => Header[parts[q].header].name # "path"
      BY <1>1, <1>5, <2>1, ThisIsSent DEF UploadsInv, FlashInv, BodyInv, Orderly
    <2>3. ASSUME ~disturbed, Active, NEW i, NEW j, NEW k,
                 Position(parts, i, j, k), PartStored(parts, i, j, k)
          PROVE  /\ AllStored(parts, IF mp.state = "AFTER_BOUNDARY" THEN i ELSE i - 1)'
                 /\ k > 0 /\ isFile =>
                      ~FileSeen(parts, i - 1) /\ Real(handler'.targetPath) /\ Stored' = UpTo(parts, i, k)
      <3>1. mp.state = "AFTER_BOUNDARY" /\ mp.header = parts[i].header
        BY <1>1, <1>3, <2>3 DEF UploadsInv, IInv, CallInv, Active, Position, Place
      <3>2. /\ i \in 1 .. Len(parts) /\ Len(parts) \in Nat /\ i \in Nat
            /\ isFile <=> FileAt(parts, i)
            /\ Over(i) = i - 1
            /\ CallPlace(parts, i, j, k)
        BY <1>3, <2>2, <2>3, <3>1, PlaceOfCall
      <3>3. ~isFile /\ ~FileAt(parts, i)
        BY <1>1, <3>2 DEF CallPlace
      <3>4. AllStored(parts, i - 1)
        BY <1>1, <2>3, <3>2 DEF PartStored
      <3>5. ASSUME NEW p \in 1 .. i, FileAt(parts, p) PROVE Real(handler'.targetPath) /\ Stored' = parts[p].data
        <4>1. p \in 1 .. i - 1 /\ p < i /\ p \in 1 .. Len(parts)
          BY <3>2, <3>3, <3>5
        <4>2. Real(handler.targetPath) /\ Stored = parts[p].data
          BY <3>4, <3>5, <4>1 DEF AllStored
        <4>3. i \in DOMAIN parts \ FileParts(request) /\ p \in FileParts(request)
          BY <2>2, <3>2, <3>3, <3>5, <4>1 DEF Sent
        <4>4. mpParsePartHeaders(mp.header).name # "path"
          BY <2>2, <3>1, <4>1, <4>3 DEF mpParsePartHeaders
        <4>5. handler'.targetPath = handler.targetPath
          BY <4>4 DEF FieldReceived, UploadsInv, IInv, HandlerType
        <4> QED
          BY <1>1, <4>2, <4>5, Zenon DEF Stored
      <3>6. AllStored(parts, i)'
        BY <3>5, Zenon DEF AllStored, FileAt, Real, OnFlash, OnCard
      <3>7. (IF mp.state = "AFTER_BOUNDARY" THEN i ELSE i - 1)' = i
        BY <1>1, <3>1
      <3> QED
        BY <3>3, <3>6, <3>7, Zenon DEF AllStored
    <2> QED
      BY <1>1, <1>2, <1>3, <1>5, <2>1, <2>3, PassedStoreInv
  <1> QED
    BY <1>4, <1>5

(* A piece of the file is about to be stored where the pieces before it     *)
(* are, and is the first one only of the first file.                        *)
LEMMA OpenFileStoreInv ==
  ASSUME OrderlyRequests, UploadsInv, request.kind = "upload", handler.pc = "parsing", call.kind = "file",
         NEW h, h = [handler EXCEPT !.targetPath = h.targetPath], OpenFile(h),
         UNCHANGED <<flash, vfs, volume, sdFiles, request>>, disturbed => disturbed',
         call.first /\ Real(h.targetPath) => ~Real(handler.targetPath),
         ~call.first => h.targetPath = handler.targetPath
  PROVE  UploadStage' /\ UploadDone'
  <1>1. /\ HandlerType /\ fsCall[httpd].op = "none" /\ fds[httpd] = NoFile
        /\ fsCall \in [Tasks -> FsCalls] /\ fsResult \in [Tasks -> {"ok", "error"}]
    BY DEF UploadsInv, IInv, FilesInv, ServerInv, FsInv, FsType
  <1>2. h = [pc |-> h.pc, targetPath |-> h.targetPath, basePath |-> h.basePath, error |-> h.error,
             otaStarted |-> h.otaStarted, answer |-> h.answer]
    BY <1>1 DEF HandlerType
  <1>3. PICK parts : parts = request.parts
    OBVIOUS
  <1>4. call # NoCall
    BY DEF NoCall
  <1>5. ASSUME UNCHANGED <<mp, call>>, handler'.pc \in Storing, handler'.targetPath = h.targetPath,
               Real(h.targetPath),
               ASSUME NEW old \in Seq(Symbols), NEW new \in Seq(Symbols), call.first => old = <<>>,
                      ~call.first => Stored = old
               PROVE  PieceStored(old, new)'
        PROVE  UploadStage' /\ UploadDone'
    <2>1. PieceGoesOn(parts)
      <3> SUFFICES ASSUME NEW i, NEW j, NEW k, NEW old \in Seq(Symbols), NEW new \in Seq(Symbols),
                          ~disturbed, Active, Position(parts, i, j, k), PartStored(parts, i, j, k),
                          old = UpTo(parts, i, j), new = UpTo(parts, i, k),
                          call.first => old = <<>>, ~call.first => j > 0, isFile, Over(i) = i - 1
                   PROVE  ~FileSeen(parts, i - 1) /\ PieceStored(old, new)'
        BY ZenonT(30) DEF PieceGoesOn
      <3>1. /\ AllStored(parts, i - 1)
            /\ j > 0 => ~FileSeen(parts, i - 1) /\ Stored = UpTo(parts, i, j)
        BY DEF PartStored
      <3>2. CASE call.first
        <4>1. ~FileSeen(parts, i - 1)
          BY <1>5, <3>1, <3>2 DEF AllStored, FileSeen
        <4>2. PieceStored(old, new)'
          BY <1>5, <3>2
        <4> QED
          BY <4>1, <4>2
      <3>3. CASE ~call.first
        <4>1. ~FileSeen(parts, i - 1) /\ Stored = old
          BY <3>1, <3>3
        <4>2. PieceStored(old, new)'
          BY <1>5, <3>3, <4>1
        <4> QED
          BY <4>1, <4>2
      <3> QED
        BY <3>2, <3>3
    <2>2. UNCHANGED <<mp, call, request>> /\ handler'.pc \in Storing
      BY <1>5
    <2>3. disturbed => disturbed'
      OBVIOUS
    <2> QED
      BY <1>3, <2>1, <2>2, <2>3, WaitsStoreInv
  <1>6. CASE OnFlash(h.targetPath)
    <2> DEFINE c == [NoCallFS EXCEPT !.op = "open", !.mode = UploadMode(call), !.path = Tail(h.targetPath)]
    <2>1. handler' = [h EXCEPT !.pc = "opening"] /\ Call(httpd, c) /\ UNCHANGED <<mp, call>>
      BY <1>6 DEF OpenFile
    <2>2. handler'.pc = "opening" /\ handler'.targetPath = h.targetPath /\ Real(h.targetPath)
      BY <1>2, <1>6, <2>1 DEF Real
    <2>3. PICK f : f = Tail(h.targetPath)
      OBVIOUS
    <2>4. PICK m : m = IF call.first THEN "w" ELSE "a"
      OBVIOUS
    <2>4a. c = [op |-> "open", ctx |-> None, path |-> f, mode |-> m, data |-> <<>>]
      <3>1. UploadMode(call) = m
        BY <2>4 DEF UploadMode
      <3>2. c = [NoCallFS EXCEPT !.op = "open", !.mode = m, !.path = f]
        BY <2>3, <3>1
      <3> HIDE DEF c
      <3> QED
        BY <3>2 DEF NoCallFS
    <2> HIDE DEF c
    <2>5. \/ fsCall'[httpd] = fsCall[httpd] /\ fsResult'[httpd] = "error"
          \/ vfs # None /\ fsCall'[httpd] = [c EXCEPT !.ctx = vfs]
      BY <1>1, <2>1, <2>4a, TasksAre DEF Call
    <2>6. ASSUME NEW old \in Seq(Symbols), NEW new \in Seq(Symbols), call.first => old = <<>>,
                 ~call.first => Stored = old
          PROVE  PieceStored(old, new)'
      <3>1. ~call.first => flash[f] = old
        BY <1>6, <2>3, <2>6 DEF Stored
      <3>2. OnFlash(handler'.targetPath) /\ TargetFile' = f
        BY <1>6, <2>2, <2>3 DEF OnFlash, TargetFile
      <3>3. \/ /\ Calls("open")' /\ fsCall'[httpd].path = f
               /\ \/ fsCall'[httpd].mode = "w" /\ old = <<>>
                  \/ fsCall'[httpd].mode = "a" /\ flash'[f] = old
            \/ NotCalling' /\ fsResult'[httpd] = "error"
        BY <1>1, <2>4, <2>4a, <2>5, <2>6, <3>1 DEF Calls, NotCalling
      <3> QED
        BY <2>2, <3>2, <3>3 DEF PieceStored, OnFlash
    <2> QED
      BY <1>5, <2>1, <2>2, <2>6 DEF Storing
  <1>7. CASE ~OnFlash(h.targetPath) /\ OnCard(h.targetPath) /\ volume # NoCard
    <2>1. handler' = [h EXCEPT !.pc = "onCard"] /\ UNCHANGED <<mp, call>>
      BY <1>7 DEF OpenFile
    <2>2. handler'.pc = "onCard" /\ handler'.targetPath = h.targetPath /\ Real(h.targetPath)
      BY <1>2, <1>7, <2>1 DEF Real
    <2>3. PICK f : f = Tail(h.targetPath)
      OBVIOUS
    <2>4. ASSUME NEW old \in Seq(Symbols), NEW new \in Seq(Symbols), call.first => old = <<>>,
                 ~call.first => Stored = old
          PROVE  PieceStored(old, new)'
      <3>1. ~call.first => sdFiles[f] = old
        BY <1>7, <2>3, <2>4 DEF Stored
      <3>2. OnCard(handler'.targetPath) /\ TargetFile' = f
        BY <1>7, <2>2, <2>3 DEF OnCard, TargetFile
      <3> QED
        BY <1>7, <2>1, <2>2, <2>4, <3>1, <3>2 DEF PieceStored, OnCard
    <2> QED
      BY <1>5, <2>1, <2>2, <2>4 DEF Storing
  <1>8. CASE ~OnFlash(h.targetPath) /\ ~(OnCard(h.targetPath) /\ volume # NoCard)
    <2>1. handler' = [h EXCEPT !.error = TRUE, !.pc = "parsing"] /\ Returned(FALSE)
      BY <1>8 DEF OpenFile, Fails
    <2>2. handler'.error
      BY <1>2, <2>1
    <2> QED
      BY <1>4, <2>1, <2>2, FailedStoreInv
  <1> QED
    BY <1>6, <1>7, <1>8

(* A path that was resolved is not resolved again: the second file of a     *)
(* body fails (resolveVirtualPath knows virtual paths only).                *)
LEMMA FileStoreInv ==
  ASSUME OrderlyRequests, UploadsInv, FileReceived
  PROVE  UploadStage' /\ UploadDone'
  <1>1. /\ request.kind = "upload" /\ handler.pc = "parsing" /\ call.kind = "file"
        /\ UNCHANGED <<flash, vfs, volume, sdFiles, request>>
    BY DEF FileReceived, In, sdVars
  <1>2. disturbed => disturbed'
    BY Zenon DEF FileReceived
  <1>3. HandlerType /\ IsPath(handler.targetPath)
    BY DEF UploadsInv, IInv, StoreInv, DataInv
  <1>4. PICK realPath : realPath = IF UploadPath(handler) = <<>> THEN <<>>
                                   ELSE resolveVirtualPath(UploadPath(handler))
    OBVIOUS
  <1>5. \/ ~call.first /\ OpenFile(handler)
        \/ call.first /\ Fails(handler)
        \/ call.first /\ realPath # <<>> /\ OpenFile([handler EXCEPT !.targetPath = realPath])
    BY <1>4 DEF FileReceived
  <1>6. CASE ~call.first /\ OpenFile(handler)
    <2>1. PICK h : h = handler
      OBVIOUS
    <2>2. h = [handler EXCEPT !.targetPath = h.targetPath] /\ OpenFile(h)
      BY <1>3, <1>6, <2>1 DEF HandlerType
    <2> QED
      BY <1>1, <1>2, <1>6, <2>1, <2>2, OpenFileStoreInv
  <1>7. CASE Fails(handler)
    <2>1. handler'.error /\ Returned(FALSE)
      BY <1>3, <1>7 DEF Fails, HandlerType
    <2> QED
      BY <1>1, <2>1, FailedStoreInv DEF NoCall
  <1>8. CASE call.first /\ realPath # <<>> /\ OpenFile([handler EXCEPT !.targetPath = realPath])
    <2>1. PICK h : h = [handler EXCEPT !.targetPath = realPath]
      OBVIOUS
    <2>2. h.targetPath = realPath /\ h = [handler EXCEPT !.targetPath = h.targetPath] /\ OpenFile(h)
      BY <1>3, <1>8, <2>1 DEF HandlerType
    <2>3. Real(h.targetPath) => ~Real(handler.targetPath)
      BY <1>3, <1>4, <1>8, <2>2, RealIsRefused DEF Real
    <2> QED
      BY <1>1, <1>2, <1>8, <2>2, <2>3, OpenFileStoreInv
  <1> QED
    BY <1>5, <1>6, <1>7, <1>8

(* An open file is found: the calls of the handler reach it.                *)
LEMMA OpenIsFound ==
  ASSUME FsInv, NEW f, NEW data, OpenWith(f, data)
  PROVE  vfs # None /\ fds[httpd] # NoFile
  <1>1. PICK i \in Slots : OpenAt(i, f, data)
    BY DEF OpenWith
  <1>2. efs[i] \in ContextRecords /\ vfs = efs[i].id /\ fds[httpd].ctx = vfs
    BY <1>1 DEF OpenAt, Holds, FsInv, FsType
  <1>3. vfs # None
    BY <1>2 DEF ContextRecords
  <1> QED
    BY <1>2, <1>3 DEF NoFile

(* The file is open: the piece is written to it.                            *)
LEMMA OpenedStoreInv ==
  ASSUME OrderlyRequests, UploadsInv, Opened
  PROVE  UploadStage' /\ UploadDone'
  <1>1. /\ request.kind = "upload" /\ handler.pc = "opening" /\ fsCall[httpd].op = "none"
        /\ UNCHANGED <<flash, efs, vfs, volume, sdFiles, request>>
    BY DEF Opened, In, FsReturned, OtherFs, sdVars
  <1>2. disturbed => disturbed'
    BY Zenon DEF Opened
  <1>3. HandlerType /\ call.kind = "file" /\ call # NoCall
    BY <1>1 DEF UploadsInv, IInv, FlashInv, BodyInv, Storing, NoCall
  <1>4. FsInv /\ fsCall \in [Tasks -> FsCalls]
    BY DEF UploadsInv, FilesInv, FsInv, FsType
  <1>5. CASE fsResult[httpd] = "error"
    <2>1. handler' = [handler EXCEPT !.error = TRUE, !.pc = "parsing"] /\ Returned(FALSE)
      BY <1>5 DEF Opened, Fails
    <2>2. handler'.error
      BY <1>3, <2>1 DEF HandlerType
    <2> QED
      BY <1>3, <2>1, <2>2, FailedStoreInv
  <1>6. CASE fsResult[httpd] # "error"
    <2>1. /\ Call(httpd, [NoCallFS EXCEPT !.op = "write", !.data = call.data])
          /\ handler' = [handler EXCEPT !.pc = "writing"] /\ UNCHANGED <<mp, call>>
      BY <1>6 DEF Opened
    <2>2. handler'.pc = "writing" /\ handler'.targetPath = handler.targetPath
      BY <1>3, <2>1 DEF HandlerType
    <2>3. PICK f : f = TargetFile
      OBVIOUS
    <2>4. PICK c : c = [NoCallFS EXCEPT !.op = "write", !.data = call.data]
      OBVIOUS
    <2>5. c = [op |-> "write", ctx |-> None, path |-> None, mode |-> "r", data |-> call.data]
      BY <2>4 DEF NoCallFS
    <2>6. PICK parts : parts = request.parts
      OBVIOUS
    <2>7. PieceGoesOn(parts)
      <3> SUFFICES ASSUME NEW i, NEW j, NEW k, NEW old \in Seq(Symbols), NEW new \in Seq(Symbols),
                          PartStored(parts, i, j, k), ~disturbed,
                          old = UpTo(parts, i, j), new = UpTo(parts, i, k)
                   PROVE  ~FileSeen(parts, i - 1) /\ PieceStored(old, new)'
        BY ZenonT(30) DEF PieceGoesOn
      <3>1. ~FileSeen(parts, i - 1) /\ PieceStored(old, new)
        BY <1>1 DEF PartStored, Storing
      <3>2. OpenWith(f, old) /\ OnFlash(handler.targetPath)
        BY <1>1, <1>6, <2>3, <3>1 DEF PieceStored, Calls
      <3>3. vfs # None /\ fds[httpd] # NoFile
        BY <1>4, <3>2, OpenIsFound
      <3>4. fsCall'[httpd] = [c EXCEPT !.ctx = vfs] /\ fds' = fds
        BY <1>4, <2>1, <2>4, <2>5, <3>3, TasksAre DEF Call
      <3>5. Calls("write")' /\ fsCall'[httpd].data = call'.data
        BY <1>1, <2>1, <2>5, <3>3, <3>4 DEF Calls
      <3>6. OpenWith(f, old)'
        BY <1>1, <3>2, <3>4 DEF OpenWith, OpenAt, Holds
      <3>7. OnFlash(handler'.targetPath) /\ TargetFile' = f
        BY <2>2, <2>3, <3>2 DEF OnFlash, TargetFile
      <3>8. PieceStored(old, new)'
        BY <2>2, <3>5, <3>6, <3>7 DEF PieceStored, OnFlash
      <3> QED
        BY <3>1, <3>8
    <2>8. UNCHANGED <<mp, call, request>> /\ handler'.pc \in Storing
      BY <1>1, <2>1, <2>2 DEF Storing
    <2> QED
      BY <1>1, <1>2, <1>3, <2>6, <2>7, <2>8, WaitsStoreInv
  <1> QED
    BY <1>5, <1>6

(* The piece is written: the file is closed.                                *)
LEMMA WrittenStoreInv ==
  ASSUME OrderlyRequests, UploadsInv, Written
  PROVE  UploadStage' /\ UploadDone'
  <1>1. /\ request.kind = "upload" /\ handler.pc = "writing" /\ fsCall[httpd].op = "none"
        /\ UNCHANGED <<flash, efs, vfs, volume, sdFiles, request>>
        /\ Call(httpd, [NoCallFS EXCEPT !.op = "close"])
        /\ handler' = [handler EXCEPT !.pc = "closing"] /\ UNCHANGED <<mp, call>>
    BY DEF Written, In, FsReturned, OtherFs, sdVars
  <1>2. disturbed => disturbed'
    BY Zenon DEF Written
  <1>3. HandlerType /\ call.kind = "file" /\ call # NoCall
    BY <1>1 DEF UploadsInv, IInv, FlashInv, BodyInv, Storing, NoCall
  <1>4. FsInv /\ fsCall \in [Tasks -> FsCalls]
    BY DEF UploadsInv, FilesInv, FsInv, FsType
  <1>5. handler'.pc = "closing" /\ handler'.targetPath = handler.targetPath
    BY <1>1, <1>3 DEF HandlerType
  <1>6. PICK f : f = TargetFile
    OBVIOUS
  <1>7. PICK c : c = [NoCallFS EXCEPT !.op = "close"]
    OBVIOUS
  <1>8. c = [op |-> "close", ctx |-> None, path |-> None, mode |-> "r", data |-> <<>>]
    BY <1>7 DEF NoCallFS
  <1>9. PICK parts : parts = request.parts
    OBVIOUS
  <1>10. PieceGoesOn(parts)
    <2> SUFFICES ASSUME NEW i, NEW j, NEW k, NEW old \in Seq(Symbols), NEW new \in Seq(Symbols),
                        PartStored(parts, i, j, k), ~disturbed,
                        old = UpTo(parts, i, j), new = UpTo(parts, i, k)
                 PROVE  ~FileSeen(parts, i - 1) /\ PieceStored(old, new)'
      BY ZenonT(30) DEF PieceGoesOn
    <2>1. ~FileSeen(parts, i - 1) /\ PieceStored(old, new)
      BY <1>1 DEF PartStored, Storing
    <2>2. DirtyWith(f, new) /\ OnFlash(handler.targetPath)
      BY <1>1, <1>6, <2>1 DEF PieceStored, Calls
    <2>3. OpenWith(f, new)
      BY <2>2 DEF DirtyWith, OpenWith
    <2>4. vfs # None /\ fds[httpd] # NoFile
      BY <1>4, <2>3, OpenIsFound
    <2>5. fsCall'[httpd] = [c EXCEPT !.ctx = vfs] /\ fds' = fds
      BY <1>1, <1>4, <1>7, <1>8, <2>4, TasksAre DEF Call
    <2>6. Calls("close")'
      BY <1>1, <1>8, <2>4, <2>5 DEF Calls
    <2>7. DirtyWith(f, new)'
      BY <1>1, <2>2, <2>5 DEF DirtyWith, OpenAt, Holds
    <2>8. OnFlash(handler'.targetPath) /\ TargetFile' = f
      BY <1>5, <1>6, <2>2 DEF OnFlash, TargetFile
    <2>9. PieceStored(old, new)'
      BY <1>5, <2>6, <2>7, <2>8 DEF PieceStored, OnFlash
    <2> QED
      BY <2>1, <2>9
  <1>11. UNCHANGED <<mp, call, request>> /\ handler'.pc \in Storing
    BY <1>1, <1>5 DEF Storing
  <1> QED
    BY <1>1, <1>2, <1>3, <1>9, <1>10, <1>11, WaitsStoreInv

(* The piece is stored: all of the file, if it was the last one.            *)
LEMMA PieceStoreInv ==
  ASSUME OrderlyRequests, UploadsInv, request.kind = "upload", call.kind = "file",
         mp' = mp, call' = NoCall, request' = request, handler'.pc = "parsing",
         handler.pc \in Storing, handler'.targetPath = handler.targetPath, disturbed => disturbed',
         ASSUME NEW old \in Seq(Symbols), NEW new \in Seq(Symbols), PieceStored(old, new),
                new = old \o call.data, call.first => new = call.data
         PROVE  Real(handler.targetPath) /\ Stored' = new
  PROVE  UploadStage' /\ UploadDone'
  <1>1. PICK parts : parts = request.parts
    OBVIOUS
  <1>2. call # NoCall /\ handler.pc # "none"
    BY DEF NoCall, Storing
  <1>3. Sent(parts)
    BY <1>1, <1>2, ThisIsSent DEF UploadsInv, FlashInv, BodyInv
  <1>4. ASSUME ~disturbed, Active, NEW i, NEW j, NEW k,
               Position(parts, i, j, k), PartStored(parts, i, j, k)
        PROVE  /\ AllStored(parts, IF mp.state = "AFTER_BOUNDARY" THEN i ELSE i - 1)'
               /\ k > 0 /\ isFile =>
                    ~FileSeen(parts, i - 1) /\ Real(handler'.targetPath) /\ Stored' = UpTo(parts, i, k)
    <2>1. mp.state \in {"BODY", "AFTER_BOUNDARY"}
      BY <1>2, <1>4 DEF UploadsInv, IInv, CallInv, Active
    <2>2. i \in 1 .. Len(parts) /\ Len(parts) \in Nat /\ i \in Nat
      BY <1>3, <1>4, <2>1, PlaceOfCall
    <2>3. PICK old, new : old = UpTo(parts, i, j) /\ new = UpTo(parts, i, k)
      OBVIOUS
    <2>4. /\ old \in Seq(Symbols) /\ new \in Seq(Symbols) /\ new = old \o call.data
          /\ call.first => new = call.data
          /\ mp.state = "AFTER_BOUNDARY" => new = parts[i].data
      <3>1. Position(parts, i, j, k)
        BY <1>4
      <3>2. /\ UpTo(parts, i, j) \in Seq(Symbols) /\ UpTo(parts, i, k) \in Seq(Symbols)
            /\ UpTo(parts, i, k) = UpTo(parts, i, j) \o call.data
            /\ call.first => UpTo(parts, i, k) = call.data
            /\ mp.state = "AFTER_BOUNDARY" => UpTo(parts, i, k) = parts[i].data
        BY <1>3, <2>1, <3>1, PieceFollows
      <3> QED
        BY <2>3, <3>2
    <2>5. ~FileSeen(parts, i - 1) /\ PieceStored(old, new)
      BY <1>4, <2>3 DEF PartStored
    <2>6. Real(handler.targetPath) /\ Stored' = new
      BY <2>4, <2>5
    <2>7. PICK m : m = IF mp.state = "AFTER_BOUNDARY" THEN i ELSE i - 1
      OBVIOUS
    <2>8. ASSUME NEW p \in 1 .. m, FileAt(parts, p) PROVE Real(handler.targetPath) /\ Stored' = parts[p].data
      <3>1. CASE p \in 1 .. i - 1
        BY <2>5, <2>8, <3>1 DEF FileSeen
      <3>2. CASE p \notin 1 .. i - 1
        <4>1. p = i /\ mp.state = "AFTER_BOUNDARY"
          BY <2>2, <2>7, <2>8, <3>2
        <4> QED
          BY <2>4, <2>6, <4>1
      <3> QED
        BY <3>1, <3>2
    <2>9. AllStored(parts, m)'
      BY <2>8, Zenon DEF AllStored, FileAt, Real, OnFlash, OnCard
    <2>10. (IF mp.state = "AFTER_BOUNDARY" THEN i ELSE i - 1)' = m
      BY <2>7
    <2>11. AllStored(parts, IF mp.state = "AFTER_BOUNDARY" THEN i ELSE i - 1)'
      BY <2>9, <2>10, Zenon DEF AllStored
    <2> QED
      BY <2>3, <2>5, <2>6, <2>11, Zenon
  <1> QED
    BY <1>1, <1>2, <1>4, PassedStoreInv

(* On the flash the file is stored by its closing.                          *)
LEMMA ClosedStoreInv ==
  ASSUME OrderlyRequests, UploadsInv, Closed
  PROVE  UploadStage' /\ UploadDone'
  <1>1. /\ request.kind = "upload" /\ handler.pc = "closing" /\ fsCall[httpd].op = "none"
        /\ UNCHANGED <<flash, sdFiles, request>>
        /\ handler' = [handler EXCEPT !.pc = "parsing"] /\ mp' = mp /\ call' = NoCall
    BY DEF Closed, In, FsReturned, OtherFs, Returned
  <1>2. disturbed => disturbed'
    BY Zenon DEF Closed
  <1>3. HandlerType /\ call.kind = "file" /\ handler.pc \in Storing
    BY <1>1 DEF UploadsInv, IInv, FlashInv, BodyInv, Storing
  <1>4. handler'.pc = "parsing" /\ handler'.targetPath = handler.targetPath
    BY <1>1, <1>3 DEF HandlerType
  <1>5. ASSUME NEW old \in Seq(Symbols), NEW new \in Seq(Symbols), PieceStored(old, new)
        PROVE  Real(handler.targetPath) /\ Stored' = new
    <2>1. OnFlash(handler.targetPath) /\ flash[TargetFile] = new
      BY <1>1, <1>5 DEF PieceStored, Calls
    <2> QED
      BY <1>1, <1>4, <2>1 DEF Stored, OnFlash, TargetFile, Real
  <1> QED
    BY <1>1, <1>2, <1>3, <1>4, <1>5, PieceStoreInv

(* On the card it is stored at once.                                        *)
LEMMA CardStoreInv ==
  ASSUME OrderlyRequests, UploadsInv, WriteToCard
  PROVE  UploadStage' /\ UploadDone'
  <1>1. /\ request.kind = "upload" /\ handler.pc = "onCard" /\ request' = request
        /\ handler' = [handler EXCEPT !.pc = "parsing"] /\ mp' = mp /\ call' = NoCall
    BY DEF WriteToCard, In, Returned
  <1>2. disturbed => disturbed'
    BY Zenon DEF WriteToCard
  <1>3. HandlerType /\ call.kind = "file" /\ handler.pc \in Storing
    BY <1>1 DEF UploadsInv, IInv, FlashInv, BodyInv, Storing
  <1>4. handler'.pc = "parsing" /\ handler'.targetPath = handler.targetPath
    BY <1>1, <1>3 DEF HandlerType
  <1>5. sdFiles \in [Files -> Seq(Symbols) \union {None}]
    BY DEF UploadsInv, StoreInv, DataInv
  <1>6. ASSUME NEW old \in Seq(Symbols), NEW new \in Seq(Symbols), PieceStored(old, new),
               new = old \o call.data, call.first => new = call.data
        PROVE  Real(handler.targetPath) /\ Stored' = new
    <2>1. PICK f : f = Tail(handler.targetPath)
      OBVIOUS
    <2>2. /\ OnCard(handler.targetPath) /\ volume # NoCard /\ f \in Files
          /\ IF call.first THEN old = <<>> ELSE sdFiles[f] = old
      BY <1>1, <1>6, <2>1 DEF PieceStored, TargetFile, OnCard
    <2>3. old = IF call.first \/ sdFiles[f] = None THEN <<>> ELSE sdFiles[f]
      <3>1. old # None
        BY <1>6
      <3> QED
        BY <2>2, <3>1
    <2>4. sdFiles' = [sdFiles EXCEPT ![f] = old \o call.data]
      BY <2>1, <2>2, <2>3 DEF WriteToCard
    <2>5. sdFiles'[f] = new
      BY <1>5, <1>6, <2>2, <2>4
    <2>6. ~OnFlash(handler.targetPath)
      BY <2>2 DEF OnFlash, OnCard
    <2> QED
      BY <1>4, <2>1, <2>2, <2>5, <2>6 DEF Stored, OnFlash, Real
  <1> QED
    BY <1>1, <1>2, <1>3, <1>4, <1>6, PieceStoreInv

(* Answers change nothing that is stored.                                   *)
LEMMA AnswersStoreInv ==
  ASSUME UploadsInv, AnswerUpload \/ AnswerOta \/ End
  PROVE  UploadStage' /\ UploadDone'
  <1>1. CASE AnswerUpload
    <2>1. /\ request' = request /\ mp' = mp /\ mp.state = "DONE" /\ UNCHANGED <<flash, sdFiles>>
          /\ \E result : handler' = [handler EXCEPT !.pc = "answered", !.answer = result]
      BY <1>1 DEF AnswerUpload, Answer, Quiet, fsVars
    <2>2. HandlerType
      BY DEF UploadsInv, IInv
    <2>3. handler'.targetPath = handler.targetPath /\ (handler'.error <=> handler.error)
      BY <2>1, <2>2 DEF HandlerType
    <2>4. disturbed' <=> disturbed
      BY <1>1, Zenon DEF AnswerUpload
    <2>5. PICK parts : parts = request.parts
      OBVIOUS
    <2>6. UploadDone
      BY DEF UploadsInv, StoreInv
    <2>7. AllStored(parts, Len(parts)) => AllStored(parts, Len(parts))'
      BY <2>1, <2>3, Zenon DEF AllStored, FileAt, Real, OnFlash, OnCard, Stored
    <2>8. UploadDone'
      <3> SUFFICES ASSUME request.kind = "upload", mp.ret = "OK", ~disturbed, ~handler.error
                   PROVE  AllStored(parts, Len(parts))'
        BY <2>1, <2>3, <2>4, <2>5, Zenon DEF UploadDone, AllStored
      <3> QED
        BY <2>1, <2>5, <2>6, <2>7 DEF UploadDone
    <2> QED
      BY <2>1, <2>8 DEF UploadStage, Active
  <1>2. CASE AnswerOta
    BY <1>2 DEF AnswerOta, In, UploadStage, UploadDone
  <1>3. CASE End
    BY <1>3 DEF End, Idle, UploadStage, UploadDone, Active
  <1> QED
    BY <1>1, <1>2, <1>3

(* The invariant of the upload holds after every step.                      *)
LEMMA NextStoreInv ==
  ASSUME OneFormatter, OrderlyRequests, UploadsInv, [NextUploads]_vars
  PROVE  StoreInv'
  <1>1. ASSUME HandlerStep, UploadStage' /\ UploadDone' PROVE StoreInv'
    <2>1. DataInv'
      BY <1>1, HandlerDataInv DEF UploadsInv, StoreInv
    <2> QED
      BY <1>1, <2>1 DEF StoreInv
  <1>2. CASE OtaReceived \/ OtaFaults
    <2>1. request.kind = "ota" /\ request' = request
      BY <1>2 DEF OtaReceived, OtaFaults, In
    <2>2. UploadStage' /\ UploadDone'
      BY <2>1 DEF UploadStage, UploadDone
    <2> QED
      BY <1>1, <1>2, <2>2 DEF HandlerStep
  <1>3. CASE UNCHANGED vars \/ LoseConnection
    BY <1>3, StillStoreInv
  <1>4. CASE OtherStep
    BY <1>4, OthersStoreInv
  <1>5. CASE \/ Begin \/ Parser \/ FieldReceived \/ FileReceived \/ Opened \/ Written \/ Closed
             \/ WriteToCard \/ AnswerUpload \/ AnswerOta \/ End
    <2>1. HandlerStep
      BY <1>5 DEF HandlerStep
    <2>2. UploadStage' /\ UploadDone'
      BY <1>5, BeginStoreInv, ParserStoreInv, FieldStoreInv, FileStoreInv, OpenedStoreInv,
         WrittenStoreInv, ClosedStoreInv, CardStoreInv, AnswersStoreInv
    <2> QED
      BY <1>1, <2>1, <2>2
  <1> QED
    BY <1>2, <1>3, <1>4, <1>5 DEF NextUploads, HandlerStep

(* What is stored of an upload is what came of its file so far.             *)
THEOREM StoreInvariance ==
  ASSUME OneFormatter, OrderlyRequests
  PROVE  Spec => []UploadsInv
  <1>1. InitUploads => UploadsInv
    BY InitIInv, InitFilesInv, InitFlashInv, InitStoreInv DEF UploadsInv
  <1>2. UploadsInv /\ [NextUploads]_vars => UploadsInv'
    <2> SUFFICES ASSUME UploadsInv, [NextUploads]_vars PROVE UploadsInv'
      OBVIOUS
    <2>1. IInv /\ FilesInv /\ FlashInv
      BY DEF UploadsInv
    <2>2. IInv' /\ FilesInv' /\ FlashInv'
      BY <2>1, NextIInv, NextFilesInv, NextFlashInv
    <2>3. StoreInv'
      BY NextStoreInv
    <2> QED
      BY <2>2, <2>3 DEF UploadsInv
  <1> QED
    BY <1>1, <1>2, PTL DEF Spec

(* An upload that is answered with "ok", while nothing else failed or       *)
(* changed the storage, has stored all of the file and only the file,       *)
(* however the network cut the body into pieces.                            *)
THEOREM UploadsAreStored ==
  ASSUME OneFormatter, OrderlyRequests
  PROVE  Spec => []StoredAsSent
  <1>1. UploadsInv => StoredAsSent
    <2> SUFFICES ASSUME UploadsInv, handler.pc = "answered", request.kind = "upload",
                        handler.answer = "ok", ~disturbed, NEW i \in FileParts(request)
                 PROVE  Stored = request.parts[i].data
      BY DEF StoredAsSent
    <2>1. mp.state = "DONE" /\ mp.ret = "OK" /\ ~handler.error
      BY DEF UploadsInv, FlashInv, BodyInv
    <2>2. AllStored(request.parts, Len(request.parts))
      BY <2>1 DEF UploadsInv, StoreInv, UploadDone
    <2>3. i \in 1 .. Len(request.parts) /\ FileAt(request.parts, i)
      BY ThisIsSent DEF UploadsInv, FlashInv, BodyInv
    <2> QED
      BY <2>2, <2>3 DEF AllStored
  <1> QED
    BY <1>1, StoreInvariance, PTL
=============================================================================
