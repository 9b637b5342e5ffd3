-------------------------------- MODULE Uploads --------------------------------
(***************************************************************************)
(* What the HTTP server does with a request body: files are stored          *)
(* (uploadFilesHandler, WebServer.cpp) and firmware is flashed              *)
(* (otaPostHandler, OTA.cpp) while the body is still coming in, piece by    *)
(* piece, through the callbacks of the multipart parser.  Meanwhile other   *)
(* tasks read files, format the flash and mount and unmount the SD card.    *)
(***************************************************************************)
EXTENDS Multipart, EspLittleFs, SdCard, Filter

CONSTANTS
  httpd,        \* the HTTP server's task
  Formatters,   \* bound: the tasks that send the command "format"
  Readers,      \* the tasks that read files
  Requests,     \* the requests: [kind, boundary, parts]
  ValidImages,  \* the firmware images that esp_ota_end accepts
  MaxCommands   \* bound: reads, formats, sd commands and faults, and requests, twice

(* What is in memory of a file that is open, and of a context               *)
OpenFiles == [task : Tasks, path : Files, data : Seq(Symbols), dirty : BOOLEAN,
              errored : BOOLEAN]
ContextRecords == [id : Contexts, mounted : BOOLEAN, fd_count : Nat,
                   cache : Seq(OpenFiles \union {None})]

(* The handler's task reads no files of its own while it serves a body; and *)
(* what was in the files before is made of symbols, too.                    *)
ASSUME UploadsAssumption ==
  /\ {httpd} \union Readers \union Formatters \subseteq Tasks
  /\ httpd \notin Readers
  /\ "o" \in Symbols
  /\ None \notin Seq(Symbols) /\ None \notin OpenFiles /\ None \notin ContextRecords
  /\ None \notin Files
  /\ Requests \subseteq [kind : {"upload", "ota"}, boundary : BOOLEAN,
                         parts : Seq([header : Symbols, data : Seq(Symbols)])]

VARIABLES
  handler,    \* the local variables of the handler that runs, and its answer
  request,    \* the request it serves
  ota,        \* the update: is its handle open, what was flashed, what boots
  sdFiles,    \* the files on the SD card
  commands,   \* how many requests, reads, formats and sd commands there were
  disturbed   \* history: did anything else touch the storage, or fail, since
              \* the request began?

handlerVars == <<handler, request, ota, sdFiles, commands, disturbed>>
vars == <<mp, call, fsVars, sdVars, handlerVars>>

NoHandler == [pc |-> "none", targetPath |-> <<>>, basePath |-> <<>>, error |-> FALSE,
              otaStarted |-> FALSE, answer |-> "none"]

NoRequest == [kind |-> "none", boundary |-> FALSE, parts |-> <<>>]

InitUploads ==
  /\ mp = Idle /\ call = NoCall
  /\ InitFS /\ InitSd
  /\ handler = NoHandler
  /\ request = NoRequest
  /\ ota = [open |-> FALSE, image |-> <<>>, boot |-> "running"]
  /\ sdFiles = [f \in Files |-> None]
  /\ commands = 0
  /\ disturbed = FALSE

(* The body of a request                                                    *)
Body(parts) ==
  LET Part(i) == <<parts[i].header>> \o headerEnd \o parts[i].data \o boundaryMarker
                   \o (IF i = Len(parts) THEN <<"-", "-", "r", "n">> ELSE <<"r", "n">>)
  IN firstBoundary \o FlattenSeq([i \in DOMAIN parts |-> Part(i)])

-----------------------------------------------------------------------------
(* Paths are sequences of segments.                                         *)

(* sanitizePath: ".." is removed, and with it empty segments                *)
sanitizePath(raw) == Only(raw, ToSet(raw) \ {"", ".."})

(* resolveVirtualPath: the prefixes are compared as strings, so a path that *)
(* is already the real one on the card is taken for a virtual one.          *)
resolveVirtualPath(path) ==
  CASE path[1] = "flash"  -> <<"littlefs">> \o Tail(path)
    [] path[1] = "sd"     -> <<"sdcard">> \o Tail(path)
    [] path[1] = "sdcard" -> <<"sdcardcard">> \o Tail(path)
    [] OTHER              -> <<>>

OnFlash(path) == path # <<>> /\ path[1] = "littlefs" /\ Tail(path) \in Files
OnCard(path)  == path # <<>> /\ path[1] = "sdcard" /\ Tail(path) \in Files

FileName == mpParsePartHeaders(mp.header).fileName

(* Where the file goes, as far as the fields before it say                  *)
UploadPath(h) ==
  LET target == IF h.targetPath = <<>> /\ h.basePath # <<>>
                THEN h.basePath \o <<FileName>> ELSE h.targetPath
  IN sanitizePath(IF target = <<>> THEN <<FileName>> ELSE target)

-----------------------------------------------------------------------------
(* Requests                                                                 *)

Quiet == UNCHANGED <<fsVars, sdVars, sdFiles, commands>>

Begin ==
  /\ handler.pc = "none"
  /\ \E r \in Requests : request' = r /\ Parse(Body(r.parts), r.boundary)
  /\ handler' = [NoHandler EXCEPT !.pc = "parsing"]
  /\ disturbed' = FALSE
  /\ commands' = commands + 2
  /\ UNCHANGED <<call, fsVars, sdVars, sdFiles, ota>>

Parser ==
  /\ handler.pc = "parsing"
  /\ ParserStep \/ Receive
  /\ Quiet /\ UNCHANGED <<handler, request, ota, disturbed>>

LoseConnection ==
  /\ handler.pc = "parsing"
  /\ Disconnect
  /\ disturbed' = TRUE
  /\ Quiet /\ UNCHANGED <<handler, request, ota>>

In(kind, pc) == request.kind = kind /\ handler.pc = pc

(* The handler's fields are set by the parts before the file.               *)
FieldReceived ==
  /\ handler.pc = "parsing" /\ call.kind = "field"
  /\ LET name == mpParsePartHeaders(mp.header).name IN
     handler' = IF request.kind = "ota" THEN handler
                ELSE IF name = "path" THEN [handler EXCEPT !.targetPath = call.data]
                ELSE IF name = "basePath" THEN [handler EXCEPT !.basePath = call.data]
                ELSE handler
  /\ Returned(TRUE)
  /\ Quiet /\ UNCHANGED <<request, ota, disturbed>>

-----------------------------------------------------------------------------
(* uploadFilesHandler: each piece of a file opens, writes and closes it.    *)

Fails(h) == handler' = [h EXCEPT !.error = TRUE, !.pc = "parsing"] /\ Returned(FALSE)

UploadMode_Append(c) == "a"

UploadMode(c) == IF c.first THEN "w" ELSE "a"

OpenFile(h) ==
  LET path == h.targetPath IN
  IF OnFlash(path)
  THEN /\ handler' = [h EXCEPT !.pc = "opening"]
       /\ Call(httpd, [NoCallFS EXCEPT !.op = "open", !.mode = UploadMode(call),
                                       !.path = Tail(path)])
       /\ UNCHANGED <<mp, call>>
  ELSE IF OnCard(path) /\ volume # NoCard
  THEN /\ handler' = [h EXCEPT !.pc = "onCard"]
       /\ UNCHANGED <<mp, call, fsCall, fsResult, fds>>
  ELSE Fails(h) /\ UNCHANGED <<fsCall, fsResult, fds>>

FileReceived ==
  /\ In("upload", "parsing") /\ call.kind = "file"
  /\ LET safePath == UploadPath(handler)
         realPath == IF safePath = <<>> THEN <<>> ELSE resolveVirtualPath(safePath)
     IN IF ~call.first THEN OpenFile(handler)
        ELSE IF realPath = <<>> THEN Fails(handler) /\ UNCHANGED <<fsCall, fsResult, fds>>
        ELSE OpenFile([handler EXCEPT !.targetPath = realPath])
  /\ UNCHANGED <<flash, efs, vfs, format, faults, ub, sdVars, sdFiles, commands,
                 request, ota, disturbed>>

FsReturned == fsCall[httpd].op = "none"

OtherFs == UNCHANGED <<flash, efs, vfs, format, faults, ub, sdVars, sdFiles, commands,
                       request, ota>>

Opened ==
  /\ In("upload", "opening") /\ FsReturned
  /\ IF fsResult[httpd] = "error"
     THEN Fails(handler) /\ UNCHANGED <<fsCall, fsResult, fds, disturbed>>
     ELSE /\ Call(httpd, [NoCallFS EXCEPT !.op = "write", !.data = call.data])
          /\ handler' = [handler EXCEPT !.pc = "writing"]
          /\ UNCHANGED <<mp, call, disturbed>>
  /\ OtherFs

(* The results of fwrite and fclose are ignored.                            *)
Written ==
  /\ In("upload", "writing") /\ FsReturned
  /\ Call(httpd, [NoCallFS EXCEPT !.op = "close"])
  /\ handler' = [handler EXCEPT !.pc = "closing"]
  /\ UNCHANGED <<mp, call, disturbed>>
  /\ OtherFs

Closed ==
  /\ In("upload", "closing") /\ FsReturned
  /\ handler' = [handler EXCEPT !.pc = "parsing"]
  /\ Returned(TRUE)
  /\ UNCHANGED <<fsCall, fsResult, fds, disturbed>>
  /\ OtherFs

(* The same on the SD card, in one step: unmounting it fails the write.     *)
WriteToCard ==
  /\ In("upload", "onCard")
  /\ LET f == Tail(handler.targetPath)
         old == IF call.first \/ sdFiles[f] = None THEN <<>> ELSE sdFiles[f]
     IN sdFiles' = IF volume = NoCard THEN sdFiles
                   ELSE [sdFiles EXCEPT ![f] = old \o call.data]
  /\ handler' = [handler EXCEPT !.pc = "parsing"]
  /\ Returned(TRUE)
  /\ UNCHANGED <<fsVars, sdVars, commands, request, ota, disturbed>>

-----------------------------------------------------------------------------
(* otaPostHandler                                                           *)

OtaFails == handler' = [handler EXCEPT !.error = TRUE] /\ Returned(FALSE)

(* esp_ota_end has closed the handle, whatever it returns.                  *)
OtaEndFails ==
  handler' = [handler EXCEPT !.error = TRUE, !.otaStarted = FALSE] /\ Returned(FALSE)

OtaEnd_Unchecked(o) == TRUE

(* esp_ota_end validates the image.                                         *)
OtaEnd(o) == o.image \in ValidImages

OtaBegin(o) == [o EXCEPT !.open = TRUE, !.image = <<>>]

OtaReceived ==
  LET begun == IF call.first THEN OtaBegin(ota) ELSE ota
      written == [begun EXCEPT !.image = @ \o call.data]
      started == [handler EXCEPT !.otaStarted = TRUE]
  IN
  /\ In("ota", "parsing") /\ call.kind = "file"
  /\ \/ /\ ~call.final
        /\ ota' = written /\ handler' = started /\ Returned(TRUE)
     \/ /\ call.final /\ OtaEnd(written)
        /\ ota' = [written EXCEPT !.open = FALSE, !.boot = "update"]
        /\ handler' = started /\ Returned(TRUE)
     \/ /\ call.final /\ ~OtaEnd(written)
        /\ ota' = [written EXCEPT !.open = FALSE]
        /\ OtaEndFails
  /\ Quiet /\ UNCHANGED <<request, disturbed>>

(* Any of the calls may fail: begin before the handle is open,              *)
(* set_boot_partition after it was closed.                                  *)
OtaFaults ==
  LET begun == IF call.first THEN OtaBegin(ota) ELSE ota IN
  /\ In("ota", "parsing") /\ call.kind = "file"
  /\ Fault
  /\ \/ /\ call.first
        /\ OtaFails /\ UNCHANGED ota
     \/ /\ handler' = [handler EXCEPT !.error = TRUE, !.otaStarted = TRUE]
        /\ Returned(FALSE) /\ ota' = begun
     \/ /\ call.final
        /\ handler' = [handler EXCEPT !.error = TRUE, !.otaStarted = TRUE]
        /\ Returned(FALSE)
        /\ ota' = [begun EXCEPT !.image = @ \o call.data, !.open = FALSE]
  /\ disturbed' = TRUE
  /\ UNCHANGED <<flash, efs, vfs, fds, fsCall, fsResult, format, ub, sdVars, sdFiles,
                 commands, request>>

-----------------------------------------------------------------------------
(* The answers                                                              *)

Answer(result, h) == handler' = [h EXCEPT !.pc = "answered", !.answer = result]

AnswerUpload ==
  /\ In("upload", "parsing") /\ mp.state = "DONE" /\ call = NoCall
  /\ Answer(IF handler.error THEN "400" ELSE IF mp.ret # "OK" THEN "500" ELSE "ok", handler)
  /\ Quiet /\ UNCHANGED <<mp, call, request, ota, disturbed>>

Abort_Not(o) == o

Abort(o) == [o EXCEPT !.open = FALSE]

AnswerOta ==
  /\ In("ota", "parsing") /\ mp.state = "DONE" /\ call = NoCall
  /\ IF handler.error \/ mp.ret # "OK"
     THEN /\ ota' = IF handler.otaStarted THEN Abort(ota) ELSE ota
          /\ Answer("500", handler)
     ELSE UNCHANGED ota /\ Answer("ok", handler)
  /\ Quiet /\ UNCHANGED <<mp, call, request, disturbed>>

(* The next request; after an update the device restarts instead.           *)
End ==
  /\ handler.pc = "answered"
  /\ ~(request.kind = "ota" /\ handler.answer = "ok")
  /\ handler' = NoHandler /\ mp' = Idle /\ request' = NoRequest
  /\ Quiet /\ UNCHANGED <<call, ota, disturbed>>

-----------------------------------------------------------------------------
(* The other tasks                                                          *)

ServerBusy == handler.pc \notin {"none", "answered"}

UsesStorage == UNCHANGED <<mp, call, handler, request, ota, sdFiles>>

(* A task reads a file: a script, the calibration (vfsReadFileAsString)     *)
Read(t) ==
  /\ fsCall[t].op = "none"
  /\ \/ /\ fds[t] = NoFile
        /\ \E f \in Files : Call(t, [NoCallFS EXCEPT !.op = "open", !.path = f])
        /\ commands' = commands + 1
     \/ /\ fds[t] # NoFile
        /\ \E op \in {"read", "close"} : Call(t, [NoCallFS EXCEPT !.op = op])
        /\ UNCHANGED commands
  /\ UNCHANGED <<flash, efs, vfs, format, faults, ub, sdVars, disturbed>>
  /\ UsesStorage

(* Failures of the flash disturb the request.                               *)
FileSystem(t) ==
  /\ FileOperation(t)
  /\ disturbed' = (disturbed \/ faults' # faults)
  /\ UNCHANGED <<sdVars, commands>>
  /\ UsesStorage

(* A task runs one command at a time.                                       *)
NoCommand(t) ==
  /\ fds[t] = NoFile /\ fsCall[t].op = "none"
  /\ t \in Formatters => At(t, "idle")
  /\ t \in SdTasks => SdAt(t, "idle")

FormatFiles(t) ==
  /\ At(t, "idle") => NoCommand(t)
  /\ \/ StartFormat(t) /\ commands' = commands + 1
     \/ FormatStep(t) /\ UNCHANGED commands
  /\ disturbed' = TRUE
  /\ UNCHANGED sdVars
  /\ UsesStorage

SdCommand(t) ==
  /\ SdAt(t, "idle") => NoCommand(t)
  /\ SdStep(t)
  /\ disturbed' = (disturbed \/ volume' # volume)
  /\ commands' = IF SdAt(t, "idle") THEN commands + 1 ELSE commands
  /\ UNCHANGED fsVars
  /\ UsesStorage

HandlerStep ==
  \/ Begin \/ Parser \/ LoseConnection \/ FieldReceived
  \/ FileReceived \/ Opened \/ Written \/ Closed \/ WriteToCard
  \/ OtaReceived \/ OtaFaults
  \/ AnswerUpload \/ AnswerOta \/ End

(* Between two callbacks the parser reads and changes its own variables     *)
(* only: the steps of other tasks are taken before it runs or after.        *)
ParserRuns == handler.pc = "parsing" /\ call = NoCall /\ mp.state # "DONE"

OtherStep ==
  \/ \E t \in Tasks : FileSystem(t)
  \/ \E t \in Readers : Read(t)
  \/ \E t \in Formatters : FormatFiles(t)
  \/ \E t \in SdTasks : SdCommand(t)

NextUploads ==
  /\ ub = "none"
  /\ HandlerStep \/ (~ParserRuns /\ OtherStep)
  /\ faults' + commands' <= MaxCommands

Spec == InitUploads /\ [][NextUploads]_vars

-----------------------------------------------------------------------------
(* What the theorems about this module assume                               *)

(* The parts of a body that are files, by what their headers say            *)
FileParts(r) == {i \in DOMAIN r.parts : Header[r.parts[i].header].fileName # ""}

(* Of two tasks that format at once one frees the other's context.          *)
OneFormatter == \A t, u \in Formatters : t = u

BoundaryFree(data) == find(data \o boundaryMarker, boundaryMarker) = Len(data) + 1

(* What clients send: no data has the boundary in it; the field that says   *)
(* where an upload goes is before its file; an update has one file.         *)
Orderly(r) ==
  /\ \A i \in DOMAIN r.parts : BoundaryFree(r.parts[i].data)
  /\ r.kind = "upload" =>
       \A i \in FileParts(r), j \in DOMAIN r.parts \ FileParts(r) :
         i < j => Header[r.parts[j].header].name # "path"
  /\ r.kind = "ota" => \A i, j \in FileParts(r) : i = j

OrderlyRequests == \A r \in Requests : Orderly(r)

-----------------------------------------------------------------------------
(* Properties                                                               *)

(* The states of the request, of its files and of the update are of the     *)
(* shapes the code gives them, and a context is in one slot only.           *)
TypeOK ==
  /\ handler.pc \in {"none", "parsing", "opening", "writing", "closing", "onCard", "answered"}
  /\ handler.answer \in {"none", "ok", "400", "500"}
  /\ request \in Requests \union {NoRequest}
  /\ vfs \in Contexts \union {None}
  /\ \A i, j \in Slots : efs[i] # None /\ efs[j] # None /\ efs[i].id = efs[j].id => i = j
  /\ \A c \in Live : c.fd_count = Cardinality({i \in DOMAIN c.cache : c.cache[i] # None})
  /\ call # NoCall => mp.state \in {"BODY", "AFTER_BOUNDARY", "DONE"}

Stored == IF OnFlash(handler.targetPath) THEN flash[Tail(handler.targetPath)]
                                         ELSE sdFiles[Tail(handler.targetPath)]

(* An upload that is answered with "ok", while nothing else failed or       *)
(* changed the storage, has stored all of the file and only the file,       *)
(* however the network cut the body into pieces (uploadFilesHandler writes  *)
(* the file piece by piece, and parts end inside what was read).            *)
StoredAsSent ==
  handler.pc = "answered" /\ request.kind = "upload" /\ handler.answer = "ok" /\ ~disturbed
    => \A i \in FileParts(request) : Stored = request.parts[i].data

(* When an update request is answered no update is left open, whatever      *)
(* failed (otaPostHandler aborts what it began, esp_ota_end closes).        *)
UpdateClosed == handler.pc = "answered" => ~ota.open

(* What the device boots next is an image that was validated, when the body *)
(* has one file: a lost connection or a failure in the middle does not      *)
(* switch the boot partition.  If nothing has failed, it is all of that     *)
(* file's data, however the network cut the body into pieces: what looks    *)
(* like the start of a boundary is neither lost nor flashed too early.      *)
BootsWholeImage ==
  ota.boot = "update" =>
    /\ Cardinality(FileParts(request)) = 1 => ota.image \in ValidImages
    /\ ~disturbed => \E i \in FileParts(request) : ota.image = request.parts[i].data

(* A descriptor of a mounted partition is that of the file its task opened: *)
(* no two tasks share a place of the table, while it grows and shrinks, and *)
(* nothing is in a place that was not allocated.                            *)
OwnFile ==
  \A t \in Tasks : fds[t] # NoFile /\ fds[t].ctx = vfs =>
    LET cache == efs[Slot(vfs)].cache IN
    /\ fds[t].fd \in DOMAIN cache
    /\ cache[fds[t].fd] # None
    /\ cache[fds[t].fd].task = t /\ cache[fds[t].fd].path = fds[t].path
===============================================================================
