-------------------------------- MODULE FileTree --------------------------------
(***************************************************************************)
(* What a file system promises its users, as DESIGN.md of littlefs puts it: *)
(* an operation either happens as a whole or not at all, also if the power  *)
(* fails while it runs, and once it has returned it stays.                  *)
(*                                                                          *)
(* A tree maps each path to Directory or to the content of the file.        *)
(***************************************************************************)
EXTENDS Naturals, Sequences, FiniteSetsExt, SequencesExt

CONSTANTS
  Directory,
  Requests, \* what may be asked: [kind, path, to, data]
  Formatted \* the trees that there are at the beginning

VARIABLES
  tree,
  call \* the operation that runs: what was asked, of which tree, and what it returned

Idle(answer) == [req |-> {}, before |-> <<>>, answer |-> answer]

The(S) == CHOOSE x \in S : TRUE

IsDirectory(t, path) == path = <<>> \/ (path \in DOMAIN t /\ t[path] = Directory)
IsFile(t, path) == path \in DOMAIN t /\ t[path] # Directory
Below(t, path) == {p \in DOMAIN t : IsStrictPrefix(path, p)}
HasPlace(t, path) == path # <<>> /\ IsDirectory(t, Front(path))

With(t, path, x) == [p \in DOMAIN t \union {path} |-> IF p = path THEN x ELSE t[p]]
Without(t, paths) == [p \in DOMAIN t \ paths |-> t[p]]

Renamed(t, from, to) ==
  LET moved == {from} \union Below(t, from)
      To(p) == to \o SubSeq(p, Len(from) + 1, Len(p))
      kept == DOMAIN t \ (moved \union {to})
  IN [p \in kept \union {To(q) : q \in moved} |->
        IF p \in kept THEN t[p] ELSE t[CHOOSE q \in moved : To(q) = p]]

Allowed(req, t) ==
  CASE req.kind = "mkdir"  -> HasPlace(t, req.path) /\ req.path \notin DOMAIN t
    [] req.kind = "unlink" -> IsFile(t, req.path)
    [] req.kind = "rmdir"  -> req.path \in DOMAIN t /\ t[req.path] = Directory /\ Below(t, req.path) = {}
    [] req.kind = "rename" -> /\ req.path \in DOMAIN t
                              /\ HasPlace(t, req.to)
                              /\ \/ req.to = req.path
                                 \/ req.to \notin DOMAIN t
                                 \/ IsFile(t, req.path) /\ IsFile(t, req.to)
                                 \/ IsDirectory(t, req.path) /\ IsDirectory(t, req.to) /\ Below(t, req.to) = {}
    [] req.kind = "open"   -> HasPlace(t, req.path) /\ ~IsDirectory(t, req.path)
    [] req.kind = "close"  -> IsFile(t, req.path)

After(req, t) ==
  CASE req.kind = "mkdir"  -> With(t, req.path, Directory)
    [] req.kind \in {"unlink", "rmdir"} -> Without(t, {req.path})
    [] req.kind = "rename" -> Renamed(t, req.path, req.to)
    [] req.kind \in {"open", "close"} -> IF req.data = {} THEN t ELSE With(t, req.path, The(req.data))

Init == tree \in Formatted /\ call = Idle("none")

Call == /\ call.req = {}
        /\ \E req \in Requests : call' = [req |-> {req}, before |-> tree, answer |-> "none"]
        /\ UNCHANGED tree

(* The operation happens, all at once,                                      *)
Happen == /\ call.req # {} /\ tree = call.before
          /\ Allowed(The(call.req), tree)
          /\ tree' = After(The(call.req), tree)
          /\ UNCHANGED call

(* and returns when it has, or has been refused for a reason, or because    *)
(* there is no space.                                                       *)
Return == /\ call.req # {}
          /\ LET req == The(call.req) IN
             \/ Allowed(req, call.before) /\ tree = After(req, call.before) /\ call' = Idle("ok")
             \/ ~Allowed(req, call.before) /\ tree = call.before /\ call' = Idle("refused")
             \/ tree = call.before /\ call' = Idle("full")
          /\ UNCHANGED tree

(* The power fails: whether it has happened or not, it is over.             *)
Fail == call' = Idle("lost") /\ UNCHANGED tree

Next == Call \/ Happen \/ Return \/ Fail

Spec == Init /\ [][Next]_<<tree, call>>
===============================================================================
