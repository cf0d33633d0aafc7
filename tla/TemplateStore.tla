---------------------------- MODULE TemplateStore ----------------------------
(* The product templates of the Z-Wave adapter: one file of the store         *)
(* (products.go behind the handlers of main.go), which has a stable and a     *)
(* cached version, the lists of files on the Z-Wave pages of some browsers    *)
(* and their template editors. HTTP requests are served concurrently and are  *)
(* answered in any order; a save truncates the file before it writes it, and  *)
(* a file that is moved or deleted takes its writers along. A template is     *)
(* told from others by the edit that made it; of its contents only matters    *)
(* whether it has service_fields, which the editor's own default lacks. The   *)
(* answers that nothing depends on (of a save, of an error, to a dialog that  *)
(* was left) are not kept, nor is the list of stable files, which no guard    *)
(* needs: a node's editor names its file by the product.                      *)
EXTENDS Naturals, FiniteSets

CONSTANTS Editors,      \* browsers
          Slots,        \* bounds the requests under way
          MaxEdits,     \* bounds the exploration
          Idle          \* no request

ASSUME TemplateAssumption == MaxEdits \in Nat

VARIABLES files,        \* by directory
          requests,     \* by slot
          pages,        \* the open editor of each browser
          lists,        \* whether each browser lists the cached file
          edits,        \* number of edits so far
          overlapped    \* a request met a file that another one was writing, or the server was killed then

vars == <<files, requests, pages, lists, edits, overlapped>>

Dirs == {"stable", "cache"}
Content(kind) == [kind |-> kind, rev |-> 0, fields |-> FALSE]
NoFile == Content("none")
Truncated == Content("truncated")
Mixed == Content("mixed")
Null == Content("null")
Template(rev, fields) == [kind |-> "template", rev |-> rev, fields |-> fields]

\* The template a new editor starts with.
Default == Template(0, FALSE)
Closed == [open |-> "none", template |-> Null, loaded |-> FALSE]

\* What can be in a file, and what can be under way.
Contents == [kind : {"none", "truncated", "mixed", "null", "template"}, rev : Nat, fields : BOOLEAN]
Requests == [by : Editors \cup {Idle}, op : {"list", "get", "save", "delete", "move", "upload"},
             dir : Dirs \cup {"nowhere"}, body : Contents, phase : {"sent", "writing", "ok"}]

ASSUME IdleAssumption == Idle \notin Requests \cup Slots \cup Editors

Init == /\ files \in [Dirs -> {NoFile, Template(1, FALSE)}]
        /\ requests = [s \in Slots |-> Idle]
        /\ pages = [e \in Editors |-> Closed]
        /\ lists = [e \in Editors |-> FALSE]
        /\ edits = 1 /\ overlapped = FALSE

Request(e, op, dir, body) == [by |-> e, op |-> op, dir |-> dir, body |-> body, phase |-> "sent"]

\* The request r is sent in a free slot of reqs.
Send(reqs, r) == \E s \in Slots : reqs[s] = Idle /\ requests' = [reqs EXCEPT ![s] = r]

(* The page and the editor in the browser.                                    *)
LoadLocalTemplates(e) ==
  /\ pages[e] = Closed
  /\ Send(requests, Request(e, "list", "cache", Null))
  /\ UNCHANGED <<files, pages, lists, edits, overlapped>>

\* openTemplateEditor of a listed file, or of a node's stable template, which need not exist.
OpenTemplateEditor(e, d) ==
  /\ pages[e] = Closed /\ (d = "cache" => lists[e])
  /\ pages' = [pages EXCEPT ![e] = [open |-> d, template |-> Default, loaded |-> FALSE]]
  /\ Send(requests, Request(e, "get", d, Null))
  /\ UNCHANGED <<files, lists, edits, overlapped>>

IsOpen(e) == pages[e] # Closed
Changed(e, fields) == /\ edits < MaxEdits /\ edits' = edits + 1
                      /\ pages' = [pages EXCEPT ![e].template = Template(edits', fields)]
                      /\ UNCHANGED <<files, requests, lists, overlapped>>

\* A row is added to, or deleted from, a list that the template is taken to have.
EditRow(e, list) == /\ IsOpen(e) /\ pages[e].template # Null
                    /\ list = "service_fields" => pages[e].template.fields
                    /\ Changed(e, pages[e].template.fields)

\* The lists that are made when they are needed.
EditOptionalRow(e) == IsOpen(e) /\ pages[e].template # Null /\ Changed(e, pages[e].template.fields)

\* The text of showSource, edited by the user, replaces the template.
SaveSource(e) == /\ IsOpen(e) /\ edits < MaxEdits /\ edits' = edits + 1
                 /\ \E fields \in BOOLEAN :
                      pages' = [pages EXCEPT ![e].template = Template(edits', fields), ![e].loaded = FALSE]
                 /\ UNCHANGED <<files, requests, lists, overlapped>>

SaveTemplate(e) == /\ IsOpen(e) /\ Send(requests, Request(e, "save", pages[e].open, pages[e].template))
                   /\ UNCHANGED <<files, pages, lists, edits, overlapped>>

TemplateOperation(e, op) == /\ IsOpen(e) /\ Send(requests, Request(e, op, pages[e].open, Null))
                            /\ UNCHANGED <<files, pages, lists, edits, overlapped>>

\* The dialog of e closes: its requests answer to nobody, and afterClosed loads the lists again.
Closing(e, answered) ==
  LET Left(s) == IF s = answered \/ requests[s] = Idle \/ requests[s].by # e \/ requests[s].op = "list"
                 THEN IF s = answered THEN Idle ELSE requests[s]
                 ELSE IF requests[s].phase = "ok" \/ requests[s].op = "get" THEN Idle
                 ELSE [requests[s] EXCEPT !.by = Idle] IN
  /\ pages' = [pages EXCEPT ![e] = Closed]
  /\ Send([s \in Slots |-> Left(s)], Request(e, "list", "cache", Null))

\* The dialog is left by its button or by a click beside it.
Cancel(e) == IsOpen(e) /\ Closing(e, Idle) /\ UNCHANGED <<files, lists, edits, overlapped>>

(* The handlers.                                                              *)
Sent(s, op) == requests[s] # Idle /\ requests[s].phase = "sent" /\ requests[s].op = op
Writers(d) == {s \in Slots : requests[s] # Idle /\ requests[s].phase = "writing" /\ requests[s].dir = d}

\* The answer waits for its browser, if anything depends on it.
Answered(s, content) ==
  [requests EXCEPT ![s] = IF @.by = Idle THEN Idle ELSE [@ EXCEPT !.phase = "ok", !.body = content]]
Failed(s) == [requests EXCEPT ![s] = Idle]

ServeList(s) ==
  /\ Sent(s, "list")
  /\ requests' = Answered(s, IF files[requests[s].dir] = NoFile THEN NoFile ELSE Null)
  /\ UNCHANGED <<files, pages, lists, edits, overlapped>>

GetTemplate(s) ==
  LET file == files[requests[s].dir] IN
  /\ Sent(s, "get")
  /\ requests' = IF file = NoFile THEN Failed(s) ELSE Answered(s, file)
  /\ overlapped' = (overlapped \/ file = Truncated)
  /\ UNCHANGED <<files, pages, lists, edits>>

\* Fault: the file is opened without being truncated.
BeginUpdateKeeping(s) ==
  LET d == requests[s].dir IN
  /\ Sent(s, "save")
  /\ requests' = [requests EXCEPT ![s].phase = "writing"]
  /\ files' = [files EXCEPT ![d] = IF @ = NoFile THEN Truncated ELSE @]
  /\ overlapped' = (overlapped \/ Writers(d) # {})
  /\ UNCHANGED <<pages, lists, edits>>

\* WriteFile opens the file, which truncates or creates it ...
BeginUpdate(s) ==
  /\ Sent(s, "save")
  /\ requests' = [requests EXCEPT ![s].phase = "writing"]
  /\ files' = [files EXCEPT ![requests[s].dir] = Truncated]
  /\ overlapped' = (overlapped \/ Writers(requests[s].dir) # {})
  /\ UNCHANGED <<pages, lists, edits>>

\* ... and writes the body from the start; what another writer left behind its end stays.
EndUpdate(s) ==
  LET d == requests[s].dir   body == requests[s].body IN
  /\ requests[s] # Idle /\ requests[s].phase = "writing"
  /\ requests' = [requests EXCEPT ![s] = Idle]
  /\ IF d = "nowhere" THEN UNCHANGED files
     ELSE \E content \in IF files[d] \in {Truncated, body} THEN {body} ELSE {body, Mixed} :
            files' = [files EXCEPT ![d] = content]
  /\ UNCHANGED <<pages, lists, edits, overlapped>>

\* The writers of the file d go on with the file that is now called e, or has no name.
Follow(reqs, d, e) == [s \in Slots |-> IF s \in Writers(d) THEN [reqs[s] EXCEPT !.dir = e] ELSE reqs[s]]

DeleteTemplate(s) ==
  LET d == requests[s].dir IN
  /\ Sent(s, "delete")
  /\ files' = [files EXCEPT ![d] = NoFile]
  /\ requests' = Follow(IF files[d] = NoFile THEN Failed(s) ELSE Answered(s, Null), d, "nowhere")
  /\ UNCHANGED <<pages, lists, edits, overlapped>>

MoveToStable(s) ==
  /\ Sent(s, "move")
  /\ IF files["cache"] = NoFile
     THEN requests' = Failed(s) /\ UNCHANGED files
     ELSE /\ files' = [stable |-> files["cache"], cache |-> NoFile]
          /\ LET unnamed == Follow(Answered(s, Null), "stable", "nowhere")
             IN  requests' = Follow(unnamed, "cache", "stable")
  /\ UNCHANGED <<pages, lists, edits, overlapped>>

\* The operation that the handler knows and does nothing for.
Upload(s) == /\ Sent(s, "upload") /\ requests' = Answered(s, Null)
             /\ UNCHANGED <<files, pages, lists, edits, overlapped>>

(* The answers in the browser.                                                *)
Arrived(s, op) == requests[s] # Idle /\ requests[s].phase = "ok" /\ requests[s].op = op

\* Fault: what the file lacks is left out.
LoadedAsIs(content) ==
  CASE content.kind = "template"           -> [template |-> content, loaded |-> TRUE]
    [] content.kind \in {"truncated", "null"} -> [template |-> Null, loaded |-> FALSE]

\* The handler of an answer: what the file lacks is filled in; a null fails on the first line.
Loaded(content) ==
  CASE content.kind = "template"           -> [template |-> Template(content.rev, TRUE), loaded |-> TRUE]
    [] content.kind \in {"truncated", "null"} -> [template |-> Null, loaded |-> FALSE]

OnTemplate(s) ==
  LET e == requests[s].by   content == requests[s].body IN
  /\ Arrived(s, "get") /\ requests' = [requests EXCEPT ![s] = Idle]
  /\ IF content = Mixed THEN UNCHANGED pages
     ELSE pages' = [pages EXCEPT ![e].template = Loaded(content).template, ![e].loaded = Loaded(content).loaded]
  /\ UNCHANGED <<files, lists, edits, overlapped>>

OnList(s) ==
  /\ Arrived(s, "list") /\ requests' = [requests EXCEPT ![s] = Idle]
  /\ lists' = [lists EXCEPT ![requests[s].by] = (requests[s].body # NoFile)]
  /\ UNCHANGED <<files, pages, edits, overlapped>>

\* A deletion or an operation that succeeded closes its dialog.
OnDone(s) == /\ \E op \in {"delete", "move", "upload"} : Arrived(s, op)
             /\ Closing(requests[s].by, s)
             /\ UNCHANGED <<files, lists, edits, overlapped>>

\* The server is killed and started again; the browsers' requests fail.
Kill == /\ requests' = [s \in Slots |-> Idle]
        /\ overlapped' = (overlapped \/ \E d \in Dirs : Writers(d) # {})
        /\ UNCHANGED <<files, pages, lists, edits>>

Next == \/ \E e \in Editors : \/ LoadLocalTemplates(e) \/ EditOptionalRow(e) \/ SaveSource(e)
                              \/ SaveTemplate(e) \/ Cancel(e)
                              \/ \E d \in Dirs : OpenTemplateEditor(e, d)
                              \/ \E list \in {"assoc", "service_fields"} : EditRow(e, list)
                              \/ \E op \in {"delete", "move", "upload"} : TemplateOperation(e, op)
        \/ \E s \in Slots : \/ ServeList(s) \/ GetTemplate(s) \/ BeginUpdate(s) \/ EndUpdate(s)
                            \/ DeleteTemplate(s) \/ MoveToStable(s) \/ Upload(s)
                            \/ OnTemplate(s) \/ OnList(s) \/ OnDone(s)
        \/ Kill

Spec == Init /\ [][Next]_vars

-----------------------------------------------------------------------------
\* As long as no request met a file that was being written, each file of the store that nobody writes is
\* a whole template: saves, moves and deletions that follow each other leave no remains of each other.
FilesIntact == ~overlapped => \A d \in Dirs : Writers(d) # {} \/ files[d].kind \in {"none", "template"}

\* An editor that says it has loaded its template shows a whole one with all the lists its rows are
\* added to, also after edits and after answers that came late (addNewServiceField fails without one).
EditorsComplete == \A e \in Editors : pages[e].loaded => pages[e].template.kind = "template" /\ pages[e].template.fields

(* The same store with every request done in one step. A save is done when its file is truncated: who     *)
(* reads it before the body is written overlaps.                                                           *)
WriterOf(d) == CHOOSE s \in Slots : s \in Writers(d)
Stored == [d \in Dirs |-> IF Writers(d) # {} THEN requests[WriterOf(d)].body ELSE files[d]]
AskedBy(r) == IF r # Idle /\ r.phase = "sent" /\ r.op \in {"get", "save", "delete", "move"}
              THEN [op |-> r.op, dir |-> r.dir, body |-> r.body] ELSE [op |-> "none"]
GotBy(r) == IF r # Idle /\ r.phase = "ok" /\ r.op = "get" THEN r.body ELSE NoFile
Asked == [s \in Slots |-> AskedBy(requests[s])]
Got == [s \in Slots |-> GotBy(requests[s])]

Atomic == INSTANCE TemplateFiles WITH Blank <- NoFile, stored <- Stored, asked <- Asked, got <- Got,
                                      torn <- overlapped

\* As long as no request met a file that another one was writing, the handlers of products.go, which move,
\* truncate and write files in steps of their own, look to the editors as if each request were done at once.
ImplementsAtomicFiles == Atomic!FilesSpec
=============================================================================
