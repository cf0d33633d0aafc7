------------------------ MODULE TemplateStoreProofs ------------------------
(***************************************************************************)
(* Proofs about TemplateStore, for any number of browsers, of requests     *)
(* under way and of edits.  Both properties say what a file or an editor   *)
(* holds; what comes into one comes out of a request or out of the other,  *)
(* so the invariant says the same of the requests between them.  The last  *)
(* part shows that TemplateStore implements TemplateFiles.                 *)
(***************************************************************************)
EXTENDS TemplateStore, TLAPS

Page == [open : Dirs \cup {"none"}, template : Contents, loaded : BOOLEAN]

FileOK(file) == /\ file.kind = "none" => file = NoFile
                /\ file.kind = "mixed" => file = Mixed

\* Only a save writes, and only the file of a writer can lose its name; what
\* is saved is what an editor can hold, and what is answered what a file can.
RequestOK(r) ==
    r # Idle => /\ r.phase = "writing" => r.op = "save"
                /\ r.phase # "writing" => r.dir \in Dirs
                /\ r.op = "save" => r.body.kind \in {"null", "template"}
                /\ r.op = "get" /\ r.phase = "ok" => FileOK(r.body) /\ r.body # NoFile
                /\ r.phase = "ok" => r.by # Idle

PageOK(p) == /\ p.open = "none" => p = Closed
             /\ p.template.kind \in {"null", "template"}
             /\ p.loaded => p.template.kind = "template" /\ p.template.fields

\* As long as nothing overlapped, what is read, edited and saved is a whole
\* template ...
WholeRequest(r) == r # Idle /\ (r.op = "save" \/ (r.op = "get" /\ r.phase = "ok")) =>
                       r.body.kind = "template"
WholePage(p) == p # Closed => p.template.kind = "template"

RequestsOK == /\ requests \in [Slots -> Requests \cup {Idle}]
              /\ \A s \in Slots : /\ RequestOK(requests[s])
                                  /\ ~overlapped => WholeRequest(requests[s])

PagesOK == /\ pages \in [Editors -> Page]
           /\ \A e \in Editors : /\ PageOK(pages[e])
                                 /\ ~overlapped => WholePage(pages[e])

Writes(s, d) == requests[s] # Idle /\ requests[s].phase = "writing" /\ requests[s].dir = d

\* ... and a file is whole or is being written by one request alone, which
\* found it empty.
FilesOK ==
    /\ files \in [Dirs -> Contents]
    /\ \A d \in Dirs : FileOK(files[d])
    /\ ~overlapped =>
          \A d \in Dirs :
            /\ \/ files[d] = NoFile \/ files[d].kind = "template"
               \/ \E s \in Slots : Writes(s, d)
            /\ \A s \in Slots : Writes(s, d) =>
                   files[d] = Truncated /\ \A u \in Slots : Writes(u, d) => u = s

\* Who asked for a template has its editor open: a dialog that closes forgets it.
GetsOK == \A s \in Slots : requests[s] # Idle /\ requests[s].op = "get" =>
              \A e \in Editors : requests[s].by = e => pages[e].open # "none"

IInv == RequestsOK /\ PagesOK /\ FilesOK /\ GetsOK /\ edits \in Nat /\ overlapped \in BOOLEAN

-----------------------------------------------------------------------------
(* What a step does to the requests, to the pages and to the files.          *)

LEMMA Values ==
    /\ NoFile \in Contents /\ Truncated \in Contents /\ Mixed \in Contents /\ Null \in Contents
    /\ Null.kind = "null" /\ Truncated.kind = "truncated"
    /\ FileOK(NoFile) /\ FileOK(Truncated) /\ FileOK(Mixed)
    /\ \A n \in Nat, b \in BOOLEAN :
          /\ Template(n, b) \in Contents /\ Template(n, b).kind = "template"
          /\ Template(n, b).fields = b
    /\ Default \in Contents /\ Default.kind = "template"
    /\ Closed \in Page /\ PageOK(Closed) /\ WholePage(Closed)
  BY DEF NoFile, Truncated, Mixed, Null, Content, Contents, Template, Default, Closed, Page,
         PageOK, WholePage, FileOK

\* A request as the browser sends it.
LEMMA NewRequest ==
    ASSUME NEW e \in Editors, NEW op \in {"list", "get", "delete", "move", "upload", "save"},
           NEW d \in Dirs, NEW body \in Contents,
           op = "save" => body.kind \in {"null", "template"}
    PROVE  LET r == Request(e, op, d, body)
           IN  /\ r \in Requests /\ RequestOK(r) /\ r.phase = "sent" /\ r # Idle
               /\ r.op = op /\ r.by = e
               /\ (op = "save" => body.kind = "template") => WholeRequest(r)
  BY IdleAssumption DEF Request, Requests, RequestOK, WholeRequest

\* A request that is sent is the only new one.
LEMMA Sending ==
    ASSUME NEW reqs \in [Slots -> Requests \cup {Idle}], NEW r \in Requests, Send(reqs, r)
    PROVE  /\ requests' \in [Slots -> Requests \cup {Idle}]
           /\ \A s \in Slots : \/ requests'[s] = reqs[s]
                               \/ reqs[s] = Idle /\ requests'[s] = r
  BY DEF Send

\* A step that neither begins nor ends a save, and leaves the files alone.
Quiet == \A s \in Slots, d \in Dirs : Writes(s, d)' <=> Writes(s, d)

LEMMA QuietStep ==
    ASSUME FilesOK, UNCHANGED files, ~overlapped' => ~overlapped, Quiet
    PROVE  FilesOK'
  BY DEF FilesOK, Quiet

SameOrigin(new, old) == new # Idle => old # Idle /\ new.op = old.op /\ new.by = old.by
StayOpen == \A e \in Editors : pages'[e].open = "none" => pages[e].open = "none"

\* A step that only sends a request.
LEMMA SendStep ==
    ASSUME IInv, UNCHANGED <<files, overlapped>>,
           NEW r \in Requests, RequestOK(r), r.phase = "sent", Send(requests, r),
           ~overlapped => WholeRequest(r), StayOpen,
           r.op = "get" => \A e \in Editors : r.by = e => pages'[e].open # "none"
    PROVE  RequestsOK' /\ FilesOK' /\ GetsOK'
<1>1. RequestsOK'
  BY Sending DEF IInv, RequestsOK
<1>2. Quiet
  BY Sending DEF IInv, RequestsOK, Quiet, Writes
<1>3. GetsOK'
  BY Sending DEF IInv, RequestsOK, GetsOK, StayOpen
<1> QED
  BY <1>1, <1>2, <1>3, QuietStep DEF IInv

\* A step that changes one editor.
LEMMA PageStep ==
    ASSUME IInv, ~overlapped' => ~overlapped, NEW e, NEW p \in Page, PageOK(p),
           ~overlapped' => WholePage(p), pages' = [pages EXCEPT ![e] = p]
    PROVE  PagesOK'
  BY DEF IInv, PagesOK

LEMMA SamePages ==
    ASSUME IInv, UNCHANGED pages, ~overlapped' => ~overlapped
    PROVE  PagesOK'
  BY DEF IInv, PagesOK

LEMMA SameRequests ==
    ASSUME IInv, UNCHANGED <<requests, files, overlapped>>, StayOpen
    PROVE  RequestsOK' /\ FilesOK' /\ GetsOK'
<1>1. RequestsOK'
  BY DEF IInv, RequestsOK
<1>2. Quiet
  BY DEF IInv, Quiet, Writes
<1>3. GetsOK'
  BY DEF IInv, GetsOK, StayOpen
<1> QED
  BY <1>1, <1>2, <1>3, QuietStep DEF IInv

LEMMA SamePagesOpen == ASSUME UNCHANGED pages PROVE StayOpen
  BY DEF StayOpen

LEMMA PageStaysOpen ==
    ASSUME IInv, NEW e \in Editors, NEW p, p.open = "none" => pages[e].open = "none",
           pages' = [pages EXCEPT ![e] = p]
    PROVE  StayOpen
  BY DEF StayOpen, IInv, PagesOK

-----------------------------------------------------------------------------
(* The user's steps.                                                         *)

LEMMA LoadLocalTemplatesKeeps ==
    ASSUME IInv, NEW e \in Editors, LoadLocalTemplates(e)
    PROVE  IInv'
<1>1. "cache" \in Dirs
  BY DEF Dirs
<1>2. RequestsOK' /\ FilesOK' /\ GetsOK'
  BY <1>1, Values, NewRequest, SendStep, SamePagesOpen DEF LoadLocalTemplates
<1> QED
  BY <1>2, SamePages DEF LoadLocalTemplates, IInv

LEMMA OpenTemplateEditorKeeps ==
    ASSUME IInv, NEW e \in Editors, NEW d \in Dirs, OpenTemplateEditor(e, d)
    PROVE  IInv'
<1> DEFINE p == [open |-> d, template |-> Default, loaded |-> FALSE]
<1>1. p \in Page /\ PageOK(p) /\ WholePage(p) /\ p.open # "none"
  BY Values DEF Page, PageOK, WholePage, Dirs
<1>2. pages' = [pages EXCEPT ![e] = p]
  BY DEF OpenTemplateEditor
<1> HIDE DEF p
<1>3. PagesOK'
  BY <1>1, <1>2, PageStep DEF OpenTemplateEditor
<1>4. StayOpen /\ pages'[e].open # "none"
  BY <1>1, <1>2, PageStaysOpen DEF IInv, PagesOK
<1>5. RequestsOK' /\ FilesOK' /\ GetsOK'
  BY <1>4, Values, NewRequest, SendStep DEF OpenTemplateEditor
<1> QED
  BY <1>3, <1>5 DEF OpenTemplateEditor, IInv

\* An edit leaves a whole template, which is as complete as the one before.
LEMMA ChangedKeeps ==
    ASSUME IInv, NEW e \in Editors, IsOpen(e), Changed(e, pages[e].template.fields)
    PROVE  IInv'
<1> DEFINE t == Template(edits', pages[e].template.fields)
           p == [pages[e] EXCEPT !.template = t]
<1>1. pages[e] \in Page /\ PageOK(pages[e]) /\ pages[e] # Closed
  BY DEF IInv, PagesOK, IsOpen
<1>2. edits' \in Nat /\ pages[e].template.fields \in BOOLEAN
  BY <1>1 DEF Changed, IInv, Page, Contents
<1>3. t \in Contents /\ t.kind = "template" /\ t.fields = pages[e].template.fields
  BY <1>2, Values
<1> HIDE DEF t
<1>4. p \in Page /\ PageOK(p) /\ WholePage(p) /\ p.open = pages[e].open
  BY <1>1, <1>3 DEF Page, PageOK, WholePage
<1>5. pages' = [pages EXCEPT ![e] = p]
  BY DEF Changed, t
<1>6. PagesOK'
  BY <1>4, <1>5, PageStep DEF Changed
<1> QED
  BY <1>2, <1>4, <1>5, <1>6, SameRequests, PageStaysOpen DEF Changed, IInv

LEMMA SaveSourceKeeps ==
    ASSUME IInv, NEW e \in Editors, SaveSource(e)
    PROVE  IInv'
<1>1. PICK fields \in BOOLEAN :
         pages' = [pages EXCEPT ![e].template = Template(edits', fields), ![e].loaded = FALSE]
  BY DEF SaveSource
<1> DEFINE t == Template(edits', fields)
           p == [[pages[e] EXCEPT !.template = t] EXCEPT !.loaded = FALSE]
<1>2. pages[e] \in Page /\ PageOK(pages[e]) /\ pages[e] # Closed
  BY DEF IInv, PagesOK, IsOpen, SaveSource
<1>3. edits' \in Nat
  BY DEF SaveSource, IInv
<1>4. t \in Contents /\ t.kind = "template"
  BY <1>3, Values
<1> HIDE DEF t
<1>5. p \in Page /\ PageOK(p) /\ WholePage(p) /\ p.open = pages[e].open
  BY <1>2, <1>4 DEF Page, PageOK, WholePage
<1>6. pages' = [pages EXCEPT ![e] = p]
  BY <1>1 DEF t, IInv, PagesOK
<1>7. PagesOK'
  BY <1>5, <1>6, PageStep DEF SaveSource
<1> QED
  BY <1>3, <1>5, <1>6, <1>7, SameRequests, PageStaysOpen DEF SaveSource, IInv

LEMMA SaveTemplateKeeps ==
    ASSUME IInv, NEW e \in Editors, SaveTemplate(e)
    PROVE  IInv'
<1>1. pages[e] \in Page /\ PageOK(pages[e]) /\ pages[e] # Closed
  BY DEF IInv, PagesOK, IsOpen, SaveTemplate
<1>2. pages[e].open \in Dirs /\ pages[e].template \in Contents
  BY <1>1 DEF Page, PageOK
<1>3. pages[e].template.kind \in {"null", "template"}
  BY <1>1 DEF PageOK
<1>4. ~overlapped => pages[e].template.kind = "template"
  BY <1>1 DEF IInv, PagesOK, WholePage
<1>5. RequestsOK' /\ FilesOK' /\ GetsOK'
  BY <1>2, <1>3, <1>4, NewRequest, SendStep, SamePagesOpen DEF SaveTemplate
<1> QED
  BY <1>5, SamePages DEF SaveTemplate, IInv

LEMMA TemplateOperationKeeps ==
    ASSUME IInv, NEW e \in Editors, NEW op \in {"delete", "move", "upload"},
           TemplateOperation(e, op)
    PROVE  IInv'
<1>1. pages[e].open \in Dirs
  BY DEF IInv, PagesOK, IsOpen, TemplateOperation, Page, PageOK
<1>2. RequestsOK' /\ FilesOK' /\ GetsOK'
  BY <1>1, Values, NewRequest, SendStep, SamePagesOpen DEF TemplateOperation
<1> QED
  BY <1>2, SamePages DEF TemplateOperation, IInv

\* Closing a dialog forgets who waits for a request, not what is being saved.
LEMMA ClosingKeeps ==
    ASSUME IInv, NEW e \in Editors, NEW answered, Closing(e, answered),
           answered \in Slots => requests[answered].phase = "ok",
           UNCHANGED <<files, lists, edits, overlapped>>
    PROVE  IInv'
<1> DEFINE Left(s) ==
             IF s = answered \/ requests[s] = Idle \/ requests[s].by # e \/ requests[s].op = "list"
             THEN IF s = answered THEN Idle ELSE requests[s]
             ELSE IF requests[s].phase = "ok" \/ requests[s].op = "get" THEN Idle
             ELSE [requests[s] EXCEPT !.by = Idle]
           left == [s \in Slots |-> Left(s)]
           r == Request(e, "list", "cache", Null)
<1>1. /\ r \in Requests /\ RequestOK(r) /\ r.phase = "sent" /\ WholeRequest(r)
      /\ r.op = "list"
  BY Values, NewRequest DEF Dirs
<1>2. Send(left, r) /\ pages' = [pages EXCEPT ![e] = Closed]
  BY DEF Closing
<1> HIDE DEF r
<1>3. ASSUME NEW s \in Slots
      PROVE  /\ Left(s) \in Requests \cup {Idle} /\ RequestOK(Left(s))
             /\ ~overlapped => WholeRequest(Left(s))
             /\ Left(s) # Idle /\ Left(s).phase = "writing" <=>
                  requests[s] # Idle /\ requests[s].phase = "writing"
             /\ Left(s) # Idle => Left(s).dir = requests[s].dir
             /\ Left(s) # Idle /\ Left(s).op = "get" =>
                    Left(s) = requests[s] /\ requests[s].by # e
  <2>1. /\ requests[s] \in Requests \cup {Idle} /\ RequestOK(requests[s])
        /\ ~overlapped => WholeRequest(requests[s])
    BY DEF IInv, RequestsOK
  <2>2. CASE Left(s) = requests[s]
    BY <2>1, <2>2
  <2>3. CASE Left(s) = Idle /\ requests[s].phase # "writing"
    BY <2>3 DEF RequestOK, WholeRequest
  <2>4. CASE requests[s] # Idle /\ Left(s) = [requests[s] EXCEPT !.by = Idle]
    BY <2>1, <2>4, IdleAssumption DEF Requests, RequestOK, WholeRequest
  <2> QED
    BY <2>1, <2>2, <2>3, <2>4 DEF RequestOK
<1> HIDE DEF Left
<1>4. left \in [Slots -> Requests \cup {Idle}] /\ \A s \in Slots : left[s] = Left(s)
  BY <1>3
<1> HIDE DEF left
<1>5. /\ requests' \in [Slots -> Requests \cup {Idle}]
      /\ \A s \in Slots : requests'[s] = Left(s) \/ (Left(s) = Idle /\ requests'[s] = r)
  BY <1>1, <1>2, <1>4, Sending
<1>6. RequestsOK'
  BY <1>1, <1>3, <1>5 DEF RequestsOK
<1>7. Quiet
  <2>1. SUFFICES ASSUME NEW s \in Slots, NEW d \in Dirs
                 PROVE  Writes(s, d)' <=> Writes(s, d)
    BY DEF Quiet
  <2>2. CASE requests'[s] = Left(s)
    BY <1>3, <2>2 DEF Writes
  <2>3. CASE Left(s) = Idle /\ requests'[s] = r
    BY <1>1, <1>3, <2>3 DEF Writes
  <2> QED
    BY <1>5, <2>2, <2>3
<1>8. PagesOK'
  BY <1>2, Values, PageStep
<1>9. GetsOK'
  <2>1. ASSUME NEW s \in Slots, requests'[s] # Idle, requests'[s].op = "get",
               NEW u \in Editors, requests'[s].by = u
        PROVE  pages'[u].open # "none"
    <3>1. requests[s] # Idle /\ requests[s].op = "get" /\ requests[s].by = u /\ u # e
      BY <1>1, <1>3, <1>5, <2>1
    <3>2. pages'[u] = pages[u]
      BY <1>2, <3>1 DEF IInv, PagesOK
    <3> QED
      BY <3>1, <3>2 DEF IInv, GetsOK
  <2> QED
    BY <2>1 DEF GetsOK
<1> QED
  BY <1>6, <1>7, <1>8, <1>9, QuietStep DEF IInv

LEMMA CancelKeeps ==
    ASSUME IInv, NEW e \in Editors, Cancel(e)
    PROVE  IInv'
  BY ClosingKeeps, IdleAssumption DEF Cancel

-----------------------------------------------------------------------------
(* The handlers' steps.                                                      *)

\* A request that is answered is no writer before or after.
LEMMA Answering ==
    ASSUME IInv, NEW s \in Slots, requests[s] # Idle, requests[s].phase = "sent",
           requests[s].op # "save", NEW content \in Contents,
           requests[s].op = "get" => FileOK(content) /\ content # NoFile
    PROVE  LET reqs == Answered(s, content)
           IN  /\ reqs \in [Slots -> Requests \cup {Idle}]
               /\ \A u \in Slots : u # s => reqs[u] = requests[u]
               /\ RequestOK(reqs[s])
               /\ requests[s].op # "get" \/ content.kind = "template" => WholeRequest(reqs[s])
               /\ reqs[s] = Idle \/ reqs[s].phase = "ok"
               /\ SameOrigin(reqs[s], requests[s])
<1> DEFINE r == requests[s]
           a == [[r EXCEPT !.phase = "ok"] EXCEPT !.body = content]
           reqs == Answered(s, content)
<1>1. r \in Requests /\ RequestOK(r) /\ requests \in [Slots -> Requests \cup {Idle}]
  BY DEF IInv, RequestsOK
<1>2. reqs = [requests EXCEPT ![s] = IF r.by = Idle THEN Idle ELSE a]
  BY <1>1 DEF Answered
<1>3. /\ a \in Requests /\ a.phase = "ok" /\ a.op = r.op /\ a.by = r.by /\ a.dir = r.dir
      /\ a.body = content
  BY <1>1 DEF Requests
<1> HIDE DEF a, reqs
<1>4. CASE r.by = Idle
  <2>1. reqs = [requests EXCEPT ![s] = Idle]
    BY <1>2, <1>4
  <2> QED
    BY <1>1, <2>1 DEF RequestOK, WholeRequest, reqs, SameOrigin
<1>5. CASE r.by # Idle
  <2>1. reqs = [requests EXCEPT ![s] = a]
    BY <1>2, <1>5
  <2>2. RequestOK(a)
    BY <1>1, <1>3, <1>5 DEF RequestOK
  <2>3. r.op # "get" \/ content.kind = "template" => WholeRequest(a)
    BY <1>3 DEF WholeRequest
  <2> QED
    BY <1>1, <1>3, <2>1, <2>2, <2>3 DEF reqs, SameOrigin
<1> QED
  BY <1>4, <1>5

\* A step that replaces a request that does not write by one that does not.
LEMMA ReplaceStep ==
    ASSUME IInv, NEW s \in Slots, ~overlapped' => ~overlapped, UNCHANGED files,
           requests' \in [Slots -> Requests \cup {Idle}],
           \A u \in Slots : u # s => requests'[u] = requests[u],
           requests[s].phase # "writing",
           RequestOK(requests'[s]), ~overlapped' => WholeRequest(requests'[s]),
           requests'[s] = Idle \/ requests'[s].phase # "writing",
           SameOrigin(requests'[s], requests[s]), StayOpen
    PROVE  RequestsOK' /\ FilesOK' /\ GetsOK'
<1>1. RequestsOK'
  BY DEF IInv, RequestsOK
<1>2. Quiet
  BY DEF Quiet, Writes
<1>3. GetsOK'
  BY DEF IInv, GetsOK, SameOrigin, StayOpen
<1> QED
  BY <1>1, <1>2, <1>3, QuietStep DEF IInv

LEMMA ServeListKeeps ==
    ASSUME IInv, NEW s \in Slots, ServeList(s)
    PROVE  IInv'
<1>1. PICK content \in {NoFile, Null} : requests' = Answered(s, content)
  BY DEF ServeList
<1>2. requests[s] # Idle /\ requests[s].phase = "sent" /\ requests[s].op = "list"
  BY DEF ServeList, Sent
<1>3. RequestsOK' /\ FilesOK' /\ GetsOK'
  BY <1>1, <1>2, Values, Answering, ReplaceStep, SamePagesOpen DEF ServeList
<1> QED
  BY <1>3, SamePages DEF ServeList, IInv

LEMMA UploadKeeps ==
    ASSUME IInv, NEW s \in Slots, Upload(s)
    PROVE  IInv'
<1>1. requests[s] # Idle /\ requests[s].phase = "sent" /\ requests[s].op = "upload"
  BY DEF Upload, Sent
<1>2. RequestsOK' /\ FilesOK' /\ GetsOK'
  BY <1>1, Values, Answering, ReplaceStep, SamePagesOpen DEF Upload
<1> QED
  BY <1>2, SamePages DEF Upload, IInv

\* What is read from a file that nobody writes is a whole template.
LEMMA GetTemplateKeeps ==
    ASSUME IInv, NEW s \in Slots, GetTemplate(s)
    PROVE  IInv'
<1> DEFINE file == files[requests[s].dir]
<1>1. requests[s] # Idle /\ requests[s].phase = "sent" /\ requests[s].op = "get"
  BY DEF GetTemplate, Sent
<1>2. requests[s].dir \in Dirs /\ requests \in [Slots -> Requests \cup {Idle}]
  BY <1>1 DEF IInv, RequestsOK, RequestOK
<1>3. file \in Contents /\ FileOK(file)
  BY <1>2 DEF IInv, FilesOK
<1>4. overlapped' \in BOOLEAN /\ (~overlapped' => ~overlapped /\ file # Truncated)
  BY DEF GetTemplate, IInv
<1>5. ~overlapped' => file = NoFile \/ file.kind = "template"
  BY <1>2, <1>4 DEF IInv, FilesOK
<1>6. RequestsOK' /\ FilesOK' /\ GetsOK'
  <2>1. CASE file = NoFile
    <3>1. requests' = [requests EXCEPT ![s] = Idle]
      BY <2>1 DEF GetTemplate, Failed
    <3>2. RequestOK(Idle) /\ WholeRequest(Idle) /\ SameOrigin(Idle, requests[s])
      BY DEF RequestOK, WholeRequest, SameOrigin
    <3> QED
      BY <1>1, <1>2, <1>4, <3>1, <3>2, ReplaceStep, SamePagesOpen DEF GetTemplate
  <2>2. CASE file # NoFile
    <3>1. requests' = Answered(s, file)
      BY <2>2 DEF GetTemplate
    <3> HIDE DEF file
    <3> QED
      BY <1>1, <1>3, <1>4, <1>5, <2>2, <3>1, Answering, ReplaceStep, SamePagesOpen DEF GetTemplate
  <2> QED
    BY <2>1, <2>2
<1> QED
  BY <1>4, <1>6, SamePages DEF GetTemplate, IInv

\* The first writer of a file empties it; a second one overlaps.
LEMMA BeginUpdateKeeps ==
    ASSUME IInv, NEW s \in Slots, BeginUpdate(s)
    PROVE  IInv'
<1> DEFINE d == requests[s].dir
           w == [requests[s] EXCEPT !.phase = "writing"]
<1>1. requests[s] # Idle /\ requests[s].phase = "sent" /\ requests[s].op = "save"
  BY DEF BeginUpdate, Sent
<1>2. requests[s] \in Requests /\ requests \in [Slots -> Requests \cup {Idle}]
  BY <1>1 DEF IInv, RequestsOK
<1>3. RequestOK(requests[s]) /\ d \in Dirs
  BY <1>1 DEF IInv, RequestsOK, RequestOK
<1>4. /\ w \in Requests /\ w # Idle /\ w.phase = "writing" /\ w.op = "save" /\ w.dir = d
      /\ w.body = requests[s].body
  BY <1>1, <1>2, IdleAssumption DEF Requests
<1>5. requests' = [requests EXCEPT ![s] = w]
  BY DEF BeginUpdate
<1> HIDE DEF w
<1>6. overlapped' \in BOOLEAN /\ (~overlapped' => ~overlapped /\ Writers(d) = {})
  BY DEF BeginUpdate, IInv
<1>7. RequestsOK'
  <2>1. RequestOK(w)
    BY <1>1, <1>3, <1>4 DEF RequestOK
  <2>2. ~overlapped' => WholeRequest(w)
    BY <1>1, <1>4, <1>6 DEF IInv, RequestsOK, WholeRequest
  <2> QED
    BY <1>2, <1>4, <1>5, <1>6, <2>1, <2>2 DEF IInv, RequestsOK
<1>8. FilesOK'
  <2> HIDE DEF d
  <2>1. files' = [files EXCEPT ![d] = Truncated]
    BY DEF BeginUpdate, d
  <2>2. files' \in [Dirs -> Contents] /\ \A c \in Dirs : FileOK(files'[c])
    BY <1>3, <2>1, Values DEF IInv, FilesOK
  <2>3. \A u \in Slots, c \in Dirs : u # s => (Writes(u, c)' <=> Writes(u, c))
    BY <1>2, <1>5 DEF Writes
  <2>4. \A c \in Dirs : ~Writes(s, c) /\ (Writes(s, c)' <=> c = d)
    BY <1>1, <1>2, <1>4, <1>5 DEF Writes
  <2>5. ~overlapped' => \A u \in Slots : ~Writes(u, d)
    BY <1>6 DEF Writers, Writes
  <2>6. ASSUME ~overlapped', NEW c \in Dirs
        PROVE  /\ \/ files'[c] = NoFile \/ files'[c].kind = "template"
                  \/ \E u \in Slots : Writes(u, c)'
               /\ \A u \in Slots : Writes(u, c)' =>
                      files'[c] = Truncated /\ \A v \in Slots : Writes(v, c)' => v = u
    <3>1. CASE c = d
      BY <1>3, <2>1, <2>3, <2>4, <2>5, <2>6, <3>1 DEF IInv, FilesOK
    <3>2. CASE c # d
      <4>1. files'[c] = files[c] /\ \A u \in Slots : Writes(u, c)' <=> Writes(u, c)
        BY <1>3, <2>1, <2>3, <2>4, <3>2 DEF IInv, FilesOK
      <4> QED
        BY <1>6, <2>6, <4>1 DEF IInv, FilesOK
    <3> QED
      BY <3>1, <3>2
  <2> QED
    BY <2>2, <2>6 DEF FilesOK
<1>9. GetsOK'
  <2>1. pages' = pages
    BY DEF BeginUpdate
  <2> HIDE DEF d
  <2> QED
    BY <1>2, <1>4, <1>5, <2>1 DEF IInv, GetsOK
<1> QED
  BY <1>6, <1>7, <1>8, <1>9, SamePages DEF BeginUpdate, IInv

\* The only writer of a file leaves it whole.
LEMMA EndUpdateKeeps ==
    ASSUME IInv, NEW s \in Slots, EndUpdate(s)
    PROVE  IInv'
<1>0. PICK d, body : d = requests[s].dir /\ body = requests[s].body
  OBVIOUS
<1>1. requests[s] # Idle /\ requests[s].phase = "writing"
  BY DEF EndUpdate
<1>2. requests[s] \in Requests /\ requests \in [Slots -> Requests \cup {Idle}]
  BY <1>1 DEF IInv, RequestsOK
<1>3. d \in Dirs \cup {"nowhere"} /\ body \in Contents /\ body.kind \in {"null", "template"}
  BY <1>0, <1>1, <1>2 DEF IInv, RequestsOK, RequestOK, Requests
<1>4. ~overlapped => body.kind = "template"
  BY <1>0, <1>1 DEF IInv, RequestsOK, RequestOK, WholeRequest
<1>5. requests' = [requests EXCEPT ![s] = Idle]
  BY DEF EndUpdate
<1>6. RequestsOK'
  BY <1>2, <1>5 DEF EndUpdate, IInv, RequestsOK, RequestOK, WholeRequest
<1>7. Writes(s, d) /\ \A c : Writes(s, c) => c = d
  BY <1>0, <1>1 DEF Writes
<1>8. \A u \in Slots, c \in Dirs : Writes(u, c)' <=> u # s /\ Writes(u, c)
  BY <1>2, <1>5 DEF Writes
<1>9. FilesOK'
  <2>1. CASE d = "nowhere"
    <3>1. files' = files /\ overlapped' = overlapped /\ d \notin Dirs
      BY <1>0, <2>1 DEF EndUpdate, Dirs
    <3>2. Quiet
      BY <1>7, <1>8, <3>1 DEF Quiet
    <3> QED
      BY <3>1, <3>2, QuietStep DEF IInv
  <2>2. CASE d # "nowhere"
    <3>1. d \in Dirs
      BY <1>3, <2>2
    <3>2. PICK content :
             /\ content \in IF files[d] \in {Truncated, body} THEN {body} ELSE {body, Mixed}
             /\ files' = [files EXCEPT ![d] = content]
      BY <1>0, <2>2 DEF EndUpdate
    <3>3. content \in Contents /\ FileOK(content)
      BY <1>3, <3>2, Values DEF FileOK
    <3>4. files' \in [Dirs -> Contents] /\ \A c \in Dirs : FileOK(files'[c])
      BY <3>1, <3>2, <3>3 DEF IInv, FilesOK
    <3>5. overlapped' = overlapped
      BY DEF EndUpdate
    <3>6. ASSUME ~overlapped
          PROVE  files[d] = Truncated /\ content.kind = "template" /\ \A u \in Slots : ~Writes(u, d)'
      <4>1. files[d] = Truncated /\ \A u \in Slots : Writes(u, d) => u = s
        BY <1>7, <3>1, <3>6 DEF IInv, FilesOK
      <4>2. content = body
        BY <3>2, <4>1
      <4> QED
        BY <1>4, <1>8, <3>1, <3>6, <4>1, <4>2
    <3>7. ASSUME ~overlapped, NEW c \in Dirs
          PROVE  /\ \/ files'[c] = NoFile \/ files'[c].kind = "template"
                    \/ \E u \in Slots : Writes(u, c)'
                 /\ \A u \in Slots : Writes(u, c)' =>
                        files'[c] = Truncated /\ \A v \in Slots : Writes(v, c)' => v = u
      <4>1. CASE c = d
        <5>1. files'[c] = content
          BY <3>1, <3>2, <4>1 DEF IInv, FilesOK
        <5> QED
          BY <3>6, <3>7, <4>1, <5>1
      <4>2. CASE c # d
        <5>1. files'[c] = files[c] /\ \A u \in Slots : Writes(u, c)' <=> Writes(u, c)
          BY <1>7, <1>8, <3>1, <3>2, <4>2 DEF IInv, FilesOK
        <5> QED
          BY <3>7, <5>1 DEF IInv, FilesOK
      <4> QED
        BY <4>1, <4>2
    <3> QED
      BY <3>4, <3>5, <3>7 DEF FilesOK
  <2> QED
    BY <2>1, <2>2
<1>10. GetsOK'
  BY <1>2, <1>5 DEF EndUpdate, IInv, GetsOK
<1> QED
  BY <1>6, <1>9, <1>10, SamePages DEF EndUpdate, IInv

IsWriting(r) == r # Idle /\ r.phase = "writing"

\* Requests with the same writers, perhaps of other files.
Alike(reqs) ==
    /\ reqs \in [Slots -> Requests \cup {Idle}]
    /\ \A u \in Slots : /\ RequestOK(reqs[u])
                        /\ ~overlapped => WholeRequest(reqs[u])
                        /\ IsWriting(reqs[u]) <=> IsWriting(requests[u])
                        /\ SameOrigin(reqs[u], requests[u])

LEMMA AlikeKeepsGets == ASSUME IInv, UNCHANGED pages, Alike(requests') PROVE GetsOK'
  BY DEF Alike, SameOrigin, IInv, GetsOK

LEMMA Following ==
    ASSUME IInv, NEW reqs, Alike(reqs), NEW d \in Dirs, NEW e \in Dirs \cup {"nowhere"}
    PROVE  LET new == Follow(reqs, d, e)
           IN  /\ Alike(new)
               /\ \A u \in Slots : IsWriting(requests[u]) =>
                      new[u].dir = IF requests[u].dir = d THEN e ELSE reqs[u].dir
<1> DEFINE new == Follow(reqs, d, e)
<1>1. ASSUME NEW u \in Slots
      PROVE  /\ new[u] \in Requests \cup {Idle} /\ RequestOK(new[u])
             /\ ~overlapped => WholeRequest(new[u])
             /\ IsWriting(new[u]) <=> IsWriting(requests[u])
             /\ SameOrigin(new[u], requests[u])
             /\ IsWriting(requests[u]) =>
                      new[u].dir = IF requests[u].dir = d THEN e ELSE reqs[u].dir
  <2>1. u \in Writers(d) <=> IsWriting(requests[u]) /\ requests[u].dir = d
    BY DEF Writers, IsWriting
  <2>2. CASE u \in Writers(d)
    <3> DEFINE w == [reqs[u] EXCEPT !.dir = e]
    <3>1. new[u] = w
      BY <2>2 DEF Follow
    <3>2. reqs[u] \in Requests /\ IsWriting(reqs[u]) /\ RequestOK(reqs[u])
      BY <2>1, <2>2 DEF Alike, IsWriting
    <3>3. /\ w \in Requests /\ w.phase = "writing" /\ w.op = reqs[u].op /\ w.body = reqs[u].body
          /\ w.dir = e /\ w.by = reqs[u].by
      BY <3>2 DEF Requests, IsWriting
    <3>4. w # Idle
      BY <3>3, IdleAssumption
    <3> HIDE DEF w, new
    <3>5. RequestOK(w) /\ (~overlapped => WholeRequest(w))
      BY <3>2, <3>3 DEF RequestOK, WholeRequest, Alike, IsWriting
    <3>6. SameOrigin(w, requests[u])
      BY <3>2, <3>3 DEF Alike, SameOrigin, IsWriting
    <3> QED
      BY <2>1, <2>2, <3>1, <3>3, <3>4, <3>5, <3>6 DEF IsWriting
  <2>3. CASE u \notin Writers(d)
    <3>1. new[u] = reqs[u]
      BY <2>3 DEF Follow
    <3> HIDE DEF new
    <3> QED
      BY <2>1, <2>3, <3>1 DEF Alike
  <2> QED
    BY <2>2, <2>3
<1>2. new \in [Slots -> Requests \cup {Idle}]
  BY <1>1 DEF Follow
<1> HIDE DEF new
<1>3. Alike(new)
  BY <1>1, <1>2 DEF Alike
<1> QED
  BY <1>1, <1>3 DEF new

\* A request that is answered or fails leaves the writers alone.
LEMMA AnswerAlike ==
    ASSUME IInv, NEW s \in Slots, requests[s] # Idle, requests[s].phase = "sent",
           requests[s].op \notin {"save", "get"}
    PROVE  /\ Alike(Answered(s, Null)) /\ Alike(Failed(s))
           /\ \A u \in Slots : IsWriting(requests[u]) =>
                  Answered(s, Null)[u] = requests[u] /\ Failed(s)[u] = requests[u]
<1>1. Alike(Failed(s)) /\ \A u \in Slots : IsWriting(requests[u]) => Failed(s)[u] = requests[u]
  BY DEF Failed, Alike, IInv, RequestsOK, RequestOK, WholeRequest, IsWriting, SameOrigin
<1> DEFINE reqs == Answered(s, Null)
<1>2. /\ reqs \in [Slots -> Requests \cup {Idle}]
      /\ \A u \in Slots : u # s => reqs[u] = requests[u]
      /\ RequestOK(reqs[s]) /\ WholeRequest(reqs[s])
      /\ reqs[s] = Idle \/ reqs[s].phase = "ok"
      /\ SameOrigin(reqs[s], requests[s])
  BY Values, Answering
<1> HIDE DEF reqs
<1>3. Alike(reqs) /\ \A u \in Slots : IsWriting(requests[u]) => reqs[u] = requests[u]
  BY <1>2 DEF Alike, IInv, RequestsOK, IsWriting, SameOrigin
<1> QED
  BY <1>1, <1>3 DEF reqs

\* The writers of a file that is deleted have no file any more.
LEMMA DeleteTemplateKeeps ==
    ASSUME IInv, NEW s \in Slots, DeleteTemplate(s)
    PROVE  IInv'
<1> DEFINE d == requests[s].dir
<1>1. requests[s] # Idle /\ requests[s].phase = "sent" /\ requests[s].op = "delete"
  BY DEF DeleteTemplate, Sent
<1>2. d \in Dirs
  BY <1>1 DEF IInv, RequestsOK, RequestOK
<1> HIDE DEF d
<1>3. PICK reqs \in {Answered(s, Null), Failed(s)} : requests' = Follow(reqs, d, "nowhere")
  BY DEF DeleteTemplate, d
<1>4. Alike(reqs) /\ \A u \in Slots : IsWriting(requests[u]) => reqs[u] = requests[u]
  BY <1>1, AnswerAlike
<1>5. /\ Alike(requests')
      /\ \A u \in Slots : IsWriting(requests[u]) =>
             requests'[u].dir = IF requests[u].dir = d THEN "nowhere" ELSE requests[u].dir
  BY <1>2, <1>3, <1>4, Following
<1>6. files' = [files EXCEPT ![d] = NoFile] /\ UNCHANGED <<pages, lists, edits, overlapped>>
  BY DEF DeleteTemplate, d
<1>7. RequestsOK'
  BY <1>5, <1>6 DEF Alike, RequestsOK
<1>8. \A u \in Slots, c \in Dirs : Writes(u, c)' <=> c # d /\ Writes(u, c)
  BY <1>5 DEF Alike, IsWriting, Writes, Dirs
<1>9. FilesOK'
  <2>1. files' \in [Dirs -> Contents] /\ \A c \in Dirs : FileOK(files'[c])
    BY <1>2, <1>6, Values DEF IInv, FilesOK
  <2>2. \A c \in Dirs : files'[c] = IF c = d THEN NoFile ELSE files[c]
    BY <1>2, <1>6 DEF IInv, FilesOK
  <2> QED
    BY <1>6, <1>8, <2>1, <2>2 DEF IInv, FilesOK
<1> QED
  BY <1>5, <1>6, <1>7, <1>9, SamePages, AlikeKeepsGets DEF IInv

\* The writers of a file that is moved go on with it under its new name.
LEMMA MoveToStableKeeps ==
    ASSUME IInv, NEW s \in Slots, MoveToStable(s)
    PROVE  IInv'
<1>1. requests[s] # Idle /\ requests[s].phase = "sent" /\ requests[s].op = "move"
  BY DEF MoveToStable, Sent
<1>2. UNCHANGED <<pages, lists, edits, overlapped>> /\ "cache" \in Dirs /\ "stable" \in Dirs
  BY DEF MoveToStable, Dirs
<1>3. CASE files["cache"] = NoFile
  <2>1. requests' = Failed(s) /\ UNCHANGED files
    BY <1>3 DEF MoveToStable
  <2>2. Alike(requests') /\ \A u \in Slots : IsWriting(requests[u]) => requests'[u] = requests[u]
    BY <1>1, <2>1, AnswerAlike
  <2>3. RequestsOK'
    BY <1>2, <2>2 DEF Alike, RequestsOK
  <2>4. Quiet
    BY <2>2 DEF Quiet, Alike, Writes, IsWriting
  <2> QED
    BY <1>2, <2>1, <2>2, <2>3, <2>4, QuietStep, SamePages, AlikeKeepsGets DEF IInv
<1>4. CASE files["cache"] # NoFile
  <2> DEFINE unnamed == Follow(Answered(s, Null), "stable", "nowhere")
  <2>1. requests' = Follow(unnamed, "cache", "stable")
    BY <1>4 DEF MoveToStable
  <2>2. files' = [stable |-> files["cache"], cache |-> NoFile]
    BY <1>4 DEF MoveToStable
  <2>3. /\ Alike(Answered(s, Null))
        /\ \A u \in Slots : IsWriting(requests[u]) => Answered(s, Null)[u] = requests[u]
    BY <1>1, AnswerAlike
  <2>4. /\ Alike(unnamed)
        /\ \A u \in Slots : IsWriting(requests[u]) =>
             unnamed[u].dir = IF requests[u].dir = "stable" THEN "nowhere" ELSE requests[u].dir
    BY <1>2, <2>3, Following
  <2> HIDE DEF unnamed
  <2>5. /\ Alike(requests')
        /\ \A u \in Slots : IsWriting(requests[u]) =>
             requests'[u].dir = IF requests[u].dir = "cache" THEN "stable" ELSE unnamed[u].dir
    BY <1>2, <2>1, <2>4, Following
  <2>6. RequestsOK'
    BY <1>2, <2>5 DEF Alike, RequestsOK
  <2>7. \A u \in Slots : /\ ~Writes(u, "cache")'
                         /\ Writes(u, "stable")' <=> Writes(u, "cache")
    <3>1. ASSUME NEW u \in Slots
          PROVE  ~Writes(u, "cache")' /\ (Writes(u, "stable")' <=> Writes(u, "cache"))
      <4>1. IsWriting(requests'[u]) <=> IsWriting(requests[u])
        BY <2>5 DEF Alike
      <4>2. CASE IsWriting(requests[u])
        <5>1. requests[u].dir \in {"stable", "cache", "nowhere"}
          BY <4>2 DEF IInv, RequestsOK, IsWriting, Requests, Dirs
        <5> QED
          BY <2>4, <2>5, <4>1, <4>2, <5>1 DEF Writes, IsWriting
      <4>3. CASE ~IsWriting(requests[u])
        BY <4>1, <4>3 DEF Writes, IsWriting
      <4> QED
        BY <4>2, <4>3
    <3> QED
      BY <3>1
  <2>8. FilesOK'
    <3>1. files'["cache"] = NoFile /\ files'["stable"] = files["cache"]
      BY <2>2
    <3>2. files' \in [Dirs -> Contents]
      BY <1>2, <2>2, Values DEF IInv, FilesOK, Dirs
    <3>3. FileOK(files'["cache"]) /\ FileOK(files'["stable"])
      BY <1>2, <3>1, Values DEF IInv, FilesOK
    <3>4. ASSUME ~overlapped
          PROVE  \A d \in {"cache", "stable"} :
                   /\ \/ files'[d] = NoFile \/ files'[d].kind = "template"
                      \/ \E u \in Slots : Writes(u, d)'
                   /\ \A u \in Slots : Writes(u, d)' =>
                          files'[d] = Truncated /\ \A v \in Slots : Writes(v, d)' => v = u
      BY <1>2, <2>7, <3>1, <3>4 DEF IInv, FilesOK
    <3> QED
      BY <1>2, <3>2, <3>3, <3>4 DEF FilesOK, Dirs
  <2> QED
    BY <1>2, <2>5, <2>6, <2>8, SamePages, AlikeKeepsGets DEF IInv
<1> QED
  BY <1>3, <1>4

-----------------------------------------------------------------------------
(* The answers' steps, and the restart.                                      *)

\* What an answer brings into an editor is complete if it counts as loaded.
LEMMA OnTemplateKeeps ==
    ASSUME IInv, NEW s \in Slots, OnTemplate(s)
    PROVE  IInv'
<1> DEFINE e == requests[s].by   content == requests[s].body
           t == Loaded(content).template   l == Loaded(content).loaded
           p == [[pages[e] EXCEPT !.template = t] EXCEPT !.loaded = l]
<1>1. requests[s] # Idle /\ requests[s].phase = "ok" /\ requests[s].op = "get"
  BY DEF OnTemplate, Arrived
<1>2. /\ requests[s] \in Requests /\ requests \in [Slots -> Requests \cup {Idle}]
      /\ RequestOK(requests[s]) /\ (~overlapped => WholeRequest(requests[s]))
  BY <1>1 DEF IInv, RequestsOK
<1>3. requests' = [requests EXCEPT ![s] = Idle] /\ UNCHANGED <<files, lists, edits, overlapped>>
  BY DEF OnTemplate
<1>4. RequestOK(Idle) /\ WholeRequest(Idle) /\ SameOrigin(Idle, requests[s])
  BY DEF RequestOK, WholeRequest, SameOrigin
<1>5. PagesOK' /\ StayOpen
  <2>1. CASE content = Mixed
    <3>1. UNCHANGED pages
      BY <2>1 DEF OnTemplate
    <3> QED
      BY <1>3, <3>1, SamePages, SamePagesOpen
  <2>2. CASE content # Mixed
    <3>1. e \in Editors /\ content \in Contents
      BY <1>1, <1>2 DEF Requests, RequestOK
    <3>2. ~overlapped => content.kind = "template"
      BY <1>1, <1>2 DEF WholeRequest
    <3>3. pages' = [pages EXCEPT ![e].template = t, ![e].loaded = l]
      BY <2>2 DEF OnTemplate
    <3>4. pages[e] \in Page /\ PageOK(pages[e]) /\ pages \in [Editors -> Page]
      BY <3>1 DEF IInv, PagesOK
    <3>5. content.kind \in {"template", "truncated", "null"}
      BY <1>1, <1>2, <2>2, <3>1 DEF RequestOK, FileOK, Contents
    <3>6. /\ t \in Contents /\ t.kind \in {"template", "null"} /\ l \in BOOLEAN
          /\ l => t.kind = "template" /\ t.fields
          /\ content.kind = "template" => t.kind = "template"
      <4>1. CASE content.kind = "template"
        <5>1. t = Template(content.rev, TRUE) /\ l = TRUE
          BY <4>1 DEF Loaded
        <5> QED
          BY <3>1, <5>1, Values DEF Contents
      <4>2. CASE content.kind \in {"truncated", "null"}
        <5>1. t = Null /\ l = FALSE
          BY <4>2 DEF Loaded
        <5> QED
          BY <4>2, <5>1, Values
      <4> QED
        BY <3>5, <4>1, <4>2
    <3> HIDE DEF t, l
    <3>7. p \in Page /\ p.template = t /\ p.loaded = l /\ p.open = pages[e].open
      BY <3>4, <3>6 DEF Page
    <3>8. pages' = [pages EXCEPT ![e] = p]
      BY <3>1, <3>3, <3>4
    <3>9. p.open # "none"
      BY <1>1, <3>1, <3>7 DEF IInv, GetsOK
    <3> HIDE DEF p
    <3>10. PageOK(p) /\ (~overlapped' => WholePage(p))
      BY <1>3, <3>2, <3>6, <3>7, <3>9 DEF PageOK, WholePage
    <3> QED
      BY <1>3, <3>1, <3>7, <3>8, <3>9, <3>10, PageStep, PageStaysOpen
  <2> QED
    BY <2>1, <2>2
<1>6. RequestsOK' /\ FilesOK' /\ GetsOK'
  BY <1>1, <1>2, <1>3, <1>4, <1>5, ReplaceStep
<1> QED
  BY <1>3, <1>5, <1>6 DEF IInv

LEMMA OnListKeeps ==
    ASSUME IInv, NEW s \in Slots, OnList(s)
    PROVE  IInv'
<1>1. requests[s] # Idle /\ requests[s].phase = "ok"
  BY DEF OnList, Arrived
<1>2. RequestOK(Idle) /\ WholeRequest(Idle) /\ SameOrigin(Idle, requests[s])
  BY DEF RequestOK, WholeRequest, SameOrigin
<1>3. requests' = [requests EXCEPT ![s] = Idle] /\ UNCHANGED <<files, pages, edits, overlapped>>
  BY DEF OnList
<1>4. requests \in [Slots -> Requests \cup {Idle}]
  BY DEF IInv, RequestsOK
<1>5. RequestsOK' /\ FilesOK' /\ GetsOK'
  BY <1>1, <1>2, <1>3, <1>4, ReplaceStep, SamePagesOpen
<1> QED
  BY <1>3, <1>5, SamePages DEF IInv

LEMMA OnDoneKeeps ==
    ASSUME IInv, NEW s \in Slots, OnDone(s)
    PROVE  IInv'
<1>1. requests[s] # Idle /\ requests[s].phase = "ok"
  BY DEF OnDone, Arrived
<1>2. requests[s].by \in Editors
  BY <1>1 DEF IInv, RequestsOK, RequestOK, Requests
<1> QED
  BY <1>1, <1>2, ClosingKeeps DEF OnDone

\* Nothing is being written after a restart, and nothing was if nothing overlapped.
LEMMA KillKeeps ==
    ASSUME IInv, Kill
    PROVE  IInv'
<1>1. requests' = [s \in Slots |-> Idle] /\ UNCHANGED <<files, pages, lists, edits>>
  BY DEF Kill
<1>2. overlapped' \in BOOLEAN /\ (~overlapped' => ~overlapped /\ \A d \in Dirs : Writers(d) = {})
  BY DEF Kill, IInv
<1>3. RequestsOK'
  BY <1>1 DEF RequestsOK, RequestOK, WholeRequest
<1>4. ~overlapped' => Quiet
  BY <1>1, <1>2 DEF Quiet, Writes, Writers
<1>5. FilesOK'
  BY <1>1, <1>2, <1>4 DEF IInv, FilesOK, Quiet
<1>6. GetsOK'
  BY <1>1 DEF GetsOK
<1> QED
  BY <1>1, <1>2, <1>3, <1>5, <1>6, SamePages DEF IInv

-----------------------------------------------------------------------------

LEMMA InitIInv == Init => IInv
<1> SUFFICES ASSUME Init PROVE IInv
  OBVIOUS
<1>1. RequestsOK /\ GetsOK
  BY DEF Init, RequestsOK, RequestOK, WholeRequest, GetsOK
<1>2. PagesOK
  BY Values DEF Init, PagesOK
<1>3. FilesOK
  <2>1. files \in [Dirs -> {NoFile, Template(1, FALSE)}]
    BY DEF Init
  <2>2. Template(1, FALSE) \in Contents /\ Template(1, FALSE).kind = "template"
    BY Values
  <2>3. FileOK(Template(1, FALSE))
    BY <2>2 DEF FileOK
  <2>4. \A s \in Slots, d \in Dirs : ~Writes(s, d)
    BY DEF Init, Writes
  <2> QED
    BY <2>1, <2>2, <2>3, <2>4, Values DEF FilesOK
<1> QED
  BY <1>1, <1>2, <1>3 DEF Init, IInv

LEMMA NextIInv == IInv /\ [Next]_vars => IInv'
<1> SUFFICES ASSUME IInv, [Next]_vars PROVE IInv'
  OBVIOUS
<1>1. CASE UNCHANGED vars
  BY <1>1, SameRequests, SamePages, SamePagesOpen DEF vars, IInv
<1>2. ASSUME NEW e \in Editors,
             \/ LoadLocalTemplates(e) \/ EditOptionalRow(e) \/ SaveSource(e)
             \/ SaveTemplate(e) \/ Cancel(e)
             \/ \E d \in Dirs : OpenTemplateEditor(e, d)
             \/ \E list \in {"assoc", "service_fields"} : EditRow(e, list)
             \/ \E op \in {"delete", "move", "upload"} : TemplateOperation(e, op)
      PROVE  IInv'
  <2>1. CASE EditOptionalRow(e) \/ \E list \in {"assoc", "service_fields"} : EditRow(e, list)
    BY <2>1, ChangedKeeps DEF EditOptionalRow, EditRow
  <2> QED
    BY <1>2, <2>1, LoadLocalTemplatesKeeps, SaveSourceKeeps, SaveTemplateKeeps, CancelKeeps,
       OpenTemplateEditorKeeps, TemplateOperationKeeps
<1>3. ASSUME NEW s \in Slots,
             \/ ServeList(s) \/ GetTemplate(s) \/ BeginUpdate(s) \/ EndUpdate(s)
             \/ DeleteTemplate(s) \/ MoveToStable(s) \/ Upload(s)
             \/ OnTemplate(s) \/ OnList(s) \/ OnDone(s)
      PROVE  IInv'
  BY <1>3, ServeListKeeps, GetTemplateKeeps, BeginUpdateKeeps, EndUpdateKeeps, DeleteTemplateKeeps,
     MoveToStableKeeps, UploadKeeps, OnTemplateKeeps, OnListKeeps, OnDoneKeeps
<1> QED
  BY <1>1, <1>2, <1>3, KillKeeps DEF Next

\* As long as no request met a file that another one was writing, every product
\* template that nobody writes is whole (updateTemplate, deleteTemplate and the
\* move of products.go), whatever was saved, moved and deleted before and
\* however often the server was killed.
THEOREM TemplatesStayIntact == Spec => []FilesIntact
<1>1. IInv => FilesIntact
  BY DEF IInv, FilesOK, FilesIntact, Writes, Writers, NoFile, Content
<1> QED
  BY <1>1, InitIInv, NextIInv, PTL DEF Spec

\* An editor that says it has loaded its template shows a whole one with all
\* the lists it adds rows to (ngOnInit of template-editor.component.ts), also
\* after edits and with answers that come late, or hold a file half-written.
THEOREM EditorsShowAll == Spec => []EditorsComplete
<1>1. IInv => EditorsComplete
  BY DEF IInv, PagesOK, PageOK, EditorsComplete
<1> QED
  BY <1>1, InitIInv, NextIInv, PTL DEF Spec

-----------------------------------------------------------------------------
(* The store with requests that are done in one step.                        *)

Promised == IInv /\ ~overlapped /\ IInv' /\ ~overlapped'

LEMMA StoredIs ==
    ASSUME IInv, ~overlapped, NEW d \in Dirs
    PROVE  /\ \A s \in Slots : Writes(s, d) => Stored[d] = requests[s].body
           /\ (\A s \in Slots : ~Writes(s, d)) => Stored[d] = files[d]
<1>1. \A s \in Slots : s \in Writers(d) <=> Writes(s, d)
  BY DEF Writers, Writes
<1>2. Stored[d] = IF Writers(d) # {} THEN requests[WriterOf(d)].body ELSE files[d]
  BY DEF Stored
<1>3. ASSUME NEW s \in Slots, Writes(s, d)
      PROVE  WriterOf(d) = s
  <2>1. \A u \in Slots : Writes(u, d) => u = s
    BY <1>3 DEF IInv, FilesOK
  <2> QED
    BY <1>1, <1>3, <2>1 DEF WriterOf
<1> QED
  BY <1>1, <1>2, <1>3 DEF Writers

LEMMA StoredIsNext ==
    ASSUME IInv', ~overlapped', NEW d \in Dirs
    PROVE  /\ \A s \in Slots : Writes(s, d)' => Stored'[d] = requests'[s].body
           /\ (\A s \in Slots : ~Writes(s, d)') => Stored'[d] = files'[d]
<1>1. \A s \in Slots : s \in Writers(d)' <=> Writes(s, d)'
  BY DEF Writers, Writes
<1>2. Stored'[d] = IF Writers(d)' # {} THEN requests'[WriterOf(d)'].body ELSE files'[d]
  BY DEF Stored
<1>3. ASSUME NEW s \in Slots, Writes(s, d)'
      PROVE  WriterOf(d)' = s
  <2>1. \A u \in Slots : Writes(u, d)' => u = s
    BY <1>3 DEF IInv, FilesOK
  <2> QED
    BY <1>1, <1>3, <2>1 DEF WriterOf
<1> QED
  BY <1>1, <1>2, <1>3 DEF Writers

\* What is stored does not depend on the name of the file or on who writes it.
LEMMA StoredSame ==
    ASSUME Promised, NEW d \in Dirs, NEW e \in Dirs, files'[e] = files[d],
           \A s \in Slots : /\ Writes(s, e)' <=> Writes(s, d)
                            /\ Writes(s, d) => requests'[s].body = requests[s].body
    PROVE  Stored'[e] = Stored[d]
  BY StoredIs, StoredIsNext DEF Promised

SameWriting(new, old) == /\ IsWriting(new) <=> IsWriting(old)
                         /\ IsWriting(old) => new.dir = old.dir /\ new.body = old.body

LEMMA StoredKept ==
    ASSUME Promised, UNCHANGED files, \A s \in Slots : SameWriting(requests'[s], requests[s])
    PROVE  UNCHANGED Stored
<1>1. ASSUME NEW d \in Dirs
      PROVE  Stored'[d] = Stored[d]
  <2>1. \A s \in Slots : /\ Writes(s, d)' <=> Writes(s, d)
                         /\ Writes(s, d) => requests'[s].body = requests[s].body
    BY DEF SameWriting, IsWriting, Writes
  <2> QED
    BY <2>1, StoredSame
<1> QED
  BY <1>1 DEF Stored

\* Whatever is given up, answered or lost.
LEMMA ForgetRefines ==
    ASSUME Promised, UNCHANGED files,
           \A s \in Slots : /\ SameWriting(requests'[s], requests[s])
                            /\ AskedBy(requests'[s]) \in {AskedBy(requests[s]), [op |-> "none"]}
                            /\ GotBy(requests'[s]) \in {GotBy(requests[s]), NoFile}
    PROVE  [Atomic!FilesNext]_(Atomic!filesVars)
<1>1. UNCHANGED Stored
  BY StoredKept
<1>2. /\ Asked' = [s \in Slots |-> Asked'[s]] /\ Got' = [s \in Slots |-> Got'[s]]
      /\ \A s \in Slots : /\ Asked'[s] = AskedBy(requests'[s]) /\ Asked[s] = AskedBy(requests[s])
                          /\ Got'[s] = GotBy(requests'[s]) /\ Got[s] = GotBy(requests[s])
  BY DEF Asked, Got
<1>3. Atomic!Forget
  BY <1>1, <1>2 DEF Atomic!Forget, Atomic!Nothing
<1> QED
  BY <1>3 DEF Promised, IInv, Atomic!FilesNext

LEMMA SendRefines ==
    ASSUME Promised, UNCHANGED files, NEW r \in Requests, r # Idle, r.phase = "sent",
           r.op = "save" => r.body.kind = "template", Send(requests, r)
    PROVE  [Atomic!FilesNext]_(Atomic!filesVars)
<1>1. PICK s \in Slots : requests[s] = Idle /\ requests' = [requests EXCEPT ![s] = r]
  BY DEF Send
<1>2. /\ requests'[s] = r /\ ~IsWriting(r) /\ ~IsWriting(Idle)
      /\ \A u \in Slots : u # s => requests'[u] = requests[u]
  BY <1>1 DEF IsWriting, Promised, IInv, RequestsOK
<1>3. /\ AskedBy(Idle) = [op |-> "none"] /\ GotBy(Idle) = NoFile /\ GotBy(r) = NoFile
      /\ AskedBy(r) = IF r.op \in {"get", "save", "delete", "move"}
                      THEN [op |-> r.op, dir |-> r.dir, body |-> r.body] ELSE [op |-> "none"]
  BY DEF AskedBy, GotBy
<1>4. \A u \in Slots : SameWriting(requests'[u], requests[u])
  BY <1>1, <1>2 DEF SameWriting
<1>5. CASE r.op \notin {"get", "save", "delete", "move"}
  BY <1>1, <1>2, <1>3, <1>4, <1>5, ForgetRefines
<1>6. CASE r.op \in {"get", "save", "delete", "move"}
  <2>1. UNCHANGED Stored
    BY <1>4, StoredKept
  <2>2. UNCHANGED Got
    BY <1>1, <1>2, <1>3 DEF Got
  <2>3. Asked[s] = [op |-> "none"] /\ Got[s] = NoFile /\ Asked'[s] = AskedBy(r)
    BY <1>1, <1>2, <1>3 DEF Asked, Got
  <2>4. Asked' = [Asked EXCEPT ![s] = AskedBy(r)]
    <3>1. \A u \in Slots : AskedBy(requests'[u]) = IF u = s THEN AskedBy(r) ELSE AskedBy(requests[u])
      BY <1>1, <1>2
    <3> QED
      BY <3>1 DEF Asked
  <2>5. AskedBy(r).op = r.op /\ AskedBy(r).body = r.body
    BY <1>3, <1>6
  <2>6. Atomic!Ask(s)
    BY <1>6, <2>1, <2>2, <2>3, <2>4, <2>5 DEF Atomic!Ask, Atomic!Nothing
  <2> QED
    BY <2>6 DEF Promised, IInv, Atomic!FilesNext
<1> QED
  BY <1>5, <1>6

\* What a dialog that closes leaves of its requests.
LEMMA ClosingRefines ==
    ASSUME Promised, UNCHANGED files, NEW e \in Editors, NEW answered, Closing(e, answered),
           answered \in Slots => requests[answered].phase = "ok"
    PROVE  [Atomic!FilesNext]_(Atomic!filesVars)
<1> DEFINE Left(s) ==
             IF s = answered \/ requests[s] = Idle \/ requests[s].by # e \/ requests[s].op = "list"
             THEN IF s = answered THEN Idle ELSE requests[s]
             ELSE IF requests[s].phase = "ok" \/ requests[s].op = "get" THEN Idle
             ELSE [requests[s] EXCEPT !.by = Idle]
           left == [s \in Slots |-> Left(s)]
           r == Request(e, "list", "cache", Null)
<1>1. r # Idle /\ r.phase = "sent" /\ r.op = "list"
  BY Values, NewRequest DEF Dirs
<1>2. Send(left, r)
  BY DEF Closing
<1> HIDE DEF r
<1>3. PICK t \in Slots : left[t] = Idle /\ requests' = [left EXCEPT ![t] = r]
  BY <1>2 DEF Send
<1>4. \A s \in Slots : requests'[s] = Left(s) \/ (Left(s) = Idle /\ requests'[s] = r)
  BY <1>3
<1>5. ~IsWriting(r) /\ AskedBy(r) = [op |-> "none"] /\ GotBy(r) = NoFile
  BY <1>1 DEF IsWriting, AskedBy, GotBy
<1>6. ~IsWriting(Idle) /\ AskedBy(Idle) = [op |-> "none"] /\ GotBy(Idle) = NoFile
  BY DEF IsWriting, AskedBy, GotBy
<1>7. ASSUME NEW s \in Slots
      PROVE  /\ SameWriting(Left(s), requests[s])
             /\ AskedBy(Left(s)) \in {AskedBy(requests[s]), [op |-> "none"]}
             /\ GotBy(Left(s)) \in {GotBy(requests[s]), NoFile}
  <2>1. requests[s] \in Requests \cup {Idle} /\ RequestOK(requests[s])
    BY DEF Promised, IInv, RequestsOK
  <2>2. CASE Left(s) = requests[s]
    BY <2>2 DEF SameWriting
  <2>3. CASE Left(s) = Idle /\ ~IsWriting(requests[s])
    BY <1>6, <2>3 DEF SameWriting
  <2>4. CASE requests[s] # Idle /\ requests[s].phase # "ok" /\ Left(s) = [requests[s] EXCEPT !.by = Idle]
    <3>1. requests[s] \in Requests
      BY <2>1, <2>4
    <3>2. /\ Left(s) # Idle /\ Left(s).phase = requests[s].phase /\ Left(s).op = requests[s].op
          /\ Left(s).dir = requests[s].dir /\ Left(s).body = requests[s].body
      BY <2>4, <3>1, IdleAssumption DEF Requests
    <3> HIDE DEF Left
    <3> QED
      BY <2>4, <3>2 DEF SameWriting, IsWriting, AskedBy, GotBy
  <2> QED
    BY <2>1, <2>2, <2>3, <2>4 DEF RequestOK, IsWriting
<1> HIDE DEF Left
<1>8. ASSUME NEW s \in Slots
      PROVE  /\ SameWriting(requests'[s], requests[s])
             /\ AskedBy(requests'[s]) \in {AskedBy(requests[s]), [op |-> "none"]}
             /\ GotBy(requests'[s]) \in {GotBy(requests[s]), NoFile}
  BY <1>4, <1>5, <1>6, <1>7 DEF SameWriting
<1> QED
  BY <1>8, ForgetRefines

\* A request that leaves its slot without having been asked of the store.
LEMMA EndRefines ==
    ASSUME Promised, UNCHANGED files, NEW s \in Slots, requests' = [requests EXCEPT ![s] = Idle],
           ~IsWriting(requests[s])
    PROVE  [Atomic!FilesNext]_(Atomic!filesVars)
<1>1. ASSUME NEW u \in Slots
      PROVE  requests'[u] \in {requests[u], Idle} /\ (u # s => requests'[u] = requests[u])
  BY DEF Promised, IInv, RequestsOK
<1>2. ~IsWriting(Idle) /\ AskedBy(Idle) = [op |-> "none"] /\ GotBy(Idle) = NoFile
  BY DEF IsWriting, AskedBy, GotBy
<1> QED
  BY <1>1, <1>2, ForgetRefines DEF SameWriting

\* An answer that carries no template.
LEMMA AnswerRefines ==
    ASSUME Promised, UNCHANGED files, NEW s \in Slots, requests[s] # Idle,
           requests[s].phase = "sent", requests[s].op \notin {"get", "save"},
           NEW content \in Contents, requests' = Answered(s, content)
    PROVE  [Atomic!FilesNext]_(Atomic!filesVars)
<1>1. /\ \A u \in Slots : u # s => requests'[u] = requests[u]
      /\ requests'[s] = Idle \/ requests'[s].phase = "ok"
      /\ requests'[s] # Idle => requests'[s].op = requests[s].op
  BY Answering DEF Promised, SameOrigin
<1>2. /\ AskedBy(requests'[s]) = [op |-> "none"] /\ GotBy(requests'[s]) = NoFile
      /\ ~IsWriting(requests'[s]) /\ ~IsWriting(requests[s])
  BY <1>1 DEF AskedBy, GotBy, IsWriting
<1> QED
  BY <1>1, <1>2, ForgetRefines DEF SameWriting

\* A request that is done: it leaves what is asked, and the slot of its answer.
DoneIn(s, answer) ==
    /\ \A u \in Slots : /\ u # s => /\ AskedBy(requests'[u]) = AskedBy(requests[u])
                                    /\ GotBy(requests'[u]) = GotBy(requests[u])
    /\ AskedBy(requests'[s]) = [op |-> "none"] /\ GotBy(requests'[s]) = answer

LEMMA DoneRefines ==
    ASSUME NEW s \in Slots, NEW answer, DoneIn(s, answer), requests[s] # Idle,
           requests[s].phase = "sent", requests[s].op \in {"get", "save", "delete", "move"}
    PROVE  /\ Asked[s].op = requests[s].op /\ Asked[s].dir = requests[s].dir
           /\ Asked[s].body = requests[s].body /\ Atomic!Does(s, requests[s].op)
           /\ Got' = [Got EXCEPT ![s] = answer]
           /\ answer = NoFile => UNCHANGED Got
<1>1. /\ Asked[s] = [op |-> requests[s].op, dir |-> requests[s].dir, body |-> requests[s].body]
      /\ Got[s] = NoFile
  BY DEF Asked, Got, AskedBy, GotBy
<1>2. Asked' = [Asked EXCEPT ![s] = [op |-> "none"]]
  BY DEF Asked, DoneIn
<1>3. Got' = [Got EXCEPT ![s] = answer]
  BY DEF Got, DoneIn
<1>4. answer = NoFile => UNCHANGED Got
  BY <1>1, <1>3 DEF Got
<1> QED
  BY <1>1, <1>2, <1>3, <1>4 DEF Atomic!Does, Atomic!Nothing

\* What is read is what is stored: nobody writes a file that is not empty.
LEMMA GetTemplateRefines ==
    ASSUME Promised, NEW s \in Slots, GetTemplate(s)
    PROVE  [Atomic!FilesNext]_(Atomic!filesVars)
<1> DEFINE file == files[requests[s].dir]
<1>1. requests[s] # Idle /\ requests[s].phase = "sent" /\ requests[s].op = "get"
  BY DEF GetTemplate, Sent
<1>2. requests[s].dir \in Dirs /\ requests \in [Slots -> Requests \cup {Idle}]
  BY <1>1 DEF Promised, IInv, RequestsOK, RequestOK
<1>3. file # Truncated /\ UNCHANGED <<files, overlapped>>
  BY DEF GetTemplate, Promised, IInv
<1>4. Stored[requests[s].dir] = file
  BY <1>2, <1>3, StoredIs DEF Promised, IInv, FilesOK
<1>5. file \in Contents /\ FileOK(file)
  BY <1>2 DEF Promised, IInv, FilesOK
<1>6. CASE file # NoFile /\ requests[s].by = Idle
  <2>1. requests' = [requests EXCEPT ![s] = Idle]
    BY <1>6 DEF GetTemplate, Answered
  <2> QED
    BY <1>1, <1>3, <2>1, EndRefines DEF IsWriting
<1>7. CASE file = NoFile \/ requests[s].by # Idle
  <2>1. /\ \A u \in Slots : u # s => requests'[u] = requests[u]
        /\ AskedBy(requests'[s]) = [op |-> "none"] /\ GotBy(requests'[s]) = file
        /\ ~IsWriting(requests'[s])
    <3>1. CASE file = NoFile
      <4>1. requests' = [requests EXCEPT ![s] = Idle]
        BY <3>1 DEF GetTemplate, Failed
      <4> QED
        BY <1>2, <3>1, <4>1 DEF AskedBy, GotBy, IsWriting
    <3>2. CASE file # NoFile
      <4> DEFINE a == [[requests[s] EXCEPT !.phase = "ok"] EXCEPT !.body = file]
      <4>1. requests' = [requests EXCEPT ![s] = a]
        BY <1>2, <1>7, <3>2 DEF GetTemplate, Answered
      <4>2. a.phase = "ok" /\ a.op = "get" /\ a.body = file /\ a # Idle
        BY <1>1, <1>2, <1>5, IdleAssumption DEF Requests
      <4> HIDE DEF a
      <4> QED
        BY <1>2, <4>1, <4>2 DEF AskedBy, GotBy, IsWriting
    <3> QED
      BY <3>1, <3>2
  <2> HIDE DEF file
  <2>2. DoneIn(s, file)
    BY <2>1 DEF DoneIn
  <2>3. UNCHANGED Stored
    BY <1>1, <1>3, <2>1, StoredKept DEF SameWriting, IsWriting
  <2>4. Atomic!Get(s)
    BY <1>1, <1>4, <2>2, <2>3, DoneRefines DEF Atomic!Get
  <2> QED
    BY <1>3, <2>4 DEF Atomic!FilesNext
<1> QED
  BY <1>6, <1>7

\* A save is done when its file is emptied.
LEMMA BeginUpdateRefines ==
    ASSUME Promised, NEW s \in Slots, BeginUpdate(s)
    PROVE  [Atomic!FilesNext]_(Atomic!filesVars)
<1>0. PICK d : d = requests[s].dir
  OBVIOUS
<1> DEFINE w == [requests[s] EXCEPT !.phase = "writing"]
<1>1. requests[s] # Idle /\ requests[s].phase = "sent" /\ requests[s].op = "save"
  BY DEF BeginUpdate, Sent
<1>2. requests[s] \in Requests /\ requests \in [Slots -> Requests \cup {Idle}] /\ d \in Dirs
  BY <1>0, <1>1 DEF Promised, IInv, RequestsOK, RequestOK
<1>3. w # Idle /\ w.phase = "writing" /\ w.dir = d /\ w.body = requests[s].body
  BY <1>0, <1>1, <1>2, IdleAssumption DEF Requests
<1>4. requests' = [requests EXCEPT ![s] = w]
  BY DEF BeginUpdate
<1> HIDE DEF w
<1>5. requests'[s] = w /\ \A u \in Slots : u # s => requests'[u] = requests[u]
  BY <1>2, <1>4
<1>6. AskedBy(w) = [op |-> "none"] /\ GotBy(w) = NoFile
  BY <1>3 DEF AskedBy, GotBy
<1>7. DoneIn(s, NoFile)
  BY <1>5, <1>6 DEF DoneIn
<1>8. files' = [files EXCEPT ![d] = Truncated] /\ UNCHANGED overlapped
  BY <1>0 DEF BeginUpdate, Promised, IInv
<1>9. Stored' = [Stored EXCEPT ![d] = requests[s].body]
  <2>1. Stored'[d] = requests[s].body
    <3>1. Writes(s, d)'
      BY <1>3, <1>5 DEF Writes
    <3> QED
      BY <1>2, <1>3, <1>5, <3>1, StoredIsNext DEF Promised
  <2>2. ASSUME NEW c \in Dirs, c # d
        PROVE  Stored'[c] = Stored[c]
    <3>1. files'[c] = files[c]
      BY <1>8, <2>2 DEF Promised, IInv, FilesOK
    <3>2. \A u \in Slots : /\ Writes(u, c)' <=> Writes(u, c)
                           /\ Writes(u, c) => requests'[u].body = requests[u].body
      BY <1>1, <1>3, <1>5, <2>2 DEF Writes
    <3> QED
      BY <3>1, <3>2, StoredSame
  <2> QED
    BY <1>2, <2>1, <2>2 DEF Stored
<1>10. Atomic!Save(s)
  BY <1>0, <1>1, <1>7, <1>9, DoneRefines DEF Atomic!Save
<1> QED
  BY <1>8, <1>10 DEF Atomic!FilesNext

\* The body that is written is what counts as stored already.
LEMMA EndUpdateRefines ==
    ASSUME Promised, NEW s \in Slots, EndUpdate(s)
    PROVE  [Atomic!FilesNext]_(Atomic!filesVars)
<1>0. PICK d, body : d = requests[s].dir /\ body = requests[s].body
  OBVIOUS
<1>1. requests[s] # Idle /\ requests[s].phase = "writing"
  BY DEF EndUpdate
<1>2. requests[s] \in Requests /\ requests \in [Slots -> Requests \cup {Idle}]
  BY <1>1 DEF Promised, IInv, RequestsOK
<1>3. requests' = [requests EXCEPT ![s] = Idle] /\ UNCHANGED overlapped
  BY DEF EndUpdate
<1>4. requests'[s] = Idle /\ \A u \in Slots : u # s => requests'[u] = requests[u]
  BY <1>2, <1>3
<1>5. /\ AskedBy(Idle) = [op |-> "none"] /\ GotBy(Idle) = NoFile
      /\ AskedBy(requests[s]) = [op |-> "none"] /\ GotBy(requests[s]) = NoFile
  BY <1>1 DEF AskedBy, GotBy
<1>6. UNCHANGED <<Asked, Got>>
  <2>1. \A u \in Slots : /\ AskedBy(requests'[u]) = AskedBy(requests[u])
                         /\ GotBy(requests'[u]) = GotBy(requests[u])
    BY <1>4, <1>5
  <2> QED
    BY <2>1 DEF Asked, Got
<1>7. ASSUME NEW c \in Dirs
      PROVE  Stored'[c] = Stored[c]
  <2>1. CASE c # d
    <3>1. files'[c] = files[c]
      BY <1>0, <2>1 DEF EndUpdate, Promised, IInv, FilesOK
    <3>2. \A u \in Slots : /\ Writes(u, c)' <=> Writes(u, c)
                           /\ Writes(u, c) => requests'[u].body = requests[u].body
      BY <1>0, <1>4, <2>1 DEF Writes
    <3> QED
      BY <3>1, <3>2, StoredSame
  <2>2. CASE c = d
    <3>1. Writes(s, d)
      BY <1>0, <1>1 DEF Writes
    <3>2. files[d] = Truncated /\ \A u \in Slots : Writes(u, d) => u = s
      BY <2>2, <3>1 DEF Promised, IInv, FilesOK
    <3>3. files' = [files EXCEPT ![d] = body]
      BY <1>0, <2>2, <3>2 DEF EndUpdate, Dirs
    <3>4. files'[d] = body
      BY <2>2, <3>3 DEF Promised, IInv, FilesOK
    <3>5. \A u \in Slots : ~Writes(u, d)'
      BY <1>4, <3>2 DEF Writes
    <3>6. Stored'[d] = body
      BY <2>2, <3>4, <3>5, StoredIsNext DEF Promised
    <3>7. Stored[d] = body
      BY <1>0, <2>2, <3>1, StoredIs DEF Promised
    <3> QED
      BY <2>2, <3>6, <3>7
  <2> QED
    BY <2>1, <2>2
<1>8. UNCHANGED Stored
  BY <1>7 DEF Stored
<1> QED
  BY <1>3, <1>6, <1>8 DEF Atomic!filesVars

\* Writers that follow their file go on with the same body; nobody else changes.
LEMMA FollowIs ==
    ASSUME NEW reqs \in [Slots -> Requests \cup {Idle}], NEW d, NEW e \in Dirs \cup {"nowhere"},
           \A u \in Slots : IsWriting(requests[u]) => IsWriting(reqs[u]), NEW u \in Slots
    PROVE  LET new == Follow(reqs, d, e)
           IN  IF IsWriting(requests[u]) /\ requests[u].dir = d
               THEN IsWriting(new[u]) /\ new[u].dir = e /\ new[u].body = reqs[u].body
               ELSE new[u] = reqs[u]
<1> DEFINE new == Follow(reqs, d, e)
<1>1. u \in Writers(d) <=> IsWriting(requests[u]) /\ requests[u].dir = d
  BY DEF Writers, IsWriting
<1>2. CASE u \in Writers(d)
  <2> DEFINE w == [reqs[u] EXCEPT !.dir = e]
  <2>1. new[u] = w
    BY <1>2 DEF Follow
  <2>2. reqs[u] \in Requests /\ IsWriting(reqs[u])
    BY <1>1, <1>2 DEF IsWriting
  <2>3. w \in Requests /\ w.phase = "writing" /\ w.body = reqs[u].body /\ w.dir = e
    BY <2>2 DEF Requests, IsWriting
  <2>4. w # Idle
    BY <2>3, IdleAssumption
  <2> HIDE DEF w, new
  <2> QED
    BY <1>1, <1>2, <2>1, <2>3, <2>4 DEF IsWriting, new
<1>3. CASE u \notin Writers(d)
  BY <1>1, <1>3 DEF Follow
<1> QED
  BY <1>2, <1>3

LEMMA FollowTyped ==
    ASSUME NEW reqs \in [Slots -> Requests \cup {Idle}], NEW d, NEW e \in Dirs \cup {"nowhere"},
           \A u \in Slots : IsWriting(requests[u]) => IsWriting(reqs[u])
    PROVE  Follow(reqs, d, e) \in [Slots -> Requests \cup {Idle}]
<1> DEFINE new == Follow(reqs, d, e)
<1>1. ASSUME NEW u \in Slots
      PROVE  new[u] \in Requests \cup {Idle}
  <2>1. u \in Writers(d) => reqs[u] \in Requests
    BY DEF Writers, IsWriting
  <2>2. u \in Writers(d) => [reqs[u] EXCEPT !.dir = e] \in Requests
    BY <2>1 DEF Requests
  <2> QED
    BY <2>2 DEF Follow
<1> QED
  BY <1>1 DEF Follow

\* The answer to a deletion or a move, or its failure.
LEMMA AnswerIs ==
    ASSUME IInv, NEW s \in Slots, requests[s] # Idle, requests[s].phase = "sent",
           requests[s].op \in {"delete", "move"}, NEW reqs \in {Answered(s, Null), Failed(s)}
    PROVE  /\ reqs \in [Slots -> Requests \cup {Idle}]
           /\ \A u \in Slots : u # s => reqs[u] = requests[u]
           /\ ~IsWriting(reqs[s]) /\ ~IsWriting(requests[s])
           /\ AskedBy(reqs[s]) = [op |-> "none"] /\ GotBy(reqs[s]) = NoFile
<1>1. requests \in [Slots -> Requests \cup {Idle}]
  BY DEF IInv, RequestsOK
<1>2. /\ reqs \in [Slots -> Requests \cup {Idle}]
      /\ \A u \in Slots : u # s => reqs[u] = requests[u]
      /\ reqs[s] = Idle \/ reqs[s].phase = "ok"
      /\ reqs[s] # Idle => reqs[s].op = requests[s].op
  <2>1. CASE reqs = Failed(s)
    BY <1>1, <2>1 DEF Failed
  <2>2. CASE reqs = Answered(s, Null)
    BY <2>2, Values, Answering DEF SameOrigin
  <2> QED
    BY <2>1, <2>2
<1> QED
  BY <1>2 DEF IsWriting, AskedBy, GotBy

\* Who writes asks for nothing more and gets nothing.
LEMMA WritersAskNothing ==
    ASSUME NEW r, IsWriting(r)
    PROVE  AskedBy(r) = [op |-> "none"] /\ GotBy(r) = NoFile
  BY DEF IsWriting, AskedBy, GotBy

LEMMA DeleteTemplateRefines ==
    ASSUME Promised, NEW s \in Slots, DeleteTemplate(s)
    PROVE  [Atomic!FilesNext]_(Atomic!filesVars)
<1>0. PICK d : d = requests[s].dir
  OBVIOUS
<1>1. requests[s] # Idle /\ requests[s].phase = "sent" /\ requests[s].op = "delete"
  BY DEF DeleteTemplate, Sent
<1>2. d \in Dirs
  BY <1>0, <1>1 DEF Promised, IInv, RequestsOK, RequestOK
<1>3. PICK reqs \in {Answered(s, Null), Failed(s)} : requests' = Follow(reqs, d, "nowhere")
  BY <1>0 DEF DeleteTemplate
<1>4. /\ reqs \in [Slots -> Requests \cup {Idle}]
      /\ \A u \in Slots : u # s => reqs[u] = requests[u]
      /\ ~IsWriting(reqs[s]) /\ ~IsWriting(requests[s])
      /\ AskedBy(reqs[s]) = [op |-> "none"] /\ GotBy(reqs[s]) = NoFile
  BY <1>1, AnswerIs DEF Promised
<1>5. \A u \in Slots : IF IsWriting(requests[u]) /\ requests[u].dir = d
                       THEN /\ IsWriting(requests'[u]) /\ requests'[u].dir = "nowhere"
                            /\ requests'[u].body = reqs[u].body
                       ELSE requests'[u] = reqs[u]
  BY <1>3, <1>4, FollowIs
<1>6. files' = [files EXCEPT ![d] = NoFile] /\ UNCHANGED overlapped
  BY <1>0 DEF DeleteTemplate
<1>7. DoneIn(s, NoFile)
  BY <1>4, <1>5, WritersAskNothing DEF DoneIn
<1>8. Stored' = [Stored EXCEPT ![d] = NoFile]
  <2>1. Stored'[d] = NoFile
    <3>1. \A u \in Slots : ~Writes(u, d)'
      BY <1>2, <1>4, <1>5 DEF Writes, IsWriting, Dirs
    <3>2. files'[d] = NoFile
      BY <1>2, <1>6 DEF Promised, IInv, FilesOK
    <3> QED
      BY <1>2, <3>1, <3>2, StoredIsNext DEF Promised
  <2>2. ASSUME NEW c \in Dirs, c # d
        PROVE  Stored'[c] = Stored[c]
    <3>1. files'[c] = files[c]
      BY <1>6, <2>2 DEF Promised, IInv, FilesOK
    <3>2. \A u \in Slots : /\ Writes(u, c)' <=> Writes(u, c)
                           /\ Writes(u, c) => requests'[u].body = requests[u].body
      BY <1>4, <1>5, <2>2 DEF Writes, IsWriting, Dirs
    <3> QED
      BY <3>1, <3>2, StoredSame
  <2> QED
    BY <1>2, <2>1, <2>2 DEF Stored
<1>9. Atomic!Delete(s)
  BY <1>0, <1>1, <1>7, <1>8, DoneRefines DEF Atomic!Delete
<1> QED
  BY <1>6, <1>9 DEF Atomic!FilesNext

\* A file takes along the one who writes it, and with it what counts as stored.
LEMMA MoveToStableRefines ==
    ASSUME Promised, NEW s \in Slots, MoveToStable(s)
    PROVE  [Atomic!FilesNext]_(Atomic!filesVars)
<1>1. requests[s] # Idle /\ requests[s].phase = "sent" /\ requests[s].op = "move"
  BY DEF MoveToStable, Sent
<1>2. UNCHANGED overlapped /\ "cache" \in Dirs /\ "stable" \in Dirs
  BY DEF MoveToStable, Dirs
<1>3. \A u \in Slots : Writes(u, "cache") => files["cache"] # NoFile
  BY <1>2, Values DEF Promised, IInv, FilesOK, NoFile, Truncated, Content
<1>4. CASE files["cache"] = NoFile
  <2>1. requests' = Failed(s) /\ UNCHANGED files
    BY <1>4 DEF MoveToStable
  <2>2. /\ \A u \in Slots : u # s => requests'[u] = requests[u]
        /\ ~IsWriting(requests'[s]) /\ ~IsWriting(requests[s])
        /\ AskedBy(requests'[s]) = [op |-> "none"] /\ GotBy(requests'[s]) = NoFile
    BY <1>1, <2>1, AnswerIs DEF Promised
  <2>3. DoneIn(s, NoFile) /\ \A u \in Slots : SameWriting(requests'[u], requests[u])
    BY <2>2 DEF DoneIn, SameWriting
  <2>4. UNCHANGED Stored
    BY <2>1, <2>3, StoredKept
  <2>5. Stored["cache"] = NoFile
    BY <1>2, <1>3, <1>4, StoredIs DEF Promised
  <2>6. Atomic!Move(s)
    BY <1>1, <2>3, <2>4, <2>5, DoneRefines DEF Atomic!Move
  <2> QED
    BY <1>2, <2>6 DEF Atomic!FilesNext
<1>5. CASE files["cache"] # NoFile
  <2> DEFINE reqs == Answered(s, Null)
             unnamed == Follow(reqs, "stable", "nowhere")
  <2>1. requests' = Follow(unnamed, "cache", "stable")
    BY <1>5 DEF MoveToStable
  <2>2. files' = [stable |-> files["cache"], cache |-> NoFile]
    BY <1>5 DEF MoveToStable
  <2>3. /\ reqs \in [Slots -> Requests \cup {Idle}]
        /\ \A u \in Slots : u # s => reqs[u] = requests[u]
        /\ ~IsWriting(reqs[s]) /\ ~IsWriting(requests[s])
        /\ AskedBy(reqs[s]) = [op |-> "none"] /\ GotBy(reqs[s]) = NoFile
    BY <1>1, AnswerIs DEF Promised
  <2> HIDE DEF reqs
  <2>4. /\ unnamed \in [Slots -> Requests \cup {Idle}]
        /\ \A u \in Slots : IF IsWriting(requests[u]) /\ requests[u].dir = "stable"
                            THEN IsWriting(unnamed[u]) /\ unnamed[u].dir = "nowhere"
                            ELSE unnamed[u] = reqs[u]
    BY <2>3, FollowIs, FollowTyped
  <2> HIDE DEF unnamed
  <2>5. \A u \in Slots : IF IsWriting(requests[u]) /\ requests[u].dir = "cache"
                         THEN /\ IsWriting(requests'[u]) /\ requests'[u].dir = "stable"
                              /\ requests'[u].body = unnamed[u].body
                         ELSE requests'[u] = unnamed[u]
    BY <1>2, <2>1, <2>3, <2>4, FollowIs
  <2>6. /\ requests'[s] = reqs[s]
        /\ \A u \in Slots : u # s =>
              \/ requests'[u] = requests[u]
              \/ IsWriting(requests'[u]) /\ IsWriting(requests[u])
    BY <2>3, <2>4, <2>5
  <2>7. DoneIn(s, NoFile)
    BY <2>3, <2>6, WritersAskNothing DEF DoneIn
  <2>8. \A u \in Slots : /\ ~Writes(u, "cache")'
                         /\ Writes(u, "stable")' <=> Writes(u, "cache")
                         /\ Writes(u, "cache") => requests'[u].body = requests[u].body
    BY <2>3, <2>4, <2>5 DEF Writes, IsWriting
  <2>9. Stored'["stable"] = Stored["cache"] /\ Stored'["cache"] = NoFile
    <3>1. files'["stable"] = files["cache"] /\ files'["cache"] = NoFile
      BY <2>2
    <3>2. Stored'["stable"] = Stored["cache"]
      BY <1>2, <2>8, <3>1, StoredSame
    <3> QED
      BY <1>2, <2>8, <3>1, <3>2, StoredIsNext DEF Promised
  <2>10. Stored' = [Stored EXCEPT !["stable"] = Stored["cache"], !["cache"] = NoFile]
    BY <2>9 DEF Stored, Dirs
  <2>11. Stored["cache"] # NoFile
    <3>1. ASSUME NEW u \in Slots, Writes(u, "cache")
          PROVE  Stored["cache"].kind = "template"
      BY <1>2, <3>1, StoredIs DEF Promised, IInv, RequestsOK, RequestOK, WholeRequest, Writes
    <3> QED
      BY <1>2, <1>5, <3>1, StoredIs DEF Promised, NoFile, Content
  <2>12. Atomic!Move(s)
    BY <1>1, <2>7, <2>10, <2>11, DoneRefines DEF Atomic!Move
  <2> QED
    BY <1>2, <2>12 DEF Atomic!FilesNext
<1> QED
  BY <1>4, <1>5

LEMMA KillRefines ==
    ASSUME Promised, Kill
    PROVE  [Atomic!FilesNext]_(Atomic!filesVars)
<1>1. requests' = [s \in Slots |-> Idle] /\ UNCHANGED files
  BY DEF Kill
<1>2. \A d \in Dirs : Writers(d) = {}
  BY DEF Kill, Promised
<1>3. AskedBy(Idle) = [op |-> "none"] /\ GotBy(Idle) = NoFile
  BY DEF AskedBy, GotBy
<1>4. UNCHANGED Stored
  <2>1. ASSUME NEW d \in Dirs
        PROVE  Stored'[d] = Stored[d]
    <3>1. \A s \in Slots : ~Writes(s, d) /\ ~Writes(s, d)'
      BY <1>1, <1>2 DEF Writers, Writes
    <3> QED
      BY <1>1, <3>1, StoredSame
  <2> QED
    BY <2>1 DEF Stored
<1>5. Atomic!Forget
  BY <1>1, <1>3, <1>4 DEF Atomic!Forget, Atomic!Nothing, Asked, Got
<1> QED
  BY <1>5 DEF Promised, IInv, Atomic!FilesNext

\* The steps of the browser.
LEMMA BrowserRefines ==
    ASSUME Promised, NEW e \in Editors,
           \/ LoadLocalTemplates(e) \/ EditOptionalRow(e) \/ SaveSource(e)
           \/ SaveTemplate(e) \/ Cancel(e)
           \/ \E d \in Dirs : OpenTemplateEditor(e, d)
           \/ \E list \in {"assoc", "service_fields"} : EditRow(e, list)
           \/ \E op \in {"delete", "move", "upload"} : TemplateOperation(e, op)
    PROVE  [Atomic!FilesNext]_(Atomic!filesVars)
<1>1. CASE \/ EditOptionalRow(e) \/ SaveSource(e)
           \/ \E list \in {"assoc", "service_fields"} : EditRow(e, list)
  <2>1. UNCHANGED <<requests, files>>
    BY <1>1 DEF EditOptionalRow, SaveSource, EditRow, Changed
  <2>2. \A s \in Slots : SameWriting(requests'[s], requests[s])
    BY <2>1 DEF SameWriting
  <2> QED
    BY <2>1, <2>2, ForgetRefines
<1>2. CASE LoadLocalTemplates(e)
  <2> DEFINE r == Request(e, "list", "cache", Null)
  <2>1. r \in Requests /\ r # Idle /\ r.phase = "sent" /\ r.op = "list"
    BY Values, NewRequest DEF Dirs
  <2>2. Send(requests, r) /\ UNCHANGED files
    BY <1>2 DEF LoadLocalTemplates
  <2> HIDE DEF r
  <2> QED
    BY <2>1, <2>2, SendRefines
<1>3. ASSUME NEW d \in Dirs, OpenTemplateEditor(e, d)
      PROVE  [Atomic!FilesNext]_(Atomic!filesVars)
  <2> DEFINE r == Request(e, "get", d, Null)
  <2>1. r \in Requests /\ r # Idle /\ r.phase = "sent" /\ r.op = "get"
    BY Values, NewRequest
  <2>2. Send(requests, r) /\ UNCHANGED files
    BY <1>3 DEF OpenTemplateEditor
  <2> HIDE DEF r
  <2> QED
    BY <2>1, <2>2, SendRefines
<1>4. CASE SaveTemplate(e)
  <2>1. pages[e] \in Page /\ PageOK(pages[e]) /\ WholePage(pages[e]) /\ pages[e] # Closed
    BY <1>4 DEF Promised, IInv, PagesOK, IsOpen, SaveTemplate
  <2> DEFINE r == Request(e, "save", pages[e].open, pages[e].template)
  <2>2. pages[e].open \in Dirs /\ pages[e].template \in Contents /\ pages[e].template.kind = "template"
    BY <2>1 DEF Page, PageOK, WholePage
  <2>3. r \in Requests /\ r # Idle /\ r.phase = "sent"
    BY <2>2, NewRequest
  <2>4. r.body = pages[e].template
    BY DEF Request
  <2>5. Send(requests, r) /\ UNCHANGED files
    BY <1>4 DEF SaveTemplate
  <2> HIDE DEF r
  <2> QED
    BY <2>2, <2>3, <2>4, <2>5, SendRefines
<1>5. ASSUME NEW op \in {"delete", "move", "upload"}, TemplateOperation(e, op)
      PROVE  [Atomic!FilesNext]_(Atomic!filesVars)
  <2> DEFINE r == Request(e, op, pages[e].open, Null)
  <2>1. pages[e].open \in Dirs
    BY <1>5 DEF Promised, IInv, PagesOK, IsOpen, TemplateOperation, Page, PageOK
  <2>2. r \in Requests /\ r # Idle /\ r.phase = "sent" /\ r.op = op
    BY <2>1, Values, NewRequest
  <2>3. Send(requests, r) /\ UNCHANGED files
    BY <1>5 DEF TemplateOperation
  <2> HIDE DEF r
  <2> QED
    BY <2>2, <2>3, SendRefines
<1>6. CASE Cancel(e)
  BY <1>6, ClosingRefines, IdleAssumption DEF Cancel
<1> QED
  BY <1>1, <1>2, <1>3, <1>4, <1>5, <1>6

\* The steps of the handlers and the answers.
LEMMA HandlerRefines ==
    ASSUME Promised, NEW s \in Slots,
           \/ ServeList(s) \/ GetTemplate(s) \/ BeginUpdate(s) \/ EndUpdate(s)
           \/ DeleteTemplate(s) \/ MoveToStable(s) \/ Upload(s)
           \/ OnTemplate(s) \/ OnList(s) \/ OnDone(s)
    PROVE  [Atomic!FilesNext]_(Atomic!filesVars)
<1>1. CASE ServeList(s) \/ Upload(s)
  <2>1. PICK content \in {NoFile, Null} : requests' = Answered(s, content)
    BY <1>1 DEF ServeList, Upload
  <2>2. /\ requests[s] # Idle /\ requests[s].phase = "sent" /\ requests[s].op \in {"list", "upload"}
        /\ UNCHANGED files
    BY <1>1 DEF ServeList, Upload, Sent
  <2> QED
    BY <2>1, <2>2, Values, AnswerRefines
<1>2. CASE OnTemplate(s) \/ OnList(s)
  <2>1. requests' = [requests EXCEPT ![s] = Idle] /\ UNCHANGED files /\ requests[s].phase = "ok"
    BY <1>2 DEF OnTemplate, OnList, Arrived
  <2> QED
    BY <2>1, EndRefines DEF IsWriting
<1>3. CASE OnDone(s)
  <2>1. requests[s] # Idle /\ requests[s].phase = "ok"
    BY <1>3 DEF OnDone, Arrived
  <2>2. requests[s].by \in Editors
    BY <2>1 DEF Promised, IInv, RequestsOK, RequestOK, Requests
  <2> QED
    BY <1>3, <2>1, <2>2, ClosingRefines DEF OnDone
<1> QED
  BY <1>1, <1>2, <1>3, GetTemplateRefines, BeginUpdateRefines, EndUpdateRefines,
     DeleteTemplateRefines, MoveToStableRefines

\* What was torn stays torn.
LEMMA StaysOverlapped == ASSUME Next, overlapped PROVE overlapped'
<1>1. CASE \E e \in Editors :
             \/ LoadLocalTemplates(e) \/ SaveSource(e) \/ SaveTemplate(e) \/ Cancel(e)
             \/ \E d \in Dirs : OpenTemplateEditor(e, d)
             \/ \E op \in {"delete", "move", "upload"} : TemplateOperation(e, op)
  BY <1>1 DEF LoadLocalTemplates, SaveSource, SaveTemplate, Cancel, OpenTemplateEditor,
              TemplateOperation
<1>2. CASE \E e \in Editors :
             EditOptionalRow(e) \/ \E list \in {"assoc", "service_fields"} : EditRow(e, list)
  BY <1>2 DEF EditOptionalRow, EditRow, Changed
<1>3. CASE \E s \in Slots : \/ ServeList(s) \/ GetTemplate(s) \/ BeginUpdate(s) \/ EndUpdate(s)
                            \/ DeleteTemplate(s) \/ MoveToStable(s) \/ Upload(s)
                            \/ OnTemplate(s) \/ OnList(s) \/ OnDone(s)
  BY <1>3 DEF ServeList, GetTemplate, BeginUpdate, EndUpdate, DeleteTemplate, MoveToStable, Upload,
              OnTemplate, OnList, OnDone
<1> QED
  BY <1>1, <1>2, <1>3 DEF Next, Kill

\* The handlers of products.go, which move, truncate and write files in steps
\* of their own, do every request as if at once, as long as no request meets a
\* file that another one is writing.
THEOREM FilesLookAtomic == Spec => ImplementsAtomicFiles
<1>1. Init => Atomic!FilesInit
  <2> SUFFICES ASSUME Init PROVE Atomic!FilesInit
    OBVIOUS
  <2>1. \A s \in Slots, d \in Dirs : ~Writes(s, d)
    BY DEF Init, Writes
  <2>2. \A d \in Dirs : Stored[d] = files[d]
    BY <2>1 DEF Stored, Writers, Writes
  <2>3. \A d \in Dirs : files[d].kind \in {"none", "template"}
    <3>1. NoFile.kind = "none" /\ Template(1, FALSE).kind = "template"
      BY DEF NoFile, Content, Template
    <3> QED
      BY <3>1 DEF Init
  <2>4. \A s \in Slots : AskedBy(requests[s]) = [op |-> "none"] /\ GotBy(requests[s]) = NoFile
    BY DEF Init, AskedBy, GotBy
  <2>5. Asked = [s \in Slots |-> [op |-> "none"]] /\ Got = [s \in Slots |-> NoFile]
    BY <2>4 DEF Asked, Got
  <2>6. overlapped = FALSE
    BY DEF Init
  <2> QED
    BY <2>2, <2>3, <2>5, <2>6 DEF Atomic!FilesInit, Atomic!Nothing, Dirs
<1>2. IInv /\ IInv' /\ [Next]_vars => [Atomic!FilesNext]_(Atomic!filesVars)
  <2> SUFFICES ASSUME IInv, IInv', [Next]_vars
               PROVE  [Atomic!FilesNext]_(Atomic!filesVars)
    OBVIOUS
  <2>1. CASE overlapped'
    BY <2>1 DEF IInv, Atomic!FilesNext, Atomic!Tear
  <2>2. CASE ~overlapped' /\ UNCHANGED vars
    BY <2>2 DEF vars, Atomic!filesVars, Stored, Writers, WriterOf, Asked, Got
  <2>3. CASE ~overlapped' /\ Next
    <3>1. ~overlapped
      BY <2>3, StaysOverlapped DEF IInv
    <3>2. Promised
      BY <2>3, <3>1 DEF Promised
    <3> QED
      BY <2>3, <3>2, BrowserRefines, HandlerRefines, KillRefines DEF Next
  <2> QED
    BY <2>1, <2>2, <2>3
<1> QED
  BY <1>1, <1>2, InitIInv, NextIInv, PTL DEF Spec, ImplementsAtomicFiles, Atomic!FilesSpec
=============================================================================
