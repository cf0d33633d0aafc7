---------------------------- MODULE TemplateFiles ----------------------------
(* What the store of product templates promises to the editors (products.go   *)
(* behind the handlers of main.go, seen from outside): each request is done   *)
(* in one step, some time between being sent and being answered. A save       *)
(* replaces the template, a deletion removes it, a move replaces the stable   *)
(* one by the cached one, and a request for a template gets what the last of  *)
(* them left. A browser may give up a request, and the server may lose those  *)
(* it has not begun. The promise ends when a request meets a file that is     *)
(* being written: the store keeps no order between them.                      *)
CONSTANTS Slots,    \* the requests that can be under way
          Blank     \* no template

VARIABLES stored,   \* directory -> the template in it, or Blank
          asked,    \* slot -> the request that is still to be done, or Nothing
          got,      \* slot -> the template that was read for a browser, or Blank
          torn      \* whether requests have met at a file

filesVars == <<stored, asked, got, torn>>

Nothing == [op |-> "none"]

FilesInit == /\ stored["stable"].kind \in {"none", "template"}
             /\ stored["cache"].kind \in {"none", "template"}
             /\ asked = [s \in Slots |-> Nothing] /\ got = [s \in Slots |-> Blank]
             /\ torn = FALSE

\* Only whole templates are saved.
Ask(s) == /\ asked[s] = Nothing /\ got[s] = Blank
          /\ asked' = [asked EXCEPT ![s] = asked'[s]]
          /\ asked'[s].op \in {"get", "save", "delete", "move"}
          /\ asked'[s].op = "save" => asked'[s].body.kind = "template"
          /\ UNCHANGED <<stored, got>>

\* The request s asks for op, is done and leaves its slot.
Does(s, op) == asked[s].op = op /\ asked' = [asked EXCEPT ![s] = Nothing]

Get(s) == /\ Does(s, "get") /\ got' = [got EXCEPT ![s] = stored[asked[s].dir]]
          /\ UNCHANGED stored

Save(s) == /\ Does(s, "save") /\ stored' = [stored EXCEPT ![asked[s].dir] = asked[s].body]
           /\ UNCHANGED got

Delete(s) == /\ Does(s, "delete") /\ stored' = [stored EXCEPT ![asked[s].dir] = Blank]
             /\ UNCHANGED got

\* A template that is not there is not moved.
Move(s) == /\ Does(s, "move") /\ UNCHANGED got
           /\ IF stored["cache"] = Blank
              THEN UNCHANGED stored
              ELSE stored' = [stored EXCEPT !["stable"] = stored["cache"], !["cache"] = Blank]

\* Answers arrive or are given up, requests are lost.
Forget == /\ \A s \in Slots : asked'[s] \in {asked[s], Nothing} /\ got'[s] \in {got[s], Blank}
          /\ asked' = [s \in Slots |-> asked'[s]] /\ got' = [s \in Slots |-> got'[s]]
          /\ UNCHANGED stored

\* From now on nothing is promised.
Tear == torn' = TRUE

FilesNext == \/ Tear
             \/ /\ UNCHANGED torn
                /\ \/ \E s \in Slots : Ask(s) \/ Get(s) \/ Save(s) \/ Delete(s) \/ Move(s)
                   \/ Forget

FilesSpec == FilesInit /\ [][FilesNext]_filesVars
=============================================================================
