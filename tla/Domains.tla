------------------------------ MODULE Domains ------------------------------
(***************************************************************************)
(* Custom domains and e-mail domains of an organization: the requests of   *)
(* DomainService and EmailDomainService as sequences of awaited database   *)
(* calls, and the two domain tabs of the settings page that send them.     *)
(*                                                                         *)
(* A row is named by the request that inserted it, or by its own domain    *)
(* name when it was registered before the behaviour starts.                *)
(***************************************************************************)
EXTENDS Integers, FiniteSets

CONSTANTS
  CustomNames, EmailNames,   \* domain names of each kind
  Registered,   \* names that have a row at the start
  MaxRequests,  \* a bound on the API requests
  MaxColleague, \* how many of them a colleague of the organization sends
  Faults,       \* subset of {"cut"}: a request dies between two of its calls
  None          \* no row, no name, no request

Requests == 1 .. MaxRequests    \* numbered in the order they start
Names == CustomNames \cup EmailNames
Rows == Requests \cup Registered
Kinds == {"custom", "email"}

ASSUME RequestsAssumption == MaxRequests \in Nat /\ MaxColleague \in Nat
ASSUME NamesAssumption == /\ CustomNames \cap EmailNames = {} /\ Registered \subseteq Names
                          /\ Names \cap Requests = {} /\ None \notin Names \cup Requests
                          /\ None \notin {"tab", "answered", "colleague"}
ASSUME FaultsAssumption == Faults \subseteq {"cut"}

VARIABLES
  row,       \* custom_domains and email_domains: the status of each row
  pointer,   \* organizations.customDomain
  req,       \* control state of each request
  tab,       \* the settings page: the tab shown, its dialogs, its mutations
  list,      \* the rows of each kind the page has fetched
  fetch,     \* the query of each kind: at rest, invalidated, sent, or answered
  last,      \* the name last written to the pointer by a verification (history)
  crossed    \* <<verification, deletion>> whose writes overlapped (history)

apiVars == <<row, pointer, last, crossed>>
pageVars == <<tab, list, fetch>>
vars == <<apiVars, req, pageVars>>

Statuses == {"none", "PENDING", "VERIFYING", "ACTIVE", "gone"}
Live == {"PENDING", "VERIFYING", "ACTIVE"}
Ended == {"ok", "failed", "cut"}
PCs == Ended \cup {"idle", "find", "insert", "mark", "activate", "point", "delete", "readOrg", "clear"}
Ops == {"add", "verify", "delete"}

NameOf(w) == IF w \in Registered THEN w ELSE req[w].name
Kind(n) == IF n \in CustomNames THEN "custom" ELSE "email"
LiveRows(n) == {w \in Rows : row[w] \in Live /\ NameOf(w) = n}

(* getDomains and getEmailDomains: the organization's rows of one kind.    *)
Shown(k) == [w \in Rows |-> IF row[w] \in Live /\ Kind(NameOf(w)) = k THEN row[w] ELSE "none"]
Unloaded == [w \in Rows |-> "none"]

(* A settings page whose first tab has loaded its list.                     *)
FreshTab(k) == [view |-> k, awaits |-> [op \in Ops |-> None]]
Init ==
  /\ row = [w \in Rows |-> IF w \in Registered THEN "PENDING" ELSE "none"]
  /\ pointer = None
  /\ req = [r \in Requests |-> [pc |-> "idle", op |-> "add", name |-> None, on |-> None, by |-> None]]
  /\ tab = FreshTab("custom")
  /\ list = [k \in Kinds |-> IF k = "custom" THEN Shown(k) ELSE Unloaded]
  /\ fetch = [k \in Kinds |-> [at |-> IF k = "custom" THEN "idle" ELSE "stale",
                             rows |-> Unloaded, missed |-> FALSE]]
  /\ last = None
  /\ crossed = {}

At(r, pc) == req[r].pc = pc
Goto(r, pc) == req' = [req EXCEPT ![r].pc = pc]
Row(r) == req[r].on
IsCustom(r) == req[r].name \in CustomNames
IsEmail(r) == req[r].name \in EmailNames

-----------------------------------------------------------------------------
(* DomainService and EmailDomainService.                                   *)

Start(r, op, n, w, by) ==
  /\ At(r, "idle") /\ \A q \in 1 .. r - 1 : ~At(q, "idle")
  /\ req' = [req EXCEPT ![r] = [pc |-> "find", op |-> op, name |-> n, on |-> w, by |-> by]]

(* A colleague works in a browser of their own, on the rows there are.     *)
CallApi(r) ==
  /\ Cardinality({q \in Requests : req[q].by = "colleague"}) < MaxColleague
  /\ \/ \E n \in Names : Start(r, "add", n, None, "colleague")
     \/ \E w \in Rows, op \in {"verify", "delete"} :
          row[w] \in Live /\ Start(r, op, NameOf(w), w, "colleague")
  /\ UNCHANGED <<apiVars, pageVars>>

(* Each service has its own handlers; what they share is stated once.      *)
LookUpName(r) ==
  /\ At(r, "find") /\ req[r].op = "add"
  /\ Goto(r, IF LiveRows(req[r].name) # {} THEN "failed" ELSE "insert")
  /\ UNCHANGED <<apiVars, pageVars>>

FindForAdd(r) == IsCustom(r) /\ LookUpName(r)
FindForAddEmail(r) == IsEmail(r) /\ LookUpName(r)

(* The unique index makes create throw when another add was faster.        *)
InsertRow(r) ==
  /\ At(r, "insert")
  /\ IF LiveRows(req[r].name) # {}
     THEN Goto(r, "failed") /\ UNCHANGED row
     ELSE row' = [row EXCEPT ![r] = "PENDING"] /\ Goto(r, "ok")
  /\ UNCHANGED <<pointer, last, crossed, pageVars>>

InsertCustom(r) == IsCustom(r) /\ InsertRow(r)
InsertEmail(r) == IsEmail(r) /\ InsertRow(r)

FindRow(r, op, next) ==
  /\ At(r, "find") /\ req[r].op = op
  /\ Goto(r, IF row[Row(r)] \in Live THEN next ELSE "failed")
  /\ UNCHANGED <<apiVars, pageVars>>

VerifyFrom(r, next) == FindRow(r, "verify", IF row[Row(r)] = "ACTIVE" THEN "ok" ELSE next)
FindForVerify(r) == IsCustom(r) /\ VerifyFrom(r, "mark")
FindForVerifyEmail(r) == IsEmail(r) /\ VerifyFrom(r, "activate")

(* An update by id throws when the row is gone; it does not look at the    *)
(* status, so it takes an active domain back to VERIFYING.                 *)
UpdateRow(r, status, next) ==
  /\ IF row[Row(r)] \in Live
     THEN row' = [row EXCEPT ![Row(r)] = status] /\ Goto(r, next)
     ELSE Goto(r, "failed") /\ UNCHANGED row
  /\ UNCHANGED <<pointer, last, crossed, pageVars>>

(* Mutant: the verification is handed to a background job that never runs. *)
MarkAndLeave(r) == At(r, "mark") /\ UpdateRow(r, "VERIFYING", "ok")

(* Mutant: a verification begins by counting the domain as FAILED. *)
MarkFailed(r) == At(r, "mark") /\ UpdateRow(r, "FAILED", "activate")

MarkVerifying(r) == At(r, "mark") /\ UpdateRow(r, "VERIFYING", "activate")

Activate(r) == IsCustom(r) /\ At(r, "activate") /\ UpdateRow(r, "ACTIVE", "point")
MarkEmailVerified(r) == IsEmail(r) /\ At(r, "activate") /\ UpdateRow(r, "ACTIVE", "ok")

SetPointer(r) ==
  /\ At(r, "point")
  /\ pointer' = req[r].name /\ last' = req[r].name
  /\ crossed' = crossed \cup {<<r, d>> : d \in {q \in Requests : req[q].pc \in {"readOrg", "clear"}}}
  /\ Goto(r, "ok")
  /\ UNCHANGED <<row, pageVars>>

FindForDelete(r) == IsCustom(r) /\ FindRow(r, "delete", "delete")
FindForDeleteEmail(r) == IsEmail(r) /\ FindRow(r, "delete", "delete")

DeleteRow(r, next) ==
  /\ At(r, "delete")
  /\ IF row[Row(r)] \in Live
     THEN /\ row' = [row EXCEPT ![Row(r)] = "gone"]
          /\ crossed' = crossed \cup
               {<<v, r>> : v \in {q \in Requests : At(q, "point") /\ Row(q) = Row(r)}}
          /\ Goto(r, next)
     ELSE Goto(r, "failed") /\ UNCHANGED <<row, crossed>>
  /\ UNCHANGED <<pointer, last, pageVars>>

DeleteCustom(r) == IsCustom(r) /\ DeleteRow(r, "readOrg")
DeleteEmail(r) == IsEmail(r) /\ DeleteRow(r, "ok")

(* Mutant: the pointer is cleared whatever domain it names. *)
ClearAlways(r) ==
  /\ At(r, "readOrg")
  /\ Goto(r, "clear")
  /\ UNCHANGED <<apiVars, pageVars>>

(* The organization is read, compared, and written in a later call.        *)
ReadOrg(r) ==
  /\ At(r, "readOrg")
  /\ Goto(r, IF pointer = req[r].name THEN "clear" ELSE "ok")
  /\ UNCHANGED <<apiVars, pageVars>>

ClearPointer(r) ==
  /\ At(r, "clear")
  /\ pointer' = None
  /\ Goto(r, "ok")
  /\ UNCHANGED <<row, last, crossed, pageVars>>

RequestStep(r) ==
  \/ FindForAdd(r) \/ InsertCustom(r)
  \/ FindForVerify(r) \/ MarkVerifying(r) \/ Activate(r) \/ SetPointer(r)
  \/ FindForDelete(r) \/ DeleteCustom(r) \/ ReadOrg(r) \/ ClearPointer(r)
  \/ FindForAddEmail(r) \/ InsertEmail(r) \/ FindForVerifyEmail(r) \/ MarkEmailVerified(r)
  \/ FindForDeleteEmail(r) \/ DeleteEmail(r)

CutRequest(r) ==
  /\ "cut" \in Faults /\ req[r].pc \notin Ended \cup {"idle"}
  /\ \A q \in Requests : ~At(q, "cut")      \* one fault per behaviour
  /\ Goto(r, "cut")
  /\ UNCHANGED <<apiVars, pageVars>>

-----------------------------------------------------------------------------
(* CustomDomainsTab and EmailDomainsTab.  A dialog may be cancelled while  *)
(* its mutation runs, so the dialogs hold up no other button.              *)

Loading == fetch[tab.view].at # "idle" /\ list[tab.view] = Unloaded

Send(r, op, n, w) ==
  /\ Start(r, op, n, w, "tab")
  /\ tab' = [tab EXCEPT !.awaits[op] = r]
  /\ UNCHANGED <<apiVars, list, fetch>>

(* The add dialog: its button waits for the running mutation, the Enter    *)
(* key in its field does not.                                              *)
SubmitName(r, n) == ~Loading /\ Send(r, "add", n, None)
SubmitAdd(r) == tab.view = "custom" /\ \E n \in CustomNames : SubmitName(r, n)
SubmitAddEmail(r) == tab.view = "email" /\ \E n \in EmailNames : SubmitName(r, n)

(* Verify is offered for the rows that are shown as not verified yet, one  *)
(* at a time.                                                              *)
VerifyShown(r, statuses) ==
  /\ tab.awaits["verify"] = None
  /\ \E w \in Rows : list[tab.view][w] \in statuses /\ Send(r, "verify", NameOf(w), w)

ClickVerify(r) == tab.view = "custom" /\ VerifyShown(r, {"PENDING", "VERIFYING"})
ClickVerifyEmail(r) == tab.view = "email" /\ VerifyShown(r, {"PENDING"})

(* Delete opens a dialog about a row as it was listed then.                *)
DeleteShown(r) ==
  /\ tab.awaits["delete"] = None
  /\ \E w \in Rows : list[tab.view][w] # "none" /\ Send(r, "delete", NameOf(w), w)

ConfirmDelete(r) == tab.view = "custom" /\ DeleteShown(r)
ConfirmDeleteEmail(r) == tab.view = "email" /\ DeleteShown(r)

(* Mutant: a running fetch is not started again. *)
InvalidateAtRest(k) ==
  IF fetch[k].at # "idle" THEN UNCHANGED fetch
  ELSE fetch' = [fetch EXCEPT ![k].at = IF k = tab.view THEN "sent" ELSE "stale"]

(* invalidateQueries fetches what is on screen again, dropping a fetch     *)
(* that runs; of what is not on screen it lets a running fetch end, which  *)
(* then counts as fresh, and marks the rest as stale.                      *)
Invalidate(k) ==
  fetch' = [fetch EXCEPT ![k] =
              CASE k = tab.view -> [at |-> "sent", rows |-> Unloaded, missed |-> FALSE]
                [] k # tab.view /\ @.at \in {"sent", "answered"} -> [@ EXCEPT !.missed = TRUE]
                [] OTHER -> [@ EXCEPT !.at = "stale"]]

(* onSuccess invalidates the list; onError only shows a toast.             *)
Answer(r, k) ==
  /\ req[r].by = "tab" /\ req[r].pc \in Ended
  /\ req' = [req EXCEPT ![r].by = "answered"]
  /\ tab' = [tab EXCEPT !.awaits = [op \in Ops |-> IF @[op] = r THEN None ELSE @[op]]]
  /\ IF At(r, "ok") THEN Invalidate(k) ELSE UNCHANGED fetch
  /\ UNCHANGED <<apiVars, list>>

AnswerCustom(r) == IsCustom(r) /\ Answer(r, "custom")
AnswerEmail(r) == IsEmail(r) /\ Answer(r, "email")

(* A fetch reads the rows, and its answer travels to the page.             *)
ReadList(k) ==
  /\ fetch[k].at = "sent"
  /\ fetch' = [fetch EXCEPT ![k].at = "answered", ![k].rows = Shown(k)]
  /\ UNCHANGED <<apiVars, req, tab, list>>

ShowList(k) ==
  /\ fetch[k].at = "answered"
  /\ list' = [list EXCEPT ![k] = fetch[k].rows]
  /\ fetch' = [fetch EXCEPT ![k].at = "idle", ![k].rows = Unloaded]
  /\ UNCHANGED <<apiVars, req, tab>>

(* The other tab mounts anew; what it shows is fetched if it is stale.     *)
SwitchTab ==
  \E k \in Kinds \ {tab.view} :
    /\ tab' = FreshTab(k)
    /\ fetch' = [fetch EXCEPT ![k].at = IF @ = "stale" THEN "sent" ELSE @,
                              ![k].missed = IF fetch[k].at = "stale" THEN FALSE ELSE @]
    /\ UNCHANGED <<apiVars, req, list>>

-----------------------------------------------------------------------------
Next ==
  \/ \E r \in Requests : \/ CallApi(r) \/ RequestStep(r) \/ CutRequest(r)
                         \/ SubmitAdd(r) \/ ClickVerify(r) \/ ConfirmDelete(r) \/ AnswerCustom(r)
                         \/ SubmitAddEmail(r) \/ ClickVerifyEmail(r) \/ ConfirmDeleteEmail(r) \/ AnswerEmail(r)
  \/ SwitchTab
  \/ \E k \in Kinds : ReadList(k) \/ ShowList(k)

Spec == Init /\ [][Next]_vars

-----------------------------------------------------------------------------
(* Type invariant: of every table, request and tab of the page.            *)
TypeOK ==
  /\ row \in [Rows -> Statuses]
  /\ pointer \in CustomNames \cup {None} /\ last \in CustomNames \cup {None}
  /\ req \in [Requests -> [pc : PCs, op : Ops, name : Names \cup {None}, on : Rows \cup {None},
                           by : {None, "tab", "answered", "colleague"}]]
  /\ tab \in [view : Kinds, awaits : [Ops -> Requests \cup {None}]]
  /\ list \in [Kinds -> [Rows -> Statuses \ {"gone"}]]
  /\ fetch \in [Kinds -> [at : {"idle", "stale", "sent", "answered"},
                          rows : [Rows -> Statuses \ {"gone"}], missed : BOOLEAN]]
  /\ crossed \subseteq Requests \X Requests

Removing(r) == req[r].op = "delete" /\ req[r].pc \in {"readOrg", "clear", "cut"}
CrossedOn(n) == \E p \in crossed : req[p[1]].name = n

(* The organization never points to a domain that has no row, except while *)
(* its deletion is at work or was cut, and when the deletion fell between  *)
(* the last two writes of its verification (verifyDomain, deleteDomain).   *)
PointerHasDomain ==
  pointer # None /\ LiveRows(pointer) = {} =>
    CrossedOn(pointer) \/ \E r \in Requests : Removing(r) /\ req[r].name = pointer

(* The domain verified last stays the organization's domain as long as it  *)
(* is active: the deletion of another domain, or of an earlier row of this *)
(* one, clears the pointer only if the verification fell between its read  *)
(* of the organization and its write (deleteDomain).                       *)
PointerKept ==
  last # None /\ pointer # last /\ (\E w \in LiveRows(last) : row[w] = "ACTIVE") =>
    CrossedOn(last) \/ \E r \in Requests : req[r].op = "verify" /\ req[r].pc \in {"point", "cut"}

(* The organization points to the domain that was verified last, or none.  *)
PointerSound == PointerHasDomain /\ PointerKept

(* A domain whose verification was answered with success is active until   *)
(* it is deleted, except while another verification that found it pending  *)
(* takes it through VERIFYING again, or was cut there (verifyDomain).      *)
VerifiedIsActive ==
  \A r \in Requests : req[r].op = "verify" /\ At(r, "ok") /\ row[Row(r)] \in Live =>
    \/ row[Row(r)] = "ACTIVE"
    \/ \E q \in Requests : Row(q) = Row(r) /\ req[q].op = "verify" /\ req[q].pc \in {"activate", "cut"}

Quiet == \A r \in Requests : req[r].by = "tab" => req[r].pc = "idle"
Alone == \A r \in Requests : req[r].by # "colleague" /\ ~At(r, "cut")

(* When nobody else changes the domains and no request is cut, a tab at    *)
(* rest shows the rows as they are, whatever the order of its answers: the *)
(* only exception is a list that was being fetched, out of sight, when a   *)
(* mutation of it succeeded (invalidateQueries in both tabs).              *)
ListFresh ==
  \A k \in Kinds : Quiet /\ Alone /\ fetch[k].at = "idle" /\ ~fetch[k].missed => list[k] = Shown(k)
=============================================================================
