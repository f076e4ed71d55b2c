---------------------------- MODULE DomainsProofs ----------------------------
(***************************************************************************)
(* What the two kinds of domains guarantee for any number of requests and  *)
(* names, and any cut: the types, what the organization points to, what a  *)
(* verification that was answered promises, and what a tab at rest shows.  *)
(***************************************************************************)
EXTENDS Domains, TLAPS

RequestStates ==
  [pc : PCs, op : Ops, name : Names \cup {None}, on : Rows \cup {None},
   by : {None, "tab", "answered", "colleague"}]
Listings == [Rows -> Statuses \ {"gone"}]
Fetches == [at : {"idle", "stale", "sent", "answered"}, rows : Listings, missed : BOOLEAN]
Tabs == [view : Kinds, awaits : [Ops -> Requests \cup {None}]]

(* A request that has started has a name; one about a row names the row's  *)
(* domain; the operation tells where in the code it can be, and only       *)
(* custom domains are marked before they are activated, or pointed to.     *)
RequestShape ==
  \A r \in Requests :
    /\ req[r].pc # "idle" => req[r].name \in Names
    /\ req[r].pc = "idle" <=> req[r].by = None
    /\ req[r].by = "answered" => req[r].pc \in Ended
    /\ req[r].pc # "idle" /\ req[r].op # "add" =>
         req[r].on \in Rows /\ row[req[r].on] # "none" /\ NameOf(req[r].on) = req[r].name
    /\ req[r].pc = "insert" => req[r].op = "add"
    /\ req[r].pc \in {"mark", "activate", "point"} => req[r].op = "verify"
    /\ req[r].pc \in {"delete", "readOrg", "clear"} => req[r].op = "delete"
    /\ req[r].pc \in {"mark", "point", "readOrg", "clear"} => req[r].name \in CustomNames

(* A row is inserted by the last call of its request; what is listed, and  *)
(* what overlapped, is about rows and requests that exist.                 *)
RowsInserted ==
  \A r \in Requests : row[r] # "none" => req[r].pc = "ok" /\ req[r].op = "add"
ListsExist ==
  \A k \in Kinds, w \in Rows : list[k][w] # "none" \/ fetch[k].rows[w] # "none" => row[w] # "none"
CrossedStarted == \A p \in crossed : req[p[1]].pc # "idle" /\ req[p[2]].pc # "idle"

TypeInv == TypeOK /\ RequestShape /\ RowsInserted /\ ListsExist /\ CrossedStarted

-----------------------------------------------------------------------------
(* The organization points to the domain verified last, or to none; no two *)
(* rows that are live have the same name; a verification about to point    *)
(* has an active row, or overlaps the deletion of that row.                *)
PointsToLast == pointer \in {None, last}
OneRowPerName ==
  \A v, w \in Rows : row[v] \in Live /\ row[w] \in Live /\ NameOf(v) = NameOf(w) => v = w
PointHasRow ==
  \A v \in Requests : At(v, "point") =>
    row[Row(v)] \in Live \/ \E d \in Requests : <<v, d>> \in crossed

(* The name n has an active row, which no overlap and no verification that *)
(* is about to point to it, or was cut, accounts for.                      *)
ActiveRow(n) == \E w \in Rows : row[w] = "ACTIVE" /\ NameOf(w) = n
Pointing(n) ==
  \E v \in Requests : req[v].op = "verify" /\ req[v].pc \in {"point", "cut"} /\ req[v].name = n
Unaccounted(n) == ActiveRow(n) /\ ~CrossedOn(n) /\ ~Pointing(n)

(* What a deletion is about to clear is its own domain's pointer, and that *)
(* domain has no row any more but one that is accounted for.               *)
ClearsOwn ==
  \A d \in Requests :
    /\ req[d].pc \in {"readOrg", "clear"} => ~Unaccounted(req[d].name)
    /\ At(d, "clear") => last = req[d].name \/ CrossedOn(last)
KeptInv == last # None /\ pointer # last => ~Unaccounted(last)

PointerInv ==
  TypeInv /\ PointsToLast /\ OneRowPerName /\ PointHasRow /\ ClearsOwn /\ KeptInv /\ PointerHasDomain

-----------------------------------------------------------------------------
(* What VerifiedIsActive says holds from the write of the status on.       *)
Verifying(w) ==
  \E q \in Requests : Row(q) = w /\ req[q].op = "verify" /\ req[q].pc \in {"activate", "cut"}
ActiveInv ==
  \A r \in Requests :
    req[r].op = "verify" /\ req[r].pc \in {"point", "ok"} /\ row[Row(r)] \in Live =>
      row[Row(r)] = "ACTIVE" \/ Verifying(Row(r))

-----------------------------------------------------------------------------
(* A request of the tab that has changed a row, and will be answered with  *)
(* success if it is not cut.                                               *)
Changes(r, w) ==
  /\ req[r].by = "tab"
  /\ \/ req[r].op = "add" /\ req[r].pc = "ok" /\ w = r
     \/ req[r].op = "verify" /\ req[r].pc \in {"point", "ok"} /\ w = Row(r)
     \/ req[r].op = "verify" /\ req[r].pc = "activate" /\ w = Row(r) /\ row[w] \in Live
     \/ req[r].op = "delete" /\ req[r].pc \in {"readOrg", "clear", "ok"} /\ w = Row(r)

(* A listing of kind k is right but for the rows being changed.            *)
RightBut(listing, k) ==
  \A w \in Rows :
    listing[w] = Shown(k)[w] \/ (Kind(NameOf(w)) = k /\ \E r \in Requests : Changes(r, w))
ListInv ==
  Alone => \A k \in Kinds : ~fetch[k].missed =>
             /\ fetch[k].at = "idle" => RightBut(list[k], k)
             /\ fetch[k].at = "answered" => RightBut(fetch[k].rows, k)

-----------------------------------------------------------------------------
LEMMA NamesApart ==
  /\ \A r \in Requests : r \notin Registered /\ r \in Rows
  /\ \A w \in Rows : w \in Registered \/ w \in Requests
  /\ Registered \subseteq Names /\ None \notin Requests
  /\ CustomNames \cap EmailNames = {} /\ None \notin {"tab", "answered", "colleague"}
BY NamesAssumption DEF Rows, Names

LEMMA Initially == Init => TypeInv
<1> SUFFICES ASSUME Init PROVE TypeInv
  OBVIOUS
<1>1. row \in [Rows -> Statuses] /\ req \in [Requests -> RequestStates] /\ tab \in Tabs
  BY DEF Init, Statuses, RequestStates, PCs, Ops, Ended, FreshTab, Tabs, Kinds
<1>2. \A k \in Kinds : Shown(k) \in Listings /\ \A w \in Rows : Shown(k)[w] # "none" => row[w] # "none"
  BY <1>1 DEF Shown, Listings, Statuses, Live
<1>3. Unloaded \in Listings /\ \A w \in Rows : Unloaded[w] = "none"
  BY DEF Unloaded, Listings, Statuses
<1>4. list \in [Kinds -> Listings] /\ ListsExist
  BY <1>2, <1>3 DEF Init, ListsExist
<1>5. fetch \in [Kinds -> Fetches]
  BY <1>3 DEF Init, Fetches
<1>6. \A r \in Requests : req[r].pc = "idle" /\ req[r].by = None /\ row[r] = "none"
  BY NamesApart DEF Init
<1>7. RequestShape /\ RowsInserted /\ CrossedStarted
  BY <1>6, NamesApart DEF Init, RequestShape, RowsInserted, CrossedStarted, Ended
<1> QED
  BY <1>1, <1>4, <1>5, <1>7 DEF Init, TypeInv, TypeOK, RequestStates, Tabs, Listings, Fetches

-----------------------------------------------------------------------------
(* How a request moves.                                                    *)

LEMMA Moved ==
  ASSUME TypeOK, NEW r \in Requests, NEW pc \in PCs, Goto(r, pc)
  PROVE  /\ req' \in [Requests -> RequestStates]
         /\ req'[r].pc = pc /\ req'[r].op = req[r].op /\ req'[r].name = req[r].name
         /\ req'[r].on = req[r].on /\ req'[r].by = req[r].by
         /\ \A q \in Requests : q # r => req'[q] = req[q]
         /\ \A w \in Rows : NameOf(w)' = NameOf(w)
<1>1. /\ req' \in [Requests -> RequestStates]
      /\ req'[r].pc = pc /\ req'[r].op = req[r].op /\ req'[r].name = req[r].name
      /\ req'[r].on = req[r].on /\ req'[r].by = req[r].by
      /\ \A q \in Requests : q # r => req'[q] = req[q]
  BY ZenonT(40) DEF TypeOK, Goto, RequestStates
<1>2. \A w \in Rows : NameOf(w)' = NameOf(w)
  BY <1>1, NamesApart DEF NameOf
<1> QED BY <1>1, <1>2

LEMMA Started ==
  ASSUME TypeOK, NEW r \in Requests, NEW op \in Ops, NEW n \in Names, NEW w \in Rows \cup {None},
         NEW by \in {"tab", "colleague"}, Start(r, op, n, w, by)
  PROVE  /\ req' \in [Requests -> RequestStates]
         /\ req[r].pc = "idle" /\ req'[r].pc = "find" /\ req'[r].op = op
         /\ req'[r].name = n /\ req'[r].on = w /\ req'[r].by = by
         /\ \A q \in Requests : q # r => req'[q] = req[q]
BY DEF TypeOK, Start, RequestStates, At, PCs

(* Each step of a request leaves its operation alone, and goes to a place  *)
(* of the code.                                                            *)
LEMMA StepMoves ==
  ASSUME TypeInv, NEW r \in Requests, RequestStep(r) \/ CutRequest(r)
  PROVE  /\ \E pc \in PCs \ {"idle"} : Goto(r, pc)
         /\ req[r].pc \notin Ended \cup {"idle"}
         /\ UNCHANGED pageVars
<1>1. CASE FindForAdd(r) \/ FindForAddEmail(r) \/ InsertCustom(r) \/ InsertEmail(r)
  BY <1>1 DEF FindForAdd, FindForAddEmail, LookUpName, InsertCustom, InsertEmail, InsertRow, PCs, At, Ended
<1>2. CASE FindForVerify(r) \/ FindForVerifyEmail(r) \/ FindForDelete(r) \/ FindForDeleteEmail(r)
  BY <1>2 DEF FindForVerify, FindForVerifyEmail, VerifyFrom, FindForDelete, FindForDeleteEmail, FindRow,
     PCs, At, Ended
<1>3. CASE MarkVerifying(r) \/ Activate(r) \/ MarkEmailVerified(r)
  BY <1>3 DEF MarkVerifying, Activate, MarkEmailVerified, UpdateRow, PCs, At, Ended
<1>4. CASE SetPointer(r) \/ ReadOrg(r) \/ ClearPointer(r) \/ DeleteCustom(r) \/ DeleteEmail(r)
  BY <1>4 DEF SetPointer, ReadOrg, ClearPointer, DeleteCustom, DeleteEmail, DeleteRow, PCs, At, Ended
<1>5. CASE CutRequest(r)
  BY <1>5 DEF CutRequest, PCs, Ended
<1> QED BY <1>1, <1>2, <1>3, <1>4, <1>5 DEF RequestStep

(* What each step of a request does to the rows.                           *)
LEMMA RowWritten ==
  ASSUME TypeInv, NEW r \in Requests, RequestStep(r) \/ CutRequest(r)
  PROVE  \/ UNCHANGED row
         \/ /\ row' = [row EXCEPT ![r] = "PENDING"] /\ Goto(r, "ok")
            /\ At(r, "insert") /\ LiveRows(req[r].name) = {}
         \/ /\ row[Row(r)] \in Live /\ At(r, "mark") /\ Goto(r, "activate")
            /\ row' = [row EXCEPT ![Row(r)] = "VERIFYING"]
         \/ /\ row[Row(r)] \in Live /\ At(r, "activate") /\ (Goto(r, "point") \/ Goto(r, "ok"))
            /\ row' = [row EXCEPT ![Row(r)] = "ACTIVE"]
         \/ /\ row[Row(r)] \in Live /\ At(r, "delete") /\ (Goto(r, "readOrg") \/ Goto(r, "ok"))
            /\ row' = [row EXCEPT ![Row(r)] = "gone"]
<1>1. CASE InsertCustom(r) \/ InsertEmail(r)
  BY <1>1 DEF InsertCustom, InsertEmail, InsertRow
<1>2. CASE MarkVerifying(r) \/ Activate(r) \/ MarkEmailVerified(r)
  BY <1>2 DEF MarkVerifying, Activate, MarkEmailVerified, UpdateRow
<1>3. CASE DeleteCustom(r) \/ DeleteEmail(r)
  BY <1>3 DEF DeleteCustom, DeleteEmail, DeleteRow
<1>4. CASE UNCHANGED row
  BY <1>4
<1> QED
  BY <1>1, <1>2, <1>3, <1>4 DEF RequestStep, CutRequest, FindForAdd, FindForAddEmail, LookUpName,
     FindForVerify, FindForVerifyEmail, VerifyFrom, FindForDelete, FindForDeleteEmail, FindRow,
     SetPointer, ReadOrg, ClearPointer, apiVars

(* A row that exists is never forgotten, and a row appears only when the   *)
(* request that inserts it succeeds.                                       *)
LEMMA RowsStay ==
  ASSUME TypeInv, NEW r \in Requests, RequestStep(r) \/ CutRequest(r)
  PROVE  /\ row' \in [Rows -> Statuses]
         /\ \A w \in Rows : row[w] # "none" => row'[w] # "none"
         /\ \A w \in Rows : row'[w] # "none" => row[w] # "none" \/ (w = r /\ At(r, "insert") /\ At(r, "ok")')
<1>1. row \in [Rows -> Statuses] /\ r \in Rows
  BY NamesApart DEF TypeInv, TypeOK
<1>2. {"PENDING", "VERIFYING", "ACTIVE", "gone"} \subseteq Statuses /\ "none" \notin Live
  BY DEF Statuses, Live
<1>3. Goto(r, "ok") => At(r, "ok")'
  BY DEF Goto, At, TypeInv, TypeOK
<1> QED BY <1>1, <1>2, <1>3, RowWritten

(* Where a request stands decides what it may do next.                     *)
LEMMA StepShape ==
  ASSUME TypeInv, NEW r \in Requests, RequestStep(r) \/ CutRequest(r)
  PROVE  RequestShape'
<1>1. PICK pc \in PCs \ {"idle"} : Goto(r, pc)
  BY StepMoves
<1>2. /\ req'[r].pc = pc /\ req'[r].op = req[r].op /\ req'[r].name = req[r].name
      /\ req'[r].on = req[r].on /\ req'[r].by = req[r].by
      /\ \A q \in Requests : q # r => req'[q] = req[q]
      /\ \A w \in Rows : NameOf(w)' = NameOf(w)
  BY <1>1, Moved DEF TypeInv
<1>3. \A to \in PCs : Goto(r, to) => pc = to
  BY <1>2, Moved DEF TypeInv
<1>4. {"insert", "mark", "activate", "point", "delete", "readOrg", "clear", "ok", "failed", "cut"} \subseteq PCs
  BY DEF PCs, Ended
<1>5. \/ pc \in Ended
      \/ pc = "insert" /\ req[r].op = "add"
      \/ pc \in {"mark", "activate", "point"} /\ req[r].op = "verify" /\ (pc = "activate" \/ IsCustom(r))
      \/ pc \in {"delete", "readOrg", "clear"} /\ req[r].op = "delete" /\ (pc = "delete" \/ IsCustom(r))
  <2>1. CASE FindForAdd(r) \/ FindForAddEmail(r) \/ InsertCustom(r) \/ InsertEmail(r)
    BY <1>3, <1>4, <2>1 DEF FindForAdd, FindForAddEmail, LookUpName, InsertCustom, InsertEmail, InsertRow,
       Ended
  <2>2. CASE FindForVerify(r) \/ FindForVerifyEmail(r)
    BY <1>3, <1>4, <2>2 DEF FindForVerify, FindForVerifyEmail, VerifyFrom, FindRow, Ended
  <2>3. CASE FindForDelete(r) \/ FindForDeleteEmail(r)
    BY <1>3, <1>4, <2>3 DEF FindForDelete, FindForDeleteEmail, FindRow, Ended
  <2>4. CASE MarkVerifying(r) \/ Activate(r) \/ MarkEmailVerified(r)
    BY <1>3, <1>4, <2>4 DEF MarkVerifying, Activate, MarkEmailVerified, UpdateRow, Ended, TypeInv,
       RequestShape, At
  <2>5. CASE SetPointer(r) \/ ClearPointer(r) \/ CutRequest(r)
    BY <1>3, <1>4, <2>5 DEF SetPointer, ClearPointer, CutRequest, Ended
  <2>6. CASE ReadOrg(r)
    BY <1>3, <1>4, <2>6 DEF ReadOrg, Ended, TypeInv, RequestShape, At, IsCustom
  <2>7. CASE DeleteCustom(r) \/ DeleteEmail(r)
    BY <1>3, <1>4, <2>7 DEF DeleteCustom, DeleteEmail, DeleteRow, Ended, TypeInv, RequestShape, At
  <2> QED BY <2>1, <2>2, <2>3, <2>4, <2>5, <2>6, <2>7 DEF RequestStep
<1> QED BY <1>1, <1>2, <1>3, <1>4, <1>5, StepMoves, RowsStay DEF RequestShape, TypeInv, Ended,
   IsCustom

LEMMA StepTyped ==
  ASSUME TypeInv, NEW r \in Requests, RequestStep(r) \/ CutRequest(r)
  PROVE  TypeInv'
<1>1. PICK pc \in PCs \ {"idle"} : Goto(r, pc)
  BY StepMoves
<1>2. req' \in [Requests -> RequestStates] /\ UNCHANGED pageVars
  BY <1>1, StepMoves, Moved DEF TypeInv
<1>3. pointer' \in CustomNames \cup {None} /\ last' \in CustomNames \cup {None}
  BY DEF RequestStep, CutRequest, FindForAdd, FindForAddEmail, LookUpName, InsertCustom, InsertEmail,
     InsertRow, FindForVerify, FindForVerifyEmail, VerifyFrom, FindForDelete, FindForDeleteEmail, FindRow,
     MarkVerifying, Activate, MarkEmailVerified, UpdateRow, SetPointer, ReadOrg, ClearPointer,
     DeleteCustom, DeleteEmail, DeleteRow, TypeInv, TypeOK, RequestShape, At, apiVars
<1>4. /\ crossed' \subseteq Requests \X Requests
      /\ \A p \in crossed' : p \in crossed \/ (req[p[1]].pc # "idle" /\ req[p[2]].pc # "idle")
  <2>1. CASE SetPointer(r)
    BY <2>1 DEF SetPointer, TypeInv, TypeOK, At
  <2>2. CASE DeleteCustom(r) \/ DeleteEmail(r)
    BY <2>2 DEF DeleteCustom, DeleteEmail, DeleteRow, TypeInv, TypeOK, At
  <2>3. CASE UNCHANGED crossed
    BY <2>3 DEF TypeInv, TypeOK
  <2> QED
    BY <2>1, <2>2, <2>3 DEF RequestStep, CutRequest, FindForAdd, FindForAddEmail, LookUpName,
       InsertCustom, InsertEmail, InsertRow, FindForVerify, FindForVerifyEmail, VerifyFrom, FindForDelete,
       FindForDeleteEmail, FindRow, MarkVerifying, Activate, MarkEmailVerified, UpdateRow, ReadOrg,
       ClearPointer, apiVars
<1>5. \A q \in Requests : req[q].pc # "idle" => req'[q].pc # "idle"
  BY <1>1, Moved DEF TypeInv
<1>6. CrossedStarted'
  BY <1>4, <1>5 DEF CrossedStarted, TypeInv, TypeOK
<1>7. RowsInserted'
  BY <1>1, Moved, RowsStay, StepMoves, NamesApart DEF RowsInserted, TypeInv, RequestShape, At, Ended
<1>8. ListsExist'
  BY <1>2, RowsStay DEF ListsExist, TypeInv, pageVars
<1> QED
  BY <1>2, <1>3, <1>4, <1>6, <1>7, <1>8, StepShape, RowsStay DEF TypeInv, TypeOK, RequestStates, pageVars

-----------------------------------------------------------------------------
(* What the page and a colleague do.                                       *)

Sends(r) ==
  CallApi(r) \/ SubmitAdd(r) \/ ClickVerify(r) \/ ConfirmDelete(r)
  \/ SubmitAddEmail(r) \/ ClickVerifyEmail(r) \/ ConfirmDeleteEmail(r)

(* What is sent is about a name, and about a row that exists if it is not  *)
(* to add one.                                                             *)
LEMMA SendStarts ==
  ASSUME TypeInv, NEW r \in Requests, Sends(r)
  PROVE  /\ \E op \in Ops, n \in Names, w \in Rows \cup {None}, by \in {"tab", "colleague"} :
              /\ Start(r, op, n, w, by)
              /\ op # "add" => w \in Rows /\ row[w] # "none" /\ NameOf(w) = n
         /\ UNCHANGED <<apiVars, list, fetch>> /\ tab' \in Tabs
<1>1. \A w \in Rows : row[w] # "none" => NameOf(w) \in Names
  BY NamesApart DEF TypeInv, RowsInserted, RequestShape, NameOf
<1>2. tab \in Tabs /\ tab.view \in Kinds
  BY DEF TypeInv, TypeOK, Tabs
<1>3. \A op \in Ops : [tab EXCEPT !.awaits[op] = r] \in Tabs
  BY <1>2 DEF Tabs
<1>4. CASE CallApi(r)
  BY <1>1, <1>2, <1>4 DEF CallApi, Ops, Live, pageVars
<1>5. ASSUME NEW n \in Names, SubmitName(r, n)
      PROVE  Start(r, "add", n, None, "tab") /\ UNCHANGED <<apiVars, list, fetch>> /\ tab' \in Tabs
  BY <1>3, <1>5 DEF SubmitName, Send, Ops
<1>6. ASSUME NEW w \in Rows, NEW op \in {"verify", "delete"}, list[tab.view][w] # "none",
             Send(r, op, NameOf(w), w)
      PROVE  /\ Start(r, op, NameOf(w), w, "tab") /\ row[w] # "none" /\ NameOf(w) \in Names
             /\ UNCHANGED <<apiVars, list, fetch>> /\ tab' \in Tabs
  BY <1>1, <1>2, <1>3, <1>6 DEF Send, Ops, TypeInv, ListsExist
<1>7. CASE SubmitAdd(r) \/ SubmitAddEmail(r)
  BY <1>5, <1>7 DEF SubmitAdd, SubmitAddEmail, Names, Ops
<1>8. CASE ClickVerify(r) \/ ClickVerifyEmail(r)
  BY <1>6, <1>8 DEF ClickVerify, ClickVerifyEmail, VerifyShown, Ops
<1>9. CASE ConfirmDelete(r) \/ ConfirmDeleteEmail(r)
  BY <1>6, <1>9 DEF ConfirmDelete, ConfirmDeleteEmail, DeleteShown, Ops
<1> QED BY <1>4, <1>7, <1>8, <1>9 DEF Sends

(* No row, overlap or name of a row is touched when a request starts.      *)
LEMMA SendKeeps ==
  ASSUME TypeInv, NEW r \in Requests, Sends(r)
  PROVE  /\ TypeInv'
         /\ UNCHANGED <<row, pointer, last, crossed, list, fetch>>
         /\ \A w \in Rows : row[w] # "none" => NameOf(w)' = NameOf(w)
         /\ req[r].pc = "idle" /\ req'[r].pc = "find" /\ req'[r].by \in {"tab", "colleague"}
         /\ \A q \in Requests : q # r => req'[q] = req[q]
<1>1. PICK op \in Ops, n \in Names, v \in Rows \cup {None}, by \in {"tab", "colleague"} :
         /\ Start(r, op, n, v, by)
         /\ op # "add" => v \in Rows /\ row[v] # "none" /\ NameOf(v) = n
  BY SendStarts
<1>2. UNCHANGED <<row, pointer, last, crossed, list, fetch>> /\ tab' \in Tabs
  BY SendStarts DEF apiVars
<1>3. /\ req' \in [Requests -> RequestStates]
      /\ req[r].pc = "idle" /\ req'[r].pc = "find" /\ req'[r].op = op
      /\ req'[r].name = n /\ req'[r].on = v /\ req'[r].by = by
      /\ \A q \in Requests : q # r => req'[q] = req[q]
  BY <1>1, Started DEF TypeInv
<1>4. row[r] = "none" /\ \A p \in crossed : p[1] # r /\ p[2] # r
  BY <1>3 DEF TypeInv, RowsInserted, CrossedStarted
<1>5. \A w \in Rows : row[w] # "none" => NameOf(w)' = NameOf(w)
  BY <1>3, <1>4, NamesApart DEF NameOf
<1>6. RequestShape'
  BY <1>1, <1>2, <1>3, <1>5, NamesApart DEF TypeInv, RequestShape
<1>7. RowsInserted' /\ ListsExist'
  BY <1>2, <1>3, <1>4 DEF TypeInv, RowsInserted, ListsExist
<1>8. CrossedStarted'
  BY <1>2, <1>3, <1>4 DEF TypeInv, TypeOK, CrossedStarted
<1> QED
  BY <1>2, <1>3, <1>5, <1>6, <1>7, <1>8 DEF TypeInv, TypeOK, RequestStates, Tabs

(* An answer settles its request, and what it invalidates is read again.   *)
LEMMA Settled ==
  ASSUME TypeOK, NEW r \in Requests, NEW k \in Kinds, Answer(r, k)
  PROVE  /\ req' \in [Requests -> RequestStates]
         /\ req[r].by = "tab" /\ req[r].pc \in Ended /\ req'[r].by = "answered"
         /\ req'[r].pc = req[r].pc /\ req'[r].op = req[r].op
         /\ req'[r].name = req[r].name /\ req'[r].on = req[r].on
         /\ \A q \in Requests : q # r => req'[q] = req[q]
BY DEF TypeOK, Answer, RequestStates

LEMMA Invalidated ==
  ASSUME TypeOK, NEW k \in Kinds, Invalidate(k)
  PROVE  /\ fetch' \in [Kinds -> Fetches]
         /\ \A j \in Kinds \ {k} : fetch'[j] = fetch[j]
         /\ fetch'[k].rows \in {Unloaded, fetch[k].rows}
         /\ fetch'[k].at \in {"sent", "stale"} \/ fetch'[k].missed
<1>1. fetch \in [Kinds -> Fetches]
  BY DEF TypeOK, Fetches, Listings
<1>2. Unloaded \in Listings
  BY DEF Unloaded, Listings, Statuses
<1>3. PICK f \in Fetches : /\ fetch' = [fetch EXCEPT ![k] = f]
                           /\ f.rows \in {Unloaded, fetch[k].rows}
                           /\ f.at \in {"sent", "stale"} \/ f.missed
  <2>1. CASE k = tab.view
    <3>1. fetch' = [fetch EXCEPT ![k] = [at |-> "sent", rows |-> Unloaded, missed |-> FALSE]]
      BY <2>1 DEF Invalidate
    <3>2. [at |-> "sent", rows |-> Unloaded, missed |-> FALSE] \in Fetches
      BY <1>2 DEF Fetches
    <3> QED BY <3>1, <3>2
  <2>2. CASE k # tab.view /\ fetch[k].at \in {"sent", "answered"}
    <3>1. fetch' = [fetch EXCEPT ![k] = [fetch[k] EXCEPT !.missed = TRUE]]
      BY <2>2, <1>1 DEF Invalidate
    <3>2. [fetch[k] EXCEPT !.missed = TRUE] \in Fetches
      BY <1>1 DEF Fetches
    <3>3. [fetch[k] EXCEPT !.missed = TRUE].rows = fetch[k].rows /\ [fetch[k] EXCEPT !.missed = TRUE].missed
      BY <1>1 DEF Fetches
    <3> QED BY <3>1, <3>2, <3>3
  <2>3. CASE k # tab.view /\ fetch[k].at \notin {"sent", "answered"}
    <3>1. fetch' = [fetch EXCEPT ![k] = [fetch[k] EXCEPT !.at = "stale"]]
      BY <2>3, <1>1 DEF Invalidate
    <3>2. [fetch[k] EXCEPT !.at = "stale"] \in Fetches
      BY <1>1 DEF Fetches
    <3>3. [fetch[k] EXCEPT !.at = "stale"].rows = fetch[k].rows /\ [fetch[k] EXCEPT !.at = "stale"].at = "stale"
      BY <1>1 DEF Fetches
    <3> QED BY <3>1, <3>2, <3>3
  <2> QED BY <2>1, <2>2, <2>3
<1> QED BY <1>1, <1>3

LEMMA AnswerTyped ==
  ASSUME TypeInv, NEW r \in Requests, NEW k \in Kinds, Answer(r, k)
  PROVE  TypeInv' /\ \A w \in Rows : NameOf(w)' = NameOf(w)
<1>1. /\ req' \in [Requests -> RequestStates]
      /\ req[r].by = "tab" /\ req[r].pc \in Ended /\ req'[r].by = "answered"
      /\ req'[r].pc = req[r].pc /\ req'[r].op = req[r].op
      /\ req'[r].name = req[r].name /\ req'[r].on = req[r].on
      /\ \A q \in Requests : q # r => req'[q] = req[q]
  BY Settled DEF TypeInv
<1>2. UNCHANGED <<row, pointer, last, crossed, list>>
  BY DEF Answer, apiVars
<1>3. \A w \in Rows : NameOf(w)' = NameOf(w)
  BY <1>1, NamesApart DEF NameOf
<1>4. tab' \in Tabs
  BY DEF Answer, TypeInv, TypeOK, Tabs
<1>5. /\ fetch' \in [Kinds -> Fetches]
      /\ \A j \in Kinds, w \in Rows : fetch'[j].rows[w] # "none" => fetch[j].rows[w] # "none"
  <2>1. CASE Invalidate(k)
    <3>1. \A w \in Rows : Unloaded[w] = "none"
      BY DEF Unloaded
    <3>2. \A w \in Rows : fetch'[k].rows[w] # "none" => fetch[k].rows[w] # "none"
      BY <2>1, <3>1, Invalidated DEF TypeInv
    <3> QED BY <2>1, <3>2, Invalidated DEF TypeInv
  <2>2. CASE UNCHANGED fetch
    BY <2>2 DEF TypeInv, TypeOK, Fetches, Listings
  <2> QED BY <2>1, <2>2 DEF Answer
<1>6. ListsExist'
  BY <1>2, <1>5 DEF TypeInv, ListsExist
<1>7. RequestShape'
  BY <1>1, <1>2, <1>3, NamesApart DEF TypeInv, RequestShape, Ended
<1>8. RowsInserted'
  BY <1>1, <1>2 DEF TypeInv, RowsInserted
<1>9. CrossedStarted'
  <2>1. \A q \in Requests : req'[q].pc = req[q].pc
    BY <1>1
  <2> QED BY <1>2, <2>1 DEF TypeInv, TypeOK, CrossedStarted
<1> QED
  BY <1>1, <1>2, <1>3, <1>4, <1>5, <1>6, <1>7, <1>8, <1>9 DEF TypeInv, TypeOK, RequestStates, Tabs,
     Fetches, Listings

(* What a list shows are rows that are there.                              *)
LEMMA ShownTyped ==
  ASSUME TypeInv
  PROVE  \A k \in Kinds : Shown(k) \in Listings /\ \A w \in Rows : Shown(k)[w] # "none" => row[w] # "none"
BY DEF TypeInv, TypeOK, Shown, Listings, Statuses, Live

LEMMA PageTyped ==
  ASSUME TypeInv, SwitchTab \/ (\E k \in Kinds : ReadList(k) \/ ShowList(k)) \/ UNCHANGED vars
  PROVE  TypeInv' /\ UNCHANGED <<apiVars, req>>
<1>1. UNCHANGED <<apiVars, req>>
  BY DEF SwitchTab, ReadList, ShowList, vars
<1>2. list \in [Kinds -> Listings] /\ fetch \in [Kinds -> Fetches] /\ tab \in Tabs
  BY DEF TypeInv, TypeOK, Fetches, Listings, Tabs
<1>3. Unloaded \in Listings /\ \A w \in Rows : Unloaded[w] = "none"
  BY DEF Unloaded, Listings, Statuses
<1>4. list' \in [Kinds -> Listings] /\ fetch' \in [Kinds -> Fetches] /\ tab' \in Tabs /\ ListsExist'
  <2>1. CASE SwitchTab
    <3>1. PICK k \in Kinds : /\ tab' = FreshTab(k) /\ UNCHANGED list
                             /\ fetch' = [fetch EXCEPT ![k].at = IF @ = "stale" THEN "sent" ELSE @,
                                            ![k].missed = IF fetch[k].at = "stale" THEN FALSE ELSE @]
      BY <2>1 DEF SwitchTab
    <3>2. tab' \in Tabs
      BY <3>1 DEF FreshTab, Tabs
    <3>3. /\ fetch' \in [Kinds -> Fetches]
          /\ \A j \in Kinds : fetch'[j].rows = fetch[j].rows
      BY <1>2, <3>1, ZenonT(40) DEF Fetches
    <3> QED BY <1>1, <1>2, <3>1, <3>2, <3>3 DEF TypeInv, ListsExist, apiVars
  <2>2. ASSUME NEW k \in Kinds, ReadList(k)
        PROVE  list' \in [Kinds -> Listings] /\ fetch' \in [Kinds -> Fetches] /\ tab' \in Tabs /\ ListsExist'
    <3>1. Shown(k) \in Listings /\ \A w \in Rows : Shown(k)[w] # "none" => row[w] # "none"
      BY ShownTyped
    <3>2. /\ fetch' \in [Kinds -> Fetches] /\ fetch'[k].rows = Shown(k)
          /\ \A j \in Kinds \ {k} : fetch'[j] = fetch[j]
      BY <1>2, <2>2, <3>1 DEF ReadList, Fetches
    <3> QED BY <1>1, <1>2, <2>2, <3>1, <3>2 DEF ReadList, TypeInv, ListsExist, apiVars
  <2>3. ASSUME NEW k \in Kinds, ShowList(k)
        PROVE  list' \in [Kinds -> Listings] /\ fetch' \in [Kinds -> Fetches] /\ tab' \in Tabs /\ ListsExist'
    <3>1. /\ fetch' \in [Kinds -> Fetches] /\ fetch'[k].rows = Unloaded
          /\ \A j \in Kinds \ {k} : fetch'[j] = fetch[j]
      BY <1>2, <1>3, <2>3 DEF ShowList, Fetches
    <3>2. list' \in [Kinds -> Listings] /\ list'[k] = fetch[k].rows
          /\ \A j \in Kinds \ {k} : list'[j] = list[j]
      BY <1>2, <2>3 DEF ShowList, Fetches
    <3> QED BY <1>1, <1>2, <1>3, <2>3, <3>1, <3>2 DEF ShowList, TypeInv, ListsExist, apiVars
  <2>4. CASE UNCHANGED vars
    BY <1>2, <2>4 DEF vars, apiVars, pageVars, TypeInv, ListsExist
  <2> QED BY <2>1, <2>2, <2>3, <2>4
<1>5. RequestShape' /\ RowsInserted' /\ CrossedStarted'
  BY <1>1 DEF apiVars, TypeInv, RequestShape, RowsInserted, CrossedStarted, NameOf
<1> QED
  BY <1>1, <1>4, <1>5 DEF TypeInv, TypeOK, apiVars, Fetches, Listings, Tabs

(* Every step is one of these.                                             *)
LEMMA StepKinds ==
  ASSUME [Next]_vars
  PROVE  \/ \E r \in Requests : \/ RequestStep(r) \/ CutRequest(r) \/ Sends(r)
                                \/ \E k \in Kinds : Answer(r, k) /\ Kind(req[r].name) = k
         \/ SwitchTab \/ (\E k \in Kinds : ReadList(k) \/ ShowList(k)) \/ UNCHANGED vars
BY NamesApart DEF Next, Sends, AnswerCustom, AnswerEmail, Kinds, Kind, IsCustom, IsEmail

LEMMA TypeStep == TypeInv /\ [Next]_vars => TypeInv'
BY StepKinds, StepTyped, SendKeeps, AnswerTyped, PageTyped

(* Every table, request, list and tab of the page keeps its type.          *)
THEOREM TypeCorrect == Spec => []TypeOK
<1>1. Spec => []TypeInv
  BY Initially, TypeStep, PTL DEF Spec
<1> QED BY <1>1, PTL DEF TypeInv

-----------------------------------------------------------------------------
(* What any step keeps of the requests, their rows and the overlaps.       *)

LEMMA StepsKeep ==
  ASSUME TypeInv, [Next]_vars
  PROVE  /\ TypeInv'
         /\ \A w \in Rows : row[w] # "none" => NameOf(w)' = NameOf(w)
         /\ \A q \in Requests : req[q].pc # "idle" =>
              /\ req'[q].pc # "idle" /\ req'[q].op = req[q].op
              /\ req'[q].name = req[q].name /\ req'[q].on = req[q].on
         /\ crossed \subseteq crossed'
         /\ \A n : CrossedOn(n) => CrossedOn(n)'
<1>1. TypeInv'
  BY TypeStep
<1> DEFINE Kept ==
      /\ \A w \in Rows : row[w] # "none" => NameOf(w)' = NameOf(w)
      /\ \A q \in Requests : req[q].pc # "idle" =>
           /\ req'[q].pc # "idle" /\ req'[q].op = req[q].op
           /\ req'[q].name = req[q].name /\ req'[q].on = req[q].on
      /\ crossed \subseteq crossed'
<1>2. Kept
  <2>1. ASSUME NEW r \in Requests, RequestStep(r) \/ CutRequest(r) PROVE Kept
    <3>1. PICK pc \in PCs \ {"idle"} : Goto(r, pc)
      BY <2>1, StepMoves
    <3>2. crossed \subseteq crossed'
      BY <2>1 DEF RequestStep, CutRequest, FindForAdd, FindForAddEmail, LookUpName, InsertCustom,
         InsertEmail, InsertRow, FindForVerify, FindForVerifyEmail, VerifyFrom, FindForDelete,
         FindForDeleteEmail, FindRow, MarkVerifying, Activate, MarkEmailVerified, UpdateRow, SetPointer,
         ReadOrg, ClearPointer, DeleteCustom, DeleteEmail, DeleteRow, apiVars
    <3> QED BY <3>1, <3>2, Moved DEF TypeInv
  <2>2. ASSUME NEW r \in Requests, Sends(r) PROVE Kept
    BY <2>2, SendKeeps
  <2>3. ASSUME NEW r \in Requests, NEW k \in Kinds, Answer(r, k) PROVE Kept
    <3>1. UNCHANGED <<row, crossed>>
      BY <2>3 DEF Answer, apiVars
    <3> QED BY <2>3, <3>1, AnswerTyped, Settled DEF TypeInv
  <2>4. CASE SwitchTab \/ (\E k \in Kinds : ReadList(k) \/ ShowList(k)) \/ UNCHANGED vars
    BY <2>4, PageTyped DEF apiVars, NameOf
  <2> QED BY <2>1, <2>2, <2>3, <2>4, StepKinds
<1>3. \A n : CrossedOn(n) => CrossedOn(n)'
  BY <1>1, <1>2 DEF CrossedOn, TypeInv, TypeOK, CrossedStarted
<1> QED BY <1>1, <1>2, <1>3

-----------------------------------------------------------------------------
(* What each step of a request does to the tables, by where it stands.     *)

Plain(r) ==
  /\ req[r].pc \in {"find", "insert", "mark", "activate", "delete"}
  /\ \E pc \in {"insert", "mark", "activate", "delete", "ok", "failed"} :
       /\ Goto(r, pc)
       /\ pc = "ok" => req[r].op = "verify" /\ row[Row(r)] = "ACTIVE"
       /\ At(r, "activate") => row[Row(r)] \notin Live
  /\ UNCHANGED apiVars
Inserts(r) ==
  /\ At(r, "insert") /\ LiveRows(req[r].name) = {} /\ Goto(r, "ok")
  /\ row' = [row EXCEPT ![r] = "PENDING"]
  /\ UNCHANGED <<pointer, last, crossed>>
Marks(r) ==
  /\ At(r, "mark") /\ row[Row(r)] \in Live /\ Goto(r, "activate")
  /\ row' = [row EXCEPT ![Row(r)] = "VERIFYING"]
  /\ UNCHANGED <<pointer, last, crossed>>
Activates(r) ==
  /\ At(r, "activate") /\ row[Row(r)] \in Live
  /\ (IsCustom(r) /\ Goto(r, "point")) \/ (IsEmail(r) /\ Goto(r, "ok"))
  /\ row' = [row EXCEPT ![Row(r)] = "ACTIVE"]
  /\ UNCHANGED <<pointer, last, crossed>>
Deletes(r) ==
  /\ At(r, "delete") /\ row[Row(r)] \in Live
  /\ (IsCustom(r) /\ Goto(r, "readOrg")) \/ (IsEmail(r) /\ Goto(r, "ok"))
  /\ row' = [row EXCEPT ![Row(r)] = "gone"]
  /\ crossed' = crossed \cup {<<v, r>> : v \in {q \in Requests : At(q, "point") /\ Row(q) = Row(r)}}
  /\ UNCHANGED <<pointer, last>>

LEMMA StepTable ==
  ASSUME TypeInv, NEW r \in Requests, RequestStep(r) \/ CutRequest(r)
  PROVE  \/ Plain(r) \/ Inserts(r) \/ Marks(r) \/ Activates(r) \/ Deletes(r)
         \/ SetPointer(r) \/ ReadOrg(r) \/ ClearPointer(r) \/ CutRequest(r)
<1>1. CASE FindForAdd(r) \/ FindForAddEmail(r)
  BY <1>1 DEF FindForAdd, FindForAddEmail, LookUpName, Plain, At
<1>2. CASE InsertCustom(r) \/ InsertEmail(r)
  BY <1>2 DEF InsertCustom, InsertEmail, InsertRow, Plain, Inserts, At, apiVars
<1>3. CASE FindForVerify(r) \/ FindForVerifyEmail(r)
  BY <1>3 DEF FindForVerify, FindForVerifyEmail, VerifyFrom, FindRow, Plain, At
<1>4. CASE FindForDelete(r) \/ FindForDeleteEmail(r)
  BY <1>4 DEF FindForDelete, FindForDeleteEmail, FindRow, Plain, At
<1>5. CASE MarkVerifying(r)
  BY <1>5 DEF MarkVerifying, UpdateRow, Plain, Marks, At, apiVars
<1>6. CASE Activate(r) \/ MarkEmailVerified(r)
  BY <1>6 DEF Activate, MarkEmailVerified, UpdateRow, Plain, Activates, At, apiVars
<1>7. CASE DeleteCustom(r) \/ DeleteEmail(r)
  BY <1>7 DEF DeleteCustom, DeleteEmail, DeleteRow, Plain, Deletes, At, apiVars
<1> QED BY <1>1, <1>2, <1>3, <1>4, <1>5, <1>6, <1>7 DEF RequestStep

(* Live and active rows of a name appear and disappear with their writes.  *)
LEMMA LiveAfter ==
  ASSUME TypeInv, [Next]_vars, NEW n \in Names
  PROVE  /\ UNCHANGED row => LiveRows(n)' = LiveRows(n) /\ ActiveRow(n)' = ActiveRow(n)
         /\ \A w \in Rows, status \in Live :
              row[w] \in Live /\ row' = [row EXCEPT ![w] = status] =>
                 /\ LiveRows(n)' = LiveRows(n)
                 /\ ActiveRow(n)' => ActiveRow(n) \/ (status = "ACTIVE" /\ NameOf(w) = n)
         /\ \A w \in Rows : row[w] \in Live /\ row' = [row EXCEPT ![w] = "gone"] =>
              LiveRows(n)' = LiveRows(n) \ {w} /\ (ActiveRow(n)' => ActiveRow(n))
<1>1. \A w \in Rows : row[w] # "none" => NameOf(w)' = NameOf(w)
  BY StepsKeep
<1>2. "none" \notin Live /\ "gone" \notin Live /\ "ACTIVE" \in Live /\ row \in [Rows -> Statuses]
  BY DEF Live, TypeInv, TypeOK
<1> QED BY <1>1, <1>2 DEF LiveRows, ActiveRow

-----------------------------------------------------------------------------
(* What the organization points to.                                        *)

LEMMA PointerInitially == Init => PointerInv
<1> SUFFICES ASSUME Init PROVE PointerInv
  OBVIOUS
<1>1. TypeInv
  BY Initially
<1>2. \A r \in Requests : req[r].pc = "idle"
  BY DEF Init
<1>3. \A w \in Rows : row[w] \in Live => w \in Registered
  BY DEF Init, Live
<1>4. PointHasRow /\ ClearsOwn
  BY <1>2 DEF PointHasRow, ClearsOwn, At
<1> QED
  BY <1>1, <1>3, <1>4 DEF Init, PointerInv, PointsToLast, OneRowPerName, NameOf, KeptInv, PointerHasDomain

(* The names that matter are those of custom domains.                      *)
LEMMA CustomOnly ==
  ASSUME TypeInv
  PROVE  /\ CustomNames \subseteq Names
         /\ \A r \in Requests : req[r].pc \in {"point", "readOrg", "clear"} => req[r].name \in CustomNames
         /\ pointer # None => pointer \in CustomNames
         /\ last # None => last \in CustomNames
BY DEF TypeInv, TypeOK, RequestShape, Names

(* A step that neither writes the pointer, nor takes a request to or from  *)
(* the writes that matter, nor takes a custom name's last row or gives it  *)
(* an active one, disturbs nothing.                                        *)
LEMMA PointerQuiet ==
  ASSUME PointerInv, [Next]_vars, UNCHANGED <<pointer, last>>, OneRowPerName',
         \A q \in Requests : /\ req[q].pc \in {"point", "readOrg", "clear", "cut"} => req'[q].pc = req[q].pc
                             /\ req'[q].pc \in {"point", "readOrg", "clear"} => req'[q].pc = req[q].pc
                             /\ At(q, "point") /\ row[Row(q)] \in Live => row'[Row(q)] \in Live,
         \A n \in CustomNames : /\ LiveRows(n) # {} => LiveRows(n)' # {}
                                /\ ActiveRow(n)' => ActiveRow(n)
  PROVE  PointerInv'
<1> USE DEF PointerInv
<1>1. /\ TypeInv' /\ crossed \subseteq crossed' /\ \A n : CrossedOn(n) => CrossedOn(n)'
      /\ \A q \in Requests : req[q].pc # "idle" =>
           /\ req'[q].pc # "idle" /\ req'[q].op = req[q].op
           /\ req'[q].name = req[q].name /\ req'[q].on = req[q].on
  BY StepsKeep
<1>2. \A n : Pointing(n) => Pointing(n)'
  BY <1>1 DEF Pointing
<1>3. \A n \in CustomNames : ~Unaccounted(n) => ~Unaccounted(n)'
  BY <1>1, <1>2 DEF Unaccounted
<1>4. PointHasRow'
  BY <1>1 DEF PointHasRow, At, Row
<1>5. ClearsOwn'
  BY <1>1, <1>3, CustomOnly DEF ClearsOwn, At
<1>6. KeptInv'
  BY <1>3, CustomOnly DEF KeptInv
<1>7. PointerHasDomain'
  <2>1. SUFFICES ASSUME pointer # None, LiveRows(pointer)' = {}
                 PROVE  CrossedOn(pointer)' \/ \E r \in Requests : Removing(r)' /\ req'[r].name = pointer
    BY DEF PointerHasDomain
  <2>2. LiveRows(pointer) = {}
    BY <2>1, CustomOnly
  <2>3. CASE CrossedOn(pointer)
    BY <2>3, <1>1
  <2>4. ASSUME NEW r \in Requests, Removing(r), req[r].name = pointer
        PROVE  Removing(r)' /\ req'[r].name = pointer
    BY <1>1, <2>4 DEF Removing
  <2> QED BY <2>1, <2>2, <2>3, <2>4 DEF PointerHasDomain
<1>8. PointsToLast'
  BY DEF PointsToLast
<1> QED BY <1>1, <1>4, <1>5, <1>6, <1>7, <1>8

(* What starts, answers, lists and switches is quiet.                      *)
LEMMA PointerAside ==
  ASSUME PointerInv, [Next]_vars, UNCHANGED <<row, pointer, last>>,
         \A q \in Requests : req'[q].pc = req[q].pc \/ (req[q].pc = "idle" /\ req'[q].pc = "find")
  PROVE  PointerInv'
<1>1. \A n \in Names : LiveRows(n)' = LiveRows(n) /\ ActiveRow(n)' = ActiveRow(n)
  BY LiveAfter DEF PointerInv
<1>2. OneRowPerName'
  BY StepsKeep DEF PointerInv, OneRowPerName, Live
<1> QED BY <1>1, <1>2, PointerQuiet, CustomOnly DEF PointerInv

LEMMA PointerPlain ==
  ASSUME PointerInv, [Next]_vars, NEW r \in Requests, Plain(r) \/ Inserts(r) \/ Marks(r)
  PROVE  PointerInv'
<1>1. UNCHANGED <<pointer, last>>
  BY DEF Plain, Inserts, Marks, apiVars
<1>2. \A q \in Requests :
        /\ req[q].pc \in {"point", "readOrg", "clear", "cut"} => req'[q].pc = req[q].pc
        /\ req'[q].pc \in {"point", "readOrg", "clear"} => req'[q].pc = req[q].pc
  <2>1. PICK pc \in {"insert", "mark", "activate", "delete", "ok", "failed"} : Goto(r, pc)
    BY DEF Plain, Inserts, Marks
  <2>2. req[r].pc \in {"find", "insert", "mark", "activate", "delete"}
    BY DEF Plain, Inserts, Marks, At
  <2>3. req'[r].pc = pc /\ \A q \in Requests : q # r => req'[q] = req[q]
    BY <2>1, Moved DEF PCs, Ended, PointerInv, TypeInv
  <2> QED BY <2>2, <2>3
<1>3. r \in Rows /\ r \notin Registered /\ row \in [Rows -> Statuses]
  BY NamesApart DEF PointerInv, TypeInv, TypeOK
<1>4. TypeInv /\ \A w \in Rows : row[w] # "none" => NameOf(w)' = NameOf(w)
  BY StepsKeep DEF PointerInv
<1>5. CASE Plain(r)
  <2>1. UNCHANGED row
    BY <1>5 DEF Plain, apiVars
  <2>2. \A n \in Names : LiveRows(n)' = LiveRows(n) /\ ActiveRow(n)' = ActiveRow(n)
    BY <1>4, <2>1, LiveAfter
  <2>3. OneRowPerName'
    BY <1>4, <2>1 DEF PointerInv, OneRowPerName, Live
  <2> QED BY <1>1, <1>2, <1>4, <2>1, <2>2, <2>3, PointerQuiet, CustomOnly
<1>6. CASE Inserts(r)
  <2>1. row[r] = "none" /\ req[r].pc # "idle"
    BY <1>6 DEF Inserts, At, PointerInv, TypeInv, RowsInserted
  <2>2. NameOf(r)' = req[r].name
    BY <1>3, <1>6, <2>1, StepsKeep DEF NameOf, PointerInv
  <2>3. row' = [row EXCEPT ![r] = "PENDING"] /\ LiveRows(req[r].name) = {}
    BY <1>6 DEF Inserts
  <2>4. OneRowPerName'
    BY <1>3, <1>4, <2>1, <2>2, <2>3 DEF PointerInv, OneRowPerName, Live, LiveRows
  <2>5. \A n : (LiveRows(n) # {} => LiveRows(n)' # {}) /\ (ActiveRow(n)' => ActiveRow(n))
    BY <1>3, <1>4, <2>1, <2>2, <2>3 DEF Live, LiveRows, ActiveRow
  <2>6. \A w \in Rows : row[w] \in Live => row'[w] \in Live
    BY <1>3, <2>3 DEF Live
  <2>7. \A q \in Requests : At(q, "point") => Row(q) \in Rows
    BY <1>4 DEF At, Row, TypeInv, RequestShape
  <2> QED BY <1>1, <1>2, <2>4, <2>5, <2>6, <2>7, PointerQuiet
<1>7. CASE Marks(r)
  <2>1. Row(r) \in Rows
    BY <1>4, <1>7 DEF Marks, At, Row, TypeInv, RequestShape
  <2>2. "VERIFYING" \in Live /\ row' = [row EXCEPT ![Row(r)] = "VERIFYING"] /\ row[Row(r)] \in Live
    BY <1>7 DEF Marks, Live
  <2>3. \A n \in Names : LiveRows(n)' = LiveRows(n) /\ (ActiveRow(n)' => ActiveRow(n))
    BY <1>4, <2>1, <2>2, LiveAfter
  <2>4. OneRowPerName'
    BY <1>3, <1>4, <2>1, <2>2 DEF PointerInv, OneRowPerName, Live
  <2>5. \A w \in Rows : row[w] \in Live => row'[w] \in Live
    BY <1>3, <2>1, <2>2 DEF Live
  <2>6. \A q \in Requests : At(q, "point") => Row(q) \in Rows
    BY <1>4 DEF At, Row, TypeInv, RequestShape
  <2> QED BY <1>1, <1>2, <1>4, <2>3, <2>4, <2>5, <2>6, PointerQuiet, CustomOnly
<1> QED BY <1>5, <1>6, <1>7

(* The row of a request that is about to change it.                        *)
LEMMA RowOf ==
  ASSUME TypeInv, NEW r \in Requests, req[r].pc # "idle", req[r].op # "add"
  PROVE  Row(r) \in Rows /\ NameOf(Row(r)) = req[r].name /\ req[r].name \in Names
BY DEF TypeInv, RequestShape, Row

(* A verification that activates a custom domain is about to point to it.  *)
LEMMA PointerActivates ==
  ASSUME PointerInv, [Next]_vars, NEW r \in Requests, Activates(r)
  PROVE  PointerInv'
<1>1. TypeInv /\ TypeInv' /\ UNCHANGED <<pointer, last, crossed>> /\ row \in [Rows -> Statuses]
  BY StepsKeep DEF PointerInv, Activates, TypeInv, TypeOK
<1>2. req[r].pc = "activate" /\ req[r].op = "verify"
  BY <1>1 DEF Activates, At, TypeInv, RequestShape
<1>3. Row(r) \in Rows /\ NameOf(Row(r)) = req[r].name /\ req[r].name \in Names
  BY <1>1, <1>2, RowOf
<1>4. "ACTIVE" \in Live /\ row[Row(r)] \in Live /\ row' = [row EXCEPT ![Row(r)] = "ACTIVE"]
  BY DEF Activates, Live
<1>5. \A w \in Rows : row[w] # "none" => NameOf(w)' = NameOf(w)
  BY StepsKeep, <1>1
<1>6. OneRowPerName'
  BY <1>1, <1>3, <1>4, <1>5 DEF PointerInv, OneRowPerName, Live
<1>7. \A n \in Names : LiveRows(n)' = LiveRows(n) /\ (ActiveRow(n)' => ActiveRow(n) \/ n = req[r].name)
  BY <1>1, <1>3, <1>4, LiveAfter
<1>8. \A q \in Requests : At(q, "point") => Row(q) \in Rows
  BY <1>1 DEF At, Row, TypeInv, RequestShape
<1>9. \A q \in Requests : At(q, "point") /\ row[Row(q)] \in Live => row'[Row(q)] \in Live
  BY <1>1, <1>3, <1>4, <1>8
<1>10. CASE IsEmail(r) /\ Goto(r, "ok")
  <2>1. req'[r].pc = "ok" /\ \A q \in Requests : q # r => req'[q] = req[q]
    BY <1>1, <1>10, Moved DEF PCs, Ended, TypeInv
  <2>2. req[r].name \notin CustomNames
    BY <1>10, NamesApart DEF IsEmail
  <2> QED BY <1>1, <1>2, <1>6, <1>7, <1>9, <2>1, <2>2, PointerQuiet, CustomOnly
<1>11. CASE IsCustom(r) /\ Goto(r, "point")
  <2>1. /\ req'[r].pc = "point" /\ req'[r].op = "verify" /\ req'[r].name = req[r].name
        /\ req'[r].on = req[r].on /\ \A q \in Requests : q # r => req'[q] = req[q]
    BY <1>1, <1>2, <1>11, Moved DEF PCs, Ended, TypeInv
  <2>2. \A n : Pointing(n) => Pointing(n)'
    BY <1>2, <2>1 DEF Pointing
  <2>3. \A n : n = req[r].name => Pointing(n)'
    BY <2>1 DEF Pointing
  <2>4. \A n : CrossedOn(n) => CrossedOn(n)'
    BY <1>1, StepsKeep
  <2>5. \A n \in CustomNames : ~Unaccounted(n) => ~Unaccounted(n)'
    <3>1. SUFFICES ASSUME NEW n \in CustomNames, ~Unaccounted(n), n # req[r].name
                   PROVE  ~Unaccounted(n)'
      BY <2>3 DEF Unaccounted
    <3>2. ActiveRow(n)' => ActiveRow(n)
      BY <1>7, <3>1 DEF Names
    <3> QED BY <2>2, <2>4, <3>1, <3>2 DEF Unaccounted
  <2>6. PointHasRow'
    BY <1>1, <1>3, <1>4, <1>9, <2>1 DEF PointerInv, PointHasRow, At, Row
  <2>7. ClearsOwn'
    BY <1>1, <2>1, <2>4, <2>5, CustomOnly DEF PointerInv, ClearsOwn, At
  <2>8. KeptInv'
    BY <1>1, <2>5, CustomOnly DEF PointerInv, KeptInv
  <2>9. PointerHasDomain'
    <3>1. \A q \in Requests : Removing(q) => Removing(q)' /\ req'[q].name = req[q].name
      BY <1>2, <2>1 DEF Removing
    <3>2. CrossedOn(pointer) => CrossedOn(pointer)'
      BY <1>1, <2>4
    <3>3. pointer # None => LiveRows(pointer)' = LiveRows(pointer)
      BY <1>1, <1>7, CustomOnly
    <3> QED BY <1>1, <3>1, <3>2, <3>3 DEF PointerInv, PointerHasDomain
  <2>10. PointsToLast'
    BY <1>1 DEF PointerInv, PointsToLast
  <2> QED BY <1>1, <1>6, <2>6, <2>7, <2>8, <2>9, <2>10 DEF PointerInv
<1> QED BY <1>10, <1>11 DEF Activates

(* A deletion takes the only row of its name, and overlaps every           *)
(* verification that is about to point to that row.                        *)
LEMMA PointerDeletes ==
  ASSUME PointerInv, [Next]_vars, NEW r \in Requests, Deletes(r)
  PROVE  PointerInv'
<1>1. TypeInv /\ TypeInv' /\ UNCHANGED <<pointer, last>> /\ row \in [Rows -> Statuses]
  BY StepsKeep DEF PointerInv, Deletes, TypeInv, TypeOK
<1>2. req[r].pc = "delete" /\ req[r].op = "delete"
  BY <1>1 DEF Deletes, At, TypeInv, RequestShape
<1>3. Row(r) \in Rows /\ NameOf(Row(r)) = req[r].name /\ req[r].name \in Names
  BY <1>1, <1>2, RowOf
<1>4. row[Row(r)] \in Live /\ row' = [row EXCEPT ![Row(r)] = "gone"] /\ "gone" \notin Live
  BY DEF Deletes, Live
<1>5. \A w \in Rows : row[w] # "none" => NameOf(w)' = NameOf(w)
  BY StepsKeep, <1>1
<1>6. OneRowPerName'
  BY <1>1, <1>3, <1>4, <1>5 DEF PointerInv, OneRowPerName, Live
<1>7. \A n \in Names : LiveRows(n)' = LiveRows(n) \ {Row(r)} /\ (ActiveRow(n)' => ActiveRow(n))
  BY <1>1, <1>3, <1>4, LiveAfter
<1>8. \A n \in Names : n # req[r].name => LiveRows(n)' = LiveRows(n)
  BY <1>3, <1>7 DEF LiveRows
<1>9. \A n : n = req[r].name => LiveRows(n)' = {} /\ ~ActiveRow(n)'
  <2>1. SUFFICES ASSUME NEW n \in Names, n = req[r].name PROVE LiveRows(n)' = {} /\ ~ActiveRow(n)'
    BY <1>3
  <2>2. LiveRows(n) = {Row(r)}
    BY <1>3, <1>4, <2>1 DEF PointerInv, OneRowPerName, LiveRows
  <2>3. LiveRows(n)' = {}
    BY <1>7, <2>2
  <2> QED BY <2>3 DEF LiveRows, ActiveRow, Live
<1>10. req'[r].pc \in {"ok", "readOrg"} /\ \A q \in Requests : q # r => req'[q] = req[q]
  BY <1>1, Moved DEF Deletes, PCs, Ended, TypeInv
<1>11. req'[r].pc = "readOrg" <=> req[r].name \in CustomNames
  <2>1. CASE IsCustom(r) /\ Goto(r, "readOrg")
    BY <2>1, <1>1, Moved DEF IsCustom, PCs, TypeInv
  <2>2. CASE IsEmail(r) /\ Goto(r, "ok")
    BY <2>2, <1>1, Moved, NamesApart DEF IsEmail, PCs, Ended, TypeInv
  <2> QED BY <2>1, <2>2 DEF Deletes
<1>12. \A q \in Requests : req[q].pc # "idle" =>
              req'[q].op = req[q].op /\ req'[q].name = req[q].name /\ req'[q].on = req[q].on
  BY <1>1, StepsKeep
<1>13. \A n : (Pointing(n) => Pointing(n)') /\ (CrossedOn(n) => CrossedOn(n)')
  BY <1>1, <1>2, <1>10, StepsKeep DEF Pointing
<1>14. \A n \in CustomNames : ~Unaccounted(n) => ~Unaccounted(n)'
  <2>1. SUFFICES ASSUME NEW n \in CustomNames, ~Unaccounted(n) PROVE ~Unaccounted(n)'
    OBVIOUS
  <2>2. ActiveRow(n)' => ActiveRow(n)
    BY <1>7 DEF Names
  <2> QED BY <1>13, <2>1, <2>2 DEF Unaccounted
<1>15. PointHasRow'
  <2>1. SUFFICES ASSUME NEW v \in Requests, At(v, "point")'
                 PROVE  row'[Row(v)'] \in Live \/ \E d \in Requests : <<v, d>> \in crossed'
    BY DEF PointHasRow
  <2>2. At(v, "point") /\ Row(v)' = Row(v)
    BY <1>10, <1>12, <2>1 DEF At, Row
  <2>3. CASE Row(v) = Row(r)
    BY <2>2, <2>3 DEF Deletes
  <2>4. CASE Row(v) # Row(r) /\ row[Row(v)] \in Live
    BY <1>1, <1>4, <2>2, <2>4, RowOf DEF At, TypeInv, RequestShape
  <2>5. CASE \E d \in Requests : <<v, d>> \in crossed
    BY <1>1, <2>5, StepsKeep
  <2> QED BY <2>2, <2>3, <2>4, <2>5 DEF PointerInv, PointHasRow
<1>16. ClearsOwn'
  <2>1. SUFFICES ASSUME NEW d \in Requests, req'[d].pc \in {"readOrg", "clear"}
                 PROVE  /\ req'[d].name = req[d].name /\ \A n : n = req[d].name => ~Unaccounted(n)'
                        /\ At(d, "clear")' => last = req[d].name \/ CrossedOn(last)'
    BY <1>1 DEF ClearsOwn, At
  <2>2. CASE d = r
    BY <1>2, <1>9, <1>10, <1>12, <2>1, <2>2 DEF Unaccounted, At
  <2>3. CASE d # r
    BY <1>1, <1>10, <1>13, <1>14, <2>1, <2>3, CustomOnly DEF PointerInv, ClearsOwn, At
  <2> QED BY <2>2, <2>3
<1>17. KeptInv'
  BY <1>1, <1>14, CustomOnly DEF PointerInv, KeptInv
<1>18. PointerHasDomain'
  <2>1. SUFFICES ASSUME pointer # None, LiveRows(pointer)' = {}
                 PROVE  CrossedOn(pointer)' \/ \E q \in Requests : Removing(q)' /\ req'[q].name = pointer
    BY <1>1 DEF PointerHasDomain
  <2>2. CASE pointer = req[r].name
    BY <1>1, <1>2, <1>11, <1>12, <2>1, <2>2, CustomOnly DEF Removing
  <2>3. CASE pointer # req[r].name
    <3>1. LiveRows(pointer) = {}
      BY <1>1, <1>8, <2>1, <2>3, CustomOnly
    <3>2. \A q \in Requests : Removing(q) => Removing(q)' /\ req'[q].name = req[q].name
      BY <1>2, <1>10, <1>12 DEF Removing
    <3> QED BY <1>1, <1>13, <2>1, <3>1, <3>2 DEF PointerInv, PointerHasDomain
  <2> QED BY <2>2, <2>3
<1>19. PointsToLast'
  BY <1>1 DEF PointerInv, PointsToLast
<1> QED BY <1>1, <1>6, <1>15, <1>16, <1>17, <1>18, <1>19 DEF PointerInv

(* The other writes leave the rows as they are.                            *)
LEMMA RowsAlone ==
  ASSUME PointerInv, [Next]_vars, UNCHANGED row
  PROVE  /\ OneRowPerName'
         /\ \A n \in Names : LiveRows(n)' = LiveRows(n) /\ ActiveRow(n)' = ActiveRow(n)
BY StepsKeep, LiveAfter DEF PointerInv, OneRowPerName, Live

(* A verification points to its domain, and overlaps every deletion that   *)
(* is between its read of the organization and its write.                  *)
LEMMA PointerSets ==
  ASSUME PointerInv, [Next]_vars, NEW r \in Requests, SetPointer(r)
  PROVE  PointerInv'
<1>1. TypeInv /\ TypeInv' /\ UNCHANGED row /\ req[r].pc = "point"
  BY StepsKeep DEF PointerInv, SetPointer, At
<1>2. PICK n \in CustomNames : n = req[r].name /\ pointer' = n /\ last' = n
  BY <1>1, CustomOnly DEF SetPointer
<1>3. req[r].op = "verify" /\ n # None /\ n \in Names
  BY <1>1, <1>2, NamesApart, NamesAssumption DEF TypeInv, RequestShape, Names
<1>4. /\ req'[r].pc = "ok" /\ req'[r].name = n
      /\ \A q \in Requests : q # r => req'[q] = req[q]
  BY <1>1, <1>2, Moved DEF SetPointer, PCs, Ended, TypeInv
<1>5. \A d \in Requests : req[d].pc \in {"readOrg", "clear"} => <<r, d>> \in crossed'
  BY DEF SetPointer
<1>6. (\E d \in Requests : req[d].pc \in {"readOrg", "clear"}) => CrossedOn(n)'
  BY <1>4, <1>5 DEF CrossedOn
<1>7. \A m : (CrossedOn(m) => CrossedOn(m)') /\ (m # n /\ Pointing(m) => Pointing(m)')
  BY <1>1, <1>2, <1>4, StepsKeep DEF Pointing
<1>8. \A m \in CustomNames : m # n /\ ~Unaccounted(m) => ~Unaccounted(m)'
  <2>1. SUFFICES ASSUME NEW m \in CustomNames, m # n, ~Unaccounted(m) PROVE ~Unaccounted(m)'
    OBVIOUS
  <2>2. ActiveRow(m)' = ActiveRow(m)
    BY <1>1, RowsAlone DEF Names
  <2> QED BY <1>7, <2>1, <2>2 DEF Unaccounted
<1>9. PointHasRow'
  BY <1>1, <1>4, StepsKeep DEF PointerInv, PointHasRow, At, Row
<1>10. ClearsOwn'
  <2>1. SUFFICES ASSUME NEW d \in Requests, req'[d].pc \in {"readOrg", "clear"}
                 PROVE  \A m : m = req'[d].name => ~Unaccounted(m)' /\ CrossedOn(n)'
    BY <1>2 DEF ClearsOwn, At
  <2>2. req[d].pc \in {"readOrg", "clear"} /\ req'[d] = req[d] /\ req[d].name \in CustomNames
    BY <1>1, <1>4, <2>1, CustomOnly
  <2>3. ~Unaccounted(req[d].name)
    BY <2>2 DEF PointerInv, ClearsOwn
  <2> QED BY <1>6, <1>8, <2>2, <2>3 DEF Unaccounted
<1>11. KeptInv' /\ PointsToLast'
  BY <1>2 DEF KeptInv, PointsToLast
<1>12. PointerHasDomain'
  <2>1. CASE row[Row(r)] \in Live
    <3>1. Row(r) \in LiveRows(n)
      BY <1>1, <1>2, <1>3, <2>1, RowOf DEF LiveRows
    <3>2. LiveRows(n)' # {}
      BY <1>1, <1>3, <3>1, RowsAlone
    <3> QED BY <1>2, <3>2 DEF PointerHasDomain, LiveRows, NameOf
  <2>2. CASE \E d \in Requests : <<r, d>> \in crossed
    <3>1. CrossedOn(n)'
      BY <1>4, <2>2, StepsKeep, <1>1 DEF CrossedOn
    <3> QED BY <1>2, <3>1 DEF PointerHasDomain, CrossedOn
  <2> QED BY <1>1, <2>1, <2>2 DEF PointerInv, PointHasRow, At
<1> QED BY <1>1, <1>9, <1>10, <1>11, <1>12, RowsAlone DEF PointerInv

(* A deletion reads that the pointer is its own domain's, or is done.      *)
LEMMA PointerReads ==
  ASSUME PointerInv, [Next]_vars, NEW r \in Requests, ReadOrg(r)
  PROVE  PointerInv'
<1>1. TypeInv /\ TypeInv' /\ UNCHANGED <<row, pointer, last, crossed>> /\ req[r].pc = "readOrg"
  BY StepsKeep DEF PointerInv, ReadOrg, At, apiVars
<1>2. req[r].op = "delete" /\ req[r].name \in CustomNames /\ req[r].name # None
  BY <1>1, NamesApart, NamesAssumption, CustomOnly DEF TypeInv, RequestShape
<1>3. /\ req'[r].pc = IF pointer = req[r].name THEN "clear" ELSE "ok"
      /\ req'[r].op = req[r].op /\ req'[r].name = req[r].name
      /\ \A q \in Requests : q # r => req'[q] = req[q]
  BY <1>1, Moved DEF ReadOrg, PCs, Ended, TypeInv
<1>4. \A n : (CrossedOn(n) => CrossedOn(n)') /\ (Pointing(n) => Pointing(n)')
  BY <1>1, <1>2, <1>3, StepsKeep DEF Pointing
<1>5. \A n \in CustomNames : ~Unaccounted(n) => ~Unaccounted(n)'
  <2>1. SUFFICES ASSUME NEW n \in CustomNames, ~Unaccounted(n) PROVE ~Unaccounted(n)'
    OBVIOUS
  <2>2. ActiveRow(n)' = ActiveRow(n)
    BY <1>1, RowsAlone DEF Names
  <2> QED BY <1>4, <2>1, <2>2 DEF Unaccounted
<1>6. PointHasRow'
  BY <1>1, <1>3, StepsKeep DEF PointerInv, PointHasRow, At, Row
<1>7. ClearsOwn'
  <2>1. SUFFICES ASSUME NEW d \in Requests, req'[d].pc \in {"readOrg", "clear"}
                 PROVE  /\ \A n : n = req'[d].name => ~Unaccounted(n)'
                        /\ req'[d].pc = "clear" => last = req'[d].name \/ CrossedOn(last)'
    BY <1>1 DEF ClearsOwn, At
  <2>2. /\ req[d].pc \in {"readOrg", "clear"} /\ req'[d].name = req[d].name
        /\ req[d].name \in CustomNames /\ ~Unaccounted(req[d].name)
    BY <1>1, <1>3, <2>1, CustomOnly DEF PointerInv, ClearsOwn
  <2>3. req'[d].pc = "clear" => last = req[d].name \/ CrossedOn(last)
    BY <1>1, <1>2, <1>3 DEF PointerInv, ClearsOwn, PointsToLast, At
  <2> QED BY <1>1, <1>4, <1>5, <2>2, <2>3
<1>8. KeptInv' /\ PointsToLast'
  BY <1>1, <1>5, CustomOnly DEF PointerInv, KeptInv, PointsToLast
<1>9. PointerHasDomain'
  <2>1. \A q \in Requests : Removing(q) /\ req[q].name = pointer => Removing(q)' /\ req'[q].name = pointer
    BY <1>1, <1>2, <1>3 DEF Removing
  <2>2. pointer # None => LiveRows(pointer)' = LiveRows(pointer)
    BY <1>1, RowsAlone, CustomOnly
  <2> QED BY <1>1, <1>4, <2>1, <2>2 DEF PointerInv, PointerHasDomain
<1> QED BY <1>1, <1>6, <1>7, <1>8, <1>9, RowsAlone DEF PointerInv

(* A deletion clears the pointer of its own domain.                        *)
LEMMA PointerClears ==
  ASSUME PointerInv, [Next]_vars, NEW r \in Requests, ClearPointer(r)
  PROVE  PointerInv'
<1>1. TypeInv /\ TypeInv' /\ UNCHANGED <<row, last, crossed>> /\ req[r].pc = "clear" /\ pointer' = None
  BY StepsKeep DEF PointerInv, ClearPointer, At
<1>2. req[r].op = "delete" /\ req[r].name \in CustomNames
  BY <1>1, CustomOnly DEF TypeInv, RequestShape
<1>3. req'[r].pc = "ok" /\ \A q \in Requests : q # r => req'[q] = req[q]
  BY <1>1, Moved DEF ClearPointer, PCs, Ended, TypeInv
<1>4. \A n : (CrossedOn(n) => CrossedOn(n)') /\ (Pointing(n) => Pointing(n)')
  BY <1>1, <1>2, <1>3, StepsKeep DEF Pointing
<1>5. \A n \in CustomNames : ~Unaccounted(n) => ~Unaccounted(n)'
  <2>1. SUFFICES ASSUME NEW n \in CustomNames, ~Unaccounted(n) PROVE ~Unaccounted(n)'
    OBVIOUS
  <2>2. ActiveRow(n)' = ActiveRow(n)
    BY <1>1, RowsAlone DEF Names
  <2> QED BY <1>4, <2>1, <2>2 DEF Unaccounted
<1>6. PointHasRow'
  BY <1>1, <1>3, StepsKeep DEF PointerInv, PointHasRow, At, Row
<1>7. ClearsOwn'
  <2>1. SUFFICES ASSUME NEW d \in Requests, req'[d].pc \in {"readOrg", "clear"}
                 PROVE  /\ \A n : n = req'[d].name => ~Unaccounted(n)'
                        /\ req'[d].pc = "clear" => last = req'[d].name \/ CrossedOn(last)'
    BY <1>1 DEF ClearsOwn, At
  <2>2. req'[d] = req[d]
    BY <1>3, <2>1
  <2> QED BY <1>1, <1>4, <1>5, <2>1, <2>2, CustomOnly DEF PointerInv, ClearsOwn, At
<1>8. KeptInv'
  <2>1. last = req[r].name \/ CrossedOn(last)
    BY <1>1 DEF PointerInv, ClearsOwn, At
  <2>2. last # None => ~Unaccounted(last)
    BY <1>1, <2>1 DEF PointerInv, ClearsOwn, Unaccounted
  <2> QED BY <1>1, <1>5, <2>2, CustomOnly DEF KeptInv
<1> QED BY <1>1, <1>6, <1>7, <1>8, RowsAlone DEF PointerInv, PointerHasDomain, PointsToLast

(* A request that is cut leaves what it was about to do to the exceptions. *)
LEMMA PointerCut ==
  ASSUME PointerInv, [Next]_vars, NEW r \in Requests, CutRequest(r)
  PROVE  PointerInv'
<1>1. TypeInv /\ TypeInv' /\ UNCHANGED <<row, pointer, last, crossed>>
  BY StepsKeep DEF PointerInv, CutRequest, apiVars
<1>2. /\ req'[r].pc = "cut" /\ req'[r].op = req[r].op /\ req'[r].name = req[r].name
      /\ \A q \in Requests : q # r => req'[q] = req[q]
  BY <1>1, Moved DEF CutRequest, PCs, Ended, TypeInv
<1>3. \A n : (CrossedOn(n) => CrossedOn(n)') /\ (Pointing(n) => Pointing(n)')
  BY <1>1, <1>2, StepsKeep DEF Pointing
<1>4. \A n \in CustomNames : ~Unaccounted(n) => ~Unaccounted(n)'
  <2>1. SUFFICES ASSUME NEW n \in CustomNames, ~Unaccounted(n) PROVE ~Unaccounted(n)'
    OBVIOUS
  <2>2. ActiveRow(n)' = ActiveRow(n)
    BY <1>1, RowsAlone DEF Names
  <2> QED BY <1>3, <2>1, <2>2 DEF Unaccounted
<1>5. PointHasRow'
  BY <1>1, <1>2, StepsKeep DEF PointerInv, PointHasRow, At, Row
<1>6. ClearsOwn'
  <2>1. SUFFICES ASSUME NEW d \in Requests, req'[d].pc \in {"readOrg", "clear"}
                 PROVE  /\ \A n : n = req'[d].name => ~Unaccounted(n)'
                        /\ req'[d].pc = "clear" => last = req'[d].name \/ CrossedOn(last)'
    BY <1>1 DEF ClearsOwn, At
  <2>2. req'[d] = req[d]
    BY <1>2, <2>1
  <2> QED BY <1>1, <1>3, <1>4, <2>1, <2>2, CustomOnly DEF PointerInv, ClearsOwn, At
<1>7. KeptInv' /\ PointsToLast'
  BY <1>1, <1>4, CustomOnly DEF PointerInv, KeptInv, PointsToLast
<1>8. PointerHasDomain'
  <2>1. \A q \in Requests : Removing(q) => Removing(q)' /\ req'[q].name = req[q].name
    BY <1>2 DEF Removing
  <2>2. pointer # None => LiveRows(pointer)' = LiveRows(pointer)
    BY <1>1, RowsAlone, CustomOnly
  <2> QED BY <1>1, <1>3, <2>1, <2>2 DEF PointerInv, PointerHasDomain
<1> QED BY <1>1, <1>5, <1>6, <1>7, <1>8, RowsAlone DEF PointerInv

LEMMA PointerStep == PointerInv /\ [Next]_vars => PointerInv'
<1> SUFFICES ASSUME PointerInv, [Next]_vars PROVE PointerInv'
  OBVIOUS
<1>0. TypeInv
  BY DEF PointerInv
<1>1. ASSUME NEW r \in Requests, RequestStep(r) \/ CutRequest(r) PROVE PointerInv'
  BY <1>0, <1>1, StepTable, PointerPlain, PointerActivates, PointerDeletes, PointerSets, PointerReads,
     PointerClears, PointerCut
<1>2. ASSUME NEW r \in Requests, Sends(r) PROVE PointerInv'
  <2>1. /\ UNCHANGED <<row, pointer, last>>
        /\ \A q \in Requests : req'[q].pc = req[q].pc \/ (req[q].pc = "idle" /\ req'[q].pc = "find")
    BY <1>0, <1>2, SendKeeps
  <2> QED BY <2>1, PointerAside
<1>3. ASSUME NEW r \in Requests, NEW k \in Kinds, Answer(r, k) PROVE PointerInv'
  <2>1. UNCHANGED <<row, pointer, last>>
    BY <1>3 DEF Answer, apiVars
  <2>2. \A q \in Requests : req'[q].pc = req[q].pc
    BY <1>0, <1>3, Settled DEF TypeInv
  <2> QED BY <2>1, <2>2, PointerAside
<1>4. CASE SwitchTab \/ (\E k \in Kinds : ReadList(k) \/ ShowList(k)) \/ UNCHANGED vars
  <2>1. UNCHANGED <<apiVars, req>>
    BY <1>0, <1>4, PageTyped
  <2> QED BY <2>1, PointerAside DEF apiVars
<1> QED BY <1>1, <1>2, <1>3, <1>4, StepKinds

LEMMA PointerImplied == PointerInv => PointerSound
<1> SUFFICES ASSUME PointerInv PROVE PointerKept
  BY DEF PointerInv, PointerSound
<1>1. SUFFICES ASSUME last # None, pointer # last, NEW w \in LiveRows(last), row[w] = "ACTIVE", ~CrossedOn(last)
               PROVE  \E r \in Requests : req[r].op = "verify" /\ req[r].pc \in {"point", "cut"}
  BY DEF PointerKept
<1>2. ActiveRow(last)
  BY <1>1 DEF ActiveRow, LiveRows
<1> QED BY <1>1, <1>2 DEF PointerInv, KeptInv, Unaccounted, Pointing

(* The organization points to a domain that exists, the one verified last, *)
(* but for a deletion at work or cut, and for a verification and a         *)
(* deletion whose writes overlapped (verifyDomain and deleteDomain).       *)
THEOREM PointerCorrect == Spec => []PointerSound
<1>1. Spec => []PointerInv
  BY PointerInitially, PointerStep, PTL DEF Spec
<1> QED BY <1>1, PointerImplied, PTL

-----------------------------------------------------------------------------
(* What a verification answers holds from then on.                         *)

(* A step of r that writes at most the row r is about, and leaves it       *)
(* active, gone, or with r still at work on it.                            *)
LEMMA ActiveByStep ==
  ASSUME TypeInv, ActiveInv, [Next]_vars, NEW r \in Requests,
         \A q \in Requests : q # r => req'[q] = req[q],
         \A w \in Rows : (row'[w] = row[w] \/ row[w] = "none" \/ (w = Row(r) /\ req[r].op # "add")),
         UNCHANGED row \/ req[r].op = "add" \/ row'[Row(r)] \in {"ACTIVE", "gone"}
           \/ (req[r].op = "verify" /\ req'[r].pc = "activate"),
         req[r].op = "verify" /\ req[r].pc \in {"activate", "cut"} /\ row'[Row(r)] \in Live =>
           req'[r].pc \in {"activate", "cut"} \/ row'[Row(r)] = "ACTIVE",
         req[r].op = "verify" /\ req'[r].pc \in {"point", "ok"} =>
           req[r].pc \in {"point", "ok"} \/ row'[Row(r)] = "ACTIVE",
         req[r].pc # "idle"
  PROVE  ActiveInv'
<1>1. SUFFICES ASSUME NEW s \in Requests, req'[s].op = "verify", req'[s].pc \in {"point", "ok"},
                      row'[Row(s)'] \in Live, row'[Row(s)'] # "ACTIVE"
               PROVE  \E q \in Requests :
                        Row(q)' = Row(s)' /\ req'[q].op = "verify" /\ req'[q].pc \in {"activate", "cut"}
  BY DEF ActiveInv, Verifying
<1>2. /\ req'[r].op = req[r].op /\ Row(r)' = Row(r)
      /\ \A q \in Requests : req'[q].op = req[q].op /\ Row(q)' = Row(q)
  BY StepsKeep DEF Row
<1>3. s # r => req[s].pc \in {"point", "ok"}
  BY <1>1
<1>4. req[s].pc # "idle" /\ req[s].op = "verify"
  BY <1>1, <1>2, <1>3
<1>5. Row(s) \in Rows /\ row[Row(s)] # "none"
  BY <1>4 DEF TypeInv, RequestShape, Row
<1>6. CASE row'[Row(s)] # row[Row(s)]
  <2>1. Row(s) = Row(r) /\ req[r].op # "add"
    BY <1>5, <1>6
  <2>2. req[r].op = "verify" /\ req'[r].pc = "activate"
    BY <1>1, <1>2, <1>6, <2>1 DEF Live
  <2> QED BY <1>2, <2>1, <2>2
<1>7. CASE row'[Row(s)] = row[Row(s)]
  <2>1. req[s].pc \in {"point", "ok"}
    BY <1>1, <1>2, <1>3, <1>4, <1>7
  <2>2. PICK q \in Requests : Row(q) = Row(s) /\ req[q].op = "verify" /\ req[q].pc \in {"activate", "cut"}
    BY <1>1, <1>2, <1>4, <1>7, <2>1 DEF ActiveInv, Verifying
  <2>3. req'[q].pc \in {"activate", "cut"}
    BY <1>1, <1>2, <2>2
  <2> QED BY <1>2, <2>2, <2>3
<1> QED BY <1>6, <1>7

LEMMA ActiveStep == TypeInv /\ ActiveInv /\ [Next]_vars => ActiveInv'
<1> SUFFICES ASSUME TypeInv, ActiveInv, [Next]_vars PROVE ActiveInv'
  OBVIOUS
<1>1. ASSUME NEW r \in Requests, RequestStep(r) \/ CutRequest(r) PROVE ActiveInv'
  <2>1. PICK pc \in PCs \ {"idle"} : Goto(r, pc)
    BY <1>1, StepMoves
  <2>2. /\ req'[r].pc = pc /\ req[r].pc # "idle" /\ \A q \in Requests : q # r => req'[q] = req[q]
        /\ \A to \in PCs : Goto(r, to) => pc = to
    BY <1>1, <2>1, StepMoves, Moved DEF TypeInv
  <2>3. {"activate", "point", "readOrg", "ok", "failed", "cut", "insert", "mark", "delete"} \subseteq PCs
    BY DEF PCs, Ended
  <2>4. row \in [Rows -> Statuses] /\ (req[r].op # "add" => Row(r) \in Rows)
    BY <2>2, RowOf DEF TypeInv, TypeOK
  <2>5. CASE Plain(r)
    BY <2>2, <2>3, <2>4, <2>5, ActiveByStep DEF Plain, apiVars, At
  <2>6. CASE Inserts(r)
    <3>1. req[r].op = "add" /\ row[r] = "none" /\ r \in Rows
      BY <2>2, <2>6, NamesApart DEF Inserts, At, TypeInv, RequestShape, RowsInserted
    <3>2. \A w \in Rows : row'[w] = row[w] \/ row[w] = "none"
      BY <2>4, <2>6, <3>1 DEF Inserts
    <3> QED BY <2>2, <3>1, <3>2, ActiveByStep
  <2>7. CASE Marks(r)
    <3>1. req[r].op = "verify" /\ req[r].pc = "mark" /\ pc = "activate"
      BY <2>2, <2>3, <2>7 DEF Marks, At, TypeInv, RequestShape
    <3>2. \A w \in Rows : row'[w] = row[w] \/ w = Row(r)
      BY <2>4, <2>7 DEF Marks
    <3> QED BY <2>2, <3>1, <3>2, ActiveByStep
  <2>8. CASE Activates(r)
    <3>1. req[r].op = "verify"
      BY <2>8 DEF Activates, At, TypeInv, RequestShape
    <3>2. row'[Row(r)] = "ACTIVE" /\ \A w \in Rows : row'[w] = row[w] \/ w = Row(r)
      BY <2>4, <2>8, <3>1 DEF Activates
    <3> QED BY <2>2, <3>1, <3>2, ActiveByStep
  <2>9. CASE Deletes(r)
    <3>1. req[r].op = "delete"
      BY <2>9 DEF Deletes, At, TypeInv, RequestShape
    <3>2. row'[Row(r)] = "gone" /\ \A w \in Rows : row'[w] = row[w] \/ w = Row(r)
      BY <2>4, <2>9, <3>1 DEF Deletes
    <3> QED BY <2>2, <3>1, <3>2, ActiveByStep
  <2>10. CASE SetPointer(r) \/ CutRequest(r)
    <3>1. UNCHANGED row /\ (req[r].pc = "point" \/ pc = "cut")
      BY <2>2, <2>3, <2>10 DEF SetPointer, CutRequest, At, apiVars
    <3>2. pc = "cut" \/ (pc = "ok" /\ req[r].pc = "point")
      BY <2>2, <2>3, <2>10 DEF SetPointer, CutRequest, At
    <3> QED BY <2>2, <3>1, <3>2, ActiveByStep
  <2>11. CASE ReadOrg(r) \/ ClearPointer(r)
    <3>1. UNCHANGED row /\ req[r].op = "delete"
      BY <2>11 DEF ReadOrg, ClearPointer, At, apiVars, TypeInv, RequestShape
    <3> QED BY <2>2, <3>1, ActiveByStep
  <2> QED BY <1>1, <2>5, <2>6, <2>7, <2>8, <2>9, <2>10, <2>11, StepTable
<1>2. ASSUME UNCHANGED row,
             \A q \in Requests : req'[q].pc = req[q].pc \/ (req[q].pc = "idle" /\ req'[q].pc = "find")
      PROVE  ActiveInv'
  <2>1. SUFFICES ASSUME NEW s \in Requests, req'[s].op = "verify", req'[s].pc \in {"point", "ok"},
                        row[Row(s)'] \in Live, row[Row(s)'] # "ACTIVE"
                 PROVE  \E q \in Requests :
                          Row(q)' = Row(s)' /\ req'[q].op = "verify" /\ req'[q].pc \in {"activate", "cut"}
    BY <1>2 DEF ActiveInv, Verifying
  <2>2. \A q \in Requests : req[q].pc # "idle" => req'[q].op = req[q].op /\ Row(q)' = Row(q)
    BY StepsKeep DEF Row
  <2>3. req[s].pc \in {"point", "ok"} /\ req[s].op = "verify" /\ Row(s)' = Row(s)
    BY <1>2, <2>1, <2>2
  <2>4. PICK q \in Requests : Row(q) = Row(s) /\ req[q].op = "verify" /\ req[q].pc \in {"activate", "cut"}
    BY <2>1, <2>3 DEF ActiveInv, Verifying
  <2> QED BY <1>2, <2>2, <2>3, <2>4
<1>3. ASSUME NEW r \in Requests, Sends(r) PROVE ActiveInv'
  <2>1. /\ UNCHANGED row
        /\ \A q \in Requests : req'[q].pc = req[q].pc \/ (req[q].pc = "idle" /\ req'[q].pc = "find")
    BY <1>3, SendKeeps
  <2> QED BY <2>1, <1>2
<1>4. ASSUME NEW r \in Requests, NEW k \in Kinds, Answer(r, k) PROVE ActiveInv'
  <2>1. UNCHANGED row
    BY <1>4 DEF Answer, apiVars
  <2>2. \A q \in Requests : req'[q].pc = req[q].pc
    BY <1>4, Settled DEF TypeInv
  <2> QED BY <2>1, <2>2, <1>2
<1>5. CASE SwitchTab \/ (\E k \in Kinds : ReadList(k) \/ ShowList(k)) \/ UNCHANGED vars
  <2>1. UNCHANGED <<apiVars, req>>
    BY <1>5, PageTyped
  <2> QED BY <2>1, <1>2 DEF apiVars
<1> QED BY <1>1, <1>3, <1>4, <1>5, StepKinds

(* A domain whose verification succeeded is active until it is deleted or  *)
(* another verification of it is at work (verifyDomain).                   *)
THEOREM ActiveCorrect == Spec => []VerifiedIsActive
<1>1. Init => ActiveInv
  BY DEF Init, ActiveInv
<1>2. Spec => [](TypeInv /\ ActiveInv)
  BY <1>1, Initially, TypeStep, ActiveStep, PTL DEF Spec
<1>3. ActiveInv => VerifiedIsActive
  BY DEF ActiveInv, VerifiedIsActive, Verifying, At
<1> QED BY <1>2, <1>3, PTL

-----------------------------------------------------------------------------
(* What a tab at rest shows.                                               *)

(* A request that runs while nobody else works is the tab's, and what it   *)
(* writes counts among its changes.                                        *)
LEMMA ChangeSeen ==
  ASSUME TypeInv, NEW r \in Requests, RequestStep(r) \/ CutRequest(r), Alone'
  PROVE  /\ Alone
         /\ \A w \in Rows : (row'[w] = row[w] /\ ~Changes(r, w)) \/ Changes(r, w)'
<1>1. PICK pc \in PCs \ {"idle"} : Goto(r, pc)
  BY StepMoves
<1>2. /\ req'[r].pc = pc /\ req'[r].op = req[r].op /\ req'[r].by = req[r].by
      /\ req'[r].on = req[r].on /\ \A q \in Requests : q # r => req'[q] = req[q]
      /\ \A to \in PCs : Goto(r, to) => pc = to
  BY <1>1, Moved DEF TypeInv
<1>3. {"activate", "point", "readOrg", "ok", "failed", "cut", "clear"} \subseteq PCs
  BY DEF PCs, Ended
<1>4. req[r].pc \notin Ended \cup {"idle"}
  BY StepMoves
<1>5. Alone /\ pc # "cut"
  BY <1>2, <1>4 DEF Alone, At, Ended
<1>6. req[r].by = "tab"
  BY <1>4, <1>5 DEF TypeInv, TypeOK, RequestShape, Alone, RequestStates
<1>7. row \in [Rows -> Statuses] /\ r \in Rows
  BY NamesApart DEF TypeInv, TypeOK
<1>8. SUFFICES ASSUME NEW w \in Rows
               PROVE  (row'[w] = row[w] /\ ~Changes(r, w)) \/ Changes(r, w)'
  BY <1>5
<1>9. CASE Plain(r)
  <2>1. row'[w] = row[w] /\ ~Changes(r, w)
    BY <1>9 DEF Plain, apiVars, Changes, At
  <2> QED BY <2>1
<1>10. CASE Inserts(r)
  <2>1. req[r].op = "add" /\ req[r].pc = "insert" /\ pc = "ok"
    BY <1>2, <1>3, <1>10 DEF Inserts, At, TypeInv, RequestShape
  <2>2. row' = [row EXCEPT ![r] = "PENDING"]
    BY <1>10 DEF Inserts
  <2> QED BY <1>2, <1>6, <1>7, <2>1, <2>2 DEF Changes
<1>11. CASE Marks(r)
  <2>1. req[r].op = "verify" /\ req[r].pc = "mark" /\ pc = "activate"
    BY <1>2, <1>3, <1>11 DEF Marks, At, TypeInv, RequestShape
  <2>2. row' = [row EXCEPT ![Row(r)] = "VERIFYING"]
    BY <1>11 DEF Marks
  <2> QED BY <1>2, <1>6, <1>7, <2>1, <2>2 DEF Changes, Row, Live
<1>12. CASE Activates(r)
  <2>1. req[r].op = "verify" /\ req[r].pc = "activate" /\ pc \in {"point", "ok"}
    BY <1>2, <1>3, <1>12 DEF Activates, At, TypeInv, RequestShape
  <2>2. row' = [row EXCEPT ![Row(r)] = "ACTIVE"]
    BY <1>12 DEF Activates
  <2> QED BY <1>2, <1>6, <1>7, <2>1, <2>2 DEF Changes, Row
<1>13. CASE Deletes(r)
  <2>1. req[r].op = "delete" /\ req[r].pc = "delete" /\ pc \in {"readOrg", "ok"}
    BY <1>2, <1>3, <1>13 DEF Deletes, At, TypeInv, RequestShape
  <2>2. row' = [row EXCEPT ![Row(r)] = "gone"]
    BY <1>13 DEF Deletes
  <2> QED BY <1>2, <1>6, <1>7, <2>1, <2>2 DEF Changes, Row
<1>14. CASE SetPointer(r)
  <2>1. req[r].op = "verify" /\ req[r].pc = "point" /\ pc = "ok" /\ UNCHANGED row
    BY <1>2, <1>3, <1>14 DEF SetPointer, At, TypeInv, RequestShape
  <2> QED BY <1>2, <1>6, <2>1 DEF Changes, Row
<1>15. CASE ReadOrg(r) \/ ClearPointer(r)
  <2>1. req[r].op = "delete" /\ req[r].pc \in {"readOrg", "clear"} /\ pc \in {"clear", "ok"} /\ UNCHANGED row
    BY <1>2, <1>3, <1>15 DEF ReadOrg, ClearPointer, At, TypeInv, RequestShape, apiVars
  <2> QED BY <1>2, <1>6, <2>1 DEF Changes, Row
<1>16. CASE CutRequest(r)
  BY <1>2, <1>3, <1>5, <1>16 DEF CutRequest
<1> QED BY <1>9, <1>10, <1>11, <1>12, <1>13, <1>14, <1>15, <1>16, StepTable

(* A listing that is right but for the rows being changed stays so.        *)
LEMMA RightStays ==
  ASSUME TypeInv, NEW r \in Requests, RequestStep(r) \/ CutRequest(r), Alone',
         NEW listing, NEW k \in Kinds, RightBut(listing, k)
  PROVE  RightBut(listing, k)'
<1>1. PICK pc \in PCs \ {"idle"} : Goto(r, pc)
  BY StepMoves
<1>2. (\A w \in Rows : NameOf(w)' = NameOf(w)) /\ \A q \in Requests : q # r => req'[q] = req[q]
  BY <1>1, Moved DEF TypeInv
<1>3. SUFFICES ASSUME NEW w \in Rows
               PROVE  listing[w] = Shown(k)'[w]
                      \/ (Kind(NameOf(w)) = k /\ \E q \in Requests : Changes(q, w)')
  BY <1>2 DEF RightBut, Kind
<1>4. row'[w] = row[w] \/ Kind(NameOf(w)) # k => Shown(k)'[w] = Shown(k)[w]
  BY <1>2 DEF Shown, Kind
<1>5. \A q \in Requests : q # r /\ row'[w] = row[w] /\ Changes(q, w) => Changes(q, w)'
  BY <1>2 DEF Changes, Row
<1> QED BY <1>4, <1>5, ChangeSeen DEF RightBut

(* A request that starts has changed nothing yet.                          *)
LEMMA RightAtStart ==
  ASSUME TypeInv, NEW r \in Requests, Sends(r), NEW listing, NEW k \in Kinds, RightBut(listing, k)
  PROVE  RightBut(listing, k)'
<1>1. /\ UNCHANGED row /\ req[r].pc = "idle" /\ req[r].by = None
      /\ \A w \in Rows : row[w] # "none" => NameOf(w)' = NameOf(w)
      /\ \A q \in Requests : q # r => req'[q] = req[q]
  BY SendKeeps DEF TypeInv, RequestShape
<1>2. row[r] = "none"
  BY <1>1 DEF TypeInv, RowsInserted
<1>3. SUFFICES ASSUME NEW w \in Rows
               PROVE  listing[w] = Shown(k)'[w]
                      \/ (Kind(NameOf(w)') = k /\ \E q \in Requests : Changes(q, w)')
  BY DEF RightBut, Kind
<1>4. Shown(k)'[w] = Shown(k)[w]
  <2>1. row'[w] = row[w] /\ (row[w] \in Live => NameOf(w)' = NameOf(w))
    BY <1>1 DEF Live
  <2> QED BY <2>1 DEF Shown, Kind
<1>5. ASSUME NEW q \in Requests, Changes(q, w) PROVE Changes(q, w)' /\ NameOf(w)' = NameOf(w)
  <2>1. q # r
    BY <1>1, <1>5, NamesApart DEF Changes
  <2>2. Changes(q, w)'
    BY <1>1, <1>5, <2>1 DEF Changes, Row
  <2>3. CASE w = q
    BY <1>1, <2>1, <2>2, <2>3, NamesApart DEF NameOf
  <2>4. CASE w # q
    <3>1. req[q].pc # "idle" /\ req[q].op # "add" /\ w = Row(q)
      BY <1>5, <2>4 DEF Changes
    <3> QED BY <1>1, <2>2, <3>1 DEF TypeInv, RequestShape, Row
  <2> QED BY <2>2, <2>3, <2>4
<1> QED BY <1>4, <1>5 DEF RightBut

(* An answer that invalidates no list of kind k is about a row of another  *)
(* kind, or about a request that changed none.                             *)
LEMMA RightAnswered ==
  ASSUME TypeInv, Alone, NEW r \in Requests, NEW j \in Kinds, Answer(r, j), Kind(req[r].name) = j,
         NEW listing, NEW k \in Kinds, RightBut(listing, k), j # k \/ ~At(r, "ok")
  PROVE  RightBut(listing, k)'
<1>1. /\ UNCHANGED row /\ req[r].by = "tab" /\ req[r].pc \in Ended
      /\ \A w \in Rows : NameOf(w)' = NameOf(w)
      /\ \A q \in Requests : q # r => req'[q] = req[q]
  BY AnswerTyped, Settled DEF Answer, apiVars, TypeInv
<1>2. SUFFICES ASSUME NEW w \in Rows
               PROVE  listing[w] = Shown(k)'[w]
                      \/ (Kind(NameOf(w)) = k /\ \E q \in Requests : Changes(q, w)')
  BY <1>1 DEF RightBut, Kind
<1>3. Shown(k)'[w] = Shown(k)[w]
  BY <1>1 DEF Shown, Kind
<1>4. \A q \in Requests : q # r /\ Changes(q, w) => Changes(q, w)'
  BY <1>1 DEF Changes, Row
<1>5. ~Changes(r, w) \/ Kind(NameOf(w)) # k
  <2>1. SUFFICES ASSUME Changes(r, w) PROVE Kind(NameOf(w)) # k
    OBVIOUS
  <2>2. At(r, "ok")
    BY <1>1, <2>1 DEF Changes, Ended, Alone, At
  <2>3. NameOf(w) = req[r].name
    <3>1. CASE w = r
      BY <3>1, NamesApart DEF NameOf
    <3>2. CASE w # r
      BY <2>1, <3>2, RowOf DEF Changes
    <3> QED BY <3>1, <3>2
  <2> QED BY <2>2, <2>3
<1> QED BY <1>3, <1>4, <1>5 DEF RightBut

LEMMA ListStep == TypeInv /\ ListInv /\ [Next]_vars => ListInv'
<1> SUFFICES ASSUME TypeInv, ListInv, [Next]_vars, Alone',
                    NEW k \in Kinds, ~fetch'[k].missed
             PROVE  /\ fetch'[k].at = "idle" => RightBut(list[k], k)'
                    /\ fetch'[k].at = "answered" => RightBut(fetch[k].rows, k)'
  BY DEF ListInv
<1> DEFINE Kept == /\ fetch[k].at = "idle" => RightBut(list[k], k)
                   /\ fetch[k].at = "answered" => RightBut(fetch[k].rows, k)
<1>1. ASSUME NEW r \in Requests, RequestStep(r) \/ CutRequest(r)
      PROVE  /\ fetch'[k].at = "idle" => RightBut(list[k], k)'
             /\ fetch'[k].at = "answered" => RightBut(fetch[k].rows, k)'
  <2>1. UNCHANGED <<list, fetch>>
    BY <1>1, StepMoves DEF pageVars
  <2>2. Kept
    BY <1>1, <2>1, ChangeSeen DEF ListInv
  <2>3. \A listing : RightBut(listing, k) => RightBut(listing, k)'
    BY <1>1, RightStays
  <2> QED BY <2>1, <2>2, <2>3 DEF RightBut
<1>2. ASSUME NEW r \in Requests, Sends(r)
      PROVE  /\ fetch'[k].at = "idle" => RightBut(list[k], k)'
             /\ fetch'[k].at = "answered" => RightBut(fetch[k].rows, k)'
  <2>1. UNCHANGED <<list, fetch>>
    BY <1>2, SendKeeps
  <2>2. Alone
    BY <1>2, SendKeeps, NamesApart DEF Alone, At, TypeInv, RequestShape
  <2>3. Kept
    BY <2>1, <2>2 DEF ListInv
  <2>4. \A listing : RightBut(listing, k) => RightBut(listing, k)'
    BY <1>2, RightAtStart
  <2> QED BY <2>1, <2>3, <2>4 DEF RightBut
<1>3. ASSUME NEW r \in Requests, NEW j \in Kinds, Answer(r, j), Kind(req[r].name) = j
      PROVE  /\ fetch'[k].at = "idle" => RightBut(list[k], k)'
             /\ fetch'[k].at = "answered" => RightBut(fetch[k].rows, k)'
  <2>1. Alone /\ UNCHANGED list
    BY <1>3, Settled DEF Alone, At, TypeInv, Answer
  <2>2. CASE j = k /\ At(r, "ok")
    BY <1>3, <2>2, Invalidated DEF Answer, TypeInv
  <2>3. CASE j # k \/ ~At(r, "ok")
    <3>1. fetch'[k] = fetch[k]
      BY <1>3, <2>3, Invalidated DEF Answer, TypeInv
    <3>2. Kept
      BY <2>1, <3>1 DEF ListInv
    <3>3. \A listing : RightBut(listing, k) => RightBut(listing, k)'
      BY <1>3, <2>1, <2>3, RightAnswered
    <3> QED BY <2>1, <3>1, <3>2, <3>3 DEF RightBut
  <2> QED BY <2>2, <2>3
<1>4. CASE SwitchTab \/ (\E j \in Kinds : ReadList(j) \/ ShowList(j)) \/ UNCHANGED vars
  <2>1. UNCHANGED <<row, req>>
    BY <1>4, PageTyped DEF apiVars
  <2>2. Alone
    BY <2>1 DEF Alone, At
  <2>3. \A w \in Rows : Shown(k)'[w] = Shown(k)[w] /\ NameOf(w)' = NameOf(w)
    BY <2>1 DEF Shown, NameOf, Kind
  <2>4. \A q \in Requests, w \in Rows : Changes(q, w)' = Changes(q, w)
    BY <2>1 DEF Changes, Row
  <2>5. \A listing : RightBut(listing, k) => RightBut(listing, k)'
    BY <2>3, <2>4 DEF RightBut, Kind
  <2>6. fetch \in [Kinds -> Fetches] /\ list \in [Kinds -> Listings]
    BY DEF TypeInv, TypeOK, Fetches, Listings
  <2>7. CASE SwitchTab
    <3>1. /\ UNCHANGED list
          /\ fetch'[k].at = "sent" \/ (fetch'[k].at = fetch[k].at /\ fetch'[k].missed = fetch[k].missed)
          /\ fetch'[k].rows = fetch[k].rows
      <4>1. PICK j \in Kinds :
              fetch' = [fetch EXCEPT ![j].at = IF @ = "stale" THEN "sent" ELSE @,
                                     ![j].missed = IF fetch[j].at = "stale" THEN FALSE ELSE @]
        BY <2>7 DEF SwitchTab
      <4>2. CASE j = k /\ fetch[k].at = "stale"
        <5>1. fetch' = [fetch EXCEPT ![k] = [fetch[k] EXCEPT !.at = "sent", !.missed = FALSE]]
          BY <2>6, <4>1, <4>2
        <5>2. fetch'[k] = [fetch[k] EXCEPT !.at = "sent", !.missed = FALSE] /\ fetch[k] \in Fetches
          BY <2>6, <5>1
        <5> QED BY <2>7, <5>2 DEF SwitchTab, Fetches
      <4>3. CASE j = k /\ fetch[k].at # "stale"
        BY <2>6, <2>7, <4>1, <4>3, ZenonT(40) DEF SwitchTab, Fetches
      <4>4. CASE j # k
        BY <2>6, <2>7, <4>1, <4>4 DEF SwitchTab, Fetches
      <4> QED BY <4>2, <4>3, <4>4
    <3> QED BY <2>2, <2>5, <3>1 DEF ListInv, RightBut
  <2>8. ASSUME NEW j \in Kinds, ReadList(j)
        PROVE  /\ fetch'[k].at = "idle" => RightBut(list[k], k)'
               /\ fetch'[k].at = "answered" => RightBut(fetch[k].rows, k)'
    <3>1. CASE j = k
      <4>1. fetch'[k].at = "answered" /\ fetch'[k].rows = Shown(k)
        BY <2>6, <2>8, <3>1 DEF ReadList, Fetches
      <4> QED BY <2>3, <4>1 DEF RightBut
    <3>2. CASE j # k
      <4>1. fetch'[k] = fetch[k] /\ UNCHANGED list
        BY <2>6, <2>8, <3>2 DEF ReadList, Fetches
      <4> QED BY <2>2, <2>5, <4>1 DEF ListInv, RightBut
    <3> QED BY <3>1, <3>2
  <2>9. ASSUME NEW j \in Kinds, ShowList(j)
        PROVE  /\ fetch'[k].at = "idle" => RightBut(list[k], k)'
               /\ fetch'[k].at = "answered" => RightBut(fetch[k].rows, k)'
    <3>1. CASE j = k
      <4>1. /\ fetch[k].at = "answered" /\ fetch'[k].at = "idle" /\ fetch'[k].missed = fetch[k].missed
            /\ list'[k] = fetch[k].rows
        BY <2>6, <2>9, <3>1 DEF ShowList, Fetches
      <4> QED BY <2>2, <2>5, <4>1 DEF ListInv, RightBut
    <3>2. CASE j # k
      <4>1. fetch'[k] = fetch[k] /\ list'[k] = list[k]
        BY <2>6, <2>9, <3>2 DEF ShowList, Fetches
      <4> QED BY <2>2, <2>5, <4>1 DEF ListInv, RightBut
    <3> QED BY <3>1, <3>2
  <2>10. CASE UNCHANGED vars
    BY <2>2, <2>5, <2>10 DEF vars, pageVars, ListInv, RightBut
  <2> QED BY <1>4, <2>7, <2>8, <2>9, <2>10
<1> QED BY <1>1, <1>2, <1>3, <1>4, StepKinds

LEMMA ListInitially == Init => ListInv
BY DEF Init, ListInv, RightBut, Kinds

LEMMA ListImplied == TypeInv /\ ListInv => ListFresh
<1> SUFFICES ASSUME TypeInv, ListInv, NEW k \in Kinds, Quiet, Alone, fetch[k].at = "idle", ~fetch[k].missed
             PROVE  list[k] = Shown(k)
  BY DEF ListFresh
<1>1. \A r \in Requests, w \in Rows : ~Changes(r, w)
  BY DEF Quiet, Changes
<1>2. \A w \in Rows : list[k][w] = Shown(k)[w]
  BY <1>1 DEF ListInv, RightBut
<1>3. list[k] \in Listings /\ Shown(k) \in Listings
  BY ShownTyped DEF TypeInv, TypeOK, Listings
<1> QED BY <1>2, <1>3 DEF Listings

(* When nobody else changes the domains and no request is cut, a tab at    *)
(* rest shows the rows as they are, but for a list whose fetch ran out of  *)
(* sight while a mutation of it succeeded (onSuccess of both tabs).        *)
THEOREM ListCorrect == Spec => []ListFresh
<1>1. Spec => [](TypeInv /\ ListInv)
  BY Initially, ListInitially, TypeStep, ListStep, PTL DEF Spec
<1> QED BY <1>1, ListImplied, PTL
=============================================================================
