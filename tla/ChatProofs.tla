----------------------------- MODULE ChatProofs -----------------------------
(***************************************************************************)
(* What a chat guarantees for any number of sends, clicks, pieces and      *)
(* faults: the types, that only a fault leaves a user's rate limit without *)
(* an expiry, that what the page shows as an answer is stored in the       *)
(* conversation it is shown in, and that the page loses nothing unless the *)
(* user moved between conversations while an answer was on its way.        *)
(***************************************************************************)
EXTENDS Chat, FiniteSetTheorems, TLAPS

-----------------------------------------------------------------------------
(* The inductive invariant.                                                *)

(* A send is counted once it has left the rate limit's INCR. *)
Counted == {s \in Sends : send[s].pc \notin {"idle", "limit"}}
CountBounded == rate.count <= Cardinality(Counted)

(* Sends start in order, and a send's conversation is an earlier one, or   *)
(* the one it has created itself.                                          *)
InOrder == \A s, t \in Sends : s < t /\ At(s, "idle") => At(t, "idle")
Before == {"idle", "limit", "expire", "open"}
Opened == {"ask", "prepare", "stream", "complete", "ended"}
SendOK(s) ==
  /\ At(s, "idle") => To(s) = None /\ ~send[s].byPage
  /\ To(s) <= s
  /\ To(s) # None => conv[To(s)] # "none"
  /\ conv[s] # "none" => To(s) = s
  /\ At(s, "open") => To(s) = None
  /\ send[s].pc \in Opened => To(s) # None

(* Headers, then pieces, then the last event; a completion event comes     *)
(* after the answer has been stored.                                       *)
Final == {"end", "error"}
Stored(s) == conv[To(s)] = "deleted" \/ Saved(s, "ASSISTANT")
WireOK(s) ==
  /\ wire[s] # <<>> => To(s) # None /\ wire[s][1] = "headers"
  /\ \A i \in 1 .. Len(wire[s]) :
       /\ wire[s][i] = "text" => i > 1 /\ i <= Pieces + 1
       /\ wire[s][i] = "headers" => i = 1
       /\ wire[s][i] \in Final => i = Len(wire[s]) /\ At(s, "ended")
       /\ wire[s][i] = "end" => Stored(s)
  /\ send[s].pc \in Before \cup {"ask", "prepare", "refused"} => wire[s] = <<>>
  /\ At(s, "stream") => wire[s] # <<>> /\ Len(wire[s]) <= Pieces + 1
  /\ At(s, "complete") => wire[s] # <<>> /\ Stored(s)
  /\ At(s, "ended") => wire[s] # <<>> /\ wire[s][Len(wire[s])] \in Final

(* A message is in the conversation of its send, and an answer is stored   *)
(* at the end of one.                                                      *)
LogOK(c) ==
  \A i \in 1 .. Len(log[c]) :
    LET m == log[c][i] IN
      /\ conv[c] = "live" /\ To(m.of) = c
      /\ m.role = "ASSISTANT" => send[m.of].pc \in {"complete", "ended", "cut"}

(* The page reads its latest send, and no further than was written.        *)
PageOK ==
  /\ page.shown # None => conv[page.shown] # "none"
  /\ \A l \in loads : conv[l.conv] # "none"
  /\ Sending =>
       /\ send[page.sending].byPage
       /\ \A t \in Sends : t > page.sending => ~send[t].byPage
       /\ page.read <= Len(wire[page.sending])
       /\ page.told => page.read >= 1 /\ page.text < page.read
       /\ ~page.told => page.read = 0 /\ page.text = 0

SendsInv == InOrder /\ \A s \in Sends : SendOK(s) /\ WireOK(s) /\ LogOK(s)
ChatInv == TypeOK /\ CountBounded /\ SendsInv /\ PageOK

(* What is on the page, or comes onto it, as an answer. *)
EntryOK(e) ==
  /\ e.kind \in {"answer", "partial"} => To(e.of) # None
  /\ e.kind = "answer" => Stored(e.of)
ViewOK ==
  /\ \A i \in 1 .. Len(page.view) : EntryOK(page.view[i])
  /\ \A l \in loads : \A i \in 1 .. Len(l.view) :
       EntryOK(l.view[i]) /\ l.view[i].kind # "partial"
         /\ (l.view[i].kind = "answer" => To(l.view[i].of) = l.conv)

(* While an undisturbed send of the page runs, nothing else arrives on it, *)
(* and what has been shown of the send stays.                              *)
Own(s) == send[s].byPage /\ s \notin disturbed
RunningOK(s) ==
  Own(s) /\ s \in Running =>
    /\ loads = {} /\ Shown(s, {"user"})
    /\ s # page.sending => Shown(s, {"offline"})
CurrentOK ==
  Sending /\ page.sending \notin disturbed =>
    /\ \/ page.shown = To(page.sending)
       \/ ~(page.told /\ HeaderExposed) /\ page.shown = None /\ To(page.sending) = page.sending
    /\ At(page.sending, "ended") /\ page.read = Len(wire[page.sending]) =>
         Shown(page.sending, {"answer", "partial"})

(* A conversation being fetched holds all its undisturbed sends wrote.     *)
Holds(view, s, kind) == \E i \in 1 .. Len(view) : view[i] = [kind |-> kind, of |-> s]
LoadOK(l) ==
  \A s \in Sends :
    Own(s) /\ To(s) = l.conv =>
      /\ Saved(s, "USER") => Holds(l.view, s, "user")
      /\ Saved(s, "ASSISTANT") => Holds(l.view, s, "answer")
LoadsOK == \A l \in loads : LoadOK(l)

Undisturbed ==
  /\ \A s \in Sends : RunningOK(s)
  /\ CurrentOK /\ LoadsOK
  /\ NothingLostUndisturbed /\ AnswerInItsConversation
PageInv == ChatInv /\ ViewOK /\ Undisturbed

-----------------------------------------------------------------------------
(* Sequences, and the steps of a send.                                     *)

LEMMA Appended ==
  ASSUME NEW T, NEW q \in Seq(T), NEW e \in T
  PROVE  /\ Append(q, e) \in Seq(T) /\ Len(Append(q, e)) = Len(q) + 1 /\ Len(q) \in Nat
         /\ Append(q, e)[Len(q) + 1] = e
         /\ \A i \in 1 .. Len(q) : Append(q, e)[i] = q[i]
OBVIOUS

LEMMA Domains ==
  ASSUME TypeOK
  PROVE  /\ \A c \in Convs : log[c] \in Seq(Message) /\ DOMAIN log[c] = 1 .. Len(log[c])
         /\ \A s \in Sends : wire[s] \in Seq(Events) /\ Len(wire[s]) \in Nat
         /\ page.view \in Seq(Entry) /\ DOMAIN page.view = 1 .. Len(page.view)
         /\ \A l \in loads : l.conv \in Convs /\ l.view \in Seq(Entry)
         /\ None \notin Sends
BY DEF TypeOK, Sends, None

(* What Goto does to a send. *)
LEMMA Went ==
  ASSUME TypeOK, NEW s \in Sends, NEW pc \in PCs, Goto(s, pc)
  PROVE  /\ send' \in [Sends -> [pc: PCs, byPage: BOOLEAN, to: Convs \cup {None},
                                 count: 0 .. MaxSends]]
         /\ send'[s].pc = pc /\ send'[s].byPage = send[s].byPage /\ send'[s].to = send[s].to
         /\ \A t \in Sends : t # s => send'[t] = send[t]
BY DEF TypeOK, Goto

LEMMA SendsFinite ==
  ASSUME NEW C \in SUBSET Sends
  PROVE  IsFiniteSet(C) /\ Cardinality(C) \in Nat /\ Cardinality(C) <= MaxSends
<1>1. IsFiniteSet(Sends) /\ Cardinality(Sends) = MaxSends
  BY FS_Interval, BoundsAssumption DEF Sends
<1>2. IsFiniteSet(C) /\ Cardinality(C) <= Cardinality(Sends)
  BY <1>1, FS_Subset
<1> QED BY <1>1, <1>2, FS_CardinalityType

-----------------------------------------------------------------------------
(* The count never exceeds the sends that were counted.                    *)

LEMMA CountStays ==
  ASSUME TypeOK, CountBounded, rate'.count \in Nat, rate'.count <= rate.count, Counted \subseteq Counted'
  PROVE  CountBounded'
<1>1. Counted \in SUBSET Sends /\ Counted' \in SUBSET Sends
  BY DEF Counted
<1>2. Cardinality(Counted) <= Cardinality(Counted')
  BY <1>1, SendsFinite, FS_Subset
<1>3. /\ Cardinality(Counted) \in Nat /\ Cardinality(Counted') \in Nat /\ rate.count \in Nat
  BY <1>1, SendsFinite DEF TypeOK
<1> QED BY <1>2, <1>3 DEF CountBounded

LEMMA CountGrows ==
  ASSUME TypeOK, CountBounded, NEW s \in Sends, Incr(s)
  PROVE  CountBounded' /\ rate'.count \in 0 .. MaxSends /\ rate.count + 1 \in 0 .. MaxSends
<1>1. Counted \in SUBSET Sends /\ Counted' \in SUBSET Sends
  BY DEF Counted
<1>2. s \notin Counted /\ Counted' = Counted \cup {s}
  BY DEF Incr, Counted, At, TypeOK, AfterLimit
<1>3. Cardinality(Counted') = Cardinality(Counted) + 1
  BY <1>1, <1>2, SendsFinite, FS_AddElement
<1>4. rate'.count = rate.count + 1 /\ rate.count \in Nat
  BY DEF Incr, TypeOK
<1>5. /\ Cardinality(Counted) \in Nat /\ Cardinality(Counted') \in Nat
      /\ Cardinality(Counted') <= MaxSends
  BY <1>1, SendsFinite
<1> QED BY <1>3, <1>4, <1>5, BoundsAssumption DEF CountBounded

(* Where a send goes on to, the Redis key aside. *)
LEMMA TypeGoto ==
  ASSUME TypeOK, CountBounded, NEW s \in Sends, NEW pc \in PCs \ {"idle", "limit"}, Goto(s, pc),
         rate'.count \in Nat, rate'.count <= rate.count
  PROVE  /\ send' \in [Sends -> [pc: PCs, byPage: BOOLEAN, to: Convs \cup {None},
                                 count: 0 .. MaxSends]]
         /\ CountBounded'
<1>1. send'[s].pc = pc /\ \A t \in Sends : t # s => send'[t] = send[t]
  BY Went
<1>2. Counted \subseteq Counted'
  BY <1>1 DEF Counted
<1> QED BY <1>2, CountStays, Went

-----------------------------------------------------------------------------
(* The type invariant is inductive.                                        *)

LEMMA TypeInit == Init => TypeOK /\ CountBounded
<1> SUFFICES ASSUME Init PROVE TypeOK /\ CountBounded
  OBVIOUS
<1>1. CountBounded
  <2>1. Counted \in SUBSET Sends /\ rate.count = 0
    BY DEF Counted, Init, NoKey
  <2> QED BY <2>1, SendsFinite DEF CountBounded
<1>2. TypeOK
  BY BoundsAssumption DEF Init, TypeOK, NoKey, PCs, None
<1> QED BY <1>1, <1>2

(* A history of at least the right type. *)
LEMMA FaultTyped ==
  ASSUME TypeOK, NEW kind, Fault(kind)
  PROVE  faults' \in 0 .. MaxFaults
BY BoundsAssumption DEF TypeOK, Fault

LEMMA InsertTyped ==
  ASSUME TypeOK, NEW s \in Sends, NEW role \in {"USER", "ASSISTANT"}, To(s) \in Convs,
         InsertMessage(s, role)
  PROVE  /\ log' \in [Convs -> Seq(Message)]
         /\ \A c \in Convs : c # To(s) => log'[c] = log[c]
         /\ log'[To(s)] = IF conv[To(s)] = "live" THEN Append(log[To(s)], [role |-> role, of |-> s])
                                                  ELSE log[To(s)]
<1>1. [role |-> role, of |-> s] \in Message
  BY DEF Message
<1>2. CASE conv[To(s)] = "live"
  <2>1. Append(log[To(s)], [role |-> role, of |-> s]) \in Seq(Message)
    BY <1>1, Appended DEF TypeOK
  <2> QED BY <1>2, <2>1 DEF InsertMessage, TypeOK
<1> QED BY <1>2 DEF InsertMessage, TypeOK

LEMMA WriteTyped ==
  ASSUME TypeOK, NEW s \in Sends, NEW event \in Events, Write(s, event)
  PROVE  /\ wire' \in [Sends -> Seq(Events)]
         /\ wire'[s] = Append(wire[s], event)
         /\ \A t \in Sends : t # s => wire'[t] = wire[t]
<1>1. Append(wire[s], event) \in Seq(Events)
  BY Appended DEF TypeOK
<1> QED BY <1>1 DEF Write, TypeOK

SendRecords == [pc: PCs, byPage: BOOLEAN, to: Convs \cup {None}, count: 0 .. MaxSends]
PageRecords == [shown: Convs \cup {None}, view: Seq(Entry), sending: Sends \cup {None},
                told: BOOLEAN, read: Nat, text: 0 .. Pieces]
ReadingRecords == [shown: Convs \cup {None}, view: Seq(Entry), sending: Sends,
                   told: BOOLEAN, read: Nat, text: 0 .. Pieces]

LEMMA ShowTyped ==
  ASSUME NEW p \in ReadingRecords, NEW kind \in {"user", "answer", "partial", "wrong", "offline"}
  PROVE  Show(p, kind) \in ReadingRecords
<1>1. Append(p.view, [kind |-> kind, of |-> p.sending]) \in Seq(Entry)
  BY Appended DEF Entry, ReadingRecords
<1> QED BY <1>1 DEF Show, ReadingRecords

LEMMA PageRead ==
  ASSUME NEW n \in Nat, NEW t \in 0 .. Pieces
  PROVE  /\ \A p \in PageRecords : [p EXCEPT !.read = n, !.text = t] \in PageRecords
         /\ \A p \in ReadingRecords : [p EXCEPT !.read = n, !.text = t] \in ReadingRecords
BY Zenon DEF PageRecords, ReadingRecords

LEMMA PageSends ==
  ASSUME NEW p \in PageRecords, NEW v \in Seq(Entry), NEW s \in Sends \cup {None}, 0 \in 0 .. Pieces,
         0 \in Nat
  PROVE  [p EXCEPT !.view = v, !.sending = s, !.told = FALSE, !.read = 0, !.text = 0] \in PageRecords
BY Zenon DEF PageRecords

LEMMA Recounted ==
  ASSUME NEW r \in SendRecords, NEW pc \in PCs, NEW n \in 0 .. MaxSends
  PROVE  [r EXCEPT !.count = n, !.pc = pc] \in SendRecords
BY Zenon DEF SendRecords

LEMMA Redirected ==
  ASSUME NEW r \in SendRecords, NEW pc \in PCs, NEW c \in Convs \cup {None}
  PROVE  [r EXCEPT !.pc = pc, !.to = c] \in SendRecords
BY Zenon DEF SendRecords

LEMMA TypeSendStep ==
  ASSUME ChatInv, NEW s \in Sends, SendStep(s)
  PROVE  TypeOK' /\ CountBounded'
<1>0. TypeOK /\ CountBounded
  BY DEF ChatInv
<1> USE DEF TypeOK
<1>a. UNCHANGED pageVars
  BY DEF SendStep, Incr, Expire, OpenConversation, Ask, FlushHeaders, StreamPiece, SaveAnswer, Complete
<1>b. /\ page' \in PageRecords
      /\ loads' \subseteq [conv: Convs, view: Seq(Entry)]
      /\ clicks' \in 0 .. MaxClicks /\ disturbed' \subseteq Sends /\ faults' \in 0 .. MaxFaults
  BY <1>0, <1>a DEF pageVars, PageRecords
<1>c. rate.count \in Nat /\ rate.count <= rate.count
  BY <1>0
<1>1. ASSUME Incr(s)
      PROVE  /\ rate' \in [count: 0 .. MaxSends, expires: BOOLEAN, orphan: BOOLEAN] /\ CountBounded'
             /\ send' \in [Sends -> SendRecords] /\ UNCHANGED <<conv, log, wire>>
  <2>1. CountBounded' /\ rate.count + 1 \in 0 .. MaxSends
    BY <1>0, <1>1, CountGrows
  <2>2. rate' \in [count: 0 .. MaxSends, expires: BOOLEAN, orphan: BOOLEAN]
    BY <1>0, <1>1, <2>1 DEF Incr
  <2>3. AfterLimit(s, rate.count + 1) \in PCs
    BY DEF AfterLimit, PCs
  <2>4. PICK pc \in PCs : send' = [send EXCEPT ![s].count = rate.count + 1, ![s].pc = pc]
    BY <1>1, <2>3 DEF Incr, PCs
  <2>5. send' = [send EXCEPT ![s] = [send[s] EXCEPT !.count = rate.count + 1, !.pc = pc]]
    BY <1>0, <2>4
  <2>6. send \in [Sends -> SendRecords]
    BY <1>0 DEF SendRecords
  <2>7. [send[s] EXCEPT !.count = rate.count + 1, !.pc = pc] \in SendRecords
    <3>1. send[s] \in SendRecords
      BY <2>6
    <3> QED BY <2>1, <3>1, Recounted, Zenon
  <2>8. send' \in [Sends -> SendRecords]
    BY <2>5, <2>6, <2>7
  <2> QED BY <1>1, <2>1, <2>2, <2>8 DEF Incr
<1>2. ASSUME Expire(s)
      PROVE  /\ rate' \in [count: 0 .. MaxSends, expires: BOOLEAN, orphan: BOOLEAN] /\ CountBounded'
             /\ send' \in [Sends -> SendRecords] /\ UNCHANGED <<conv, log, wire>>
  <2>1. AfterLimit(s, send[s].count) \in PCs \ {"idle", "limit"}
    BY DEF AfterLimit, PCs
  <2>2. /\ rate' \in [count: 0 .. MaxSends, expires: BOOLEAN, orphan: BOOLEAN]
        /\ rate'.count = rate.count
    BY <1>0, <1>2 DEF Expire
  <2>3. PICK pc \in PCs \ {"idle", "limit"} : Goto(s, pc)
    BY <1>2, <2>1 DEF Expire
  <2>4. send' \in [Sends -> SendRecords] /\ CountBounded'
    BY <1>0, <1>c, <2>2, <2>3, TypeGoto DEF SendRecords
  <2> QED BY <1>2, <2>2, <2>4 DEF Expire
<1>3. ASSUME OpenConversation(s)
      PROVE  /\ rate' = rate /\ CountBounded' /\ conv' \in [Convs -> {"none", "live", "deleted"}]
             /\ send' \in [Sends -> SendRecords] /\ UNCHANGED <<log, wire>>
  <2>1. send' = [send EXCEPT ![s] = [send[s] EXCEPT !.pc = "ask", !.to = s]]
    BY <1>0, <1>3 DEF OpenConversation
  <2>2. [send[s] EXCEPT !.pc = "ask", !.to = s] \in SendRecords
    <3>1. send[s] \in SendRecords /\ s \in Convs \cup {None} /\ "ask" \in PCs
      BY <1>0 DEF SendRecords, Convs, PCs
    <3> QED BY <3>1, Redirected
  <2>3. send' \in [Sends -> SendRecords]
    BY <1>0, <2>1, <2>2 DEF SendRecords
  <2>4. Counted \subseteq Counted'
    BY <1>0, <1>3 DEF OpenConversation, Counted
  <2> QED BY <1>0, <1>3, <1>c, <2>3, <2>4, CountStays DEF OpenConversation
<1>4. ASSUME NEW pc \in PCs \ {"idle", "limit"}, Goto(s, pc), rate' = rate
      PROVE  send' \in [Sends -> SendRecords] /\ CountBounded'
  BY <1>0, <1>c, <1>4, TypeGoto DEF SendRecords
<1>5. send[s].pc \in Opened => To(s) \in Convs
  BY <1>0 DEF ChatInv, SendsInv, SendOK, To
<1>6. ASSUME Ask(s)
      PROVE  /\ log' \in [Convs -> Seq(Message)] /\ send' \in [Sends -> SendRecords] /\ CountBounded'
             /\ UNCHANGED <<conv, rate, wire>>
  <2>1. log' \in [Convs -> Seq(Message)]
    BY <1>0, <1>5, <1>6, InsertTyped DEF Ask, At, Opened
  <2>2. PICK pc \in PCs \ {"idle", "limit"} : Goto(s, pc)
    BY <1>6 DEF Ask, PCs
  <2> QED BY <1>4, <1>6, <2>1, <2>2 DEF Ask
<1>7. ASSUME FlushHeaders(s)
      PROVE  /\ wire' \in [Sends -> Seq(Events)] /\ send' \in [Sends -> SendRecords] /\ CountBounded'
             /\ UNCHANGED <<conv, log, rate>>
  <2>1. <<"headers">> \in Seq(Events)
    BY DEF Events
  <2>2. PICK pc \in PCs \ {"idle", "limit"} : Goto(s, pc)
    BY <1>7 DEF FlushHeaders, PCs
  <2>3. wire' \in [Sends -> Seq(Events)]
    BY <1>0, <1>7, <2>1 DEF FlushHeaders
  <2> QED BY <1>4, <1>7, <2>2, <2>3 DEF FlushHeaders
<1>8. ASSUME StreamPiece(s)
      PROVE  /\ wire' \in [Sends -> Seq(Events)] /\ CountBounded' /\ UNCHANGED <<conv, log, rate, send>>
  <2>1. wire' \in [Sends -> Seq(Events)]
    BY <1>0, <1>8, WriteTyped DEF StreamPiece, Events
  <2> QED BY <1>0, <1>8, <2>1 DEF StreamPiece, CountBounded, Counted
<1>9. ASSUME SaveAnswer(s)
      PROVE  /\ log' \in [Convs -> Seq(Message)] /\ send' \in [Sends -> SendRecords] /\ CountBounded'
             /\ wire' \in [Sends -> Seq(Events)] /\ UNCHANGED <<conv, rate>>
  <2>1. log' \in [Convs -> Seq(Message)]
    BY <1>0, <1>5, <1>9, InsertTyped DEF SaveAnswer, At, Opened
  <2>2. PICK pc \in PCs \ {"idle", "limit"} : Goto(s, pc)
    BY <1>9 DEF SaveAnswer, PCs
  <2>3. wire' \in [Sends -> Seq(Events)]
    BY <1>0, <1>9, WriteTyped DEF SaveAnswer, Events
  <2> QED BY <1>4, <1>9, <2>1, <2>2, <2>3 DEF SaveAnswer
<1>10. ASSUME Complete(s)
      PROVE  /\ send' \in [Sends -> SendRecords] /\ CountBounded'
             /\ wire' \in [Sends -> Seq(Events)] /\ UNCHANGED <<conv, log, rate>>
  <2>1. PICK event \in Events : Write(s, event)
    BY <1>10 DEF Complete, Events
  <2>2. wire' \in [Sends -> Seq(Events)]
    BY <1>0, <2>1, WriteTyped
  <2> QED BY <1>4, <1>10, <2>2 DEF Complete, PCs
<1> QED
  BY <1>0, <1>b, <1>1, <1>2, <1>3, <1>6, <1>7, <1>8, <1>9, <1>10 DEF SendStep, SendRecords, PageRecords

LEMMA TypeBreak ==
  ASSUME ChatInv, NEW s \in Sends, CallFails(s) \/ CutSend(s)
  PROVE  TypeOK' /\ CountBounded'
<1>0. TypeOK /\ CountBounded
  BY DEF ChatInv
<1>1. /\ faults' \in 0 .. MaxFaults
      /\ UNCHANGED <<conv, log, page, loads, clicks, disturbed>>
  BY <1>0, FaultTyped DEF CallFails, CutSend
<1>2. /\ rate' \in [count: 0 .. MaxSends, expires: BOOLEAN, orphan: BOOLEAN]
      /\ rate'.count = rate.count /\ rate.count \in Nat
  <2>1. rate' = [rate EXCEPT !.orphan = rate.orphan \/ At(s, "expire")]
    BY DEF CallFails, CutSend
  <2>2. (rate.orphan \/ At(s, "expire")) \in BOOLEAN /\ rate.count \in Nat
    BY <1>0 DEF TypeOK
  <2>3. PICK b \in BOOLEAN : rate' = [rate EXCEPT !.orphan = b]
    BY <2>1, <2>2
  <2> QED BY <1>0, <2>2, <2>3 DEF TypeOK
<1>3. PICK pc \in PCs \ {"idle", "limit"} : Goto(s, pc)
  BY DEF CallFails, CutSend, PCs
<1>4. send' \in [Sends -> SendRecords] /\ CountBounded'
  BY <1>0, <1>2, <1>3, TypeGoto DEF SendRecords
<1>5. wire' \in [Sends -> Seq(Events)]
  <2>1. wire' = wire \/ Write(s, "error")
    BY DEF CallFails, CutSend
  <2> QED BY <1>0, <2>1, WriteTyped DEF TypeOK, Events
<1> QED BY <1>0, <1>1, <1>2, <1>4, <1>5 DEF TypeOK, SendRecords

LEMMA BeginTyped ==
  ASSUME TypeOK, CountBounded, NEW s \in Sends, NEW c \in Convs \cup {None}, NEW b \in BOOLEAN,
         Begin(s, c, b)
  PROVE  /\ send' \in [Sends -> SendRecords]
         /\ send'[s] = [pc |-> FirstPC, byPage |-> b, to |-> c, count |-> 0]
         /\ \A t \in Sends : t # s => send'[t] = send[t]
         /\ Counted \subseteq Counted'
<1>1. [pc |-> FirstPC, byPage |-> b, to |-> c, count |-> 0] \in SendRecords
  BY BoundsAssumption DEF SendRecords, PCs, FirstPC
<1>2. /\ send' \in [Sends -> SendRecords]
      /\ send'[s] = [pc |-> FirstPC, byPage |-> b, to |-> c, count |-> 0]
      /\ \A t \in Sends : t # s => send'[t] = send[t]
  BY <1>1 DEF Begin, TypeOK, SendRecords
<1>3. send[s].pc = "idle"
  BY DEF Begin, At
<1> QED BY <1>2, <1>3 DEF Counted

LEMMA TypeBegin ==
  ASSUME ChatInv, NEW s \in Sends, CallApi(s) \/ SendMessage(s)
  PROVE  TypeOK' /\ CountBounded'
<1>0. TypeOK /\ CountBounded
  BY DEF ChatInv
<1>1. /\ UNCHANGED <<serverVars, loads, clicks, faults>>
      /\ \E c \in Convs \cup {None}, b \in BOOLEAN : Begin(s, c, b)
  BY <1>0 DEF CallApi, SendMessage, pageVars, TypeOK
<1>2. send' \in [Sends -> SendRecords] /\ CountBounded'
  <2>1. send' \in [Sends -> SendRecords] /\ Counted \subseteq Counted'
    BY <1>0, <1>1, BeginTyped
  <2>2. rate' = rate /\ rate.count \in Nat
    BY <1>0, <1>1 DEF serverVars, TypeOK
  <2> QED BY <1>0, <2>1, <2>2, CountStays
<1>3. page' \in PageRecords /\ disturbed' \subseteq Sends
  <2>1. CASE CallApi(s)
    BY <1>0, <2>1 DEF CallApi, pageVars, TypeOK, PageRecords
  <2>2. CASE SendMessage(s)
    <3>1. [kind |-> "user", of |-> s] \in Entry
      BY DEF Entry
    <3>2. Append(page.view, [kind |-> "user", of |-> s]) \in Seq(Entry)
      BY <1>0, <3>1, Appended, Domains
    <3>3. page' = [page EXCEPT !.view = Append(page.view, [kind |-> "user", of |-> s]),
                               !.sending = s, !.told = FALSE, !.read = 0, !.text = 0]
      BY <2>2 DEF SendMessage
    <3>4. page' \in PageRecords
      <4>1. page \in PageRecords /\ 0 \in 0 .. Pieces /\ s \in Sends \cup {None}
        BY <1>0, BoundsAssumption DEF TypeOK, PageRecords
      <4> QED BY <3>2, <3>3, <4>1, PageSends
    <3>5. disturbed' \subseteq Sends
      BY <1>0, <2>2 DEF SendMessage, Disturb, TypeOK
    <3> QED BY <3>4, <3>5
  <2> QED BY <2>1, <2>2
<1> QED BY <1>0, <1>1, <1>2, <1>3 DEF TypeOK, SendRecords, PageRecords, serverVars

LEMMA PageFields ==
  ASSUME TypeOK
  PROVE  /\ page.shown \in Convs \cup {None} /\ page.sending \in Sends \cup {None}
         /\ page.view \in Seq(Entry) /\ page.told \in BOOLEAN /\ page.read \in Nat
         /\ page.text \in 0 .. Pieces
         /\ Sending => page.sending \in Sends
BY DEF TypeOK, Sending

(* What a step of the page does to the page. *)
LEMMA TextFits ==
  ASSUME ChatInv, ReadText
  PROVE  page.text + 1 \in 0 .. Pieces
<1>1. /\ page.sending \in Sends /\ page.read \in Nat /\ page.text \in Nat /\ page.text < page.read
      /\ page.read < Len(wire[page.sending]) /\ wire[page.sending][page.read + 1] = "text"
      /\ Len(wire[page.sending]) \in Nat
  BY PageFields, Domains DEF ChatInv, PageOK, ReadText, HasEvent, NextEvent
<1>2. page.read + 1 \in 1 .. Len(wire[page.sending])
  BY <1>1
<1>3. page.read + 1 <= Pieces + 1
  BY <1>1, <1>2 DEF ChatInv, SendsInv, WireOK
<1> QED BY <1>1, <1>3, BoundsAssumption

LEMMA TypePage ==
  ASSUME ChatInv, PageStep \/ SplitEvent \/ Disconnect \/ StartNewChat
                  \/ \E c \in Convs : ClickConversation(c)
  PROVE  TypeOK' /\ CountBounded'
<1>0. TypeOK /\ CountBounded
  BY DEF ChatInv
<1>a. UNCHANGED <<conv, log, rate, wire, send>>
  BY DEF PageStep, ReadHeaders, ReadText, ReadLast, ResponseEnds, ServerGone, LoseConnection,
     LoadArrives, SplitEvent, Disconnect, StartNewChat, ClickConversation, serverVars
<1>b. CountBounded'
  BY <1>0, <1>a DEF CountBounded, Counted
<1>c. page \in PageRecords
  BY <1>0 DEF TypeOK, PageRecords
<1>1. faults' \in 0 .. MaxFaults
  BY <1>0, FaultTyped DEF PageStep, ReadHeaders, ReadText, ReadLast, ResponseEnds, ServerGone,
     LoseConnection, LoadArrives, SplitEvent, Disconnect, StartNewChat, ClickConversation, TypeOK
<1>2. clicks' \in 0 .. MaxClicks
  <2>1. clicks' = clicks \/ (clicks < MaxClicks /\ clicks' = clicks + 1)
    BY DEF PageStep, ReadHeaders, ReadText, ReadLast, ResponseEnds, ServerGone, LoseConnection,
       LoadArrives, SplitEvent, Disconnect, StartNewChat, ClickConversation
  <2> QED BY <1>0, <2>1, BoundsAssumption DEF TypeOK
<1>3. disturbed' \subseteq Sends
  <2>1. Running \subseteq Sends /\ (HasEvent => page.sending \in Sends)
    BY <1>0, PageFields DEF Running, HasEvent
  <2> QED
    BY <1>0, <2>1 DEF PageStep, ReadHeaders, ReadText, ReadLast, ResponseEnds, ServerGone,
       LoseConnection, LoadArrives, SplitEvent, Disconnect, StartNewChat, ClickConversation, TypeOK,
       Disturb
<1>4. loads' \subseteq [conv: Convs, view: Seq(Entry)]
  <2>1. ASSUME NEW c \in Convs, ClickConversation(c)
        PROVE  loads' \subseteq [conv: Convs, view: Seq(Entry)]
    <3>1. \A i \in 1 .. Len(log[c]) :
            [kind |-> IF log[c][i].role = "USER" THEN "user" ELSE "answer", of |-> log[c][i].of]
              \in Entry
      <4>1. \A i \in 1 .. Len(log[c]) : log[c][i] \in Message
        BY <1>0, Domains
      <4> QED BY <4>1 DEF Entry, Message
    <3>2. Snapshot(c) \in [1 .. Len(log[c]) -> Entry] /\ Len(log[c]) \in Nat
      BY <1>0, <3>1, Domains DEF Snapshot
    <3>3. Snapshot(c) \in Seq(Entry)
      BY <3>2
    <3> QED BY <1>0, <2>1, <3>3 DEF ClickConversation, TypeOK
  <2>2. CASE ~\E c \in Convs : ClickConversation(c)
    BY <1>0, <2>2 DEF PageStep, ReadHeaders, ReadText, ReadLast, ResponseEnds, ServerGone,
       LoseConnection, LoadArrives, SplitEvent, Disconnect, StartNewChat, TypeOK
  <2> QED BY <2>1, <2>2
<1>5. page' \in PageRecords
  <2>1. CASE ReadHeaders
    BY <1>0, <1>c, <2>1, PageFields DEF ReadHeaders, PageRecords, Convs
  <2>2. CASE ReadText
    <3>1. page' = [page EXCEPT !.read = page.read + 1, !.text = page.text + 1]
          /\ page.read + 1 \in Nat /\ page.text + 1 \in 0 .. Pieces
      BY <1>0, <2>2, PageFields, TextFits DEF ReadText
    <3> QED BY <1>c, <3>1, PageRead
  <2>3. CASE ReadLast
    <3>1. page \in ReadingRecords /\ page.read + 1 \in Nat /\ 0 \in 0 .. Pieces
      BY <1>0, <1>c, <2>3, PageFields, BoundsAssumption
      DEF PageRecords, ReadingRecords, ReadLast, HasEvent
    <3>2. [page EXCEPT !.read = page.read + 1, !.text = 0] \in ReadingRecords
      BY <3>1, PageRead
    <3> QED BY <2>3, <3>2, ShowTyped DEF ReadLast, PageRecords, ReadingRecords
  <2>4. CASE SplitEvent
    BY <1>c, <2>4 DEF SplitEvent, PageRecords
  <2>5. CASE ResponseEnds
    BY <1>c, <2>5 DEF ResponseEnds, PageRecords
  <2>6. CASE ServerGone \/ Disconnect
    <3>1. page \in ReadingRecords
      BY <1>0, <1>c, <2>6, PageFields DEF PageRecords, ReadingRecords, ServerGone, Disconnect
    <3>2. Show(page, "offline") \in PageRecords
      BY <3>1, ShowTyped DEF PageRecords, ReadingRecords
    <3> QED BY <2>6, <3>2 DEF ServerGone, Disconnect, LoseConnection, PageRecords
  <2>7. ASSUME NEW l \in loads, LoadArrives(l) PROVE page' \in PageRecords
    BY <1>0, <1>c, <2>7, Domains DEF LoadArrives, PageRecords
  <2>8. CASE StartNewChat
    <3>1. <<>> \in Seq(Entry)
      OBVIOUS
    <3> QED BY <1>c, <2>8, <3>1 DEF StartNewChat, PageRecords
  <2>9. CASE \E c \in Convs : ClickConversation(c)
    BY <1>c, <2>9 DEF ClickConversation
  <2> QED BY <2>1, <2>2, <2>3, <2>4, <2>5, <2>6, <2>7, <2>8, <2>9 DEF PageStep
<1> QED BY <1>0, <1>a, <1>b, <1>1, <1>2, <1>3, <1>4, <1>5 DEF TypeOK, PageRecords

LEMMA TypeStep == ChatInv /\ [Next]_vars => TypeOK' /\ CountBounded'
<1> SUFFICES ASSUME ChatInv, [Next]_vars PROVE TypeOK' /\ CountBounded'
  OBVIOUS
<1>0. TypeOK /\ CountBounded
  BY DEF ChatInv
<1>1. ASSUME NEW c \in Convs, DeleteConversation(c) PROVE TypeOK' /\ CountBounded'
  <2>1. <<>> \in Seq(Message)
    OBVIOUS
  <2>2. log' \in [Convs -> Seq(Message)] /\ conv' \in [Convs -> {"none", "live", "deleted"}]
    BY <1>0, <1>1, <2>1 DEF DeleteConversation, TypeOK
  <2> QED BY <1>0, <1>1, <2>2 DEF DeleteConversation, TypeOK, pageVars, CountBounded, Counted
<1>2. CASE WindowEnds
  <2>1. rate' \in [count: 0 .. MaxSends, expires: BOOLEAN, orphan: BOOLEAN] /\ rate'.count = 0
    BY <1>2, BoundsAssumption DEF WindowEnds, NoKey
  <2>2. CountBounded'
    <3>1. Counted' \in SUBSET Sends
      BY DEF Counted
    <3> QED BY <2>1, <3>1, SendsFinite DEF CountBounded
  <2> QED BY <1>0, <1>2, <2>1, <2>2 DEF WindowEnds, TypeOK, pageVars
<1>3. CASE UNCHANGED vars
  BY <1>0, <1>3 DEF vars, TypeOK, CountBounded, Counted
<1> QED
  BY <1>1, <1>2, <1>3, TypeSendStep, TypeBreak, TypeBegin, TypePage DEF Next

-----------------------------------------------------------------------------
(* The steps by what they do to the server's state.                        *)

Keeps(s, pc) ==
  /\ send'[s].pc = pc /\ send'[s].byPage = send[s].byPage /\ send'[s].to = send[s].to
  /\ \A t \in Sends : t # s => send'[t] = send[t]

Steady == UNCHANGED <<conv, log, wire, send>>
Begins(s, c, b) ==
  /\ send[s].pc = "idle" /\ \A r \in Sends : r < s => send[r].pc # "idle"
  /\ c # None => conv[c] # "none"
  /\ send'[s] = [pc |-> FirstPC, byPage |-> b, to |-> c, count |-> 0]
  /\ \A t \in Sends : t # s => send'[t] = send[t]
  /\ UNCHANGED <<conv, log, wire>>
Moves(s, pc) ==
  /\ \/ send[s].pc \in {"limit", "expire"} /\ pc \in {"expire", "refused"}
     \/ send[s].pc \in {"limit", "expire"} /\ pc = "open" /\ To(s) = None
     \/ send[s].pc \in {"limit", "expire"} /\ pc = "ask" /\ To(s) # None
     \/ send[s].pc \in {"open", "ask", "prepare"} /\ pc = "refused"
     \/ send[s].pc \notin Over \cup {"idle"} /\ pc = "cut"
  /\ Keeps(s, pc) /\ UNCHANGED <<conv, log, wire>>
Opens(s) ==
  /\ send[s].pc = "open" /\ conv' = [conv EXCEPT ![s] = "live"]
  /\ send'[s].pc = "ask" /\ send'[s].byPage = send[s].byPage /\ send'[s].to = s
  /\ \A t \in Sends : t # s => send'[t] = send[t]
  /\ UNCHANGED <<log, wire>>
Inserts(s, role, pc) ==
  /\ \/ role = "USER" /\ send[s].pc = "ask" /\ pc = "prepare"
     \/ role = "ASSISTANT" /\ send[s].pc = "stream" /\ pc = "complete"
  /\ To(s) \in Convs /\ conv[To(s)] = "live"
  /\ log'[To(s)] = Append(log[To(s)], [role |-> role, of |-> s])
  /\ \A c \in Convs : c # To(s) => log'[c] = log[c]
  /\ Keeps(s, pc) /\ UNCHANGED <<conv, wire>>
Writes(s, event, pc) ==
  /\ \/ event = "headers" /\ send[s].pc = "prepare" /\ pc = "stream" /\ To(s) \in Convs
     \/ event = "text" /\ send[s].pc = "stream" /\ pc = "stream" /\ Written(s) < Pieces
     \/ event = "error" /\ send[s].pc \in {"stream", "complete"} /\ pc = "ended"
     \/ event = "end" /\ send[s].pc = "complete" /\ pc = "ended"
  /\ wire'[s] = Append(wire[s], event) /\ \A t \in Sends : t # s => wire'[t] = wire[t]
  /\ Keeps(s, pc) /\ UNCHANGED <<conv, log>>
Deletes(c) ==
  /\ conv[c] = "live" /\ conv' = [conv EXCEPT ![c] = "deleted"] /\ log' = [log EXCEPT ![c] = <<>>]
  /\ UNCHANGED <<send, wire>>

StepTable ==
  \/ Steady
  \/ \E s \in Sends, c \in Convs \cup {None}, b \in BOOLEAN : Begins(s, c, b)
  \/ \E s \in Sends :
       \/ \E pc \in PCs : Moves(s, pc)
       \/ Opens(s)
       \/ \E role \in {"USER", "ASSISTANT"}, pc \in PCs : Inserts(s, role, pc)
       \/ \E event \in Events, pc \in PCs : Writes(s, event, pc)
       \/ Deletes(s)

LEMMA SendStepTable ==
  ASSUME ChatInv, NEW s \in Sends, SendStep(s)
  PROVE  \/ \E pc \in PCs : Moves(s, pc)
         \/ Opens(s)
         \/ \E role \in {"USER", "ASSISTANT"}, pc \in PCs : Inserts(s, role, pc)
         \/ \E event \in Events, pc \in PCs : Writes(s, event, pc)
<1>0. TypeOK /\ SendOK(s) /\ WireOK(s)
  BY DEF ChatInv, SendsInv
<1>a. send[s].pc \in Opened => To(s) \in Convs
  BY <1>0 DEF SendOK, To, TypeOK
<1>b. ASSUME NEW pc \in PCs, Goto(s, pc) PROVE Keeps(s, pc)
  BY <1>0, <1>b, Went DEF Keeps
<1>1. CASE Incr(s)
  <2> DEFINE to == IF rate.count = 0 THEN "expire" ELSE AfterLimit(s, rate.count + 1)
  <2>a. /\ to \in {"expire", "refused", "open", "ask"}
        /\ to = "open" => To(s) = None
        /\ to = "ask" => To(s) # None
    BY DEF AfterLimit
  <2>b. send' = [send EXCEPT ![s].count = rate.count + 1, ![s].pc = to]
    BY <1>1 DEF Incr
  <2> HIDE DEF to
  <2>1. PICK pc \in {"expire", "refused", "open", "ask"} :
          /\ send' = [send EXCEPT ![s].count = rate.count + 1, ![s].pc = pc]
          /\ pc = "open" => To(s) = None
          /\ pc = "ask" => To(s) # None
    BY <2>a, <2>b
  <2>2. Keeps(s, pc) /\ pc \in PCs
    BY <1>0, <2>1 DEF Keeps, TypeOK, PCs
  <2> QED BY <1>1, <2>1, <2>2 DEF Incr, At, Moves
<1>2. CASE Expire(s)
  <2>1. PICK pc \in {"refused", "open", "ask"} :
          /\ Goto(s, pc)
          /\ pc = "open" => To(s) = None
          /\ pc = "ask" => To(s) # None
    BY <1>2 DEF Expire, AfterLimit
  <2>2. Keeps(s, pc) /\ pc \in PCs
    BY <1>b, <2>1 DEF PCs
  <2> QED BY <1>2, <2>1, <2>2 DEF Expire, At, Moves
<1>3. CASE OpenConversation(s)
  BY <1>0, <1>3 DEF OpenConversation, Opens, At, TypeOK
<1>4. CASE Ask(s)
  <2>1. To(s) \in Convs /\ send[s].pc = "ask"
    BY <1>4, <1>a DEF Ask, At, Opened
  <2>2. CASE conv[To(s)] = "live"
    <3>1. Keeps(s, "prepare") /\ "prepare" \in PCs
      BY <1>4, <1>b, <2>2 DEF Ask, PCs
    <3>2. Inserts(s, "USER", "prepare")
      BY <1>0, <1>4, <2>1, <2>2, <3>1, InsertTyped DEF Ask, Inserts
    <3> QED BY <3>1, <3>2
  <2>3. CASE conv[To(s)] # "live"
    <3>1. Keeps(s, "refused") /\ "refused" \in PCs
      BY <1>4, <1>b, <2>3 DEF Ask, PCs
    <3>2. Moves(s, "refused")
      BY <1>4, <2>1, <2>3, <3>1 DEF Ask, Moves, InsertMessage
    <3> QED BY <3>1, <3>2
  <2> QED BY <2>2, <2>3
<1>5. CASE FlushHeaders(s)
  <2>1. To(s) \in Convs /\ send[s].pc = "prepare"
    BY <1>5, <1>a DEF FlushHeaders, At, Opened
  <2>2. CASE conv[To(s)] = "live"
    <3>1. Keeps(s, "stream") /\ "stream" \in PCs
      BY <1>5, <1>b, <2>2 DEF FlushHeaders, PCs
    <3>2. wire[s] = <<>>
      BY <1>0, <2>1 DEF WireOK
    <3>3. wire'[s] = Append(wire[s], "headers") /\ \A t \in Sends : t # s => wire'[t] = wire[t]
      BY <1>0, <1>5, <2>2, <3>2 DEF FlushHeaders, TypeOK
    <3>4. Writes(s, "headers", "stream")
      BY <1>5, <2>1, <2>2, <3>1, <3>3 DEF FlushHeaders, Writes
    <3> QED BY <3>1, <3>4 DEF Events
  <2>3. CASE conv[To(s)] # "live"
    <3>1. Keeps(s, "refused") /\ "refused" \in PCs
      BY <1>5, <1>b, <2>3 DEF FlushHeaders, PCs
    <3>2. Moves(s, "refused")
      BY <1>5, <2>1, <2>3, <3>1 DEF FlushHeaders, Moves
    <3> QED BY <3>1, <3>2
  <2> QED BY <2>2, <2>3
<1>6. CASE StreamPiece(s)
  <2>1. Keeps(s, "stream") /\ send[s].pc = "stream"
    BY <1>6 DEF StreamPiece, Keeps, At
  <2>2. wire'[s] = Append(wire[s], "text") /\ \A t \in Sends : t # s => wire'[t] = wire[t]
    BY <1>0, <1>6, WriteTyped DEF StreamPiece, Events
  <2>3. Writes(s, "text", "stream")
    BY <1>6, <2>1, <2>2 DEF StreamPiece, Writes
  <2> QED BY <2>3 DEF Events, PCs
<1>7. CASE SaveAnswer(s)
  <2>1. To(s) \in Convs /\ send[s].pc = "stream"
    BY <1>7, <1>a DEF SaveAnswer, At, Opened
  <2>2. CASE conv[To(s)] = "live"
    <3>1. Keeps(s, "complete") /\ "complete" \in PCs
      BY <1>7, <1>b, <2>2 DEF SaveAnswer, PCs
    <3>2. Inserts(s, "ASSISTANT", "complete")
      BY <1>0, <1>7, <2>1, <2>2, <3>1, InsertTyped DEF SaveAnswer, Inserts
    <3> QED BY <3>1, <3>2
  <2>3. CASE conv[To(s)] # "live"
    <3>1. Keeps(s, "ended") /\ "ended" \in PCs /\ Write(s, "error") /\ "error" \in Events
      BY <1>7, <1>b, <2>3 DEF SaveAnswer, PCs, Events
    <3>2. wire'[s] = Append(wire[s], "error") /\ \A t \in Sends : t # s => wire'[t] = wire[t]
      BY <1>0, <3>1, WriteTyped
    <3>3. Writes(s, "error", "ended")
      BY <1>7, <2>1, <2>3, <3>1, <3>2 DEF SaveAnswer, InsertMessage, Writes
    <3> QED BY <3>1, <3>3
  <2> QED BY <2>2, <2>3
<1>8. CASE Complete(s)
  <2>1. PICK event \in {"end", "error"} : Write(s, event)
    BY <1>8 DEF Complete
  <2>2. Keeps(s, "ended") /\ send[s].pc = "complete" /\ "ended" \in PCs /\ event \in Events
    BY <1>8, <1>b DEF Complete, At, PCs, Events
  <2>3. wire'[s] = Append(wire[s], event) /\ \A t \in Sends : t # s => wire'[t] = wire[t]
    BY <1>0, <2>1, <2>2, WriteTyped
  <2>4. Writes(s, event, "ended")
    BY <1>8, <2>1, <2>2, <2>3 DEF Complete, Writes
  <2> QED BY <2>2, <2>4
<1> QED BY <1>1, <1>2, <1>3, <1>4, <1>5, <1>6, <1>7, <1>8 DEF SendStep

LEMMA StepsInTable == ChatInv /\ [Next]_vars => StepTable
<1> SUFFICES ASSUME ChatInv, [Next]_vars PROVE StepTable
  OBVIOUS
<1>0. TypeOK /\ CountBounded
  BY DEF ChatInv
<1>1. ASSUME NEW s \in Sends, CallFails(s) \/ CutSend(s) PROVE StepTable
  <2>1. CASE CutSend(s)
    <3>1. Keeps(s, "cut") /\ "cut" \in PCs
      BY <1>0, <2>1, Went DEF CutSend, Keeps, PCs
    <3>2. Moves(s, "cut")
      BY <2>1, <3>1 DEF CutSend, Moves
    <3> QED BY <3>1, <3>2 DEF StepTable
  <2>2. CASE Goto(s, "refused") /\ UNCHANGED <<conv, log, wire>>
             /\ send[s].pc \in {"limit", "expire", "open", "ask", "prepare"}
    <3>1. Keeps(s, "refused") /\ "refused" \in PCs
      BY <1>0, <2>2, Went DEF Keeps, PCs
    <3>2. Moves(s, "refused")
      BY <2>2, <3>1 DEF Moves
    <3> QED BY <3>1, <3>2 DEF StepTable
  <2>3. CASE Goto(s, "ended") /\ UNCHANGED <<conv, log>> /\ Write(s, "error")
             /\ send[s].pc \in {"stream", "complete"}
    <3>1. Keeps(s, "ended") /\ "ended" \in PCs /\ "error" \in Events
      BY <1>0, <2>3, Went DEF Keeps, PCs, Events
    <3>2. wire'[s] = Append(wire[s], "error") /\ \A t \in Sends : t # s => wire'[t] = wire[t]
      BY <1>0, <2>3, <3>1, WriteTyped
    <3>3. Writes(s, "error", "ended")
      BY <2>3, <3>1, <3>2 DEF Writes
    <3> QED BY <3>1, <3>3 DEF StepTable
  <2> QED BY <1>1, <2>1, <2>2, <2>3 DEF CallFails
<1>2. ASSUME NEW s \in Sends, CallApi(s) \/ SendMessage(s) PROVE StepTable
  <2>1. PICK c \in Convs \cup {None}, b \in BOOLEAN : Begin(s, c, b) /\ (c # None => conv[c] # "none")
    BY <1>0, <1>2, PageFields DEF CallApi, SendMessage, ChatInv, PageOK
  <2>2. /\ send'[s] = [pc |-> FirstPC, byPage |-> b, to |-> c, count |-> 0]
        /\ \A t \in Sends : t # s => send'[t] = send[t]
    BY <1>0, <2>1, BeginTyped
  <2>3. send[s].pc = "idle" /\ \A r \in Sends : r < s => send[r].pc # "idle"
    BY <2>1 DEF Begin, At, Sends
  <2>4. UNCHANGED <<conv, log, wire>>
    BY <1>2 DEF CallApi, SendMessage, serverVars
  <2>5. Begins(s, c, b)
    BY <2>1, <2>2, <2>3, <2>4 DEF Begins
  <2> QED BY <2>5 DEF StepTable
<1>3. ASSUME NEW c \in Convs, DeleteConversation(c) PROVE StepTable
  BY <1>3 DEF DeleteConversation, Deletes, StepTable, Convs
<1>4. CASE PageStep \/ SplitEvent \/ Disconnect \/ StartNewChat \/ WindowEnds \/ UNCHANGED vars
           \/ \E c \in Convs : ClickConversation(c)
  BY <1>4 DEF PageStep, ReadHeaders, ReadText, ReadLast, ResponseEnds, ServerGone, LoseConnection,
     LoadArrives, SplitEvent, Disconnect, StartNewChat, ClickConversation, WindowEnds, vars,
     serverVars, Steady, StepTable
<1>5. ASSUME NEW s \in Sends, SendStep(s) PROVE StepTable
  BY <1>5, SendStepTable DEF StepTable
<1> QED BY <1>1, <1>2, <1>3, <1>4, <1>5 DEF Next

-----------------------------------------------------------------------------
(* The rate limit.                                                         *)

LEMMA LimitStep ==
  ASSUME ChatInv, LockedOutOnlyByFault, [Next]_vars
  PROVE  LockedOutOnlyByFault'
<1>0. TypeOK
  BY DEF ChatInv
<1> DEFINE Giving(s) == send[s].pc = "expire" /\ send[s].count = 1
<1>1. ASSUME UNCHANGED rate,
             \A s \in Sends : Giving(s) => send'[s].pc = "expire" /\ send'[s].count = 1
      PROVE  LockedOutOnlyByFault'
  BY <1>1 DEF LockedOutOnlyByFault, At
<1>2. ASSUME NEW s \in Sends, Incr(s) PROVE LockedOutOnlyByFault'
  <2>1. /\ send[s].pc = "limit" /\ rate' = [rate EXCEPT !.count = rate.count + 1]
        /\ send'[s].count = rate.count + 1 /\ (rate.count = 0 => send'[s].pc = "expire")
        /\ \A t \in Sends : t # s => send'[t] = send[t]
    BY <1>0, <1>2 DEF Incr, At, TypeOK
  <2>2. rate'.orphan = rate.orphan /\ rate'.expires = rate.expires /\ rate.count \in Nat
    BY <1>0, <2>1 DEF TypeOK
  <2>3. CASE rate.count = 0
    BY <2>1, <2>3 DEF LockedOutOnlyByFault, At
  <2>4. CASE rate.count > 0 /\ (rate.expires \/ rate.orphan)
    BY <2>2, <2>4 DEF LockedOutOnlyByFault
  <2>5. CASE rate.count > 0 /\ ~rate.expires /\ ~rate.orphan
    <3>1. PICK t \in Sends : At(t, "expire") /\ send[t].count = 1
      BY <2>5 DEF LockedOutOnlyByFault
    <3>2. t # s
      BY <2>1, <3>1 DEF At
    <3> QED BY <2>1, <3>1, <3>2 DEF LockedOutOnlyByFault, At
  <2> QED BY <2>2, <2>3, <2>4, <2>5
<1>3. ASSUME NEW s \in Sends, Expire(s) PROVE LockedOutOnlyByFault'
  BY <1>0, <1>3 DEF Expire, TypeOK, LockedOutOnlyByFault
<1>4. ASSUME NEW s \in Sends, CallFails(s) \/ CutSend(s) PROVE LockedOutOnlyByFault'
  <2>1. /\ rate' = [rate EXCEPT !.orphan = rate.orphan \/ At(s, "expire")]
        /\ \E pc \in PCs : Goto(s, pc)
    BY <1>4 DEF CallFails, CutSend, PCs
  <2>2. \A t \in Sends : t # s => send'[t] = send[t]
    BY <1>0, <2>1, Went
  <2>3. /\ rate'.count = rate.count /\ rate'.expires = rate.expires
        /\ rate'.orphan = (rate.orphan \/ At(s, "expire"))
    BY <1>0, <2>1, Zenon DEF TypeOK
  <2>4. ASSUME NEW t \in Sends, Giving(t), t # s PROVE At(t, "expire")' /\ send'[t].count = 1
    BY <2>2, <2>4 DEF At
  <2>5. ASSUME Giving(s) PROVE At(s, "expire")
    BY <2>5 DEF At
  <2> HIDE DEF Giving
  <2>6. LockedOutOnlyByFault =>
          (rate.count > 0 /\ ~rate.expires => rate.orphan \/ \E t \in Sends : Giving(t))
    BY DEF LockedOutOnlyByFault, Giving, At
  <2> QED BY <2>3, <2>4, <2>5, <2>6 DEF LockedOutOnlyByFault
<1>5. CASE WindowEnds
  BY <1>5 DEF WindowEnds, NoKey, LockedOutOnlyByFault
<1>6. ASSUME NEW s \in Sends, CallApi(s) \/ SendMessage(s) PROVE LockedOutOnlyByFault'
  <2>1. /\ UNCHANGED rate /\ send[s].pc = "idle"
        /\ \E rec : send' = [send EXCEPT ![s] = rec]
    BY <1>6 DEF CallApi, SendMessage, serverVars, Begin, At
  <2>2. \A t \in Sends : t # s => send'[t] = send[t]
    BY <1>0, <2>1 DEF TypeOK
  <2> QED BY <1>1, <2>1, <2>2
<1>7. ASSUME NEW s \in Sends, Ask(s) \/ FlushHeaders(s) \/ SaveAnswer(s) \/ Complete(s) \/ StreamPiece(s)
      PROVE  LockedOutOnlyByFault'
  <2>1. UNCHANGED rate /\ send[s].pc # "expire" /\ (send' = send \/ \E pc \in PCs : Goto(s, pc))
    BY <1>7 DEF Ask, FlushHeaders, SaveAnswer, Complete, StreamPiece, PCs, At
  <2>2. \A t \in Sends : t # s => send'[t] = send[t]
    BY <1>0, <2>1, Went
  <2> QED BY <1>1, <2>1, <2>2
<1>8. ASSUME NEW s \in Sends, OpenConversation(s) PROVE LockedOutOnlyByFault'
  <2>1. UNCHANGED rate /\ send[s].pc # "expire" /\ \A t \in Sends : t # s => send'[t] = send[t]
    BY <1>0, <1>8 DEF OpenConversation, At, TypeOK
  <2> QED BY <1>1, <2>1
<1>9. CASE UNCHANGED <<rate, send>>
  BY <1>1, <1>9
<1>10. CASE PageStep \/ SplitEvent \/ Disconnect \/ StartNewChat \/ UNCHANGED vars
            \/ \E c \in Convs : ClickConversation(c) \/ DeleteConversation(c)
  BY <1>9, <1>10 DEF PageStep, ReadHeaders, ReadText, ReadLast, ResponseEnds, ServerGone,
     LoseConnection, LoadArrives, SplitEvent, Disconnect, StartNewChat, ClickConversation,
     DeleteConversation, vars, serverVars
<1> QED
  BY <1>2, <1>3, <1>4, <1>5, <1>6, <1>7, <1>8, <1>10 DEF Next, SendStep

-----------------------------------------------------------------------------
(* What the steps keep of the server's state.                              *)

LEMMA LogSteps ==
  ASSUME TypeOK, StepTable, NEW c \in Convs
  PROVE  \/ log'[c] = log[c] /\ (conv'[c] = conv[c] \/ (conv'[c] = "live" /\ Opens(c)))
         \/ conv'[c] = "deleted" /\ log'[c] = <<>>
         \/ \E s \in Sends, role \in {"USER", "ASSISTANT"}, pc \in PCs :
              Inserts(s, role, pc) /\ To(s) = c
<1>1. ASSUME NEW s \in Sends, Opens(s)
      PROVE  log'[c] = log[c] /\ (conv'[c] = conv[c] \/ (conv'[c] = "live" /\ Opens(c)))
  <2>1. log' = log /\ conv' = [conv EXCEPT ![s] = "live"]
    BY <1>1 DEF Opens
  <2>2. CASE s = c
    BY <1>1, <2>1, <2>2 DEF TypeOK
  <2>3. CASE s # c
    BY <2>1, <2>3 DEF TypeOK
  <2> QED BY <2>2, <2>3
<1>2. ASSUME NEW s \in Sends, Deletes(s)
      PROVE  \/ log'[c] = log[c] /\ conv'[c] = conv[c]
             \/ conv'[c] = "deleted" /\ log'[c] = <<>>
  BY <1>2 DEF Deletes, TypeOK
<1>3. ASSUME NEW s \in Sends, NEW role \in {"USER", "ASSISTANT"}, NEW pc \in PCs, Inserts(s, role, pc)
      PROVE  To(s) = c \/ (log'[c] = log[c] /\ conv'[c] = conv[c])
  BY <1>3 DEF Inserts
<1>4. CASE Steady \/ \E s \in Sends : \/ \E b \in BOOLEAN, d \in Convs \cup {None} : Begins(s, d, b)
                                      \/ \E pc \in PCs : Moves(s, pc)
                                      \/ \E pc \in PCs, event \in Events : Writes(s, event, pc)
  BY <1>4 DEF Steady, Begins, Moves, Writes
<1> QED BY <1>1, <1>2, <1>3, <1>4 DEF StepTable

LEMMA LogGrows ==
  ASSUME TypeOK, StepTable, NEW c \in Convs, NEW i \in 1 .. Len(log[c])
  PROVE  conv'[c] = "deleted" \/ (i \in 1 .. Len(log'[c]) /\ log'[c][i] = log[c][i])
<1>1. ASSUME NEW s \in Sends, NEW role \in {"USER", "ASSISTANT"}, NEW pc \in PCs,
             Inserts(s, role, pc), To(s) = c
      PROVE  i \in 1 .. Len(log'[c]) /\ log'[c][i] = log[c][i]
  <2>1. [role |-> role, of |-> s] \in Message /\ log[c] \in Seq(Message)
    BY DEF Message, TypeOK
  <2>2. log'[c] = Append(log[c], [role |-> role, of |-> s])
    BY <1>1 DEF Inserts
  <2> HIDE DEF Message
  <2> QED BY <2>1, <2>2, Appended
<1> QED BY <1>1, LogSteps

(* What a step does to one send. *)
LEMMA SendSteps ==
  ASSUME TypeOK, StepTable, NEW s \in Sends
  PROVE  \/ send'[s] = send[s]
         \/ \E c \in Convs \cup {None}, b \in BOOLEAN : Begins(s, c, b)
         \/ Opens(s)
         \/ \E pc \in PCs : Moves(s, pc)
         \/ \E pc \in PCs, role \in {"USER", "ASSISTANT"} : Inserts(s, role, pc)
         \/ \E pc \in PCs, event \in Events : Writes(s, event, pc)
<1>1. ASSUME NEW t \in Sends, NEW c \in Convs \cup {None}, NEW b \in BOOLEAN, Begins(t, c, b)
      PROVE  send'[s] = send[s] \/ Begins(s, c, b)
  BY <1>1 DEF Begins
<1>2. ASSUME NEW t \in Sends, Opens(t) PROVE send'[s] = send[s] \/ Opens(s)
  BY <1>2 DEF Opens
<1>3. ASSUME NEW t \in Sends, NEW pc \in PCs, Keeps(t, pc) PROVE send'[s] = send[s] \/ s = t
  BY <1>3 DEF Keeps
<1>4. ASSUME NEW t \in Sends, NEW pc \in PCs, Moves(t, pc) PROVE send'[s] = send[s] \/ Moves(s, pc)
  BY <1>3, <1>4 DEF Moves
<1>5. ASSUME NEW t \in Sends, NEW pc \in PCs, NEW role \in {"USER", "ASSISTANT"}, Inserts(t, role, pc)
      PROVE  send'[s] = send[s] \/ Inserts(s, role, pc)
  BY <1>3, <1>5 DEF Inserts
<1>6. ASSUME NEW t \in Sends, NEW pc \in PCs, NEW event \in Events, Writes(t, event, pc)
      PROVE  send'[s] = send[s] \/ Writes(s, event, pc)
  BY <1>3, <1>6 DEF Writes
<1>7. Steady \/ (\E t \in Sends : Deletes(t)) => send'[s] = send[s]
  BY DEF Steady, Deletes
<1> QED BY <1>1, <1>2, <1>4, <1>5, <1>6, <1>7 DEF StepTable

(* A send keeps the conversation it has, and what is stored stays stored   *)
(* until its conversation is deleted.                                      *)
LEMMA ToStays ==
  ASSUME TypeOK, StepTable, NEW s \in Sends, SendOK(s)
  PROVE  /\ To(s) # None => To(s)' = To(s) /\ To(s) \in Convs
         /\ send[s].pc # "idle" => send'[s].byPage = send[s].byPage /\ send'[s].pc # "idle"
         /\ send'[s].pc = "idle" => send'[s] = send[s]
<1>1. ASSUME NEW pc \in PCs, Keeps(s, pc) PROVE To(s)' = To(s) /\ send'[s].byPage = send[s].byPage
  BY <1>1 DEF Keeps, To
<1>2. CASE send'[s] = send[s]
  BY <1>2 DEF To, TypeOK
<1>3. ASSUME NEW c \in Convs \cup {None}, NEW b \in BOOLEAN, Begins(s, c, b)
      PROVE  send[s].pc = "idle" /\ To(s) = None /\ send'[s].pc # "idle"
  BY <1>3 DEF Begins, SendOK, At, FirstPC
<1>4. CASE Opens(s)
  BY <1>4 DEF Opens, SendOK, At
<1>5. ASSUME NEW pc \in PCs, Moves(s, pc) \/ (\E role \in {"USER", "ASSISTANT"} : Inserts(s, role, pc))
                             \/ (\E event \in Events : Writes(s, event, pc))
      PROVE  To(s)' = To(s) /\ send'[s].byPage = send[s].byPage /\ send'[s].pc # "idle"
  BY <1>1, <1>5 DEF Moves, Inserts, Writes, Keeps
<1> QED BY <1>2, <1>3, <1>4, <1>5, SendSteps, ZenonT(40) DEF To, TypeOK

LEMMA StoredStays ==
  ASSUME TypeOK, StepTable, NEW s \in Sends, SendOK(s), \A c \in Convs : SendOK(c), To(s) # None
  PROVE  /\ Stored(s) => Stored(s)'
         /\ \A role \in {"USER", "ASSISTANT"} :
              Saved(s, role) => Saved(s, role)' \/ conv'[To(s)] = "deleted"
<1>1. To(s)' = To(s) /\ To(s) \in Convs
  BY ToStays
<1>2. PICK c \in Convs : c = To(s)
  BY <1>1
<1>3. DOMAIN log[c] = 1 .. Len(log[c]) /\ DOMAIN log'[c] = 1 .. Len(log'[c])
  <2>1. log[c] \in Seq(Message)
    BY DEF TypeOK
  <2>2. log'[c] \in Seq(Message)
    <3>1. ASSUME NEW t \in Sends, NEW role \in {"USER", "ASSISTANT"}, NEW pc \in PCs,
                 Inserts(t, role, pc), To(t) = c
          PROVE  log'[c] \in Seq(Message)
      <4>1. [role |-> role, of |-> t] \in Message /\ log'[c] = Append(log[c], [role |-> role, of |-> t])
        BY <3>1 DEF Message, Inserts
      <4> QED BY <2>1, <4>1, Appended
    <3>2. <<>> \in Seq(Message)
      OBVIOUS
    <3> QED BY <2>1, <3>1, <3>2, LogSteps
  <2> QED BY <2>1, <2>2
<1>4. ASSUME NEW role \in {"USER", "ASSISTANT"}, Saved(s, role)
      PROVE  Saved(s, role)' \/ conv'[c] = "deleted"
  <2>1. PICK i \in 1 .. Len(log[c]) : log[c][i] = [role |-> role, of |-> s]
    BY <1>2, <1>3, <1>4 DEF Saved
  <2>2. conv'[c] = "deleted" \/ (i \in 1 .. Len(log'[c]) /\ log'[c][i] = log[c][i])
    BY <2>1, LogGrows
  <2> QED BY <1>1, <1>2, <1>3, <2>1, <2>2 DEF Saved
<1>5. conv[c] = "deleted" => conv'[c] = "deleted"
  <2>1. ASSUME conv[c] = "deleted", Opens(c) PROVE FALSE
    <3>1. SendOK(c) /\ c # None
      BY DEF Convs, Sends, None
    <3> QED BY <2>1, <3>1 DEF Opens, SendOK, At
  <2>2. ASSUME NEW t \in Sends, NEW role \in {"USER", "ASSISTANT"}, NEW pc \in PCs,
               Inserts(t, role, pc), To(t) = c
        PROVE  conv'[c] = conv[c]
    BY <2>2 DEF Inserts
  <2> QED BY <2>1, <2>2, LogSteps
<1> QED BY <1>1, <1>2, <1>4, <1>5 DEF Stored

-----------------------------------------------------------------------------
(* The server's part of the invariant.                                     *)

LEMMA SendsInit == Init => SendsInv /\ PageOK
<1> SUFFICES ASSUME Init PROVE SendsInv /\ PageOK
  OBVIOUS
<1>1. \A s \in Sends : /\ send[s] = [pc |-> "idle", byPage |-> FALSE, to |-> None, count |-> 0]
                       /\ wire[s] = <<>> /\ log[s] = <<>> /\ conv[s] = "none"
  BY DEF Init, Convs
<1>2. \A s \in Sends : None <= s
  BY DEF Sends, None
<1>3. \A s \in Sends : SendOK(s)
  BY <1>1, <1>2 DEF SendOK, At, To, Opened
<1>4. \A s \in Sends : WireOK(s) /\ LogOK(s)
  BY <1>1 DEF WireOK, LogOK, At
<1>5. InOrder
  BY <1>1 DEF InOrder, At
<1>6. PageOK
  BY DEF Init, PageOK, Sending
<1> QED BY <1>3, <1>4, <1>5, <1>6 DEF SendsInv

LEMMA OrderStep ==
  ASSUME TypeOK, InOrder, \A s \in Sends : SendOK(s), StepTable
  PROVE  InOrder'
<1>1. ASSUME NEW s \in Sends, NEW t \in Sends, s < t, send'[s].pc = "idle" PROVE send'[t].pc = "idle"
  <2>1. send'[s] = send[s] /\ send[t].pc = "idle"
    BY <1>1, ToStays DEF InOrder, At
  <2>2. CASE send'[t] = send[t]
    BY <2>1, <2>2
  <2>3. ASSUME NEW c \in Convs \cup {None}, NEW b \in BOOLEAN, Begins(t, c, b) PROVE FALSE
    BY <1>1, <2>1, <2>3 DEF Begins
  <2> QED
    BY <2>1, <2>2, <2>3, SendSteps DEF Opens, Moves, Inserts, Writes, Over
<1> QED BY <1>1 DEF InOrder, At

LEMMA ConvStays ==
  ASSUME TypeOK, StepTable, NEW c \in Convs
  PROVE  /\ conv[c] # "none" => conv'[c] # "none"
         /\ conv'[c] # "none" => conv[c] # "none" \/ Opens(c)
<1>1. ASSUME NEW t \in Sends, Deletes(t) PROVE conv[c] # "none" <=> conv'[c] # "none"
  BY <1>1 DEF Deletes, TypeOK
<1>2. ASSUME NEW t \in Sends, Opens(t)
      PROVE  (conv[c] # "none" => conv'[c] # "none") /\ (t # c => conv'[c] = conv[c])
  <2>1. conv' = [conv EXCEPT ![t] = "live"]
    BY <1>2 DEF Opens
  <2> QED BY <2>1 DEF TypeOK
<1>3. ASSUME NEW t \in Sends, Opens(t) PROVE conv'[c] = conv[c] \/ Opens(c)
  BY <1>2, <1>3
<1>4. (\E t \in Sends : Opens(t) \/ Deletes(t)) \/ conv' = conv
  BY DEF StepTable, Steady, Begins, Moves, Inserts, Writes
<1> QED BY <1>1, <1>2, <1>3, <1>4

LEMMA SendOKStep ==
  ASSUME TypeOK, InOrder, \A t \in Sends : SendOK(t), StepTable, NEW s \in Sends
  PROVE  SendOK(s)'
<1>0. SendOK(s) /\ s # None /\ None <= s
  BY DEF Sends, None
<1>a. /\ conv'[s] # "none" => conv[s] # "none" \/ Opens(s)
      /\ \A c \in Convs : conv[c] # "none" => conv'[c] # "none"
  BY ConvStays DEF Convs
<1>1. CASE send'[s] = send[s]
  <2>1. ~Opens(s)
    BY <1>1 DEF Opens
  <2> QED BY <1>0, <1>1, <1>a, <2>1 DEF SendOK, At, To, TypeOK
<1>2. ASSUME NEW c \in Convs \cup {None}, NEW b \in BOOLEAN, Begins(s, c, b) PROVE SendOK(s)'
  <2>1. send'[s].pc \in {"limit", "refused"} /\ send'[s].to = c /\ (c # None => conv[c] # "none") /\ conv' = conv
    BY <1>2 DEF Begins, FirstPC
  <2>2. c # None => c <= s
    <3>1. ASSUME c # None, s < c PROVE FALSE
      <4>1. c \in Sends /\ send[c].pc = "idle"
        BY <1>2, <3>1 DEF Begins, InOrder, At, Convs
      <4>2. SendOK(c) /\ conv[c] # "none"
        BY <2>1, <3>1, <4>1
      <4> QED BY <3>1, <4>1, <4>2 DEF SendOK, At
    <3>2. c # None => c \in Int /\ s \in Int
      BY DEF Convs, Sends
    <3> QED BY <3>1, <3>2
  <2>3. conv[s] = "none"
    BY <1>0, <1>2 DEF Begins, SendOK, At
  <2> QED BY <1>0, <2>1, <2>2, <2>3 DEF SendOK, At, To, Opened
<1>3. CASE Opens(s)
  <2>1. conv'[s] = "live" /\ send'[s].pc = "ask" /\ send'[s].to = s
    BY <1>3 DEF Opens, TypeOK, Convs
  <2>2. s <= s
    BY DEF Sends
  <2> QED BY <1>0, <2>1, <2>2 DEF SendOK, At, To
<1>4. ASSUME NEW pc \in PCs, Keeps(s, pc), ~Opens(s), pc # "idle", pc = "open" => To(s) = None,
             pc \in Opened => To(s) # None
      PROVE  SendOK(s)'
  <2>1. To(s)' = To(s) /\ send'[s].pc = pc /\ (To(s) # None => To(s) \in Convs)
    BY <1>4 DEF Keeps, To, TypeOK
  <2> QED BY <1>0, <1>4, <1>a, <2>1 DEF SendOK, At
<1>5. ASSUME NEW pc \in PCs, Moves(s, pc) PROVE SendOK(s)'
  <2>1. ~Opens(s)
    BY <1>5 DEF Moves, Opens, Keeps, To, Over
  <2> QED BY <1>4, <1>5, <2>1 DEF Moves, Opened
<1>6. ASSUME NEW pc \in PCs, NEW role \in {"USER", "ASSISTANT"}, Inserts(s, role, pc) PROVE SendOK(s)'
  <2>1. ~Opens(s) /\ send[s].pc \in Opened
    BY <1>6 DEF Inserts, Opens, Opened
  <2> QED BY <1>0, <1>4, <1>6, <2>1 DEF Inserts, SendOK
<1>7. ASSUME NEW pc \in PCs, NEW event \in Events, Writes(s, event, pc) PROVE SendOK(s)'
  <2>1. ~Opens(s) /\ send[s].pc \in Opened
    BY <1>7 DEF Writes, Opens, Opened
  <2> QED BY <1>0, <1>4, <1>7, <2>1 DEF Writes, SendOK
<1> QED BY <1>1, <1>2, <1>3, <1>5, <1>6, <1>7, SendSteps

LEMMA WireSame ==
  ASSUME TypeOK, StepTable, NEW s \in Sends
  PROVE  wire'[s] = wire[s] \/ \E pc \in PCs, event \in Events : Writes(s, event, pc)
<1>1. ASSUME NEW t \in Sends, NEW pc \in PCs, NEW event \in Events, Writes(t, event, pc)
      PROVE  wire'[s] = wire[s] \/ Writes(s, event, pc)
  BY <1>1 DEF Writes
<1>2. (\E t \in Sends, pc \in PCs, event \in Events : Writes(t, event, pc)) \/ wire' = wire
  BY DEF StepTable, Steady, Begins, Moves, Opens, Inserts, Deletes
<1> QED BY <1>1, <1>2

LEMMA InsertSaves ==
  ASSUME TypeOK, NEW s \in Sends, NEW role \in {"USER", "ASSISTANT"}, NEW pc \in PCs,
         Inserts(s, role, pc)
  PROVE  Saved(s, role)'
<1>1. PICK c \in Convs : c = To(s) /\ To(s)' = c
  BY DEF Inserts, Keeps, To
<1>2. log[c] \in Seq(Message) /\ [role |-> role, of |-> s] \in Message
  BY DEF TypeOK, Message
<1>3. log'[c] = Append(log[c], [role |-> role, of |-> s])
  BY <1>1 DEF Inserts
<1>4. Len(log[c]) + 1 \in DOMAIN log'[c] /\ log'[c][Len(log[c]) + 1] = [role |-> role, of |-> s]
  <2> HIDE DEF Message
  <2>1. Append(log[c], [role |-> role, of |-> s]) \in Seq(Message)
    BY <1>2, Appended
  <2> QED BY <1>2, <1>3, <2>1, Appended
<1> QED BY <1>1, <1>4 DEF Saved

LEMMA WireStep ==
  ASSUME TypeOK, \A t \in Sends : SendOK(t), StepTable, NEW s \in Sends, WireOK(s)
  PROVE  WireOK(s)'
<1>0. SendOK(s) /\ s # None /\ wire[s] \in Seq(Events) /\ Len(wire[s]) \in Nat
  BY Domains
<1>a. To(s) # None => /\ To(s)' = To(s)
                      /\ Stored(s) => Stored(s)'
  BY ToStays, StoredStays DEF Convs
<1>b. ASSUME wire'[s] = wire[s], send'[s].pc = send[s].pc PROVE WireOK(s)'
  BY <1>0, <1>a, <1>b DEF WireOK, SendOK, At, Opened
<1>1. CASE send'[s] = send[s] /\ wire'[s] = wire[s]
  BY <1>b, <1>1
<1>2. ASSUME wire'[s] = wire[s], wire[s] = <<>>, send'[s].pc \in Before \cup {"ask", "prepare", "refused", "cut"}
      PROVE  WireOK(s)'
  BY <1>2 DEF WireOK, At, Before
<1>3. ASSUME NEW c \in Convs \cup {None}, NEW b \in BOOLEAN, Begins(s, c, b) PROVE WireOK(s)'
  <2>1. wire'[s] = wire[s] /\ send[s].pc = "idle" /\ send'[s].pc \in {"limit", "refused"}
    BY <1>3 DEF Begins, FirstPC
  <2> QED BY <1>2, <2>1 DEF WireOK, Before
<1>4. CASE Opens(s)
  <2>1. wire'[s] = wire[s] /\ send[s].pc = "open" /\ send'[s].pc = "ask"
    BY <1>4 DEF Opens
  <2> QED BY <1>2, <2>1 DEF WireOK, Before
<1>5. ASSUME NEW pc \in PCs, Moves(s, pc) PROVE WireOK(s)'
  <2>1. wire'[s] = wire[s] /\ send'[s].pc = pc
    BY <1>5 DEF Moves, Keeps
  <2>2. CASE send[s].pc \in Before \cup {"ask", "prepare"}
    <3>1. wire[s] = <<>>
      BY <2>2 DEF WireOK
    <3>2. pc \in Before \cup {"ask", "prepare", "refused", "cut"}
      BY <1>5 DEF Moves, Before
    <3> QED BY <1>2, <2>1, <3>1, <3>2
  <2>3. CASE send[s].pc \notin Before \cup {"ask", "prepare"}
    <3>1. pc = "cut" /\ send[s].pc # "ended"
      BY <1>5, <2>3 DEF Moves, Before, Over
    <3>2. \A i \in 1 .. Len(wire[s]) : wire[s][i] \notin Final /\ wire[s][i] # "end"
      BY <3>1 DEF WireOK, At, Final
    <3> QED BY <1>a, <2>1, <3>1, <3>2 DEF WireOK, At, Before
  <2> QED BY <2>2, <2>3
<1>6. ASSUME NEW pc \in PCs, NEW role \in {"USER", "ASSISTANT"}, Inserts(s, role, pc) PROVE WireOK(s)'
  <2>1. wire'[s] = wire[s] /\ send'[s].pc = pc
    BY <1>6 DEF Inserts, Keeps
  <2>2. CASE send[s].pc = "ask" /\ pc = "prepare"
    BY <1>2, <2>1, <2>2 DEF WireOK, Before
  <2>3. CASE role = "ASSISTANT" /\ send[s].pc = "stream" /\ pc = "complete"
    <3>1. \A i \in 1 .. Len(wire[s]) : wire[s][i] \notin Final /\ wire[s][i] # "end"
      BY <2>3 DEF WireOK, At, Final
    <3>2. Stored(s)'
      BY <1>6, <2>3, InsertSaves DEF Stored
    <3> QED BY <1>a, <2>1, <2>3, <3>1, <3>2 DEF WireOK, At, Before
  <2> QED BY <1>6, <2>2, <2>3 DEF Inserts
<1>7. ASSUME NEW pc \in PCs, NEW event \in Events, Writes(s, event, pc) PROVE WireOK(s)'
  <2>1. /\ wire'[s] = Append(wire[s], event) /\ send'[s].pc = pc /\ send[s].pc # "ended"
        /\ send[s].pc \in Opened
    BY <1>7 DEF Writes, Keeps, Opened
  <2>2. /\ Len(wire'[s]) = Len(wire[s]) + 1 /\ wire'[s][Len(wire[s]) + 1] = event
        /\ \A i \in 1 .. Len(wire[s]) : wire'[s][i] = wire[s][i]
    BY <1>0, <2>1, Appended
  <2>3. \A i \in 1 .. Len(wire[s]) : wire[s][i] \notin Final /\ wire[s][i] # "end"
    BY <2>1 DEF WireOK, At, Final
  <2>4. To(s) # None /\ To(s)' = To(s)
    BY <1>0, <1>a, <2>1 DEF SendOK
  <2>5. \A i \in 1 .. Len(wire'[s]) : i \in 1 .. Len(wire[s]) \/ i = Len(wire[s]) + 1
    BY <1>0, <2>2
  <2>6. CASE event = "headers"
    <3>1. wire[s] = <<>> /\ pc = "stream"
      BY <1>7, <2>6 DEF Writes, WireOK
    <3>2. Len(wire[s]) = 0
      BY <3>1
    <3>3. wire'[s][1] = "headers" /\ Len(wire'[s]) = 1 /\ wire'[s] # <<>>
      BY <1>0, <2>2, <2>6, <3>2
    <3>4. \A i \in 1 .. Len(wire'[s]) : i = 1
      BY <3>3
    <3> QED BY <2>1, <2>4, <3>1, <3>3, <3>4, BoundsAssumption DEF WireOK, At, Before, Final
  <2>7. CASE event # "headers"
    <3>1. wire[s] # <<>> /\ Len(wire[s]) >= 1 /\ pc \in {"stream", "ended"}
      BY <1>0, <1>7, <2>7 DEF Writes, WireOK, At
    <3>2. wire'[s] # <<>> /\ wire'[s][1] = "headers"
      BY <1>0, <2>2, <3>1 DEF WireOK
    <3>3. event = "text" => pc = "stream" /\ Len(wire[s]) + 1 <= Pieces + 1
      BY <1>0, <1>7, BoundsAssumption DEF Writes, Written
    <3>4. event \in Final => pc = "ended"
      BY <1>7 DEF Writes, Final
    <3>5. event = "end" => Stored(s)'
      BY <1>7, <1>a, <2>4 DEF Writes, WireOK, At
    <3>6. ASSUME NEW i \in 1 .. Len(wire'[s])
          PROVE  /\ wire'[s][i] = "text" => i > 1 /\ i <= Pieces + 1
                 /\ wire'[s][i] = "headers" => i = 1
                 /\ wire'[s][i] \in Final => i = Len(wire'[s]) /\ pc = "ended"
                 /\ wire'[s][i] = "end" => Stored(s)'
      <4>1. CASE i \in 1 .. Len(wire[s])
        BY <2>2, <2>3, <4>1 DEF WireOK
      <4>2. CASE i = Len(wire[s]) + 1
        BY <1>0, <2>2, <2>7, <3>1, <3>3, <3>4, <3>5, <4>2
      <4> QED BY <2>5, <4>1, <4>2
    <3>7. pc = "ended" => wire'[s][Len(wire'[s])] \in Final
      BY <1>7, <2>2, <2>7 DEF Writes, Final
    <3>8. pc = "stream" => Len(wire'[s]) <= Pieces + 1
      BY <1>7, <2>2, <2>7, <3>3 DEF Writes
    <3> QED BY <2>1, <2>4, <3>1, <3>2, <3>6, <3>7, <3>8 DEF WireOK, At, Before
  <2> QED BY <2>6, <2>7
<1> QED BY <1>1, <1>3, <1>4, <1>5, <1>6, <1>7, SendSteps, WireSame

LEMMA LogStep ==
  ASSUME TypeOK, \A t \in Sends : SendOK(t), StepTable, NEW c \in Convs, LogOK(c)
  PROVE  LogOK(c)'
<1>0. log[c] \in Seq(Message) /\ c # None
  BY DEF TypeOK, Convs, Sends, None
<1>1. \A i \in 1 .. Len(log[c]) : log[c][i] \in Message
  BY <1>0
<1>2. ASSUME NEW s \in Sends, send[s].pc \in {"complete", "ended", "cut"}
      PROVE  send'[s].pc \in {"complete", "ended", "cut"}
  BY <1>2, SendSteps DEF Begins, Opens, Moves, Inserts, Writes, Keeps, Over
<1>3. ASSUME NEW m \in Message, To(m.of) = c,
             m.role = "ASSISTANT" => send[m.of].pc \in {"complete", "ended", "cut"}
      PROVE  /\ send'[m.of].to = c
             /\ m.role = "ASSISTANT" => send'[m.of].pc \in {"complete", "ended", "cut"}
  <2>1. m.of \in Sends
    BY DEF Message
  <2>2. To(m.of)' = To(m.of)
    BY <1>0, <1>3, <2>1, ToStays
  <2> QED BY <1>2, <1>3, <2>1, <2>2 DEF To
<1>4. \A i \in 1 .. Len(log[c]) :
        /\ conv[c] = "live" /\ send'[log[c][i].of].to = c
        /\ log[c][i].role = "ASSISTANT" => send'[log[c][i].of].pc \in {"complete", "ended", "cut"}
  BY <1>1, <1>3 DEF LogOK
<1>5. CASE log'[c] = log[c] /\ (conv'[c] = conv[c] \/ conv'[c] = "live")
  BY <1>4, <1>5 DEF LogOK, To
<1>6. CASE log'[c] = <<>>
  BY <1>6 DEF LogOK
<1>7. ASSUME NEW s \in Sends, NEW role \in {"USER", "ASSISTANT"}, NEW pc \in PCs,
             Inserts(s, role, pc), To(s) = c
      PROVE  LogOK(c)'
  <2> DEFINE m == [role |-> role, of |-> s]
  <2>1. /\ conv'[c] = "live" /\ log'[c] = Append(log[c], m) /\ m \in Message
        /\ send'[s].to = c /\ send'[s].pc = pc /\ (role = "ASSISTANT" => pc = "complete")
    BY <1>7 DEF Inserts, Keeps, To, Message
  <2>2. m.of = s /\ m.role = role
    OBVIOUS
  <2> HIDE DEF m
  <2>3. /\ Len(log'[c]) = Len(log[c]) + 1 /\ log'[c][Len(log[c]) + 1] = m /\ Len(log[c]) \in Nat
        /\ \A i \in 1 .. Len(log[c]) : log'[c][i] = log[c][i]
    BY <1>0, <2>1, Appended
  <2>4. ASSUME NEW i \in 1 .. Len(log'[c])
        PROVE  /\ conv'[c] = "live" /\ send'[log'[c][i].of].to = c
               /\ log'[c][i].role = "ASSISTANT" =>
                    send'[log'[c][i].of].pc \in {"complete", "ended", "cut"}
    <3>1. CASE i = Len(log[c]) + 1
      BY <2>1, <2>2, <2>3, <3>1
    <3>2. CASE i # Len(log[c]) + 1
      <4>1. i \in 1 .. Len(log[c])
        BY <2>3, <3>2
      <4> QED BY <1>4, <2>1, <2>3, <4>1
    <3> QED BY <3>1, <3>2
  <2> QED BY <2>4 DEF LogOK, To
<1> QED BY <1>5, <1>6, <1>7, LogSteps

LEMMA SendsStep ==
  ASSUME ChatInv, [Next]_vars
  PROVE  SendsInv'
<1>1. StepTable /\ TypeOK /\ SendsInv
  BY StepsInTable DEF ChatInv
<1>2. InOrder' /\ \A s \in Sends : SendOK(s)' /\ WireOK(s)' /\ LogOK(s)'
  BY <1>1, OrderStep, SendOKStep, WireStep, LogStep DEF SendsInv, Convs
<1> QED BY <1>2 DEF SendsInv

-----------------------------------------------------------------------------
(* The page's part of the invariant.                                       *)

LEMMA ByPage ==
  ASSUME ChatInv, [Next]_vars, NEW t \in Sends
  PROVE  /\ send[t].byPage => send'[t].byPage
         /\ send'[t].byPage => send[t].byPage \/ SendMessage(t)
<1>0. TypeOK /\ CountBounded /\ SendOK(t) /\ StepTable
  BY StepsInTable DEF ChatInv, SendsInv
<1>1. send[t].pc # "idle" => send'[t].byPage = send[t].byPage
  BY <1>0, ToStays
<1>2. send[t].pc = "idle" => ~send[t].byPage
  BY <1>0 DEF SendOK, At
<1>3. ASSUME send[t].pc = "idle", send'[t].byPage PROVE SendMessage(t)
  <2>1. PICK c \in Convs \cup {None}, b \in BOOLEAN : Begins(t, c, b)
    BY <1>0, <1>2, <1>3, SendSteps DEF Opens, Moves, Inserts, Writes, Over, Keeps
  <2>2. send'[t] # send[t]
    BY <1>2, <1>3
  <2>3. PICK r \in Sends : CallApi(r) \/ SendMessage(r)
    <3>1. ASSUME NEW s \in Sends, SendStep(s) \/ CallFails(s) \/ CutSend(s) PROVE FALSE
      <4>1. send[s].pc # "idle"
        BY <3>1 DEF SendStep, Incr, Expire, OpenConversation, Ask, FlushHeaders, StreamPiece, SaveAnswer,
           Complete, CallFails, CutSend, At
      <4>2. send'[t] = send[t] \/ s = t
        BY <1>0, <3>1 DEF SendStep, Incr, Expire, OpenConversation, Ask, FlushHeaders, StreamPiece,
           SaveAnswer, Complete, CallFails, CutSend, Goto, TypeOK
      <4> QED BY <1>3, <2>2, <4>1, <4>2
    <3>2. send' # send
      BY <2>2
    <3> QED
      BY <3>1, <3>2 DEF Next, PageStep, ReadHeaders, ReadText, ReadLast, ResponseEnds, ServerGone,
         LoseConnection, LoadArrives, SplitEvent, Disconnect, StartNewChat, ClickConversation,
         DeleteConversation, WindowEnds, vars, serverVars
  <2>4. PICK d \in Convs \cup {None}, e \in BOOLEAN : Begin(r, d, e) /\ (CallApi(r) => e = FALSE)
    BY <1>0, <2>3, PageFields DEF CallApi, SendMessage
  <2>5. r = t /\ send'[t].byPage = e
    <3>1. /\ send'[r] = [pc |-> FirstPC, byPage |-> e, to |-> d, count |-> 0]
          /\ \A u \in Sends : u # r => send'[u] = send[u]
      BY <1>0, <2>4, BeginTyped
    <3> QED BY <2>2, <3>1
  <2> QED BY <1>3, <2>3, <2>4, <2>5
<1> QED BY <1>1, <1>2, <1>3

LEMMA WireGrows ==
  ASSUME TypeOK, StepTable, NEW s \in Sends
  PROVE  /\ Len(wire[s]) \in Nat /\ Len(wire'[s]) \in Nat /\ Len(wire[s]) <= Len(wire'[s])
         /\ \A i \in 1 .. Len(wire[s]) : wire'[s][i] = wire[s][i]
<1>1. wire[s] \in Seq(Events) /\ Len(wire[s]) \in Nat
  BY Domains
<1>2. ASSUME NEW pc \in PCs, NEW event \in Events, Writes(s, event, pc)
      PROVE  /\ Len(wire'[s]) = Len(wire[s]) + 1
             /\ \A i \in 1 .. Len(wire[s]) : wire'[s][i] = wire[s][i]
  <2>1. wire'[s] = Append(wire[s], event)
    BY <1>2 DEF Writes
  <2> QED BY <1>1, <2>1, Appended
<1> QED BY <1>1, <1>2, WireSame

LEMMA PageOKStep ==
  ASSUME ChatInv, TypeOK', SendsInv', [Next]_vars
  PROVE  PageOK'
<1>0. TypeOK /\ CountBounded /\ SendsInv /\ PageOK /\ StepTable
  BY StepsInTable DEF ChatInv
<1>a. \A c \in Convs : conv[c] # "none" => conv'[c] # "none"
  BY <1>0, ConvStays
<1>1. ASSUME page'.shown = page.shown \/ (page'.shown # None => conv'[page'.shown] # "none"),
             \A l \in loads' : l \in loads \/ conv'[l.conv] # "none"
      PROVE  /\ page'.shown # None => conv'[page'.shown] # "none"
             /\ \A l \in loads' : conv'[l.conv] # "none"
  <2>1. /\ page.shown # None => page.shown \in Convs
        /\ \A l \in loads : l.conv \in Convs
    BY <1>0, PageFields, Domains
  <2> QED BY <1>0, <1>1, <1>a, <2>1 DEF PageOK
<1>2. ASSUME page' = page, \A s \in Sends : ~SendMessage(s)
      PROVE  Sending' =>
               /\ send'[page'.sending].byPage
               /\ \A t \in Sends : t > page'.sending => ~send'[t].byPage
               /\ page'.read <= Len(wire'[page'.sending])
               /\ page'.told => page'.read >= 1 /\ page'.text < page'.read
               /\ ~page'.told => page'.read = 0 /\ page'.text = 0
  <2>1. SUFFICES ASSUME Sending
                 PROVE  /\ send'[page.sending].byPage
                        /\ \A t \in Sends : t > page.sending => ~send'[t].byPage
                        /\ page.read <= Len(wire'[page.sending])
    BY <1>0, <1>2 DEF Sending, PageOK
  <2>2. page.sending \in Sends /\ page.read \in Nat
    BY <1>0, <2>1, PageFields
  <2>3. send'[page.sending].byPage /\ \A t \in Sends : t > page.sending => ~send'[t].byPage
    BY <1>0, <1>2, <2>1, <2>2, ByPage DEF PageOK
  <2>4. page.read <= Len(wire'[page.sending])
    BY <1>0, <2>1, <2>2, WireGrows DEF PageOK
  <2> QED BY <2>3, <2>4
<1>3. CASE page' = page /\ loads' = loads /\ \A s \in Sends : ~SendMessage(s)
  BY <1>1, <1>2, <1>3 DEF PageOK, Sending
<1>4. ASSUME NEW c \in Convs, ClickConversation(c) PROVE PageOK'
  <2>1. /\ page' = page /\ conv' = conv /\ conv[c] = "live" /\ send' = send
        /\ loads' = loads \cup {[conv |-> c, view |-> Snapshot(c)]}
    BY <1>4 DEF ClickConversation, serverVars
  <2>a. \A s \in Sends : ~SendMessage(s)
    BY <1>0, <2>1 DEF SendMessage, Begin, At, TypeOK, FirstPC
  <2>2. \A l \in loads' : l \in loads \/ conv'[l.conv] # "none"
    BY <2>1
  <2> QED BY <1>1, <1>2, <2>1, <2>a, <2>2 DEF PageOK, Sending
<1>5. ASSUME NEW s \in Sends, SendMessage(s) PROVE PageOK'
  <2>1. /\ page' = [page EXCEPT !.view = Append(page.view, [kind |-> "user", of |-> s]), !.sending = s,
                                !.told = FALSE, !.read = 0, !.text = 0]
        /\ Begin(s, page.shown, TRUE) /\ loads' = loads /\ UNCHANGED wire
    BY <1>5 DEF SendMessage, serverVars
  <2>2. /\ page'.shown = page.shown /\ page'.sending = s /\ page'.told = FALSE /\ page'.read = 0
        /\ page'.text = 0
    BY <1>0, <2>1 DEF TypeOK
  <2>3. /\ send'[s].byPage = TRUE /\ \A t \in Sends : t # s => send'[t] = send[t]
    <3>1. PICK c \in Convs \cup {None}, b \in BOOLEAN : b = TRUE /\ Begin(s, c, b)
      BY <1>0, <2>1, PageFields
    <3>2. /\ send'[s] = [pc |-> FirstPC, byPage |-> b, to |-> c, count |-> 0]
          /\ \A t \in Sends : t # s => send'[t] = send[t]
      BY <1>0, <3>1, BeginTyped
    <3> QED BY <3>1, <3>2
  <2>4. ASSUME NEW t \in Sends, t > s PROVE ~send'[t].byPage
    <3>1. At(s, "idle") /\ t # s /\ s < t
      BY <2>1, <2>4 DEF Begin, Sends
    <3>2. At(t, "idle") /\ SendOK(t)
      BY <1>0, <3>1 DEF SendsInv, InOrder
    <3> QED BY <2>3, <3>1, <3>2 DEF SendOK
  <2>5. Len(wire'[s]) \in Nat
    BY <1>0, WireGrows
  <2> QED BY <1>1, <2>1, <2>2, <2>3, <2>4, <2>5 DEF PageOK
<1>6. CASE Sending /\ Sending' /\ page'.sending = page.sending /\ UNCHANGED <<loads, conv, wire, send>>
           /\ page'.read <= Len(wire[page.sending])
           /\ (page'.told => page'.read >= 1 /\ page'.text < page'.read)
           /\ (~page'.told => page'.read = 0 /\ page'.text = 0)
           /\ (page'.shown = page.shown \/ (page'.shown # None => conv[page'.shown] # "none"))
  BY <1>0, <1>1, <1>6 DEF PageOK
<1>7. CASE ~Sending' /\ UNCHANGED <<loads, conv, wire, send>> /\ page'.shown = page.shown
  BY <1>1, <1>7 DEF PageOK
<1>8. CASE ReadHeaders
  <2>1. /\ page.sending \in Sends /\ page.text \in Nat /\ ~page.told /\ wire[page.sending] # <<>>
        /\ page' = [page EXCEPT !.told = TRUE, !.read = 1,
                        !.shown = IF HeaderExposed /\ To(page.sending) = page.sending
                                  THEN page.sending ELSE page.shown]
        /\ UNCHANGED <<loads, conv, wire, send>> /\ Sending
    BY <1>0, <1>8, PageFields DEF ReadHeaders, serverVars
  <2>2. /\ page'.sending = page.sending /\ page'.told = TRUE /\ page'.read = 1 /\ page'.text = page.text
        /\ page'.shown = IF HeaderExposed /\ To(page.sending) = page.sending
                         THEN page.sending ELSE page.shown
    BY <1>0, <2>1, Zenon DEF TypeOK
  <2>3. page.text = 0
    BY <1>0, <2>1 DEF PageOK
  <2>4. Len(wire[page.sending]) >= 1
    BY <1>0, <2>1, Domains
  <2>5. To(page.sending) = page.sending => conv[page.sending] # "none"
    BY <1>0, <2>1, Domains DEF SendsInv, SendOK
  <2> QED BY <1>6, <2>1, <2>2, <2>3, <2>4, <2>5 DEF Sending
<1>9. CASE ReadText \/ SplitEvent
  <2>1. /\ Sending /\ page.sending \in Sends /\ page.told /\ page.read < Len(wire[page.sending])
        /\ page.read \in Nat /\ page.text \in Nat /\ Len(wire[page.sending]) \in Nat
        /\ page.read >= 1 /\ page.text < page.read
        /\ UNCHANGED <<loads, conv, wire, send>>
    BY <1>0, <1>9, PageFields, Domains DEF ReadText, SplitEvent, HasEvent, serverVars, PageOK
  <2>2. /\ page'.sending = page.sending /\ page'.told = page.told /\ page'.read = page.read + 1
        /\ page'.text \in {page.text, page.text + 1} /\ page'.shown = page.shown
    <3>1. CASE ReadText
      BY <1>0, <3>1 DEF ReadText, TypeOK
    <3>2. CASE SplitEvent
      BY <1>0, <3>2 DEF SplitEvent, TypeOK
    <3> QED BY <1>9, <3>1, <3>2
  <2> QED BY <1>6, <2>1, <2>2 DEF Sending
<1>10. CASE ReadLast
  <2>1. /\ Sending /\ page.sending \in Sends /\ page.told /\ page.read < Len(wire[page.sending])
        /\ page.read \in Nat /\ Len(wire[page.sending]) \in Nat /\ page.read >= 1
        /\ UNCHANGED <<loads, conv, wire, send>>
    BY <1>0, <1>10, PageFields, Domains DEF ReadLast, HasEvent, serverVars, PageOK
  <2>2. /\ page'.sending = page.sending /\ page'.told = page.told /\ page'.read = page.read + 1
        /\ page'.text = 0 /\ page'.shown = page.shown
    BY <1>0, <1>10 DEF ReadLast, Show, TypeOK
  <2> QED BY <1>6, <2>1, <2>2 DEF Sending
<1>11. CASE ResponseEnds \/ ServerGone \/ Disconnect
  <2>1. page'.sending = None /\ page'.shown = page.shown /\ UNCHANGED <<loads, conv, wire, send>>
    BY <1>0, <1>11 DEF ResponseEnds, ServerGone, Disconnect, LoseConnection, Show, serverVars, TypeOK
  <2> QED BY <1>7, <2>1 DEF Sending
<1>12. ASSUME NEW l \in loads, LoadArrives(l) PROVE PageOK'
  <2>1. /\ page' = [page EXCEPT !.shown = l.conv, !.view = l.view] /\ UNCHANGED <<conv, wire, send>>
        /\ loads' \subseteq loads
    BY <1>12 DEF LoadArrives, serverVars
  <2>2. /\ page'.shown = l.conv /\ page'.sending = page.sending /\ page'.told = page.told
        /\ page'.read = page.read /\ page'.text = page.text
    BY <1>0, <2>1, Zenon DEF TypeOK
  <2> QED BY <1>0, <2>1, <2>2 DEF PageOK, Sending
<1>13. CASE StartNewChat
  <2>1. /\ page'.shown = None /\ page'.sending = page.sending /\ page'.told = page.told
        /\ page'.read = page.read /\ page'.text = page.text
    BY <1>0, <1>13, Zenon DEF StartNewChat, TypeOK
  <2>2. UNCHANGED <<conv, wire, send, loads>>
    BY <1>13 DEF StartNewChat, serverVars
  <2> QED BY <1>0, <2>1, <2>2 DEF PageOK, Sending
<1>14. CASE WindowEnds \/ UNCHANGED vars \/ (\E s \in Sends : CallApi(s) \/ SendStep(s) \/ CallFails(s)
            \/ CutSend(s)) \/ \E c \in Convs : DeleteConversation(c)
  <2>1. page' = page /\ loads' = loads
    BY <1>14 DEF WindowEnds, vars, CallApi, SendStep, CallFails, CutSend, DeleteConversation, pageVars,
       Incr, Expire, OpenConversation, Ask, FlushHeaders, StreamPiece, SaveAnswer, Complete
  <2>2. CASE \E s \in Sends : SendMessage(s)
    BY <1>5, <2>2
  <2> QED BY <1>3, <2>1, <2>2
<1> QED
  BY <1>4, <1>5, <1>8, <1>9, <1>10, <1>11, <1>12, <1>13, <1>14 DEF Next, PageStep

LEMMA ChatInit == Init => ChatInv
BY TypeInit, SendsInit DEF ChatInv

LEMMA ChatStep == ChatInv /\ [Next]_vars => ChatInv'
<1> SUFFICES ASSUME ChatInv, [Next]_vars PROVE ChatInv'
  OBVIOUS
<1>1. TypeOK' /\ CountBounded' /\ SendsInv'
  BY TypeStep, SendsStep
<1> QED BY <1>1, PageOKStep DEF ChatInv

(* Every message is one of a send, in a conversation; the counter never    *)
(* exceeds the sends, nor the text the page has read the pieces there are. *)
THEOREM TypeCorrect == Spec => []TypeOK
<1>1. ChatInv => TypeOK
  BY DEF ChatInv
<1> QED BY <1>1, ChatInit, ChatStep, PTL DEF Spec

(* A user's rate limit counts without an expiry only while the request     *)
(* that made the key is about to give it one, or after a fault between the *)
(* two calls (checkRateLimit).                                             *)
THEOREM LimitCorrect == Spec => []LockedOutOnlyByFault
<1>1. Init => LockedOutOnlyByFault
  BY DEF Init, NoKey, LockedOutOnlyByFault
<1>2. ChatInv /\ LockedOutOnlyByFault /\ [Next]_vars => (ChatInv /\ LockedOutOnlyByFault)'
  BY LimitStep, ChatStep
<1> QED BY <1>1, <1>2, ChatInit, PTL DEF Spec

-----------------------------------------------------------------------------
(* The page by what happens to it.                                         *)

Extends ==
  \A i \in DOMAIN page.view : i \in DOMAIN page'.view /\ page'.view[i] = page.view[i]

Untouched == UNCHANGED <<page, loads, disturbed>> /\ \A s \in Sends : ~SendMessage(s)

LEMMA PageTable ==
  ASSUME ChatInv, [Next]_vars
  PROVE  \/ Untouched
         \/ \E s \in Sends : SendMessage(s)
         \/ /\ UNCHANGED <<conv, log, wire, send>>
            /\ \/ ReadHeaders \/ ReadText \/ ReadLast \/ SplitEvent \/ ResponseEnds
               \/ ServerGone \/ Disconnect \/ StartNewChat
               \/ \E l \in loads : LoadArrives(l)
               \/ \E c \in Convs : ClickConversation(c)
<1>1. ASSUME NEW s \in Sends, CallApi(s) \/ SendStep(s) \/ CallFails(s) \/ CutSend(s)
      PROVE  UNCHANGED <<page, loads, disturbed>>
  BY <1>1 DEF CallApi, SendStep, CallFails, CutSend, pageVars, Incr, Expire, OpenConversation, Ask,
     FlushHeaders, StreamPiece, SaveAnswer, Complete
<1>2. WindowEnds \/ UNCHANGED vars \/ (\E c \in Convs : DeleteConversation(c))
        => UNCHANGED <<page, loads, disturbed>>
  BY DEF WindowEnds, vars, DeleteConversation, pageVars
<1>3. ReadHeaders \/ ReadText \/ ReadLast \/ SplitEvent \/ ResponseEnds \/ ServerGone \/ Disconnect
        \/ StartNewChat \/ (\E l \in loads : LoadArrives(l)) \/ (\E c \in Convs : ClickConversation(c))
        => UNCHANGED <<conv, log, wire, send>>
  BY DEF ReadHeaders, ReadText, ReadLast, ResponseEnds, ServerGone, LoseConnection, LoadArrives,
     SplitEvent, Disconnect, StartNewChat, ClickConversation, serverVars
<1> QED BY <1>1, <1>2, <1>3 DEF Next, PageStep, Untouched

(* What is shown, in terms of the positions of the view. *)
LEMMA ViewDomain ==
  ASSUME TypeOK, TypeOK'
  PROVE  /\ DOMAIN page.view = 1 .. Len(page.view) /\ Len(page.view) \in Nat
         /\ DOMAIN page'.view = 1 .. Len(page'.view) /\ Len(page'.view) \in Nat
         /\ page.view \in Seq(Entry) /\ page'.view \in Seq(Entry)
<1>1. page.view \in Seq(Entry) /\ page'.view \in Seq(Entry)
  BY DEF TypeOK
<1> QED BY <1>1

LEMMA ShownStays ==
  ASSUME Extends, NEW s, NEW kinds, Shown(s, kinds)
  PROVE  Shown(s, kinds)'
BY DEF Extends, Shown

(* One entry more. *)
LEMMA Shows ==
  ASSUME TypeOK, NEW e \in Entry, page'.view = Append(page.view, e)
  PROVE  /\ Extends
         /\ \A kinds : e.kind \in kinds => Shown(e.of, kinds)'
         /\ \A s, kinds : Shown(s, kinds)' => Shown(s, kinds) \/ (s = e.of /\ e.kind \in kinds)
         /\ \A i \in DOMAIN page'.view : i \in DOMAIN page.view \/ page'.view[i] = e
<1> HIDE DEF Entry
<1>1. page.view \in Seq(Entry) /\ DOMAIN page.view = 1 .. Len(page.view) /\ Len(page.view) \in Nat
  BY Domains
<1>2. /\ page'.view \in Seq(Entry) /\ Len(page'.view) = Len(page.view) + 1
      /\ page'.view[Len(page.view) + 1] = e
      /\ \A i \in 1 .. Len(page.view) : page'.view[i] = page.view[i]
  BY <1>1, Appended
<1>3. DOMAIN page'.view = 1 .. Len(page'.view)
  BY <1>2
<1>4. \A i \in DOMAIN page'.view : i \in DOMAIN page.view \/ i = Len(page.view) + 1
  BY <1>1, <1>2, <1>3
<1>5. Len(page.view) + 1 \in DOMAIN page'.view
  BY <1>1, <1>2, <1>3
<1>6. Extends
  BY <1>1, <1>2, <1>3 DEF Extends
<1> QED BY <1>2, <1>4, <1>5, <1>6 DEF Shown, Extends

LEMMA EntryStays ==
  ASSUME ChatInv, StepTable, NEW e \in Entry
  PROVE  /\ EntryOK(e) => EntryOK(e)'
         /\ To(e.of) # None => To(e.of)' = To(e.of)
<1>1. e.of \in Sends
  BY DEF Entry
<1>2. PICK s \in Sends : s = e.of
  BY <1>1
<1>3. TypeOK /\ SendOK(s) /\ \A c \in Convs : SendOK(c)
  BY DEF ChatInv, SendsInv, Convs
<1>4. To(s) # None => To(s)' = To(s) /\ (Stored(s) => Stored(s)')
  BY <1>3, ToStays, StoredStays
<1>5. /\ e.kind \in {"answer", "partial"} /\ To(s) # None => To(s)' # None
      /\ To(s) # None /\ Stored(s) => Stored(s)'
  BY <1>4
<1>6. EntryOK(e) <=> /\ e.kind \in {"answer", "partial"} => To(s) # None
                     /\ e.kind = "answer" => Stored(s)
  BY <1>2 DEF EntryOK
<1>7. EntryOK(e)' <=> /\ e.kind \in {"answer", "partial"} => To(s)' # None
                      /\ e.kind = "answer" => Stored(s)'
  BY <1>2 DEF EntryOK
<1>8. To(e.of) = To(s) /\ To(e.of)' = To(s)'
  BY <1>2
<1> QED BY <1>4, <1>5, <1>6, <1>7, <1>8

-----------------------------------------------------------------------------
(* A send that is over takes no step; a message is saved by its send only. *)

LEMMA OverStays ==
  ASSUME TypeOK, StepTable, NEW s \in Sends, send[s].pc \in Over
  PROVE  send'[s] = send[s]
<1>1. ASSUME NEW c \in Convs \cup {None}, NEW b \in BOOLEAN, Begins(s, c, b) PROVE FALSE
  BY <1>1 DEF Begins, Over, At
<1>2. ASSUME NEW pc \in PCs, Moves(s, pc) PROVE FALSE
  BY <1>2 DEF Moves, Over
<1>3. ASSUME NEW pc \in PCs, NEW role \in {"USER", "ASSISTANT"}, Inserts(s, role, pc) PROVE FALSE
  BY <1>3 DEF Inserts, Over
<1>4. ASSUME NEW pc \in PCs, NEW event \in Events, Writes(s, event, pc) PROVE FALSE
  BY <1>4 DEF Writes, Over
<1>5. ~Opens(s)
  BY DEF Opens, Over
<1> QED BY <1>1, <1>2, <1>3, <1>4, <1>5, SendSteps

LEMMA SavedOnly ==
  ASSUME ChatInv, StepTable, NEW s \in Sends, NEW role \in {"USER", "ASSISTANT"},
         To(s)' \in Convs, Saved(s, role)'
  PROVE  \/ To(s) = To(s)' /\ Saved(s, role)
         \/ \E pc \in PCs : Inserts(s, role, pc)
<1>0. TypeOK /\ \A c \in Convs : LogOK(c)
  BY DEF ChatInv, SendsInv, Convs
<1>1. PICK c \in Convs : c = To(s)'
  OBVIOUS
<1> DEFINE m == [role |-> role, of |-> s]
<1>2. PICK i \in DOMAIN log'[c] : log'[c][i] = m
  BY <1>1 DEF Saved
<1>3. log[c] \in Seq(Message) /\ DOMAIN log[c] = 1 .. Len(log[c]) /\ Len(log[c]) \in Nat
  BY <1>0, Domains
<1>4. ASSUME i \in DOMAIN log[c], log[c][i] = m PROVE To(s) = To(s)' /\ Saved(s, role)
  <2>1. To(s) = c
    BY <1>0, <1>3, <1>4 DEF LogOK
  <2> QED BY <1>1, <1>4, <2>1 DEF Saved
<1>5. CASE log'[c] = log[c]
  BY <1>2, <1>4, <1>5
<1>6. CASE log'[c] = <<>>
  BY <1>2, <1>6
<1>7. ASSUME NEW t \in Sends, NEW r \in {"USER", "ASSISTANT"}, NEW pc \in PCs,
             Inserts(t, r, pc), To(t) = c
      PROVE  \/ To(s) = To(s)' /\ Saved(s, role)
             \/ \E q \in PCs : Inserts(s, role, q)
  <2>1. log'[c] = Append(log[c], [role |-> r, of |-> t]) /\ [role |-> r, of |-> t] \in Message
    BY <1>7 DEF Inserts, Message
  <2>2. /\ Len(log'[c]) = Len(log[c]) + 1 /\ log'[c][Len(log[c]) + 1] = [role |-> r, of |-> t]
        /\ \A j \in 1 .. Len(log[c]) : log'[c][j] = log[c][j]
        /\ log'[c] \in Seq(Message)
    BY <1>3, <2>1, Appended
  <2>3. DOMAIN log'[c] = 1 .. Len(log[c]) + 1
    BY <1>3, <2>2
  <2>4. CASE i \in 1 .. Len(log[c])
    BY <1>2, <1>3, <1>4, <2>2, <2>4
  <2>5. CASE i = Len(log[c]) + 1
    <3>1. r = role /\ t = s
      BY <1>2, <2>2, <2>5
    <3> QED BY <1>7, <3>1
  <2> QED BY <1>2, <1>3, <2>3, <2>4, <2>5
<1> QED BY <1>0, <1>5, <1>6, <1>7, LogSteps

-----------------------------------------------------------------------------
(* Steps of the server, or of another client: the page stays as it is.     *)

LEMMA ServerStep ==
  ASSUME PageInv, ChatInv', [Next]_vars, Untouched
  PROVE  Undisturbed'
<1>0. /\ ChatInv /\ ViewOK /\ TypeOK /\ TypeOK' /\ StepTable /\ PageOK
      /\ \A s \in Sends : RunningOK(s) /\ SendOK(s) /\ WireOK(s)
  BY StepsInTable DEF PageInv, ChatInv, SendsInv, Undisturbed
<1>a. page' = page /\ loads' = loads /\ disturbed' = disturbed
  BY DEF Untouched
<1>b. \A s \in Sends : send'[s].byPage => send[s].byPage
  BY <1>0, ByPage DEF Untouched
<1>c. \A s \in Sends : send[s].pc \in Over => send'[s] = send[s]
  BY <1>0, OverStays
<1>d. \A s \in Sends : Own(s)' => Own(s)
  BY <1>a, <1>b DEF Own
<1>e. \A s \in Sends : Own(s) /\ send[s].pc \notin Over => s \in Running
  BY DEF Own, Running
<1>f. \A s, kinds : Shown(s, kinds)' <=> Shown(s, kinds)
  BY <1>a DEF Shown
<1>g. \A s \in Sends : To(s) # None => To(s)' = To(s)
  BY <1>0, ToStays
<1>h. ASSUME NEW s \in Sends, NEW role \in {"USER", "ASSISTANT"}, send[s].pc \in Over,
             To(s) # None, Saved(s, role)'
      PROVE  Saved(s, role)
  <2>1. ~\E pc \in PCs : Inserts(s, role, pc)
    BY <1>h DEF Inserts, Over
  <2>2. To(s)' = To(s) /\ To(s) \in Convs
    BY <1>0, <1>h, ToStays
  <2> QED BY <1>0, <1>h, <2>1, <2>2, SavedOnly
<1>1. ASSUME NEW s \in Sends PROVE RunningOK(s)'
  <2>1. SUFFICES ASSUME Own(s)', (s \in Running)'
                 PROVE  loads = {} /\ Shown(s, {"user"}) /\ (s # page.sending => Shown(s, {"offline"}))
    BY <1>a, <1>f DEF RunningOK
  <2>2. s \in Running
    BY <1>a, <1>b, <1>c, <2>1 DEF Running
  <2> QED BY <1>0, <1>d, <2>1, <2>2 DEF RunningOK
<1>2. CurrentOK'
  <2>1. SUFFICES ASSUME Sending, page.sending \notin disturbed
                 PROVE  /\ \/ page.shown = To(page.sending)'
                           \/ /\ ~(page.told /\ HeaderExposed)
                              /\ page.shown = None /\ To(page.sending)' = page.sending
                        /\ At(page.sending, "ended")' /\ page.read = Len(wire'[page.sending]) =>
                             Shown(page.sending, {"answer", "partial"})
    BY <1>a, <1>f DEF CurrentOK, Sending
  <2>2. PICK s \in Sends : s = page.sending
    BY <1>0, <2>1, PageFields
  <2>3. /\ send[s].byPage /\ page.read <= Len(wire[s]) /\ (page.told => page.read >= 1)
        /\ page.read \in Nat
    BY <1>0, <2>1, <2>2, PageFields DEF PageOK
  <2>4. send[s].pc # "idle"
    BY <1>0, <2>3 DEF SendOK, At
  <2>5. \/ page.shown = To(s)
        \/ ~(page.told /\ HeaderExposed) /\ page.shown = None /\ To(s) = s
    BY <2>1, <2>2 DEF CurrentOK, PageInv, Undisturbed
  <2>6. To(s)' = To(s) \/ (To(s) = None /\ To(s)' = s)
    <3>1. ASSUME NEW pc \in PCs, Keeps(s, pc) PROVE To(s)' = To(s)
      BY <3>1 DEF Keeps, To
    <3>2. CASE Opens(s)
      BY <1>0, <3>2 DEF Opens, To, SendOK, At
    <3>3. ASSUME NEW c \in Convs \cup {None}, NEW b \in BOOLEAN, Begins(s, c, b) PROVE FALSE
      BY <2>4, <3>3 DEF Begins, At
    <3>4. CASE send'[s] = send[s]
      BY <3>4 DEF To
    <3> QED BY <1>0, <3>1, <3>2, <3>3, <3>4, SendSteps DEF Moves, Inserts, Writes
  <2>7. To(s) = None => ~page.told
    <3>1. page.told => wire[s] # <<>>
      BY <1>0, <2>3, Domains
    <3> QED BY <1>0, <3>1 DEF WireOK
  <2>8. \/ page.shown = To(s)'
        \/ ~(page.told /\ HeaderExposed) /\ page.shown = None /\ To(s)' = s
    BY <2>5, <2>6, <2>7 DEF None, Sends
  <2>9. ASSUME At(s, "ended")', page.read = Len(wire'[s])
        PROVE  Shown(s, {"answer", "partial"})
    <3>1. ASSUME NEW pc \in PCs, NEW event \in Events, Writes(s, event, pc) PROVE FALSE
      <4>1. Len(wire'[s]) = Len(wire[s]) + 1 /\ Len(wire[s]) \in Nat
        BY <1>0, <3>1, Domains, Appended DEF Writes
      <4> QED BY <2>3, <2>9, <4>1
    <3>2. wire'[s] = wire[s]
      BY <1>0, <3>1, WireSame
    <3>3. At(s, "ended")
      <4>1. ASSUME NEW pc \in PCs, Moves(s, pc) PROVE pc # "ended"
        BY <4>1 DEF Moves
      <4>2. ASSUME NEW pc \in PCs, NEW role \in {"USER", "ASSISTANT"}, Inserts(s, role, pc)
            PROVE  pc # "ended"
        BY <4>2 DEF Inserts
      <4>3. ASSUME NEW pc \in PCs, Keeps(s, pc), pc # "ended" PROVE FALSE
        BY <2>9, <4>3 DEF Keeps, At
      <4>4. ~Opens(s)
        BY <2>9 DEF Opens, At
      <4>5. ASSUME NEW c \in Convs \cup {None}, NEW b \in BOOLEAN, Begins(s, c, b) PROVE FALSE
        BY <2>4, <4>5 DEF Begins, At
      <4>6. send'[s] = send[s]
        BY <1>0, <3>1, <4>1, <4>2, <4>3, <4>4, <4>5, SendSteps DEF Moves, Inserts
      <4> QED BY <2>9, <4>6 DEF At
    <3> QED BY <2>1, <2>2, <2>9, <3>2, <3>3 DEF CurrentOK, PageInv, Undisturbed
  <2>10. page'.sending = s /\ page.sending = s
    BY <1>a, <2>2
  <2> QED BY <2>8, <2>9, <2>10 DEF To, At
<1>3. LoadsOK'
  <2>1. SUFFICES ASSUME NEW l \in loads, NEW s \in Sends, Own(s)', To(s)' = l.conv
                 PROVE  /\ Saved(s, "USER")' => Holds(l.view, s, "user")
                        /\ Saved(s, "ASSISTANT")' => Holds(l.view, s, "answer")
    BY <1>a DEF LoadsOK, LoadOK, Holds
  <2>2. send[s].pc \in Over
    BY <1>0, <1>d, <1>e, <2>1 DEF RunningOK
  <2>3. To(s) = l.conv /\ To(s) # None
    BY <1>0, <1>c, <2>1, <2>2, Domains DEF To, Convs
  <2>4. LoadOK(l)
    BY <2>1 DEF PageInv, Undisturbed, LoadsOK
  <2> QED BY <1>d, <1>h, <2>1, <2>2, <2>3, <2>4 DEF LoadOK
<1>4. NothingLostUndisturbed'
  <2>1. SUFFICES ASSUME NEW s \in Sends \ (disturbed \cup {page.sending}), send'[s].byPage,
                        To(s)' # None, To(s)' = page.shown
                 PROVE  /\ Saved(s, "USER")' => Shown(s, {"user"})
                        /\ Saved(s, "ASSISTANT")' =>
                             Shown(s, {"answer", "partial", "wrong", "offline"})
    BY <1>a, <1>f DEF NothingLostUndisturbed
  <2>2. Own(s)
    BY <1>b, <2>1 DEF Own
  <2>3. CASE s \in Running
    <3>1. Shown(s, {"user"}) /\ Shown(s, {"offline"})
      BY <1>0, <2>1, <2>2, <2>3 DEF RunningOK
    <3> QED BY <3>1 DEF Shown
  <2>4. CASE s \notin Running
    <3>1. send[s].pc \in Over /\ To(s) = To(s)'
      BY <1>c, <1>e, <2>2, <2>4 DEF To
    <3>2. /\ Saved(s, "USER")' => Saved(s, "USER")
          /\ Saved(s, "ASSISTANT")' => Saved(s, "ASSISTANT")
      BY <1>h, <2>1, <3>1
    <3> QED BY <2>1, <2>2, <3>1, <3>2 DEF NothingLostUndisturbed, PageInv, Undisturbed, Own
  <2> QED BY <2>3, <2>4
<1>5. AnswerInItsConversation'
  <2>1. SUFFICES ASSUME NEW s \in Sends \ disturbed, send'[s].byPage, Shown(s, {"answer", "partial"})
                 PROVE  \/ To(s)' = page.shown
                        \/ HeaderExposed /\ page.shown \in disturbed
                        \/ ~HeaderExposed /\ page.shown = None /\ To(s)' = s
    BY <1>a, <1>f DEF AnswerInItsConversation
  <2>2. To(s) # None
    BY <1>0, <2>1, Domains DEF Shown, ViewOK, EntryOK
  <2>3. \/ To(s) = page.shown
        \/ HeaderExposed /\ page.shown \in disturbed
        \/ ~HeaderExposed /\ page.shown = None /\ To(s) = s
    BY <1>b, <2>1 DEF PageInv, Undisturbed, AnswerInItsConversation
  <2> QED BY <1>g, <2>2, <2>3
<1> QED BY <1>1, <1>2, <1>3, <1>4, <1>5 DEF Undisturbed

(* The page sends: the user's message is shown, and nothing else changes. *)
LEMMA SendMessageStep ==
  ASSUME PageInv, ChatInv', [Next]_vars, NEW r \in Sends, SendMessage(r)
  PROVE  Undisturbed'
<1>0. /\ ChatInv /\ ViewOK /\ TypeOK /\ TypeOK' /\ StepTable /\ CountBounded
      /\ \A s \in Sends : RunningOK(s) /\ SendOK(s)
  BY StepsInTable DEF PageInv, ChatInv, SendsInv, Undisturbed
<1>a. /\ page' = [page EXCEPT !.view = Append(page.view, [kind |-> "user", of |-> r]), !.sending = r,
                              !.told = FALSE, !.read = 0, !.text = 0]
      /\ Begin(r, page.shown, TRUE) /\ loads' = loads /\ log' = log /\ ~Sending
      /\ disturbed' = disturbed \cup (IF loads # {} THEN {r} ELSE {})
  BY DEF SendMessage, serverVars, Disturb
<1>b. /\ page'.shown = page.shown /\ page'.sending = r /\ page'.told = FALSE
      /\ page'.view = Append(page.view, [kind |-> "user", of |-> r])
  BY <1>0, <1>a DEF TypeOK
<1>c. /\ send'[r] = [pc |-> FirstPC, byPage |-> TRUE, to |-> page.shown, count |-> 0]
      /\ \A t \in Sends : t # r => send'[t] = send[t]
  <2>1. PICK c \in Convs \cup {None}, b \in BOOLEAN : b = TRUE /\ c = page.shown /\ Begin(r, c, b)
    BY <1>0, <1>a, PageFields
  <2>2. /\ send'[r] = [pc |-> FirstPC, byPage |-> b, to |-> c, count |-> 0]
        /\ \A t \in Sends : t # r => send'[t] = send[t]
    BY <1>0, <2>1, BeginTyped
  <2> QED BY <2>1, <2>2
<1>d. At(r, "idle") /\ To(r) = None /\ ~send[r].byPage
  BY <1>0, <1>a DEF Begin, SendOK
<1>e. [kind |-> "user", of |-> r] \in Entry
  BY DEF Entry
<1>f. /\ \A s, kinds : Shown(s, kinds) => Shown(s, kinds)'
      /\ Shown(r, {"user"})'
      /\ \A s : Shown(s, {"answer", "partial"})' => Shown(s, {"answer", "partial"})
  <2>1. Extends /\ Shown(r, {"user"})'
    BY <1>0, <1>b, <1>e, Shows
  <2>2. \A s, kinds : Shown(s, kinds) => Shown(s, kinds)'
    BY <2>1, ShownStays
  <2>3. \A s : Shown(s, {"answer", "partial"})' => Shown(s, {"answer", "partial"})
    BY <1>0, <1>b, <1>e, Shows
  <2> QED BY <2>1, <2>2, <2>3
<1>g. /\ Own(r)' => loads = {}
      /\ \A s \in Sends : s # r => (Own(s)' => Own(s))
  BY <1>a, <1>c DEF Own
<1>h. \A s \in Sends : s # r => To(s)' = To(s) /\ send'[s] = send[s]
  BY <1>c DEF To
<1>i. \A s \in Sends : \A role : s # r => (Saved(s, role)' <=> Saved(s, role))
  BY <1>a, <1>h DEF Saved
<1>1. ASSUME NEW s \in Sends PROVE RunningOK(s)'
  <2>1. CASE s = r
    BY <1>a, <1>b, <1>f, <1>g, <2>1 DEF RunningOK
  <2>2. CASE s # r
    <3>1. SUFFICES ASSUME Own(s)', (s \in Running)'
                   PROVE  loads = {} /\ Shown(s, {"user"})' /\ Shown(s, {"offline"})'
      BY <1>a DEF RunningOK
    <3>2. s \in Running /\ s # page.sending
      BY <1>a, <1>b, <1>h, <2>2, <3>1 DEF Running, Sending, Sends, None
    <3> QED BY <1>0, <1>f, <1>g, <2>2, <3>1, <3>2 DEF RunningOK
  <2> QED BY <2>1, <2>2
<1>2. CurrentOK'
  BY <1>b, <1>c DEF CurrentOK, To, At, FirstPC
<1>3. LoadsOK'
  <2>1. SUFFICES ASSUME NEW l \in loads, NEW s \in Sends, Own(s)', To(s)' = l.conv
                 PROVE  /\ Saved(s, "USER")' => Holds(l.view, s, "user")
                        /\ Saved(s, "ASSISTANT")' => Holds(l.view, s, "answer")
    BY <1>a DEF LoadsOK, LoadOK, Holds
  <2>2. s # r
    BY <1>g, <2>1
  <2> QED BY <1>g, <1>h, <1>i, <2>1, <2>2 DEF LoadsOK, LoadOK, PageInv, Undisturbed
<1>4. NothingLostUndisturbed'
  <2>1. SUFFICES ASSUME NEW s \in Sends, s \notin disturbed', s # r, send'[s].byPage, To(s)' # None,
                        To(s)' = page.shown
                 PROVE  /\ Saved(s, "USER")' => Shown(s, {"user"})'
                        /\ Saved(s, "ASSISTANT")' =>
                             Shown(s, {"answer", "partial", "wrong", "offline"})'
    BY <1>b DEF NothingLostUndisturbed
  <2>2. s \notin disturbed \cup {page.sending}
    BY <1>a, <2>1 DEF Sending, Sends, None
  <2>3. /\ Saved(s, "USER") => Shown(s, {"user"})
        /\ Saved(s, "ASSISTANT") => Shown(s, {"answer", "partial", "wrong", "offline"})
    BY <1>h, <2>1, <2>2 DEF NothingLostUndisturbed, PageInv, Undisturbed
  <2> QED BY <1>f, <1>i, <2>1, <2>3
<1>5. AnswerInItsConversation'
  <2>1. SUFFICES ASSUME NEW s \in Sends, s \notin disturbed', send'[s].byPage,
                        Shown(s, {"answer", "partial"})
                 PROVE  \/ To(s)' = page.shown
                        \/ HeaderExposed /\ page.shown \in disturbed'
                        \/ ~HeaderExposed /\ page.shown = None /\ To(s)' = s
    BY <1>b, <1>f DEF AnswerInItsConversation
  <2>2. To(s) # None
    BY <1>0, <2>1, Domains DEF Shown, ViewOK, EntryOK
  <2>3. s # r
    BY <1>d, <2>2
  <2>4. \/ To(s) = page.shown
        \/ HeaderExposed /\ page.shown \in disturbed
        \/ ~HeaderExposed /\ page.shown = None /\ To(s) = s
    BY <1>a, <1>h, <2>1, <2>3 DEF PageInv, Undisturbed, AnswerInItsConversation
  <2> QED BY <1>a, <1>h, <2>3, <2>4
<1> QED BY <1>1, <1>2, <1>3, <1>4, <1>5 DEF Undisturbed

-----------------------------------------------------------------------------
(* Steps of the page.  While the conversation shown and the answer being   *)
(* read stay the same, only CurrentOK is at stake.                         *)

Quiet == UNCHANGED <<conv, log, wire, send>>

LEMMA QuietSends ==
  ASSUME Quiet
  PROVE  /\ \A s : To(s)' = To(s) /\ send'[s] = send[s]
         /\ \A s, role : Saved(s, role)' <=> Saved(s, role)
BY DEF Quiet, To, Saved

LEMMA ReadStep ==
  ASSUME PageInv, ChatInv', Quiet, loads' \subseteq loads, disturbed \subseteq disturbed',
         Extends, page'.shown = page.shown, page'.sending = page.sending, Sending, page.told,
         \A s : Shown(s, {"answer", "partial"})' =>
                  Shown(s, {"answer", "partial"}) \/ s = page.sending
  PROVE  (\A s \in Sends : RunningOK(s)') /\ LoadsOK' /\ NothingLostUndisturbed'
         /\ AnswerInItsConversation'
<1>0. /\ ChatInv /\ ViewOK /\ TypeOK /\ PageOK /\ CurrentOK
      /\ \A s \in Sends : RunningOK(s)
  BY DEF PageInv, ChatInv, Undisturbed
<1>a. /\ \A s : To(s)' = To(s) /\ send'[s] = send[s]
      /\ \A s, role : Saved(s, role)' <=> Saved(s, role)
  BY QuietSends
<1>b. \A s, kinds : Shown(s, kinds) => Shown(s, kinds)'
  BY ShownStays
<1>c. \A s \in Sends : Own(s)' => Own(s)
  BY <1>a DEF Own
<1>d. Running' = Running
  BY <1>a DEF Running
<1>1. ASSUME NEW s \in Sends PROVE RunningOK(s)'
  <2>1. SUFFICES ASSUME Own(s)', s \in Running
                 PROVE  loads' = {} /\ Shown(s, {"user"})'
                        /\ (s # page.sending => Shown(s, {"offline"})')
    BY <1>d DEF RunningOK
  <2>2. loads = {} /\ Shown(s, {"user"}) /\ (s # page.sending => Shown(s, {"offline"}))
    BY <1>0, <1>c, <2>1 DEF RunningOK
  <2> QED BY <1>b, <2>2
<1>2. LoadsOK'
  <2>1. SUFFICES ASSUME NEW l \in loads', NEW s \in Sends, Own(s)', To(s)' = l.conv
                 PROVE  /\ Saved(s, "USER")' => Holds(l.view, s, "user")
                        /\ Saved(s, "ASSISTANT")' => Holds(l.view, s, "answer")
    BY DEF LoadsOK, LoadOK, Holds
  <2> QED BY <1>a, <1>c, <2>1 DEF LoadsOK, LoadOK, PageInv, Undisturbed
<1>3. NothingLostUndisturbed'
  <2>1. SUFFICES ASSUME NEW s \in Sends \ (disturbed \cup {page.sending}), send[s].byPage,
                        To(s) # None, To(s) = page.shown
                 PROVE  /\ Saved(s, "USER") => Shown(s, {"user"})'
                        /\ Saved(s, "ASSISTANT") =>
                             Shown(s, {"answer", "partial", "wrong", "offline"})'
    BY <1>a DEF NothingLostUndisturbed
  <2> QED BY <1>b, <2>1 DEF NothingLostUndisturbed, PageInv, Undisturbed
<1>4. AnswerInItsConversation'
  <2>1. SUFFICES ASSUME NEW s \in Sends \ disturbed, send[s].byPage, Shown(s, {"answer", "partial"})'
                 PROVE  \/ To(s) = page.shown
                        \/ HeaderExposed /\ page.shown \in disturbed
                        \/ ~HeaderExposed /\ page.shown = None /\ To(s) = s
    BY <1>a DEF AnswerInItsConversation
  <2>2. CASE s = page.sending
    BY <1>0, <2>1, <2>2 DEF CurrentOK
  <2>3. CASE s # page.sending
    BY <2>1, <2>3 DEF AnswerInItsConversation, PageInv, Undisturbed
  <2> QED BY <2>2, <2>3
<1> QED BY <1>1, <1>2, <1>3, <1>4

(* An event that is no last one is not where a response ends. *)
LEMMA NotOver ==
  ASSUME TypeOK, NEW s \in Sends, WireOK(s), At(s, "ended"), NEW n \in Nat, n = Len(wire[s])
  PROVE  wire[s][n] \in Final /\ n # 1 /\ n # 0
BY DEF WireOK, Final

LEMMA ReadsOn ==
  ASSUME PageInv, ChatInv', ReadText \/ SplitEvent
  PROVE  Undisturbed'
<1>0. /\ ChatInv /\ TypeOK /\ PageOK /\ CurrentOK /\ \A s \in Sends : WireOK(s)
  BY DEF PageInv, ChatInv, Undisturbed, SendsInv
<1>a. /\ Sending /\ page.told /\ Quiet /\ loads' = loads
      /\ disturbed' = disturbed \cup (IF NextEvent = "text" THEN {} ELSE {page.sending})
  BY DEF ReadText, SplitEvent, HasEvent, Quiet, serverVars, Disturb
<1>b. /\ page'.view = page.view /\ page'.shown = page.shown /\ page'.sending = page.sending
      /\ page'.told = page.told /\ page'.read = page.read + 1
  <2>1. CASE ReadText
    BY <1>0, <2>1 DEF ReadText, TypeOK
  <2>2. CASE SplitEvent
    BY <1>0, <2>2 DEF SplitEvent, TypeOK
  <2> QED BY <2>1, <2>2
<1>c. Extends /\ \A s, kinds : Shown(s, kinds)' <=> Shown(s, kinds)
  BY <1>b DEF Extends, Shown
<1>1. (\A s \in Sends : RunningOK(s)') /\ LoadsOK' /\ NothingLostUndisturbed'
      /\ AnswerInItsConversation'
  BY <1>a, <1>b, <1>c, ReadStep
<1>2. CurrentOK'
  <2>1. SUFFICES ASSUME page.sending \notin disturbed'
                 PROVE  /\ \/ page.shown = To(page.sending)
                           \/ ~HeaderExposed /\ page.shown = None /\ To(page.sending) = page.sending
                        /\ ~(At(page.sending, "ended") /\ page.read + 1 = Len(wire[page.sending]))
    BY <1>a, <1>b DEF CurrentOK, Quiet, To, At
  <2>2. page.sending \notin disturbed /\ NextEvent = "text"
    BY <1>a, <2>1
  <2>3. PICK s \in Sends : s = page.sending
    BY <1>0, <1>a, PageFields
  <2>4. page.read + 1 \in Nat /\ wire[s][page.read + 1] = "text"
    BY <1>0, <2>2, <2>3, PageFields DEF NextEvent
  <2>5. ~(At(s, "ended") /\ page.read + 1 = Len(wire[s]))
    BY <1>0, <2>4, NotOver DEF Final
  <2>6. page.shown = To(s) \/ (~HeaderExposed /\ page.shown = None /\ To(s) = s)
    BY <1>0, <1>a, <2>2, <2>3 DEF CurrentOK
  <2> QED BY <2>3, <2>5, <2>6
<1> QED BY <1>1, <1>2 DEF Undisturbed

(* What ReadLast shows: one entry, or an error below one. *)
LEMMA ShowsLast ==
  ASSUME TypeOK, TypeOK', ReadLast
  PROVE  /\ Sending /\ page.sending \in Sends /\ page.told /\ Extends
         /\ page'.shown = page.shown /\ page'.sending = page.sending /\ page'.told = page.told
         /\ Shown(page.sending, {"answer", "partial"})'
         /\ \A i \in DOMAIN page'.view :
              \/ i \in DOMAIN page.view /\ page'.view[i] = page.view[i]
              \/ page'.view[i].of = page.sending
                   /\ (page'.view[i].kind = "answer" => NextEvent = "end")
<1> DEFINE s == page.sending
           e(kind) == [kind |-> kind, of |-> s]
           k == IF page.text = Pieces THEN "answer" ELSE "partial"
<1>1. Sending /\ s \in Sends /\ page.told /\ NextEvent \in {"end", "error"} /\ page.view \in Seq(Entry)
      /\ Len(page.view) \in Nat /\ DOMAIN page.view = 1 .. Len(page.view)
  BY PageFields, Domains DEF ReadLast, HasEvent
<1>2. /\ page'.shown = page.shown /\ page'.sending = page.sending /\ page'.told = page.told
      /\ page'.view = IF NextEvent = "error" THEN Append(Append(page.view, e("partial")), e("wrong"))
                      ELSE Append(page.view, e(k))
  BY DEF ReadLast, Show, TypeOK
<1>3. e("partial") \in Entry /\ e("wrong") \in Entry /\ e(k) \in Entry /\ k \in {"answer", "partial"}
  BY <1>1 DEF Entry
<1>4. ASSUME NEW i \in DOMAIN page'.view, page'.view[i] = e("partial") \/ page'.view[i] = e("answer")
      PROVE  Shown(page.sending, {"answer", "partial"})'
  BY <1>2, <1>4 DEF Shown
<1>5. CASE NextEvent = "error"
  <2>1. PICK v \in Seq(Entry) : v = Append(page.view, e("partial"))
    BY <1>1, <1>3, Appended
  <2>2. /\ Len(v) = Len(page.view) + 1 /\ v[Len(page.view) + 1] = e("partial")
        /\ \A i \in 1 .. Len(page.view) : v[i] = page.view[i]
    BY <1>1, <1>3, <2>1, Appended
  <2>3. page'.view = Append(v, e("wrong"))
    BY <1>2, <1>5, <2>1
  <2>4. /\ page'.view \in Seq(Entry) /\ Len(page'.view) = Len(v) + 1
        /\ page'.view[Len(v) + 1] = e("wrong") /\ \A i \in 1 .. Len(v) : page'.view[i] = v[i]
    BY <1>3, <2>1, <2>3, Appended
  <2>5. DOMAIN page'.view = 1 .. Len(page.view) + 2
    BY <1>1, <2>2, <2>4
  <2>6. Extends
    BY <1>1, <2>2, <2>4, <2>5 DEF Extends
  <2>7. Len(page.view) + 1 \in DOMAIN page'.view /\ page'.view[Len(page.view) + 1] = e("partial")
    BY <1>1, <2>2, <2>4, <2>5
  <2>8. ASSUME NEW i \in DOMAIN page'.view
        PROVE  \/ i \in DOMAIN page.view /\ page'.view[i] = page.view[i]
               \/ page'.view[i].of = page.sending
                    /\ (page'.view[i].kind = "answer" => NextEvent = "end")
    <3>1. i \in 1 .. Len(page.view) \/ i = Len(page.view) + 1 \/ i = Len(page.view) + 2
      BY <1>1, <2>5
    <3>2. i = Len(page.view) + 2 => page'.view[i] = e("wrong")
      BY <1>1, <2>2, <2>4
    <3> QED BY <1>1, <2>2, <2>4, <2>7, <3>1, <3>2, SMTT(30)
  <2> QED BY <1>1, <1>2, <1>4, <2>6, <2>7, <2>8
<1>6. CASE NextEvent = "end"
  <2>1. page'.view = Append(page.view, e(k))
    BY <1>2, <1>6
  <2>2. /\ page'.view \in Seq(Entry) /\ Len(page'.view) = Len(page.view) + 1
        /\ page'.view[Len(page.view) + 1] = e(k)
        /\ \A i \in 1 .. Len(page.view) : page'.view[i] = page.view[i]
    BY <1>1, <1>3, <2>1, Appended
  <2>3. DOMAIN page'.view = 1 .. Len(page.view) + 1
    BY <1>1, <2>2
  <2>4. Extends
    BY <1>1, <2>2, <2>3 DEF Extends
  <2>5. Shown(page.sending, {"answer", "partial"})'
    BY <1>1, <1>3, <1>4, <2>2, <2>3
  <2>6. ASSUME NEW i \in DOMAIN page'.view
        PROVE  \/ i \in DOMAIN page.view /\ page'.view[i] = page.view[i]
               \/ page'.view[i].of = page.sending
                    /\ (page'.view[i].kind = "answer" => NextEvent = "end")
    <3>1. i \in 1 .. Len(page.view) \/ i = Len(page.view) + 1
      BY <1>1, <2>3
    <3> QED BY <1>1, <1>6, <2>2, <3>1
  <2> QED BY <1>1, <1>2, <2>4, <2>5, <2>6
<1> QED BY <1>1, <1>5, <1>6

LEMMA ReadsLast ==
  ASSUME PageInv, ChatInv', ReadLast
  PROVE  Undisturbed'
<1>0. /\ TypeOK /\ TypeOK' /\ CurrentOK
  BY DEF PageInv, ChatInv, Undisturbed
<1>a. Quiet /\ loads' = loads /\ disturbed' = disturbed
  BY DEF ReadLast, Quiet, serverVars
<1>b. /\ Sending /\ page.told /\ Extends
      /\ page'.shown = page.shown /\ page'.sending = page.sending /\ page'.told = page.told
      /\ Shown(page.sending, {"answer", "partial"})'
  BY <1>0, ShowsLast
<1>c. \A s : Shown(s, {"answer", "partial"})' => Shown(s, {"answer", "partial"}) \/ s = page.sending
  BY <1>0, ShowsLast DEF Shown
<1>1. (\A s \in Sends : RunningOK(s)') /\ LoadsOK' /\ NothingLostUndisturbed'
      /\ AnswerInItsConversation'
  BY <1>a, <1>b, <1>c, ReadStep
<1>2. CurrentOK'
  <2>1. page.sending \notin disturbed =>
          \/ page.shown = To(page.sending)
          \/ ~HeaderExposed /\ page.shown = None /\ To(page.sending) = page.sending
    BY <1>0, <1>b DEF CurrentOK
  <2>2. To(page.sending)' = To(page.sending)
    BY <1>a, <1>b DEF To, Quiet
  <2> QED BY <1>a, <1>b, <2>1, <2>2 DEF CurrentOK
<1> QED BY <1>1, <1>2 DEF Undisturbed

(* The headers name the conversation the page shows, or a new one.         *)
LEMMA ReadsHeaders ==
  ASSUME PageInv, ChatInv', ReadHeaders
  PROVE  Undisturbed'
<1>0. /\ ChatInv /\ ViewOK /\ TypeOK /\ PageOK /\ CurrentOK
      /\ \A s \in Sends : RunningOK(s) /\ WireOK(s) /\ SendOK(s)
  BY DEF PageInv, ChatInv, Undisturbed, SendsInv
<1>1. PICK r \in Sends : r = page.sending /\ send[r].byPage /\ \A t \in Sends : t > r => ~send[t].byPage
  BY <1>0, PageFields DEF ReadHeaders, PageOK
<1>a. Sending /\ ~page.told /\ Quiet /\ loads' = loads /\ disturbed' = disturbed
  BY DEF ReadHeaders, Quiet, serverVars
<1>b. /\ page'.view = page.view /\ page'.sending = r /\ page'.told = TRUE /\ page'.read = 1
      /\ page'.shown = IF HeaderExposed /\ To(r) = r THEN r ELSE page.shown
  BY <1>0, <1>1 DEF ReadHeaders, TypeOK
<1>c. /\ \A s : To(s)' = To(s) /\ send'[s] = send[s] /\ (Own(s)' <=> Own(s))
      /\ \A s, role : Saved(s, role)' <=> Saved(s, role)
      /\ \A s, kinds : Shown(s, kinds)' <=> Shown(s, kinds)
      /\ wire' = wire
  BY <1>a, <1>b, QuietSends DEF Shown, Own, Quiet
<1>2. ASSUME NEW s \in Sends PROVE RunningOK(s)'
  <2>1. Running' = Running
    BY <1>1, <1>b, <1>c DEF Running
  <2> QED BY <1>0, <1>1, <1>a, <1>b, <1>c, <2>1 DEF RunningOK
<1>3. CurrentOK'
  <2>1. r \notin disturbed =>
          \/ page'.shown = To(r)
          \/ ~HeaderExposed /\ page'.shown = None /\ To(r) = r
    BY <1>0, <1>1, <1>a, <1>b DEF CurrentOK
  <2>2. ~(At(r, "ended") /\ 1 = Len(wire[r]))
    BY <1>0, NotOver
  <2> QED BY <1>a, <1>b, <1>c, <2>1, <2>2 DEF CurrentOK, At
<1>4. LoadsOK'
  BY <1>a, <1>c DEF LoadsOK, LoadOK, Holds, PageInv, Undisturbed
<1>5. NothingLostUndisturbed'
  <2>1. SUFFICES ASSUME NEW s \in Sends \ (disturbed \cup {r}), send[s].byPage, To(s) # None,
                        To(s) = page'.shown
                 PROVE  /\ Saved(s, "USER") => Shown(s, {"user"})
                        /\ Saved(s, "ASSISTANT") => Shown(s, {"answer", "partial", "wrong", "offline"})
    BY <1>a, <1>b, <1>c DEF NothingLostUndisturbed
  <2>2. To(s) # r
    <3>1. SUFFICES ASSUME To(s) = r PROVE FALSE
      OBVIOUS
    <3>2. r <= s /\ s # r
      BY <1>0, <2>1, <3>1 DEF SendOK
    <3> QED BY <1>1, <2>1, <3>2 DEF Sends
  <2>3. To(s) = page.shown
    BY <1>b, <2>1, <2>2
  <2> QED BY <1>1, <2>1, <2>3 DEF NothingLostUndisturbed, PageInv, Undisturbed
<1>6. AnswerInItsConversation'
  <2>1. SUFFICES ASSUME NEW s \in Sends \ disturbed, send[s].byPage, Shown(s, {"answer", "partial"}),
                        page'.shown # page.shown
                 PROVE  To(s) = page'.shown \/ (HeaderExposed /\ page'.shown \in disturbed)
    BY <1>a, <1>c DEF AnswerInItsConversation, PageInv, Undisturbed
  <2>2. HeaderExposed /\ page'.shown = r /\ To(r) = r
    BY <1>b, <2>1
  <2>3. CASE r \in disturbed
    BY <2>2, <2>3
  <2>4. CASE r \notin disturbed
    <3>1. page.shown = None
      BY <1>0, <1>1, <1>a, <2>1, <2>2, <2>4 DEF CurrentOK
    <3>2. To(s) # None
      BY <1>0, <2>1, Domains DEF Shown, ViewOK, EntryOK
    <3>3. None \notin disturbed
      BY <1>0, Domains DEF TypeOK
    <3>4. To(s) = page.shown \/ page.shown \in disturbed
      BY <2>1, <2>2 DEF AnswerInItsConversation, PageInv, Undisturbed
    <3> QED BY <3>1, <3>2, <3>3, <3>4
  <2> QED BY <2>3, <2>4
<1> QED BY <1>2, <1>3, <1>4, <1>5, <1>6 DEF Undisturbed

(* A response that is over, read to its end, or a connection that is lost. *)
LEMMA Ends ==
  ASSUME TypeOK, ResponseEnds \/ ServerGone \/ Disconnect
  PROVE  /\ Sending /\ Quiet /\ loads' = loads /\ disturbed' = disturbed
         /\ page'.sending = None /\ page'.shown = page.shown /\ Extends
         /\ \A s : Shown(s, {"answer", "partial"})' => Shown(s, {"answer", "partial"})
         /\ \/ send[page.sending].pc \in {"ended", "refused"} /\ page.read = Len(wire[page.sending])
            \/ \E s \in Sends : s = page.sending /\ Shown(s, {"offline"})'
         /\ \A i \in DOMAIN page'.view :
              \/ i \in DOMAIN page.view /\ page'.view[i] = page.view[i]
              \/ page'.view[i].kind = "offline"
<1>1. CASE ResponseEnds
  <2>1. page'.sending = None /\ page'.shown = page.shown /\ page'.view = page.view
    BY <1>1 DEF ResponseEnds, TypeOK
  <2>2. Extends /\ \A s, kinds : Shown(s, kinds)' <=> Shown(s, kinds)
    BY <2>1 DEF Extends, Shown
  <2> QED BY <1>1, <2>1, <2>2 DEF ResponseEnds, Quiet, serverVars
<1>2. CASE ServerGone \/ Disconnect
  <2>1. /\ page' = [Show(page, "offline") EXCEPT !.sending = None] /\ Sending /\ Quiet
        /\ loads' = loads /\ disturbed' = disturbed
    BY <1>2 DEF ServerGone, Disconnect, LoseConnection, Quiet, serverVars
  <2>2. /\ page'.sending = None /\ page'.shown = page.shown
        /\ page'.view = Append(page.view, [kind |-> "offline", of |-> page.sending])
    BY <2>1 DEF Show, TypeOK
  <2>3. PICK e \in Entry : e = [kind |-> "offline", of |-> page.sending]
    BY <2>1, PageFields DEF Entry
  <2>4. Extends /\ Shown(e.of, {"offline"})'
    BY <2>2, <2>3, Shows
  <2>5. \A s : Shown(s, {"answer", "partial"})' => Shown(s, {"answer", "partial"})
    BY <2>2, <2>3, Shows
  <2>6. \A i \in DOMAIN page'.view : i \in DOMAIN page.view \/ page'.view[i] = e
    BY <2>2, <2>3, Shows
  <2>7. PICK s \in Sends : s = e.of
    BY DEF Entry
  <2>8. s = page.sending /\ Shown(s, {"offline"})'
    BY <2>3, <2>4, <2>7
  <2> QED BY <2>1, <2>2, <2>3, <2>4, <2>5, <2>6, <2>8 DEF Extends
<1> QED BY <1>1, <1>2

LEMMA EndsStep ==
  ASSUME PageInv, ChatInv', ResponseEnds \/ ServerGone \/ Disconnect
  PROVE  Undisturbed'
<1>0. /\ ChatInv /\ ViewOK /\ TypeOK /\ PageOK /\ CurrentOK
      /\ \A s \in Sends : RunningOK(s) /\ LogOK(s) /\ SendOK(s)
  BY DEF PageInv, ChatInv, Undisturbed, SendsInv
<1>1. PICK r \in Sends : r = page.sending /\ send[r].byPage
  BY <1>0, Ends, PageFields DEF PageOK
<1>a. /\ Sending /\ Quiet /\ loads' = loads /\ disturbed' = disturbed
      /\ page'.sending = None /\ page'.shown = page.shown /\ Extends
      /\ \A s : Shown(s, {"answer", "partial"})' => Shown(s, {"answer", "partial"})
  BY <1>0, Ends
<1>b. \/ send[r].pc \in {"ended", "refused"} /\ page.read = Len(wire[r])
      \/ Shown(r, {"offline"})'
  BY <1>0, <1>1, Ends
<1>c. /\ \A s : To(s)' = To(s) /\ send'[s] = send[s] /\ (Own(s)' <=> Own(s))
      /\ \A s, role : Saved(s, role)' <=> Saved(s, role)
      /\ \A s, kinds : Shown(s, kinds) => Shown(s, kinds)'
  BY <1>a, QuietSends, ShownStays DEF Own
<1>2. ASSUME NEW s \in Sends PROVE RunningOK(s)'
  <2>1. SUFFICES ASSUME Own(s), (s \in Running)'
                 PROVE  loads = {} /\ Shown(s, {"user"})' /\ Shown(s, {"offline"})'
    BY <1>a, <1>c DEF RunningOK
  <2>2. s \in Running /\ send[s].pc \notin Over
    BY <1>a, <1>c, <2>1 DEF Running, None, Sends
  <2>3. s # r => Shown(s, {"offline"})
    BY <1>0, <1>1, <2>1, <2>2 DEF RunningOK
  <2>4. s = r => Shown(s, {"offline"})'
    BY <1>b, <2>2 DEF Over
  <2> QED BY <1>0, <1>c, <2>1, <2>2, <2>3, <2>4 DEF RunningOK
<1>3. CurrentOK'
  BY <1>a DEF CurrentOK, Sending
<1>4. LoadsOK'
  BY <1>a, <1>c DEF LoadsOK, LoadOK, Holds, PageInv, Undisturbed
<1>5. NothingLostUndisturbed'
  <2>1. SUFFICES ASSUME NEW s \in Sends \ disturbed, send[s].byPage, To(s) # None, To(s) = page.shown
                 PROVE  /\ Saved(s, "USER") => Shown(s, {"user"})'
                        /\ Saved(s, "ASSISTANT") =>
                             Shown(s, {"answer", "partial", "wrong", "offline"})'
    BY <1>a, <1>c DEF NothingLostUndisturbed
  <2>2. CASE s # r
    BY <1>1, <1>c, <2>1, <2>2 DEF NothingLostUndisturbed, PageInv, Undisturbed
  <2>3. CASE s = r
    <3>1. Shown(s, {"user"})
      BY <1>0, <1>1, <2>1, <2>3 DEF RunningOK, Running, Own
    <3>2. CASE Shown(s, {"offline"})'
      BY <1>c, <3>1, <3>2 DEF Shown
    <3>3. ASSUME send[s].pc \in {"ended", "refused"}, page.read = Len(wire[s]), Saved(s, "ASSISTANT")
          PROVE  Shown(s, {"answer", "partial"})
      <4>1. PICK c \in Convs : c = To(s)
        BY <1>0, <2>1, PageFields
      <4>2. PICK i \in DOMAIN log[c] : log[c][i] = [role |-> "ASSISTANT", of |-> s]
        BY <3>3, <4>1 DEF Saved
      <4>3. LogOK(c) /\ DOMAIN log[c] = 1 .. Len(log[c])
        BY <1>0, <4>1, Domains DEF Convs
      <4>4. send[s].pc \in {"complete", "ended", "cut"}
        BY <4>2, <4>3 DEF LogOK
      <4>5. At(s, "ended")
        BY <3>3, <4>4 DEF At
      <4> QED BY <1>0, <1>1, <1>a, <2>1, <2>3, <3>3, <4>5 DEF CurrentOK
    <3>4. ASSUME Saved(s, "ASSISTANT"), ~Shown(s, {"offline"})' PROVE Shown(s, {"answer", "partial"})'
      BY <1>b, <1>c, <2>3, <3>3, <3>4
    <3> QED BY <1>c, <3>1, <3>4 DEF Shown
  <2> QED BY <2>2, <2>3
<1>6. AnswerInItsConversation'
  BY <1>a, <1>c DEF AnswerInItsConversation, PageInv, Undisturbed
<1> QED BY <1>2, <1>3, <1>4, <1>5, <1>6 DEF Undisturbed

(* The user moves: every send that runs is disturbed, so what arrives      *)
(* later is of a conversation that holds all its sends have saved.         *)
LEMMA Moved ==
  ASSUME PageInv, Quiet, page'.sending = page.sending, disturbed \subseteq disturbed',
         \A s \in Sends : s \in Running => s \in disturbed' \/ ~Own(s)
  PROVE  (\A s \in Sends : RunningOK(s)') /\ CurrentOK'
<1>0. TypeOK /\ PageOK
  BY DEF PageInv, ChatInv
<1>1. Running' = Running /\ \A s \in Sends : Own(s)' => Own(s) /\ s \notin disturbed'
  BY DEF Running, Own, Quiet
<1>2. Sending => page.sending \in Running /\ page.sending \in Sends /\ send[page.sending].byPage
  BY <1>0, PageFields DEF Running, PageOK
<1>3. CurrentOK'
  BY <1>2 DEF CurrentOK, Sending, Own
<1> QED BY <1>1, <1>3 DEF RunningOK

LEMMA LoadStep ==
  ASSUME PageInv, ChatInv', NEW l \in loads, LoadArrives(l)
  PROVE  Undisturbed'
<1>0. /\ ChatInv /\ ViewOK /\ TypeOK /\ \A s \in Sends : RunningOK(s)
  BY DEF PageInv, ChatInv, Undisturbed
<1>a. Quiet /\ loads' = loads \ {l} /\ disturbed' = disturbed
  BY DEF LoadArrives, Quiet, serverVars
<1>b. page'.shown = l.conv /\ page'.view = l.view /\ page'.sending = page.sending
  BY <1>0 DEF LoadArrives, TypeOK
<1>c. /\ \A s : To(s)' = To(s) /\ send'[s] = send[s] /\ (Own(s)' <=> Own(s))
      /\ \A s, role : Saved(s, role)' <=> Saved(s, role)
  BY <1>a, QuietSends DEF Own
<1>d. l.view \in Seq(Entry) /\ DOMAIN l.view = 1 .. Len(l.view) /\ l.conv \in Convs
  <2>1. l.view \in Seq(Entry) /\ l.conv \in Convs
    BY <1>0, Domains
  <2> QED BY <2>1
<1>1. (\A s \in Sends : RunningOK(s)') /\ CurrentOK'
  <2>1. \A s \in Sends : s \in Running => ~Own(s)
    BY <1>0 DEF RunningOK
  <2> QED BY <1>a, <1>b, <2>1, Moved
<1>2. LoadsOK'
  BY <1>a, <1>c DEF LoadsOK, LoadOK, Holds, PageInv, Undisturbed
<1>3. NothingLostUndisturbed'
  <2>1. SUFFICES ASSUME NEW s \in Sends \ disturbed, send[s].byPage, To(s) = l.conv
                 PROVE  /\ Saved(s, "USER") => Shown(s, {"user"})'
                        /\ Saved(s, "ASSISTANT") =>
                             Shown(s, {"answer", "partial", "wrong", "offline"})'
    BY <1>a, <1>b, <1>c DEF NothingLostUndisturbed
  <2>2. /\ Saved(s, "USER") => Holds(l.view, s, "user")
        /\ Saved(s, "ASSISTANT") => Holds(l.view, s, "answer")
    BY <2>1 DEF LoadsOK, LoadOK, Own, PageInv, Undisturbed
  <2>3. /\ Holds(l.view, s, "user") => Shown(s, {"user"})'
        /\ Holds(l.view, s, "answer") => Shown(s, {"answer", "partial", "wrong", "offline"})'
    BY <1>b, <1>d DEF Holds, Shown
  <2> QED BY <2>2, <2>3
<1>4. AnswerInItsConversation'
  <2>1. SUFFICES ASSUME NEW s \in Sends, Shown(s, {"answer", "partial"})'
                 PROVE  To(s) = l.conv
    BY <1>b, <1>c DEF AnswerInItsConversation
  <2>2. PICK i \in 1 .. Len(l.view) : l.view[i].of = s /\ l.view[i].kind \in {"answer", "partial"}
    BY <1>b, <1>d, <2>1 DEF Shown
  <2> QED BY <1>0, <2>2 DEF ViewOK
<1> QED BY <1>1, <1>2, <1>3, <1>4 DEF Undisturbed

LEMMA NewChatStep ==
  ASSUME PageInv, ChatInv', StartNewChat
  PROVE  Undisturbed'
<1>0. TypeOK
  BY DEF PageInv, ChatInv
<1>a. Quiet /\ loads' = loads /\ disturbed' = disturbed \cup Running
  BY DEF StartNewChat, Quiet, serverVars, Disturb
<1>b. page'.shown = None /\ page'.view = <<>> /\ page'.sending = page.sending
  BY <1>0 DEF StartNewChat, TypeOK
<1>c. /\ \A s : To(s)' = To(s) /\ send'[s] = send[s] /\ (Own(s)' => Own(s))
      /\ \A s, role : Saved(s, role)' <=> Saved(s, role)
  BY <1>a, QuietSends DEF Own
<1>1. (\A s \in Sends : RunningOK(s)') /\ CurrentOK'
  BY <1>a, <1>b, Moved
<1>2. LoadsOK'
  <2>1. SUFFICES ASSUME NEW l \in loads, NEW s \in Sends, Own(s)', To(s)' = l.conv
                 PROVE  /\ Saved(s, "USER")' => Holds(l.view, s, "user")
                        /\ Saved(s, "ASSISTANT")' => Holds(l.view, s, "answer")
    BY <1>a DEF LoadsOK, LoadOK, Holds
  <2> QED BY <1>c, <2>1 DEF LoadsOK, LoadOK, PageInv, Undisturbed
<1>3. NothingLostUndisturbed' /\ AnswerInItsConversation'
  BY <1>b DEF NothingLostUndisturbed, AnswerInItsConversation, Shown
<1> QED BY <1>1, <1>2, <1>3 DEF Undisturbed

(* What the server returns of a conversation. *)
LEMMA Fetched ==
  ASSUME TypeOK, NEW c \in Convs
  PROVE  /\ Len(Snapshot(c)) = Len(log[c]) /\ Len(log[c]) \in Nat
         /\ \A i \in 1 .. Len(log[c]) :
              Snapshot(c)[i] = [kind |-> IF log[c][i].role = "USER" THEN "user" ELSE "answer",
                                of |-> log[c][i].of]
         /\ \A s \in Sends : To(s) = c =>
              /\ Saved(s, "USER") => Holds(Snapshot(c), s, "user")
              /\ Saved(s, "ASSISTANT") => Holds(Snapshot(c), s, "answer")
<1>1. log[c] \in Seq(Message) /\ DOMAIN log[c] = 1 .. Len(log[c]) /\ Len(log[c]) \in Nat
  BY Domains
<1>2. Len(Snapshot(c)) = Len(log[c])
  BY <1>1 DEF Snapshot
<1>3. \A i \in 1 .. Len(log[c]) :
        Snapshot(c)[i] = [kind |-> IF log[c][i].role = "USER" THEN "user" ELSE "answer",
                          of |-> log[c][i].of]
  BY DEF Snapshot
<1>4. ASSUME NEW s \in Sends, To(s) = c
      PROVE  /\ Saved(s, "USER") => Holds(Snapshot(c), s, "user")
             /\ Saved(s, "ASSISTANT") => Holds(Snapshot(c), s, "answer")
  BY <1>1, <1>2, <1>3, <1>4 DEF Saved, Holds
<1> QED BY <1>1, <1>2, <1>3, <1>4

LEMMA ClickStep ==
  ASSUME PageInv, ChatInv', NEW c \in Convs, ClickConversation(c)
  PROVE  Undisturbed'
<1>0. TypeOK
  BY DEF PageInv, ChatInv
<1>a. /\ Quiet /\ loads' = loads \cup {[conv |-> c, view |-> Snapshot(c)]} /\ page' = page
      /\ disturbed' = disturbed \cup Running
  BY DEF ClickConversation, Quiet, serverVars, Disturb
<1>c. /\ \A s : To(s)' = To(s) /\ send'[s] = send[s] /\ (Own(s)' => Own(s))
      /\ \A s, role : Saved(s, role)' <=> Saved(s, role)
      /\ \A s, kinds : Shown(s, kinds)' <=> Shown(s, kinds)
  BY <1>a, QuietSends DEF Own, Shown
<1>1. (\A s \in Sends : RunningOK(s)') /\ CurrentOK'
  BY <1>a, Moved
<1>2. LoadsOK'
  <2>1. SUFFICES ASSUME NEW l \in loads', NEW s \in Sends, Own(s)', To(s)' = l.conv
                 PROVE  /\ Saved(s, "USER")' => Holds(l.view, s, "user")
                        /\ Saved(s, "ASSISTANT")' => Holds(l.view, s, "answer")
    BY DEF LoadsOK, LoadOK, Holds
  <2>2. CASE l \in loads
    BY <1>c, <2>1, <2>2 DEF LoadsOK, LoadOK, PageInv, Undisturbed
  <2>3. CASE l.conv = c /\ l.view = Snapshot(c)
    BY <1>0, <1>c, <2>1, <2>3, Fetched
  <2> QED BY <1>a, <2>2, <2>3
<1>3. NothingLostUndisturbed' /\ AnswerInItsConversation'
  BY <1>a, <1>c DEF NothingLostUndisturbed, AnswerInItsConversation, PageInv, Undisturbed
<1> QED BY <1>1, <1>2, <1>3 DEF Undisturbed

-----------------------------------------------------------------------------
(* What is shown or fetched as an answer has been stored.                  *)

LEMMA FetchedOK ==
  ASSUME ChatInv, ChatInv', NEW c \in Convs, Quiet, NEW i \in 1 .. Len(Snapshot(c)),
         NEW e \in Entry, e = Snapshot(c)[i]
  PROVE  EntryOK(e)' /\ e.kind # "partial" /\ (e.kind = "answer" => To(e.of)' = c)
<1>0. TypeOK /\ LogOK(c) /\ log[c] \in Seq(Message)
  BY DEF ChatInv, SendsInv, TypeOK, Convs
<1>1. PICK m \in Message : m = log[c][i] /\ i \in DOMAIN log[c]
  BY <1>0, Fetched
<1>2. i \in 1 .. Len(log[c])
  BY <1>0, Fetched
<1>3. e.of = m.of /\ e.kind = IF m.role = "USER" THEN "user" ELSE "answer"
  <2>1. Snapshot(c)[i] = [kind |-> IF log[c][i].role = "USER" THEN "user" ELSE "answer",
                          of |-> log[c][i].of]
    BY <1>0, <1>2, Fetched
  <2> QED BY <1>1, <2>1
<1>4. To(m.of) = c
  BY <1>0, <1>1, <1>2 DEF LogOK
<1>5. e.kind = "answer" => Saved(e.of, "ASSISTANT")
  <2>1. m.role # "USER" => m = [role |-> "ASSISTANT", of |-> m.of]
    BY DEF Message
  <2> QED BY <1>1, <1>3, <1>4, <2>1 DEF Saved
<1>6. To(e.of)' = c /\ (e.kind = "answer" => Stored(e.of)')
  BY <1>3, <1>4, <1>5 DEF Quiet, To, Stored, Saved
<1> QED BY <1>3, <1>6 DEF EntryOK, Sends, None, Convs

LEMMA ViewStep ==
  ASSUME ChatInv, ChatInv', ViewOK, [Next]_vars
  PROVE  ViewOK'
<1>0. /\ TypeOK /\ TypeOK' /\ StepTable /\ PageOK
      /\ \A s \in Sends : SendOK(s) /\ WireOK(s)
  BY StepsInTable DEF ChatInv, SendsInv
<1>a. DOMAIN page.view = 1 .. Len(page.view) /\ DOMAIN page'.view = 1 .. Len(page'.view)
      /\ page.view \in Seq(Entry) /\ page'.view \in Seq(Entry)
  BY <1>0, ViewDomain
<1> DEFINE Viewed(e) == \E i \in DOMAIN page.view : page.view[i] = e
           Views == \A e \in Entry : (\E i \in DOMAIN page'.view : page'.view[i] = e)
                                        => Viewed(e) \/ EntryOK(e)'
           Fresh(l) == \A i \in 1 .. Len(l.view) : \A e \in Entry : e = l.view[i] =>
                         EntryOK(e)' /\ e.kind # "partial" /\ (e.kind = "answer" => To(e.of)' = l.conv)
<1>b. \A e \in Entry : Viewed(e) => EntryOK(e)'
  <2>1. \A e \in Entry : EntryOK(e) => EntryOK(e)'
    BY <1>0, EntryStays
  <2>2. \A e \in Entry : Viewed(e) => EntryOK(e)
    BY <1>a DEF ViewOK
  <2> HIDE DEF Viewed
  <2> QED BY <2>1, <2>2
<1>c. \A l \in loads : Fresh(l)
  <2>1. SUFFICES ASSUME NEW l \in loads, NEW i \in 1 .. Len(l.view), NEW e \in Entry, e = l.view[i]
                 PROVE  EntryOK(e)' /\ e.kind # "partial" /\ (e.kind = "answer" => To(e.of)' = l.conv)
    OBVIOUS
  <2>2. EntryOK(e) /\ e.kind # "partial" /\ (e.kind = "answer" => To(e.of) = l.conv)
    BY <2>1 DEF ViewOK
  <2>3. l.conv # None
    BY <1>0, Domains DEF Convs
  <2>4. EntryOK(e)' /\ (To(e.of) # None => To(e.of)' = To(e.of))
    BY <1>0, <2>2, EntryStays
  <2> QED BY <2>2, <2>3, <2>4
<1>1. ASSUME Views, \A l \in loads' : l \in loads \/ Fresh(l) PROVE ViewOK'
  <2>1. ASSUME NEW i \in 1 .. Len(page'.view), NEW e, e = page'.view[i] PROVE EntryOK(e)'
    <3>1. e \in Entry
      BY <1>a, <2>1
    <3>2. Viewed(e) \/ EntryOK(e)'
      BY <1>1, <1>a, <2>1, <3>1
    <3> HIDE DEF Viewed
    <3> QED BY <1>b, <3>1, <3>2
  <2>2. ASSUME NEW l \in loads', NEW i \in 1 .. Len(l.view), NEW e, e = l.view[i]
        PROVE  EntryOK(e)' /\ e.kind # "partial" /\ (e.kind = "answer" => To(e.of)' = l.conv)
    <3>1. l.view \in Seq(Entry)
      BY <1>0 DEF TypeOK
    <3>2. e \in Entry
      BY <2>2, <3>1
    <3>3. Fresh(l)
      BY <1>1, <1>c
    <3> QED BY <2>2, <3>2, <3>3
  <2>3. ASSUME NEW i \in 1 .. Len(page'.view) PROVE EntryOK(page.view[i])'
    BY <2>1 DEF EntryOK, To, Stored, Saved
  <2>4. ASSUME NEW l \in loads', NEW i \in 1 .. Len(l.view)
        PROVE  /\ EntryOK(l.view[i])' /\ l.view[i].kind # "partial"
               /\ l.view[i].kind = "answer" => To(l.view[i].of)' = l.conv
    BY <2>2 DEF EntryOK, To, Stored, Saved
  <2> HIDE DEF Views, Fresh
  <2> QED BY <2>3, <2>4 DEF ViewOK
<1>2. CASE page'.view = page.view /\ loads' = loads
  BY <1>1, <1>2
<1>3. ASSUME NEW r \in Sends, SendMessage(r) PROVE ViewOK'
  <2>1. page'.view = Append(page.view, [kind |-> "user", of |-> r]) /\ loads' = loads
    BY <1>0, <1>3 DEF SendMessage, TypeOK
  <2>2. [kind |-> "user", of |-> r] \in Entry
    BY DEF Entry
  <2>3. \A i \in DOMAIN page'.view : i \in DOMAIN page.view \/ page'.view[i] = [kind |-> "user", of |-> r]
    BY <1>0, <2>1, <2>2, Shows
  <2>4. Extends
    BY <1>0, <2>1, <2>2, Shows
  <2>5. EntryOK([kind |-> "user", of |-> r])'
    BY DEF EntryOK
  <2> QED BY <1>1, <2>1, <2>3, <2>4, <2>5 DEF Extends
<1>4. CASE ReadHeaders \/ ReadText \/ SplitEvent
  BY <1>0, <1>2, <1>4 DEF ReadHeaders, ReadText, SplitEvent, TypeOK
<1>5. CASE ReadLast
  <2>1. PICK s \in Sends : s = page.sending
    BY <1>0, <1>5, ShowsLast
  <2>2. \A i \in DOMAIN page'.view :
          \/ i \in DOMAIN page.view /\ page'.view[i] = page.view[i]
          \/ page'.view[i].of = s /\ (page'.view[i].kind = "answer" => NextEvent = "end")
    BY <1>0, <1>5, <2>1, ShowsLast
  <2>3. page.read + 1 \in 1 .. Len(wire[s]) /\ NextEvent = wire[s][page.read + 1] /\ wire[s] # <<>>
    <3>1. page.read \in Nat /\ Len(wire[s]) \in Nat /\ page.read < Len(wire[s])
      BY <1>0, <1>5, <2>1, PageFields, Domains DEF ReadLast, HasEvent
    <3> QED BY <2>1, <3>1 DEF NextEvent
  <2>4. To(s) # None /\ (NextEvent = "end" => Stored(s))
    BY <1>0, <2>3 DEF WireOK
  <2>5. Quiet /\ loads' = loads
    BY <1>5 DEF ReadLast, Quiet, serverVars
  <2>6. To(s)' # None /\ (NextEvent = "end" => Stored(s)')
    BY <2>4, <2>5 DEF Quiet, To, Stored, Saved
  <2>7. ASSUME NEW e \in Entry, e.of = s, e.kind = "answer" => NextEvent = "end" PROVE EntryOK(e)'
    BY <2>6, <2>7 DEF EntryOK, To, Stored, Saved
  <2> QED BY <1>1, <2>2, <2>5, <2>7
<1>6. CASE ResponseEnds \/ ServerGone \/ Disconnect
  <2>1. \A i \in DOMAIN page'.view :
          \/ i \in DOMAIN page.view /\ page'.view[i] = page.view[i]
          \/ page'.view[i].kind = "offline"
    BY <1>0, <1>6, Ends
  <2>2. \A e \in Entry : e.kind = "offline" => EntryOK(e)'
    BY DEF EntryOK
  <2>3. loads' = loads
    BY <1>0, <1>6, Ends
  <2> QED BY <1>1, <2>1, <2>2, <2>3
<1>7. CASE StartNewChat
  <2>1. page'.view = <<>> /\ loads' = loads
    BY <1>0, <1>7 DEF StartNewChat, TypeOK
  <2> QED BY <1>1, <2>1
<1>8. ASSUME NEW l \in loads, LoadArrives(l) PROVE ViewOK'
  <2>1. page'.view = l.view /\ loads' \subseteq loads /\ l.view \in Seq(Entry)
    BY <1>0, <1>8 DEF LoadArrives, TypeOK
  <2>2. DOMAIN l.view = 1 .. Len(l.view)
    BY <2>1
  <2>3. Views
    BY <1>c, <2>1, <2>2
  <2> QED BY <1>1, <2>1, <2>3
<1>9. ASSUME NEW c \in Convs, ClickConversation(c) PROVE ViewOK'
  <2>1. /\ Quiet /\ loads' = loads \cup {[conv |-> c, view |-> Snapshot(c)]} /\ page' = page
    BY <1>9 DEF ClickConversation, Quiet, serverVars
  <2>2. \A i \in 1 .. Len(Snapshot(c)) : \A e \in Entry : e = Snapshot(c)[i] =>
          EntryOK(e)' /\ e.kind # "partial" /\ (e.kind = "answer" => To(e.of)' = c)
    BY <2>1, FetchedOK
  <2>3. ASSUME NEW l \in loads', l \notin loads PROVE Fresh(l)
    <3>1. l.view = Snapshot(c) /\ l.conv = c
      BY <2>1, <2>3
    <3> QED BY <2>2, <3>1
  <2> QED BY <1>1, <2>1, <2>3
<1>10. CASE Untouched
  BY <1>2, <1>10 DEF Untouched
<1> QED BY <1>3, <1>4, <1>5, <1>6, <1>7, <1>8, <1>9, <1>10, PageTable

LEMMA PageInit == Init => PageInv
<1> SUFFICES ASSUME Init PROVE PageInv
  OBVIOUS
<1>1. ChatInv
  BY ChatInit
<1>2. /\ loads = {} /\ page.view = <<>> /\ page.sending = None
      /\ \A s \in Sends : ~send[s].byPage
  BY DEF Init
<1> QED
  BY <1>1, <1>2 DEF PageInv, ViewOK, Undisturbed, RunningOK, Own, CurrentOK, Sending, LoadsOK,
     NothingLostUndisturbed, AnswerInItsConversation

LEMMA PageInvStep == PageInv /\ [Next]_vars => PageInv'
<1> SUFFICES ASSUME PageInv, [Next]_vars PROVE PageInv'
  OBVIOUS
<1>1. ChatInv /\ ViewOK
  BY DEF PageInv
<1>2. ChatInv'
  BY <1>1, ChatStep
<1>3. ViewOK'
  BY <1>1, <1>2, ViewStep
<1>4. Undisturbed'
  BY <1>1, <1>2, PageTable, ServerStep, SendMessageStep, ReadsHeaders, ReadsOn, ReadsLast, EndsStep,
     NewChatStep, LoadStep, ClickStep
<1> QED BY <1>2, <1>3, <1>4 DEF PageInv

(* What the page shows as a whole answer is stored in its conversation,    *)
(* and shown there: ReadLast shows what the completion event ended, and a  *)
(* page adopts a conversation (ReadHeaders) or a fetched one (LoadArrives) *)
(* without an answer of another, unless the user moved meanwhile.  A page  *)
(* that cannot read the header stays without a conversation and shows the  *)
(* answers of those its sends open.                                        *)
THEOREM AnswersCorrect == Spec => []AnswersBelong
<1>1. PageInv => AnswersBelong
  <2> SUFFICES ASSUME PageInv PROVE AnswersBelong
    OBVIOUS
  <2>1. AnswerShownIsSaved
    BY Domains DEF AnswerShownIsSaved, Shown, ViewOK, EntryOK, Stored, PageInv, ChatInv
  <2> QED BY <2>1 DEF AnswersBelong, PageInv, Undisturbed
<1> QED BY <1>1, PageInit, PageInvStep, PTL DEF Spec

(* The messages of the page's own sends that the conversation shown holds  *)
(* are on the page, or an error is, unless the user moved between          *)
(* conversations while the answer was on its way or its last event was     *)
(* split.                                                                  *)
THEOREM NothingLostCorrect == Spec => []NothingLostUndisturbed
<1>1. PageInv => NothingLostUndisturbed
  BY DEF PageInv, Undisturbed
<1> QED BY <1>1, PageInit, PageInvStep, PTL DEF Spec
=============================================================================
