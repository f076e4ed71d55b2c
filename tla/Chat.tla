-------------------------------- MODULE Chat --------------------------------
(***************************************************************************)
(* A chat: AiController.chat with its rate limit, the conversations it     *)
(* writes, the server-sent events it streams, and the chat page that shows *)
(* them.  A send is one POST /ai/chat, a sequence of awaited Redis,        *)
(* Postgres and model calls; the page reads the events while the user may  *)
(* open another conversation.  Other clients of the same user send too.    *)
(*                                                                         *)
(* A send creates at most one conversation, which is named after it.       *)
(***************************************************************************)
EXTENDS Integers, SequencesExt

CONSTANTS
  MaxSends,   \* a bound on the sends
  MaxClicks,  \* a bound on how often the user opens or leaves a conversation
  MaxMessages,  \* rateLimitMessages of the chatbot, whose limit is enabled
  Pieces,     \* the pieces of text the model streams
  BodyAccepted,   \* whether the ValidationPipe lets a body through; at this
                  \* commit it does not: ChatDto's fields have no decorators
  HeaderExposed,  \* whether the page may read X-Conversation-Id; at this commit
                  \* it may not: the API is another origin and exposes no header
  Faults,     \* subset of FaultKinds
  MaxFaults   \* a bound on the faults of a behaviour

(* "call": a database or model call fails.  "cut": the API process dies.   *)
(* "drop": the page's connection breaks, and the server runs on.           *)
(* "split": a network chunk ends inside an event.                          *)
FaultKinds == {"call", "cut", "drop", "split"}

ASSUME BoundsAssumption ==
  MaxSends \in Nat \ {0} /\ MaxClicks \in Nat /\ MaxMessages \in Nat \ {0} /\ Pieces \in Nat
  /\ MaxFaults \in Nat
ASSUME FaultsAssumption == Faults \subseteq FaultKinds
ASSUME DeploymentAssumption == BodyAccepted \in BOOLEAN /\ HeaderExposed \in BOOLEAN

Sends == 1 .. MaxSends      \* numbered in the order they start
None == 0
Convs == Sends

VARIABLES
  conv,     \* conversations rows
  log,      \* messages rows of each conversation, by createdAt
  rate,     \* the Redis counter, whether it expires, and (history) whether
            \* the request that should have said so failed to
  send,     \* control state of each send on the server
  wire,     \* the events each response has carried so far
  page,     \* the chat page
  loads,    \* conversations being fetched for the page: what the server read
  clicks,   \* how often the user opened or left a conversation
  disturbed,\* page sends during which the user did so, or that lost their
            \* last event to a split (history)
  faults    \* how many faults have happened

serverVars == <<conv, log, rate, wire>>
pageVars == <<page, loads, clicks, disturbed, faults>>
vars == <<conv, log, rate, send, wire, page, loads, clicks, disturbed, faults>>

PCs == {"idle", "limit", "expire", "open", "ask", "prepare", "stream", "complete",
        "ended", "refused", "cut"}
Over == {"ended", "refused", "cut"}
Message == [role: {"USER", "ASSISTANT"}, of: Sends]
Events == {"headers", "text", "end", "error"}
Entry == [kind: {"user", "answer", "partial", "wrong", "offline"}, of: Sends]

Fault(kind) == kind \in Faults /\ faults < MaxFaults /\ faults' = faults + 1

NoKey == [count |-> 0, expires |-> FALSE, orphan |-> FALSE]

Init ==
  /\ conv = [c \in Convs |-> "none"]
  /\ log = [c \in Convs |-> <<>>]
  /\ rate = NoKey
  /\ send = [s \in Sends |-> [pc |-> "idle", byPage |-> FALSE, to |-> None, count |-> 0]]
  /\ wire = [s \in Sends |-> <<>>]
  /\ page = [shown |-> None, view |-> <<>>, sending |-> None, told |-> FALSE, read |-> 0, text |-> 0]
  /\ loads = {}
  /\ clicks = 0
  /\ disturbed = {}
  /\ faults = 0

At(s, pc) == send[s].pc = pc
Goto(s, pc) == send' = [send EXCEPT ![s].pc = pc]
To(s) == send[s].to

-----------------------------------------------------------------------------
(* The server.                                                             *)

(* The pipe refuses a body with fields it knows nothing of.                *)
FirstPC == IF BodyAccepted THEN "limit" ELSE "refused"

Begin(s, c, byPage) ==
  /\ At(s, "idle") /\ \A r \in 1 .. s - 1 : ~At(r, "idle")
  /\ send' = [send EXCEPT ![s] = [pc |-> FirstPC, byPage |-> byPage, to |-> c, count |-> 0]]

(* Another tab, or a client of the API.                                    *)
CallApi(s) ==
  /\ \E c \in Convs \cup {None} : (c # None => conv[c] # "none") /\ Begin(s, c, FALSE)
  /\ UNCHANGED <<serverVars, pageVars>>

(* checkRateLimit: INCR, then EXPIRE when the key is new, then the test.   *)
AfterLimit(s, count) ==
  CASE count > MaxMessages -> "refused" [] To(s) = None -> "open" [] OTHER -> "ask"

Incr(s) ==
  /\ At(s, "limit")
  /\ rate' = [rate EXCEPT !.count = @ + 1]
  /\ send' = [send EXCEPT ![s].count = rate.count + 1,
                          ![s].pc = IF rate.count = 0 THEN "expire" ELSE AfterLimit(s, rate.count + 1)]
  /\ UNCHANGED <<conv, log, wire, pageVars>>

(* Mutant: the expiry is given to the key only when the limit is reached. *)
ExpireAtLimit(s) ==
  /\ At(s, "expire")
  /\ rate' = [rate EXCEPT !.expires = send[s].count >= MaxMessages + 1]
  /\ Goto(s, AfterLimit(s, send[s].count))
  /\ UNCHANGED <<conv, log, wire, pageVars>>

Expire(s) ==
  /\ At(s, "expire")
  /\ rate' = [rate EXCEPT !.expires = TRUE]
  /\ Goto(s, AfterLimit(s, send[s].count))
  /\ UNCHANGED <<conv, log, wire, pageVars>>

WindowEnds ==
  /\ rate.count > 0 /\ rate.expires
  /\ rate' = NoKey
  /\ UNCHANGED <<conv, log, send, wire, pageVars>>

OpenConversation(s) ==
  /\ At(s, "open")
  /\ conv' = [conv EXCEPT ![s] = "live"]
  /\ send' = [send EXCEPT ![s].pc = "ask", ![s].to = s]
  /\ UNCHANGED <<log, rate, wire, pageVars>>

(* Mutant: the role is written in lower case, which the enum lacks. *)
InsertMessageLower(s, role) ==
  log' = [log EXCEPT ![To(s)] = Append(@, [role |-> "user", of |-> s])]

(* addMessage: the foreign key needs the conversation.                     *)
InsertMessage(s, role) ==
  IF conv[To(s)] = "live" THEN log' = [log EXCEPT ![To(s)] = Append(@, [role |-> role, of |-> s])]
                          ELSE UNCHANGED log

Ask(s) ==
  /\ At(s, "ask")
  /\ InsertMessage(s, "USER")
  /\ Goto(s, IF conv[To(s)] = "live" THEN "prepare" ELSE "refused")
  /\ UNCHANGED <<conv, rate, wire, pageVars>>

(* updatedAt, autoTitle and getMessages, which throw when the conversation *)
(* is gone, and the retrieval of context; then the headers go out, the     *)
(* conversation's id among them.                                           *)
FlushHeaders(s) ==
  /\ At(s, "prepare")
  /\ IF conv[To(s)] = "live"
     THEN wire' = [wire EXCEPT ![s] = <<"headers">>] /\ Goto(s, "stream")
     ELSE Goto(s, "refused") /\ UNCHANGED wire
  /\ UNCHANGED <<conv, log, rate, pageVars>>

Written(s) == Len(wire[s]) - 1     \* events after the headers
Write(s, event) == wire' = [wire EXCEPT ![s] = Append(@, event)]

StreamPiece(s) ==
  /\ At(s, "stream") /\ Written(s) < Pieces
  /\ Write(s, "text")
  /\ UNCHANGED <<conv, log, rate, send, pageVars>>

(* Mutant: the completion event is sent before the answer is stored. *)
SaveAnswerLate(s) ==
  /\ At(s, "stream") /\ Written(s) = Pieces
  /\ Write(s, "end") /\ Goto(s, "complete")
  /\ UNCHANGED <<conv, log, rate, pageVars>>

(* A failure after the headers ends in the catch block: an error event.    *)
SaveAnswer(s) ==
  /\ At(s, "stream") /\ Written(s) = Pieces
  /\ InsertMessage(s, "ASSISTANT")
  /\ IF conv[To(s)] = "live" THEN Goto(s, "complete") /\ UNCHANGED wire
                             ELSE Goto(s, "ended") /\ Write(s, "error")
  /\ UNCHANGED <<conv, rate, pageVars>>

(* addMessage touches the conversation again; then the completion event.   *)
Complete(s) ==
  /\ At(s, "complete")
  /\ Write(s, IF conv[To(s)] = "live" THEN "end" ELSE "error")
  /\ Goto(s, "ended")
  /\ UNCHANGED <<conv, log, rate, pageVars>>

SendStep(s) ==
  \/ Incr(s) \/ Expire(s) \/ OpenConversation(s) \/ Ask(s) \/ FlushHeaders(s)
  \/ StreamPiece(s) \/ SaveAnswer(s) \/ Complete(s)

(* A call throws: before the headers the request is refused, after them    *)
(* the catch block writes the error event.                                 *)
CallFails(s) ==
  /\ Fault("call")
  /\ \/ /\ send[s].pc \in {"limit", "expire", "open", "ask", "prepare"}
        /\ Goto(s, "refused") /\ UNCHANGED wire
     \/ /\ send[s].pc \in {"stream", "complete"}
        /\ Goto(s, "ended") /\ Write(s, "error")
  /\ rate' = [rate EXCEPT !.orphan = @ \/ At(s, "expire")]
  /\ UNCHANGED <<conv, log, page, loads, clicks, disturbed>>

CutSend(s) ==
  /\ Fault("cut") /\ send[s].pc \notin Over \cup {"idle"}
  /\ Goto(s, "cut")
  /\ rate' = [rate EXCEPT !.orphan = @ \/ At(s, "expire")]
  /\ UNCHANGED <<conv, log, wire, page, loads, clicks, disturbed>>

(* ConversationService.delete; the messages go with the row.               *)
DeleteConversation(c) ==
  /\ conv[c] = "live"
  /\ conv' = [conv EXCEPT ![c] = "deleted"]
  /\ log' = [log EXCEPT ![c] = <<>>]
  /\ UNCHANGED <<rate, send, wire, pageVars>>

-----------------------------------------------------------------------------
(* The chat page.                                                          *)

Sending == page.sending # None
Show(p, kind) == [p EXCEPT !.view = Append(@, [kind |-> kind, of |-> p.sending])]
Running == {s \in Sends : send[s].byPage /\ (send[s].pc \notin Over \/ page.sending = s)}
Disturb(S) == disturbed' = disturbed \cup S

(* sendMessage does nothing while an answer is streaming.                  *)
SendMessage(s) ==
  /\ ~Sending
  /\ Begin(s, page.shown, TRUE)
  /\ page' = [page EXCEPT !.view = Append(@, [kind |-> "user", of |-> s]), !.sending = s,
                          !.told = FALSE, !.read = 0, !.text = 0]
  /\ Disturb(IF loads # {} THEN {s} ELSE {})
  /\ UNCHANGED <<serverVars, loads, clicks, faults>>

(* The headers: a page whose send had no conversation adopts the id, if    *)
(* the browser lets it read the header.                                    *)
ReadHeaders ==
  /\ Sending /\ ~page.told /\ wire[page.sending] # <<>>
  /\ page' = [page EXCEPT !.told = TRUE, !.read = 1,
                          !.shown = IF HeaderExposed /\ To(page.sending) = page.sending
                                    THEN page.sending ELSE @]
  /\ UNCHANGED <<serverVars, send, loads, clicks, disturbed, faults>>

NextEvent == wire[page.sending][page.read + 1]
HasEvent == Sending /\ page.told /\ page.read < Len(wire[page.sending])

ReadText ==
  /\ HasEvent /\ NextEvent = "text"
  /\ page' = [page EXCEPT !.read = @ + 1, !.text = @ + 1]
  /\ UNCHANGED <<serverVars, send, loads, clicks, disturbed, faults>>

(* Mutant: the answer is appended to the list as it was when the message *)
(* was sent. *)
ReadLastStale ==
  /\ HasEvent /\ NextEvent \in {"end", "error"}
  /\ LET before == Front(page.view)
         p == [page EXCEPT !.read = @ + 1, !.text = 0, !.view = before] IN
     page' = Show(p, "answer")
  /\ UNCHANGED <<serverVars, send, loads, clicks, disturbed, faults>>

(* The last event is shown as an answer, and an error below it.            *)
ReadLast ==
  /\ HasEvent /\ NextEvent \in {"end", "error"}
  /\ LET p == [page EXCEPT !.read = @ + 1, !.text = 0] IN
     page' = IF NextEvent = "error" THEN Show(Show(p, "partial"), "wrong")
             ELSE Show(p, IF page.text = Pieces THEN "answer" ELSE "partial")
  /\ UNCHANGED <<serverVars, send, loads, clicks, disturbed, faults>>

(* Each chunk is cut into lines by itself: an event in two chunks is a     *)
(* line that does not parse, twice.                                        *)
SplitEvent ==
  /\ Fault("split") /\ HasEvent
  /\ page' = [page EXCEPT !.read = @ + 1]
  /\ Disturb(IF NextEvent = "text" THEN {} ELSE {page.sending})
  /\ UNCHANGED <<serverVars, send, loads, clicks>>

(* Mutant: the button stays disabled when the connection breaks. *)
ResponseEndsWell ==
  /\ Sending /\ At(page.sending, "ended")
  /\ page.told /\ page.read = Len(wire[page.sending])
  /\ page' = [page EXCEPT !.sending = None]
  /\ UNCHANGED <<serverVars, send, loads, clicks, disturbed, faults>>

(* The response is over.  A refusal is JSON without a data line, of which  *)
(* the page shows nothing.                                                 *)
ResponseEnds ==
  /\ Sending /\ send[page.sending].pc \in {"ended", "refused"}
  /\ page.read = Len(wire[page.sending])
  /\ page' = [page EXCEPT !.sending = None]
  /\ UNCHANGED <<serverVars, send, loads, clicks, disturbed, faults>>

(* fetch or read throws: the page says so.                                 *)
LoseConnection ==
  /\ page' = [Show(page, "offline") EXCEPT !.sending = None]
  /\ UNCHANGED <<serverVars, send, loads, clicks, disturbed>>

ServerGone == Sending /\ At(page.sending, "cut") /\ LoseConnection /\ UNCHANGED faults
Disconnect == Sending /\ Fault("drop") /\ LoseConnection

(* The sidebar: loadConversation fetches, and shows what has been read.    *)
Snapshot(c) == [i \in 1 .. Len(log[c]) |->
                  [kind |-> IF log[c][i].role = "USER" THEN "user" ELSE "answer", of |-> log[c][i].of]]

ClickConversation(c) ==
  /\ clicks < MaxClicks
  /\ conv[c] = "live"
  /\ loads' = loads \cup {[conv |-> c, view |-> Snapshot(c)]}
  /\ clicks' = clicks + 1
  /\ Disturb(Running)
  /\ UNCHANGED <<serverVars, send, page, faults>>

LoadArrives(l) ==
  /\ l \in loads
  /\ loads' = loads \ {l}
  /\ page' = [page EXCEPT !.shown = l.conv, !.view = l.view]
  /\ UNCHANGED <<serverVars, send, clicks, disturbed, faults>>

StartNewChat ==
  /\ clicks < MaxClicks
  /\ page' = [page EXCEPT !.shown = None, !.view = <<>>]
  /\ clicks' = clicks + 1
  /\ Disturb(Running)
  /\ UNCHANGED <<serverVars, send, loads, faults>>

PageStep ==
  \/ ReadHeaders \/ ReadText \/ ReadLast \/ ResponseEnds \/ ServerGone
  \/ \E l \in loads : LoadArrives(l)

Next ==
  \/ \E s \in Sends : CallApi(s) \/ SendStep(s) \/ CallFails(s) \/ CutSend(s) \/ SendMessage(s)
  \/ \E c \in Convs : DeleteConversation(c) \/ ClickConversation(c)
  \/ WindowEnds \/ StartNewChat \/ PageStep \/ SplitEvent \/ Disconnect

Spec == Init /\ [][Next]_vars

(* A send runs on, and the page reads what arrives.                        *)
Fairness == WF_vars(PageStep) /\ \A s \in Sends : WF_vars(SendStep(s))
FairSpec == Spec /\ Fairness

-----------------------------------------------------------------------------
(* Properties.                                                             *)

TypeOK ==
  /\ conv \in [Convs -> {"none", "live", "deleted"}]
  /\ log \in [Convs -> Seq(Message)]
  /\ rate \in [count: 0 .. MaxSends, expires: BOOLEAN, orphan: BOOLEAN]
  /\ send \in [Sends -> [pc: PCs, byPage: BOOLEAN, to: Convs \cup {None}, count: 0 .. MaxSends]]
  /\ wire \in [Sends -> Seq(Events)]
  /\ page \in [shown: Convs \cup {None}, view: Seq(Entry), sending: Sends \cup {None},
               told: BOOLEAN, read: Nat, text: 0 .. Pieces]
  /\ loads \subseteq [conv: Convs, view: Seq(Entry)]
  /\ clicks \in 0 .. MaxClicks
  /\ disturbed \subseteq Sends /\ faults \in 0 .. MaxFaults

(* A user is locked out for good (a counter without an expiry) only by a   *)
(* fault exactly between INCR and EXPIRE; otherwise the request whose INCR *)
(* made the key is about to give it its expiry.                            *)
LockedOutOnlyByFault ==
  rate.count > 0 /\ ~rate.expires =>
    rate.orphan \/ \E s \in Sends : At(s, "expire") /\ send[s].count = 1

Saved(s, role) == \E i \in DOMAIN log[To(s)] : log[To(s)][i] = [role |-> role, of |-> s]
Shown(s, kinds) == \E i \in DOMAIN page.view : page.view[i].of = s /\ page.view[i].kind \in kinds

(* What the page shows as a whole answer is stored in its conversation, so *)
(* it is there again when the conversation is opened later.                *)
AnswerShownIsSaved ==
  \A s \in Sends : Shown(s, {"answer"}) => conv[To(s)] = "deleted" \/ Saved(s, "ASSISTANT")

(* The page loses nothing by itself: the messages of its own sends that    *)
(* the conversation shown holds are on it, or an error is, unless the user *)
(* moved between conversations while the answer was on its way or the last *)
(* event was split.                                                        *)
NothingLostUndisturbed ==
  \A s \in Sends \ (disturbed \cup {page.sending}) :
    send[s].byPage /\ To(s) # None /\ To(s) = page.shown =>
      /\ Saved(s, "USER") => Shown(s, {"user"})
      /\ Saved(s, "ASSISTANT") => Shown(s, {"answer", "partial", "wrong", "offline"})

(* An answer is shown in the conversation it belongs to, unless the user   *)
(* moved while it, or the send that made the page adopt its conversation,  *)
(* was on its way; a page that cannot read the header shows the answers of *)
(* conversations of their own without any.                                 *)
AnswerInItsConversation ==
  \A s \in Sends \ disturbed :
    send[s].byPage /\ Shown(s, {"answer", "partial"}) =>
      \/ To(s) = page.shown
      \/ HeaderExposed /\ page.shown \in disturbed
      \/ ~HeaderExposed /\ page.shown = None /\ To(s) = s

(* What the page shows as an answer is one of this conversation.           *)
AnswersBelong == AnswerShownIsSaved /\ AnswerInItsConversation

(* Whatever happens to a send, the input is enabled again.                 *)
InputReturns == \A s \in Sends : page.sending = s ~> page.sending # s

=============================================================================
