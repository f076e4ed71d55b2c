------------------------------- MODULE Account ------------------------------
(***************************************************************************)
(* What an organization buys and spends: its Stripe customer and checkout  *)
(* sessions, its ledger of credits, and the billing page with its tabs of  *)
(* the subscription and the plans.  The pages of the other two tabs, which *)
(* list credits and invoices, are left out.                                *)
(*                                                                         *)
(* The subscription is reduced to the one that is in force; the events     *)
(* that Stripe sends about it are one step each here and are modelled call *)
(* by call in Billing.  Of the ledger, the sum of its rows and the balance *)
(* written in the newest one are kept.                                     *)
(***************************************************************************)
EXTENDS Integers, FiniteSets

CONSTANTS
  MaxRequests,  \* a bound on the API requests
  MaxAmount,    \* a bound on the credits that one request adds or deducts
  MaxUpdates,   \* a bound on the changes that Stripe makes by itself
  ClientOps,    \* the operations that others than the billing page ask for
  Faults,       \* subset of {"cut"}: a request dies, or its answer is lost
  None          \* no customer, no session, no request

Requests == 1 .. MaxRequests    \* numbered in the order they start

ASSUME BoundsAssumption == /\ MaxRequests \in Nat /\ MaxAmount \in Nat /\ MaxUpdates \in Nat
                           /\ None \notin Int

VARIABLES
  customer,  \* the organization's stripeCustomerId: the request that created it
  session,   \* Stripe's checkout sessions, by the request that created them
  sub,       \* the newest subscription: its session and its state
  ledger,    \* credit_transactions
  updates,   \* how many changes Stripe has made
  req,       \* the API requests
  page,      \* the billing page
  cached,    \* the subscription that was last fetched
  fetch      \* the subscription query

apiVars == <<customer, session, sub, ledger, updates>>
vars == <<apiVars, req, page, cached, fetch>>

CreditOps == {"add", "deduct"}
StripeOps == {"plan", "addon"}
SubOps == {"cancel", "reactivate"}
Ops == CreditOps \cup StripeOps \cup SubOps

ASSUME OpsAssumption == ClientOps \subseteq Ops /\ Faults \subseteq {"cut"}

Creating == {"create", "save"}
Busy == {"find", "session", "write"} \cup Creating
PCs == Busy \cup {"idle", "ok", "refused", "cut", "done"}
Tabs == {"subscription", "plans", "lists"}

Past == 0
NoSub == [id |-> Past, state |-> "none"]
InForce == {"active", "cancelling"}
NoRequest == [op |-> "add", pc |-> "idle", amount |-> 0, saw |-> 0, for |-> None, met |-> FALSE, by |-> None]
NoAwaits == [op \in StripeOps \cup SubOps |-> None]
FreshTab(tab) == [tab |-> tab, awaits |-> NoAwaits, confirm |-> FALSE]

(* An organization that is new, or one with a past: a balance, a customer  *)
(* (number 0), and a subscription.                                         *)
Ledger(total) == [total |-> total, after |-> total, sure |-> TRUE, overdrawn |-> 0]

Init ==
  /\ \/ customer = None /\ sub = NoSub
     \/ customer = Past /\ sub \in [id : {Past}, state : InForce]
  /\ session = [r \in Requests |-> None]
  /\ ledger \in {Ledger(0), Ledger(MaxAmount)}
  /\ updates = 0
  /\ req = [r \in Requests |-> NoRequest]
  /\ page = FreshTab("subscription")
  /\ cached = NoSub
  /\ fetch = [at |-> "sent", sub |-> NoSub, missed |-> FALSE, news |-> FALSE]

At(r, pc) == req[r].pc = pc
Is(r, ops) == req[r].op \in ops
Goto(r, pc) == req' = [req EXCEPT ![r].pc = pc]

(* What is left of a request that is over: whether it overlapped another   *)
(* first checkout, and whether it was cut.  The page waits for its answer. *)
Over(request, pc) ==
  [NoRequest EXCEPT !.pc = IF pc = "cut" THEN "cut" ELSE "done",
                    !.op = IF request.op = "plan" /\ request.met THEN "plan" ELSE "add",
                    !.met = request.op = "plan" /\ request.met]
Ended(r, pc) == IF req[r].by = "page" THEN [req[r] EXCEPT !.pc = pc, !.saw = 0, !.for = None]
                ELSE Over(req[r], pc)
Finish(r, pc) == req' = [req EXCEPT ![r] = Ended(r, pc)]

Start(r, op, amount, by) ==
  /\ At(r, "idle") /\ \A q \in 1 .. r - 1 : ~At(q, "idle")
  /\ req' = [req EXCEPT ![r] = [NoRequest EXCEPT !.op = op, !.pc = "find", !.amount = amount, !.by = by]]

(* Other modules' calls of the credit service, and API clients.            *)
CallApi(r) ==
  /\ \E op \in ClientOps, amount \in 0 .. MaxAmount :
       (amount > 0 <=> op \in CreditOps) /\ Start(r, op, amount, "client")
  /\ UNCHANGED <<apiVars, page, cached, fetch>>

-----------------------------------------------------------------------------
(* The ledger: two statements in one READ COMMITTED transaction.           *)

(* Mutant: nothing compares the balance with the amount. *)
ReadUnchecked(r) ==
  /\ Is(r, CreditOps) /\ At(r, "find")
  /\ req' = [req EXCEPT ![r].pc = "write", ![r].saw = ledger.total]
  /\ UNCHANGED <<apiVars, page, cached, fetch>>

(* getBalanceInTx, and the check of a deduction.                           *)
ReadBalance(r) ==
  /\ Is(r, CreditOps) /\ At(r, "find")
  /\ IF Is(r, {"deduct"}) /\ ledger.total < req[r].amount THEN Finish(r, "refused")
     ELSE req' = [req EXCEPT ![r].pc = "write", ![r].saw = ledger.total]
  /\ UNCHANGED <<apiVars, page, cached, fetch>>

Signed(r) == IF Is(r, {"deduct"}) THEN -req[r].amount ELSE req[r].amount

(* The INSERT and the COMMIT.  A transaction that read the balance before  *)
(* is met by this one: what it read is old now.                            *)
InsertRow(r) ==
  /\ Is(r, CreditOps) /\ At(r, "write")
  /\ ledger' = [total |-> ledger.total + Signed(r), after |-> req[r].saw + Signed(r),
                sure |-> ~req[r].met,
                overdrawn |-> IF Is(r, {"deduct"}) /\ req[r].met THEN ledger.overdrawn + req[r].amount
                              ELSE ledger.overdrawn]
  /\ req' = [q \in Requests |-> IF q = r THEN Ended(r, "ok")
                                ELSE IF Is(q, CreditOps) /\ At(q, "write") THEN [req[q] EXCEPT !.met = TRUE]
                                ELSE req[q]]
  /\ UNCHANGED <<customer, session, sub, updates, page, cached, fetch>>

-----------------------------------------------------------------------------
(* Stripe's customer and checkout sessions.                                *)

(* Mutant: a checkout goes on without a customer. *)
FindOrgOnly(r) ==
  /\ Is(r, StripeOps) /\ At(r, "find")
  /\ req' = [req EXCEPT ![r].pc = "session", ![r].for = customer]
  /\ UNCHANGED <<apiVars, page, cached, fetch>>

(* A plan without a price is refused; only the checkout of a plan creates  *)
(* the customer, and meets another one that is about to do the same.       *)
FindOrg(r) ==
  /\ Is(r, StripeOps) /\ At(r, "find")
  /\ \/ Finish(r, "refused")
     \/ customer # None /\ req' = [req EXCEPT ![r].pc = "session", ![r].for = customer]
     \/ customer = None /\ ~Is(r, {"plan"}) /\ Finish(r, "refused")
     \/ LET met == {q \in Requests : Is(q, {"plan"}) /\ req[q].pc \in Creating} IN
        /\ customer = None /\ Is(r, {"plan"})
        /\ req' = [q \in Requests |->
              IF q = r THEN [req[q] EXCEPT !.pc = "create", !.met = met # {}]
              ELSE IF q \in met THEN [req[q] EXCEPT !.met = TRUE] ELSE req[q]]
  /\ UNCHANGED <<apiVars, page, cached, fetch>>

CreateCustomer(r) ==
  /\ At(r, "create")
  /\ req' = [req EXCEPT ![r].pc = "save", ![r].for = r]
  /\ UNCHANGED <<apiVars, page, cached, fetch>>

(* Mutant: the customer's id is not written to the organization. *)
SaveNothing(r) ==
  /\ At(r, "save")
  /\ Goto(r, "session")
  /\ UNCHANGED <<apiVars, page, cached, fetch>>

SaveCustomer(r) ==
  /\ At(r, "save")
  /\ customer' = req[r].for
  /\ Goto(r, "session")
  /\ UNCHANGED <<session, sub, ledger, updates, page, cached, fetch>>

CreateSession(r) ==
  /\ Is(r, StripeOps) /\ At(r, "session")
  /\ session' = [session EXCEPT ![r] = [customer |-> req[r].for, kind |-> req[r].op, paid |-> FALSE]]
  /\ Finish(r, "ok")
  /\ UNCHANGED <<customer, sub, ledger, updates, page, cached, fetch>>

-----------------------------------------------------------------------------
(* The subscription.                                                       *)

(* The page learns of changes that others make when it fetches again.      *)
News == fetch' = [fetch EXCEPT !.news = TRUE]

(* Somebody pays in a checkout session, and the webhook records the plan's *)
(* subscription.  Of a paid add-on it records nothing, since its metadata  *)
(* name no plan, so that this is no step here.                             *)
Pay(r) ==
  /\ session[r] # None /\ session[r].kind = "plan" /\ ~session[r].paid
  /\ session' = [session EXCEPT ![r].paid = TRUE]
  /\ sub' = [id |-> r, state |-> "active"] /\ News
  /\ UNCHANGED <<customer, ledger, updates, req, page, cached>>

(* Stripe renews the subscription, which rewrites its cancellation, or     *)
(* ends it.                                                                *)
StripeUpdates ==
  /\ sub.state \in InForce /\ updates < MaxUpdates /\ updates' = updates + 1
  /\ \E state \in {"active", "ended"} : sub' = [sub EXCEPT !.state = state]
  /\ News
  /\ UNCHANGED <<customer, session, ledger, req, page, cached>>

(* cancel and reactivate look for a row in force and write it by its id.   *)
FindSub(r) ==
  /\ Is(r, SubOps) /\ At(r, "find")
  /\ IF sub.state \in (IF Is(r, {"cancel"}) THEN InForce ELSE {"cancelling"})
     THEN req' = [req EXCEPT ![r].pc = "write", ![r].saw = sub.id]
     ELSE Finish(r, "refused")
  /\ UNCHANGED <<apiVars, page, cached, fetch>>

WriteSub(r) ==
  /\ Is(r, SubOps) /\ At(r, "write")
  /\ IF sub.id = req[r].saw /\ sub.state \in InForce
     THEN sub' = [sub EXCEPT !.state = IF Is(r, {"cancel"}) THEN "cancelling" ELSE "active"]
     ELSE UNCHANGED sub
  /\ Finish(r, "ok")
  /\ IF req[r].by = "client" THEN News ELSE UNCHANGED fetch
  /\ UNCHANGED <<customer, session, ledger, updates, page, cached>>

(* The process ends, a call throws, or the answer is lost on its way.      *)
CutRequest(r) ==
  /\ "cut" \in Faults /\ (req[r].pc \in Busy \/ (At(r, "ok") /\ req[r].by = "page"))
  /\ \A q \in Requests : ~At(q, "cut")      \* one fault per behaviour
  /\ Finish(r, "cut")
  /\ UNCHANGED <<apiVars, page, cached, fetch>>

-----------------------------------------------------------------------------
(* The billing page.                                                       *)

UsesSub(tab) == tab \in {"subscription", "plans"}
OnTab(tab) == page.tab = tab
Shows(states) == OnTab("subscription") /\ cached.state \in states

Click(r, op) ==
  /\ page.awaits[op] = None
  /\ Start(r, op, 0, "page")
  /\ page' = [page EXCEPT !.awaits[op] = r]
  /\ UNCHANGED <<apiVars, cached, fetch>>

(* The tabs.  An organization without a subscription, or whose             *)
(* subscription cannot be fetched, is shown the free plan and no buttons.  *)
ReactivateSubscription(r) == Shows({"cancelling"}) /\ Click(r, "reactivate")
AskCancel ==
  /\ Shows({"active"}) /\ ~page.confirm
  /\ page' = [page EXCEPT !.confirm = TRUE]
  /\ UNCHANGED <<apiVars, req, cached, fetch>>
KeepSubscription ==
  /\ page.confirm
  /\ page' = [page EXCEPT !.confirm = FALSE]
  /\ UNCHANGED <<apiVars, req, cached, fetch>>
ConfirmCancel(r) == page.confirm /\ Click(r, "cancel")
SubscriptionTab(r) == ReactivateSubscription(r) \/ ConfirmCancel(r)
PlansTab(r) == OnTab("plans") /\ Click(r, "plan")

(* Mutant: what the subscription is now is not fetched. *)
InvalidateNothing == UNCHANGED fetch

(* invalidateQueries, as in Domains.                                       *)
Invalidate ==
  fetch' = CASE UsesSub(page.tab) -> [fetch EXCEPT !.at = "sent", !.sub = NoSub, !.missed = FALSE]
             [] ~UsesSub(page.tab) /\ fetch.at \in {"sent", "answered"} -> [fetch EXCEPT !.missed = TRUE]
             [] OTHER -> [fetch EXCEPT !.at = "stale"]

(* A cancellation or reactivation that succeeds fetches the subscription   *)
(* again.  Nothing follows the answer of a checkout: the page looks for    *)
(* the address as "url", and the answer has a "session".                   *)
Answer(r) ==
  /\ req[r].by = "page" /\ req[r].pc \in {"ok", "refused", "cut"}
  /\ req' = [req EXCEPT ![r] = Over(@, @.pc)]
  /\ page' = [page EXCEPT !.awaits = [op \in DOMAIN @ |-> IF @[op] = r THEN None ELSE @[op]],
                          !.confirm = @ /\ ~(Is(r, {"cancel"}) /\ At(r, "ok") /\ page.awaits["cancel"] = r)]
  /\ IF Is(r, SubOps) /\ At(r, "ok") THEN Invalidate ELSE UNCHANGED fetch
  /\ UNCHANGED <<apiVars, cached>>

(* A fetch reads the newest row; there is an error when there is none.     *)
ReadSub ==
  /\ fetch.at = "sent"
  /\ fetch' = [fetch EXCEPT !.at = "answered", !.sub = sub, !.news = FALSE]
  /\ UNCHANGED <<apiVars, req, page, cached>>

ShowSub ==
  /\ fetch.at = "answered"
  /\ cached' = IF fetch.sub = NoSub THEN cached ELSE fetch.sub
  /\ fetch' = [fetch EXCEPT !.at = IF fetch.sub = NoSub THEN "stale" ELSE "idle", !.sub = NoSub]
  /\ UNCHANGED <<apiVars, req, page>>

(* The fetch fails, and so do its retries: what is cached stays on screen. *)
LoseFetch ==
  /\ "cut" \in Faults /\ fetch.at = "sent"
  /\ fetch' = [fetch EXCEPT !.at = "stale"]
  /\ UNCHANGED <<apiVars, req, page, cached>>

(* The tab mounts anew.  After a minute what is cached is fetched again.   *)
SwitchTab(tab) ==
  /\ ~OnTab(tab)
  /\ page' = FreshTab(tab)
  /\ \/ UsesSub(tab) /\ fetch.at \in {"stale", "idle"}
        /\ fetch' = [fetch EXCEPT !.at = "sent", !.missed = FALSE]
     \/ ~(UsesSub(tab) /\ fetch.at = "stale") /\ UNCHANGED fetch
  /\ UNCHANGED <<apiVars, req, cached>>

-----------------------------------------------------------------------------
RequestStep(r) ==
  \/ ReadBalance(r) \/ InsertRow(r)
  \/ FindOrg(r) \/ CreateCustomer(r) \/ SaveCustomer(r) \/ CreateSession(r)
  \/ FindSub(r) \/ WriteSub(r)

Next ==
  \/ \E r \in Requests : \/ CallApi(r) \/ RequestStep(r) \/ CutRequest(r) \/ Pay(r)
                         \/ SubscriptionTab(r) \/ PlansTab(r) \/ Answer(r)
  \/ StripeUpdates \/ AskCancel \/ KeepSubscription
  \/ ReadSub \/ ShowSub \/ LoseFetch
  \/ \E tab \in Tabs : SwitchTab(tab)

Spec == Init /\ [][Next]_vars

-----------------------------------------------------------------------------
(* Type invariant of the organization's rows, the requests and the page.   *)
Subs == [id : {Past} \cup Requests, state : {"none", "active", "cancelling", "ended"}]
Sessions == [customer : {Past} \cup Requests, kind : {"plan", "addon"}, paid : BOOLEAN]
ASSUME NoneAssumption == None \notin Sessions /\ None \notin {"client", "page"}
Ledgers == [total : Int, after : Int, sure : BOOLEAN, overdrawn : Nat]
RequestStates == [op : Ops, pc : PCs, amount : 0 .. MaxAmount, saw : Int,
                  for : {Past, None} \cup Requests, met : BOOLEAN, by : {None, "client", "page"}]
PageStates == [tab : Tabs, awaits : [StripeOps \cup SubOps -> Requests \cup {None}], confirm : BOOLEAN]
FetchStates == [at : {"idle", "stale", "sent", "answered"}, sub : Subs, missed : BOOLEAN, news : BOOLEAN]

TypeOK ==
  /\ customer \in {Past, None} \cup Requests
  /\ session \in [Requests -> {None} \cup Sessions]
  /\ sub \in Subs /\ cached \in Subs
  /\ ledger \in Ledgers
  /\ updates \in 0 .. MaxUpdates
  /\ req \in [Requests -> RequestStates]
  /\ page \in PageStates
  /\ fetch \in FetchStates

(* Deductions that find the balance too low are refused, so the balance is *)
(* never further below zero than what was taken by the deductions that     *)
(* overlapped another transaction (deductCredits).                         *)
OverdraftBounded == ledger.total + ledger.overdrawn >= 0

(* The newest row tells the balance, unless it overlapped another one.     *)
NewestRowTells == ledger.sure => ledger.after = ledger.total

(* What the ledger promises about the balance.                             *)
LedgerSound == OverdraftBounded /\ NewestRowTells

(* Whoever paid can be found: every checkout session belongs to the        *)
(* customer that the organization's row names, whose portal it opens,      *)
(* unless two first checkouts overlapped, whatever was cut.                *)
CustomerKept ==
  (\A q \in Requests : Is(q, {"plan"}) => ~req[q].met)
  => \A r \in Requests : session[r] # None => session[r].customer = customer

(* The subscription that the page shows, with the buttons that go with it, *)
(* is the one there is, when nothing is under way, no request was cut, and *)
(* nobody but this page changed it since it was fetched.                   *)
Settled == /\ fetch.at = "idle" /\ ~fetch.missed /\ ~fetch.news
           /\ \A r \in Requests : req[r].by = "page" => At(r, "find")
           /\ \A r \in Requests : ~At(r, "cut")
SubscriptionShown == Settled => cached = sub
=============================================================================
