------------------------------- MODULE Billing ------------------------------
(***************************************************************************)
(* Subscriptions of one organization, kept in step with Stripe: Stripe     *)
(* POSTs events until it gets a 2xx answer, handleWebhook dispatches each  *)
(* of them, and users cancel and reactivate from the dashboard.  Every     *)
(* awaited database call of a delivery or of a user's request is one step; *)
(* deliveries and requests interleave, calls fail, and the process dies.   *)
(***************************************************************************)
EXTENDS Integers, Sequences, FiniteSetsExt

CONSTANTS
  Events,      \* the Stripe events (evt_...) of the organization
  Detail,      \* Detail[e]: what event e says, see EventDetails
  StripeSubs,  \* Stripe's subscription ids
  Plans,       \* rows of plans; each of them lists limits
  FreePlans,   \* those that are FREE and active
  Invoices,    \* Stripe's invoice ids
  NoPlan,      \* metadata without a planId (an add-on's, for instance)
  NoStripe,    \* the null stripeSubscriptionId of a FREE subscription
  Deliveries,  \* deliveries that can be handled at the same time
  Users,       \* dashboard requests that can be handled at the same time
  Faults,      \* what can go wrong: "call", a call throws; "crash"
  MaxFaults    \* a bound on how often it does

Kinds == {"checkout", "updated", "deleted", "paid", "failed", "other"}
StripeStatuses == {"active", "past_due", "canceled", "trialing", "paused", "unpaid"}
EventDetails == [kind: Kinds, sub: StripeSubs, plan: Plans \cup {NoPlan}, status: StripeStatuses,
                 cancels: BOOLEAN, invoice: Invoices]

ASSUME DetailAssumption == Events # {} /\ Detail \in [Events -> EventDetails]
ASSUME PlansAssumption == FreePlans \subseteq Plans /\ NoPlan \notin Plans /\ Plans # {}
ASSUME SubsAssumption == NoStripe \notin StripeSubs
ASSUME DeliveriesAssumption == IsFiniteSet(Deliveries)
ASSUME FaultsAssumption == Faults \subseteq {"call", "crash"} /\ MaxFaults \in Nat

VARIABLES
  subs,      \* rows of subscriptions, oldest first
  usage,     \* plans whose limits feature_usage holds, one entry per createMany
  invoices,  \* rows of invoices: the status of each, or "none"
  received,  \* rows of stripe_webhook_events
  work,      \* control state of each delivery
  user,      \* control state of each dashboard request
  faults     \* how often something went wrong

vars == <<subs, usage, invoices, received, work, user, faults>>

SubscriptionStatus == {"ACTIVE", "TRIALING", "PAST_DUE", "CANCELED", "PAUSED"}
SubRows == [stripe: StripeSubs \cup {NoStripe}, plan: Plans, status: SubscriptionStatus,
            cancels: BOOLEAN]
NewRow(s, p) == [stripe |-> s, plan |-> p, status |-> "ACTIVE", cancels |-> FALSE]
Current(row) == row.status \in {"ACTIVE", "TRIALING"}

RowOf(s) == {i \in DOMAIN subs : subs[i].stripe = s}
HasRow(s) == RowOf(s) # {}
(* UPDATE of the row with stripeSubscriptionId s (updateFromStripe). *)
EditRow(s, Edit(_)) ==
  subs' = [i \in DOMAIN subs |-> IF subs[i].stripe = s THEN Edit(subs[i]) ELSE subs[i]]

DeliveryPCs == {"idle", "check", "record", "deactivate", "create", "wipe", "fill", "sync",
                "close", "createFree", "pastDue", "invoice", "mark", "error"}

AnyEvent == CHOOSE e \in Events : TRUE
AnyPlan == CHOOSE p \in Plans : TRUE
Idle == [pc |-> "idle", event |-> AnyEvent, plan |-> AnyPlan]
AtHome == [pc |-> "idle", row |-> 0]

Init ==
  /\ subs = << >>
  /\ usage = << >>
  /\ invoices = [i \in Invoices |-> "none"]
  /\ received = [e \in Events |-> "new"]
  /\ work = [d \in Deliveries |-> Idle]
  /\ user = [u \in Users |-> AtHome]
  /\ faults = 0

-----------------------------------------------------------------------------
(* Deliveries.                                                             *)

At(d, pc) == work[d].pc = pc
Event(d) == Detail[work[d].event]
Goto(d, pc) == work' = [work EXCEPT ![d].pc = pc]
Rest(d) == work' = [work EXCEPT ![d] = Idle]

(* Stripe sends an event again until it is answered, and now and then      *)
(* after that; it promises no order.                                       *)
Deliver(d, e) ==
  /\ At(d, "idle")
  /\ work' = [work EXCEPT ![d] = [Idle EXCEPT !.pc = "check", !.event = e]]
  /\ UNCHANGED <<subs, usage, invoices, received, user, faults>>

(* An event that has been processed is skipped.                            *)
Check(d) ==
  /\ At(d, "check")
  /\ IF received[work[d].event] = "processed" THEN Rest(d) ELSE Goto(d, "record")
  /\ UNCHANGED <<subs, usage, invoices, received, user, faults>>

(* Mutant: a failed payment has no case of its own, and the default throws. *)
FirstStepThrows(e) ==
  CASE e.kind = "checkout" /\ e.plan # NoPlan -> "deactivate"
    [] e.kind = "updated" -> "sync"
    [] e.kind = "deleted" -> "close"
    [] e.kind = "paid" -> "invoice"
    [] e.kind = "failed" -> "error"
    [] OTHER -> "mark"

(* "other" is an event with no handler, or one whose object names no        *)
(* subscription; a checkout without orgId and planId is left alone too.    *)
FirstStep(e) ==
  CASE e.kind = "checkout" /\ e.plan # NoPlan -> "deactivate"
    [] e.kind = "updated" -> "sync"
    [] e.kind = "deleted" -> "close"
    [] e.kind = "paid" -> "invoice"
    [] e.kind = "failed" -> "pastDue"
    [] OTHER -> "mark"

(* The upsert of the event's row, and the dispatch on its type.            *)
Record(d) ==
  /\ At(d, "record")
  /\ received' = [received EXCEPT ![work[d].event] = IF @ = "new" THEN "recorded" ELSE @]
  /\ Goto(d, FirstStep(Event(d)))
  /\ UNCHANGED <<subs, usage, invoices, user, faults>>

(* Mutant: the subscriptions the organization has stay as they are. *)
DeactivateNone(d) ==
  /\ At(d, "deactivate")
  /\ Goto(d, "create")
  /\ UNCHANGED <<subs, usage, invoices, received, user, faults>>

(* handleCheckoutCompleted: the current subscriptions are canceled first.  *)
Deactivate(d) ==
  /\ At(d, "deactivate")
  /\ subs' = [i \in DOMAIN subs |->
                IF Current(subs[i]) THEN [subs[i] EXCEPT !.status = "CANCELED"] ELSE subs[i]]
  /\ Goto(d, "create")
  /\ UNCHANGED <<usage, invoices, received, user, faults>>

(* The INSERT throws when a row has that stripeSubscriptionId already.     *)
CreateSubscription(d) ==
  /\ At(d, "create")
  /\ IF HasRow(Event(d).sub)
     THEN Goto(d, "error") /\ UNCHANGED subs
     ELSE /\ subs' = Append(subs, NewRow(Event(d).sub, Event(d).plan))
          /\ work' = [work EXCEPT ![d].pc = "wipe", ![d].plan = Event(d).plan]
  /\ UNCHANGED <<usage, invoices, received, user, faults>>

(* Mutant: the old usage records stay. *)
WipeNothing(d) ==
  /\ At(d, "wipe")
  /\ Goto(d, "fill")
  /\ UNCHANGED <<subs, usage, invoices, received, user, faults>>

(* UsageService.initializeUsage: deleteMany, then createMany.              *)
WipeUsage(d) ==
  /\ At(d, "wipe")
  /\ usage' = << >>
  /\ Goto(d, "fill")
  /\ UNCHANGED <<subs, invoices, received, user, faults>>

FillUsage(d) ==
  /\ At(d, "fill")
  /\ usage' = Append(usage, work[d].plan)
  /\ Goto(d, "mark")
  /\ UNCHANGED <<subs, invoices, received, user, faults>>

(* Mutant: a status the map lacks is stored as it comes. *)
StatusMapOnly ==
  [active |-> "ACTIVE", past_due |-> "PAST_DUE", canceled |-> "CANCELED",
   trialing |-> "TRIALING", paused |-> "PAUSED", unpaid |-> "UNPAID"]

StatusMap ==
  [active |-> "ACTIVE", past_due |-> "PAST_DUE", canceled |-> "CANCELED",
   trialing |-> "TRIALING", paused |-> "PAUSED",
   unpaid |-> "ACTIVE"]      \* a status the map of the code lacks

(* handleSubscriptionUpdated: a subscription without a row is skipped.     *)
Sync(d) ==
  /\ At(d, "sync")
  /\ LET e == Event(d)
         Synced(row) == [row EXCEPT !.status = StatusMap[e.status], !.cancels = e.cancels,
                                    !.plan = IF e.plan = NoPlan THEN @ ELSE e.plan]
     IN  EditRow(e.sub, Synced)
  /\ Goto(d, "mark")
  /\ UNCHANGED <<usage, invoices, received, user, faults>>

(* handleSubscriptionDeleted: cancel the row, and look for the FREE plan.  *)
Close(d) ==
  /\ At(d, "close")
  /\ LET Closed(row) == [row EXCEPT !.status = "CANCELED"] IN EditRow(Event(d).sub, Closed)
  /\ IF HasRow(Event(d).sub) /\ FreePlans # {}
     THEN \E p \in FreePlans : work' = [work EXCEPT ![d].pc = "createFree", ![d].plan = p]
     ELSE Goto(d, "mark")
  /\ UNCHANGED <<usage, invoices, received, user, faults>>

CreateFree(d) ==
  /\ At(d, "createFree")
  /\ subs' = Append(subs, NewRow(NoStripe, work[d].plan))
  /\ Goto(d, "wipe")
  /\ UNCHANGED <<usage, invoices, received, user, faults>>

(* handleInvoicePaymentFailed: first the subscription, then the invoice.   *)
PastDue(d) ==
  /\ At(d, "pastDue")
  /\ LET Late(row) == [row EXCEPT !.status = "PAST_DUE"] IN EditRow(Event(d).sub, Late)
  /\ Goto(d, "invoice")
  /\ UNCHANGED <<usage, invoices, received, user, faults>>

(* Mutant: an UPDATE instead of the upsert. *)
UpdateInvoice(d) ==
  /\ At(d, "invoice")
  /\ invoices' =
       IF HasRow(Event(d).sub) /\ invoices[Event(d).invoice] # "none"
       THEN [invoices EXCEPT ![Event(d).invoice] =
               IF Event(d).kind = "paid" THEN "paid" ELSE "payment_failed"]
       ELSE invoices
  /\ Goto(d, "mark")
  /\ UNCHANGED <<subs, usage, received, user, faults>>

(* The upsert of an invoice, when its subscription has a row.              *)
SaveInvoice(d) ==
  /\ At(d, "invoice")
  /\ invoices' =
       IF HasRow(Event(d).sub)
       THEN [invoices EXCEPT ![Event(d).invoice] =
               IF Event(d).kind = "paid" THEN "paid" ELSE "payment_failed"]
       ELSE invoices
  /\ Goto(d, "mark")
  /\ UNCHANGED <<subs, usage, received, user, faults>>

Mark(d) ==
  /\ At(d, "mark")
  /\ received' = [received EXCEPT ![work[d].event] = "processed"]
  /\ Rest(d)
  /\ UNCHANGED <<subs, usage, invoices, user, faults>>

(* The catch block of handleWebhook: the event stays unprocessed.          *)
RecordError(d) ==
  /\ At(d, "error")
  /\ Rest(d)
  /\ UNCHANGED <<subs, usage, invoices, received, user, faults>>

(* Mutant: handleCheckoutCompleted swallows its failures like the others. *)
CatchingAll(d) ==
  CASE work[d].pc \in {"check", "record", "error"} -> "idle"
    [] At(d, "mark") -> "error"
    [] At(d, "pastDue") -> "invoice"
    [] OTHER -> "mark"

(* Where a call that throws leads: the handlers of "updated" and "deleted" *)
(* and the first call of "failed" catch it themselves.                     *)
Catching(d) ==
  CASE work[d].pc \in {"check", "record", "error"} -> "idle"
    [] At(d, "mark") -> "error"
    [] At(d, "pastDue") -> "invoice"
    [] OTHER -> IF Event(d).kind \in {"updated", "deleted"} THEN "mark" ELSE "error"

CallFails(d) ==
  /\ "call" \in Faults /\ faults < MaxFaults /\ faults' = faults + 1
  /\ ~At(d, "idle")
  /\ IF Catching(d) = "idle" THEN Rest(d) ELSE Goto(d, Catching(d))
  /\ UNCHANGED <<subs, usage, invoices, received, user>>

Crash(d) ==
  /\ "crash" \in Faults /\ faults < MaxFaults /\ faults' = faults + 1
  /\ ~At(d, "idle")
  /\ Rest(d)
  /\ UNCHANGED <<subs, usage, invoices, received, user>>

DeliveryStep(d) ==
  \/ Check(d) \/ Record(d)
  \/ Deactivate(d) \/ CreateSubscription(d) \/ WipeUsage(d) \/ FillUsage(d)
  \/ Sync(d) \/ Close(d) \/ CreateFree(d) \/ PastDue(d) \/ SaveInvoice(d)
  \/ Mark(d) \/ RecordError(d)

-----------------------------------------------------------------------------
(* Dashboard requests: findFirst, with no order, and an UPDATE by id.      *)

ReadToCancel(u, i) ==
  /\ user[u].pc = "idle" /\ Current(subs[i])
  /\ user' = [user EXCEPT ![u] = [pc |-> "cancel", row |-> i]]
  /\ UNCHANGED <<subs, usage, invoices, received, work, faults>>

ReadToReactivate(u, i) ==
  /\ user[u].pc = "idle" /\ Current(subs[i]) /\ subs[i].cancels
  /\ user' = [user EXCEPT ![u] = [pc |-> "reactivate", row |-> i]]
  /\ UNCHANGED <<subs, usage, invoices, received, work, faults>>

WriteCancel(u) ==
  /\ user[u].pc = "cancel"
  /\ subs' = [subs EXCEPT ![user[u].row].cancels = TRUE]
  /\ user' = [user EXCEPT ![u] = AtHome]
  /\ UNCHANGED <<usage, invoices, received, work, faults>>

WriteReactivate(u) ==
  /\ user[u].pc = "reactivate"
  /\ subs' = [subs EXCEPT ![user[u].row].cancels = FALSE]
  /\ user' = [user EXCEPT ![u] = AtHome]
  /\ UNCHANGED <<usage, invoices, received, work, faults>>

UserStep(u) ==
  \/ \E i \in DOMAIN subs : ReadToCancel(u, i) \/ ReadToReactivate(u, i)
  \/ WriteCancel(u) \/ WriteReactivate(u)

Next ==
  \/ \E d \in Deliveries :
       (\E e \in Events : Deliver(d, e)) \/ DeliveryStep(d) \/ CallFails(d) \/ Crash(d)
  \/ \E u \in Users : UserStep(u)

Spec == Init /\ [][Next]_vars

(* Stripe goes on sending an event that was not answered with a 2xx, and a *)
(* delivery, once it has begun, runs on.                                   *)
DeliverUnprocessed(e) == \E d \in Deliveries : received[e] # "processed" /\ Deliver(d, e)
Fairness ==
  /\ \A e \in Events : SF_vars(DeliverUnprocessed(e))
  /\ \A d \in Deliveries : WF_vars(DeliveryStep(d))
FairSpec == Spec /\ Fairness

-----------------------------------------------------------------------------
(* Properties.                                                             *)

TypeOK ==
  /\ subs \in Seq(SubRows)
  /\ usage \in Seq(Plans)
  /\ invoices \in [Invoices -> {"none", "paid", "payment_failed"}]
  /\ received \in [Events -> {"new", "recorded", "processed"}]
  /\ work \in [Deliveries -> [pc: DeliveryPCs, event: Events, plan: Plans]]
  /\ user \in [Users -> [pc: {"idle", "cancel", "reactivate"}, row: Nat]]
  /\ \A u \in Users : user[u].pc # "idle" => user[u].row \in DOMAIN subs
  /\ faults \in 0 .. MaxFaults

Quiet == \A d \in Deliveries : At(d, "idle")
Seen(e) == received[e] # "new"
Processed(e) == received[e] = "processed"
IsCheckout(e) == Detail[e].kind = "checkout" /\ Detail[e].plan # NoPlan

(* A checkout is never acknowledged without the subscription it paid for   *)
(* having a row, whatever fails, overlaps or comes out of order            *)
(* (webhook.service.ts handleWebhook: only a handler that came to its end  *)
(* leads to processed).                                                    *)
ProcessedCheckoutHasRow ==
  \A e \in Events : IsCheckout(e) /\ Processed(e) => HasRow(Detail[e].sub)

(* There are never more copies of the usage limits than deliveries at a    *)
(* time; in particular there is one when deliveries do not overlap         *)
(* (usage.service.ts initializeUsage).                                     *)
UsageCopiesBounded == Len(usage) <= Cardinality(Deliveries)

(* webhook.service.ts:143, "Deactivate any existing subscription for this  *)
(* org": the organization never has two current subscriptions.  An update  *)
(* of the one that an upgrade has canceled makes it ACTIVE again (:189),   *)
(* and its deletion puts an ACTIVE FREE one beside the new (:227).         *)
AtMostOneActive ==
  \A i, j \in DOMAIN subs : Current(subs[i]) /\ Current(subs[j]) => i = j

(* Of the subscriptions bought, no more are current than deliveries are     *)
(* handled at a time, but for those that Stripe has sent an update of: each *)
(* checkout cancels what it finds, upgrades, overlaps, failures and crashes *)
(* included (webhook.service.ts handleCheckoutCompleted).                  *)
Refreshed(s) == \E e \in Events : Detail[e].kind = "updated" /\ Detail[e].sub = s /\ Seen(e)
Bought == {i \in DOMAIN subs : /\ subs[i].stripe # NoStripe /\ Current(subs[i])
                               /\ ~Refreshed(subs[i].stripe)}
InForceBounded == Cardinality(Bought) <= Cardinality(Deliveries)

(* Between deliveries, handled one at a time, the usage limits are, once,   *)
(* those of the newest subscription, which findByOrg shows: those its       *)
(* checkout names when that was acknowledged, whatever failed or died on   *)
(* the way; those of the FREE plan while nothing has failed                *)
(* (webhook.service.ts handleCheckoutCompleted, handleSubscriptionDeleted).*)
LimitsOfNewest ==
  Quiet /\ subs # << >> =>
    LET newest == subs[Len(subs)] IN
      /\ \A e \in Events : IsCheckout(e) /\ Processed(e) /\ Detail[e].sub = newest.stripe =>
           usage = <<Detail[e].plan>>
      /\ newest.stripe = NoStripe /\ faults = 0 => usage = <<newest.plan>>

(* What one delivery at a time keeps, and what overlapping ones bound.     *)
OneInForce == InForceBounded /\ (Cardinality(Deliveries) = 1 => LimitsOfNewest)

(* What is behind UsageCopiesBounded: a delivery that has yet to fill in    *)
(* the limits is counted with the copies that are there.                   *)
Filling == {d \in Deliveries : At(d, "fill")}
UsageCopiesInv == Len(usage) + Cardinality(Filling) <= Cardinality(Deliveries)

(* What is behind ProcessedCheckoutHasRow: a delivery of a checkout, and    *)
(* no other, comes to the INSERT of a paid subscription; past it, it finds *)
(* the row.                                                                *)
CheckoutShape ==
  \A d \in Deliveries :
    /\ work[d].pc \in {"deactivate", "create"} => IsCheckout(work[d].event)
    /\ IsCheckout(work[d].event) =>
         \/ work[d].pc \in {"idle", "check", "record", "deactivate", "create", "error"}
         \/ work[d].pc \in {"wipe", "fill", "mark"} /\ HasRow(Event(d).sub)

(* An invoice event that comes when its subscription has a row is never     *)
(* acknowledged without the invoice's row, then or later, whatever order    *)
(* the others come in, and whatever overlaps, fails or dies                *)
(* (webhook.service.ts handleInvoicePaid, handleInvoicePaymentFailed).     *)
InvoiceKept ==
  \A e \in Events : Detail[e].kind \in {"paid", "failed"} =>
    [](HasRow(Detail[e].sub) /\ ~Seen(e) => [](Processed(e) => invoices[Detail[e].invoice] # "none"))

(* CHANGELOG.md:25, "idempotent event processing": when nothing but its    *)
(* own checkout has been received, a subscription with a row is ACTIVE     *)
(* whenever no delivery is under way.                                      *)
CheckoutServed ==
  Quiet => \A e \in Events, i \in DOMAIN subs :
    /\ IsCheckout(e) /\ subs[i].stripe = Detail[e].sub
    /\ \A f \in Events : Seen(f) => f = e
    => subs[i].status = "ACTIVE"

(* Every event is processed in the end, for good, in whatever order Stripe *)
(* sends them, whatever call fails and wherever the process dies           *)
(* (webhook.service.ts:106, "do not mark as processed so it can be         *)
(* retried"), but for a checkout that stopped after the INSERT of its      *)
(* subscription: each retry finds that row and fails on its unique         *)
(* stripeSubscriptionId (:155).                                            *)
Stopped(e) == faults > 0 /\ IsCheckout(e) /\ HasRow(Detail[e].sub)
EveryEventProcessed == \A e \in Events : <>[](Processed(e) \/ Stopped(e))
=============================================================================
