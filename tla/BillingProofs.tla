---------------------------- MODULE BillingProofs ----------------------------
(***************************************************************************)
(* What the webhook handler guarantees for any events, in any order, and   *)
(* any number of overlapping deliveries and faults: the types, that no     *)
(* checkout is acknowledged without its subscription and no invoice that   *)
(* finds its subscription without its row, and bounds on the copies of the *)
(* usage limits and on the subscriptions in force.                         *)
(***************************************************************************)
EXTENDS Billing, FiniteSetTheorems, TLAPS

LEMMA InitialChoices == AnyEvent \in Events /\ AnyPlan \in Plans
BY DetailAssumption, PlansAssumption DEF AnyEvent, AnyPlan

LEMMA EventTyped ==
  ASSUME TypeOK, NEW d \in Deliveries
  PROVE  /\ work[d] \in [pc: DeliveryPCs, event: Events, plan: Plans]
         /\ work[d].event \in Events /\ Event(d) \in EventDetails
BY DetailAssumption DEF TypeOK, Event

(* Rewriting the rows in place keeps them rows, and as many. *)
LEMMA Rewritten ==
  ASSUME NEW T, NEW q \in Seq(T), NEW r \in [DOMAIN q -> T]
  PROVE  r \in Seq(T) /\ DOMAIN r = DOMAIN q
OBVIOUS

LEMMA NewRowTyped ==
  ASSUME NEW s \in StripeSubs \cup {NoStripe}, NEW p \in Plans
  PROVE  NewRow(s, p) \in SubRows /\ NewRow(s, p).stripe = s
BY DEF NewRow, SubRows, SubscriptionStatus

(* The rows a step leaves: typed, none fewer, and each keeps its Stripe id. *)
RowsKept ==
  /\ subs' \in Seq(SubRows)
  /\ DOMAIN subs \subseteq DOMAIN subs'
  /\ \A i \in DOMAIN subs : subs'[i].stripe = subs[i].stripe

LEMMA RowsSame == ASSUME TypeOK, subs' = subs PROVE RowsKept
BY DEF RowsKept, TypeOK

LEMMA RowsAppend ==
  ASSUME TypeOK, NEW row \in SubRows, subs' = Append(subs, row)
  PROVE  RowsKept /\ Len(subs) + 1 \in DOMAIN subs' /\ subs'[Len(subs) + 1] = row
BY DEF RowsKept, TypeOK

LEMMA RowsEdited ==
  ASSUME TypeOK, subs' \in [DOMAIN subs -> SubRows],
         \A i \in DOMAIN subs : subs'[i].stripe = subs[i].stripe
  PROVE  RowsKept
BY Rewritten DEF RowsKept, TypeOK

LEMMA DetailTyped ==
  ASSUME NEW e \in EventDetails
  PROVE  /\ e.sub \in StripeSubs /\ e.plan \in Plans \cup {NoPlan}
         /\ StatusMap[e.status] \in SubscriptionStatus
         /\ e.cancels \in BOOLEAN /\ e.invoice \in Invoices
<1>1. e.status \in StripeStatuses
  BY DEF EventDetails
<1>2. StatusMap[e.status] \in SubscriptionStatus
  BY <1>1 DEF StripeStatuses, StatusMap, SubscriptionStatus
<1> QED
  BY <1>2 DEF EventDetails

LEMMA RowEdits ==
  ASSUME NEW row \in SubRows
  PROVE  /\ \A st \in SubscriptionStatus :
              /\ [row EXCEPT !.status = st] \in SubRows
              /\ [row EXCEPT !.status = st].stripe = row.stripe
         /\ \A b \in BOOLEAN :
              /\ [row EXCEPT !.cancels = b] \in SubRows
              /\ [row EXCEPT !.cancels = b].stripe = row.stripe
BY DEF SubRows

(* Every step keeps the rows. *)
LEMMA RowsStep ==
  ASSUME TypeOK, CheckoutShape, [Next]_vars
  PROVE  RowsKept
<1>t. subs \in Seq(SubRows) /\ \A i \in DOMAIN subs : subs[i] \in SubRows
  BY DEF TypeOK
<1>c. "CANCELED" \in SubscriptionStatus /\ "PAST_DUE" \in SubscriptionStatus
  BY DEF SubscriptionStatus
<1>1. ASSUME NEW d \in Deliveries, Deactivate(d) PROVE RowsKept
  <2>1. subs' \in [DOMAIN subs -> SubRows]
    BY <1>1, <1>t, <1>c, RowEdits, Zenon DEF Deactivate
  <2>2. \A i \in DOMAIN subs : subs'[i].stripe = subs[i].stripe
    BY <1>1, <1>t, <1>c, RowEdits DEF Deactivate
  <2> QED
    BY <2>1, <2>2, RowsEdited
<1>2. ASSUME NEW d \in Deliveries, CreateSubscription(d) PROVE RowsKept
  <2>1. Event(d).sub \in StripeSubs /\ Event(d).plan \in Plans
    BY <1>2, EventTyped, DetailTyped
    DEF CheckoutShape, CreateSubscription, At, IsCheckout, Event
  <2>2. NewRow(Event(d).sub, Event(d).plan) \in SubRows
    BY <2>1, NewRowTyped
  <2> QED
    BY <1>2, <2>2, RowsSame, RowsAppend DEF CreateSubscription
<1>3. ASSUME NEW d \in Deliveries, Sync(d) PROVE RowsKept
  <2> DEFINE e == Event(d)
  <2>1. /\ StatusMap[e.status] \in SubscriptionStatus /\ e.cancels \in BOOLEAN
        /\ e.plan \in Plans \cup {NoPlan}
    BY EventTyped, DetailTyped
  <2>2. \A i \in DOMAIN subs : subs[i].plan \in Plans
    BY <1>t DEF SubRows
  <2> DEFINE g(row) == [row EXCEPT !.status = StatusMap[e.status], !.cancels = e.cancels,
                                   !.plan = IF e.plan = NoPlan THEN @ ELSE e.plan]
  <2>3. \A i \in DOMAIN subs : g(subs[i]) \in SubRows /\ g(subs[i]).stripe = subs[i].stripe
    <3> TAKE i \in DOMAIN subs
    <3> DEFINE p == IF e.plan = NoPlan THEN subs[i].plan ELSE e.plan
    <3>1. p \in Plans
      BY <2>1, <2>2
    <3>2. g(subs[i]) = [subs[i] EXCEPT !.status = StatusMap[e.status], !.cancels = e.cancels,
                                      !.plan = p]
      OBVIOUS
    <3>3. subs[i] \in SubRows
      BY <1>t
    <3>4. StatusMap[e.status] \in SubscriptionStatus /\ e.cancels \in BOOLEAN
      BY <2>1
    <3> HIDE DEF p, e
    <3>5. /\ [subs[i] EXCEPT !.status = StatusMap[e.status], !.cancels = e.cancels,
                              !.plan = p] \in SubRows
          /\ [subs[i] EXCEPT !.status = StatusMap[e.status], !.cancels = e.cancels,
                              !.plan = p].stripe = subs[i].stripe
      BY <3>1, <3>3, <3>4 DEF SubRows
    <3> HIDE DEF g
    <3> QED
      BY <3>2, <3>5, Zenon
  <2>4. subs' = [i \in DOMAIN subs |-> IF subs[i].stripe = e.sub THEN g(subs[i]) ELSE subs[i]]
    BY <1>3 DEF Sync, EditRow
  <2> HIDE DEF g, e
  <2>5. /\ subs' \in [DOMAIN subs -> SubRows]
        /\ \A i \in DOMAIN subs : subs'[i].stripe = subs[i].stripe
    BY <1>t, <2>3, <2>4
  <2> QED
    BY <2>5, RowsEdited
<1>4. ASSUME NEW d \in Deliveries, Close(d) \/ PastDue(d) PROVE RowsKept
  <2>1. PICK st \in SubscriptionStatus :
          subs' = [i \in DOMAIN subs |-> IF subs[i].stripe = Event(d).sub
                                         THEN [subs[i] EXCEPT !.status = st] ELSE subs[i]]
    BY <1>4, <1>c DEF Close, PastDue, EditRow
  <2>2. /\ subs' \in [DOMAIN subs -> SubRows]
        /\ \A i \in DOMAIN subs : subs'[i].stripe = subs[i].stripe
    BY <1>t, <2>1, RowEdits
  <2> QED
    BY <2>2, RowsEdited
<1>5. ASSUME NEW d \in Deliveries, CreateFree(d) PROVE RowsKept
  <2>1. work[d].plan \in Plans
    BY EventTyped
  <2> QED
    BY <1>5, <2>1, NewRowTyped, RowsAppend DEF CreateFree
<1>6. ASSUME NEW u \in Users, WriteCancel(u) \/ WriteReactivate(u) PROVE RowsKept
  <2>1. user[u].row \in DOMAIN subs
    BY <1>6 DEF TypeOK, WriteCancel, WriteReactivate
  <2>2. PICK b \in BOOLEAN : subs' = [subs EXCEPT ![user[u].row].cancels = b]
    BY <1>6 DEF WriteCancel, WriteReactivate
  <2>3. subs' = [subs EXCEPT ![user[u].row] = [subs[user[u].row] EXCEPT !.cancels = b]]
    BY <2>2
  <2>4. /\ subs' \in [DOMAIN subs -> SubRows]
        /\ \A i \in DOMAIN subs : subs'[i].stripe = subs[i].stripe
    BY <1>t, <2>1, <2>3, RowEdits
  <2> QED
    BY <2>4, RowsEdited
<1>7. CASE UNCHANGED subs
  BY <1>7, RowsSame
<1> QED
  BY <1>1, <1>2, <1>3, <1>4, <1>5, <1>6, <1>7, Zenon
  DEF Next, DeliveryStep, UserStep, Deliver, Check, Record, WipeUsage, FillUsage, SaveInvoice,
      Mark, RecordError, CallFails, Crash, ReadToCancel, ReadToReactivate, vars

-----------------------------------------------------------------------------
(* Type correctness.                                                       *)

(* What a step does to the control state of the deliveries. *)
LEMMA WorkStep ==
  ASSUME TypeOK, CheckoutShape, [Next]_vars
  PROVE  \/ work' = work
         \/ \E d \in Deliveries : Rest(d)
         \/ \E d \in Deliveries, pc \in DeliveryPCs : Goto(d, pc)
         \/ \E d \in Deliveries, e \in Events :
              work' = [work EXCEPT ![d] = [Idle EXCEPT !.pc = "check", !.event = e]]
         \/ \E d \in Deliveries, pc \in DeliveryPCs, p \in Plans :
              work' = [work EXCEPT ![d].pc = pc, ![d].plan = p]
<1>p. {"idle", "check", "record", "deactivate", "create", "wipe", "fill", "sync",
       "close", "createFree", "pastDue", "invoice", "mark", "error"} \subseteq DeliveryPCs
  BY DEF DeliveryPCs
<1> DEFINE Goal == \/ work' = work
                   \/ \E d \in Deliveries : Rest(d)
                   \/ \E d \in Deliveries, pc \in DeliveryPCs : Goto(d, pc)
                   \/ \E d \in Deliveries, e \in Events :
                        work' = [work EXCEPT ![d] = [Idle EXCEPT !.pc = "check", !.event = e]]
                   \/ \E d \in Deliveries, pc \in DeliveryPCs, p \in Plans :
                        work' = [work EXCEPT ![d].pc = pc, ![d].plan = p]
<1>1. ASSUME NEW d \in Deliveries, NEW e \in Events, Deliver(d, e) PROVE Goal
  BY <1>1 DEF Deliver
<1>2. ASSUME NEW d \in Deliveries, Check(d) \/ Mark(d) \/ RecordError(d) \/ Crash(d) PROVE Goal
  <2>1. Rest(d) \/ Goto(d, "record")
    BY <1>2 DEF Check, Mark, RecordError, Crash
  <2> QED
    BY <2>1, <1>p
<1>3. ASSUME NEW d \in Deliveries, Record(d) PROVE Goal
  <2>1. FirstStep(Event(d)) \in DeliveryPCs
    BY <1>p DEF FirstStep
  <2> QED
    BY <1>3, <2>1 DEF Record
<1>4. ASSUME NEW d \in Deliveries, Deactivate(d) \/ WipeUsage(d) \/ FillUsage(d) \/ Sync(d)
                                   \/ CreateFree(d) \/ PastDue(d) \/ SaveInvoice(d)
      PROVE Goal
  <2>1. \E pc \in {"create", "fill", "mark", "wipe", "invoice"} : Goto(d, pc)
    BY <1>4 DEF Deactivate, WipeUsage, FillUsage, Sync, CreateFree, PastDue, SaveInvoice
  <2> QED
    BY <2>1, <1>p
<1>5. ASSUME NEW d \in Deliveries, CreateSubscription(d) PROVE Goal
  <2>1. Event(d).plan \in Plans
    BY <1>5, EventTyped, DetailTyped
    DEF CheckoutShape, CreateSubscription, At, IsCheckout, Event
  <2> QED
    BY <1>5, <2>1, <1>p DEF CreateSubscription
<1>6. ASSUME NEW d \in Deliveries, Close(d) PROVE Goal
  <2>1. CASE Goto(d, "mark")
    BY <2>1, <1>p
  <2>2. ASSUME NEW p \in FreePlans,
               work' = [work EXCEPT ![d].pc = "createFree", ![d].plan = p]
        PROVE  Goal
    BY <2>2, <1>p, PlansAssumption
  <2> QED
    BY <1>6, <2>1, <2>2, Zenon DEF Close
<1>7. ASSUME NEW d \in Deliveries, CallFails(d) PROVE Goal
  <2>1. Catching(d) \in DeliveryPCs
    BY <1>p DEF Catching
  <2> QED
    BY <1>7, <2>1 DEF CallFails
<1>8. ASSUME UNCHANGED work PROVE Goal
  BY <1>8
<1> HIDE DEF Goal
<1>9. ASSUME NEW d \in Deliveries, DeliveryStep(d) PROVE Goal
  BY <1>2, <1>3, <1>4, <1>5, <1>6, <1>9, Zenon DEF DeliveryStep
<1>10. ASSUME NEW u \in Users, UserStep(u) PROVE Goal
  <2>1. UNCHANGED work
    BY <1>10 DEF UserStep, WriteCancel, WriteReactivate, ReadToCancel, ReadToReactivate
  <2> QED
    BY <2>1, <1>8
<1>11. ASSUME UNCHANGED vars PROVE Goal
  BY <1>11, <1>8 DEF vars
<1>12. Goal
  BY <1>1, <1>2, <1>7, <1>9, <1>10, <1>11, Zenon DEF Next
<1> QED
  BY <1>12 DEF Goal

LEMMA WorkTyped ==
  ASSUME TypeOK, CheckoutShape, [Next]_vars
  PROVE  work' \in [Deliveries -> [pc: DeliveryPCs, event: Events, plan: Plans]]
<1> DEFINE W == [pc: DeliveryPCs, event: Events, plan: Plans]
<1>t. work \in [Deliveries -> W]
  BY DEF TypeOK
<1>i. Idle \in W /\ \A e \in Events : [Idle EXCEPT !.pc = "check", !.event = e] \in W
  BY InitialChoices DEF Idle, DeliveryPCs
<1>1. ASSUME NEW d \in Deliveries, Rest(d) PROVE work' \in [Deliveries -> W]
  BY <1>1, <1>t, <1>i DEF Rest
<1>2. ASSUME NEW d \in Deliveries, NEW pc \in DeliveryPCs, Goto(d, pc)
      PROVE  work' \in [Deliveries -> W]
  BY <1>2, <1>t DEF Goto
<1>3. ASSUME NEW d \in Deliveries, NEW e \in Events,
             work' = [work EXCEPT ![d] = [Idle EXCEPT !.pc = "check", !.event = e]]
      PROVE  work' \in [Deliveries -> W]
  BY <1>3, <1>t, <1>i
<1>4. ASSUME NEW d \in Deliveries, NEW pc \in DeliveryPCs, NEW p \in Plans,
             work' = [work EXCEPT ![d].pc = pc, ![d].plan = p]
      PROVE  work' \in [Deliveries -> W]
  BY <1>4, <1>t
<1> HIDE DEF W
<1>5. work' \in [Deliveries -> W]
  BY <1>t, <1>1, <1>2, <1>3, <1>4, WorkStep, Zenon
<1> QED
  BY <1>5 DEF W

LEMMA UsersTyped ==
  ASSUME TypeOK, CheckoutShape, [Next]_vars
  PROVE  /\ user' \in [Users -> [pc: {"idle", "cancel", "reactivate"}, row: Nat]]
         /\ \A u \in Users : user'[u].pc # "idle" => user'[u].row \in DOMAIN subs'
<1> DEFINE U == [pc: {"idle", "cancel", "reactivate"}, row: Nat]
<1>t. /\ user \in [Users -> U]
      /\ \A u \in Users : user[u].pc # "idle" => user[u].row \in DOMAIN subs
      /\ DOMAIN subs \subseteq Nat
  BY DEF TypeOK
<1>r. DOMAIN subs \subseteq DOMAIN subs'
  BY RowsStep DEF RowsKept
<1>1. ASSUME NEW u \in Users, NEW i \in DOMAIN subs, ReadToCancel(u, i) \/ ReadToReactivate(u, i)
      PROVE  /\ user' \in [Users -> U]
             /\ \A v \in Users : user'[v].pc # "idle" => user'[v].row \in DOMAIN subs'
  BY <1>1, <1>t, <1>r DEF ReadToCancel, ReadToReactivate
<1>2. ASSUME NEW u \in Users, WriteCancel(u) \/ WriteReactivate(u)
      PROVE  /\ user' \in [Users -> U]
             /\ \A v \in Users : user'[v].pc # "idle" => user'[v].row \in DOMAIN subs'
  BY <1>2, <1>t, <1>r DEF WriteCancel, WriteReactivate, AtHome
<1>3. CASE UNCHANGED user
  BY <1>3, <1>t, <1>r
<1> QED
  BY <1>1, <1>2, <1>3
  DEF Next, DeliveryStep, UserStep, Deliver, Check, Record, Deactivate, CreateSubscription,
      WipeUsage, FillUsage, Sync, Close, CreateFree, PastDue, SaveInvoice, Mark, RecordError,
      CallFails, Crash, vars

(* The tables that a step writes besides subscriptions. *)
LEMMA TablesTyped ==
  ASSUME TypeOK, [Next]_vars
  PROVE  /\ usage' \in Seq(Plans)
         /\ invoices' \in [Invoices -> {"none", "paid", "payment_failed"}]
         /\ received' \in [Events -> {"new", "recorded", "processed"}]
         /\ faults' \in 0 .. MaxFaults
<1>t. /\ usage \in Seq(Plans)
      /\ invoices \in [Invoices -> {"none", "paid", "payment_failed"}]
      /\ received \in [Events -> {"new", "recorded", "processed"}]
      /\ faults \in 0 .. MaxFaults
  BY DEF TypeOK
<1>1. ASSUME NEW d \in Deliveries, FillUsage(d) \/ WipeUsage(d) PROVE usage' \in Seq(Plans)
  <2>1. work[d].plan \in Plans
    BY EventTyped
  <2>2. CASE FillUsage(d)
    <3>1. usage' = Append(usage, work[d].plan)
      BY <2>2 DEF FillUsage
    <3> QED
      BY <1>t, <2>1, <3>1
  <2>3. CASE WipeUsage(d)
    <3>1. usage' = << >>
      BY <2>3 DEF WipeUsage
    <3> QED
      BY <3>1
  <2> QED
    BY <1>1, <2>2, <2>3
<1>2. ASSUME NEW d \in Deliveries, SaveInvoice(d)
      PROVE  invoices' \in [Invoices -> {"none", "paid", "payment_failed"}]
  BY <1>2, <1>t DEF SaveInvoice
<1>3. ASSUME NEW d \in Deliveries, Record(d) \/ Mark(d)
      PROVE  received' \in [Events -> {"new", "recorded", "processed"}]
  BY <1>3, <1>t DEF Record, Mark
<1>4. ASSUME NEW d \in Deliveries, CallFails(d) \/ Crash(d) PROVE faults' \in 0 .. MaxFaults
  BY <1>4, <1>t, FaultsAssumption DEF CallFails, Crash
<1>5. usage' \in Seq(Plans)
  BY <1>t, <1>1
  DEF Next, DeliveryStep, UserStep, Deliver, Check, Record, Deactivate, CreateSubscription,
      Sync, Close, CreateFree, PastDue, SaveInvoice, Mark, RecordError,
      CallFails, Crash, ReadToCancel, ReadToReactivate, WriteCancel, WriteReactivate, vars
<1>6. faults' \in 0 .. MaxFaults
  BY <1>t, <1>4
  DEF Next, DeliveryStep, UserStep, Deliver, Check, Record, Deactivate, CreateSubscription,
      Sync, Close, CreateFree, PastDue, SaveInvoice, Mark, RecordError, WipeUsage, FillUsage,
      ReadToCancel, ReadToReactivate, WriteCancel, WriteReactivate, vars
<1>7. invoices' \in [Invoices -> {"none", "paid", "payment_failed"}]
  BY <1>t, <1>2
  DEF Next, DeliveryStep, UserStep, Deliver, Check, Record, Deactivate, CreateSubscription,
      Sync, Close, CreateFree, PastDue, Mark, RecordError, WipeUsage, FillUsage,
      CallFails, Crash, ReadToCancel, ReadToReactivate, WriteCancel, WriteReactivate, vars
<1>8. received' \in [Events -> {"new", "recorded", "processed"}]
  BY <1>t, <1>3
  DEF Next, DeliveryStep, UserStep, Deliver, Check, Deactivate, CreateSubscription,
      Sync, Close, CreateFree, PastDue, SaveInvoice, RecordError, WipeUsage, FillUsage,
      CallFails, Crash, ReadToCancel, ReadToReactivate, WriteCancel, WriteReactivate, vars
<1> QED
  BY <1>5, <1>6, <1>7, <1>8

LEMMA TypeStep ==
  ASSUME TypeOK, CheckoutShape, [Next]_vars
  PROVE  TypeOK'
BY RowsStep, WorkTyped, UsersTyped, TablesTyped DEF TypeOK, RowsKept

LEMMA TypeInit == Init => TypeOK
BY InitialChoices, FaultsAssumption
DEF Init, TypeOK, Idle, AtHome, DeliveryPCs

-----------------------------------------------------------------------------
(* No checkout without its subscription.                                   *)

(* CheckoutShape of one delivery. *)
Shaped(d) ==
  /\ work[d].pc \in {"deactivate", "create"} => IsCheckout(work[d].event)
  /\ IsCheckout(work[d].event) =>
       \/ work[d].pc \in {"idle", "check", "record", "deactivate", "create", "error"}
       \/ work[d].pc \in {"wipe", "fill", "mark"} /\ HasRow(Event(d).sub)

(* It holds again after every step. *)
LEMMA ShapedStep ==
  ASSUME TypeOK, CheckoutShape, [Next]_vars, NEW d \in Deliveries
  PROVE  Shaped(d)'
<1> DEFINE HasNow(s) == \E i \in DOMAIN subs' : subs'[i].stripe = s
      Ok(pc, e) ==
      /\ pc \in {"deactivate", "create"} => IsCheckout(e)
      /\ IsCheckout(e) =>
           \/ pc \in {"idle", "check", "record", "deactivate", "create", "error"}
           \/ pc \in {"wipe", "fill", "mark"} /\ HasNow(Detail[e].sub)
      Same == work'[d].event = work[d].event
<1>t. work \in [Deliveries -> [pc: DeliveryPCs, event: Events, plan: Plans]]
  BY DEF TypeOK
<1>k. HasRow(Event(d).sub) => HasNow(Event(d).sub)
  <2>1. ASSUME NEW i \in DOMAIN subs, subs[i].stripe = Event(d).sub
        PROVE  HasNow(Event(d).sub)
    BY <2>1, RowsStep DEF RowsKept
  <2> QED
    BY <2>1 DEF HasRow, RowOf
<1>s. Shaped(d)
  BY DEF CheckoutShape, Shaped
<1>o. Ok(work[d].pc, work[d].event)
  BY <1>s, <1>k DEF Shaped, Event
<1>q. Ok(work'[d].pc, work'[d].event) => Shaped(d)'
  <2>1. HasNow(Detail[work'[d].event].sub) => HasRow(Event(d).sub)'
    BY DEF HasRow, RowOf, Event
  <2> QED
    BY <2>1 DEF Shaped, IsCheckout
<1> DEFINE Done == Ok(work'[d].pc, work'[d].event)
<1>1. ASSUME work'[d] = work[d] PROVE Done
  BY <1>1, <1>o
<1>2. ASSUME Rest(d) PROVE Done
  BY <1>2, <1>t DEF Rest, Idle
<1>3. ASSUME NEW e \in Events, Deliver(d, e) PROVE Done
  BY <1>3, <1>t DEF Deliver, Idle
<1>4. ASSUME Goto(d, "record") \/ Goto(d, "error") PROVE Done
  BY <1>4, <1>t DEF Goto
<1>5. ASSUME Record(d) PROVE Done
  <2>1. work'[d].pc = FirstStep(Event(d)) /\ Same
    BY <1>5, <1>t DEF Record, Goto
  <2> QED
    BY <2>1 DEF FirstStep, Event, IsCheckout
<1>6. ASSUME Deactivate(d) PROVE Done
  BY <1>6, <1>t, <1>o DEF Deactivate, Goto, At
<1>7. ASSUME CreateSubscription(d) PROVE Done
  <2>1. CASE HasRow(Event(d).sub)
    BY <1>7, <2>1, <1>4 DEF CreateSubscription
  <2>2. CASE ~HasRow(Event(d).sub)
    <3>1. /\ subs' = Append(subs, NewRow(Event(d).sub, Event(d).plan))
          /\ work' = [work EXCEPT ![d].pc = "wipe", ![d].plan = Event(d).plan]
          /\ At(d, "create")
      BY <1>7, <2>2 DEF CreateSubscription
    <3>2. Event(d).sub \in StripeSubs /\ Event(d).plan \in Plans
      BY <3>1, <1>s, EventTyped, DetailTyped DEF Shaped, At, IsCheckout, Event
    <3>3. /\ NewRow(Event(d).sub, Event(d).plan) \in SubRows
          /\ NewRow(Event(d).sub, Event(d).plan).stripe = Event(d).sub
      BY <3>2, NewRowTyped
    <3>4. \E i \in DOMAIN subs' : subs'[i].stripe = Event(d).sub
      BY <3>1, <3>3, RowsAppend
    <3>5. HasNow(Detail[work[d].event].sub)
      BY <3>4 DEF Event
    <3>6. work'[d].pc = "wipe" /\ Same
      BY <3>1, <1>t
    <3> QED
      BY <3>5, <3>6
  <2> QED
    BY <2>1, <2>2
<1>8. ASSUME WipeUsage(d) \/ FillUsage(d) PROVE Done
  BY <1>8, <1>t, <1>o DEF WipeUsage, FillUsage, Goto, At
<1>9. ASSUME Sync(d) \/ PastDue(d) \/ SaveInvoice(d) \/ CreateFree(d) PROVE Done
  <2>1. ~IsCheckout(work[d].event) /\ Same
    BY <1>9, <1>t, <1>o DEF Sync, PastDue, SaveInvoice, CreateFree, Goto, At
  <2>2. work'[d].pc \notin {"deactivate", "create"}
    BY <1>9, <1>t DEF Sync, PastDue, SaveInvoice, CreateFree, Goto
  <2> QED
    BY <2>1, <2>2
<1>10. ASSUME Close(d) PROVE Done
  <2>1. ~IsCheckout(work[d].event)
    BY <1>10, <1>o DEF Close, At
  <2>2. Same /\ work'[d].pc \in {"createFree", "mark"}
    BY <1>10, <1>t DEF Close, Goto
  <2> QED
    BY <2>1, <2>2
<1>11. ASSUME CallFails(d) PROVE Done
  <2>1. CASE Catching(d) = "idle"
    BY <1>11, <2>1, <1>2 DEF CallFails
  <2>2. CASE Catching(d) # "idle"
    <3>1. work'[d].pc = Catching(d) /\ Same
      BY <1>11, <2>2, <1>t DEF CallFails, Goto
    <3>2. Catching(d) \in {"error", "invoice", "mark"}
      BY <2>2 DEF Catching
    <3>3. Catching(d) \in {"invoice", "mark"} => ~IsCheckout(work[d].event)
      BY <1>o DEF Catching, IsCheckout, Event, At
    <3> QED
      BY <3>1, <3>2, <3>3
  <2> QED
    BY <2>1, <2>2
<1> HIDE DEF Done, Ok, Same
<1>12. ASSUME DeliveryStep(d) PROVE Done
  <2>1. Check(d) \/ Mark(d) \/ RecordError(d) => Rest(d) \/ Goto(d, "record")
    BY DEF Check, Mark, RecordError
  <2> QED
    BY <1>12, <2>1, <1>2, <1>4, <1>5, <1>6, <1>7, <1>8, <1>9, <1>10 DEF DeliveryStep
<1>13. ASSUME NEW c \in Deliveries, c # d,
              (\E e \in Events : Deliver(c, e)) \/ DeliveryStep(c) \/ CallFails(c) \/ Crash(c)
       PROVE  work'[d] = work[d]
  BY <1>13, <1>t
  DEF Deliver, DeliveryStep, CallFails, Crash, Check, Record, Deactivate, CreateSubscription,
      WipeUsage, FillUsage, Sync, Close, CreateFree, PastDue, SaveInvoice, Mark, RecordError,
      Goto, Rest
<1>14. ASSUME NEW u \in Users, UserStep(u) PROVE work'[d] = work[d]
  BY <1>14 DEF UserStep, WriteCancel, WriteReactivate, ReadToCancel, ReadToReactivate
<1>15. Done
  <2>1. CASE UNCHANGED vars
    BY <2>1, <1>1 DEF vars
  <2>2. ASSUME NEW u \in Users, UserStep(u) PROVE Done
    BY <2>2, <1>14, <1>1
  <2>3. ASSUME NEW c \in Deliveries,
               (\E e \in Events : Deliver(c, e)) \/ DeliveryStep(c) \/ CallFails(c) \/ Crash(c)
        PROVE  Done
    <3>1. CASE c # d
      BY <2>3, <3>1, <1>13, <1>1
    <3>2. CASE c = d
      BY <2>3, <3>2, <1>2, <1>3, <1>11, <1>12 DEF Crash
    <3> QED
      BY <3>1, <3>2
  <2> QED
    BY <2>1, <2>2, <2>3 DEF Next
<1> QED
  BY <1>15, <1>q DEF Done

LEMMA ShapeStep ==
  ASSUME TypeOK, CheckoutShape, [Next]_vars
  PROVE  CheckoutShape'
<1>1. \A d \in Deliveries : Shaped(d)'
  BY ShapedStep
<1> QED
  BY <1>1 DEF CheckoutShape, Shaped

LEMMA NewlyProcessed ==
  ASSUME TypeOK, [Next]_vars, NEW e \in Events, received'[e] = "processed"
  PROVE  \/ Processed(e)
         \/ \E d \in Deliveries : Mark(d) /\ work[d].event = e
<1>t. received \in [Events -> {"new", "recorded", "processed"}]
  BY DEF TypeOK
<1>1. ASSUME NEW d \in Deliveries, Mark(d) PROVE Processed(e) \/ work[d].event = e
  BY <1>1, <1>t DEF Mark, Processed
<1>2. ASSUME NEW d \in Deliveries, Record(d) PROVE Processed(e)
  BY <1>2, <1>t DEF Record, Processed
<1>3. CASE UNCHANGED received
  BY <1>3 DEF Processed
<1> QED
  BY <1>1, <1>2, <1>3
  DEF Next, DeliveryStep, UserStep, Deliver, Check, Deactivate, CreateSubscription,
      Sync, Close, CreateFree, PastDue, SaveInvoice, RecordError, WipeUsage, FillUsage,
      CallFails, Crash, ReadToCancel, ReadToReactivate, WriteCancel, WriteReactivate, vars

LEMMA ProcessedStep ==
  ASSUME TypeOK, CheckoutShape, ProcessedCheckoutHasRow, [Next]_vars
  PROVE  ProcessedCheckoutHasRow'
<1> SUFFICES ASSUME NEW e \in Events, IsCheckout(e), received'[e] = "processed"
             PROVE  HasRow(Detail[e].sub)'
  BY DEF ProcessedCheckoutHasRow, Processed, IsCheckout
<1>1. HasRow(Detail[e].sub)
  <2>1. ASSUME NEW d \in Deliveries, Mark(d), work[d].event = e
        PROVE  HasRow(Detail[e].sub)
    BY <2>1 DEF CheckoutShape, Mark, At, Event
  <2> QED
    BY <2>1, NewlyProcessed DEF ProcessedCheckoutHasRow
<1>2. PICK i \in DOMAIN subs : subs[i].stripe = Detail[e].sub
  BY <1>1 DEF HasRow, RowOf
<1>3. i \in DOMAIN subs' /\ subs'[i].stripe = Detail[e].sub
  BY <1>2, RowsStep DEF RowsKept
<1> QED
  BY <1>3 DEF HasRow, RowOf

(* For any events, order, overlap and faults, the handler's state is well  *)
(* typed (webhook.service.ts, subscription.service.ts, usage.service.ts).  *)
THEOREM TypeCorrect == Spec => []TypeOK
<1>1. Init => TypeOK /\ CheckoutShape
  BY TypeInit DEF Init, CheckoutShape, Idle
<1>2. TypeOK /\ CheckoutShape /\ [Next]_vars => (TypeOK /\ CheckoutShape)'
  BY TypeStep, ShapeStep
<1> QED
  BY <1>1, <1>2, PTL DEF Spec

(* For any events, order, overlap and faults, no checkout is acknowledged  *)
(* to Stripe without the subscription it paid for having a row             *)
(* (webhook.service.ts handleWebhook, handleCheckoutCompleted).            *)
THEOREM NoCheckoutLost == Spec => []ProcessedCheckoutHasRow
<1> DEFINE Inv == TypeOK /\ CheckoutShape /\ ProcessedCheckoutHasRow
<1>1. Init => Inv
  <2>1. Init => TypeOK /\ CheckoutShape
    BY TypeInit DEF Init, CheckoutShape, Idle
  <2>2. Init => ProcessedCheckoutHasRow
    BY DEF Init, ProcessedCheckoutHasRow, Processed
  <2> QED
    BY <2>1, <2>2
<1>2. Inv /\ [Next]_vars => Inv'
  BY TypeStep, ShapeStep, ProcessedStep
<1> QED
  BY <1>1, <1>2, PTL DEF Spec

-----------------------------------------------------------------------------
(* The copies of the usage limits.                                         *)

LEMMA FillingFinite ==
  /\ Filling \subseteq Deliveries
  /\ IsFiniteSet(Filling) /\ Cardinality(Filling) \in Nat
  /\ Cardinality(Filling) <= Cardinality(Deliveries) /\ Cardinality(Deliveries) \in Nat
<1>1. Filling \subseteq Deliveries
  BY DEF Filling
<1> QED
  BY <1>1, DeliveriesAssumption, FS_Subset, FS_CardinalityType

(* Only a delivery that wipes the limits goes on to fill them in. *)
LEMMA FillingStep ==
  ASSUME TypeOK, CheckoutShape, [Next]_vars,
         \A d \in Deliveries : ~WipeUsage(d)
  PROVE  /\ Filling' \subseteq Filling
         /\ \A d \in Deliveries : FillUsage(d) => d \in Filling /\ d \notin Filling'
<1>t. work \in [Deliveries -> [pc: DeliveryPCs, event: Events, plan: Plans]]
  BY DEF TypeOK
<1>1. ASSUME NEW d \in Deliveries, FillUsage(d) PROVE d \in Filling /\ d \notin Filling'
  BY <1>1, <1>t DEF FillUsage, Filling, At, Goto
<1>2. ASSUME NEW d \in Deliveries, work'[d].pc = "fill" PROVE work[d].pc = "fill"
  <2>1. ASSUME NEW c \in Deliveries, NEW e \in Events, Deliver(c, e) PROVE work[d].pc = "fill"
    BY <1>2, <2>1, <1>t DEF Deliver, Idle
  <2>2. ASSUME NEW c \in Deliveries, Rest(c) PROVE work[d].pc = "fill"
    BY <1>2, <2>2, <1>t DEF Rest, Idle
  <2>3. ASSUME NEW c \in Deliveries, NEW pc, pc # "fill", Goto(c, pc) PROVE work[d].pc = "fill"
    BY <1>2, <2>3, <1>t DEF Goto
  <2>4. ASSUME NEW c \in Deliveries, NEW pc, NEW p, pc # "fill",
               work' = [work EXCEPT ![c].pc = pc, ![c].plan = p]
        PROVE  work[d].pc = "fill"
    BY <1>2, <2>4, <1>t
  <2>5. ASSUME NEW c \in Deliveries, Record(c) \/ CallFails(c) PROVE work[d].pc = "fill"
    <3>1. FirstStep(Event(c)) # "fill" /\ Catching(c) # "fill"
      BY DEF FirstStep, Catching
    <3> QED
      BY <2>2, <2>3, <2>5, <3>1 DEF Record, CallFails
  <2>6. ASSUME NEW c \in Deliveries, DeliveryStep(c) PROVE work[d].pc = "fill"
    BY <2>2, <2>3, <2>4, <2>5, <2>6
    DEF DeliveryStep, Check, Deactivate, CreateSubscription, FillUsage, Sync, Close,
        CreateFree, PastDue, SaveInvoice, Mark, RecordError
  <2>7. ASSUME UNCHANGED work PROVE work[d].pc = "fill"
    BY <1>2, <2>7
  <2>8. ASSUME NEW u \in Users, UserStep(u) PROVE UNCHANGED work
    BY <2>8 DEF UserStep, WriteCancel, WriteReactivate, ReadToCancel, ReadToReactivate
  <2>9. UNCHANGED vars => UNCHANGED work
    BY DEF vars
  <2> QED
    BY <2>1, <2>2, <2>5, <2>6, <2>7, <2>8, <2>9 DEF Next, Crash
<1> QED
  BY <1>1, <1>2 DEF Filling, At

LEMMA CopiesStep ==
  ASSUME TypeOK, CheckoutShape, UsageCopiesInv, [Next]_vars
  PROVE  UsageCopiesInv'
<1>f. /\ Filling' \subseteq Deliveries
      /\ IsFiniteSet(Filling') /\ Cardinality(Filling') \in Nat
      /\ Cardinality(Filling') <= Cardinality(Deliveries) /\ Cardinality(Deliveries) \in Nat
  <2>1. Filling' \subseteq Deliveries
    BY DEF Filling
  <2> QED
    BY <2>1, DeliveriesAssumption, FS_Subset, FS_CardinalityType
<1>u. usage \in Seq(Plans) /\ Len(usage) \in Nat
  BY DEF TypeOK
<1>1. CASE \E d \in Deliveries : WipeUsage(d)
  <2>1. usage' = << >>
    BY <1>1 DEF WipeUsage
  <2> QED
    BY <2>1, <1>f DEF UsageCopiesInv
<1>2. CASE \A d \in Deliveries : ~WipeUsage(d)
  <2>1. Filling' \subseteq Filling
    BY <1>2, FillingStep
  <2>2. ASSUME NEW d \in Deliveries, FillUsage(d) PROVE UsageCopiesInv'
    <3>1. d \in Filling /\ Filling' \subseteq Filling \ {d}
      BY <2>1, <2>2, <1>2, FillingStep
    <3>2. Cardinality(Filling \ {d}) = Cardinality(Filling) - 1 /\ IsFiniteSet(Filling \ {d})
      BY <3>1, FillingFinite, FS_RemoveElement
    <3>3. Cardinality(Filling') <= Cardinality(Filling) - 1
      BY <3>1, <3>2, FS_Subset
    <3>4. Len(usage') = Len(usage) + 1
      <4>1. usage' = Append(usage, work[d].plan)
        BY <2>2 DEF FillUsage
      <4>2. work[d].plan \in Plans
        BY EventTyped
      <4> QED
        BY <4>1, <4>2, <1>u
    <3> QED
      BY <3>3, <3>4, <1>u, <1>f, FillingFinite DEF UsageCopiesInv
  <2>3. CASE usage' = usage
    <3>1. Cardinality(Filling') <= Cardinality(Filling)
      BY <2>1, FillingFinite, FS_Subset
    <3> QED
      BY <2>3, <3>1, <1>u, <1>f, FillingFinite DEF UsageCopiesInv
  <2>4. (\E d \in Deliveries : FillUsage(d)) \/ usage' = usage
    BY <1>2
    DEF Next, DeliveryStep, UserStep, Deliver, Check, Record, Deactivate, CreateSubscription,
        Sync, Close, CreateFree, PastDue, SaveInvoice, Mark, RecordError,
        CallFails, Crash, ReadToCancel, ReadToReactivate, WriteCancel, WriteReactivate, vars
  <2> QED
    BY <2>2, <2>3, <2>4
<1> QED
  BY <1>1, <1>2

(* However deliveries overlap and fail, there are no more copies of the    *)
(* usage limits than deliveries at a time (usage.service.ts                *)
(* initializeUsage); with one delivery at a time, one copy.                *)
THEOREM CopiesBounded == Spec => []UsageCopiesBounded
<1> DEFINE Inv == TypeOK /\ CheckoutShape /\ UsageCopiesInv
<1>1. Init => Inv
  <2>1. Init => TypeOK /\ CheckoutShape
    BY TypeInit DEF Init, CheckoutShape, Idle
  <2>2. Init => UsageCopiesInv
    <3> SUFFICES ASSUME Init PROVE UsageCopiesInv
      OBVIOUS
    <3>1. Len(usage) = 0
      BY DEF Init
    <3> QED
      BY <3>1, FillingFinite DEF UsageCopiesInv
  <2> QED
    BY <2>1, <2>2
<1>2. Inv /\ [Next]_vars => Inv'
  BY TypeStep, ShapeStep, CopiesStep
<1>3. Inv => UsageCopiesBounded
  <2> SUFFICES ASSUME Inv PROVE Len(usage) <= Cardinality(Deliveries)
    BY DEF UsageCopiesBounded
  <2>1. Len(usage) \in Nat
    BY DEF TypeOK
  <2> QED
    BY <2>1, FillingFinite DEF UsageCopiesInv
<1> QED
  BY <1>1, <1>2, <1>3, PTL DEF Spec

-----------------------------------------------------------------------------
(* Each event is routed to its own handler.                                *)

(* Which events' deliveries come to a step. *)
Routed(pc, e) ==
  /\ pc \in {"deactivate", "create"} => IsCheckout(e)
  /\ pc \in {"wipe", "fill"} => IsCheckout(e) \/ Detail[e].kind = "deleted"
  /\ pc \in {"close", "createFree"} => Detail[e].kind = "deleted"
  /\ pc = "sync" => Detail[e].kind = "updated"
  /\ pc = "pastDue" => Detail[e].kind = "failed"
  /\ pc = "invoice" => Detail[e].kind \in {"paid", "failed"}
OnRoute ==
  \A d \in Deliveries : /\ Routed(work[d].pc, work[d].event)
                        /\ work[d].pc \notin {"idle", "check", "record"} => Seen(work[d].event)

RouteInv == TypeOK /\ CheckoutShape /\ OnRoute

(* What a delivery does to its own control state. *)
LEMMA DeliveryMoves ==
  ASSUME TypeOK, NEW d \in Deliveries, DeliveryStep(d) \/ CallFails(d) \/ Crash(d)
  PROVE  /\ work[d].pc # "idle"
         /\ \/ work'[d].pc = "idle"
            \/ /\ work'[d].event = work[d].event
               /\ \/ work[d].pc = "check" /\ work'[d].pc = "record" /\ ~Processed(work[d].event)
                  \/ work[d].pc = "record" /\ work'[d].pc = FirstStep(Event(d))
                  \/ work[d].pc = "deactivate" /\ work'[d].pc = "create"
                  \/ work[d].pc = "create" /\ work'[d].pc \in {"wipe", "error"}
                  \/ work[d].pc = "wipe" /\ work'[d].pc = "fill"
                  \/ work[d].pc = "fill" /\ work'[d].pc = "mark"
                  \/ work[d].pc = "sync" /\ work'[d].pc = "mark"
                  \/ work[d].pc = "close" /\ work'[d].pc \in {"createFree", "mark"}
                  \/ work[d].pc = "createFree" /\ work'[d].pc = "wipe"
                  \/ work[d].pc = "pastDue" /\ work'[d].pc = "invoice"
                  \/ SaveInvoice(d) /\ work[d].pc = "invoice" /\ work'[d].pc = "mark"
                  \/ CallFails(d) /\ work'[d].pc = Catching(d)
<1>t. work \in [Deliveries -> [pc: DeliveryPCs, event: Events, plan: Plans]]
  BY DEF TypeOK
<1>1. ASSUME Rest(d) PROVE work'[d].pc = "idle"
  BY <1>1, <1>t DEF Rest, Idle
<1>2. ASSUME NEW pc, Goto(d, pc) PROVE work'[d].event = work[d].event /\ work'[d].pc = pc
  BY <1>2, <1>t DEF Goto
<1>3. ASSUME NEW pc, NEW p, work' = [work EXCEPT ![d].pc = pc, ![d].plan = p]
      PROVE  work'[d].event = work[d].event /\ work'[d].pc = pc
  BY <1>3, <1>t
<1>4. CASE Check(d) \/ Mark(d) \/ RecordError(d) \/ Crash(d)
  BY <1>1, <1>2, <1>4 DEF Check, Mark, RecordError, Crash, At, Processed
<1>5. CASE Record(d) \/ Deactivate(d) \/ WipeUsage(d) \/ FillUsage(d) \/ Sync(d) \/ CreateFree(d) \/ PastDue(d)
  BY <1>2, <1>5 DEF Record, Deactivate, WipeUsage, FillUsage, Sync, CreateFree, PastDue, At
<1>6. CASE CreateSubscription(d)
  BY <1>2, <1>3, <1>6 DEF CreateSubscription, At
<1>7. CASE Close(d)
  BY <1>2, <1>3, <1>7 DEF Close, At
<1>8. CASE SaveInvoice(d)
  <2>1. Goto(d, "mark") /\ work[d].pc = "invoice"
    BY <1>8 DEF SaveInvoice, At
  <2> QED BY <2>1, <1>2, <1>8
<1>9. CASE CallFails(d)
  <2>1. work[d].pc # "idle" /\ (Rest(d) \/ Goto(d, Catching(d)))
    BY <1>9 DEF CallFails, At
  <2> QED BY <2>1, <1>1, <1>2, <1>9
<1> QED BY <1>4, <1>5, <1>6, <1>7, <1>8, <1>9 DEF DeliveryStep

(* A delivery stands still, begins, or moves. *)
LEMMA OwnStep ==
  ASSUME TypeOK, [Next]_vars, NEW d \in Deliveries
  PROVE  \/ work'[d] = work[d]
         \/ \E e \in Events : Deliver(d, e)
         \/ DeliveryStep(d) \/ CallFails(d) \/ Crash(d)
<1>t. work \in [Deliveries -> [pc: DeliveryPCs, event: Events, plan: Plans]]
  BY DEF TypeOK
<1>1. ASSUME NEW c \in Deliveries, c # d,
             (\E e \in Events : Deliver(c, e)) \/ DeliveryStep(c) \/ CallFails(c) \/ Crash(c)
      PROVE  work'[d] = work[d]
  BY <1>1, <1>t
  DEF Deliver, DeliveryStep, CallFails, Crash, Check, Record, Deactivate, CreateSubscription,
      WipeUsage, FillUsage, Sync, Close, CreateFree, PastDue, SaveInvoice, Mark, RecordError,
      Goto, Rest
<1>2. ASSUME NEW u \in Users, UserStep(u) PROVE work'[d] = work[d]
  BY <1>2 DEF UserStep, WriteCancel, WriteReactivate, ReadToCancel, ReadToReactivate
<1>3. UNCHANGED vars => work'[d] = work[d]
  BY DEF vars
<1> QED BY <1>1, <1>2, <1>3 DEF Next

(* What has been processed stays so. *)
LEMMA ProcessedStays ==
  ASSUME TypeOK, [Next]_vars, NEW e \in Events, Processed(e)
  PROVE  received'[e] = "processed"
<1>t. received \in [Events -> {"new", "recorded", "processed"}] /\ received[e] = "processed"
  BY DEF TypeOK, Processed
<1>1. ASSUME NEW d \in Deliveries, Mark(d) \/ Record(d) PROVE received'[e] = "processed"
  BY <1>1, <1>t DEF Mark, Record
<1>2. CASE UNCHANGED received
  BY <1>2, <1>t
<1> QED
  BY <1>1, <1>2
  DEF Next, DeliveryStep, UserStep, Deliver, Check, Deactivate, CreateSubscription,
      Sync, Close, CreateFree, PastDue, SaveInvoice, RecordError, WipeUsage, FillUsage,
      CallFails, Crash, ReadToCancel, ReadToReactivate, WriteCancel, WriteReactivate, vars

(* What has been received stays so. *)
LEMMA SeenStays ==
  ASSUME TypeOK, [Next]_vars, NEW e \in Events, Seen(e)
  PROVE  received'[e] # "new"
<1>t. received \in [Events -> {"new", "recorded", "processed"}] /\ received[e] # "new"
  BY DEF TypeOK, Seen
<1>1. ASSUME NEW d \in Deliveries, Mark(d) \/ Record(d) PROVE received'[e] # "new"
  BY <1>1, <1>t DEF Mark, Record
<1>2. CASE UNCHANGED received
  BY <1>2, <1>t
<1> QED
  BY <1>1, <1>2
  DEF Next, DeliveryStep, UserStep, Deliver, Check, Deactivate, CreateSubscription,
      Sync, Close, CreateFree, PastDue, SaveInvoice, RecordError, WipeUsage, FillUsage,
      CallFails, Crash, ReadToCancel, ReadToReactivate, WriteCancel, WriteReactivate, vars

(* A delivery that leaves "record" has written its event's row. *)
LEMMA RecordSeen ==
  ASSUME TypeOK, NEW d \in Deliveries, DeliveryStep(d), work[d].pc = "record"
  PROVE  received'[work[d].event] # "new"
<1>1. Record(d)
  BY DEF DeliveryStep, Check, Deactivate, CreateSubscription, WipeUsage, FillUsage, Sync, Close,
         CreateFree, PastDue, SaveInvoice, Mark, RecordError, At
<1> QED BY <1>1, EventTyped DEF Record, TypeOK

LEMMA RouteStep ==
  ASSUME RouteInv, [Next]_vars
  PROVE  RouteInv'
<1>1. TypeOK /\ TypeOK' /\ CheckoutShape /\ CheckoutShape'
  BY TypeStep, ShapeStep DEF RouteInv
<1> DEFINE Early == {"idle", "check", "record"}
           Ok(d) == /\ Routed(work'[d].pc, work'[d].event)
                    /\ work'[d].pc \notin Early => received'[work'[d].event] # "new"
<1>2. ASSUME NEW d \in Deliveries PROVE Ok(d)
  <2>1. /\ Routed(work[d].pc, work[d].event) /\ work[d].event \in Events
        /\ work[d].pc \notin Early => Seen(work[d].event)
    BY <1>1, EventTyped DEF RouteInv, OnRoute
  <2>s. Seen(work[d].event) => received'[work[d].event] # "new"
    BY <2>1, <1>1, SeenStays
  <2>2. CASE work'[d] = work[d]
    BY <2>1, <2>2, <2>s
  <2>3. CASE work'[d].pc = "idle"
    BY <2>3 DEF Routed
  <2>4. ASSUME NEW e \in Events, Deliver(d, e) PROVE Ok(d)
    <3>1. work'[d].pc = "check"
      BY <2>4, <1>1 DEF Deliver, Idle, TypeOK
    <3> QED BY <3>1 DEF Routed
  <2>5. CASE (DeliveryStep(d) \/ CallFails(d) \/ Crash(d)) /\ work'[d].pc # "idle"
    <3>a. work[d].pc # "idle" /\ work'[d].event = work[d].event
      BY <2>5, <1>1, DeliveryMoves
    <3>1. CASE CallFails(d)
      <4>1. work'[d].pc = Catching(d)
        BY <2>5, <3>1, <1>1 DEF CallFails, Rest, Goto, Idle, TypeOK
      <4>2. Catching(d) = "invoice" => work[d].pc = "pastDue"
        BY DEF Catching, At
      <4>3. Catching(d) \in {"idle", "error", "invoice", "mark"}
        BY DEF Catching
      <4>4. work[d].pc \in Early \ {"idle"} => Catching(d) = "idle"
        BY DEF Catching, At
      <4>5. work[d].pc \notin Early
        BY <2>5, <3>a, <4>1, <4>4
      <4> QED BY <3>a, <4>1, <4>2, <4>3, <4>5, <2>1, <2>5, <2>s DEF Routed
    <3>2. CASE DeliveryStep(d) /\ work[d].pc = "record"
      <4>1. received'[work[d].event] # "new"
        BY <1>1, <3>2, RecordSeen
      <4>r. Record(d)
        BY <3>2 DEF DeliveryStep, Check, Deactivate, CreateSubscription, WipeUsage, FillUsage, Sync,
           Close, CreateFree, PastDue, SaveInvoice, Mark, RecordError, At
      <4>2. work'[d].pc = FirstStep(Event(d))
        BY <1>1, <4>r DEF Record, Goto, TypeOK
      <4> QED BY <3>a, <4>1, <4>2 DEF FirstStep, Event, Routed, IsCheckout
    <3>3. CASE Crash(d)
      BY <2>5, <3>3, <1>1 DEF Crash, Rest, Idle, TypeOK
    <3>4. CASE DeliveryStep(d) /\ ~CallFails(d) /\ work[d].pc # "record"
      <4>1. \/ work[d].pc = "check" /\ work'[d].pc = "record"
            \/ work[d].pc = "deactivate" /\ work'[d].pc = "create"
            \/ work[d].pc = "create" /\ work'[d].pc \in {"wipe", "error"}
            \/ work[d].pc = "wipe" /\ work'[d].pc = "fill"
            \/ work[d].pc \in {"fill", "sync", "close", "invoice"} /\ work'[d].pc = "mark"
            \/ work[d].pc = "close" /\ work'[d].pc = "createFree"
            \/ work[d].pc = "createFree" /\ work'[d].pc = "wipe"
            \/ work[d].pc = "pastDue" /\ work'[d].pc = "invoice"
        BY <2>5, <3>4, <1>1, DeliveryMoves
      <4> QED BY <3>a, <4>1, <2>1, <2>s DEF Routed, IsCheckout
    <3> QED BY <3>1, <3>2, <3>3, <3>4, <2>5
  <2> QED BY <2>2, <2>3, <2>4, <2>5, <1>1, OwnStep
<1>3. OnRoute'
  BY <1>2 DEF OnRoute, Routed, IsCheckout, Seen
<1> QED BY <1>1, <1>3 DEF RouteInv

LEMMA RouteInitially == Init => RouteInv
<1> SUFFICES ASSUME Init PROVE RouteInv
  OBVIOUS
<1>1. TypeOK
  BY TypeInit
<1>2. \A d \in Deliveries : work[d].pc = "idle"
  BY DEF Init, Idle
<1> QED BY <1>1, <1>2 DEF CheckoutShape, OnRoute, Routed, RouteInv

LEMMA RouteCorrect == Spec => []RouteInv
BY RouteInitially, RouteStep, PTL DEF Spec

-----------------------------------------------------------------------------
(* Invoices.                                                               *)

IsInvoice(e) == Detail[e].kind \in {"paid", "failed"}
Saved(e) == invoices[Detail[e].invoice] # "none"

(* Once its subscription has a row, a delivery of the event that gets as   *)
(* far as marking it has saved the invoice.                                *)
InvoiceStays(e) ==
  /\ HasRow(Detail[e].sub)
  /\ \A d \in Deliveries : At(d, "mark") /\ work[d].event = e => Saved(e)
  /\ Processed(e) => Saved(e)

LEMMA RowStays ==
  ASSUME TypeOK, CheckoutShape, [Next]_vars, NEW s, HasRow(s)
  PROVE  HasRow(s)'
<1>1. PICK i \in DOMAIN subs : subs[i].stripe = s
  BY DEF HasRow, RowOf
<1>2. i \in DOMAIN subs' /\ subs'[i].stripe = s
  BY <1>1, RowsStep DEF RowsKept
<1> QED BY <1>2 DEF HasRow, RowOf

(* An invoice that has a row keeps it. *)
LEMMA SavedStays ==
  ASSUME TypeOK, [Next]_vars, NEW i \in Invoices, invoices[i] # "none"
  PROVE  invoices'[i] # "none"
<1>t. invoices \in [Invoices -> {"none", "paid", "payment_failed"}]
  BY DEF TypeOK
<1>1. ASSUME NEW d \in Deliveries, SaveInvoice(d) PROVE invoices'[i] # "none"
  BY <1>1, <1>t DEF SaveInvoice
<1>2. CASE UNCHANGED invoices
  BY <1>2
<1> QED
  BY <1>1, <1>2
  DEF Next, DeliveryStep, UserStep, Deliver, Check, Record, Deactivate, CreateSubscription,
      Sync, Close, CreateFree, PastDue, RecordError, Mark, WipeUsage, FillUsage,
      CallFails, Crash, ReadToCancel, ReadToReactivate, WriteCancel, WriteReactivate, vars

LEMMA SavedStep ==
  ASSUME RouteInv, [Next]_vars, NEW e \in Events, IsInvoice(e), InvoiceStays(e),
         NEW d \in Deliveries, work'[d].pc = "mark", work'[d].event = e
  PROVE  invoices'[Detail[e].invoice] # "none"
<1>1. TypeOK /\ Detail[e].invoice \in Invoices
  BY DetailAssumption, DetailTyped DEF RouteInv
<1>2. CASE work'[d] = work[d]
  <2>1. Saved(e)
    BY <1>2 DEF InvoiceStays, At
  <2> QED BY <2>1, <1>1, SavedStays DEF Saved
<1>3. ASSUME NEW f \in Events, Deliver(d, f) PROVE FALSE
  BY <1>1, <1>3 DEF Deliver, Idle, TypeOK
<1>4. CASE SaveInvoice(d)
  <2>1. work[d].event = e
    BY <1>1, <1>4, DeliveryMoves DEF DeliveryStep
  <2> QED BY <2>1, <1>1, <1>4 DEF SaveInvoice, TypeOK, Event, InvoiceStays
<1>5. CASE (DeliveryStep(d) \/ CallFails(d) \/ Crash(d)) /\ ~SaveInvoice(d)
  <2>1. work[d].event = e /\ Event(d).kind \in {"paid", "failed"}
    BY <1>1, <1>5, DeliveryMoves DEF Event, IsInvoice
  <2>2. Routed(work[d].pc, work[d].event)
    BY DEF RouteInv, OnRoute
  <2>3. FirstStep(Event(d)) # "mark" /\ Catching(d) # "mark"
    BY <2>1 DEF FirstStep, Catching
  <2>4. work[d].pc \in {"fill", "sync", "close"}
    BY <1>1, <1>5, <2>3, DeliveryMoves
  <2> QED BY <2>1, <2>2, <2>4 DEF Routed, IsCheckout, Event
<1> QED BY <1>1, <1>2, <1>3, <1>4, <1>5, OwnStep

LEMMA InvoiceStep ==
  ASSUME RouteInv, [Next]_vars, NEW e \in Events, IsInvoice(e), InvoiceStays(e)
  PROVE  InvoiceStays(e)'
<1>1. TypeOK /\ CheckoutShape /\ Detail[e].invoice \in Invoices
  BY DetailAssumption, DetailTyped DEF RouteInv
<1>2. HasRow(Detail[e].sub)'
  BY <1>1, RowStays DEF InvoiceStays
<1>3. \A d \in Deliveries : work'[d].pc = "mark" /\ work'[d].event = e => Saved(e)'
  BY SavedStep DEF Saved
<1>4. received'[e] = "processed" => Saved(e)
  BY <1>1, NewlyProcessed DEF InvoiceStays, Mark
<1>5. Saved(e) => Saved(e)'
  BY <1>1, SavedStays DEF Saved
<1> QED BY <1>2, <1>3, <1>4, <1>5 DEF InvoiceStays, At, Processed

(* Whatever order Stripe's events come in, and however deliveries overlap, *)
(* fail and die, an invoice whose event comes when its subscription has a  *)
(* row is not acknowledged without a row of its own                        *)
(* (webhook.service.ts handleInvoicePaid, handleInvoicePaymentFailed).     *)
THEOREM InvoicesCorrect == Spec => InvoiceKept
<1>1. ASSUME NEW e \in Events, Detail[e].kind \in {"paid", "failed"}
      PROVE  Spec => [](HasRow(Detail[e].sub) /\ ~Seen(e)
                          => [](Processed(e) => invoices[Detail[e].invoice] # "none"))
  <2>1. RouteInv /\ HasRow(Detail[e].sub) /\ ~Seen(e) => InvoiceStays(e)
    BY DEF RouteInv, OnRoute, Routed, InvoiceStays, Seen, Processed, At
  <2>2. RouteInv /\ InvoiceStays(e) /\ [Next]_vars => InvoiceStays(e)'
    BY <1>1, InvoiceStep DEF IsInvoice
  <2>3. InvoiceStays(e) => (Processed(e) => invoices[Detail[e].invoice] # "none")
    BY DEF InvoiceStays, Saved
  <2> QED BY <2>1, <2>2, <2>3, RouteCorrect, PTL DEF Spec
<1> QED BY <1>1 DEF InvoiceKept
-----------------------------------------------------------------------------
(* The subscriptions in force.                                             *)

AtCreate == {d \in Deliveries : At(d, "create")}
BoundedInv == Cardinality(Bought) + Cardinality(AtCreate) <= Cardinality(Deliveries)

LEMMA AtCreateFinite ==
  /\ IsFiniteSet(AtCreate) /\ Cardinality(AtCreate) \in Nat
  /\ Cardinality(AtCreate) <= Cardinality(Deliveries) /\ Cardinality(Deliveries) \in Nat
<1>1. AtCreate \subseteq Deliveries
  BY DEF AtCreate
<1> QED BY <1>1, DeliveriesAssumption, FS_Subset, FS_CardinalityType

LEMMA BoughtFinite ==
  ASSUME TypeOK
  PROVE  IsFiniteSet(Bought) /\ Cardinality(Bought) \in Nat
<1>1. Bought \subseteq 1 .. Len(subs) /\ Len(subs) \in Nat
  BY DEF Bought, TypeOK
<1>2. IsFiniteSet(1 .. Len(subs))
  BY <1>1, FS_Interval
<1> QED BY <1>1, <1>2, FS_Subset, FS_CardinalityType

(* Rows that were not bought, canceled or refreshed are not counted later, *)
(* but for the one that a checkout creates.                                *)
LEMMA BoughtBefore ==
  ASSUME RouteInv, [Next]_vars, NEW i \in Bought', i \in DOMAIN subs
  PROVE  i \in Bought
<1>t. TypeOK /\ CheckoutShape /\ subs[i] \in SubRows /\ subs \in Seq(SubRows)
  BY DEF RouteInv, TypeOK
<1>1. subs'[i].stripe = subs[i].stripe
  BY <1>t, RowsStep DEF RowsKept
<1>2. subs[i].stripe # NoStripe /\ Current(subs'[i])
  BY <1>1 DEF Bought
<1>3. ~Refreshed(subs[i].stripe)
  <2>1. ASSUME NEW e \in Events, Detail[e].kind = "updated", Detail[e].sub = subs[i].stripe, Seen(e)
        PROVE  FALSE
    <3>1. received'[e] # "new"
      BY <2>1, <1>t, SeenStays
    <3>2. ~\E f \in Events : Detail[f].kind = "updated" /\ Detail[f].sub = subs'[i].stripe /\ received'[f] # "new"
      BY DEF Bought, Refreshed, Seen
    <3> QED BY <2>1, <3>1, <3>2, <1>1
  <2> QED BY <2>1 DEF Refreshed
<1>4. Current(subs[i])
  <2>1. ASSUME NEW d \in Deliveries, Sync(d) PROVE Current(subs[i])
    <3>1. Routed("sync", work[d].event) /\ Seen(work[d].event) /\ work[d].event \in Events
      BY <2>1, <1>t, EventTyped DEF RouteInv, OnRoute, Sync, At
    <3>2. Event(d).sub # subs[i].stripe
      BY <3>1, <1>3 DEF Refreshed, Routed, Event
    <3>3. subs'[i] = subs[i]
      BY <2>1, <3>2 DEF Sync, EditRow
    <3> QED BY <3>3, <1>2
  <2>2. ASSUME NEW d \in Deliveries, Close(d) \/ PastDue(d) PROVE Current(subs[i])
    <3>1. PICK st \in {"CANCELED", "PAST_DUE"} :
            subs'[i] = IF subs[i].stripe = Event(d).sub THEN [subs[i] EXCEPT !.status = st] ELSE subs[i]
      BY <2>2 DEF Close, PastDue, EditRow
    <3>2. CASE subs[i].stripe = Event(d).sub
      BY <3>1, <3>2, <1>t, <1>2 DEF Current, SubRows
    <3> QED BY <3>1, <3>2, <1>2
  <2>3. ASSUME NEW d \in Deliveries, Deactivate(d) PROVE Current(subs[i])
    BY <2>3, <1>t, <1>2 DEF Deactivate, Current, SubRows
  <2>4. ASSUME NEW u \in Users, WriteCancel(u) \/ WriteReactivate(u) PROVE Current(subs[i])
    <3>1. user[u].row \in DOMAIN subs
      BY <2>4, <1>t DEF TypeOK, WriteCancel, WriteReactivate
    <3>2. PICK b \in BOOLEAN : subs' = [subs EXCEPT ![user[u].row] = [subs[user[u].row] EXCEPT !.cancels = b]]
      BY <2>4 DEF WriteCancel, WriteReactivate
    <3>3. subs'[i].status = subs[i].status
      BY <3>1, <3>2, <1>t DEF SubRows
    <3> QED BY <3>3, <1>2 DEF Current
  <2>5. ASSUME NEW d \in Deliveries, CreateSubscription(d) \/ CreateFree(d) PROVE Current(subs[i])
    <3>1. UNCHANGED subs \/ \E row : subs' = Append(subs, row)
      BY <2>5 DEF CreateSubscription, CreateFree
    <3>2. subs'[i] = subs[i]
      BY <3>1, <1>t
    <3> QED BY <3>2, <1>2
  <2>6. CASE UNCHANGED subs
    BY <2>6, <1>2
  <2> QED
    BY <2>1, <2>2, <2>3, <2>4, <2>5, <2>6
    DEF Next, DeliveryStep, UserStep, Deliver, Check, Record, WipeUsage, FillUsage, SaveInvoice,
        Mark, RecordError, CallFails, Crash, ReadToCancel, ReadToReactivate, vars
<1> QED BY <1>2, <1>3, <1>4 DEF Bought

(* Who comes to "create" has canceled what there was. *)
LEMMA CreateBefore ==
  ASSUME RouteInv, [Next]_vars, NEW d \in AtCreate', ~Deactivate(d)
  PROVE  d \in AtCreate
<1>t. TypeOK /\ d \in Deliveries /\ work'[d].pc = "create"
  BY DEF RouteInv, AtCreate, At
<1>1. CASE work'[d] = work[d]
  BY <1>1, <1>t DEF AtCreate, At
<1>2. ASSUME NEW e \in Events, Deliver(d, e) PROVE FALSE
  BY <1>2, <1>t DEF Deliver, Idle, TypeOK
<1>3. CASE DeliveryStep(d) \/ CallFails(d) \/ Crash(d)
  <2>1. FirstStep(Event(d)) # "create" /\ Catching(d) # "create"
    BY DEF FirstStep, Catching
  <2>2. work[d].pc = "deactivate"
    BY <1>3, <1>t, <2>1, DeliveryMoves
  <2>3. DeliveryStep(d) => Deactivate(d)
    BY <2>2 DEF DeliveryStep, Check, Record, CreateSubscription, WipeUsage, FillUsage, Sync, Close,
                CreateFree, PastDue, SaveInvoice, Mark, RecordError, At
  <2>4. ~CallFails(d) /\ ~Crash(d)
    BY <1>t, <2>1 DEF CallFails, Crash, Rest, Goto, Idle, TypeOK
  <2> QED BY <1>3, <2>3, <2>4
<1> QED BY <1>1, <1>2, <1>3, <1>t, OwnStep

LEMMA BoundedStep ==
  ASSUME RouteInv, BoundedInv, [Next]_vars
  PROVE  BoundedInv'
<1>t. TypeOK /\ RouteInv' /\ TypeOK' /\ subs \in Seq(SubRows) /\ Len(subs) \in Nat
  BY RouteStep DEF RouteInv, TypeOK
<1>f. /\ IsFiniteSet(AtCreate') /\ Cardinality(AtCreate') \in Nat
      /\ Cardinality(AtCreate') <= Cardinality(Deliveries)
      /\ IsFiniteSet(Bought') /\ Cardinality(Bought') \in Nat
      /\ Cardinality(Bought) \in Nat /\ IsFiniteSet(Bought)
  <2>1. AtCreate' \subseteq Deliveries
    BY DEF AtCreate
  <2>2. Bought' \subseteq 1 .. Len(subs') /\ Len(subs') \in Nat
    BY <1>t DEF Bought, TypeOK
  <2>3. IsFiniteSet(1 .. Len(subs'))
    BY <2>2, FS_Interval
  <2> QED BY <1>t, <2>1, <2>2, <2>3, BoughtFinite, DeliveriesAssumption, FS_Subset, FS_CardinalityType
<1>1. ASSUME NEW d \in Deliveries, Deactivate(d) PROVE BoundedInv'
  <2>1. \A i \in DOMAIN subs' : ~Current(subs'[i])
    <3>1. \A i \in DOMAIN subs : subs[i] \in SubRows
      BY <1>t
    <3> QED BY <1>1, <3>1 DEF Deactivate, Current, SubRows
  <2>2. Bought' = {}
    BY <2>1 DEF Bought
  <2>3. Cardinality(Bought') = 0
    BY <2>2, FS_EmptySet
  <2> QED BY <2>3, <1>f DEF BoundedInv
<1>2. CASE \A d \in Deliveries : ~Deactivate(d)
  <2>1. AtCreate' \subseteq AtCreate
    BY <1>2, CreateBefore DEF AtCreate
  <2>2. ASSUME NEW d \in Deliveries, CreateSubscription(d), ~HasRow(Event(d).sub) PROVE BoundedInv'
    <3>1. /\ subs' = Append(subs, NewRow(Event(d).sub, Event(d).plan))
          /\ work' = [work EXCEPT ![d].pc = "wipe", ![d].plan = Event(d).plan] /\ At(d, "create")
      BY <2>2 DEF CreateSubscription
    <3>2. d \in AtCreate /\ d \notin AtCreate'
      BY <3>1, <1>t DEF AtCreate, At, TypeOK
    <3>3. Cardinality(AtCreate \ {d}) = Cardinality(AtCreate) - 1 /\ IsFiniteSet(AtCreate \ {d})
      BY <3>2, AtCreateFinite, FS_RemoveElement
    <3>4. Cardinality(AtCreate') <= Cardinality(AtCreate) - 1
      <4>1. AtCreate' \subseteq AtCreate \ {d}
        BY <2>1, <3>2
      <4> QED BY <4>1, <3>3, FS_Subset
    <3>5. Bought' \subseteq Bought \cup {Len(subs) + 1}
      <4>1. ASSUME NEW i \in Bought' PROVE i \in DOMAIN subs \/ i = Len(subs) + 1
        BY <3>1, <1>t DEF Bought
      <4> QED BY <4>1, BoughtBefore
    <3>6. /\ Cardinality(Bought \cup {Len(subs) + 1}) <= Cardinality(Bought) + 1
          /\ IsFiniteSet(Bought \cup {Len(subs) + 1}) /\ Cardinality(Bought \cup {Len(subs) + 1}) \in Nat
      <4> DEFINE n == Len(subs) + 1
      <4>1. CASE n \in Bought
        <5>1. Bought \cup {n} = Bought
          BY <4>1
        <5>2. Cardinality(Bought \cup {n}) = Cardinality(Bought) /\ IsFiniteSet(Bought \cup {n})
          BY <5>1, <1>f, Zenon
        <5> QED BY <5>2, <1>f
      <4>2. CASE n \notin Bought
        <5>1. Cardinality(Bought \cup {n}) = Cardinality(Bought) + 1 /\ IsFiniteSet(Bought \cup {n})
          BY <4>2, <1>f, FS_AddElement
        <5> QED BY <5>1, <1>f
      <4> QED BY <4>1, <4>2
    <3>7. Cardinality(Bought') <= Cardinality(Bought) + 1
      <4>1. Cardinality(Bought') <= Cardinality(Bought \cup {Len(subs) + 1})
        BY <3>5, <3>6, FS_Subset
      <4> QED BY <4>1, <3>6, <1>f
    <3> QED BY <3>4, <3>7, <1>f, AtCreateFinite DEF BoundedInv
  <2>3. CASE \A d \in Deliveries : CreateSubscription(d) => HasRow(Event(d).sub)
    <3>1. Bought' \subseteq Bought
      <4>1. ASSUME NEW i \in Bought', i \notin DOMAIN subs PROVE FALSE
        <5>1. ASSUME NEW d \in Deliveries, CreateFree(d) PROVE FALSE
          <6>1. subs' = Append(subs, NewRow(NoStripe, work[d].plan))
            BY <5>1 DEF CreateFree
          <6>2. i = Len(subs) + 1
            BY <6>1, <4>1, <1>t DEF Bought
          <6>3. subs'[i].stripe = NoStripe
            BY <6>1, <6>2, <1>t DEF NewRow
          <6> QED BY <6>3 DEF Bought
        <5>2. CASE DOMAIN subs' = DOMAIN subs
          BY <5>2, <4>1 DEF Bought
        <5> QED
          BY <5>1, <5>2, <2>3
          DEF Next, DeliveryStep, UserStep, Deliver, Check, Record, Deactivate, CreateSubscription,
              WipeUsage, FillUsage, Sync, Close, PastDue, SaveInvoice, EditRow,
              Mark, RecordError, CallFails, Crash, ReadToCancel, ReadToReactivate, WriteCancel,
              WriteReactivate, vars
      <4> QED BY <4>1, BoughtBefore
    <3>2. Cardinality(Bought') <= Cardinality(Bought) /\ Cardinality(AtCreate') <= Cardinality(AtCreate)
      BY <2>1, <3>1, <1>f, AtCreateFinite, FS_Subset
    <3> QED BY <3>2, <1>f, AtCreateFinite DEF BoundedInv
  <2> QED BY <2>2, <2>3
<1> QED BY <1>1, <1>2

LEMMA BoundedCorrect == Spec => [](RouteInv /\ BoundedInv)
<1>1. Init => RouteInv /\ BoundedInv
  <2> SUFFICES ASSUME Init PROVE BoundedInv
    BY RouteInitially
  <2>1. Bought = {} /\ AtCreate = {}
    BY DEF Init, Bought, AtCreate, At, Idle
  <2> QED BY <2>1, FS_EmptySet, AtCreateFinite DEF BoundedInv
<1>2. RouteInv /\ BoundedInv /\ [Next]_vars => (RouteInv /\ BoundedInv)'
  BY RouteStep, BoundedStep
<1> QED BY <1>1, <1>2, PTL DEF Spec

-----------------------------------------------------------------------------
(* The usage limits, when deliveries are handled one at a time.            *)

(* A checkout that was acknowledged for the newest row. *)
Served(e, rows, rec) ==
  IsCheckout(e) /\ rec[e] = "processed" /\ Detail[e].sub = rows[Len(rows)].stripe

(* What the only delivery, whose control state is w, leaves the limits at. *)
Limits(w, rows, limits, rec, f) ==
  /\ w.pc \in {"wipe", "fill"} =>
       /\ rows # << >> /\ \A e \in Events : ~Served(e, rows, rec)
       /\ IsCheckout(w.event) =>
            rows[Len(rows)].stripe = Detail[w.event].sub /\ w.plan = Detail[w.event].plan
       /\ ~IsCheckout(w.event) =>
            rows[Len(rows)].stripe = NoStripe /\ w.plan = rows[Len(rows)].plan
  /\ w.pc = "fill" => limits = << >>
  /\ w.pc = "mark" /\ IsCheckout(w.event) =>
       /\ rows # << >> /\ rows[Len(rows)].stripe = Detail[w.event].sub
       /\ limits = <<Detail[w.event].plan>>
  /\ w.pc \notin {"wipe", "fill"} /\ rows # << >> =>
       /\ \A e \in Events : Served(e, rows, rec) => limits = <<Detail[e].plan>>
       /\ f = 0 /\ rows[Len(rows)].stripe = NoStripe => limits = <<rows[Len(rows)].plan>>
LimitsInv(d) == Limits(work[d], subs, usage, received, faults)

(* Only an event of Stripe changes the plan of a row, and never a FREE one's. *)
LEMMA PlanKept ==
  ASSUME RouteInv, [Next]_vars, NEW i \in DOMAIN subs,
         subs[i].stripe = NoStripe \/ \A d \in Deliveries : ~Sync(d)
  PROVE  subs'[i].plan = subs[i].plan
<1>t. TypeOK /\ subs \in Seq(SubRows) /\ subs[i] \in SubRows
  BY DEF RouteInv, TypeOK
<1>1. ASSUME NEW d \in Deliveries, Sync(d) PROVE subs'[i].plan = subs[i].plan
  <2>1. Event(d).sub # subs[i].stripe
    BY <1>1, <1>t, EventTyped, DetailTyped, SubsAssumption
  <2> QED BY <1>1, <2>1 DEF Sync, EditRow
<1>2. ASSUME NEW d \in Deliveries, Close(d) \/ PastDue(d) PROVE subs'[i].plan = subs[i].plan
  <2>1. PICK st \in {"CANCELED", "PAST_DUE"} :
          subs'[i] = IF subs[i].stripe = Event(d).sub THEN [subs[i] EXCEPT !.status = st] ELSE subs[i]
    BY <1>2 DEF Close, PastDue, EditRow
  <2> QED BY <2>1, <1>t DEF SubRows
<1>3. ASSUME NEW d \in Deliveries, Deactivate(d) PROVE subs'[i].plan = subs[i].plan
  BY <1>3, <1>t DEF Deactivate, SubRows
<1>4. ASSUME NEW u \in Users, WriteCancel(u) \/ WriteReactivate(u) PROVE subs'[i].plan = subs[i].plan
  <2>1. user[u].row \in DOMAIN subs
    BY <1>4, <1>t DEF TypeOK, WriteCancel, WriteReactivate
  <2>2. PICK b \in BOOLEAN : subs' = [subs EXCEPT ![user[u].row] = [subs[user[u].row] EXCEPT !.cancels = b]]
    BY <1>4 DEF WriteCancel, WriteReactivate
  <2> QED BY <2>1, <2>2, <1>t DEF SubRows
<1>5. ASSUME NEW d \in Deliveries, CreateSubscription(d) \/ CreateFree(d)
      PROVE  subs'[i].plan = subs[i].plan
  <2>1. UNCHANGED subs \/ \E row : subs' = Append(subs, row)
    BY <1>5 DEF CreateSubscription, CreateFree
  <2>2. subs'[i] = subs[i]
    BY <2>1, <1>t
  <2> QED BY <2>2
<1>6. UNCHANGED subs => subs'[i].plan = subs[i].plan
  OBVIOUS
<1> QED
  BY <1>1, <1>2, <1>3, <1>4, <1>5, <1>6
  DEF Next, DeliveryStep, UserStep, Deliver, Check, Record, WipeUsage, FillUsage, SaveInvoice,
      Mark, RecordError, CallFails, Crash, ReadToCancel, ReadToReactivate, vars

(* The steps that add no row keep the Stripe ids and their number. *)
LEMMA NoRowAdded ==
  ASSUME TypeOK, CheckoutShape, [Next]_vars,
         \A d \in Deliveries : ~CreateFree(d) /\ (CreateSubscription(d) => HasRow(Event(d).sub))
  PROVE  /\ DOMAIN subs' = DOMAIN subs /\ Len(subs') = Len(subs)
         /\ subs # << >> => Len(subs) \in DOMAIN subs /\ subs' # << >>
                            /\ subs'[Len(subs')].stripe = subs[Len(subs)].stripe
<1>1. DOMAIN subs' = DOMAIN subs
  BY DEF Next, DeliveryStep, UserStep, Deliver, Check, Record, Deactivate, CreateSubscription,
         WipeUsage, FillUsage, Sync, Close, PastDue, SaveInvoice, EditRow, TypeOK,
         Mark, RecordError, CallFails, Crash, ReadToCancel, ReadToReactivate, WriteCancel,
         WriteReactivate, vars
<1>2. subs \in Seq(SubRows) /\ subs' \in Seq(SubRows)
  BY RowsStep DEF RowsKept, TypeOK
<1>3. Len(subs') = Len(subs)
  BY <1>1, <1>2
<1>4. subs # << >> => Len(subs) \in DOMAIN subs
  BY <1>2
<1> QED BY <1>1, <1>2, <1>3, <1>4, RowsStep DEF RowsKept

(* A checkout that is about to create a row has not been acknowledged. *)
LEMMA NoneServed ==
  ASSUME TypeOK, ProcessedCheckoutHasRow, NEW s \in StripeSubs \cup {NoStripe},
         s = NoStripe \/ ~HasRow(s),
         NEW e \in Events, IsCheckout(e), Processed(e)
  PROVE  Detail[e].sub # s
<1>1. Detail[e].sub \in StripeSubs
  BY DetailAssumption, DetailTyped
<1> QED BY <1>1, SubsAssumption DEF ProcessedCheckoutHasRow

(* The steps that touch neither the rows' number, the limits nor what is   *)
(* processed.                                                              *)
LEMMA LimitsQuiet ==
  ASSUME RouteInv, [Next]_vars, NEW d \in Deliveries, Deliveries = {d}, LimitsInv(d),
         ~CreateFree(d), CreateSubscription(d) => HasRow(Event(d).sub),
         ~WipeUsage(d), ~FillUsage(d), ~Mark(d)
  PROVE  LimitsInv(d)'
<1>t. /\ TypeOK /\ CheckoutShape /\ work[d].event \in Events
      /\ Routed(work[d].pc, work[d].event)
  BY EventTyped DEF RouteInv, OnRoute
<1> DEFINE n == Len(subs)
           new == subs'[Len(subs')]
<1>r. /\ Len(subs') = n
      /\ subs # << >> => n \in DOMAIN subs /\ new.stripe = subs[n].stripe
      /\ subs' # << >> => subs # << >>
      /\ subs # << >> => subs' # << >>
  <2>1. DOMAIN subs' = DOMAIN subs /\ subs \in Seq(SubRows)
    BY <1>t, NoRowAdded DEF TypeOK
  <2>2. subs = << >> => subs' = << >>
    <3>1. subs' \in Seq(SubRows)
      BY <1>t, RowsStep DEF RowsKept
    <3> QED BY <2>1, <3>1
  <2> QED BY <2>2, <1>t, NoRowAdded
<1>p. subs # << >> /\ (subs[n].stripe = NoStripe \/ ~Sync(d)) => new.plan = subs[n].plan
  BY <1>r, PlanKept
<1>u. usage' = usage
  BY DEF Next, DeliveryStep, UserStep, Deliver, Check, Record, Deactivate, CreateSubscription,
         Sync, Close, CreateFree, PastDue, SaveInvoice, Mark, RecordError,
         CallFails, Crash, ReadToCancel, ReadToReactivate, WriteCancel, WriteReactivate, vars
<1>f. faults' \in Nat /\ faults \in Nat /\ (faults' = 0 => faults = 0)
      /\ (CallFails(d) \/ Crash(d) => faults' # 0)
  <2>1. faults \in Nat
    BY <1>t, FaultsAssumption DEF TypeOK
  <2>2. CallFails(d) \/ Crash(d) => faults' = faults + 1
    BY DEF CallFails, Crash
  <2>3. CallFails(d) \/ Crash(d) \/ faults' = faults
    BY DEF Next, DeliveryStep, UserStep, Deliver, Check, Record, Deactivate, CreateSubscription,
         WipeUsage, FillUsage, Sync, Close, CreateFree, PastDue, SaveInvoice, Mark, RecordError,
         ReadToCancel, ReadToReactivate, WriteCancel, WriteReactivate, vars
  <2> QED BY <2>1, <2>2, <2>3
<1>e. \A e \in Events : received'[e] = "processed" => Processed(e)
  BY <1>t, NewlyProcessed
<1>s. subs # << >> => \A e \in Events : Served(e, subs', received') => Served(e, subs, received)
  BY <1>e, <1>r DEF Served, Processed
<1>a. subs' # << >> /\ work[d].pc \notin {"wipe", "fill"} =>
        /\ \A e \in Events : Served(e, subs', received') => usage' = <<Detail[e].plan>>
        /\ faults' = 0 /\ new.stripe = NoStripe => usage' = <<new.plan>>
  BY <1>r, <1>p, <1>u, <1>f, <1>s DEF LimitsInv, Limits
<1> HIDE DEF n, new
<1>1. CASE work'[d] = work[d]
  <2>1. ~Sync(d)
    BY <1>1, <1>t DEF Sync, At, Goto, TypeOK
  <2>2. work[d].pc \in {"wipe", "fill"} => /\ new.plan = subs[n].plan
                                           /\ \A e \in Events : ~Served(e, subs', received')
    BY <2>1, <1>p, <1>s DEF LimitsInv, Limits, n
  <2> QED BY <1>1, <2>2, <1>r, <1>u, <1>a DEF LimitsInv, Limits, n, new
<1>2. CASE work'[d].pc \notin {"wipe", "fill"} /\ (work'[d].pc = "mark" => ~IsCheckout(work'[d].event))
           /\ work[d].pc \notin {"wipe", "fill"}
  BY <1>2, <1>a DEF LimitsInv, Limits, new
<1>3. CASE work'[d].pc \notin {"wipe", "fill"} /\ (work'[d].pc = "mark" => ~IsCheckout(work'[d].event))
           /\ work[d].pc \in {"wipe", "fill"} /\ faults' # 0
  <2>1. \A e \in Events : ~Served(e, subs', received')
    BY <1>3, <1>s DEF LimitsInv, Limits
  <2> QED BY <1>3, <2>1 DEF LimitsInv, Limits
<1>4. ASSUME NEW e \in Events, Deliver(d, e) PROVE LimitsInv(d)'
  <2>1. work'[d].pc = "check" /\ work[d].pc = "idle"
    BY <1>4, <1>t DEF Deliver, Idle, At, TypeOK
  <2> QED BY <2>1, <1>2
<1>5. CASE DeliveryStep(d) \/ CallFails(d) \/ Crash(d)
  <2>1. /\ FirstStep(Event(d)) \notin {"wipe", "fill"} /\ Catching(d) \notin {"wipe", "fill"}
        /\ IsCheckout(work[d].event) => FirstStep(Event(d)) # "mark" /\ Catching(d) \in {"idle", "error", "invoice"}
                                        /\ (Catching(d) = "invoice" => work[d].pc = "pastDue")
    BY DEF FirstStep, Catching, IsCheckout, Event, At
  <2>w. CASE ~(CallFails(d) \/ Crash(d)) /\ work[d].pc \in {"wipe", "fill", "createFree"}
    BY <1>5, <2>w DEF DeliveryStep, Check, Record, Deactivate, CreateSubscription, Sync, Close,
                      PastDue, SaveInvoice, Mark, RecordError, At
  <2>c. CASE ~(CallFails(d) \/ Crash(d)) /\ work[d].pc = "create"
    <3>1. CreateSubscription(d) /\ HasRow(Event(d).sub)
      BY <1>5, <2>c DEF DeliveryStep, Check, Record, Deactivate, WipeUsage, FillUsage, Sync, Close,
                        CreateFree, PastDue, SaveInvoice, Mark, RecordError, At
    <3>2. work'[d].pc = "error"
      BY <3>1, <1>t DEF CreateSubscription, Goto, TypeOK
    <3> QED BY <2>c, <3>2, <1>2
  <2>2. CASE work'[d].pc = "idle"
    BY <2>2, <2>w, <1>2, <1>3, <1>5, <1>f
  <2>3. CASE work'[d].pc # "idle" /\ (CallFails(d) \/ Crash(d))
    <3>1. work'[d].pc = Catching(d) /\ work'[d].event = work[d].event
      BY <2>3, <1>t DEF CallFails, Crash, Rest, Goto, Idle, TypeOK
    <3> QED BY <3>1, <2>1, <1>2, <1>3, <1>f, <2>3
  <2>4. CASE work'[d].pc # "idle" /\ ~CallFails(d) /\ ~Crash(d) /\ work[d].pc \notin {"wipe", "fill", "create", "createFree"}
    <3>1. /\ work'[d].event = work[d].event
          /\ \/ work'[d].pc \in {"record", "create", "createFree", "invoice"}
             \/ work'[d].pc = FirstStep(Event(d))
             \/ work'[d].pc = "mark" /\ work[d].pc \in {"sync", "close", "invoice"}
      BY <2>4, <1>5, <1>t, DeliveryMoves
    <3>2. work[d].pc \in {"sync", "close", "invoice"} => ~IsCheckout(work[d].event)
      BY <1>t DEF Routed, IsCheckout
    <3> QED BY <3>1, <3>2, <2>1, <2>4, <1>2
  <2> QED BY <2>w, <2>c, <2>2, <2>3, <2>4
<1> QED BY <1>1, <1>4, <1>5, <1>t, OwnStep

LEMMA LimitsStep ==
  ASSUME RouteInv, ProcessedCheckoutHasRow, [Next]_vars,
         NEW d \in Deliveries, Deliveries = {d}, LimitsInv(d)
  PROVE  LimitsInv(d)'
<1>t. /\ TypeOK /\ CheckoutShape /\ work[d].event \in Events /\ subs \in Seq(SubRows)
      /\ Routed(work[d].pc, work[d].event)
      /\ work[d].plan \in Plans /\ usage \in Seq(Plans)
  BY EventTyped DEF RouteInv, OnRoute, TypeOK
<1>1. ASSUME CreateSubscription(d), ~HasRow(Event(d).sub) PROVE LimitsInv(d)'
  <2>1. IsCheckout(work[d].event) /\ Event(d).sub \in StripeSubs /\ Event(d).plan \in Plans
    BY <1>1, <1>t, EventTyped, DetailTyped DEF CheckoutShape, CreateSubscription, At, IsCheckout, Event
  <2> DEFINE row == NewRow(Event(d).sub, Event(d).plan)
  <2>2. subs' = Append(subs, row) /\ row \in SubRows /\ row.stripe = Event(d).sub
    BY <1>1, <2>1, NewRowTyped DEF CreateSubscription
  <2>3. work'[d].pc = "wipe" /\ work'[d].plan = Event(d).plan /\ work'[d].event = work[d].event
        /\ received' = received
    BY <1>1, <1>t DEF CreateSubscription, TypeOK
  <2>4. \A e \in Events : IsCheckout(e) /\ Processed(e) => Detail[e].sub # Event(d).sub
    BY <1>t, <1>1, <2>1, NoneServed
  <2> HIDE DEF row
  <2>5. subs' # << >> /\ subs'[Len(subs')] = row
    BY <2>2, <1>t
  <2> QED BY <2>1, <2>2, <2>3, <2>4, <2>5 DEF LimitsInv, Limits, Served, Processed, Event
<1>2. ASSUME CreateFree(d) PROVE LimitsInv(d)'
  <2> DEFINE row == NewRow(NoStripe, work[d].plan)
  <2>2. subs' = Append(subs, row) /\ row \in SubRows /\ row.stripe = NoStripe /\ row.plan = work[d].plan
    BY <1>2, <1>t, NewRowTyped DEF CreateFree, NewRow
  <2>3. work'[d].pc = "wipe" /\ work'[d].plan = work[d].plan /\ work'[d].event = work[d].event
        /\ received' = received /\ work[d].pc = "createFree"
    BY <1>2, <1>t DEF CreateFree, Goto, TypeOK, At
  <2>4. \A e \in Events : IsCheckout(e) /\ Processed(e) => Detail[e].sub # NoStripe
    BY <1>t, NoneServed
  <2> HIDE DEF row
  <2>5. subs' # << >> /\ subs'[Len(subs')] = row
    BY <2>2, <1>t
  <2>6. ~IsCheckout(work[d].event)
    BY <1>t, <2>3 DEF Routed, IsCheckout
  <2> QED BY <2>2, <2>3, <2>4, <2>5, <2>6 DEF LimitsInv, Limits, Served, Processed
<1>3. ASSUME WipeUsage(d) PROVE LimitsInv(d)'
  <2>1. /\ work'[d].pc = "fill" /\ work'[d].plan = work[d].plan /\ work'[d].event = work[d].event
        /\ work[d].pc = "wipe" /\ usage' = << >> /\ subs' = subs /\ received' = received
    BY <1>3, <1>t DEF WipeUsage, Goto, TypeOK, At
  <2> QED BY <2>1 DEF LimitsInv, Limits, Served
<1>4. ASSUME FillUsage(d) PROVE LimitsInv(d)'
  <2>1. /\ work'[d].pc = "mark" /\ work'[d].plan = work[d].plan /\ work'[d].event = work[d].event
        /\ work[d].pc = "fill" /\ usage' = Append(usage, work[d].plan)
        /\ subs' = subs /\ received' = received /\ faults' = faults
    BY <1>4, <1>t DEF FillUsage, Goto, TypeOK, At
  <2>2. usage' = <<work[d].plan>>
    <3>1. usage = << >>
      BY <2>1 DEF LimitsInv, Limits
    <3> QED BY <2>1, <3>1, <1>t
  <2>3. subs # << >> /\ \A e \in Events : ~Served(e, subs', received')
    BY <2>1 DEF LimitsInv, Limits
  <2>4. IsCheckout(work[d].event) =>
          subs[Len(subs)].stripe = Detail[work[d].event].sub /\ work[d].plan = Detail[work[d].event].plan
    BY <2>1 DEF LimitsInv, Limits
  <2>5. ~IsCheckout(work[d].event) => work[d].plan = subs[Len(subs)].plan
    BY <2>1 DEF LimitsInv, Limits
  <2>6. IsCheckout(work[d].event) => subs[Len(subs)].stripe # NoStripe
    BY <2>4, <1>t, DetailAssumption, DetailTyped, SubsAssumption
  <2> QED BY <2>1, <2>2, <2>3, <2>4, <2>5, <2>6 DEF LimitsInv, Limits
<1>5. ASSUME Mark(d) PROVE LimitsInv(d)'
  <2>1. /\ work'[d].pc = "idle" /\ work[d].pc = "mark" /\ subs' = subs /\ usage' = usage
        /\ faults' = faults /\ received' = [received EXCEPT ![work[d].event] = "processed"]
    BY <1>5, <1>t DEF Mark, Rest, Idle, TypeOK, At
  <2>2. ASSUME NEW e \in Events, subs # << >>, Served(e, subs', received')
        PROVE  usage' = <<Detail[e].plan>>
    <3>1. CASE e = work[d].event
      BY <2>1, <2>2, <3>1 DEF LimitsInv, Limits, Served
    <3>2. CASE e # work[d].event
      <4>1. Served(e, subs, received)
        BY <2>1, <2>2, <3>2 DEF Served
      <4> QED BY <2>1, <2>2, <4>1 DEF LimitsInv, Limits
    <3> QED BY <3>1, <3>2
  <2> QED BY <2>1, <2>2 DEF LimitsInv, Limits
<1>6. CASE /\ ~CreateFree(d) /\ (CreateSubscription(d) => HasRow(Event(d).sub))
           /\ ~WipeUsage(d) /\ ~FillUsage(d) /\ ~Mark(d)
  BY <1>6, LimitsQuiet
<1> QED BY <1>1, <1>2, <1>3, <1>4, <1>5, <1>6

(* One delivery at a time leaves the limits of the newest subscription. *)
LEMMA LimitsCorrect ==
  ASSUME NEW d \in Deliveries, Deliveries = {d}
  PROVE  Spec => []LimitsOfNewest
<1> DEFINE Inv == RouteInv /\ ProcessedCheckoutHasRow /\ LimitsInv(d)
<1>1. Init => Inv
  <2>1. Init => ProcessedCheckoutHasRow
    BY DEF Init, ProcessedCheckoutHasRow, Processed
  <2>2. Init => LimitsInv(d)
    BY DEF Init, Idle, LimitsInv, Limits
  <2> QED BY <2>1, <2>2, RouteInitially
<1>2. Inv /\ [Next]_vars => Inv'
  BY RouteStep, ProcessedStep, LimitsStep DEF RouteInv
<1>3. Inv => LimitsOfNewest
  BY DEF LimitsInv, Limits, Served, LimitsOfNewest, Quiet, At, Processed
<1> QED BY <1>1, <1>2, <1>3, PTL DEF Spec

(* In whatever order Stripe's events come, upgrades included, and however  *)
(* deliveries overlap, fail and die: the bought subscriptions in force that *)
(* no update has refreshed are no more than the deliveries handled at a    *)
(* time, and with one at a time the usage limits are those of the newest   *)
(* subscription (webhook.service.ts handleCheckoutCompleted,               *)
(* usage.service.ts initializeUsage).                                      *)
THEOREM InForceCorrect == Spec => []OneInForce
<1>1. BoundedInv /\ RouteInv => InForceBounded
  <2> SUFFICES ASSUME BoundedInv, RouteInv PROVE InForceBounded
    OBVIOUS
  <2> QED BY AtCreateFinite, BoughtFinite DEF BoundedInv, InForceBounded, RouteInv
<1>2. CASE Cardinality(Deliveries) = 1
  <2>1. PICK d : Deliveries = {d}
    BY <1>2, DeliveriesAssumption, FS_Singleton
  <2>2. Spec => []LimitsOfNewest
    BY <2>1, LimitsCorrect
  <2>3. InForceBounded /\ LimitsOfNewest => OneInForce
    BY DEF OneInForce
  <2> QED BY <1>1, <2>2, <2>3, BoundedCorrect, PTL
<1>3. CASE Cardinality(Deliveries) # 1
  <2>1. InForceBounded => OneInForce
    BY <1>3 DEF OneInForce
  <2> QED BY <1>1, <2>1, BoundedCorrect, PTL
<1> QED BY <1>2, <1>3

=============================================================================
