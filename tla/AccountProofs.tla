---------------------------- MODULE AccountProofs ----------------------------
(***************************************************************************)
(* What holds of the organization's account for any number of requests,    *)
(* any amounts and any requests that are cut: the types, the ledger, and   *)
(* the customer that Stripe's sessions belong to.                          *)
(***************************************************************************)
EXTENDS Account, TLAPS

LEMMA NoneIsNew == None \notin Requests /\ None # Past /\ Past \notin Requests
BY BoundsAssumption DEF Requests, Past

(* A request that goes on knows its customer. *)
ForKnown == \A r \in Requests : At(r, "save") \/ At(r, "session") => req[r].for # None
TypeInv == TypeOK /\ ForKnown

LEMMA NoRequestTyped == NoRequest \in RequestStates /\ NoRequest.pc = "idle"
BY BoundsAssumption DEF NoRequest, RequestStates, Ops, PCs, CreditOps

(* A field written in a request leaves a request. *)
LEMMA FieldsTyped ==
  ASSUME NEW q \in RequestStates
  PROVE  /\ \A op \in Ops : [q EXCEPT !.op = op] \in RequestStates
         /\ \A pc \in PCs : [q EXCEPT !.pc = pc] \in RequestStates
         /\ \A amount \in 0 .. MaxAmount : [q EXCEPT !.amount = amount] \in RequestStates
         /\ \A saw \in Int : [q EXCEPT !.saw = saw] \in RequestStates
         /\ \A for \in {Past, None} \cup Requests : [q EXCEPT !.for = for] \in RequestStates
         /\ \A met \in BOOLEAN : [q EXCEPT !.met = met] \in RequestStates
         /\ \A by \in {None, "client", "page"} : [q EXCEPT !.by = by] \in RequestStates
BY DEF RequestStates

LEMMA Initially == Init => TypeInv
<1> SUFFICES ASSUME Init PROVE TypeInv
  OBVIOUS
<1>1. NoRequest \in RequestStates /\ NoRequest.pc = "idle"
  BY NoRequestTyped
<1>2. NoSub \in Subs
  BY DEF NoSub, Subs
<1>3. sub \in Subs
  BY <1>2 DEF Init, Subs, InForce
<1>4. ledger \in Ledgers
  <2>1. ASSUME NEW t \in Nat PROVE Ledger(t) \in Ledgers
    BY DEF Ledger, Ledgers
  <2> QED BY <2>1, BoundsAssumption DEF Init
<1>5. page \in PageStates
  BY DEF Init, FreshTab, NoAwaits, PageStates, Tabs
<1>6. fetch \in FetchStates
  BY <1>2 DEF Init, FetchStates
<1> QED BY <1>1, <1>2, <1>3, <1>4, <1>5, <1>6, BoundsAssumption DEF TypeInv, TypeOK, ForKnown, Init, At

-----------------------------------------------------------------------------
(* Steps that rewrite one request.                                         *)

LEMMA OneRequest ==
  ASSUME TypeInv, NEW r \in Requests, NEW v \in RequestStates,
         v.pc \in {"save", "session"} => v.for # None,
         req' = [req EXCEPT ![r] = v]
  PROVE  req' \in [Requests -> RequestStates] /\ ForKnown'
BY DEF TypeInv, TypeOK, ForKnown, At

(* The forms in which the steps write a request. *)
LEMMA Moved ==
  ASSUME NEW q \in RequestStates, NEW pc \in PCs
  PROVE  [q EXCEPT !.pc = pc] \in RequestStates /\ [q EXCEPT !.pc = pc].pc = pc
BY DEF RequestStates

LEMMA MovedSeeing ==
  ASSUME NEW q \in RequestStates, NEW pc \in PCs, NEW saw \in Int
  PROVE  /\ [q EXCEPT !.pc = pc, !.saw = saw] \in RequestStates
         /\ [q EXCEPT !.pc = pc, !.saw = saw].pc = pc
<1> DEFINE a == [q EXCEPT !.pc = pc]
           b == [a EXCEPT !.saw = saw]
<1>1. a \in RequestStates /\ a.pc = pc
  BY Moved
<1>2. b \in RequestStates /\ b.pc = pc
  BY <1>1, FieldsTyped DEF RequestStates
<1> QED BY <1>2

LEMMA MovedFor ==
  ASSUME NEW q \in RequestStates, NEW pc \in PCs, NEW for \in {Past, None} \cup Requests
  PROVE  /\ [q EXCEPT !.pc = pc, !.for = for] \in RequestStates
         /\ [q EXCEPT !.pc = pc, !.for = for].pc = pc
         /\ [q EXCEPT !.pc = pc, !.for = for].for = for
<1> DEFINE a == [q EXCEPT !.pc = pc]
           b == [a EXCEPT !.for = for]
<1>1. a \in RequestStates /\ a.pc = pc
  BY Moved
<1>2. b \in RequestStates /\ b.pc = pc /\ b.for = for
  BY <1>1, FieldsTyped DEF RequestStates
<1> QED BY <1>2

LEMMA MovedBlank ==
  ASSUME NEW q \in RequestStates, NEW pc \in PCs
  PROVE  /\ [q EXCEPT !.pc = pc, !.saw = 0, !.for = None] \in RequestStates
         /\ [q EXCEPT !.pc = pc, !.saw = 0, !.for = None].pc = pc
<1> DEFINE a == [q EXCEPT !.pc = pc]
           b == [a EXCEPT !.saw = 0]
           c == [b EXCEPT !.for = None]
<1>1. a \in RequestStates /\ a.pc = pc
  BY Moved
<1>2. b \in RequestStates /\ b.pc = pc
  <2> HIDE DEF a
  <2> QED BY <1>1 DEF RequestStates
<1>3. c \in RequestStates /\ c.pc = pc
  BY <1>2, FieldsTyped DEF RequestStates
<1> QED BY <1>3

LEMMA OverTyped ==
  ASSUME NEW q \in RequestStates, NEW pc
  PROVE  Over(q, pc) \in RequestStates /\ Over(q, pc).pc \in {"cut", "done"}
<1> DEFINE p == IF pc = "cut" THEN "cut" ELSE "done"
           o == IF q.op = "plan" /\ q.met THEN "plan" ELSE "add"
           m == q.op = "plan" /\ q.met
           a == [NoRequest EXCEPT !.pc = p]
           b == [a EXCEPT !.op = o]
           c == [b EXCEPT !.met = m]
<1>1. p \in PCs /\ o \in Ops /\ m \in BOOLEAN
  BY DEF PCs, Ops, CreditOps, StripeOps
<1>2. a \in RequestStates /\ a.pc = p
  BY <1>1, NoRequestTyped, FieldsTyped DEF RequestStates
<1>3. b \in RequestStates /\ b.pc = p
  BY <1>1, <1>2, FieldsTyped, ZenonT(40) DEF RequestStates
<1>4. ASSUME NEW v \in BOOLEAN
      PROVE  [b EXCEPT !.met = v] \in RequestStates /\ [b EXCEPT !.met = v].pc = p
  <2> HIDE DEF b, p
  <2>1. [b EXCEPT !.met = v] \in RequestStates
    BY <1>3 DEF RequestStates
  <2>2. [b EXCEPT !.met = v].pc = b.pc
    BY <1>3 DEF RequestStates
  <2> QED BY <2>1, <2>2, <1>3
<1>5. c \in RequestStates /\ c.pc = p
  <2>1. CASE q.op = "plan" /\ q.met
    <3>1. m = TRUE
      BY <2>1
    <3>2. [b EXCEPT !.met = TRUE] \in RequestStates /\ [b EXCEPT !.met = TRUE].pc = p
      BY <1>4
    <3> QED BY <3>1, <3>2
  <2>2. CASE ~(q.op = "plan" /\ q.met)
    <3>1. m = FALSE
      BY <2>2
    <3>2. [b EXCEPT !.met = FALSE] \in RequestStates /\ [b EXCEPT !.met = FALSE].pc = p
      BY <1>4
    <3> QED BY <3>1, <3>2
  <2> QED BY <2>1, <2>2
<1> QED BY <1>5 DEF Over

LEMMA EndedTyped ==
  ASSUME TypeInv, NEW r \in Requests, NEW pc \in {"ok", "refused", "cut"}
  PROVE  Ended(r, pc) \in RequestStates /\ Ended(r, pc).pc \in {"ok", "refused", "cut", "done"}
<1>1. req[r] \in RequestStates /\ pc \in PCs
  BY DEF TypeInv, TypeOK, PCs
<1>2. /\ [req[r] EXCEPT !.pc = pc, !.saw = 0, !.for = None] \in RequestStates
      /\ [req[r] EXCEPT !.pc = pc, !.saw = 0, !.for = None].pc = pc
  BY <1>1, MovedBlank
<1>4. Over(req[r], pc) \in RequestStates /\ Over(req[r], pc).pc \in {"cut", "done"}
  BY <1>1, OverTyped
<1> QED BY <1>2, <1>4 DEF Ended

LEMMA Finished ==
  ASSUME TypeInv, NEW r \in Requests, NEW pc \in {"ok", "refused", "cut"}, Finish(r, pc)
  PROVE  req' \in [Requests -> RequestStates] /\ ForKnown'
BY EndedTyped, OneRequest DEF Finish

LEMMA Started ==
  ASSUME TypeInv, NEW r \in Requests, NEW op \in Ops, NEW amount \in 0 .. MaxAmount,
         NEW by \in {"client", "page"}, Start(r, op, amount, by)
  PROVE  req' \in [Requests -> RequestStates] /\ ForKnown'
<1> DEFINE v == [NoRequest EXCEPT !.op = op, !.pc = "find", !.amount = amount, !.by = by]
           a == [NoRequest EXCEPT !.op = op]
           b == [a EXCEPT !.pc = "find"]
           c == [b EXCEPT !.amount = amount]
           d == [c EXCEPT !.by = by]
<1>1. a \in RequestStates
  BY NoRequestTyped, FieldsTyped
<1>2. b \in RequestStates /\ b.pc = "find"
  BY <1>1, FieldsTyped, ZenonT(40) DEF RequestStates, PCs, Busy
<1>3. c \in RequestStates /\ c.pc = "find"
  BY <1>2, FieldsTyped DEF RequestStates
<1>4. d \in RequestStates /\ d.pc = "find"
  BY <1>3, FieldsTyped DEF RequestStates
<1>5. v \in RequestStates /\ v.pc = "find"
  BY <1>4
<1> QED BY <1>5, OneRequest DEF Start

LEMMA LedgerTyped ==
  ASSUME TypeInv, NEW r \in Requests, ReadBalance(r) \/ InsertRow(r)
  PROVE  TypeInv'
<1>1. req[r] \in RequestStates /\ ledger \in Ledgers
  BY DEF TypeInv, TypeOK
<1>2. CASE ReadBalance(r)
  <2>1. CASE Finish(r, "refused")
    BY <2>1, <1>2, Finished DEF TypeInv, TypeOK, ReadBalance, apiVars
  <2>2. CASE req' = [req EXCEPT ![r].pc = "write", ![r].saw = ledger.total]
    <3> DEFINE v == [req[r] EXCEPT !.pc = "write", !.saw = ledger.total]
    <3>1. v \in RequestStates /\ v.pc = "write"
      <4>1. ledger.total \in Int /\ "write" \in PCs
        BY <1>1 DEF Ledgers, PCs, Busy
      <4> QED BY <4>1, <1>1, MovedSeeing
    <3>2. req' = [req EXCEPT ![r] = v]
      BY <2>2 DEF TypeInv, TypeOK
    <3>3. req' \in [Requests -> RequestStates] /\ ForKnown'
      BY <3>1, <3>2, OneRequest
    <3> QED BY <3>3, <1>2 DEF TypeInv, TypeOK, ReadBalance, apiVars
  <2> QED BY <2>1, <2>2, <1>2 DEF ReadBalance
<1>3. CASE InsertRow(r)
  <2>1. req[r].amount \in Nat /\ Signed(r) \in Int
    BY <1>1, BoundsAssumption DEF Signed, RequestStates
  <2>2. ledger' \in Ledgers
    BY <1>1, <1>3, <2>1 DEF InsertRow, Ledgers, RequestStates
  <2>3. ASSUME NEW q \in Requests
        PROVE  req'[q] \in RequestStates /\ (req'[q].pc \in {"save", "session"} => req'[q].for # None)
    <3>1. req[q] \in RequestStates
      BY DEF TypeInv, TypeOK
    <3>2. [req[q] EXCEPT !.met = TRUE] \in RequestStates
      BY <3>1 DEF RequestStates
    <3>3. \/ req'[q] = Ended(r, "ok")
          \/ At(q, "write") /\ req'[q] = [req[q] EXCEPT !.met = TRUE]
          \/ req'[q] = req[q]
      BY <1>3 DEF InsertRow
    <3>4. CASE req'[q] = Ended(r, "ok")
      BY <3>4, EndedTyped
    <3>5. CASE At(q, "write") /\ req'[q] = [req[q] EXCEPT !.met = TRUE]
      BY <3>5, <3>1, <3>2 DEF At, RequestStates
    <3>6. CASE req'[q] = req[q]
      BY <3>6, <3>1 DEF TypeInv, ForKnown, At
    <3> QED BY <3>3, <3>4, <3>5, <3>6
  <2>4. req' = [q \in Requests |-> req'[q]]
    BY <1>3 DEF InsertRow
  <2>5. req' \in [Requests -> RequestStates] /\ ForKnown'
    BY <2>3, <2>4 DEF ForKnown, At
  <2> QED BY <2>2, <2>5, <1>3 DEF InsertRow, TypeInv, TypeOK
<1> QED BY <1>2, <1>3

LEMMA CheckoutTyped ==
  ASSUME TypeInv, NEW r \in Requests,
         FindOrg(r) \/ CreateCustomer(r) \/ SaveCustomer(r) \/ CreateSession(r)
  PROVE  TypeInv'
<1>1. req[r] \in RequestStates /\ {"create", "save", "session"} \subseteq PCs
  BY DEF TypeInv, TypeOK, PCs, Busy, Creating
<1>2. CASE FindOrg(r)
  <2>1. req' \in [Requests -> RequestStates] /\ ForKnown'
    <3>1. CASE Finish(r, "refused")
      BY <3>1, Finished
    <3>2. CASE customer # None /\ req' = [req EXCEPT ![r].pc = "session", ![r].for = customer]
      <4> DEFINE v == [req[r] EXCEPT !.pc = "session", !.for = customer]
      <4>1. v \in RequestStates /\ v.for = customer
        <5>1. "session" \in PCs /\ customer \in {Past, None} \cup Requests
          BY <1>1 DEF TypeInv, TypeOK
        <5> QED BY <5>1, <1>1, MovedFor, ZenonT(40)
      <4>2. req' = [req EXCEPT ![r] = v]
        BY <3>2 DEF TypeInv, TypeOK
      <4> QED BY <4>1, <4>2, <3>2, OneRequest
    <3>3. ASSUME NEW met \in SUBSET Requests,
                 req' = [q \in Requests |->
                    IF q = r THEN [req[q] EXCEPT !.pc = "create", !.met = met # {}]
                    ELSE IF q \in met THEN [req[q] EXCEPT !.met = TRUE] ELSE req[q]]
          PROVE  req' \in [Requests -> RequestStates] /\ ForKnown'
      <4>1. ASSUME NEW q \in Requests
            PROVE  req'[q] \in RequestStates /\ (req'[q].pc \in {"save", "session"} => req'[q].for # None)
        <5>1. req[q] \in RequestStates
          BY DEF TypeInv, TypeOK
        <5>2. CASE q = r
          <6> DEFINE v == [req[q] EXCEPT !.pc = "create"]
          <6>1. v \in RequestStates /\ v.pc = "create"
            BY <1>1, <5>1, Moved
          <6>2. ASSUME NEW m \in BOOLEAN
                PROVE  [v EXCEPT !.met = m] \in RequestStates /\ [v EXCEPT !.met = m].pc = "create"
            <7> HIDE DEF v
            <7>1. [v EXCEPT !.met = m] \in RequestStates
              BY <6>1 DEF RequestStates
            <7>2. [v EXCEPT !.met = m].pc = v.pc
              BY <6>1 DEF RequestStates
            <7> QED BY <7>1, <7>2, <6>1
          <6>3. CASE met = {}
            <7>1. (met # {}) = FALSE
              BY <6>3
            <7>2. [v EXCEPT !.met = FALSE] \in RequestStates /\ [v EXCEPT !.met = FALSE].pc = "create"
              BY <6>2
            <7>3. req'[q] = [v EXCEPT !.met = FALSE]
              BY <7>1, <5>2, <3>3
            <7> QED BY <7>2, <7>3
          <6>4. CASE met # {}
            <7>1. (met # {}) = TRUE
              BY <6>4
            <7>2. [v EXCEPT !.met = TRUE] \in RequestStates /\ [v EXCEPT !.met = TRUE].pc = "create"
              BY <6>2
            <7>3. req'[q] = [v EXCEPT !.met = TRUE]
              BY <7>1, <5>2, <3>3
            <7> QED BY <7>2, <7>3
          <6> QED BY <6>3, <6>4
        <5>3. CASE q # r
          <6>1. [req[q] EXCEPT !.met = TRUE] \in RequestStates
            BY <5>1 DEF RequestStates
          <6>2. [req[q] EXCEPT !.met = TRUE].pc = req[q].pc /\ [req[q] EXCEPT !.met = TRUE].for = req[q].for
            BY <5>1 DEF RequestStates
          <6>3. req'[q] = [req[q] EXCEPT !.met = TRUE] \/ req'[q] = req[q]
            BY <5>3, <3>3
          <6> QED BY <5>1, <6>1, <6>2, <6>3 DEF TypeInv, ForKnown, At
        <5> QED BY <5>2, <5>3
      <4>2. req' = [q \in Requests |-> req'[q]]
        BY <3>3
      <4> QED BY <4>1, <4>2 DEF ForKnown, At
    <3> QED BY <3>1, <3>2, <3>3, <1>2 DEF FindOrg
  <2> QED BY <2>1, <1>2 DEF FindOrg, TypeInv, TypeOK, apiVars
<1>3. CASE CreateCustomer(r)
  <2> DEFINE v == [req[r] EXCEPT !.pc = "save", !.for = r]
  <2>1. v \in RequestStates /\ v.for = r
    BY <1>1, MovedFor, ZenonT(40)
  <2>2. req' = [req EXCEPT ![r] = v]
    BY <1>3 DEF TypeInv, TypeOK, CreateCustomer
  <2>3. req' \in [Requests -> RequestStates] /\ ForKnown'
    BY <2>1, <2>2, NoneIsNew, OneRequest
  <2> QED BY <2>3, <1>3 DEF CreateCustomer, TypeInv, TypeOK, apiVars
<1>4. CASE SaveCustomer(r)
  <2> DEFINE v == [req[r] EXCEPT !.pc = "session"]
  <2>1. req[r].for # None /\ req[r].for \in {Past, None} \cup Requests
    BY <1>4, <1>1 DEF SaveCustomer, TypeInv, ForKnown, RequestStates
  <2>2. v \in RequestStates /\ v.for = req[r].for
    BY <1>1 DEF RequestStates
  <2>3. req' = [req EXCEPT ![r] = v]
    BY <1>4 DEF TypeInv, TypeOK, SaveCustomer, Goto
  <2>4. req' \in [Requests -> RequestStates] /\ ForKnown'
    BY <2>1, <2>2, <2>3, OneRequest
  <2> QED BY <2>1, <2>4, <1>4 DEF SaveCustomer, TypeInv, TypeOK
<1>5. CASE CreateSession(r)
  <2>1. req[r].for \in {Past} \cup Requests /\ req[r].op \in {"plan", "addon"}
    BY <1>5, <1>1 DEF CreateSession, TypeInv, ForKnown, RequestStates, Is, StripeOps
  <2>2. [customer |-> req[r].for, kind |-> req[r].op, paid |-> FALSE] \in Sessions
    BY <2>1 DEF Sessions
  <2>3. session' \in [Requests -> {None} \cup Sessions]
    BY <2>2, <1>5 DEF CreateSession, TypeInv, TypeOK
  <2>4. req' \in [Requests -> RequestStates] /\ ForKnown'
    BY <1>5, Finished DEF CreateSession
  <2> QED BY <2>3, <2>4, <1>5 DEF CreateSession, TypeInv, TypeOK
<1> QED BY <1>2, <1>3, <1>4, <1>5

LEMMA SubscriptionTyped ==
  ASSUME TypeInv, NEW r \in Requests, FindSub(r) \/ WriteSub(r) \/ Pay(r)
  PROVE  TypeInv'
<1>1. req[r] \in RequestStates /\ sub \in Subs /\ fetch \in FetchStates
  BY DEF TypeInv, TypeOK
<1>2. News => fetch' \in FetchStates
  BY <1>1 DEF News, FetchStates
<1>3. CASE FindSub(r)
  <2>1. CASE Finish(r, "refused")
    BY <2>1, <1>3, Finished DEF FindSub, TypeInv, TypeOK, apiVars
  <2>2. CASE req' = [req EXCEPT ![r].pc = "write", ![r].saw = sub.id]
    <3> DEFINE v == [req[r] EXCEPT !.pc = "write", !.saw = sub.id]
    <3>1. sub.id \in Int /\ "write" \in PCs
      BY <1>1 DEF Subs, Past, Requests, PCs, Busy
    <3>2. v \in RequestStates /\ v.pc = "write"
      BY <3>1, <1>1, MovedSeeing
    <3>3. req' = [req EXCEPT ![r] = v]
      BY <2>2 DEF TypeInv, TypeOK
    <3>4. req' \in [Requests -> RequestStates] /\ ForKnown'
      BY <3>2, <3>3, OneRequest
    <3> QED BY <3>4, <1>3 DEF FindSub, TypeInv, TypeOK, apiVars
  <2> QED BY <2>1, <2>2, <1>3 DEF FindSub
<1>4. CASE WriteSub(r)
  <2>1. sub' \in Subs
    BY <1>1, <1>4 DEF WriteSub, Subs
  <2>2. req' \in [Requests -> RequestStates] /\ ForKnown'
    BY <1>4, Finished DEF WriteSub
  <2>3. fetch' \in FetchStates
    BY <1>1, <1>2, <1>4 DEF WriteSub
  <2> QED BY <2>1, <2>2, <2>3, <1>4 DEF WriteSub, TypeInv, TypeOK
<1>5. CASE Pay(r)
  <2>1. session[r] \in Sessions
    BY <1>5 DEF Pay, TypeInv, TypeOK
  <2>2. [session[r] EXCEPT !.paid = TRUE] \in Sessions
    BY <2>1 DEF Sessions
  <2>3. session' \in [Requests -> {None} \cup Sessions]
    BY <2>2, <1>5 DEF Pay, TypeInv, TypeOK
  <2>4. sub' \in Subs
    BY <1>5 DEF Pay, Subs
  <2> QED BY <2>3, <2>4, <1>2, <1>5 DEF Pay, TypeInv, TypeOK, ForKnown, At
<1> QED BY <1>3, <1>4, <1>5

LEMMA StripeTyped ==
  ASSUME TypeInv, StripeUpdates
  PROVE  TypeInv'
<1>1. sub' \in Subs
  BY DEF StripeUpdates, TypeInv, TypeOK, Subs
<1>2. fetch' \in FetchStates
  BY DEF StripeUpdates, News, TypeInv, TypeOK, FetchStates
<1>3. updates' \in 0 .. MaxUpdates
  BY BoundsAssumption DEF StripeUpdates, TypeInv, TypeOK
<1> QED BY <1>1, <1>2, <1>3 DEF StripeUpdates, TypeInv, TypeOK, ForKnown, At

LEMMA ClientTyped ==
  ASSUME TypeInv, NEW r \in Requests, CallApi(r) \/ CutRequest(r)
  PROVE  TypeInv'
<1>1. CASE CallApi(r)
  <2>1. PICK op \in ClientOps, amount \in 0 .. MaxAmount : Start(r, op, amount, "client")
    BY <1>1 DEF CallApi
  <2>2. req' \in [Requests -> RequestStates] /\ ForKnown'
    BY <2>1, Started, OpsAssumption
  <2> QED BY <2>2, <1>1 DEF CallApi, TypeInv, TypeOK, apiVars
<1>2. CASE CutRequest(r)
  <2>1. req' \in [Requests -> RequestStates] /\ ForKnown'
    BY <1>2, Finished DEF CutRequest
  <2> QED BY <2>1, <1>2 DEF CutRequest, TypeInv, TypeOK, apiVars
<1> QED BY <1>1, <1>2

-----------------------------------------------------------------------------
(* The page.                                                               *)

LEMMA ClickTyped ==
  ASSUME TypeInv, NEW r \in Requests, SubscriptionTab(r) \/ PlansTab(r)
  PROVE  TypeInv'
<1>1. PICK op \in StripeOps \cup SubOps : Click(r, op)
  BY DEF SubscriptionTab, PlansTab, ReactivateSubscription, ConfirmCancel, StripeOps, SubOps
<1>2. op \in Ops /\ 0 \in 0 .. MaxAmount
  BY BoundsAssumption DEF Ops
<1>3. req' \in [Requests -> RequestStates] /\ ForKnown'
  BY <1>1, <1>2, Started DEF Click
<1>4. page' \in PageStates
  BY <1>1 DEF Click, TypeInv, TypeOK, PageStates
<1> QED BY <1>1, <1>3, <1>4 DEF Click, TypeInv, TypeOK, apiVars

LEMMA AnswerTyped ==
  ASSUME TypeInv, NEW r \in Requests, Answer(r)
  PROVE  TypeInv'
<1>1. req[r] \in RequestStates /\ page \in PageStates /\ fetch \in FetchStates
  BY DEF TypeInv, TypeOK
<1>2. req' \in [Requests -> RequestStates] /\ ForKnown'
  <2> DEFINE v == Over(req[r], req[r].pc)
  <2>1. v \in RequestStates /\ v.pc \in {"cut", "done"}
    BY <1>1, OverTyped
  <2>2. req' = [req EXCEPT ![r] = v]
    BY DEF Answer
  <2> QED BY <2>1, <2>2, OneRequest
<1>3. page' \in PageStates
  <2> DEFINE w == [op \in DOMAIN page.awaits |-> IF page.awaits[op] = r THEN None ELSE page.awaits[op]]
             c == page.confirm /\ ~(Is(r, {"cancel"}) /\ At(r, "ok") /\ page.awaits["cancel"] = r)
             p == [page EXCEPT !.awaits = w]
  <2>1. w \in [StripeOps \cup SubOps -> Requests \cup {None}]
    BY <1>1 DEF PageStates
  <2>2. p \in PageStates
    <3> HIDE DEF w
    <3> QED BY <1>1, <2>1 DEF PageStates
  <2>3. [p EXCEPT !.confirm = TRUE] \in PageStates /\ [p EXCEPT !.confirm = FALSE] \in PageStates
    <3> HIDE DEF p
    <3> QED BY <2>2 DEF PageStates
  <2>4. page' = [p EXCEPT !.confirm = c]
    BY DEF Answer
  <2>5. c \in BOOLEAN
    OBVIOUS
  <2>6. CASE c
    <3>1. c = TRUE
      BY <2>6
    <3> QED BY <3>1, <2>3, <2>4
  <2>7. CASE ~c
    <3>1. c = FALSE
      BY <2>7
    <3> QED BY <3>1, <2>3, <2>4
  <2> QED BY <2>6, <2>7
<1>4. fetch' \in FetchStates
  <2>1. NoSub \in Subs
    BY DEF NoSub, Subs
  <2>2. Invalidate => fetch' \in FetchStates
    BY <1>1, <2>1 DEF Invalidate, FetchStates
  <2> QED BY <1>1, <2>2 DEF Answer
<1> QED BY <1>2, <1>3, <1>4 DEF Answer, TypeInv, TypeOK, apiVars

LEMMA PageTyped ==
  ASSUME TypeInv,
         AskCancel \/ KeepSubscription \/ ReadSub \/ ShowSub \/ LoseFetch \/ \E tab \in Tabs : SwitchTab(tab)
  PROVE  TypeInv'
<1>1. page \in PageStates /\ fetch \in FetchStates /\ sub \in Subs /\ cached \in Subs
  BY DEF TypeInv, TypeOK
<1>2. NoSub \in Subs
  BY DEF NoSub, Subs
<1>3. CASE AskCancel \/ KeepSubscription
  <2>1. page' \in PageStates
    BY <1>1, <1>3 DEF AskCancel, KeepSubscription, PageStates
  <2> QED BY <2>1, <1>3 DEF AskCancel, KeepSubscription, TypeInv, TypeOK, ForKnown, At, apiVars
<1>4. CASE ReadSub \/ ShowSub \/ LoseFetch
  <2>1. fetch' \in FetchStates
    BY <1>1, <1>2, <1>4 DEF ReadSub, ShowSub, LoseFetch, FetchStates
  <2>2. cached' \in Subs
    BY <1>1, <1>4 DEF ReadSub, ShowSub, LoseFetch, FetchStates
  <2> QED BY <2>1, <2>2, <1>4 DEF ReadSub, ShowSub, LoseFetch, TypeInv, TypeOK, ForKnown, At, apiVars
<1>5. ASSUME NEW tab \in Tabs, SwitchTab(tab) PROVE TypeInv'
  <2>1. page' \in PageStates
    BY <1>5 DEF SwitchTab, FreshTab, NoAwaits, PageStates
  <2>2. fetch' \in FetchStates
    BY <1>1, <1>5 DEF SwitchTab, FetchStates
  <2> QED BY <2>1, <2>2, <1>5 DEF SwitchTab, TypeInv, TypeOK, ForKnown, At, apiVars
<1> QED BY <1>3, <1>4, <1>5

LEMMA TypeStep == TypeInv /\ [Next]_vars => TypeInv'
<1> SUFFICES ASSUME TypeInv, [Next]_vars PROVE TypeInv'
  OBVIOUS
<1>1. CASE UNCHANGED vars
  BY <1>1 DEF vars, apiVars, TypeInv, TypeOK, ForKnown, At
<1>2. ASSUME NEW r \in Requests, CallApi(r) \/ CutRequest(r) PROVE TypeInv'
  BY <1>2, ClientTyped
<1>3. ASSUME NEW r \in Requests, RequestStep(r) \/ Pay(r) PROVE TypeInv'
  BY <1>3, LedgerTyped, CheckoutTyped, SubscriptionTyped DEF RequestStep
<1>4. ASSUME NEW r \in Requests, SubscriptionTab(r) \/ PlansTab(r) \/ Answer(r) PROVE TypeInv'
  BY <1>4, ClickTyped, AnswerTyped
<1> QED BY <1>1, <1>2, <1>3, <1>4, StripeTyped, PageTyped DEF Next

(* Every reachable state is well typed, whatever the bounds and the cuts.  *)
THEOREM TypeCorrect == Spec => []TypeOK
<1>1. TypeInv => TypeOK
  BY DEF TypeInv
<1> QED BY <1>1, Initially, TypeStep, PTL DEF Spec

-----------------------------------------------------------------------------
(* The ledger and the customer.                                            *)

Inserting(r) == At(r, "write") /\ Is(r, CreditOps)
Overlapped(r) == Is(r, {"plan"}) /\ req[r].met

(* A transaction that nobody met has read the balance there is, and a      *)
(* deduction goes on only with a balance that was enough when it was read. *)
LedgerInv ==
  /\ ledger.total + ledger.overdrawn >= 0
  /\ ledger.sure => ledger.after = ledger.total
  /\ \A r \in Requests : Inserting(r) =>
       /\ ~req[r].met => req[r].saw = ledger.total
       /\ Is(r, {"deduct"}) => req[r].saw >= req[r].amount

(* Only plans create a customer, and a request has no past.                *)
OpsFit == \A r \in Requests : /\ At(r, "idle") => ~Is(r, {"plan"})
                              /\ At(r, "find") => ~req[r].met
                              /\ req[r].pc \in Creating => Is(r, {"plan"})

(* Without overlap, one request at most creates a customer, and only while *)
(* there is none; every session and whoever is about to open one use the   *)
(* customer there is.                                                      *)
CustomerInv ==
  (\A q \in Requests : ~Overlapped(q)) =>
    /\ \A q, r \in Requests : req[q].pc \in Creating /\ req[r].pc \in Creating => q = r
    /\ \A r \in Requests : req[r].pc \in Creating => customer = None
    /\ customer = None => \A r \in Requests : session[r] = None /\ ~At(r, "session")
    /\ \A r \in Requests : session[r] # None => session[r].customer = customer
    /\ \A r \in Requests : At(r, "session") => req[r].for = customer

AccountInv == TypeInv /\ LedgerInv /\ OpsFit /\ CustomerInv

LEMMA AccountInitially == Init => AccountInv
<1> SUFFICES ASSUME Init PROVE AccountInv
  OBVIOUS
<1>1. \A r \in Requests : req[r].pc = "idle" /\ req[r].op = "add" /\ session[r] = None
  BY DEF Init, NoRequest
<1>2. LedgerInv
  <2>1. ASSUME NEW t \in Nat, ledger = Ledger(t)
        PROVE  ledger.total + ledger.overdrawn >= 0 /\ ledger.after = ledger.total
    BY <2>1 DEF Ledger
  <2>2. ledger.total + ledger.overdrawn >= 0 /\ ledger.after = ledger.total
    BY <2>1, BoundsAssumption DEF Init
  <2> QED BY <1>1, <2>2 DEF LedgerInv, Inserting, At
<1>3. OpsFit /\ CustomerInv
  BY <1>1 DEF OpsFit, CustomerInv, At, Is, Creating
<1> QED BY <1>2, <1>3, Initially DEF AccountInv

(* A step of request r after which it is not about to write the ledger or  *)
(* the customer, which forgets no overlap and touches no other request.    *)
Quietly(r) ==
  /\ \A q \in Requests \ {r} : req'[q] = req[q]
  /\ req'[r].pc \notin {"idle", "create", "save", "session"}
  /\ ~(req'[r].pc = "write" /\ req'[r].op \in CreditOps)
  /\ req'[r].pc = "find" => ~req'[r].met
  /\ req[r].op = "plan" /\ req[r].met => req'[r].op = "plan" /\ req'[r].met

LEMMA OverKeeps ==
  ASSUME NEW q \in RequestStates, NEW pc, q.op = "plan", q.met
  PROVE  Over(q, pc).op = "plan" /\ Over(q, pc).met
BY DEF Over, NoRequest

LEMMA FinishQuietly ==
  ASSUME TypeInv, NEW r \in Requests, NEW pc \in {"ok", "refused", "cut"}, Finish(r, pc)
  PROVE  Quietly(r)
<1>1. req[r] \in RequestStates /\ req \in [Requests -> RequestStates]
  BY DEF TypeInv, TypeOK
<1>2. req'[r] = Ended(r, pc) /\ \A q \in Requests \ {r} : req'[q] = req[q]
  BY <1>1 DEF Finish
<1>3. req'[r].pc \in {"ok", "refused", "cut", "done"}
  BY <1>2, EndedTyped
<1>4. ASSUME req[r].op = "plan", req[r].met PROVE req'[r].op = "plan" /\ req'[r].met
  <2>1. CASE Ended(r, pc) = Over(req[r], pc)
    BY <2>1, <1>1, <1>2, <1>4, OverKeeps
  <2>2. CASE Ended(r, pc) = [req[r] EXCEPT !.pc = pc, !.saw = 0, !.for = None]
    <3>1. Ended(r, pc).op = req[r].op
      BY <2>2, <1>1 DEF RequestStates
    <3>2. Ended(r, pc).met = req[r].met
      BY <2>2, <1>1 DEF RequestStates
    <3> QED BY <3>1, <3>2, <1>2, <1>4
  <2> QED BY <2>1, <2>2 DEF Ended
<1> QED BY <1>2, <1>3, <1>4 DEF Quietly

LEMMA StartQuietly ==
  ASSUME TypeInv, OpsFit, NEW r \in Requests, NEW op, NEW amount, NEW by, Start(r, op, amount, by)
  PROVE  Quietly(r)
<1>1. req \in [Requests -> RequestStates]
  BY DEF TypeInv, TypeOK
<1>2. req'[r].pc = "find" /\ ~req'[r].met /\ \A q \in Requests \ {r} : req'[q] = req[q]
  BY <1>1 DEF Start, NoRequest
<1>3. req[r].op # "plan"
  <2>1. At(r, "idle")
    BY DEF Start
  <2> QED BY <2>1 DEF OpsFit, Is
<1> QED BY <1>2, <1>3 DEF Quietly

LEMMA LedgerKept ==
  ASSUME LedgerInv, ledger' = ledger,
         \A q \in Requests : req'[q].pc = "write" /\ req'[q].op \in CreditOps => req'[q] = req[q]
  PROVE  LedgerInv'
BY DEF LedgerInv, Inserting, At, Is

LEMMA CustomerStays ==
  ASSUME OpsFit, CustomerInv, customer' = customer,
         \A q \in Requests : \/ session'[q] = session[q]
                             \/ /\ session'[q] # None /\ session[q] # None
                                /\ session'[q].customer = session[q].customer,
         \A q \in Requests : req'[q].pc \in {"idle", "create", "save", "session"} => req'[q] = req[q],
         \A q \in Requests : req'[q].pc = "find" => req'[q] = req[q] \/ ~req'[q].met,
         \A q \in Requests : req[q].op = "plan" /\ req[q].met => req'[q].op = "plan" /\ req'[q].met
  PROVE  OpsFit' /\ CustomerInv'
<1>1. OpsFit'
  BY DEF OpsFit, At, Is, Creating
<1>2. ASSUME \A q \in Requests : ~Overlapped(q)' PROVE \A q \in Requests : ~Overlapped(q)
  BY <1>2 DEF Overlapped, Is
<1>3. SUFFICES ASSUME \A q \in Requests : ~Overlapped(q)' PROVE CustomerInv'
  BY <1>1 DEF CustomerInv
<1>4. \A q \in Requests : ~Overlapped(q)
  BY <1>2, <1>3
<1>5. \A q \in Requests : req'[q].pc \in Creating \cup {"session"} => req'[q] = req[q]
  BY DEF Creating
<1>6. \A q, r \in Requests : req'[q].pc \in Creating /\ req'[r].pc \in Creating => q = r
  BY <1>4, <1>5 DEF CustomerInv
<1>7. \A r \in Requests : req'[r].pc \in Creating => customer' = None
  BY <1>4, <1>5 DEF CustomerInv
<1>8. customer' = None => \A r \in Requests : session'[r] = None /\ ~At(r, "session")'
  BY <1>4, <1>5 DEF CustomerInv, At
<1>9. \A r \in Requests : session'[r] # None => session'[r].customer = customer'
  BY <1>4 DEF CustomerInv
<1>10. \A r \in Requests : At(r, "session")' => req'[r].for = customer'
  BY <1>4, <1>5 DEF CustomerInv, At
<1> QED BY <1>6, <1>7, <1>8, <1>9, <1>10 DEF CustomerInv, Creating

(* What most steps of a request do.                                        *)
LEMMA QuietStep ==
  ASSUME AccountInv, NEW r \in Requests, Quietly(r), ledger' = ledger, customer' = customer, session' = session
  PROVE  LedgerInv' /\ OpsFit' /\ CustomerInv'
<1>1. LedgerInv'
  BY LedgerKept DEF Quietly, AccountInv
<1>2. \A q \in Requests : req'[q].pc \in {"idle", "create", "save", "session"} => req'[q] = req[q]
  BY DEF Quietly
<1>3. \A q \in Requests : req[q].op = "plan" /\ req[q].met => req'[q].op = "plan" /\ req'[q].met
  BY DEF Quietly
<1>4. \A q \in Requests : req'[q].pc = "find" => req'[q] = req[q] \/ ~req'[q].met
  BY DEF Quietly
<1> QED BY <1>1, <1>2, <1>3, <1>4, CustomerStays DEF AccountInv

LEMMA ClientKeeps ==
  ASSUME AccountInv, NEW r \in Requests,
         CallApi(r) \/ CutRequest(r) \/ SubscriptionTab(r) \/ PlansTab(r) \/ Answer(r)
  PROVE  LedgerInv' /\ OpsFit' /\ CustomerInv'
<1>1. TypeInv /\ OpsFit /\ req[r] \in RequestStates /\ req \in [Requests -> RequestStates]
  BY DEF AccountInv, TypeInv, TypeOK
<1>2. ledger' = ledger /\ customer' = customer /\ session' = session
  BY DEF CallApi, CutRequest, SubscriptionTab, PlansTab, ReactivateSubscription, ConfirmCancel, Click, Answer, apiVars
<1>3. CASE CallApi(r)
  <2>1. PICK op \in ClientOps, amount \in 0 .. MaxAmount : Start(r, op, amount, "client")
    BY <1>3 DEF CallApi
  <2> QED BY <2>1, <1>1, <1>2, StartQuietly, QuietStep
<1>4. CASE CutRequest(r)
  BY <1>4, <1>1, <1>2, FinishQuietly, QuietStep DEF CutRequest
<1>5. CASE SubscriptionTab(r) \/ PlansTab(r)
  <2>1. PICK op \in StripeOps \cup SubOps : Click(r, op)
    BY <1>5 DEF SubscriptionTab, PlansTab, ReactivateSubscription, ConfirmCancel, StripeOps, SubOps
  <2>2. Start(r, op, 0, "page")
    BY <2>1 DEF Click
  <2> QED BY <2>2, <1>1, <1>2, StartQuietly, QuietStep
<1>6. CASE Answer(r)
  <2>1. req'[r] = Over(req[r], req[r].pc) /\ \A q \in Requests \ {r} : req'[q] = req[q]
    BY <1>6, <1>1 DEF Answer
  <2>2. req'[r].pc \in {"cut", "done"}
    BY <2>1, <1>1, OverTyped
  <2>3. req[r].op = "plan" /\ req[r].met => req'[r].op = "plan" /\ req'[r].met
    BY <2>1, <1>1, OverKeeps
  <2>4. Quietly(r)
    BY <2>1, <2>2, <2>3 DEF Quietly
  <2> QED BY <2>4, <1>2, QuietStep
<1> QED BY <1>3, <1>4, <1>5, <1>6

LEMMA SubscriptionKeeps ==
  ASSUME AccountInv, NEW r \in Requests, FindSub(r) \/ WriteSub(r)
  PROVE  LedgerInv' /\ OpsFit' /\ CustomerInv'
<1>1. TypeInv /\ req[r] \in RequestStates /\ req \in [Requests -> RequestStates]
  BY DEF AccountInv, TypeInv, TypeOK
<1>2. ledger' = ledger /\ customer' = customer /\ session' = session
  BY DEF FindSub, WriteSub, apiVars
<1>3. CASE Finish(r, "refused") \/ Finish(r, "ok")
  BY <1>3, <1>1, <1>2, FinishQuietly, QuietStep
<1>4. CASE FindSub(r) /\ req' = [req EXCEPT ![r].pc = "write", ![r].saw = sub.id]
  <2> DEFINE v == [req[r] EXCEPT !.pc = "write", !.saw = sub.id]
  <2>1. req' = [req EXCEPT ![r] = v]
    BY <1>4, <1>1
  <2>2. req'[r] = v /\ \A q \in Requests \ {r} : req'[q] = req[q]
    BY <2>1, <1>1
  <2>3. v.pc = "write" /\ v.op = req[r].op
    BY <1>1 DEF RequestStates
  <2>4. req[r].op \in SubOps
    BY <1>4 DEF FindSub, Is
  <2>5. req[r].op # "plan" /\ req[r].op \notin CreditOps
    BY <2>4 DEF SubOps, CreditOps
  <2>6. Quietly(r)
    BY <2>2, <2>3, <2>5 DEF Quietly
  <2> QED BY <2>6, <1>2, QuietStep
<1> QED BY <1>3, <1>4 DEF FindSub, WriteSub

(* Somebody pays: only the session says so. *)
LEMMA PayKeeps ==
  ASSUME AccountInv, NEW r \in Requests, Pay(r)
  PROVE  LedgerInv' /\ OpsFit' /\ CustomerInv'
<1>1. session[r] # None /\ session[r] \in Sessions
  BY DEF Pay, AccountInv, TypeInv, TypeOK
<1>2. [session[r] EXCEPT !.paid = TRUE] \in Sessions /\ [session[r] EXCEPT !.paid = TRUE].customer = session[r].customer
  BY <1>1 DEF Sessions
<1>3. session'[r] # None /\ session'[r].customer = session[r].customer
  BY <1>1, <1>2, NoneAssumption DEF Pay, AccountInv, TypeInv, TypeOK
<1>4. \A q \in Requests \ {r} : session'[q] = session[q]
  BY DEF Pay, AccountInv, TypeInv, TypeOK
<1>5. LedgerInv'
  BY LedgerKept DEF Pay, AccountInv
<1> QED BY <1>1, <1>3, <1>4, <1>5, CustomerStays DEF Pay, AccountInv

LEMMA ReadBalanceKeeps ==
  ASSUME AccountInv, NEW r \in Requests, ReadBalance(r)
  PROVE  LedgerInv' /\ OpsFit' /\ CustomerInv'
<1>1. /\ TypeInv /\ LedgerInv /\ OpsFit /\ CustomerInv
      /\ req[r] \in RequestStates /\ req \in [Requests -> RequestStates] /\ ledger \in Ledgers
  BY DEF AccountInv, TypeInv, TypeOK
<1>2. ledger' = ledger /\ customer' = customer /\ session' = session
  BY DEF ReadBalance, apiVars
<1>3. CASE Finish(r, "refused")
  BY <1>3, <1>1, <1>2, FinishQuietly, QuietStep
<1>4. CASE /\ ~(Is(r, {"deduct"}) /\ ledger.total < req[r].amount)
           /\ req' = [req EXCEPT ![r].pc = "write", ![r].saw = ledger.total]
  <2> DEFINE v == [req[r] EXCEPT !.pc = "write", !.saw = ledger.total]
  <2>1. req' = [req EXCEPT ![r] = v]
    BY <1>4, <1>1
  <2>2. req'[r] = v /\ \A q \in Requests \ {r} : req'[q] = req[q]
    BY <2>1, <1>1
  <2>3. /\ v.pc = "write" /\ v.op = req[r].op /\ v.saw = ledger.total
        /\ v.amount = req[r].amount
    BY <1>1 DEF RequestStates
  <2>4. req[r].op # "plan"
    BY DEF ReadBalance, Is, CreditOps
  <2>5. LedgerInv'
    <3>1. ASSUME NEW q \in Requests, Inserting(q)'
          PROVE  /\ ~req'[q].met => req'[q].saw = ledger'.total
                 /\ Is(q, {"deduct"})' => req'[q].saw >= req'[q].amount
      <4>1. CASE q = r
        <5>1. ledger.total \in Int /\ req[r].amount \in Int
          BY <1>1 DEF Ledgers, RequestStates
        <5>2. req'[r].saw = ledger.total /\ req'[r].amount = req[r].amount /\ req'[r].op = req[r].op
          BY <2>2, <2>3
        <5>3. Is(r, {"deduct"}) => ledger.total >= req[r].amount
          BY <5>1, <1>4
        <5> HIDE DEF v
        <5> QED BY <4>1, <5>2, <5>3, <1>2 DEF Is
      <4>2. CASE q # r
        BY <4>2, <3>1, <1>1, <1>2, <2>2 DEF LedgerInv, Inserting, At, Is
      <4> QED BY <4>1, <4>2
    <3> QED BY <3>1, <1>1, <1>2 DEF LedgerInv
  <2>6. OpsFit' /\ CustomerInv'
    BY <1>1, <1>2, <2>2, <2>3, <2>4, CustomerStays
  <2> QED BY <2>5, <2>6
<1> QED BY <1>3, <1>4 DEF ReadBalance

(* The INSERT: whoever had read the balance is met from now on, and a      *)
(* deduction that nobody met takes from a balance that is still enough.    *)
LEMMA InsertRowKeeps ==
  ASSUME AccountInv, NEW r \in Requests, InsertRow(r)
  PROVE  LedgerInv' /\ OpsFit' /\ CustomerInv'
<1>1. /\ TypeInv /\ LedgerInv /\ OpsFit /\ CustomerInv
      /\ req \in [Requests -> RequestStates] /\ ledger \in Ledgers
  BY DEF AccountInv, TypeInv, TypeOK
<1>2. customer' = customer /\ session' = session
  BY DEF InsertRow
<1>3. Inserting(r) /\ req[r].op # "plan"
  BY DEF InsertRow, Inserting, Is, CreditOps
<1>4. req'[r] = Ended(r, "ok")
  BY DEF InsertRow
<1>5. ASSUME NEW q \in Requests, q # r
      PROVE  \/ req'[q] = req[q] /\ ~Inserting(q)
             \/ Inserting(q) /\ req'[q] = [req[q] EXCEPT !.met = TRUE]
  BY <1>5 DEF InsertRow, Inserting
<1>6. ASSUME NEW q \in Requests, q # r, Inserting(q)
      PROVE  /\ req'[q].pc = "write" /\ req'[q].op \in CreditOps /\ req'[q].met
             /\ req'[q].saw = req[q].saw /\ req'[q].amount = req[q].amount /\ req'[q].op = req[q].op
  <2>1. req[q] \in RequestStates /\ req'[q] = [req[q] EXCEPT !.met = TRUE]
    BY <1>5, <1>6, <1>1
  <2> QED BY <2>1, <1>6 DEF RequestStates, Inserting, At, Is
<1>7. req'[r].pc \in {"ok", "refused", "cut", "done"}
  BY <1>1, <1>4, EndedTyped
<1>8. LedgerInv'
  <2>1. /\ ledger.total \in Int /\ ledger.overdrawn \in Nat
        /\ req[r].amount \in Nat /\ req[r].saw \in Int
    BY <1>1, BoundsAssumption DEF Ledgers, RequestStates
  <2>2. /\ ledger'.total = ledger.total + Signed(r) /\ ledger'.after = req[r].saw + Signed(r)
        /\ ledger'.sure = ~req[r].met
        /\ ledger'.overdrawn = IF Is(r, {"deduct"}) /\ req[r].met THEN ledger.overdrawn + req[r].amount
                               ELSE ledger.overdrawn
    BY DEF InsertRow
  <2>3. /\ ledger.total + ledger.overdrawn >= 0
        /\ ~req[r].met => req[r].saw = ledger.total
        /\ Is(r, {"deduct"}) => req[r].saw >= req[r].amount
    BY <1>1, <1>3 DEF LedgerInv
  <2>4. ledger'.total + ledger'.overdrawn >= 0
    BY <2>1, <2>2, <2>3 DEF Signed
  <2>5. ledger'.sure => ledger'.after = ledger'.total
    BY <2>1, <2>2, <2>3 DEF Signed
  <2>6. ASSUME NEW q \in Requests, Inserting(q)'
        PROVE  /\ ~req'[q].met => req'[q].saw = ledger'.total
               /\ Is(q, {"deduct"})' => req'[q].saw >= req'[q].amount
    <3>1. q # r
      BY <2>6, <1>7 DEF Inserting, At
    <3>2. Inserting(q)
      BY <3>1, <2>6, <1>5 DEF Inserting, At, Is
    <3> QED BY <3>1, <3>2, <1>6, <1>1 DEF LedgerInv, Is
  <2> QED BY <2>4, <2>5, <2>6 DEF LedgerInv
<1>9. OpsFit' /\ CustomerInv'
  <2>1. \A q \in Requests : req'[q].pc \in {"idle", "create", "save", "session"} => req'[q] = req[q]
    BY <1>5, <1>6, <1>7
  <2>2. \A q \in Requests : req[q].op = "plan" /\ req[q].met => req'[q].op = "plan" /\ req'[q].met
    BY <1>3, <1>5 DEF Inserting, Is, CreditOps
  <2>3. \A q \in Requests : req'[q].pc = "find" => req'[q] = req[q]
    BY <1>5, <1>6, <1>7
  <2> QED BY <2>1, <2>2, <2>3, <1>1, <1>2, CustomerStays
<1> QED BY <1>8, <1>9

(* Steps that touch neither the ledger, the customer nor a request. *)
LEMMA OthersKeep ==
  ASSUME AccountInv,
         \/ StripeUpdates \/ AskCancel \/ KeepSubscription \/ ReadSub \/ ShowSub \/ LoseFetch
         \/ \E tab \in Tabs : SwitchTab(tab)
         \/ UNCHANGED vars
  PROVE  LedgerInv' /\ OpsFit' /\ CustomerInv'
<1>1. ledger' = ledger /\ customer' = customer /\ session' = session /\ req' = req
  BY DEF StripeUpdates, AskCancel, KeepSubscription, ReadSub, ShowSub, LoseFetch, SwitchTab, vars, apiVars
<1> QED BY <1>1, LedgerKept, CustomerStays DEF AccountInv

-----------------------------------------------------------------------------
(* Checkouts.                                                              *)

(* A request that looks for its organization is refused, goes on with the  *)
(* customer there is, or creates one; it is met by all that do the same.   *)
LEMMA FindOrgKeeps ==
  ASSUME AccountInv, NEW r \in Requests, FindOrg(r)
  PROVE  LedgerInv' /\ OpsFit' /\ CustomerInv'
<1>1. /\ TypeInv /\ LedgerInv /\ OpsFit /\ CustomerInv
      /\ req[r] \in RequestStates /\ req \in [Requests -> RequestStates]
  BY DEF AccountInv, TypeInv, TypeOK
<1>2. ledger' = ledger /\ customer' = customer /\ session' = session
  BY DEF FindOrg, apiVars
<1>3. At(r, "find") /\ req[r].op \in StripeOps
  BY DEF FindOrg, Is
<1>4. CASE Finish(r, "refused")
  BY <1>4, <1>1, <1>2, FinishQuietly, QuietStep
<1>5. CASE customer # None /\ req' = [req EXCEPT ![r].pc = "session", ![r].for = customer]
  <2> DEFINE v == [req[r] EXCEPT !.pc = "session", !.for = customer]
  <2>1. req'[r] = v /\ \A q \in Requests \ {r} : req'[q] = req[q]
    BY <1>5, <1>1
  <2>2. v.pc = "session" /\ v.for = customer /\ v.op = req[r].op
    BY <1>1 DEF RequestStates
  <2>3. v.met = req[r].met
    BY <1>1 DEF RequestStates
  <2> HIDE DEF v
  <2>4. LedgerInv'
    BY <1>1, <1>2, <2>1, <2>2, LedgerKept
  <2>5. OpsFit'
    BY <1>1, <2>1, <2>2 DEF OpsFit, At, Is, Creating
  <2>6. SUFFICES ASSUME \A q \in Requests : ~Overlapped(q)' PROVE CustomerInv'
    BY <2>4, <2>5 DEF CustomerInv
  <2>7. \A q \in Requests : ~Overlapped(q)
    BY <2>1, <2>2, <2>3, <2>6 DEF Overlapped, Is
  <2>8. \A q \in Requests : req'[q].pc \in Creating => q # r /\ req'[q] = req[q]
    BY <2>1, <2>2 DEF Creating
  <2>9. \A q \in Requests : At(q, "session")' => req'[q].for = customer
    BY <1>1, <2>1, <2>2, <2>7 DEF CustomerInv, At
  <2> QED BY <1>1, <1>2, <1>5, <2>7, <2>8, <2>9 DEF CustomerInv, At
<1>6. ASSUME NEW met \in SUBSET Requests, met = {q \in Requests : Is(q, {"plan"}) /\ req[q].pc \in Creating},
             customer = None, Is(r, {"plan"}),
             req' = [q \in Requests |->
               IF q = r THEN [req[q] EXCEPT !.pc = "create", !.met = met # {}]
               ELSE IF q \in met THEN [req[q] EXCEPT !.met = TRUE] ELSE req[q]]
      PROVE  LedgerInv' /\ OpsFit' /\ CustomerInv'
  <2>1. req'[r] = [req[r] EXCEPT !.pc = "create", !.met = met # {}]
    BY <1>6
  <2>2. req'[r].pc = "create" /\ req'[r].op = "plan" /\ (met # {} => req'[r].met)
    <3>1. req'[r].pc = "create" /\ req'[r].op = req[r].op
      BY <2>1, <1>1 DEF RequestStates
    <3>2. ASSUME met # {} PROVE req'[r].met
      <4>1. (met # {}) = TRUE
        BY <3>2
      <4>2. req'[r] = [req[r] EXCEPT !.pc = "create", !.met = TRUE]
        BY <2>1, <4>1
      <4> QED BY <4>2, <1>1 DEF RequestStates
    <3> QED BY <3>1, <3>2, <1>6 DEF Is
  <2>3. ASSUME NEW q \in Requests, q # r
        PROVE  \/ req'[q] = req[q]
               \/ req[q].op = "plan" /\ req'[q].op = "plan" /\ req'[q].met
                  /\ req'[q].pc = req[q].pc /\ req[q].pc \in Creating
    <3>1. CASE q \in met
      <4>1. req'[q] = [req[q] EXCEPT !.met = TRUE] /\ req[q] \in RequestStates
            /\ req[q].op = "plan" /\ req[q].pc \in Creating
        BY <2>3, <3>1, <1>1, <1>6 DEF Is
      <4> QED BY <4>1 DEF RequestStates
    <3>2. CASE q \notin met
      BY <2>3, <3>2, <1>6
    <3> QED BY <3>1, <3>2
  <2>4. LedgerInv'
    BY <1>1, <1>2, <2>2, <2>3, LedgerKept DEF CreditOps
  <2>5. OpsFit'
    BY <1>1, <2>2, <2>3 DEF OpsFit, At, Is, Creating
  <2>6. SUFFICES ASSUME \A q \in Requests : ~Overlapped(q)' PROVE CustomerInv'
    BY <2>4, <2>5 DEF CustomerInv
  <2>7. met = {}
    BY <2>2, <2>6 DEF Overlapped, Is
  <2>8. \A q \in Requests : req[q].pc \notin Creating
    BY <2>7, <1>1, <1>6 DEF OpsFit
  <2>9. \A q \in Requests \ {r} : req'[q] = req[q]
    BY <2>7, <1>6
  <2>10. \A q \in Requests : ~Overlapped(q)
    BY <1>1, <1>3, <2>6, <2>9, <2>8, <1>6 DEF Overlapped, Is, At, OpsFit
  <2> QED BY <1>1, <1>2, <1>6, <2>2, <2>8, <2>9, <2>10 DEF CustomerInv, At
<1> QED BY <1>4, <1>5, <1>6 DEF FindOrg

LEMMA CreateCustomerKeeps ==
  ASSUME AccountInv, NEW r \in Requests, CreateCustomer(r)
  PROVE  LedgerInv' /\ OpsFit' /\ CustomerInv'
<1> DEFINE v == [req[r] EXCEPT !.pc = "save", !.for = r]
<1>1. /\ TypeInv /\ LedgerInv /\ OpsFit /\ CustomerInv
      /\ req[r] \in RequestStates /\ req \in [Requests -> RequestStates]
  BY DEF AccountInv, TypeInv, TypeOK
<1>2. ledger' = ledger /\ customer' = customer /\ session' = session /\ req[r].pc = "create"
  BY DEF CreateCustomer, apiVars, At
<1>3. req'[r] = v /\ \A q \in Requests \ {r} : req'[q] = req[q]
  BY <1>1 DEF CreateCustomer
<1>4. v.pc = "save" /\ v.op = req[r].op
  BY <1>1 DEF RequestStates
<1>5. v.met = req[r].met
  BY <1>1 DEF RequestStates
<1> HIDE DEF v
<1>6. LedgerInv'
  BY <1>1, <1>2, <1>3, <1>4, LedgerKept
<1>7. OpsFit'
  BY <1>1, <1>2, <1>3, <1>4 DEF OpsFit, At, Is, Creating
<1>8. SUFFICES ASSUME \A q \in Requests : ~Overlapped(q)' PROVE CustomerInv'
  BY <1>6, <1>7 DEF CustomerInv
<1>9. \A q \in Requests : ~Overlapped(q)
  BY <1>3, <1>4, <1>5, <1>8 DEF Overlapped, Is
<1>10. \A q \in Requests : req'[q].pc \in Creating <=> req[q].pc \in Creating
  BY <1>2, <1>3, <1>4 DEF Creating
<1>11. \A q \in Requests : req'[q].pc = "session" => req'[q] = req[q]
  BY <1>3, <1>4
<1> QED BY <1>1, <1>2, <1>9, <1>10, <1>11 DEF CustomerInv, At

(* The customer is written by the only request that creates one. *)
LEMMA SaveCustomerKeeps ==
  ASSUME AccountInv, NEW r \in Requests, SaveCustomer(r)
  PROVE  LedgerInv' /\ OpsFit' /\ CustomerInv'
<1> DEFINE v == [req[r] EXCEPT !.pc = "session"]
<1>1. /\ TypeInv /\ LedgerInv /\ OpsFit /\ CustomerInv
      /\ req[r] \in RequestStates /\ req \in [Requests -> RequestStates]
  BY DEF AccountInv, TypeInv, TypeOK
<1>2. ledger' = ledger /\ session' = session /\ customer' = req[r].for /\ req[r].pc = "save" /\ req[r].for # None
  BY <1>1 DEF SaveCustomer, At, TypeInv, ForKnown
<1>3. req'[r] = v /\ \A q \in Requests \ {r} : req'[q] = req[q]
  BY <1>1 DEF SaveCustomer, Goto
<1>4. v.pc = "session" /\ v.op = req[r].op /\ v.for = req[r].for
  BY <1>1 DEF RequestStates
<1>5. v.met = req[r].met
  BY <1>1 DEF RequestStates
<1> HIDE DEF v
<1>6. LedgerInv'
  BY <1>1, <1>2, <1>3, <1>4, LedgerKept
<1>7. OpsFit'
  BY <1>1, <1>2, <1>3, <1>4 DEF OpsFit, At, Is, Creating
<1>8. SUFFICES ASSUME \A q \in Requests : ~Overlapped(q)' PROVE CustomerInv'
  BY <1>6, <1>7 DEF CustomerInv
<1>9. \A q \in Requests : ~Overlapped(q)
  BY <1>3, <1>4, <1>5, <1>8 DEF Overlapped, Is
<1>10. customer = None /\ \A q \in Requests : session[q] = None /\ req[q].pc # "session"
  BY <1>1, <1>2, <1>9 DEF CustomerInv, Creating, At
<1>11. \A q \in Requests : req'[q].pc \notin Creating
  BY <1>1, <1>2, <1>3, <1>4, <1>9 DEF CustomerInv, Creating
<1>12. \A q \in Requests : req'[q].pc = "session" => req'[q].for = customer'
  BY <1>2, <1>3, <1>4, <1>10
<1> QED BY <1>2, <1>10, <1>11, <1>12 DEF CustomerInv, At

LEMMA CreateSessionKeeps ==
  ASSUME AccountInv, NEW r \in Requests, CreateSession(r)
  PROVE  LedgerInv' /\ OpsFit' /\ CustomerInv'
<1>1. /\ TypeInv /\ LedgerInv /\ OpsFit /\ CustomerInv /\ req[r] \in RequestStates
      /\ session \in [Requests -> {None} \cup Sessions]
  BY DEF AccountInv, TypeInv, TypeOK
<1>2. ledger' = ledger /\ customer' = customer /\ Finish(r, "ok") /\ req[r].pc = "session"
  BY DEF CreateSession, At
<1>3. Quietly(r)
  BY <1>1, <1>2, FinishQuietly
<1>4. \A q \in Requests : req'[q].pc \in {"idle", "find", "create", "save", "session"} => req'[q] = req[q]
  <2>1. req'[r].pc # "find"
    <3>1. req'[r] = Ended(r, "ok")
      BY <1>2 DEF Finish, AccountInv, TypeInv, TypeOK
    <3>2. Ended(r, "ok").pc \in {"ok", "refused", "cut", "done"}
      BY <1>1, EndedTyped
    <3> QED BY <3>1, <3>2
  <2> QED BY <1>3, <2>1 DEF Quietly
<1>5. LedgerInv'
  BY <1>1, <1>2, <1>3, LedgerKept DEF Quietly
<1>6. OpsFit'
  BY <1>1, <1>4 DEF OpsFit, At, Is, Creating
<1>7. SUFFICES ASSUME \A q \in Requests : ~Overlapped(q)' PROVE CustomerInv'
  BY <1>5, <1>6 DEF CustomerInv
<1>8. \A q \in Requests : ~Overlapped(q)
  BY <1>3, <1>7 DEF Quietly, Overlapped, Is
<1>9. req[r].for = customer /\ customer # None
  BY <1>1, <1>2, <1>8 DEF CustomerInv, At
<1>10. \A q \in Requests : session'[q] = session[q] \/ session'[q].customer = customer
  BY <1>1, <1>9 DEF CreateSession
<1>11. \A q \in Requests : req'[q].pc \in Creating \cup {"session"} => req'[q] = req[q]
  BY <1>4 DEF Creating
<1>12. \A q, p \in Requests : req'[q].pc \in Creating /\ req'[p].pc \in Creating => q = p
  BY <1>1, <1>8, <1>11 DEF CustomerInv
<1>13. \A q \in Requests : req'[q].pc \notin Creating
  BY <1>1, <1>8, <1>9, <1>11 DEF CustomerInv
<1>14. \A q \in Requests : At(q, "session")' => req'[q].for = customer'
  BY <1>1, <1>2, <1>8, <1>11 DEF CustomerInv, At
<1>15. \A q \in Requests : session'[q] # None => session'[q].customer = customer'
  BY <1>1, <1>2, <1>8, <1>10 DEF CustomerInv
<1> QED BY <1>2, <1>9, <1>12, <1>13, <1>14, <1>15 DEF CustomerInv

LEMMA AccountStep == AccountInv /\ [Next]_vars => AccountInv'
<1> SUFFICES ASSUME AccountInv, [Next]_vars PROVE AccountInv'
  OBVIOUS
<1>1. TypeInv'
  BY TypeStep DEF AccountInv
<1>2. ASSUME NEW r \in Requests,
             CallApi(r) \/ CutRequest(r) \/ SubscriptionTab(r) \/ PlansTab(r) \/ Answer(r)
      PROVE  LedgerInv' /\ OpsFit' /\ CustomerInv'
  BY <1>2, ClientKeeps
<1>3. ASSUME NEW r \in Requests, RequestStep(r) PROVE LedgerInv' /\ OpsFit' /\ CustomerInv'
  <2>1. CASE ReadBalance(r) \/ InsertRow(r)
    BY <2>1, ReadBalanceKeeps, InsertRowKeeps
  <2>2. CASE FindOrg(r) \/ CreateCustomer(r) \/ SaveCustomer(r) \/ CreateSession(r)
    BY <2>2, FindOrgKeeps, CreateCustomerKeeps, SaveCustomerKeeps, CreateSessionKeeps
  <2>3. CASE FindSub(r) \/ WriteSub(r)
    BY <2>3, SubscriptionKeeps
  <2> QED BY <1>3, <2>1, <2>2, <2>3 DEF RequestStep
<1>4. ASSUME NEW r \in Requests, Pay(r) PROVE LedgerInv' /\ OpsFit' /\ CustomerInv'
  BY <1>4, PayKeeps
<1>5. LedgerInv' /\ OpsFit' /\ CustomerInv'
  BY <1>2, <1>3, <1>4, OthersKeep DEF Next
<1> QED BY <1>1, <1>5 DEF AccountInv

(* However deductions and additions overlap, the ledger is never further   *)
(* below zero than the overlapping deductions took, and a newest row that  *)
(* met nobody tells the balance (credit.service.ts).                       *)
THEOREM LedgerCorrect == Spec => []LedgerSound
<1>1. AccountInv => LedgerSound
  BY DEF AccountInv, LedgerInv, LedgerSound, OverdraftBounded, NewestRowTells
<1> QED BY <1>1, AccountInitially, AccountStep, PTL DEF Spec

(* Whatever is cut, every checkout session belongs to the customer that    *)
(* the organization's row names, unless two first checkouts overlapped     *)
(* (stripe.service.ts).                                                    *)
THEOREM CustomerCorrect == Spec => []CustomerKept
<1>1. AccountInv => CustomerKept
  BY DEF AccountInv, CustomerInv, CustomerKept, Overlapped
<1> QED BY <1>1, AccountInitially, AccountStep, PTL DEF Spec

-----------------------------------------------------------------------------
(* The subscription that the page shows.                                   *)

(* The page has not yet fetched what this request did, or never will.      *)
Overtaking(r) == At(r, "cut") \/ (At(r, "ok") /\ Is(r, SubOps) /\ req[r].by = "page")
Overtaken == fetch.missed \/ fetch.news \/ \E r \in Requests : Overtaking(r)

(* A request that goes on belongs to somebody, who will hear of its end.   *)
Owned == \A r \in Requests : req[r].pc \in Busy => req[r].by # None

(* As long as nothing has overtaken the page, its last answer and what it  *)
(* shows are the subscription there is.                                    *)
ShownInv ==
  ~Overtaken => /\ fetch.at = "idle" => cached = sub
                /\ fetch.at = "answered" => fetch.sub = sub

PageInv == TypeInv /\ Owned /\ ShownInv

LEMMA PageInitially == Init => PageInv
<1> SUFFICES ASSUME Init PROVE PageInv
  OBVIOUS
<1>1. \A r \in Requests : req[r].pc = "idle"
  BY DEF Init, NoRequest
<1>2. Owned
  BY <1>1 DEF Owned, Busy, Creating
<1>3. ShownInv
  BY DEF Init, ShownInv
<1> QED BY <1>2, <1>3, Initially DEF PageInv

(* What a step may do to a request without the page's noticing. *)
Unnoticed(q) == /\ Overtaking(q) => Overtaking(q)'
                /\ req'[q].pc \in Busy => req'[q].by # None

LEMMA SameUnnoticed ==
  ASSUME Owned, NEW q \in Requests, req'[q] = req[q]
  PROVE  Unnoticed(q)
BY DEF Unnoticed, Overtaking, Owned, At, Is

LEMMA UnnoticedKeeps ==
  ASSUME ShownInv, sub' = sub, cached' = cached, fetch' = fetch, \A q \in Requests : Unnoticed(q)
  PROVE  ShownInv' /\ Owned'
<1>1. Overtaken => Overtaken'
  BY DEF Overtaken, Unnoticed
<1>2. Owned'
  BY DEF Unnoticed, Owned
<1> QED BY <1>1, <1>2 DEF ShownInv

(* What becomes of a request that ends: the page's requests wait for their *)
(* answer.                                                                 *)
LEMMA EndedFields ==
  ASSUME TypeInv, NEW r \in Requests, NEW pc \in {"ok", "refused", "cut"}
  PROVE  /\ Ended(r, pc).pc \notin Busy
         /\ pc = "cut" => Ended(r, pc).pc = "cut"
         /\ req[r].by = "page" => Ended(r, pc).pc = pc /\ Ended(r, pc).op = req[r].op /\ Ended(r, pc).by = "page"
<1>1. req[r] \in RequestStates /\ pc \in PCs
  BY DEF TypeInv, TypeOK, PCs
<1>2. Ended(r, pc).pc \notin Busy
  BY EndedTyped DEF Busy, Creating
<1>3. ASSUME req[r].by = "page"
      PROVE  Ended(r, pc).pc = pc /\ Ended(r, pc).op = req[r].op /\ Ended(r, pc).by = "page"
  <2>1. Ended(r, pc) = [req[r] EXCEPT !.pc = pc, !.saw = 0, !.for = None]
    BY <1>3 DEF Ended
  <2>2. Ended(r, pc).pc = pc
    BY <2>1, <1>1 DEF RequestStates
  <2>3. Ended(r, pc).op = req[r].op
    BY <2>1, <1>1 DEF RequestStates
  <2>4. Ended(r, pc).by = req[r].by
    BY <2>1, <1>1 DEF RequestStates
  <2> QED BY <2>2, <2>3, <2>4, <1>3
<1>4. ASSUME pc = "cut", req[r].by # "page" PROVE Ended(r, pc).pc = "cut"
  <2>1. Ended(r, pc) = Over(req[r], "cut")
    BY <1>4 DEF Ended
  <2>2. Over(req[r], "cut").pc = "cut"
    BY DEF Over, NoRequest
  <2> QED BY <2>1, <2>2
<1> QED BY <1>2, <1>3, <1>4

LEMMA FinishUnnoticed ==
  ASSUME PageInv, NEW r \in Requests, NEW pc \in {"ok", "refused", "cut"}, Finish(r, pc),
         pc = "cut" \/ ~Overtaking(r)
  PROVE  \A q \in Requests : Unnoticed(q)
<1>1. TypeInv /\ Owned /\ req \in [Requests -> RequestStates]
  BY DEF PageInv, TypeInv, TypeOK
<1>2. req'[r] = Ended(r, pc) /\ \A q \in Requests \ {r} : req'[q] = req[q]
  BY <1>1 DEF Finish
<1>3. Unnoticed(r)
  BY <1>1, <1>2, EndedFields DEF Unnoticed, Overtaking, At
<1> QED BY <1>1, <1>2, <1>3, SameUnnoticed

LEMMA StartUnnoticed ==
  ASSUME PageInv, NEW r \in Requests, NEW op, NEW amount, NEW by \in {"client", "page"}, Start(r, op, amount, by)
  PROVE  \A q \in Requests : Unnoticed(q)
<1>1. TypeInv /\ Owned /\ req \in [Requests -> RequestStates]
  BY DEF PageInv, TypeInv, TypeOK
<1>2. req'[r].by = by /\ \A q \in Requests \ {r} : req'[q] = req[q]
  BY <1>1 DEF Start, NoRequest
<1>3. Unnoticed(r)
  BY <1>2, NoneAssumption DEF Start, Unnoticed, Overtaking, At
<1> QED BY <1>1, <1>2, <1>3, SameUnnoticed

(* A request that goes on. *)
LEMMA MovedUnnoticed ==
  ASSUME PageInv, NEW r \in Requests, req[r].pc \in Busy, req'[r].by = req[r].by,
         \A q \in Requests \ {r} : \/ req'[q] = req[q]
                                   \/ req'[q].pc \in Busy /\ req[q].pc \in Busy /\ req'[q].by = req[q].by
  PROVE  \A q \in Requests : Unnoticed(q)
<1>1. ASSUME NEW q \in Requests, req[q].pc \in Busy, req'[q].by = req[q].by PROVE Unnoticed(q)
  BY <1>1 DEF PageInv, Owned, Unnoticed, Overtaking, At, Busy, Creating
<1>2. Owned
  BY DEF PageInv
<1> QED BY <1>1, <1>2, SameUnnoticed

(* The requests that neither change nor fetch the subscription. *)
LEMMA LedgerUnnoticed ==
  ASSUME PageInv, NEW r \in Requests, ReadBalance(r) \/ InsertRow(r)
  PROVE  \A q \in Requests : Unnoticed(q)
<1>1. TypeInv /\ req \in [Requests -> RequestStates] /\ req[r] \in RequestStates
  BY DEF PageInv, TypeInv, TypeOK
<1>2. req[r].pc \in Busy /\ ~Overtaking(r)
  BY DEF ReadBalance, InsertRow, At, Overtaking, Busy
<1>3. CASE Finish(r, "refused")
  BY <1>2, <1>3, FinishUnnoticed
<1>4. CASE req' = [req EXCEPT ![r].pc = "write", ![r].saw = ledger.total]
  <2>1. req'[r].by = req[r].by /\ \A q \in Requests \ {r} : req'[q] = req[q]
    BY <1>1, <1>4 DEF RequestStates
  <2> QED BY <2>1, <1>2, MovedUnnoticed
<1>5. CASE InsertRow(r)
  <2>1. Unnoticed(r)
    <3>1. req'[r] = Ended(r, "ok")
      BY <1>5 DEF InsertRow
    <3> QED BY <3>1, <1>1, <1>2, EndedFields DEF Unnoticed
  <2>2. ASSUME NEW q \in Requests, q # r PROVE Unnoticed(q)
    <3>1. CASE req'[q] = req[q]
      BY <3>1, SameUnnoticed DEF PageInv
    <3>2. CASE At(q, "write") /\ req'[q] = [req[q] EXCEPT !.met = TRUE]
      <4>1. req[q] \in RequestStates
        BY <1>1
      <4>2. req'[q].by = req[q].by
        BY <3>2, <4>1 DEF RequestStates
      <4>3. req[q].pc \in Busy /\ ~Overtaking(q)
        BY <3>2 DEF At, Busy, Overtaking
      <4> QED BY <4>2, <4>3 DEF PageInv, Owned, Unnoticed
    <3> QED BY <2>2, <3>1, <3>2, <1>5 DEF InsertRow
  <2> QED BY <2>1, <2>2
<1> QED BY <1>3, <1>4, <1>5 DEF ReadBalance

LEMMA CheckoutUnnoticed ==
  ASSUME PageInv, NEW r \in Requests,
         FindOrg(r) \/ CreateCustomer(r) \/ SaveCustomer(r) \/ CreateSession(r)
  PROVE  \A q \in Requests : Unnoticed(q)
<1>1. TypeInv /\ req \in [Requests -> RequestStates] /\ req[r] \in RequestStates
  BY DEF PageInv, TypeInv, TypeOK
<1>2. req[r].pc \in Busy /\ ~Overtaking(r)
  BY DEF FindOrg, CreateCustomer, SaveCustomer, CreateSession, At, Overtaking, Busy, Creating
<1>3. CASE Finish(r, "refused") \/ Finish(r, "ok")
  BY <1>2, <1>3, FinishUnnoticed
<1>4. CASE req' = [req EXCEPT ![r].pc = "session", ![r].for = customer]
  <2>1. req'[r].by = req[r].by /\ \A q \in Requests \ {r} : req'[q] = req[q]
    BY <1>1, <1>4 DEF RequestStates
  <2> QED BY <2>1, <1>2, MovedUnnoticed
<1>5. ASSUME NEW met \in SUBSET Requests, \A q \in met : req[q].pc \in Creating,
             req' = [q \in Requests |->
               IF q = r THEN [req[q] EXCEPT !.pc = "create", !.met = met # {}]
               ELSE IF q \in met THEN [req[q] EXCEPT !.met = TRUE] ELSE req[q]]
      PROVE  \A q \in Requests : Unnoticed(q)
  <2>1. req'[r].by = req[r].by
    <3>1. req'[r] = [req[r] EXCEPT !.pc = "create", !.met = met # {}]
      BY <1>5
    <3> QED BY <3>1, <1>1 DEF RequestStates
  <2>2. ASSUME NEW q \in Requests, q # r
        PROVE  \/ req'[q] = req[q]
               \/ req'[q].pc \in Busy /\ req[q].pc \in Busy /\ req'[q].by = req[q].by
    <3>1. CASE q \in met
      <4>1. req'[q] = [req[q] EXCEPT !.met = TRUE] /\ req[q] \in RequestStates /\ req[q].pc \in Busy
        BY <2>2, <3>1, <1>1, <1>5 DEF Busy
      <4> QED BY <4>1 DEF RequestStates
    <3>2. CASE q \notin met
      BY <2>2, <3>2, <1>5
    <3> QED BY <3>1, <3>2
  <2> QED BY <2>1, <2>2, <1>2, MovedUnnoticed
<1>6. CASE CreateCustomer(r)
  <2>1. req'[r].by = req[r].by /\ \A q \in Requests \ {r} : req'[q] = req[q]
    BY <1>1, <1>6 DEF CreateCustomer, RequestStates
  <2> QED BY <2>1, <1>2, MovedUnnoticed
<1>7. CASE SaveCustomer(r)
  <2>1. req'[r].by = req[r].by /\ \A q \in Requests \ {r} : req'[q] = req[q]
    BY <1>1, <1>7 DEF SaveCustomer, Goto, RequestStates
  <2> QED BY <2>1, <1>2, MovedUnnoticed
<1>8. CASE FindOrg(r)
  <2>1. \A q \in {q \in Requests : Is(q, {"plan"}) /\ req[q].pc \in Creating} : req[q].pc \in Creating
    OBVIOUS
  <2>2. {q \in Requests : Is(q, {"plan"}) /\ req[q].pc \in Creating} \in SUBSET Requests
    OBVIOUS
  <2> QED BY <1>3, <1>4, <1>5, <1>8, <2>1, <2>2 DEF FindOrg
<1> QED BY <1>3, <1>6, <1>7, <1>8 DEF CreateSession

(* The requests that change it. *)
LEMMA WriteSubShown ==
  ASSUME PageInv, NEW r \in Requests, WriteSub(r)
  PROVE  ShownInv' /\ Owned'
<1>1. TypeInv /\ Owned /\ req \in [Requests -> RequestStates] /\ req[r] \in RequestStates /\ fetch \in FetchStates
  BY DEF PageInv, TypeInv, TypeOK
<1>2. req[r].pc = "write" /\ req[r].op \in SubOps /\ Finish(r, "ok")
  BY DEF WriteSub, At, Is
<1>3. Owned'
  <2>1. ~Overtaking(r)
    BY <1>2 DEF Overtaking, At
  <2> QED BY <2>1, <1>2, FinishUnnoticed DEF Unnoticed, Owned
<1>4. CASE req[r].by = "client"
  BY <1>1, <1>3, <1>4 DEF WriteSub, News, FetchStates, ShownInv, Overtaken
<1>5. CASE req[r].by = "page"
  <2>1. req'[r] = Ended(r, "ok")
    BY <1>1, <1>2 DEF Finish
  <2>2. req'[r].pc = "ok" /\ req'[r].op = req[r].op /\ req'[r].by = "page"
    BY <2>1, <1>1, <1>5, EndedFields
  <2>3. Overtaking(r)'
    BY <2>2, <1>2 DEF Overtaking, At, Is
  <2> QED BY <2>3, <1>3 DEF ShownInv, Overtaken
<1>6. req[r].by \in {"client", "page"}
  <2>1. req[r].by # None
    BY <1>1, <1>2 DEF Owned, Busy
  <2> QED BY <2>1, <1>1 DEF RequestStates
<1> QED BY <1>4, <1>5, <1>6

LEMMA FindSubUnnoticed ==
  ASSUME PageInv, NEW r \in Requests, FindSub(r)
  PROVE  \A q \in Requests : Unnoticed(q)
<1>1. TypeInv /\ req \in [Requests -> RequestStates] /\ req[r] \in RequestStates
  BY DEF PageInv, TypeInv, TypeOK
<1>2. req[r].pc \in Busy /\ ~Overtaking(r)
  BY DEF FindSub, At, Overtaking, Busy
<1>3. CASE Finish(r, "refused")
  BY <1>2, <1>3, FinishUnnoticed
<1>4. CASE req' = [req EXCEPT ![r].pc = "write", ![r].saw = sub.id]
  <2>1. req'[r].by = req[r].by /\ \A q \in Requests \ {r} : req'[q] = req[q]
    BY <1>1, <1>4 DEF RequestStates
  <2> QED BY <2>1, <1>2, MovedUnnoticed
<1> QED BY <1>3, <1>4 DEF FindSub

(* An answer that succeeds sends a fetch, or makes what is cached stale.   *)
LEMMA AnswerShown ==
  ASSUME PageInv, NEW r \in Requests, Answer(r)
  PROVE  ShownInv' /\ Owned'
<1>1. TypeInv /\ Owned /\ ShownInv /\ req \in [Requests -> RequestStates] /\ req[r] \in RequestStates
      /\ fetch \in FetchStates
  BY DEF PageInv, TypeInv, TypeOK
<1>2. req'[r] = Over(req[r], req[r].pc) /\ \A q \in Requests \ {r} : req'[q] = req[q]
  BY <1>1 DEF Answer
<1>3. req'[r].pc \notin Busy /\ (At(r, "cut") => req'[r].pc = "cut")
  <2>1. Over(req[r], req[r].pc).pc \in {"cut", "done"}
    BY <1>1, OverTyped
  <2>2. At(r, "cut") => Over(req[r], req[r].pc).pc = "cut"
    BY DEF Over, NoRequest, At
  <2> QED BY <2>1, <2>2, <1>2 DEF Busy, Creating
<1>4. CASE Is(r, SubOps) /\ At(r, "ok")
  <2>1. Invalidate
    BY <1>4 DEF Answer
  <2>2. fetch'.at \notin {"idle", "answered"} \/ fetch'.missed
    BY <1>1, <2>1 DEF Invalidate, FetchStates
  <2>3. Owned'
    BY <1>1, <1>2, <1>3 DEF Owned
  <2> QED BY <2>2, <2>3 DEF ShownInv, Overtaken
<1>5. CASE ~(Is(r, SubOps) /\ At(r, "ok"))
  <2>1. sub' = sub /\ cached' = cached /\ fetch' = fetch
    BY <1>5 DEF Answer, apiVars
  <2>2. Unnoticed(r)
    BY <1>3, <1>5 DEF Unnoticed, Overtaking, At
  <2>3. \A q \in Requests : Unnoticed(q)
    BY <2>2, <1>1, <1>2, SameUnnoticed
  <2> QED BY <2>1, <2>3, <1>1, UnnoticedKeeps
<1> QED BY <1>4, <1>5

(* Whoever changes it without the page, and what the page fetches. *)
LEMMA FetchShown ==
  ASSUME PageInv,
         \/ \E r \in Requests : Pay(r)
         \/ StripeUpdates \/ ReadSub \/ ShowSub \/ LoseFetch
         \/ \E tab \in Tabs : SwitchTab(tab)
  PROVE  ShownInv' /\ Owned'
<1>1. Owned /\ ShownInv /\ fetch \in FetchStates
  BY DEF PageInv, TypeInv, TypeOK
<1>2. req' = req
  BY DEF Pay, StripeUpdates, ReadSub, ShowSub, LoseFetch, SwitchTab, apiVars
<1>3. Owned'
  BY <1>1, <1>2 DEF Owned
<1>4. \A r \in Requests : Overtaking(r)' <=> Overtaking(r)
  BY <1>2 DEF Overtaking, At, Is
<1>5. CASE StripeUpdates \/ \E r \in Requests : Pay(r)
  <2>1. fetch'.news
    BY <1>1, <1>5 DEF StripeUpdates, Pay, News, FetchStates
  <2> QED BY <2>1, <1>3 DEF ShownInv, Overtaken
<1>6. CASE ReadSub
  <2>1. fetch'.at = "answered" /\ fetch'.sub = sub'
    BY <1>1, <1>6 DEF ReadSub, FetchStates, apiVars
  <2> QED BY <2>1, <1>3 DEF ShownInv
<1>7. CASE ShowSub
  <2>1. sub' = sub /\ fetch.at = "answered" /\ fetch'.missed = fetch.missed /\ fetch'.news = fetch.news
    BY <1>1, <1>7 DEF ShowSub, FetchStates, apiVars
  <2>2. fetch'.at \in {"idle", "stale"} /\ (fetch'.at = "idle" => cached' = fetch.sub)
    BY <1>1, <1>7 DEF ShowSub, FetchStates
  <2> QED BY <2>1, <2>2, <1>1, <1>3, <1>4 DEF ShownInv, Overtaken
<1>8. CASE LoseFetch
  <2>1. fetch'.at = "stale"
    BY <1>1, <1>8 DEF LoseFetch, FetchStates
  <2> QED BY <2>1, <1>3 DEF ShownInv
<1>9. ASSUME NEW tab \in Tabs, SwitchTab(tab) PROVE ShownInv' /\ Owned'
  <2>1. sub' = sub /\ cached' = cached /\ (fetch'.at = "sent" \/ fetch' = fetch)
    BY <1>1, <1>9 DEF SwitchTab, FetchStates, apiVars
  <2> QED BY <2>1, <1>1, <1>3, <1>4 DEF ShownInv, Overtaken
<1> QED BY <1>5, <1>6, <1>7, <1>8, <1>9

LEMMA PageStep == PageInv /\ [Next]_vars => PageInv'
<1> SUFFICES ASSUME PageInv, [Next]_vars PROVE PageInv'
  OBVIOUS
<1>1. TypeInv'
  BY TypeStep DEF PageInv
<1>2. TypeInv /\ Owned /\ ShownInv /\ req \in [Requests -> RequestStates]
  BY DEF PageInv, TypeInv, TypeOK
<1>3. ASSUME NEW r \in Requests, CallApi(r) \/ SubscriptionTab(r) \/ PlansTab(r)
      PROVE  ShownInv' /\ Owned'
  <2>1. sub' = sub /\ cached' = cached /\ fetch' = fetch
    BY <1>3 DEF CallApi, SubscriptionTab, PlansTab, ReactivateSubscription, ConfirmCancel, Click, apiVars
  <2>2. \E op \in Ops, amount \in Int, by \in {"client", "page"} : Start(r, op, amount, by)
    <3>1. CASE CallApi(r)
      BY <3>1, OpsAssumption, BoundsAssumption DEF CallApi
    <3>2. CASE SubscriptionTab(r) \/ PlansTab(r)
      BY <3>2 DEF SubscriptionTab, PlansTab, ReactivateSubscription, ConfirmCancel, Click, Ops, StripeOps, SubOps
    <3> QED BY <1>3, <3>1, <3>2
  <2>3. \A q \in Requests : Unnoticed(q)
    BY <2>2, StartUnnoticed
  <2> QED BY <2>1, <2>3, <1>2, UnnoticedKeeps
<1>4. ASSUME NEW r \in Requests, CutRequest(r) PROVE ShownInv' /\ Owned'
  <2>1. sub' = sub /\ cached' = cached /\ fetch' = fetch /\ Finish(r, "cut")
    BY <1>4 DEF CutRequest, apiVars
  <2>2. \A q \in Requests : Unnoticed(q)
    BY <2>1, FinishUnnoticed
  <2> QED BY <2>1, <2>2, <1>2, UnnoticedKeeps
<1>5. ASSUME NEW r \in Requests, RequestStep(r) PROVE ShownInv' /\ Owned'
  <2>1. CASE WriteSub(r)
    BY <2>1, WriteSubShown
  <2>2. CASE ~WriteSub(r)
    <3>1. sub' = sub /\ cached' = cached /\ fetch' = fetch
      BY <1>5, <2>2 DEF RequestStep, ReadBalance, InsertRow, FindOrg, CreateCustomer, SaveCustomer,
                        CreateSession, FindSub, apiVars
    <3>2. \A q \in Requests : Unnoticed(q)
      BY <1>5, <2>2, LedgerUnnoticed, CheckoutUnnoticed, FindSubUnnoticed DEF RequestStep
    <3> QED BY <3>1, <3>2, <1>2, UnnoticedKeeps
  <2> QED BY <2>1, <2>2
<1>6. ASSUME AskCancel \/ KeepSubscription \/ UNCHANGED vars PROVE ShownInv' /\ Owned'
  <2>1. sub' = sub /\ cached' = cached /\ fetch' = fetch /\ req' = req
    BY <1>6 DEF AskCancel, KeepSubscription, vars, apiVars
  <2>2. \A q \in Requests : req'[q] = req[q]
    BY <2>1
  <2>3. \A q \in Requests : Unnoticed(q)
    BY <2>2, <1>2, SameUnnoticed
  <2> QED BY <2>1, <2>3, <1>2, UnnoticedKeeps
<1>7. ASSUME NEW r \in Requests, Answer(r) PROVE ShownInv' /\ Owned'
  BY <1>7, AnswerShown
<1>8. ASSUME \/ \E r \in Requests : Pay(r)
             \/ StripeUpdates \/ ReadSub \/ ShowSub \/ LoseFetch
             \/ \E tab \in Tabs : SwitchTab(tab)
      PROVE  ShownInv' /\ Owned'
  BY <1>8, FetchShown
<1>9. ShownInv' /\ Owned'
  BY <1>3, <1>4, <1>5, <1>6, <1>7, <1>8 DEF Next
<1> QED BY <1>1, <1>9 DEF PageInv

(* The billing page shows the subscription there is, when nothing is under *)
(* way, no request was cut and nobody else changed it since the page       *)
(* fetched it, however clicks, fetches and the tabs' mounts interleave     *)
(* (billing/page.tsx).                                                     *)
THEOREM ShownCorrect == Spec => []SubscriptionShown
<1>1. PageInv => SubscriptionShown
  <2> SUFFICES ASSUME PageInv, Settled PROVE cached = sub
    BY DEF SubscriptionShown
  <2>1. ASSUME NEW r \in Requests PROVE ~Overtaking(r)
    BY DEF Settled, Overtaking, At
  <2> QED BY <2>1 DEF PageInv, ShownInv, Overtaken, Settled
<1> QED BY <1>1, PageInitially, PageStep, PTL DEF Spec
=============================================================================
