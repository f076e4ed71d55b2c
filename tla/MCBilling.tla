------------------------------ MODULE MCBilling -----------------------------
(* Instances of Billing for TLC: the stories Stripe's events tell.         *)
EXTENDS Billing, TLC

CONSTANTS s1, s2, basic, premium, free, i1, i2,
          co1, renew1, fail1, del1, co2, renew2, d1, d2, u1

EventOf(kind, s, p, st, i) ==
  [kind |-> kind, sub |-> s, plan |-> p, status |-> st, cancels |-> FALSE, invoice |-> i]

(* s1 is bought, renewed, left unpaid and ends; s2 is bought and renewed.   *)
Story ==
  (co1 :> EventOf("checkout", s1, basic, "active", i1)) @@
  (renew1 :> EventOf("updated", s1, basic, "active", i1)) @@
  (fail1 :> EventOf("failed", s1, basic, "past_due", i2)) @@
  (del1 :> EventOf("deleted", s1, basic, "canceled", i1)) @@
  (co2 :> EventOf("checkout", s2, premium, "active", i2)) @@
  (renew2 :> EventOf("updated", s2, premium, "unpaid", i2))

Told == [e \in Events |-> Story[e]]
=============================================================================
