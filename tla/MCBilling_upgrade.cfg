SPECIFICATION Spec
CONSTANTS
  s1 = s1  s2 = s2  basic = basic  premium = premium  free = free  i1 = i1  i2 = i2
  co1 = co1  renew1 = renew1  fail1 = fail1  del1 = del1
  co2 = co2  renew2 = renew2
  d1 = d1  d2 = d2  u1 = u1
  NoStripe = NoStripe  NoPlan = NoPlan
  StripeSubs = {s1, s2}
  Plans = {basic, premium, free}
  FreePlans = {free}
  Invoices = {i1, i2}
  Events = {co1, renew1, co2}
  Detail <- Told
  Deliveries = {d1}
  Users = {}
  Faults = {}
  MaxFaults = 0
INVARIANTS
  AtMostOneActive
