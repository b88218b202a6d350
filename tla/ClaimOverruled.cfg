SPECIFICATION Spec
CONSTANTS
  u1 = u1  u2 = u2  k1 = k1  k2 = k2  s1 = s1  s2 = s2
  NoUser = NoUser  NoSession = NoSession
  Users = {u1}
  Sessions = {k1, k2}
  Slots = {s1, s2}
  Verdicts = {"Approved", "Declined"}
  MaxAttempts = 1
  MaxHooks = 2
PROPERTIES OverruledIsTold
