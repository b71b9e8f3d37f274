SPECIFICATION Spec
CONSTANTS
  None = None
  Broken = Broken
  Logins = {"admin", "u1"}
  Passwords = {"p", "q"}
  Tokens = {"t1", "t2", "t3"}
  Sids = {"s1", "s2"}
  Clients = {1, 2}
  SubjectOf <- MCSubjectOf
  Recent = {1, 2}
  Old <- MCOld
  Worlds <- MCWorlds
  Articles = 4
  Window = 2
  MaxFaults = 2
INVARIANTS
  DataKept
  AdminRemains
  RevokedStaysOut
PROPERTIES
  EditsApply
  ComesUp
CHECK_DEADLOCK FALSE
