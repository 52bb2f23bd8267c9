SPECIFICATION Spec
CONSTANTS
  Vid = {v0, v1, v2}
  Port = {p1, p2, p3}
  BrPort = {p1, p2}
  Oid = {o0, o1, o2}
  Null = Null
  DefaultVid = v0
  DefaultOid = o0
  MaxCache = 2
INVARIANT ExistingMemberReused
