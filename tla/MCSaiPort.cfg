SPECIFICATION Spec
CONSTANTS
  Port = {0, 1, 2}
  Oid = {5, 6}
  PortList <- MCPortList
  Vid = {1, 2}
  None = None
  Byte = {0, 2}
  Width = 2
  MaxChanges = 3
INVARIANTS AckMeansApplied ViewIsFresh
PROPERTIES EveryChangeIsReported ImplementsLinkReports
