SPECIFICATION FairSpec
CONSTANTS
  c = c
  f1 = f1
  f2 = f2
  f3 = f3
  f4 = f4
  f5 = f5
  vul = vul
  vul2 = vul2
  p = p
  q = q
  w1 = w1
  w2 = w2
  NoVuln = NoVuln
  Scans <- MCScans
  Findings <- MCFindings
  Vulns = {vul, vul2}
  Projects = {p, q}
  Backfills = {w1, w2}
  Parsed <- MCParsed
  ScannerOf <- MCScannerOf
  UidOf <- MCUidOf
  ProjectOf <- MCProjectOf
  Suppressed = {}
  Legacy <- MCLegacy
  BatchSize = 2
  MaxFaults = 1
  MaxStarts = 2
  MaxDeletes = 1
INVARIANTS
  AggregatesCoverLinks
PROPERTIES
  BackfillEnds
CHECK_DEADLOCK FALSE
