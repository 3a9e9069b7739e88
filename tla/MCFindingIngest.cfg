SPECIFICATION Spec
CONSTANTS
  a = a
  b = b
  c = c
  f1 = f1
  f2 = f2
  f3 = f3
  vul = vul
  p = p
  w = w
  NoVuln = NoVuln
  Scans <- MCScans
  Findings <- MCFindings
  Vulns = {vul}
  Projects = {p}
  Backfills = {w}
  Parsed <- MCParsed
  ScannerOf <- MCScannerOf
  UidOf <- MCUidOf
  ProjectOf <- MCProjectOf
  Suppressed = {f3}
  Legacy <- MCLegacy
  BatchSize = 2
  MaxFaults = 1
  MaxStarts = 1
  MaxDeletes = 0
INVARIANTS
  TypeOK
  CountIsExact
  ConfidenceNeverOverstates
  EffectsAtMostOnce
  StoredIsProcessed
CHECK_DEADLOCK FALSE
