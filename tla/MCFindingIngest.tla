--------------------------- MODULE MCFindingIngest ---------------------------
(* Ingestion: scans a and b of one scanner report f1 in common, scan c      *)
(* another scanner's finding of the same vulnerability; f3 has no vuln_uid  *)
(* and is suppressed.                                                       *)
EXTENDS FindingIngest

CONSTANTS a, b, c, f1, f2, f3, vul, p, w

MCScans     == {a, b, c}
MCFindings  == {f1, f2, f3}
MCParsed    == a :> <<f3, f1>> @@ b :> <<f1>> @@ c :> <<f2>>
MCScannerOf == f1 :> "semgrep" @@ f2 :> "codeql" @@ f3 :> "semgrep"
MCUidOf     == f1 :> vul @@ f2 :> vul @@ f3 :> NoVuln
MCProjectOf == [f \in MCFindings |-> p]
MCLegacy    == <<>>
=============================================================================
