------------------------------ MODULE MCBackfill ------------------------------
(* Backfill: two workers start over legacy rows of two projects and two     *)
(* scanners, two of the rows unlinkable, while a project may be deleted.    *)
EXTENDS FindingIngest

CONSTANTS c, f1, f2, f3, f4, f5, vul, vul2, p, q, w1, w2

MCScans     == {c}
MCFindings  == {f1, f2, f3, f4, f5}
MCParsed    == c :> <<>>
MCScannerOf == f1 :> "semgrep" @@ f2 :> "codeql" @@ f3 :> "semgrep" @@ f4 :> "semgrep"
               @@ f5 :> "codeql"
MCUidOf     == f1 :> vul @@ f2 :> vul @@ f3 :> NoVuln @@ f4 :> vul2 @@ f5 :> NoVuln
MCProjectOf == f1 :> p @@ f2 :> p @@ f3 :> p @@ f4 :> q @@ f5 :> p
MCLegacy    == <<f3, f1, f4, f2, f5>>
=============================================================================
