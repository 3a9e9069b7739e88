--------------------------- MODULE MCVersionRanges ---------------------------
(* Versions of two segments against every list of up to three events at     *)
(* increasing versions that alternate and begin with an introduction, as    *)
(* OSV writes them, or a fix alone.                                         *)
EXTENDS VersionRanges

VARIABLES version, events

\* "0", "1", "10" and "9" in the order of their texts.
MCSegments == {Segment(0, 0), Segment(1, 1), Segment(10, 2), Segment(9, 3)}
MCVersions == {<<x, y>> : x \in MCSegments, y \in {Segment(0, 0), Segment(9, 3)}}

Ascending(list) ==
  \A i \in 1..(Len(list) - 1) :
    /\ CompareVersions(list[i].at, list[i + 1].at) < 0
    /\ list[i].kind # list[i + 1].kind

MCEventLists ==
  LET bounds == {Introduced(v) : v \in MCVersions} \cup {Fixed(v) : v \in MCVersions}
  IN  {list \in UNION {[1..n -> bounds] : n \in 1..3} :
         Ascending(list) /\ (list[1].kind = "introduced" \/ Len(list) = 1)}

Init == version \in MCVersions /\ events \in MCEventLists

\* The next query.
Next == version' \in MCVersions /\ UNCHANGED events

Spec == Init /\ [][Next]_<<version, events>>

\* "introduced arms the range when the version reaches it, fixed disarms it
\* once the version reaches the fix" (matcher.go, versionInEvents): the last
\* event the version has reached decides.
RangesMeanWhatTheySay == VersionInEvents(version, events) <=> Documented(version, events)
=============================================================================
