---------------------------- MODULE VersionRanges ----------------------------
(***************************************************************************)
(* How the matcher decides whether a version lies in the ranges of an      *)
(* advisory.  A version is the sequence of its segments; a segment is its  *)
(* number, or NotANumber, with the place of its text in the lexical order. *)
(* An event introduces or fixes a vulnerability at a version, or neither   *)
(* (last_affected and limit, which the client does not decode).            *)
(***************************************************************************)
EXTENDS Integers, SequencesExt

NotANumber == -1

Segment(number, text) == [number |-> number, text |-> text]

\* Missing trailing segments are zero; "0" comes first in the text order of
\* the instances.
MissingSegment == Segment(0, 0)

Ordered(x, y) == IF x < y THEN -1 ELSE IF x > y THEN 1 ELSE 0

CompareSegments(x, y) ==
  IF NotANumber \notin {x.number, y.number} THEN Ordered(x.number, y.number)
                                            ELSE Ordered(x.text, y.text)

\* -1, 0 or 1: the first segments that differ decide.
CompareVersions(a, b) ==
  LET At(v, i) == IF i <= Len(v) THEN v[i] ELSE MissingSegment
      differing == {i \in (DOMAIN a) \cup (DOMAIN b) : CompareSegments(At(a, i), At(b, i)) # 0}
      first == Min(differing)
  IN  IF differing = {} THEN 0 ELSE CompareSegments(At(a, first), At(b, first))

Reaches(version, bound) == CompareVersions(version, bound) >= 0

Introduced(v) == [kind |-> "introduced", at |-> v]
Fixed(v)      == [kind |-> "fixed", at |-> v]
Unbounded     == [kind |-> "unbounded", at |-> <<>>]

\* The walk over the events: an introduced event sets the verdict whatever it
\* was, a fixed one can only clear it.
VersionInEvents(version, events) ==
  LET Walk(state, e) ==
        CASE e.kind = "introduced" -> [bounded |-> TRUE, affected |-> Reaches(version, e.at)]
          [] e.kind = "fixed" ->
               LET armed == IF state.bounded THEN state.affected ELSE TRUE IN
                 [bounded |-> TRUE, affected |-> armed /\ ~Reaches(version, e.at)]
          [] e.kind = "unbounded" -> state
      last == FoldLeft(Walk, [bounded |-> FALSE, affected |-> FALSE], events)
  IN  ~last.bounded \/ last.affected

\* Entries of other packages are ignored; without an event in any of those of
\* the package the server's answer is trusted.
DepInAffectedRanges(dep, affected) ==
  LET matching == {entry \in affected : entry.package = dep.package}
      ranges == UNION {entry.ranges : entry \in matching}
  IN  /\ matching # {}
      /\ \/ \E events \in ranges : VersionInEvents(dep.version, events)
         \/ \A events \in ranges : events = <<>>

DepMatchesAdvisory(dep, affected) == \E entry \in affected : entry.package = dep.package

-----------------------------------------------------------------------------
(* What the comment of versionInEvents says the events mean.               *)

Documented(version, events) ==
  LET passed == {i \in DOMAIN events : Reaches(version, events[i].at)}
  IN  IF events # <<>> /\ events[1].kind = "fixed" /\ passed = {}
        THEN TRUE
        ELSE passed # {} /\ events[Max(passed)].kind = "introduced"
=============================================================================
