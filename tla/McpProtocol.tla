------------------------------ MODULE McpProtocol ------------------------------
(***************************************************************************)
(* What the MCP endpoint asks of a message before it calls a tool: the     *)
(* negotiation of the protocol version and the transport headers, which    *)
(* must repeat what the body says.  No session is kept: every message is   *)
(* judged by itself.                                                       *)
(*                                                                         *)
(* A message is a record: origin (allowed, or none), id (a notification    *)
(* has none), method, tool, the versions in the header, in _meta and in    *)
(* params, and the headers that name the method and the tool, decoded.     *)
(***************************************************************************)

CONSTANTS
  KnownVersions, \* of standard clients
  Latest,        \* the one of custom clients
  Absent

ASSUME McpAssumption == Latest \in KnownVersions /\ Absent \notin KnownVersions

SupportedVersions == {Latest}

\* A custom client sends its version in _meta too.
Custom(m) == m.meta # Absent

Negotiated(m) == IF m.header = Absent THEN m.std ELSE m.header

Agree(v, w) == v = w \/ Absent \in {v, w}

StrictlyValid(m) == m.header = m.meta /\ m.header \in SupportedVersions

\* A bare initialize is answered too.
InitializeIsValid(m) ==
  IF Custom(m) THEN StrictlyValid(m)
  ELSE Agree(m.header, m.std) /\ Negotiated(m) \in KnownVersions \cup {Absent}

VersionIsValid(m) ==
  IF Custom(m) THEN StrictlyValid(m)
  ELSE Agree(m.header, m.std) /\ Negotiated(m) \in KnownVersions

\* Mcp-Method and Mcp-Name: optional for a standard client.
Repeats(m, header, said) == header = said \/ (header = Absent /\ ~Custom(m))

HeadersAreValid(m) ==
  /\ Repeats(m, m.methodHeader, m.method)
  /\ m.method = "tools/call" => Repeats(m, m.nameHeader, m.tool)

\* The message reaches its method.
Dispatched(m) ==
  /\ m.origin /\ m.id
  /\ IF m.method = "initialize" THEN InitializeIsValid(m)
     ELSE VersionIsValid(m) /\ HeadersAreValid(m)

\* The version that initialize answers.
mcpNegotiateVersion(m) ==
  IF m.std \in KnownVersions THEN m.std
  ELSE IF m.meta \in KnownVersions THEN m.meta
  ELSE IF m.header \in KnownVersions THEN m.header
  ELSE Latest
=============================================================================
