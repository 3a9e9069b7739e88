--------------------------- MODULE McpProtocolProofs ---------------------------
(* The handshake of the MCP endpoint, for every set of versions.           *)
EXTENDS McpProtocol, TLAPS

\* initialize answers a standard client with the version it named, in the
\* header or in the parameters, "answering with an unknown future version
\* makes real clients abort" (mcpKnownVersions).
THEOREM ClientIsEchoed ==
  ASSUME NEW m, InitializeIsValid(m), ~Custom(m), Negotiated(m) # Absent
  PROVE  mcpNegotiateVersion(m) = Negotiated(m)
<1>1. m.meta \notin KnownVersions
  BY McpAssumption DEF Custom
<1>2. Negotiated(m) \in KnownVersions
  BY DEF InitializeIsValid
<1>3. CASE m.std = Absent
  <2>1. Negotiated(m) = m.header
    BY <1>3 DEF Negotiated
  <2> QED BY <1>1, <1>2, <1>3, <2>1, McpAssumption DEF mcpNegotiateVersion
<1>4. CASE m.std # Absent
  <2>1. Negotiated(m) = m.std
    BY <1>4 DEF InitializeIsValid, Agree, Negotiated
  <2> QED BY <1>2, <2>1 DEF mcpNegotiateVersion
<1> QED BY <1>3, <1>4

\* Whoever completes the handshake is served: after an initialize that was
\* answered, a message of the same client that carries the version it was
\* told passes the negotiation.  A custom client must not name two versions:
\* the one in the parameters is answered before the one in _meta.
THEOREM HandshakeIsHonoured ==
  ASSUME NEW m, InitializeIsValid(m), Custom(m) => Agree(m.std, m.meta),
         NEW n, n.meta = m.meta, n.header = mcpNegotiateVersion(m),
         n.std \in {Absent, n.header}
  PROVE  VersionIsValid(n)
<1>1. CASE Custom(m)
  <2>1. m.meta = Latest /\ m.header = Latest
    BY <1>1 DEF InitializeIsValid, StrictlyValid, SupportedVersions
  <2>2. m.std = Latest \/ m.std = Absent
    BY <1>1, <2>1 DEF Agree, Custom
  <2>3. n.header = Latest
    BY <2>1, <2>2, McpAssumption DEF mcpNegotiateVersion
  <2> QED
    BY <1>1, <2>1, <2>3 DEF VersionIsValid, StrictlyValid, SupportedVersions, Custom
<1>2. CASE ~Custom(m)
  <2>1. n.header \in KnownVersions
    BY McpAssumption DEF mcpNegotiateVersion
  <2>2. Negotiated(n) = n.header
    BY <2>1, McpAssumption DEF Negotiated
  <2>3. Agree(n.header, n.std)
    BY DEF Agree
  <2> QED BY <1>2, <2>1, <2>2, <2>3 DEF VersionIsValid, Custom
<1> QED BY <1>1, <1>2
=============================================================================
