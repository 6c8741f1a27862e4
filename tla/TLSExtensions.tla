---------------------------- MODULE TLSExtensions ----------------------------
(***************************************************************************)
(* The ClientHello extensions of utls (u_tls_extensions.go, u_ech.go,      *)
(* u_session_ticket.go, u_pre_shared_key.go) as pure operators.            *)
(*                                                                         *)
(* An extension object is abstracted to its kind and one number n: how     *)
(* many list items, or how many variable bytes, it holds.  Each operator   *)
(* below is one Go type, and its value says what the methods of that type  *)
(* compute from n:                                                         *)
(*   len   the bytes Len announces and Read produces, header included      *)
(*   back  the n of the object Write builds from those bytes (-1 when the  *)
(*         type has no Write, so that a parsed hello cannot contain it)    *)
(*   sets  the fields of UConn.config and HandshakeState that writeToUConn *)
(*         assigns                                                         *)
(***************************************************************************)
EXTENDS Integers, Sequences

Ext(len, back, sets) == [len |-> len, back |-> back, sets |-> sets]

(* n is the length of the host name; an empty name is not sent at all, and
   parsing forgets the name, which the caller provides again. *)
SNIExtension(n) == Ext(IF n = 0 THEN 0 ELSE 9 + n, 0, {"ServerName"})

StatusRequestExtension == Ext(9, 0, {"OcspStapling"})

SupportedCurvesExtension(n) == Ext(6 + 2 * n, n, {"CurvePreferences", "SupportedCurves"})

SupportedPointsExtension(n) == Ext(5 + n, n, {"SupportedPoints"})

SignatureAlgorithmsExtension(n) == Ext(6 + 2 * n, n, {"SupportedSignatureAlgorithms"})

StatusRequestV2Extension == Ext(13, 0, {"OcspStapling"})

SignatureAlgorithmsCertExtension(n) == Ext(6 + 2 * n, n, {"SupportedSignatureAlgorithms"})

(* n counts the bytes of the protocol entries, each with its length byte. *)
ALPNExtension(n) == Ext(6 + n, n, {"NextProtos", "AlpnProtocols"})

ApplicationSettingsExtension(n) == Ext(6 + n, n, {})

SCTExtension == Ext(4, 0, {"Scts"})

(* Parsed only with AllowBluntMimicry, which is off by default. *)
GenericExtension(n) == Ext(4 + n, -1, {})

ExtendedMasterSecretExtension == Ext(4, 0, {"Ems"})

UtlsGREASEExtension(n) == Ext(4 + n, n, {})

(* n is PaddingLen + 1, or 0 when WillPad is false; parsing keeps no length,
   because the padding style computes one for the new hello. *)
UtlsPaddingExtension(n) == Ext(IF n = 0 THEN 0 ELSE 3 + n, 0, {})

UtlsCompressCertExtension(n) == Ext(5 + 2 * n, n, {"certCompressionAlgs"})

(* n counts the bytes of the key shares, 4 bytes of header each.  Parsing
   drops the keys, which are generated anew for the same groups. *)
KeyShareExtension(n) == Ext(6 + n, n, {"KeyShares"})

QUICTransportParametersExtension(n) == Ext(4 + n, -1, {})

PSKKeyExchangeModesExtension(n) == Ext(5 + n, n, {"PskModes"})

SupportedVersionsExtension(n) == Ext(5 + 2 * n, n, {"SupportedVersions"})

CookieExtension(n) == Ext(6 + n, -1, {})

NPNExtension == Ext(4, 0, {"NextProtos", "NextProtoNeg"})

(* n is the length of the finished data of an earlier handshake, which only
   a renegotiation sends. *)
RenegotiationInfoExtension(n) == Ext(5 + n, 0, {"Renegotiation", "SecureRenegotiationSupported"})

FakeChannelIDExtension == Ext(4, 0, {})

FakeRecordSizeLimitExtension == Ext(6, 0, {})

FakeTokenBindingExtension(n) == Ext(7 + n, n, {})

FakeDelegatedCredentialsExtension(n) == Ext(6 + 2 * n, n, {})

(* n is the payload length before encryption; the tag adds 16 bytes and the
   encapsulated key is an X25519 point.  writeToUConn also marshals the whole
   hello (see UConn!ApplyConfig). *)
GREASEEncryptedClientHelloExtension(n) == Ext(14 + 32 + n + 16, n, {"ech"})

(* n is the length of the ticket; SessionTicketExtension.Write keeps none. *)
SessionTicketExtension(n) == Ext(4 + n, 0, {"TicketSupported"})

(* n is the length of the one identity; a binder of a SHA-256 suite follows.
   Without an identity there are no bytes at all (pskExtLen returns 0). *)
UtlsPreSharedKeyExtension(n) ==
    Ext(IF n = 0 THEN 0 ELSE 4 + 2 + (2 + n + 4) + 2 + (1 + 32), 0, {"TicketSupported"})

(* The fake extension keeps what it parsed: identities and binders. *)
FakePreSharedKeyExtension(n) ==
    Ext(UtlsPreSharedKeyExtension(n).len, n, {"PskIdentities", "PskBinders"})

(* ExtensionFromID, over all the kinds: the type that stands for e.kind. *)
ExtensionOf(e) ==
    CASE e.kind = "sni"             -> SNIExtension(e.n)
      [] e.kind = "status"          -> StatusRequestExtension
      [] e.kind = "curves"          -> SupportedCurvesExtension(e.n)
      [] e.kind = "points"          -> SupportedPointsExtension(e.n)
      [] e.kind = "sigalgs"         -> SignatureAlgorithmsExtension(e.n)
      [] e.kind = "status_v2"       -> StatusRequestV2Extension
      [] e.kind = "sigalgs_cert"    -> SignatureAlgorithmsCertExtension(e.n)
      [] e.kind = "alpn"            -> ALPNExtension(e.n)
      [] e.kind \in {"alps", "alps_new"} -> ApplicationSettingsExtension(e.n)
      [] e.kind = "sct"             -> SCTExtension
      [] e.kind = "ems"             -> ExtendedMasterSecretExtension
      [] e.kind = "grease"          -> UtlsGREASEExtension(e.n)
      [] e.kind = "padding"         -> UtlsPaddingExtension(e.n)
      [] e.kind = "compress_cert"   -> UtlsCompressCertExtension(e.n)
      [] e.kind = "key_share"       -> KeyShareExtension(e.n)
      [] e.kind = "quic"            -> QUICTransportParametersExtension(e.n)
      [] e.kind = "psk_modes"       -> PSKKeyExchangeModesExtension(e.n)
      [] e.kind = "versions"        -> SupportedVersionsExtension(e.n)
      [] e.kind = "cookie"          -> CookieExtension(e.n)
      [] e.kind = "npn"             -> NPNExtension
      [] e.kind = "reneg"           -> RenegotiationInfoExtension(e.n)
      [] e.kind = "channel_id"      -> FakeChannelIDExtension
      [] e.kind = "record_limit"    -> FakeRecordSizeLimitExtension
      [] e.kind = "token_binding"   -> FakeTokenBindingExtension(e.n)
      [] e.kind = "delegated"       -> FakeDelegatedCredentialsExtension(e.n)
      [] e.kind = "ech"             -> GREASEEncryptedClientHelloExtension(e.n)
      [] e.kind = "ticket"          -> SessionTicketExtension(e.n)
      [] e.kind = "psk"             -> UtlsPreSharedKeyExtension(e.n)
      [] e.kind = "fake_psk"        -> FakePreSharedKeyExtension(e.n)
      [] OTHER                      -> GenericExtension(e.n)

(* Bytes of padding the two styles ask for, as PaddingLen + 1; 0 is none. *)
PadTo(unpaddedLen, total) ==
    IF total - unpaddedLen >= 5 THEN total - unpaddedLen - 3 ELSE 2

BoringPaddingStyle(unpaddedLen) ==
    IF unpaddedLen > 255 /\ unpaddedLen < 512 THEN PadTo(unpaddedLen, 512) ELSE 0

AlwaysPadToLen(padToLen, unpaddedLen) ==
    IF unpaddedLen < padToLen THEN PadTo(unpaddedLen, padToLen) ELSE 0
=============================================================================
