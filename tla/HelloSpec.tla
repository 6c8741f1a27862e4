------------------------------ MODULE HelloSpec ------------------------------
(***************************************************************************)
(* How utls turns a fingerprint into the bytes of a ClientHello and back:  *)
(* the choice of the spec (utlsIdToSpec, generateRandomizedSpec), the      *)
(* shuffling of its extensions, ApplyPreset, MarshalClientHelloNoECH, and  *)
(* ClientHelloSpec.FromRaw, which reads a spec off captured bytes.         *)
(*                                                                         *)
(* Bytes are abstracted to what decides their number: the kind of each     *)
(* extension and the size of its list (module TLSExtensions).  One         *)
(* behaviour follows one hello: choose, shuffle, apply, marshal, parse,    *)
(* apply and marshal again.                                                *)
(***************************************************************************)
EXTENDS TLSExtensions, Parrots, SequencesExt, FiniteSets

CONSTANTS
    HostLens,     \* lengths of the server name that are tried
    Coins,        \* outcomes of the weighted coins of generateRandomizedSpec
    KeptSuites,   \* numbers of cipher suites removeRandomCiphers leaves
    CustomSpecs,  \* specs an application builds itself (HelloCustom)
    MaxSwaps      \* bound on the swaps a shuffle makes

ASSUME HostLensAssumption == HostLens \subseteq Nat
ASSUME KeptSuitesAssumption == KeptSuites \subseteq 1..22
ASSUME MaxSwapsAssumption == MaxSwaps \in Nat

VARIABLES
    pc,      \* "choose", "shuffle", "apply", "marshal", "parse", "done" or "failed"
    spec,    \* the ClientHelloSpec in use
    exts,    \* UConn.Extensions
    host,    \* length of config.ServerName
    omit,    \* config.OmitEmptyPsk
    swaps,   \* swaps made by the shuffle so far
    raw,     \* HandshakeState.Hello.Raw: its length, extensions and versions
    first    \* the hello the parsed spec was read from; NoHello before that

vars == <<pc, spec, exts, host, omit, swaps, raw, first>>

NoHello == [len |-> 0, kinds |-> <<>>, vers |-> <<>>]

CoinNames ==
    {"tls13", "min12", "alpn", "padding", "status", "sct", "reneg", "ems", "alps",
     "mlkem", "x25519", "p521", "firstP256", "shareP256", "shareMlkem", "sha1", "ecdsa521",
     "pss256", "pss512"}

KeyLen == [grease |-> 1, x25519 |-> 32, p256 |-> 65, p384 |-> 97, p521 |-> 133,
           mlkem |-> 1216, kyber |-> 1216]

(* generateECDHEKey and the hybrid case of ApplyPreset know these groups. *)
Supported(group) == group \in DOMAIN KeyLen

Kinds(es) == [i \in DOMAIN es |-> es[i].kind]
Has(es, kind) == \E i \in DOMAIN es : es[i].kind = kind
Count(es, kind) == Cardinality({i \in DOMAIN es : es[i].kind = kind})
Only(condition, es) == IF condition THEN es ELSE <<>>
SumOf(s) == FoldLeft(LAMBDA a, b : a + b, 0, s)

\* Variant: the PSK extension is shuffled with the others.
skipShufForgetsPsk(e) == e.kind \in {"grease", "padding"}

(* Position-invariant extensions of ShuffleChromeTLSExtensions (skipShuf). *)
skipShuf(e) == e.kind \in {"grease", "padding", "psk", "fake_psk"}

(***************************************************************************)
(* generateRandomizedSpec with the coin outcomes c and kept cipher suites. *)
(* There are 22 suites to begin with: those of shuffledCiphers, obsolete   *)
(* ones last, or with TLS 1.3 its three and all the others but RC4.        *)
(* removeRandomCiphers never removes the first, so at least one suite of   *)
(* TLS 1.3 stays.                                                          *)
(***************************************************************************)
RandomSuites(c, kept) == [suites |-> kept, suites13 |-> IF c["tls13"] THEN 1 ELSE 0]

RandomCurves(c) ==
    Only(c["mlkem"] /\ c["tls13"], <<"mlkem">>) \o
    Only(c["x25519"] \/ c["tls13"], <<"x25519">>) \o <<"p256", "p384">> \o
    Only(c["p521"], <<"p521">>)

RandomShares(c) ==
    CASE ~c["tls13"]    -> <<>>
      [] c["firstP256"] -> <<"p256">>
      [] OTHER -> Only(c["shareMlkem"], <<"mlkem">>) \o <<"x25519">> \o
                  Only(c["shareP256"], <<"p256">>)

Heads(c, names) == Cardinality({name \in names : c[name]})

RandomSigAlgs(c) ==
    6 + Heads(c, {"sha1", "ecdsa521"}) +
    (IF c["tls13"] \/ c["pss256"] THEN 1 + 2 * Heads(c, {"pss512"}) ELSE 0)

makeSupportedVersions(min, max) == [i \in 1..(max - min + 1) |-> max - i + 1]

generateRandomizedSpec(c, kept) ==
    LET min == IF c["tls13"] /\ c["min12"] THEN TLS12 ELSE TLS10
        max == IF c["tls13"] THEN TLS13 ELSE TLS12
        curves == RandomCurves(c)
        versions == IF c["tls13"] THEN makeSupportedVersions(min, max) ELSE <<>>
    IN [min |-> min, max |-> max, suites |-> RandomSuites(c, kept).suites,
        suites13 |-> RandomSuites(c, kept).suites13, shuffled |-> TRUE, curves |-> curves,
        shares |-> RandomShares(c), versions |-> versions, reneg |-> c["reneg"],
        random |-> TRUE, custom |-> FALSE, padTo |-> 0,
        exts |-> <<X("sni"), X("ticket"), E("sigalgs", RandomSigAlgs(c)), E("points", 1),
                   E("curves", Len(curves))>> \o
                 Only(c["alpn"], <<E("alpn", 12)>>) \o
                 Only(c["padding"] \/ c["tls13"], <<X("padding")>>) \o
                 Only(c["status"], <<X("status")>>) \o
                 Only(c["sct"], <<X("sct")>>) \o
                 Only(c["reneg"], <<X("reneg")>>) \o
                 Only(c["ems"], <<X("ems")>>) \o
                 Only(c["tls13"], <<X("key_share"), E("psk_modes", 1),
                                    E("versions", Len(versions))>>) \o
                 Only(c["tls13"] /\ c["alpn"] /\ c["alps"], <<E("alps", 3)>>)]

(* custom is true for a spec an application made; padTo is 0 for the style of
   BoringSSL, else the argument of AlwaysPadToLen. *)
FixedSpec(p, custom) ==
    [min |-> p.min, max |-> p.max, suites |-> p.suites, suites13 |-> p.suites13,
     shuffled |-> p.shuffled, curves |-> p.curves, shares |-> p.shares,
     versions |-> p.versions, reneg |-> p.reneg, random |-> FALSE, custom |-> custom,
     padTo |-> 0, exts |-> p.exts]

(***************************************************************************)
(* SetTLSVers: the version range of a spec, <<>> when it is refused.       *)
(***************************************************************************)
SetTLSVers(s) ==
    LET real == {s.versions[i] : i \in DOMAIN s.versions} \ {GREASE}
        range == CASE s.min # Unset \/ s.max # Unset -> <<s.min, s.max>>
                   [] ~Has(s.exts, "versions") -> <<TLS10, TLS12>>
                   [] Count(s.exts, "versions") > 1 \/ real = {} -> <<Unset, Unset>>
                   [] OTHER -> <<CHOOSE v \in real : \A w \in real : v <= w,
                                 CHOOSE v \in real : \A w \in real : v >= w>>
    IN IF range[1] \in TLS10..TLS13 /\ range[2] \in TLS10..TLS13 THEN range ELSE <<>>

(***************************************************************************)
(* ApplyPreset: the loop that completes the extensions.  SNI gets the      *)
(* server name, the second GREASE extension one byte, key shares the keys  *)
(* of their groups.                                                        *)
(***************************************************************************)
ShareBytes(shares) == SumOf([i \in DOMAIN shares |-> 4 + KeyLen[shares[i]]])

SecondGrease(es, i) == es[i].kind = "grease" /\ \E j \in 1..(i - 1) : es[j].kind = "grease"

Complete(s, es, h) ==
    [i \in DOMAIN es |->
        CASE es[i].kind = "sni"       -> E("sni", h)
          [] SecondGrease(es, i)      -> E("grease", 1)
          [] es[i].kind = "key_share" -> E("key_share", ShareBytes(s.shares))
          [] OTHER                    -> es[i]]

PresetIsRefused(s, es) ==
    \/ SetTLSVers(s) = <<>>
    \/ Count(es, "grease") > 2
    \/ \E i \in DOMAIN s.shares : ~Supported(s.shares[i])

(***************************************************************************)
(* MarshalClientHelloNoECH: two passes over the extensions, the first adds *)
(* up Len to know the padding, the second calls Read.                      *)
(***************************************************************************)
HeaderLength(s) == 2 + 32 + 1 + 32 + 2 + 2 * s.suites + 1 + 1

\* Variant: the header of the handshake message is not counted.
UnpaddedLenWithoutHeader(s, es) ==
    HeaderLength(s) + 2 +
    SumOf([i \in DOMAIN es |-> IF es[i].kind = "padding" THEN 0 ELSE ExtensionOf(es[i]).len])

UnpaddedLen(s, es) ==
    HeaderLength(s) + 4 + 2 +
    SumOf([i \in DOMAIN es |-> IF es[i].kind = "padding" THEN 0 ELSE ExtensionOf(es[i]).len])

GetPaddingLen(s, unpaddedLen) ==
    IF s.padTo = 0 THEN BoringPaddingStyle(unpaddedLen) ELSE AlwaysPadToLen(s.padTo, unpaddedLen)

Padded(s, es) ==
    [i \in DOMAIN es |-> IF es[i].kind = "padding"
                         THEN E("padding", GetPaddingLen(s, UnpaddedLen(s, es))) ELSE es[i]]

HelloLen(s, es) == HeaderLength(s) + 4 + 2 + SumOf([i \in DOMAIN es |-> ExtensionOf(es[i]).len])

Written(es) == SelectSeq(es, LAMBDA e : ExtensionOf(e).len > 0)

(* Read of an empty real PSK extension is an error unless it may be omitted. *)
MarshalIsRefused(es) ==
    \/ Count(es, "padding") > 1
    \/ ~omit /\ \E i \in DOMAIN es : es[i].kind \in {"psk", "fake_psk"} /\ ExtensionOf(es[i]).len = 0

(***************************************************************************)
(* ClientHelloSpec.FromRaw and ReadTLSExtensions.  The captured hello was  *)
(* written by this library, so its record version is TLS 1.0 and its       *)
(* handshake version TLS 1.2 at most.                                      *)
(***************************************************************************)
ReadTLSExtensions(es) == [i \in DOMAIN es |-> E(es[i].kind, ExtensionOf(es[i]).back)]

\* Variant: the padding length counts the record header.
FromRawWithRecordHeader(s, es, len) ==
    [s EXCEPT !.exts = ReadTLSExtensions(Written(es)),
              !.padTo = IF Has(Written(es), "padding") THEN len + 5 ELSE 0,
              !.random = FALSE, !.shuffled = FALSE]

FromRaw(s, es, len) ==
    LET wire == Written(es)
        versions == Has(wire, "versions")
    IN [s EXCEPT !.exts = ReadTLSExtensions(wire),
                 !.min = IF versions THEN Unset ELSE TLS10,
                 !.max = IF versions THEN Unset ELSE TLS12,
                 !.padTo = IF Has(wire, "padding") THEN len ELSE 0,
                 !.random = FALSE, !.shuffled = FALSE]

(* Fingerprinter.AlwaysAddPadding: at the end, or in front of the first PSK
   when no padding comes before that. *)
AlwaysAddPadding(es) ==
    LET stops == {i \in DOMAIN es : es[i].kind \in {"padding", "psk", "fake_psk"}}
        at == CHOOSE i \in stops : \A j \in stops : i <= j
    IN CASE stops = {}                -> Append(es, X("padding"))
         [] es[at].kind = "padding"   -> es
         [] OTHER                     -> InsertAt(es, at, X("padding"))

-----------------------------------------------------------------------------
Init ==
    /\ pc = "choose"
    /\ spec = FixedSpec(Chrome_58, FALSE)
    /\ exts = <<>>
    /\ host \in HostLens
    /\ omit \in BOOLEAN
    /\ swaps = 0
    /\ raw = NoHello
    /\ first = NoHello

Choose(s) ==
    /\ pc = "choose"
    /\ spec' = s
    /\ exts' = s.exts
    /\ pc' = "shuffle"
    /\ UNCHANGED <<host, omit, swaps, raw, first>>

(* The specs an application can ask for, by fingerprint or as its own. *)
ParrotSpecs == {FixedSpec(utlsIdToSpec[name], FALSE) : name \in ParrotNames}
OwnSpecs == {FixedSpec(s, TRUE) : s \in CustomSpecs}
RandomizedSpecs == {generateRandomizedSpec(c, kept) : c \in Coins, kept \in KeptSuites}

ChooseParrot == \E s \in ParrotSpecs : Choose(s)
ChooseRandomized == \E s \in RandomizedSpecs : Choose(s)
ChooseCustom == \E s \in OwnSpecs : Choose(s)

(* One swap of ShuffleChromeTLSExtensions; the shuffle of a randomized spec
   moves every extension. *)
ShuffleChromeTLSExtensions ==
    /\ pc = "shuffle" /\ spec.shuffled /\ swaps < MaxSwaps
    /\ \E i, j \in DOMAIN exts :
          /\ i < j
          /\ spec.random \/ (~skipShuf(exts[i]) /\ ~skipShuf(exts[j]))
          /\ exts' = [exts EXCEPT ![i] = exts[j], ![j] = exts[i]]
    /\ swaps' = swaps + 1
    /\ UNCHANGED <<pc, spec, host, omit, raw, first>>

ShuffleDone ==
    /\ pc = "shuffle"
    /\ pc' = "apply"
    /\ UNCHANGED <<spec, exts, host, omit, swaps, raw, first>>

ApplyPreset ==
    /\ pc = "apply"
    /\ pc' = IF PresetIsRefused(spec, exts) THEN "failed" ELSE "marshal"
    /\ exts' = IF PresetIsRefused(spec, exts) THEN exts ELSE Complete(spec, exts, host)
    /\ UNCHANGED <<spec, host, omit, swaps, raw, first>>

MarshalClientHelloNoECH ==
    /\ pc = "marshal"
    /\ IF MarshalIsRefused(exts)
       THEN pc' = "failed" /\ UNCHANGED <<exts, raw>>
       ELSE /\ exts' = Padded(spec, exts)
            /\ raw' = [len |-> HelloLen(spec, exts'), kinds |-> Kinds(Written(exts')),
                       vers |-> SetTLSVers(spec)]
            /\ pc' = IF first = NoHello THEN "parse" ELSE "done"
    /\ UNCHANGED <<spec, host, omit, swaps, first>>

RawClientHello ==
    /\ pc = "parse"
    /\ IF \E i \in DOMAIN Written(exts) : ExtensionOf(Written(exts)[i]).back < 0
       THEN pc' = "failed" /\ UNCHANGED <<spec, exts, first>>
       ELSE /\ spec' = FromRaw(spec, exts, raw.len)
            /\ exts' \in {spec'.exts, AlwaysAddPadding(spec'.exts)}
            /\ first' = raw
            /\ pc' = "apply"
    /\ UNCHANGED <<host, omit, swaps, raw>>

Finished == pc \in {"done", "failed"} /\ UNCHANGED vars

Next ==
    \/ ChooseParrot \/ ChooseRandomized \/ ChooseCustom
    \/ ShuffleChromeTLSExtensions \/ ShuffleDone
    \/ ApplyPreset \/ MarshalClientHelloNoECH \/ RawClientHello
    \/ Finished

Spec == Init /\ [][Next]_vars

-----------------------------------------------------------------------------
Marshalled == pc \in {"parse", "done"}

(* What the parrots, the randomized generator and the shuffle promise: no
   kind twice but GREASE, PSK in the last place, a GREASE extension first when
   the spec begins with one, and for TLS 1.3 every extension a server needs to
   answer (u_parrots.go). *)
HelloWellFormed ==
    Marshalled /\ first = NoHello /\ ~spec.custom =>
        /\ \A i, j \in DOMAIN raw.kinds :
              raw.kinds[i] = raw.kinds[j] => i = j \/ raw.kinds[i] = "grease"
        /\ Count(exts, "grease") <= 2
        /\ \A i \in DOMAIN exts : exts[i].kind \in {"psk", "fake_psk"} => i = Len(exts)
        /\ spec.exts[1].kind = "grease" => raw.kinds[1] = "grease"
        /\ raw.vers[2] = TLS13 =>
              /\ spec.suites13 > 0
              /\ \A kind \in {"versions", "key_share", "psk_modes", "curves", "sigalgs"} :
                    Has(exts, kind)

(* A hello that carries the padding extension stays clear of the lengths that
   buggy servers reject: padding is computed before it is added, and the four
   bytes of its header may themselves cross the limit (BoringPaddingStyle).  The
   same holds for padding that the fingerprinter added to a parsed hello. *)
PaddedLength ==
    Marshalled /\ spec.padTo = 0 /\ Has(exts, "padding") => raw.len \notin 256..511

(* A hello written by utls, parsed by FromRaw and applied again to the same
   server name is the same hello, as long and with the same extensions in the
   same order, but for padding added by the fingerprinter; the versions it may
   negotiate are never more than before, and applying it is never refused. *)
RoundTrip ==
    /\ first # NoHello => pc # "failed"
    /\ pc = "done" =>
        /\ \/ raw.kinds \in {first.kinds, Append(first.kinds, "padding")}
           \/ /\ Last(first.kinds) = "fake_psk"
              /\ raw.kinds = InsertAt(first.kinds, Len(first.kinds), "padding")
        /\ raw.kinds = first.kinds => raw.len = first.len
        /\ first.vers[1] <= raw.vers[1] /\ raw.vers[2] <= first.vers[2]
=============================================================================
