---------------------------- MODULE MCHelloSpec ----------------------------
EXTENDS HelloSpec

(* Two server names; the limits of the padding style are crossed byte by byte by
   the custom specs below. *)
MCHostLens == {0, 11}

FewHeads ==
    {heads \in SUBSET CoinNames : Cardinality(heads \ {"tls13"}) <= 1
                                  \/ Cardinality(CoinNames \ heads) <= 1}
MCCoins == {[name \in CoinNames |-> name \in heads] : heads \in FewHeads}
MCKeptSuites == {1, 9, 22}

(* What an application may build itself: an extension that cannot be parsed, a
   third GREASE, a second padding, a fake PSK, and one with no room to pad. *)
Custom(es) ==
    [min |-> TLS12, max |-> TLS13, suites |-> 3, suites13 |-> 3, shuffled |-> FALSE,
     curves |-> <<"x25519">>, shares |-> <<"x25519">>, versions |-> <<TLS13, TLS12>>,
     reneg |-> FALSE, exts |-> es]
Base == <<X("sni"), E("curves", 1), E("sigalgs", 4), X("key_share"), E("psk_modes", 1),
          E("versions", 2)>>
MCCustomSpecs ==
    {Custom(Base \o <<E("cookie", 8)>>),
     Custom(Base \o <<E("quic", 30)>>),
     Custom(Base \o <<X("grease"), X("grease"), X("grease")>>),
     Custom(Base \o <<X("padding"), X("padding")>>),
     Custom(Base \o <<X("fake_psk")>>),
     Custom(Base \o <<E("fake_psk", 40)>>)}
    \cup {Custom(<<X("sni"), E("alpn", n), X("padding")>> \o Tail(Base)) : n \in 0..360}
=============================================================================
