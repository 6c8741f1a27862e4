------------------------------- MODULE Parrots -------------------------------
(***************************************************************************)
(* The browser fingerprints of utls, utlsIdToSpec in u_parrots.go: one     *)
(* definition per ClientHelloSpec, in the order of its switch.             *)
(*                                                                         *)
(*   min, max   TLSVersMin and TLSVersMax, Unset when the spec leaves them *)
(*              to the supported_versions extension                        *)
(*   suites     number of cipher suites, suites13 those of TLS 1.3         *)
(*   curves, shares, versions                                              *)
(*              the lists of the three extensions the negotiation uses     *)
(*   reneg      the renegotiation extension allows one renegotiation       *)
(*   shuffled   the spec goes through ShuffleChromeTLSExtensions           *)
(*   exts       the extensions in order, each with the size of its list    *)
(*              (bytes for protocol lists, payload for ECH); see           *)
(*              TLSExtensions.  A GREASE ECH with several payload lengths  *)
(*              is given the longest.                                      *)
(***************************************************************************)
EXTENDS Integers, Sequences

GREASE == 0
Unset == 0
TLS10 == 769
TLS11 == 770
TLS12 == 771
TLS13 == 772

E(kind, n) == [kind |-> kind, n |-> n]
X(kind) == E(kind, 0)

Chrome_58 ==
    [min |-> TLS10, max |-> TLS12, suites |-> 14, suites13 |-> 0, shuffled |-> FALSE,
     curves |-> <<"grease", "x25519", "p256", "p384">>, shares |-> <<>>,
     versions |-> <<>>, reneg |-> TRUE,
     exts |-> <<
               X("grease"), X("reneg"), X("sni"), X("ems"), X("ticket"),
               E("sigalgs", 9), X("status"), X("sct"), E("alpn", 12), X("channel_id"),
               E("points", 1), E("curves", 4), X("grease"), X("padding") >>]

Chrome_70 ==
    [min |-> TLS10, max |-> TLS13, suites |-> 17, suites13 |-> 3, shuffled |-> FALSE,
     curves |-> <<"grease", "x25519", "p256", "p384">>, shares |-> <<"grease", "x25519">>,
     versions |-> <<GREASE, TLS13, TLS12, TLS11, TLS10>>, reneg |-> TRUE,
     exts |-> <<
               X("grease"), X("reneg"), X("sni"), X("ems"), X("ticket"),
               E("sigalgs", 9), X("status"), X("sct"), E("alpn", 12), X("channel_id"),
               E("points", 1), X("key_share"), E("psk_modes", 1), E("versions", 5),
               E("curves", 4), E("compress_cert", 1), X("grease"), X("padding") >>]

Chrome_72 ==
    [min |-> Unset, max |-> Unset, suites |-> 17, suites13 |-> 3, shuffled |-> FALSE,
     curves |-> <<"grease", "x25519", "p256", "p384">>, shares |-> <<"grease", "x25519">>,
     versions |-> <<GREASE, TLS13, TLS12, TLS11, TLS10>>, reneg |-> TRUE,
     exts |-> <<
               X("grease"), X("sni"), X("ems"), X("reneg"), E("curves", 4),
               E("points", 1), X("ticket"), E("alpn", 12), X("status"),
               E("sigalgs", 9), X("sct"), X("key_share"), E("psk_modes", 1),
               E("versions", 5), E("compress_cert", 1), X("grease"), X("padding") >>]

Chrome_83 ==
    [min |-> Unset, max |-> Unset, suites |-> 16, suites13 |-> 3, shuffled |-> FALSE,
     curves |-> <<"grease", "x25519", "p256", "p384">>, shares |-> <<"grease", "x25519">>,
     versions |-> <<GREASE, TLS13, TLS12, TLS11, TLS10>>, reneg |-> TRUE,
     exts |-> <<
               X("grease"), X("sni"), X("ems"), X("reneg"), E("curves", 4),
               E("points", 1), X("ticket"), E("alpn", 12), X("status"),
               E("sigalgs", 8), X("sct"), X("key_share"), E("psk_modes", 1),
               E("versions", 5), E("compress_cert", 1), X("grease"), X("padding") >>]

Chrome_87 ==
    [min |-> Unset, max |-> Unset, suites |-> 16, suites13 |-> 3, shuffled |-> FALSE,
     curves |-> <<"grease", "x25519", "p256", "p384">>, shares |-> <<"grease", "x25519">>,
     versions |-> <<GREASE, TLS13, TLS12, TLS11, TLS10>>, reneg |-> TRUE,
     exts |-> <<
               X("grease"), X("sni"), X("ems"), X("reneg"), E("curves", 4),
               E("points", 1), X("ticket"), E("alpn", 12), X("status"),
               E("sigalgs", 8), X("sct"), X("key_share"), E("psk_modes", 1),
               E("versions", 5), E("compress_cert", 1), X("grease"), X("padding") >>]

Chrome_96 ==
    [min |-> Unset, max |-> Unset, suites |-> 16, suites13 |-> 3, shuffled |-> FALSE,
     curves |-> <<"grease", "x25519", "p256", "p384">>, shares |-> <<"grease", "x25519">>,
     versions |-> <<GREASE, TLS13, TLS12, TLS11, TLS10>>, reneg |-> TRUE,
     exts |-> <<
               X("grease"), X("sni"), X("ems"), X("reneg"), E("curves", 4),
               E("points", 1), X("ticket"), E("alpn", 12), X("status"),
               E("sigalgs", 8), X("sct"), X("key_share"), E("psk_modes", 1),
               E("versions", 5), E("compress_cert", 1), E("alps", 3), X("grease"),
               X("padding") >>]

Chrome_100 ==
    [min |-> Unset, max |-> Unset, suites |-> 16, suites13 |-> 3, shuffled |-> FALSE,
     curves |-> <<"grease", "x25519", "p256", "p384">>, shares |-> <<"grease", "x25519">>,
     versions |-> <<GREASE, TLS13, TLS12>>, reneg |-> TRUE,
     exts |-> <<
               X("grease"), X("sni"), X("ems"), X("reneg"), E("curves", 4),
               E("points", 1), X("ticket"), E("alpn", 12), X("status"),
               E("sigalgs", 8), X("sct"), X("key_share"), E("psk_modes", 1),
               E("versions", 3), E("compress_cert", 1), E("alps", 3), X("grease"),
               X("padding") >>]

Chrome_106_Shuffle ==
    [min |-> Unset, max |-> Unset, suites |-> 16, suites13 |-> 3, shuffled |-> TRUE,
     curves |-> <<"grease", "x25519", "p256", "p384">>, shares |-> <<"grease", "x25519">>,
     versions |-> <<GREASE, TLS13, TLS12>>, reneg |-> TRUE,
     exts |-> <<
               X("grease"), X("sni"), X("ems"), X("reneg"), E("curves", 4),
               E("points", 1), X("ticket"), E("alpn", 12), X("status"),
               E("sigalgs", 8), X("sct"), X("key_share"), E("psk_modes", 1),
               E("versions", 3), E("compress_cert", 1), E("alps", 3), X("grease"),
               X("padding") >>]

Chrome_115_PQ ==
    [min |-> Unset, max |-> Unset, suites |-> 16, suites13 |-> 3, shuffled |-> TRUE,
     curves |-> <<"grease", "kyber", "x25519", "p256", "p384">>, shares |-> <<"grease", "kyber", "x25519">>,
     versions |-> <<GREASE, TLS13, TLS12>>, reneg |-> TRUE,
     exts |-> <<
               X("grease"), X("sni"), X("ems"), X("reneg"), E("curves", 5),
               E("points", 1), X("ticket"), E("alpn", 12), X("status"),
               E("sigalgs", 8), X("sct"), X("key_share"), E("psk_modes", 1),
               E("versions", 3), E("compress_cert", 1), E("alps", 3), X("grease"),
               X("padding") >>]

Chrome_120 ==
    [min |-> Unset, max |-> Unset, suites |-> 16, suites13 |-> 3, shuffled |-> TRUE,
     curves |-> <<"grease", "x25519", "p256", "p384">>, shares |-> <<"grease", "x25519">>,
     versions |-> <<GREASE, TLS13, TLS12>>, reneg |-> TRUE,
     exts |-> <<
               X("grease"), X("sni"), X("ems"), X("reneg"), E("curves", 4),
               E("points", 1), X("ticket"), E("alpn", 12), X("status"),
               E("sigalgs", 8), X("sct"), X("key_share"), E("psk_modes", 1),
               E("versions", 3), E("compress_cert", 1), E("alps", 3), E("ech", 224),
               X("grease"), X("padding") >>]

Chrome_120_PQ ==
    [min |-> Unset, max |-> Unset, suites |-> 16, suites13 |-> 3, shuffled |-> TRUE,
     curves |-> <<"grease", "kyber", "x25519", "p256", "p384">>, shares |-> <<"grease", "kyber", "x25519">>,
     versions |-> <<GREASE, TLS13, TLS12>>, reneg |-> TRUE,
     exts |-> <<
               X("grease"), X("sni"), X("ems"), X("reneg"), E("curves", 5),
               E("points", 1), X("ticket"), E("alpn", 12), X("status"),
               E("sigalgs", 8), X("sct"), X("key_share"), E("psk_modes", 1),
               E("versions", 3), E("compress_cert", 1), E("alps", 3), E("ech", 224),
               X("grease") >>]

Chrome_131 ==
    [min |-> Unset, max |-> Unset, suites |-> 16, suites13 |-> 3, shuffled |-> TRUE,
     curves |-> <<"grease", "mlkem", "x25519", "p256", "p384">>, shares |-> <<"grease", "mlkem", "x25519">>,
     versions |-> <<GREASE, TLS13, TLS12>>, reneg |-> TRUE,
     exts |-> <<
               X("grease"), X("sni"), X("ems"), X("reneg"), E("curves", 5),
               E("points", 1), X("ticket"), E("alpn", 12), X("status"),
               E("sigalgs", 8), X("sct"), X("key_share"), E("psk_modes", 1),
               E("versions", 3), E("compress_cert", 1), E("alps", 3), E("ech", 224),
               X("grease") >>]

Chrome_133 ==
    [min |-> Unset, max |-> Unset, suites |-> 16, suites13 |-> 3, shuffled |-> TRUE,
     curves |-> <<"grease", "mlkem", "x25519", "p256", "p384">>, shares |-> <<"grease", "mlkem", "x25519">>,
     versions |-> <<GREASE, TLS13, TLS12>>, reneg |-> TRUE,
     exts |-> <<
               X("grease"), X("sni"), X("ems"), X("reneg"), E("curves", 5),
               E("points", 1), X("ticket"), E("alpn", 12), X("status"),
               E("sigalgs", 8), X("sct"), X("key_share"), E("psk_modes", 1),
               E("versions", 3), E("compress_cert", 1), E("alps_new", 3),
               E("ech", 224), X("grease") >>]

Firefox_55 ==
    [min |-> TLS10, max |-> TLS12, suites |-> 15, suites13 |-> 0, shuffled |-> FALSE,
     curves |-> <<"x25519", "p256", "p384", "p521">>, shares |-> <<>>,
     versions |-> <<>>, reneg |-> TRUE,
     exts |-> <<
               X("sni"), X("ems"), X("reneg"), E("curves", 4), E("points", 1),
               X("ticket"), E("alpn", 12), X("status"), E("sigalgs", 11), X("padding") >>]

Firefox_63 ==
    [min |-> TLS10, max |-> TLS13, suites |-> 18, suites13 |-> 3, shuffled |-> FALSE,
     curves |-> <<"x25519", "p256", "p384", "p521", "ffdhe2048", "ffdhe3072">>, shares |-> <<"x25519", "p256">>,
     versions |-> <<TLS13, TLS12, TLS11, TLS10>>, reneg |-> TRUE,
     exts |-> <<
               X("sni"), X("ems"), X("reneg"), E("curves", 6), E("points", 1),
               X("ticket"), E("alpn", 12), X("status"), X("key_share"),
               E("versions", 4), E("sigalgs", 11), E("psk_modes", 1),
               X("record_limit"), X("padding") >>]

Firefox_99 ==
    [min |-> TLS10, max |-> TLS13, suites |-> 18, suites13 |-> 3, shuffled |-> FALSE,
     curves |-> <<"x25519", "p256", "p384", "p521", "ffdhe2048", "ffdhe3072">>, shares |-> <<"x25519", "p256">>,
     versions |-> <<TLS13, TLS12, TLS11, TLS10>>, reneg |-> TRUE,
     exts |-> <<
               X("sni"), X("ems"), X("reneg"), E("curves", 6), E("points", 1),
               X("ticket"), E("alpn", 12), X("status"), E("delegated", 4),
               X("key_share"), E("versions", 4), E("sigalgs", 11), E("psk_modes", 1),
               X("record_limit"), X("padding") >>]

Firefox_102 ==
    [min |-> TLS10, max |-> TLS13, suites |-> 17, suites13 |-> 3, shuffled |-> FALSE,
     curves |-> <<"x25519", "p256", "p384", "p521", "ffdhe2048", "ffdhe3072">>, shares |-> <<"x25519", "p256">>,
     versions |-> <<TLS13, TLS12>>, reneg |-> TRUE,
     exts |-> <<
               X("sni"), X("ems"), X("reneg"), E("curves", 6), E("points", 1),
               X("ticket"), E("alpn", 3), X("status"), E("delegated", 4),
               X("key_share"), E("versions", 2), E("sigalgs", 11), E("psk_modes", 1),
               X("record_limit"), X("padding") >>]

Firefox_105 ==
    [min |-> TLS12, max |-> TLS13, suites |-> 17, suites13 |-> 3, shuffled |-> FALSE,
     curves |-> <<"x25519", "p256", "p384", "p521", "ffdhe2048", "ffdhe3072">>, shares |-> <<"x25519", "p256">>,
     versions |-> <<TLS13, TLS12>>, reneg |-> TRUE,
     exts |-> <<
               X("sni"), X("ems"), X("reneg"), E("curves", 6), E("points", 1),
               X("ticket"), E("alpn", 12), X("status"), E("delegated", 4),
               X("key_share"), E("versions", 2), E("sigalgs", 11), E("psk_modes", 1),
               X("record_limit"), X("padding") >>]

Firefox_120 ==
    [min |-> TLS12, max |-> TLS13, suites |-> 17, suites13 |-> 3, shuffled |-> FALSE,
     curves |-> <<"x25519", "p256", "p384", "p521", "ffdhe2048", "ffdhe3072">>, shares |-> <<"x25519", "p256">>,
     versions |-> <<TLS13, TLS12>>, reneg |-> TRUE,
     exts |-> <<
               X("sni"), X("ems"), X("reneg"), E("curves", 6), E("points", 1),
               X("ticket"), E("alpn", 12), X("status"), E("delegated", 4),
               X("key_share"), E("versions", 2), E("sigalgs", 11), E("psk_modes", 1),
               X("record_limit"), E("ech", 223) >>]

IOS_11_1 ==
    [min |-> TLS10, max |-> TLS12, suites |-> 20, suites13 |-> 0, shuffled |-> FALSE,
     curves |-> <<"x25519", "p256", "p384", "p521">>, shares |-> <<>>,
     versions |-> <<>>, reneg |-> TRUE,
     exts |-> <<
               X("reneg"), X("sni"), X("ems"), E("sigalgs", 9), X("status"), X("npn"),
               X("sct"), E("alpn", 46), E("points", 1), E("curves", 4) >>]

IOS_12_1 ==
    [min |-> Unset, max |-> Unset, suites |-> 23, suites13 |-> 0, shuffled |-> FALSE,
     curves |-> <<"x25519", "p256", "p384", "p521">>, shares |-> <<>>,
     versions |-> <<>>, reneg |-> TRUE,
     exts |-> <<
               X("reneg"), X("sni"), X("ems"), E("sigalgs", 11), X("status"), X("npn"),
               X("sct"), E("alpn", 46), E("points", 1), E("curves", 4) >>]

IOS_13 ==
    [min |-> Unset, max |-> Unset, suites |-> 26, suites13 |-> 3, shuffled |-> FALSE,
     curves |-> <<"x25519", "p256", "p384", "p521">>, shares |-> <<"x25519">>,
     versions |-> <<TLS13, TLS12, TLS11, TLS10>>, reneg |-> TRUE,
     exts |-> <<
               X("reneg"), X("sni"), X("ems"), E("sigalgs", 11), X("status"), X("sct"),
               E("alpn", 12), E("points", 1), X("key_share"), E("psk_modes", 1),
               E("versions", 4), E("curves", 4), X("padding") >>]

IOS_14 ==
    [min |-> Unset, max |-> Unset, suites |-> 27, suites13 |-> 3, shuffled |-> FALSE,
     curves |-> <<"grease", "x25519", "p256", "p384", "p521">>, shares |-> <<"grease", "x25519">>,
     versions |-> <<GREASE, TLS13, TLS12, TLS11, TLS10>>, reneg |-> TRUE,
     exts |-> <<
               X("grease"), X("sni"), X("ems"), X("reneg"), E("curves", 5),
               E("points", 1), E("alpn", 12), X("status"), E("sigalgs", 11), X("sct"),
               X("key_share"), E("psk_modes", 1), E("versions", 5), X("grease"),
               X("padding") >>]

Android_11_OkHttp ==
    [min |-> Unset, max |-> Unset, suites |-> 12, suites13 |-> 0, shuffled |-> FALSE,
     curves |-> <<"x25519", "p256", "p384">>, shares |-> <<>>,
     versions |-> <<>>, reneg |-> FALSE,
     exts |-> <<
               X("sni"), X("ems"), X("reneg"), E("curves", 3), E("points", 1),
               X("status"), E("sigalgs", 9) >>]

Edge_85 ==
    [min |-> Unset, max |-> Unset, suites |-> 16, suites13 |-> 3, shuffled |-> FALSE,
     curves |-> <<"grease", "x25519", "p256", "p384">>, shares |-> <<"grease", "x25519">>,
     versions |-> <<GREASE, TLS13, TLS12, TLS11, TLS10>>, reneg |-> TRUE,
     exts |-> <<
               X("grease"), X("sni"), X("ems"), X("reneg"), E("curves", 4),
               E("points", 1), X("ticket"), E("alpn", 12), X("status"),
               E("sigalgs", 8), X("sct"), X("key_share"), E("psk_modes", 1),
               E("versions", 5), E("compress_cert", 1), X("grease"), X("padding") >>]

Edge_106 ==
    [min |-> TLS12, max |-> TLS13, suites |-> 16, suites13 |-> 3, shuffled |-> FALSE,
     curves |-> <<"grease", "x25519", "p256", "p384">>, shares |-> <<"grease", "x25519">>,
     versions |-> <<GREASE, TLS13, TLS12>>, reneg |-> TRUE,
     exts |-> <<
               X("grease"), X("sni"), X("ems"), X("reneg"), E("curves", 4),
               E("points", 1), X("ticket"), E("alpn", 12), X("status"),
               E("sigalgs", 8), X("sct"), X("key_share"), E("psk_modes", 1),
               E("versions", 3), E("compress_cert", 1), E("alps", 3), X("grease"),
               X("padding") >>]

Safari_16_0 ==
    [min |-> TLS10, max |-> TLS13, suites |-> 21, suites13 |-> 3, shuffled |-> FALSE,
     curves |-> <<"grease", "x25519", "p256", "p384", "p521">>, shares |-> <<"grease", "x25519">>,
     versions |-> <<GREASE, TLS13, TLS12, TLS11, TLS10>>, reneg |-> TRUE,
     exts |-> <<
               X("grease"), X("sni"), X("ems"), X("reneg"), E("curves", 5),
               E("points", 1), E("alpn", 12), X("status"), E("sigalgs", 11), X("sct"),
               X("key_share"), E("psk_modes", 1), E("versions", 5),
               E("compress_cert", 1), X("grease"), X("padding") >>]

Browser360_7_5 ==
    [min |-> Unset, max |-> Unset, suites |-> 20, suites13 |-> 0, shuffled |-> FALSE,
     curves |-> <<"p256", "p384", "p521">>, shares |-> <<>>,
     versions |-> <<>>, reneg |-> TRUE,
     exts |-> <<
               X("sni"), X("reneg"), E("curves", 3), E("points", 1), X("ticket"),
               X("npn"), E("alpn", 32), X("channel_id"), X("status"), E("sigalgs", 8) >>]

Browser360_11_0 ==
    [min |-> TLS10, max |-> TLS13, suites |-> 17, suites13 |-> 3, shuffled |-> FALSE,
     curves |-> <<"grease", "x25519", "p256", "p384">>, shares |-> <<"grease", "x25519">>,
     versions |-> <<GREASE, TLS13, TLS12, TLS11, TLS10>>, reneg |-> TRUE,
     exts |-> <<
               X("grease"), X("sni"), X("ems"), X("reneg"), E("curves", 4),
               E("points", 1), X("ticket"), E("alpn", 12), X("status"),
               E("sigalgs", 9), X("sct"), X("channel_id"), X("key_share"),
               E("psk_modes", 1), E("versions", 5), E("compress_cert", 1), X("grease"),
               X("padding") >>]

QQ_11_1 ==
    [min |-> TLS10, max |-> TLS13, suites |-> 16, suites13 |-> 3, shuffled |-> FALSE,
     curves |-> <<"grease", "x25519", "p256", "p384">>, shares |-> <<"grease", "x25519">>,
     versions |-> <<GREASE, TLS13, TLS12, TLS11, TLS10>>, reneg |-> TRUE,
     exts |-> <<
               X("grease"), X("sni"), X("ems"), X("reneg"), E("curves", 4),
               E("points", 1), X("ticket"), E("alpn", 12), X("status"),
               E("sigalgs", 8), X("sct"), X("key_share"), E("psk_modes", 1),
               E("versions", 5), E("compress_cert", 1), E("alps", 3), X("grease"),
               X("padding") >>]

Chrome_100_PSK ==
    [min |-> Unset, max |-> Unset, suites |-> 16, suites13 |-> 3, shuffled |-> FALSE,
     curves |-> <<"grease", "x25519", "p256", "p384">>, shares |-> <<"grease", "x25519">>,
     versions |-> <<GREASE, TLS13, TLS12>>, reneg |-> TRUE,
     exts |-> <<
               X("grease"), X("sni"), X("ems"), X("reneg"), E("curves", 4),
               E("points", 1), X("ticket"), E("alpn", 12), X("status"),
               E("sigalgs", 8), X("sct"), X("key_share"), E("psk_modes", 1),
               E("versions", 3), E("compress_cert", 1), E("alps", 3), X("grease"),
               X("psk") >>]

Chrome_112_PSK_Shuf ==
    [min |-> Unset, max |-> Unset, suites |-> 16, suites13 |-> 3, shuffled |-> TRUE,
     curves |-> <<"grease", "x25519", "p256", "p384">>, shares |-> <<"grease", "x25519">>,
     versions |-> <<GREASE, TLS13, TLS12>>, reneg |-> TRUE,
     exts |-> <<
               X("grease"), X("sni"), X("ems"), X("reneg"), E("curves", 4),
               E("points", 1), X("ticket"), E("alpn", 12), X("status"),
               E("sigalgs", 8), X("sct"), X("key_share"), E("psk_modes", 1),
               E("versions", 3), E("compress_cert", 1), E("alps", 3), X("grease"),
               X("psk") >>]

Chrome_114_Padding_PSK_Shuf ==
    [min |-> Unset, max |-> Unset, suites |-> 16, suites13 |-> 3, shuffled |-> TRUE,
     curves |-> <<"grease", "x25519", "p256", "p384">>, shares |-> <<"grease", "x25519">>,
     versions |-> <<GREASE, TLS13, TLS12>>, reneg |-> TRUE,
     exts |-> <<
               X("grease"), X("sni"), X("ems"), X("reneg"), E("curves", 4),
               E("points", 1), X("ticket"), E("alpn", 12), X("status"),
               E("sigalgs", 8), X("sct"), X("key_share"), E("psk_modes", 1),
               E("versions", 3), E("compress_cert", 1), E("alps", 3), X("grease"),
               X("padding"), X("psk") >>]

Chrome_115_PQ_PSK ==
    [min |-> Unset, max |-> Unset, suites |-> 16, suites13 |-> 3, shuffled |-> TRUE,
     curves |-> <<"grease", "kyber", "x25519", "p256", "p384">>, shares |-> <<"grease", "kyber", "x25519">>,
     versions |-> <<GREASE, TLS13, TLS12>>, reneg |-> TRUE,
     exts |-> <<
               X("grease"), X("sni"), X("ems"), X("reneg"), E("curves", 5),
               E("points", 1), X("ticket"), E("alpn", 12), X("status"),
               E("sigalgs", 8), X("sct"), X("key_share"), E("psk_modes", 1),
               E("versions", 3), E("compress_cert", 1), E("alps", 3), X("grease"),
               X("psk") >>]

(* utlsIdToSpec: every fingerprint by its name. *)
utlsIdToSpec == [
    Chrome_58 |-> Chrome_58,
    Chrome_70 |-> Chrome_70,
    Chrome_72 |-> Chrome_72,
    Chrome_83 |-> Chrome_83,
    Chrome_87 |-> Chrome_87,
    Chrome_96 |-> Chrome_96,
    Chrome_100 |-> Chrome_100,
    Chrome_106_Shuffle |-> Chrome_106_Shuffle,
    Chrome_115_PQ |-> Chrome_115_PQ,
    Chrome_120 |-> Chrome_120,
    Chrome_120_PQ |-> Chrome_120_PQ,
    Chrome_131 |-> Chrome_131,
    Chrome_133 |-> Chrome_133,
    Firefox_55 |-> Firefox_55,
    Firefox_63 |-> Firefox_63,
    Firefox_99 |-> Firefox_99,
    Firefox_102 |-> Firefox_102,
    Firefox_105 |-> Firefox_105,
    Firefox_120 |-> Firefox_120,
    IOS_11_1 |-> IOS_11_1,
    IOS_12_1 |-> IOS_12_1,
    IOS_13 |-> IOS_13,
    IOS_14 |-> IOS_14,
    Android_11_OkHttp |-> Android_11_OkHttp,
    Edge_85 |-> Edge_85,
    Edge_106 |-> Edge_106,
    Safari_16_0 |-> Safari_16_0,
    Browser360_7_5 |-> Browser360_7_5,
    Browser360_11_0 |-> Browser360_11_0,
    QQ_11_1 |-> QQ_11_1,
    Chrome_100_PSK |-> Chrome_100_PSK,
    Chrome_112_PSK_Shuf |-> Chrome_112_PSK_Shuf,
    Chrome_114_Padding_PSK_Shuf |-> Chrome_114_Padding_PSK_Shuf,
    Chrome_115_PQ_PSK |-> Chrome_115_PQ_PSK]

ParrotNames == DOMAIN utlsIdToSpec
=============================================================================
