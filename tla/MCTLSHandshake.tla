--------------------------- MODULE MCTLSHandshake ---------------------------
(* Configurations of the two ends for TLC. *)
EXTENDS TLSHandshake

Both == <<13, 12>>
All == <<"aes128", "aes256", "chacha", "ecdhe_ecdsa", "ecdhe_rsa", "rsa">>
Parrot ==
    [golang |-> FALSE, versions |-> Both, suites |-> All, curves |-> {"mlkem", "x25519", "p256"},
     shares |-> <<"mlkem", "x25519">>, ems |-> TRUE, alpn |-> <<"h2", "http/1.1">>,
     cache |-> TRUE, ech |-> 0, skipVerify |-> FALSE, cert |-> "none"]
Golang ==
    [Parrot EXCEPT !.golang = TRUE, !.curves = {"x25519", "p256"}, !.shares = <<"x25519">>,
                   !.cert = "good", !.suites = <<"chacha", "aes128", "aes256", "ecdhe_rsa", "ecdhe_ecdsa">>]
MCClientConfigs ==
    {Parrot, Golang,
     [Parrot EXCEPT !.suites = <<"aes256", "chacha", "ecdhe_rsa">>, !.curves = {"x25519", "p256"},
                    !.shares = <<"p256">>, !.cert = "good", !.skipVerify = TRUE],
     [Golang EXCEPT !.versions = <<12>>, !.suites = <<"ecdhe_rsa", "rsa">>, !.skipVerify = TRUE,
                    !.ems = FALSE, !.cert = "unverifiable"],
     [Parrot EXCEPT !.ech = 1, !.cache = FALSE, !.skipVerify = TRUE, !.cert = "good"],
     [Golang EXCEPT !.ech = 1, !.cache = FALSE, !.cert = "good"]}

Server ==
    [versions |-> Both, suites |-> <<"ecdhe_ecdsa", "ecdhe_rsa", "rsa">>,
     curves |-> <<"mlkem", "x25519", "p256">>, alpn |-> <<"h2">>, ech |-> 1, ticketsDisabled |-> FALSE,
     clientAuth |-> NoClientCert, key |-> "ecdsa", staple |-> TRUE, trusted |-> TRUE]
Server12 ==
    [Server EXCEPT !.versions = <<12>>, !.key = "rsa", !.ech = 0, !.clientAuth = VerifyClientCertIfGiven]
MCServerConfigs ==
    {Server, Server12,
     [Server EXCEPT !.curves = <<"p256">>, !.key = "rsa", !.clientAuth = RequireAnyClientCert],
     [Server12 EXCEPT !.suites = <<"rsa">>, !.clientAuth = NoClientCert, !.trusted = FALSE, !.alpn = <<>>,
                      !.ticketsDisabled = TRUE],
     [Server EXCEPT !.curves = <<"x25519">>, !.ech = 2, !.clientAuth = RequireAndVerifyClientCert]}
=============================================================================
