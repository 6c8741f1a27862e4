--------------------------- MODULE MCConnectPath ---------------------------
(* Instances of ConnectPath for TLC. *)
EXTENDS ConnectPath

Plain(mode) == [mode |-> mode, policy |-> "", ech |-> "off", fallback |-> FALSE, pool |-> FALSE]
MITM(ech)   == [Plain("mitm") EXCEPT !.ech = ech, !.pool = TRUE]

\* Every mode and policy, with ECH from every source, TLS-RF with its fallback.
AllRules ==
    {Plain(m) : m \in Modes}
    \cup {[Plain("block") EXCEPT !.policy = p] : p \in Policies}
    \cup {[Plain("tls-rf") EXCEPT !.fallback = TRUE]}
    \cup {MITM(e) : e \in {"off", "manual", "auto", "missing"}}
    \cup {[MITM("auto") EXCEPT !.mode = m] : m \in {"server", "quic"}}

\* One connection of any kind beside one that also refreshes the profile.
TwoConns == {1, 2}
TwoKinds == <<[entry : Entries, rule : AllRules],
              {[entry |-> "http", rule |-> MITM("auto")]}>>
=============================================================================
