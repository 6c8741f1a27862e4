----------------------------- MODULE MCTLSConn -----------------------------
EXTENDS TLSConn

CONSTANTS reader, writer, closer

MCUses == [p \in Procs |-> CASE p = reader -> {"read"}
                             [] p = writer -> {"write", "handshake"}
                             [] p = closer -> {"close", "closewrite"}]

MCBatches == {<<"helloRequest">>, <<"keyUpdateRequested">>, <<"ticket", "keyUpdate">>, <<"oversized">>}
=============================================================================
