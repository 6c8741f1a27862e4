------------------------------ MODULE MCUConn ------------------------------
EXTENDS UConn

Config(disabled, omit, prefer, ech, renego) ==
    [disabled |-> disabled, omit |-> omit, prefer |-> prefer, ech |-> ech, renego |-> renego]

MCConfigs ==
    {Config(FALSE, FALSE, TRUE, FALSE, 1), Config(FALSE, TRUE, FALSE, FALSE, 2),
     Config(FALSE, TRUE, TRUE, TRUE, 0), Config(TRUE, TRUE, TRUE, FALSE, 1)}
MCSpecs == {s \in [ticket : BOOLEAN, psk : BOOLEAN, ech : BOOLEAN] : s.ech => s.ticket}
=============================================================================
