SPECIFICATION Spec
CONSTANTS
    reader = reader
    writer = writer
    closer = closer
    Procs = {reader, writer, closer}
    Uses <- MCUses
    Renegotiation = {1}
    Versions = {12, 13}
    Batches <- MCBatches
    MaxCalls = 3
    MaxRecords = 2
    MaxUselessRecords = 1
INVARIANTS WireReadable NilMeansUsable CompleteMeansNoError
PROPERTIES CloseReleasesAll
