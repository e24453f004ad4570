\* One client that hangs up while its program still writes.
CONSTANTS
    Clients = {c1, c2}
    Nobody = nobody
    Output = 2
    ChunkSize = 4
    MaxLines = 2
SPECIFICATION HarnessSpec
INVARIANT ServerOutlivesClients
