\* Two clients that send two lines altogether; the worker writes two lines.
CONSTANTS
    Clients = {c1, c2}
    Nobody = nobody
    Output = 2
    ChunkSize = 4
    MaxLines = 2
SPECIFICATION HarnessSpec
INVARIANTS
    LinesArriveWhole
    LinesNeverMix
    NobodyElsesLines
PROPERTY Served
