CONSTANTS
    w1 = w1
    w2 = w2
    w3 = w3
    desktop = desktop
    script = script
    ohlc = ohlc
    flow = flow
    a = a
    b = b
    Writers = {w1, w2, w3}
    Procs = {desktop, script}
    ProcOf <- MCProcOf
    Years = {1, 2}
    Cells = {ohlc, flow}
    Values = {a,b}
    NaN = NaN
    Absent = Absent
    Torn = Torn
    NoWriter = NoWriter
    Batches <- MCBatches
SPECIFICATION Spec
INVARIANTS
    LockDiscipline
    NoLostUpdate
PROPERTIES
    ImplementsStore
    TornIsStable
