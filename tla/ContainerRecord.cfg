CONSTANTS
    Callers = {k1, k2}
    MaxRuns = 2
    MaxFaults = 2
SPECIFICATION FairSpec
INVARIANTS TypeOK TruthfulRecord
PROPERTIES CreatedMarkFinal StartReturnsRecorded StopEndsRun CallsReturn
