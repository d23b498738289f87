CONSTANTS
    tap = tap
    dawn = dawn
    act = act
    script = script
    scene = scene
    NoContext = none
    Contexts = {tap, dawn, act, script, scene}
    Origin <- Origins
    Parent <- Parents
    TTL = 1
    PruneAt = 1
    MaxTime = 3
    MaxWire = 2
SPECIFICATION Spec
INVARIANTS
    TypeOK
    CacheIsHistory
    OnlyGapsCreditRuns
PROPERTIES
    CacheBounded
CHECK_DEADLOCK FALSE
