CONSTANTS
    None = None
    a1 = a1
    a2 = a2
    Attempt = {a1, a2}
    Tls = TRUE
    Routes = {TRUE, FALSE}
    Verdicts = {v407, v502}
    v407 = v407
    v502 = v502
    HostWords = {}
    Liberties = {{}, {"overlap"}, {"reuse", "overlap"}}
SPECIFICATION FairSpec
INVARIANTS OwnPhaseIsTrue RefusalIsRelayed TunnelOutlivesContext TimeoutIsPlaced
PROPERTIES RefusalIsFinal StalledAttemptEnds
CHECK_DEADLOCK FALSE
