CONSTANTS
    None = None
    a1 = a1
    Attempt = {a1}
    Tls = FALSE
    Routes = {TRUE}
    Verdicts = {v407, v502}
    v407 = v407
    v502 = v502
    HostWords = {}
    Liberties = {{"reuse"}}
SPECIFICATION Spec
INVARIANTS PhaseIsTrue
CHECK_DEADLOCK FALSE
