CONSTANTS
    None = None
    a1 = a1
    Attempt = {a1}
    Tls = FALSE
    Routes = {FALSE}
    Verdicts = {v407, v502}
    v407 = v407
    v502 = v502
    HostWords = {"tls"}
    Liberties = {{}}
SPECIFICATION Spec
INVARIANTS KindNamesCause
CHECK_DEADLOCK FALSE
