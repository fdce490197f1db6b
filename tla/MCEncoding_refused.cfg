CONSTANTS
    None = None
    Accepts <- RefusingLists
    Bodies <- Openable
SPECIFICATION Spec
INVARIANTS UnofferedIsDecoded
CHECK_DEADLOCK FALSE
