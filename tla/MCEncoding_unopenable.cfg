CONSTANTS
    None = None
    Accepts <- OfferLists
    Bodies <- BodyKinds
SPECIFICATION Spec
INVARIANTS BodyFitsLabel
CHECK_DEADLOCK FALSE
