CONSTANTS
    Nodes = {"a", "b", "c"}
    Names = {"x", "y"}
    Order <- MC_Order
    MayOffer <- MC_MayOffer
    Unreachable = Unreachable

SPECIFICATION Spec

INVARIANTS
    TypeOK
    NothingRelayed

PROPERTIES
    Vanishes
    Spreads
