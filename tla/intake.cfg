\* Two identifiers: an order and a tracking number, either of them invented.
SPECIFICATION Spec
CONSTANTS
    Ids = {id1, id2}
SYMMETRY Symmetry
INVARIANTS OnlyGroundedOrdersEnter ClarifiesOnlyAMissingOrder RoutingNeverRejects
