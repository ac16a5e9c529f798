CONSTANTS
    p1 = p1
    p2 = p2
    b1 = b1
    b2 = b2
    flour = flour
    sugar = sugar
    Requests <- TwoRequests
    NoRequest = NoRequest
    Batches <- TwoBatches
    NoBatch = NoBatch
    Items = {flour, sugar}
    NoItem = NoItem
    Needs <- Recipe
    RowItem <- RowItems
    InitialStock <- Shelves
SPECIFICATION Spec
SYMMETRY Symmetry
INVARIANTS
    TypeOK
    MadeFromConsumed
    ConsumedAfterApproval
    ConsumesWholeRecipes
