SPECIFICATION Spec
CONSTANTS
    Types <- MCTypes
    Resolvable <- MCResolvable
    RecipeLen <- MCRecipeLen
    Signatures <- TwoParameters
    MaxLeaves = 8
    MaxRecipes = 2
    QueueCap = 2
    MaxCaptured = 3
CHECK_DEADLOCK FALSE
INVARIANT ExtrasBoundToOwner
