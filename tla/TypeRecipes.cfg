SPECIFICATION Spec
CONSTANTS
    Types <- MCTypes
    Resolvable <- MCResolvable
    RecipeLen <- MCRecipeLen
    Signatures <- Parameters
    MaxLeaves = 8
    MaxRecipes = 2
    QueueCap = 2
    MaxCaptured = 2
CHECK_DEADLOCK FALSE
INVARIANTS
    RecipesTypeOK
    CurrentRecipesBindExactly
    RecipesAgree
PROPERTIES
    LearnedEventually
