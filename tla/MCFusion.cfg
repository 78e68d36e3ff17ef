SPECIFICATION FusionSpec
CONSTANTS
    Listing <- MCListing
    Known <- MCKnown
    Lawful <- MCLawful
    TextKeys <- MCTextKeys
    Environment <- MCEnvironment
    Programs <- MCPrograms
    Batching <- MCBatching
    Declaring <- MCDeclaring
INVARIANTS
    
    
    
    SilentIsBatched
CHECK_DEADLOCK FALSE
