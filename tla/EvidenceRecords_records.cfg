CONSTANTS
    Files <- AllFiles
    Posts <- AllPosts
SPECIFICATION Spec
CHECK_DEADLOCK FALSE
 
INVARIANT BlindStaysBlind
