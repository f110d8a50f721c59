\* Two terminals may create the chain, nothing dies.
SPECIFICATION Spec
CONSTANTS
    creator = creator
    user = user
    other = other
    Nobody = Nobody
    Processes = {creator, user}
    Creators = {creator, user}
    Crashes = FALSE
    MaxBlocks = 2
PROPERTIES
    ChainOnlyGrows
CHECK_DEADLOCK FALSE
