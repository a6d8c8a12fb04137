CONSTANTS
    a = a
    b = b
    c = c
    Node <- ThreeNodes
    Umbrella = U
    Deps <- Shared
    Targets = {b, c}
    Limit <- OneOfEach
SPECIFICATION Spec
INVARIANTS
    ToldTruth
    
    CleanEnd
    NeverStuck
