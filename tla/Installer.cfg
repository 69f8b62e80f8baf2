SPECIFICATION Spec
CONSTANTS
    VdfFiles <- TwoVdfFiles
    Holds <- OneOfEach
    Targets <- AllTargets
    FirstFiles <- SomeFiles
    MaxSteps = 4
INVARIANTS
    TypeOK
    
    
    OthersKept
