SPECIFICATION FairSpec
CONSTANT
    Inputs <- AnyInputs
PROPERTIES
    StaysInStep
    PromptEnds
    QuitEnds
