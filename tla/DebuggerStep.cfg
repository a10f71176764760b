SPECIFICATION Spec
CONSTANT
    Inputs <- DocumentedInputs
PROPERTIES
    PrintingDoesNotStep
