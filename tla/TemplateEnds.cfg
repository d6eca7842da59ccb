SPECIFICATION TemplateSpec
CONSTANTS
    Inputs <- TemplateInputs
    MaxLen = 3
PROPERTIES ValidationEnds
CHECK_DEADLOCK FALSE
