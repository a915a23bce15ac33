CONSTANTS
    Calls <- MCCalls
    ParamKeys <- MCParamKeys
SPECIFICATION Spec
INVARIANTS
    TypeOK
    OptionsHonoured
    FeaturesPackedRowMajor
    DescriptorAsSpecified
