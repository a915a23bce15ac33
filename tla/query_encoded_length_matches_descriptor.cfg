CONSTANTS
    Calls <- MCFeatureCalls
    ParamKeys <- MCParamKeys
SPECIFICATION Spec
INVARIANT
    EncodedLengthMatchesDescriptor
