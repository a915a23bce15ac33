CONSTANTS
    Configs <- MCConfigs
    RepoNames <- MCRepoNames
    EngineCodes <- MCEngineCodes
    Omittable = {}
    MaxCalls = 4
SPECIFICATION Spec
INVARIANT TypeOK
INVARIANT DescribedAsCreated
