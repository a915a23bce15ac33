CONSTANTS
    Configs <- MCConfigs
    RepoNames <- MCRepoNames
    EngineCodes <- MCEngineCodes
    Omittable = {"status", "config", "entity", "stats"}
    MaxCalls = 3
SPECIFICATION Spec
INVARIANT NoPanic
