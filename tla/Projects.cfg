SPECIFICATION FairSpec
CONSTANTS
    Clients = {c1, c2}
    Slugs = {"acme"}
    EnvNames <- MCEnvNames
    SlugOf <- MCSlugOf
    Wanted <- MCWanted
    MaxTasks = 3
    MaxProjects = 4
    MaxFails = 1
INVARIANTS EnvsHaveTheirProject ProjectsStartWithDev ConfigNamesRealEnvs
PROPERTIES SetupEnds
CHECK_DEADLOCK FALSE
