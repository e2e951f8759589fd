SPECIFICATION FairSpec
CONSTANTS
    Capsules = {c1}
    Builds = {good, bad, torn}
    Intact = {good, bad}
    Signed = {good}
    Unloaded = Unloaded
    Hosts = {h1, h2}
    None = None
    c1 = c1
    good = good
    bad = bad
    torn = torn
    h1 = h1
    h2 = h2
    Deployments <- MCDeployments
    MaxDeployments = 2
INVARIANTS DTypeOK CompletedRuns LeftoversDoNotRefuse
PROPERTIES DeploymentEnds
CHECK_DEADLOCK FALSE
