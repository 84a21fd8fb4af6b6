SPECIFICATION Spec
CONSTANTS
    Deviations = 1
    Blank = Blank
    Malformed = Malformed
    a1 = a1
    a2 = a2
    a3 = a3
    r1 = r1
    r2 = r2
    m = m
    b = b
    pull = pull
    w1 = w1
    w2 = w2
    w3 = w3
    apply = apply
    cache = cache
    plan = plan
    github = github
    public = public
    ssh = ssh
    set = set
    one = one
    none = none
    bad = bad
    Envs <- MCEnvs
    Default <- MCDefault
    GitHubURLs <- MCGitHubURLs
    PublicURLs <- MCPublicURLs
    AddressesOf <- MCAddressesOf
    PathOf <- MCPathOf
    PullRequest <- MCPullRequest
    Claims <- MCClaims
    Values <- MCValues
    PullRefs <- MCPullRefs
INVARIANTS
    BlankDisablesCache
