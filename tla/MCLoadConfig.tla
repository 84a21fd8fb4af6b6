---------------------------- MODULE MCLoadConfig ----------------------------
(* A small instance of LoadConfig for TLC: environments that differ in up to *)
(* Deviations settings from a full one, or from one without terraform, and   *)
(* one for a public repository.                                              *)
EXTENDS LoadConfig, Integers

CONSTANTS Deviations, a1, a2, a3, r1, r2, m, b, pull, w1, w2, w3, apply,
          cache, plan, github, public, ssh, set, one, none, bad

Audiences == {"AUDIENCE", "TF_APPLY_AUDIENCE", "TF_PLAN_AUDIENCE"}
Repositories == {"REPOSITORY", "TF_APPLY_REPOSITORY"}
Workflows == {"WORKFLOW_REF", "TF_APPLY_WORKFLOW_REF"}
Refs == {"REF", "TF_APPLY_REF"}

MCDefault == [v \in Settings |->
    CASE v = "AUDIENCE" -> a1
      [] v = "TF_APPLY_AUDIENCE" -> a2
      [] v = "TF_PLAN_AUDIENCE" -> a3
      [] v \in Refs -> m
      [] v = "TF_APPLY_REPO_URL" -> github
      [] v = "TF_PLUGIN_CACHE_DIR" -> cache
      [] v = "TF_PLAN_WORKFLOW_FILE" -> plan
      [] OTHER -> Blank]

Choices(v) ==
    CASE v \in Audiences -> {a1, a2, Blank}
      [] v \in Repositories -> {r1, r2, Blank}
      [] v \in Workflows -> {w1, w2, Blank}
      [] v \in Refs -> {b, Blank}
      [] v = "TF_APPLY_REPO_URL" -> {ssh, Blank}
      [] v = "TF_PLUGIN_CACHE_DIR" -> {set, Blank}
      [] v = "TF_PLAN_WORKFLOW_FILE" -> {apply, Blank}
      [] v = "ALLOWED_IPS" -> {one, none, bad, Blank}
      [] OTHER -> {set, Blank}

Full == [v \in Settings |->
    CASE v = "REPOSITORY" -> r1
      [] v = "TF_APPLY_REPOSITORY" -> r2
      [] v = "WORKFLOW_REF" -> w1
      [] v = "TF_APPLY_WORKFLOW_REF" -> w2
      [] v = "ALLOWED_IPS" -> one
      [] v \in Defaulted -> Blank
      [] OTHER -> set]

NoTerraform == [v \in Settings |-> IF v \in TfCore \cup AppCore THEN Blank ELSE Full[v]]

\* Every environment that differs from base in at most n settings.
RECURSIVE Near(_, _)
Near(base, n) ==
    IF n = 0 THEN {base}
    ELSE LET nearer == Near(base, n - 1)
         IN  nearer \cup UNION {{[e EXCEPT ![v] = x] : x \in Choices(v)} :
                                  e \in nearer, v \in Settings}

\* Terraform from a public repository, without App credentials.
Public == [v \in Settings |->
    CASE v = "TF_APPLY_REPO_URL" -> public
      [] v \in AppCore -> Blank
      [] OTHER -> Full[v]]

MCEnvs == Near(Full, Deviations) \cup Near(NoTerraform, Deviations) \cup {Public}

MCGitHubURLs == {github, public}
MCPublicURLs == {public}
MCAddressesOf == [l \in {one, none, bad, Blank} |->
    IF l = one THEN {"host"} ELSE IF l = bad THEN Malformed ELSE {}]
MCPathOf == [w \in {w1, w2, w3, Blank} |->
    CASE w = w1 -> <<r1, "ci">> [] w = w2 -> <<r2, apply>>
      [] w = w3 -> <<r2, plan>> [] OTHER -> <<Blank, Blank>>]
MCPullRequest == [r \in Values \cup {Blank} |-> <<r, "pull_request">>]

MCValues == {a1, a2, a3, r1, r2, m, b, pull, w1, w2, w3, apply, cache, plan,
             github, public, ssh, set, one, none, bad}
MCPullRefs == {pull}

MCClaims ==
    {c \in [aud : {a1, a2, a3}, repository : {r1, r2, Blank}, ref : {m, b, pull, Blank},
            sub : {MCPullRequest[r2], MCPullRequest[Blank], Blank},
            workflow : {w1, w2, w3, Blank}, jti : {set, Blank}] :
        c.sub = MCPullRequest[c.repository] => c.ref \in MCPullRefs}
=============================================================================
