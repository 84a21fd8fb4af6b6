------------------------------ MODULE LoadConfig ------------------------------
(***************************************************************************)
(* cmd/deployer and internal/auth: from the environment the daemon is      *)
(* started with to the endpoints it serves and the tokens each accepts.    *)
(* loadConfig fills in defaults and refuses what is incomplete; main       *)
(* builds a validator for each endpoint, the address list, the plugin      *)
(* cache and the source of App tokens, any of which may fail and end the   *)
(* process, and then listens.  Validate is what a validator accepts.       *)
(*                                                                         *)
(* A setting that is absent and one that is empty are the same: Blank, as  *)
(* is a claim that a token lacks.                                          *)
(***************************************************************************)
CONSTANTS
    Blank,        \* the empty string
    Values,       \* what settings and claims may be otherwise
    Envs,         \* environments the daemon may be started with
    Default,      \* Default[v]: what envOr puts for v, Blank for os.Getenv
    GitHubURLs,   \* repository URLs that begin with https://github.com/
    PublicURLs,   \* of these, the ones of public repositories
    AddressesOf,  \* AddressesOf[l]: the addresses a list names, or Malformed
    Malformed,
    Claims,       \* claims of tokens that are signed, alive and of the issuer
    PathOf,       \* PathOf[w]: repository and file of w, the text before the @
    PullRequest,  \* PullRequest[r]: the subject of pull requests to r
    PullRefs      \* refs of pull requests

Endpoints == {"deploy", "tf-apply", "tf-plan"}

DeployCore == {"CERT_FILE", "KEY_FILE", "REPOSITORY", "WORKFLOW_REF"}
TfCore == {"TF_APPLY_REPOSITORY", "TF_APPLY_WORKFLOW_REF", "TF_APPLY_ROOT_DIR",
           "TF_AWS_ACCESS_KEY_ID", "TF_AWS_SECRET_ACCESS_KEY"}
AppCore == {"APP_ID", "APP_INSTALLATION_ID", "APP_PEM_PATH"}
CoreKnobs == {"TF_APPLY_REPOSITORY", "TF_APPLY_WORKFLOW_REF", "TF_APPLY_ROOT_DIR"}
Defaulted == {"AUDIENCE", "REF", "TF_APPLY_AUDIENCE", "TF_APPLY_REF",
              "TF_APPLY_REPO_URL", "TF_PLUGIN_CACHE_DIR",
              "TF_PLAN_AUDIENCE", "TF_PLAN_WORKFLOW_FILE"}
Settings == DeployCore \cup {"ALLOWED_IPS"} \cup TfCore \cup AppCore \cup Defaulted

Texts == Values \cup {Blank}

\* GitHub issues the subject of a pull request with the ref of one only; an
\* operator names branches.
ASSUME ConfigAssumption ==
    /\ Blank \notin Values
    /\ PublicURLs \subseteq GitHubURLs
    /\ Envs \subseteq [Settings -> Texts]
    /\ Default \in [Settings -> Texts]
    /\ \A v \in Settings : Default[v] = Blank <=> v \notin Defaulted
    /\ \A r, f \in Texts : PullRequest[r] # Blank /\ <<r, f>> # Blank
    /\ \A c \in Claims :
         c.sub = PullRequest[c.repository] => c.ref \in PullRefs
    /\ \A e \in Envs \cup {Default} :
         e["REF"] \notin PullRefs /\ e["TF_APPLY_REF"] \notin PullRefs

VARIABLES
    env,          \* the environment, as the operator wrote it
    pc,           \* where main is
    wired,        \* endpoints that have a validator and a runner
    allowed,      \* addresses that are let in
    tokenSource,  \* clones are made with App tokens
    pluginCache   \* the directory terraform keeps providers in, or Blank

vars == <<env, pc, wired, allowed, tokenSource, pluginCache>>

Init ==
    /\ env \in Envs
    /\ pc = "load"
    /\ wired = {}
    /\ allowed = {}
    /\ tokenSource = FALSE
    /\ pluginCache = Blank

-----------------------------------------------------------------------------
(* loadConfig. *)

cfg(v) == IF env[v] = Blank THEN Default[v] ELSE env[v]

\* Mistake: the repository alone decides.
RepositorySet == env["TF_APPLY_REPOSITORY"] # Blank

TfEnabled == \E v \in TfCore : cfg(v) # Blank

\* Mistake: the token pins are taken to be optional.
RequiredToRun ==
    {"CERT_FILE", "KEY_FILE"} \cup
    (IF ~TfEnabled THEN {}
     ELSE {"TF_APPLY_ROOT_DIR", "TF_AWS_ACCESS_KEY_ID", "TF_AWS_SECRET_ACCESS_KEY"}
          \cup (IF cfg("TF_APPLY_REPO_URL") \in GitHubURLs THEN AppCore ELSE {}))

Required ==
    DeployCore \cup
    (IF ~TfEnabled THEN {}
     ELSE TfCore \cup (IF cfg("TF_APPLY_REPO_URL") \in GitHubURLs THEN AppCore ELSE {}))

\* A list of addresses that names none is missing, too.
Missing ==
    {v \in Required : cfg(v) = Blank} \cup
    (IF AddressesOf[cfg("ALLOWED_IPS")] = {} THEN {"ALLOWED_IPS"} ELSE {})

-----------------------------------------------------------------------------
(* Validators.  An empty pin is not looked at; aud and repository always are. *)

DeployPins ==
    [aud |-> cfg("AUDIENCE"), repository |-> cfg("REPOSITORY"), ref |-> cfg("REF"),
     sub |-> Blank, workflow |-> cfg("WORKFLOW_REF"), path |-> Blank]

TfApplyPins ==
    [aud |-> cfg("TF_APPLY_AUDIENCE"), repository |-> cfg("TF_APPLY_REPOSITORY"),
     ref |-> cfg("TF_APPLY_REF"), sub |-> Blank,
     workflow |-> cfg("TF_APPLY_WORKFLOW_REF"), path |-> Blank]

\* Mistake: pinned to the branch, as /tf-apply is.
PlanPinsByRef ==
    [aud |-> cfg("TF_PLAN_AUDIENCE"), repository |-> cfg("TF_APPLY_REPOSITORY"),
     ref |-> cfg("TF_APPLY_REF"), sub |-> Blank, workflow |-> Blank,
     path |-> <<cfg("TF_APPLY_REPOSITORY"), cfg("TF_PLAN_WORKFLOW_FILE")>>]

TfPlanPins ==
    [aud |-> cfg("TF_PLAN_AUDIENCE"), repository |-> cfg("TF_APPLY_REPOSITORY"),
     ref |-> Blank, sub |-> PullRequest[cfg("TF_APPLY_REPOSITORY")],
     workflow |-> Blank,
     path |-> <<cfg("TF_APPLY_REPOSITORY"), cfg("TF_PLAN_WORKFLOW_FILE")>>]

PinsOf(e) ==
    CASE e = "deploy"   -> DeployPins
      [] e = "tf-apply" -> TfApplyPins
      [] e = "tf-plan"  -> TfPlanPins

\* NewValidator refuses pins that leave the branch or the workflow open.
Binding(p) ==
    /\ p.ref # Blank \/ p.sub # Blank
    /\ p.workflow # Blank \/ p.path # Blank

\* Validate.
Accepts(p, c) ==
    /\ c.aud = p.aud
    /\ c.repository = p.repository
    /\ p.ref # Blank => c.ref = p.ref
    /\ p.sub # Blank => c.sub = p.sub
    /\ IF p.workflow # Blank THEN c.workflow = p.workflow
       ELSE p.path # Blank => PathOf[c.workflow] = p.path
    /\ c.jti # Blank

-----------------------------------------------------------------------------
(* main. *)

Fatal ==
    /\ pc' = "fatal"
    /\ UNCHANGED <<env, wired, allowed, tokenSource, pluginCache>>

\* Fetching the issuer's keys, making a directory, reading the PEM file and
\* listening may fail for reasons of their own.
MayFail == Fatal

Load ==
    /\ pc = "load"
    /\ IF Missing # {} THEN Fatal
       ELSE /\ pc' = "validator"
            /\ UNCHANGED <<env, wired, allowed, tokenSource, pluginCache>>

NewValidator(e, label) ==
    \/ /\ Binding(PinsOf(e))
       /\ wired' = wired \cup {e}
       /\ pc' = label
       /\ UNCHANGED <<env, allowed, tokenSource, pluginCache>>
    \/ MayFail

DeployValidator == pc = "validator" /\ NewValidator("deploy", "addresses")

Allowlist ==
    /\ pc = "addresses"
    /\ LET list == AddressesOf[cfg("ALLOWED_IPS")]
       IN  IF list = Malformed THEN Fatal
           ELSE /\ allowed' = list
                /\ pc' = IF TfEnabled THEN "tf-validator" ELSE "listen"
                /\ UNCHANGED <<env, wired, tokenSource, pluginCache>>

TfApplyValidator ==
    pc = "tf-validator" /\ NewValidator("tf-apply", "cache")

\* MkdirAll, unless there is to be no cache.
PluginCache ==
    /\ pc = "cache"
    /\ \/ /\ pluginCache' = cfg("TF_PLUGIN_CACHE_DIR")
          /\ pc' = "token-source"
          /\ UNCHANGED <<env, wired, allowed, tokenSource>>
       \/ cfg("TF_PLUGIN_CACHE_DIR") # Blank /\ MayFail

WantsTokens == \A v \in AppCore : cfg(v) # Blank

TokenSource ==
    /\ pc = "token-source"
    /\ \/ /\ tokenSource' = WantsTokens
          /\ pc' = "plan-validator"
          /\ UNCHANGED <<env, wired, allowed, pluginCache>>
       \/ WantsTokens /\ MayFail

TfPlanValidator ==
    pc = "plan-validator" /\ NewValidator("tf-plan", "listen")

Listen ==
    /\ pc = "listen"
    /\ \/ /\ pc' = "serving"
          /\ UNCHANGED <<env, wired, allowed, tokenSource, pluginCache>>
       \/ MayFail

\* The daemon serves, or has not come up.
Rest == pc \in {"serving", "fatal"} /\ UNCHANGED vars

Next ==
    \/ Load \/ DeployValidator \/ Allowlist
    \/ TfApplyValidator \/ PluginCache \/ TokenSource \/ TfPlanValidator
    \/ Listen \/ Rest

Spec == Init /\ [][Next]_vars

-----------------------------------------------------------------------------
(* Properties. *)

Serves(e) == pc = "serving" /\ e \in wired

\* What the operator's own settings, with the documented defaults, say of a token
\* that is to be accepted.
Named(v, claim) == claim # Blank /\ claim = cfg(v)

Intended(e, c) ==
    CASE e = "deploy"   -> /\ Named("AUDIENCE", c.aud)
                           /\ Named("REPOSITORY", c.repository)
                           /\ Named("REF", c.ref)
                           /\ Named("WORKFLOW_REF", c.workflow)
      [] e = "tf-apply" -> /\ Named("TF_APPLY_AUDIENCE", c.aud)
                           /\ Named("TF_APPLY_REPOSITORY", c.repository)
                           /\ Named("TF_APPLY_REF", c.ref)
                           /\ Named("TF_APPLY_WORKFLOW_REF", c.workflow)
      [] e = "tf-plan"  -> /\ Named("TF_PLAN_AUDIENCE", c.aud)
                           /\ Named("TF_APPLY_REPOSITORY", c.repository)
                           /\ c.sub = PullRequest[c.repository]
                           /\ PathOf[c.workflow] =
                                <<c.repository, cfg("TF_PLAN_WORKFLOW_FILE")>>

\* Whatever was left blank, an endpoint that is served accepts only tokens that
\* carry each claim it pins, as its own settings name it: no setting that is
\* missing turns into a claim that is not looked at (oidc.go:51-63, 92-114;
\* main.go:126-179).
AcceptsOnlyAsNamed ==
    \A e \in Endpoints : Serves(e) =>
        \A c \in Claims : Accepts(PinsOf(e), c) => Intended(e, c)

Audience(e) ==
    CASE e = "deploy"   -> cfg("AUDIENCE")
      [] e = "tf-apply" -> cfg("TF_APPLY_AUDIENCE")
      [] e = "tf-plan"  -> cfg("TF_PLAN_AUDIENCE")

\* A token drives one endpoint.  Only where an operator gives /deploy and
\* /tf-apply one audience could it drive two; a token of a pull request never
\* does more than plan, whatever the audiences (README.md:54, main.go:332-346).
OneEndpointPerToken ==
    \A e, f \in Endpoints : Serves(e) /\ Serves(f) /\ e # f =>
        \A c \in Claims : Accepts(PinsOf(e), c) /\ Accepts(PinsOf(f), c) =>
            /\ Audience(e) = Audience(f)
            /\ {e, f} = {"deploy", "tf-apply"}

\* No half of the terraform endpoints is served, and none is left out in silence.
\* They come together, with all five settings a run cannot do without; if they are
\* not served no core knob is set; and App credentials are not dropped where the
\* clone would use them (main.go:145-182, 190-196, 305-346).
NoHalfEndpoint ==
    pc = "serving" =>
        /\ Serves("tf-apply") <=> Serves("tf-plan")
        /\ IF Serves("tf-apply")
             THEN /\ \A v \in TfCore : env[v] # Blank
                  /\ (/\ cfg("TF_APPLY_REPO_URL") \in GitHubURLs
                      /\ \E v \in AppCore : env[v] # Blank) => tokenSource
             ELSE \A v \in CoreKnobs : env[v] = Blank

(* Statements of the repository that do not hold of the code. *)

\* loadConfig has refused the environment for these settings and no other.
RefusedFor(settings) ==
    /\ pc = "fatal"
    /\ Missing # {}
    /\ Missing \subseteq settings

\* The comment in loadConfig says that with the three core knobs empty the endpoint
\* is "disabled cleanly" (main.go:142-144, and 43-45).  It is not when an AWS
\* credential is there: tfApplyEnabled looks at five settings (main.go:190-196).
CoreKnobsDecide ==
    (\A v \in CoreKnobs : env[v] = Blank) => ~RefusedFor(TfCore \cup AppCore)

\* README.md:78-79 and the sample environment (lines 36-37) say that any setting of
\* the terraform endpoints enables them.  Those that have a default, and the App
\* credentials, do not (main.go:190-196).
AnySettingEnables ==
    (/\ pc = "serving"
     /\ \E v \in TfCore \cup AppCore \cup
                 {"TF_APPLY_AUDIENCE", "TF_APPLY_REF", "TF_APPLY_REPO_URL"} :
           env[v] # Blank)
    => Serves("tf-apply")

\* The comment in loadConfig and the sample environment say that App credentials may
\* be left blank for a public repository (main.go:162-164, env.sample:75-81).  For
\* an https://github.com/ URL they are demanded all the same (main.go:165-175).
PublicNeedsNoApp ==
    cfg("TF_APPLY_REPO_URL") \in PublicURLs => ~RefusedFor(AppCore)

\* The sample environment says of TF_PLUGIN_CACHE_DIR "leave blank to disable the
\* cache", and config.TFPluginCacheDir "Empty disables the cache".  It does not:
\* envOr puts the default for a blank setting (main.go:116, 198-203).
BlankDisablesCache ==
    pc = "serving" /\ env["TF_PLUGIN_CACHE_DIR"] = Blank => pluginCache = Blank
=============================================================================
