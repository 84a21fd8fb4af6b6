--------------------------- MODULE LoadConfigProofs ---------------------------
(***************************************************************************)
(* Proofs about LoadConfig, for any environments, defaults and tokens.     *)
(***************************************************************************)
EXTENDS LoadConfig, TLAPS

TfStages == {"tf-validator", "cache", "token-source", "plan-validator"}

\* What main has established by the time it is where it is.
StageInv ==
    /\ env \in Envs
    /\ wired \subseteq Endpoints
    /\ pc \notin {"load", "fatal"} => Missing = {}
    /\ pc \in TfStages => TfEnabled
    /\ pc \notin {"load", "fatal"} /\ ~TfEnabled => wired \subseteq {"deploy"}
    /\ pc \in {"cache", "token-source", "plan-validator"} => "tf-apply" \in wired
    /\ pc = "plan-validator" => tokenSource = WantsTokens
    /\ pc \in {"listen", "serving"} /\ TfEnabled =>
         {"tf-apply", "tf-plan"} \subseteq wired /\ tokenSource = WantsTokens
    /\ pc = "load" => wired = {}

-----------------------------------------------------------------------------
\* The stages follow each other; the settings do not change.
LEMMA Invariance == Spec => []StageInv
<1>1. Init => StageInv
  BY DEF Init, StageInv, TfStages, Endpoints
<1>2. StageInv /\ [Next]_vars => StageInv'
  <2> SUFFICES ASSUME StageInv, [Next]_vars PROVE StageInv'
    OBVIOUS
  <2>1. CASE UNCHANGED vars
    BY <2>1, Zenon
    DEF vars, StageInv, TfEnabled, Missing, Required, WantsTokens, cfg
  <2>2. CASE Next
    <3>1. env' = env
      BY <2>2, Zenon
      DEF Next, Load, DeployValidator, Allowlist, TfApplyValidator, PluginCache,
          TokenSource, TfPlanValidator, NewValidator, Listen, Rest, Fatal, MayFail, vars
    <3>2. Missing' = Missing /\ TfEnabled' = TfEnabled /\ WantsTokens' = WantsTokens
      BY <3>1, Zenon DEF Missing, Required, TfEnabled, WantsTokens, cfg
    <3>3. CASE Fatal
      BY <3>2, <3>3 DEF Fatal, StageInv, TfStages
    <3>4. CASE Load /\ ~Fatal
      BY <3>2, <3>4 DEF Load, StageInv, TfStages
    <3>5. CASE DeployValidator /\ ~Fatal
      BY <3>2, <3>5 DEF DeployValidator, NewValidator, MayFail, StageInv, TfStages, Endpoints
    <3>6. CASE Allowlist /\ ~Fatal
      BY <3>2, <3>6 DEF Allowlist, StageInv, TfStages
    <3>7. CASE TfApplyValidator /\ ~Fatal
      BY <3>2, <3>7 DEF TfApplyValidator, NewValidator, MayFail, StageInv, TfStages, Endpoints
    <3>8. CASE PluginCache /\ ~Fatal
      BY <3>2, <3>8 DEF PluginCache, MayFail, StageInv, TfStages
    <3>9. CASE TokenSource /\ ~Fatal
      BY <3>2, <3>9 DEF TokenSource, MayFail, StageInv, TfStages
    <3>10. CASE TfPlanValidator /\ ~Fatal
      BY <3>2, <3>10 DEF TfPlanValidator, NewValidator, MayFail, StageInv, TfStages, Endpoints
    <3>11. CASE (Listen \/ Rest) /\ ~Fatal
      BY <3>2, <3>11 DEF Listen, MayFail, Rest, vars, StageInv, TfStages
    <3> QED
      BY <2>2, <3>3, <3>4, <3>5, <3>6, <3>7, <3>8, <3>9, <3>10, <3>11 DEF Next
  <2> QED
    BY <2>1, <2>2
<1> QED
  BY <1>1, <1>2, PTL DEF Spec

\* A daemon that serves has every setting it requires.
LEMMA NoneMissing == StageInv /\ pc = "serving" => \A v \in Required : cfg(v) # Blank
  BY DEF StageInv, Missing

\* A daemon that serves an endpoint of terraform has been asked to.
LEMMA OnlyWhenAsked == StageInv /\ pc = "serving" /\ ~TfEnabled => wired \subseteq {"deploy"}
  BY DEF StageInv

\* Every setting that has a default has a value, and the others none of their own.
LEMMA Settled ==
    ASSUME env \in Envs
    PROVE  /\ \A v \in Settings : cfg(v) \in Texts
           /\ \A v \in Defaulted : cfg(v) # Blank
           /\ \A v \in Settings \ Defaulted : cfg(v) = env[v]
<1>1. env \in [Settings -> Texts]
  BY ConfigAssumption
<1>2. Defaulted \subseteq Settings
  BY DEF Settings
<1> QED
  BY <1>1, <1>2, ConfigAssumption, Zenon DEF cfg

\* /deploy and /tf-apply accept the tokens of branches,
LEMMA BranchTokens ==
    ASSUME env \in Envs, NEW c \in Claims,
           Accepts(DeployPins, c) \/ Accepts(TfApplyPins, c)
    PROVE  c.ref \notin PullRefs
<1>1. cfg("REF") # Blank /\ cfg("TF_APPLY_REF") # Blank
  BY Settled DEF Defaulted
<1>2. cfg("REF") \notin PullRefs /\ cfg("TF_APPLY_REF") \notin PullRefs
  BY ConfigAssumption DEF cfg
<1> QED
  BY <1>1, <1>2 DEF Accepts, DeployPins, TfApplyPins

\* and /tf-plan those of pull requests.
LEMMA PullTokens ==
    ASSUME env \in Envs, NEW c \in Claims, Accepts(TfPlanPins, c)
    PROVE  c.ref \in PullRefs
<1>1. cfg("TF_APPLY_REPOSITORY") \in Texts
  BY Settled DEF Settings, TfCore
<1>2. PullRequest[cfg("TF_APPLY_REPOSITORY")] # Blank
  BY <1>1, ConfigAssumption
<1>3. c.sub = PullRequest[c.repository]
  BY <1>2 DEF Accepts, TfPlanPins
<1> QED
  BY <1>3, ConfigAssumption

\* An endpoint that is served accepts only what its settings name.
THEOREM AsNamed == Spec => []AcceptsOnlyAsNamed
<1>1. StageInv => AcceptsOnlyAsNamed
  <2> SUFFICES ASSUME StageInv, NEW e \in Endpoints, Serves(e),
                      NEW c \in Claims, Accepts(PinsOf(e), c)
               PROVE  Intended(e, c)
    BY DEF AcceptsOnlyAsNamed
  <2>1. \A v \in Required : cfg(v) # Blank
    BY NoneMissing DEF Serves
  <2>2. e # "deploy" => TfEnabled
    BY OnlyWhenAsked DEF Serves
  <2>3. CASE e = "deploy"
    <3>1. PinsOf(e) = DeployPins
      BY <2>3 DEF PinsOf
    <3>2. cfg("REPOSITORY") # Blank /\ cfg("WORKFLOW_REF") # Blank
      BY <2>1 DEF Required, DeployCore
    <3>3. cfg("AUDIENCE") # Blank /\ cfg("REF") # Blank
      BY Settled DEF Defaulted, StageInv
    <3> QED
      BY <2>3, <3>1, <3>2, <3>3 DEF Accepts, DeployPins, Intended, Named
  <2>4. CASE e = "tf-apply"
    <3>1. PinsOf(e) = TfApplyPins
      BY <2>4 DEF PinsOf
    <3>2. cfg("TF_APPLY_REPOSITORY") # Blank /\ cfg("TF_APPLY_WORKFLOW_REF") # Blank
      BY <2>1, <2>2, <2>4 DEF Required, TfCore
    <3>3. cfg("TF_APPLY_AUDIENCE") # Blank /\ cfg("TF_APPLY_REF") # Blank
      BY Settled DEF Defaulted, StageInv
    <3> QED
      BY <2>4, <3>1, <3>2, <3>3 DEF Accepts, TfApplyPins, Intended, Named
  <2>5. CASE e = "tf-plan"
    <3>1. PinsOf(e) = TfPlanPins
      BY <2>5 DEF PinsOf
    <3>2. cfg("TF_APPLY_REPOSITORY") # Blank
      BY <2>1, <2>2, <2>5 DEF Required, TfCore
    <3>3. cfg("TF_PLAN_AUDIENCE") # Blank
      BY Settled DEF Defaulted, StageInv
    <3>4. /\ PullRequest[cfg("TF_APPLY_REPOSITORY")] # Blank
          /\ <<cfg("TF_APPLY_REPOSITORY"), cfg("TF_PLAN_WORKFLOW_FILE")>> # Blank
      <4>1. cfg("TF_APPLY_REPOSITORY") \in Texts /\ cfg("TF_PLAN_WORKFLOW_FILE") \in Texts
        BY Settled DEF StageInv, Settings, TfCore, Defaulted
      <4> QED
        BY <4>1, ConfigAssumption
    <3> QED
      BY <2>5, <3>1, <3>2, <3>3, <3>4 DEF Accepts, TfPlanPins, Intended, Named
  <2> QED
    BY <2>3, <2>4, <2>5 DEF Endpoints
<1> QED
  BY <1>1, Invariance, PTL

\* A token drives one endpoint, and that of a pull request only plans.
THEOREM OneEndpoint == Spec => []OneEndpointPerToken
<1>1. StageInv => OneEndpointPerToken
  <2> SUFFICES ASSUME StageInv, NEW e \in Endpoints, NEW f \in Endpoints, e # f,
                      NEW c \in Claims, Accepts(PinsOf(e), c), Accepts(PinsOf(f), c)
               PROVE  Audience(e) = Audience(f) /\ {e, f} = {"deploy", "tf-apply"}
    BY DEF OneEndpointPerToken
  <2>1. ASSUME NEW g \in Endpoints, Accepts(PinsOf(g), c)
        PROVE  /\ Audience(g) = c.aud
               /\ g = "tf-plan" <=> c.ref \in PullRefs
    <3>1. CASE g = "deploy"
      BY <2>1, <3>1, BranchTokens DEF StageInv, PinsOf, Audience, Accepts, DeployPins
    <3>2. CASE g = "tf-apply"
      BY <2>1, <3>2, BranchTokens DEF StageInv, PinsOf, Audience, Accepts, TfApplyPins
    <3>3. CASE g = "tf-plan"
      BY <2>1, <3>3, PullTokens DEF StageInv, PinsOf, Audience, Accepts, TfPlanPins
    <3> QED
      BY <3>1, <3>2, <3>3 DEF Endpoints
  <2> QED
    BY <2>1 DEF Endpoints
<1> QED
  BY <1>1, Invariance, PTL

\* The terraform endpoints are served complete, or left out only where no core knob
\* asks for them.
THEOREM NoHalf == Spec => []NoHalfEndpoint
<1>1. StageInv => NoHalfEndpoint
  <2> SUFFICES ASSUME StageInv, pc = "serving" PROVE NoHalfEndpoint
    BY DEF NoHalfEndpoint
  <2>1. \A v \in TfCore : cfg(v) = env[v]
    BY Settled DEF StageInv, TfCore, Settings, Defaulted
  <2>2. CASE ~TfEnabled
    <3>1. \A v \in CoreKnobs : env[v] = Blank
      BY <2>1, <2>2 DEF TfEnabled, TfCore, CoreKnobs
    <3>2. ~Serves("tf-apply") /\ ~Serves("tf-plan")
      BY <2>2, OnlyWhenAsked DEF Serves
    <3> QED
      BY <3>1, <3>2 DEF NoHalfEndpoint
  <2>3. CASE TfEnabled
    <3>1. Serves("tf-apply") /\ Serves("tf-plan") /\ tokenSource = WantsTokens
      BY <2>3 DEF StageInv, Serves
    <3>2. \A v \in TfCore : env[v] # Blank
      BY <2>1, <2>3, NoneMissing DEF Required
    <3>3. cfg("TF_APPLY_REPO_URL") \in GitHubURLs => WantsTokens
      BY <2>3, NoneMissing DEF Required, WantsTokens
    <3> QED
      BY <3>1, <3>2, <3>3 DEF NoHalfEndpoint
  <2> QED
    BY <2>2, <2>3
<1> QED
  BY <1>1, Invariance, PTL
=============================================================================
