------------------------------ MODULE Settings ------------------------------
(* Model and permission settings of a running runtime: what                 *)
(* settings.update_model, settings.update_permissions, credentials.connect, *)
(* credentials.disconnect and session.resume do to the model, the policy    *)
(* and the runner a run will use, and what survives a restart.              *)
(*                                                                          *)
(* model, policy and runner sit behind three locks, each taken for one      *)
(* assignment, so a call is a sequence of steps with other calls in         *)
(* between.  Requests of different clients are served by different threads. *)
EXTENDS Naturals

CONSTANTS
  Callers,      \* client threads serving a settings request
  DefaultModel, \* ModelConfig::from_env() of the process
  Requests,     \* model changes clients ask for
  Levels,       \* <<provider, name>> -> reasoning levels the catalogue lists
  SettingModes, \* execution modes
  FileMode,     \* mode written in .agent/config.toml
  Unselected,   \* Option::None
  MaxSettingsCalls,     \* bound: settings calls of one behaviour
  MaxCrashes    \* bound: crashes of the runtime process

(* OpenCode providers: a configured model name carries the provider as a    *)
(* namespace, a preference does not.                                        *)
Namespaced == {"zen"}

(* A model configuration; spaced says the name carries the provider's       *)
(* namespace.                                                               *)
Config(provider, name, spaced, effort) ==
  [provider |-> provider, name |-> name, spaced |-> spaced, effort |-> effort]

Preference(config) == [provider |-> config.provider, name |-> config.name, effort |-> config.effort]

(* ModelPreference::apply_to: the stripped name gets its namespace back     *)
(* where the provider uses one.                                             *)
ApplyPreference(preference) ==
  Config(preference.provider, preference.name, preference.provider \in Namespaced, preference.effort)

(* ModelConfig::for_provider. *)
DefaultName(provider) == IF provider = "zen" THEN "zen default" ELSE "ai default"

(* ModelConfig::select_provider: a model that was the old provider's        *)
(* default becomes the new one's; any other name is kept.                   *)
SelectProvider(config, provider) ==
  IF provider = config.provider
  THEN config
  ELSE [config EXCEPT !.provider = provider,
                      !.effort = Unselected,
                      !.spaced = IF config.name = DefaultName(config.provider) THEN provider \in Namespaced ELSE @,
                      !.name = IF @ = DefaultName(config.provider) THEN DefaultName(provider) ELSE @]

(* A name the catalogue lists, with its namespace where it has one.         *)
ListedLevels(config) ==
  IF <<config.provider, config.name>> \in DOMAIN Levels /\ config.spaced = (config.provider \in Namespaced)
  THEN Levels[<<config.provider, config.name>>]
  ELSE {}

(* An effort named in COGITO_MODEL_REASONING_EFFORT, which nobody checks,  *)
(* is one the model has.                                                    *)
ASSUME DefaultAssumption ==
  /\ DefaultModel = Config(DefaultModel.provider, DefaultModel.name, DefaultModel.spaced, DefaultModel.effort)
  /\ DefaultModel.effort # Unselected => DefaultModel.effort \in ListedLevels(DefaultModel)

SameModel(a, b) == a.provider = b.provider /\ a.name = b.name /\ a.spaced = b.spaced

(* The configuration apply_model computes from the current one; effort      *)
(* "off" clears it, Unselected leaves it out of the request.                *)
NextKeepingEffort(current, request) ==
  LET selected == IF request.provider = Unselected THEN current ELSE SelectProvider(current, request.provider)
      named    == IF request.name = Unselected
                  THEN selected
                  ELSE [selected EXCEPT !.name = request.name, !.spaced = request.spaced]
  IN [named EXCEPT !.effort = IF request.effort = "off" THEN Unselected
                              ELSE IF request.effort # Unselected THEN request.effort ELSE @]

NextModel(current, request) ==
  LET next == NextKeepingEffort(current, request)
  IN IF ~SameModel(next, current) /\ request.effort = Unselected
     THEN [next EXCEPT !.effort = Unselected]
     ELSE next

(* Validation before anything is mutated: an effort needs a model that      *)
(* advertises levels, this one among them; an event needs a session.        *)
Acceptable(next, request) ==
  /\ request.effort # Unselected => ListedLevels(next) # {}
  /\ request.effort \notin {Unselected, "off"} => request.effort \in ListedLevels(next)
  /\ request.event => request.session

VARIABLES
  model,      \* Runtime.model
  policy,     \* Runtime.policy: its mode and whether it holds the project's rules
  runner,     \* Runtime.agent_runner: the model, policy and key it was built with
  config,     \* .agent/config.toml: rules, mode, model preference
  userChoice, \* models.toml of the user
  sessionChoice, \* the last ModelChanged event of the session
  environment, \* whether the environment names a credential; it does not change
  key,        \* the credential in the keychain
  call,       \* per caller: where it is and what it has read
  calls, crashes,
  overlapped, \* history: two calls ran at the same time since the last start
  disturbed,  \* history: the same since a call last rebuilt the runner alone, or a rebuild failed
  alone,      \* history: calls nobody has run beside
  asked       \* history: the mode of the last permission change, the file's after a start

settingsVars == <<model, policy, runner, config, userChoice, sessionChoice, environment, key, call, calls, crashes,
                  overlapped, disturbed, alone, asked>>

Idle == [pc |-> "idle"]

Active(c) == call[c].pc # "idle"

Quiet == \A c \in Callers : ~Active(c)

EmptyFile == [rules |-> FALSE, mode |-> "normal", choice |-> Unselected]

(* SystemCredentialStore::get: the environment before the keychain.         *)
KeyInUse == IF environment THEN "environment" ELSE key

(* policy_for_workspace with the requested mode, and the credential the     *)
(* provider adapter is made with.                                           *)
Built(configured, mode) ==
  [model |-> configured, mode |-> mode, rules |-> config.rules, key |-> KeyInUse]

(* apply_saved_model_preferences: the user's choice, then the project's.    *)
Preferred(base) ==
  LET user == IF userChoice = Unselected THEN base ELSE ApplyPreference(userChoice)
  IN IF config.choice = Unselected THEN user ELSE ApplyPreference(config.choice)

SettingsInit ==
  /\ model = DefaultModel
  /\ config = [rules |-> TRUE, mode |-> FileMode, choice |-> Unselected]
  /\ policy = [mode |-> FileMode, rules |-> TRUE]
  /\ environment \in BOOLEAN
  /\ key = "none"
  /\ runner = [model |-> DefaultModel, mode |-> FileMode, rules |-> TRUE, key |-> KeyInUse]
  /\ userChoice = Unselected /\ sessionChoice = Unselected
  /\ call = [c \in Callers |-> Idle]
  /\ calls = 0 /\ crashes = 0
  /\ overlapped = FALSE /\ disturbed = FALSE /\ alone = {}
  /\ asked = FileMode

(* A request starts; what it shares with others already running is noted.   *)
Enter(c, record) ==
  /\ ~Active(c)
  /\ calls < MaxSettingsCalls
  /\ calls' = calls + 1
  /\ call' = [call EXCEPT ![c] = record]
  /\ overlapped' = (overlapped \/ ~Quiet)
  /\ disturbed' = (disturbed \/ ~Quiet)
  /\ alone' = IF Quiet THEN {c} ELSE {}

Goto(c, pc) == call' = [call EXCEPT ![c].pc = pc]

Reply(c) == call' = [call EXCEPT ![c] = Idle]

(* apply_model: reads the model, computes and validates the next one.       *)
UpdateModel(c, request) ==
  LET next == NextModel(model, request)
  IN /\ Acceptable(next, request)
     /\ Enter(c, [pc |-> "mode", next |-> next, mode |-> "", scope |-> request.scope, event |-> request.event])
     /\ UNCHANGED <<model, policy, runner, config, userChoice, sessionChoice, environment, key, crashes, asked>>

(* apply_permissions reads the model and keeps it.                          *)
UpdatePermissions(c, mode) ==
  /\ Enter(c, [pc |-> "build", next |-> model, mode |-> mode, scope |-> "none", event |-> FALSE])
  /\ asked' = mode
  /\ UNCHANGED <<model, policy, runner, config, userChoice, sessionChoice, environment, key, crashes>>

(* connect_provider stores the validated key unless the environment has     *)
(* one, disconnect_provider deletes it; refresh_agent_runner follows.       *)
ChangeCredential(c, stored) ==
  /\ Enter(c, [pc |-> "refresh", next |-> model, mode |-> "", scope |-> "none", event |-> FALSE])
  /\ key' = IF environment /\ stored # "none" THEN key ELSE stored
  /\ UNCHANGED <<model, policy, runner, config, userChoice, sessionChoice, environment, crashes, asked>>

(* The model a resumed session goes back to: its last recorded change, or   *)
(* the saved preferences.                                                   *)
Resumed == IF sessionChoice = Unselected THEN Preferred(model) ELSE ApplyPreference(sessionChoice)

ResumeSettings(c) ==
  /\ Resumed # model
  /\ Enter(c, [pc |-> "mode", next |-> Resumed, mode |-> "", scope |-> "none", event |-> FALSE])
  /\ UNCHANGED <<model, policy, runner, config, userChoice, sessionChoice, environment, key, crashes, asked>>

(* execution_mode(), read from the policy before apply_settings.            *)
ReadMode(c) ==
  /\ call[c].pc = "mode"
  /\ call' = [call EXCEPT ![c].mode = policy.mode, ![c].pc = "build"]
  /\ UNCHANGED <<model, policy, runner, config, userChoice, sessionChoice, environment, key, calls, crashes,
                 overlapped, disturbed, alone, asked>>

(* refresh_agent_runner reads the model and the mode; only the runner will  *)
(* be replaced.                                                             *)
ReadForRefresh(c) ==
  /\ call[c].pc = "refresh"
  /\ call' = [call EXCEPT ![c].next = model, ![c].mode = policy.mode, ![c].pc = "rebuild"]
  /\ UNCHANGED <<model, policy, runner, config, userChoice, sessionChoice, environment, key, calls, crashes,
                 overlapped, disturbed, alone, asked>>

(* factory.build: from the credential and config.toml as they are now.  The *)
(* workspace or the provider may refuse; nothing has been changed by        *)
(* apply_settings then, but a credential has.                               *)
Build(c) ==
  /\ call[c].pc \in {"build", "rebuild"}
  /\ \/ /\ call' = [call EXCEPT ![c] = [pc      |-> IF call[c].pc = "build" THEN "write model" ELSE "write runner",
                                        next    |-> call[c].next,
                                        mode    |-> call[c].mode,
                                        scope   |-> call[c].scope,
                                        event   |-> call[c].event,
                                        built   |-> Built(call[c].next, call[c].mode)]]
        /\ UNCHANGED <<disturbed, asked>>
     \/ /\ Reply(c)
        /\ disturbed' = (disturbed \/ call[c].pc = "rebuild")
        /\ asked' = policy.mode
  /\ UNCHANGED <<model, policy, runner, config, userChoice, sessionChoice, environment, key, calls, crashes, overlapped, alone>>

WriteModel(c) ==
  /\ call[c].pc = "write model"
  /\ model' = call[c].next
  /\ Goto(c, "write policy")
  /\ UNCHANGED <<policy, runner, config, userChoice, sessionChoice, environment, key, calls, crashes,
                 overlapped, disturbed, alone, asked>>

(* PolicyEngine::new(mode, root): the built-in policy, without the rules of *)
(* config.toml.                                                             *)
WritePolicy(c) ==
  /\ call[c].pc = "write policy"
  /\ policy' = [mode |-> call[c].mode, rules |-> FALSE]
  /\ Goto(c, "write runner")
  /\ UNCHANGED <<model, runner, config, userChoice, sessionChoice, environment, key, calls, crashes,
                 overlapped, disturbed, alone, asked>>

NextAfterRunner(c) ==
  CASE call[c].scope = "project" -> "read file"
    [] call[c].scope = "user"    -> "save user"
    [] OTHER                     -> "record"

(* A rebuilt runner that keeps the provider adapter of the old one. *)
WriteRunnerOldKey(c) ==
  /\ call[c].pc = "write runner"
  /\ runner' = [call[c].built EXCEPT !.key = runner.key]
  /\ Goto(c, NextAfterRunner(c))
  /\ disturbed' = (disturbed /\ c \notin alone)
  /\ UNCHANGED <<model, policy, config, userChoice, sessionChoice, environment, key, calls, crashes, overlapped, alone, asked>>

WriteRunner(c) ==
  /\ call[c].pc = "write runner"
  /\ runner' = call[c].built
  /\ Goto(c, NextAfterRunner(c))
  /\ disturbed' = (disturbed /\ c \notin alone)
  /\ UNCHANGED <<model, policy, config, userChoice, sessionChoice, environment, key, calls, crashes, overlapped, alone, asked>>

(* save_user_model_preference, which may fail after the change is in force; *)
(* the file is truncated before it is filled.                               *)
SaveUser(c) ==
  /\ call[c].pc = "save user"
  /\ \/ userChoice' = Unselected /\ Goto(c, "fill user")
     \/ UNCHANGED userChoice /\ Reply(c)
  /\ UNCHANGED <<model, policy, runner, config, sessionChoice, environment, key, calls, crashes,
                 overlapped, disturbed, alone, asked>>

FillUser(c) ==
  /\ call[c].pc = "fill user"
  /\ userChoice' = Preference(call[c].next)
  /\ Goto(c, "record")
  /\ UNCHANGED <<model, policy, runner, config, sessionChoice, environment, key, calls, crashes,
                 overlapped, disturbed, alone, asked>>

(* save_project_model_preference: reads the whole document, replaces its    *)
(* [model] table, truncates the file and writes the document back.          *)
ReadConfigFile(c) ==
  /\ call[c].pc = "read file"
  /\ \/ call' = [call EXCEPT ![c] = [pc |-> "save file", next |-> call[c].next, event |-> call[c].event,
                                     document |-> [config EXCEPT !.choice = Preference(call[c].next)]]]
     \/ Reply(c)
  /\ UNCHANGED <<model, policy, runner, config, userChoice, sessionChoice, environment, key, calls, crashes,
                 overlapped, disturbed, alone, asked>>

SaveFile(c) ==
  /\ call[c].pc = "save file"
  /\ config' = EmptyFile
  /\ Goto(c, "fill file")
  /\ UNCHANGED <<model, policy, runner, userChoice, sessionChoice, environment, key, calls, crashes,
                 overlapped, disturbed, alone, asked>>

FillFile(c) ==
  /\ call[c].pc = "fill file"
  /\ config' = call[c].document
  /\ Goto(c, "record")
  /\ UNCHANGED <<model, policy, runner, userChoice, sessionChoice, environment, key, calls, crashes,
                 overlapped, disturbed, alone, asked>>

(* record_model_change, which may fail: the session is unknown, or another  *)
(* workspace's.                                                             *)
RecordChange(c) ==
  /\ call[c].pc = "record"
  /\ sessionChoice' \in IF call[c].event THEN {sessionChoice, Preference(call[c].next)} ELSE {sessionChoice}
  /\ Reply(c)
  /\ UNCHANGED <<model, policy, runner, config, userChoice, environment, key, calls, crashes,
                 overlapped, disturbed, alone, asked>>

(* The process dies and is started again: build_runtime reads config.toml,  *)
(* then applies the saved preferences.                                      *)
RestartRuntime ==
  /\ crashes < MaxCrashes
  /\ crashes' = crashes + 1
  /\ call' = [c \in Callers |-> Idle]
  /\ model' = Preferred(DefaultModel)
  /\ policy' = [mode |-> config.mode, rules |-> config.rules /\ Preferred(DefaultModel) = DefaultModel]
  /\ runner' = Built(Preferred(DefaultModel), config.mode)
  /\ overlapped' = FALSE /\ disturbed' = FALSE /\ alone' = {}
  /\ asked' = config.mode
  /\ UNCHANGED <<config, userChoice, sessionChoice, environment, key, calls>>

SettingsNext ==
  \/ \E c \in Callers :
       \/ \E request \in Requests : UpdateModel(c, request)
       \/ \E mode \in SettingModes : UpdatePermissions(c, mode)
       \/ \E stored \in {"none", "new"} : ChangeCredential(c, stored)
       \/ ResumeSettings(c) \/ ReadMode(c) \/ ReadForRefresh(c) \/ Build(c)
       \/ WriteModel(c) \/ WritePolicy(c) \/ WriteRunner(c)
       \/ SaveUser(c) \/ FillUser(c) \/ ReadConfigFile(c) \/ SaveFile(c) \/ FillFile(c) \/ RecordChange(c)
  \/ RestartRuntime

SettingsSpec == SettingsInit /\ [][SettingsNext]_settingsVars

----------------------------------------------------------------------------
(* A run uses what the settings screens show: once every call has returned, *)
(* the runner was built with the selected model, the policy's mode, the     *)
(* stored key and the project's rules - unless calls overlapped and no call *)
(* since has rebuilt it alone.  One change made alone repairs whatever      *)
(* overlapping calls left behind (Runtime::apply_settings,                  *)
(* refresh_agent_runner).                                                   *)
LoneChangeInForce ==
  Quiet /\ ~disturbed =>
    /\ runner.model = model
    /\ runner.mode = policy.mode
    /\ runner.key = KeyInUse
    /\ runner.rules = config.rules

(* A permission mode stays until it is changed: model changes, credentials  *)
(* and resumed sessions re-apply the mode they read from the policy, so     *)
(* none of them widens or narrows it, while calls do not overlap            *)
(* (apply_model's runtime.execution_mode()).                                *)
ModeKept == Quiet /\ ~overlapped => policy.mode = asked /\ runner.mode = asked

(* A reasoning effort in force, or saved for a later start or session, is   *)
(* one the catalogue lists for its model: whatever interleaving of changes  *)
(* of provider, model and effort, saved preferences, resumed sessions and   *)
(* crashes led there (apply_model clears an effort that was chosen for      *)
(* another model; a preference carries the effort with the model).          *)
EffortIsListed ==
  \A c \in {model, runner.model} \cup {ApplyPreference(p) : p \in {userChoice, config.choice, sessionChoice} \ {Unselected}} :
    c.effort # Unselected => c.effort \in ListedLevels(c)

(* What the MCP control requests are checked against is what the agent is   *)
(* held to: "Still evaluate the same MCP policy as the agent"               *)
(* (authorize_mcp_control).  Not so after any settings change.              *)
SamePolicyAsAgent == Quiet => policy.rules = runner.rules

\* A change of the settings that meets no other is in force everywhere, keeps
\* the permissions it is not about and asks the model for nothing it lacks
\* (apply_settings, apply_model).
SettingsInForce == LoneChangeInForce /\ ModeKept /\ EffortIsListed
=============================================================================
