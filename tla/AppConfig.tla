------------------------------ MODULE AppConfig ------------------------------
(***************************************************************************)
(* The settings of a process (architecture/common): the singleton that     *)
(* InitAppConfig makes from the YAML file, the copies of it that ParseMsgs *)
(* and GlogMsg take, and the file itself, which somebody may edit.         *)
(*                                                                         *)
(* Of the settings the home directory and the accuracy of the model are    *)
(* told apart.  The edition, which edit of the file the values are from,   *)
(* is history: the program does not see it.                                *)
(***************************************************************************)
EXTENDS Integers

CONSTANTS
    Processes,
    Homes,          \* directories, under each of which there is an engine
    NoHome,
    Accuracies,     \* values of model_acc
    MaxEdits        \* bound: edits of the file

ASSUME ConfigAssumption ==
    NoHome \notin Homes /\ Accuracies \subseteq Int /\ MaxEdits \in Nat

VARIABLES
    config,         \* what the YAML file says
    app,            \* AppConfig's members and pinstance_
    msgs,           \* the ParseMsgs of the pipeline
    log,            \* the ParseMsgs that the logger was started with
    renamed         \* history: InitConfig was called with an instance there

configVars == <<config, app, msgs, log, renamed>>

-----------------------------------------------------------------------------
\* "bad": there is no file, or no name of one, a key is missing, a value has the
\* wrong type or a path is empty; "null": an empty document.
Contents ==
    [kind : {"good"}, acc : Accuracies, edition : 0 .. MaxEdits] \cup
    [kind : {"bad", "null"}, acc : {0}, edition : 0 .. MaxEdits]

\* There is no instance as long as nothing was read.
NotRead == [kind |-> "none", acc |-> 0, edition |-> 0]
Nothing == [home |-> NoHome, settings |-> NotRead]

HasInstance(p) == app[p].settings # NotRead

\* Reading the file ends the process, by exit or by an exception.
Fatal(content) == content.kind = "bad"

ConfigStart ==
    /\ config \in Contents /\ config.edition = 0
    /\ app = [p \in Processes |-> Nothing]
    /\ msgs = app /\ log = app
    /\ renamed = [p \in Processes |-> FALSE]

\* A process ends, and takes its members along.
ForgetConfig(p) ==
    /\ app' = [app EXCEPT ![p] = Nothing]
    /\ msgs' = [msgs EXCEPT ![p] = Nothing]
    /\ log' = [log EXCEPT ![p] = Nothing]
    /\ renamed' = [renamed EXCEPT ![p] = FALSE]
    /\ UNCHANGED config

\* InitAppConfig with the home h, where it does not end the process.  The file
\* is read once; the home is replaced each time.
InitConfig(p, h) ==
    /\ HasInstance(p) \/ ~Fatal(config)
    /\ app' = [app EXCEPT ![p] =
                  [home |-> h,
                   settings |-> IF HasInstance(p) THEN @.settings ELSE config]]
    /\ renamed' = [renamed EXCEPT ![p] = HasInstance(p)]
    /\ UNCHANGED <<config, msgs, log>>

\* GlogMsg::Init.  It reads the settings each time, and the logging library is
\* started with them once.
InitLogging(p) == log' = [log EXCEPT ![p] = IF @ = Nothing THEN app[p] ELSE @]

ReadParamsUnchecked(p) ==       \* mutant: no instance is asked for
    /\ InitLogging(p)
    /\ msgs' = [msgs EXCEPT ![p] = app[p]]
    /\ UNCHANGED <<config, app, renamed>>

\* InferPipeline::Init, as far as the modules: InitLogging and ParseMsgs.
ReadParams(p) ==
    /\ HasInstance(p)
    /\ InitLogging(p)
    /\ msgs' = [msgs EXCEPT ![p] = app[p]]
    /\ UNCHANGED <<config, app, renamed>>

Edit(content) ==
    /\ content.edition = config.edition + 1
    /\ content # [config EXCEPT !.edition = @ + 1]
    /\ config' = content
    /\ UNCHANGED <<app, msgs, log, renamed>>
=============================================================================
