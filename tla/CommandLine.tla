----------------------------- MODULE CommandLine -----------------------------
(***************************************************************************)
(* The command-line program (apps/detrcpp/main.cpp): one command after     *)
(* another on the same disk, each a process of its own that builds its     *)
(* network, loads weights into it key by key, works and exits. Training    *)
(* itself is module TrainingRun; here it ends with a checkpoint.           *)
(***************************************************************************)
EXTENDS ModuleLoad

CONSTANTS Commands,    \* the command lines tried: records, see Option
          Shipped,     \* weight files there at the start: name -> StateDict
          Params(_),   \* a command's network: [parameters, buffers], each a
                       \* list of <<name, shape>>
          Registered,  \* the names of the networks that can be built
          MaxCommands, \* bound on the commands of a session
          NoCommand, Unreadable

Buildable(c) == c.config # "broken" /\ c.model \in Registered

\* Everything a network registers: parameters, then buffers.
Shapes(c) == Params(c).parameters \o Params(c).buffers

ASSUME Networks ==
  \A c \in Commands : Buildable(c) =>
    /\ IsList(Params(c).parameters) /\ IsList(Params(c).buffers)
    /\ IsList(Shapes(c))
    /\ \A j, k \in DOMAIN Shapes(c) : Shapes(c)[j][1] = Shapes(c)[k][1] => j = k
    /\ \A d \in Commands : d.model = c.model /\ d.config = c.config => Params(d) = Params(c)

\* The rules are for the names of others: a network's own stay what they are.
ASSUME OwnNames ==
  \A c \in Commands : Buildable(c) =>
    \A p \in Names(Shapes(c)) : p # Dropped /\ Map(RulesOf(c.model), p) = p

\* What comes with the program was trained.
ASSUME ShippedTrained ==
  \A f \in DOMAIN Shipped : Shipped[f] # Unreadable =>
    /\ IsList(Shipped[f])
    /\ \A k \in DOMAIN Shipped[f] : Shipped[f][k][2].data[1] = "trained"

VARIABLES disk,     \* weight file -> [sd, of]; "of": what network was exported
          cmd, step,
          module,   \* parameter -> [shape, data]; data is <<"init", network,
                    \* parameter>>, the random value of one, or <<"trained",
                    \* parameter>>
          todo,     \* what LoadStateDictInto has not looked at yet
          report,
          exit,     \* the exit code of the last command, or "running"
          count,
          told      \* the <<network, parameter>> some report called missing

vars == <<disk, cmd, step, module, todo, report, exit, count, told>>

Ok == 0
UsageError == 2
NotImplemented == 64
InternalError == 70

Verbs == {"train", "val", "test", "predict", "export", "download", "benchmark"}
Verb == CHOOSE v \in Verbs : cmd.verbs = {v}

Init == /\ disk = [f \in DOMAIN Shipped |-> [sd |-> Shipped[f], of |-> << >>]]
        /\ cmd = NoCommand /\ step = "prompt"
        /\ module = << >> /\ todo = <<>> /\ report = NoReport
        /\ exit = Ok /\ count = 0 /\ told = {}

\* The process ends and what it held in memory is gone.
Exit(code) == /\ exit' = code /\ step' = "prompt" /\ cmd' = NoCommand
              /\ module' = << >> /\ todo' = <<>> /\ report' = NoReport

Go(next) == step' = next /\ UNCHANGED <<cmd, exit>>

-----------------------------------------------------------------------------
(* main *)

Invoke == /\ step = "prompt" /\ count < MaxCommands
          /\ cmd' \in Commands /\ count' = count + 1
          /\ step' = "main" /\ exit' = "running"
          /\ UNCHANGED <<disk, module, todo, report, told>>

\* Without one verb: the list of networks, the help, or a usage error.
NoSingleVerb ==
  /\ step = "main"
  /\ cmd.list \/ Cardinality(cmd.verbs) # 1
  /\ Exit(IF cmd.list \/ cmd.verbs = {} THEN Ok ELSE UsageError)
  /\ UNCHANGED <<disk, count, told>>

NotYet == /\ step = "main" /\ ~cmd.list
          /\ cmd.verbs \in {{"download"}, {"benchmark"}}
          /\ Exit(NotImplemented)
          /\ UNCHANGED <<disk, count, told>>

\* Require, for the options that the verb cannot do without.
Required == CASE Verb = "train" -> {"model"}
              [] Verb \in {"val", "test", "export"} -> {"model", "weights"}
              [] Verb = "predict" -> {"model", "weights", "source"}

Runnable == /\ cmd.verbs \in {{"train"}, {"val"}, {"test"}, {"predict"}, {"export"}}
            /\ ~cmd.list

\* core::ParseDevice: a kind, then nothing, an index that fits, or a serial.
Kinds == {"auto", "cpu", "cuda", "mps", "vulkan", "coreml", "nnapi", "hailo",
          "axelera", "memryx", "deepx", "jetson"}
Parses(device) == device.kind \in Kinds /\ device.tail # "too many digits"

Check ==
  /\ step = "main" /\ Runnable
  /\ IF (\A o \in Required : cmd[o] # "") /\ Parses(cmd.device)
     THEN Go("build") /\ UNCHANGED <<module, todo, report>>
     ELSE Exit(UsageError)
  /\ UNCHANGED <<disk, count, told>>

-----------------------------------------------------------------------------
(* The head of RunTrainTorch, RunEvalTorch, RunPredictTorch, RunExportTorch *)

\* The YAML file, then Registry::Build: a network with its initial values.
Build ==
  /\ step = "build"
  /\ IF Buildable(cmd)
     THEN /\ module' = [p \in Names(Shapes(cmd)) |->
                          [shape |-> Find(Shapes(cmd), p), data |-> <<"init", cmd.model, p>>]]
          /\ Go(IF Verb = "train" THEN "work" ELSE "weights")
          /\ UNCHANGED <<todo, report>>
     ELSE Exit(UsageError)
  /\ UNCHANGED <<disk, count, told>>

\* LoadPth, and the remapped copy that LoadStateDictInto starts from.
OpenWeights ==
  /\ step = "weights"
  /\ IF cmd.weights \in DOMAIN disk /\ disk[cmd.weights].sd # Unreadable
     THEN /\ todo' = Apply(RulesOf(cmd.model), disk[cmd.weights].sd)
          /\ Go("keys") /\ UNCHANGED <<module, report>>
     ELSE Exit(UsageError)
  /\ UNCHANGED <<disk, count, told>>

LoadKey ==
  /\ step = "keys" /\ todo # <<>>
  /\ module' = Copied(module, todo[1])
  /\ report' = Reported(module, report, todo[1])
  /\ todo' = Tail(todo)
  /\ UNCHANGED <<disk, cmd, step, exit, count, told>>

AnyReportOk(rep) == TRUE

\* A network of which no tensor came from the file must not run.
ReportWeightsOk(rep) == rep.loaded # {}

FinishLoad ==
  /\ step = "keys" /\ todo = <<>>
  /\ LET rep == WithMissing(module, report)
     IN  /\ told' = told \cup ({cmd.model} \X rep.missing)
         /\ IF ReportWeightsOk(rep)
            THEN Go("work") /\ report' = rep /\ UNCHANGED <<module, todo>>
            ELSE Exit(UsageError)
  /\ UNCHANGED <<disk, count>>

-----------------------------------------------------------------------------
(* What each verb does with its network *)

Write(f, sd, of) ==
  disk' = [g \in DOMAIN disk \cup {f} |-> IF g = f THEN [sd |-> sd, of |-> of] ELSE disk[g]]

\* Tensors under their own names.
Listed(entries, net) == [k \in DOMAIN entries |-> <<entries[k][1], net[entries[k][1]]>>]

ParametersOnly == Listed(Params(cmd).parameters, module)

StateDictFromModule == Listed(Shapes(cmd), module)

\* RunTrainTorch: no data, or no sample to train on, is a usage error; a run
\* that ends has a checkpoint unless it could not be saved: the average of the
\* trained parameters, without buffers.
Trained == Listed(Params(cmd).parameters,
                  [p \in DOMAIN module |-> [module[p] EXCEPT !.data = <<"trained", p>>]])

Train ==
  /\ step = "work" /\ Verb = "train"
  /\ IF cmd.data = "good"
     THEN (Write("last", Trained, << >>) \/ UNCHANGED disk) /\ Exit(Ok)
     ELSE UNCHANGED disk /\ Exit(UsageError)
  /\ UNCHANGED <<count, told>>

Evaluate ==
  /\ step = "work" /\ Verb \in {"val", "test"}
  /\ Exit(IF cmd.data = "good" THEN Ok ELSE UsageError)
  /\ UNCHANGED <<disk, count, told>>

Predict ==
  /\ step = "work" /\ Verb = "predict"
  /\ Exit(IF cmd.source = "images" THEN Ok ELSE UsageError)
  /\ UNCHANGED <<disk, count, told>>

\* pth is written here; onnx and the other formats only name another program.
ExportFile == cmd.model \o ".pth"
Origin == [model |-> cmd.model, config |-> cmd.config, module |-> module]

Export ==
  /\ step = "work" /\ Verb = "export"
  /\ IF cmd.format = "pth"
     THEN \/ Write(ExportFile, StateDictFromModule, Origin) /\ Exit(Ok)
          \/ Write(ExportFile, Unreadable, << >>) /\ Exit(InternalError)
     ELSE UNCHANGED disk /\ Exit(NotImplemented)
  /\ UNCHANGED <<count, told>>

\* Anything below main that throws: the handler of the verb, or of main.
Throw == /\ step \in {"build", "weights", "keys", "work"}
         /\ Exit(InternalError)
         /\ UNCHANGED <<disk, count, told>>

Next == \/ Invoke \/ NoSingleVerb \/ NotYet \/ Check \/ Build \/ OpenWeights
        \/ LoadKey \/ FinishLoad \/ Train \/ Evaluate \/ Predict \/ Export \/ Throw

Spec == Init /\ [][Next]_vars

-----------------------------------------------------------------------------
(* Properties. The data of a trained tensor says the parameter it is for. *)

Random(t) == t.data[1] = "init"

\* A tensor never ends on another parameter than its own, whichever names a
\* checkpoint uses and whatever order the rules of the remapper come in.
OnItsOwnParameter ==
  \A p \in DOMAIN module : Random(module[p]) \/ module[p].data = <<"trained", p>>

\* A network that works has something of its file; and a value that nobody
\* trained was called missing by a report: of this load or, when the file was
\* exported, of the process whose network made it up.
NoSilentInit ==
  step = "work" /\ Verb # "train" =>
    /\ report.loaded # {}
    /\ \A p \in DOMAIN module :
         Random(module[p]) => <<module[p].data[2], module[p].data[3]>> \in told

\* An exported file gives the same network, built the same way, back: no key
\* is lost, renamed or left over on the way through the remapper again.
SameNetwork == /\ cmd.weights \in DOMAIN disk
               /\ disk[cmd.weights].of # << >>
               /\ disk[cmd.weights].of.model = cmd.model
               /\ disk[cmd.weights].of.config = cmd.config

ExportedComesBack ==
  step = "work" /\ Verb # "train" /\ SameNetwork =>
    /\ module = disk[cmd.weights].of.module
    /\ report.unexpected = {} /\ report.mismatched = {} /\ report.missing = {}
=============================================================================
