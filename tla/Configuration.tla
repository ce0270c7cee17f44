--------------------------- MODULE Configuration ---------------------------
(***************************************************************************)
(* The settings of a running service and the file they are saved in: the   *)
(* start, POST /api/v1/config on cpp-httplib's threads, and the readers    *)
(* on the sampler's thread.  runtime_cfg has no lock.                      *)
(*                                                                         *)
(* Sources: src/src/config/config_manager.cpp,                             *)
(* src/src/server/http_server.cpp and src/apps/pulseport-service/main.cpp. *)
(***************************************************************************)
EXTENDS Naturals, Sequences

CONSTANTS
  Threads,          \* cpp-httplib's threads that may serve a POST
  AlertFields,      \* settings copied into the alert evaluator at start-up
  RetentionFields,  \* settings that every maintenance reads again
  ApplyOrder,       \* the settings in the order in which POST applies them
  DumpOrder,        \* and in the order in which to_json reads them
  Values,           \* the values in range
  OutOfRange,       \* a value that POST passes over and from_json takes
  WrongType,        \* a JSON value that get<>() throws on
  Absent,           \* the key is not in the body
  Missing,          \* file contents: there is no file,
  Emptied,          \* it has been truncated,
  Garbled,          \* it does not parse, or a setting has a wrong type
  Defaults,         \* Config{}
  StartPaths,       \* the files that a start may be told to read
  FirstFiles,       \* what somebody may have put into a file before the first start
  MaxStarts,        \* bound on the starts
  MaxPosts          \* bound on the requests

Fields   == AlertFields \cup RetentionFields
AnyValue == Values \cup {OutOfRange}
Configs  == [Fields -> AnyValue]
Bodies   == [Fields -> AnyValue \cup {WrongType, Absent}]
Texts    == [Fields -> AnyValue \cup {Absent}]
Paths    == {"saved", "other"}

ASSUME OrdersAssumption ==
  /\ ApplyOrder \in Seq(Fields)
  /\ DumpOrder \in Seq(Fields)
  /\ \A f \in Fields : \E i \in 1..Len(ApplyOrder) : ApplyOrder[i] = f
  /\ \A f \in Fields : \E i \in 1..Len(DumpOrder) : DumpOrder[i] = f
ASSUME ValuesAssumption ==
  /\ Defaults \in [Fields -> Values]
  /\ {OutOfRange, WrongType, Absent} \cap Values = {} /\ Absent # OutOfRange
  /\ {Missing, Emptied, Garbled} \cap Texts = {}
ASSUME FilesAssumption ==
  /\ StartPaths \subseteq Paths
  /\ FirstFiles \subseteq Texts \cup {Missing, Garbled}
ASSUME BoundsAssumption == MaxStarts \in Nat /\ MaxPosts \in Nat

VARIABLES
  running,     \* the process
  cfg,         \* runtime_cfg
  thresholds,  \* AlertEvaluator::thresholds_
  retention,   \* the RetentionConfig of the last maintenance
  given,       \* what was in either file before the first start
  file,        \* config.json beside the database
  pc,          \* each thread: the step of the POST it serves
  body,        \* the request's body
  at,          \* the next setting to apply or to write out
  text,        \* what to_json has read so far
  starts, posts,
  alone,       \* ghost: no other POST has been under way beside this one
  kept,        \* ghost: the last save was undisturbed and has not been begun again
  saved        \* ghost: the configuration of the last undisturbed save

service == <<running, cfg, thresholds, retention>>
request == <<pc, body, at, text>>
bounds  == <<starts, posts>>
ghosts  == <<alone, kept, saved>>
vars    == <<service, given, file, request, bounds, ghosts>>

NoBody == [f \in Fields |-> Absent]

\* load_config, from_json: a file that is missing or does not parse leaves the
\* defaults, a setting that is absent its own; no range is checked.
Load(content) ==
  IF content \in Texts
  THEN [f \in Fields |-> IF content[f] = Absent THEN Defaults[f] ELSE content[f]]
  ELSE Defaults

\* main reads --config, or config.json in the current directory: "saved", if that is
\* the file beside the database that POST writes, or some other one, which nothing
\* writes. The installed service has no --config and starts elsewhere: "other".
Loaded(path) == Load(IF path = "saved" THEN file ELSE given["other"])

Init ==
  /\ running = FALSE
  /\ cfg = Defaults
  /\ thresholds = [f \in AlertFields |-> Defaults[f]]
  /\ retention = [f \in RetentionFields |-> Defaults[f]]
  /\ given \in [Paths -> FirstFiles]
  /\ file = given["saved"]
  /\ pc = [t \in Threads |-> "idle"] /\ body = [t \in Threads |-> NoBody]
  /\ at = [t \in Threads |-> 1] /\ text = [t \in Threads |-> NoBody]
  /\ starts = 0 /\ posts = 0
  /\ alone = [t \in Threads |-> FALSE] /\ kept = TRUE /\ saved = Load(file)

-----------------------------------------------------------------------------
(* The process.                                                            *)

Start(path) ==
  /\ ~running /\ starts < MaxStarts
  /\ running' = TRUE /\ starts' = starts + 1
  /\ cfg' = Loaded(path)
  /\ thresholds' = [f \in AlertFields |-> Loaded(path)[f]]
  /\ UNCHANGED <<retention, given, file, request, posts, ghosts>>

\* The process ends, in a request or between two: what it had in memory is gone.
Exit ==
  /\ running /\ running' = FALSE
  /\ pc' = [t \in Threads |-> "idle"] /\ body' = [t \in Threads |-> NoBody]
  /\ at' = [t \in Threads |-> 1] /\ text' = [t \in Threads |-> NoBody]
  /\ UNCHANGED <<cfg, thresholds, retention, given, file, bounds, ghosts>>

\* The collector "maintenance" copies the settings one at a time, without a lock.
ReadRetention(f) ==
  /\ running
  /\ retention' = [retention EXCEPT ![f] = cfg[f]]
  /\ UNCHANGED <<running, cfg, thresholds, given, file, request, bounds, ghosts>>

-----------------------------------------------------------------------------
(* POST /api/v1/config, past the checks of the origin and of the syntax.   *)

Busy(t) == pc[t] # "idle"

Finish(t) ==
  /\ pc' = [pc EXCEPT ![t] = "idle"] /\ body' = [body EXCEPT ![t] = NoBody]
  /\ at' = [at EXCEPT ![t] = 1] /\ text' = [text EXCEPT ![t] = NoBody]

Begin(t, b) ==
  /\ running /\ ~Busy(t) /\ posts < MaxPosts
  /\ pc' = [pc EXCEPT ![t] = "apply"] /\ body' = [body EXCEPT ![t] = b]
  /\ posts' = posts + 1
  /\ alone' = [u \in Threads |-> IF u = t THEN \A v \in Threads \ {t} : ~Busy(v)
                                 ELSE alone[u] /\ ~Busy(u)]
  /\ UNCHANGED <<service, given, file, at, text, starts, kept, saved>>

\* Mutant: the value is read without asking whether the key is there.
ApplyMissingKey(t) ==
  /\ pc[t] = "apply" /\ at[t] <= Len(ApplyOrder)
  /\ LET f == ApplyOrder[at[t]] IN
       /\ body[t][f] # WrongType
       /\ cfg' = IF body[t][f] # OutOfRange THEN [cfg EXCEPT ![f] = body[t][f]] ELSE cfg
  /\ at' = [at EXCEPT ![t] = @ + 1]
  /\ UNCHANGED <<running, thresholds, retention, given, file, pc, body, text, bounds, ghosts>>

\* Mutant: the range is not checked.
ApplyUnchecked(t) ==
  /\ pc[t] = "apply" /\ at[t] <= Len(ApplyOrder)
  /\ LET f == ApplyOrder[at[t]] IN
       /\ body[t][f] # WrongType
       /\ cfg' = IF body[t][f] # Absent THEN [cfg EXCEPT ![f] = body[t][f]] ELSE cfg
  /\ at' = [at EXCEPT ![t] = @ + 1]
  /\ UNCHANGED <<running, thresholds, retention, given, file, pc, body, text, bounds, ghosts>>

\* apply_double, apply_int: a value out of range is passed over without a word.
Apply(t) ==
  /\ pc[t] = "apply" /\ at[t] <= Len(ApplyOrder)
  /\ LET f == ApplyOrder[at[t]] IN
       /\ body[t][f] # WrongType
       /\ cfg' = IF body[t][f] \in Values THEN [cfg EXCEPT ![f] = body[t][f]] ELSE cfg
  /\ at' = [at EXCEPT ![t] = @ + 1]
  /\ UNCHANGED <<running, thresholds, retention, given, file, pc, body, text, bounds, ghosts>>

\* get<>() throws out of the handler: 500, with the settings before it applied.
ApplyThrows(t) ==
  /\ pc[t] = "apply" /\ at[t] <= Len(ApplyOrder)
  /\ body[t][ApplyOrder[at[t]]] = WrongType
  /\ Finish(t)
  /\ UNCHANGED <<service, given, file, bounds, ghosts>>

\* Mutant: the file is opened for writing without truncating it.
OpenFileInPlace(t) ==
  /\ pc[t] = "apply" /\ at[t] > Len(ApplyOrder)
  /\ file' = IF file = Missing THEN Emptied ELSE file
  /\ kept' = FALSE
  /\ pc' = [pc EXCEPT ![t] = "dump"] /\ at' = [at EXCEPT ![t] = 1]
  /\ UNCHANGED <<service, given, body, text, bounds, alone, saved>>

\* Mutant: the settings are saved before the last one is applied.
OpenFileEarly(t) ==
  /\ pc[t] = "apply" /\ at[t] >= Len(ApplyOrder)
  /\ file' = Emptied /\ kept' = FALSE
  /\ pc' = [pc EXCEPT ![t] = "dump"] /\ at' = [at EXCEPT ![t] = 1]
  /\ UNCHANGED <<service, given, body, text, bounds, alone, saved>>

\* save_config: the ofstream truncates the file.
OpenFile(t) ==
  /\ pc[t] = "apply" /\ at[t] > Len(ApplyOrder)
  /\ file' = Emptied /\ kept' = FALSE
  /\ pc' = [pc EXCEPT ![t] = "dump"] /\ at' = [at EXCEPT ![t] = 1]
  /\ UNCHANGED <<service, given, body, text, bounds, alone, saved>>

\* No directory or no access: logged at most, and the answer is "ok" all the same.
OpenFails(t) ==
  /\ pc[t] = "apply" /\ at[t] > Len(ApplyOrder)
  /\ Finish(t) /\ kept' = FALSE
  /\ UNCHANGED <<service, given, file, bounds, alone, saved>>

\* nlohmann::json j = cfg: to_json reads the settings one after the other.
Dump(t) ==
  /\ pc[t] = "dump" /\ at[t] <= Len(DumpOrder)
  /\ LET f == DumpOrder[at[t]] IN text' = [text EXCEPT ![t][f] = cfg[f]]
  /\ at' = [at EXCEPT ![t] = @ + 1]
  /\ UNCHANGED <<service, given, file, pc, body, bounds, ghosts>>

\* The text goes out when the stream is closed, from the start of the file. It has
\* the whole file when nothing is there, or what it says itself; over another text
\* it leaves the rest of that one, when that one is longer.
Write(t) ==
  /\ pc[t] = "dump" /\ at[t] > Len(DumpOrder)
  /\ \/ file' = text[t]
     \/ file \notin {Emptied, text[t]} /\ file' = Garbled
  /\ pc' = [pc EXCEPT ![t] = "reply"]
  /\ UNCHANGED <<service, given, body, at, text, bounds, ghosts>>

\* A full disk: nothing is written, and nobody looks at the stream.
WriteFails(t) ==
  /\ pc[t] = "dump" /\ at[t] > Len(DumpOrder)
  /\ Finish(t)
  /\ UNCHANGED <<service, given, file, bounds, ghosts>>

\* The answer repeats the settings.
Reply(t) ==
  /\ pc[t] = "reply"
  /\ Finish(t)
  /\ IF alone[t] THEN kept' = TRUE /\ saved' = cfg ELSE UNCHANGED <<kept, saved>>
  /\ UNCHANGED <<service, given, file, bounds, alone>>

Post(t) ==
  \/ \E b \in Bodies : Begin(t, b)
  \/ Apply(t) \/ ApplyThrows(t)
  \/ OpenFile(t) \/ OpenFails(t) \/ Dump(t) \/ Write(t) \/ WriteFails(t)
  \/ Reply(t)

Next ==
  \/ (\E path \in StartPaths : Start(path)) \/ Exit
  \/ \E f \in RetentionFields : ReadRetention(f)
  \/ \E t \in Threads : Post(t)

Spec == Init /\ [][Next]_vars

-----------------------------------------------------------------------------
(* Properties.                                                             *)

\* Every setting is a number or a string the program can hold.
TypeOK ==
  /\ running \in BOOLEAN
  /\ cfg \in Configs /\ saved \in Configs
  /\ thresholds \in [AlertFields -> AnyValue]
  /\ retention \in [RetentionFields -> AnyValue]
  /\ given \in [Paths -> FirstFiles]
  /\ file \in Texts \cup {Missing, Emptied, Garbled}
  /\ pc \in [Threads -> {"idle", "apply", "dump", "reply"}]
  /\ body \in [Threads -> Bodies] /\ text \in [Threads -> Texts]
  /\ at \in [Threads -> Nat \ {0}]
  /\ starts \in 0..MaxStarts /\ posts \in 0..MaxPosts
  /\ alone \in [Threads -> BOOLEAN] /\ kept \in BOOLEAN

\* What a setting may be: in range, or what a file written by hand makes of it.
Legal(f) == Values \cup {Load(given[path])[f] : path \in Paths}

\* from_json checks no range, so a file written by hand may put a setting out of range.
\* A setting that both files had in range or left out stays in range, whatever requests
\* are mixed and wherever they or the process are cut off: the one in force, the
\* alert evaluator's, that of a maintenance and the one that a later start reads back.
SettingsInRange ==
  /\ \A f \in Fields : cfg[f] \in Legal(f) /\ Load(file)[f] \in Legal(f)
  /\ \A f \in AlertFields : thresholds[f] \in Legal(f)
  /\ \A f \in RetentionFields : retention[f] \in Legal(f)

\* A POST that is about to answer, and beside which no other has been under way, has
\* applied every value in range of its body, and the file has just the settings
\* in force.
AnswerTellsTheFile ==
  \A t \in Threads : pc[t] = "reply" /\ alone[t] =>
    /\ file = cfg
    /\ \A f \in Fields : body[t][f] \in Values => cfg[f] = body[t][f]

\* What a start that is told to read the file beside the database finds there is the
\* configuration of the last undisturbed save, unless another save has been begun
\* since; a request that fails, a crash before the file is opened, a start from
\* another file and a file spoilt earlier make no difference.
FileKeepsTheSave == kept => Load(file) = saved

\* README.md:88: the installed service's configuration is config.json beside the
\* database. A start brings back the configuration of the last undisturbed save.
RestartKeepsSettings == [][~running /\ running' /\ kept => cfg' = saved]_vars
=============================================================================
