---------------------------- MODULE ToolInvocation ----------------------------
(***************************************************************************)
(* One call of a tool, carried by both transports of the Go SDK: by a      *)
(* subprocess (execute in run.go) and in the host (InvokeInProcess).  Each *)
(* finds the tool, loads artifacts, fills the parameters, runs the         *)
(* handler, writes its artifacts to files and answers.  The handler may    *)
(* call the LLM: in the subprocess over the connection of LlmCalls, which  *)
(* is closed after the answer is written; in the host through a function.  *)
(*                                                                         *)
(* The transports share no state, they get the same call.  Signals, and    *)
(* failures to read the arguments or write the result file, are ToolCall's.*)
(***************************************************************************)
EXTENDS ToolParameters, LlmCalls

CONSTANTS
    Tools,      \* tools: params and shown (types), calls (BOOLEAN), outcomes
    Values,     \* JSON values an argument may have
    Names,      \* names of data objects
    NoName,     \* the empty name
    Paths,      \* paths of files in the output directory
    PathOf,     \* the path that a name comes to when it is joined and cleaned
    Unwritable, \* names that lead out of the directory or to no file that opens
    Unfinished  \* names for which a file is emptied, and writing to it fails

ASSUME NamesAssumption ==
    /\ NoName \in Names /\ Unwritable \subseteq Names /\ Unfinished \subseteq Names
    /\ PathOf \in [Names -> Paths]
ASSUME ArgumentsAssumption == Values \subseteq JSONValues

\* NewTool looks through pointers to the parameters, and panics on an interface.
ASSUME ToolsAssumption ==
    \A tool \in Tools :
        /\ tool.params \in GoTypes /\ tool.params.kind \notin {"pointer", "interface"}
        /\ tool.shown \in GoTypes
        /\ \A o \in tool.outcomes :
              /\ o.saves \subseteq Paths
              /\ Len(o.objects) \in Nat /\ DOMAIN o.objects = 1 .. Len(o.objects)
              /\ \A i \in DOMAIN o.objects : o.objects[i].name \in Names

Subprocess == "subprocess"
InProcess  == "in process"
Transports == {Subprocess, InProcess}

Nothing == "nothing"    \* no content, no file
Saved   == "saved"      \* what the handler writes to a file itself
Torn    == "torn"       \* what a failed write leaves of a file

VARIABLES
    call,       \* what is asked, and what the handler will do
    pc,         \* how far each transport is
    objects,    \* the artifacts it loaded, a sequence for each parameter
    params,     \* the JSON its parameters were unmarshaled from
    result,     \* the data objects of the handler's result
    files,      \* the content of each file of the output directory
    answer      \* what it answers

invocation == <<call, pc, objects, params, result, files, answer>>
vars       == <<invocation, llm>>

-----------------------------------------------------------------------------
\* The tool definition the host is shown.  A dynamic schema replaces the
\* parameters but not the artifacts, which stay those of the struct.
SchemaOutput(tool) ==
    [parameters |-> SchemaFromStruct(tool.shown), artifacts |-> ArtifactParams(tool.params)]

\* How many artifacts the host stages for a parameter: one for each file name.
Filenames(v) ==
    CASE v.json = "string" -> 1
      [] v.json = "array"  -> Cardinality({i \in DOMAIN v.items : v.items[i].json = "string"})
      [] OTHER             -> 0

Arguments(tool) ==
    UNION {[given -> Values] : given \in SUBSET DOMAIN SchemaOutput(tool).parameters.properties}

\* The staging of artifacts: all, none at all, or with a file that is missing.
Staging(tool) == IF ArtifactParams(tool.params) = {} THEN {"all"} ELSE {"all", "none", "missing"}

\* goInts: the host that calls in process builds numbers as Go ints, where a
\* subprocess reads float64s from runner_args.json.
Calls ==
    UNION {[tool : {tool}, found : BOOLEAN, args : Arguments(tool), staging : Staging(tool),
            goInts : BOOLEAN, outcome : tool.outcomes] : tool \in Tools}

Init ==
    /\ call \in Calls
    /\ ~call.found => call.args = <<>> /\ call.staging = "all" /\ ~call.goInts
    /\ pc = [tr \in Transports |-> "find"]
    /\ objects = [tr \in Transports |-> <<>>]
    /\ params = [tr \in Transports |-> <<>>]
    /\ result = [tr \in Transports |-> <<>>]
    /\ files = [tr \in Transports |-> [p \in Paths |-> Nothing]]
    /\ answer = [tr \in Transports |-> <<>>]
    /\ LlmInit
    /\ ~call.tool.calls => conn = "closed"

Go(tr, label) == pc' = [pc EXCEPT ![tr] = label]

Answer(tr, a) ==
    /\ Go(tr, "answered")
    /\ answer' = [answer EXCEPT ![tr] = a]

Error(why) == [status |-> "error", why |-> why]
-----------------------------------------------------------------------------
Args(tr)   == IF tr = InProcess /\ call.goInts THEN call.args
              ELSE [n \in DOMAIN call.args |-> Parsed[call.args[n]]]

\* One artifact: its version is taken from the metadata if it is a float64.
LoadSingleArtifact(tr) ==
    [version |-> IF tr = InProcess /\ call.goInts THEN 0 ELSE 1]

Staged(n) ==
    IF call.staging = "none" \/ n \notin DOMAIN call.args THEN 0 ELSE Filenames(call.args[n])

LoadFails ==
    \E n \in ArtifactParams(call.tool.params) :
        LET f == call.tool.params.fields[n] IN
        \/ Staged(n) > 0 /\ call.staging = "missing"
        \/ Staged(n) = 0 /\ ParamKind(f) = "artifact" /\ ~IsOptional(f)

FindTool(tr) ==
    /\ pc[tr] = "find"
    /\ IF call.found THEN Go(tr, "load") /\ UNCHANGED answer
       ELSE Answer(tr, Error("tool"))
    /\ UNCHANGED <<call, objects, params, result, files, llm>>

LoadArtifacts(tr) ==
    /\ pc[tr] = "load"
    /\ IF LoadFails
       THEN Answer(tr, Error("artifacts")) /\ UNCHANGED objects
       ELSE /\ Go(tr, "params")
            /\ objects' = [objects EXCEPT ![tr] =
                  [n \in ArtifactParams(call.tool.params) |->
                      [i \in 1 .. Staged(n) |-> LoadSingleArtifact(tr)]]]
            /\ UNCHANGED answer
    /\ UNCHANGED <<call, params, result, files, llm>>

\* The start of the tool's execute; a panic is recovered by invokeHandler.
Deserialize(tr) ==
    /\ pc[tr] = "params"
    /\ LET done == DeserializeParams(call.tool.params, Args(tr), objects[tr]) IN
          IF done = "ok"
          THEN /\ Go(tr, "handler")
               /\ params' = [params EXCEPT ![tr] = ParamsJSON(call.tool.params, Args(tr))]
               /\ UNCHANGED answer
          ELSE Answer(tr, Error(done)) /\ UNCHANGED params
    /\ UNCHANGED <<call, objects, result, files, llm>>

\* A goroutine of the handler calls the LLM.
HandlerCalls(c) ==
    /\ pc[Subprocess] = "handler"
    /\ call.tool.calls
    /\ StartCall(c)
    /\ UNCHANGED invocation

(***************************************************************************)
(* The handler has saved its own artifacts and returns.  A handler that    *)
(* waits for its goroutines has every answer by then; one that does not    *)
(* may leave them in their calls.                                          *)
(***************************************************************************)
HandlerReturns(tr) ==
    /\ pc[tr] = "handler"
    /\ tr = Subprocess /\ call.outcome.waits =>
          \A c \in Callers : stage[c] \notin {"waiting", "sent"}
    /\ files' = [files EXCEPT ![tr] =
          [p \in Paths |-> IF call.outcome.outputDir /\ p \in call.outcome.saves THEN Saved ELSE @[p]]]
    /\ IF call.outcome.returns \in {"error", "panic"}
       THEN Answer(tr, Error("handler")) /\ UNCHANGED result
       ELSE /\ result' = [result EXCEPT ![tr] = call.outcome.objects]
            /\ Go(tr, "extract")
            /\ UNCHANGED answer
    /\ UNCHANGED <<call, objects, params, llm>>
-----------------------------------------------------------------------------
ShouldExtractToFile(o) == o.disposition # "inline"

\* The file of an object is opened, and emptied; it is also written to the end.
Opened(o) ==
    /\ ShouldExtractToFile(o) /\ o.content # Nothing
    /\ o.name # NoName /\ o.name \notin Unwritable

Written(o) == Opened(o) /\ o.name \notin Unfinished

\* FAULTY VARIANT of Remaining: the content is dropped although no file has it.
RemainingWithoutContent(objs) ==
    [i \in DOMAIN objs |->
        IF ShouldExtractToFile(objs[i]) THEN [objs[i] EXCEPT !.content = Nothing] ELSE objs[i]]

\* What is left in the result: the content of an object that is in no file.
Remaining(objs) ==
    [i \in DOMAIN objs |->
        IF Written(objs[i]) THEN [objs[i] EXCEPT !.content = Nothing] ELSE objs[i]]

\* The files after the objects are written in turn: the last of a path stays, in the
\* state in which its write left it.
FilesAfter(objs, before) ==
    [p \in Paths |->
        LET named == {i \in DOMAIN objs : Opened(objs[i]) /\ PathOf[objs[i].name] = p}
            last  == CHOOSE i \in named : \A j \in named : j <= i
        IN  IF named = {} THEN before[p]
            ELSE IF Written(objs[last]) THEN objs[last].content ELSE Torn]

\* FAULTY VARIANT of ExtractArtifactOutputs: the host keeps every content inline.
ExtractInSubprocess(tr) ==
    /\ pc[tr] = "extract"
    /\ IF call.outcome.outputDir /\ tr = Subprocess
       THEN /\ files' = [files EXCEPT ![tr] = FilesAfter(result[tr], @)]
            /\ result' = [result EXCEPT ![tr] = Remaining(@)]
       ELSE UNCHANGED <<files, result>>
    /\ Go(tr, "answer")
    /\ UNCHANGED <<call, objects, params, answer, llm>>

ExtractArtifactOutputs(tr) ==
    /\ pc[tr] = "extract"
    /\ IF call.outcome.outputDir
       THEN /\ files' = [files EXCEPT ![tr] = FilesAfter(result[tr], @)]
            /\ result' = [result EXCEPT ![tr] = Remaining(@)]
       ELSE UNCHANGED <<files, result>>
    /\ Go(tr, "answer")
    /\ UNCHANGED <<call, objects, params, answer, llm>>

\* writeResult, or the return of InvokeInProcess: the result in its wire form.
WriteResult(tr) ==
    /\ pc[tr] = "answer"
    /\ Answer(tr, CASE call.outcome.returns = "nil" -> [status |-> "null"]
                    [] ~call.outcome.marshals       -> Error("marshal")
                    [] OTHER -> [status |-> "ok", objects |-> result[tr]])
    /\ UNCHANGED <<call, objects, params, result, files, llm>>

Step(tr) ==
    \/ FindTool(tr) \/ LoadArtifacts(tr) \/ Deserialize(tr) \/ HandlerReturns(tr)
    \/ ExtractArtifactOutputs(tr) \/ WriteResult(tr)

\* The deferred close of the context; the process ends after it.
CloseContext ==
    /\ pc[Subprocess] = "answered"
    /\ conn # "closed"
    /\ CloseClient
    /\ UNCHANGED invocation

HostStep == (HostAnswers \/ HostHangsUp) /\ UNCHANGED invocation

Next ==
    \/ \E tr \in Transports : Step(tr)
    \/ \E c \in Callers : HandlerCalls(c) \/ (CallStep(c) /\ UNCHANGED invocation)
    \/ CloseContext
    \/ HostStep

\* The host owes nothing: it need not answer, and it need not hang up.
Fairness ==
    /\ \A tr \in Transports : WF_vars(Step(tr))
    /\ \A c \in Callers : WF_vars(CallStep(c) /\ UNCHANGED invocation)
    /\ WF_vars(CloseContext)

Spec == Init /\ [][Next]_vars /\ Fairness
-----------------------------------------------------------------------------
(***************************************************************************)
(* PROPERTIES                                                              *)
(***************************************************************************)

Contents == {Nothing, Saved, Torn}
            \union {call.outcome.objects[i].content : i \in DOMAIN call.outcome.objects}

\* Every variable holds a value of its kind; a transport has an answer exactly
\* when it has answered, and the mutex is held by the one call that waits for
\* a line.
TypeOK ==
    /\ pc \in [Transports -> {"find", "load", "params", "handler", "extract", "answer", "answered"}]
    /\ files \in [Transports -> [Paths -> Contents]]
    /\ \A tr \in Transports : pc[tr] = "answered" <=> DOMAIN answer[tr] # {}
    /\ LlmTypeOK
    /\ \A c \in Callers : stage[c] = "sent" <=> mutex = c

RefusedParams(tr) ==
    /\ pc[tr] = "answered"
    /\ answer[tr].status = "error"
    /\ answer[tr].why \in {"artifacts", "error", "panic"}

(***************************************************************************)
(* The schema is a promise: arguments that conform to it, natively or with *)
(* an array or object wrapped in a string, reach the handler and with the  *)
(* meaning they had (tool.go:292-301, schema.go:55-76).  The exceptions    *)
(* are in PlainParams and Exact; and a dynamic schema of a tool whose      *)
(* parameters are a struct promises what the struct need not hold.         *)
(***************************************************************************)
SchemaIsHonoured ==
    LET t    == call.tool.params
        sent == Meant(t, call.args)
    IN  /\ call.found /\ call.staging = "all"
        /\ PlainParams(t) /\ (t.kind = "struct" => call.tool.shown = t)
        /\ PropsConform(Conforms, sent, SchemaOutput(call.tool).parameters)
        /\ \A n \in DOMAIN call.args : Exact[call.args[n]]
        => \A tr \in Transports :
              /\ ~RefusedParams(tr)
              /\ pc[tr] \notin {"find", "load", "params"} =>
                    /\ params[tr] = CleanArgs(t, sent)
                    /\ \A n \in ArtifactParams(t) :
                          Len(objects[tr][n]) =
                             IF n \in DOMAIN call.args THEN Filenames(call.args[n]) ELSE 0

\* The host gets from InvokeInProcess what a subprocess would have answered and
\* the same files, and the handler saw the same parameters (inprocess.go:53-62,
\* 119); except that Go ints keep digits a float64 loses, that one at the end of
\* int64 is then refused by the subprocess alone, and that an artifact's version
\* given as a Go int is not read.
TransportsAgree ==
    (\A tr \in Transports : pc[tr] = "answered") =>
        /\ (call.goInts => \A n \in DOMAIN call.args : StaysInRange[call.args[n]])
           => answer[Subprocess] = answer[InProcess] /\ files[Subprocess] = files[InProcess]
        /\ (call.goInts =>
               /\ \A n \in DOMAIN objects[InProcess] : objects[InProcess][n] = <<>>
               /\ \A n \in DOMAIN call.args : Exact[call.args[n]])
           => params[Subprocess] = params[InProcess] /\ objects[Subprocess] = objects[InProcess]

(***************************************************************************)
(* No content is lost on its way out: what the handler returned is in the  *)
(* result or in the file of its name, also when that file cannot be        *)
(* written (run.go:367-371); only a later object whose name comes to the   *)
(* same file takes the place of an earlier one or of a saved file, and     *)
(* empties the file even when its own content cannot be written.           *)
(***************************************************************************)
ContentKept ==
    \A tr \in Transports :
        LET given == call.outcome.objects
            Replaced(p, i) == \E j \in DOMAIN given :
                                 j > i /\ Opened(given[j]) /\ PathOf[given[j].name] = p
        IN  pc[tr] = "answered" /\ answer[tr].status = "ok" =>
              /\ \A i \in DOMAIN given :
                    \/ answer[tr].objects[i].content = given[i].content
                    \/ files[tr][PathOf[given[i].name]] = given[i].content
                    \/ Replaced(PathOf[given[i].name], i)
              /\ \A p \in call.outcome.saves :
                    call.outcome.outputDir => files[tr][p] = Saved \/ Replaced(p, 0)

(***************************************************************************)
(* Unless a host that keeps the connection open never answers a request,   *)
(* both transports answer and no call of the LLM is left behind: closing   *)
(* the connection ends the calls a handler did not wait for.               *)
(***************************************************************************)
InvocationsEnd ==
    \/ <>[]HostIsSilent
    \/ <>[](/\ \A tr \in Transports : pc[tr] = "answered"
            /\ \A c \in Callers : stage[c] \in {"idle", "returned"})
=============================================================================
